----------------------- MODULE CredentialRecoveryProofs -----------------------
(***************************************************************************)
(* What becomes of a launch's credential, for every set of scanners and    *)
(* operators, every set of credentials and every bound.                    *)
(*                                                                         *)
(* SInv says where each process may be and what its step implies: one      *)
(* lemma per conjunct, one step per action.  RInv builds on it, and says   *)
(* what of the files is a copy of what; it needs SpawnNotKilled, because a *)
(* runner killed between the spawn of codex and record_processes leaves a  *)
(* codex that no scan knows of, and a scan then commits under it.          *)
(* That the journal implements LaunchLifecycle needs neither.              *)
(***************************************************************************)
EXTENDS CredentialTransactionProofs

USE DEF At, Go, journal, files, locals, world, SetState, SetBaseline, SetRecorded,
        SetBackup, SetOutcome, SetIncident, SetVault, SetRuntime, Keep

(* The table of transitions, read from its entries.                        *)
LEMMA EdgeTable ==
  \A l \in EdgeLabels : LET next == Edge[l].next  then_ == Edge[l].then IN
    /\ l = "to_checked_out"    => next = "checked_out" /\ then_ = "spawn"
    /\ l = "to_running"        => next = "running" /\ then_ = "wait"
    /\ l = "to_codex_exited"   => next = "codex_exited" /\ then_ = "commit"
    /\ l = "to_committing"     => next = "committing_auth" /\ then_ = "matrix"
    /\ l = "to_conflict"       => next = "credential_conflict" /\ then_ = "incident"
    /\ l = "to_auth_committed" => next = "auth_committed" /\ then_ = "remove"
    /\ l = "to_cleaned"        => next = "cleaned" /\ then_ = "close"
    /\ l = "to_finished"       => next = "finished" /\ then_ = "finish_exited"
    /\ l = "to_recovered"      => next = "recovered" /\ then_ = "finish_recovered"
    /\ l = "early_recovered"   => next = "recovered" /\ then_ = "finish_recovered"
BY DEF EdgeLabels, Edge

(* NULL, no file and an unreadable one are no credential, and no state.     *)
LEMMA NoneFacts ==
  /\ None \notin Creds /\ None # Missing /\ None # Invalid /\ Missing \notin Creds
  /\ Invalid \notin Creds
  /\ None \notin {"preparing", "checked_out", "running", "codex_exited",
                   "committing_auth", "auth_committed", "cleaned", "finished",
                   "recovered", "credential_conflict", "failed"}
BY ContentAssumption DEF States, Contents

(* Every process takes its own steps.                                      *)
LEMMA RolesStep ==
  ASSUME TypeOK, ReturnsHome, ReadIsFresh, Roles, [Next]_vars
  PROVE  Roles'
<1> USE ProcsFacts DEF TypeOK, ControlType, ReturnsHome, ReadIsFresh, Roles,
  RunnerSteps, ScannerSteps, OperatorSteps, SpawnWindow, Conts, Actions, EdgeLabels,
  FinishLabels, FailLabels, CheckoutLabels, CommitWork, OpWork
<1>1. CASE Launch
  BY <1>1, SMTT(30) DEF Launch, StartRunner, RunnerStart, RunnerAcquire, Checkout,
    CopyToRuntime, RecordBaseline, Spawn, Identify, RecordProcesses, Wait, RunnerExit,
    Raise, Handler
<1>2. ASSUME NEW p \in Procs, TransitionRead(p) PROVE Roles'
  BY <1>2, SMTT(30) DEF TransitionRead, Raise, Handler
<1>3. ASSUME NEW p \in Procs, TransitionWrite(p) PROVE Roles'
  BY <1>3, SMTT(30), EdgeTable DEF TransitionWrite
<1>4. ASSUME NEW p \in Procs, Leave(p) PROVE Roles'
  BY <1>4, SMTT(30) DEF Leave, NoBytes
<1>5. ASSUME NEW p \in Procs, \/ FailRead(p) \/ FailWrite(p)
                               \/ FailFinish(p) \/ FailIncident(p)
      PROVE  Roles'
  BY <1>5, SMTT(30) DEF FailRead, FailWrite, FailFinish, FailIncident, Opened
<1>6. ASSUME NEW p \in {Runner} \cup Scanners, Committing(p) PROVE Roles'
  BY <1>6, SMTT(30) DEF Committing, Commit, Matrix, Isolate, Discard, Backup,
    ConflictIncident, SaveVault, SaveBackup, WriteVault, Remove, Close, Finish,
    Verdict, Opened, Raise, Handler
<1>7. ASSUME NEW s \in Scanners, Recovery(s) PROVE Roles'
  BY <1>7, SMTT(30) DEF Recovery, Scan, ScanLock, Classify, OrphanSeen, Classes,
    OrphanIncident, RecoverPreparing, EarlyRemove, Ambiguous, PostCommit, ScanDone,
    ScanIncident, Opened, Raise, Handler
<1>8. ASSUME NEW o \in Operators, Resolution(o) PROVE Roles'
  BY <1>8, SMTT(30) DEF Resolution, Resolve, ResolveLock, Apply, ResolveBackup,
    ResolveWrite, ResolveClear, ResolveClose
<1>9. CASE Environment
  BY <1>9, SMTT(30) DEF Environment, CodexRefresh, CodexExit, ForeignVault,
    DamageVault, CrashRunner, CrashDaemon, NoBytes
<1>10. CASE UNCHANGED vars
  BY <1>10 DEF vars
<1> QED BY <1>1, <1>2, <1>3, <1>4, <1>5, <1>6, <1>7, <1>8, <1>9, <1>10 DEF Next, Step,
  Shared

(* The state is where the runner's own step left it: no one else moves it  *)
(* while the runner has the locks.                                         *)
LEMMA RunnerStatesStep ==
  ASSUME TypeOK, LocksHeld, ReturnsHome, ReadIsFresh, Roles, RunnerStates, [Next]_vars
  PROVE  RunnerStates'
<1> USE ProcsFacts DEF TypeOK, ControlType, JournalType, LocksHeld, Locked,
  ReturnsHome, ReadIsFresh, Roles, RunnerStates, RunnerSteps, SpawnWindow, Conts,
  Actions, EdgeLabels, FinishLabels, FailLabels, CheckoutLabels, CommitWork, OpWork
<1>1. CASE Launch
  BY <1>1, SMTT(30) DEF Launch, StartRunner, RunnerStart, RunnerAcquire, Checkout,
    CopyToRuntime, RecordBaseline, Spawn, Identify, RecordProcesses, Wait, RunnerExit,
    Raise, Handler
<1>2. ASSUME NEW p \in Procs, TransitionRead(p) PROVE RunnerStates'
  BY <1>2, SMTT(30) DEF TransitionRead, Raise, Handler
<1>3. ASSUME NEW p \in Procs, TransitionWrite(p) PROVE RunnerStates'
  <2>1. CASE p = Runner
    <3>1. state' = (IF state = seen[Runner] THEN Edge[pc[Runner]].next ELSE state)
      BY <1>3, <2>1 DEF TransitionWrite
    <3>2. pc'[Runner] = Edge[pc[Runner]].then /\ pc[Runner] \in EdgeLabels
      BY <1>3, <2>1 DEF TransitionWrite
    <3>3. state \in {seen[Runner], "failed"}
      BY <1>3, <2>1 DEF TransitionWrite
    <3> QED BY <3>1, <3>2, <3>3, EdgeTable
  <2>2. CASE p # Runner
    <3>1. lock = p /\ pc'[Runner] = pc[Runner]
      BY <1>3, <2>2 DEF TransitionWrite
    <3>2. pc[Runner] \in {"absent", "start", "acquire"} =>
            state' \in {"preparing", "recovered", "failed"}
      <4>1. \/ state' = state
            \/ /\ Permits(state, state') /\ state' = Edge[pc[p]].next
               /\ pc[p] \in EdgeLabels /\ state' \in States
        BY <1>3, TransitionLands
      <4>2. pc[p] # "to_checked_out"
        BY <2>2
      <4> QED BY <4>1, <4>2, EdgeEnds DEF Permits, Successors
    <3> QED BY <2>2, <3>1, <3>2
  <2> QED BY <2>1, <2>2
<1>4. ASSUME NEW p \in Procs, Leave(p) PROVE RunnerStates'
  BY <1>4, SMTT(30) DEF Leave, NoBytes
<1>5. ASSUME NEW p \in Procs, \/ FailRead(p) \/ FailWrite(p)
                               \/ FailFinish(p) \/ FailIncident(p)
      PROVE  RunnerStates'
  BY <1>5, SMTT(30) DEF FailRead, FailWrite, FailFinish, FailIncident, Opened
<1>6. ASSUME NEW p \in {Runner} \cup Scanners, Committing(p) PROVE RunnerStates'
  BY <1>6, SMTT(30) DEF Committing, Commit, Matrix, Isolate, Discard, Backup,
    ConflictIncident, SaveVault, SaveBackup, WriteVault, Remove, Close, Finish,
    Verdict, Opened, Raise, Handler
<1>7. ASSUME NEW s \in Scanners, Recovery(s) PROVE RunnerStates'
  BY <1>7, SMTT(30) DEF Recovery, Scan, ScanLock, Classify, OrphanSeen, Classes,
    OrphanIncident, RecoverPreparing, EarlyRemove, Ambiguous, PostCommit, ScanDone,
    ScanIncident, Opened, Raise, Handler
<1>8. ASSUME NEW o \in Operators, Resolution(o) PROVE RunnerStates'
  BY <1>8, SMTT(30) DEF Resolution, Resolve, ResolveLock, Apply, ResolveBackup,
    ResolveWrite, ResolveClear, ResolveClose
<1>9. CASE Environment
  BY <1>9, SMTT(30) DEF Environment, CodexRefresh, CodexExit, ForeignVault,
    DamageVault, CrashRunner, CrashDaemon, NoBytes
<1>10. CASE UNCHANGED vars
  BY <1>10 DEF vars
<1> QED BY <1>1, <1>2, <1>3, <1>4, <1>5, <1>6, <1>7, <1>8, <1>9, <1>10 DEF Next, Step,
  Shared

(* There is no codex before the spawn, and nothing to see of one.          *)
LEMMA BeforeSpawnStep ==
  ASSUME TypeOK, ReturnsHome, Roles, RunnerStates, BeforeSpawn, [Next]_vars
  PROVE  BeforeSpawn'
<1> USE ProcsFacts, NoneFacts DEF TypeOK, ControlType, JournalType, ReturnsHome,
  Roles, RunnerStates, BeforeSpawn, RunnerSteps, Early, Late, Conts, Actions,
  SpawnWindow, EdgeLabels, FinishLabels, FailLabels, CheckoutLabels, CommitWork,
  OpWork
<1>1. CASE Launch
  BY <1>1, SMTT(30) DEF Launch, StartRunner, RunnerStart, RunnerAcquire, Checkout,
    CopyToRuntime, RecordBaseline, Spawn, Identify, RecordProcesses, Wait, RunnerExit,
    Raise, Handler
<1>2. ASSUME NEW p \in Procs, TransitionRead(p) PROVE BeforeSpawn'
  BY <1>2, SMTT(30) DEF TransitionRead, Raise, Handler
<1>3. ASSUME NEW p \in Procs, TransitionWrite(p) PROVE BeforeSpawn'
  BY <1>3, SMTT(30), EdgeTable DEF TransitionWrite
<1>4. ASSUME NEW p \in Procs, Leave(p) PROVE BeforeSpawn'
  BY <1>4, SMTT(30) DEF Leave, NoBytes
<1>5. ASSUME NEW p \in Procs, \/ FailRead(p) \/ FailWrite(p)
                               \/ FailFinish(p) \/ FailIncident(p)
      PROVE  BeforeSpawn'
  BY <1>5, SMTT(30) DEF FailRead, FailWrite, FailFinish, FailIncident, Opened
<1>6. ASSUME NEW p \in {Runner} \cup Scanners, Committing(p) PROVE BeforeSpawn'
  BY <1>6, SMTT(30) DEF Committing, Commit, Matrix, Isolate, Discard, Backup,
    ConflictIncident, SaveVault, SaveBackup, WriteVault, Remove, Close, Finish,
    Verdict, Opened, Raise, Handler
<1>7. ASSUME NEW s \in Scanners, Recovery(s) PROVE BeforeSpawn'
  BY <1>7, SMTT(30) DEF Recovery, Scan, ScanLock, Classify, OrphanSeen, Classes,
    OrphanIncident, RecoverPreparing, EarlyRemove, Ambiguous, PostCommit, ScanDone,
    ScanIncident, Opened, Raise, Handler
<1>8. ASSUME NEW o \in Operators, Resolution(o) PROVE BeforeSpawn'
  BY <1>8, SMTT(30) DEF Resolution, Resolve, ResolveLock, Apply, ResolveBackup,
    ResolveWrite, ResolveClear, ResolveClose
<1>9. CASE Environment
  BY <1>9, SMTT(30) DEF Environment, CodexRefresh, CodexExit, ForeignVault,
    DamageVault, CrashRunner, CrashDaemon, NoBytes
<1>10. CASE UNCHANGED vars
  BY <1>10 DEF vars
<1> QED BY <1>1, <1>2, <1>3, <1>4, <1>5, <1>6, <1>7, <1>8, <1>9, <1>10 DEF Next, Step,
  Shared

(* What a scan saw is not undone.                                          *)
LEMMA ScansStep ==
  ASSUME TypeOK, BytesReady, ReturnsHome, ReadIsFresh, JournalReady, JournalAhead,
    Roles, ScansAreLater, [Next]_vars
  PROVE  ScansAreLater'
<1> USE ProcsFacts, NoneFacts, JournalFrame DEF TypeOK, ControlType, JournalType,
  ReturnsHome, ReadIsFresh, JournalReady, JournalAhead, Roles, ScansAreLater,
  RunnerSteps, Conts, Actions, SpawnWindow, EdgeLabels, FinishLabels, FailLabels,
  CheckoutLabels, CommitWork, OpWork
<1>1. CASE Launch
  BY <1>1, SMTT(30) DEF Launch, StartRunner, RunnerStart, RunnerAcquire, Checkout,
    CopyToRuntime, RecordBaseline, Spawn, Identify, RecordProcesses, Wait, RunnerExit,
    Raise, Handler
<1>2. ASSUME NEW p \in Procs, TransitionRead(p) PROVE ScansAreLater'
  BY <1>2, SMTT(30) DEF TransitionRead, Raise, Handler
<1>3. ASSUME NEW p \in Procs, TransitionWrite(p) PROVE ScansAreLater'
  BY <1>3, SMTT(30), EdgeTable DEF TransitionWrite
<1>4. ASSUME NEW p \in Procs, Leave(p) PROVE ScansAreLater'
  BY <1>4, SMTT(30) DEF Leave, NoBytes
<1>5. ASSUME NEW p \in Procs, \/ FailRead(p) \/ FailWrite(p)
                               \/ FailFinish(p) \/ FailIncident(p)
      PROVE  ScansAreLater'
  BY <1>5, SMTT(30) DEF FailRead, FailWrite, FailFinish, FailIncident, Opened
<1>6. ASSUME NEW p \in {Runner} \cup Scanners, Committing(p) PROVE ScansAreLater'
  BY <1>6, SMTT(30) DEF Committing, Commit, Matrix, Isolate, Discard, Backup,
    ConflictIncident, SaveVault, SaveBackup, WriteVault, Remove, Close, Finish,
    Verdict, Opened, Raise, Handler
<1>7. ASSUME NEW s \in Scanners, Recovery(s) PROVE ScansAreLater'
  BY <1>7, SMTT(30) DEF Recovery, Scan, ScanLock, Classify, OrphanSeen, Classes,
    OrphanIncident, RecoverPreparing, EarlyRemove, Ambiguous, PostCommit, ScanDone,
    ScanIncident, Opened, Raise, Handler
<1>8. ASSUME NEW o \in Operators, Resolution(o) PROVE ScansAreLater'
  BY <1>8, SMTT(30) DEF Resolution, Resolve, ResolveLock, Apply, ResolveBackup,
    ResolveWrite, ResolveClear, ResolveClose
<1>9. CASE Environment
  BY <1>9, SMTT(30) DEF Environment, CodexRefresh, CodexExit, ForeignVault,
    DamageVault, CrashRunner, CrashDaemon, NoBytes
<1>10. CASE UNCHANGED vars
  BY <1>10 DEF vars
<1> QED BY <1>1, <1>2, <1>3, <1>4, <1>5, <1>6, <1>7, <1>8, <1>9, <1>10 DEF Next, Step,
  Shared

(* Only a transaction that ended in conflict has a credential to resolve   *)
(* with.                                                                   *)
LEMMA EvidenceStep ==
  ASSUME TypeOK, ReturnsHome, ReadIsFresh, JournalReady, Roles, EvidenceEnds,
    [Next]_vars
  PROVE  EvidenceEnds'
<1> USE ProcsFacts, NoneFacts DEF TypeOK, ControlType, JournalType, WorldType,
  ReturnsHome, JournalReady, Roles, EvidenceEnds, RunnerSteps, OperatorSteps,
  ScannerSteps, SpawnWindow, Terminal, Conts, Actions, EdgeLabels, FinishLabels,
  FailLabels, CheckoutLabels, CommitWork, OpWork
<1> SUFFICES ASSUME state \notin Terminal PROVE EvidenceEnds'
  BY TerminalStays DEF EvidenceEnds, Terminal
<1>1. CASE Launch
  BY <1>1, SMTT(30) DEF Launch, StartRunner, RunnerStart, RunnerAcquire, Checkout,
    CopyToRuntime, RecordBaseline, Spawn, Identify, RecordProcesses, Wait, RunnerExit,
    Raise, Handler
<1>2. ASSUME NEW p \in Procs, TransitionRead(p) PROVE EvidenceEnds'
  BY <1>2, SMTT(30) DEF TransitionRead, Raise, Handler
<1>3. ASSUME NEW p \in Procs, TransitionWrite(p) PROVE EvidenceEnds'
  BY <1>3, SMTT(30), EdgeTable DEF TransitionWrite
<1>4. ASSUME NEW p \in Procs, Leave(p) PROVE EvidenceEnds'
  BY <1>4, SMTT(30) DEF Leave, NoBytes
<1>5. ASSUME NEW p \in Procs, \/ FailRead(p) \/ FailWrite(p)
                               \/ FailFinish(p) \/ FailIncident(p)
      PROVE  EvidenceEnds'
  BY <1>5, SMTT(30) DEF FailRead, FailWrite, FailFinish, FailIncident, Opened
<1>6. ASSUME NEW p \in {Runner} \cup Scanners, Committing(p) PROVE EvidenceEnds'
  <2>1. CASE Commit(p)
    BY <2>1, SMTT(30) DEF Commit, Raise, Handler
  <2>2. CASE Matrix(p)
    BY <2>2, SMTT(30) DEF Matrix, Raise, Handler
  <2>3. CASE Isolate(p)
    BY <2>3, SMTT(30) DEF Isolate, Raise, Handler
  <2>4. CASE Discard(p)
    BY <2>4, SMTT(30) DEF Discard
  <2>5. CASE Backup(p)
    BY <2>5, SMTT(30) DEF Backup
  <2>6. CASE ConflictIncident(p)
    BY <2>6, SMTT(30) DEF ConflictIncident, Opened
  <2>7. CASE SaveVault(p)
    BY <2>7, SMTT(30) DEF SaveVault
  <2>8. CASE SaveBackup(p)
    BY <2>8, SMTT(30) DEF SaveBackup
  <2>9. CASE WriteVault(p)
    BY <2>9, SMTT(30) DEF WriteVault
  <2>10. CASE Remove(p)
    BY <2>10, SMTT(30) DEF Remove
  <2>11. CASE Close(p)
    BY <2>11, SMTT(30) DEF Close
  <2>12. CASE Finish(p)
    BY <2>12, SMTT(30) DEF Finish
  <2> QED BY <1>6, <2>1, <2>2, <2>3, <2>4, <2>5, <2>6, <2>7, <2>8, <2>9, <2>10, <2>11,
    <2>12 DEF Committing
<1>7. ASSUME NEW s \in Scanners, Recovery(s) PROVE EvidenceEnds'
  BY <1>7, SMTT(30) DEF Recovery, Scan, ScanLock, Classify, OrphanSeen, Classes,
    OrphanIncident, RecoverPreparing, EarlyRemove, Ambiguous, PostCommit, ScanDone,
    ScanIncident, Opened, Raise, Handler
<1>8. ASSUME NEW o \in Operators, Resolution(o) PROVE EvidenceEnds'
  <2>1. CASE \E action \in Actions : Resolve(o, action)
    BY <2>1, SMTT(30) DEF Resolve
  <2>2. CASE ResolveLock(o)
    BY <2>2, SMTT(30) DEF ResolveLock
  <2>3. CASE Apply(o)
    BY <2>3, SMTT(30) DEF Apply
  <2>4. CASE ResolveBackup(o)
    BY <2>4, SMTT(30) DEF ResolveBackup
  <2>5. CASE ResolveWrite(o)
    BY <2>5, SMTT(30) DEF ResolveWrite
  <2>6. CASE ResolveClear(o)
    BY <2>6, SMTT(30) DEF ResolveClear
  <2>7. CASE ResolveClose(o)
    BY <2>7, SMTT(30) DEF ResolveClose
  <2> QED BY <1>8, <2>1, <2>2, <2>3, <2>4, <2>5, <2>6, <2>7 DEF Resolution
<1>9. CASE Environment
  <2>1. CASE CodexRefresh \/ CodexExit \/ ForeignVault \/ DamageVault
    BY <2>1 DEF CodexRefresh, CodexExit, ForeignVault, DamageVault
  <2>2. CASE CrashRunner
    BY <2>2, SMTT(30) DEF CrashRunner, NoBytes
  <2>3. CASE CrashDaemon
    BY <2>3, SMTT(30) DEF CrashDaemon, NoBytes
  <2> QED BY <1>9, <2>1, <2>2, <2>3 DEF Environment
<1>10. CASE UNCHANGED vars
  BY <1>10 DEF vars
<1> QED BY <1>1, <1>2, <1>3, <1>4, <1>5, <1>6, <1>7, <1>8, <1>9, <1>10 DEF Next, Step,
  Shared

(* A runner that is not killed in the spawn window watches codex, or leaves*)
(* its identity to the scans.                                              *)
LEMMA WatchStep ==
  ASSUME TypeOK, LocksHeld, ReturnsHome, ReadIsFresh, JournalReady, JournalAhead,
    Roles, RunnerStates, BeforeSpawn, ScansAreLater, CodexWatched, CrashRunner =>
    pc[Runner] \notin SpawnWindow, [Next]_vars
  PROVE  CodexWatched'
<1> USE ProcsFacts, NoneFacts DEF TypeOK, ControlType, JournalType, LocksHeld, Locked,
  ReturnsHome, ReadIsFresh, Roles, RunnerSteps, ScannerSteps, OperatorSteps,
  SpawnWindow, Conts, Actions, EdgeLabels, FinishLabels, FailLabels, CheckoutLabels,
  CommitWork, OpWork, WorldType, JournalReady, JournalAhead, RunnerStates,
  BeforeSpawn, ScansAreLater, CodexWatched, Exited, Early, Late
<1>1. CASE Launch
  <2>1. CASE StartRunner
    BY <2>1, SMTT(30) DEF StartRunner
  <2>2. CASE RunnerStart
    BY <2>2, SMTT(30) DEF RunnerStart
  <2>3. CASE RunnerAcquire
    BY <2>3, SMTT(30) DEF RunnerAcquire
  <2>4. CASE Checkout
    BY <2>4, SMTT(30) DEF Checkout, Raise, Handler
  <2>5. CASE CopyToRuntime
    BY <2>5, SMTT(30) DEF CopyToRuntime
  <2>6. CASE RecordBaseline
    BY <2>6, SMTT(30) DEF RecordBaseline
  <2>7. CASE Spawn
    BY <2>7, SMTT(30) DEF Spawn
  <2>8. CASE Identify
    BY <2>8, SMTT(30) DEF Identify
  <2>9. CASE RecordProcesses
    BY <2>9, SMTT(30) DEF RecordProcesses
  <2>10. CASE Wait
    BY <2>10, SMTT(30) DEF Wait
  <2>11. CASE RunnerExit
    BY <2>11, SMTT(30) DEF RunnerExit
  <2> QED BY <1>1, <2>1, <2>2, <2>3, <2>4, <2>5, <2>6, <2>7, <2>8, <2>9, <2>10, <2>11
    DEF Launch
<1>2. ASSUME NEW p \in Procs, TransitionRead(p) PROVE CodexWatched'
  <2>1. CASE codex # "alive"
    BY <1>2, <2>1 DEF TransitionRead, Raise
  <2>2. CASE codex = "alive"
    <3>1. \/ seen' = [seen EXCEPT ![p] = state] /\ UNCHANGED pc
          \/ /\ UNCHANGED seen /\ ~Permits(state, Edge[pc[p]].next)
             /\ pc' = [pc EXCEPT ![p] = Handler(p)]
      BY <1>2 DEF TransitionRead, Raise
    <3>2. Handler(p) \in {"fail", "ambiguous", "leave"}
      BY DEF Handler
    <3>3. UNCHANGED <<codex, state, recorded>> /\ pc[p] \in EdgeLabels
      BY <1>2 DEF TransitionRead
    <3>4. ASSUME p = Runner, ~Permits(state, Edge[pc[p]].next)
          PROVE  recorded /\ state # "checked_out"
      BY <2>2, <3>3, <3>4, EdgeTable DEF Permits, Successors
    <3>5. CASE seen' = [seen EXCEPT ![p] = state] /\ UNCHANGED pc
      BY <2>2, <3>3, <3>5
    <3>6. CASE /\ UNCHANGED seen /\ ~Permits(state, Edge[pc[p]].next)
               /\ pc' = [pc EXCEPT ![p] = Handler(p)]
      <4>1. pc'[p] \notin Exited
        BY <3>2, <3>6
      <4>2. \A q \in Procs : pc'[q] \in Exited => pc[q] \in Exited
        BY <3>6, <4>1
      <4> HIDE DEF Exited, Labels, Handler
      <4> QED BY <2>2, <3>2, <3>3, <3>4, <3>6, <4>2
    <3> QED BY <3>1, <3>5, <3>6
  <2> QED BY <2>1, <2>2
<1>3. ASSUME NEW p \in Procs, TransitionWrite(p) PROVE CodexWatched'
  <2>1. CASE codex # "alive"
    BY <1>3, <2>1 DEF TransitionWrite
  <2>2. CASE codex = "alive"
    <3>1. pc[p] \in {"to_running", "to_finished", "to_recovered"}
      BY <1>3, <2>2 DEF TransitionWrite
    <3>2. \/ state' = state
          \/ state' = "running" /\ pc[p] = "to_running"
      BY <1>3, <2>2, <3>1, TransitionLands, EdgeTable DEF Permits, Successors
    <3>3. /\ UNCHANGED <<codex, recorded>>
          /\ seen' = [seen EXCEPT ![p] = None]
          /\ pc' = [pc EXCEPT ![p] = Edge[pc[p]].then]
      BY <1>3 DEF TransitionWrite
    <3>4. pc[p] = "to_running" => p = Runner /\ recorded
      OBVIOUS
    <3> QED BY <2>2, <3>1, <3>2, <3>3, <3>4, EdgeTable
  <2> QED BY <2>1, <2>2
<1>4. ASSUME NEW p \in Procs, Leave(p) PROVE CodexWatched'
  BY <1>4, SMTT(30) DEF Leave, NoBytes
<1>5. ASSUME NEW p \in Procs, \/ FailRead(p) \/ FailWrite(p)
                               \/ FailFinish(p) \/ FailIncident(p)
      PROVE  CodexWatched'
  BY <1>5, SMTT(30) DEF FailRead, FailWrite, FailFinish, FailIncident, Opened
<1>6. ASSUME NEW p \in {Runner} \cup Scanners, Committing(p) PROVE CodexWatched'
  <2>1. CASE Commit(p)
    BY <2>1, SMTT(30) DEF Commit, Raise, Handler
  <2>2. CASE Matrix(p)
    BY <2>2, SMTT(30) DEF Matrix, Verdict, Raise, Handler
  <2>3. CASE Isolate(p)
    BY <2>3, SMTT(30) DEF Isolate, Raise, Handler
  <2>4. CASE Discard(p)
    BY <2>4, SMTT(30) DEF Discard
  <2>5. CASE Backup(p)
    BY <2>5, SMTT(30) DEF Backup
  <2>6. CASE ConflictIncident(p)
    BY <2>6, SMTT(30) DEF ConflictIncident, Opened
  <2>7. CASE SaveVault(p)
    BY <2>7, SMTT(30) DEF SaveVault
  <2>8. CASE SaveBackup(p)
    BY <2>8, SMTT(30) DEF SaveBackup
  <2>9. CASE WriteVault(p)
    BY <2>9, SMTT(30) DEF WriteVault
  <2>10. CASE Remove(p)
    BY <2>10, SMTT(30) DEF Remove
  <2>11. CASE Close(p)
    BY <2>11, SMTT(30) DEF Close
  <2>12. CASE Finish(p)
    BY <2>12, SMTT(30) DEF Finish
  <2> QED BY <1>6, <2>1, <2>2, <2>3, <2>4, <2>5, <2>6, <2>7, <2>8, <2>9, <2>10, <2>11,
    <2>12 DEF Committing
<1>7. ASSUME NEW s \in Scanners, Recovery(s) PROVE CodexWatched'
  <2>1. CASE Scan(s)
    BY <2>1, SMTT(30) DEF Scan
  <2>2. CASE ScanLock(s)
    BY <2>2, SMTT(30) DEF ScanLock
  <2>3. CASE Classify(s)
    BY <2>3, SMTT(30) DEF Classify, OrphanSeen, Classes
  <2>4. CASE OrphanIncident(s)
    BY <2>4, SMTT(30) DEF OrphanIncident, Opened
  <2>5. CASE RecoverPreparing(s)
    BY <2>5, SMTT(30) DEF RecoverPreparing, Raise, Handler
  <2>6. CASE EarlyRemove(s)
    BY <2>6, SMTT(30) DEF EarlyRemove
  <2>7. CASE Ambiguous(s)
    BY <2>7, SMTT(30) DEF Ambiguous, Opened
  <2>8. CASE PostCommit(s)
    BY <2>8, SMTT(30) DEF PostCommit, Raise, Handler
  <2>9. CASE ScanDone(s)
    BY <2>9, SMTT(30) DEF ScanDone
  <2>10. CASE ScanIncident(s)
    BY <2>10, SMTT(30) DEF ScanIncident, Opened
  <2> QED BY <1>7, <2>1, <2>2, <2>3, <2>4, <2>5, <2>6, <2>7, <2>8, <2>9, <2>10 DEF
    Recovery
<1>8. ASSUME NEW o \in Operators, Resolution(o) PROVE CodexWatched'
  BY <1>8, SMTT(30) DEF Resolution, Resolve, ResolveLock, Apply, ResolveBackup,
    ResolveWrite, ResolveClear, ResolveClose
<1>9. CASE Environment
  <2>1. CASE CodexRefresh
    BY <2>1, SMTT(30) DEF CodexRefresh
  <2>2. CASE CodexExit
    BY <2>2, SMTT(30) DEF CodexExit
  <2>3. CASE ForeignVault
    BY <2>3, SMTT(30) DEF ForeignVault
  <2>4. CASE DamageVault
    BY <2>4, SMTT(30) DEF DamageVault
  <2>5. CASE CrashRunner
    BY <2>5, SMTT(30) DEF CrashRunner, NoBytes
  <2>6. CASE CrashDaemon
    BY <2>6, SMTT(30) DEF CrashDaemon, NoBytes
  <2> QED BY <1>9, <2>1, <2>2, <2>3, <2>4, <2>5, <2>6 DEF Environment
<1>10. CASE UNCHANGED vars
  BY <1>10 DEF vars
<1> QED BY <1>1, <1>2, <1>3, <1>4, <1>5, <1>6, <1>7, <1>8, <1>9, <1>10 DEF Next, Step,
  Shared

(* Only codex writes the Runtime file without the locks.                    *)
LEMMA AsReadStep ==
  ASSUME TypeOK, LocksHeld, ReturnsHome, ReadIsFresh, Roles, RunnerStates,
    CodexWatched, RuntimeAsRead, [Next]_vars
  PROVE  RuntimeAsRead'
<1> USE ProcsFacts, NoneFacts DEF TypeOK, ControlType, JournalType, LocksHeld, Locked,
  ReturnsHome, ReadIsFresh, Roles, RunnerSteps, ScannerSteps, OperatorSteps,
  SpawnWindow, Conts, Actions, EdgeLabels, FinishLabels, FailLabels, CheckoutLabels,
  CommitWork, OpWork, WorldType, RunnerStates, CodexWatched, Exited, RuntimeAsRead
<1>1. CASE Launch
  BY <1>1, SMTT(30) DEF Launch, StartRunner, RunnerStart, RunnerAcquire, Checkout,
    CopyToRuntime, RecordBaseline, Spawn, Identify, RecordProcesses, Wait, RunnerExit,
    Raise, Handler
<1>2. ASSUME NEW p \in Procs, TransitionRead(p) PROVE RuntimeAsRead'
  BY <1>2, SMTT(30) DEF TransitionRead, Raise, Handler
<1>3. ASSUME NEW p \in Procs, TransitionWrite(p) PROVE RuntimeAsRead'
  BY <1>3, SMTT(30), EdgeTable DEF TransitionWrite
<1>4. ASSUME NEW p \in Procs, Leave(p) PROVE RuntimeAsRead'
  BY <1>4, SMTT(30) DEF Leave, NoBytes
<1>5. ASSUME NEW p \in Procs, \/ FailRead(p) \/ FailWrite(p)
                               \/ FailFinish(p) \/ FailIncident(p)
      PROVE  RuntimeAsRead'
  BY <1>5, SMTT(30) DEF FailRead, FailWrite, FailFinish, FailIncident, Opened
<1>6. ASSUME NEW p \in {Runner} \cup Scanners, Committing(p) PROVE RuntimeAsRead'
  <2>1. CASE Commit(p)
    BY <2>1, SMTT(30) DEF Commit, Raise, Handler
  <2>2. CASE Matrix(p)
    BY <2>2, SMTT(30) DEF Matrix, Verdict, Raise, Handler
  <2>3. CASE Isolate(p)
    BY <2>3, SMTT(30) DEF Isolate, Raise, Handler
  <2>4. CASE Discard(p)
    BY <2>4, SMTT(30) DEF Discard
  <2>5. CASE Backup(p)
    BY <2>5, SMTT(30) DEF Backup
  <2>6. CASE ConflictIncident(p)
    BY <2>6, SMTT(30) DEF ConflictIncident, Opened
  <2>7. CASE SaveVault(p)
    BY <2>7, SMTT(30) DEF SaveVault
  <2>8. CASE SaveBackup(p)
    BY <2>8, SMTT(30) DEF SaveBackup
  <2>9. CASE WriteVault(p)
    BY <2>9, SMTT(30) DEF WriteVault
  <2>10. CASE Remove(p)
    BY <2>10, SMTT(30) DEF Remove
  <2>11. CASE Close(p)
    BY <2>11, SMTT(30) DEF Close
  <2>12. CASE Finish(p)
    BY <2>12, SMTT(30) DEF Finish
  <2> QED BY <1>6, <2>1, <2>2, <2>3, <2>4, <2>5, <2>6, <2>7, <2>8, <2>9, <2>10, <2>11,
    <2>12 DEF Committing
<1>7. ASSUME NEW s \in Scanners, Recovery(s) PROVE RuntimeAsRead'
  <2>1. CASE Scan(s)
    BY <2>1, SMTT(30) DEF Scan
  <2>2. CASE ScanLock(s)
    BY <2>2, SMTT(30) DEF ScanLock
  <2>3. CASE Classify(s)
    BY <2>3, SMTT(30) DEF Classify, OrphanSeen, Classes
  <2>4. CASE OrphanIncident(s)
    BY <2>4, SMTT(30) DEF OrphanIncident, Opened
  <2>5. CASE RecoverPreparing(s)
    BY <2>5, SMTT(30) DEF RecoverPreparing, Raise, Handler
  <2>6. CASE EarlyRemove(s)
    BY <2>6, SMTT(30) DEF EarlyRemove
  <2>7. CASE Ambiguous(s)
    BY <2>7, SMTT(30) DEF Ambiguous, Opened
  <2>8. CASE PostCommit(s)
    BY <2>8, SMTT(30) DEF PostCommit, Raise, Handler
  <2>9. CASE ScanDone(s)
    BY <2>9, SMTT(30) DEF ScanDone
  <2>10. CASE ScanIncident(s)
    BY <2>10, SMTT(30) DEF ScanIncident, Opened
  <2> QED BY <1>7, <2>1, <2>2, <2>3, <2>4, <2>5, <2>6, <2>7, <2>8, <2>9, <2>10 DEF
    Recovery
<1>8. ASSUME NEW o \in Operators, Resolution(o) PROVE RuntimeAsRead'
  BY <1>8, SMTT(30) DEF Resolution, Resolve, ResolveLock, Apply, ResolveBackup,
    ResolveWrite, ResolveClear, ResolveClose
<1>9. CASE Environment
  <2>1. CASE CodexRefresh
    BY <2>1, SMTT(30) DEF CodexRefresh
  <2>2. CASE CodexExit
    BY <2>2, SMTT(30) DEF CodexExit
  <2>3. CASE ForeignVault
    BY <2>3, SMTT(30) DEF ForeignVault
  <2>4. CASE DamageVault
    BY <2>4, SMTT(30) DEF DamageVault
  <2>5. CASE CrashRunner
    BY <2>5, SMTT(30) DEF CrashRunner, NoBytes
  <2>6. CASE CrashDaemon
    BY <2>6, SMTT(30) DEF CrashDaemon, NoBytes
  <2> QED BY <1>9, <2>1, <2>2, <2>3, <2>4, <2>5, <2>6 DEF Environment
<1>10. CASE UNCHANGED vars
  BY <1>10 DEF vars
<1> QED BY <1>1, <1>2, <1>3, <1>4, <1>5, <1>6, <1>7, <1>8, <1>9, <1>10 DEF Next, Step,
  Shared

(* The losing credential stays as it was when it was compared.             *)
LEMMA LoserStep ==
  ASSUME TypeOK, LocksHeld, ReturnsHome, ReadIsFresh, Roles, RunnerStates,
    CodexWatched, RuntimeAsRead, LoserValid, [Next]_vars
  PROVE  LoserValid'
<1> USE ProcsFacts, NoneFacts DEF TypeOK, ControlType, JournalType, LocksHeld, Locked,
  ReturnsHome, ReadIsFresh, Roles, RunnerSteps, ScannerSteps, OperatorSteps,
  SpawnWindow, Conts, Actions, EdgeLabels, FinishLabels, FailLabels, CheckoutLabels,
  CommitWork, OpWork, WorldType, RunnerStates, CodexWatched, Exited, RuntimeAsRead,
  LoserValid
<1>1. CASE Launch
  BY <1>1, SMTT(30) DEF Launch, StartRunner, RunnerStart, RunnerAcquire, Checkout,
    CopyToRuntime, RecordBaseline, Spawn, Identify, RecordProcesses, Wait, RunnerExit,
    Raise, Handler
<1>2. ASSUME NEW p \in Procs, TransitionRead(p) PROVE LoserValid'
  BY <1>2, SMTT(30) DEF TransitionRead, Raise, Handler
<1>3. ASSUME NEW p \in Procs, TransitionWrite(p) PROVE LoserValid'
  BY <1>3, SMTT(30), EdgeTable DEF TransitionWrite
<1>4. ASSUME NEW p \in Procs, Leave(p) PROVE LoserValid'
  BY <1>4, SMTT(30) DEF Leave, NoBytes
<1>5. ASSUME NEW p \in Procs, \/ FailRead(p) \/ FailWrite(p)
                               \/ FailFinish(p) \/ FailIncident(p)
      PROVE  LoserValid'
  BY <1>5, SMTT(30) DEF FailRead, FailWrite, FailFinish, FailIncident, Opened
<1>6. ASSUME NEW p \in {Runner} \cup Scanners, Committing(p) PROVE LoserValid'
  <2>1. CASE Commit(p)
    BY <2>1, SMTT(30) DEF Commit, Raise, Handler
  <2>2. CASE Matrix(p)
    BY <2>2, SMTT(30) DEF Matrix, Verdict, Raise, Handler
  <2>3. CASE Isolate(p)
    BY <2>3, SMTT(30) DEF Isolate, Raise, Handler
  <2>4. CASE Discard(p)
    BY <2>4, SMTT(30) DEF Discard
  <2>5. CASE Backup(p)
    BY <2>5, SMTT(30) DEF Backup
  <2>6. CASE ConflictIncident(p)
    BY <2>6, SMTT(30) DEF ConflictIncident, Opened
  <2>7. CASE SaveVault(p)
    BY <2>7, SMTT(30) DEF SaveVault
  <2>8. CASE SaveBackup(p)
    BY <2>8, SMTT(30) DEF SaveBackup
  <2>9. CASE WriteVault(p)
    BY <2>9, SMTT(30) DEF WriteVault
  <2>10. CASE Remove(p)
    BY <2>10, SMTT(30) DEF Remove
  <2>11. CASE Close(p)
    BY <2>11, SMTT(30) DEF Close
  <2>12. CASE Finish(p)
    BY <2>12, SMTT(30) DEF Finish
  <2> QED BY <1>6, <2>1, <2>2, <2>3, <2>4, <2>5, <2>6, <2>7, <2>8, <2>9, <2>10, <2>11,
    <2>12 DEF Committing
<1>7. ASSUME NEW s \in Scanners, Recovery(s) PROVE LoserValid'
  <2>1. CASE Scan(s)
    BY <2>1, SMTT(30) DEF Scan
  <2>2. CASE ScanLock(s)
    BY <2>2, SMTT(30) DEF ScanLock
  <2>3. CASE Classify(s)
    BY <2>3, SMTT(30) DEF Classify, OrphanSeen, Classes
  <2>4. CASE OrphanIncident(s)
    BY <2>4, SMTT(30) DEF OrphanIncident, Opened
  <2>5. CASE RecoverPreparing(s)
    BY <2>5, SMTT(30) DEF RecoverPreparing, Raise, Handler
  <2>6. CASE EarlyRemove(s)
    BY <2>6, SMTT(30) DEF EarlyRemove
  <2>7. CASE Ambiguous(s)
    BY <2>7, SMTT(30) DEF Ambiguous, Opened
  <2>8. CASE PostCommit(s)
    BY <2>8, SMTT(30) DEF PostCommit, Raise, Handler
  <2>9. CASE ScanDone(s)
    BY <2>9, SMTT(30) DEF ScanDone
  <2>10. CASE ScanIncident(s)
    BY <2>10, SMTT(30) DEF ScanIncident, Opened
  <2> QED BY <1>7, <2>1, <2>2, <2>3, <2>4, <2>5, <2>6, <2>7, <2>8, <2>9, <2>10 DEF
    Recovery
<1>8. ASSUME NEW o \in Operators, Resolution(o) PROVE LoserValid'
  BY <1>8, SMTT(30) DEF Resolution, Resolve, ResolveLock, Apply, ResolveBackup,
    ResolveWrite, ResolveClear, ResolveClose
<1>9. CASE Environment
  <2>1. CASE CodexRefresh
    BY <2>1, SMTT(30) DEF CodexRefresh
  <2>2. CASE CodexExit
    BY <2>2, SMTT(30) DEF CodexExit
  <2>3. CASE ForeignVault
    BY <2>3, SMTT(30) DEF ForeignVault
  <2>4. CASE DamageVault
    BY <2>4, SMTT(30) DEF DamageVault
  <2>5. CASE CrashRunner
    BY <2>5, SMTT(30) DEF CrashRunner, NoBytes
  <2>6. CASE CrashDaemon
    BY <2>6, SMTT(30) DEF CrashDaemon, NoBytes
  <2> QED BY <1>9, <2>1, <2>2, <2>3, <2>4, <2>5, <2>6 DEF Environment
<1>10. CASE UNCHANGED vars
  BY <1>10 DEF vars
<1> QED BY <1>1, <1>2, <1>3, <1>4, <1>5, <1>6, <1>7, <1>8, <1>9, <1>10 DEF Next, Step,
  Shared

(* A failure is followed up by the process that reports it.                *)
LEMMA FollowStep ==
  ASSUME TypeOK, LocksHeld, ReturnsHome, ReadIsFresh, FollowedUp, [Next]_vars
  PROVE  FollowedUp'
<1> USE ProcsFacts, NoneFacts, BoundAssumption DEF TypeOK, ControlType, JournalType,
  WorldType, ReturnsHome, ReadIsFresh, FollowedUp, Conts, Actions, EdgeLabels,
  FinishLabels, FailLabels, CheckoutLabels, CommitWork, OpWork
<1>1. CASE Launch
  BY <1>1, SMTT(30) DEF Launch, StartRunner, RunnerStart, RunnerAcquire, Checkout,
    CopyToRuntime, RecordBaseline, Spawn, Identify, RecordProcesses, Wait, RunnerExit,
    Raise, Handler
<1>2. ASSUME NEW p \in Procs, TransitionRead(p) PROVE FollowedUp'
  BY <1>2, SMTT(30) DEF TransitionRead, Raise, Handler
<1>3. ASSUME NEW p \in Procs, TransitionWrite(p) PROVE FollowedUp'
  BY <1>3, SMTT(30), EdgeTable, TransitionLands, PermittedPairs, EdgeEnds DEF
    TransitionWrite
<1>4. ASSUME NEW p \in Procs, Leave(p) PROVE FollowedUp'
  BY <1>4, SMTT(30) DEF Leave, NoBytes
<1>5. ASSUME NEW p \in Procs, \/ FailRead(p) \/ FailWrite(p)
                               \/ FailFinish(p) \/ FailIncident(p)
      PROVE  FollowedUp'
  BY <1>5, SMTT(30) DEF FailRead, FailWrite, FailFinish, FailIncident, Opened
<1>6. ASSUME NEW p \in {Runner} \cup Scanners, Committing(p) PROVE FollowedUp'
  <2>1. CASE Commit(p)
    BY <2>1, SMTT(30) DEF Commit, Raise, Handler
  <2>2. CASE Matrix(p)
    BY <2>2, SMTT(30) DEF Matrix, Verdict, Raise, Handler
  <2>3. CASE Isolate(p)
    BY <2>3, SMTT(30) DEF Isolate, Raise, Handler
  <2>4. CASE Discard(p)
    BY <2>4, SMTT(30) DEF Discard
  <2>5. CASE Backup(p)
    BY <2>5, SMTT(30) DEF Backup
  <2>6. CASE ConflictIncident(p)
    BY <2>6, SMTT(30) DEF ConflictIncident, Opened
  <2>7. CASE SaveVault(p)
    BY <2>7, SMTT(30) DEF SaveVault
  <2>8. CASE SaveBackup(p)
    BY <2>8, SMTT(30) DEF SaveBackup
  <2>9. CASE WriteVault(p)
    BY <2>9, SMTT(30) DEF WriteVault
  <2>10. CASE Remove(p)
    BY <2>10, SMTT(30) DEF Remove
  <2>11. CASE Close(p)
    BY <2>11, SMTT(30) DEF Close
  <2>12. CASE Finish(p)
    BY <2>12, SMTT(30) DEF Finish
  <2> QED BY <1>6, <2>1, <2>2, <2>3, <2>4, <2>5, <2>6, <2>7, <2>8, <2>9, <2>10, <2>11,
    <2>12 DEF Committing
<1>7. ASSUME NEW s \in Scanners, Recovery(s) PROVE FollowedUp'
  <2>1. CASE Scan(s)
    BY <2>1, SMTT(30) DEF Scan
  <2>2. CASE ScanLock(s)
    BY <2>2, SMTT(30) DEF ScanLock
  <2>3. CASE Classify(s)
    BY <2>3, SMTT(30) DEF Classify, OrphanSeen, Classes
  <2>4. CASE OrphanIncident(s)
    BY <2>4, SMTT(30) DEF OrphanIncident, Opened
  <2>5. CASE RecoverPreparing(s)
    BY <2>5, SMTT(30) DEF RecoverPreparing, Raise, Handler
  <2>6. CASE EarlyRemove(s)
    BY <2>6, SMTT(30) DEF EarlyRemove
  <2>7. CASE Ambiguous(s)
    BY <2>7, SMTT(30) DEF Ambiguous, Opened
  <2>8. CASE PostCommit(s)
    BY <2>8, SMTT(30) DEF PostCommit, Raise, Handler
  <2>9. CASE ScanDone(s)
    BY <2>9, SMTT(30) DEF ScanDone
  <2>10. CASE ScanIncident(s)
    BY <2>10, SMTT(30) DEF ScanIncident, Opened
  <2> QED BY <1>7, <2>1, <2>2, <2>3, <2>4, <2>5, <2>6, <2>7, <2>8, <2>9, <2>10 DEF
    Recovery
<1>8. ASSUME NEW o \in Operators, Resolution(o) PROVE FollowedUp'
  <2>1. CASE \E action \in Actions : Resolve(o, action)
    BY <2>1, SMTT(30) DEF Resolve
  <2>2. CASE ResolveLock(o)
    BY <2>2, SMTT(30) DEF ResolveLock
  <2>3. CASE Apply(o)
    BY <2>3, SMTT(30) DEF Apply
  <2>4. CASE ResolveBackup(o)
    BY <2>4, SMTT(30) DEF ResolveBackup
  <2>5. CASE ResolveWrite(o)
    BY <2>5, SMTT(30) DEF ResolveWrite
  <2>6. CASE ResolveClear(o)
    BY <2>6, SMTT(30) DEF ResolveClear
  <2>7. CASE ResolveClose(o)
    BY <2>7, SMTT(30) DEF ResolveClose
  <2> QED BY <1>8, <2>1, <2>2, <2>3, <2>4, <2>5, <2>6, <2>7 DEF Resolution
<1>9. CASE Environment
  <2>1. CASE CodexRefresh
    BY <2>1, SMTT(30) DEF CodexRefresh
  <2>2. CASE CodexExit
    BY <2>2, SMTT(30) DEF CodexExit
  <2>3. CASE ForeignVault
    BY <2>3, SMTT(30) DEF ForeignVault
  <2>4. CASE DamageVault
    BY <2>4, SMTT(30) DEF DamageVault
  <2>5. CASE CrashRunner
    BY <2>5, SMTT(30) DEF CrashRunner, NoBytes
  <2>6. CASE CrashDaemon
    BY <2>6, SMTT(30) DEF CrashDaemon, NoBytes
  <2> QED BY <1>9, <2>1, <2>2, <2>3, <2>4, <2>5, <2>6 DEF Environment
<1>10. CASE UNCHANGED vars
  BY <1>10 DEF vars
<1> QED BY <1>1, <1>2, <1>3, <1>4, <1>5, <1>6, <1>7, <1>8, <1>9, <1>10 DEF Next, Step,
  Shared

(* What a process is about to remove is kept.                              *)
LEMMA KeptStep ==
  ASSUME TypeOK, LocksHeld, ReturnsHome, BytesReady, ReadIsFresh, VaultSaved,
    VaultStaysValid, Roles, EvidenceEnds, CodexWatched, RuntimeAsRead, RuntimeKept,
    [Next]_vars
  PROVE  RuntimeKept'
<1> USE ProcsFacts, NoneFacts, BoundAssumption, TerminalStays DEF TypeOK, ControlType,
  JournalType, LocksHeld, Locked, ReturnsHome, Roles, RunnerSteps, ScannerSteps,
  OperatorSteps, SpawnWindow, Conts, Actions, EdgeLabels, FinishLabels, FailLabels,
  CheckoutLabels, CommitWork, OpWork, WorldType, BytesReady, VaultSaved,
  VaultStaysValid, EvidenceEnds, CodexWatched, Exited, RuntimeAsRead, RuntimeKept
<1>1. CASE Launch
  <2>1. CASE StartRunner
    BY <2>1, SMTT(30) DEF StartRunner
  <2>2. CASE RunnerStart
    BY <2>2, SMTT(30) DEF RunnerStart
  <2>3. CASE RunnerAcquire
    BY <2>3, SMTT(30) DEF RunnerAcquire
  <2>4. CASE Checkout
    BY <2>4, SMTT(30) DEF Checkout, Raise, Handler
  <2>5. CASE CopyToRuntime
    BY <2>5, SMTT(30) DEF CopyToRuntime
  <2>6. CASE RecordBaseline
    BY <2>6, SMTT(30) DEF RecordBaseline
  <2>7. CASE Spawn
    BY <2>7, SMTT(30) DEF Spawn
  <2>8. CASE Identify
    BY <2>8, SMTT(30) DEF Identify
  <2>9. CASE RecordProcesses
    BY <2>9, SMTT(30) DEF RecordProcesses
  <2>10. CASE Wait
    BY <2>10, SMTT(30) DEF Wait
  <2>11. CASE RunnerExit
    BY <2>11, SMTT(30) DEF RunnerExit
  <2> QED BY <1>1, <2>1, <2>2, <2>3, <2>4, <2>5, <2>6, <2>7, <2>8, <2>9, <2>10, <2>11
    DEF Launch
<1>2. ASSUME NEW p \in Procs, TransitionRead(p) PROVE RuntimeKept'
  BY <1>2, SMTT(30) DEF TransitionRead, Raise, Handler
<1>3. ASSUME NEW p \in Procs, TransitionWrite(p) PROVE RuntimeKept'
  BY <1>3, SMTT(30), EdgeTable DEF TransitionWrite
<1>4. ASSUME NEW p \in Procs, Leave(p) PROVE RuntimeKept'
  BY <1>4, SMTT(30) DEF Leave, NoBytes
<1>5. ASSUME NEW p \in Procs, \/ FailRead(p) \/ FailWrite(p)
                               \/ FailFinish(p) \/ FailIncident(p)
      PROVE  RuntimeKept'
  BY <1>5, SMTT(30) DEF FailRead, FailWrite, FailFinish, FailIncident, Opened
<1>6. ASSUME NEW p \in {Runner} \cup Scanners, Committing(p) PROVE RuntimeKept'
  <2>1. CASE Commit(p)
    BY <2>1, SMTT(30) DEF Commit, Raise, Handler, Terminal
  <2>2. CASE Matrix(p)
    BY <2>2, SMTT(30) DEF Matrix, Verdict, Raise, Handler
  <2>3. CASE Isolate(p)
    BY <2>3, SMTT(30) DEF Isolate, Raise, Handler
  <2>4. CASE Discard(p)
    BY <2>4, SMTT(30) DEF Discard
  <2>5. CASE Backup(p)
    BY <2>5, SMTT(30) DEF Backup
  <2>6. CASE ConflictIncident(p)
    BY <2>6, SMTT(30) DEF ConflictIncident, Opened
  <2>7. CASE SaveVault(p)
    BY <2>7, SMTT(30) DEF SaveVault
  <2>8. CASE SaveBackup(p)
    BY <2>8, SMTT(30) DEF SaveBackup
  <2>9. CASE WriteVault(p)
    BY <2>9, SMTT(30) DEF WriteVault
  <2>10. CASE Remove(p)
    BY <2>10, SMTT(30) DEF Remove
  <2>11. CASE Close(p)
    BY <2>11, SMTT(30) DEF Close
  <2>12. CASE Finish(p)
    BY <2>12, SMTT(30) DEF Finish
  <2> QED BY <1>6, <2>1, <2>2, <2>3, <2>4, <2>5, <2>6, <2>7, <2>8, <2>9, <2>10, <2>11,
    <2>12 DEF Committing
<1>7. ASSUME NEW s \in Scanners, Recovery(s) PROVE RuntimeKept'
  <2>1. CASE Scan(s)
    BY <2>1, SMTT(30) DEF Scan
  <2>2. CASE ScanLock(s)
    BY <2>2, SMTT(30) DEF ScanLock
  <2>3. CASE Classify(s)
    BY <2>3, SMTT(30) DEF Classify, OrphanSeen, Classes
  <2>4. CASE OrphanIncident(s)
    BY <2>4, SMTT(30) DEF OrphanIncident, Opened
  <2>5. CASE RecoverPreparing(s)
    BY <2>5, SMTT(30) DEF RecoverPreparing, Raise, Handler
  <2>6. CASE EarlyRemove(s)
    BY <2>6, SMTT(30) DEF EarlyRemove
  <2>7. CASE Ambiguous(s)
    BY <2>7, SMTT(30) DEF Ambiguous, Opened
  <2>8. CASE PostCommit(s)
    BY <2>8, SMTT(30) DEF PostCommit, Raise, Handler
  <2>9. CASE ScanDone(s)
    BY <2>9, SMTT(30) DEF ScanDone
  <2>10. CASE ScanIncident(s)
    BY <2>10, SMTT(30) DEF ScanIncident, Opened
  <2> QED BY <1>7, <2>1, <2>2, <2>3, <2>4, <2>5, <2>6, <2>7, <2>8, <2>9, <2>10 DEF
    Recovery
<1>8. ASSUME NEW o \in Operators, Resolution(o) PROVE RuntimeKept'
  <2>1. CASE \E action \in Actions : Resolve(o, action)
    BY <2>1, SMTT(30) DEF Resolve
  <2>2. CASE ResolveLock(o)
    BY <2>2, SMTT(30) DEF ResolveLock
  <2>3. CASE Apply(o)
    BY <2>3, SMTT(30) DEF Apply
  <2>4. CASE ResolveBackup(o)
    BY <2>4, SMTT(30) DEF ResolveBackup
  <2>5. CASE ResolveWrite(o)
    BY <2>5, SMTT(30) DEF ResolveWrite
  <2>6. CASE ResolveClear(o)
    BY <2>6, SMTT(30) DEF ResolveClear
  <2>7. CASE ResolveClose(o)
    BY <2>7, SMTT(30) DEF ResolveClose
  <2> QED BY <1>8, <2>1, <2>2, <2>3, <2>4, <2>5, <2>6, <2>7 DEF Resolution
<1>9. CASE Environment
  <2>1. CASE CodexRefresh
    BY <2>1, SMTT(30) DEF CodexRefresh
  <2>2. CASE CodexExit
    BY <2>2, SMTT(30) DEF CodexExit
  <2>3. CASE ForeignVault
    BY <2>3, SMTT(30) DEF ForeignVault
  <2>4. CASE DamageVault
    BY <2>4, SMTT(30) DEF DamageVault
  <2>5. CASE CrashRunner
    BY <2>5, SMTT(30) DEF CrashRunner, NoBytes
  <2>6. CASE CrashDaemon
    BY <2>6, SMTT(30) DEF CrashDaemon, NoBytes
  <2> QED BY <1>9, <2>1, <2>2, <2>3, <2>4, <2>5, <2>6 DEF Environment
<1>10. CASE UNCHANGED vars
  BY <1>10 DEF vars
<1> QED BY <1>1, <1>2, <1>3, <1>4, <1>5, <1>6, <1>7, <1>8, <1>9, <1>10 DEF Next, Step,
  Shared

(* A clean transaction's Runtime stays empty.                              *)
LEMMA CleanStep ==
  ASSUME TypeOK, LocksHeld, ReturnsHome, ReadIsFresh, Roles, RunnerStates,
    ScansAreLater, CodexWatched, RuntimeAsRead, CleanIsClean, [Next]_vars
  PROVE  CleanIsClean'
<1> USE ProcsFacts, NoneFacts DEF TypeOK, ControlType, JournalType, LocksHeld, Locked,
  ReturnsHome, Roles, RunnerSteps, ScannerSteps, OperatorSteps, SpawnWindow, Conts,
  Actions, EdgeLabels, FinishLabels, FailLabels, CheckoutLabels, CommitWork, OpWork,
  RunnerStates, CodexWatched, Exited, RuntimeAsRead, CleanIsClean
<1>1. CASE Launch
  BY <1>1, SMTT(30) DEF Launch, StartRunner, RunnerStart, RunnerAcquire, Checkout,
    CopyToRuntime, RecordBaseline, Spawn, Identify, RecordProcesses, Wait, RunnerExit,
    Raise, Handler
<1>2. ASSUME NEW p \in Procs, TransitionRead(p) PROVE CleanIsClean'
  BY <1>2, SMTT(30) DEF TransitionRead, Raise, Handler
<1>3. ASSUME NEW p \in Procs, TransitionWrite(p) PROVE CleanIsClean'
  <2>1. runtime' = runtime
    BY <1>3 DEF TransitionWrite
  <2>2. CASE state' = state
    BY <2>1, <2>2
  <2>3. CASE state' # state
    <3>1. /\ Permits(state, state') /\ state' = Edge[pc[p]].next
          /\ pc[p] \in EdgeLabels /\ state \in States
      BY <1>3, <2>3, TransitionLands
    <3>2. pc[p] = "to_recovered" => state # "preparing"
      BY <3>1 DEF ScansAreLater
    <3>3. pc[p] \in {"to_cleaned", "early_recovered"} => runtime = Missing
      OBVIOUS
    <3>4. CASE pc[p] \in {"to_cleaned", "early_recovered"}
      BY <2>1, <3>3, <3>4
    <3>5. CASE pc[p] \notin {"to_cleaned", "early_recovered"}
      <4>1. state \in {"cleaned", "finished", "recovered"} \/
              state' \notin {"cleaned", "finished", "recovered"}
        BY <2>3, <3>1, <3>2, <3>5, EdgeTable DEF Permits, Successors, States
      <4> QED BY <2>1, <4>1
    <3> QED BY <3>4, <3>5
  <2> QED BY <2>2, <2>3
<1>4. ASSUME NEW p \in Procs, Leave(p) PROVE CleanIsClean'
  BY <1>4, SMTT(30) DEF Leave, NoBytes
<1>5. ASSUME NEW p \in Procs, \/ FailRead(p) \/ FailWrite(p)
                               \/ FailFinish(p) \/ FailIncident(p)
      PROVE  CleanIsClean'
  BY <1>5, SMTT(30) DEF FailRead, FailWrite, FailFinish, FailIncident, Opened
<1>6. ASSUME NEW p \in {Runner} \cup Scanners, Committing(p) PROVE CleanIsClean'
  <2>1. CASE Commit(p)
    BY <2>1, SMTT(30) DEF Commit, Raise, Handler
  <2>2. CASE Matrix(p)
    BY <2>2, SMTT(30) DEF Matrix, Verdict, Raise, Handler
  <2>3. CASE Isolate(p)
    BY <2>3, SMTT(30) DEF Isolate, Raise, Handler
  <2>4. CASE Discard(p)
    BY <2>4, SMTT(30) DEF Discard
  <2>5. CASE Backup(p)
    BY <2>5, SMTT(30) DEF Backup
  <2>6. CASE ConflictIncident(p)
    BY <2>6, SMTT(30) DEF ConflictIncident, Opened
  <2>7. CASE SaveVault(p)
    BY <2>7, SMTT(30) DEF SaveVault
  <2>8. CASE SaveBackup(p)
    BY <2>8, SMTT(30) DEF SaveBackup
  <2>9. CASE WriteVault(p)
    BY <2>9, SMTT(30) DEF WriteVault
  <2>10. CASE Remove(p)
    BY <2>10, SMTT(30) DEF Remove
  <2>11. CASE Close(p)
    BY <2>11, SMTT(30) DEF Close
  <2>12. CASE Finish(p)
    BY <2>12, SMTT(30) DEF Finish
  <2> QED BY <1>6, <2>1, <2>2, <2>3, <2>4, <2>5, <2>6, <2>7, <2>8, <2>9, <2>10, <2>11,
    <2>12 DEF Committing
<1>7. ASSUME NEW s \in Scanners, Recovery(s) PROVE CleanIsClean'
  <2>1. CASE Scan(s)
    BY <2>1, SMTT(30) DEF Scan
  <2>2. CASE ScanLock(s)
    BY <2>2, SMTT(30) DEF ScanLock
  <2>3. CASE Classify(s)
    BY <2>3, SMTT(30) DEF Classify, OrphanSeen, Classes
  <2>4. CASE OrphanIncident(s)
    BY <2>4, SMTT(30) DEF OrphanIncident, Opened
  <2>5. CASE RecoverPreparing(s)
    BY <2>5, SMTT(30) DEF RecoverPreparing, Raise, Handler
  <2>6. CASE EarlyRemove(s)
    BY <2>6, SMTT(30) DEF EarlyRemove
  <2>7. CASE Ambiguous(s)
    BY <2>7, SMTT(30) DEF Ambiguous, Opened
  <2>8. CASE PostCommit(s)
    BY <2>8, SMTT(30) DEF PostCommit, Raise, Handler
  <2>9. CASE ScanDone(s)
    BY <2>9, SMTT(30) DEF ScanDone
  <2>10. CASE ScanIncident(s)
    BY <2>10, SMTT(30) DEF ScanIncident, Opened
  <2> QED BY <1>7, <2>1, <2>2, <2>3, <2>4, <2>5, <2>6, <2>7, <2>8, <2>9, <2>10 DEF
    Recovery
<1>8. ASSUME NEW o \in Operators, Resolution(o) PROVE CleanIsClean'
  BY <1>8, SMTT(30) DEF Resolution, Resolve, ResolveLock, Apply, ResolveBackup,
    ResolveWrite, ResolveClear, ResolveClose
<1>9. CASE Environment
  <2>1. CASE CodexRefresh
    BY <2>1, SMTT(30) DEF CodexRefresh
  <2>2. CASE CodexExit
    BY <2>2, SMTT(30) DEF CodexExit
  <2>3. CASE ForeignVault
    BY <2>3, SMTT(30) DEF ForeignVault
  <2>4. CASE DamageVault
    BY <2>4, SMTT(30) DEF DamageVault
  <2>5. CASE CrashRunner
    BY <2>5, SMTT(30) DEF CrashRunner, NoBytes
  <2>6. CASE CrashDaemon
    BY <2>6, SMTT(30) DEF CrashDaemon, NoBytes
  <2> QED BY <1>9, <2>1, <2>2, <2>3, <2>4, <2>5, <2>6 DEF Environment
<1>10. CASE UNCHANGED vars
  BY <1>10 DEF vars
<1> QED BY <1>1, <1>2, <1>3, <1>4, <1>5, <1>6, <1>7, <1>8, <1>9, <1>10 DEF Next, Step,
  Shared

(* The loser of a recorded conflict is a credential, and kept.             *)
LEMMA LosersStep ==
  ASSUME TypeOK, BytesReady, ReadIsFresh, JournalReady, LoserValid, ConflictKeepsBoth,
         [Next]_vars
  PROVE  ConflictKeepsBoth'
<1> USE DEF ConflictKeepsBoth
<1>1. CASE state' = state
  BY <1>1, JournalFrame, BackupFrame
<1>2. ASSUME NEW p \in Procs, FailWrite(p) PROVE ConflictKeepsBoth'
  BY <1>2 DEF FailWrite
<1>3. ASSUME NEW p \in Procs, TransitionWrite(p) PROVE ConflictKeepsBoth'
  <2>1. backup' = backup /\ isolated' = isolated
    BY <1>3 DEF TransitionWrite
  <2> QED
    BY <1>1, <1>3, <2>1, TransitionLands, EdgeEnds DEF JournalReady, LoserValid
<1> QED BY <1>1, <1>2, <1>3, StateFrame

(* The baseline is recorded once, after the copy.                          *)
LEMMA CheckoutStep ==
  ASSUME TypeOK, LocksHeld, ReturnsHome, ReadIsFresh, Roles, BeforeSpawn,
    CheckoutInOrder, [Next]_vars
  PROVE  CheckoutInOrder'
<1> USE ProcsFacts, NoneFacts DEF TypeOK, ControlType, JournalType, LocksHeld, Locked,
  ReturnsHome, Roles, RunnerSteps, ScannerSteps, OperatorSteps, SpawnWindow, Conts,
  Actions, EdgeLabels, FinishLabels, FailLabels, CheckoutLabels, CommitWork, OpWork,
  WorldType, BeforeSpawn, Early, Supervised, CheckoutInOrder
<1>1. CASE Launch
  <2>1. CASE StartRunner
    BY <2>1, SMTT(30) DEF StartRunner
  <2>2. CASE RunnerStart
    BY <2>2, SMTT(30) DEF RunnerStart
  <2>3. CASE RunnerAcquire
    BY <2>3, SMTT(30) DEF RunnerAcquire
  <2>4. CASE Checkout
    BY <2>4, SMTT(30) DEF Checkout, Raise, Handler
  <2>5. CASE CopyToRuntime
    BY <2>5, SMTT(30) DEF CopyToRuntime
  <2>6. CASE RecordBaseline
    BY <2>6, SMTT(30) DEF RecordBaseline
  <2>7. CASE Spawn
    BY <2>7, SMTT(30) DEF Spawn
  <2>8. CASE Identify
    BY <2>8, SMTT(30) DEF Identify
  <2>9. CASE RecordProcesses
    BY <2>9, SMTT(30) DEF RecordProcesses
  <2>10. CASE Wait
    BY <2>10, SMTT(30) DEF Wait
  <2>11. CASE RunnerExit
    BY <2>11, SMTT(30) DEF RunnerExit
  <2> QED BY <1>1, <2>1, <2>2, <2>3, <2>4, <2>5, <2>6, <2>7, <2>8, <2>9, <2>10, <2>11
    DEF Launch
<1>2. ASSUME NEW p \in Procs, TransitionRead(p) PROVE CheckoutInOrder'
  BY <1>2, SMTT(30) DEF TransitionRead, Raise, Handler
<1>3. ASSUME NEW p \in Procs, TransitionWrite(p) PROVE CheckoutInOrder'
  BY <1>3, SMTT(30), EdgeTable DEF TransitionWrite
<1>4. ASSUME NEW p \in Procs, Leave(p) PROVE CheckoutInOrder'
  BY <1>4, SMTT(30) DEF Leave, NoBytes
<1>5. ASSUME NEW p \in Procs, \/ FailRead(p) \/ FailWrite(p)
                               \/ FailFinish(p) \/ FailIncident(p)
      PROVE  CheckoutInOrder'
  BY <1>5, SMTT(30) DEF FailRead, FailWrite, FailFinish, FailIncident, Opened
<1>6. ASSUME NEW p \in {Runner} \cup Scanners, Committing(p) PROVE CheckoutInOrder'
  <2>1. CASE Commit(p)
    BY <2>1, SMTT(30) DEF Commit, Raise, Handler
  <2>2. CASE Matrix(p)
    BY <2>2, SMTT(30) DEF Matrix, Verdict, Raise, Handler
  <2>3. CASE Isolate(p)
    BY <2>3, SMTT(30) DEF Isolate, Raise, Handler
  <2>4. CASE Discard(p)
    BY <2>4, SMTT(30) DEF Discard
  <2>5. CASE Backup(p)
    BY <2>5, SMTT(30) DEF Backup
  <2>6. CASE ConflictIncident(p)
    BY <2>6, SMTT(30) DEF ConflictIncident, Opened
  <2>7. CASE SaveVault(p)
    BY <2>7, SMTT(30) DEF SaveVault
  <2>8. CASE SaveBackup(p)
    BY <2>8, SMTT(30) DEF SaveBackup
  <2>9. CASE WriteVault(p)
    BY <2>9, SMTT(30) DEF WriteVault
  <2>10. CASE Remove(p)
    BY <2>10, SMTT(30) DEF Remove
  <2>11. CASE Close(p)
    BY <2>11, SMTT(30) DEF Close
  <2>12. CASE Finish(p)
    BY <2>12, SMTT(30) DEF Finish
  <2> QED BY <1>6, <2>1, <2>2, <2>3, <2>4, <2>5, <2>6, <2>7, <2>8, <2>9, <2>10, <2>11,
    <2>12 DEF Committing
<1>7. ASSUME NEW s \in Scanners, Recovery(s) PROVE CheckoutInOrder'
  <2>1. CASE Scan(s)
    BY <2>1, SMTT(30) DEF Scan
  <2>2. CASE ScanLock(s)
    BY <2>2, SMTT(30) DEF ScanLock
  <2>3. CASE Classify(s)
    BY <2>3, SMTT(30) DEF Classify, OrphanSeen, Classes
  <2>4. CASE OrphanIncident(s)
    BY <2>4, SMTT(30) DEF OrphanIncident, Opened
  <2>5. CASE RecoverPreparing(s)
    BY <2>5, SMTT(30) DEF RecoverPreparing, Raise, Handler
  <2>6. CASE EarlyRemove(s)
    BY <2>6, SMTT(30) DEF EarlyRemove
  <2>7. CASE Ambiguous(s)
    BY <2>7, SMTT(30) DEF Ambiguous, Opened
  <2>8. CASE PostCommit(s)
    BY <2>8, SMTT(30) DEF PostCommit, Raise, Handler
  <2>9. CASE ScanDone(s)
    BY <2>9, SMTT(30) DEF ScanDone
  <2>10. CASE ScanIncident(s)
    BY <2>10, SMTT(30) DEF ScanIncident, Opened
  <2> QED BY <1>7, <2>1, <2>2, <2>3, <2>4, <2>5, <2>6, <2>7, <2>8, <2>9, <2>10 DEF
    Recovery
<1>8. ASSUME NEW o \in Operators, Resolution(o) PROVE CheckoutInOrder'
  <2>1. CASE \E action \in Actions : Resolve(o, action)
    BY <2>1, SMTT(30) DEF Resolve
  <2>2. CASE ResolveLock(o)
    BY <2>2, SMTT(30) DEF ResolveLock
  <2>3. CASE Apply(o)
    BY <2>3, SMTT(30) DEF Apply
  <2>4. CASE ResolveBackup(o)
    BY <2>4, SMTT(30) DEF ResolveBackup
  <2>5. CASE ResolveWrite(o)
    BY <2>5, SMTT(30) DEF ResolveWrite
  <2>6. CASE ResolveClear(o)
    BY <2>6, SMTT(30) DEF ResolveClear
  <2>7. CASE ResolveClose(o)
    BY <2>7, SMTT(30) DEF ResolveClose
  <2> QED BY <1>8, <2>1, <2>2, <2>3, <2>4, <2>5, <2>6, <2>7 DEF Resolution
<1>9. CASE Environment
  <2>1. CASE CodexRefresh
    BY <2>1, SMTT(30) DEF CodexRefresh
  <2>2. CASE CodexExit
    BY <2>2, SMTT(30) DEF CodexExit
  <2>3. CASE ForeignVault
    BY <2>3, SMTT(30) DEF ForeignVault
  <2>4. CASE DamageVault
    BY <2>4, SMTT(30) DEF DamageVault
  <2>5. CASE CrashRunner
    BY <2>5, SMTT(30) DEF CrashRunner, NoBytes
  <2>6. CASE CrashDaemon
    BY <2>6, SMTT(30) DEF CrashDaemon, NoBytes
  <2> QED BY <1>9, <2>1, <2>2, <2>3, <2>4, <2>5, <2>6 DEF Environment
<1>10. CASE UNCHANGED vars
  BY <1>10 DEF vars
<1> QED BY <1>1, <1>2, <1>3, <1>4, <1>5, <1>6, <1>7, <1>8, <1>9, <1>10 DEF Next, Step,
  Shared

(* Without a crash no commit finds two credentials to choose from.         *)
LEMMA NoLoserStep ==
  ASSUME TypeOK, LocksHeld, ReturnsHome, BytesReady, ReadIsFresh, JournalReady, Roles,
    EvidenceEnds, CheckoutInOrder, NoLoser, BaselineGuarded, [Next]_vars
  PROVE  NoLoser'
<1> USE ProcsFacts, NoneFacts DEF TypeOK, ControlType, JournalType, WorldType,
  ReturnsHome, BytesReady, JournalReady, Roles, RunnerSteps, ScannerSteps,
  OperatorSteps, Conts, Actions, NoLoser, BaselineGuarded, Supervised, SpawnWindow,
  EdgeLabels, FinishLabels, FailLabels, CheckoutLabels, CommitWork, OpWork
<1>1. CASE Launch
  BY <1>1, SMTT(30) DEF Launch, StartRunner, RunnerStart, RunnerAcquire, Checkout,
    CopyToRuntime, RecordBaseline, Spawn, Identify, RecordProcesses, Wait, RunnerExit,
    Raise, Handler
<1>2. ASSUME NEW p \in Procs, TransitionRead(p) PROVE NoLoser'
  BY <1>2, SMTT(30) DEF TransitionRead, Raise, Handler
<1>3. ASSUME NEW p \in Procs, TransitionWrite(p) PROVE NoLoser'
  BY <1>3, SMTT(30), EdgeTable, TransitionLands, EdgeEnds DEF TransitionWrite
<1>4. ASSUME NEW p \in Procs, Leave(p) PROVE NoLoser'
  BY <1>4, SMTT(30) DEF Leave, NoBytes
<1>5. ASSUME NEW p \in Procs, \/ FailRead(p) \/ FailWrite(p)
                               \/ FailFinish(p) \/ FailIncident(p)
      PROVE  NoLoser'
  BY <1>5, SMTT(30) DEF FailRead, FailWrite, FailFinish, FailIncident, Opened
<1>6. ASSUME NEW p \in {Runner} \cup Scanners, Committing(p) PROVE NoLoser'
  <2>1. CASE Commit(p)
    BY <2>1, SMTT(30) DEF Commit, Raise, Handler
  <2>2. CASE Matrix(p)
    <3>1. baseline # None => Verdict(vault, runtime, baseline) # "conflict"
      <4>1. pc[p] = "matrix" /\ lock = p
        BY <2>2 DEF Matrix, LocksHeld, Locked
      <4>2. pc[Runner] \in Supervised \cup {"to_auth_committed", "remove"} => lock = Runner
        BY DEF LocksHeld, Locked
      <4> QED BY <4>1, <4>2 DEF Verdict, CheckoutInOrder
    <3>2. UNCHANGED <<state, incident>> /\ \A q \in Procs \ {p} :
            pc'[q] = pc[q] /\ then'[q] = then[q] /\ read'[q] = read[q]
      BY <2>2 DEF Matrix, Raise
    <3>3. p \notin Operators
      BY <1>6
    <3>4. pc'[p] \in {"fail", "ambiguous", "leave", "to_auth_committed", "save_vault",
                      "isolate"}
      BY <2>2 DEF Matrix, Raise, Handler
    <3>5. then'[p] \in {"leave", then[p]}
      BY <2>2, <3>1 DEF Matrix, Raise
    <3> HIDE DEF TypeOK, ControlType, JournalType, WorldType, ReturnsHome, BytesReady,
      JournalReady, Roles, BaselineGuarded
    <3>6. \A q \in Procs : then'[q] # "incident"
                          /\ pc'[q] \notin {"to_conflict", "incident", "conflict_incident"}
      BY <3>2, <3>4, <3>5
    <3>7. \A o \in Operators : read'[o].runtime = read[o].runtime
      BY <3>2, <3>3
    <3> QED BY <3>2, <3>6, <3>7
  <2>3. CASE Isolate(p)
    BY <2>3, SMTT(30) DEF Isolate, Raise, Handler
  <2>4. CASE Discard(p)
    BY <2>4, SMTT(30) DEF Discard
  <2>5. CASE Backup(p)
    BY <2>5, SMTT(30) DEF Backup
  <2>6. CASE ConflictIncident(p)
    BY <2>6, SMTT(30) DEF ConflictIncident, Opened
  <2>7. CASE SaveVault(p)
    BY <2>7, SMTT(30) DEF SaveVault
  <2>8. CASE SaveBackup(p)
    BY <2>8, SMTT(30) DEF SaveBackup
  <2>9. CASE WriteVault(p)
    BY <2>9, SMTT(30) DEF WriteVault
  <2>10. CASE Remove(p)
    BY <2>10, SMTT(30) DEF Remove
  <2>11. CASE Close(p)
    BY <2>11, SMTT(30) DEF Close
  <2>12. CASE Finish(p)
    BY <2>12, SMTT(30) DEF Finish
  <2> QED BY <1>6, <2>1, <2>2, <2>3, <2>4, <2>5, <2>6, <2>7, <2>8, <2>9, <2>10, <2>11,
    <2>12 DEF Committing
<1>7. ASSUME NEW s \in Scanners, Recovery(s) PROVE NoLoser'
  <2>1. CASE Scan(s)
    BY <2>1, SMTT(30) DEF Scan
  <2>2. CASE ScanLock(s)
    BY <2>2, SMTT(30) DEF ScanLock
  <2>3. CASE Classify(s)
    BY <2>3, SMTT(30) DEF Classify, OrphanSeen, Classes
  <2>4. CASE OrphanIncident(s)
    BY <2>4, SMTT(30) DEF OrphanIncident, Opened
  <2>5. CASE RecoverPreparing(s)
    BY <2>5, SMTT(30) DEF RecoverPreparing, Raise, Handler
  <2>6. CASE EarlyRemove(s)
    BY <2>6, SMTT(30) DEF EarlyRemove
  <2>7. CASE Ambiguous(s)
    BY <2>7, SMTT(30) DEF Ambiguous, Opened
  <2>8. CASE PostCommit(s)
    BY <2>8, SMTT(30) DEF PostCommit, Raise, Handler
  <2>9. CASE ScanDone(s)
    BY <2>9, SMTT(30) DEF ScanDone
  <2>10. CASE ScanIncident(s)
    BY <2>10, SMTT(30) DEF ScanIncident, Opened
  <2> QED BY <1>7, <2>1, <2>2, <2>3, <2>4, <2>5, <2>6, <2>7, <2>8, <2>9, <2>10 DEF
    Recovery
<1>8. ASSUME NEW o \in Operators, Resolution(o) PROVE NoLoser'
  <2>1. CASE \E action \in Actions : Resolve(o, action)
    BY <2>1, SMTT(30) DEF Resolve
  <2>2. CASE ResolveLock(o)
    BY <2>2, SMTT(30) DEF ResolveLock
  <2>3. CASE Apply(o)
    BY <2>3, SMTT(30) DEF Apply
  <2>4. CASE ResolveBackup(o)
    BY <2>4, SMTT(30) DEF ResolveBackup
  <2>5. CASE ResolveWrite(o)
    BY <2>5, SMTT(30) DEF ResolveWrite
  <2>6. CASE ResolveClear(o)
    BY <2>6, SMTT(30) DEF ResolveClear
  <2>7. CASE ResolveClose(o)
    BY <2>7, SMTT(30) DEF ResolveClose
  <2> QED BY <1>8, <2>1, <2>2, <2>3, <2>4, <2>5, <2>6, <2>7 DEF Resolution
<1>9. CASE Environment
  <2>1. CASE CodexRefresh
    BY <2>1, SMTT(30) DEF CodexRefresh
  <2>2. CASE CodexExit
    BY <2>2, SMTT(30) DEF CodexExit
  <2>3. CASE ForeignVault
    BY <2>3, SMTT(30) DEF ForeignVault
  <2>4. CASE DamageVault
    BY <2>4, SMTT(30) DEF DamageVault
  <2>5. CASE CrashRunner
    BY <2>5, SMTT(30) DEF CrashRunner, NoBytes
  <2>6. CASE CrashDaemon
    BY <2>6, SMTT(30) DEF CrashDaemon, NoBytes
  <2> QED BY <1>9, <2>1, <2>2, <2>3, <2>4, <2>5, <2>6 DEF Environment
<1>10. CASE UNCHANGED vars
  BY <1>10 DEF vars
<1> QED BY <1>1, <1>2, <1>3, <1>4, <1>5, <1>6, <1>7, <1>8, <1>9, <1>10 DEF Next, Step,
  Shared

(* Without a crash nobody else changes the Vault between checkout and      *)
(* commit, unless the Runtime is still what was checked out.               *)
LEMMA GuardedStep ==
  ASSUME TypeOK, LocksHeld, ReturnsHome, ReadIsFresh, JournalReady, VaultSaved, Roles,
    RunnerStates, BeforeSpawn, CheckoutInOrder, CodexWatched, NoLoser,
    BaselineGuarded, ~CrashRunner, ~CrashDaemon, [Next]_vars
  PROVE  BaselineGuarded'
<1> USE ProcsFacts, NoneFacts, BoundAssumption, TerminalStays DEF TypeOK, ControlType,
  JournalType, LocksHeld, Locked, ReturnsHome, Roles, RunnerSteps, ScannerSteps,
  OperatorSteps, SpawnWindow, Conts, Actions, EdgeLabels, FinishLabels, FailLabels,
  CheckoutLabels, CommitWork, OpWork, WorldType, JournalReady, VaultSaved,
  RunnerStates, BeforeSpawn, Early, CheckoutInOrder, CodexWatched, NoLoser,
  BaselineGuarded, Exited, Supervised
<1>1. CASE Launch
  <2>1. CASE StartRunner
    BY <2>1, SMTT(30) DEF StartRunner
  <2>2. CASE RunnerStart
    BY <2>2, SMTT(30) DEF RunnerStart
  <2>3. CASE RunnerAcquire
    BY <2>3, SMTT(30) DEF RunnerAcquire
  <2>4. CASE Checkout
    BY <2>4, SMTT(30) DEF Checkout, Raise, Handler
  <2>5. CASE CopyToRuntime
    BY <2>5, SMTT(30) DEF CopyToRuntime
  <2>6. CASE RecordBaseline
    BY <2>6, SMTT(30) DEF RecordBaseline
  <2>7. CASE Spawn
    BY <2>7, SMTT(30) DEF Spawn
  <2>8. CASE Identify
    BY <2>8, SMTT(30) DEF Identify
  <2>9. CASE RecordProcesses
    BY <2>9, SMTT(30) DEF RecordProcesses
  <2>10. CASE Wait
    BY <2>10, SMTT(30) DEF Wait
  <2>11. CASE RunnerExit
    BY <2>11, SMTT(30) DEF RunnerExit
  <2> QED BY <1>1, <2>1, <2>2, <2>3, <2>4, <2>5, <2>6, <2>7, <2>8, <2>9, <2>10, <2>11
    DEF Launch
<1>2. ASSUME NEW p \in Procs, TransitionRead(p) PROVE BaselineGuarded'
  <2>1. CASE UNCHANGED pc
    BY <1>2, <2>1 DEF TransitionRead
  <2>2. CASE pc' # pc
    <3>1. /\ ~Permits(state, Edge[pc[p]].next) /\ pc[p] \in EdgeLabels
          /\ pc' = [pc EXCEPT ![p] = Handler(p)]
          /\ UNCHANGED <<state, baseline, codex, runtime>>
      BY <1>2, <2>2 DEF TransitionRead, Raise
    <3>2. Handler(p) \in {"fail", "ambiguous", "leave"}
      BY DEF Handler
    <3>3. \A q \in Procs : pc'[q] \in {"to_committing", "matrix"} =>
                            q # p /\ pc[q] \in {"to_committing", "matrix"}
      BY <3>1, <3>2
    <3>4. CASE p = Runner
      <4>1. state \in Terminal
        BY <3>1, <3>4, EdgeTable DEF Permits, Successors, Terminal
      <4>2. \A q \in Procs : pc'[q] \notin {"to_committing", "matrix"}
        BY <3>1, <3>3, <3>4
      <4> QED BY <3>1, <4>1, <4>2
    <3>5. CASE p # Runner
      <4> HIDE DEF Supervised, Handler, Labels
      <4> QED BY <3>1, <3>3, <3>5
    <3> QED BY <3>4, <3>5
  <2> QED BY <2>1, <2>2
<1>3. ASSUME NEW p \in Procs, TransitionWrite(p) PROVE BaselineGuarded'
  BY <1>3, SMTT(30), EdgeTable DEF TransitionWrite
<1>4. ASSUME NEW p \in Procs, Leave(p) PROVE BaselineGuarded'
  BY <1>4, SMTT(30) DEF Leave, NoBytes
<1>5. ASSUME NEW p \in Procs, \/ FailRead(p) \/ FailWrite(p)
                               \/ FailFinish(p) \/ FailIncident(p)
      PROVE  BaselineGuarded'
  BY <1>5, SMTT(30) DEF FailRead, FailWrite, FailFinish, FailIncident, Opened
<1>6. ASSUME NEW p \in {Runner} \cup Scanners, Committing(p) PROVE BaselineGuarded'
  <2>1. CASE Commit(p)
    BY <2>1, SMTT(30) DEF Commit, Raise, Handler, Terminal
  <2>2. CASE Matrix(p)
    BY <2>2, SMTT(30) DEF Matrix, Verdict, Raise, Handler
  <2>3. CASE Isolate(p)
    BY <2>3, SMTT(30) DEF Isolate, Raise, Handler
  <2>4. CASE Discard(p)
    BY <2>4, SMTT(30) DEF Discard
  <2>5. CASE Backup(p)
    BY <2>5, SMTT(30) DEF Backup
  <2>6. CASE ConflictIncident(p)
    BY <2>6, SMTT(30) DEF ConflictIncident, Opened
  <2>7. CASE SaveVault(p)
    BY <2>7, SMTT(30) DEF SaveVault
  <2>8. CASE SaveBackup(p)
    BY <2>8, SMTT(30) DEF SaveBackup
  <2>9. CASE WriteVault(p)
    BY <2>9, SMTT(30) DEF WriteVault
  <2>10. CASE Remove(p)
    BY <2>10, SMTT(30) DEF Remove
  <2>11. CASE Close(p)
    BY <2>11, SMTT(30) DEF Close
  <2>12. CASE Finish(p)
    BY <2>12, SMTT(30) DEF Finish
  <2> QED BY <1>6, <2>1, <2>2, <2>3, <2>4, <2>5, <2>6, <2>7, <2>8, <2>9, <2>10, <2>11,
    <2>12 DEF Committing
<1>7. ASSUME NEW s \in Scanners, Recovery(s) PROVE BaselineGuarded'
  <2>1. CASE Scan(s)
    BY <2>1, SMTT(30) DEF Scan
  <2>2. CASE ScanLock(s)
    BY <2>2, SMTT(30) DEF ScanLock
  <2>3. CASE Classify(s)
    BY <2>3, SMTT(30) DEF Classify, OrphanSeen, Classes
  <2>4. CASE OrphanIncident(s)
    BY <2>4, SMTT(30) DEF OrphanIncident, Opened
  <2>5. CASE RecoverPreparing(s)
    BY <2>5, SMTT(30) DEF RecoverPreparing, Raise, Handler
  <2>6. CASE EarlyRemove(s)
    BY <2>6, SMTT(30) DEF EarlyRemove
  <2>7. CASE Ambiguous(s)
    BY <2>7, SMTT(30) DEF Ambiguous, Opened
  <2>8. CASE PostCommit(s)
    BY <2>8, SMTT(30) DEF PostCommit, Raise, Handler
  <2>9. CASE ScanDone(s)
    BY <2>9, SMTT(30) DEF ScanDone
  <2>10. CASE ScanIncident(s)
    BY <2>10, SMTT(30) DEF ScanIncident, Opened
  <2> QED BY <1>7, <2>1, <2>2, <2>3, <2>4, <2>5, <2>6, <2>7, <2>8, <2>9, <2>10 DEF
    Recovery
<1>8. ASSUME NEW o \in Operators, Resolution(o) PROVE BaselineGuarded'
  <2>1. CASE \E action \in Actions : Resolve(o, action)
    BY <2>1, SMTT(30) DEF Resolve
  <2>2. CASE ResolveLock(o)
    BY <2>2, SMTT(30) DEF ResolveLock
  <2>3. CASE Apply(o)
    BY <2>3, SMTT(30) DEF Apply
  <2>4. CASE ResolveBackup(o)
    BY <2>4, SMTT(30) DEF ResolveBackup
  <2>5. CASE ResolveWrite(o)
    BY <2>5, SMTT(30) DEF ResolveWrite
  <2>6. CASE ResolveClear(o)
    BY <2>6, SMTT(30) DEF ResolveClear
  <2>7. CASE ResolveClose(o)
    BY <2>7, SMTT(30) DEF ResolveClose
  <2> QED BY <1>8, <2>1, <2>2, <2>3, <2>4, <2>5, <2>6, <2>7 DEF Resolution
<1>9. CASE Environment
  <2>1. CASE CodexRefresh
    BY <2>1, SMTT(30) DEF CodexRefresh
  <2>2. CASE CodexExit
    BY <2>2, SMTT(30) DEF CodexExit
  <2>3. CASE ForeignVault
    BY <2>3, SMTT(30) DEF ForeignVault
  <2>4. CASE DamageVault
    BY <2>4, SMTT(30) DEF DamageVault
  <2>5. CASE CrashRunner
    BY <2>5, SMTT(30) DEF CrashRunner, NoBytes
  <2>6. CASE CrashDaemon
    BY <2>6, SMTT(30) DEF CrashDaemon, NoBytes
  <2> QED BY <1>9, <2>1, <2>2, <2>3, <2>4, <2>5, <2>6 DEF Environment
<1>10. CASE UNCHANGED vars
  BY <1>10 DEF vars
<1> QED BY <1>1, <1>2, <1>3, <1>4, <1>5, <1>6, <1>7, <1>8, <1>9, <1>10 DEF Next, Step,
  Shared

-----------------------------------------------------------------------------
(* The invariants.                                                         *)

(* Only a crash uses the bound on crashes, only damage the one on damage.  *)
LEMMA LeftFrame ==
  ASSUME TypeOK, [Next]_vars
  PROVE  /\ left'.crash = MaxCrash =>
              left.crash = MaxCrash /\ ~CrashRunner /\ ~CrashDaemon
         /\ left'.damage = MaxDamage => left.damage = MaxDamage /\ ~DamageVault
<1>1. /\ left \in [refresh : 0..MaxRefresh, foreign : 0..MaxForeign,
                   damage : 0..MaxDamage, crash : 0..MaxCrash]
      /\ MaxCrash \in Nat /\ MaxDamage \in Nat
  BY BoundAssumption DEF TypeOK, WorldType
<1>2. /\ CrashRunner \/ CrashDaemon => left'.crash # MaxCrash
      /\ DamageVault => left'.damage # MaxDamage
  BY <1>1 DEF CrashRunner, CrashDaemon, DamageVault
<1>3. /\ left'.crash = left.crash \/ CrashRunner \/ CrashDaemon
      /\ left'.damage = left.damage \/ DamageVault
  <2>1. CASE Launch
    BY <2>1 DEF Launch, StartRunner, RunnerStart, RunnerAcquire, Checkout,
      CopyToRuntime, RecordBaseline, Spawn, Identify, RecordProcesses, Wait, RunnerExit
  <2>2. ASSUME NEW p \in Procs, Shared(p) PROVE left' = left
    BY <2>2 DEF Shared, TransitionRead, TransitionWrite, Leave, FailRead, FailWrite,
      FailFinish, FailIncident
  <2>3. ASSUME NEW p \in {Runner} \cup Scanners, Committing(p) PROVE left' = left
    BY <2>3 DEF Committing, Commit, Matrix, Isolate, Discard, Backup, ConflictIncident,
      SaveVault, SaveBackup, WriteVault, Remove, Close, Finish
  <2>4. ASSUME NEW s \in Scanners, Recovery(s) PROVE left' = left
    BY <2>4 DEF Recovery, Scan, ScanLock, Classify, OrphanIncident, RecoverPreparing,
      EarlyRemove, Ambiguous, PostCommit, ScanDone, ScanIncident
  <2>5. ASSUME NEW o \in Operators, Resolution(o) PROVE left' = left
    BY <2>5 DEF Resolution, Resolve, ResolveLock, Apply, ResolveBackup, ResolveWrite,
      ResolveClear, ResolveClose
  <2>6. CASE Environment
    BY <1>1, <2>6 DEF Environment, CodexRefresh, CodexExit, ForeignVault, DamageVault,
      CrashRunner, CrashDaemon
  <2>7. CASE UNCHANGED vars
    BY <2>7 DEF vars
  <2> QED BY <2>1, <2>2, <2>3, <2>4, <2>5, <2>6, <2>7 DEF Next, Step
<1> QED BY <1>2, <1>3

(* Until the first crash the runner watches codex, keeps everybody else    *)
(* from the Vault, and so leaves nothing to choose from.                   *)
LEMMA NoConflictStep ==
  ASSUME IInv, SInv, [Next]_vars
  PROVE  NoConflictYet'
<1> SUFFICES ASSUME left'.crash = MaxCrash
             PROVE  CodexWatched' /\ NoLoser' /\ BaselineGuarded'
  BY DEF NoConflictYet
<1>1. left.crash = MaxCrash /\ ~CrashRunner /\ ~CrashDaemon
  BY LeftFrame DEF IInv
<1>2. CodexWatched /\ NoLoser /\ BaselineGuarded
  BY <1>1 DEF SInv, NoConflictYet
<1>3. CodexWatched'
  BY <1>1, <1>2, WatchStep DEF IInv, SInv
<1>4. NoLoser'
  BY <1>2, NoLoserStep DEF IInv, SInv
<1>5. BaselineGuarded'
  BY <1>1, <1>2, GuardedStep DEF IInv, SInv
<1> QED BY <1>3, <1>4, <1>5

(* Where every process starts.                                             *)
LEMMA InitFacts ==
  ASSUME Init
  PROVE  /\ \A p \in Procs :
              /\ then[p] = "leave" /\ seen[p] = None /\ read[p] = NoBytes
              /\ pc[p] = IF p = Launcher THEN "start_runner"
                         ELSE IF p = Runner THEN "absent" ELSE "idle"
         /\ state = "preparing" /\ baseline = None /\ codex = "none"
         /\ refreshed = None /\ incident = NoIncident
         /\ runtime = Missing /\ vault \in Creds
         /\ left.crash = MaxCrash /\ left.damage = MaxDamage
BY DEF Init

LEMMA SInit == Init => SInv
<1> SUFFICES ASSUME Init PROVE SInv
  OBVIOUS
<1> USE ProcsFacts, NoneFacts, InitFacts
<1>1. Roles
  BY DEF Roles, RunnerSteps, ScannerSteps, OperatorSteps, SpawnWindow, CheckoutLabels,
    OpWork, FailLabels
<1>2. RunnerStates
  BY DEF RunnerStates, SpawnWindow, CommitWork
<1>3. BeforeSpawn
  BY DEF BeforeSpawn, Late
<1>4. ScansAreLater
  BY DEF ScansAreLater
<1>5. EvidenceEnds
  BY DEF EvidenceEnds, NoIncident, NoBytes
<1>6. CheckoutInOrder
  BY DEF CheckoutInOrder, Supervised, SpawnWindow, CommitWork
<1>7. CodexWatched
  BY DEF CodexWatched, Exited, CommitWork, Late
<1>8. NoLoser
  BY DEF NoLoser, NoIncident, NoBytes
<1>9. BaselineGuarded
  BY DEF BaselineGuarded
<1>10. FollowedUp
  BY DEF FollowedUp
<1> QED BY <1>1, <1>2, <1>3, <1>4, <1>5, <1>6, <1>7, <1>8, <1>9, <1>10
  DEF SInv, NoConflictYet

LEMMA SStep == IInv /\ SInv /\ [Next]_vars => SInv'
BY RolesStep, RunnerStatesStep, BeforeSpawnStep, ScansStep, EvidenceStep, CheckoutStep,
   NoConflictStep, FollowStep
DEF IInv, SInv

(* Every process keeps to its own steps, in the order the code takes them. *)
THEOREM StagesHold == Spec => []SInv
BY Invariance, SInit, SStep, PTL DEF Spec

(* Storage::fail and the commit open the incident of what they report:     *)
(* until a crash, a failed or conflicted launch is blocked by its incident *)
(* or the process that reported it is still on its way to open one.        *)
THEOREM FailureReported == Spec => []FailureOpensIncident
<1>1. SInv => FailureOpensIncident
  BY DEF SInv, FollowedUp, FailureOpensIncident, FailureIsBlocked, Opening, FailLabels
<1> QED BY <1>1, StagesHold, PTL
-----------------------------------------------------------------------------
(* What holds when no runner is killed between the spawn of codex and the  *)
(* record of its identity.                                                 *)

LEMMA RInit == Init => RInv
<1> SUFFICES ASSUME Init PROVE RInv
  OBVIOUS
<1> USE ProcsFacts, NoneFacts, InitFacts
<1>1. CodexWatched
  BY DEF CodexWatched, Exited, CommitWork, Late
<1>2. RuntimeAsRead /\ LoserValid
  BY DEF RuntimeAsRead, LoserValid
<1>3. RuntimeKept
  BY DEF RuntimeKept
<1>4. CleanIsClean /\ ConflictKeepsBoth
  BY DEF CleanIsClean, ConflictKeepsBoth
<1> QED BY <1>1, <1>2, <1>3, <1>4 DEF RInv

LEMMA RStep ==
  ASSUME SpawnNotKilled, IInv, SInv, RInv, [Next]_vars
  PROVE  RInv'
<1> USE DEF IInv, SInv, RInv
<1>1. CrashRunner => pc[Runner] \notin SpawnWindow
  BY DEF CrashRunner, SpawnNotKilled
<1>2. CodexWatched'
  BY <1>1, WatchStep
<1>3. RuntimeAsRead' /\ LoserValid'
  BY AsReadStep, LoserStep
<1>4. RuntimeKept'
  BY KeptStep
<1>5. CleanIsClean' /\ ConflictKeepsBoth'
  BY CleanStep, LosersStep
<1> QED BY <1>2, <1>3, <1>4, <1>5

(* What a process read of the Runtime file it may build on, and what it    *)
(* removes is kept.                                                        *)
THEOREM CustodyHolds ==
  ASSUME SpawnNotKilled
  PROVE  Spec => []RInv
<1>1. IInv /\ SInv /\ RInv /\ [Next]_vars => RInv'
  BY RStep
<1> QED BY <1>1, RInit, Invariance, StagesHold, PTL DEF Spec

(* recover_preparing, commit_and_clean and recover_after_vault_commit only *)
(* call a transaction clean once its Runtime credential is gone.           *)
THEOREM CleanMeansClean ==
  ASSUME SpawnNotKilled
  PROVE  Spec => []CleanIsClean
<1>1. RInv => CleanIsClean
  BY DEF RInv
<1> QED BY <1>1, CustodyHolds, PTL

(* commit_from_hash_matrix records a conflict with a valid loser, which is *)
(* under recovery/ and which the journal points to.                        *)
THEOREM ConflictsKeepBoth ==
  ASSUME SpawnNotKilled
  PROVE  Spec => []ConflictKeepsBoth
<1>1. RInv => ConflictKeepsBoth
  BY DEF RInv
<1> QED BY <1>1, CustodyHolds, PTL

(* The last good refresh of codex is in the Vault, in the Runtime file or  *)
(* under recovery/ after every step of a commit, a scan or another         *)
(* transaction: what replaces or removes it, keeps it.                     *)
LEMMA KeptThrough ==
  ASSUME IInv, SInv, RInv, [Next]_vars, IsKept, left'.damage = MaxDamage
  PROVE  IsKept' \/ Resolving
<1> USE ProcsFacts, NoneFacts DEF IsKept
<1>1. left.damage = MaxDamage /\ ~DamageVault
  BY LeftFrame DEF IInv
<1>2. vault \in Creds /\ refreshed \in Creds \cup {None}
  BY <1>1 DEF IInv, VaultStaysValid, TypeOK, WorldType
<1>3. ASSUME NEW p \in Procs, pc[p] \in {"remove", "early_remove"}
      PROVE  runtime \in {vault, Missing} \cup isolated
  BY <1>1, <1>3 DEF RInv, RuntimeKept
<1>4. CASE Launch
  <2>1. CASE CopyToRuntime
    BY <2>1 DEF CopyToRuntime, SInv, BeforeSpawn, Early, CheckoutLabels
  <2>2. CASE ~CopyToRuntime
    BY <1>4, <2>2 DEF Launch, StartRunner, RunnerStart, RunnerAcquire, Checkout,
      RecordBaseline, Spawn, Identify, RecordProcesses, Wait, RunnerExit
  <2> QED BY <2>1, <2>2
<1>5. ASSUME NEW p \in Procs, Shared(p) PROVE IsKept'
  BY <1>5 DEF Shared, TransitionRead, TransitionWrite, Leave, FailRead, FailWrite,
    FailFinish, FailIncident
<1>6. ASSUME NEW p \in {Runner} \cup Scanners, Committing(p) PROVE IsKept'
  <2>1. CASE Discard(p)
    BY <2>1 DEF Discard, IInv, BytesReady, RInv, RuntimeAsRead
  <2>2. CASE WriteVault(p)
    <3>1. vault \in {baseline, Invalid} /\ baseline \in isolated
      BY <2>2 DEF WriteVault, IInv, VaultSaved
    <3> QED BY <1>2, <2>2, <3>1 DEF WriteVault
  <2>3. CASE Remove(p)
    BY <1>2, <1>3, <2>3 DEF Remove
  <2>4. CASE ~Discard(p) /\ ~WriteVault(p) /\ ~Remove(p)
    BY <1>6, <2>4 DEF Committing, Commit, Matrix, Isolate, Backup, ConflictIncident,
      SaveVault, SaveBackup, Close, Finish
  <2> QED BY <2>1, <2>2, <2>3, <2>4
<1>7. ASSUME NEW s \in Scanners, Recovery(s) PROVE IsKept'
  <2>1. CASE EarlyRemove(s)
    BY <1>2, <1>3, <2>1 DEF EarlyRemove
  <2>2. CASE ~EarlyRemove(s)
    BY <1>7, <2>2 DEF Recovery, Scan, ScanLock, Classify, OrphanIncident,
      RecoverPreparing, Ambiguous, PostCommit, ScanDone, ScanIncident
  <2> QED BY <2>1, <2>2
<1>8. ASSUME NEW o \in Operators, Resolution(o) PROVE IsKept' \/ Resolving
  <2>1. CASE ResolveWrite(o) \/ ResolveClear(o)
    BY <2>1 DEF ResolveWrite, ResolveClear, Resolving, IInv, TypeOK, ControlType
  <2>2. CASE ~ResolveWrite(o) /\ ~ResolveClear(o)
    BY <1>8, <2>2 DEF Resolution, Resolve, ResolveLock, Apply, ResolveBackup,
      ResolveClose
  <2> QED BY <2>1, <2>2
<1>9. CASE Environment
  BY <1>1, <1>9 DEF Environment, CodexRefresh, CodexExit, ForeignVault, CrashRunner,
    CrashDaemon
<1>10. CASE UNCHANGED vars
  BY <1>10 DEF vars
<1> QED BY <1>4, <1>5, <1>6, <1>7, <1>8, <1>9, <1>10 DEF Next, Step

(* The credential codex refreshed last is not lost, through every commit,  *)
(* crash and recovery: only a resolution, or damage from outside, drops it.*)
THEOREM NothingLost ==
  ASSUME SpawnNotKilled
  PROVE  Spec => RefreshSurvives
<1> DEFINE Lost == IsKept /\ left'.damage = MaxDamage /\ ~(IsKept' \/ Resolving)
<1>1. IInv /\ SInv /\ RInv /\ [Next]_vars => [~Lost]_vars
  BY KeptThrough
<1>2. [~Lost]_vars => [IsKept /\ left'.damage = MaxDamage => IsKept' \/ Resolving]_vars
  OBVIOUS
<1> HIDE DEF Lost
<1> QED BY <1>1, <1>2, CustodyHolds, Invariance, StagesHold, PTL
  DEF Spec, RefreshSurvives

(* No commit and no scan touches the Runtime file under a living codex.    *)
LEMMA Untouched ==
  ASSUME IInv, SInv, RInv, [Next]_vars, codex = "alive", runtime' # runtime
  PROVE  left' # left \/ Resolving
<1> USE ProcsFacts
<1>1. \A p \in Procs : pc[p] \notin Exited
  BY DEF RInv, CodexWatched
<1>2. CASE Launch
  BY <1>2 DEF Launch, StartRunner, RunnerStart, RunnerAcquire, Checkout, CopyToRuntime,
    RecordBaseline, Spawn, Identify, RecordProcesses, Wait, RunnerExit, SInv,
    BeforeSpawn, Early, CheckoutLabels
<1>3. ASSUME NEW p \in Procs, Shared(p) PROVE FALSE
  BY <1>3 DEF Shared, TransitionRead, TransitionWrite, Leave, FailRead, FailWrite,
    FailFinish, FailIncident
<1>4. ASSUME NEW p \in {Runner} \cup Scanners, Committing(p) PROVE FALSE
  BY <1>1, <1>4 DEF Committing, Commit, Matrix, Isolate, Discard, Backup,
    ConflictIncident, SaveVault, SaveBackup, WriteVault, Remove, Close, Finish, Exited,
    CommitWork
<1>5. ASSUME NEW s \in Scanners, Recovery(s) PROVE FALSE
  BY <1>1, <1>5 DEF Recovery, Scan, ScanLock, Classify, OrphanIncident,
    RecoverPreparing, EarlyRemove, Ambiguous, PostCommit, ScanDone, ScanIncident, Exited
<1>6. ASSUME NEW o \in Operators, Resolution(o) PROVE Resolving
  BY <1>6 DEF Resolution, Resolve, ResolveLock, Apply, ResolveBackup, ResolveWrite,
    ResolveClear, ResolveClose, Resolving, IInv, TypeOK, ControlType
<1>7. CASE Environment
  <2>1. left.refresh \in Nat
    BY BoundAssumption DEF IInv, TypeOK, WorldType
  <2>2. CodexRefresh
    BY <1>7 DEF Environment, CodexExit, ForeignVault, DamageVault, CrashRunner,
      CrashDaemon
  <2>3. left'.refresh # left.refresh
    BY <2>1, <2>2 DEF CodexRefresh, IInv, TypeOK, WorldType
  <2> QED BY <2>3
<1>8. CASE UNCHANGED vars
  BY <1>8 DEF vars
<1> QED BY <1>2, <1>3, <1>4, <1>5, <1>6, <1>7, <1>8 DEF Next, Step

(* No commit, recovery or cleanup overwrites or removes the Runtime        *)
(* credential of a codex that still runs; only an operator's resolution of *)
(* an incident does.                                                       *)
THEOREM LiveUntouched ==
  ASSUME SpawnNotKilled
  PROVE  Spec => LiveRuntimeUntouched
<1> DEFINE Touched == codex = "alive" /\ runtime' # runtime /\ ~(left' # left \/ Resolving)
<1>1. IInv /\ SInv /\ RInv /\ [Next]_vars => [~Touched]_vars
  BY Untouched
<1>2. [~Touched]_vars =>
      [codex = "alive" /\ runtime' # runtime => left' # left \/ Resolving]_vars
  OBVIOUS
<1> HIDE DEF Touched
<1> QED BY <1>1, <1>2, CustodyHolds, Invariance, StagesHold, PTL
  DEF Spec, LiveRuntimeUntouched
-----------------------------------------------------------------------------
(* The journal's promise, for any number of scans, operators and crashes,  *)
(* and a launcher that may fail at any time.                               *)

(* Only fail's own SELECT puts a process before fail's UPDATE.             *)
LEMMA FailingFrame ==
  ASSUME IInv, [Next]_vars, ~ (\E p \in Procs : FailRead(p))
  PROVE  {p \in Procs : pc[p] = "fail_write"}' \subseteq {p \in Procs : pc[p] = "fail_write"}
<1> DEFINE G == \A q \in Procs : pc'[q] = "fail_write" => pc[q] = "fail_write"
<1> USE ProcsFacts DEF IInv, TypeOK, ControlType, Conts, Actions
<1>1. CASE Launch
  BY <1>1 DEF Launch, StartRunner, RunnerStart, RunnerAcquire, Checkout, CopyToRuntime,
    RecordBaseline, Spawn, Identify, RecordProcesses, Wait, RunnerExit, Raise, Handler
<1>2. ASSUME NEW p \in Procs, Shared(p) PROVE G
  <2>1. CASE TransitionRead(p)
    BY <2>1 DEF TransitionRead, Raise, Handler
  <2>2. CASE TransitionWrite(p)
    BY <2>2, EdgeTable DEF TransitionWrite, EdgeLabels
  <2>3. CASE Leave(p)
    BY <2>3 DEF Leave
  <2>4. CASE FailWrite(p) \/ FailFinish(p) \/ FailIncident(p)
    BY <2>4 DEF FailWrite, FailFinish, FailIncident
  <2> QED BY <1>2, <2>1, <2>2, <2>3, <2>4 DEF Shared
<1>3. ASSUME NEW p \in {Runner} \cup Scanners, Committing(p) PROVE G
  BY <1>3 DEF Committing, Commit, Matrix, Isolate, Discard, Backup, ConflictIncident,
    SaveVault, SaveBackup, WriteVault, Remove, Close, Finish, Verdict, Opened, Raise,
    Handler
<1>4. ASSUME NEW s \in Scanners, Recovery(s) PROVE G
  BY <1>4 DEF Recovery, Scan, ScanLock, Classify, OrphanSeen, Classes, OrphanIncident,
    RecoverPreparing, EarlyRemove, Ambiguous, PostCommit, ScanDone, ScanIncident,
    Opened, Raise, Handler
<1>5. ASSUME NEW o \in Operators, Resolution(o) PROVE G
  BY <1>5 DEF Resolution, Resolve, ResolveLock, Apply, ResolveBackup, ResolveWrite,
    ResolveClear, ResolveClose
<1>6. CASE Environment
  BY <1>6 DEF Environment, CodexRefresh, CodexExit, ForeignVault, DamageVault,
    CrashRunner, CrashDaemon, NoBytes
<1>7. CASE UNCHANGED vars
  BY <1>7 DEF vars
<1> QED BY <1>1, <1>2, <1>3, <1>4, <1>5, <1>6, <1>7 DEF Next, Step

(* Storage::transition and Storage::fail keep the journal's promise: the   *)
(* state moves along a permitted pair, or is failed by somebody who saw it *)
(* unfinished, however many of them race.                                  *)
THEOREM ImplementsLifecycle == Spec => LifecycleSpec
<1> DEFINE F == {p \in Procs : pc[p] = "fail_write"}
<1> USE DEF Lifecycle!Terminal, Terminal, Lifecycle!vars
<1>1. Init => Lifecycle!Init
  <2> SUFFICES ASSUME Init PROVE F = {} /\ state = "preparing"
    BY DEF Lifecycle!Init
  <2> QED BY ProcsFacts DEF Init
<1>2. IInv /\ [Next]_vars => [Lifecycle!Next]_(Lifecycle!vars)
  <2> SUFFICES ASSUME IInv, [Next]_vars
               PROVE  Lifecycle!Next \/ (state' = state /\ F' = F)
    BY DEF Lifecycle!vars
  <2> USE DEF IInv, TypeOK, ControlType
  <2>1. ASSUME NEW p \in Procs, FailRead(p) PROVE Lifecycle!Next
    <3>1. CASE state \in Terminal
      <4>1. F' \subseteq F /\ state' = state
        BY <2>1, <3>1 DEF FailRead, Conts, Actions
      <4> QED BY <4>1 DEF Lifecycle!Next, Lifecycle!Abandon
    <3>2. CASE state \notin Terminal
      <4>1. F' = F \cup {p} /\ state' = state
        BY <2>1, <3>2 DEF FailRead
      <4> QED BY <4>1, <3>2 DEF Lifecycle!Next, Lifecycle!Decide
    <3> QED BY <3>1, <3>2
  <2>2. ASSUME NEW p \in Procs, FailWrite(p) PROVE Lifecycle!Next
    <3>1. p \in F /\ F' = F \ {p} /\ state' = "failed"
      BY <2>2 DEF FailWrite
    <3> QED BY <3>1 DEF Lifecycle!Next, Lifecycle!Fail
  <2>3. ASSUME NEW p \in Procs, TransitionWrite(p)
        PROVE  Lifecycle!Next \/ (state' = state /\ F' = F)
    <3>1. F' = F
      BY <2>3, EdgeTable DEF TransitionWrite, EdgeLabels
    <3>2. state' = state \/ (Permits(state, state') /\ state' \in States)
      BY <2>3, TransitionLands
    <3> QED BY <3>1, <3>2 DEF Lifecycle!Next, Lifecycle!Advance, Lifecycle!Permits,
      Lifecycle!States, Permits, States, Successors, Lifecycle!Successors
  <2>4. CASE ~ \E p \in Procs : FailRead(p) \/ FailWrite(p) \/ TransitionWrite(p)
    <3>1. state' = state
      BY <2>4, StateFrame
    <3>2. F' \subseteq F
      BY <2>4, FailingFrame
    <3> QED BY <3>1, <3>2 DEF Lifecycle!Next, Lifecycle!Abandon
  <2> QED BY <2>1, <2>2, <2>3, <2>4
<1> HIDE DEF F
<1> QED BY <1>1, <1>2, Invariance, PTL DEF Spec, LifecycleSpec, Lifecycle!Spec

(* No transition moves a transaction that ended; a fail that was decided   *)
(* before the end may still come, and nothing else.                        *)
THEOREM TerminalForGood == Spec => Lifecycle!EndsForGood
<1> DEFINE F == {p \in Procs : pc[p] = "fail_write"}
<1> USE DEF Lifecycle!Terminal, Lifecycle!vars
<1>1. [Lifecycle!Next]_(Lifecycle!vars) =>
      [(state \in Lifecycle!Terminal) =>
         state' = state \/ (F # {} /\ state' = "failed")]_(Lifecycle!vars)
  <2> SUFFICES ASSUME Lifecycle!Next, state \in Lifecycle!Terminal
               PROVE  state' = state \/ (F # {} /\ state' = "failed")
    OBVIOUS
  <2>1. ASSUME Lifecycle!Advance PROVE state' = state
    BY <2>1 DEF Lifecycle!Advance, Lifecycle!Permits, Lifecycle!Successors, Lifecycle!States
  <2>2. ASSUME NEW c \in Procs, Lifecycle!Decide(c) \/ Lifecycle!Fail(c)
        PROVE  state' = state \/ (F # {} /\ state' = "failed")
    BY <2>2 DEF Lifecycle!Decide, Lifecycle!Fail
  <2> QED BY <2>1, <2>2 DEF Lifecycle!Next, Lifecycle!Abandon
<1>2. Lifecycle!EndsForGood <=>
      [][(state \in Lifecycle!Terminal) =>
           state' = state \/ (F # {} /\ state' = "failed")]_(Lifecycle!vars)
  BY DEF Lifecycle!EndsForGood
<1> HIDE DEF F
<1> QED BY <1>1, <1>2, ImplementsLifecycle, PTL DEF LifecycleSpec, Lifecycle!Spec
=============================================================================
