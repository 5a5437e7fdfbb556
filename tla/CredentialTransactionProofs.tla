--------------------- MODULE CredentialTransactionProofs ---------------------
(***************************************************************************)
(* What holds of a launch transaction for every set of scanners and        *)
(* operators, every set of credentials and every bound.                    *)
(***************************************************************************)
EXTENDS CredentialTransaction, TLAPS

(* Where a transition leads: a state, and a label at which the locks are   *)
(* still held.                                                             *)
LEMMA EdgeNext == \A l \in EdgeLabels : Edge[l].next \in States
BY DEF EdgeLabels, Edge, States

LEMMA EdgeThen ==
  \A l \in EdgeLabels :
    Edge[l].then \in {"spawn", "wait", "commit", "matrix", "incident", "remove",
                      "close", "finish_exited", "finish_recovered"}
BY DEF EdgeLabels, Edge

LEMMA EdgeLocked == \A l \in EdgeLabels : Edge[l].then \in Locked \cap Labels
BY EdgeThen DEF Locked, Labels, FinishLabels, CommitWork

(* A terminal state is entered along an edge that ends the transaction, the*)
(* matrix is reached in committing_auth, and only a conflict has an        *)
(* incident to open.                                                       *)
LEMMA EdgeEnds ==
  \A l \in EdgeLabels :
    /\ Edge[l].then \in FinishLabels \cup {"incident"} => Edge[l].next \in Terminal
    /\ Edge[l].then = "matrix" => Edge[l].next = "committing_auth"
    /\ l = "to_conflict" => Edge[l].then = "incident"
    /\ l = "to_checked_out" <=> Edge[l].next = "checked_out"
    /\ l = "to_running" <=> Edge[l].next = "running"
    /\ l = "to_conflict" <=> Edge[l].next = "credential_conflict"
BY DEF EdgeLabels, Edge, FinishLabels, Terminal

(* The predecessors of the states the journal's evidence is about.         *)
LEMMA PermittedPairs ==
  ASSUME NEW from \in States, NEW to \in States, Permits(from, to)
  PROVE  /\ from \in Terminal => to = from
         /\ to \in {"running", "codex_exited", "committing_auth", "auth_committed",
                    "cleaned", "finished", "credential_conflict"} =>
              from = to \/ from \in {"checked_out", "running", "codex_exited",
                                     "committing_auth", "auth_committed", "cleaned"}
BY DEF States, Terminal, Permits, Successors

LEMMA ProcsFacts ==
  /\ Launcher \in Procs /\ Runner \in Procs /\ Launcher # Runner
  /\ Scanners \subseteq Procs /\ Operators \subseteq Procs
  /\ Launcher \notin Scanners \cup Operators /\ Runner \notin Scanners \cup Operators
  /\ Scanners \cap Operators = {} /\ None \notin Procs
BY ProcAssumption, ContentAssumption DEF Procs, Launcher, Runner

USE DEF At, Go, journal, files, locals, world, SetState, SetBaseline, SetRecorded,
        SetBackup, SetOutcome, SetIncident, SetVault, SetRuntime, Keep

(* Every variable keeps its type: the journal, ...                         *)
LEMMA JournalTypeStep ==
  ASSUME TypeOK, BytesReady, ReturnsHome, [Next]_vars
  PROVE  JournalType'
<1> USE ProcsFacts DEF TypeOK, JournalType, ControlType, WorldType, BytesReady,
  ReturnsHome, Contents, Actions, OpWork
<1>1. CASE Launch
  <2>1. CASE RecordBaseline
    BY <2>1 DEF RecordBaseline
  <2>2. CASE RecordProcesses
    BY <2>2 DEF RecordProcesses
  <2>3. CASE UNCHANGED journal
    BY <2>3
  <2> QED
    BY <1>1, <2>1, <2>2, <2>3 DEF Launch, StartRunner, RunnerStart, RunnerAcquire,
      Checkout, CopyToRuntime, Spawn, Identify, Wait, RunnerExit
<1>2. ASSUME NEW p \in Procs, TransitionRead(p) PROVE JournalType'
  BY <1>2, SMTT(30) DEF TransitionRead, Raise, Handler
<1>3. ASSUME NEW p \in Procs, TransitionWrite(p) PROVE JournalType'
  BY <1>3, SMTT(30), EdgeNext DEF TransitionWrite
<1>4. ASSUME NEW p \in Procs, Leave(p) PROVE JournalType'
  BY <1>4, SMTT(30) DEF Leave, NoBytes
<1>5. ASSUME NEW p \in Procs, \/ FailRead(p) \/ FailWrite(p)
                               \/ FailFinish(p) \/ FailIncident(p)
      PROVE  JournalType'
  BY <1>5, SMTT(30) DEF FailRead, FailWrite, FailFinish, FailIncident, Opened, States
<1>6. ASSUME NEW p \in {Runner} \cup Scanners, Committing(p) PROVE JournalType'
  <2>1. CASE Backup(p)
    BY <2>1 DEF Backup
  <2>2. CASE SaveBackup(p)
    BY <2>2 DEF SaveBackup
  <2>3. CASE ConflictIncident(p)
    BY <2>3 DEF ConflictIncident, Opened
  <2>4. CASE Finish(p)
    BY <2>4 DEF Finish, FinishLabels
  <2>5. CASE UNCHANGED journal
    BY <2>5
  <2> QED
    BY <1>6, <2>1, <2>2, <2>3, <2>4, <2>5 DEF Committing, Commit, Matrix, Isolate,
      Discard, SaveVault, WriteVault, Remove, Close
<1>7. ASSUME NEW s \in Scanners, Recovery(s) PROVE JournalType'
  BY <1>7, SMTT(30) DEF Recovery, Scan, ScanLock, Classify, OrphanSeen, Classes,
    OrphanIncident, RecoverPreparing, EarlyRemove, Ambiguous, PostCommit, ScanDone,
    ScanIncident, Opened, Raise, Handler
<1>8. ASSUME NEW o \in Operators, Resolution(o) PROVE JournalType'
  <2>1. CASE ResolveBackup(o)
    <3>1. read[o].incident \in Nat
      BY DEF WorldType
    <3>2. [incident EXCEPT !.saved = @ \cup {read[o].incident}] \in
            [status : {"none", "open", "resolved"}, id : Nat,
             evidence : Contents \cup {Missing, None},
             action : Actions \cup {None}, saved : SUBSET Nat]
      BY <3>1
    <3> QED BY <2>1, <3>2 DEF ResolveBackup
  <2>2. CASE ResolveClose(o)
    <3>1. then[o] \in Actions
      BY <2>2 DEF ResolveClose
    <3>2. [incident EXCEPT !.status = "resolved", !.action = then[o]] \in
            [status : {"none", "open", "resolved"}, id : Nat,
             evidence : Contents \cup {Missing, None},
             action : Actions \cup {None}, saved : SUBSET Nat]
      BY <3>1
    <3> QED BY <2>2, <3>2 DEF ResolveClose
  <2>3. CASE UNCHANGED journal
    BY <2>3
  <2> QED
    BY <1>8, <2>1, <2>2, <2>3 DEF Resolution, Resolve, ResolveLock, Apply,
      ResolveWrite, ResolveClear
<1>9. CASE Environment
  BY <1>9, SMTT(30) DEF Environment, CodexRefresh, CodexExit, ForeignVault, DamageVault,
    CrashRunner, CrashDaemon, NoBytes
<1>10. CASE UNCHANGED vars
  BY <1>10 DEF vars
<1> QED BY <1>1, <1>2, <1>3, <1>4, <1>5, <1>6, <1>7, <1>8, <1>9, <1>10 DEF Next, Step,
  Shared

(* ... the files, ...                                                      *)
LEMMA FilesTypeStep ==
  ASSUME TypeOK, BytesReady, [Next]_vars
  PROVE  FilesType'
<1> USE ProcsFacts DEF TypeOK, FilesType, ControlType, BytesReady, Contents
<1>1. CASE Launch
  BY <1>1, SMTT(30) DEF Launch, StartRunner, RunnerStart, RunnerAcquire, Checkout,
    CopyToRuntime, RecordBaseline, Spawn, Identify, RecordProcesses, Wait, RunnerExit,
    Raise, Handler
<1>2. ASSUME NEW p \in Procs, TransitionRead(p) PROVE FilesType'
  BY <1>2, SMTT(30) DEF TransitionRead, Raise, Handler
<1>3. ASSUME NEW p \in Procs, TransitionWrite(p) PROVE FilesType'
  BY <1>3, SMTT(30) DEF TransitionWrite
<1>4. ASSUME NEW p \in Procs, Leave(p) PROVE FilesType'
  BY <1>4, SMTT(30) DEF Leave, NoBytes
<1>5. ASSUME NEW p \in Procs, \/ FailRead(p) \/ FailWrite(p)
                               \/ FailFinish(p) \/ FailIncident(p)
      PROVE  FilesType'
  BY <1>5, SMTT(30) DEF FailRead, FailWrite, FailFinish, FailIncident, Opened
<1>6. ASSUME NEW p \in {Runner} \cup Scanners, Committing(p) PROVE FilesType'
  BY <1>6, SMTT(30) DEF Committing, Commit, Matrix, Isolate, Discard, Backup,
    ConflictIncident, SaveVault, SaveBackup, WriteVault, Remove, Close, Finish, Verdict,
    Opened, Raise, Handler
<1>7. ASSUME NEW s \in Scanners, Recovery(s) PROVE FilesType'
  BY <1>7, SMTT(30) DEF Recovery, Scan, ScanLock, Classify, OrphanSeen, Classes,
    OrphanIncident, RecoverPreparing, EarlyRemove, Ambiguous, PostCommit, ScanDone,
    ScanIncident, Opened, Raise, Handler
<1>8. ASSUME NEW o \in Operators, Resolution(o) PROVE FilesType'
  BY <1>8, SMTT(30) DEF Resolution, Resolve, ResolveLock, Apply, ResolveBackup,
    ResolveWrite, ResolveClear, ResolveClose
<1>9. CASE Environment
  BY <1>9, SMTT(30) DEF Environment, CodexRefresh, CodexExit, ForeignVault, DamageVault,
    CrashRunner, CrashDaemon, NoBytes
<1>10. CASE UNCHANGED vars
  BY <1>10 DEF vars
<1> QED BY <1>1, <1>2, <1>3, <1>4, <1>5, <1>6, <1>7, <1>8, <1>9, <1>10 DEF Next, Step,
  Shared

(* ... the control state, ...                                              *)
LEMMA ControlTypeStep ==
  ASSUME TypeOK, ReturnsHome, [Next]_vars
  PROVE  ControlType'
<1> USE ProcsFacts DEF TypeOK, JournalType, ControlType, ReturnsHome, Conts, Actions,
  OpWork, Labels, CheckoutLabels, EdgeLabels, FinishLabels, FailLabels
<1>1. CASE Launch
  BY <1>1, SMTT(30) DEF Launch, StartRunner, RunnerStart, RunnerAcquire, Checkout,
    CopyToRuntime, RecordBaseline, Spawn, Identify, RecordProcesses, Wait, RunnerExit,
    Raise, Handler
<1>2. ASSUME NEW p \in Procs, TransitionRead(p) PROVE ControlType'
  BY <1>2, SMTT(30) DEF TransitionRead, Raise, Handler
<1>3. ASSUME NEW p \in Procs, TransitionWrite(p) PROVE ControlType'
  <2>1. Edge[pc[p]].then \in Labels
    BY <1>3, EdgeLocked DEF TransitionWrite
  <2> HIDE DEF Labels, Conts, EdgeLabels, JournalType, ReturnsHome
  <2> QED BY <1>3, <2>1 DEF TransitionWrite
<1>4. ASSUME NEW p \in Procs, Leave(p) PROVE ControlType'
  BY <1>4, SMTT(30) DEF Leave, NoBytes
<1>5. ASSUME NEW p \in Procs, \/ FailRead(p) \/ FailWrite(p)
                               \/ FailFinish(p) \/ FailIncident(p)
      PROVE  ControlType'
  BY <1>5, SMTT(30) DEF FailRead, FailWrite, FailFinish, FailIncident, Opened
<1>6. ASSUME NEW p \in {Runner} \cup Scanners, Committing(p) PROVE ControlType'
  BY <1>6, SMTT(30) DEF Committing, Commit, Matrix, Isolate, Discard, Backup,
    ConflictIncident, SaveVault, SaveBackup, WriteVault, Remove, Close, Finish, Verdict,
    Opened, Raise, Handler
<1>7. ASSUME NEW s \in Scanners, Recovery(s) PROVE ControlType'
  BY <1>7, SMTT(30) DEF Recovery, Scan, ScanLock, Classify, OrphanSeen, Classes,
    OrphanIncident, RecoverPreparing, EarlyRemove, Ambiguous, PostCommit, ScanDone,
    ScanIncident, Opened, Raise, Handler
<1>8. ASSUME NEW o \in Operators, Resolution(o) PROVE ControlType'
  BY <1>8, SMTT(30) DEF Resolution, Resolve, ResolveLock, Apply, ResolveBackup,
    ResolveWrite, ResolveClear, ResolveClose
<1>9. CASE Environment
  BY <1>9, SMTT(30) DEF Environment, CodexRefresh, CodexExit, ForeignVault, DamageVault,
    CrashRunner, CrashDaemon, NoBytes
<1>10. CASE UNCHANGED vars
  BY <1>10 DEF vars
<1> QED BY <1>1, <1>2, <1>3, <1>4, <1>5, <1>6, <1>7, <1>8, <1>9, <1>10 DEF Next, Step,
  Shared

(* ... and the rest.                                                       *)
LEMMA WorldTypeStep ==
  ASSUME TypeOK, [Next]_vars
  PROVE  WorldType'
<1> USE ProcsFacts DEF TypeOK, JournalType, FilesType, ControlType, WorldType, Contents
<1>1. CASE Launch
  BY <1>1, SMTT(30) DEF Launch, StartRunner, RunnerStart, RunnerAcquire, Checkout,
    CopyToRuntime, RecordBaseline, Spawn, Identify, RecordProcesses, Wait, RunnerExit,
    Raise, Handler
<1>2. ASSUME NEW p \in Procs, TransitionRead(p) PROVE WorldType'
  BY <1>2, SMTT(30) DEF TransitionRead, Raise, Handler
<1>3. ASSUME NEW p \in Procs, TransitionWrite(p) PROVE WorldType'
  BY <1>3, SMTT(30) DEF TransitionWrite
<1>4. ASSUME NEW p \in Procs, Leave(p) PROVE WorldType'
  BY <1>4, SMTT(30) DEF Leave, NoBytes
<1>5. ASSUME NEW p \in Procs, \/ FailRead(p) \/ FailWrite(p)
                               \/ FailFinish(p) \/ FailIncident(p)
      PROVE  WorldType'
  BY <1>5, SMTT(30) DEF FailRead, FailWrite, FailFinish, FailIncident, Opened
<1>6. ASSUME NEW p \in {Runner} \cup Scanners, Committing(p) PROVE WorldType'
  BY <1>6, SMTT(30) DEF Committing, Commit, Matrix, Isolate, Discard, Backup,
    ConflictIncident, SaveVault, SaveBackup, WriteVault, Remove, Close, Finish, Verdict,
    Opened, Raise, Handler
<1>7. ASSUME NEW s \in Scanners, Recovery(s) PROVE WorldType'
  BY <1>7, SMTT(30) DEF Recovery, Scan, ScanLock, Classify, OrphanSeen, Classes,
    OrphanIncident, RecoverPreparing, EarlyRemove, Ambiguous, PostCommit, ScanDone,
    ScanIncident, Opened, Raise, Handler
<1>8. ASSUME NEW o \in Operators, Resolution(o) PROVE WorldType'
  <2>1. CASE \E action \in Actions : Resolve(o, action)
    BY <2>1, SMTT(30) DEF Resolve
  <2>2. CASE ResolveLock(o) \/ Apply(o)
    BY <2>2, SMTT(30) DEF ResolveLock, Apply
  <2>3. CASE ResolveBackup(o) \/ ResolveWrite(o)
    BY <2>3, SMTT(30) DEF ResolveBackup, ResolveWrite
  <2>4. CASE ResolveClear(o) \/ ResolveClose(o)
    BY <2>4, SMTT(30) DEF ResolveClear, ResolveClose
  <2> QED BY <1>8, <2>1, <2>2, <2>3, <2>4 DEF Resolution
<1>9. CASE Environment
  <2>1. CASE CodexRefresh
    BY <2>1, SMTT(30), BoundAssumption DEF CodexRefresh
  <2>2. CASE CodexExit
    BY <2>2, SMTT(30) DEF CodexExit
  <2>3. CASE ForeignVault
    BY <2>3, SMTT(30), BoundAssumption DEF ForeignVault
  <2>4. CASE DamageVault
    BY <2>4, SMTT(30), BoundAssumption DEF DamageVault
  <2>5. CASE CrashRunner
    BY <2>5, SMTT(30), BoundAssumption DEF CrashRunner, NoBytes
  <2>6. CASE CrashDaemon
    BY <2>6, SMTT(30), BoundAssumption DEF CrashDaemon, NoBytes
  <2> QED BY <1>9, <2>1, <2>2, <2>3, <2>4, <2>5, <2>6 DEF Environment
<1>10. CASE UNCHANGED vars
  BY <1>10 DEF vars
<1> QED BY <1>1, <1>2, <1>3, <1>4, <1>5, <1>6, <1>7, <1>8, <1>9, <1>10 DEF Next, Step,
  Shared

(* The locks are never shared.                                             *)
LEMMA LocksStep ==
  ASSUME TypeOK, LocksHeld, ReturnsHome, ReadIsFresh, [Next]_vars
  PROVE  LocksHeld'
<1> USE ProcsFacts DEF TypeOK, JournalType, FilesType, ControlType, WorldType, LocksHeld,
    ReturnsHome, ReadIsFresh, Conts, Actions,
  EdgeLabels, FinishLabels, FailLabels, CheckoutLabels, CommitWork, OpWork, Locked
<1>1. CASE Launch
  BY <1>1, SMTT(30) DEF Launch, StartRunner, RunnerStart, RunnerAcquire, Checkout,
    CopyToRuntime, RecordBaseline, Spawn, Identify, RecordProcesses, Wait, RunnerExit,
    Raise, Handler
<1>2. ASSUME NEW p \in Procs, TransitionRead(p) PROVE LocksHeld'
  BY <1>2, SMTT(30) DEF TransitionRead, Raise, Handler
<1>3. ASSUME NEW p \in Procs, TransitionWrite(p) PROVE LocksHeld'
  BY <1>3, SMTT(30), EdgeThen DEF TransitionWrite
<1>4. ASSUME NEW p \in Procs, Leave(p) PROVE LocksHeld'
  BY <1>4, SMTT(30) DEF Leave, NoBytes
<1>5. ASSUME NEW p \in Procs, \/ FailRead(p) \/ FailWrite(p)
                               \/ FailFinish(p) \/ FailIncident(p)
      PROVE  LocksHeld'
  BY <1>5, SMTT(30) DEF FailRead, FailWrite, FailFinish, FailIncident, Opened
<1>6. ASSUME NEW p \in {Runner} \cup Scanners, Committing(p) PROVE LocksHeld'
  BY <1>6, SMTT(30) DEF Committing, Commit, Matrix, Isolate, Discard, Backup,
    ConflictIncident, SaveVault, SaveBackup, WriteVault, Remove, Close, Finish, Verdict,
    Opened, Raise, Handler
<1>7. ASSUME NEW s \in Scanners, Recovery(s) PROVE LocksHeld'
  BY <1>7, SMTT(30) DEF Recovery, Scan, ScanLock, Classify, OrphanSeen, Classes,
    OrphanIncident, RecoverPreparing, EarlyRemove, Ambiguous, PostCommit, ScanDone,
    ScanIncident, Opened, Raise, Handler
<1>8. ASSUME NEW o \in Operators, Resolution(o) PROVE LocksHeld'
  BY <1>8, SMTT(30) DEF Resolution, Resolve, ResolveLock, Apply, ResolveBackup,
    ResolveWrite, ResolveClear, ResolveClose
<1>9. CASE Environment
  <2>1. CASE CodexRefresh
    BY <2>1, SMTT(30) DEF CodexRefresh
  <2>2. CASE CodexExit
    BY <2>2, SMTT(30) DEF CodexExit
  <2>3. CASE ForeignVault
    BY <2>3, SMTT(30) DEF ForeignVault
  <2>4. CASE DamageVault
    BY <2>4, SMTT(30) DEF DamageVault
  <2>5. CASE CrashRunner
    BY <2>5, SMTT(30) DEF CrashRunner, NoBytes
  <2>6. CASE CrashDaemon
    BY <2>6, SMTT(30) DEF CrashDaemon, NoBytes
  <2> QED BY <1>9, <2>1, <2>2, <2>3, <2>4, <2>5, <2>6 DEF Environment
<1>10. CASE UNCHANGED vars
  BY <1>10 DEF vars
<1> QED BY <1>1, <1>2, <1>3, <1>4, <1>5, <1>6, <1>7, <1>8, <1>9, <1>10 DEF Next, Step,
  Shared

(* Every call returns to its caller.                                       *)
LEMMA ReturnStep ==
  ASSUME TypeOK, ReturnsHome, [Next]_vars
  PROVE  ReturnsHome'
<1> USE ProcsFacts DEF TypeOK, JournalType, FilesType, ControlType, WorldType,
    ReturnsHome, Conts, Actions, EdgeLabels, FinishLabels,
  FailLabels, CheckoutLabels, OpWork
<1>1. CASE Launch
  BY <1>1, SMTT(30) DEF Launch, StartRunner, RunnerStart, RunnerAcquire, Checkout,
    CopyToRuntime, RecordBaseline, Spawn, Identify, RecordProcesses, Wait, RunnerExit,
    Raise, Handler
<1>2. ASSUME NEW p \in Procs, TransitionRead(p) PROVE ReturnsHome'
  BY <1>2, SMTT(30) DEF TransitionRead, Raise, Handler
<1>3. ASSUME NEW p \in Procs, TransitionWrite(p) PROVE ReturnsHome'
  BY <1>3, SMTT(30), EdgeThen, EdgeEnds DEF TransitionWrite
<1>4. ASSUME NEW p \in Procs, Leave(p) PROVE ReturnsHome'
  BY <1>4, SMTT(30) DEF Leave, NoBytes
<1>5. ASSUME NEW p \in Procs, \/ FailRead(p) \/ FailWrite(p)
                               \/ FailFinish(p) \/ FailIncident(p)
      PROVE  ReturnsHome'
  BY <1>5, SMTT(30) DEF FailRead, FailWrite, FailFinish, FailIncident, Opened
<1>6. ASSUME NEW p \in {Runner} \cup Scanners, Committing(p) PROVE ReturnsHome'
  BY <1>6, SMTT(30) DEF Committing, Commit, Matrix, Isolate, Discard, Backup,
    ConflictIncident, SaveVault, SaveBackup, WriteVault, Remove, Close, Finish, Verdict,
    Opened, Raise, Handler
<1>7. ASSUME NEW s \in Scanners, Recovery(s) PROVE ReturnsHome'
  BY <1>7, SMTT(30) DEF Recovery, Scan, ScanLock, Classify, OrphanSeen, Classes,
    OrphanIncident, RecoverPreparing, EarlyRemove, Ambiguous, PostCommit, ScanDone,
    ScanIncident, Opened, Raise, Handler
<1>8. ASSUME NEW o \in Operators, Resolution(o) PROVE ReturnsHome'
  BY <1>8, SMTT(30) DEF Resolution, Resolve, ResolveLock, Apply, ResolveBackup,
    ResolveWrite, ResolveClear, ResolveClose
<1>9. CASE Environment
  BY <1>9, SMTT(30), ProcAssumption DEF Environment, CodexRefresh, CodexExit,
    ForeignVault, DamageVault,
    CrashRunner, CrashDaemon, NoBytes
<1>10. CASE UNCHANGED vars
  BY <1>10 DEF vars
<1> QED BY <1>1, <1>2, <1>3, <1>4, <1>5, <1>6, <1>7, <1>8, <1>9, <1>10 DEF Next, Step,
  Shared

(* The bytes in memory are checked before they are written.                *)
LEMMA BytesStep ==
  ASSUME TypeOK, ReturnsHome, BytesReady, [Next]_vars
  PROVE  BytesReady'
<1> USE ProcsFacts DEF TypeOK, JournalType, FilesType, ControlType, WorldType,
    ReturnsHome, BytesReady, Conts, Actions, EdgeLabels,
  FinishLabels, FailLabels, CheckoutLabels, OpWork
<1>1. CASE Launch
  BY <1>1, SMTT(30) DEF Launch, StartRunner, RunnerStart, RunnerAcquire, Checkout,
    CopyToRuntime, RecordBaseline, Spawn, Identify, RecordProcesses, Wait, RunnerExit,
    Raise, Handler
<1>2. ASSUME NEW p \in Procs, TransitionRead(p) PROVE BytesReady'
  BY <1>2, SMTT(30) DEF TransitionRead, Raise, Handler
<1>3. ASSUME NEW p \in Procs, TransitionWrite(p) PROVE BytesReady'
  BY <1>3, SMTT(30), EdgeThen DEF TransitionWrite
<1>4. ASSUME NEW p \in Procs, Leave(p) PROVE BytesReady'
  BY <1>4, SMTT(30) DEF Leave, NoBytes
<1>5. ASSUME NEW p \in Procs, \/ FailRead(p) \/ FailWrite(p)
                               \/ FailFinish(p) \/ FailIncident(p)
      PROVE  BytesReady'
  BY <1>5, SMTT(30) DEF FailRead, FailWrite, FailFinish, FailIncident, Opened
<1>6. ASSUME NEW p \in {Runner} \cup Scanners, Committing(p) PROVE BytesReady'
  BY <1>6, SMTT(30) DEF Committing, Commit, Matrix, Isolate, Discard, Backup,
    ConflictIncident, SaveVault, SaveBackup, WriteVault, Remove, Close, Finish, Verdict,
    Opened, Raise, Handler
<1>7. ASSUME NEW s \in Scanners, Recovery(s) PROVE BytesReady'
  BY <1>7, SMTT(30) DEF Recovery, Scan, ScanLock, Classify, OrphanSeen, Classes,
    OrphanIncident, RecoverPreparing, EarlyRemove, Ambiguous, PostCommit, ScanDone,
    ScanIncident, Opened, Raise, Handler
<1>8. ASSUME NEW o \in Operators, Resolution(o) PROVE BytesReady'
  BY <1>8, SMTT(30) DEF Resolution, Resolve, ResolveLock, Apply, ResolveBackup,
    ResolveWrite, ResolveClear, ResolveClose
<1>9. CASE Environment
  BY <1>9, SMTT(30) DEF Environment, CodexRefresh, CodexExit, ForeignVault, DamageVault,
    CrashRunner, CrashDaemon, NoBytes
<1>10. CASE UNCHANGED vars
  BY <1>10 DEF vars
<1> QED BY <1>1, <1>2, <1>3, <1>4, <1>5, <1>6, <1>7, <1>8, <1>9, <1>10 DEF Next, Step,
  Shared

(* A transition is decided on a state that only fail() can overtake.       *)
LEMMA FreshStep ==
  ASSUME TypeOK, LocksHeld, ReturnsHome, ReadIsFresh, [Next]_vars
  PROVE  ReadIsFresh'
<1> USE ProcsFacts DEF TypeOK, JournalType, FilesType, ControlType, WorldType, LocksHeld,
    ReturnsHome, ReadIsFresh, Conts, Actions,
  EdgeLabels, FinishLabels, FailLabels, CheckoutLabels, CommitWork, OpWork, Locked
<1>1. CASE Launch
  BY <1>1, SMTT(30) DEF Launch, StartRunner, RunnerStart, RunnerAcquire, Checkout,
    CopyToRuntime, RecordBaseline, Spawn, Identify, RecordProcesses, Wait, RunnerExit,
    Raise, Handler
<1>2. ASSUME NEW p \in Procs, TransitionRead(p) PROVE ReadIsFresh'
  BY <1>2, SMTT(30) DEF TransitionRead, Raise, Handler
<1>3. ASSUME NEW p \in Procs, TransitionWrite(p) PROVE ReadIsFresh'
  BY <1>3, SMTT(30), EdgeThen DEF TransitionWrite
<1>4. ASSUME NEW p \in Procs, Leave(p) PROVE ReadIsFresh'
  BY <1>4, SMTT(30) DEF Leave, NoBytes
<1>5. ASSUME NEW p \in Procs, \/ FailRead(p) \/ FailWrite(p)
                               \/ FailFinish(p) \/ FailIncident(p)
      PROVE  ReadIsFresh'
  BY <1>5, SMTT(30) DEF FailRead, FailWrite, FailFinish, FailIncident, Opened
<1>6. ASSUME NEW p \in {Runner} \cup Scanners, Committing(p) PROVE ReadIsFresh'
  BY <1>6, SMTT(30) DEF Committing, Commit, Matrix, Isolate, Discard, Backup,
    ConflictIncident, SaveVault, SaveBackup, WriteVault, Remove, Close, Finish, Verdict,
    Opened, Raise, Handler
<1>7. ASSUME NEW s \in Scanners, Recovery(s) PROVE ReadIsFresh'
  BY <1>7, SMTT(30), ContentAssumption DEF Recovery, Scan, ScanLock, Classify,
    OrphanSeen, Classes, OrphanIncident, RecoverPreparing, EarlyRemove, Ambiguous,
    PostCommit, ScanDone, ScanIncident, Opened, Raise, Handler
<1>8. ASSUME NEW o \in Operators, Resolution(o) PROVE ReadIsFresh'
  BY <1>8, SMTT(30) DEF Resolution, Resolve, ResolveLock, Apply, ResolveBackup,
    ResolveWrite, ResolveClear, ResolveClose
<1>9. CASE Environment
  BY <1>9, SMTT(30) DEF Environment, CodexRefresh, CodexExit, ForeignVault, DamageVault,
    CrashRunner, CrashDaemon, NoBytes
<1>10. CASE UNCHANGED vars
  BY <1>10 DEF vars
<1> QED BY <1>1, <1>2, <1>3, <1>4, <1>5, <1>6, <1>7, <1>8, <1>9, <1>10 DEF Next, Step,
  Shared

(* The journal is ahead of every process.                                  *)
LEMMA JournalStep ==
  ASSUME TypeOK, LocksHeld, ReturnsHome, BytesReady, ReadIsFresh, JournalReady,
      [Next]_vars
  PROVE  JournalReady'
<1> USE ProcsFacts DEF TypeOK, JournalType, FilesType, ControlType, WorldType, LocksHeld,
    ReturnsHome, BytesReady, ReadIsFresh,
  JournalReady, Conts, Actions, Terminal, Contents, EdgeLabels, FinishLabels,
  FailLabels, CheckoutLabels, CommitWork, OpWork, Locked
<1>1. CASE Launch
  BY <1>1, SMTT(30), ContentAssumption DEF Launch, StartRunner, RunnerStart,
    RunnerAcquire, Checkout, CopyToRuntime, RecordBaseline, Spawn, Identify,
    RecordProcesses, Wait, RunnerExit, Raise, Handler
<1>2. ASSUME NEW p \in Procs, TransitionRead(p) PROVE JournalReady'
  BY <1>2, SMTT(30) DEF TransitionRead, Raise, Handler
<1>3. ASSUME NEW p \in Procs, TransitionWrite(p) PROVE JournalReady'
  BY <1>3, SMTT(30), EdgeThen, EdgeEnds, EdgeNext, PermittedPairs DEF TransitionWrite
<1>4. ASSUME NEW p \in Procs, Leave(p) PROVE JournalReady'
  BY <1>4, SMTT(30) DEF Leave, NoBytes
<1>5. ASSUME NEW p \in Procs, \/ FailRead(p) \/ FailWrite(p)
                               \/ FailFinish(p) \/ FailIncident(p)
      PROVE  JournalReady'
  BY <1>5, SMTT(30) DEF FailRead, FailWrite, FailFinish, FailIncident, Opened
<1>6. ASSUME NEW p \in {Runner} \cup Scanners, Committing(p) PROVE JournalReady'
  BY <1>6, SMTT(30) DEF Committing, Commit, Matrix, Isolate, Discard, Backup,
    ConflictIncident, SaveVault, SaveBackup, WriteVault, Remove, Close, Finish, Verdict,
    Opened, Raise, Handler
<1>7. ASSUME NEW s \in Scanners, Recovery(s) PROVE JournalReady'
  BY <1>7, SMTT(30) DEF Recovery, Scan, ScanLock, Classify, OrphanSeen, Classes,
    OrphanIncident, RecoverPreparing, EarlyRemove, Ambiguous, PostCommit, ScanDone,
    ScanIncident, Opened, Raise, Handler
<1>8. ASSUME NEW o \in Operators, Resolution(o) PROVE JournalReady'
  BY <1>8, SMTT(30) DEF Resolution, Resolve, ResolveLock, Apply, ResolveBackup,
    ResolveWrite, ResolveClear, ResolveClose
<1>9. CASE Environment
  BY <1>9, SMTT(30) DEF Environment, CodexRefresh, CodexExit, ForeignVault, DamageVault,
    CrashRunner, CrashDaemon, NoBytes
<1>10. CASE UNCHANGED vars
  BY <1>10 DEF vars
<1> QED BY <1>1, <1>2, <1>3, <1>4, <1>5, <1>6, <1>7, <1>8, <1>9, <1>10 DEF Next, Step,
  Shared

(* The Vault a commit replaces is the one it saved.                        *)
LEMMA SavedStep ==
  ASSUME TypeOK, LocksHeld, ReturnsHome, ReadIsFresh, VaultSaved, [Next]_vars
  PROVE  VaultSaved'
<1> USE ProcsFacts DEF TypeOK, JournalType, FilesType, ControlType, WorldType, LocksHeld,
    ReturnsHome, VaultSaved, Conts, Actions,
  EdgeLabels, FinishLabels, FailLabels, CheckoutLabels, CommitWork, OpWork, Locked
<1>1. CASE Launch
  BY <1>1, SMTT(30) DEF Launch, StartRunner, RunnerStart, RunnerAcquire, Checkout,
    CopyToRuntime, RecordBaseline, Spawn, Identify, RecordProcesses, Wait, RunnerExit,
    Raise, Handler
<1>2. ASSUME NEW p \in Procs, TransitionRead(p) PROVE VaultSaved'
  BY <1>2, SMTT(30) DEF TransitionRead, Raise, Handler
<1>3. ASSUME NEW p \in Procs, TransitionWrite(p) PROVE VaultSaved'
  BY <1>3, SMTT(30), EdgeThen DEF TransitionWrite
<1>4. ASSUME NEW p \in Procs, Leave(p) PROVE VaultSaved'
  BY <1>4, SMTT(30) DEF Leave, NoBytes
<1>5. ASSUME NEW p \in Procs, \/ FailRead(p) \/ FailWrite(p)
                               \/ FailFinish(p) \/ FailIncident(p)
      PROVE  VaultSaved'
  BY <1>5, SMTT(30) DEF FailRead, FailWrite, FailFinish, FailIncident, Opened
<1>6. ASSUME NEW p \in {Runner} \cup Scanners, Committing(p) PROVE VaultSaved'
  BY <1>6, SMTT(30) DEF Committing, Commit, Matrix, Isolate, Discard, Backup,
    ConflictIncident, SaveVault, SaveBackup, WriteVault, Remove, Close, Finish, Verdict,
    Opened, Raise, Handler
<1>7. ASSUME NEW s \in Scanners, Recovery(s) PROVE VaultSaved'
  BY <1>7, SMTT(30) DEF Recovery, Scan, ScanLock, Classify, OrphanSeen, Classes,
    OrphanIncident, RecoverPreparing, EarlyRemove, Ambiguous, PostCommit, ScanDone,
    ScanIncident, Opened, Raise, Handler
<1>8. ASSUME NEW o \in Operators, Resolution(o) PROVE VaultSaved'
  BY <1>8, SMTT(30) DEF Resolution, Resolve, ResolveLock, Apply, ResolveBackup,
    ResolveWrite, ResolveClear, ResolveClose
<1>9. CASE Environment
  <2>1. CASE CodexRefresh
    BY <2>1, SMTT(30) DEF CodexRefresh
  <2>2. CASE CodexExit
    BY <2>2, SMTT(30) DEF CodexExit
  <2>3. CASE ForeignVault
    BY <2>3, SMTT(30) DEF ForeignVault
  <2>4. CASE DamageVault
    BY <2>4, SMTT(30) DEF DamageVault
  <2>5. CASE CrashRunner
    BY <2>5, SMTT(30) DEF CrashRunner, NoBytes
  <2>6. CASE CrashDaemon
    BY <2>6, SMTT(30) DEF CrashDaemon, NoBytes
  <2> QED BY <1>9, <2>1, <2>2, <2>3, <2>4, <2>5, <2>6 DEF Environment
<1>10. CASE UNCHANGED vars
  BY <1>10 DEF vars
<1> QED BY <1>1, <1>2, <1>3, <1>4, <1>5, <1>6, <1>7, <1>8, <1>9, <1>10 DEF Next, Step,
  Shared
-----------------------------------------------------------------------------
(* Which steps change what the journal says of the transaction.            *)
LEMMA StateFrame ==
  ASSUME [Next]_vars, ~ (\E p \in Procs : TransitionWrite(p) \/ FailWrite(p))
  PROVE  state' = state
<1> USE ProcsFacts
<1>1. CASE Launch
  BY <1>1 DEF Launch, StartRunner, RunnerStart, RunnerAcquire, Checkout, CopyToRuntime,
    RecordBaseline, Spawn, Identify, RecordProcesses, Wait, RunnerExit, Raise, Handler
<1>2. ASSUME NEW p \in Procs, Shared(p) PROVE state' = state
  BY <1>2 DEF Shared, TransitionRead, TransitionWrite, Leave, FailRead, FailWrite,
    FailFinish, FailIncident
<1>3. ASSUME NEW p \in {Runner} \cup Scanners, Committing(p) PROVE state' = state
  BY <1>3 DEF Committing, Commit, Matrix, Isolate, Discard, Backup, ConflictIncident,
    SaveVault, SaveBackup, WriteVault, Remove, Close, Finish, Verdict, Opened, Raise,
    Handler
<1>4. ASSUME NEW s \in Scanners, Recovery(s) PROVE state' = state
  BY <1>4 DEF Recovery, Scan, ScanLock, Classify, OrphanSeen, Classes, OrphanIncident,
    RecoverPreparing, EarlyRemove, Ambiguous, PostCommit, ScanDone, ScanIncident,
    Opened, Raise, Handler
<1>5. ASSUME NEW o \in Operators, Resolution(o) PROVE state' = state
  BY <1>5 DEF Resolution, Resolve, ResolveLock, Apply, ResolveBackup, ResolveWrite,
    ResolveClear, ResolveClose
<1>6. CASE Environment
  BY <1>6 DEF Environment, CodexRefresh, CodexExit, ForeignVault, DamageVault,
    CrashRunner, CrashDaemon, NoBytes
<1>7. CASE UNCHANGED vars
  BY <1>7 DEF vars
<1> QED BY <1>1, <1>2, <1>3, <1>4, <1>5, <1>6, <1>7 DEF Next, Step

(* The other columns the invariants speak of.                              *)
LEMMA JournalFrame ==
  ASSUME TypeOK, BytesReady, ReadIsFresh, [Next]_vars
  PROVE  /\ baseline # None => baseline' # None
         /\ recorded => recorded'
         /\ isolated \subseteq isolated'
<1> USE ProcsFacts, ContentAssumption DEF BytesReady, Contents, TypeOK, JournalType,
    FilesType, ControlType, WorldType
<1> DEFINE G == /\ baseline # None => baseline' # None
                /\ recorded => recorded'
                /\ isolated \subseteq isolated'
<1>1. CASE Launch
  BY <1>1 DEF Launch, StartRunner, RunnerStart, RunnerAcquire, Checkout, CopyToRuntime,
    RecordBaseline, Spawn, Identify, RecordProcesses, Wait, RunnerExit, Raise, Handler
<1>2. ASSUME NEW p \in Procs, Shared(p) PROVE G
  BY <1>2 DEF Shared, TransitionRead, TransitionWrite, Leave, FailRead, FailWrite,
    FailFinish, FailIncident
<1>3. ASSUME NEW p \in {Runner} \cup Scanners, Committing(p) PROVE G
  BY <1>3 DEF Committing, Commit, Matrix, Isolate, Discard, Backup, ConflictIncident,
    SaveVault, SaveBackup, WriteVault, Remove, Close, Finish, Verdict, Opened, Raise,
    Handler
<1>4. ASSUME NEW s \in Scanners, Recovery(s) PROVE G
  BY <1>4 DEF Recovery, Scan, ScanLock, Classify, OrphanSeen, Classes, OrphanIncident,
    RecoverPreparing, EarlyRemove, Ambiguous, PostCommit, ScanDone, ScanIncident,
    Opened, Raise, Handler
<1>5. ASSUME NEW o \in Operators, Resolution(o) PROVE G
  BY <1>5 DEF Resolution, Resolve, ResolveLock, Apply, ResolveBackup, ResolveWrite,
    ResolveClear, ResolveClose
<1>6. CASE Environment
  BY <1>6 DEF Environment, CodexRefresh, CodexExit, ForeignVault, DamageVault,
    CrashRunner, CrashDaemon, NoBytes
<1>7. CASE UNCHANGED vars
  BY <1>7 DEF vars
<1> QED BY <1>1, <1>2, <1>3, <1>4, <1>5, <1>6, <1>7 DEF Next, Step

(* What a transition lands on: the state it asked for, permitted from the  *)
(* state it replaces, unless fail() came first.                            *)
LEMMA TransitionLands ==
  ASSUME TypeOK, ReadIsFresh, NEW p \in Procs, TransitionWrite(p)
  PROVE  \/ state' = state
         \/ /\ Permits(state, state') /\ state' = Edge[pc[p]].next
            /\ pc[p] \in EdgeLabels /\ state' \in States
BY EdgeNext DEF TransitionWrite, ReadIsFresh, TypeOK, JournalType, FilesType, ControlType,
    WorldType

(* The journal's evidence is written before the state that relies on it.   *)
LEMMA AheadStep ==
  ASSUME TypeOK, BytesReady, ReadIsFresh, JournalReady, JournalAhead, [Next]_vars
  PROVE  JournalAhead'
<1> USE DEF JournalAhead
<1>1. CASE state' = state
  BY <1>1, JournalFrame
<1>2. ASSUME NEW p \in Procs, FailWrite(p) PROVE JournalAhead'
  BY <1>2 DEF FailWrite
<1>3. ASSUME NEW p \in Procs, TransitionWrite(p) PROVE JournalAhead'
  <2>1. baseline' = baseline /\ recorded' = recorded
    BY <1>3 DEF TransitionWrite
  <2>2. CASE pc[p] \in {"to_checked_out", "to_running"}
    BY <1>1, <1>3, <2>1, <2>2, TransitionLands, EdgeEnds, PermittedPairs
    DEF JournalReady, TypeOK, JournalType, FilesType, ControlType, WorldType
  <2>3. CASE pc[p] \notin {"to_checked_out", "to_running"}
    BY <1>1, <1>3, <2>1, <2>3, TransitionLands, EdgeEnds, PermittedPairs DEF TypeOK,
        JournalType, FilesType, ControlType, WorldType
  <2> QED BY <2>2, <2>3
<1> QED BY <1>1, <1>2, <1>3, StateFrame

(* A conflict keeps its evidence once the state says conflict.             *)
LEMMA BackupFrame ==
  ASSUME TypeOK, BytesReady, JournalReady, [Next]_vars, state = "credential_conflict"
  PROVE  backup' = backup
<1> USE ProcsFacts DEF JournalReady, CommitWork
<1>1. CASE Launch
  BY <1>1 DEF Launch, StartRunner, RunnerStart, RunnerAcquire, Checkout, CopyToRuntime,
    RecordBaseline, Spawn, Identify, RecordProcesses, Wait, RunnerExit
<1>2. ASSUME NEW p \in Procs, Shared(p) PROVE backup' = backup
  BY <1>2 DEF Shared, TransitionRead, TransitionWrite, Leave, FailRead, FailWrite,
    FailFinish, FailIncident
<1>3. ASSUME NEW p \in {Runner} \cup Scanners, Committing(p) PROVE backup' = backup
  BY <1>3 DEF Committing, Commit, Matrix, Isolate, Discard, Backup, ConflictIncident,
    SaveVault, SaveBackup, WriteVault, Remove, Close, Finish
<1>4. ASSUME NEW s \in Scanners, Recovery(s) PROVE backup' = backup
  BY <1>4 DEF Recovery, Scan, ScanLock, Classify, OrphanIncident, RecoverPreparing,
    EarlyRemove, Ambiguous, PostCommit, ScanDone, ScanIncident
<1>5. ASSUME NEW o \in Operators, Resolution(o) PROVE backup' = backup
  BY <1>5 DEF Resolution, Resolve, ResolveLock, Apply, ResolveBackup, ResolveWrite,
    ResolveClear, ResolveClose
<1>6. CASE Environment
  BY <1>6 DEF Environment, CodexRefresh, CodexExit, ForeignVault, DamageVault,
    CrashRunner, CrashDaemon
<1>7. CASE UNCHANGED vars
  BY <1>7 DEF vars
<1> QED BY <1>1, <1>2, <1>3, <1>4, <1>5, <1>6, <1>7 DEF Next, Step

LEMMA ConflictStep ==
  ASSUME TypeOK, BytesReady, ReadIsFresh, JournalReady, ConflictKeepsEvidence, [Next]_vars
  PROVE  ConflictKeepsEvidence'
<1> USE DEF ConflictKeepsEvidence
<1>1. CASE state' = state
  BY <1>1, JournalFrame, BackupFrame
<1>2. ASSUME NEW p \in Procs, FailWrite(p) PROVE ConflictKeepsEvidence'
  BY <1>2 DEF FailWrite
<1>3. ASSUME NEW p \in Procs, TransitionWrite(p) PROVE ConflictKeepsEvidence'
  <2>1. backup' = backup /\ isolated' = isolated
    BY <1>3 DEF TransitionWrite
  <2> QED
    BY <1>1, <1>3, <2>1, TransitionLands, EdgeEnds DEF JournalReady
<1> QED BY <1>1, <1>2, <1>3, StateFrame

(* Terminal states stay terminal; which one may still change (see          *)
(* Storage::fail).                                                         *)
LEMMA TerminalStays ==
  ASSUME TypeOK, ReadIsFresh, state \in Terminal, [Next]_vars
  PROVE  state' \in Terminal
<1>1. ASSUME NEW p \in Procs, FailWrite(p) PROVE state' \in Terminal
  BY <1>1 DEF FailWrite, Terminal
<1>2. ASSUME NEW p \in Procs, TransitionWrite(p) PROVE state' \in Terminal
  BY <1>2, TransitionLands, PermittedPairs DEF TypeOK, JournalType, FilesType,
      ControlType, WorldType
<1> QED BY <1>1, <1>2, StateFrame

LEMMA OutcomeStep ==
  ASSUME TypeOK, ReadIsFresh, JournalReady, OutcomeAfterEnd, [Next]_vars
  PROVE  OutcomeAfterEnd'
<1> USE ProcsFacts DEF OutcomeAfterEnd
<1> SUFFICES ASSUME state \notin Terminal PROVE outcome' = outcome
  BY TerminalStays
<1>1. CASE Launch
  BY <1>1 DEF Launch, StartRunner, RunnerStart, RunnerAcquire, Checkout, CopyToRuntime,
    RecordBaseline, Spawn, Identify, RecordProcesses, Wait, RunnerExit
<1>2. ASSUME NEW p \in Procs, Shared(p) PROVE outcome' = outcome
  BY <1>2 DEF Shared, TransitionRead, TransitionWrite, Leave, FailRead, FailWrite,
    FailFinish, FailIncident, JournalReady
<1>3. ASSUME NEW p \in {Runner} \cup Scanners, Committing(p) PROVE outcome' = outcome
  BY <1>3 DEF Committing, Commit, Matrix, Isolate, Discard, Backup, ConflictIncident,
    SaveVault, SaveBackup, WriteVault, Remove, Close, Finish, JournalReady
<1>4. ASSUME NEW s \in Scanners, Recovery(s) PROVE outcome' = outcome
  BY <1>4 DEF Recovery, Scan, ScanLock, Classify, OrphanIncident, RecoverPreparing,
    EarlyRemove, Ambiguous, PostCommit, ScanDone, ScanIncident
<1>5. ASSUME NEW o \in Operators, Resolution(o) PROVE outcome' = outcome
  BY <1>5 DEF Resolution, Resolve, ResolveLock, Apply, ResolveBackup, ResolveWrite,
    ResolveClear, ResolveClose
<1>6. CASE Environment
  BY <1>6 DEF Environment, CodexRefresh, CodexExit, ForeignVault, DamageVault,
    CrashRunner, CrashDaemon
<1>7. CASE UNCHANGED vars
  BY <1>7 DEF vars
<1> QED BY <1>1, <1>2, <1>3, <1>4, <1>5, <1>6, <1>7 DEF Next, Step

(* The bytes written to the Vault have been checked.                       *)
LEMMA VaultStep ==
  ASSUME TypeOK, BytesReady, VaultStaysValid, [Next]_vars
  PROVE  VaultStaysValid'
<1> USE ProcsFacts DEF VaultStaysValid, BytesReady
<1>0. left.damage \in Nat /\ left.damage <= MaxDamage
  BY BoundAssumption DEF TypeOK, JournalType, FilesType, ControlType, WorldType
<1>1. CASE Launch
  BY <1>1 DEF Launch, StartRunner, RunnerStart, RunnerAcquire, Checkout, CopyToRuntime,
    RecordBaseline, Spawn, Identify, RecordProcesses, Wait, RunnerExit
<1>2. ASSUME NEW p \in Procs, Shared(p) PROVE VaultStaysValid'
  BY <1>2 DEF Shared, TransitionRead, TransitionWrite, Leave, FailRead, FailWrite,
    FailFinish, FailIncident
<1>3. ASSUME NEW p \in {Runner} \cup Scanners, Committing(p) PROVE VaultStaysValid'
  BY <1>3 DEF Committing, Commit, Matrix, Isolate, Discard, Backup, ConflictIncident,
    SaveVault, SaveBackup, WriteVault, Remove, Close, Finish
<1>4. ASSUME NEW s \in Scanners, Recovery(s) PROVE VaultStaysValid'
  BY <1>4 DEF Recovery, Scan, ScanLock, Classify, OrphanIncident, RecoverPreparing,
    EarlyRemove, Ambiguous, PostCommit, ScanDone, ScanIncident
<1>5. ASSUME NEW o \in Operators, Resolution(o) PROVE VaultStaysValid'
  BY <1>5 DEF Resolution, Resolve, ResolveLock, Apply, ResolveBackup, ResolveWrite,
    ResolveClear, ResolveClose
<1>6. CASE Environment
  <2>1. CASE DamageVault
    BY <1>0, <2>1, BoundAssumption DEF DamageVault, TypeOK, JournalType, FilesType,
        ControlType, WorldType
  <2> QED
    BY <1>6, <2>1, BoundAssumption DEF Environment, CodexRefresh, CodexExit,
       ForeignVault, CrashRunner, CrashDaemon, TypeOK, JournalType, FilesType,
           ControlType, WorldType
<1>7. CASE UNCHANGED vars
  BY <1>7 DEF vars
<1> QED BY <1>1, <1>2, <1>3, <1>4, <1>5, <1>6, <1>7 DEF Next, Step
-----------------------------------------------------------------------------
(* The theorems.                                                           *)

LEMMA TypeInit == Init => TypeOK
<1> SUFFICES ASSUME Init PROVE TypeOK
  OBVIOUS
<1> USE ProcsFacts, ContentAssumption DEF Init
<1>1. pc \in [Procs -> Labels]
  BY DEF Labels
<1>2. NoIncident \in [status : {"none", "open", "resolved"}, id : Nat,
                      evidence : Contents \cup {Missing, None},
                      action : Actions \cup {None}, saved : SUBSET Nat]
  BY DEF NoIncident
<1>3. NoBytes \in [vault : Contents \cup {None},
                   runtime : Contents \cup {Missing, None}, incident : Nat]
  BY DEF NoBytes
<1>4. left \in [refresh : 0..MaxRefresh, foreign : 0..MaxForeign,
                damage : 0..MaxDamage, crash : 0..MaxCrash]
  BY BoundAssumption
<1>5. "leave" \in Conts /\ "preparing" \in States
  BY DEF Conts, States
<1> QED BY <1>1, <1>2, <1>3, <1>4, <1>5 DEF TypeOK, JournalType, FilesType, ControlType,
    WorldType, Contents

LEMMA InitInv == Init => IInv
<1> SUFFICES ASSUME Init PROVE IInv
  OBVIOUS
<1> USE ProcsFacts, ContentAssumption DEF Init
<1>1. TypeOK
  BY TypeInit
<1>2. \A p \in Procs : /\ pc[p] \in {"start_runner", "absent", "idle"}
                       /\ then[p] = "leave" /\ seen[p] = None
  OBVIOUS
<1>3. LocksHeld
  BY <1>2 DEF LocksHeld, Locked, FailLabels, CheckoutLabels, EdgeLabels, FinishLabels,
    CommitWork, OpWork
<1>4. ReturnsHome
  BY <1>2 DEF ReturnsHome, Actions, OpWork
<1>5. BytesReady
  BY <1>2 DEF BytesReady
<1>6. ReadIsFresh
  BY <1>2 DEF ReadIsFresh
<1>7. JournalReady
  BY <1>2 DEF JournalReady, FinishLabels, CommitWork
<1>8. VaultSaved
  BY <1>2 DEF VaultSaved
<1>9. JournalAhead /\ VaultStaysValid /\ OutcomeAfterEnd /\ ConflictKeepsEvidence
  BY DEF JournalAhead, VaultStaysValid, OutcomeAfterEnd, ConflictKeepsEvidence
<1> QED BY <1>1, <1>3, <1>4, <1>5, <1>6, <1>7, <1>8, <1>9 DEF IInv

LEMMA StepInv == IInv /\ [Next]_vars => IInv'
BY JournalTypeStep, FilesTypeStep, ControlTypeStep, WorldTypeStep, LocksStep, ReturnStep,
    BytesStep, FreshStep, JournalStep, AheadStep, VaultStep,
   OutcomeStep, ConflictStep, SavedStep
DEF IInv, TypeOK, JournalType, FilesType, ControlType, WorldType

THEOREM Invariance == Spec => []IInv
BY InitInv, StepInv, PTL DEF Spec

(* Every variable keeps its type.                                          *)
THEOREM TypeCorrect == Spec => []TypeOK
BY Invariance, PTL DEF IInv

(* Whatever crashes, and however scans, the runner and resolutions         *)
(* interleave, no two processes are past the lock at the same time.        *)
THEOREM Exclusion == Spec => []LocksHeld
BY Invariance, PTL DEF IInv

(* The journal is written ahead of the state that relies on it.            *)
THEOREM WriteAhead == Spec => []JournalAhead
BY Invariance, PTL DEF IInv

(* Only damage from outside makes the Vault unreadable.                    *)
THEOREM VaultValidity == Spec => []VaultStaysValid
BY Invariance, PTL DEF IInv

(* A client that sees an outcome sees a terminal state.                    *)
THEOREM OutcomeLast == Spec => []OutcomeAfterEnd
BY Invariance, PTL DEF IInv

(* A recorded conflict still has its losing credential under recovery/.    *)
THEOREM ConflictEvidence == Spec => []ConflictKeepsEvidence
BY Invariance, PTL DEF IInv

(* The compare-and-swap of Storage::transition never lands a move that     *)
(* `permits` refuses, whoever races with it.                               *)
THEOREM GuardedMoves == Spec => OnlyFailOverrides
<1>1. IInv /\ [Next]_vars => [Permits(state, state') \/ state' = "failed"]_state
  <2> SUFFICES ASSUME IInv, [Next]_vars, state' # state
               PROVE  Permits(state, state') \/ state' = "failed"
    OBVIOUS
  <2>1. ASSUME NEW p \in Procs, TransitionWrite(p) PROVE Permits(state, state')
    BY <2>1, TransitionLands DEF IInv
  <2>2. ASSUME NEW p \in Procs, FailWrite(p) PROVE state' = "failed"
    BY <2>2 DEF FailWrite
  <2> QED BY <2>1, <2>2, StateFrame
<1> QED BY <1>1, Invariance, PTL DEF Spec, OnlyFailOverrides

(* A commit never overwrites a Vault that another transaction replaced     *)
(* since checkout, and keeps a copy of the one it does overwrite.          *)
THEOREM NewerVault == Spec => NewerVaultKept
<1> DEFINE Kept == /\ vault \in {baseline, Invalid} /\ baseline \in isolated
           Ours == /\ vault' # vault /\ left' = left
                   /\ \A o \in Operators : pc[o] # "op_write"
<1>1. ASSUME IInv, [Next]_vars, Ours PROVE Kept
  <2> USE ProcsFacts
  <2>1. CASE Launch
    BY <1>1, <2>1 DEF Launch, StartRunner, RunnerStart, RunnerAcquire, Checkout,
      CopyToRuntime, RecordBaseline, Spawn, Identify, RecordProcesses, Wait, RunnerExit
  <2>2. ASSUME NEW p \in Procs, Shared(p) PROVE Kept
    BY <1>1, <2>2 DEF Shared, TransitionRead, TransitionWrite, Leave, FailRead,
      FailWrite, FailFinish, FailIncident
  <2>3. ASSUME NEW p \in {Runner} \cup Scanners, Committing(p) PROVE Kept
    BY <1>1, <2>3 DEF Committing, Commit, Matrix, Isolate, Discard, Backup,
      ConflictIncident, SaveVault, SaveBackup, WriteVault, Remove, Close, Finish,
      IInv, VaultSaved
  <2>4. ASSUME NEW s \in Scanners, Recovery(s) PROVE Kept
    BY <1>1, <2>4 DEF Recovery, Scan, ScanLock, Classify, OrphanIncident,
      RecoverPreparing, EarlyRemove, Ambiguous, PostCommit, ScanDone, ScanIncident
  <2>5. ASSUME NEW o \in Operators, Resolution(o) PROVE Kept
    BY <1>1, <2>5 DEF Resolution, Resolve, ResolveLock, Apply, ResolveBackup,
      ResolveWrite, ResolveClear, ResolveClose
  <2>6. CASE Environment
    <3>1. left.foreign \in Nat /\ left.damage \in Nat /\ left.refresh \in Nat
      BY <1>1, BoundAssumption DEF IInv, TypeOK, JournalType, FilesType, ControlType,
          WorldType
    <3>2. ~ForeignVault /\ ~DamageVault
      BY <1>1, <3>1 DEF ForeignVault, DamageVault, IInv, TypeOK, JournalType, FilesType,
          ControlType, WorldType
    <3> QED
      BY <1>1, <2>6, <3>2 DEF Environment, CodexRefresh, CodexExit, CrashRunner,
          CrashDaemon
  <2>7. CASE UNCHANGED vars
    BY <1>1, <2>7 DEF vars
  <2> QED BY <1>1, <2>1, <2>2, <2>3, <2>4, <2>5, <2>6, <2>7 DEF Next, Step
<1>2. IInv /\ [Next]_vars => [Ours => Kept]_vars
  BY <1>1
<1> QED BY <1>2, Invariance, PTL DEF Spec, NewerVaultKept
=============================================================================
