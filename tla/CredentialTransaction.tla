------------------------ MODULE CredentialTransaction ------------------------
(***************************************************************************)
(* One launch transaction of muxlane-core, from the row `create_launch`    *)
(* inserted to its terminal state, at the granularity of one database      *)
(* statement or one file operation per step.                               *)
(*                                                                         *)
(* Processes.  The launcher is the daemon thread that serves `launch.start`*)
(* (muxlaned/src/main.rs); the runner is the `managed-runner` process tmux *)
(* starts (service.rs); a scanner is a daemon thread inside `recover_all`  *)
(* (recovery.rs), at daemon start or for `recovery.scan`; an operator is a *)
(* daemon thread that resolves an incident (incident.rs).  Codex itself    *)
(* only rewrites the Runtime credential.  A crash stops the runner, or     *)
(* every thread of the daemon, between any two steps, and the kernel then  *)
(* drops the flock they held.                                              *)
(***************************************************************************)
EXTENDS LaunchStates, Naturals, FiniteSets

CONSTANTS
  Creds,        \* contents that parse as a credential object
  Invalid,      \* a content that does not
  Missing,      \* no file
  None,         \* NULL, in a column or in a local variable
  Scanners,     \* concurrent executions of recover_all
  Operators,    \* concurrent executions of incident::resolve
  LaunchErrors, \* may start_managed_runner fail?
  CrashPoints,  \* the labels of the runner at which it may be killed
  MaxRefresh,   \* bound: how often Codex rewrites auth.json
  MaxForeign,   \* bound: Vault changes from outside the transaction
  MaxDamage,    \* bound: times the Vault file is damaged
  MaxCrash      \* bound: crashes

Contents == Creds \cup {Invalid}
Launcher == "launcher"
Runner   == "runner"
Procs    == {Launcher, Runner} \cup Scanners \cup Operators

ASSUME ContentAssumption ==
  /\ Invalid \notin Creds /\ Missing \notin Contents /\ None \notin Contents
  /\ Missing # None /\ Invalid # None /\ None \notin States /\ None \notin Procs
ASSUME ProcAssumption ==
  /\ Launcher \notin Scanners \cup Operators /\ Runner \notin Scanners \cup Operators
  /\ Scanners \cap Operators = {}
  /\ CrashPoints \cap {"absent", "gone"} = {}
ASSUME BoundAssumption ==
  /\ LaunchErrors \in BOOLEAN
  /\ MaxRefresh \in Nat /\ MaxForeign \in Nat /\ MaxDamage \in Nat /\ MaxCrash \in Nat

VARIABLES
  \* the journal: a row of launch_transactions, launches, recovery_incidents
  state,      \* launch_transactions.state
  baseline,   \* vault_hash_before_checkout
  recorded,   \* are the process identities recorded?
  backup,     \* what credential_backup_reference points to
  outcome,    \* launches.outcome
  incident,   \* the transaction's latest incident
  \* the files
  vault,      \* accounts/<account>/auth.json
  runtime,    \* projects/<project>/codex-home/auth.json
  isolated,   \* contents kept under recovery/
  \* the processes
  lock,       \* owner of the Account and Project flocks
  pc,         \* the step each process is at
  seen,       \* the state a process read and has not used yet
  then,       \* where a process continues after the call it is in
  read,       \* the credential bytes a process holds in memory
  ending,     \* how the runner's launch ends once its credential is committed
  codex,      \* the Codex child
  refreshed,  \* history: Codex's last good refresh, until a choice drops it
  left        \* what is left of each bound

journal == <<state, baseline, recorded, backup, outcome, incident>>
files   == <<vault, runtime, isolated>>
locals  == <<seen, then, read, ending>>
world   == <<codex, refreshed, left>>
vars    == <<journal, files, lock, pc, locals, world>>
-----------------------------------------------------------------------------
(* Transitions.  Each label of Edge is one call of Storage::transition:    *)
(* the state it asks for and the label that follows it.                    *)

Edge ==
  [ to_checked_out    |-> [next |-> "checked_out",         then |-> "spawn"],
    to_running        |-> [next |-> "running",             then |-> "wait"],
    to_codex_exited   |-> [next |-> "codex_exited",        then |-> "commit"],
    to_committing     |-> [next |-> "committing_auth",     then |-> "matrix"],
    to_conflict       |-> [next |-> "credential_conflict", then |-> "incident"],
    to_auth_committed |-> [next |-> "auth_committed",      then |-> "remove"],
    to_cleaned        |-> [next |-> "cleaned",             then |-> "close"],
    to_finished       |-> [next |-> "finished",            then |-> "finish_exited"],
    to_recovered      |-> [next |-> "recovered",           then |-> "finish_recovered"],
    early_recovered   |-> [next |-> "recovered",           then |-> "finish_recovered"] ]

EdgeLabels == {"to_checked_out", "to_running", "to_codex_exited",
  "to_committing", "to_conflict", "to_auth_committed", "to_cleaned",
  "to_finished", "to_recovered", "early_recovered"}

FinishLabels == {"finish_exited", "finish_recovered", "finish_conflict"}
FailLabels   == {"fail", "fail_write", "fail_finish", "fail_incident"}
Labels ==
  EdgeLabels \cup FinishLabels \cup FailLabels \cup
  {"commit", "matrix", "isolate", "discard", "backup", "incident", "save_vault",
   "save_backup", "write_vault", "remove", "close",
   "start_runner", "absent", "start", "acquire", "checkout", "copy",
   "record_baseline", "spawn", "identify", "record_processes", "wait",
   "returned", "gone", "leave",
   "idle", "scan", "classify", "recover_preparing", "early_remove", "ambiguous",
   "orphan_incident", "post_commit", "scan_done", "conflict_incident",
   "op_lock", "op_apply", "op_backup", "op_write", "op_clear", "op_close"}

(* Codex is alive, and the journal does not yet say so.                    *)
SpawnWindow == {"identify", "record_processes", "to_running"}

NoBytes    == [vault |-> None, runtime |-> None, incident |-> 0]
NoIncident == [status |-> "none", id |-> 0, evidence |-> None, action |-> None,
               saved |-> {}]
Actions    == {"keep_vault", "use_evidence"}
Conts      == {"leave", "ambiguous", "incident", "orphan_incident"} \cup Actions

JournalType ==
  /\ state \in States
  /\ baseline \in Creds \cup {None}
  /\ recorded \in BOOLEAN
  /\ backup \in Contents \cup {Missing, None}
  /\ outcome \in {None, "exited", "recovered", "credential_conflict", "failed"}
  /\ incident \in [status : {"none", "open", "resolved"}, id : Nat,
                   evidence : Contents \cup {Missing, None},
                   action : Actions \cup {None}, saved : SUBSET Nat]

FilesType ==
  /\ vault \in Contents
  /\ runtime \in Contents \cup {Missing}
  /\ isolated \subseteq Contents

ControlType ==
  /\ lock \in Procs \cup {None}
  /\ pc \in [Procs -> Labels]
  /\ seen \in [Procs -> States \cup {None}]
  /\ then \in [Procs -> Conts]

WorldType ==
  /\ read \in [Procs -> [vault : Contents \cup {None},
                        runtime : Contents \cup {Missing, None}, incident : Nat]]
  /\ ending \in {"finished", "recovered", "failed"}
  /\ codex \in {"none", "alive", "exited"}
  /\ refreshed \in Creds \cup {None}
  /\ left \in [refresh : 0..MaxRefresh, foreign : 0..MaxForeign,
               damage : 0..MaxDamage, crash : 0..MaxCrash]

TypeOK == JournalType /\ FilesType /\ ControlType /\ WorldType

Init ==
  /\ state = "preparing" /\ baseline = None /\ recorded = FALSE
  /\ backup = None /\ outcome = None /\ incident = NoIncident
  /\ vault \in Creds /\ runtime = Missing /\ isolated = {}
  /\ lock = None
  /\ pc = [p \in Procs |-> IF p = Launcher THEN "start_runner"
                           ELSE IF p = Runner THEN "absent" ELSE "idle"]
  /\ seen = [p \in Procs |-> None]
  /\ then = [p \in Procs |-> "leave"]
  /\ read = [p \in Procs |-> NoBytes]
  /\ ending = "finished"
  /\ codex = "none" /\ refreshed = None
  /\ left = [refresh |-> MaxRefresh, foreign |-> MaxForeign,
             damage |-> MaxDamage, crash |-> MaxCrash]
-----------------------------------------------------------------------------
(* Control.                                                                *)

At(p, label) == pc[p] = label
Go(p, label) == pc' = [pc EXCEPT ![p] = label]

(* One statement of the journal, or one file operation: it changes one     *)
(* column, or one file, and leaves the others alone.                       *)
SetState(v)    == state' = v /\ UNCHANGED <<baseline, recorded, backup, outcome, incident>>
SetBaseline(v) == baseline' = v /\ UNCHANGED <<state, recorded, backup, outcome, incident>>
SetRecorded(v) == recorded' = v /\ UNCHANGED <<state, baseline, backup, outcome, incident>>
SetBackup(v)   == backup' = v /\ UNCHANGED <<state, baseline, recorded, outcome, incident>>
SetOutcome(v)  == outcome' = v /\ UNCHANGED <<state, baseline, recorded, backup, incident>>
SetIncident(v) == incident' = v /\ UNCHANGED <<state, baseline, recorded, backup, outcome>>
SetVault(v)    == vault' = v /\ UNCHANGED <<runtime, isolated>>
SetRuntime(v)  == runtime' = v /\ UNCHANGED <<vault, isolated>>
Keep(v)        == isolated' = isolated \cup {v} /\ UNCHANGED <<vault, runtime>>

(* The label at which the caller of a failing step continues: the runner   *)
(* fails the transaction when checkout, or the commit after an identity    *)
(* error, returns Err; recover_preparing's caller opens an incident; every *)
(* other `?` leaves the function and drops the locks.                      *)
CheckoutLabels == {"checkout", "copy", "record_baseline", "to_checked_out"}

Handler(p) ==
  IF p = Runner /\ (pc[p] \in CheckoutLabels \/ ending = "failed") THEN "fail"
  ELSE IF then[p] = "ambiguous" THEN "ambiguous"
  ELSE "leave"

Raise(p) ==
  /\ Go(p, Handler(p))
  /\ then' = [then EXCEPT ![p] = "leave"]

(* Storage::transition, its SELECT.                                        *)
TransitionRead(p) ==
  /\ pc[p] \in EdgeLabels /\ seen[p] = None
  /\ IF Permits(state, Edge[pc[p]].next)
     THEN seen' = [seen EXCEPT ![p] = state] /\ UNCHANGED <<pc, then>>
     ELSE Raise(p) /\ UNCHANGED seen
  /\ UNCHANGED <<journal, files, lock, read, ending, world>>

(* Mutant: the UPDATE loses its `AND state=?`.                             *)
TransitionWriteAny(p) ==
  /\ pc[p] \in EdgeLabels /\ seen[p] # None
  /\ SetState(Edge[pc[p]].next)
  /\ seen' = [seen EXCEPT ![p] = None]
  /\ Go(p, Edge[pc[p]].then)
  /\ UNCHANGED <<files, lock, then, read, ending, world>>

(* Storage::transition, its UPDATE ... WHERE state = the state read: it    *)
(* reports success even when it changed no row.                            *)
TransitionWrite(p) ==
  /\ pc[p] \in EdgeLabels /\ seen[p] # None
  /\ SetState(IF state = seen[p] THEN Edge[pc[p]].next ELSE state)
  /\ seen' = [seen EXCEPT ![p] = None]
  /\ Go(p, Edge[pc[p]].then)
  /\ UNCHANGED <<files, lock, then, read, ending, world>>

(* Storage::create_incident: the open one, or a new one.                   *)
Opened(evidence) ==
  IF incident.status = "open" THEN incident
  ELSE [status |-> "open", id |-> incident.id + 1, evidence |-> evidence,
        action |-> None, saved |-> incident.saved]

(* Mutant: fail writes the launch before the transaction.                  *)
FailReadOutcomeFirst(p) ==
  /\ At(p, "fail")
  /\ Go(p, IF state \in Terminal THEN then[p] ELSE "fail_finish")
  /\ UNCHANGED <<journal, files, lock, locals, world>>

(* Mutant: fail does not ask whether the transaction ended.                *)
FailReadAny(p) ==
  /\ At(p, "fail") /\ Go(p, "fail_write")
  /\ UNCHANGED <<journal, files, lock, locals, world>>

(* Storage::fail: read, then write the state whatever it is by now, then   *)
(* the launch, then the incident.                                          *)
FailRead(p) ==
  /\ At(p, "fail")
  /\ Go(p, IF state \in Terminal THEN then[p] ELSE "fail_write")
  /\ UNCHANGED <<journal, files, lock, locals, world>>

FailWrite(p) ==
  /\ At(p, "fail_write") /\ SetState("failed") /\ Go(p, "fail_finish")
  /\ UNCHANGED <<files, lock, locals, world>>

(* Mutant: fail returns without its incident.                              *)
FailFinishOnly(p) ==
  /\ At(p, "fail_finish") /\ SetOutcome("failed") /\ Go(p, then[p])
  /\ UNCHANGED <<files, lock, locals, world>>

FailFinish(p) ==
  /\ At(p, "fail_finish") /\ SetOutcome("failed") /\ Go(p, "fail_incident")
  /\ UNCHANGED <<files, lock, locals, world>>

FailIncident(p) ==
  /\ At(p, "fail_incident") /\ SetIncident(Opened(None)) /\ Go(p, then[p])
  /\ UNCHANGED <<files, lock, locals, world>>

(* The function returns: its locks are dropped and its locals are gone.    *)
Leave(p) ==
  /\ At(p, "leave")
  /\ lock' = IF lock = p THEN None ELSE lock
  /\ Go(p, IF p = Runner THEN "returned" ELSE IF p = Launcher THEN "gone" ELSE "idle")
  /\ then' = [then EXCEPT ![p] = "leave"]
  /\ read' = [read EXCEPT ![p] = NoBytes]
  /\ seen' = [seen EXCEPT ![p] = None]
  /\ UNCHANGED <<journal, files, ending, world>>

Shared(p) ==
  \/ TransitionRead(p) \/ TransitionWrite(p) \/ Leave(p)
  \/ FailRead(p) \/ FailWrite(p) \/ FailFinish(p) \/ FailIncident(p)
-----------------------------------------------------------------------------
(* credential::commit_and_clean, run by the runner or by a scanner.        *)

(* Mutant: an interrupted commit is not taken up again.                    *)
CommitOnce(p) ==
  /\ At(p, "commit")
  /\ \/ state \in {"checked_out", "codex_exited"} /\ Go(p, "to_committing")
        /\ UNCHANGED then
     \/ state \notin {"checked_out", "codex_exited"} /\ Raise(p)
  /\ UNCHANGED <<journal, files, lock, seen, read, ending, world>>

(* Its guard on the state, and the move to committing_auth.                *)
Commit(p) ==
  /\ At(p, "commit")
  /\ \/ state \in {"checked_out", "codex_exited"} /\ Go(p, "to_committing")
        /\ UNCHANGED then
     \/ state = "committing_auth" /\ Go(p, "matrix") /\ UNCHANGED then
     \/ /\ state \notin {"checked_out", "codex_exited", "committing_auth"}
        /\ Raise(p)
  /\ UNCHANGED <<journal, files, lock, seen, read, ending, world>>

(* Mutants: a Vault that changed always wins; the Runtime always wins; the *)
(* Runtime is not validated.                                               *)
VerdictVaultWins(v, r, b) ==
  IF {v, r} \subseteq Creds THEN IF r = b \/ v # b THEN "settled" ELSE "replace"
  ELSE "unreadable"
VerdictRuntimeWins(v, r, b) ==
  IF {v, r} \subseteq Creds THEN IF r = b \/ v = r THEN "settled" ELSE "replace"
  ELSE "unreadable"
VerdictUnchecked(v, r, b) ==
  IF v \in Creds /\ r # Missing
  THEN IF r = b \/ v = r THEN "settled" ELSE IF v = b THEN "replace" ELSE "conflict"
  ELSE "unreadable"

(* commit_from_hash_matrix: what the Vault v and the Runtime r say, given  *)
(* the content b that was checked out.  A content stands for its hash.     *)
Verdict(v, r, b) ==
  IF {v, r} \subseteq Creds
  THEN IF r = b \/ v = r THEN "settled" ELSE IF v = b THEN "replace" ELSE "conflict"
  ELSE "unreadable"

Matrix(p) ==
  /\ At(p, "matrix")
  /\ IF baseline = None THEN Raise(p) /\ UNCHANGED read
     ELSE LET verdict == Verdict(vault, runtime, baseline) IN
          /\ read' = [read EXCEPT ![p].vault = vault, ![p].runtime = runtime]
          /\ Go(p, CASE verdict = "settled" -> "to_auth_committed"
                     [] verdict = "replace" -> "save_vault"
                     [] OTHER               -> "isolate")
          /\ then' = [then EXCEPT ![p] = IF verdict = "conflict" THEN "incident" ELSE @]
  /\ UNCHANGED <<journal, files, lock, seen, ending, world>>

(* preserve_runtime: copy the Runtime file under recovery/, then remove it.*)
(* It opens the file first, which fails when the file is not there.        *)
Isolate(p) ==
  /\ At(p, "isolate")
  /\ IF runtime = Missing
     THEN Raise(p) /\ UNCHANGED <<isolated, read>>
     ELSE /\ isolated' = isolated \cup {runtime}
          /\ read' = [read EXCEPT ![p].runtime = runtime]
          /\ Go(p, "discard")
          /\ UNCHANGED then
  /\ UNCHANGED <<journal, vault, runtime, lock, seen, ending, world>>

(* Mutant: record_backup is forgotten.                                     *)
DiscardUnrecorded(p) ==
  /\ At(p, "discard") /\ SetRuntime(Missing)
  /\ Go(p, IF then[p] = "incident" THEN "to_conflict" ELSE "fail")
  /\ UNCHANGED <<journal, lock, locals, world>>

Discard(p) ==
  /\ At(p, "discard") /\ SetRuntime(Missing) /\ Go(p, "backup")
  /\ UNCHANGED <<journal, lock, locals, world>>

(* Storage::record_backup of the isolated Runtime; a conflict then moves   *)
(* the state, the other cases fail the transaction and return Err.         *)
Backup(p) ==
  /\ At(p, "backup") /\ SetBackup(read[p].runtime)
  /\ Go(p, IF then[p] = "incident" THEN "to_conflict" ELSE "fail")
  /\ UNCHANGED <<files, lock, locals, world>>

ConflictIncident(p) ==
  /\ At(p, "incident")
  /\ SetIncident(Opened(read[p].runtime)) /\ Go(p, "finish_conflict")
  /\ UNCHANGED <<files, lock, locals, world>>

(* preserve_bytes and record_backup of the Vault, then its replacement.    *)
SaveVault(p) ==
  /\ At(p, "save_vault") /\ Keep(read[p].vault) /\ Go(p, "save_backup")
  /\ UNCHANGED <<journal, lock, locals, world>>

SaveBackup(p) ==
  /\ At(p, "save_backup") /\ SetBackup(read[p].vault) /\ Go(p, "write_vault")
  /\ UNCHANGED <<files, lock, locals, world>>

WriteVault(p) ==
  /\ At(p, "write_vault")
  /\ SetVault(read[p].runtime) /\ Go(p, "to_auth_committed")
  /\ UNCHANGED <<journal, lock, locals, world>>

(* remove_private_file(runtime), once the state is auth_committed.         *)
Remove(p) ==
  /\ At(p, "remove") /\ SetRuntime(Missing) /\ Go(p, "to_cleaned")
  /\ UNCHANGED <<journal, lock, locals, world>>

(* What the caller of commit_and_clean does next with a clean transaction. *)
Close(p) ==
  /\ At(p, "close")
  /\ Go(p, IF p # Runner \/ ending = "recovered" THEN "to_recovered"
            ELSE IF ending = "finished" THEN "to_finished" ELSE "fail")
  /\ UNCHANGED <<journal, files, lock, locals, world>>

(* Storage::finish_launch.                                                 *)
Finish(p) ==
  /\ pc[p] \in FinishLabels
  /\ SetOutcome(CASE At(p, "finish_exited") -> "exited"
                  [] At(p, "finish_recovered") -> "recovered"
                  [] At(p, "finish_conflict") -> "credential_conflict")
  /\ Go(p, IF p = Runner THEN "leave" ELSE "scan_done")
  /\ UNCHANGED <<files, lock, locals, world>>

Committing(p) ==
  \/ Commit(p) \/ Matrix(p) \/ Isolate(p) \/ Discard(p) \/ Backup(p)
  \/ ConflictIncident(p) \/ SaveVault(p) \/ SaveBackup(p) \/ WriteVault(p)
  \/ Remove(p) \/ Close(p) \/ Finish(p)
-----------------------------------------------------------------------------
(* The launcher and the runner.                                            *)

(* terminal::start_managed_runner: tmux starts the runner, or an error     *)
(* comes back before or after it did, and launch.start then calls fail.    *)
StartRunner ==
  /\ At(Launcher, "start_runner")
  /\ \/ pc' = [pc EXCEPT ![Launcher] = "gone", ![Runner] = "start"]
     \/ LaunchErrors /\ pc' = [pc EXCEPT ![Launcher] = "fail"]
     \/ LaunchErrors /\ pc' = [pc EXCEPT ![Launcher] = "fail", ![Runner] = "start"]
  /\ UNCHANGED <<journal, files, lock, locals, world>>

(* run_managed_launch: the state must be preparing ...                     *)
RunnerStart ==
  /\ At(Runner, "start")
  /\ Go(Runner, IF state = "preparing" THEN "acquire" ELSE "leave")
  /\ UNCHANGED <<journal, files, lock, locals, world>>

(* ... and both locks free, or the runner gives up without a trace.        *)
RunnerAcquire ==
  /\ At(Runner, "acquire")
  /\ IF lock = None THEN lock' = Runner /\ Go(Runner, "checkout")
                     ELSE Go(Runner, "leave") /\ UNCHANGED lock
  /\ UNCHANGED <<journal, files, locals, world>>

(* Mutant of CopyToRuntime: the state moves before the baseline is         *)
(* recorded.                                                               *)
CopyBeforeBaseline ==
  /\ At(Runner, "copy")
  /\ SetRuntime(read[Runner].vault) /\ Go(Runner, "to_checked_out")
  /\ UNCHANGED <<journal, lock, locals, world>>

(* credential::checkout.                                                   *)
Checkout ==
  /\ At(Runner, "checkout")
  /\ IF state = "preparing" /\ runtime = Missing /\ vault \in Creds
     THEN /\ read' = [read EXCEPT ![Runner].vault = vault]
          /\ Go(Runner, "copy") /\ UNCHANGED then
     ELSE Raise(Runner) /\ UNCHANGED read
  /\ UNCHANGED <<journal, files, lock, seen, ending, world>>

CopyToRuntime ==
  /\ At(Runner, "copy")
  /\ SetRuntime(read[Runner].vault) /\ Go(Runner, "record_baseline")
  /\ UNCHANGED <<journal, lock, locals, world>>

(* Storage::record_checkout, its first statement.                          *)
RecordBaseline ==
  /\ At(Runner, "record_baseline")
  /\ SetBaseline(read[Runner].vault) /\ Go(Runner, "to_checked_out")
  /\ UNCHANGED <<files, lock, locals, world>>

(* The spawn of codex: it runs, it cannot be started, or the project can no*)
(* longer be read and the runner returns.                                  *)
Spawn ==
  /\ At(Runner, "spawn")
  /\ \/ codex' = "alive" /\ Go(Runner, "identify") /\ UNCHANGED ending
     \/ ending' = "recovered" /\ Go(Runner, "commit") /\ UNCHANGED codex
     \/ Go(Runner, "leave") /\ UNCHANGED <<codex, ending>>
  /\ UNCHANGED <<journal, files, lock, seen, then, read, refreshed, left>>

(* inspect_process of both: recorded next; or codex had already exited; or *)
(* it is killed, and the launch will fail once its credential is committed.*)
Identify ==
  /\ At(Runner, "identify")
  /\ \/ codex = "alive" /\ Go(Runner, "record_processes") /\ UNCHANGED <<codex, ending>>
     \/ codex = "exited" /\ Go(Runner, "commit") /\ UNCHANGED <<codex, ending>>
     \/ /\ codex = "alive" /\ codex' = "exited"
        /\ ending' = "failed" /\ Go(Runner, "commit")
  /\ UNCHANGED <<journal, files, lock, seen, then, read, refreshed, left>>

(* Storage::record_processes, its first statement.                         *)
RecordProcesses ==
  /\ At(Runner, "record_processes")
  /\ SetRecorded(TRUE) /\ Go(Runner, "to_running")
  /\ UNCHANGED <<files, lock, locals, world>>

(* child.wait().                                                           *)
Wait ==
  /\ At(Runner, "wait") /\ codex = "exited"
  /\ Go(Runner, "to_codex_exited")
  /\ UNCHANGED <<journal, files, lock, locals, world>>

(* The process ends, after the function has returned.                      *)
RunnerExit ==
  /\ At(Runner, "returned")
  /\ Go(Runner, "gone")
  /\ UNCHANGED <<journal, files, lock, locals, world>>

Launch ==
  \/ StartRunner \/ RunnerStart \/ RunnerAcquire \/ Checkout \/ CopyToRuntime
  \/ RecordBaseline \/ Spawn \/ Identify \/ RecordProcesses \/ Wait \/ RunnerExit
-----------------------------------------------------------------------------
(* recovery::recover_all and recover_transaction.                          *)

RunnerAlive == pc[Runner] \notin {"absent", "gone"}

(* list_nonterminal_transactions: the snapshot everything below works from.*)
Scan(s) ==
  /\ At(s, "idle") /\ state \notin Terminal
  /\ seen' = [seen EXCEPT ![s] = state]
  /\ Go(s, "scan")
  /\ UNCHANGED <<journal, files, lock, then, read, ending, world>>

(* A lock in use leaves the transaction alone ("active_flock").            *)
ScanLock(s) ==
  /\ At(s, "scan")
  /\ IF lock = None THEN lock' = s /\ Go(s, "classify") /\ UNCHANGED seen
     ELSE Go(s, "idle") /\ seen' = [seen EXCEPT ![s] = None] /\ UNCHANGED lock
  /\ UNCHANGED <<journal, files, then, read, ending, world>>

(* Mutant: only the runner's identity is compared.                         *)
OrphanRunnerSeen(s) == seen[s] = "running" /\ recorded /\ RunnerAlive

(* matches_recorded of the runner or of codex, for a running snapshot.     *)
OrphanSeen(s) ==
  seen[s] = "running" /\ recorded /\ (RunnerAlive \/ codex = "alive")

(* What the snapshot's state leads to, once no recorded process matches.   *)
Classes ==
  [ preparing       |-> "recover_preparing",
    checked_out     |-> "commit",
    running         |-> "to_codex_exited",
    codex_exited    |-> "commit",
    committing_auth |-> "commit",
    auth_committed  |-> "post_commit",
    cleaned         |-> "to_recovered" ]

Classify(s) ==
  /\ At(s, "classify")
  /\ IF OrphanSeen(s)
     THEN /\ lock' = IF lock = s THEN None ELSE lock
          /\ Go(s, "fail")
          /\ then' = [then EXCEPT ![s] = "orphan_incident"]
     ELSE /\ Go(s, IF seen[s] \in DOMAIN Classes THEN Classes[seen[s]] ELSE "leave")
          /\ then' = [then EXCEPT ![s] = IF seen[s] = "preparing" THEN "ambiguous" ELSE "leave"]
          /\ UNCHANGED lock
  /\ seen' = [seen EXCEPT ![s] = None]
  /\ UNCHANGED <<journal, files, read, ending, world>>

(* process_without_lock: the incident is asked for whatever fail() did.    *)
OrphanIncident(s) ==
  /\ At(s, "orphan_incident") /\ SetIncident(Opened(None)) /\ Go(s, "leave")
  /\ UNCHANGED <<files, lock, locals, world>>

(* credential::recover_preparing.                                          *)
RecoverPreparing(s) ==
  /\ At(s, "recover_preparing")
  /\ \/ state # "preparing" /\ Raise(s)
     \/ state = "preparing" /\ runtime = Missing
        /\ Go(s, "early_recovered") /\ UNCHANGED then
     \/ state = "preparing" /\ runtime # Missing /\ vault \notin Creds /\ Raise(s)
     \/ /\ state = "preparing" /\ runtime # Missing /\ vault \in Creds
        /\ Go(s, IF runtime = vault THEN "early_remove" ELSE "isolate")
        /\ UNCHANGED then
  /\ UNCHANGED <<journal, files, lock, seen, read, ending, world>>

EarlyRemove(s) ==
  /\ At(s, "early_remove") /\ SetRuntime(Missing) /\ Go(s, "early_recovered")
  /\ UNCHANGED <<journal, lock, locals, world>>

(* Its error: the incident is opened, and Failed is reported.              *)
Ambiguous(s) ==
  /\ At(s, "ambiguous") /\ SetIncident(Opened(None)) /\ Go(s, "leave")
  /\ UNCHANGED <<files, lock, locals, world>>

(* Mutant: the Runtime file is left behind.                                *)
PostCommitKeeping(s) ==
  /\ At(s, "post_commit")
  /\ IF runtime # Missing /\ runtime = vault
     THEN Go(s, "to_cleaned") /\ UNCHANGED then
     ELSE Raise(s)
  /\ UNCHANGED <<journal, files, lock, seen, read, ending, world>>

(* recover_after_vault_commit: the Runtime file must be there and equal the*)
(* Vault, or the scan returns Err.                                         *)
PostCommit(s) ==
  /\ At(s, "post_commit")
  /\ IF runtime # Missing /\ runtime = vault
     THEN Go(s, "remove") /\ UNCHANGED then
     ELSE Raise(s)
  /\ UNCHANGED <<journal, files, lock, seen, read, ending, world>>

(* The locks are dropped and the final row is read back; a conflict gets   *)
(* its incident, if it has none, from the recorded backup.                 *)
ScanDone(s) ==
  /\ At(s, "scan_done")
  /\ lock' = IF lock = s THEN None ELSE lock
  /\ Go(s, IF state = "credential_conflict" THEN "conflict_incident" ELSE "leave")
  /\ UNCHANGED <<journal, files, locals, world>>

ScanIncident(s) ==
  /\ At(s, "conflict_incident")
  /\ SetIncident(Opened(backup)) /\ Go(s, "leave")
  /\ UNCHANGED <<files, lock, locals, world>>

Recovery(s) ==
  \/ Scan(s) \/ ScanLock(s) \/ Classify(s) \/ OrphanIncident(s)
  \/ RecoverPreparing(s) \/ EarlyRemove(s) \/ Ambiguous(s) \/ PostCommit(s)
  \/ ScanDone(s) \/ ScanIncident(s)
-----------------------------------------------------------------------------
(* incident::resolve.                                                      *)

(* The incident is read, with its evidence, before the locks are asked for.*)
Resolve(o, action) ==
  /\ At(o, "idle") /\ incident.status = "open"
  /\ read' = [read EXCEPT ![o].runtime = incident.evidence, ![o].incident = incident.id]
  /\ then' = [then EXCEPT ![o] = action]
  /\ Go(o, "op_lock")
  /\ UNCHANGED <<journal, files, lock, seen, ending, world>>

ResolveLock(o) ==
  /\ At(o, "op_lock")
  /\ IF lock = None THEN lock' = o /\ Go(o, "op_apply")
                     ELSE Go(o, "leave") /\ UNCHANGED lock
  /\ UNCHANGED <<journal, files, locals, world>>

(* Mutant: the Vault is not saved first.                                   *)
ApplyUnsaved(o) ==
  /\ At(o, "op_apply")
  /\ LET keep == then[o] = "keep_vault"
         ok   == vault \in Creds /\ IF keep THEN runtime \in Creds \cup {Missing}
                                    ELSE read[o].runtime \in Creds
     IN  Go(o, IF ~ok THEN "leave" ELSE IF keep THEN "op_clear" ELSE "op_write")
  /\ read' = [read EXCEPT ![o].vault = vault]
  /\ UNCHANGED <<journal, files, lock, seen, then, ending, world>>

(* apply_resolution, its checks: a valid Vault, and for keep_vault a       *)
(* Runtime that is valid or absent, for use_evidence a valid candidate.    *)
Apply(o) ==
  /\ At(o, "op_apply")
  /\ LET keep == then[o] = "keep_vault"
         ok   == vault \in Creds /\ IF keep THEN runtime \in Creds \cup {Missing}
                                    ELSE read[o].runtime \in Creds
     IN  Go(o, IF ~ok THEN "leave" ELSE IF keep THEN "op_clear"
               ELSE IF read[o].incident \in incident.saved THEN "op_write" ELSE "op_backup")
  /\ read' = [read EXCEPT ![o].vault = vault]
  /\ UNCHANGED <<journal, files, lock, seen, then, ending, world>>

(* The Vault is saved, once per incident, under a name of the incident ... *)
ResolveBackup(o) ==
  /\ At(o, "op_backup") /\ Keep(read[o].vault)
  /\ SetIncident([incident EXCEPT !.saved = @ \cup {read[o].incident}])
  /\ Go(o, "op_write")
  /\ UNCHANGED <<lock, locals, world>>

(* ... replaced by the evidence ...                                        *)
ResolveWrite(o) ==
  /\ At(o, "op_write") /\ SetVault(read[o].runtime) /\ Go(o, "op_clear")
  /\ UNCHANGED <<journal, lock, locals, world>>

(* ... and the Runtime credential cleared, by the operator's own choice.   *)
ResolveClear(o) ==
  /\ At(o, "op_clear") /\ SetRuntime(Missing)
  /\ refreshed' = None
  /\ Go(o, "op_close")
  /\ UNCHANGED <<journal, lock, locals, codex, left>>

(* Storage::resolve_incident: only the incident it read, if still open.    *)
ResolveClose(o) ==
  /\ At(o, "op_close")
  /\ SetIncident(IF incident.status = "open" /\ incident.id = read[o].incident
                 THEN [incident EXCEPT !.status = "resolved", !.action = then[o]]
                 ELSE incident)
  /\ Go(o, "leave")
  /\ UNCHANGED <<files, lock, locals, world>>

Resolution(o) ==
  \/ \E action \in Actions : Resolve(o, action)
  \/ ResolveLock(o) \/ Apply(o) \/ ResolveBackup(o) \/ ResolveWrite(o)
  \/ ResolveClear(o) \/ ResolveClose(o)
-----------------------------------------------------------------------------
(* Codex, the rest of the system, and failures.                            *)

(* Codex refreshes its credential, leaves it torn, or logs out.            *)
CodexRefresh ==
  /\ codex = "alive" /\ left.refresh > 0
  /\ \E content \in Contents \cup {Missing} :
       /\ content # runtime
       /\ runtime' = content
       /\ refreshed' = IF content \in Creds THEN content ELSE None
  /\ left' = [left EXCEPT !.refresh = @ - 1]
  /\ UNCHANGED <<journal, vault, isolated, lock, pc, locals, codex>>

CodexExit ==
  /\ codex = "alive" /\ codex' = "exited"
  /\ UNCHANGED <<journal, files, lock, pc, locals, refreshed, left>>

(* The Vault is replaced under the Account lock by something else than this*)
(* transaction: an older incident of the account is resolved with its      *)
(* evidence, or, once this transaction ended and the index on unfinished   *)
(* ones admits it, another launch commits.  Both save the Vault first.     *)
ForeignVault ==
  /\ lock = None /\ left.foreign > 0 /\ vault \in Creds
  /\ \E content \in Creds \ {vault} : vault' = content
  /\ isolated' = isolated \cup {vault}
  /\ left' = [left EXCEPT !.foreign = @ - 1]
  /\ UNCHANGED <<journal, runtime, lock, pc, locals, codex, refreshed>>

(* The Vault file is truncated or otherwise stops being a credential.      *)
DamageVault ==
  /\ left.damage > 0 /\ vault' = Invalid
  /\ left' = [left EXCEPT !.damage = @ - 1]
  /\ UNCHANGED <<journal, runtime, isolated, lock, pc, locals, codex, refreshed>>

CrashRunner ==
  /\ pc[Runner] \in CrashPoints /\ left.crash > 0
  /\ Go(Runner, "gone")
  /\ lock' = IF lock = Runner THEN None ELSE lock
  /\ seen' = [seen EXCEPT ![Runner] = None]
  /\ then' = [then EXCEPT ![Runner] = "leave"]
  /\ read' = [read EXCEPT ![Runner] = NoBytes]
  /\ left' = [left EXCEPT !.crash = @ - 1]
  /\ UNCHANGED <<journal, files, ending, codex, refreshed>>

(* The daemon stops; at its next start the scanners run again.             *)
CrashDaemon ==
  /\ left.crash > 0
  /\ \E p \in Procs \ {Runner} : pc[p] \notin {"idle", "gone"}
  /\ pc' = [p \in Procs |-> IF p = Runner THEN pc[p]
                            ELSE IF p = Launcher THEN "gone" ELSE "idle"]
  /\ lock' = IF lock = Runner THEN lock ELSE None
  /\ seen' = [p \in Procs |-> IF p = Runner THEN seen[p] ELSE None]
  /\ then' = [p \in Procs |-> IF p = Runner THEN then[p] ELSE "leave"]
  /\ read' = [p \in Procs |-> IF p = Runner THEN read[p] ELSE NoBytes]
  /\ left' = [left EXCEPT !.crash = @ - 1]
  /\ UNCHANGED <<journal, files, ending, codex, refreshed>>

Environment ==
  \/ CodexRefresh \/ CodexExit \/ ForeignVault \/ DamageVault
  \/ CrashRunner \/ CrashDaemon

(* The steps the program itself takes.                                     *)
Step(p) ==
  \/ Shared(p)
  \/ p \in {Runner} \cup Scanners /\ Committing(p)
  \/ p \in Scanners /\ Recovery(p)
  \/ p \in Operators /\ Resolution(p)

Next == Launch \/ (\E p \in Procs : Step(p)) \/ Environment

Spec == Init /\ [][Next]_vars

(* Every process that can take a step takes it, Codex ends eventually, and *)
(* recovery is run again and again: the daemon scans whenever it starts,   *)
(* and a client may ask for a scan at any time.                            *)
Fairness ==
  /\ WF_vars(Launch) /\ WF_vars(CodexExit)
  /\ WF_vars(Shared(Runner) \/ Committing(Runner)) /\ WF_vars(Shared(Launcher))
  /\ \A s \in Scanners : WF_vars(Shared(s) \/ Committing(s) \/ Recovery(s))

FairSpec == Spec /\ Fairness
-----------------------------------------------------------------------------
(* Properties.                                                             *)

(* The journal holds the evidence a state relies on before it enters that  *)
(* state: record_checkout writes the baseline hash, record_processes the   *)
(* process identities, and only then do they move the state, so recovery   *)
(* can decide whatever the moment of the crash.                            *)
JournalAhead ==
  /\ state \in {"checked_out", "running", "codex_exited", "committing_auth",
                "auth_committed", "cleaned", "finished", "credential_conflict"}
       => baseline # None
  /\ state = "running" => recorded

(* No write of Muxlane makes the Vault unreadable, whatever Codex leaves in*)
(* the Runtime file and wherever a commit or a resolution is interrupted:  *)
(* only damage from outside does.                                          *)
VaultStaysValid == left.damage = MaxDamage => vault \in Creds

(* Whoever races with whom, a state changes along a permitted pair or to   *)
(* failed: the compare-and-swap of Storage::transition never lands a move  *)
(* that `permits` refuses for the state it really replaces.                *)
OnlyFailOverrides == [][Permits(state, state') \/ state' = "failed"]_state

(* launches.outcome is written after the transaction ended, never before:  *)
(* a client that sees an outcome sees a terminal state.                    *)
OutcomeAfterEnd == outcome # None => state \in Terminal

(* The detailed protocol implements the journal's promise, with any number *)
(* of scans and a failing launcher: permitted moves; failure only by those *)
(* who saw the transaction unfinished; and since they may write late, an   *)
(* ended transaction may still turn into a failed one, and into no other.  *)
Lifecycle == INSTANCE LaunchLifecycle WITH
  Callers <- Procs, failing <- {p \in Procs : pc[p] = "fail_write"}
LifecycleSpec == Lifecycle!Spec

(* A resolution replaces the Vault or clears the Runtime.                  *)
Resolving == \E o \in Operators : pc[o] \in {"op_write", "op_clear"} /\ pc'[o] # pc[o]
IsKept == refreshed # None => refreshed \in {vault, runtime} \cup isolated

(* The credential Codex refreshed last exists in the Vault, in the Runtime *)
(* file or under recovery/ through every commit, crash and recovery: only  *)
(* a resolution, or damage from outside, drops it.                         *)
RefreshSurvives ==
  [][ IsKept /\ left'.damage = MaxDamage => IsKept' \/ Resolving ]_vars

(* A commit replaces only the Vault content that was checked out, and only *)
(* once that content is saved: a Vault another transaction updated in      *)
(* between is never overwritten.  (A damaged one is.)                      *)
NewerVaultKept ==
  [][ vault' # vault /\ left' = left /\ (\A o \in Operators : pc[o] # "op_write")
        => vault \in {baseline, Invalid} /\ baseline \in isolated ]_vars

(* A transaction that ended in order leaves no credential in the Runtime.  *)
CleanIsClean == state \in {"cleaned", "finished", "recovered"} => runtime = Missing

(* No commit or scan changes the Runtime credential while Codex is alive;  *)
(* only Codex, and a resolution of an incident that a stale scan opened.   *)
LiveRuntimeUntouched ==
  [][ codex = "alive" /\ runtime' # runtime => left' # left \/ Resolving ]_vars

(* A conflict is recorded only with the losing credential kept: valid,     *)
(* under recovery/, and referenced by the journal.  (Valid only as long as *)
(* no crash hides a live codex from recovery: see LiveRuntimeUntouched.)   *)
ConflictKeepsBoth ==
  state = "credential_conflict" => backup \in Creds \cap isolated

(* A transaction that failed or conflicted has an incident, which blocks   *)
(* the project, unless a process is still on its way to open it.           *)
Opening == FailLabels \cup FinishLabels \cup {"incident", "scan_done",
                                             "conflict_incident"}
FailureIsBlocked ==
  state \in {"failed", "credential_conflict"} =>
    incident.status # "none" \/ \E p \in Procs : pc[p] \in Opening

(* Without a crash, no transaction fails or conflicts without its incident.*)
FailureOpensIncident == left.crash = MaxCrash => FailureIsBlocked

(* A resolution replaces a Vault only once a copy of that Vault is kept.   *)
(* It takes one crash to leave evidence to resolve with; a second one, in  *)
(* the middle of a resolution, makes the next attempt take the first one's *)
(* copy for a copy of today's Vault.                                       *)
PriorVaultPreserved ==
  left.crash + 1 >= MaxCrash =>
    \A o \in Operators : pc[o] = "op_write" => vault \in isolated \cup {Invalid}

(* The journals automatic recovery cannot move, each with what it takes to *)
(* get there: a commit whose Runtime file codex removed, or a crash before *)
(* the isolation was recorded; a crash between the commit and `cleaned',   *)
(* once the Runtime is gone or the Vault moved on; a crash in the checkout *)
(* and a Vault that is damaged since.                                      *)
Stuck ==
  \/ /\ state = "committing_auth" /\ runtime = Missing
     /\ left.refresh < MaxRefresh \/ left.crash < MaxCrash
  \/ /\ state = "auth_committed" /\ runtime # vault
     /\ left.crash < MaxCrash
  \/ /\ state = "preparing" /\ runtime # Missing /\ vault = Invalid
     /\ left.crash < MaxCrash

(* Recovery ends every other transaction for good, whatever crashed and    *)
(* when: in the end each is terminal and stays so, or is one of the above  *)
(* and needs its operator.                                                 *)
SettlesOrSticks == <>[](state \in Terminal \/ Stuck)

-----------------------------------------------------------------------------
(* The inductive invariant: what each process relies on at each step.      *)

OpWork     == {"op_apply", "op_backup", "op_write", "op_clear", "op_close"}
CommitWork == {"matrix", "isolate", "discard", "backup", "to_conflict",
               "save_vault", "save_backup", "write_vault"}

(* The steps that are taken under the Account and Project locks.           *)
Locked ==
  CheckoutLabels \cup EdgeLabels \cup FinishLabels \cup CommitWork \cup OpWork \cup
  {"spawn", "identify", "record_processes", "wait", "commit", "incident", "remove",
   "close", "classify", "recover_preparing", "early_remove", "ambiguous",
   "post_commit", "scan_done"}

(* Whoever is at such a step holds the locks, so at most one process is.   *)
LocksHeld ==
  \A p \in Procs :
    pc[p] \in Locked \/ (pc[p] \in FailLabels /\ then[p] = "ambiguous") => lock = p

(* Where each process may be while it has a place to return to; the        *)
(* launcher only ever fails the transaction, before its runner is there.   *)
ReturnsHome ==
  /\ then[Launcher] = "leave"
  /\ pc[Launcher] = "start_runner" => pc[Runner] = "absent"
  /\ \A p \in Procs :
       /\ then[p] = "incident" =>
            pc[p] \in {"isolate", "discard", "backup", "to_conflict", "incident",
                       "finish_conflict", "scan_done", "conflict_incident", "leave"}
       /\ then[p] = "orphan_incident" => pc[p] \in FailLabels \cup {"orphan_incident", "leave"}
       /\ then[p] \in Actions => pc[p] \in OpWork \cup {"op_lock", "leave"}
       /\ pc[p] \in OpWork \cup {"op_lock"} => then[p] \in Actions

(* The bytes a process is about to write are valid, or already kept.       *)
BytesReady ==
  \A p \in Procs :
    /\ pc[p] \in {"copy", "record_baseline", "save_vault", "save_backup",
                  "write_vault", "op_backup", "op_write"} => read[p].vault \in Creds
    /\ pc[p] \in {"save_vault", "save_backup", "write_vault", "op_backup", "op_write"}
         => read[p].runtime \in Creds
    /\ pc[p] \in {"discard", "backup"} => read[p].runtime \in isolated

(* Between the SELECT and the UPDATE of a transition nothing but fail()    *)
(* moves the state.                                                        *)
ReadIsFresh ==
  \A p \in Procs :
    /\ seen[p] # None => pc[p] \in EdgeLabels \cup {"scan", "classify"}
    /\ pc[p] \in {"scan", "classify"} => seen[p] # None
    /\ pc[p] \in EdgeLabels /\ seen[p] # None =>
         Permits(seen[p], Edge[pc[p]].next) /\ state \in {seen[p], "failed"}

(* What the journal says when a process is about to build on it.           *)
JournalReady ==
  \A p \in Procs :
    /\ pc[p] = "to_checked_out" => baseline # None
    /\ pc[p] = "to_running" => recorded
    /\ pc[p] \in FinishLabels \cup {"incident", "fail_finish"} => state \in Terminal
    /\ pc[p] \in CommitWork => state \in {"preparing", "committing_auth", "failed"}
    /\ pc[p] = "to_conflict" => backup \in isolated

(* Until a commit replaces the Vault, the Vault is what was checked out,   *)
(* unless it was damaged meanwhile; by then a copy is kept.                *)
VaultSaved ==
  \A p \in Procs :
    /\ pc[p] \in {"save_vault", "save_backup", "write_vault"} =>
         read[p].vault = baseline /\ vault \in {baseline, Invalid}
    /\ pc[p] \in {"save_backup", "write_vault"} => baseline \in isolated

(* A conflict is recorded only with the losing credential kept under       *)
(* recovery/ and referenced by the journal.                                *)
ConflictKeepsEvidence == state = "credential_conflict" => backup \in isolated

IInv ==
  /\ TypeOK /\ LocksHeld /\ ReturnsHome /\ BytesReady /\ ReadIsFresh /\ JournalReady
  /\ VaultSaved
  /\ JournalAhead /\ VaultStaysValid /\ OutcomeAfterEnd /\ ConflictKeepsEvidence
-----------------------------------------------------------------------------
(* What the rest of the safety properties needs: where each process may    *)
(* be, what the runner's step says of the state, and where codex may be.   *)

(* The steps only one kind of process takes.                               *)
RunnerSteps ==
  CheckoutLabels \cup SpawnWindow \cup
  {"absent", "start", "acquire", "spawn", "wait", "returned", "to_finished",
   "finish_exited"}
ScannerSteps ==
  {"scan", "classify", "recover_preparing", "early_remove", "early_recovered",
   "ambiguous", "orphan_incident", "post_commit", "scan_done", "conflict_incident"}
OperatorSteps == OpWork \cup {"op_lock"}

Roles ==
  /\ pc[Launcher] \in FailLabels \cup {"start_runner", "leave", "gone"}
  /\ pc[Runner] # "idle"
  /\ \A o \in Operators : pc[o] \in OperatorSteps \cup {"idle", "leave"}
  /\ \A p \in Procs :
       /\ pc[p] = "start_runner" => p = Launcher
       /\ pc[p] \in RunnerSteps => p = Runner
       /\ pc[p] \in ScannerSteps => p \in Scanners
       /\ pc[p] \in OperatorSteps => p \in Operators
       /\ then[p] \in {"ambiguous", "orphan_incident"} => p \in Scanners

(* The runner holds the locks from checkout on, so the state is where its  *)
(* own step left it, unless fail() came in between.                        *)
RunnerStates ==
  LET at == pc[Runner] IN
  /\ at \in {"absent", "start", "acquire", "checkout"} =>
       state \in {"preparing", "recovered", "failed"}
  /\ at \in {"copy", "record_baseline", "to_checked_out"} =>
       state \in {"preparing", "failed"}
  /\ at \in SpawnWindow \cup {"spawn"} => state \in {"checked_out", "failed"}
  /\ at \in {"wait", "to_codex_exited"} => state \in {"running", "failed"}
  /\ at \in {"commit", "to_committing"} =>
       state \in {"checked_out", "codex_exited", "failed"}
  /\ at \in CommitWork \cup {"to_auth_committed"} =>
       state \in {"committing_auth", "failed"}
  /\ at \in {"remove", "to_cleaned"} => state \in {"auth_committed", "failed"}
  /\ at \in {"close", "to_finished", "to_recovered"} => state \in {"cleaned", "failed"}

(* Before the spawn there is no codex, and no scan saw a later state.      *)
Early == CheckoutLabels \cup {"absent", "start", "acquire", "spawn"}
Late  == {"running", "codex_exited", "committing_auth", "auth_committed", "cleaned"}

BeforeSpawn ==
  pc[Runner] \in Early =>
    codex = "none" /\ refreshed = None /\ \A p \in Procs : seen[p] \notin Late

(* No scan that is about to close a clean transaction finds it preparing,  *)
(* and what a scan saw running has its processes recorded.                 *)
ScansAreLater ==
  /\ state = "preparing" =>
       \A p \in Procs : seen[p] # "cleaned" /\ pc[p] \notin {"close", "to_recovered"}
  /\ \A p \in Procs : seen[p] = "running" => recorded
  /\ pc[Runner] = "wait" => recorded

(* The credential of an incident is that of a conflict: the transaction    *)
(* ended, whoever still works on it.                                       *)
EvidenceEnds ==
  /\ incident.evidence \in Creds => state \in Terminal
  /\ \A o \in Operators : read[o].runtime \in Creds => state \in Terminal
  /\ \A p \in Procs : pc[p] = "conflict_incident" => state \in Terminal

(* Where codex is known to have exited, if no runner is killed before its  *)
(* identity is recorded: otherwise a scan commits what codex still writes. *)
SpawnNotKilled == CrashPoints \cap SpawnWindow = {}

Exited ==
  CommitWork \cup {"to_codex_exited", "to_committing", "to_auth_committed", "remove",
                  "to_cleaned", "early_remove", "early_recovered", "post_commit"}

CodexWatched ==
  /\ \A p \in Procs : pc[p] \in Exited => codex # "alive"
  /\ \A p \in Procs : seen[p] \in Late \ {"running"} => codex # "alive"
  /\ codex = "alive" =>
       /\ state \in {"checked_out", "running", "failed"}
       /\ \/ pc[Runner] \in SpawnWindow \cup {"wait"}
          \/ recorded /\ state # "checked_out"

(* The Runtime file is what a process read of it, ...                      *)
RuntimeAsRead ==
  \A p \in Procs :
    /\ pc[p] \in {"save_vault", "save_backup", "write_vault"} => read[p].runtime = runtime
    /\ pc[p] = "discard" => runtime = read[p].runtime
    /\ pc[p] \in {"to_cleaned", "early_recovered"} => runtime = Missing

(* ... valid, when it is the loser of a conflict, ...                      *)
LoserValid ==
  \A p \in Procs :
    /\ pc[p] = "isolate" /\ then[p] = "incident" => runtime \in Creds
    /\ pc[p] \in {"discard", "backup"} /\ then[p] = "incident" => read[p].runtime \in Creds
    /\ pc[p] = "to_conflict" => backup \in Creds

(* ... and kept elsewhere, when a process is about to remove it.           *)
RuntimeKept ==
  left.damage = MaxDamage =>
    /\ \A p \in Procs :
         /\ pc[p] \in {"copy", "record_baseline"} => read[p].vault = vault
         /\ pc[p] \in {"to_auth_committed", "remove", "early_remove"} =>
              runtime \in {vault, Missing} \cup isolated
    /\ /\ baseline # None
       /\ state \notin Terminal \/ \E p \in Procs : pc[p] \in {"to_committing", "matrix"}
       => baseline \in {vault} \cup isolated

RInv ==
  CodexWatched /\ RuntimeAsRead /\ LoserValid /\ RuntimeKept /\ CleanIsClean
  /\ ConflictKeepsBoth

(* Until the first crash, whoever fails a transaction, or records its      *)
(* conflict, is still about to open the incident.                          *)
FollowedUp ==
  left.crash = MaxCrash =>
    /\ state = "failed" =>
         incident.status # "none" \/ \E p \in Procs : pc[p] \in {"fail_finish", "fail_incident"}
    /\ state = "credential_conflict" =>
         incident.status # "none" \/ \E p \in Procs : pc[p] = "incident"

(* From checkout until it writes, the runner keeps everybody else from the *)
(* Vault; the baseline comes after the copy.                               *)
Supervised ==
  (CommitWork \ {"backup", "to_conflict"}) \cup SpawnWindow \cup
  {"to_checked_out", "spawn", "wait", "to_codex_exited", "commit", "to_committing"}

CheckoutInOrder ==
  /\ pc[Runner] \in {"absent", "start", "acquire", "checkout", "copy", "record_baseline"}
       => baseline = None
  /\ pc[Runner] = "record_baseline" => runtime = read[Runner].vault
  /\ pc[Runner] \in {"to_checked_out", "spawn"} => runtime = baseline
  /\ pc[Runner] \in {"copy", "record_baseline"} => vault \in {read[Runner].vault, Invalid}
  /\ pc[Runner] \in Supervised => vault \in {baseline, Invalid}

(* Until the first crash there is no conflict, hence no credential to      *)
(* resolve with: a commit finds the Vault that was checked out, or, when   *)
(* the runner left before, a Runtime that codex did not change.            *)
NoLoser ==
  /\ state # "credential_conflict" /\ incident.evidence \notin Creds
  /\ \A o \in Operators : read[o].runtime \notin Creds
  /\ \A p \in Procs :
       /\ then[p] # "incident"
       /\ pc[p] \notin {"to_conflict", "incident", "conflict_incident"}

BaselineGuarded ==
  /\ baseline # None
  /\ state \notin Terminal \/ \E p \in Procs : pc[p] \in {"to_committing", "matrix"}
  => \/ pc[Runner] \in Supervised \cup {"to_auth_committed", "remove"}
     \/ codex # "alive" /\ runtime \in {Missing, baseline}

NoConflictYet ==
  left.crash = MaxCrash => CodexWatched /\ NoLoser /\ BaselineGuarded

SInv ==
  /\ Roles /\ RunnerStates /\ BeforeSpawn /\ ScansAreLater /\ EvidenceEnds
  /\ CheckoutInOrder /\ NoConflictYet /\ FollowedUp
=============================================================================
