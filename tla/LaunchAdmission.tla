--------------------------- MODULE LaunchAdmission ---------------------------
(***************************************************************************)
(* Several launches over shared accounts and projects: how `launch.start`  *)
(* admits one, how flocks keep them apart, and how recovery, incident      *)
(* resolution, archiving and usage queries compete for the same files.     *)
(*                                                                         *)
(* CredentialTransaction models one transaction statement by statement;    *)
(* here a stretch of one transaction that its locks protect is one step,   *)
(* and so is Storage::fail.  A process is a launch (its daemon thread up   *)
(* to `start`, its managed runner from `enter`) or a thread of the daemon. *)
(* A codex may outlive its runner, and go on writing to a Runtime that     *)
(* others use by then: `orphans' tells whose did.                          *)
(***************************************************************************)
EXTENDS LaunchStates, Naturals, Sequences

CONSTANTS
  Txs,         \* the launches that may be requested
  Accounts,
  Projects,
  None,
  Busy,        \* the daemon threads that get requests
  MaxRefresh,  \* bound: how often Codex processes rewrite a credential
  MaxRestore,  \* bound: how often a Vault is restored from outside
  MaxCrash     \* bound: crashes and reboots

Daemon == {"scan", "operator", "archiver", "usage"}
Procs  == Txs \cup Daemon

ASSUME NameAssumption ==
  /\ None \notin Txs \cup Accounts \cup Projects \cup States \cup Daemon
  /\ Txs \cap Daemon = {}

VARIABLES
  place,    \* the account and project of a launch
  state,    \* launch_transactions.state, None before the row exists
  base,     \* vault_hash_before_checkout
  incident, \* the latest incident of a launch, and whether its Vault backup exists
  order,    \* the rows in the order of created_at
  archived, \* projects with archived_at
  vault,    \* accounts/<account>/auth.json
  runtime,  \* projects/<project>/codex-home/auth.json, and whose it is
  kept,     \* contents under recovery/
  accountLock, projectLock,   \* the owner of each flock
  pc,       \* the step each process is at
  late,     \* launches whose start will be reported as failed, though the runner runs
  at,       \* what a daemon thread works on
  todo,     \* the snapshot a scan took: the states of rows it has yet to visit
  codex,    \* the Codex child of each launch
  latest,   \* history: what Codex wrote last, until somebody drops it
  orphans,  \* history: launches whose Codex outlived its runner
  left      \* what is left of each bound

rows  == <<place, state, base, incident, order, archived>>
files == <<vault, runtime, kept>>
locks == <<accountLock, projectLock>>
local == <<at, todo>>
world == <<codex, latest, orphans, left>>
vars  == <<rows, files, locks, pc, late, local, world>>

LauncherLabels == {"prepare_account", "prepare_project", "create", "start"}
RunnerLabels   == {"enter", "runner_account", "runner_project", "checkout", "record",
                   "spawn", "record_running", "wait", "commit", "remove", "close"}
DaemonLabels   ==
  [scan     |-> {"idle", "next", "scan_account", "scan_project", "classify",
                 "commit", "remove", "close"},
   operator |-> {"idle", "op_account", "op_project", "op_apply", "op_close"},
   archiver |-> {"idle", "arch_project", "arch_check", "arch_write"},
   usage    |-> {"idle", "query"}]
Labels(x) == IF x \in Txs THEN LauncherLabels \cup RunnerLabels \cup {"request", "gone"}
             ELSE DaemonLabels[x]

ASSUME LimitAssumption ==
  Busy \subseteq Daemon /\ MaxRefresh \in Nat /\ MaxRestore \in Nat /\ MaxCrash \in Nat

Nowhere  == [account |-> None, project |-> None, tx |-> None]
Places   == [account : Accounts \cup {None}, project : Projects \cup {None},
             tx : Txs \cup {None}]
Contents == [account : Accounts, n : 0..MaxRefresh + MaxRestore]
Runtimes == [owner : Txs, content : Contents]
Incidents == [open : BOOLEAN, evidence : Contents \cup {None}, saved : BOOLEAN]
NoIncident == [open |-> FALSE, evidence |-> None, saved |-> FALSE]

ASSUME ContentAssumption == None \notin Runtimes \cup Contents

RowsOK ==
  /\ place \in [Txs -> Places]
  /\ state \in [Txs -> States \cup {None}]
  /\ base \in [Txs -> Contents \cup {None}]
  /\ incident \in [Txs -> Incidents]
  /\ order \in Seq(Txs)
  /\ archived \subseteq Projects
FilesOK ==
  /\ vault \in [Accounts -> Contents]
  /\ runtime \in [Projects -> Runtimes \cup {None}]
  /\ kept \subseteq Contents
LocksOK ==
  /\ accountLock \in [Accounts -> Procs \cup {None}]
  /\ projectLock \in [Projects -> Procs \cup {None}]
ControlOK ==
  /\ DOMAIN pc = Procs /\ \A x \in Procs : pc[x] \in Labels(x)
  /\ at \in [Daemon -> Places]
  /\ todo \in [Txs -> (States \ Terminal) \cup {None}]
WorldOK ==
  /\ codex \in [Txs -> {"none", "alive", "exited"}]
  /\ latest \in [Txs -> Contents \cup {None}]
  /\ orphans \subseteq Txs
  /\ left \in [refresh : 0..MaxRefresh, restore : 0..MaxRestore, crash : 0..MaxCrash]
TypeOK == RowsOK /\ FilesOK /\ LocksOK /\ ControlOK /\ WorldOK /\ late \subseteq Txs

Init ==
  /\ place = [t \in Txs |-> Nowhere]
  /\ state = [t \in Txs |-> None]
  /\ base = [t \in Txs |-> None]
  /\ incident = [t \in Txs |-> NoIncident]
  /\ order = <<>> /\ archived = {}
  /\ vault = [a \in Accounts |-> [account |-> a, n |-> 0]]
  /\ runtime = [p \in Projects |-> None] /\ kept = {}
  /\ accountLock = [a \in Accounts |-> None]
  /\ projectLock = [p \in Projects |-> None]
  /\ pc = [x \in Procs |-> IF x \in Txs THEN "request" ELSE "idle"]
  /\ late = {} /\ at = [d \in Daemon |-> Nowhere] /\ todo = [t \in Txs |-> None]
  /\ codex = [t \in Txs |-> "none"] /\ latest = [t \in Txs |-> None]
  /\ orphans = {}
  /\ left = [refresh |-> MaxRefresh, restore |-> MaxRestore, crash |-> MaxCrash]
-----------------------------------------------------------------------------
(* Control and locks.                                                      *)

At(x, label) == pc[x] = label
Go(x, label) == pc' = [pc EXCEPT ![x] = label]

(* The account, project and transaction a process works on.                *)
Work(x) == IF x \in Txs THEN place[x] ELSE at[x]

(* The credential in the Runtime of a project.                             *)
Content(p) == IF runtime[p] = None THEN None ELSE runtime[p].content

(* flock is dropped with the file: when a function returns, or its process *)
(* ends.                                                                   *)
Drop(S) ==
  /\ accountLock' = [a \in Accounts |-> IF accountLock[a] \in S THEN None ELSE accountLock[a]]
  /\ projectLock' = [p \in Projects |-> IF projectLock[p] \in S THEN None ELSE projectLock[p]]

Forget(S) == at' = [d \in Daemon |-> IF d \in S THEN Nowhere ELSE at[d]]

(* A function returns: a scan goes on to the next transaction, ...         *)
Leave(x) ==
  /\ Drop({x})
  /\ Go(x, IF x \in Txs THEN "gone" ELSE IF x = "scan" THEN "next" ELSE "idle")
  /\ Forget({x})
  /\ todo' = IF x = "scan" THEN [todo EXCEPT ![at["scan"].tx] = None] ELSE todo

(* ... unless it returned Err: recover_all stops at the first one.         *)
Abort(x) ==
  /\ Drop({x})
  /\ Go(x, IF x \in Txs THEN "gone" ELSE "idle")
  /\ Forget({x})
  /\ todo' = IF x = "scan" THEN [t \in Txs |-> None] ELSE todo

AccountSteps ==
  [prepare_account |-> "prepare_project", runner_account |-> "runner_project",
   scan_account |-> "scan_project", op_account |-> "op_project"]

ProjectSteps ==
  [prepare_project |-> "create", runner_project |-> "checkout",
   scan_project |-> "classify", op_project |-> "op_apply",
   arch_project |-> "arch_check"]

(* Mutant: an account in use is no obstacle.                               *)
TakeAccountAnyway(x) ==
  /\ pc[x] \in DOMAIN AccountSteps
  /\ accountLock' = [accountLock EXCEPT ![Work(x).account] = x]
  /\ Go(x, AccountSteps[pc[x]])
  /\ UNCHANGED <<rows, files, projectLock, late, local, world>>

(* LaunchLocks::try_acquire: the Account, then the Project, neither waits. *)
TakeAccount(x) ==
  /\ pc[x] \in DOMAIN AccountSteps
  /\ IF accountLock[Work(x).account] = None
     THEN /\ accountLock' = [accountLock EXCEPT ![Work(x).account] = x]
          /\ Go(x, AccountSteps[pc[x]])
          /\ UNCHANGED <<projectLock, local>>
     ELSE Leave(x)
  /\ UNCHANGED <<rows, files, late, world>>

(* Mutant: a project in use is no obstacle.                                *)
TakeProjectAnyway(x) ==
  /\ pc[x] \in DOMAIN ProjectSteps
  /\ projectLock' = [projectLock EXCEPT ![Work(x).project] = x]
  /\ Go(x, ProjectSteps[pc[x]])
  /\ UNCHANGED <<rows, files, accountLock, late, local, world>>

TakeProject(x) ==
  /\ pc[x] \in DOMAIN ProjectSteps
  /\ IF projectLock[Work(x).project] = None
     THEN /\ projectLock' = [projectLock EXCEPT ![Work(x).project] = x]
          /\ Go(x, ProjectSteps[pc[x]])
          /\ UNCHANGED <<accountLock, local>>
     ELSE Leave(x)
  /\ UNCHANGED <<rows, files, late, world>>

Ended(t)   == state[t] \in Terminal
Active(p)  == \E t \in Txs : place[t].project = p /\ state[t] \notin Terminal \cup {None}
Blocked(p) == \E t \in Txs : place[t].project = p /\ incident[t].open

SetState(t, s) == state' = [state EXCEPT ![t] = s]

(* create_incident: one that is open stays as it is, a new one has no      *)
(* backup yet.                                                             *)
Open(t, evidence) ==
  incident' = [incident EXCEPT ![t] =
    IF @.open THEN @ ELSE [open |-> TRUE, evidence |-> evidence, saved |-> FALSE]]

(* Storage::fail.                                                          *)
FailTx(t) ==
  IF Ended(t) THEN UNCHANGED <<state, incident>> ELSE SetState(t, "failed") /\ Open(t, None)
-----------------------------------------------------------------------------
(* A launch, up to its runner.                                             *)

(* prepare_launch: what it checks before it asks for the locks.            *)
Admit(t) ==
  /\ At(t, "request")
  /\ \E a \in Accounts, p \in Projects \ archived :
       /\ ~Blocked(p)
       /\ place' = [place EXCEPT ![t] = [account |-> a, project |-> p, tx |-> t]]
  /\ Go(t, "prepare_account")
  /\ UNCHANGED <<state, base, incident, order, archived, files, locks, late, local, world>>

(* The UNIQUE INDEXes active_launch_per_project and _per_account.          *)
Taken(t) ==
  \E u \in Txs : /\ state[u] \notin Terminal \cup {None}
                 /\ \/ place[u].account = place[t].account
                    \/ place[u].project = place[t].project

(* A credential in the Runtime refuses the launch, an index refuses its     *)
(* row, or the row is inserted.  The locks are dropped.                    *)
Create(t) ==
  /\ At(t, "create")
  /\ IF runtime[place[t].project] = None /\ ~Taken(t)
     THEN /\ SetState(t, "preparing") /\ order' = Append(order, t)
          /\ Drop({t}) /\ Go(t, "start") /\ UNCHANGED local
     ELSE Leave(t) /\ UNCHANGED <<state, order>>
  /\ UNCHANGED <<place, base, incident, archived, files, late, world>>

(* start_managed_runner refuses a project that was archived meanwhile.  It *)
(* runs the managed runner, reports an error and the launch fails, or does *)
(* one after the other: what follows the creation of the window may fail.  *)
(* (Without the path of its own executable the daemon gives up before.)    *)
Start(t) ==
  /\ At(t, "start")
  /\ \/ /\ place[t].project \notin archived
        /\ Go(t, "enter") /\ late' \in {late, late \cup {t}}
        /\ UNCHANGED <<state, incident>>
     \/ FailTx(t) /\ Go(t, "gone") /\ UNCHANGED late
     \/ Go(t, "gone") /\ UNCHANGED <<state, incident, late>>
  /\ UNCHANGED <<place, base, order, archived, files, locks, local, world>>

(* The error that comes after the runner was started: Storage::fail reads  *)
(* the state, and what it writes may come when the launch has long ended.  *)
LateFail(t) ==
  /\ t \in late /\ late' = late \ {t}
  /\ \/ Ended(t) /\ UNCHANGED <<state, incident>>
     \/ SetState(t, "failed") /\ Open(t, None)
  /\ UNCHANGED <<place, base, order, archived, files, locks, pc, local, world>>
-----------------------------------------------------------------------------
(* The managed runner.                                                     *)

(* The runner ends, and its codex may still be alive.                      *)
Outlive(t) == orphans' = IF codex[t] = "alive" THEN orphans \cup {t} ELSE orphans

Enter(t) ==
  /\ At(t, "enter")
  /\ Go(t, IF state[t] = "preparing" THEN "runner_account" ELSE "gone")
  /\ UNCHANGED <<rows, files, locks, late, local, world>>

(* credential::checkout, up to the copy.                                   *)
Checkout(t) ==
  /\ At(t, "checkout")
  /\ IF state[t] = "preparing" /\ runtime[place[t].project] = None
     THEN /\ runtime' = [runtime EXCEPT ![place[t].project] =
                           [owner |-> t, content |-> vault[place[t].account]]]
          /\ Go(t, "record")
          /\ UNCHANGED <<state, incident, locks, local>>
     ELSE FailTx(t) /\ Leave(t) /\ UNCHANGED runtime
  /\ UNCHANGED <<place, base, order, archived, vault, kept, late, world>>

(* record_checkout.                                                        *)
Record(t) ==
  /\ At(t, "record")
  /\ base' = [base EXCEPT ![t] = vault[place[t].account]]
  /\ IF state[t] = "preparing"
     THEN SetState(t, "checked_out") /\ Go(t, "spawn") /\ UNCHANGED <<locks, local>>
     ELSE Leave(t) /\ UNCHANGED state
  /\ UNCHANGED <<place, incident, order, archived, files, late, world>>

(* The spawn of codex, or its error; a project archived by now cannot be   *)
(* read any more, and the runner returns.                                  *)
Spawn(t) ==
  /\ At(t, "spawn")
  /\ \/ /\ place[t].project \notin archived
        /\ codex' = [codex EXCEPT ![t] = "alive"] /\ Go(t, "record_running")
        /\ UNCHANGED <<locks, local>>
     \/ /\ place[t].project \notin archived
        /\ Go(t, "commit") /\ UNCHANGED <<locks, local, codex>>
     \/ /\ place[t].project \in archived /\ Leave(t) /\ UNCHANGED codex
  /\ UNCHANGED <<rows, files, late, latest, orphans, left>>

(* record_processes: when it is refused the runner returns without codex.  *)
RecordRunning(t) ==
  /\ At(t, "record_running")
  /\ IF state[t] = "checked_out"
     THEN /\ SetState(t, "running") /\ Go(t, "wait")
          /\ UNCHANGED <<locks, local, orphans>>
     ELSE Leave(t) /\ Outlive(t) /\ UNCHANGED state
  /\ UNCHANGED <<place, base, incident, order, archived, files, late, codex, latest, left>>

Wait(t) ==
  /\ At(t, "wait") /\ codex[t] = "exited"
  /\ IF state[t] = "running"
     THEN SetState(t, "codex_exited") /\ Go(t, "commit") /\ UNCHANGED <<locks, local>>
     ELSE Leave(t) /\ UNCHANGED state
  /\ UNCHANGED <<place, base, incident, order, archived, files, late, world>>

Launch(t) ==
  \/ Admit(t) \/ Create(t) \/ Start(t) \/ LateFail(t)
  \/ Enter(t) \/ Checkout(t) \/ Record(t) \/ Spawn(t) \/ RecordRunning(t) \/ Wait(t)
-----------------------------------------------------------------------------
(* commit_and_clean, by the runner or by a scan.                           *)

(* Mutant: a Vault that changed wins, without a copy of what loses.        *)
CommitLosing(x) ==
  /\ At(x, "commit")
  /\ LET t == Work(x).tx  a == Work(x).account  p == Work(x).project
         v == vault[a]    r == Content(p)       b == base[t] IN
     IF state[t] \notin {"checked_out", "codex_exited", "committing_auth"} \/ r = None
     THEN Abort(x) /\ UNCHANGED <<state, incident, vault, runtime, kept>>
     ELSE /\ Go(x, "remove") /\ SetState(t, "auth_committed")
          /\ vault' = [vault EXCEPT ![a] = IF v = b THEN r ELSE v]
          /\ UNCHANGED <<incident, runtime, kept, locks, local>>
  /\ UNCHANGED <<place, base, order, archived, late, world>>

Commit(x) ==
  /\ At(x, "commit")
  /\ LET t == Work(x).tx  a == Work(x).account  p == Work(x).project
         v == vault[a]    r == Content(p)       b == base[t] IN
     \/ /\ state[t] \notin {"checked_out", "codex_exited", "committing_auth"}
        /\ Abort(x) /\ UNCHANGED <<state, incident, files>>
     \/ /\ state[t] \in {"checked_out", "codex_exited", "committing_auth"}
        /\ \/ /\ r = None
              /\ SetState(t, "committing_auth") /\ Abort(x)
              /\ UNCHANGED <<incident, files>>
           \/ /\ r # None /\ (r \in {b, v} \/ v = b)
              /\ SetState(t, "auth_committed") /\ Go(x, "remove")
              /\ IF r \in {b, v}
                 THEN UNCHANGED <<vault, kept>>
                 ELSE vault' = [vault EXCEPT ![a] = r] /\ kept' = kept \cup {v}
              /\ UNCHANGED <<incident, runtime, locks, local>>
           \/ /\ r \notin {None, b, v} /\ v # b
              /\ kept' = kept \cup {r}
              /\ runtime' = [runtime EXCEPT ![p] = None]
              /\ SetState(t, "credential_conflict") /\ Open(t, r) /\ Leave(x)
              /\ UNCHANGED vault
  /\ UNCHANGED <<place, base, order, archived, late, world>>

RemoveRuntime(x) ==
  /\ At(x, "remove")
  /\ runtime' = [runtime EXCEPT ![Work(x).project] = None]
  /\ Go(x, "close")
  /\ UNCHANGED <<rows, vault, kept, locks, late, local, world>>

(* cleaned, and at once the terminal state.                                *)
Close(x) ==
  /\ At(x, "close")
  /\ LET t == Work(x).tx IN
     IF state[t] = "auth_committed"
     THEN SetState(t, IF x = "scan" THEN "recovered" ELSE "finished") /\ Leave(x)
     ELSE Abort(x) /\ UNCHANGED state
  /\ UNCHANGED <<place, base, incident, order, archived, files, late, world>>
-----------------------------------------------------------------------------
(* recover_all, by a thread of the daemon.                                 *)

Scan ==
  /\ "scan" \in Busy /\ At("scan", "idle") /\ \E p \in Projects : Active(p)
  /\ todo' = [t \in Txs |-> IF Ended(t) THEN None ELSE state[t]]
  /\ Go("scan", "next")
  /\ UNCHANGED <<rows, files, locks, late, at, world>>

Before(u, t) == \E i, j \in DOMAIN order : i < j /\ order[i] = u /\ order[j] = t

ScanNext ==
  /\ At("scan", "next")
  /\ \/ /\ \A t \in Txs : todo[t] = None
        /\ Go("scan", "idle") /\ UNCHANGED at
     \/ /\ \E t \in Txs :
             /\ todo[t] # None /\ \A u \in Txs : todo[u] # None => ~Before(u, t)
             /\ at' = [at EXCEPT !["scan"] = place[t]]
        /\ Go("scan", "scan_account")
  /\ UNCHANGED <<rows, files, locks, late, todo, world>>

(* The row at hand, and the state the snapshot has of it.                  *)
Row  == at["scan"].tx
Seen == todo[Row]

Supervised(t) == pc[t] \in RunnerLabels

(* A recorded process that lives without the locks: failed.                *)
ScanOrphan ==
  /\ At("scan", "classify")
  /\ LET t == Row IN
       /\ Seen = "running" /\ (Supervised(t) \/ codex[t] = "alive")
       /\ state' = [state EXCEPT ![t] = IF Ended(t) THEN @ ELSE "failed"]
       /\ Open(t, None) /\ Leave("scan")
  /\ UNCHANGED <<place, base, order, archived, files, late, world>>

(* Mutant: the Runtime credential is left where it is.                     *)
ScanPreparingKeeping ==
  /\ At("scan", "classify") /\ Seen = "preparing"
  /\ LET t == Row IN
       IF state[t] # "preparing" THEN Open(t, None) /\ UNCHANGED state
       ELSE SetState(t, "recovered") /\ UNCHANGED incident
  /\ Leave("scan")
  /\ UNCHANGED <<place, base, order, archived, files, late, world>>

(* recover_preparing: the Runtime credential of the project is removed if  *)
(* it equals the Vault, isolated if it does not, whoever put it there.     *)
ScanPreparing ==
  /\ At("scan", "classify") /\ Seen = "preparing"
  /\ LET t == Row  p == place[t].project
         r == Content(p)     v == vault[place[t].account] IN
     \/ /\ state[t] # "preparing" /\ Open(t, None) /\ UNCHANGED <<state, runtime, kept>>
     \/ /\ state[t] = "preparing" /\ r \in {None, v}
        /\ SetState(t, "recovered") /\ runtime' = [runtime EXCEPT ![p] = None]
        /\ UNCHANGED <<incident, kept>>
     \/ /\ state[t] = "preparing" /\ r \notin {None, v}
        /\ kept' = kept \cup {r} /\ runtime' = [runtime EXCEPT ![p] = None]
        /\ FailTx(t)
  /\ Leave("scan")
  /\ UNCHANGED <<place, base, order, archived, vault, late, world>>

(* The other states: commit, or finish what follows the commit.            *)
ScanCommit ==
  /\ At("scan", "classify")
  /\ LET t == Row  r == Content(place[t].project) IN
     \/ /\ Seen \in {"checked_out", "codex_exited", "committing_auth"}
        /\ Go("scan", "commit") /\ UNCHANGED <<state, locks, local>>
     \/ /\ Seen = "running" /\ ~Supervised(t) /\ codex[t] # "alive"
        /\ IF Permits(state[t], "codex_exited")
           THEN SetState(t, "codex_exited") /\ Go("scan", "commit") /\ UNCHANGED <<locks, local>>
           ELSE Abort("scan") /\ UNCHANGED state
     \/ /\ Seen = "auth_committed"
        /\ IF r = vault[place[t].account]
           THEN Go("scan", "remove") /\ UNCHANGED <<locks, local>> ELSE Abort("scan")
        /\ UNCHANGED state
  /\ UNCHANGED <<place, base, incident, order, archived, files, late, world>>

Recovery == Scan \/ ScanNext \/ ScanOrphan \/ ScanPreparing \/ ScanCommit
-----------------------------------------------------------------------------
(* The other threads of the daemon.                                        *)

(* incident::resolve of an open incident.                                  *)
Resolve ==
  /\ "operator" \in Busy /\ At("operator", "idle")
  /\ \E t \in Txs : incident[t].open /\ at' = [at EXCEPT !["operator"] = place[t]]
  /\ Go("operator", "op_account")
  /\ UNCHANGED <<rows, files, locks, late, todo, world>>

(* Nobody's latest refresh counts as kept once it is dropped on purpose.   *)
GiveUp(S) == latest' = [t \in Txs |-> IF latest[t] \in S THEN None ELSE latest[t]]

(* apply_resolution, keep_vault: the Runtime is cleared.                   *)
ResolveKeeping ==
  /\ At("operator", "op_apply")
  /\ LET p == at["operator"].project IN
       /\ GiveUp({Content(p)})
       /\ runtime' = [runtime EXCEPT ![p] = None]
  /\ Go("operator", "op_close")
  /\ UNCHANGED <<rows, vault, kept, locks, late, local, codex, orphans, left>>

(* apply_resolution, use_evidence: without evidence it is refused, and the *)
(* incident stays open.  Otherwise the Vault is replaced by the evidence,  *)
(* after a copy of it was made for this incident, if there is none yet (a  *)
(* resolution that was cut short made one), and the Runtime is cleared.    *)
ResolveEvidence ==
  /\ At("operator", "op_apply")
  /\ LET w == at["operator"]  i == incident[w.tx]  v == vault[w.account] IN
     \/ /\ i.evidence = None /\ Leave("operator")
        /\ UNCHANGED <<incident, files, latest>>
     \/ /\ i.evidence # None
        /\ kept' = IF i.saved THEN kept ELSE kept \cup {v}
        /\ incident' = [incident EXCEPT ![w.tx].saved = TRUE]
        /\ vault' = [vault EXCEPT ![w.account] = i.evidence]
        /\ runtime' = [runtime EXCEPT ![w.project] = None]
        /\ GiveUp({Content(w.project)} \cup (IF i.saved THEN {v} ELSE {}))
        /\ Go("operator", "op_close") /\ UNCHANGED <<locks, local>>
  /\ UNCHANGED <<place, state, base, order, archived, late, codex, orphans, left>>

(* resolve_incident.                                                       *)
ResolveClose ==
  /\ At("operator", "op_close")
  /\ incident' = [incident EXCEPT ![at["operator"].tx].open = FALSE]
  /\ Leave("operator")
  /\ UNCHANGED <<place, state, base, order, archived, files, late, world>>

(* archive_project: `active` is read before the Project lock is taken.     *)
Archive ==
  /\ "archiver" \in Busy /\ At("archiver", "idle")
  /\ \E p \in Projects \ archived :
       ~Active(p) /\ at' = [at EXCEPT !["archiver"] = [Nowhere EXCEPT !.project = p]]
  /\ Go("archiver", "arch_project")
  /\ UNCHANGED <<rows, files, locks, late, todo, world>>

Session(p) == \E t \in Txs : place[t].project = p /\ Supervised(t)

ArchiveCheck ==
  /\ At("archiver", "arch_check")
  /\ LET p == at["archiver"].project IN
     IF Blocked(p) \/ runtime[p] # None \/ Session(p)
     THEN Leave("archiver") ELSE Go("archiver", "arch_write") /\ UNCHANGED <<locks, local>>
  /\ UNCHANGED <<rows, files, late, world>>

ArchiveWrite ==
  /\ At("archiver", "arch_write")
  /\ archived' = archived \cup {at["archiver"].project}
  /\ Leave("archiver")
  /\ UNCHANGED <<place, state, base, incident, order, files, late, world>>

(* refresh_usage: it queries an account nobody uses, under its lock.       *)
Usage ==
  /\ "usage" \in Busy /\ At("usage", "idle")
  /\ \E a \in Accounts :
       accountLock[a] = None /\ accountLock' = [accountLock EXCEPT ![a] = "usage"]
  /\ Go("usage", "query")
  /\ UNCHANGED <<rows, files, projectLock, late, local, world>>

UsageDone ==
  /\ At("usage", "query") /\ Leave("usage")
  /\ UNCHANGED <<rows, files, late, world>>

Requests == Resolve \/ ResolveKeeping \/ ResolveEvidence \/ ResolveClose
            \/ Archive \/ ArchiveCheck \/ ArchiveWrite
            \/ Usage \/ UsageDone
-----------------------------------------------------------------------------
(* Codex and crashes.                                                      *)

(* A credential nobody had before.                                         *)
Issued(a) == [account |-> a, n |-> left.refresh + left.restore]

CodexRefresh(t) ==
  /\ codex[t] = "alive" /\ left.refresh > 0
  /\ LET new == Issued(place[t].account) IN
       /\ runtime' = [runtime EXCEPT ![place[t].project] = [owner |-> t, content |-> new]]
       /\ latest' = [latest EXCEPT ![t] = new]
  /\ left' = [left EXCEPT !.refresh = @ - 1]
  /\ UNCHANGED <<rows, vault, kept, locks, pc, late, local, codex, orphans>>

CodexExit(t) ==
  /\ codex[t] = "alive" /\ codex' = [codex EXCEPT ![t] = "exited"]
  /\ UNCHANGED <<rows, files, locks, pc, late, local, latest, orphans, left>>

(* Somebody replaces the Vault of an account by hand and drops what was in *)
(* it, without any lock.  (Not amid a checkout: see CredentialTransaction.) *)
RestoreVault(a) ==
  /\ left.restore > 0 /\ \A t \in Txs : At(t, "record") => place[t].account # a
  /\ vault' = [vault EXCEPT ![a] = Issued(a)] /\ GiveUp({vault[a]})
  /\ left' = [left EXCEPT !.restore = @ - 1]
  /\ UNCHANGED <<rows, runtime, kept, locks, pc, late, local, codex, orphans>>

(* The processes in S end, and the kernel drops their flocks.              *)
Kill(S) ==
  /\ left.crash > 0 /\ left' = [left EXCEPT !.crash = @ - 1]
  /\ Drop(S)
  /\ pc' = [x \in Procs |-> IF x \notin S \/ pc[x] = "request" THEN pc[x]
                            ELSE IF x \in Txs THEN "gone" ELSE "idle"]
  /\ Forget(S) /\ todo' = IF "scan" \in S THEN [t \in Txs |-> None] ELSE todo
  /\ late' = IF "scan" \in S THEN {} ELSE late
  /\ UNCHANGED <<rows, files, latest>>

CrashRunner(t) == Supervised(t) /\ Kill({t}) /\ Outlive(t) /\ UNCHANGED codex

CrashDaemon ==
  /\ Kill(Daemon \cup {t \in Txs : pc[t] \in LauncherLabels})
  /\ UNCHANGED <<codex, orphans>>

Reboot ==
  /\ Kill(Procs) /\ UNCHANGED orphans
  /\ codex' = [t \in Txs |-> IF codex[t] = "alive" THEN "exited" ELSE codex[t]]

Environment ==
  \/ \E t \in Txs : CodexRefresh(t) \/ CodexExit(t) \/ CrashRunner(t)
  \/ (\E a \in Accounts : RestoreVault(a)) \/ CrashDaemon \/ Reboot

Next ==
  \/ \E t \in Txs : Launch(t)
  \/ \E x \in Procs : TakeAccount(x) \/ TakeProject(x) \/ Commit(x)
                      \/ RemoveRuntime(x) \/ Close(x)
  \/ Recovery \/ Requests \/ Environment

Spec == Init /\ [][Next]_vars
-----------------------------------------------------------------------------
(* Properties.                                                             *)

(* Two Codex processes whose runners still supervise them never work for   *)
(* the same account or in the same project, however launches, recovery,    *)
(* archiving and usage queries compete for the locks and whoever crashes.  *)
CodexExclusive ==
  \A t, u \in Txs :
    t # u /\ codex[t] = "alive" /\ codex[u] = "alive" /\ Supervised(t) /\ Supervised(u)
      => place[t].account # place[u].account /\ place[t].project # place[u].project

(* The steps of a supervised launch whose credential is in its Runtime.    *)
HoldingLabels == {"record", "spawn", "record_running", "wait", "commit", "remove"}

(* A supervised launch finds its own credential in the Runtime from its    *)
(* checkout until it removes it, or what a codex that outlived its runner  *)
(* wrote: no recovery, resolution or other launch of the project touches   *)
(* it.                                                                     *)
RuntimeIsOwn ==
  \A t \in Txs :
    pc[t] \in HoldingLabels =>
      /\ runtime[place[t].project] # None
      /\ runtime[place[t].project].owner \in {t} \cup orphans

(* A credential in a Runtime belongs to a transaction that recovery visits *)
(* or to an incident an operator can resolve, or a codex that outlived its *)
(* runner wrote it after that.  (A visit need not clear it: recovery stops *)
(* at auth_committed when the Vault was changed since.)                    *)
RuntimeAccounted ==
  \A p \in Projects : runtime[p] # None =>
    Active(p) \/ Blocked(p) \/ runtime[p].owner \in orphans

(* Projects whose Runtime a codex without a runner may write to.           *)
Haunted(p) == \E u \in orphans : place[u].project = p

(* What a Codex process wrote last is in a Vault, in a Runtime or under    *)
(* recovery/, whichever transactions share its account or its project,     *)
(* unless somebody dropped it: an operator who cleared the Runtime, who    *)
(* restored the Vault by hand, or who repeated a resolution cut short,     *)
(* which replaces a Vault without a copy.  (In a project where no codex    *)
(* outlived its runner.)                                                   *)
RefreshesKept ==
  \A t \in Txs : latest[t] # None /\ ~Haunted(place[t].project) =>
    \/ \E a \in Accounts : vault[a] = latest[t]
    \/ \E p \in Projects : Content(p) = latest[t]
    \/ latest[t] \in kept

(* A Vault only ever holds credentials issued to its own account, although *)
(* launches of several accounts use the Runtime of one project in turn.    *)
VaultsKeepTheirAccount == \A a \in Accounts : vault[a].account = a
-----------------------------------------------------------------------------
(* The parts of the inductive invariants.                                  *)

(* The steps that rely on a lock.                                          *)
AccountSteadyLabels ==
  {"prepare_project", "create", "runner_project", "checkout", "record", "spawn",
   "record_running", "wait", "commit", "remove", "close", "scan_project", "classify",
   "op_project", "op_apply", "op_close"}
ProjectSteadyLabels ==
  (AccountSteadyLabels \ {"prepare_project", "runner_project", "scan_project", "op_project"})
    \cup {"arch_check", "arch_write"}

(* A launch that was requested has a place; a thread that works on a       *)
(* transaction has the place of it.                                        *)
Requested(t) == t \in Txs /\ pc[t] # "request"
Pristine(t) ==
  /\ place[t] = Nowhere /\ state[t] = None /\ incident[t] = NoIncident /\ t \notin late
  /\ codex[t] = "none" /\ latest[t] = None
WorkKnown ==
  /\ \A t \in Txs :
       IF pc[t] = "request"
       THEN Pristine(t)
       ELSE place[t].account \in Accounts /\ place[t].project \in Projects /\ place[t].tx = t
  /\ \A t \in Txs : todo[t] # None => Requested(t)
  /\ \A d \in {"scan", "operator"} :
       pc[d] \notin {"idle", "next"} => Requested(at[d].tx) /\ at[d] = place[at[d].tx]
  /\ pc["archiver"] # "idle" => at["archiver"].project \in Projects

LocksHeld == \A x \in Procs :
  /\ pc[x] \in AccountSteadyLabels => accountLock[Work(x).account] = x
  /\ pc[x] \in ProjectSteadyLabels => projectLock[Work(x).project] = x

(* Codex starts at the spawn; its runner waits for it, or is gone.         *)
CodexKnown == \A t \in Txs :
  /\ codex[t] = "alive" => pc[t] \in {"record_running", "wait"} \/ t \in orphans
  /\ t \in orphans => pc[t] = "gone"

AdmissionInv == TypeOK /\ WorkKnown /\ LocksHeld /\ CodexKnown

(* Recovery visits a launch that has its credential in a Runtime, or it    *)
(* has an incident.                                                        *)
HoldersAccounted == \A t \in Txs : pc[t] \in HoldingLabels =>
  state[t] \notin Terminal \cup {None} \/ incident[t].open

RuntimePlaced == \A p \in Projects : runtime[p] # None => place[runtime[p].owner].project = p

(* A Runtime that was cleared stays empty until the transaction or the     *)
(* incident is closed, or an orphan wrote to it.                           *)
ClearedStays == \A x \in Procs : pc[x] \in {"close", "op_close"} =>
  runtime[Work(x).project] = None \/ runtime[Work(x).project].owner \in orphans

OwnershipInv == AdmissionInv /\ HoldersAccounted /\ RuntimePlaced /\ RuntimeIsOwn
                /\ ClearedStays /\ RuntimeAccounted

(* What a Vault held stays in it or under recovery/, unless it was dropped *)
(* or no codex wrote it.                                                   *)
Safe(c) == c \in kept \/ (\E a \in Accounts : vault[a] = c) \/ \A t \in Txs : latest[t] # c
BaseSafe    == \A t \in Txs : base[t] # None => Safe(base[t])
RuntimeSafe == \A p \in Projects : runtime[p] # None =>
                 Safe(runtime[p].content) \/ latest[runtime[p].owner] = runtime[p].content
RemoveSafe  == \A x \in Procs : pc[x] = "remove" /\ ~Haunted(Work(x).project) =>
                 runtime[Work(x).project] = None \/ Safe(runtime[Work(x).project].content)

(* A credential nobody had before is in no file and in no row.             *)
Fresh(c) == c = None \/ c.n = 0 \/ c.n > left.refresh + left.restore
AllFresh == /\ \A a \in Accounts : Fresh(vault[a])
            /\ \A p \in Projects : Fresh(Content(p))
            /\ \A t \in Txs : Fresh(base[t]) /\ Fresh(incident[t].evidence)

(* No two codex processes write the same.                                  *)
LatestFresh == \A t \in Txs : latest[t] # None =>
  /\ latest[t].n > left.refresh + left.restore
  /\ \A u \in Txs : latest[u] = latest[t] => u = t

KeptInv == OwnershipInv /\ BaseSafe /\ RuntimeSafe /\ RemoveSafe /\ AllFresh /\ LatestFresh
           /\ RefreshesKept
=============================================================================
