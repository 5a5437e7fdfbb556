------------------------ MODULE LaunchAdmissionProofs ------------------------
(***************************************************************************)
(* Proofs about LaunchAdmission, for any launches, accounts, projects and  *)
(* threads that get requests.                                              *)
(*                                                                         *)
(* AdmissionInv: types, the work at hand, the locks, and where codex is.   *)
(* OwnershipInv: whose the credential in a Runtime is.  KeptInv: where the *)
(* contents of Vaults and Runtimes are kept.                               *)
(***************************************************************************)
EXTENDS LaunchAdmission, TLAPS

USE NameAssumption, LimitAssumption

(* All of TypeOK but `late'.                                               *)
RestOK == RowsOK /\ FilesOK /\ LocksOK /\ ControlOK /\ WorldOK

LEMMA InitType == Init => TypeOK
<1> SUFFICES ASSUME Init PROVE TypeOK  OBVIOUS
<1>1. RowsOK  BY DEF Init, RowsOK, Places, Nowhere, Incidents, NoIncident
<1>2. FilesOK  BY DEF Init, FilesOK, Contents
<1>3. LocksOK  BY DEF Init, LocksOK
<1>4. ControlOK
  <2>1. \A x \in Procs : pc[x] \in Labels(x)
    <3>1. \A x \in Txs : pc[x] = "request"  BY DEF Init, Procs
    <3>2. \A x \in Daemon : pc[x] = "idle" /\ x \notin Txs  BY DEF Init, Procs
    <3>3. \A x \in Daemon : "idle" \in DaemonLabels[x]  BY DEF DaemonLabels, Daemon
    <3> QED  BY <3>1, <3>2, <3>3 DEF Labels, Procs
  <2>2. DOMAIN pc = Procs  BY DEF Init
  <2>3. at \in [Daemon -> Places]  BY DEF Init, Places, Nowhere
  <2>4. todo \in [Txs -> (States \ Terminal) \cup {None}]  BY DEF Init
  <2> QED  BY <2>1, <2>2, <2>3, <2>4 DEF ControlOK
<1>5. WorldOK  BY DEF Init, WorldOK
<1>6. late \subseteq Txs  BY DEF Init
<1> QED  BY <1>1, <1>2, <1>3, <1>4, <1>5, <1>6 DEF TypeOK

LEMMA InitInv == Init => AdmissionInv
<1> SUFFICES ASSUME Init PROVE AdmissionInv  OBVIOUS
<1>1. TypeOK  BY InitType
<1>2. WorkKnown  BY DEF Init, WorkKnown, Pristine, Procs, Daemon
<1>3. LocksHeld  BY DEF Init, LocksHeld, AccountSteadyLabels, ProjectSteadyLabels
<1>4. CodexKnown  BY DEF Init, CodexKnown
<1> QED  BY <1>1, <1>2, <1>3, <1>4 DEF AdmissionInv

(***************************************************************************)
(* Types.  First the shared steps: a process goes on, or its function      *)
(* returns.                                                                *)
(***************************************************************************)
LEMMA GoOK ==
  ASSUME ControlOK, NEW x \in Procs, NEW label \in Labels(x), Go(x, label), UNCHANGED local
  PROVE  ControlOK'
<1>1. DOMAIN pc' = Procs  BY DEF Go, ControlOK
<1>2. \A y \in Procs : pc'[y] \in Labels(y)  BY DEF Go, ControlOK
<1> QED  BY <1>1, <1>2 DEF ControlOK, local

LEMMA ReturnOK ==
  ASSUME TypeOK, NEW x \in Procs, Leave(x) \/ Abort(x)
  PROVE  LocksOK' /\ ControlOK'
<1>1. LocksOK'  BY DEF Leave, Abort, Drop, LocksOK, TypeOK
<1>2. PICK label : label \in Labels(x) /\ Go(x, label)
  <2>1. "gone" \in Labels(x) \/ x \in Daemon  BY DEF Labels, Procs
  <2>2. x \notin Txs => "idle" \in Labels(x) /\ (x = "scan" => "next" \in Labels(x))
    BY DEF Labels, DaemonLabels, Procs, Daemon
  <2>3. x \in Txs => "gone" \in Labels(x)  BY DEF Labels
  <2> QED  BY <2>2, <2>3 DEF Leave, Abort
<1>3. DOMAIN pc' = Procs  BY <1>2 DEF Go, ControlOK, TypeOK
<1>4. \A y \in Procs : pc'[y] \in Labels(y)
  BY <1>2 DEF Go, ControlOK, TypeOK
<1>5. at' \in [Daemon -> Places]
  BY DEF Leave, Abort, Forget, ControlOK, TypeOK, Places, Nowhere
<1>6. todo' \in [Txs -> (States \ Terminal) \cup {None}]
  BY DEF Leave, Abort, ControlOK, TypeOK
<1> QED  BY <1>1, <1>3, <1>4, <1>5, <1>6 DEF ControlOK

LEMMA SetStateOK ==
  ASSUME RowsOK, NEW t \in Txs, NEW s \in States, SetState(t, s)
  PROVE  state' \in [Txs -> States \cup {None}]
BY DEF RowsOK, SetState

LEMMA OpenOK ==
  ASSUME RowsOK, NEW t \in Txs, NEW evidence \in Contents \cup {None}, Open(t, evidence)
  PROVE  incident' \in [Txs -> Incidents]
<1>1. [open |-> TRUE, evidence |-> evidence, saved |-> FALSE] \in Incidents  BY DEF Incidents
<1> QED  BY <1>1 DEF RowsOK, Open

LEMMA FailOK ==
  ASSUME RowsOK, NEW t \in Txs, FailTx(t)
  PROVE  /\ state' \in [Txs -> States \cup {None}] /\ incident' \in [Txs -> Incidents]
<1>1. CASE Ended(t)  BY <1>1 DEF FailTx, RowsOK
<1>2. CASE ~Ended(t)
  <2>1. SetState(t, "failed") /\ Open(t, None) /\ "failed" \in States
    BY <1>2 DEF FailTx, States
  <2> QED  BY <2>1, SetStateOK, OpenOK
<1> QED  BY <1>1, <1>2

LEMMA ContentOK ==
  ASSUME FilesOK, NEW p \in Projects PROVE Content(p) \in Contents \cup {None}
BY DEF FilesOK, Runtimes, Content

(* The process at a label.                                                 *)
LEMMA Whose ==
  ASSUME ControlOK
  PROVE  /\ \A d \in Daemon : pc[d] \in DaemonLabels[d]
         /\ \A x \in Procs : pc[x] \in {"commit", "remove", "close"} => x \in Txs \/ x = "scan"
BY DEF ControlOK, Labels, Procs, Daemon, DaemonLabels

(* What a process works on.                                                *)
LEMMA WorkOK ==
  ASSUME TypeOK, WorkKnown, NEW x \in Procs
  PROVE  /\ x \in Txs /\ pc[x] # "request" =>
              Work(x).account \in Accounts /\ Work(x).project \in Projects /\ Work(x).tx = x
         /\ x \in {"scan", "operator"} /\ pc[x] \notin {"idle", "next"} =>
              /\ Work(x).account \in Accounts /\ Work(x).project \in Projects
              /\ Work(x).tx \in Txs /\ Requested(Work(x).tx) /\ Work(x) = place[Work(x).tx]
         /\ x = "archiver" /\ pc[x] # "idle" => Work(x).project \in Projects
<1>1. x \in Txs => Work(x) = place[x]  BY DEF Work
<1>2. x \notin Txs => Work(x) = at[x]  BY DEF Work
<1>3. x \in {"scan", "operator", "archiver"} => x \notin Txs  BY DEF Daemon
<1> QED  BY <1>1, <1>2, <1>3 DEF WorkKnown, Requested

(* What an action leaves alone keeps its type.                             *)
LEMMA SameOK ==
  /\ RowsOK /\ UNCHANGED rows => RowsOK'
  /\ FilesOK /\ UNCHANGED files => FilesOK'
  /\ LocksOK /\ UNCHANGED locks => LocksOK'
  /\ WorldOK /\ UNCHANGED world => WorldOK'
<1>1. RowsOK /\ UNCHANGED rows => RowsOK'  BY DEF RowsOK, rows
<1>2. FilesOK /\ UNCHANGED files => FilesOK'  BY DEF FilesOK, files
<1>3. LocksOK /\ UNCHANGED locks => LocksOK'  BY DEF LocksOK, locks
<1>4. WorldOK /\ UNCHANGED world => WorldOK'  BY DEF WorldOK, world
<1> QED  BY <1>1, <1>2, <1>3, <1>4

LEMMA LockTypes ==
  ASSUME TypeOK, WorkKnown, NEW x \in Procs, TakeAccount(x) \/ TakeProject(x)
  PROVE  RestOK'
<1>1. RowsOK' /\ FilesOK' /\ WorldOK'  BY SameOK DEF TypeOK, TakeAccount, TakeProject
<1>2. CASE Leave(x)  BY <1>1, <1>2, ReturnOK DEF RestOK
<1>3. ASSUME ~Leave(x), TakeAccount(x) PROVE LocksOK' /\ ControlOK'
  <2>1. /\ accountLock' = [accountLock EXCEPT ![Work(x).account] = x]
        /\ Go(x, AccountSteps[pc[x]]) /\ UNCHANGED <<projectLock, local>>
        /\ pc[x] \in DOMAIN AccountSteps
    BY <1>3 DEF TakeAccount
  <2>2. LocksOK'  BY <2>1 DEF LocksOK, TypeOK
  <2>3. AccountSteps[pc[x]] \in Labels(x)
    BY <2>1 DEF AccountSteps, Labels, DaemonLabels, LauncherLabels, RunnerLabels, Daemon,
                ControlOK, TypeOK, Procs
  <2> QED  BY <2>1, <2>2, <2>3, GoOK DEF TypeOK
<1>4. ASSUME ~Leave(x), TakeProject(x) PROVE LocksOK' /\ ControlOK'
  <2>1. /\ projectLock' = [projectLock EXCEPT ![Work(x).project] = x]
        /\ Go(x, ProjectSteps[pc[x]]) /\ UNCHANGED <<accountLock, local>>
        /\ pc[x] \in DOMAIN ProjectSteps
    BY <1>4 DEF TakeProject
  <2>2. LocksOK'  BY <2>1 DEF LocksOK, TypeOK
  <2>3. ProjectSteps[pc[x]] \in Labels(x)
    BY <2>1 DEF ProjectSteps, Labels, DaemonLabels, LauncherLabels, RunnerLabels, Daemon,
                ControlOK, TypeOK, Procs
  <2> QED  BY <2>1, <2>2, <2>3, GoOK DEF TypeOK
<1> QED  BY <1>1, <1>2, <1>3, <1>4 DEF RestOK

LEMMA LaunchTypes ==
  ASSUME TypeOK, WorkKnown, NEW t \in Txs, Launch(t)
  PROVE  RestOK'
<1> USE DEF TypeOK, RestOK
<1>1. t \in Procs /\ Labels(t) = LauncherLabels \cup RunnerLabels \cup {"request", "gone"}
  BY DEF Procs, Labels
<1>2. LauncherLabels \cup RunnerLabels \cup {"request", "gone"} =
        {"prepare_account", "prepare_project", "create", "start",
         "enter", "runner_account", "runner_project", "checkout", "record",
         "spawn", "record_running", "wait", "commit", "remove", "close", "request", "gone"}
  BY DEF LauncherLabels, RunnerLabels
<1>3. CASE Admit(t)
  <2>1. RowsOK'
    <3>1. PICK a \in Accounts, p \in Projects :
            place' = [place EXCEPT ![t] = [account |-> a, project |-> p, tx |-> t]]
      BY <1>3 DEF Admit
    <3>2. [account |-> a, project |-> p, tx |-> t] \in Places  BY DEF Places
    <3> QED  BY <1>3, <3>1, <3>2 DEF Admit, RowsOK
  <2>2. FilesOK' /\ LocksOK' /\ WorldOK'  BY <1>3, SameOK DEF Admit
  <2>3. ControlOK'  BY <1>1, <1>2, <1>3, GoOK DEF Admit
  <2> QED  BY <2>1, <2>2, <2>3
<1>4. CASE Create(t)
  <2>1. RowsOK'
    <3>1. order' = Append(order, t) \/ order' = order  BY <1>4 DEF Create
    <3>2. order' \in Seq(Txs)
      <4>1. order \in Seq(Txs)  BY DEF RowsOK
      <4> QED  BY <3>1, <4>1
    <3>3. state' = state \/ SetState(t, "preparing")  BY <1>4 DEF Create
    <3>4. "preparing" \in States  BY DEF States
    <3>5. state' \in [Txs -> States \cup {None}]  BY <3>3, <3>4, SetStateOK DEF RowsOK
    <3> QED  BY <1>4, <3>2, <3>5 DEF Create, RowsOK
  <2>2. FilesOK' /\ WorldOK'  BY <1>4, SameOK DEF Create
  <2>3. LocksOK'  BY <1>1, <1>4, ReturnOK DEF Create, Drop, LocksOK
  <2>4. ControlOK'  BY <1>1, <1>2, <1>4, GoOK, ReturnOK DEF Create
  <2> QED  BY <2>1, <2>2, <2>3, <2>4
<1>5. CASE Start(t)
  <2>1. RowsOK'  BY <1>5, FailOK DEF Start, RowsOK
  <2>2. FilesOK' /\ LocksOK' /\ WorldOK'  BY <1>5, SameOK DEF Start
  <2>3. ControlOK'  BY <1>1, <1>2, <1>5, GoOK DEF Start
  <2> QED  BY <2>1, <2>2, <2>3
<1>6. CASE Enter(t)
  <2>1. RowsOK' /\ FilesOK' /\ LocksOK' /\ WorldOK'  BY <1>6, SameOK DEF Enter
  <2>2. ControlOK'  BY <1>1, <1>2, <1>6, GoOK DEF Enter
  <2> QED  BY <2>1, <2>2
<1>7. CASE Checkout(t)
  <2>1. RowsOK'  BY <1>7, FailOK DEF Checkout, RowsOK
  <2>2. WorldOK'  BY <1>7, SameOK DEF Checkout
  <2>3. FilesOK'
    <3>1. place[t].account \in Accounts  BY <1>7 DEF Checkout, At, WorkKnown
    <3> QED  BY <1>7, <3>1 DEF Checkout, FilesOK, Runtimes
  <2>4. LocksOK' /\ ControlOK'  BY <1>1, <1>2, <1>7, GoOK, ReturnOK, SameOK DEF Checkout, locks
  <2> QED  BY <2>1, <2>2, <2>3, <2>4
<1>8. CASE Record(t)
  <2>1. RowsOK'
    <3>1. place[t].account \in Accounts  BY <1>8 DEF Record, At, WorkKnown
    <3>2. vault[place[t].account] \in Contents  BY <3>1 DEF FilesOK
    <3> QED  BY <1>8, <3>2 DEF Record, RowsOK, SetState, States
  <2>2. FilesOK' /\ WorldOK'  BY <1>8, SameOK DEF Record
  <2>3. LocksOK' /\ ControlOK'  BY <1>1, <1>2, <1>8, GoOK, ReturnOK, SameOK DEF Record, locks
  <2> QED  BY <2>1, <2>2, <2>3
<1>9. CASE Spawn(t)
  <2>1. RowsOK' /\ FilesOK'  BY <1>9, SameOK DEF Spawn
  <2>2. WorldOK'  BY <1>9 DEF Spawn, WorldOK
  <2>3. LocksOK' /\ ControlOK'  BY <1>1, <1>2, <1>9, GoOK, ReturnOK, SameOK DEF Spawn, locks
  <2> QED  BY <2>1, <2>2, <2>3
<1>10. CASE RecordRunning(t)
  <2>1. RowsOK'  BY <1>10 DEF RecordRunning, RowsOK, SetState, States
  <2>2. FilesOK' /\ WorldOK'
    BY <1>10, SameOK DEF RecordRunning, Outlive, WorldOK
  <2>3. LocksOK' /\ ControlOK'
    BY <1>1, <1>2, <1>10, GoOK, ReturnOK, SameOK DEF RecordRunning, locks
  <2> QED  BY <2>1, <2>2, <2>3
<1>11. CASE Wait(t)
  <2>1. RowsOK'  BY <1>11 DEF Wait, RowsOK, SetState, States
  <2>2. FilesOK' /\ WorldOK'  BY <1>11, SameOK DEF Wait
  <2>3. LocksOK' /\ ControlOK'  BY <1>1, <1>2, <1>11, GoOK, ReturnOK, SameOK DEF Wait, locks
  <2> QED  BY <2>1, <2>2, <2>3
<1>12. CASE LateFail(t)
  <2>1. RowsOK'
    <3>1. \/ UNCHANGED <<state, incident>>
          \/ SetState(t, "failed") /\ Open(t, None)
      BY <1>12 DEF LateFail
    <3>2. "failed" \in States  BY DEF States
    <3> QED  BY <1>12, <3>1, <3>2, SetStateOK, OpenOK DEF LateFail, RowsOK
  <2>2. FilesOK' /\ LocksOK' /\ WorldOK'  BY <1>12, SameOK DEF LateFail
  <2>3. ControlOK'  BY <1>12 DEF LateFail, ControlOK, local
  <2> QED  BY <2>1, <2>2, <2>3
<1> QED  BY <1>3, <1>4, <1>5, <1>6, <1>7, <1>8, <1>9, <1>10, <1>11, <1>12 DEF Launch

LEMMA CommitTypes ==
  ASSUME TypeOK, WorkKnown, NEW x \in Procs, Commit(x) \/ RemoveRuntime(x) \/ Close(x)
  PROVE  RestOK'
<1> USE DEF TypeOK, RestOK
<1> DEFINE t == Work(x).tx  a == Work(x).account  p == Work(x).project
<1>1. pc[x] \in {"commit", "remove", "close"}  BY DEF Commit, RemoveRuntime, Close, At
<1>2. x \in Txs \/ x = "scan"  BY <1>1, Whose
<1>3. t \in Txs /\ a \in Accounts /\ p \in Projects  BY <1>1, <1>2, WorkOK
<1>4. "remove" \in Labels(x) /\ "close" \in Labels(x)
  BY <1>2 DEF Labels, RunnerLabels, DaemonLabels, Procs, Daemon
<1>5. WorldOK'  BY SameOK DEF Commit, RemoveRuntime, Close
<1>6. CASE Commit(x)
  <2> DEFINE r == Content(p)
  <2>1. r \in Contents \cup {None} /\ vault[a] \in Contents  BY <1>3, ContentOK DEF FilesOK
  <2>2. RowsOK'
    <3>1. state' = state \/ \E s \in States : SetState(t, s)  BY <1>6 DEF Commit, States
    <3>2. incident' = incident \/ Open(t, r)  BY <1>6 DEF Commit
    <3> HIDE DEF r
    <3> QED  BY <1>3, <2>1, <1>6, <3>1, <3>2, SetStateOK, OpenOK DEF Commit, RowsOK
  <2>3. FilesOK'
    <3>1. /\ vault' = vault \/ (r # None /\ vault' = [vault EXCEPT ![a] = r])
          /\ runtime' = runtime \/ runtime' = [runtime EXCEPT ![p] = None]
          /\ \/ kept' = kept \/ kept' = kept \cup {vault[a]}
             \/ r # None /\ kept' = kept \cup {r}
      BY <1>6 DEF Commit, files
    <3> HIDE DEF r
    <3> QED  BY <2>1, <3>1 DEF FilesOK
  <2>4. LocksOK' /\ ControlOK'
    <3>1. Leave(x) \/ Abort(x) \/ (Go(x, "remove") /\ UNCHANGED <<locks, local>>)
      BY <1>6 DEF Commit
    <3> QED  BY <1>4, <3>1, GoOK, ReturnOK, SameOK
  <2> QED  BY <1>5, <2>2, <2>3, <2>4
<1>7. CASE RemoveRuntime(x)
  <2>1. RowsOK' /\ LocksOK'  BY <1>7, SameOK DEF RemoveRuntime
  <2>2. FilesOK'  BY <1>7 DEF RemoveRuntime, FilesOK
  <2>3. ControlOK'  BY <1>4, <1>7, GoOK DEF RemoveRuntime
  <2> QED  BY <1>5, <2>1, <2>2, <2>3
<1>8. CASE Close(x)
  <2>1. RowsOK'
    <3>1. state' = state \/ \E s \in States : SetState(t, s)  BY <1>8 DEF Close, States
    <3> QED  BY <1>3, <1>8, <3>1, SetStateOK DEF Close, RowsOK
  <2>2. FilesOK'  BY <1>8, SameOK DEF Close
  <2>3. LocksOK' /\ ControlOK'  BY <1>8, ReturnOK DEF Close
  <2> QED  BY <1>5, <2>1, <2>2, <2>3
<1> QED  BY <1>6, <1>7, <1>8

LEMMA RecoveryTypes ==
  ASSUME TypeOK, WorkKnown, Recovery
  PROVE  RestOK'
<1> USE DEF TypeOK, RestOK
<1>1. /\ "scan" \in Procs /\ "scan" \in Daemon
      /\ Labels("scan") = {"idle", "next", "scan_account", "scan_project", "classify",
                           "commit", "remove", "close"}
  BY DEF Labels, DaemonLabels, Procs, Daemon
<1>2. CASE Scan
  <2>1. RowsOK' /\ FilesOK' /\ LocksOK' /\ WorldOK'  BY <1>2, SameOK DEF Scan
  <2>2. DOMAIN pc' = Procs /\ \A x \in Procs : pc'[x] \in Labels(x)
    BY <1>1, <1>2 DEF Scan, Go, ControlOK
  <2>3. todo' \in [Txs -> (States \ Terminal) \cup {None}]
    BY <1>2 DEF Scan, RowsOK, Ended
  <2>4. at' \in [Daemon -> Places]  BY <1>2 DEF Scan, ControlOK
  <2> QED  BY <2>1, <2>2, <2>3, <2>4 DEF ControlOK
<1>3. CASE ScanNext
  <2>1. RowsOK' /\ FilesOK' /\ LocksOK' /\ WorldOK'  BY <1>3, SameOK DEF ScanNext
  <2>2. DOMAIN pc' = Procs /\ \A x \in Procs : pc'[x] \in Labels(x)
    BY <1>1, <1>3 DEF ScanNext, Go, ControlOK
  <2>3. at' \in [Daemon -> Places]
    <3>1. at' = at \/ \E t \in Txs : at' = [at EXCEPT !["scan"] = place[t]]
      BY <1>3 DEF ScanNext
    <3> QED  BY <3>1 DEF ControlOK, RowsOK
  <2>4. todo' = todo  BY <1>3 DEF ScanNext
  <2> QED  BY <2>1, <2>2, <2>3, <2>4 DEF ControlOK
<1>4. ASSUME At("scan", "classify")
      PROVE  /\ Row \in Txs /\ place[Row].account \in Accounts /\ place[Row].project \in Projects
             /\ Content(place[Row].project) \in Contents \cup {None}
             /\ Row = Work("scan").tx
  <2>1. Work("scan") = at["scan"]  BY DEF Work, Daemon
  <2> QED  BY <1>1, <1>4, <2>1, WorkOK, ContentOK DEF At, Row
<1>5. CASE ScanOrphan
  <2>1. RowsOK'  BY <1>4, <1>5, OpenOK DEF ScanOrphan, RowsOK, States
  <2>2. FilesOK' /\ WorldOK'  BY <1>5, SameOK DEF ScanOrphan
  <2>3. LocksOK' /\ ControlOK'  BY <1>1, <1>5, ReturnOK DEF ScanOrphan
  <2> QED  BY <2>1, <2>2, <2>3
<1>6. CASE ScanPreparing
  <2> DEFINE p == place[Row].project  r == Content(p)
  <2>1. At("scan", "classify")  BY <1>6 DEF ScanPreparing
  <2>2. RowsOK'
    <3>1. \/ state' = state /\ Open(Row, None)
          \/ SetState(Row, "recovered") /\ incident' = incident
          \/ FailTx(Row)
      BY <1>6 DEF ScanPreparing
    <3>2. "recovered" \in States  BY DEF States
    <3>3. state' \in [Txs -> States \cup {None}] /\ incident' \in [Txs -> Incidents]
      BY <1>4, <2>1, <3>1, <3>2, SetStateOK, OpenOK, FailOK DEF RowsOK
    <3> QED  BY <1>6, <3>3 DEF ScanPreparing, RowsOK
  <2>3. FilesOK'
    <3>1. /\ vault' = vault
          /\ runtime' = runtime \/ runtime' = [runtime EXCEPT ![p] = None]
          /\ kept' = kept \/ (r # None /\ kept' = kept \cup {r})
      BY <1>6 DEF ScanPreparing
    <3>2. r \in Contents \cup {None}  BY <1>4, <2>1
    <3> HIDE DEF r
    <3> QED  BY <3>1, <3>2 DEF FilesOK
  <2>4. WorldOK'  BY <1>6, SameOK DEF ScanPreparing
  <2>5. LocksOK' /\ ControlOK'  BY <1>1, <1>6, ReturnOK DEF ScanPreparing
  <2> QED  BY <2>2, <2>3, <2>4, <2>5
<1>7. CASE ScanCommit
  <2>1. At("scan", "classify")  BY <1>7 DEF ScanCommit
  <2>2. RowsOK'
    <3>1. state' = state \/ SetState(Row, "codex_exited")  BY <1>7 DEF ScanCommit
    <3>2. "codex_exited" \in States  BY DEF States
    <3> QED  BY <1>4, <1>7, <2>1, <3>1, <3>2, SetStateOK DEF ScanCommit, RowsOK
  <2>3. FilesOK' /\ WorldOK'  BY <1>7, SameOK DEF ScanCommit
  <2>4. LocksOK' /\ ControlOK'
    <3>1. \/ Abort("scan")
          \/ Go("scan", "commit") /\ UNCHANGED <<locks, local>>
          \/ Go("scan", "remove") /\ UNCHANGED <<locks, local>>
      BY <1>7 DEF ScanCommit
    <3> QED  BY <1>1, <3>1, GoOK, ReturnOK, SameOK
  <2> QED  BY <2>2, <2>3, <2>4
<1> QED  BY <1>2, <1>3, <1>5, <1>6, <1>7 DEF Recovery

LEMMA RequestTypes ==
  ASSUME TypeOK, WorkKnown, Requests
  PROVE  RestOK'
<1> USE DEF TypeOK, RestOK
<1>1. /\ {"operator", "archiver", "usage"} \subseteq Procs
      /\ {"operator", "archiver", "usage"} \subseteq Daemon
      /\ Labels("operator") = {"idle", "op_account", "op_project", "op_apply", "op_close"}
      /\ Labels("archiver") = {"idle", "arch_project", "arch_check", "arch_write"}
      /\ Labels("usage") = {"idle", "query"}
  BY DEF Labels, DaemonLabels, Procs, Daemon
<1>2. CASE Resolve
  <2>1. RowsOK' /\ FilesOK' /\ LocksOK' /\ WorldOK'  BY <1>2, SameOK DEF Resolve
  <2>2. DOMAIN pc' = Procs /\ \A x \in Procs : pc'[x] \in Labels(x)
    BY <1>1, <1>2 DEF Resolve, Go, ControlOK
  <2>3. at' \in [Daemon -> Places]  BY <1>2 DEF Resolve, ControlOK, RowsOK
  <2>4. todo' = todo  BY <1>2 DEF Resolve
  <2> QED  BY <2>1, <2>2, <2>3, <2>4 DEF ControlOK
<1>3. ASSUME pc["operator"] \notin {"idle", "next"}
      PROVE  LET w == at["operator"] IN
             w.tx \in Txs /\ w.account \in Accounts /\ w.project \in Projects
  <2>1. Work("operator") = at["operator"]  BY DEF Work, Daemon
  <2> QED  BY <1>1, <1>3, <2>1, WorkOK
<1>9. CASE ResolveKeeping
  <2>1. RowsOK' /\ LocksOK'  BY <1>9, SameOK DEF ResolveKeeping
  <2>2. FilesOK'  BY <1>9 DEF ResolveKeeping, FilesOK
  <2>3. WorldOK'  BY <1>9 DEF ResolveKeeping, GiveUp, WorldOK
  <2>4. ControlOK'  BY <1>1, <1>9, GoOK DEF ResolveKeeping
  <2> QED  BY <2>1, <2>2, <2>3, <2>4
<1>10. CASE ResolveEvidence
  <2> DEFINE w == at["operator"]  i == incident[w.tx]
  <2>1. w.tx \in Txs /\ w.account \in Accounts /\ w.project \in Projects
    BY <1>3, <1>10 DEF ResolveEvidence, At
  <2>2. i \in Incidents /\ vault[w.account] \in Contents  BY <2>1 DEF RowsOK, FilesOK
  <2>3. CASE i.evidence = None
    <3>1. Leave("operator") /\ UNCHANGED <<rows, files, world>>
      BY <1>10, <2>3 DEF ResolveEvidence, rows, world
    <3> QED  BY <1>1, <3>1, ReturnOK, SameOK
  <2>4. CASE i.evidence # None
    <3>1. /\ kept' = kept \/ kept' = kept \cup {vault[w.account]}
          /\ incident' = [incident EXCEPT ![w.tx].saved = TRUE]
          /\ vault' = [vault EXCEPT ![w.account] = i.evidence]
          /\ runtime' = [runtime EXCEPT ![w.project] = None]
          /\ Go("operator", "op_close") /\ UNCHANGED <<locks, local>>
          /\ UNCHANGED <<place, state, base, order, archived, codex, orphans, left>>
          /\ \E S : GiveUp(S)
      BY <1>10, <2>4 DEF ResolveEvidence
    <3>2. i.evidence \in Contents  BY <2>2, <2>4 DEF Incidents
    <3>3. [i EXCEPT !.saved = TRUE] \in Incidents  BY <2>2 DEF Incidents
    <3>4. RowsOK'  BY <2>1, <3>1, <3>3 DEF RowsOK
    <3>5. FilesOK'  BY <2>1, <2>2, <3>1, <3>2 DEF FilesOK
    <3>6. WorldOK'  BY <3>1 DEF GiveUp, WorldOK
    <3>7. LocksOK' /\ ControlOK'  BY <1>1, <3>1, GoOK, SameOK
    <3> QED  BY <3>4, <3>5, <3>6, <3>7
  <2> QED  BY <2>3, <2>4
<1>11. CASE ResolveClose
  <2>1. RowsOK'  BY <1>11, ZenonT(60) DEF ResolveClose, RowsOK, Incidents
  <2>2. FilesOK' /\ WorldOK'  BY <1>11, SameOK DEF ResolveClose
  <2>3. LocksOK' /\ ControlOK'  BY <1>1, <1>11, ReturnOK DEF ResolveClose
  <2> QED  BY <2>1, <2>2, <2>3
<1>4. CASE Archive
  <2>1. RowsOK' /\ FilesOK' /\ LocksOK' /\ WorldOK'  BY <1>4, SameOK DEF Archive
  <2>2. DOMAIN pc' = Procs /\ \A x \in Procs : pc'[x] \in Labels(x)
    BY <1>1, <1>4 DEF Archive, Go, ControlOK
  <2>3. at' \in [Daemon -> Places]
    <3>1. \A p \in Projects : [Nowhere EXCEPT !.project = p] \in Places
      BY DEF Nowhere, Places
    <3> QED  BY <1>4, <3>1 DEF Archive, ControlOK
  <2>4. todo' = todo  BY <1>4 DEF Archive
  <2> QED  BY <2>1, <2>2, <2>3, <2>4 DEF ControlOK
<1>5. CASE ArchiveCheck
  <2>1. RowsOK' /\ FilesOK' /\ WorldOK'  BY <1>5, SameOK DEF ArchiveCheck
  <2>2. LocksOK' /\ ControlOK'
    <3>1. Leave("archiver") \/ (Go("archiver", "arch_write") /\ UNCHANGED <<locks, local>>)
      BY <1>5 DEF ArchiveCheck
    <3> QED  BY <1>1, <3>1, GoOK, ReturnOK, SameOK
  <2> QED  BY <2>1, <2>2
<1>6. CASE ArchiveWrite
  <2>1. at["archiver"].project \in Projects
    BY <1>6 DEF ArchiveWrite, At, WorkKnown
  <2>2. RowsOK'  BY <1>6, <2>1 DEF ArchiveWrite, RowsOK
  <2>3. FilesOK' /\ WorldOK'  BY <1>6, SameOK DEF ArchiveWrite
  <2>4. LocksOK' /\ ControlOK'  BY <1>1, <1>6, ReturnOK DEF ArchiveWrite
  <2> QED  BY <2>2, <2>3, <2>4
<1>7. CASE Usage
  <2>1. RowsOK' /\ FilesOK' /\ WorldOK'  BY <1>7, SameOK DEF Usage
  <2>2. LocksOK'  BY <1>1, <1>7 DEF Usage, LocksOK
  <2>3. ControlOK'  BY <1>1, <1>7, GoOK DEF Usage
  <2> QED  BY <2>1, <2>2, <2>3
<1>8. CASE UsageDone
  <2>1. RowsOK' /\ FilesOK' /\ WorldOK'  BY <1>8, SameOK DEF UsageDone
  <2>2. LocksOK' /\ ControlOK'  BY <1>1, <1>8, ReturnOK DEF UsageDone
  <2> QED  BY <2>1, <2>2
<1> QED  BY <1>2, <1>4, <1>5, <1>6, <1>7, <1>8, <1>9, <1>10, <1>11 DEF Requests

(* What is left of the processes in S.                                     *)
LEMMA KillTypes ==
  ASSUME TypeOK, NEW S \in SUBSET Procs, Kill(S)
  PROVE  /\ RowsOK' /\ FilesOK' /\ LocksOK' /\ ControlOK'
         /\ left' \in [refresh : 0..MaxRefresh, restore : 0..MaxRestore, crash : 0..MaxCrash]
         /\ latest' = latest
<1> USE DEF TypeOK, RestOK
<1>1. RowsOK' /\ FilesOK'  BY SameOK DEF Kill
<1>2. LocksOK'  BY DEF Kill, Drop, LocksOK
<1>3. ControlOK'
  <2>1. DOMAIN pc' = Procs  BY DEF Kill
  <2>2. \A x \in Procs : pc'[x] \in Labels(x)
    <3>1. \A x \in Txs : "gone" \in Labels(x)  BY DEF Labels
    <3>2. \A x \in Daemon : "idle" \in Labels(x)  BY DEF Labels, DaemonLabels, Daemon
    <3> QED  BY <3>1, <3>2 DEF Kill, ControlOK, Procs
  <2>3. at' \in [Daemon -> Places]  BY DEF Kill, Forget, ControlOK, Places, Nowhere
  <2>4. todo' \in [Txs -> (States \ Terminal) \cup {None}]  BY DEF Kill, ControlOK
  <2> QED  BY <2>1, <2>2, <2>3, <2>4 DEF ControlOK
<1>4. left' \in [refresh : 0..MaxRefresh, restore : 0..MaxRestore, crash : 0..MaxCrash]  BY DEF Kill, WorldOK
<1> QED  BY <1>1, <1>2, <1>3, <1>4 DEF Kill

LEMMA EnvironmentTypes ==
  ASSUME TypeOK, WorkKnown, Environment
  PROVE  RestOK'
<1> USE DEF TypeOK, RestOK
<1>1. ASSUME NEW t \in Txs, CodexRefresh(t) PROVE RestOK'
  <2> DEFINE new == Issued(place[t].account)
  <2>1. place[t].account \in Accounts
    BY <1>1 DEF CodexRefresh, WorkKnown, Pristine
  <2>2. left.refresh \in 1..MaxRefresh /\ left.restore \in 0..MaxRestore
    BY <1>1 DEF CodexRefresh, WorldOK
  <2>3. new \in Contents  BY <2>1, <2>2 DEF Contents, Issued
  <2>4. /\ runtime' = [runtime EXCEPT ![place[t].project] = [owner |-> t, content |-> new]]
        /\ latest' = [latest EXCEPT ![t] = new] /\ vault' = vault /\ kept' = kept
        /\ left' = [left EXCEPT !.refresh = @ - 1] /\ codex' = codex /\ orphans' = orphans
    BY <1>1 DEF CodexRefresh
  <2> HIDE DEF new
  <2>5. FilesOK'  BY <2>3, <2>4 DEF FilesOK, Runtimes
  <2>6. WorldOK'
    <3>1. left' \in [refresh : 0..MaxRefresh, restore : 0..MaxRestore, crash : 0..MaxCrash]
      BY <2>2, <2>4 DEF WorldOK
    <3> QED  BY <2>3, <2>4, <3>1 DEF WorldOK
  <2>7. RowsOK' /\ LocksOK' /\ ControlOK'
    BY <1>1, SameOK DEF CodexRefresh, ControlOK, local
  <2> QED  BY <2>5, <2>6, <2>7
<1>2. ASSUME NEW t \in Txs, CodexExit(t) PROVE RestOK'
  BY <1>2, SameOK DEF CodexExit, ControlOK, local, WorldOK
<1>3. ASSUME NEW t \in Txs, CrashRunner(t) PROVE RestOK'
  <2>1. {t} \in SUBSET Procs  BY DEF Procs
  <2> QED  BY <1>3, <2>1, KillTypes DEF CrashRunner, Outlive, WorldOK
<1>4. CASE CrashDaemon
  <2>1. (Daemon \cup {t \in Txs : pc[t] \in LauncherLabels}) \in SUBSET Procs  BY DEF Procs
  <2> QED  BY <1>4, <2>1, KillTypes DEF CrashDaemon, WorldOK
<1>5. CASE Reboot
  <2>1. Procs \in SUBSET Procs  OBVIOUS
  <2> QED  BY <1>5, <2>1, KillTypes DEF Reboot, WorldOK
<1>6. ASSUME NEW a \in Accounts, RestoreVault(a) PROVE RestOK'
  <2>1. left.refresh \in 0..MaxRefresh /\ left.restore \in 1..MaxRestore
    BY <1>6 DEF RestoreVault, WorldOK
  <2>2. Issued(a) \in Contents  BY <2>1 DEF Contents, Issued
  <2>3. /\ vault' = [vault EXCEPT ![a] = Issued(a)] /\ GiveUp({vault[a]})
        /\ left' = [left EXCEPT !.restore = @ - 1]
        /\ UNCHANGED <<runtime, kept, codex, orphans>>
    BY <1>6 DEF RestoreVault
  <2>4. FilesOK'
    <3> HIDE DEF Issued
    <3> QED  BY <2>2, <2>3 DEF FilesOK
  <2>5. left' \in [refresh : 0..MaxRefresh, restore : 0..MaxRestore, crash : 0..MaxCrash]
    BY <2>1, <2>3 DEF WorldOK
  <2>6. WorldOK'  BY <2>3, <2>5 DEF GiveUp, WorldOK
  <2>7. RowsOK' /\ LocksOK' /\ ControlOK'
    BY <1>6, SameOK DEF RestoreVault, ControlOK, local
  <2> QED  BY <2>4, <2>6, <2>7
<1> QED  BY <1>1, <1>2, <1>3, <1>4, <1>5, <1>6 DEF Environment

LEMMA LateType == TypeOK /\ Next => late' \subseteq Txs
<1> SUFFICES ASSUME TypeOK, Next PROVE late' \subseteq Txs  OBVIOUS
<1> USE DEF TypeOK
<1>1. ASSUME NEW t \in Txs, Launch(t) PROVE late' \subseteq Txs
  BY <1>1 DEF Launch, Admit, Create, Start, LateFail, Enter, Checkout, Record, Spawn,
              RecordRunning, Wait
<1>2. ASSUME NEW x \in Procs, TakeAccount(x) \/ TakeProject(x) \/ Commit(x)
                             \/ RemoveRuntime(x) \/ Close(x)
      PROVE  late' \subseteq Txs
  BY <1>2 DEF TakeAccount, TakeProject, Commit, RemoveRuntime, Close
<1>3. CASE Recovery \/ Requests
  BY <1>3 DEF Recovery, Requests, Scan, ScanNext, ScanOrphan, ScanPreparing, ScanCommit, Resolve,
              ResolveKeeping, ResolveEvidence, ResolveClose, Archive, ArchiveCheck, ArchiveWrite,
              Usage, UsageDone
<1>4. CASE Environment
  BY <1>4 DEF Environment, CodexRefresh, CodexExit, CrashRunner, RestoreVault, CrashDaemon,
              Reboot, Kill
<1> QED  BY <1>1, <1>2, <1>3, <1>4 DEF Next

LEMMA StepType == TypeOK /\ WorkKnown /\ Next => TypeOK'
<1> SUFFICES ASSUME TypeOK, WorkKnown, Next PROVE TypeOK'  OBVIOUS
<1>1. RestOK'
  BY LockTypes, LaunchTypes, CommitTypes, RecoveryTypes, RequestTypes, EnvironmentTypes DEF Next
<1> QED  BY <1>1, LateType DEF TypeOK, RestOK

(***************************************************************************)
(* Work and locks.  A step of x is steady if x returns, or goes on with    *)
(* the locks it has; a launch not requested yet is nobody's business.      *)
(***************************************************************************)
Resting == {"idle", "next"}

Steady(x) ==
  /\ pc[x] # "request" /\ UNCHANGED place
  /\ \/ Leave(x) \/ Abort(x)
     \/ /\ UNCHANGED <<locks, local>>
        /\ \E label \in Labels(x) :
                      /\ Go(x, label) /\ label # "request"
                      /\ label \in AccountSteadyLabels => pc[x] \in AccountSteadyLabels
                      /\ label \in ProjectSteadyLabels => pc[x] \in ProjectSteadyLabels
                      /\ pc[x] \in Resting => label \in Resting

Unrequested == \A t \in Txs : pc[t] = "request" =>
  /\ state'[t] = state[t] /\ incident'[t] = incident[t] /\ (t \in late' => t \in late)
  /\ codex'[t] = codex[t] /\ latest'[t] \in {latest[t], None}

(* What a step of x may do to the others: nothing.                         *)
Alone(x) ==
  /\ \A y \in Procs : y # x => pc'[y] = pc[y] /\ Work(y)' = Work(y)
  /\ \A a \in Accounts : accountLock'[a] = accountLock[a] \/ accountLock[a] \in {x, None}
  /\ \A p \in Projects : projectLock'[p] = projectLock[p] \/ projectLock[p] \in {x, None}

LEMMA SteadyPlaces ==
  ASSUME TypeOK, WorkKnown, NEW x \in Procs
  PROVE  /\ pc[x] \in AccountSteadyLabels => Work(x).account \in Accounts
         /\ pc[x] \in ProjectSteadyLabels => Work(x).project \in Projects
<1>1. x \in Txs \/ x \in Daemon  BY DEF Procs
<1>2. x \in Daemon => pc[x] \in DaemonLabels[x]  BY Whose DEF TypeOK
<1>3. CASE x \in Txs
  <2>1. pc[x] \in AccountSteadyLabels \cup ProjectSteadyLabels => pc[x] # "request"
    BY DEF AccountSteadyLabels, ProjectSteadyLabels
  <2> QED  BY <1>3, <2>1, WorkOK
<1>4. CASE x \in {"scan", "operator"}
  <2>1. pc[x] \in AccountSteadyLabels \cup ProjectSteadyLabels => pc[x] \notin {"idle", "next"}
    BY DEF AccountSteadyLabels, ProjectSteadyLabels
  <2> QED  BY <1>4, <2>1, WorkOK
<1>5. CASE x = "archiver"
  <2>1. pc[x] \notin AccountSteadyLabels
    BY <1>2, <1>5 DEF AccountSteadyLabels, DaemonLabels, Daemon
  <2>2. pc[x] \in ProjectSteadyLabels => pc[x] # "idle"
    BY DEF AccountSteadyLabels, ProjectSteadyLabels
  <2> QED  BY <1>5, <2>1, <2>2, WorkOK
<1>6. CASE x = "usage"
  BY <1>2, <1>6 DEF AccountSteadyLabels, ProjectSteadyLabels, DaemonLabels, Daemon
<1> QED  BY <1>1, <1>3, <1>4, <1>5, <1>6 DEF Daemon

LEMMA LocksStay ==
  ASSUME TypeOK, WorkKnown, LocksHeld, NEW x \in Procs, Alone(x),
         pc'[x] \in AccountSteadyLabels => accountLock'[Work(x)'.account] = x,
         pc'[x] \in ProjectSteadyLabels => projectLock'[Work(x)'.project] = x
  PROVE  LocksHeld'
<1> SUFFICES ASSUME NEW y \in Procs
             PROVE  /\ pc'[y] \in AccountSteadyLabels => accountLock'[Work(y)'.account] = y
                    /\ pc'[y] \in ProjectSteadyLabels => projectLock'[Work(y)'.project] = y
  BY DEF LocksHeld
<1>1. None \notin Procs  BY DEF Procs
<1>2. CASE y = x  BY <1>2
<1>3. CASE y # x
  <2>1. pc'[y] = pc[y] /\ Work(y)' = Work(y)  BY <1>3 DEF Alone
  <2> QED  BY <1>1, <1>3, <2>1, SteadyPlaces DEF Alone, LocksHeld
<1> QED  BY <1>2, <1>3

LEMMA ReturnAlone ==
  ASSUME TypeOK, NEW x \in Procs, Leave(x) \/ Abort(x), UNCHANGED place
  PROVE  Alone(x) /\ pc'[x] \in {"gone", "next", "idle"}
<1>1. pc'[x] \in {"gone", "next", "idle"} /\ \A y \in Procs : y # x => pc'[y] = pc[y]
  BY DEF Leave, Abort, Go, ControlOK, TypeOK
<1>2. \A y \in Procs : y # x => Work(y)' = Work(y)
  BY DEF Leave, Abort, Forget, Work, ControlOK, TypeOK, Procs
<1>3. /\ \A a \in Accounts : accountLock'[a] = accountLock[a] \/ accountLock[a] \in {x, None}
      /\ \A p \in Projects : projectLock'[p] = projectLock[p] \/ projectLock[p] \in {x, None}
  BY DEF Leave, Abort, Drop, LocksOK, TypeOK
<1> QED  BY <1>1, <1>2, <1>3 DEF Alone

(* The control of a steady step.                                           *)
LEMMA SteadyControl ==
  ASSUME TypeOK, NEW x \in Procs, Steady(x)
  PROVE  /\ Alone(x) /\ pc'[x] # "request"
         /\ pc'[x] \in Resting \/ x \in Txs \/ (Work(x)' = Work(x) /\ pc[x] \notin Resting)
         /\ \A t \in Txs : todo'[t] \in {todo[t], None}
         /\ \A d \in Daemon : d # x => at'[d] = at[d]
<1>1. CASE Leave(x) \/ Abort(x)
  <2>1. \A t \in Txs : todo'[t] \in {todo[t], None}
    BY <1>1 DEF Leave, Abort, ControlOK, TypeOK
  <2>2. \A d \in Daemon : d # x => at'[d] = at[d]
    BY <1>1 DEF Leave, Abort, Forget, ControlOK, TypeOK
  <2>3. x \in Txs \/ pc'[x] \in Resting
    BY <1>1 DEF Leave, Abort, Go, ControlOK, TypeOK, Resting
  <2> QED  BY <1>1, <2>1, <2>2, <2>3, ReturnAlone DEF Steady
<1>2. CASE /\ UNCHANGED <<locks, local>>
           /\ \E label \in Labels(x) :
                Go(x, label) /\ label # "request" /\ (pc[x] \in Resting => label \in Resting)
  <2>1. \A y \in Procs : Work(y)' = Work(y)  BY <1>2 DEF Steady, Work, local
  <2>2. PICK label \in Labels(x) :
          Go(x, label) /\ label # "request" /\ (pc[x] \in Resting => label \in Resting)
    BY <1>2
  <2>3. pc'[x] = label /\ \A y \in Procs : y # x => pc'[y] = pc[y]
    BY <2>2 DEF Go, ControlOK, TypeOK
  <2>4. Alone(x)  BY <1>2, <2>1, <2>3 DEF Alone, locks
  <2>5. pc'[x] # "request" /\ (pc[x] \in Resting => pc'[x] \in Resting)  BY <2>2, <2>3
  <2>6. todo' = todo /\ at' = at  BY <1>2 DEF local
  <2> QED  BY <2>1, <2>4, <2>5, <2>6
<1> QED  BY <1>1, <1>2 DEF Steady

(* Only the scan has a next transaction.                                   *)
LEMMA NextIsScans ==
  ASSUME TypeOK, NEW x \in Procs, Steady(x)
  PROVE  pc'["archiver"] # "next"
<1>1. "archiver" \in Procs /\ "archiver" \notin Txs /\ Labels("archiver") = DaemonLabels.archiver
  BY DEF Procs, Daemon, Labels, DaemonLabels
<1>2. pc["archiver"] # "next"  BY <1>1 DEF ControlOK, TypeOK, DaemonLabels
<1>3. CASE x # "archiver"  BY <1>1, <1>2, <1>3, SteadyControl DEF Alone
<1>4. CASE x = "archiver"
  BY <1>1, <1>4 DEF Steady, Leave, Abort, Go, ControlOK, TypeOK, DaemonLabels
<1> QED  BY <1>3, <1>4

LEMMA SteadyKeeps ==
  ASSUME TypeOK, WorkKnown, NEW x \in Procs, Steady(x), Unrequested
  PROVE  WorkKnown' /\ (LocksHeld => LocksHeld')
<1>1. place' = place  BY DEF Steady
<1>2. \A t \in Txs : (pc'[t] = "request") <=> (pc[t] = "request")
  BY SteadyControl DEF Steady, Alone, Procs
<1>3. WorkKnown'
  <2>1. \A t \in Txs :
          IF pc'[t] = "request"
          THEN Pristine(t)'
          ELSE place'[t].account \in Accounts /\ place'[t].project \in Projects /\ place'[t].tx = t
    BY <1>1, <1>2 DEF WorkKnown, Unrequested, Pristine
  <2>2. \A t : Requested(t) => Requested(t)'  BY <1>2 DEF Requested
  <2>3. \A t \in Txs : todo'[t] # None => Requested(t)'
    BY <2>2, SteadyControl DEF WorkKnown
  <2>4. \A d \in Daemon : pc'[d] \notin Resting => at'[d] = at[d] /\ pc[d] \notin Resting
    <3>1. ASSUME NEW d \in Daemon, pc'[d] \notin Resting
          PROVE at'[d] = at[d] /\ pc[d] \notin Resting
      <4>1. d \in Procs /\ d \notin Txs  BY DEF Procs
      <4>2. CASE d = x  BY <3>1, <4>1, <4>2, SteadyControl DEF Work
      <4>3. CASE d # x  BY <3>1, <4>1, <4>3, SteadyControl DEF Alone
      <4> QED  BY <4>2, <4>3
    <3> QED  BY <3>1
  <2>5. \A d \in {"scan", "operator"} :
          pc'[d] \notin {"idle", "next"} => Requested(at[d].tx)' /\ at'[d] = place'[at[d].tx]
    BY <1>1, <2>2, <2>4 DEF WorkKnown, Resting, Daemon
  <2>6. pc'["archiver"] # "idle" => at'["archiver"].project \in Projects
    <3>1. pc'["archiver"] \notin Resting \/ pc'["archiver"] = "idle"
      BY NextIsScans DEF Resting
    <3>2. "archiver" \in Daemon  BY DEF Daemon
    <3> QED  BY <2>4, <3>1, <3>2 DEF WorkKnown, Resting
  <2> QED  BY <2>1, <2>3, <2>4, <2>5, <2>6 DEF WorkKnown, Resting, Daemon
<1>4. ASSUME LocksHeld PROVE LocksHeld'
  <2>1. CASE Leave(x) \/ Abort(x)
    <3>1. pc'[x] \notin AccountSteadyLabels \cup ProjectSteadyLabels
      BY <1>1, <2>1, ReturnAlone DEF AccountSteadyLabels, ProjectSteadyLabels
    <3> QED  BY <1>4, <3>1, SteadyControl, LocksStay
  <2>2. CASE ~Leave(x) /\ ~Abort(x)
    <3>1. /\ UNCHANGED <<locks, local>>
          /\ pc'[x] \in AccountSteadyLabels => pc[x] \in AccountSteadyLabels
          /\ pc'[x] \in ProjectSteadyLabels => pc[x] \in ProjectSteadyLabels
      BY <2>2 DEF Steady, Go, ControlOK, TypeOK
    <3>2. Work(x)' = Work(x)  BY <1>1, <3>1 DEF Work, local
    <3> QED  BY <1>4, <3>1, <3>2, SteadyControl, LocksStay DEF LocksHeld, locks
  <2> QED  BY <2>1, <2>2
<1> QED  BY <1>3, <1>4

(* The steps of a launch that are steady, ...                              *)
LEMMA LaunchSteady ==
  ASSUME TypeOK, WorkKnown, NEW t \in Txs, Launch(t), ~Admit(t), ~Create(t), ~LateFail(t)
  PROVE  Steady(t) /\ Unrequested
<1>1. Labels(t) = LauncherLabels \cup RunnerLabels \cup {"request", "gone"}  BY DEF Labels
<1>2. DOMAIN state = Txs /\ DOMAIN incident = Txs /\ DOMAIN codex = Txs
  BY DEF TypeOK, RowsOK, WorldOK
<1> USE DEF At, RunnerLabels, AccountSteadyLabels, ProjectSteadyLabels, Resting
<1>3. CASE Start(t)
  <2>1. Steady(t)  BY <1>1, <1>3 DEF Start, Steady
  <2>2. Unrequested  BY <1>2, <1>3 DEF Start, FailTx, SetState, Open, Unrequested, world
  <2> QED  BY <2>1, <2>2
<1>4. CASE Enter(t)
  <2>1. Steady(t)  BY <1>1, <1>4 DEF Enter, Steady, rows
  <2>2. Unrequested  BY <1>4 DEF Enter, Unrequested, rows, world
  <2> QED  BY <2>1, <2>2
<1>5. CASE Checkout(t)
  <2>1. Steady(t)  BY <1>1, <1>5 DEF Checkout, Steady, locks
  <2>2. Unrequested  BY <1>2, <1>5 DEF Checkout, FailTx, SetState, Open, Unrequested, world
  <2> QED  BY <2>1, <2>2
<1>6. CASE Record(t)
  <2>1. Steady(t)  BY <1>1, <1>6 DEF Record, Steady, locks
  <2>2. Unrequested  BY <1>2, <1>6 DEF Record, SetState, Unrequested, world
  <2> QED  BY <2>1, <2>2
<1>7. CASE Spawn(t)
  <2>1. Steady(t)  BY <1>1, <1>7 DEF Spawn, Steady, rows, locks
  <2>2. Unrequested  BY <1>2, <1>7 DEF Spawn, Unrequested, rows
  <2> QED  BY <2>1, <2>2
<1>8. CASE RecordRunning(t)
  <2>1. Steady(t)  BY <1>1, <1>8 DEF RecordRunning, Steady, locks
  <2>2. Unrequested  BY <1>2, <1>8 DEF RecordRunning, SetState, Unrequested, world
  <2> QED  BY <2>1, <2>2
<1>9. CASE Wait(t)
  <2>1. Steady(t)  BY <1>1, <1>9 DEF Wait, Steady, locks
  <2>2. Unrequested  BY <1>2, <1>9 DEF Wait, SetState, Unrequested, world
  <2> QED  BY <2>1, <2>2
<1> QED  BY <1>3, <1>4, <1>5, <1>6, <1>7, <1>8, <1>9 DEF Launch

(* ... of a commit, ...                                                    *)
LEMMA CommitSteady ==
  ASSUME TypeOK, WorkKnown, NEW x \in Procs, Commit(x) \/ RemoveRuntime(x) \/ Close(x)
  PROVE  Steady(x) /\ Unrequested
<1>1. pc[x] \in {"commit", "remove", "close"}  BY DEF Commit, RemoveRuntime, Close, At
<1>2. x \in Txs \/ x = "scan"  BY <1>1, Whose DEF TypeOK
<1>3. Requested(Work(x).tx)  BY <1>1, <1>2, WorkOK DEF Requested
<1>4. {"remove", "close"} \subseteq Labels(x)
  BY <1>2 DEF Labels, RunnerLabels, DaemonLabels, Daemon
<1>5. DOMAIN state = Txs /\ DOMAIN incident = Txs  BY DEF TypeOK, RowsOK
<1> USE DEF At, AccountSteadyLabels, ProjectSteadyLabels, Resting
<1>6. CASE Commit(x)
  <2>1. /\ place' = place /\ codex' = codex
        /\ Leave(x) \/ Abort(x) \/ (Go(x, "remove") /\ UNCHANGED <<locks, local>>)
    BY <1>6 DEF Commit, world
  <2>2. Steady(x)  BY <1>1, <1>4, <2>1 DEF Steady
  <2>3. /\ state' = state \/ \E s \in States : SetState(Work(x).tx, s)
        /\ incident' = incident \/ \E e : Open(Work(x).tx, e)
        /\ late' = late /\ latest' = latest
    BY <1>6 DEF Commit, States, world
  <2>4. Unrequested  BY <1>3, <1>5, <2>1, <2>3 DEF Unrequested, SetState, Open, Requested
  <2> QED  BY <2>2, <2>4
<1>7. CASE RemoveRuntime(x)
  <2>1. Steady(x)  BY <1>1, <1>4, <1>7 DEF RemoveRuntime, Steady, rows
  <2>2. Unrequested  BY <1>7 DEF RemoveRuntime, Unrequested, rows, world
  <2> QED  BY <2>1, <2>2
<1>8. CASE Close(x)
  <2>1. Steady(x)  BY <1>1, <1>8 DEF Close, Steady
  <2>2. Unrequested  BY <1>3, <1>5, <1>8 DEF Close, Unrequested, SetState, Requested, world
  <2> QED  BY <2>1, <2>2
<1> QED  BY <1>6, <1>7, <1>8

(* ... and of the daemon's threads.                                        *)
LEMMA ThreadSteady ==
  ASSUME TypeOK, WorkKnown
  PROVE  /\ ScanOrphan \/ ScanPreparing \/ ScanCommit => Steady("scan") /\ Unrequested
         /\ ResolveKeeping \/ ResolveEvidence \/ ResolveClose => Steady("operator") /\ Unrequested
         /\ ArchiveCheck \/ ArchiveWrite => Steady("archiver") /\ Unrequested
         /\ UsageDone => Steady("usage") /\ Unrequested
<1> USE DEF At, AccountSteadyLabels, ProjectSteadyLabels, Resting
<1>1. /\ Daemon \subseteq Procs
      /\ Labels("scan") = DaemonLabels.scan /\ Labels("archiver") = DaemonLabels.archiver
      /\ Labels("operator") = DaemonLabels.operator
  BY DEF Procs, Daemon, Labels, DaemonLabels
<1>2. DOMAIN state = Txs /\ DOMAIN incident = Txs /\ DOMAIN latest = Txs
  BY DEF TypeOK, RowsOK, WorldOK
<1>3. pc["scan"] = "classify" => Requested(Row)
  BY DEF WorkKnown, Row
<1>4. ASSUME ScanOrphan PROVE Steady("scan") /\ Unrequested
  <2>1. Steady("scan")  BY <1>4 DEF ScanOrphan, Steady
  <2>2. Unrequested
    BY <1>2, <1>3, <1>4 DEF ScanOrphan, Unrequested, Open, Requested, world
  <2> QED  BY <2>1, <2>2
<1>5. ASSUME ScanPreparing PROVE Steady("scan") /\ Unrequested
  <2>1. Steady("scan")  BY <1>5 DEF ScanPreparing, Steady
  <2>2. \/ state' = state /\ Open(Row, None)
        \/ SetState(Row, "recovered") /\ incident' = incident
        \/ FailTx(Row)
    BY <1>5 DEF ScanPreparing
  <2>3. Unrequested
    BY <1>2, <1>3, <1>5, <2>2
    DEF ScanPreparing, Unrequested, SetState, Open, FailTx, Requested, world
  <2> QED  BY <2>1, <2>3
<1>6. ASSUME ScanCommit PROVE Steady("scan") /\ Unrequested
  <2>1. /\ place' = place /\ pc["scan"] = "classify"
        /\ \/ Abort("scan")
           \/ Go("scan", "commit") /\ UNCHANGED <<locks, local>>
           \/ Go("scan", "remove") /\ UNCHANGED <<locks, local>>
    BY <1>6 DEF ScanCommit
  <2>2. Steady("scan")  BY <1>1, <2>1 DEF Steady, DaemonLabels
  <2>3. state' = state \/ SetState(Row, "codex_exited")  BY <1>6 DEF ScanCommit
  <2>4. Unrequested
    BY <1>2, <1>3, <1>6, <2>1, <2>3 DEF ScanCommit, Unrequested, SetState, Requested, world
  <2> QED  BY <2>2, <2>4
<1>7. ASSUME ResolveKeeping PROVE Steady("operator") /\ Unrequested
  <2>1. /\ UNCHANGED <<rows, locks, late, local, codex>> /\ pc["operator"] = "op_apply"
        /\ Go("operator", "op_close") /\ \E S : GiveUp(S)
    BY <1>7 DEF ResolveKeeping
  <2>2. Steady("operator")  BY <1>1, <2>1 DEF Steady, rows, DaemonLabels
  <2>3. Unrequested  BY <2>1 DEF Unrequested, rows, GiveUp
  <2> QED  BY <2>2, <2>3
<1>11. ASSUME ResolveEvidence PROVE Steady("operator") /\ Unrequested
  <2>1. /\ UNCHANGED <<place, state, late, codex>> /\ pc["operator"] = "op_apply"
        /\ Leave("operator") \/ (Go("operator", "op_close") /\ UNCHANGED <<locks, local>>)
        /\ latest' = latest \/ \E S : GiveUp(S)
        /\ \/ incident' = incident
           \/ incident' = [incident EXCEPT ![at["operator"].tx].saved = TRUE]
    BY <1>11 DEF ResolveEvidence
  <2>2. Steady("operator")  BY <1>1, <2>1 DEF Steady, DaemonLabels
  <2>3. Requested(at["operator"].tx)  BY <2>1 DEF WorkKnown
  <2>4. \A t \in Txs : latest'[t] \in {latest[t], None}  BY <1>2, <2>1 DEF GiveUp
  <2>5. Unrequested  BY <1>2, <2>1, <2>3, <2>4 DEF Unrequested, Requested
  <2> QED  BY <2>2, <2>5
<1>12. ASSUME ResolveClose PROVE Steady("operator") /\ Unrequested
  <2>1. Steady("operator")  BY <1>12 DEF ResolveClose, Steady
  <2>2. Requested(at["operator"].tx)  BY <1>12 DEF ResolveClose, WorkKnown
  <2>3. Unrequested  BY <1>2, <1>12, <2>2 DEF ResolveClose, Unrequested, Requested, world
  <2> QED  BY <2>1, <2>3
<1>8. ASSUME ArchiveCheck PROVE Steady("archiver") /\ Unrequested
  <2>1. /\ UNCHANGED <<rows, late, world>> /\ pc["archiver"] = "arch_check"
        /\ Leave("archiver") \/ (Go("archiver", "arch_write") /\ UNCHANGED <<locks, local>>)
    BY <1>8 DEF ArchiveCheck
  <2>2. Steady("archiver")  BY <1>1, <2>1 DEF Steady, DaemonLabels, rows
  <2>3. Unrequested  BY <2>1 DEF Unrequested, rows, world
  <2> QED  BY <2>2, <2>3
<1>9. ASSUME ArchiveWrite PROVE Steady("archiver") /\ Unrequested
  BY <1>9 DEF ArchiveWrite, Steady, Unrequested, world
<1>10. ASSUME UsageDone PROVE Steady("usage") /\ Unrequested
  BY <1>10 DEF UsageDone, Steady, Unrequested, rows, world
<1> QED  BY <1>4, <1>5, <1>6, <1>7, <1>8, <1>9, <1>10, <1>11, <1>12

(* A step of x that goes on with its work, whatever it does to the locks.  *)
LEMMA GoKeepsWork ==
  ASSUME TypeOK, WorkKnown, NEW x \in Procs, NEW label, Go(x, label), UNCHANGED <<place, local>>,
         Unrequested, pc[x] # "request", label # "request",
         pc[x] \in Resting => label \in Resting, x = "archiver" => label # "next"
  PROVE  /\ WorkKnown' /\ pc'[x] = label
         /\ \A y \in Procs : Work(y)' = Work(y) /\ (y # x => pc'[y] = pc[y])
<1>1. pc'[x] = label /\ \A y \in Procs : y # x => pc'[y] = pc[y]
  BY DEF Go, ControlOK, TypeOK
<1>2. at' = at /\ todo' = todo  BY DEF local
<1>3. \A t \in Txs : (pc'[t] = "request") <=> (pc[t] = "request")  BY <1>1 DEF Procs
<1>4. \A d \in Daemon : pc'[d] \notin Resting => pc[d] \notin Resting  BY <1>1 DEF Procs
<1>5. pc'["archiver"] # "idle" => pc["archiver"] # "idle"
  BY <1>1 DEF Procs, Daemon, Resting
<1>6. \A t \in Txs :
        IF pc'[t] = "request"
        THEN Pristine(t)'
        ELSE place'[t].account \in Accounts /\ place'[t].project \in Projects /\ place'[t].tx = t
  BY <1>3 DEF WorkKnown, Unrequested, Pristine
<1>7. \A t : Requested(t) => Requested(t)'  BY <1>3 DEF Requested
<1>8. WorkKnown'  BY <1>2, <1>4, <1>5, <1>6, <1>7 DEF WorkKnown, Resting, Daemon
<1> QED  BY <1>1, <1>2, <1>8 DEF Work

(* A step that leaves control and locks alone.                             *)
LEMMA QuietKeeps ==
  ASSUME WorkKnown, UNCHANGED <<place, pc, locks, local>>, Unrequested
  PROVE  WorkKnown' /\ (LocksHeld => LocksHeld')
<1>1. at' = at /\ todo' = todo /\ place' = place /\ pc' = pc  BY DEF local
<1>2. \A t \in Txs :
        IF pc'[t] = "request"
        THEN Pristine(t)'
        ELSE place'[t].account \in Accounts /\ place'[t].project \in Projects /\ place'[t].tx = t
  BY <1>1 DEF WorkKnown, Unrequested, Pristine
<1>3. WorkKnown'  BY <1>1, <1>2 DEF WorkKnown, Requested
<1>4. LocksHeld => LocksHeld'  BY <1>1 DEF LocksHeld, Work, locks
<1> QED  BY <1>3, <1>4

LEMMA TakeKeeps ==
  ASSUME TypeOK, WorkKnown, NEW x \in Procs, TakeAccount(x) \/ TakeProject(x)
  PROVE  WorkKnown' /\ (LocksHeld => LocksHeld')
<1>1. pc[x] \in DOMAIN AccountSteps \cup DOMAIN ProjectSteps  BY DEF TakeAccount, TakeProject
<1>2. pc[x] \notin Resting \cup {"request"}
  BY <1>1 DEF AccountSteps, ProjectSteps, Resting
<1>3. Unrequested /\ place' = place
  BY DEF TakeAccount, TakeProject, Unrequested, rows, world
<1>4. CASE Leave(x)  BY <1>2, <1>3, <1>4, SteadyKeeps DEF Steady
<1>5. None \notin Procs  BY DEF Procs
<1>6. ASSUME ~Leave(x), TakeAccount(x) PROVE WorkKnown' /\ (LocksHeld => LocksHeld')
  <2> DEFINE label == AccountSteps[pc[x]]
  <2>1. /\ Go(x, label) /\ UNCHANGED <<projectLock, local>>
        /\ accountLock[Work(x).account] = None
        /\ accountLock' = [accountLock EXCEPT ![Work(x).account] = x]
        /\ pc[x] \in DOMAIN AccountSteps
    BY <1>6 DEF TakeAccount
  <2>2. /\ label \notin Resting \cup {"request", "next"} \cup ProjectSteadyLabels
    BY <2>1 DEF AccountSteps, Resting, ProjectSteadyLabels, AccountSteadyLabels
  <2>3. /\ WorkKnown' /\ pc'[x] = label
        /\ \A y \in Procs : Work(y)' = Work(y) /\ (y # x => pc'[y] = pc[y])
    BY <1>2, <1>3, <2>1, <2>2, GoKeepsWork
  <2>4. Work(x).account \in Accounts
    <3>1. x \in Txs \/ x \in {"scan", "operator"}
      BY <2>1, Whose DEF AccountSteps, Procs, TypeOK, Daemon, DaemonLabels
    <3> QED  BY <1>2, <3>1, WorkOK DEF Resting
  <2>5. accountLock'[Work(x).account] = x  BY <2>1, <2>4 DEF LocksOK, TypeOK
  <2>6. Alone(x)  BY <2>1, <2>3 DEF Alone, LocksOK, TypeOK
  <2> HIDE DEF label
  <2> QED  BY <2>2, <2>3, <2>5, <2>6, LocksStay
<1>7. ASSUME ~Leave(x), TakeProject(x) PROVE WorkKnown' /\ (LocksHeld => LocksHeld')
  <2> DEFINE label == ProjectSteps[pc[x]]
  <2>1. /\ Go(x, label) /\ UNCHANGED <<accountLock, local>>
        /\ projectLock[Work(x).project] = None
        /\ projectLock' = [projectLock EXCEPT ![Work(x).project] = x]
        /\ pc[x] \in DOMAIN ProjectSteps
    BY <1>7 DEF TakeProject
  <2>2. /\ label \notin Resting \cup {"request", "next"}
        /\ label \in AccountSteadyLabels => pc[x] \in AccountSteadyLabels
    BY <2>1 DEF ProjectSteps, Resting, AccountSteadyLabels
  <2>3. /\ WorkKnown' /\ pc'[x] = label
        /\ \A y \in Procs : Work(y)' = Work(y) /\ (y # x => pc'[y] = pc[y])
    BY <1>2, <1>3, <2>1, <2>2, GoKeepsWork
  <2>4. Work(x).project \in Projects
    <3>1. x \in Txs \/ x \in {"scan", "operator", "archiver"}
      BY <2>1, Whose DEF ProjectSteps, Procs, TypeOK, Daemon, DaemonLabels
    <3> QED  BY <1>2, <3>1, WorkOK DEF Resting
  <2>5. projectLock'[Work(x).project] = x  BY <2>1, <2>4 DEF LocksOK, TypeOK
  <2>6. Alone(x)  BY <2>1, <2>3 DEF Alone, LocksOK, TypeOK
  <2>7. LocksHeld /\ label \in AccountSteadyLabels => accountLock'[Work(x)'.account] = x
    BY <2>1, <2>2, <2>3 DEF LocksHeld
  <2> HIDE DEF label
  <2> QED  BY <2>3, <2>5, <2>6, <2>7, LocksStay
<1> QED  BY <1>4, <1>6, <1>7

LEMMA LaunchKeeps ==
  ASSUME TypeOK, WorkKnown, NEW t \in Txs, Launch(t)
  PROVE  WorkKnown' /\ (LocksHeld => LocksHeld')
<1>1. t \in Procs  BY DEF Procs
<1>2. ASSUME ~Admit(t), ~Create(t), ~LateFail(t) PROVE WorkKnown' /\ (LocksHeld => LocksHeld')
  BY <1>1, <1>2, LaunchSteady, SteadyKeeps
<1>6. CASE LateFail(t)
  <2>1. pc[t] # "request"  BY <1>6 DEF LateFail, WorkKnown, Pristine
  <2>2. /\ UNCHANGED <<place, pc, locks, local, world>> /\ late' = late \ {t}
        /\ UNCHANGED <<state, incident>> \/ (SetState(t, "failed") /\ Open(t, None))
    BY <1>6 DEF LateFail
  <2>3. Unrequested
    BY <2>1, <2>2 DEF Unrequested, SetState, Open, world, TypeOK, RowsOK
  <2> QED  BY <2>2, <2>3, QuietKeeps
<1>3. CASE Admit(t)
  <2>1. PICK a \in Accounts, p \in Projects :
          place' = [place EXCEPT ![t] = [account |-> a, project |-> p, tx |-> t]]
    BY <1>3 DEF Admit
  <2>2. /\ pc[t] = "request" /\ Go(t, "prepare_account")
        /\ UNCHANGED <<state, incident, locks, late, local, world>>
    BY <1>3 DEF Admit, At
  <2>3. pc'[t] = "prepare_account" /\ \A y \in Procs : y # t => pc'[y] = pc[y]
    BY <1>1, <2>2 DEF Go, ControlOK, TypeOK
  <2>4. /\ place'[t] = [account |-> a, project |-> p, tx |-> t]
        /\ \A u \in Txs : u # t => place'[u] = place[u]
    BY <2>1 DEF RowsOK, TypeOK
  <2>5. at' = at /\ todo' = todo /\ codex' = codex  BY <2>2 DEF local, world
  <2>6. \A u : Requested(u) => u \in Txs /\ u # t /\ place'[u] = place[u] /\ Requested(u)'
    BY <2>2, <2>3, <2>4 DEF Requested, Procs
  <2>7. \A d \in Daemon : d # t /\ pc'[d] = pc[d]  BY <2>3 DEF Procs
  <2>8. WorkKnown'
    <3>1. \A u \in Txs :
            IF pc'[u] = "request"
            THEN Pristine(u)'
            ELSE place'[u].account \in Accounts /\ place'[u].project \in Projects /\ place'[u].tx = u
      BY <2>2, <2>3, <2>4, <2>5 DEF WorkKnown, Pristine, Procs, world
    <3>2. Requested(t)'  BY <2>3 DEF Requested
    <3> QED  BY <2>5, <2>6, <2>7, <3>1 DEF WorkKnown, Daemon
  <2>9. Alone(t)
    <3>1. \A y \in Procs : y # t => Work(y)' = Work(y)  BY <2>4, <2>5 DEF Work
    <3> QED  BY <2>2, <2>3, <3>1 DEF Alone, locks
  <2> QED
    BY <1>1, <2>3, <2>8, <2>9, LocksStay DEF AccountSteadyLabels, ProjectSteadyLabels
<1>4. CASE Create(t) /\ Leave(t)
  <2>1. pc[t] = "create" /\ place' = place  BY <1>4 DEF Create, At
  <2>2. pc'[t] = "gone"  BY <1>1, <1>4 DEF Leave, Go, ControlOK, TypeOK
  <2>3. state' = state \/ SetState(t, "preparing")  BY <1>4 DEF Create
  <2>4. Unrequested
    BY <1>4, <2>1, <2>3 DEF Create, Unrequested, world, SetState, TypeOK, RowsOK
  <2> QED  BY <1>1, <1>4, <2>1, <2>4, SteadyKeeps DEF Steady
<1>5. CASE Create(t) /\ ~Leave(t)
  <2>1. /\ pc[t] = "create" /\ Go(t, "start") /\ Drop({t}) /\ SetState(t, "preparing")
        /\ UNCHANGED <<place, incident, late, local, world>>
    BY <1>5 DEF Create, At
  <2>2. Unrequested  BY <2>1 DEF Unrequested, SetState, TypeOK, RowsOK, world
  <2>3. /\ WorkKnown' /\ pc'[t] = "start"
        /\ \A y \in Procs : Work(y)' = Work(y) /\ (y # t => pc'[y] = pc[y])
    BY <1>1, <2>1, <2>2, GoKeepsWork DEF Resting, Daemon
  <2>4. Alone(t)  BY <2>1, <2>3 DEF Alone, Drop, LocksOK, TypeOK
  <2> QED
    BY <1>1, <2>3, <2>4, LocksStay DEF AccountSteadyLabels, ProjectSteadyLabels
<1> QED  BY <1>2, <1>3, <1>4, <1>5, <1>6

(* A request picks the transaction, the project or the account it is for.  *)
LEMMA PickKeeps ==
  ASSUME TypeOK, WorkKnown, NEW x \in Daemon, NEW label \in Labels(x),
         Go(x, label), pc[x] \in Resting, x = "archiver" => label # "next",
         label \notin AccountSteadyLabels \cup ProjectSteadyLabels,
         UNCHANGED <<rows, late, world>>,
         \A d \in Daemon : d # x => at'[d] = at[d],
         \A t \in Txs : todo'[t] # None => Requested(t),
         x \in {"scan", "operator"} /\ label \notin Resting =>
           \E t \in Txs : Requested(t) /\ at'[x] = place[t],
         x = "archiver" /\ label # "idle" => at'[x].project \in Projects,
         \A a \in Accounts : accountLock'[a] = accountLock[a] \/ accountLock[a] \in {x, None},
         projectLock' = projectLock
  PROVE  WorkKnown' /\ (LocksHeld => LocksHeld')
<1>1. x \in Procs /\ x \notin Txs  BY DEF Procs
<1>2. pc'[x] = label /\ \A y \in Procs : y # x => pc'[y] = pc[y]
  BY <1>1 DEF Go, ControlOK, TypeOK
<1>3. /\ place' = place /\ state' = state /\ incident' = incident /\ late' = late
      /\ codex' = codex /\ latest' = latest
  BY DEF rows, world
<1>4. \A t \in Txs : pc'[t] = pc[t]  BY <1>1, <1>2 DEF Procs
<1>5. \A t : Requested(t) <=> Requested(t)'  BY <1>4 DEF Requested
<1>6. WorkKnown'
  <2>1. \A d \in {"scan", "operator"} :
          pc'[d] \notin Resting => Requested(at[d].tx)' /\ at'[d] = place[at'[d].tx]
    <3>1. ASSUME NEW d \in {"scan", "operator"}, pc'[d] \notin Resting
          PROVE Requested(at[d].tx)' /\ at'[d] = place[at'[d].tx]
      <4>1. d \in Daemon /\ d \in Procs  BY DEF Daemon, Procs
      <4>2. CASE d # x
        BY <1>2, <1>5, <3>1, <4>1, <4>2 DEF WorkKnown, Resting, Requested
      <4>3. CASE d = x
        <5>1. PICK t \in Txs : Requested(t) /\ at'[x] = place[t]  BY <1>2, <3>1, <4>3
        <5>2. place[t].tx = t  BY <5>1 DEF WorkKnown, Requested
        <5> QED  BY <1>5, <4>3, <5>1, <5>2 DEF Requested
      <4> QED  BY <4>2, <4>3
    <3> QED  BY <3>1
  <2>2. pc'["archiver"] # "idle" => at'["archiver"].project \in Projects
    BY <1>2 DEF WorkKnown, Daemon, Procs
  <2>3. \A t \in Txs :
          IF pc'[t] = "request"
          THEN Pristine(t)'
          ELSE place'[t].account \in Accounts /\ place'[t].project \in Projects /\ place'[t].tx = t
    BY <1>3, <1>4 DEF WorkKnown, Pristine
  <2>4. \A t \in Txs : todo'[t] # None => Requested(t)'  BY <1>5
  <2> QED  BY <1>3, <2>1, <2>2, <2>3, <2>4 DEF WorkKnown, Resting
<1>7. Alone(x)
  <2>1. \A y \in Procs : y # x => Work(y)' = Work(y)  BY <1>3 DEF Work, Procs
  <2> QED  BY <1>2, <2>1 DEF Alone
<1> QED  BY <1>1, <1>2, <1>6, <1>7, LocksStay

LEMMA ThreadKeeps ==
  ASSUME TypeOK, WorkKnown, Recovery \/ Requests
  PROVE  WorkKnown' /\ (LocksHeld => LocksHeld')
<1>1. Daemon \subseteq Procs /\ Daemon \cap Txs = {}  BY DEF Procs
<1>2. /\ "scan" \in Daemon /\ "operator" \in Daemon /\ "archiver" \in Daemon /\ "usage" \in Daemon
      /\ \A d \in Daemon : Labels(d) = DaemonLabels[d]
  BY <1>1 DEF Daemon, Labels
<1> USE DEF At, Resting, DaemonLabels, AccountSteadyLabels, ProjectSteadyLabels
<1>3. CASE ScanOrphan \/ ScanPreparing \/ ScanCommit
  BY <1>1, <1>2, <1>3, ThreadSteady, SteadyKeeps
<1>4. CASE ResolveKeeping \/ ResolveEvidence \/ ResolveClose
  BY <1>1, <1>2, <1>4, ThreadSteady, SteadyKeeps
<1>5. CASE ArchiveCheck \/ ArchiveWrite  BY <1>1, <1>2, <1>5, ThreadSteady, SteadyKeeps
<1>6. CASE UsageDone  BY <1>1, <1>2, <1>6, ThreadSteady, SteadyKeeps
<1>7. CASE Scan
  <2>1. /\ Go("scan", "next") /\ pc["scan"] = "idle" /\ at' = at /\ UNCHANGED <<rows, late, world, locks>>
        /\ todo' = [t \in Txs |-> IF Ended(t) THEN None ELSE state[t]]
    BY <1>7 DEF Scan
  <2>2. \A t \in Txs : todo'[t] # None => Requested(t)
    BY <2>1 DEF WorkKnown, Pristine, Requested
  <2>3. "next" \in Labels("scan")  BY <1>2
  <2> QED  BY <1>2, <2>1, <2>2, <2>3, PickKeeps DEF locks
<1>8. CASE ScanNext
  <2>1. UNCHANGED <<rows, late, world, locks, todo>> /\ pc["scan"] = "next"  BY <1>8 DEF ScanNext
  <2>2. \A t \in Txs : todo'[t] # None => Requested(t)  BY <2>1 DEF WorkKnown
  <2>3. CASE Go("scan", "idle") /\ at' = at
    <3>1. "idle" \in Labels("scan")  BY <1>2
    <3> QED  BY <1>2, <2>1, <2>2, <2>3, <3>1, PickKeeps DEF locks
  <2>4. CASE /\ Go("scan", "scan_account")
             /\ \E t \in Txs : todo[t] # None /\ at' = [at EXCEPT !["scan"] = place[t]]
    <3>1. "scan_account" \in Labels("scan")  BY <1>2
    <3>2. PICK t \in Txs : todo[t] # None /\ at' = [at EXCEPT !["scan"] = place[t]]  BY <2>4
    <3>3. Requested(t) /\ at'["scan"] = place[t] /\ \A d \in Daemon : d # "scan" => at'[d] = at[d]
      BY <1>2, <3>2 DEF WorkKnown, ControlOK, TypeOK
    <3> QED  BY <1>2, <2>1, <2>2, <2>4, <3>1, <3>3, PickKeeps DEF locks
  <2> QED  BY <1>8, <2>3, <2>4 DEF ScanNext
<1>9. CASE Resolve
  <2>1. /\ UNCHANGED <<rows, late, world, locks, todo>> /\ pc["operator"] = "idle"
        /\ Go("operator", "op_account")
    BY <1>9 DEF Resolve
  <2>2. PICK t \in Txs : incident[t].open /\ at' = [at EXCEPT !["operator"] = place[t]]
    BY <1>9 DEF Resolve
  <2>3. /\ Requested(t) /\ at'["operator"] = place[t]
        /\ \A d \in Daemon : d # "operator" => at'[d] = at[d]
    BY <1>2, <2>2 DEF WorkKnown, Pristine, NoIncident, Requested, ControlOK, TypeOK
  <2>4. \A u \in Txs : todo'[u] # None => Requested(u)  BY <2>1 DEF WorkKnown
  <2>5. "op_account" \in Labels("operator")  BY <1>2
  <2> QED  BY <1>2, <2>1, <2>3, <2>4, <2>5, PickKeeps DEF locks
<1>10. CASE Archive
  <2>1. /\ UNCHANGED <<rows, late, world, locks, todo>> /\ pc["archiver"] = "idle"
        /\ Go("archiver", "arch_project")
    BY <1>10 DEF Archive
  <2>2. PICK p \in Projects : at' = [at EXCEPT !["archiver"] = [Nowhere EXCEPT !.project = p]]
    BY <1>10 DEF Archive
  <2>3. at'["archiver"].project = p /\ \A d \in Daemon : d # "archiver" => at'[d] = at[d]
    BY <1>2, <2>2 DEF Nowhere, ControlOK, TypeOK
  <2>4. \A u \in Txs : todo'[u] # None => Requested(u)  BY <2>1 DEF WorkKnown
  <2>5. "arch_project" \in Labels("archiver")  BY <1>2
  <2> QED  BY <1>2, <2>1, <2>3, <2>4, <2>5, PickKeeps DEF locks
<1>11. CASE Usage
  <2>1. /\ UNCHANGED <<rows, late, world, projectLock, local>> /\ pc["usage"] = "idle"
        /\ Go("usage", "query")
    BY <1>11 DEF Usage
  <2>2. PICK a \in Accounts :
          accountLock[a] = None /\ accountLock' = [accountLock EXCEPT ![a] = "usage"]
    BY <1>11 DEF Usage
  <2>3. \A b \in Accounts : accountLock'[b] = accountLock[b] \/ accountLock[b] = None
    BY <2>2 DEF LocksOK, TypeOK
  <2>4. at' = at /\ \A u \in Txs : todo'[u] # None => Requested(u)
    BY <2>1 DEF WorkKnown, local
  <2>5. "query" \in Labels("usage")  BY <1>2
  <2> QED  BY <1>2, <2>1, <2>3, <2>4, <2>5, PickKeeps
<1> QED
  BY <1>3, <1>4, <1>5, <1>6, <1>7, <1>8, <1>9, <1>10, <1>11 DEF Recovery, Requests

(* What a crash leaves.                                                    *)
LEMMA KillKeeps ==
  ASSUME TypeOK, WorkKnown, NEW S \in SUBSET Procs, Kill(S),
         \A t \in Txs : codex'[t] \in {codex[t], "exited"} /\ (codex[t] = "none" => codex'[t] = "none")
  PROVE  WorkKnown' /\ (LocksHeld => LocksHeld')
<1>1. /\ pc' = [x \in Procs |-> IF x \notin S \/ pc[x] = "request" THEN pc[x]
                                ELSE IF x \in Txs THEN "gone" ELSE "idle"]
      /\ Drop(S) /\ Forget(S) /\ place' = place /\ state' = state /\ incident' = incident
      /\ late' \subseteq late /\ latest' = latest
      /\ \A t \in Txs : todo'[t] \in {todo[t], None}
  BY DEF Kill, rows, ControlOK, TypeOK
<1>2. \A x \in Procs : pc'[x] = pc[x] \/ (x \in S /\ pc'[x] \in {"gone", "idle"})  BY <1>1
<1>3. \A t \in Txs : (pc'[t] = "request") <=> (pc[t] = "request")  BY <1>1 DEF Procs
<1>4. \A d \in Daemon : pc'[d] # "idle" => pc'[d] = pc[d] /\ at'[d] = at[d]
  <2>1. ASSUME NEW d \in Daemon, pc'[d] # "idle" PROVE pc'[d] = pc[d] /\ at'[d] = at[d]
    <3>1. d \in Procs /\ d \notin Txs  BY DEF Procs
    <3>2. pc[d] # "request"
      BY Whose DEF TypeOK, Daemon, DaemonLabels
    <3>3. d \notin S  BY <1>1, <2>1, <3>1, <3>2
    <3> QED  BY <1>1, <3>1, <3>3 DEF Forget
  <2> QED  BY <2>1
<1>5. WorkKnown'
  <2>1. \A t : Requested(t) => Requested(t)'  BY <1>3 DEF Requested
  <2>2. \A t \in Txs :
          IF pc'[t] = "request"
          THEN Pristine(t)'
          ELSE place'[t].account \in Accounts /\ place'[t].project \in Projects /\ place'[t].tx = t
    BY <1>1, <1>3 DEF WorkKnown, Pristine
  <2>3. \A t \in Txs : todo'[t] # None => Requested(t)'  BY <1>1, <2>1 DEF WorkKnown
  <2> QED  BY <1>1, <1>4, <2>1, <2>2, <2>3 DEF WorkKnown, Daemon
<1>6. ASSUME LocksHeld PROVE LocksHeld'
  <2> SUFFICES ASSUME NEW x \in Procs
               PROVE  /\ pc'[x] \in AccountSteadyLabels => accountLock'[Work(x)'.account] = x
                      /\ pc'[x] \in ProjectSteadyLabels => projectLock'[Work(x)'.project] = x
    BY DEF LocksHeld
  <2>1. CASE x \in S
    <3>1. pc'[x] \in {"request", "gone", "idle"}  BY <1>1, <2>1
    <3> QED  BY <3>1 DEF AccountSteadyLabels, ProjectSteadyLabels
  <2>2. CASE x \notin S
    <3>1. pc'[x] = pc[x] /\ Work(x)' = Work(x)  BY <1>1, <2>2 DEF Forget, Work, Procs
    <3> QED  BY <1>1, <1>6, <2>2, <3>1, SteadyPlaces DEF Drop, LocksHeld, LocksOK, TypeOK
  <2> QED  BY <2>1, <2>2
<1> QED  BY <1>5, <1>6

LEMMA EnvironmentKeeps ==
  ASSUME TypeOK, WorkKnown, Environment
  PROVE  WorkKnown' /\ (LocksHeld => LocksHeld')
<1>1. ASSUME NEW t \in Txs, CodexRefresh(t) \/ CodexExit(t)
      PROVE  WorkKnown' /\ (LocksHeld => LocksHeld')
  <2>1. UNCHANGED <<rows, locks, pc, late, local>>  BY <1>1 DEF CodexRefresh, CodexExit
  <2>2. codex[t] = "alive" /\ \A u \in Txs : u # t => codex'[u] = codex[u] /\ latest'[u] = latest[u]
    BY <1>1 DEF CodexRefresh, CodexExit, TypeOK, WorldOK
  <2>3. pc[t] # "request"  BY <2>2 DEF WorkKnown, Pristine
  <2>4. Unrequested  BY <2>1, <2>2, <2>3 DEF Unrequested, rows
  <2> QED  BY <2>1, <2>4, QuietKeeps DEF rows
<1>5. ASSUME NEW a \in Accounts, RestoreVault(a) PROVE WorkKnown' /\ (LocksHeld => LocksHeld')
  <2>1. UNCHANGED <<rows, locks, pc, late, local, codex>> /\ \E S : GiveUp(S)
    BY <1>5 DEF RestoreVault
  <2>2. Unrequested  BY <2>1 DEF Unrequested, rows, GiveUp
  <2> QED  BY <2>1, <2>2, QuietKeeps DEF rows
<1>2. ASSUME NEW t \in Txs, CrashRunner(t) PROVE WorkKnown' /\ (LocksHeld => LocksHeld')
  <2>1. {t} \in SUBSET Procs /\ Kill({t}) /\ codex' = codex  BY <1>2 DEF CrashRunner, Procs
  <2> QED  BY <2>1, KillKeeps
<1>3. CASE CrashDaemon
  <2> DEFINE S == Daemon \cup {t \in Txs : pc[t] \in LauncherLabels}
  <2>1. S \in SUBSET Procs /\ Kill(S) /\ codex' = codex  BY <1>3 DEF CrashDaemon, Procs
  <2> HIDE DEF S
  <2> QED  BY <2>1, KillKeeps
<1>4. CASE Reboot
  <2>1. Procs \in SUBSET Procs /\ Kill(Procs)  BY <1>4 DEF Reboot
  <2>2. \A t \in Txs : codex'[t] \in {codex[t], "exited"} /\ (codex[t] = "none" => codex'[t] = "none")
    BY <1>4 DEF Reboot
  <2> QED  BY <2>1, <2>2, KillKeeps
<1> QED  BY <1>1, <1>2, <1>3, <1>4, <1>5 DEF Environment

(***************************************************************************)
(* Codex.  It is alive only under the runner that started it, or orphaned. *)
(***************************************************************************)
CodexPlaces == {"record_running", "wait", "gone"}

LEMMA CodexStays ==
  ASSUME CodexKnown, UNCHANGED <<codex, orphans>>, NEW x \in Procs, pc[x] \notin CodexPlaces,
         \A y \in Procs : y # x => pc'[y] = pc[y]
  PROVE  CodexKnown'
BY DEF CodexKnown, CodexPlaces, Procs

LEMMA LaunchCodex ==
  ASSUME TypeOK, CodexKnown, NEW t \in Txs, Launch(t)
  PROVE  CodexKnown'
<1>1. t \in Procs  BY DEF Procs
<1>2. \A y \in Procs : y # t => pc'[y] = pc[y]
  BY <1>1 DEF Launch, Admit, Create, Start, LateFail, Enter, Checkout, Record, Spawn,
              RecordRunning, Wait, Leave, Go, ControlOK, TypeOK
<1>3. ASSUME ~Spawn(t), ~RecordRunning(t), ~Wait(t), ~LateFail(t) PROVE CodexKnown'
  <2>1. pc[t] \notin CodexPlaces
    BY <1>3 DEF Launch, Admit, Create, Start, Enter, Checkout, Record, At, CodexPlaces
  <2>2. UNCHANGED <<codex, orphans>>
    BY <1>3 DEF Launch, Admit, Create, Start, Enter, Checkout, Record, world
  <2> QED  BY <1>1, <1>2, <2>1, <2>2, CodexStays
<1>4. CASE Spawn(t)
  <2>1. CASE codex' = codex
    BY <1>1, <1>2, <1>4, <2>1, CodexStays DEF Spawn, At, CodexPlaces
  <2>2. CASE codex' = [codex EXCEPT ![t] = "alive"] /\ Go(t, "record_running")
    <3>1. pc'[t] = "record_running"  BY <1>1, <2>2 DEF Go, ControlOK, TypeOK
    <3>2. \A u \in Txs : u # t => codex'[u] = codex[u]  BY <2>2 DEF WorldOK, TypeOK
    <3>3. t \notin orphans /\ orphans' = orphans  BY <1>4 DEF Spawn, At, CodexKnown
    <3> QED  BY <1>2, <3>1, <3>2, <3>3 DEF CodexKnown, Procs
  <2> QED  BY <1>4, <2>1, <2>2 DEF Spawn
<1>5. CASE RecordRunning(t)
  <2>1. codex' = codex  BY <1>5 DEF RecordRunning
  <2>2. \/ pc'[t] = "wait" /\ orphans' = orphans
        \/ pc'[t] = "gone" /\ Outlive(t)
    BY <1>1, <1>5 DEF RecordRunning, Leave, Go, ControlOK, TypeOK
  <2>3. t \notin orphans  BY <1>5 DEF RecordRunning, At, CodexKnown
  <2> QED  BY <1>2, <2>1, <2>2, <2>3 DEF CodexKnown, Procs, Outlive
<1>6. CASE Wait(t)
  <2>1. UNCHANGED <<codex, orphans>> /\ codex[t] # "alive"  BY <1>6 DEF Wait, world
  <2>2. t \notin orphans  BY <1>6 DEF Wait, At, CodexKnown
  <2> QED  BY <1>2, <2>1, <2>2 DEF CodexKnown, Procs
<1>7. CASE LateFail(t)  BY <1>7 DEF LateFail, CodexKnown, world
<1> QED  BY <1>3, <1>4, <1>5, <1>6, <1>7

LEMMA OtherCodex ==
  ASSUME TypeOK, CodexKnown,
         \/ \E x \in Procs : TakeAccount(x) \/ TakeProject(x) \/ Commit(x)
                             \/ RemoveRuntime(x) \/ Close(x)
         \/ Recovery \/ Requests
  PROVE  CodexKnown'
<1>1. CASE \E x \in Procs : TakeAccount(x) \/ TakeProject(x) \/ Commit(x)
                            \/ RemoveRuntime(x) \/ Close(x)
  <2>1. PICK x \in Procs : TakeAccount(x) \/ TakeProject(x) \/ Commit(x)
                           \/ RemoveRuntime(x) \/ Close(x)
    BY <1>1
  <2>2. pc[x] \notin CodexPlaces
    BY <2>1, SMTT(40) DEF TakeAccount, TakeProject, Commit, RemoveRuntime, Close, At, CodexPlaces,
                AccountSteps, ProjectSteps
  <2>3. \A y \in Procs : y # x => pc'[y] = pc[y]
    BY <2>1 DEF TakeAccount, TakeProject, Commit, RemoveRuntime, Close, Leave, Abort, Go,
                ControlOK, TypeOK
  <2>4. UNCHANGED <<codex, orphans>>
    BY <2>1 DEF TakeAccount, TakeProject, Commit, RemoveRuntime, Close, world
  <2> QED  BY <2>2, <2>3, <2>4, CodexStays
<1>2. CASE Recovery \/ Requests
  <2>1. UNCHANGED <<codex, orphans>>
    BY <1>2, SMTT(40) DEF Recovery, Requests, Scan, ScanNext, ScanOrphan, ScanPreparing, ScanCommit,
                Resolve, ResolveKeeping, ResolveEvidence, ResolveClose, Archive, ArchiveCheck,
                ArchiveWrite, Usage, UsageDone, world
  <2>2. \A t \in Txs : pc'[t] = pc[t]
    <3>1. ASSUME NEW t \in Txs PROVE pc'[t] = pc[t]
      <4>1. t \in Procs /\ t \notin Daemon  BY DEF Procs
      <4>2. t \notin {"scan", "operator", "archiver", "usage"}  BY <4>1 DEF Daemon
      <4> QED
        BY <1>2, <4>1, <4>2
        DEF Recovery, Requests, Scan, ScanNext, ScanOrphan, ScanPreparing, ScanCommit, Resolve,
            ResolveKeeping, ResolveEvidence, ResolveClose, Archive, ArchiveCheck, ArchiveWrite,
            Usage, UsageDone, Leave, Abort, Go, ControlOK, TypeOK
    <3> QED  BY <3>1
  <2> QED  BY <2>1, <2>2, SMTT(40) DEF CodexKnown
<1> QED  BY <1>1, <1>2

LEMMA EnvironmentCodex ==
  ASSUME TypeOK, CodexKnown, Environment
  PROVE  CodexKnown'
<1>1. ASSUME NEW t \in Txs, CodexRefresh(t) \/ CodexExit(t) PROVE CodexKnown'
  <2>1. \A u \in Txs : codex'[u] = "alive" => codex[u] = "alive"
    BY <1>1 DEF CodexRefresh, CodexExit, TypeOK, WorldOK
  <2> QED  BY <1>1, <2>1 DEF CodexRefresh, CodexExit, CodexKnown
<1>2. ASSUME NEW t \in Txs, CrashRunner(t) PROVE CodexKnown'
  <2>1. /\ codex' = codex /\ pc'[t] = "gone" /\ \A u \in Txs : u # t => pc'[u] = pc[u]
        /\ Outlive(t)
    BY <1>2 DEF CrashRunner, Kill, Supervised, RunnerLabels, Procs
  <2> QED  BY <2>1 DEF CodexKnown, Outlive
<1>3. CASE CrashDaemon
  <2>1. /\ UNCHANGED <<codex, orphans>>
        /\ \A u \in Txs : pc[u] \in CodexPlaces => pc'[u] = pc[u]
    BY <1>3 DEF CrashDaemon, Kill, LauncherLabels, CodexPlaces, Procs
  <2> QED  BY <2>1 DEF CodexKnown, CodexPlaces
<1>4. CASE Reboot
  <2>1. /\ orphans' = orphans
        /\ \A u \in Txs : codex'[u] # "alive" /\ (pc[u] = "gone" => pc'[u] = "gone")
    BY <1>4 DEF Reboot, Kill, Procs
  <2> QED  BY <2>1 DEF CodexKnown
<1>5. ASSUME NEW a \in Accounts, RestoreVault(a) PROVE CodexKnown'
  BY <1>5 DEF RestoreVault, CodexKnown
<1> QED  BY <1>1, <1>2, <1>3, <1>4, <1>5 DEF Environment

(***************************************************************************)
(* The invariant, and what it says of two codex processes.                 *)
(***************************************************************************)
LEMMA StepInv == AdmissionInv /\ [Next]_vars => AdmissionInv'
<1> SUFFICES ASSUME AdmissionInv, [Next]_vars PROVE AdmissionInv'  OBVIOUS
<1>1. TypeOK /\ WorkKnown /\ LocksHeld /\ CodexKnown  BY DEF AdmissionInv
<1>2. CASE Next
  <2>1. TypeOK'  BY <1>1, <1>2, StepType
  <2>2. WorkKnown' /\ LocksHeld'
    <3>1. ASSUME NEW x \in Procs, Commit(x) \/ RemoveRuntime(x) \/ Close(x)
          PROVE WorkKnown' /\ LocksHeld'
      BY <1>1, <3>1, CommitSteady, SteadyKeeps
    <3> QED  BY <1>1, <1>2, <3>1, TakeKeeps, LaunchKeeps, ThreadKeeps, EnvironmentKeeps DEF Next
  <2>3. CodexKnown'  BY <1>1, <1>2, LaunchCodex, OtherCodex, EnvironmentCodex DEF Next
  <2> QED  BY <2>1, <2>2, <2>3 DEF AdmissionInv
<1>3. CASE UNCHANGED vars
  <2>1. UNCHANGED <<rows, files, locks, pc, late, local, world>>  BY <1>3 DEF vars
  <2>2. UNCHANGED <<place, state, incident, pc, at, todo, codex, latest, orphans>>
    BY <2>1 DEF rows, local, world
  <2>3. TypeOK'
    BY <1>1, <2>1, <2>2, SameOK DEF TypeOK, ControlOK
  <2>4. Unrequested  BY <2>1, <2>2 DEF Unrequested
  <2>5. WorkKnown' /\ LocksHeld'  BY <1>1, <2>1, <2>2, <2>4, QuietKeeps
  <2>6. CodexKnown'  BY <1>1, <2>2 DEF CodexKnown
  <2> QED  BY <2>3, <2>5, <2>6 DEF AdmissionInv
<1> QED  BY <1>2, <1>3

(* Types are correct; every process has a place for what it works on, and  *)
(* holds the flocks its step relies on, whoever is killed.                 *)
THEOREM AdmissionInvariance == Spec => []AdmissionInv
BY InitInv, StepInv, PTL DEF Spec

(* Two supervised codex processes never share an account or a project: the *)
(* runner of each of them has both of its flocks.                          *)
THEOREM Exclusion == Spec => []CodexExclusive
<1>1. AdmissionInv => CodexExclusive
  <2> SUFFICES ASSUME AdmissionInv, NEW t \in Txs, NEW u \in Txs, t # u,
                      codex[t] = "alive", codex[u] = "alive", Supervised(t), Supervised(u)
               PROVE  place[t].account # place[u].account /\ place[t].project # place[u].project
    BY DEF CodexExclusive
  <2>1. \A v \in {t, u} : pc[v] \in AccountSteadyLabels \cap ProjectSteadyLabels
    BY DEF AdmissionInv, CodexKnown, Supervised, RunnerLabels, AccountSteadyLabels,
           ProjectSteadyLabels
  <2>2. \A v \in {t, u} :
          accountLock[place[v].account] = v /\ projectLock[place[v].project] = v
    BY <2>1 DEF AdmissionInv, LocksHeld, Work, Procs
  <2> QED  BY <2>2
<1> QED  BY <1>1, AdmissionInvariance, PTL

(***************************************************************************)
(* Ownership.  A step of x clears or fills a Runtime only while x has the  *)
(* lock of the project, or x is an orphaned codex; a transaction that      *)
(* counts does so until its Runtime is clear.                              *)
(***************************************************************************)

(* What accounts for the credential in the Runtime of its project.         *)
Counts(t) == state[t] \notin Terminal \cup {None} \/ incident[t].open

(* Nobody has to account for the Runtime of p.                             *)
Free(p) == runtime[p] = None \/ runtime[p].owner \in orphans

Written(p, t) == runtime[p] # None /\ runtime[p].owner = t /\ place[t].project = p

Acts(x) ==
  /\ \A y \in Procs : y # x => pc'[y] = pc[y] /\ Work(y)' = Work(y)
  /\ \A t \in Txs : place'[t] = place[t] \/ pc[t] = "request"
  /\ orphans \subseteq orphans'
  /\ \A p \in Projects :
       \/ runtime'[p] = runtime[p]
       \/ projectLock[p] = x /\ runtime'[p] = None
       \/ projectLock[p] = x /\ x \in Txs /\ Written(p, x)' /\ Counts(x)'
       \/ \E t \in orphans : Written(p, t)'
  /\ \A t \in Txs : Counts(t) =>
       \/ Counts(t)'
       \/ projectLock[place[t].project] = x /\ Free(place[t].project)'

LEMMA HasProject ==
  ASSUME AdmissionInv, NEW x \in Procs, pc[x] \in ProjectSteadyLabels
  PROVE  Work(x).project \in Projects /\ projectLock[Work(x).project] = x
BY SteadyPlaces DEF AdmissionInv, LocksHeld

(* Moving on, and failing with an incident, change nothing in what counts. *)
LEMMA Continues ==
  ASSUME TypeOK, NEW t \in Txs,
         \/ /\ state' = state \/ \E s \in States \ Terminal : SetState(t, s)
            /\ incident' = incident
         \/ /\ \E e : Open(t, e)
            /\ \A u \in Txs : u # t => state'[u] = state[u]
  PROVE  \A u \in Txs : Counts(u) => Counts(u)'
<1>1. DOMAIN state = Txs /\ DOMAIN incident = Txs  BY DEF TypeOK, RowsOK
<1>2. CASE /\ state' = state \/ \E s \in States \ Terminal : SetState(t, s)
           /\ incident' = incident
  <2>1. \A s \in States \ Terminal : s \notin Terminal \cup {None}  OBVIOUS
  <2> QED  BY <1>1, <1>2, <2>1 DEF SetState, Counts
<1>3. CASE /\ \E e : Open(t, e)
           /\ \A u \in Txs : u # t => state'[u] = state[u]
  <2>1. PICK e : Open(t, e)  BY <1>3
  <2>2. incident'[t].open /\ \A u \in Txs : u # t => incident'[u] = incident[u]
    BY <1>1, <2>1 DEF Open
  <2> QED  BY <1>3, <2>2 DEF Counts
<1> QED  BY <1>2, <1>3

LEMMA FailContinues ==
  ASSUME TypeOK, NEW t \in Txs, FailTx(t)
  PROVE  \A u \in Txs : Counts(u) => Counts(u)'
<1>1. CASE Ended(t)  BY <1>1 DEF FailTx, Counts
<1>2. CASE ~Ended(t)
  <2>1. SetState(t, "failed") /\ Open(t, None)  BY <1>2 DEF FailTx
  <2>2. \A u \in Txs : u # t => state'[u] = state[u]  BY <2>1 DEF SetState, TypeOK, RowsOK
  <2> QED  BY <2>1, <2>2, Continues
<1> QED  BY <1>1, <1>2

(* Only a launch that was requested counts.                                *)
LEMMA CountsRequested ==
  ASSUME WorkKnown, NEW t \in Txs, Counts(t) \/ place[t].project \in Projects
  PROVE  pc[t] # "request"
BY DEF WorkKnown, Pristine, Nowhere, NoIncident, Counts

LEMMA LaunchActs ==
  ASSUME AdmissionInv, NEW t \in Txs, Launch(t)
  PROVE  Acts(t) /\ \A u \in Txs : Counts(u) => Counts(u)'
<1>1. t \in Procs /\ TypeOK /\ WorkKnown  BY DEF Procs, AdmissionInv
<1>2. \A y \in Procs : y # t => pc'[y] = pc[y]
  BY <1>1 DEF Launch, Admit, Create, Start, LateFail, Enter, Checkout, Record, Spawn,
              RecordRunning, Wait, Leave, Go, ControlOK, TypeOK
<1>3. /\ \A u \in Txs : u # t => place'[u] = place[u]
      /\ place'[t] = place[t] \/ pc[t] = "request"
  BY <1>1 DEF Launch, Admit, Create, Start, LateFail, Enter, Checkout, Record, Spawn,
              RecordRunning, Wait, rows, At, RowsOK, TypeOK
<1>4. \A y \in Procs : y # t => Work(y)' = Work(y)
  <2>1. \A d \in Daemon : d # t /\ at'[d] = at[d]
    BY <1>1 DEF Launch, Admit, Create, Start, LateFail, Enter, Checkout, Record, Spawn,
                RecordRunning, Wait, Leave, Forget, local, ControlOK, TypeOK
  <2> QED  BY <1>3, <2>1 DEF Work, Procs
<1>5. orphans \subseteq orphans'
  BY DEF Launch, Admit, Create, Start, LateFail, Enter, Checkout, Record, Spawn, RecordRunning,
         Wait, Outlive, world
<1>6. \A u \in Txs : Counts(u) => Counts(u)'
  <2>1. CASE LateFail(t)
    <3>1. CASE UNCHANGED <<state, incident>>  BY <3>1 DEF Counts
    <3>2. CASE SetState(t, "failed") /\ Open(t, None)
      <4>1. \A u \in Txs : u # t => state'[u] = state[u]
        BY <1>1, <3>2 DEF SetState, TypeOK, RowsOK
      <4> QED  BY <1>1, <3>2, <4>1, Continues
    <3> QED  BY <2>1, <3>1, <3>2 DEF LateFail
  <2>2. CASE ~LateFail(t)
    <3>1. \/ FailTx(t)
          \/ /\ state' = state \/ \E s \in States \ Terminal : SetState(t, s)
             /\ incident' = incident
      BY <2>2 DEF Launch, Admit, Create, Start, Enter, Checkout, Record, Spawn, RecordRunning,
                  Wait, rows, States, Terminal
    <3> QED  BY <1>1, <3>1, Continues, FailContinues
  <2> QED  BY <2>1, <2>2
<1>7. \A p \in Projects : \/ runtime'[p] = runtime[p]
                          \/ projectLock[p] = t /\ Written(p, t)' /\ Counts(t)'
  <2>1. CASE Checkout(t) /\ runtime' # runtime
    <3>1. /\ pc[t] = "checkout" /\ state[t] = "preparing" /\ state' = state /\ place' = place
          /\ runtime' = [runtime EXCEPT ![place[t].project] =
                           [owner |-> t, content |-> vault[place[t].account]]]
      BY <2>1 DEF Checkout, At
    <3>2. projectLock[place[t].project] = t
      BY <1>1, <3>1, HasProject DEF Work, ProjectSteadyLabels, AccountSteadyLabels
    <3>3. place[t].project \in Projects /\ place[t].account \in Accounts
      BY <1>1, <3>1 DEF WorkKnown
    <3>4. vault[place[t].account] \in Contents  BY <1>1, <3>3 DEF FilesOK, TypeOK
    <3>5. PICK r \in Runtimes : r = [owner |-> t, content |-> vault[place[t].account]]
      BY <3>4 DEF Runtimes
    <3>6. /\ runtime'[place[t].project] = r
          /\ \A p \in Projects : p # place[t].project => runtime'[p] = runtime[p]
      BY <1>1, <3>1, <3>3, <3>5 DEF FilesOK, TypeOK
    <3>7. Written(place[t].project, t)'
      BY <3>1, <3>5, <3>6, ContentAssumption DEF Written
    <3>8. Counts(t)'  BY <3>1 DEF Counts, States, Terminal
    <3>9. ASSUME NEW p \in Projects, p = place[t].project
          PROVE  projectLock[p] = t /\ Written(p, t)'
      BY <3>1, <3>2, <3>7, <3>9 DEF Written
    <3> QED  BY <3>6, <3>8, <3>9
  <2>2. CASE ~Checkout(t)
    BY <2>2 DEF Launch, Admit, Create, Start, LateFail, Enter, Record, Spawn, RecordRunning, Wait,
                files
  <2> QED  BY <2>1, <2>2
<1> QED  BY <1>2, <1>3, <1>4, <1>5, <1>6, <1>7 DEF Acts

LEMMA TakeActs ==
  ASSUME AdmissionInv, NEW x \in Procs, TakeAccount(x) \/ TakeProject(x)
  PROVE  /\ Acts(x)
         /\ pc'[x] \notin ProjectSteadyLabels \ {"create", "checkout", "classify", "op_apply",
                                                 "arch_check"}
<1>1. TypeOK  BY DEF AdmissionInv
<1>2. \A y \in Procs : y # x => pc'[y] = pc[y]
  BY <1>1 DEF TakeAccount, TakeProject, Leave, Go, ControlOK, TypeOK
<1>3. \A y \in Procs : y # x => Work(y)' = Work(y)
  BY <1>1 DEF TakeAccount, TakeProject, Leave, Forget, local, Work, ControlOK, TypeOK, rows, Procs
<1>4. pc'[x] \notin ProjectSteadyLabels \ {"create", "checkout", "classify", "op_apply", "arch_check"}
  BY <1>1 DEF TakeAccount, TakeProject, Leave, Go, ControlOK, TypeOK, AccountSteps, ProjectSteps,
              ProjectSteadyLabels, AccountSteadyLabels
<1>5. UNCHANGED <<place, orphans, runtime, state, incident>>
  BY DEF TakeAccount, TakeProject, rows, files, world
<1> QED  BY <1>2, <1>3, <1>4, <1>5 DEF Acts, Counts

(* What a process relies on while it has the locks.                        *)
Own(x) ==
  /\ x \in Txs /\ pc[x] \in HoldingLabels =>
       /\ Counts(x)
       /\ runtime[place[x].project] # None
       /\ runtime[place[x].project].owner \in {x} \cup orphans
  /\ pc[x] \in {"close", "op_close"} => Free(Work(x).project)

LEMMA OwnIs ==
  (\A x \in Procs : Own(x)) <=> HoldersAccounted /\ RuntimeIsOwn /\ ClearedStays
BY DEF Own, HoldersAccounted, RuntimeIsOwn, ClearedStays, Counts, Free, Procs

LEMMA CommitActs ==
  ASSUME AdmissionInv, NEW x \in Procs, Own(x), Commit(x) \/ RemoveRuntime(x) \/ Close(x)
  PROVE  /\ Acts(x) /\ place' = place
         /\ Work(x).tx \in Txs /\ place[Work(x).tx] = Work(x)
         /\ Work(x).project \in Projects /\ (x \in Txs => Work(x).tx = x)
         /\ ~Close(x) => \A t \in Txs : Counts(t) => Counts(t)'
<1>1. TypeOK /\ WorkKnown  BY DEF AdmissionInv
<1>2. pc[x] \in {"commit", "remove", "close"}  BY DEF Commit, RemoveRuntime, Close, At
<1>3. x \in Txs \/ x = "scan"  BY <1>1, <1>2, Whose DEF TypeOK
<1>4. Work(x).tx \in Txs /\ place[Work(x).tx] = Work(x) /\ (x \in Txs => Work(x).tx = x)
  BY <1>1, <1>2, <1>3, WorkOK DEF Work
<1>5. Work(x).project \in Projects /\ projectLock[Work(x).project] = x
  BY <1>2, HasProject DEF ProjectSteadyLabels, AccountSteadyLabels
<1>6. place' = place /\ orphans' = orphans
  BY DEF Commit, RemoveRuntime, Close, rows, world
<1>7. \A y \in Procs : y # x => pc'[y] = pc[y]
  BY <1>1 DEF Commit, RemoveRuntime, Close, Leave, Abort, Go, ControlOK, TypeOK
<1>8. \A y \in Procs : y # x => Work(y)' = Work(y)
  BY <1>1, <1>6 DEF Commit, RemoveRuntime, Close, Leave, Abort, Forget, local, Work, ControlOK,
                    TypeOK, Procs
<1>9. \A p \in Projects : runtime'[p] = runtime[p] \/ (p = Work(x).project /\ runtime'[p] = None)
  BY <1>1 DEF Commit, RemoveRuntime, Close, files, FilesOK, TypeOK
<1>10. ASSUME ~Close(x) PROVE \A t \in Txs : Counts(t) => Counts(t)'
  <2>1. \/ /\ state' = state \/ \E s \in States \ Terminal : SetState(Work(x).tx, s)
           /\ incident' = incident
        \/ /\ SetState(Work(x).tx, "credential_conflict")
           /\ \E e : Open(Work(x).tx, e)
    BY <1>10 DEF Commit, RemoveRuntime, rows, States, Terminal
  <2>2. SetState(Work(x).tx, "credential_conflict")
          => \A u \in Txs : u # Work(x).tx => state'[u] = state[u]
    BY <1>1 DEF SetState, TypeOK, RowsOK
  <2> QED  BY <1>1, <1>4, <2>1, <2>2, Continues
<1>11. \A t \in Txs : Counts(t) =>
         \/ Counts(t)'
         \/ projectLock[place[t].project] = x /\ Free(place[t].project)'
  <2>1. CASE Close(x)
    <3>1. incident' = incident /\ runtime' = runtime /\ pc[x] = "close"
      BY <2>1 DEF Close, At, files
    <3>2. state' = state \/ \E s \in States : SetState(Work(x).tx, s)
      BY <2>1 DEF Close, States
    <3>3. \A t \in Txs : t # Work(x).tx => state'[t] = state[t]
      BY <1>1, <3>2 DEF SetState, RowsOK, TypeOK
    <3>4. PICK p \in Projects : p = Work(x).project  BY <1>5
    <3>5. Free(p)'  BY <1>6, <3>1, <3>4 DEF Own, Free
    <3>6. ASSUME NEW t \in Txs, t = Work(x).tx
          PROVE  projectLock[place[t].project] = x /\ Free(place[t].project)'
      <4>1. place[t].project = p  BY <1>4, <3>4, <3>6
      <4> QED  BY <1>5, <1>6, <3>4, <3>5, <4>1 DEF Free
    <3> QED  BY <3>1, <3>3, <3>6 DEF Counts
  <2> QED  BY <1>10, <2>1
<1> QED  BY <1>4, <1>5, <1>6, <1>7, <1>8, <1>9, <1>10, <1>11 DEF Acts

LEMMA ThreadActs ==
  ASSUME AdmissionInv, \A x \in Procs : Own(x), Recovery \/ Requests
  PROVE  \E d \in Daemon : /\ Acts(d) /\ Own(d)'
                           /\ pc'[d] = "remove" => d = "scan" /\ ScanCommit
<1>1. TypeOK /\ WorkKnown /\ Daemon \cap Txs = {} /\ Daemon \subseteq Procs
  BY DEF AdmissionInv, Procs
<1>2. UNCHANGED <<place, orphans>>
  BY DEF Recovery, Requests, Scan, ScanNext, ScanOrphan, ScanPreparing, ScanCommit, Resolve,
         ResolveKeeping, ResolveEvidence, ResolveClose, Archive, ArchiveCheck, ArchiveWrite, Usage,
         UsageDone, rows, world
<1>3. /\ "scan" \in Daemon /\ "operator" \in Daemon /\ "archiver" \in Daemon /\ "usage" \in Daemon
  BY DEF Daemon
<1>4. ASSUME NEW d \in Daemon, \A e \in Daemon : e # d => at'[e] = at[e]
      PROVE  \A y \in Procs : y # d => Work(y)' = Work(y)
  BY <1>1, <1>2, <1>4 DEF Work, Procs
<1>5. \A d \in Daemon : Work(d) = at[d]  BY <1>1 DEF Work
<1> USE DEF At
<1>6. CASE Recovery
  <2>1. \A y \in Procs : y # "scan" => pc'[y] = pc[y]
    BY <1>1, <1>3, <1>6 DEF Recovery, Scan, ScanNext, ScanOrphan, ScanPreparing, ScanCommit,
                       Leave, Abort, Go, ControlOK, TypeOK
  <2>2. pc'["scan"] \notin {"close", "op_close"} /\ (pc'["scan"] = "remove" => ScanCommit)
    BY <1>1, <1>3, <1>6 DEF Recovery, Scan, ScanNext, ScanOrphan, ScanPreparing, ScanCommit,
                       Leave, Abort, Go, ControlOK, TypeOK
  <2>3. \A e \in Daemon : e # "scan" => at'[e] = at[e]
    BY <1>1, <1>3, <1>6 DEF Recovery, Scan, ScanNext, ScanOrphan, ScanPreparing, ScanCommit,
                       Leave, Abort, Forget, local, ControlOK, TypeOK
  <2>4. Own("scan")'  BY <1>1, <1>3, <2>2 DEF Own
  <2>5. CASE Scan \/ ScanNext
    <3>1. UNCHANGED <<runtime, state, incident>>  BY <2>5 DEF Scan, ScanNext, rows, files
    <3> QED  BY <1>2, <1>3, <1>4, <2>1, <2>2, <2>3, <2>4, <3>1 DEF Acts, Counts
  <2>6. CASE ScanOrphan \/ ScanPreparing \/ ScanCommit
    <3>1. pc["scan"] = "classify"  BY <2>6 DEF ScanOrphan, ScanPreparing, ScanCommit
    <3>2. Row \in Txs /\ place[Row] = at["scan"]
      BY <1>1, <1>3, <3>1 DEF WorkKnown, Requested, Row
    <3>3. projectLock[place[Row].project] = "scan" /\ place[Row].project \in Projects
      BY <1>1, <1>3, <1>5, <3>1, <3>2, HasProject DEF ProjectSteadyLabels, AccountSteadyLabels
    <3>4. \A p \in Projects :
            runtime'[p] = runtime[p] \/ (p = place[Row].project /\ runtime'[p] = None)
      BY <1>1, <2>6 DEF ScanOrphan, ScanPreparing, ScanCommit, files, FilesOK, TypeOK
    <3>5. \A t \in Txs : Counts(t) => Counts(t)' \/ (t = Row /\ runtime'[place[t].project] = None)
      <4>1. CASE ScanOrphan
        <5>1. \E e : Open(Row, e)  BY <4>1 DEF ScanOrphan
        <5>2. \A u \in Txs : u # Row => state'[u] = state[u]
          BY <1>1, <4>1 DEF ScanOrphan, TypeOK, RowsOK
        <5> QED  BY <1>1, <3>2, <5>1, <5>2, Continues
      <4>2. CASE ScanPreparing /\ ~(state[Row] = "preparing" /\ SetState(Row, "recovered"))
        <5>1. (state' = state /\ \E e : Open(Row, e)) \/ FailTx(Row)
          BY <4>2 DEF ScanPreparing
        <5> QED  BY <1>1, <3>2, <5>1, Continues, FailContinues
      <4>3. CASE ScanPreparing /\ state[Row] = "preparing" /\ SetState(Row, "recovered")
        <5>1. runtime' = [runtime EXCEPT ![place[Row].project] = None] /\ incident' = incident
          <6>1. state'[Row] = "recovered"  BY <1>1, <3>2, <4>3 DEF SetState, TypeOK, RowsOK
          <6>2. ASSUME FailTx(Row) PROVE FALSE
            <7>1. ~Ended(Row)  BY <4>3 DEF Ended, Terminal
            <7>2. state'[Row] = "failed"
              BY <1>1, <3>2, <6>2, <7>1 DEF FailTx, SetState, TypeOK, RowsOK
            <7> QED  BY <6>1, <7>2
          <6> QED  BY <4>3, <6>2 DEF ScanPreparing
        <5>2. runtime'[place[Row].project] = None  BY <1>1, <3>3, <5>1 DEF FilesOK, TypeOK
        <5>3. \A u \in Txs : u # Row => state'[u] = state[u]
          BY <4>3, <1>1 DEF SetState, TypeOK, RowsOK
        <5> QED  BY <5>1, <5>2, <5>3 DEF Counts
      <4>4. CASE ScanCommit
        <5>1. "codex_exited" \in States \ Terminal  BY DEF States, Terminal
        <5>2. incident' = incident /\ (state' = state \/ SetState(Row, "codex_exited"))
          BY <4>4 DEF ScanCommit
        <5> QED  BY <1>1, <3>2, <5>1, <5>2, Continues
      <4> QED  BY <2>6, <4>1, <4>2, <4>3, <4>4
    <3>6. \A t \in Txs : Counts(t) =>
            \/ Counts(t)'
            \/ projectLock[place[t].project] = "scan" /\ Free(place[t].project)'
      BY <1>2, <3>3, <3>5 DEF Free
    <3> QED  BY <1>2, <1>3, <1>4, <2>1, <2>2, <2>3, <2>4, <3>3, <3>4, <3>6 DEF Acts
  <2> QED  BY <1>6, <2>5, <2>6 DEF Recovery
<1>7. CASE Resolve \/ ResolveKeeping \/ ResolveEvidence \/ ResolveClose
  <2>1. \A y \in Procs : y # "operator" => pc'[y] = pc[y]
    BY <1>1, <1>3, <1>7 DEF Resolve, ResolveKeeping, ResolveEvidence, ResolveClose, Leave, Go,
                            ControlOK, TypeOK
  <2>2. /\ pc'["operator"] \notin {"close", "remove"}
        /\ Resolve \/ ResolveClose => pc'["operator"] # "op_close"
    BY <1>1, <1>3, <1>7 DEF Resolve, ResolveKeeping, ResolveEvidence, ResolveClose, Leave, Go,
                            ControlOK, TypeOK
  <2>3. \A e \in Daemon : e # "operator" => at'[e] = at[e]
    BY <1>1, <1>3, <1>7 DEF Resolve, ResolveKeeping, ResolveEvidence, ResolveClose, Leave, Forget,
                            local, ControlOK, TypeOK
  <2>4. CASE Resolve
    <3>1. UNCHANGED <<runtime, state, incident>>  BY <2>4 DEF Resolve, rows, files
    <3>2. Own("operator")'  BY <1>1, <1>3, <2>2, <2>4 DEF Own
    <3> QED  BY <1>2, <1>3, <1>4, <2>1, <2>2, <2>3, <3>1, <3>2 DEF Acts, Counts
  <2>5. CASE ResolveKeeping \/ ResolveEvidence \/ ResolveClose
    <3>1. pc["operator"] \in {"op_apply", "op_close"} /\ (ResolveClose => pc["operator"] = "op_close")
      BY <2>5 DEF ResolveKeeping, ResolveEvidence, ResolveClose
    <3>2. PICK t \in Txs : t = at["operator"].tx /\ at["operator"] = place[t]
      BY <1>1, <3>1 DEF WorkKnown, Requested
    <3>3. projectLock[place[t].project] = "operator" /\ place[t].project \in Projects
      <4>1. pc["operator"] \in ProjectSteadyLabels
        BY <3>1 DEF ProjectSteadyLabels, AccountSteadyLabels
      <4>2. Work("operator") = place[t] /\ "operator" \in Procs  BY <1>1, <1>3, <1>5, <3>2
      <4> QED  BY <4>1, <4>2, HasProject
    <3>4. state' = state
      BY <2>5 DEF ResolveKeeping, ResolveEvidence, ResolveClose, rows
    <3>5. CASE ResolveClose
      <4>1. runtime' = runtime /\ \A u \in Txs : u # t => incident'[u] = incident[u]
        BY <1>1, <3>2, <3>5 DEF ResolveClose, files, RowsOK, TypeOK
      <4>2. Free(place[t].project)'
        <5>1. PICK p \in Projects : p = place[t].project  BY <3>3
        <5>2. Free(p)  BY <1>1, <1>3, <1>5, <3>1, <3>2, <3>5, <5>1, ZenonT(60) DEF Own
        <5> QED  BY <1>2, <4>1, <5>1, <5>2 DEF Free
      <4>3. Own("operator")'  BY <1>1, <1>3, <2>2, <3>5 DEF Own
      <4> QED  BY <1>2, <1>3, <1>4, <2>1, <2>2, <2>3, <3>3, <3>4, <4>1, <4>2, <4>3 DEF Acts, Counts
    <3>6. CASE ResolveKeeping \/ ResolveEvidence
      <4>1. \/ Leave("operator") /\ runtime' = runtime
            \/ runtime' = [runtime EXCEPT ![place[t].project] = None] /\ at' = at
        BY <3>2, <3>6 DEF ResolveKeeping, ResolveEvidence, files, local
      <4>2. \A u \in Txs : incident'[u].open = incident[u].open
        <5>1. incident' = incident \/ incident' = [incident EXCEPT ![t].saved = TRUE]
          BY <3>2, <3>6 DEF ResolveKeeping, ResolveEvidence, rows
        <5>2. incident[t] \in Incidents  BY <1>1 DEF RowsOK, TypeOK
        <5> QED  BY <1>1, <5>1, <5>2 DEF RowsOK, Incidents, TypeOK
      <4>3. \A p \in Projects :
              runtime'[p] = runtime[p] \/ (p = place[t].project /\ runtime'[p] = None)
        BY <1>1, <4>1 DEF FilesOK, TypeOK
      <4>4. Own("operator")'
        <5>1. CASE Leave("operator")
          <6>1. pc'["operator"] = "idle"
            BY <1>1, <1>3, <5>1 DEF Leave, Go, ControlOK, TypeOK
          <6> QED  BY <1>1, <1>3, <6>1 DEF Own
        <5>2. CASE runtime' = [runtime EXCEPT ![place[t].project] = None] /\ at' = at
          <6>1. runtime'[place[t].project] = None  BY <1>1, <3>3, <5>2 DEF FilesOK, TypeOK
          <6>2. Work("operator")' = at["operator"]  BY <1>1, <1>3, <5>2 DEF Work
          <6> QED  BY <1>1, <1>3, <3>2, <6>1, <6>2 DEF Own, Free
        <5> QED  BY <4>1, <5>1, <5>2
      <4> QED
        BY <1>2, <1>3, <1>4, <2>1, <2>2, <2>3, <3>3, <3>4, <4>2, <4>3, <4>4 DEF Acts, Counts
    <3> QED  BY <2>5, <3>5, <3>6
  <2> QED  BY <1>7, <2>4, <2>5
<1>8. CASE Archive \/ ArchiveCheck \/ ArchiveWrite
  <2>1. /\ \A y \in Procs : y # "archiver" => pc'[y] = pc[y]
        /\ pc'["archiver"] \notin {"close", "op_close", "remove"}
    BY <1>1, <1>3, <1>8 DEF Archive, ArchiveCheck, ArchiveWrite, Leave, Go, ControlOK, TypeOK
  <2>2. \A e \in Daemon : e # "archiver" => at'[e] = at[e]
    BY <1>1, <1>3, <1>8
    DEF Archive, ArchiveCheck, ArchiveWrite, Leave, Forget, local, ControlOK, TypeOK
  <2>3. UNCHANGED <<state, incident, runtime>>
    BY <1>8 DEF Archive, ArchiveCheck, ArchiveWrite, rows, files
  <2>4. Own("archiver")'  BY <1>1, <1>3, <2>1 DEF Own
  <2> QED  BY <1>2, <1>3, <1>4, <2>1, <2>2, <2>3, <2>4 DEF Acts, Counts
<1>9. CASE Usage \/ UsageDone
  <2>1. /\ \A y \in Procs : y # "usage" => pc'[y] = pc[y]
        /\ pc'["usage"] \notin {"close", "op_close", "remove"}
    BY <1>1, <1>3, <1>9 DEF Usage, UsageDone, Leave, Go, ControlOK, TypeOK
  <2>2. \A e \in Daemon : e # "usage" => at'[e] = at[e]
    BY <1>1, <1>3, <1>9 DEF Usage, UsageDone, Leave, Forget, local, ControlOK, TypeOK
  <2>3. UNCHANGED <<state, incident, runtime>>  BY <1>9 DEF Usage, UsageDone, rows, files
  <2>4. Own("usage")'  BY <1>1, <1>3, <2>1 DEF Own
  <2> QED  BY <1>2, <1>3, <1>4, <2>1, <2>2, <2>3, <2>4 DEF Acts, Counts
<1> QED  BY <1>6, <1>7, <1>8, <1>9 DEF Requests

Owns == (\A x \in Procs : Own(x)) /\ RuntimePlaced /\ RuntimeAccounted

LEMMA OwnershipIs == OwnershipInv <=> AdmissionInv /\ Owns
BY OwnIs DEF OwnershipInv, Owns

(* What another process does leaves one that has the lock in peace.        *)
LEMMA OthersOwn ==
  ASSUME AdmissionInv, NEW x \in Procs, Acts(x), NEW y \in Procs, y # x, Own(y)
  PROVE  Own(y)'
<1>1. pc'[y] = pc[y] /\ Work(y)' = Work(y) /\ orphans \subseteq orphans'  BY DEF Acts
<1>2. y \in Txs => Work(y) = place[y] /\ Work(y)' = place'[y]  BY DEF Work
<1>3. CASE pc[y] \in ProjectSteadyLabels
  <2>1. PICK p \in Projects : p = Work(y).project /\ projectLock[p] = y  BY <1>3, HasProject
  <2>2. \/ runtime'[p] = runtime[p]
        \/ runtime'[p] # None /\ runtime'[p].owner \in orphans
    BY <2>1 DEF Acts, Written
  <2>3. y \in Txs /\ Counts(y) => Counts(y)'  BY <1>2, <2>1 DEF Acts
  <2> QED  BY <1>1, <1>2, <2>1, <2>2, <2>3 DEF Own, Free
<1>4. CASE pc[y] \notin ProjectSteadyLabels
  BY <1>1, <1>4 DEF Own, HoldingLabels, ProjectSteadyLabels, AccountSteadyLabels
<1> QED  BY <1>3, <1>4

LEMMA RuntimeOwner ==
  ASSUME TypeOK, NEW p \in Projects, runtime[p] # None
  PROVE  runtime[p] \in Runtimes /\ runtime[p].owner \in Txs /\ runtime[p].content \in Contents
BY DEF TypeOK, FilesOK, Runtimes

(* A credential that stays stays accounted for.                            *)
LEMMA ActsAccounted ==
  ASSUME AdmissionInv, RuntimePlaced, RuntimeAccounted, NEW x \in Procs, Acts(x)
  PROVE  RuntimePlaced' /\ RuntimeAccounted'
<1>1. TypeOK /\ WorkKnown  BY DEF AdmissionInv
<1>2. RuntimePlaced'
  <2> SUFFICES ASSUME NEW p \in Projects, runtime'[p] # None
               PROVE  place'[runtime'[p].owner].project = p
    BY DEF RuntimePlaced
  <2>1. CASE runtime'[p] = runtime[p]
    <3>1. PICK t \in Txs : t = runtime[p].owner  BY <1>1, <2>1, RuntimeOwner
    <3>2. place[t].project = p  BY <2>1, <3>1 DEF RuntimePlaced
    <3>3. place'[t] = place[t]  BY <1>1, <3>2, CountsRequested DEF Acts
    <3> QED  BY <2>1, <3>1, <3>2, <3>3
  <2>2. CASE \E t : Written(p, t)'  BY <2>2 DEF Written
  <2> QED  BY <2>1, <2>2 DEF Acts
<1>3. RuntimeAccounted'
  <2> SUFFICES ASSUME NEW p \in Projects, runtime'[p] # None, runtime'[p].owner \notin orphans'
               PROVE  \E t \in Txs : place'[t].project = p /\ Counts(t)'
    BY DEF RuntimeAccounted, Active, Blocked, Counts
  <2>1. orphans \subseteq orphans'  BY DEF Acts
  <2>2. CASE runtime'[p] = runtime[p]
    <3>1. PICK t \in Txs : place[t].project = p /\ Counts(t)
      BY <2>1, <2>2 DEF RuntimeAccounted, Active, Blocked, Counts
    <3>2. place'[t] = place[t]  BY <1>1, <3>1, CountsRequested DEF Acts
    <3>3. ~Free(p)'  BY DEF Free
    <3>4. Counts(t)'  BY <3>1, <3>2, <3>3 DEF Acts, Free
    <3> QED  BY <3>1, <3>2, <3>4
  <2>3. CASE x \in Txs /\ Written(p, x)' /\ Counts(x)'  BY <2>3 DEF Written
  <2>4. ASSUME NEW t \in orphans, Written(p, t)' PROVE FALSE  BY <2>1, <2>4 DEF Written
  <2> QED  BY <2>2, <2>3, <2>4 DEF Acts
<1> QED  BY <1>2, <1>3

LEMMA ActsOwn ==
  ASSUME AdmissionInv, Owns, NEW x \in Procs, Acts(x), Own(x)'
  PROVE  Owns'
BY ActsAccounted, OthersOwn DEF Owns

(* Steps that change no Runtime and no row; processes may end.             *)
LEMMA QuietOwn ==
  ASSUME AdmissionInv, Owns, UNCHANGED <<runtime, place, state, incident>>,
         orphans \subseteq orphans',
         \A x \in Procs : \/ pc'[x] = pc[x] /\ Work(x)' = Work(x)
                          \/ pc'[x] \in {"gone", "idle"}
  PROVE  Owns'
<1>1. RuntimePlaced' /\ RuntimeAccounted'
  BY DEF Owns, RuntimePlaced, RuntimeAccounted, Active, Blocked
<1>2. ASSUME NEW x \in Procs PROVE Own(x)'
  <2>1. CASE pc'[x] \in {"gone", "idle"}  BY <2>1 DEF Own, HoldingLabels
  <2>2. CASE pc'[x] = pc[x] /\ Work(x)' = Work(x)
    <3>1. Own(x)  BY DEF Owns
    <3>2. x \in Txs => Counts(x)' = Counts(x)  BY DEF Counts
    <3> QED  BY <2>2, <3>1, <3>2 DEF Own, Free
  <2> QED  BY <2>1, <2>2
<1> QED  BY <1>1, <1>2 DEF Owns

LEMMA LaunchOwn ==
  ASSUME AdmissionInv, NEW t \in Txs, Own(t), Launch(t)
  PROVE  Own(t)'
<1>1. t \in Procs /\ TypeOK /\ WorkKnown  BY DEF Procs, AdmissionInv
<1> USE DEF At
<1>2. CASE Admit(t)
  <2>1. pc'[t] = "prepare_account"  BY <1>1, <1>2 DEF Admit, Go, ControlOK, TypeOK
  <2> QED  BY <2>1 DEF Own, HoldingLabels
<1>3. CASE Checkout(t)
  <2>1. CASE Leave(t)
    <3>1. pc'[t] = "gone"  BY <1>1, <2>1 DEF Leave, Go, ControlOK, TypeOK
    <3> QED  BY <3>1 DEF Own, HoldingLabels
  <2>2. CASE ~Leave(t)
    <3>1. /\ runtime' = [runtime EXCEPT ![place[t].project] =
                           [owner |-> t, content |-> vault[place[t].account]]]
          /\ UNCHANGED <<place, state>> /\ Go(t, "record") /\ state[t] = "preparing"
      BY <1>3, <2>2 DEF Checkout
    <3>2. PICK p \in Projects, a \in Accounts : p = place[t].project /\ a = place[t].account
      BY <1>1, <1>3 DEF Checkout, WorkKnown
    <3>3. vault[a] \in Contents  BY <1>1 DEF FilesOK, TypeOK
    <3>4. PICK r \in Runtimes : r = [owner |-> t, content |-> vault[a]]  BY <3>3 DEF Runtimes
    <3>5. runtime'[p] = r /\ r # None /\ r.owner = t
      BY <1>1, <3>1, <3>2, <3>4, ContentAssumption DEF FilesOK, TypeOK
    <3>6. pc'[t] = "record"  BY <1>1, <3>1 DEF Go, ControlOK, TypeOK
    <3>7. Counts(t)'  BY <3>1 DEF Counts, States, Terminal
    <3> QED  BY <3>1, <3>2, <3>5, <3>6, <3>7 DEF Own
  <2> QED  BY <2>1, <2>2
<1>4. CASE ~Admit(t) /\ ~Checkout(t)
  <2>1. UNCHANGED <<runtime, place>>
    BY <1>4 DEF Launch, Create, Start, LateFail, Enter, Record, Spawn, RecordRunning, Wait, rows,
                files
  <2>2. orphans \subseteq orphans' /\ (Counts(t) => Counts(t)')  BY LaunchActs DEF Acts
  <2>3. /\ pc'[t] \in HoldingLabels => pc[t] \in HoldingLabels
        /\ pc'[t] \in {"close", "op_close"} => pc'[t] = pc[t]
    BY <1>1, <1>4 DEF Launch, Create, Start, LateFail, Enter, Record, Spawn, RecordRunning, Wait,
                      Leave, Go, ControlOK, TypeOK, HoldingLabels
  <2>4. Work(t) = place[t] /\ Work(t)' = place'[t]  BY DEF Work
  <2> QED  BY <2>1, <2>2, <2>3, <2>4 DEF Own, Free
<1> QED  BY <1>2, <1>3, <1>4

LEMMA CommitOwn ==
  ASSUME AdmissionInv, NEW x \in Procs, Own(x), Commit(x) \/ RemoveRuntime(x) \/ Close(x)
  PROVE  Own(x)'
<1>1. TypeOK  BY DEF AdmissionInv
<1>2. /\ place' = place /\ Work(x).project \in Projects /\ orphans \subseteq orphans'
      /\ x \in Txs => Work(x) = place[x]
      /\ ~Close(x) => \A t \in Txs : Counts(t) => Counts(t)'
  BY CommitActs DEF Acts, Work
<1> USE DEF At
<1>3. CASE pc'[x] \in {"gone", "idle", "next"}  BY <1>3 DEF Own, HoldingLabels
<1>4. CASE Commit(x) /\ ~Leave(x) /\ ~Abort(x)
  <2>1. pc'[x] = "remove" /\ runtime' = runtime /\ pc[x] = "commit" /\ ~Close(x)
    BY <1>1, <1>4 DEF Commit, Close, Go, ControlOK, TypeOK
  <2> QED  BY <1>2, <2>1 DEF Own, HoldingLabels
<1>5. CASE RemoveRuntime(x)
  <2>1. /\ pc'[x] = "close" /\ runtime'[Work(x).project] = None /\ at' = at
    BY <1>1, <1>2, <1>5 DEF RemoveRuntime, Go, ControlOK, FilesOK, TypeOK, local
  <2>2. Work(x)' = Work(x)  BY <1>2, <2>1 DEF Work
  <2> QED  BY <2>1, <2>2 DEF Own, Free, HoldingLabels
<1>6. Leave(x) \/ Abort(x) => pc'[x] \in {"gone", "idle", "next"}
  BY <1>1 DEF Leave, Abort, Go, ControlOK, TypeOK
<1> QED  BY <1>3, <1>4, <1>5, <1>6 DEF Close

(* Codex writes to the Runtime of its project under the lock of its        *)
(* runner, or as an orphan.                                                *)
LEMMA CodexActs ==
  ASSUME AdmissionInv, Owns, NEW t \in Txs, CodexRefresh(t)
  PROVE  Acts(t) /\ Own(t)'
<1>1. t \in Procs /\ TypeOK /\ WorkKnown  BY DEF AdmissionInv, Procs
<1>2. UNCHANGED <<place, state, incident, pc, at, orphans>>  BY DEF CodexRefresh, rows, local
<1>3. \A y \in Procs : pc'[y] = pc[y] /\ Work(y)' = Work(y)  BY <1>2 DEF Work
<1>4. t \in orphans \/ pc[t] \in {"record_running", "wait"}
  BY DEF CodexRefresh, AdmissionInv, CodexKnown
<1>5. pc[t] # "request"  BY <1>4 DEF AdmissionInv, CodexKnown
<1>6. PICK p \in Projects, a \in Accounts : p = place[t].project /\ a = place[t].account
  BY <1>1, <1>5 DEF WorkKnown
<1>7. Issued(a) \in Contents  BY <1>1 DEF CodexRefresh, Issued, Contents, WorldOK, TypeOK
<1>8. PICK r \in Runtimes : r = [owner |-> t, content |-> Issued(a)]  BY <1>7 DEF Runtimes
<1>9. runtime' = [runtime EXCEPT ![p] = r] /\ r # None /\ r.owner = t
  BY <1>6, <1>8, ContentAssumption DEF CodexRefresh
<1>10. runtime'[p] = r /\ \A q \in Projects : q # p => runtime'[q] = runtime[q]
  BY <1>1, <1>9 DEF FilesOK, TypeOK
<1>11. Written(p, t)'  BY <1>2, <1>6, <1>9, <1>10 DEF Written
<1>12. ASSUME t \notin orphans PROVE Counts(t)' /\ projectLock[p] = t
  <2>1. pc[t] \in HoldingLabels \cap ProjectSteadyLabels
    BY <1>4, <1>12 DEF HoldingLabels, ProjectSteadyLabels, AccountSteadyLabels
  <2>2. Counts(t)  BY <1>1, <2>1 DEF Owns, Own
  <2> QED  BY <1>1, <1>2, <1>6, <2>1, <2>2, HasProject DEF Counts, Work
<1>13. Acts(t)
  <2>1. \A u \in Txs : Counts(u) => Counts(u)'  BY <1>2 DEF Counts
  <2>2. \A q \in Projects :
          \/ runtime'[q] = runtime[q]
          \/ q = p /\ Written(p, t)' /\ (t \in orphans \/ (Counts(t)' /\ projectLock[p] = t))
    BY <1>10, <1>11, <1>12
  <2> QED  BY <1>2, <1>3, <2>1, <2>2 DEF Acts
<1>14. Own(t)'
  <2>1. Own(t)  BY <1>1 DEF Owns
  <2>2. pc'[t] \notin {"close", "op_close"}  BY <1>2, <1>4 DEF AdmissionInv, CodexKnown
  <2>3. Counts(t) => Counts(t)'  BY <1>2 DEF Counts
  <2> QED  BY <1>2, <1>6, <1>9, <1>10, <2>1, <2>2, <2>3 DEF Own
<1> QED  BY <1>13, <1>14

LEMMA KillOwn ==
  ASSUME AdmissionInv, Owns, NEW S, Kill(S), orphans \subseteq orphans'
  PROVE  Owns'
<1>1. UNCHANGED <<runtime, place, state, incident>>  BY DEF Kill, rows, files
<1>2. ASSUME NEW x \in Procs
      PROVE  \/ pc'[x] = pc[x] /\ Work(x)' = Work(x)
             \/ pc'[x] \in {"gone", "idle"}
  <2>1. x \in S => pc'[x] \in {"gone", "idle"} \/ (x \in Txs /\ pc'[x] = pc[x])
    BY Whose DEF Kill, AdmissionInv, TypeOK, Daemon, DaemonLabels, Procs
  <2>2. x \in Txs => Work(x)' = Work(x)  BY <1>1 DEF Work
  <2>3. x \notin S => pc'[x] = pc[x] /\ Work(x)' = Work(x)
    BY <1>1 DEF Kill, Forget, Work, Procs
  <2> QED  BY <2>1, <2>2, <2>3
<1> QED  BY <1>1, <1>2, QuietOwn

LEMMA EnvironmentOwn ==
  ASSUME AdmissionInv, Owns, Environment
  PROVE  Owns'
<1>1. ASSUME UNCHANGED <<runtime, place, state, incident, pc, at, orphans>> PROVE Owns'
  BY <1>1, QuietOwn DEF Work
<1>2. ASSUME NEW t \in Txs, CodexExit(t) PROVE Owns'
  BY <1>1, <1>2 DEF CodexExit, rows, files, local
<1>3. ASSUME NEW a \in Accounts, RestoreVault(a) PROVE Owns'
  BY <1>1, <1>3 DEF RestoreVault, rows, local
<1>4. ASSUME NEW t \in Txs, CrashRunner(t) PROVE Owns'
  BY <1>4, KillOwn DEF CrashRunner, Outlive
<1>5. CASE CrashDaemon \/ Reboot  BY <1>5, KillOwn DEF CrashDaemon, Reboot
<1>6. ASSUME NEW t \in Txs, CodexRefresh(t) PROVE Owns'
  BY <1>6, CodexActs, ActsOwn DEF Procs
<1> QED  BY <1>2, <1>3, <1>4, <1>5, <1>6 DEF Environment

LEMMA InitOwnership == Init => OwnershipInv
<1> SUFFICES ASSUME Init PROVE OwnershipInv  OBVIOUS
<1>1. \A x \in Procs : pc[x] \in {"request", "idle"}  BY DEF Init
<1>2. \A p \in Projects : runtime[p] = None  BY DEF Init
<1>3. Owns  BY <1>1, <1>2 DEF Owns, Own, HoldingLabels, RuntimePlaced, RuntimeAccounted
<1> QED  BY <1>3, InitInv, OwnershipIs

LEMMA StepOwnership == OwnershipInv /\ [Next]_vars => OwnershipInv'
<1> SUFFICES ASSUME OwnershipInv, [Next]_vars PROVE OwnershipInv'  OBVIOUS
<1>1. AdmissionInv /\ Owns /\ \A x \in Procs : Own(x)  BY OwnershipIs DEF Owns
<1>2. AdmissionInv'  BY <1>1, StepInv
<1>3. ASSUME Next PROVE Owns'
  <2>1. ASSUME NEW t \in Txs, Launch(t) PROVE Owns'
    BY <1>1, <2>1, LaunchActs, LaunchOwn, ActsOwn DEF Procs
  <2>2. ASSUME NEW x \in Procs, TakeAccount(x) \/ TakeProject(x) PROVE Owns'
    <3>1. pc'[x] \notin HoldingLabels \cup {"close", "op_close"}
      BY <1>1, <2>2, TakeActs DEF HoldingLabels, ProjectSteadyLabels, AccountSteadyLabels
    <3>2. Own(x)'  BY <3>1 DEF Own
    <3> QED  BY <1>1, <2>2, <3>2, TakeActs, ActsOwn
  <2>3. ASSUME NEW x \in Procs, Commit(x) \/ RemoveRuntime(x) \/ Close(x) PROVE Owns'
    BY <1>1, <2>3, CommitActs, CommitOwn, ActsOwn
  <2>4. CASE Recovery \/ Requests
    BY <1>1, <2>4, ThreadActs, ActsOwn DEF Procs
  <2> QED  BY <1>1, <1>3, <2>1, <2>2, <2>3, <2>4, EnvironmentOwn DEF Next
<1>4. ASSUME UNCHANGED vars PROVE Owns'
  <2>1. UNCHANGED <<runtime, place, state, incident, pc, at, orphans>>
    BY <1>4 DEF vars, rows, files, local, world
  <2> QED  BY <1>1, <2>1, QuietOwn DEF Work
<1>5. Owns'  BY <1>3, <1>4
<1> QED  BY <1>2, <1>5, OwnershipIs, PTL

(* A launch that has checked out finds its own credential in the Runtime   *)
(* until it removes it, unless a codex that outlived its runner wrote to   *)
(* it.                                                                     *)
THEOREM RuntimeOwned == Spec => []RuntimeIsOwn
<1>1. OwnershipInv => RuntimeIsOwn  BY DEF OwnershipInv
<1> QED  BY <1>1, InitOwnership, StepOwnership, PTL DEF Spec

(* No credential is left in a Runtime without a transaction that recovery  *)
(* visits or an incident that can be resolved, but what a codex that       *)
(* outlived its runner wrote.                                              *)
THEOREM RuntimeAccountedFor == Spec => []RuntimeAccounted
<1>1. OwnershipInv => RuntimeAccounted  BY DEF OwnershipInv
<1> QED  BY <1>1, InitOwnership, StepOwnership, PTL DEF Spec

(***************************************************************************)
(* What codex wrote.  A content that was in a Vault is never lost, and a   *)
(* Runtime gives up another one only to a Vault, to recovery/, to an       *)
(* operator who drops it, or to a codex that outlived its runner.          *)
(***************************************************************************)
Stores == BaseSafe /\ RuntimeSafe /\ LatestFresh /\ RefreshesKept

LEMMA KeptIs == KeptInv <=> OwnershipInv /\ Stores /\ RemoveSafe /\ AllFresh
BY DEF KeptInv, Stores

(* What is safe stays safe.                                                *)
KeepsSafe == \A c \in Contents : Safe(c) /\ Fresh(c) => Safe(c)'

(* No content of a Vault is overwritten without a copy, but on purpose.    *)
Preserves ==
  /\ kept \subseteq kept'
  /\ \A a \in Accounts : \/ vault'[a] = vault[a] \/ vault[a] \in kept'
                         \/ \A t \in Txs : latest'[t] # vault[a]
  /\ \A t \in Txs : latest'[t] \in {latest[t], None}
  /\ orphans \subseteq orphans'
  /\ \A t \in Txs : place'[t] = place[t] \/ pc[t] = "request"

LEMMA SafeStays ==
  ASSUME Preserves, NEW c \in Contents, Safe(c)
  PROVE  Safe(c)'
BY ContentAssumption DEF Preserves, Safe

LEMMA HauntedStays ==
  ASSUME AdmissionInv, orphans \subseteq orphans', NEW p, Haunted(p),
         \A t \in Txs : place'[t] = place[t] \/ pc[t] = "request"
  PROVE  Haunted(p)'
<1>1. PICK u \in orphans : place[u].project = p  BY DEF Haunted
<1>2. u \in Txs /\ pc[u] = "gone"
  BY DEF AdmissionInv, TypeOK, WorldOK, CodexKnown
<1> QED  BY <1>1, <1>2 DEF Haunted

LEMMA StoresStay ==
  ASSUME AdmissionInv, RuntimePlaced, Stores, Preserves,
         left' = left \/ left'.refresh + left'.restore =< left.refresh + left.restore,
         left'.refresh \in Nat, left'.restore \in Nat,
         \A t \in Txs : base'[t] = base[t] \/ \E a \in Accounts : base'[t] = vault'[a],
         \A p \in Projects :
           \/ runtime'[p] = runtime[p]
           \/ /\ runtime'[p] = None \/ \E a \in Accounts : runtime'[p].content = vault'[a]
              /\ \/ runtime[p] = None \/ Safe(runtime[p].content) \/ runtime[p].content \in kept'
                 \/ Haunted(p) \/ \A t \in Txs : latest'[t] # runtime[p].content
  PROVE  Stores'
<1>1. TypeOK /\ WorkKnown  BY DEF AdmissionInv
<1>2. BaseSafe'
  <2>1. ASSUME NEW t \in Txs, base'[t] # None PROVE Safe(base[t])'
    <3>1. CASE \E a \in Accounts : base'[t] = vault'[a]  BY <3>1 DEF Safe
    <3>2. CASE base'[t] = base[t]
      <4>1. PICK c \in Contents : c = base[t]  BY <1>1, <2>1, <3>2 DEF TypeOK, RowsOK
      <4>2. Safe(c)'  BY <2>1, <3>2, <4>1, SafeStays DEF Stores, BaseSafe
      <4> QED  BY <3>2, <4>1, <4>2 DEF Safe
    <3> QED  BY <3>1, <3>2
  <2> QED  BY <2>1 DEF BaseSafe
<1>3. LatestFresh'
  <2> SUFFICES ASSUME NEW t \in Txs, latest'[t] # None
               PROVE  /\ latest'[t].n > left'.refresh + left'.restore
                      /\ \A u \in Txs : latest'[u] = latest'[t] => u = t
    BY DEF LatestFresh
  <2>1. latest'[t] = latest[t] /\ latest[t] \in Contents
    BY <1>1 DEF Preserves, TypeOK, WorldOK
  <2>2. latest[t].n > left.refresh + left.restore /\ latest[t].n \in Nat
    BY <2>1, LimitAssumption DEF Stores, LatestFresh, Contents
  <2>3. left.refresh \in Nat /\ left.restore \in Nat  BY <1>1 DEF TypeOK, WorldOK
  <2>4. \A u \in Txs : latest'[u] = latest'[t] => u = t
    BY <2>1 DEF Stores, LatestFresh, Preserves
  <2> QED  BY <2>1, <2>2, <2>3, <2>4
<1>4. RuntimeSafe'
  <2> SUFFICES ASSUME NEW p \in Projects, runtime'[p] # None
               PROVE  Safe(runtime[p].content)' \/ latest'[runtime'[p].owner] = runtime'[p].content
    BY DEF RuntimeSafe
  <2>1. CASE \E a \in Accounts : runtime'[p].content = vault'[a]  BY <2>1 DEF Safe
  <2>2. CASE runtime'[p] = runtime[p]
    <3>1. PICK c \in Contents, o \in Txs : c = runtime[p].content /\ o = runtime[p].owner
      BY <1>1, <2>2, RuntimeOwner
    <3>2. CASE Safe(c)
      <4>1. Safe(c)'  BY <3>2, SafeStays
      <4> QED  BY <2>2, <3>1, <4>1 DEF Safe
    <3>3. CASE latest[o] = c /\ latest'[o] # c
      <4>1. \A t \in Txs : latest'[t] # c
        BY <3>3, ContentAssumption DEF Stores, LatestFresh, Preserves
      <4> QED  BY <2>2, <3>1, <4>1 DEF Safe
    <3>4. CASE latest'[o] = c  BY <2>2, <3>1, <3>4
    <3> QED  BY <2>2, <3>1, <3>2, <3>3, <3>4 DEF Stores, RuntimeSafe
  <2> QED  BY <2>1, <2>2
<1>5. RefreshesKept'
  <2> SUFFICES ASSUME NEW t \in Txs, latest'[t] # None, ~Haunted(place[t].project)'
               PROVE  \/ \E a \in Accounts : vault'[a] = latest'[t]
                      \/ \E p \in Projects : Content(p)' = latest'[t]
                      \/ latest'[t] \in kept'
    BY DEF RefreshesKept
  <2>1. PICK c \in Contents : c = latest[t] /\ c = latest'[t]
    BY <1>1 DEF Preserves, TypeOK, WorldOK
  <2>2. c # None  BY ContentAssumption
  <2>3. place'[t] = place[t]  BY <1>1, <2>1, <2>2 DEF Preserves, WorkKnown, Pristine
  <2>4. PICK q : q = place[t].project  OBVIOUS
  <2>5. ~Haunted(q)' /\ ~Haunted(q)
    <3>1. ~Haunted(q)'  BY <2>3, <2>4 DEF Haunted
    <3> QED  BY <3>1, HauntedStays DEF Preserves
  <2>6. Safe(c)' => c \in kept' \/ \E a \in Accounts : vault'[a] = c
    BY <2>1 DEF Safe
  <2>7. CASE Safe(c)  BY <2>1, <2>6, <2>7, SafeStays
  <2>8. CASE ~Safe(c)
    <3>1. PICK p \in Projects : runtime[p] # None /\ runtime[p].content = c
      BY <2>1, <2>2, <2>4, <2>5, <2>8, ZenonT(60) DEF Stores, RefreshesKept, Safe, Content
    <3>2. PICK o \in Txs : o = runtime[p].owner  BY <1>1, <3>1, RuntimeOwner
    <3>3. latest[o] = c  BY <2>8, <3>1, <3>2 DEF Stores, RuntimeSafe
    <3>4. o = t
      <4>1. latest[t] # None /\ latest[o] = latest[t]  BY <2>1, <2>2, <3>3
      <4> QED  BY <4>1 DEF Stores, LatestFresh
    <3>5. p = q  BY <2>4, <3>1, <3>2, <3>4 DEF RuntimePlaced
    <3>6. runtime'[p] = runtime[p] \/ c \in kept'
      BY <2>1, <2>5, <2>8, <3>1, <3>5
    <3> QED  BY <2>1, <3>1, <3>6 DEF Content
  <2> QED  BY <2>7, <2>8
<1> QED  BY <1>2, <1>3, <1>4, <1>5 DEF Stores

(* Every step but what hands out a new credential copies what there was.   *)
LEMMA FreshStays ==
  ASSUME left' = left, AllFresh,
         \A a \in Accounts : Fresh(vault'[a]),
         \A p \in Projects : runtime'[p] = runtime[p] \/ runtime'[p] = None
                             \/ Fresh(runtime'[p].content),
         \A t \in Txs : Fresh(base'[t]) /\ Fresh(incident'[t].evidence)
  PROVE  AllFresh'
<1>1. \A p \in Projects : Fresh(Content(p)')  BY DEF AllFresh, Fresh, Content
<1> QED  BY <1>1 DEF AllFresh, Fresh

LEMMA OpenFresh ==
  ASSUME TypeOK, AllFresh, NEW t \in Txs, NEW e, Fresh(e),
         incident' = incident \/ Open(t, e)
  PROVE  \A u \in Txs : Fresh(incident'[u].evidence)
<1>1. CASE Open(t, e)
  <2>1. /\ incident'[t] \in {incident[t], [open |-> TRUE, evidence |-> e, saved |-> FALSE]}
        /\ \A u \in Txs : u # t => incident'[u] = incident[u]
    BY <1>1 DEF Open, TypeOK, RowsOK
  <2>2. incident'[t].evidence \in {incident[t].evidence, e}  BY <2>1
  <2> QED  BY <2>1, <2>2 DEF AllFresh
<1>2. CASE incident' = incident  BY <1>2 DEF AllFresh
<1> QED  BY <1>1, <1>2

(* What a process is about to remove.                                      *)
Removes(x) == pc[x] = "remove" /\ ~Haunted(Work(x).project) =>
  runtime[Work(x).project] = None \/ Safe(runtime[Work(x).project].content)

LEMMA ContentStays ==
  ASSUME AdmissionInv, AllFresh, KeepsSafe, NEW p \in Projects, runtime'[p] = runtime[p],
         runtime[p] = None \/ Safe(runtime[p].content)
  PROVE  runtime'[p] = None \/ Safe(runtime[p].content)'
<1>1. CASE runtime[p] = None  BY <1>1
<1>2. CASE runtime[p] # None
  <2>1. PICK c \in Contents : c = runtime[p].content
    BY <1>2, RuntimeOwner DEF AdmissionInv
  <2>2. Fresh(c)  BY <1>2, <2>1 DEF AllFresh, Content
  <2>3. Safe(c)'  BY <1>2, <2>1, <2>2 DEF KeepsSafe
  <2> QED  BY <2>1, <2>3 DEF Safe
<1> QED  BY <1>1, <1>2

LEMMA SteadyRemove ==
  ASSUME AdmissionInv, AllFresh, KeepsSafe, NEW y \in Procs, Removes(y),
         pc[y] = "remove" => \/ runtime'[Work(y).project] = runtime[Work(y).project]
                             \/ Haunted(Work(y).project)',
         pc'[y] = "remove" => pc[y] = "remove" /\ Work(y)' = Work(y),
         orphans \subseteq orphans', \A t \in Txs : place'[t] = place[t] \/ pc[t] = "request"
  PROVE  Removes(y)'
<1> SUFFICES ASSUME pc'[y] = "remove", ~Haunted(Work(y).project)'
             PROVE  runtime'[Work(y)'.project] = None \/ Safe(runtime[Work(y).project].content)'
  BY DEF Removes
<1>1. PICK p \in Projects : p = Work(y).project /\ p = Work(y)'.project
  BY HasProject DEF ProjectSteadyLabels, AccountSteadyLabels
<1>2. ~Haunted(p)'  BY <1>1 DEF Haunted
<1>3. ~Haunted(p)  BY <1>2, HauntedStays
<1>4. runtime'[p] = runtime[p]
  <2>1. Haunted(Work(y).project)' <=> Haunted(p)'  BY <1>1 DEF Haunted
  <2> QED  BY <1>1, <1>2, <2>1
<1>5. runtime[p] = None \/ Safe(runtime[p].content)  BY <1>1, <1>3 DEF Removes
<1>6. runtime'[p] = None \/ Safe(runtime[p].content)'  BY <1>4, <1>5, ContentStays
<1> QED  BY <1>1, <1>6 DEF Safe

LEMMA OthersRemove ==
  ASSUME AdmissionInv, AllFresh, KeepsSafe, NEW x \in Procs, Acts(x), NEW y \in Procs, y # x,
         Removes(y)
  PROVE  Removes(y)'
<1>1. CASE pc[y] = "remove"
  <2>1. PICK p \in Projects : p = Work(y).project /\ projectLock[p] = y
    BY <1>1, HasProject DEF ProjectSteadyLabels, AccountSteadyLabels
  <2>2. runtime'[p] = runtime[p] \/ \E t \in orphans : Written(p, t)'  BY <2>1 DEF Acts
  <2>3. orphans \subseteq orphans'  BY DEF Acts
  <2>4. (\E t \in orphans : Written(p, t)') => Haunted(p)'  BY <2>3 DEF Written, Haunted
  <2>5. Work(y)' = Work(y) /\ pc'[y] = pc[y]  BY DEF Acts
  <2>6. runtime'[Work(y).project] = runtime[Work(y).project] \/ Haunted(Work(y).project)'
    BY <2>1, <2>2, <2>4, <2>5 DEF Haunted
  <2> QED  BY <2>5, <2>6, SteadyRemove DEF Acts
<1>2. CASE pc[y] # "remove"  BY <1>2 DEF Acts, Removes
<1> QED  BY <1>1, <1>2

(* Steps that touch neither files nor what the history tells of them.      *)
LEMMA QuietStores ==
  ASSUME OwnershipInv, Stores, AllFresh, UNCHANGED <<vault, runtime, kept, base, latest, left>>,
         orphans \subseteq orphans', \A t \in Txs : place'[t] = place[t] \/ pc[t] = "request",
         \A t \in Txs : Fresh(incident'[t].evidence)
  PROVE  Stores' /\ AllFresh' /\ Preserves
<1>1. TypeOK /\ AdmissionInv /\ RuntimePlaced  BY DEF OwnershipInv, AdmissionInv
<1>2. Preserves  BY DEF Preserves
<1>3. left.refresh \in Nat /\ left.restore \in Nat  BY <1>1 DEF TypeOK, WorldOK
<1>4. Stores'  BY <1>1, <1>2, <1>3, StoresStay
<1>5. AllFresh'
  <2>1. /\ \A a \in Accounts : Fresh(vault'[a])
        /\ \A t \in Txs : Fresh(base'[t])
    BY DEF AllFresh
  <2> QED  BY <2>1, FreshStays
<1> QED  BY <1>2, <1>4, <1>5

LEMMA NoneFresh == Fresh(None)
BY DEF Fresh

LEMMA LaunchStores ==
  ASSUME OwnershipInv, Stores, AllFresh, NEW t \in Txs, Launch(t)
  PROVE  /\ Stores' /\ AllFresh' /\ Preserves
         /\ pc'[t] = "remove" => UNCHANGED <<pc, place, runtime>>
<1>1. TypeOK /\ WorkKnown /\ AdmissionInv /\ RuntimePlaced /\ t \in Procs
  BY DEF OwnershipInv, AdmissionInv, Procs
<1>2. /\ vault' = vault /\ kept' = kept /\ latest' = latest /\ left' = left
  BY DEF Launch, Admit, Create, Start, LateFail, Enter, Checkout, Record, Spawn, RecordRunning,
         Wait, files, world
<1>3. /\ orphans \subseteq orphans'
      /\ \A u \in Txs : place'[u] = place[u] \/ pc[u] = "request"
  BY <1>1, LaunchActs DEF Acts
<1>4. \A u \in Txs : Fresh(incident'[u].evidence)
  <2>1. incident' = incident \/ Open(t, None)
    BY DEF Launch, Admit, Create, Start, LateFail, Enter, Checkout, Record, Spawn, RecordRunning,
           Wait, FailTx, rows
  <2> QED  BY <1>1, <2>1, OpenFresh, NoneFresh
<1>5. pc'[t] = "remove" => UNCHANGED <<pc, place, runtime>>
  <2>1. CASE LateFail(t)  BY <2>1 DEF LateFail, files
  <2>2. CASE ~LateFail(t)
    <3>1. pc'[t] # "remove"
      BY <1>1, <2>2 DEF Launch, Admit, Create, Start, Enter, Checkout, Record, Spawn,
                        RecordRunning, Wait, Leave, Go, ControlOK, TypeOK
    <3> QED  BY <3>1
  <2> QED  BY <2>1, <2>2
<1>6. Preserves  BY <1>2, <1>3 DEF Preserves
<1>7. left.refresh \in Nat /\ left.restore \in Nat  BY <1>1 DEF TypeOK, WorldOK
<1>8. CASE Checkout(t) /\ runtime' # runtime
  <2>1. /\ pc[t] = "checkout" /\ base' = base /\ runtime[place[t].project] = None
        /\ runtime' = [runtime EXCEPT ![place[t].project] =
                         [owner |-> t, content |-> vault[place[t].account]]]
    BY <1>8 DEF Checkout, At
  <2>2. PICK a \in Accounts, p \in Projects : a = place[t].account /\ p = place[t].project
    BY <1>1, <2>1 DEF WorkKnown
  <2>3. /\ runtime'[p] = [owner |-> t, content |-> vault[a]] /\ runtime[p] = None
        /\ \A q \in Projects : q # p => runtime'[q] = runtime[q]
    BY <1>1, <2>1, <2>2 DEF FilesOK, TypeOK
  <2>4. runtime'[p].content = vault'[a]  BY <1>2, <2>3
  <2>5. Stores'  BY <1>1, <1>2, <1>6, <1>7, <2>1, <2>3, <2>4, StoresStay
  <2>6. AllFresh'
    <3>1. /\ Fresh(runtime'[p].content) /\ \A b \in Accounts : Fresh(vault'[b])
          /\ \A u \in Txs : Fresh(base'[u])
      BY <1>2, <2>1, <2>4 DEF AllFresh
    <3> QED  BY <1>2, <1>4, <2>3, <3>1, FreshStays
  <2> QED  BY <1>5, <1>6, <2>5, <2>6
<1>9. CASE Record(t)
  <2>1. /\ pc[t] = "record" /\ runtime' = runtime
        /\ base' = [base EXCEPT ![t] = vault[place[t].account]]
    BY <1>9 DEF Record, At, files
  <2>2. PICK a \in Accounts : a = place[t].account  BY <1>1, <2>1 DEF WorkKnown
  <2>3. \A u \in Txs : base'[u] = base[u] \/ base'[u] = vault[a]
    BY <1>1, <2>1, <2>2 DEF RowsOK, TypeOK
  <2>4. Stores'  BY <1>1, <1>2, <1>6, <1>7, <2>1, <2>3, StoresStay
  <2>5. AllFresh'
    <3>1. /\ \A b \in Accounts : Fresh(vault'[b])
          /\ \A u \in Txs : Fresh(base'[u])
      BY <1>2, <2>3 DEF AllFresh
    <3> QED  BY <1>2, <1>4, <2>1, <3>1, FreshStays
  <2> QED  BY <1>5, <1>6, <2>4, <2>5
<1>10. CASE ~Record(t) /\ runtime' = runtime
  <2>1. base' = base
    BY <1>10 DEF Launch, Admit, Create, Start, LateFail, Enter, Checkout, Spawn, RecordRunning,
                 Wait, rows
  <2> QED  BY <1>2, <1>3, <1>4, <1>5, <1>10, <2>1, QuietStores
<1>11. ~Checkout(t) => runtime' = runtime
  BY DEF Launch, Admit, Create, Start, LateFail, Enter, Record, Spawn, RecordRunning, Wait, files
<1> QED  BY <1>8, <1>9, <1>10, <1>11

(* One Runtime is cleared.                                                 *)
LEMMA ClearStores ==
  ASSUME OwnershipInv, Stores, AllFresh, Preserves, NEW p \in Projects,
         runtime' = [runtime EXCEPT ![p] = None], base' = base, left' = left,
         \/ runtime[p] = None \/ Safe(runtime[p].content) \/ runtime[p].content \in kept'
         \/ Haunted(p) \/ \A t \in Txs : latest'[t] # runtime[p].content,
         \A a \in Accounts : Fresh(vault'[a]),
         \A t \in Txs : Fresh(incident'[t].evidence)
  PROVE  Stores' /\ AllFresh'
<1>1. TypeOK /\ AdmissionInv /\ RuntimePlaced  BY DEF OwnershipInv, AdmissionInv
<1>2. runtime'[p] = None /\ \A q \in Projects : q # p => runtime'[q] = runtime[q]
  BY <1>1 DEF FilesOK, TypeOK
<1>3. left.refresh \in Nat /\ left.restore \in Nat  BY <1>1 DEF TypeOK, WorldOK
<1>4. Stores'  BY <1>1, <1>2, <1>3, StoresStay
<1>5. \A t \in Txs : Fresh(base'[t])  BY DEF AllFresh
<1> QED  BY <1>2, <1>4, <1>5, FreshStays

LEMMA CommitStores ==
  ASSUME OwnershipInv, Stores, AllFresh, RemoveSafe, NEW x \in Procs, Own(x),
         Commit(x) \/ RemoveRuntime(x) \/ Close(x)
  PROVE  Stores' /\ AllFresh' /\ Preserves /\ Removes(x)'
<1>1. TypeOK /\ AdmissionInv /\ RuntimePlaced  BY DEF OwnershipInv, AdmissionInv
<1>2. PICK t \in Txs, a \in Accounts, p \in Projects :
        /\ t = Work(x).tx /\ a = Work(x).account /\ p = Work(x).project
        /\ place[t] = Work(x) /\ place' = place
  <2>1. pc[x] \in AccountSteadyLabels
    BY DEF Commit, RemoveRuntime, Close, At, AccountSteadyLabels
  <2>2. Work(x).account \in Accounts  BY <1>1, <2>1, SteadyPlaces DEF AdmissionInv
  <2> QED  BY <1>1, <2>2, CommitActs
<1>3. latest' = latest /\ left' = left /\ base' = base /\ orphans' = orphans
  BY DEF Commit, RemoveRuntime, Close, rows, world
<1>4. \A u \in Txs : Fresh(incident[u].evidence)  BY DEF AllFresh
<1>5. CASE RemoveRuntime(x)
  <2>1. /\ vault' = vault /\ kept' = kept /\ runtime' = [runtime EXCEPT ![p] = None]
        /\ pc[x] = "remove" /\ pc'[x] = "close" /\ incident' = incident
    BY <1>1, <1>2, <1>5 DEF RemoveRuntime, At, Go, ControlOK, TypeOK, rows
  <2>2. Preserves  BY <1>2, <1>3, <2>1 DEF Preserves
  <2>3. runtime[p] = None \/ Safe(runtime[p].content) \/ Haunted(p)
    BY <1>2, <2>1 DEF RemoveSafe
  <2>4. \A b \in Accounts : Fresh(vault'[b])  BY <2>1 DEF AllFresh
  <2>5. Removes(x)'  BY <2>1 DEF Removes
  <2> QED  BY <1>3, <1>4, <2>1, <2>2, <2>3, <2>4, <2>5, ClearStores
<1>6. CASE Close(x)
  <2>1. UNCHANGED <<vault, kept, runtime, incident>>  BY <1>6 DEF Close, files
  <2>2. pc'[x] # "remove"
    BY <1>1, <1>6 DEF Close, Leave, Abort, Go, ControlOK, TypeOK
  <2> QED  BY <1>2, <1>3, <1>4, <2>1, <2>2, QuietStores DEF Removes
<1>7. CASE Commit(x)
  <2>1. CASE UNCHANGED <<vault, kept, runtime, incident>> /\ Abort(x)
    <3>1. pc'[x] # "remove"  BY <1>1, <2>1 DEF Abort, Go, ControlOK, TypeOK
    <3> QED  BY <1>2, <1>3, <1>4, <2>1, <3>1, QuietStores DEF Removes
  <2>2. CASE /\ Content(p) # None /\ runtime' = runtime /\ incident' = incident
             /\ UNCHANGED local
             /\ \/ Content(p) \in {base[t], vault[a]} /\ vault' = vault /\ kept' = kept
                \/ vault' = [vault EXCEPT ![a] = Content(p)] /\ kept' = kept \cup {vault[a]}
    <3>1. PICK c \in Contents : c = Content(p) /\ c # None /\ c = runtime[p].content
      BY <1>1, <2>2, ContentAssumption, RuntimeOwner DEF Content
    <3>2. \/ c \in {base[t], vault[a]} /\ vault' = vault /\ kept' = kept
          \/ /\ vault'[a] = c /\ vault[a] \in kept' /\ kept \subseteq kept'
             /\ \A b \in Accounts : b # a => vault'[b] = vault[b]
      BY <1>1, <2>2, <3>1 DEF FilesOK, TypeOK
    <3>3. Preserves  BY <1>2, <1>3, <3>2 DEF Preserves
    <3>4. left.refresh \in Nat /\ left.restore \in Nat  BY <1>1 DEF TypeOK, WorldOK
    <3>5. Stores'  BY <1>1, <1>3, <2>2, <3>3, <3>4, StoresStay
    <3>6. AllFresh'
      <4>1. Fresh(c) /\ \A b \in Accounts : Fresh(vault[b])  BY <3>1 DEF AllFresh
      <4>2. /\ \A b \in Accounts : Fresh(vault'[b])
            /\ \A u \in Txs : Fresh(base'[u])
        BY <1>3, <3>2, <4>1 DEF AllFresh
      <4> QED  BY <1>3, <1>4, <2>2, <4>2, FreshStays
    <3>7. Safe(c)'
      <4>1. CASE c \in {base[t], vault[a]}
        <5>1. Safe(c)  BY <3>1, <4>1 DEF Stores, BaseSafe, Safe
        <5> QED  BY <3>3, <5>1, SafeStays
      <4>2. CASE vault'[a] = c  BY <4>2 DEF Safe
      <4> QED  BY <3>2, <4>1, <4>2
    <3>8. Work(x)' = Work(x)  BY <1>2, <2>2 DEF Work, local
    <3>9. runtime'[Work(x)'.project].content = c  BY <1>2, <2>2, <3>1, <3>8
    <3>10. Removes(x)'  BY <3>7, <3>9 DEF Removes, Safe
    <3> QED  BY <3>3, <3>5, <3>6, <3>10
  <2>3. CASE /\ Content(p) # None /\ Leave(x) /\ vault' = vault /\ kept' = kept \cup {Content(p)}
             /\ runtime' = [runtime EXCEPT ![p] = None] /\ Open(t, Content(p))
    <3>1. Preserves  BY <1>2, <1>3, <2>3 DEF Preserves
    <3>2. pc'[x] # "remove"  BY <1>1, <2>3 DEF Leave, Go, ControlOK, TypeOK
    <3>3. runtime[p].content \in kept'  BY <2>3 DEF Content
    <3>4. Fresh(Content(p)) /\ \A b \in Accounts : Fresh(vault'[b])  BY <2>3 DEF AllFresh
    <3>5. \A u \in Txs : Fresh(incident'[u].evidence)  BY <1>1, <2>3, <3>4, OpenFresh
    <3> QED  BY <1>3, <2>3, <3>1, <3>2, <3>3, <3>4, <3>5, ClearStores DEF Removes
  <2> QED  BY <1>2, <1>7, <2>1, <2>2, <2>3 DEF Commit, files
<1> QED  BY <1>5, <1>6, <1>7

LEMMA GivenUp ==
  ASSUME NEW S, GiveUp(S)
  PROVE  /\ \A t \in Txs : latest'[t] \in {latest[t], None}
         /\ \A c \in S, t \in Txs : c # None => latest'[t] # c
BY DEF GiveUp

LEMMA ThreadStores ==
  ASSUME OwnershipInv, Stores, AllFresh, Recovery \/ Requests
  PROVE  Stores' /\ AllFresh' /\ Preserves
<1>1. TypeOK /\ WorkKnown /\ AdmissionInv  BY DEF OwnershipInv, AdmissionInv
<1>2. UNCHANGED <<place, base, left, orphans>>
  BY DEF Recovery, Requests, Scan, ScanNext, ScanOrphan, ScanPreparing, ScanCommit, Resolve,
         ResolveKeeping, ResolveEvidence, ResolveClose, Archive, ArchiveCheck, ArchiveWrite, Usage,
         UsageDone, rows, world
<1>3. /\ \A u \in Txs : Fresh(incident[u].evidence)
      /\ \A b \in Accounts : Fresh(vault[b])
  BY DEF AllFresh
<1>4. CASE ScanPreparing
  <2>1. pc["scan"] = "classify" /\ latest' = latest /\ vault' = vault
    BY <1>4 DEF ScanPreparing, At, world
  <2>2. PICK t \in Txs, a \in Accounts, p \in Projects :
          t = Row /\ a = place[t].account /\ p = place[t].project
    BY <1>1, <2>1 DEF WorkKnown, Requested, Row
  <2>3. \A u \in Txs : Fresh(incident'[u].evidence)
    <3>1. incident' = incident \/ Open(t, None)  BY <1>4, <2>2 DEF ScanPreparing, FailTx
    <3> QED  BY <1>1, <3>1, OpenFresh, NoneFresh
  <2>4. \/ runtime' = runtime /\ kept' = kept
        \/ /\ runtime' = [runtime EXCEPT ![p] = None] /\ kept \subseteq kept'
           /\ Content(p) \in {None, vault[a]} \cup kept'
    BY <1>4, <2>2 DEF ScanPreparing
  <2>5. Preserves  BY <1>2, <2>1, <2>4 DEF Preserves
  <2>6. CASE runtime' = runtime /\ kept' = kept  BY <1>2, <2>1, <2>3, <2>6, QuietStores
  <2>7. CASE /\ runtime' = [runtime EXCEPT ![p] = None]
             /\ Content(p) \in {None, vault[a]} \cup kept'
    <3>1. runtime[p] = None \/ Safe(runtime[p].content) \/ runtime[p].content \in kept'
      <4>1. CASE runtime[p] # None
        <5>1. Content(p) = runtime[p].content /\ Content(p) # None
          BY <1>1, <4>1, RuntimeOwner, ContentAssumption DEF Content
        <5> QED  BY <2>7, <5>1 DEF Safe
      <4> QED  BY <4>1
    <3> QED  BY <1>2, <1>3, <2>1, <2>3, <2>5, <2>7, <3>1, ClearStores
  <2> QED  BY <2>4, <2>6, <2>7
<1>5. CASE ResolveKeeping \/ ResolveEvidence
  <2>1. pc["operator"] = "op_apply"  BY <1>5 DEF ResolveKeeping, ResolveEvidence, At
  <2>2. PICK w \in Places, t \in Txs, a \in Accounts, p \in Projects :
          w = at["operator"] /\ w.tx = t /\ w.account = a /\ w.project = p
    BY <1>1, <2>1 DEF WorkKnown, Requested, TypeOK, ControlOK, Daemon
  <2>3. vault[a] \in Contents /\ vault[a] # None  BY <1>1, ContentAssumption DEF TypeOK, FilesOK
  <2>4. CASE incident' = incident /\ UNCHANGED files /\ latest' = latest
    BY <1>2, <1>3, <2>4, QuietStores DEF files
  <2>5. CASE /\ runtime' = [runtime EXCEPT ![p] = None]
             /\ \E S : Content(p) \in S /\ GiveUp(S)
                       /\ \/ vault' = vault /\ kept' = kept /\ incident' = incident
                          \/ /\ vault' = [vault EXCEPT ![a] = incident[t].evidence]
                             /\ kept \subseteq kept' /\ (vault[a] \in kept' \/ vault[a] \in S)
                             /\ incident' = [incident EXCEPT ![t].saved = TRUE]
    <3>1. PICK S :
            /\ Content(p) \in S /\ GiveUp(S)
            /\ \/ vault' = vault /\ kept' = kept /\ incident' = incident
               \/ /\ vault' = [vault EXCEPT ![a] = incident[t].evidence]
                  /\ kept \subseteq kept' /\ (vault[a] \in kept' \/ vault[a] \in S)
                  /\ incident' = [incident EXCEPT ![t].saved = TRUE]
      BY <2>5
    <3>2. \A b \in Accounts : b # a => vault'[b] = vault[b]
      BY <1>1, <3>1 DEF TypeOK, FilesOK
    <3>3. vault'[a] \in {vault[a], incident[t].evidence}  BY <1>1, <3>1 DEF TypeOK, FilesOK
    <3>4. vault'[a] = vault[a] \/ vault[a] \in kept' \/ \A u \in Txs : latest'[u] # vault[a]
      BY <2>3, <3>1, GivenUp
    <3>5. Preserves  BY <1>2, <3>1, <3>2, <3>4, GivenUp DEF Preserves
    <3>6. \A b \in Accounts : Fresh(vault'[b])  BY <1>3, <3>2, <3>3
    <3>7. \A u \in Txs : Fresh(incident'[u].evidence)
      <4>1. incident[t] \in Incidents  BY <1>1 DEF TypeOK, RowsOK
      <4>2. \A u \in Txs : incident'[u].evidence = incident[u].evidence
        BY <1>1, <3>1, <4>1 DEF TypeOK, RowsOK, Incidents
      <4> QED  BY <1>3, <4>2
    <3>8. runtime[p] = None \/ \A u \in Txs : latest'[u] # runtime[p].content
      <4>1. CASE runtime[p] # None
        <5>1. Content(p) = runtime[p].content /\ Content(p) # None
          BY <1>1, <4>1, RuntimeOwner, ContentAssumption DEF Content
        <5> QED  BY <3>1, <5>1, GivenUp
      <4> QED  BY <4>1
    <3> QED  BY <1>2, <2>5, <3>5, <3>6, <3>7, <3>8, ClearStores
  <2> QED
    <3>1. CASE ResolveKeeping
      <4>1. Content(p) \in {Content(p)}  OBVIOUS
      <4>2. /\ GiveUp({Content(p)}) /\ runtime' = [runtime EXCEPT ![p] = None]
            /\ vault' = vault /\ kept' = kept /\ incident' = incident
        BY <2>2, <3>1 DEF ResolveKeeping, rows
      <4> QED  BY <2>5, <4>1, <4>2
    <3>2. CASE ResolveEvidence /\ ~(incident' = incident /\ UNCHANGED files /\ latest' = latest)
      <4> DEFINE S == {Content(p)} \cup (IF incident[t].saved THEN {vault[a]} ELSE {})
      <4>1. /\ GiveUp(S) /\ runtime' = [runtime EXCEPT ![p] = None]
            /\ vault' = [vault EXCEPT ![a] = incident[t].evidence]
            /\ kept' = IF incident[t].saved THEN kept ELSE kept \cup {vault[a]}
            /\ incident' = [incident EXCEPT ![t].saved = TRUE]
        BY <2>2, <3>2 DEF ResolveEvidence
      <4>2. Content(p) \in S /\ kept \subseteq kept' /\ (vault[a] \in kept' \/ vault[a] \in S)
        BY <4>1
      <4> HIDE DEF S
      <4> QED  BY <2>5, <4>1, <4>2
    <3> QED  BY <1>5, <2>4, <3>1, <3>2
<1>6. CASE ~ScanPreparing /\ ~ResolveKeeping /\ ~ResolveEvidence
  <2>1. UNCHANGED <<vault, runtime, kept, latest>>
    BY <1>6 DEF Recovery, Requests, Scan, ScanNext, ScanOrphan, ScanCommit, Resolve, ResolveClose,
                Archive, ArchiveCheck, ArchiveWrite, Usage, UsageDone, files, world
  <2>2. \A u \in Txs : Fresh(incident'[u].evidence)
    <3>1. CASE ScanOrphan
      <4>1. pc["scan"] = "classify"  BY <3>1 DEF ScanOrphan, At
      <4>2. Row \in Txs  BY <1>1, <4>1 DEF WorkKnown, Requested, Row
      <4> QED  BY <1>1, <3>1, <4>2, OpenFresh, NoneFresh DEF ScanOrphan
    <3>2. CASE ResolveClose
      <4>1. PICK t : incident' = [incident EXCEPT ![t].open = FALSE]  BY <3>2 DEF ResolveClose
      <4>2. \A u \in Txs : incident[u] \in Incidents  BY <1>1 DEF TypeOK, RowsOK
      <4>3. \A u \in Txs : incident'[u].evidence = incident[u].evidence
        BY <1>1, <4>1, <4>2 DEF TypeOK, RowsOK, Incidents
      <4> QED  BY <1>3, <4>3
    <3>3. CASE ~ScanOrphan /\ ~ResolveClose
      <4>1. incident' = incident
        BY <1>6, <3>3 DEF Recovery, Requests, Scan, ScanNext, ScanCommit, Resolve, Archive,
                          ArchiveCheck, ArchiveWrite, Usage, UsageDone, rows
      <4> QED  BY <1>3, <4>1
    <3> QED  BY <3>1, <3>2, <3>3
  <2> QED  BY <1>2, <2>1, <2>2, QuietStores
<1> QED  BY <1>4, <1>5, <1>6

(* A credential that is handed out is new to every file and every row.     *)
LEMMA NewIsNew ==
  ASSUME TypeOK, NEW a \in Accounts,
         \/ left.refresh > 0 /\ left' = [left EXCEPT !.refresh = @ - 1]
         \/ left.restore > 0 /\ left' = [left EXCEPT !.restore = @ - 1]
  PROVE  /\ left'.refresh \in Nat /\ left'.restore \in Nat
         /\ left'.refresh + left'.restore < left.refresh + left.restore
         /\ Issued(a) \in Contents /\ Issued(a) # None
         /\ Issued(a).n > left'.refresh + left'.restore
         /\ ~(Issued(a).n > left.refresh + left.restore)
         /\ \A c \in Contents : Fresh(c) => c # Issued(a)
         /\ \A c \in Contents \cup {None} : Fresh(c) => Fresh(c)'
<1>1. /\ left.refresh \in 0..MaxRefresh /\ left.restore \in 0..MaxRestore
      /\ left.refresh \in Nat /\ left.restore \in Nat /\ MaxRefresh \in Nat /\ MaxRestore \in Nat
  BY LimitAssumption DEF TypeOK, WorldOK
<1>2. /\ left'.refresh \in Nat /\ left'.restore \in Nat
      /\ left'.refresh + left'.restore = left.refresh + left.restore - 1
      /\ left.refresh + left.restore > 0
  <2>1. CASE left.refresh > 0 /\ left' = [left EXCEPT !.refresh = @ - 1]
    <3>1. left'.refresh = left.refresh - 1 /\ left'.restore = left.restore
      BY <2>1 DEF TypeOK, WorldOK
    <3> QED  BY <1>1, <2>1, <3>1
  <2>2. CASE left.restore > 0 /\ left' = [left EXCEPT !.restore = @ - 1]
    <3>1. left'.refresh = left.refresh /\ left'.restore = left.restore - 1
      BY <2>2 DEF TypeOK, WorldOK
    <3> QED  BY <1>1, <2>2, <3>1
  <2> QED  BY <2>1, <2>2
<1>3. Issued(a).n = left.refresh + left.restore /\ Issued(a) \in Contents
  <2>1. left.refresh + left.restore \in 0..MaxRefresh + MaxRestore  BY <1>1
  <2> QED  BY <2>1 DEF Issued, Contents
<1>4. \A c \in Contents : c.n \in Nat  BY LimitAssumption DEF Contents
<1>5. \A c \in Contents : Fresh(c) => c # Issued(a)
  BY <1>1, <1>2, <1>3, <1>4, ContentAssumption DEF Fresh
<1>6. ASSUME NEW c \in Contents, Fresh(c) PROVE Fresh(c)'
  <2>1. c.n \in Nat /\ (c.n = 0 \/ c.n > left.refresh + left.restore)
    BY <1>4, <1>6, ContentAssumption DEF Fresh
  <2> QED  BY <1>1, <1>2, <2>1 DEF Fresh
<1>7. Fresh(None)'  BY DEF Fresh
<1> QED  BY <1>1, <1>2, <1>3, <1>5, <1>6, <1>7, ContentAssumption

LEMMA OldFresh ==
  ASSUME TypeOK, AllFresh, \A c \in Contents \cup {None} : Fresh(c) => Fresh(c)'
  PROVE  /\ \A a \in Accounts : vault'[a] = vault[a] => Fresh(vault[a])'
         /\ \A p \in Projects : runtime'[p] = runtime[p] => Fresh(Content(p))'
         /\ UNCHANGED <<base, incident>> =>
              \A t \in Txs : Fresh(base[t])' /\ Fresh(incident[t].evidence)'
<1>1. ASSUME NEW c \in Contents \cup {None}, Fresh(c), NEW d, d = c
      PROVE  Fresh(d)'
  BY <1>1
<1>2. \A a \in Accounts : vault'[a] = vault[a] => Fresh(vault[a])'
  BY DEF AllFresh, TypeOK, FilesOK, Fresh
<1>3. \A p \in Projects : runtime'[p] = runtime[p] => Fresh(Content(p))'
  <2>1. ASSUME NEW p \in Projects, runtime'[p] = runtime[p] PROVE Fresh(Content(p))'
    <3>1. PICK c \in Contents \cup {None} : c = Content(p)
      BY RuntimeOwner DEF Content
    <3>2. Fresh(c)'  BY <3>1 DEF AllFresh
    <3>3. Content(p)' = c  BY <2>1, <3>1 DEF Content
    <3> QED  BY <3>2, <3>3 DEF Fresh
  <2> QED  BY <2>1
<1>4. ASSUME UNCHANGED <<base, incident>>, NEW t \in Txs
      PROVE  Fresh(base[t])' /\ Fresh(incident[t].evidence)'
  <2>1. PICK c \in Contents \cup {None}, e \in Contents \cup {None} :
          c = base[t] /\ e = incident[t].evidence
    BY DEF TypeOK, RowsOK, Incidents
  <2>2. Fresh(c)' /\ Fresh(e)'  BY <2>1 DEF AllFresh
  <2> QED  BY <1>4, <2>1, <2>2 DEF Fresh
<1> QED  BY <1>2, <1>3, <1>4

LEMMA RestoreStores ==
  ASSUME OwnershipInv, Stores, AllFresh, NEW a \in Accounts, RestoreVault(a)
  PROVE  Stores' /\ AllFresh' /\ Preserves
<1>1. TypeOK /\ AdmissionInv /\ RuntimePlaced  BY DEF OwnershipInv, AdmissionInv
<1>2. /\ UNCHANGED <<place, base, incident, runtime, kept, orphans>> /\ GiveUp({vault[a]})
      /\ vault' = [vault EXCEPT ![a] = Issued(a)]
      /\ left.restore > 0 /\ left' = [left EXCEPT !.restore = @ - 1]
  BY DEF RestoreVault, rows
<1>3. vault'[a] = Issued(a) /\ \A b \in Accounts : b # a => vault'[b] = vault[b]
  BY <1>1, <1>2 DEF TypeOK, FilesOK
<1>4. vault[a] # None  BY <1>1, ContentAssumption DEF TypeOK, FilesOK
<1>5. Preserves  BY <1>2, <1>3, <1>4, GivenUp DEF Preserves
<1>6. /\ left'.refresh \in Nat /\ left'.restore \in Nat
      /\ left'.refresh + left'.restore < left.refresh + left.restore
      /\ Issued(a).n > left'.refresh + left'.restore
      /\ \A c \in Contents \cup {None} : Fresh(c) => Fresh(c)'
  BY <1>1, <1>2, NewIsNew
<1>7. Stores'
  <2>1. left.refresh \in Nat /\ left.restore \in Nat  BY <1>1 DEF TypeOK, WorldOK
  <2>2. left'.refresh + left'.restore =< left.refresh + left.restore  BY <1>6, <2>1
  <2> QED  BY <1>1, <1>2, <1>5, <1>6, <2>2, StoresStay
<1>8. Fresh(vault[a])'  BY <1>3, <1>6 DEF Fresh
<1>9. AllFresh'  BY <1>1, <1>2, <1>3, <1>6, <1>8, OldFresh DEF AllFresh
<1> QED  BY <1>5, <1>7, <1>9

LEMMA CodexStores ==
  ASSUME OwnershipInv, Stores, AllFresh, NEW t \in Txs, CodexRefresh(t)
  PROVE  Stores' /\ AllFresh' /\ KeepsSafe
<1>1. TypeOK /\ WorkKnown /\ AdmissionInv /\ RuntimePlaced  BY DEF OwnershipInv, AdmissionInv
<1>2. t \in orphans \/ pc[t] \in {"record_running", "wait"}
  BY <1>1 DEF CodexRefresh, AdmissionInv, CodexKnown
<1>3. pc[t] # "request"  BY <1>1, <1>2 DEF AdmissionInv, CodexKnown
<1>4. PICK a \in Accounts, p \in Projects : a = place[t].account /\ p = place[t].project
  BY <1>1, <1>3 DEF WorkKnown
<1>5. PICK new : new = Issued(a)  OBVIOUS
<1>6. /\ UNCHANGED <<place, base, incident, vault, kept, orphans>>
      /\ runtime' = [runtime EXCEPT ![p] = [owner |-> t, content |-> new]]
      /\ latest' = [latest EXCEPT ![t] = new]
      /\ left.refresh > 0 /\ left' = [left EXCEPT !.refresh = @ - 1]
  BY <1>4, <1>5 DEF CodexRefresh, rows
<1>7. /\ left'.refresh + left'.restore < left.refresh + left.restore
      /\ left'.refresh \in Nat /\ left'.restore \in Nat
      /\ new \in Contents /\ new # None /\ new.n > left'.refresh + left'.restore
      /\ ~(new.n > left.refresh + left.restore)
      /\ \A c \in Contents : Fresh(c) => c # new
      /\ \A c \in Contents \cup {None} : Fresh(c) => Fresh(c)'
  BY <1>1, <1>5, <1>6, NewIsNew
<1>8. PICK r \in Runtimes : r = [owner |-> t, content |-> new]  BY <1>7 DEF Runtimes
<1>9. /\ runtime'[p] = r /\ r # None /\ r.owner = t /\ r.content = new
      /\ \A q \in Projects : q # p => runtime'[q] = runtime[q]
  BY <1>1, <1>6, <1>8, ContentAssumption DEF FilesOK, TypeOK
<1>10. latest'[t] = new /\ \A u \in Txs : u # t => latest'[u] = latest[u]
  BY <1>1, <1>6 DEF WorldOK, TypeOK
<1>11. \A u \in Txs : latest[u] # None => latest[u] # new
  BY <1>7 DEF Stores, LatestFresh
<1>12. KeepsSafe
  BY <1>6, <1>7, <1>10 DEF KeepsSafe, Safe
<1>13. AllFresh'
  <2>1. Fresh(Content(p))'
    <3>1. Content(p)' = new  BY <1>9 DEF Content
    <3> QED  BY <1>7, <3>1 DEF Fresh
  <2> QED  BY <1>1, <1>6, <1>7, <1>9, <2>1, OldFresh DEF AllFresh
<1>14. BaseSafe'
  <2>1. ASSUME NEW u \in Txs, base'[u] # None PROVE Safe(base[u])'
    <3>1. PICK c \in Contents : c = base[u]  BY <1>1, <1>6, <2>1 DEF TypeOK, RowsOK
    <3>2. Safe(c) /\ Fresh(c)  BY <1>6, <2>1, <3>1 DEF Stores, BaseSafe, AllFresh
    <3>3. Safe(c)'  BY <1>12, <3>2 DEF KeepsSafe
    <3> QED  BY <1>6, <3>1, <3>3 DEF Safe
  <2> QED  BY <2>1 DEF BaseSafe
<1>15. RuntimeSafe'
  <2>1. ASSUME NEW q \in Projects, q # p, runtime[q] # None
        PROVE  Safe(runtime[q].content)' \/ latest'[runtime'[q].owner] = runtime'[q].content
    <3>1. PICK c \in Contents, o \in Txs : c = runtime[q].content /\ o = runtime[q].owner
      BY <1>1, <2>1, RuntimeOwner
    <3>2. o # t  BY <1>4, <2>1, <3>1, <1>1 DEF RuntimePlaced
    <3>3. Fresh(c) /\ (Safe(c) \/ latest[o] = c)
      BY <1>1, <2>1, <3>1, RuntimeOwner DEF Stores, RuntimeSafe, AllFresh, Content
    <3>4. Safe(c)' \/ latest'[o] = c  BY <1>10, <1>12, <3>2, <3>3 DEF KeepsSafe
    <3> QED  BY <1>9, <2>1, <3>1, <3>4 DEF Safe
  <2>2. latest'[runtime'[p].owner] = runtime'[p].content  BY <1>9, <1>10
  <2> QED  BY <1>9, <2>1, <2>2 DEF RuntimeSafe
<1>16. LatestFresh'
  <2> SUFFICES ASSUME NEW u \in Txs, latest'[u] # None
               PROVE  /\ latest'[u].n > left'.refresh + left'.restore
                      /\ \A w \in Txs : latest'[w] = latest'[u] => w = u
    BY DEF LatestFresh
  <2>1. CASE u = t  BY <1>7, <1>10, <1>11, <2>1
  <2>2. CASE u # t
    <3>1. latest'[u] = latest[u] /\ latest[u] \in Contents
      BY <1>1, <1>10, <2>2 DEF WorldOK, TypeOK
    <3>2. latest[u].n > left.refresh + left.restore
      BY <3>1 DEF Stores, LatestFresh
    <3>3. \A w \in Txs : latest[w] = latest[u] => w = u  BY <3>1 DEF Stores, LatestFresh
    <3>4. latest[u].n \in Nat /\ left.refresh \in Nat /\ left.restore \in Nat
      BY <1>1, <3>1, LimitAssumption DEF Contents, WorldOK, TypeOK
    <3>5. latest[u].n > left'.refresh + left'.restore  BY <1>7, <3>2, <3>4
    <3> QED  BY <1>10, <1>11, <2>2, <3>1, <3>3, <3>5
  <2> QED  BY <2>1, <2>2
<1>17. RefreshesKept'
  <2> SUFFICES ASSUME NEW u \in Txs, latest'[u] # None, ~Haunted(place[u].project)'
               PROVE  \/ \E b \in Accounts : vault'[b] = latest'[u]
                      \/ \E q \in Projects : Content(q)' = latest'[u]
                      \/ latest'[u] \in kept'
    BY DEF RefreshesKept
  <2>1. CASE u = t
    <3>1. Content(p)' = new  BY <1>9 DEF Content
    <3> QED  BY <1>10, <2>1, <3>1
  <2>2. CASE u # t
    <3>1. PICK c \in Contents : c = latest[u] /\ c = latest'[u]
      BY <1>1, <1>10, <2>2 DEF WorldOK, TypeOK
    <3>2. c # None  BY ContentAssumption
    <3>3. ~Haunted(place[u].project)  BY <1>6 DEF Haunted
    <3>4. CASE c \in kept \/ \E b \in Accounts : vault[b] = c  BY <1>6, <3>1, <3>4
    <3>5. CASE ~(c \in kept \/ \E b \in Accounts : vault[b] = c)
      <4>1. PICK q \in Projects : runtime[q] # None /\ runtime[q].content = c
        BY <3>1, <3>2, <3>3, <3>5 DEF Stores, RefreshesKept, Content
      <4>2. PICK o \in Txs : o = runtime[q].owner  BY <1>1, <4>1, RuntimeOwner
      <4>3. latest[o] = c
        BY <3>1, <3>5, <4>1, <4>2 DEF Stores, RuntimeSafe, Safe
      <4>4. o = u
        <5>1. latest[u] # None /\ latest[o] = latest[u]  BY <3>1, <3>2, <4>3
        <5> QED  BY <5>1 DEF Stores, LatestFresh
      <4>5. place[u].project = q  BY <1>1, <4>1, <4>2, <4>4 DEF RuntimePlaced
      <4>6. q # p
        <5>1. ASSUME q = p PROVE FALSE
          <6>1. ~(\E v \in orphans : place[v].project = p)  BY <3>3, <4>5, <5>1 DEF Haunted
          <6>2. t \notin orphans  BY <1>4, <6>1
          <6>3. pc[t] \in HoldingLabels  BY <1>2, <6>2 DEF HoldingLabels
          <6>4. u \in {t} \cup orphans
            BY <1>4, <4>2, <4>4, <5>1, <6>3 DEF OwnershipInv, RuntimeIsOwn
          <6> QED  BY <2>2, <4>5, <5>1, <6>1, <6>4
        <5> QED  BY <5>1
      <4> QED  BY <1>9, <3>1, <4>1, <4>6 DEF Content
    <3> QED  BY <3>4, <3>5
  <2> QED  BY <2>1, <2>2
<1> QED  BY <1>12, <1>13, <1>14, <1>15, <1>16, <1>17 DEF Stores

LEMMA RestStores ==
  ASSUME OwnershipInv, Stores, AllFresh, UNCHANGED <<rows, files, latest>>,
         left'.refresh = left.refresh, left'.restore = left.restore, orphans \subseteq orphans'
  PROVE  Stores' /\ AllFresh' /\ Preserves
<1>1. UNCHANGED <<place, base, incident, vault, runtime, kept>>  BY DEF rows, files
<1>2. Preserves  BY <1>1 DEF Preserves
<1>3. TypeOK /\ AdmissionInv /\ RuntimePlaced  BY DEF OwnershipInv, AdmissionInv
<1>4. left.refresh \in Nat /\ left.restore \in Nat  BY <1>3 DEF TypeOK, WorldOK
<1>5. Stores'
  <2>1. left'.refresh + left'.restore =< left.refresh + left.restore  BY <1>4
  <2> QED  BY <1>1, <1>2, <1>3, <1>4, <2>1, StoresStay
<1>6. AllFresh'  BY <1>1 DEF AllFresh, Fresh, Content
<1> QED  BY <1>2, <1>5, <1>6

(* What the processes that did not act are about to remove, ...            *)
LEMMA ActsRemove ==
  ASSUME OwnershipInv, RemoveSafe, AllFresh, KeepsSafe, NEW x \in Procs, Acts(x), Removes(x)'
  PROVE  RemoveSafe'
<1>1. \A y \in Procs : Removes(y)  BY DEF RemoveSafe, Removes
<1>2. \A y \in Procs : Removes(y)'  BY <1>1, OthersRemove DEF OwnershipInv
<1> QED  BY <1>2 DEF RemoveSafe, Removes

(* ... and what those that were not killed are.                            *)
LEMMA QuietRemove ==
  ASSUME OwnershipInv, RemoveSafe, AllFresh, KeepsSafe, UNCHANGED <<runtime, place>>,
         orphans \subseteq orphans',
         \A x \in Procs : pc'[x] = "remove" => pc[x] = "remove" /\ Work(x)' = Work(x)
  PROVE  RemoveSafe'
<1>1. \A y \in Procs : Removes(y)  BY DEF RemoveSafe, Removes
<1>2. \A y \in Procs : Removes(y)'
  BY <1>1, SteadyRemove DEF OwnershipInv
<1> QED  BY <1>2 DEF RemoveSafe, Removes

LEMMA PreservesSafe == ASSUME Preserves PROVE KeepsSafe
BY SafeStays DEF KeepsSafe

LEMMA EnvironmentKept ==
  ASSUME OwnershipInv, Stores, AllFresh, RemoveSafe, Environment
  PROVE  Stores' /\ AllFresh' /\ RemoveSafe'
<1>1. TypeOK /\ AdmissionInv /\ Owns  BY OwnershipIs DEF OwnershipInv, AdmissionInv
<1>2. ASSUME NEW t \in Txs, CodexRefresh(t) PROVE Stores' /\ AllFresh' /\ RemoveSafe'
  <2>1. t \in Procs /\ Acts(t)  BY <1>1, <1>2, CodexActs DEF Procs
  <2>2. pc'[t] # "remove"
    BY <1>1, <1>2 DEF CodexRefresh, AdmissionInv, CodexKnown
  <2>3. Removes(t)'  BY <2>2 DEF Removes
  <2> QED  BY <1>2, <2>1, <2>3, CodexStores, ActsRemove
<1>3. ASSUME NEW t \in Txs, CodexExit(t) PROVE Stores' /\ AllFresh' /\ RemoveSafe'
  <2>1. /\ UNCHANGED <<rows, files, latest, left, orphans, pc, place, runtime>>
        /\ \A x \in Procs : Work(x)' = Work(x)
    BY <1>3 DEF CodexExit, rows, files, local, Work
  <2>2. Stores' /\ AllFresh' /\ Preserves  BY <2>1, RestStores
  <2> QED  BY <2>1, <2>2, PreservesSafe, QuietRemove
<1>4. ASSUME NEW a \in Accounts, RestoreVault(a) PROVE Stores' /\ AllFresh' /\ RemoveSafe'
  <2>1. UNCHANGED <<orphans, pc, place, runtime>> /\ \A x \in Procs : Work(x)' = Work(x)
    BY <1>4 DEF RestoreVault, rows, local, Work
  <2> QED  BY <1>4, <2>1, RestoreStores, PreservesSafe, QuietRemove
<1>5. ASSUME NEW S, Kill(S), orphans \subseteq orphans'
      PROVE  Stores' /\ AllFresh' /\ RemoveSafe'
  <2>1. /\ UNCHANGED <<rows, files, latest, place, runtime>>
        /\ left'.refresh = left.refresh /\ left'.restore = left.restore
    BY <1>1, <1>5 DEF Kill, TypeOK, WorldOK, rows, files
  <2>2. Stores' /\ AllFresh' /\ Preserves  BY <1>5, <2>1, RestStores
  <2>3. ASSUME NEW x \in Procs, pc'[x] = "remove" PROVE pc[x] = "remove" /\ Work(x)' = Work(x)
    <3>1. x \notin S /\ pc'[x] = pc[x]  BY <1>5, <2>3 DEF Kill
    <3> QED  BY <1>5, <2>1, <2>3, <3>1 DEF Kill, Forget, Work, Procs
  <2> QED  BY <1>5, <2>1, <2>2, <2>3, PreservesSafe, QuietRemove
<1>6. CASE (\E t \in Txs : CrashRunner(t)) \/ CrashDaemon \/ Reboot
  BY <1>5, <1>6 DEF CrashRunner, CrashDaemon, Reboot, Outlive
<1> QED  BY <1>2, <1>3, <1>4, <1>6 DEF Environment

LEMMA StepKept ==
  ASSUME OwnershipInv, Stores, AllFresh, RemoveSafe, Next
  PROVE  Stores' /\ AllFresh' /\ RemoveSafe'
<1>1. TypeOK /\ WorkKnown /\ AdmissionInv /\ \A x \in Procs : Own(x)
  BY OwnershipIs DEF OwnershipInv, AdmissionInv, Owns
<1>2. ASSUME NEW t \in Txs, Launch(t) PROVE Stores' /\ AllFresh' /\ RemoveSafe'
  <2>1. t \in Procs /\ Acts(t)  BY <1>1, <1>2, LaunchActs DEF Procs
  <2>2. Stores' /\ AllFresh' /\ Preserves  BY <1>2, LaunchStores
  <2>3. Removes(t)'
    <3>1. CASE pc'[t] # "remove"  BY <3>1 DEF Removes
    <3>2. CASE pc'[t] = "remove"
      <4>1. UNCHANGED <<pc, place, runtime>>  BY <1>2, <3>2, LaunchStores
      <4>2. Removes(t) /\ Work(t)' = Work(t)  BY <2>1, <4>1 DEF RemoveSafe, Removes, Work
      <4> QED
        BY <1>1, <2>1, <2>2, <4>1, <4>2, PreservesSafe, SteadyRemove DEF Acts
    <3> QED  BY <3>1, <3>2
  <2> QED  BY <2>1, <2>2, <2>3, PreservesSafe, ActsRemove
<1>3. ASSUME NEW x \in Procs, TakeAccount(x) \/ TakeProject(x)
      PROVE  Stores' /\ AllFresh' /\ RemoveSafe'
  <2>1. Acts(x) /\ pc'[x] # "remove"
    BY <1>1, <1>3, TakeActs DEF ProjectSteadyLabels, AccountSteadyLabels
  <2>2. Removes(x)'  BY <2>1 DEF Removes
  <2>3. /\ UNCHANGED <<rows, files, latest, left>>
        /\ left'.refresh = left.refresh /\ left'.restore = left.restore
        /\ orphans \subseteq orphans'
    BY <1>3 DEF TakeAccount, TakeProject, world
  <2> QED  BY <2>1, <2>2, <2>3, RestStores, PreservesSafe, ActsRemove
<1>4. ASSUME NEW x \in Procs, Commit(x) \/ RemoveRuntime(x) \/ Close(x)
      PROVE  Stores' /\ AllFresh' /\ RemoveSafe'
  BY <1>1, <1>4, CommitActs, CommitStores, PreservesSafe, ActsRemove
<1>5. CASE Recovery \/ Requests
  <2>1. PICK d \in Daemon : Acts(d) /\ (pc'[d] = "remove" => d = "scan" /\ ScanCommit)
    BY <1>1, <1>5, ThreadActs
  <2>2. d \in Procs /\ d \notin Txs  BY DEF Procs
  <2>3. Stores' /\ AllFresh' /\ Preserves  BY <1>5, ThreadStores
  <2>4. Removes(d)'
    <3>1. CASE pc'[d] # "remove"  BY <3>1 DEF Removes
    <3>2. CASE d = "scan" /\ ScanCommit /\ pc'[d] = "remove"
      <4>1. pc["scan"] = "classify" /\ vault' = vault /\ kept' = kept /\ runtime' = runtime
        BY <3>2 DEF ScanCommit, At, files
      <4>2. PICK a \in Accounts, p \in Projects :
              a = place[Row].account /\ p = place[Row].project /\ p = at["scan"].project
        BY <1>1, <4>1 DEF WorkKnown, Requested, Row
      <4>3. at' = at
        BY <1>1, <2>2, <3>2 DEF ScanCommit, Abort, Go, local, ControlOK, TypeOK
      <4>4. \/ Seen = "auth_committed" /\ Content(p) = vault[a]
            \/ pc'["scan"] = "commit" \/ pc'["scan"] = "idle"
        BY <1>1, <2>2, <3>2, <4>2 DEF ScanCommit, Abort, Go, ControlOK, TypeOK
      <4>5. Content(p) = vault[a]  BY <3>2, <4>4
      <4>6. runtime[p] # None => Safe(runtime[p].content)'
        BY <4>1, <4>5 DEF Content, Safe
      <4>7. Work(d)'.project = p  BY <2>2, <3>2, <4>2, <4>3 DEF Work
      <4> QED  BY <4>1, <4>6, <4>7 DEF Removes, Safe
    <3> QED  BY <2>1, <3>1, <3>2
  <2> QED  BY <2>1, <2>2, <2>3, <2>4, PreservesSafe, ActsRemove
<1> QED  BY <1>2, <1>3, <1>4, <1>5, EnvironmentKept DEF Next

(* No refresh is lost, whoever shares an account or a project and whoever  *)
(* is killed: what a codex wrote last is in a Vault, in a Runtime or under *)
(* recovery/ until somebody drops it, or a codex that outlived its runner  *)
(* writes to the Runtime of that project.                                  *)
THEOREM NoRefreshLost == Spec => []RefreshesKept
<1>1. Init => KeptInv
  <2> SUFFICES ASSUME Init PROVE KeptInv  OBVIOUS
  <2>1. \A t \in Txs : base[t] = None /\ latest[t] = None /\ incident[t].evidence = None
    BY DEF Init, NoIncident
  <2>2. \A p \in Projects : runtime[p] = None  BY DEF Init
  <2>3. \A x \in Procs : pc[x] # "remove"  BY DEF Init
  <2>4. \A a \in Accounts : Fresh(vault[a])  BY DEF Init, Fresh
  <2> QED
    BY <2>1, <2>2, <2>3, <2>4, InitOwnership, NoneFresh
    DEF KeptInv, BaseSafe, RuntimeSafe, RemoveSafe, LatestFresh, RefreshesKept, AllFresh, Content
<1>2. KeptInv /\ [Next]_vars => KeptInv'
  <2> SUFFICES ASSUME KeptInv, [Next]_vars PROVE KeptInv'  OBVIOUS
  <2>1. OwnershipInv /\ Stores /\ RemoveSafe /\ AllFresh  BY KeptIs
  <2>2. OwnershipInv'  BY <2>1, StepOwnership
  <2>3. Stores' /\ AllFresh' /\ RemoveSafe'
    <3>1. CASE Next  BY <2>1, <3>1, StepKept
    <3>2. CASE UNCHANGED vars
      <4>1. UNCHANGED <<rows, files, pc, at, latest, left, orphans, place, runtime>>
        BY <3>2 DEF vars, rows, files, local, world
      <4>2. Stores' /\ AllFresh' /\ Preserves  BY <2>1, <4>1, RestStores
      <4>3. \A x \in Procs : Work(x)' = Work(x)  BY <4>1 DEF Work
      <4> QED  BY <2>1, <4>1, <4>2, <4>3, PreservesSafe, QuietRemove
    <3> QED  BY <3>1, <3>2
  <2> QED  BY <2>2, <2>3, KeptIs, PTL
<1>3. KeptInv => RefreshesKept  BY DEF KeptInv
<1> QED  BY <1>1, <1>2, <1>3, PTL DEF Spec
=============================================================================
