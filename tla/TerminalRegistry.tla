--------------------------- MODULE TerminalRegistry ---------------------------
(***************************************************************************)
(* The rows of the table terminals and the windows of tmux they name:      *)
(* start_managed_runner, create_auxiliary and close, on several threads of *)
(* the daemon.  tmux (external) numbers the windows of a server's lifetime *)
(* from zero and ends with its last session, so that the next server gives *)
(* old numbers to new windows; the rows outlive it.                        *)
(*                                                                         *)
(* A row that is closed is looked at by no step and left out.  The tmux    *)
(* session of a project exists while it has a window; it is managed once   *)
(* it carries the project's identity.                                      *)
(***************************************************************************)
EXTENDS Naturals, FiniteSets

CONSTANTS
  Projects,
  Threads,   \* threads of the daemon, each with one call at a time
  None,
  MaxServer, \* bounds: how many tmux servers are started,
  MaxWindow, \* windows made by one of them,
  MaxCall,   \* calls,
  MaxFault   \* and crashes of tmux or the daemon

ASSUME RegistryAssumption ==
  /\ None \notin Projects
  /\ {MaxServer, MaxWindow, MaxCall, MaxFault} \subseteq Nat

VARIABLES
  server,  \* how many tmux servers there were, the present one included
  nextWin, \* the number of its next window
  session, \* the windows of each project's session
  managed, \* the sessions with @muxlane-project-id
  rows,    \* terminals WHERE lifecycle_status != 'closed'
  pc,      \* where the call of a thread is
  project, \* what it is about
  term,    \* the row it read, or is about to insert
  calls, faults

tmux   == <<server, nextWin, session, managed>>
bounds == <<calls, faults>>
vars == <<tmux, rows, pc, project, term, bounds>>

Places == {"idle", "verify", "forget", "new_session", "tag", "new_window", "insert",
           "check", "kill", "mark"}

(* A terminal: the window it was made for is that of a number and, which   *)
(* no column holds, of a server; `late` is history, see Insert.            *)
Terminal == [project : Projects, win : Nat, server : Nat, late : BOOLEAN]

Exists(p)  == session[p] # {}
Managed(p) == Exists(p) /\ p \in managed
Up == \E p \in Projects : Exists(p)

Init ==
  /\ server = 0 /\ nextWin = 0
  /\ session = [p \in Projects |-> {}] /\ managed = {}
  /\ rows = {}
  /\ pc = [t \in Threads |-> "idle"]
  /\ project = [t \in Threads |-> None] /\ term = [t \in Threads |-> None]
  /\ calls = 0 /\ faults = 0

Go(t, place) == pc' = [pc EXCEPT ![t] = place]

Called(t, p, place) ==
  /\ pc[t] = "idle" /\ calls < MaxCall /\ calls' = calls + 1
  /\ project' = [project EXCEPT ![t] = p]
  /\ Go(t, place)

(***************************************************************************)
(* Making a terminal.                                                      *)
(***************************************************************************)

(* start_managed_runner asks whether there is a session: it must then be a *)
(* managed one, else the rows of the project are of earlier servers, which *)
(* is also concluded when the question cannot be asked, ...                *)
Start(t) == \E p \in Projects : \E place \in {"verify", "forget"} :
  /\ place = "verify" => Exists(p)
  /\ Called(t, p, place)
  /\ UNCHANGED <<tmux, rows, term, faults>>

CreateAuxiliary(t) == \E p \in Projects :
  /\ Called(t, p, "verify")
  /\ UNCHANGED <<tmux, rows, term, faults>>

Verify(t) ==
  /\ pc[t] = "verify"
  /\ Go(t, IF Managed(project[t]) THEN "new_window" ELSE "idle")
  /\ UNCHANGED <<tmux, rows, project, term, bounds>>

(* Mutant of Forget: rows are left until their terminals are closed.       *)
ForgetNothing(t) ==
  /\ pc[t] = "forget"
  /\ Go(t, "new_session")
  /\ UNCHANGED <<tmux, rows, project, term, bounds>>

(* ... and are closed.                                                     *)
Forget(t) ==
  /\ pc[t] = "forget"
  /\ rows' = {r \in rows : r.project # project[t]}
  /\ Go(t, "new_session")
  /\ UNCHANGED <<tmux, project, term, bounds>>

(* A new window, the next of its server, is to become a row.               *)
Window(t, p, w, s) ==
  /\ w < MaxWindow
  /\ session' = [session EXCEPT ![p] = @ \cup {w}]
  /\ nextWin' = w + 1
  /\ term' = [term EXCEPT ![t] = [project |-> p, win |-> w, server |-> s, late |-> FALSE]]

(* new-session starts a server if there is none, and refuses a session     *)
(* that exists by now.                                                     *)
NewSession(t) == LET p == project[t] IN
  /\ pc[t] = "new_session" /\ ~Exists(p)
  /\ IF Up THEN Window(t, p, nextWin, server) /\ UNCHANGED server
           ELSE /\ server < MaxServer /\ server' = server + 1
                /\ Window(t, p, 0, server + 1)
  /\ Go(t, "tag")
  /\ UNCHANGED <<managed, rows, project, bounds>>

Tag(t) ==
  /\ pc[t] = "tag" /\ Exists(project[t])
  /\ managed' = managed \cup {project[t]}
  /\ Go(t, "insert")
  /\ UNCHANGED <<server, nextWin, session, rows, project, term, bounds>>

NewWindow(t) == LET p == project[t] IN
  /\ pc[t] = "new_window" /\ Exists(p)
  /\ Window(t, p, nextWin, server)
  /\ Go(t, "insert")
  /\ UNCHANGED <<server, managed, rows, project, bounds>>

(* A row is late when its server has been replaced by now, or a start of   *)
(* the project has closed the rows and not made its session yet.           *)
Late(t) ==
  \/ term[t].server # server
  \/ \E u \in Threads : pc[u] = "new_session" /\ project[u] = project[t]

Taken(t) == {r \in rows : r.project = project[t] /\ r.win = term[t].win}

(* insert_terminal, which the index active_terminal_window_identity may    *)
(* refuse.                                                                 *)
Insert(t) ==
  /\ pc[t] = "insert"
  /\ rows' = IF Taken(t) = {} THEN rows \cup {[term[t] EXCEPT !.late = Late(t)]} ELSE rows
  /\ Go(t, "idle")
  /\ UNCHANGED <<tmux, project, term, bounds>>

(***************************************************************************)
(* Closing a terminal, with what it read of its row.                       *)
(***************************************************************************)
Close(t) == \E r \in rows :
  /\ Called(t, r.project, "check")
  /\ term' = [term EXCEPT ![t] = r]
  /\ UNCHANGED <<tmux, rows, faults>>

Check(t) ==
  /\ pc[t] = "check" /\ Managed(project[t])
  /\ Go(t, "kill")
  /\ UNCHANGED <<tmux, rows, project, term, bounds>>

(* A session ends with its last window, and forgets its options.           *)
Gone(p, w) ==
  /\ session' = [session EXCEPT ![p] = @ \ {w}]
  /\ managed' = managed \ {q \in {p} : session[p] \subseteq {w}}
  /\ UNCHANGED <<server, nextWin>>

Kill(t) ==
  /\ pc[t] = "kill" /\ term[t].win \in session[project[t]]
  /\ Gone(project[t], term[t].win)
  /\ Go(t, "mark")
  /\ UNCHANGED <<rows, project, term, bounds>>

(* close_terminal, by the row's identifier.                                *)
Mark(t) ==
  /\ pc[t] = "mark"
  /\ rows' = rows \ {term[t]}
  /\ Go(t, "idle")
  /\ UNCHANGED <<tmux, project, term, bounds>>

(* A call returns an error from any of its steps, what it did stays.       *)
GiveUp(t) ==
  /\ pc[t] # "idle"
  /\ Go(t, "idle")
  /\ UNCHANGED <<tmux, rows, project, term, bounds>>

(***************************************************************************)
(* What happens to tmux and the daemon.                                    *)
(***************************************************************************)
WindowEnds(p) == \E w \in session[p] :
  /\ Gone(p, w)
  /\ UNCHANGED <<rows, pc, project, term, bounds>>

Fault == faults < MaxFault /\ faults' = faults + 1

TmuxCrash ==
  /\ Fault
  /\ session' = [p \in Projects |-> {}] /\ managed' = {}
  /\ UNCHANGED <<server, nextWin, rows, pc, project, term, calls>>

DaemonCrash ==
  /\ Fault
  /\ pc' = [t \in Threads |-> "idle"]
  /\ UNCHANGED <<tmux, rows, project, term, calls>>

Making(t) == CreateAuxiliary(t) \/ Verify(t) \/ NewWindow(t) \/ Insert(t)
Starting(t) == Start(t) \/ Forget(t) \/ NewSession(t) \/ Tag(t)
Closing(t) == Close(t) \/ Check(t) \/ Kill(t) \/ Mark(t)

Next ==
  \/ \E t \in Threads : Making(t) \/ Starting(t) \/ Closing(t) \/ GiveUp(t)
  \/ \E p \in Projects : WindowEnds(p)
  \/ TmuxCrash \/ DaemonCrash

Spec == Init /\ [][Next]_vars

TypeOK ==
  /\ server \in Nat /\ nextWin \in Nat
  /\ session \in [Projects -> SUBSET Nat] /\ managed \subseteq Projects
  /\ rows \subseteq Terminal
  /\ pc \in [Threads -> Places]
  /\ project \in [Threads -> Projects \cup {None}]
  /\ term \in [Threads -> Terminal \cup {None}]
  /\ calls \in Nat /\ faults \in Nat

(* The parts of the inductive invariant.  A call is about a project, and   *)
(* one that closes has a row; ...                                          *)
CallsKnow == \A t \in Threads :
  /\ pc[t] # "idle" => project[t] \in Projects
  /\ pc[t] \in {"tag", "insert", "check", "kill", "mark"} =>
       term[t] \in Terminal /\ term[t].project = project[t]

(* ... no two terminals, rows or about to be, are of one window; ...       *)
Old(r) == r.server <= server /\ (r.server = server => r.win < nextWin)
Same(r, x) == r.server = x.server /\ r.win = x.win
Holds(t) == pc[t] \in {"tag", "insert"}
WindowsDiffer ==
  /\ \A r \in rows : Old(r)
  /\ \A t \in Threads : Holds(t) => Old(term[t]) /\ \A r \in rows : ~Same(r, term[t])
  /\ \A t, u \in Threads : Holds(t) /\ Holds(u) /\ t # u => ~Same(term[t], term[u])

(* ... before a session is made the rows are closed, after that they are   *)
(* of its server, and so they are for who made a window in it.             *)
Timely(p) == {r \in rows : r.project = p /\ ~r.late}
RowsForgotten == \A t \in Threads : pc[t] = "new_session" => Timely(project[t]) = {}
RowsPresent == \A p \in Projects : \A r \in Timely(p) : Exists(p) => r.server = server
RowsPresentForMaker == \A t \in Threads :
  Holds(t) /\ term[t].server = server => \A r \in Timely(project[t]) : r.server = server

RegistryInv ==
  TypeOK /\ CallsKnow /\ WindowsDiffer /\ RowsForgotten /\ RowsPresent /\ RowsPresentForMaker

(* A terminal that is not closed names, in its project's session, no window*)
(* but the one it was made for, whichever servers came and went: only a    *)
(* late row may (close_project_terminals in start_managed_runner).         *)
RowsNameOwnWindows ==
  \A r \in rows : ~r.late /\ r.win \in session[r.project] => r.server = server

(* A window of the present server gets its row: the number is free, or a   *)
(* late row has it.  Otherwise launch.start would fail a launch whose      *)
(* runner runs (insert_terminal, dispatch).                                *)
WindowsGetRows ==
  \A t \in Threads :
    pc[t] = "insert" /\ term[t].server = server => \A r \in Taken(t) : r.late
=============================================================================
