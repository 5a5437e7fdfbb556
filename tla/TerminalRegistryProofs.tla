------------------------ MODULE TerminalRegistryProofs ------------------------
(***************************************************************************)
(* Proofs about TerminalRegistry, for any set of projects and threads.     *)
(* RegistryInv is inductive: all but four actions are Quiet, they make no  *)
(* window, row or session; Forget, NewSession, NewWindow and Insert are    *)
(* looked at one by one.                                                   *)
(***************************************************************************)
EXTENDS TerminalRegistry, TLAPS

LEMMA InitInv == Init => RegistryInv
<1> SUFFICES ASSUME Init PROVE RegistryInv  OBVIOUS
<1>1. TypeOK  BY DEF Init, TypeOK, Places, Terminal
<1>2. CallsKnow  BY DEF Init, CallsKnow
<1>3. WindowsDiffer  BY DEF Init, WindowsDiffer, Holds
<1>4. RowsForgotten /\ RowsPresent /\ RowsPresentForMaker
  BY DEF Init, RowsForgotten, RowsPresent, RowsPresentForMaker, Timely, Holds
<1> QED  BY <1>1, <1>2, <1>3, <1>4 DEF RegistryInv

(***************************************************************************)
(* Types.                                                                  *)
(***************************************************************************)

(* The window of NewSession and NewWindow, and its row-to-be.              *)
LEMMA WindowType ==
  ASSUME TypeOK, NEW t \in Threads, NEW p \in Projects, NEW w \in Nat, NEW s \in Nat,
         Window(t, p, w, s)
  PROVE  /\ nextWin' \in Nat
         /\ session' \in [Projects -> SUBSET Nat]
         /\ term' \in [Threads -> Terminal \cup {None}]
         /\ term'[t] \in Terminal
<1>1. [project |-> p, win |-> w, server |-> s, late |-> FALSE] \in Terminal  BY DEF Terminal
<1> QED  BY <1>1 DEF Window, TypeOK

LEMMA StepType == TypeOK /\ CallsKnow /\ Next => TypeOK'
<1> SUFFICES ASSUME TypeOK, CallsKnow, Next PROVE TypeOK'  OBVIOUS
<1> USE RegistryAssumption
<1>1. ASSUME NEW t \in Threads, Making(t) PROVE TypeOK'
  <2>1. CASE CreateAuxiliary(t)
    BY <2>1 DEF CreateAuxiliary, Called, Go, TypeOK, Places, tmux
  <2>2. CASE Verify(t)  BY <2>2 DEF Verify, Go, TypeOK, Places, tmux, bounds
  <2>3. CASE NewWindow(t)
    <3>1. project[t] \in Projects  BY <2>3 DEF NewWindow, CallsKnow
    <3>2. nextWin \in Nat /\ server \in Nat  BY DEF TypeOK
    <3>3. Window(t, project[t], nextWin, server)  BY <2>3 DEF NewWindow
    <3> QED  BY <2>3, <3>1, <3>2, <3>3, WindowType DEF NewWindow, Go, TypeOK, Places, bounds
  <2>4. CASE Insert(t)
    <3>1. term[t] \in Terminal  BY <2>4 DEF Insert, CallsKnow
    <3>2. Late(t) \in BOOLEAN  BY DEF Late
    <3>3. [term[t] EXCEPT !.late = Late(t)] \in Terminal  BY <3>1, <3>2 DEF Terminal
    <3>4. rows' \subseteq Terminal  BY <2>4, <3>3 DEF Insert, TypeOK
    <3> QED  BY <2>4, <3>4 DEF Insert, Go, TypeOK, Places, tmux, bounds
  <2> QED  BY <1>1, <2>1, <2>2, <2>3, <2>4 DEF Making
<1>2. ASSUME NEW t \in Threads, Starting(t) PROVE TypeOK'
  <2>1. CASE Start(t)  BY <2>1 DEF Start, Called, Go, TypeOK, Places, tmux
  <2>2. CASE Forget(t)  BY <2>2 DEF Forget, Go, TypeOK, Places, tmux, bounds
  <2>3. CASE NewSession(t)
    <3>1. project[t] \in Projects  BY <2>3 DEF NewSession, CallsKnow
    <3>2. nextWin \in Nat /\ server \in Nat /\ server + 1 \in Nat  BY DEF TypeOK
    <3>3. /\ server' \in Nat
          /\ \E w, s \in Nat : Window(t, project[t], w, s)
      BY <2>3, <3>2 DEF NewSession
    <3>4. /\ nextWin' \in Nat /\ session' \in [Projects -> SUBSET Nat]
          /\ term' \in [Threads -> Terminal \cup {None}]
      BY <3>1, <3>3, WindowType
    <3> QED  BY <2>3, <3>3, <3>4 DEF NewSession, Go, TypeOK, Places, bounds
  <2>4. CASE Tag(t)
    <3>1. project[t] \in Projects  BY <2>4 DEF Tag, CallsKnow
    <3> QED  BY <2>4, <3>1 DEF Tag, Go, TypeOK, Places, bounds
  <2> QED  BY <1>2, <2>1, <2>2, <2>3, <2>4 DEF Starting
<1>3. ASSUME NEW t \in Threads, Closing(t) PROVE TypeOK'
  <2>1. CASE Close(t)
    BY <2>1 DEF Close, Called, Go, TypeOK, Places, Terminal, tmux
  <2>2. CASE Check(t)  BY <2>2 DEF Check, Go, TypeOK, Places, tmux, bounds
  <2>3. CASE Kill(t)  BY <2>3 DEF Kill, Gone, Go, TypeOK, Places, bounds
  <2>4. CASE Mark(t)  BY <2>4 DEF Mark, Go, TypeOK, Places, tmux, bounds
  <2> QED  BY <1>3, <2>1, <2>2, <2>3, <2>4 DEF Closing
<1>4. ASSUME NEW t \in Threads, GiveUp(t) PROVE TypeOK'
  BY <1>4 DEF GiveUp, Go, TypeOK, Places, tmux, bounds
<1>5. ASSUME NEW p \in Projects, WindowEnds(p) PROVE TypeOK'
  BY <1>5 DEF WindowEnds, Gone, TypeOK, bounds
<1>6. CASE TmuxCrash  BY <1>6 DEF TmuxCrash, Fault, TypeOK
<1>7. CASE DaemonCrash  BY <1>7 DEF DaemonCrash, Fault, TypeOK, Places, tmux
<1> QED  BY <1>1, <1>2, <1>3, <1>4, <1>5, <1>6, <1>7 DEF Next

(* What a call knows of its project and its row.                           *)
LEMMA StepKnow == TypeOK /\ CallsKnow /\ Next => CallsKnow'
<1> SUFFICES ASSUME TypeOK, CallsKnow, Next, NEW u \in Threads
             PROVE  /\ pc'[u] # "idle" => project'[u] \in Projects
                    /\ pc'[u] \in {"tag", "insert", "check", "kill", "mark"} =>
                         term'[u] \in Terminal /\ term'[u].project = project'[u]
  BY DEF CallsKnow
<1> DEFINE Known == /\ pc'[u] # "idle" => project'[u] \in Projects
                    /\ pc'[u] \in {"tag", "insert", "check", "kill", "mark"} =>
                         term'[u] \in Terminal /\ term'[u].project = project'[u]
<1>1. ASSUME NEW t \in Threads, Making(t) PROVE Known
  <2>1. CASE CreateAuxiliary(t)
    BY <2>1 DEF CreateAuxiliary, Called, Go, TypeOK, CallsKnow
  <2>2. CASE Verify(t)  BY <2>2 DEF Verify, Go, TypeOK, CallsKnow
  <2>3. CASE NewWindow(t)
    <3>1. project[t] \in Projects  BY <2>3 DEF NewWindow, CallsKnow
    <3>2. nextWin \in Nat /\ server \in Nat  BY DEF TypeOK
    <3>3. Window(t, project[t], nextWin, server)  BY <2>3 DEF NewWindow
    <3>4. term'[t] \in Terminal /\ term'[t].project = project[t]
      BY <3>1, <3>2, <3>3, WindowType DEF Window, TypeOK
    <3>5. u # t => term'[u] = term[u]  BY <3>3 DEF Window, TypeOK
    <3> QED  BY <2>3, <3>4, <3>5 DEF NewWindow, Go, TypeOK, CallsKnow
  <2>4. CASE Insert(t)  BY <2>4 DEF Insert, Go, TypeOK, CallsKnow
  <2> QED  BY <1>1, <2>1, <2>2, <2>3, <2>4 DEF Making
<1>2. ASSUME NEW t \in Threads, Starting(t) PROVE Known
  <2>1. CASE Start(t)  BY <2>1 DEF Start, Called, Go, TypeOK, CallsKnow
  <2>2. CASE Forget(t)  BY <2>2 DEF Forget, Go, TypeOK, CallsKnow
  <2>3. CASE NewSession(t)
    <3>1. project[t] \in Projects  BY <2>3 DEF NewSession, CallsKnow
    <3>2. PICK w \in Nat, s \in Nat : Window(t, project[t], w, s)
      BY <2>3 DEF NewSession, TypeOK
    <3>3. term'[t] \in Terminal /\ term'[t].project = project[t]
      BY <3>1, <3>2, WindowType DEF Window, TypeOK
    <3>4. u # t => term'[u] = term[u]  BY <3>2 DEF Window, TypeOK
    <3> QED  BY <2>3, <3>3, <3>4 DEF NewSession, Go, TypeOK, CallsKnow
  <2>4. CASE Tag(t)  BY <2>4 DEF Tag, Go, TypeOK, CallsKnow
  <2> QED  BY <1>2, <2>1, <2>2, <2>3, <2>4 DEF Starting
<1>3. ASSUME NEW t \in Threads, Closing(t) PROVE Known
  <2>1. CASE Close(t)
    BY <2>1 DEF Close, Called, Go, TypeOK, CallsKnow, Terminal
  <2>2. CASE Check(t)  BY <2>2 DEF Check, Go, TypeOK, CallsKnow
  <2>3. CASE Kill(t)  BY <2>3 DEF Kill, Go, TypeOK, CallsKnow
  <2>4. CASE Mark(t)  BY <2>4 DEF Mark, Go, TypeOK, CallsKnow
  <2> QED  BY <1>3, <2>1, <2>2, <2>3, <2>4 DEF Closing
<1>4. ASSUME NEW t \in Threads, GiveUp(t) PROVE Known
  BY <1>4 DEF GiveUp, Go, TypeOK, CallsKnow
<1>5. ASSUME NEW p \in Projects, WindowEnds(p) PROVE Known
  BY <1>5 DEF WindowEnds, CallsKnow
<1>6. CASE TmuxCrash  BY <1>6 DEF TmuxCrash, CallsKnow
<1>7. CASE DaemonCrash  BY <1>7 DEF DaemonCrash, TypeOK
<1> QED  BY <1>1, <1>2, <1>3, <1>4, <1>5, <1>6, <1>7 DEF Next

(***************************************************************************)
(* Steps that make nothing.                                                *)
(***************************************************************************)
Rest == WindowsDiffer /\ RowsForgotten /\ RowsPresent /\ RowsPresentForMaker

(* Rows, sessions, row-holders and calls at new_session are old ones.      *)
Quiet ==
  /\ server' = server /\ nextWin' = nextWin
  /\ rows' \subseteq rows
  /\ \A p \in Projects : session'[p] \subseteq session[p]
  /\ \A t \in Threads :
       /\ Holds(t)' => Holds(t) /\ term'[t] = term[t] /\ project'[t] = project[t]
       /\ pc'[t] = "new_session" => pc[t] = "new_session" /\ project'[t] = project[t]

LEMMA QuietKeeps == ASSUME Rest, Quiet PROVE Rest'
<1>1. WindowsDiffer'
  BY DEF Rest, Quiet, WindowsDiffer, Old, Same
<1>2. \A p : Timely(p)' \subseteq Timely(p)
  BY DEF Quiet, Timely
<1>3. RowsForgotten'
  BY <1>2 DEF Rest, Quiet, RowsForgotten
<1>4. RowsPresent'
  BY <1>2 DEF Rest, Quiet, RowsPresent, Exists
<1>5. RowsPresentForMaker'
  BY <1>2 DEF Rest, Quiet, RowsPresentForMaker
<1> QED  BY <1>1, <1>3, <1>4, <1>5 DEF Rest

LEMMA MostAreQuiet ==
  TypeOK /\ Next =>
    \/ Quiet
    \/ \E t \in Threads : Forget(t) \/ NewSession(t) \/ NewWindow(t) \/ Insert(t)
<1> SUFFICES ASSUME TypeOK, Next,
                    \A t \in Threads : ~Forget(t) /\ ~NewSession(t) /\ ~NewWindow(t) /\ ~Insert(t)
             PROVE  Quiet
  OBVIOUS
<1>1. ASSUME NEW t \in Threads, CreateAuxiliary(t) \/ Verify(t) PROVE Quiet
  BY <1>1 DEF CreateAuxiliary, Verify, Called, Go, Quiet, Holds, TypeOK, tmux
<1>2. ASSUME NEW t \in Threads, Start(t) PROVE Quiet
  BY <1>2 DEF Start, Called, Go, Quiet, Holds, TypeOK, tmux
<1>3. ASSUME NEW t \in Threads, Tag(t) PROVE Quiet
  BY <1>3 DEF Tag, Go, Quiet, Holds, TypeOK
<1>4. ASSUME NEW t \in Threads, Close(t) \/ Check(t) PROVE Quiet
  BY <1>4 DEF Close, Check, Called, Go, Quiet, Holds, TypeOK, tmux
<1>5. ASSUME NEW t \in Threads, Kill(t) PROVE Quiet
  BY <1>5 DEF Kill, Gone, Go, Quiet, Holds, TypeOK
<1>6. ASSUME NEW t \in Threads, Mark(t) \/ GiveUp(t) PROVE Quiet
  BY <1>6 DEF Mark, GiveUp, Go, Quiet, Holds, TypeOK, tmux
<1>7. ASSUME NEW p \in Projects, WindowEnds(p) PROVE Quiet
  BY <1>7 DEF WindowEnds, Gone, Quiet, Holds, TypeOK
<1>8. CASE TmuxCrash  BY <1>8 DEF TmuxCrash, Quiet, Holds, TypeOK
<1>9. CASE DaemonCrash  BY <1>9 DEF DaemonCrash, Quiet, Holds, TypeOK, tmux
<1> QED  BY <1>1, <1>2, <1>3, <1>4, <1>5, <1>6, <1>7, <1>8, <1>9
          DEF Next, Making, Starting, Closing

(***************************************************************************)
(* The four that are not.                                                  *)
(***************************************************************************)
LEMMA ForgetKeeps ==
  ASSUME TypeOK, Rest, NEW t \in Threads, Forget(t) PROVE Rest'
<1>1. /\ server' = server /\ nextWin' = nextWin /\ session' = session
      /\ rows' = {r \in rows : r.project # project[t]}
      /\ term' = term /\ project' = project
      /\ pc' = [pc EXCEPT ![t] = "new_session"]
  BY DEF Forget, Go, tmux
<1>2. \A u \in Threads : Holds(u)' <=> Holds(u) /\ u # t
  BY <1>1 DEF Holds, Forget, TypeOK
<1>3. WindowsDiffer'  BY <1>1, <1>2 DEF Rest, WindowsDiffer, Old, Same
<1>4. \A p : Timely(p)' \subseteq Timely(p)  BY <1>1 DEF Timely
<1>5. RowsForgotten'
  <2> SUFFICES ASSUME NEW u \in Threads, pc'[u] = "new_session" PROVE Timely(project[u])' = {}
    BY <1>1 DEF RowsForgotten
  <2>1. CASE u = t  BY <1>1, <2>1 DEF Timely
  <2>2. CASE u # t
    BY <1>1, <1>4, <2>2 DEF Rest, RowsForgotten, TypeOK
  <2> QED  BY <2>1, <2>2
<1>6. RowsPresent'  BY <1>1, <1>4 DEF Rest, RowsPresent, Exists
<1>7. RowsPresentForMaker'  BY <1>1, <1>2, <1>4 DEF Rest, RowsPresentForMaker
<1> QED  BY <1>3, <1>5, <1>6, <1>7 DEF Rest

(* A window that is not made yet is nobody's.                              *)
LEMMA NewWindowDiffers ==
  ASSUME TypeOK, WindowsDiffer, NEW t \in Threads, NEW p \in Projects,
         NEW w \in Nat, NEW s \in Nat, Window(t, p, w, s), server' = s, rows' = rows,
         s > server \/ (s = server /\ w = nextWin),
         CallsKnow,
         \A u \in Threads : u # t => (Holds(u)' <=> Holds(u))
  PROVE  WindowsDiffer'
<1>1. /\ nextWin' = w + 1
      /\ term' = [term EXCEPT ![t] = [project |-> p, win |-> w, server |-> s, late |-> FALSE]]
  BY DEF Window
<1>2. term'[t].win = w /\ term'[t].server = s /\ \A u \in Threads : u # t => term'[u] = term[u]
  BY <1>1 DEF TypeOK
<1>3. /\ \A r \in rows : r.win \in Nat /\ r.server \in Nat
      /\ \A u \in Threads : Holds(u) => term[u].win \in Nat /\ term[u].server \in Nat
  BY DEF TypeOK, Terminal, CallsKnow, Holds
<1>4. server \in Nat /\ nextWin \in Nat  BY DEF TypeOK
<1>5. ASSUME NEW r, r.win \in Nat, r.server \in Nat, Old(r)
      PROVE  Old(r)' /\ ~(r.server = s /\ r.win = w)
  BY <1>1, <1>4, <1>5 DEF Old
<1>6. \A r \in rows' : Old(r)'  BY <1>3, <1>5 DEF WindowsDiffer
<1>7. ASSUME NEW u \in Threads, Holds(u)'
      PROVE  Old(term[u])' /\ \A r \in rows : ~Same(r, term[u])'
  <2>1. CASE u = t
    <3>1. Old(term[t])'  BY <1>1, <1>2, <1>4 DEF Old
    <3>2. \A r \in rows : ~Same(r, term[t])'
      BY <1>2, <1>3, <1>5 DEF WindowsDiffer, Same
    <3> QED  BY <2>1, <3>1, <3>2
  <2>2. CASE u # t
    <3>1. Holds(u) /\ term'[u] = term[u]  BY <1>2, <1>7, <2>2
    <3>2. Old(term[u]) /\ term[u].win \in Nat /\ term[u].server \in Nat
      BY <1>3, <3>1 DEF WindowsDiffer
    <3>3. Old(term[u])'  BY <1>1, <1>4, <3>1, <3>2 DEF Old
    <3> QED  BY <3>1, <3>3 DEF WindowsDiffer, Same
  <2> QED  BY <2>1, <2>2
<1>8. ASSUME NEW u \in Threads, NEW v \in Threads, Holds(u)', Holds(v)', u # v
      PROVE  ~Same(term[u], term[v])'
  <2>1. \A x \in Threads : x # t /\ Holds(x)' => ~(term[x].server = s /\ term[x].win = w)
    BY <1>3, <1>5 DEF WindowsDiffer
  <2>2. CASE u = t  BY <1>2, <1>8, <2>1, <2>2 DEF Same
  <2>3. CASE v = t  BY <1>2, <1>8, <2>1, <2>3 DEF Same
  <2>4. CASE u # t /\ v # t  BY <1>2, <1>8, <2>4 DEF WindowsDiffer, Same
  <2> QED  BY <2>2, <2>3, <2>4
<1> QED  BY <1>6, <1>7, <1>8 DEF WindowsDiffer

(* No row of the project is timely when its session is made, and every     *)
(* other project that has a session is of the server that goes on.         *)
LEMMA NewSessionKeeps ==
  ASSUME TypeOK, CallsKnow, Rest, NEW t \in Threads, NewSession(t) PROVE Rest'
<1> DEFINE p == project[t]
<1>1. p \in Projects  BY DEF NewSession, CallsKnow
<1>2. /\ server \in Nat /\ nextWin \in Nat /\ rows' = rows /\ project' = project
      /\ pc' = [pc EXCEPT ![t] = "tag"] /\ pc[t] = "new_session"
  BY DEF NewSession, Go, TypeOK
<1>3. PICK w \in Nat, s \in Nat :
        /\ Window(t, p, w, s) /\ server' = s
        /\ \/ s = server /\ w = nextWin
           \/ s = server + 1 /\ ~Up
  BY <1>2 DEF NewSession
<1>4. \A u \in Threads : u # t => (Holds(u)' <=> Holds(u))  BY <1>2 DEF Holds, TypeOK
<1>5. WindowsDiffer'
  <2>1. s > server \/ (s = server /\ w = nextWin)  BY <1>2, <1>3
  <2> QED  BY <1>1, <1>2, <1>3, <1>4, <2>1, NewWindowDiffers DEF Rest
<1>6. Timely(p) = {} /\ \A q : Timely(q)' = Timely(q)
  BY <1>2 DEF Rest, RowsForgotten, Timely
<1>7. RowsForgotten'  BY <1>2, <1>6 DEF Rest, RowsForgotten, TypeOK
<1>8. \A q \in Projects : q # p => session'[q] = session[q]
  BY <1>1, <1>3 DEF Window, TypeOK
<1>9. RowsPresent'
  <2> SUFFICES ASSUME NEW q \in Projects, NEW r \in Timely(q), Exists(q)' PROVE r.server = server'
    BY <1>6 DEF RowsPresent
  <2>1. q # p  BY <1>6
  <2>2. Exists(q)  BY <1>8, <2>1 DEF Exists
  <2>3. Up  BY <2>2 DEF Up
  <2> QED  BY <1>3, <2>2, <2>3 DEF Rest, RowsPresent
<1>10. RowsPresentForMaker'
  <2> SUFFICES ASSUME NEW u \in Threads, Holds(u)', term'[u].server = server',
                      NEW r \in Timely(project[u])
               PROVE  r.server = server'
    BY <1>2, <1>6 DEF RowsPresentForMaker
  <2>1. u # t  BY <1>6
  <2>2. Holds(u) /\ term'[u] = term[u]  BY <1>3, <1>4, <2>1 DEF Window, TypeOK
  <2>3. term[u].server \in Nat /\ term[u].server <= server
    BY <2>2 DEF CallsKnow, Holds, Terminal, Rest, WindowsDiffer, Old
  <2>4. server' = server  BY <1>2, <1>3, <2>2, <2>3
  <2> QED  BY <2>2, <2>4 DEF Rest, RowsPresentForMaker
<1> QED  BY <1>5, <1>7, <1>9, <1>10 DEF Rest

LEMMA NewWindowKeeps ==
  ASSUME TypeOK, CallsKnow, Rest, NEW t \in Threads, NewWindow(t) PROVE Rest'
<1> DEFINE p == project[t]
<1>1. p \in Projects  BY DEF NewWindow, CallsKnow
<1>2. /\ server \in Nat /\ nextWin \in Nat /\ rows' = rows /\ project' = project
      /\ pc' = [pc EXCEPT ![t] = "insert"] /\ pc[t] = "new_window"
      /\ Window(t, p, nextWin, server) /\ server' = server /\ Exists(p)
  BY DEF NewWindow, Go, TypeOK
<1>3. \A u \in Threads : u # t => (Holds(u)' <=> Holds(u))  BY <1>2 DEF Holds, TypeOK
<1>4. WindowsDiffer'  BY <1>1, <1>2, <1>3, NewWindowDiffers DEF Rest
<1>5. \A q : Timely(q)' = Timely(q)  BY <1>2 DEF Timely
<1>6. RowsForgotten'  BY <1>2, <1>5 DEF Rest, RowsForgotten, TypeOK
<1>7. \A q \in Projects : Exists(q)' => Exists(q)
  BY <1>1, <1>2 DEF Window, TypeOK, Exists
<1>8. RowsPresent'  BY <1>2, <1>5, <1>7 DEF Rest, RowsPresent
<1>9. RowsPresentForMaker'
  <2> SUFFICES ASSUME NEW u \in Threads, Holds(u)', term'[u].server = server,
                      NEW r \in Timely(project[u])
               PROVE  r.server = server
    BY <1>2, <1>5 DEF RowsPresentForMaker
  <2>1. CASE u = t  BY <1>1, <1>2, <2>1 DEF Rest, RowsPresent
  <2>2. CASE u # t
    BY <1>2, <1>3, <2>2 DEF Rest, RowsPresentForMaker, Window, TypeOK
  <2> QED  BY <2>1, <2>2
<1> QED  BY <1>4, <1>6, <1>8, <1>9 DEF Rest

(* A row that is not late is of the present server.                        *)
LEMMA InsertKeeps ==
  ASSUME TypeOK, CallsKnow, Rest, NEW t \in Threads, Insert(t) PROVE Rest'
<1> DEFINE x == [term[t] EXCEPT !.late = Late(t)]
<1>1. /\ server' = server /\ nextWin' = nextWin /\ session' = session
      /\ rows' \subseteq rows \cup {x}
      /\ term' = term /\ project' = project
      /\ pc' = [pc EXCEPT ![t] = "idle"] /\ pc[t] = "insert"
  BY DEF Insert, Go, tmux
<1>2. /\ x.server = term[t].server /\ x.win = term[t].win
      /\ x.project = project[t] /\ x.late = Late(t)
  BY <1>1 DEF CallsKnow, Terminal
<1> HIDE DEF x
<1>3. \A u \in Threads : Holds(u)' <=> Holds(u) /\ u # t
  BY <1>1 DEF Holds, TypeOK
<1>4. Holds(t)  BY <1>1 DEF Holds
<1>5. WindowsDiffer'
  <2>1. \A r \in rows' : Old(r)'
    BY <1>1, <1>2, <1>4 DEF Rest, WindowsDiffer, Old
  <2>2. \A u \in Threads : Holds(u)' => Old(term[u])' /\ \A r \in rows' : ~Same(r, term[u])'
    BY <1>1, <1>2, <1>3, <1>4 DEF Rest, WindowsDiffer, Old, Same
  <2>3. \A u, v \in Threads : Holds(u)' /\ Holds(v)' /\ u # v => ~Same(term[u], term[v])'
    BY <1>1, <1>3 DEF Rest, WindowsDiffer, Same
  <2> QED  BY <1>1, <2>1, <2>2, <2>3 DEF WindowsDiffer
<1>6. \A q : Timely(q)' \subseteq Timely(q) \cup {r \in {x} : q = project[t] /\ ~Late(t)}
  BY <1>1, <1>2 DEF Timely
<1>7. ~Late(t) => x.server = server  BY <1>2 DEF Late
<1>8. RowsForgotten'
  <2> SUFFICES ASSUME NEW u \in Threads, pc'[u] = "new_session" PROVE Timely(project[u])' = {}
    BY <1>1 DEF RowsForgotten
  <2>1. pc[u] = "new_session"  BY <1>1 DEF TypeOK
  <2>2. project[u] = project[t] => Late(t)  BY <2>1 DEF Late
  <2> QED  BY <1>1, <1>6, <2>1, <2>2 DEF Rest, RowsForgotten
<1>9. RowsPresent'  BY <1>1, <1>6, <1>7 DEF Rest, RowsPresent, Exists
<1>10. RowsPresentForMaker'  BY <1>1, <1>3, <1>6, <1>7 DEF Rest, RowsPresentForMaker
<1> QED  BY <1>5, <1>8, <1>9, <1>10 DEF Rest

LEMMA StepInv == RegistryInv /\ [Next]_vars => RegistryInv'
<1> SUFFICES ASSUME RegistryInv, [Next]_vars PROVE RegistryInv'  OBVIOUS
<1>1. CASE Next
  <2>1. TypeOK' /\ CallsKnow'  BY <1>1, StepType, StepKnow DEF RegistryInv
  <2>2. Rest  BY DEF RegistryInv, Rest
  <2>3. ASSUME NEW t \in Threads, Forget(t) \/ NewSession(t) \/ NewWindow(t) \/ Insert(t)
        PROVE  Rest'
    BY <2>2, <2>3, ForgetKeeps, NewSessionKeeps, NewWindowKeeps, InsertKeeps DEF RegistryInv
  <2>4. Rest'  BY <1>1, <2>2, <2>3, MostAreQuiet, QuietKeeps DEF RegistryInv
  <2> QED  BY <2>1, <2>4 DEF RegistryInv, Rest
<1>2. CASE UNCHANGED vars
  BY <1>2 DEF vars, tmux, bounds, RegistryInv, TypeOK, CallsKnow, WindowsDiffer, Old, Same, Holds,
              RowsForgotten, RowsPresent, RowsPresentForMaker, Timely, Exists
<1> QED  BY <1>1, <1>2

(* The inductive invariant holds: terminals name different windows, and a  *)
(* project's rows are closed before its session is made anew.              *)
THEOREM RegistryInvariance == Spec => []RegistryInv
<1>1. RegistryInv /\ [Next]_vars => RegistryInv'  BY StepInv
<1> QED  BY <1>1, InitInv, PTL DEF Spec

(* An open terminal names no window of another terminal, however often     *)
(* tmux starts anew and counts from zero (start_managed_runner's           *)
(* close_project_terminals), unless its row is late.                       *)
THEOREM OwnWindows == Spec => []RowsNameOwnWindows
<1>1. RegistryInv => RowsNameOwnWindows
  <2> SUFFICES ASSUME RegistryInv, NEW r \in rows, ~r.late, r.win \in session[r.project]
               PROVE  r.server = server
    BY DEF RowsNameOwnWindows
  <2>1. r.project \in Projects  BY DEF RegistryInv, TypeOK, Terminal
  <2> QED  BY <2>1 DEF RegistryInv, RowsPresent, Timely, Exists
<1> QED  BY <1>1, RegistryInvariance, PTL

(* insert_terminal is refused for a window of the present server only by a *)
(* late row.                                                               *)
THEOREM WindowsRecorded == Spec => []WindowsGetRows
<1>1. RegistryInv => WindowsGetRows
  <2> SUFFICES ASSUME RegistryInv, NEW t \in Threads, pc[t] = "insert",
                      term[t].server = server, NEW r \in Taken(t), ~r.late
               PROVE  FALSE
    BY DEF WindowsGetRows, RegistryInv, TypeOK, Taken, Terminal
  <2>1. Holds(t)  BY DEF Holds
  <2>2. r \in Timely(project[t]) /\ r.win = term[t].win  BY DEF Taken, Timely
  <2>3. r.server = server  BY <2>1, <2>2 DEF RegistryInv, RowsPresentForMaker
  <2> QED  BY <2>1, <2>2, <2>3 DEF RegistryInv, WindowsDiffer, Same, Timely
<1> QED  BY <1>1, RegistryInvariance, PTL
=============================================================================
