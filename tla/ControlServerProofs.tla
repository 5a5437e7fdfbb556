------------------------- MODULE ControlServerProofs -------------------------
(***************************************************************************)
(* Proofs about ControlServer, for any daemons, connections, operations    *)
(* and limit of connections.                                               *)
(***************************************************************************)
EXTENDS ControlServer, FiniteSetTheorems, TLAPS

Actions ==
  \/ \E d \in Daemons :
       Start(d) \/ Crash(d) \/ Scan(d) \/ UnlinkOld(d) \/ Bind(d) \/ Stop(d) \/ Unlink(d) \/ Exit(d)
  \/ \E c \in Connections :
       \/ Connect(c) \/ HangUp(c) \/ Handshake(c) \/ Request(c) \/ Shutdown(c)
       \/ Accept(c) \/ TurnAway(c) \/ Close(c)
       \/ Select(c) \/ Insert(c) \/ Execute(c) \/ Complete(c) \/ Answer(c)

LEMMA NextIsActions == Next => Actions
BY DEF Next, Actions, Client, Loop, Thread

LEMMA InitInv == Init => ServerInv
<1> SUFFICES ASSUME Init PROVE ServerInv  OBVIOUS
<1>1. TypeOK  BY DEF Init, TypeOK, Phases, Places
<1>2. Alone  BY ServerAssumption DEF Init, Alone
<1>3. ThreadHolds  BY DEF Init, ThreadHolds
<1>4. RowsKept  BY DEF Init, RowsKept
<1>5. OwnersKnown  BY DEF Init, OwnersKnown, Owns
<1>6. SlotsAccounted
  <2>1. \A d \in Daemons : Serving(d) = {}  BY DEF Init, Serving
  <2>2. Cardinality({}) = 0  BY FS_EmptySet
  <2>3. \A d \in Daemons : Cardinality(Serving(d)) = 0  BY <2>1, <2>2
  <2> QED  BY <2>3, ServerAssumption DEF Init, SlotsAccounted
<1> QED  BY <1>1, <1>2, <1>3, <1>4, <1>5, <1>6 DEF ServerInv

(* Threads that end keep what the others know.                             *)
LEMMA ClearType ==
  ASSUME TypeOK, NEW C, Clear(C)
  PROVE  /\ at' \in [Connections -> Places] /\ to' \in [Connections -> Daemons \cup {None}]
         /\ gone' \in [Connections -> BOOLEAN] /\ shaken' \in [Connections -> BOOLEAN]
         /\ ask' \in [Connections -> [operation : Operations, meaning : Meanings] \cup {None}]
         /\ reply' \in [Connections -> Nat \cup {None}]
<1>1. at' \in [Connections -> Places]  BY DEF TypeOK, Clear, Places
<1>2. to' \in [Connections -> Daemons \cup {None}]  BY DEF TypeOK, Clear
<1>3. gone' \in [Connections -> BOOLEAN]  BY Zenon DEF TypeOK, Clear
<1>4. shaken' \in [Connections -> BOOLEAN]  BY Zenon DEF TypeOK, Clear
<1>5. ask' \in [Connections -> [operation : Operations, meaning : Meanings] \cup {None}]  BY DEF TypeOK, Clear
<1>6. reply' \in [Connections -> Nat \cup {None}]  BY DEF TypeOK, Clear
<1> QED  BY <1>1, <1>2, <1>3, <1>4, <1>5, <1>6

LEMMA ClearThreads ==
  ASSUME TypeOK, NEW C, Clear(C), ThreadHolds
  PROVE  ThreadHolds'
BY DEF TypeOK, Clear, ThreadHolds

LEMMA ClearOwners ==
  ASSUME TypeOK, NEW C, Clear(C), OwnersKnown, UNCHANGED journal
  PROVE  OwnersKnown'
<1>1. \A c \in Connections : Owns(c)' => Owns(c) /\ ask'[c] = ask[c] /\ at'[c] = at[c]  BY DEF Clear, Owns
<1>2. \A c \in Connections : reply'[c] # None => reply'[c] = reply[c] /\ ask'[c] = ask[c]  BY DEF Clear
<1>3. \A c \in Connections : at'[c] \in {"execute", "complete"} => Owns(c)'  BY DEF Owns
<1> QED  BY <1>1, <1>2, <1>3 DEF OwnersKnown, journal, Owns

LEMMA TypeStep == ServerInv /\ [Next]_vars => TypeOK'
<1> SUFFICES ASSUME TypeOK, ThreadHolds, SlotsAccounted, Actions \/ UNCHANGED vars PROVE TypeOK'
  BY NextIsActions DEF ServerInv
<1> USE ServerAssumption
<1>1. ASSUME NEW d \in Daemons, Start(d) PROVE TypeOK'
  BY <1>1 DEF Start, TypeOK, Phases, thread, journal
<1>2. ASSUME NEW d \in Daemons, Ends(d), socket' \in Daemons \cup {None, "stale"} PROVE TypeOK'
  BY <1>2, ClearType DEF Ends, TypeOK, Phases, journal
<1>3. ASSUME NEW d \in Daemons, Crash(d) PROVE TypeOK'
  BY <1>3, <1>2 DEF Crash, TypeOK
<1>4. ASSUME NEW d \in Daemons, Exit(d) PROVE TypeOK'
  BY <1>4, <1>2 DEF Exit, TypeOK
<1>5. ASSUME NEW d \in Daemons, Scan(d) \/ UnlinkOld(d) \/ Bind(d) \/ Unlink(d) PROVE TypeOK'
  BY <1>5 DEF Scan, UnlinkOld, Bind, Unlink, TypeOK, Phases, thread, journal
<1>6. ASSUME NEW d \in Daemons, Stop(d) PROVE TypeOK'
  BY <1>6, ClearType DEF Stop, TypeOK, Phases, journal
<1>7. ASSUME NEW c \in Connections, Connect(c) \/ HangUp(c) \/ Handshake(c) PROVE TypeOK'
  <2>1. CASE Connect(c)  BY <2>1 DEF Connect, TypeOK, Places, process, journal
  <2>2. CASE HangUp(c)  BY <2>2 DEF HangUp, TypeOK, process, journal
  <2>3. CASE Handshake(c)  BY <2>3 DEF Handshake, TypeOK, process, journal
  <2> QED  BY <1>7, <2>1, <2>2, <2>3
<1>8. ASSUME NEW c \in Connections, Request(c) \/ Shutdown(c) PROVE TypeOK'
  <2>1. CASE Request(c)  BY <2>1 DEF Request, Asks, TypeOK, Places, process, journal
  <2>2. CASE Shutdown(c)  BY <2>2 DEF Shutdown, Asks, TypeOK, thread, journal
  <2> QED  BY <1>8, <2>1, <2>2
<1>9. ASSUME NEW c \in Connections, Accept(c) PROVE TypeOK'
  <2>1. to[c] \in Daemons  BY <1>9 DEF Accept, ThreadHolds, TypeOK
  <2>2. active' \in [Daemons -> Nat]  BY <1>9, <2>1 DEF Accept, TypeOK
  <2> QED  BY <1>9, <2>2 DEF Accept, TypeOK, Places, process, journal
<1>10. ASSUME NEW c \in Connections, TurnAway(c) PROVE TypeOK'
  BY <1>10, ClearType DEF TurnAway, TypeOK, process, journal
<1>11. ASSUME NEW c \in Connections, Close(c) PROVE TypeOK'
  <2>1. to[c] \in Daemons /\ c \in Serving(to[c])  BY <1>11 DEF Close, ThreadHolds, TypeOK, Serving
  <2>2. IsFiniteSet(Serving(to[c]))  BY FS_Subset DEF Serving
  <2>3. Cardinality(Serving(to[c])) # 0  BY <2>1, <2>2, FS_EmptySet
  <2>4. active[to[c]] \in Nat \ {0}  BY <2>1, <2>3 DEF SlotsAccounted, TypeOK
  <2>5. active[to[c]] - 1 \in Nat  BY <2>4
  <2>6. active' = [active EXCEPT ![to[c]] = active[to[c]] - 1]  BY <1>11 DEF Close
  <2>7. active' \in [Daemons -> Nat]  BY <2>5, <2>6 DEF TypeOK
  <2> QED  BY <1>11, <2>7, ClearType DEF Close, TypeOK, process, journal
<1>12. ASSUME NEW c \in Connections, Select(c) PROVE TypeOK'
  <2>1. ask[c].operation \in Operations  BY <1>12 DEF Select, ThreadHolds, TypeOK
  <2> QED  BY <1>12, <2>1 DEF Select, TypeOK, Places, process, journal
<1>13. ASSUME NEW c \in Connections, Insert(c) PROVE TypeOK'
  <2>1. ask[c].operation \in Operations /\ ask[c].meaning \in Meanings  BY <1>13 DEF Insert, ThreadHolds, TypeOK
  <2> QED  BY <1>13, <2>1 DEF Insert, TypeOK, Places, process
<1>14. ASSUME NEW c \in Connections, Execute(c) PROVE TypeOK'
  <2>1. ask[c].operation \in Operations  BY <1>14 DEF Execute, ThreadHolds, TypeOK
  <2> QED  BY <1>14, <2>1 DEF Execute, TypeOK, Places, process
<1>15. ASSUME NEW c \in Connections, Complete(c) PROVE TypeOK'
  <2>1. ask[c].operation \in Operations  BY <1>15 DEF Complete, ThreadHolds, TypeOK
  <2> QED  BY <1>15, <2>1 DEF Complete, TypeOK, Places, process
<1>16. ASSUME NEW c \in Connections, Answer(c) PROVE TypeOK'
  BY <1>16 DEF Answer, TypeOK, Places, process
<1>17. CASE UNCHANGED vars
  BY <1>17 DEF TypeOK, vars, process, thread, journal
<1> QED  BY <1>1, <1>3, <1>4, <1>5, <1>6, <1>7, <1>8, <1>9, <1>10, <1>11, <1>12, <1>13, <1>14, <1>15, <1>16, <1>17 DEF Actions

LEMMA AloneStep == ServerInv /\ [Next]_vars => Alone'
<1> SUFFICES ASSUME TypeOK, Alone, Actions \/ UNCHANGED vars PROVE Alone'
  BY NextIsActions DEF ServerInv
<1> USE ServerAssumption
<1>1. ASSUME NEW d \in Daemons, Start(d) PROVE Alone'
  BY <1>1 DEF Start, TypeOK, Alone
<1>2. ASSUME NEW d \in Daemons, Crash(d) PROVE Alone'
  BY <1>2 DEF Crash, Ends, TypeOK, Alone
<1>3. ASSUME NEW d \in Daemons, Exit(d) PROVE Alone'
  BY <1>3 DEF Exit, Ends, TypeOK, Alone
<1>4. ASSUME NEW d \in Daemons, Scan(d) PROVE Alone'
  BY <1>4 DEF Scan, TypeOK, Alone
<1>5. ASSUME NEW d \in Daemons, UnlinkOld(d) PROVE Alone'
  BY <1>5 DEF UnlinkOld, TypeOK, Alone
<1>6. ASSUME NEW d \in Daemons, Bind(d) PROVE Alone'
  BY <1>6 DEF Bind, TypeOK, Alone
<1>7. ASSUME NEW d \in Daemons, Stop(d) PROVE Alone'
  BY <1>7 DEF Stop, TypeOK, Alone
<1>8. ASSUME NEW d \in Daemons, Unlink(d) PROVE Alone'
  BY <1>8 DEF Unlink, TypeOK, Alone
<1>9. ASSUME UNCHANGED <<lock, socket, phase>> PROVE Alone'
  BY <1>9 DEF Alone
<1>10. ASSUME NEW c \in Connections, Connect(c) \/ HangUp(c) \/ Handshake(c) \/ Request(c) \/ Shutdown(c)
       PROVE Alone'
  BY <1>9, <1>10 DEF Connect, HangUp, Handshake, Request, Shutdown, process
<1>11. ASSUME NEW c \in Connections, Accept(c) \/ TurnAway(c) \/ Close(c) PROVE Alone'
  BY <1>9, <1>11 DEF Accept, TurnAway, Close, process
<1>12. ASSUME NEW c \in Connections, Select(c) \/ Insert(c) \/ Execute(c) \/ Complete(c) \/ Answer(c) PROVE Alone'
  BY <1>9, <1>12 DEF Select, Insert, Execute, Complete, Answer, process
<1>13. CASE UNCHANGED vars  BY <1>9, <1>13 DEF vars, process
<1> QED  BY <1>1, <1>2, <1>3, <1>4, <1>5, <1>6, <1>7, <1>8, <1>10, <1>11, <1>12, <1>13 DEF Actions

LEMMA ThreadStep == ServerInv /\ [Next]_vars => ThreadHolds'
<1> SUFFICES ASSUME TypeOK, ThreadHolds, Actions \/ UNCHANGED vars PROVE ThreadHolds'
  BY NextIsActions DEF ServerInv
<1> USE ServerAssumption
<1>1. ASSUME UNCHANGED <<at, to, ask, reply>> PROVE ThreadHolds'
  BY <1>1 DEF ThreadHolds
<1>2. ASSUME NEW d \in Daemons, Start(d) \/ Scan(d) \/ UnlinkOld(d) \/ Bind(d) \/ Unlink(d) PROVE ThreadHolds'
  BY <1>1, <1>2 DEF Start, Scan, UnlinkOld, Bind, Unlink, thread
<1>3. ASSUME NEW d \in Daemons, Crash(d) \/ Exit(d) \/ Stop(d) PROVE ThreadHolds'
  BY <1>3, ClearThreads DEF Crash, Exit, Ends, Stop
<1>4. ASSUME NEW c \in Connections, TurnAway(c) \/ Close(c) PROVE ThreadHolds'
  BY <1>4, ClearThreads DEF TurnAway, Close
<1>5. ASSUME NEW c \in Connections, HangUp(c) \/ Handshake(c) \/ Shutdown(c) PROVE ThreadHolds'
  BY <1>1, <1>5 DEF HangUp, Handshake, Shutdown, thread
<1>6. ASSUME NEW c \in Connections, Connect(c) PROVE ThreadHolds'
  BY <1>6 DEF Connect, TypeOK, ThreadHolds
<1>7. ASSUME NEW c \in Connections, Accept(c) PROVE ThreadHolds'
  BY <1>7 DEF Accept, TypeOK, ThreadHolds
<1>8. ASSUME NEW c \in Connections, Request(c) PROVE ThreadHolds'
  <2>1. PICK o \in Operations, m \in Meanings : ask' = [ask EXCEPT ![c] = [operation |-> o, meaning |-> m]]
    BY <1>8 DEF Request
  <2>2. [operation |-> o, meaning |-> m] # None
    BY <1>8
  <2> QED  BY <1>8, <2>1, <2>2 DEF Request, Asks, TypeOK, ThreadHolds
<1>9. ASSUME NEW c \in Connections, Select(c) \/ Insert(c) PROVE ThreadHolds'
  BY <1>9 DEF Select, Insert, TypeOK, ThreadHolds
<1>10. ASSUME NEW c \in Connections, Execute(c) \/ Complete(c) PROVE ThreadHolds'
  BY <1>10 DEF Execute, Complete, TypeOK, ThreadHolds
<1>11. ASSUME NEW c \in Connections, Answer(c) PROVE ThreadHolds'
  BY <1>11 DEF Answer, TypeOK, ThreadHolds
<1>12. CASE UNCHANGED vars  BY <1>1, <1>12 DEF vars, thread
<1> QED  BY <1>2, <1>3, <1>4, <1>5, <1>6, <1>7, <1>8, <1>9, <1>10, <1>11, <1>12 DEF Actions

LEMMA RowsStep == ServerInv /\ [Next]_vars => RowsKept'
<1> SUFFICES ASSUME TypeOK, ThreadHolds, RowsKept, OwnersKnown, Actions \/ UNCHANGED vars PROVE RowsKept'
  BY NextIsActions DEF ServerInv
<1> USE ServerAssumption
<1>1. ASSUME UNCHANGED <<meaning, result, runs>> PROVE RowsKept'
  BY <1>1 DEF RowsKept
<1>2. ASSUME NEW d \in Daemons,
             Start(d) \/ Crash(d) \/ Scan(d) \/ UnlinkOld(d) \/ Bind(d) \/ Stop(d) \/ Unlink(d) \/ Exit(d)
      PROVE  RowsKept'
  BY <1>1, <1>2 DEF Start, Crash, Scan, UnlinkOld, Bind, Stop, Unlink, Exit, Ends, journal
<1>3. ASSUME NEW c \in Connections,
             \/ Connect(c) \/ HangUp(c) \/ Handshake(c) \/ Request(c) \/ Shutdown(c)
             \/ Accept(c) \/ TurnAway(c) \/ Close(c) \/ Select(c) \/ Answer(c)
      PROVE  RowsKept'
  BY <1>1, <1>3 DEF Connect, HangUp, Handshake, Request, Shutdown, Accept, TurnAway, Close, Select, Answer, journal
<1>4. ASSUME NEW c \in Connections, Insert(c) PROVE RowsKept'
  <2>1. ask[c].operation \in Operations /\ ask[c].meaning \in Meanings  BY <1>4 DEF Insert, ThreadHolds, TypeOK
  <2> QED  BY <1>4, <2>1 DEF Insert, RowsKept, TypeOK
<1>5. ASSUME NEW c \in Connections, Execute(c) PROVE RowsKept'
  <2>1. ask[c].operation \in Operations /\ ask[c].meaning \in Meanings  BY <1>5 DEF Execute, ThreadHolds, TypeOK
  <2>2. runs[ask[c].operation] = 0 /\ meaning[ask[c].operation] # None /\ result[ask[c].operation] = None
    BY <1>5, <2>1 DEF Execute, OwnersKnown, Owns
  <2> QED  BY <1>5, <2>1, <2>2 DEF Execute, RowsKept, TypeOK
<1>6. ASSUME NEW c \in Connections, Complete(c) PROVE RowsKept'
  <2>1. ask[c].operation \in Operations  BY <1>6 DEF Complete, ThreadHolds, TypeOK
  <2>2. runs[ask[c].operation] = 1  BY <1>6 DEF Complete, OwnersKnown
  <2> QED  BY <1>6, <2>1, <2>2 DEF Complete, RowsKept, TypeOK
<1>7. CASE UNCHANGED vars  BY <1>1, <1>7 DEF vars, journal
<1> QED  BY <1>2, <1>3, <1>4, <1>5, <1>6, <1>7 DEF Actions

(* A thread that neither gains an operation nor a result knows what it     *)
(* knew.                                                                   *)
LEMMA SameRows ==
  ASSUME OwnersKnown, UNCHANGED <<meaning, result, runs>>,
         \A e \in Connections :
           /\ at'[e] \in {"execute", "complete"} => at'[e] = at[e] /\ ask'[e] = ask[e]
           /\ reply'[e] # None => reply'[e] = reply[e] /\ ask'[e] = ask[e]
  PROVE  OwnersKnown'
BY DEF OwnersKnown, Owns

LEMMA OwnersStep == ServerInv /\ [Next]_vars => OwnersKnown'
<1> SUFFICES ASSUME TypeOK, ThreadHolds, RowsKept, OwnersKnown, Actions \/ UNCHANGED vars PROVE OwnersKnown'
  BY NextIsActions DEF ServerInv
<1> USE ServerAssumption
<1>1. ASSUME UNCHANGED <<at, ask, reply>>, UNCHANGED <<meaning, result, runs>> PROVE OwnersKnown'
  BY <1>1, SameRows
<1>2. ASSUME NEW d \in Daemons, Start(d) \/ Scan(d) \/ UnlinkOld(d) \/ Bind(d) \/ Unlink(d) PROVE OwnersKnown'
  BY <1>1, <1>2 DEF Start, Scan, UnlinkOld, Bind, Unlink, thread, journal
<1>3. ASSUME NEW d \in Daemons, Crash(d) \/ Exit(d) \/ Stop(d) PROVE OwnersKnown'
  BY <1>3, ClearOwners DEF Crash, Exit, Ends, Stop
<1>4. ASSUME NEW c \in Connections, TurnAway(c) \/ Close(c) PROVE OwnersKnown'
  BY <1>4, ClearOwners DEF TurnAway, Close
<1>5. ASSUME NEW c \in Connections, HangUp(c) \/ Handshake(c) \/ Shutdown(c) PROVE OwnersKnown'
  BY <1>1, <1>5 DEF HangUp, Handshake, Shutdown, thread, journal
<1>6. ASSUME NEW c \in Connections, Connect(c) PROVE OwnersKnown'
  BY <1>6, SameRows DEF Connect, TypeOK, journal
<1>7. ASSUME NEW c \in Connections, Accept(c) PROVE OwnersKnown'
  BY <1>7, SameRows DEF Accept, TypeOK, journal
<1>8. ASSUME NEW c \in Connections, Request(c) PROVE OwnersKnown'
  <2>1. reply[c] = None  BY <1>8 DEF Request, Asks, ThreadHolds
  <2>2. \A e \in Connections : e # c => at'[e] = at[e] /\ ask'[e] = ask[e]  BY <1>8 DEF Request, TypeOK
  <2>3. at'[c] \in {"select", "answer"}  BY <1>8 DEF Request, TypeOK
  <2>4. UNCHANGED <<meaning, result, runs>> /\ reply' = reply  BY <1>8 DEF Request, journal
  <2> QED  BY <2>1, <2>2, <2>3, <2>4, SameRows
<1>9. ASSUME NEW c \in Connections, Answer(c) PROVE OwnersKnown'
  <2>1. \A e \in Connections : e # c => at'[e] = at[e] /\ ask'[e] = ask[e] /\ reply'[e] = reply[e]
    BY <1>9 DEF Answer, TypeOK
  <2>2. at'[c] = "idle" /\ reply'[c] = None  BY <1>9 DEF Answer, TypeOK
  <2>3. UNCHANGED <<meaning, result, runs>>  BY <1>9 DEF Answer
  <2> QED  BY <2>1, <2>2, <2>3, SameRows
<1>10. ASSUME NEW c \in Connections, Select(c) PROVE OwnersKnown'
  <2>1. ask' = ask /\ UNCHANGED <<meaning, result, runs>>  BY <1>10 DEF Select, journal
  <2>2. \A e \in Connections : e # c => at'[e] = at[e] /\ reply'[e] = reply[e]  BY <1>10 DEF Select, TypeOK
  <2>3. at'[c] \notin {"execute", "complete"}  BY <1>10 DEF Select, TypeOK
  <2>4. reply'[c] # None => /\ meaning[ask[c].operation] = ask[c].meaning
                            /\ result[ask[c].operation] = reply'[c]
    BY <1>10 DEF Select, TypeOK
  <2> QED  BY <2>1, <2>2, <2>3, <2>4 DEF OwnersKnown, Owns
<1>11. ASSUME NEW c \in Connections, Insert(c) PROVE OwnersKnown'
  <2> DEFINE o == ask[c].operation
  <2>1. o \in Operations /\ ask[c].meaning \in Meanings  BY <1>11 DEF Insert, ThreadHolds, TypeOK
  <2>2. reply' = reply /\ ask' = ask /\ UNCHANGED <<result, runs>>  BY <1>11 DEF Insert
  <2>3. \A e \in Connections : e # c => at'[e] = at[e]  BY <1>11 DEF Insert, TypeOK
  <2>4. CASE meaning[o] # None
    <3>1. meaning' = meaning /\ at'[c] = "select"  BY <1>11, <2>4 DEF Insert, TypeOK
    <3> QED  BY <2>2, <2>3, <3>1, SameRows
  <2>5. CASE meaning[o] = None
    <3>1. meaning'[o] = ask[c].meaning /\ at'[c] = "execute"  BY <1>11, <2>1, <2>5 DEF Insert, TypeOK
    <3>2. \A p \in Operations : p # o => meaning'[p] = meaning[p]  BY <1>11, <2>1, <2>5 DEF Insert, TypeOK
    <3>3. runs[o] = 0 /\ result[o] = None  BY <2>1, <2>5 DEF RowsKept
    <3>4. reply[c] = None  BY <1>11 DEF Insert, ThreadHolds
    <3>5. \A e \in Connections : (Owns(e) \/ reply[e] # None) =>
             /\ ask[e].operation \in Operations /\ ask[e].meaning \in Meanings
             /\ ask[e].operation # o
      <4> SUFFICES ASSUME NEW e \in Connections, Owns(e) \/ reply[e] # None
                   PROVE  /\ ask[e].operation \in Operations /\ ask[e].meaning \in Meanings
                          /\ ask[e].operation # o
        OBVIOUS
      <4>1. ask[e] # None  BY DEF Owns, ThreadHolds
      <4>2. ask[e].operation \in Operations /\ ask[e].meaning \in Meanings  BY <4>1 DEF TypeOK
      <4>3. meaning[ask[e].operation] = ask[e].meaning  BY DEF OwnersKnown
      <4> QED  BY <2>5, <4>2, <4>3
    <3> HIDE DEF o
    <3>6. \A e \in Connections : e # c /\ Owns(e)' => Owns(e)  BY <2>3 DEF Owns
    <3>7. ASSUME NEW e \in Connections
          PROVE LET p == ask'[e].operation IN
             /\ Owns(e)' => meaning'[p] = ask'[e].meaning /\ result'[p] = None
             /\ at'[e] = "execute" => runs'[p] = 0
             /\ at'[e] = "complete" => runs'[p] = 1
             /\ reply'[e] # None => meaning'[p] = ask'[e].meaning /\ result'[p] = reply'[e]
      <4>1. CASE e = c  BY <2>2, <3>1, <3>3, <3>4, <4>1 DEF o, Owns
      <4>2. CASE e # c  BY <2>2, <2>3, <3>2, <3>5, <3>6, <4>2 DEF OwnersKnown
      <4> QED  BY <4>1, <4>2
    <3>8. ASSUME NEW e \in Connections, NEW f \in Connections, Owns(e)', Owns(f)',
                 ask'[e].operation = ask'[f].operation
          PROVE  e = f
      <4>1. CASE e # c /\ f # c  BY <2>2, <3>6, <3>8, <4>1 DEF OwnersKnown
      <4>2. CASE e = c  BY <2>2, <3>5, <3>6, <3>8, <4>2 DEF o
      <4>3. CASE f = c  BY <2>2, <3>5, <3>6, <3>8, <4>3 DEF o
      <4> QED  BY <4>1, <4>2, <4>3
    <3> QED  BY <3>7, <3>8 DEF OwnersKnown
  <2> QED  BY <2>4, <2>5
<1>12. ASSUME NEW c \in Connections, Execute(c) \/ Complete(c) PROVE OwnersKnown'
  <2> DEFINE o == ask[c].operation
  <2>1. ask[c] # None /\ Owns(c)  BY <1>12 DEF Execute, Complete, ThreadHolds, Owns
  <2>2. o \in Operations  BY <2>1 DEF TypeOK
  <2>3. ask' = ask /\ meaning' = meaning /\ \A e \in Connections : e # c => at'[e] = at[e] /\ reply'[e] = reply[e]
    BY <1>12 DEF Execute, Complete, TypeOK
  <2>4. \A p \in Operations : p # o => runs'[p] = runs[p] /\ result'[p] = result[p]
    BY <1>12, <2>2 DEF Execute, Complete, TypeOK
  <2>5. result[o] = None /\ meaning[o] = ask[c].meaning  BY <2>1 DEF OwnersKnown
  <2>6. \A e \in Connections : e # c /\ (Owns(e) \/ reply[e] # None) =>
             ask[e].operation \in Operations /\ ask[e].operation # o
    <3> SUFFICES ASSUME NEW e \in Connections, e # c, Owns(e) \/ reply[e] # None
                 PROVE  ask[e].operation \in Operations /\ ask[e].operation # o
      OBVIOUS
    <3>1. ask[e] # None  BY DEF Owns, ThreadHolds
    <3>2. ask[e].operation \in Operations  BY <3>1 DEF TypeOK
    <3>3. CASE Owns(e)  BY <2>1, <3>2, <3>3 DEF OwnersKnown
    <3>4. CASE reply[e] # None  BY <2>5, <3>2, <3>4 DEF OwnersKnown
    <3> QED  BY <3>3, <3>4
  <2>7. /\ at'[c] = "execute" => FALSE
        /\ at'[c] = "complete" => runs'[o] = 1 /\ result'[o] = None
        /\ reply'[c] # None => result'[o] = reply'[c]
    <3>1. CASE Execute(c)
      <4>1. runs[o] = 0 /\ reply[c] = None  BY <3>1 DEF Execute, OwnersKnown, ThreadHolds
      <4>2. at'[c] \in {"complete", "answer"}  BY <3>1 DEF Execute, TypeOK
      <4>3. runs'[o] = 1 /\ result' = result /\ reply' = reply  BY <3>1, <2>2, <4>1 DEF Execute, TypeOK
      <4> QED  BY <2>5, <4>1, <4>2, <4>3
    <3>2. CASE Complete(c)
      <4>1. at'[c] = "answer"  BY <3>2 DEF Complete, TypeOK
      <4>2. result'[o] = runs[o] /\ reply'[c] = runs[o]  BY <3>2, <2>2, <2>5 DEF Complete, TypeOK
      <4> QED  BY <4>1, <4>2
    <3> QED  BY <1>12, <3>1, <3>2
  <2> HIDE DEF o
  <2>8. \A e \in Connections : Owns(e)' => Owns(e)  BY <2>1, <2>3 DEF Owns
  <2>9. ASSUME NEW e \in Connections
        PROVE LET p == ask'[e].operation IN
           /\ Owns(e)' => meaning'[p] = ask'[e].meaning /\ result'[p] = None
           /\ at'[e] = "execute" => runs'[p] = 0
           /\ at'[e] = "complete" => runs'[p] = 1
           /\ reply'[e] # None => meaning'[p] = ask'[e].meaning /\ result'[p] = reply'[e]
    <3>1. CASE e = c  BY <2>3, <2>5, <2>7, <3>1 DEF o, Owns
    <3>2. CASE e # c
      <4>1. ask'[e] = ask[e] /\ at'[e] = at[e] /\ reply'[e] = reply[e] /\ meaning' = meaning  BY <2>3, <3>2
      <4>2. Owns(e)' => Owns(e)  BY <2>8
      <4>3. Owns(e) \/ reply[e] # None => /\ runs'[ask[e].operation] = runs[ask[e].operation]
                                          /\ result'[ask[e].operation] = result[ask[e].operation]
        BY <2>4, <2>6, <3>2
      <4>4. at[e] \in {"execute", "complete"} => Owns(e)  BY DEF Owns
      <4> QED  BY <4>1, <4>2, <4>3, <4>4 DEF OwnersKnown
    <3> QED  BY <3>1, <3>2
  <2>10. ASSUME NEW e \in Connections, NEW f \in Connections, Owns(e)', Owns(f)',
                ask'[e].operation = ask'[f].operation
         PROVE  e = f
    BY <2>3, <2>8, <2>10 DEF OwnersKnown
  <2> QED  BY <2>9, <2>10 DEF OwnersKnown
<1>13. CASE UNCHANGED vars  BY <1>1, <1>13 DEF vars, thread, journal
<1> QED  BY <1>2, <1>3, <1>4, <1>5, <1>6, <1>7, <1>8, <1>9, <1>10, <1>11, <1>12, <1>13 DEF Actions

LEMMA ServingFinite == \A d \in Daemons : IsFiniteSet(Serving(d))
BY FS_Subset, ServerAssumption DEF Serving

LEMMA SlotsStep == ServerInv /\ [Next]_vars => SlotsAccounted'
<1> SUFFICES ASSUME TypeOK, ThreadHolds, SlotsAccounted, Actions \/ UNCHANGED vars PROVE SlotsAccounted'
  BY NextIsActions DEF ServerInv
<1> USE ServerAssumption
<1>1. ASSUME UNCHANGED active, \A d \in Daemons : Serving(d)' = Serving(d) PROVE SlotsAccounted'
  <2>1. \A d \in Daemons : active'[d] = active[d] /\ Cardinality(Serving(d)') = Cardinality(Serving(d))  BY <1>1
  <2> QED  BY <2>1 DEF SlotsAccounted
<1>2. ASSUME UNCHANGED <<active, to>>,
             \A c \in Connections : at'[c] \in {"closed", "queued"} <=> at[c] \in {"closed", "queued"}
      PROVE  SlotsAccounted'
  <2>1. \A d \in Daemons : Serving(d)' = Serving(d)  BY <1>2 DEF Serving
  <2> QED  BY <1>1, <1>2, <2>1
<1>3. ASSUME NEW d \in Daemons, Start(d) \/ Scan(d) \/ UnlinkOld(d) \/ Bind(d) \/ Unlink(d) PROVE SlotsAccounted'
  BY <1>2, <1>3 DEF Start, Scan, UnlinkOld, Bind, Unlink, thread
<1>4. ASSUME NEW d \in Daemons, Ends(d) PROVE SlotsAccounted'
  <2>1. Serving(d)' = {}  BY <1>4 DEF Ends, Clear, Serving
  <2>2. active'[d] = 0  BY <1>4 DEF Ends, TypeOK
  <2>3. Cardinality(Serving(d)') = 0  BY <2>1, FS_EmptySet
  <2>4. ASSUME NEW e \in Daemons, e # d PROVE Serving(e)' = Serving(e) /\ active'[e] = active[e]
    <3>1. \A c \in Connections : (to'[c] = e <=> to[c] = e) /\ (to[c] = e => at'[c] = at[c])
      BY <1>4, <2>4 DEF Ends, Clear
    <3>2. Serving(e)' = Serving(e)  BY <3>1 DEF Serving
    <3>3. active'[e] = active[e]  BY <1>4, <2>4 DEF Ends, TypeOK
    <3> QED  BY <3>2, <3>3
  <2>5. ASSUME NEW e \in Daemons PROVE active'[e] = Cardinality(Serving(e)') /\ active'[e] <= MaxConnections
    <3>1. CASE e = d  BY <2>2, <2>3, <3>1
    <3>2. CASE e # d
      <4>1. Cardinality(Serving(e)') = Cardinality(Serving(e))  BY <2>4, <3>2
      <4> QED  BY <2>4, <3>2, <4>1 DEF SlotsAccounted
    <3> QED  BY <3>1, <3>2
  <2> QED  BY <2>5 DEF SlotsAccounted
<1>5. ASSUME NEW d \in Daemons, Crash(d) \/ Exit(d) PROVE SlotsAccounted'
  BY <1>4, <1>5 DEF Crash, Exit
<1>6. ASSUME NEW C, Clear(C), \A c \in C : at[c] = "queued", UNCHANGED active PROVE SlotsAccounted'
  <2>1. ASSUME NEW d \in Daemons PROVE Serving(d)' = Serving(d)
    <3>1. \A c \in Connections : (to'[c] = d /\ at'[c] \notin {"closed", "queued"})
                                   <=> (to[c] = d /\ at[c] \notin {"closed", "queued"})
      BY <1>6 DEF Clear
    <3> QED  BY <3>1 DEF Serving
  <2> QED  BY <1>1, <1>6, <2>1
<1>7. ASSUME NEW d \in Daemons, Stop(d) PROVE SlotsAccounted'
  BY <1>6, <1>7 DEF Stop
<1>8. ASSUME NEW c \in Connections, TurnAway(c) PROVE SlotsAccounted'
  BY <1>6, <1>8 DEF TurnAway
<1>9. ASSUME NEW c \in Connections, Connect(c) PROVE SlotsAccounted'
  <2>1. ASSUME NEW d \in Daemons PROVE Serving(d)' = Serving(d)
    <3>1. \A e \in Connections : e # c => to'[e] = to[e] /\ at'[e] = at[e]  BY <1>9 DEF Connect, TypeOK
    <3>2. at[c] = "closed" /\ at'[c] = "queued"  BY <1>9 DEF Connect, TypeOK
    <3> QED  BY <3>1, <3>2 DEF Serving
  <2> QED  BY <1>1, <1>9, <2>1 DEF Connect
<1>10. ASSUME NEW c \in Connections, Accept(c) PROVE SlotsAccounted'
  <2>0. PICK d \in Daemons : d = to[c]  BY <1>10 DEF Accept, ThreadHolds, TypeOK
  <2>1. d \in Daemons /\ c \notin Serving(d)  BY <1>10, <2>0 DEF Accept, ThreadHolds, TypeOK, Serving
  <2>2. at'[c] = "idle" /\ \A e \in Connections : e # c => at'[e] = at[e]  BY <1>10, <2>0 DEF Accept, TypeOK
  <2>3. to' = to  BY <1>10 DEF Accept
  <2>4. Serving(d)' = Serving(d) \cup {c}  BY <2>0, <2>2, <2>3 DEF Serving
  <2>5. Cardinality(Serving(d)') = Cardinality(Serving(d)) + 1  BY <2>1, <2>4, ServingFinite, FS_AddElement
  <2>6. active[d] < MaxConnections /\ active'[d] = active[d] + 1  BY <1>10, <2>0, <2>1 DEF Accept, TypeOK
  <2>7. active[d] \in Nat /\ active[d] = Cardinality(Serving(d))  BY <2>1 DEF TypeOK, SlotsAccounted
  <2>8. active'[d] = Cardinality(Serving(d)') /\ active'[d] <= MaxConnections  BY <2>5, <2>6, <2>7
  <2>9. \A e \in Daemons : e # d => Serving(e)' = Serving(e) /\ active'[e] = active[e]
    <3>1. \A e \in Daemons : e # d => Serving(e)' = Serving(e)  BY <2>0, <2>2, <2>3 DEF Serving
    <3>2. \A e \in Daemons : e # d => active'[e] = active[e]  BY <1>10, <2>0 DEF Accept, TypeOK
    <3> QED  BY <3>1, <3>2
  <2>10. ASSUME NEW e \in Daemons, e # d PROVE active'[e] = Cardinality(Serving(e)') /\ active'[e] <= MaxConnections
    <3>1. Cardinality(Serving(e)') = Cardinality(Serving(e))  BY <2>9, <2>10
    <3> QED  BY <2>9, <2>10, <3>1 DEF SlotsAccounted
  <2> QED  BY <2>8, <2>10 DEF SlotsAccounted
<1>11. ASSUME NEW c \in Connections, Close(c) PROVE SlotsAccounted'
  <2>0. PICK d \in Daemons : d = to[c]  BY <1>11 DEF Close, ThreadHolds, TypeOK
  <2>1. d \in Daemons /\ c \in Serving(d)  BY <1>11, <2>0 DEF Close, ThreadHolds, TypeOK, Serving
  <2>2. at'[c] = "closed" /\ \A e \in Connections : e # c => at'[e] = at[e] /\ to'[e] = to[e]  BY <1>11 DEF Close, Clear
  <2>3. to'[c] = None  BY <1>11 DEF Close, Clear
  <2>4. Serving(d)' = Serving(d) \ {c}  BY <2>0, <2>2, <2>3 DEF Serving
  <2>5. Cardinality(Serving(d)') = Cardinality(Serving(d)) - 1  BY <2>1, <2>4, ServingFinite, FS_RemoveElement
  <2>6. active'[d] = active[d] - 1  BY <1>11, <2>0, <2>1 DEF Close, TypeOK
  <2>7. active[d] \in Nat /\ active[d] = Cardinality(Serving(d)) /\ active[d] <= MaxConnections
    BY <2>1 DEF TypeOK, SlotsAccounted
  <2>8. active'[d] = Cardinality(Serving(d)') /\ active'[d] <= MaxConnections  BY <2>5, <2>6, <2>7
  <2>9. \A e \in Daemons : e # d => Serving(e)' = Serving(e) /\ active'[e] = active[e]
    <3>1. \A e \in Daemons : e # d => Serving(e)' = Serving(e)  BY <2>0, <2>2, <2>3 DEF Serving
    <3>2. \A e \in Daemons : e # d => active'[e] = active[e]  BY <1>11, <2>0 DEF Close, TypeOK
    <3> QED  BY <3>1, <3>2
  <2>10. ASSUME NEW e \in Daemons, e # d PROVE active'[e] = Cardinality(Serving(e)') /\ active'[e] <= MaxConnections
    <3>1. Cardinality(Serving(e)') = Cardinality(Serving(e))  BY <2>9, <2>10
    <3> QED  BY <2>9, <2>10, <3>1 DEF SlotsAccounted
  <2> QED  BY <2>8, <2>10 DEF SlotsAccounted
<1>12. ASSUME NEW c \in Connections, HangUp(c) \/ Handshake(c) \/ Shutdown(c) PROVE SlotsAccounted'
  BY <1>2, <1>12 DEF HangUp, Handshake, Shutdown, thread
<1>13. ASSUME NEW c \in Connections,
              at[c] \notin {"closed", "queued"}, at'[c] \notin {"closed", "queued"},
              \A e \in Connections : e # c => at'[e] = at[e], UNCHANGED <<active, to>>
       PROVE  SlotsAccounted'
  BY <1>2, <1>13
<1>14. ASSUME NEW c \in Connections, Request(c) PROVE SlotsAccounted'
  BY <1>13, <1>14 DEF Request, Asks, TypeOK
<1>15. ASSUME NEW c \in Connections, Select(c) \/ Insert(c) \/ Execute(c) \/ Complete(c) \/ Answer(c)
       PROVE  SlotsAccounted'
  <2>1. at[c] \notin {"closed", "queued"} /\ at'[c] \notin {"closed", "queued"}
    BY <1>15 DEF Select, Insert, Execute, Complete, Answer, TypeOK
  <2>2. \A e \in Connections : e # c => at'[e] = at[e]
    BY <1>15 DEF Select, Insert, Execute, Complete, Answer, TypeOK
  <2>3. UNCHANGED <<active, to>>  BY <1>15 DEF Select, Insert, Execute, Complete, Answer
  <2> QED  BY <1>13, <2>1, <2>2, <2>3
<1>16. CASE UNCHANGED vars  BY <1>2, <1>16 DEF vars, thread
<1> QED  BY <1>3, <1>5, <1>7, <1>8, <1>9, <1>10, <1>11, <1>12, <1>14, <1>15, <1>16 DEF Actions

(* The invariant ServerInv holds of every behaviour: types, one process on *)
(* the socket, threads, rows, their owners and the slots.                  *)
THEOREM ServerInvariance == Spec => []ServerInv
<1>1. Init => ServerInv  BY InitInv
<1>2. ServerInv /\ [Next]_vars => ServerInv'
  BY TypeStep, AloneStep, ThreadStep, RowsStep, OwnersStep, SlotsStep DEF ServerInv
<1> QED  BY <1>1, <1>2, PTL DEF Spec

(* A daemon that serves holds the lock and the socket (run_server).        *)
THEOREM Reachable == Spec => []ServingIsReachable
<1>1. ServerInv => ServingIsReachable  BY DEF ServerInv, Alone, ServingIsReachable
<1> QED  BY <1>1, ServerInvariance, PTL

(* active_connections is the number of threads, at most the limit.         *)
THEOREM SlotsKept == Spec => []SlotsAccounted
<1>1. ServerInv => SlotsAccounted  BY DEF ServerInv
<1> QED  BY <1>1, ServerInvariance, PTL

(* A step of the server is one of the journal, or changes nothing it sees. *)
LEMMA JournalStep ==
  ServerInv /\ [Next]_vars => [Journal!Next]_<<meaning, runs, result, told>>
<1> SUFFICES ASSUME ServerInv, Actions \/ UNCHANGED vars
             PROVE  [Journal!Next]_<<meaning, runs, result, told>>
  BY NextIsActions
<1> USE ServerAssumption DEF ServerInv
<1>1. ASSUME NEW d \in Daemons,
             Start(d) \/ Crash(d) \/ Scan(d) \/ UnlinkOld(d) \/ Bind(d) \/ Stop(d) \/ Unlink(d) \/ Exit(d)
      PROVE  UNCHANGED <<meaning, runs, result, told>>
  BY <1>1 DEF Start, Crash, Scan, UnlinkOld, Bind, Stop, Unlink, Exit, Ends, journal
<1>2. ASSUME NEW c \in Connections,
             \/ Connect(c) \/ HangUp(c) \/ Handshake(c) \/ Request(c) \/ Shutdown(c)
             \/ Accept(c) \/ TurnAway(c) \/ Close(c) \/ Select(c)
      PROVE  UNCHANGED <<meaning, runs, result, told>>
  BY <1>2 DEF Connect, HangUp, Handshake, Request, Shutdown, Accept, TurnAway, Close, Select, journal
<1>3. ASSUME NEW c \in Connections, Insert(c) PROVE [Journal!Next]_<<meaning, runs, result, told>>
  <2>1. ask[c].operation \in Operations /\ ask[c].meaning \in Meanings  BY <1>3 DEF Insert, ThreadHolds, TypeOK
  <2>2. CASE meaning[ask[c].operation] = None
    <3>1. Journal!Claim(ask[c].operation, ask[c].meaning)  BY <1>3, <2>2 DEF Insert, Journal!Claim
    <3> QED  BY <2>1, <3>1 DEF Journal!Next
  <2>3. CASE meaning[ask[c].operation] # None  BY <1>3, <2>3 DEF Insert
  <2> QED  BY <2>2, <2>3
<1>4. ASSUME NEW c \in Connections, Execute(c) PROVE [Journal!Next]_<<meaning, runs, result, told>>
  <2>1. ask[c].operation \in Operations /\ ask[c].meaning \in Meanings  BY <1>4 DEF Execute, ThreadHolds, TypeOK
  <2>2. runs[ask[c].operation] = 0 /\ meaning[ask[c].operation] = ask[c].meaning
    BY <1>4 DEF Execute, OwnersKnown, Owns
  <2>3. Journal!Run(ask[c].operation)  BY <1>4, <2>1, <2>2 DEF Execute, Journal!Run
  <2> QED  BY <2>1, <2>3 DEF Journal!Next
<1>5. ASSUME NEW c \in Connections, Complete(c) PROVE [Journal!Next]_<<meaning, runs, result, told>>
  <2>1. ask[c].operation \in Operations  BY <1>5 DEF Complete, ThreadHolds, TypeOK
  <2>2. runs[ask[c].operation] = 1 /\ result[ask[c].operation] = None
    BY <1>5 DEF Complete, OwnersKnown, Owns
  <2>3. Journal!Record(ask[c].operation)  BY <1>5, <2>2 DEF Complete, Journal!Record
  <2> QED  BY <2>1, <2>3 DEF Journal!Next
<1>6. ASSUME NEW c \in Connections, Answer(c) PROVE [Journal!Next]_<<meaning, runs, result, told>>
  <2>1. ask[c].operation \in Operations  BY <1>6 DEF Answer, ThreadHolds, TypeOK
  <2>2. CASE reply[c] = None  BY <1>6, <2>2 DEF Answer
  <2>3. CASE reply[c] # None
    <3>1. meaning[ask[c].operation] = ask[c].meaning /\ result[ask[c].operation] = reply[c]
      BY <2>3 DEF OwnersKnown
    <3>2. Journal!Tell(ask[c].operation)  BY <1>6, <2>3, <3>1 DEF Answer, Journal!Tell
    <3> QED  BY <2>1, <3>2 DEF Journal!Next
  <2> QED  BY <2>2, <2>3
<1>7. CASE UNCHANGED vars  BY <1>7 DEF vars, journal
<1> QED  BY <1>1, <1>2, <1>3, <1>4, <1>5, <1>6, <1>7 DEF Actions

(* The server implements OperationJournal: through crashes, restarts and   *)
(* racing threads an identifier keeps its meaning, is executed at most     *)
(* once and has one result (idempotent, claim_operation).                  *)
THEOREM ServerImplementsJournal == Spec => JournalSpec
<1>1. Init => Journal!Init  BY DEF Init, Journal!Init
<1> QED  BY <1>1, JournalStep, ServerInvariance, PTL DEF Spec, JournalSpec, Journal!Spec

(* What OperationJournal promises, of any journal.                         *)
LEMMA JournalRecords ==
  ASSUME Journal!Recorded, meaning \in [Operations -> Meanings \cup {None}],
         runs \in [Operations -> Nat], result \in [Operations -> Nat \cup {None}],
         [Journal!Next]_<<meaning, runs, result, told>>
  PROVE  Journal!Recorded'
<1> USE ServerAssumption DEF Journal!Recorded
<1>1. ASSUME NEW o \in Operations, NEW m \in Meanings, Journal!Claim(o, m) PROVE Journal!Recorded'
  <2>1. runs[o] = 0 /\ result[o] = None  BY <1>1 DEF Journal!Claim
  <2> QED  BY <1>1, <2>1 DEF Journal!Claim
<1>2. ASSUME NEW o \in Operations, Journal!Run(o) PROVE Journal!Recorded'
  BY <1>2 DEF Journal!Run
<1>3. ASSUME NEW o \in Operations, Journal!Record(o) PROVE Journal!Recorded'
  BY <1>3 DEF Journal!Record
<1>4. ASSUME NEW o \in Operations, Journal!Tell(o) PROVE Journal!Recorded'
  BY <1>4 DEF Journal!Tell
<1>5. CASE UNCHANGED <<meaning, runs, result, told>>
  BY <1>5
<1> QED  BY <1>1, <1>2, <1>3, <1>4, <1>5 DEF Journal!Next

(* Two clients that are told the result of an operation, by whichever      *)
(* thread of whichever daemon, are told the same, and asked the same:      *)
(* idempotent answers from the row, or with what it records in the row.    *)
THEOREM SameAnswers == Spec => []Journal!OneAnswer
<1>1. Init => Journal!Recorded  BY DEF Init, Journal!Recorded
<1>2. ServerInv /\ Journal!Recorded /\ [Next]_vars => Journal!Recorded'
  <2>1. ServerInv =>
          /\ meaning \in [Operations -> Meanings \cup {None}]
          /\ runs \in [Operations -> Nat] /\ result \in [Operations -> Nat \cup {None}]
    BY DEF ServerInv, TypeOK
  <2> QED  BY <2>1, JournalStep, JournalRecords
<1>3. Journal!Recorded => Journal!OneAnswer  BY DEF Journal!Recorded, Journal!OneAnswer
<1> QED  BY <1>1, <1>2, <1>3, ServerInvariance, PTL DEF Spec
=============================================================================
