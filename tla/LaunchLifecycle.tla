--------------------------- MODULE LaunchLifecycle ---------------------------
(***************************************************************************)
(* What the journal promises of one launch transaction, whoever drives it: *)
(* its state moves along the permitted pairs, and whoever sees it          *)
(* unfinished may fail it.  Storage::fail reads and writes in two          *)
(* statements, so a transaction that ended meanwhile is failed as well; it *)
(* is never moved to anything else.                                        *)
(***************************************************************************)
EXTENDS LaunchStates

CONSTANT Callers   \* whoever may call Storage::fail

VARIABLES
  state,
  failing    \* the callers of fail between its SELECT and its UPDATE

vars == <<state, failing>>

Init == state = "preparing" /\ failing = {}

(* Storage::transition *)
Advance ==
  /\ \E next \in States : Permits(state, next) /\ state' = next
  /\ UNCHANGED failing

(* Storage::fail: its SELECT, its UPDATE, or neither UPDATE nor return     *)
Decide(c) ==
  /\ state \notin Terminal
  /\ failing' = failing \cup {c} /\ UNCHANGED state

Fail(c) ==
  /\ c \in failing
  /\ state' = "failed" /\ failing' = failing \ {c}

Abandon == failing' \in SUBSET failing /\ UNCHANGED state

Next == Advance \/ Abandon \/ \E c \in Callers : Decide(c) \/ Fail(c)

Spec == Init /\ [][Next]_vars

(* A transaction that ended stays as it is, unless somebody was already on *)
(* the way to fail it.                                                     *)
EndsForGood ==
  [][ (state \in Terminal) => state' = state \/ (failing # {} /\ state' = "failed") ]_vars
=============================================================================
