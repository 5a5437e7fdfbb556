--------------------------- MODULE OperationJournal ---------------------------
(***************************************************************************)
(* What operation identifiers promise a client, across its own retries,    *)
(* other clients, crashes and restarts: an identifier means one request,   *)
(* that request is executed at most once, and whoever is told its result   *)
(* is told the one that was recorded.                                      *)
(***************************************************************************)
EXTENDS Naturals

CONSTANTS Operations, Meanings, None

VARIABLES
  meaning, \* what an identifier was first used for, or None
  runs,    \* how often it was executed
  result,  \* the recorded result, or None
  told     \* what clients were told: <<operation, meaning, result>>

Init ==
  /\ meaning = [o \in Operations |-> None]
  /\ runs = [o \in Operations |-> 0]
  /\ result = [o \in Operations |-> None]
  /\ told = {}

Claim(o, m) ==
  /\ meaning[o] = None
  /\ meaning' = [meaning EXCEPT ![o] = m]
  /\ UNCHANGED <<runs, result, told>>

Run(o) ==
  /\ meaning[o] # None /\ runs[o] = 0
  /\ runs' = [runs EXCEPT ![o] = 1]
  /\ UNCHANGED <<meaning, result, told>>

Record(o) ==
  /\ runs[o] = 1 /\ result[o] = None
  /\ result' = [result EXCEPT ![o] = runs[o]]
  /\ UNCHANGED <<meaning, runs, told>>

Tell(o) ==
  /\ result[o] # None
  /\ told' = told \cup {<<o, meaning[o], result[o]>>}
  /\ UNCHANGED <<meaning, runs, result>>

Next == \E o \in Operations : (\E m \in Meanings : Claim(o, m)) \/ Run(o) \/ Record(o) \/ Tell(o)

Spec == Init /\ [][Next]_<<meaning, runs, result, told>>

(* What clients were told is what is recorded, of an operation that has    *)
(* run ...                                                                 *)
Recorded ==
  /\ \A o \in Operations :
       /\ runs[o] # 0 => meaning[o] # None
       /\ result[o] # None => runs[o] = 1
  /\ \A x \in told : \E o \in Operations :
       result[o] # None /\ x = <<o, meaning[o], result[o]>>

(* ... so that all who ask of one identifier, and ask again, are told the  *)
(* same, and that only of the request the identifier was first used for.   *)
OneAnswer == \A x, y \in told : x[1] = y[1] => x = y
=============================================================================
