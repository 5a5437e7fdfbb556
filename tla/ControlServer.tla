---------------------------- MODULE ControlServer ----------------------------
(***************************************************************************)
(* The control daemon: how its process takes the instance lock and the     *)
(* socket and gives them up (run_server), how it accepts connections up to *)
(* a limit, and how a thread for each connection serves requests, those    *)
(* that change something through the table of operations (idempotent).     *)
(*                                                                         *)
(* A client waits for its answer before it sends again; a connection that  *)
(* was closed stands for the next one to be made.  An operation is its     *)
(* identifier, its meaning the method and the hash of its arguments; what  *)
(* it executes is one step that may fail, before or after its effect.      *)
(***************************************************************************)
EXTENDS Naturals, FiniteSets

CONSTANTS
  Daemons,     \* processes that may run as the daemon
  Connections,
  Operations,
  Meanings,
  None,
  MaxConnections, \* MAX_CONTROL_CONNECTIONS
  MaxAsk,         \* bound: how many requests are sent,
  MaxStart        \* bound: and how often a daemon is started

ASSUME ServerAssumption ==
  /\ None \notin Daemons \cup Connections \cup Meanings \cup Nat
  /\ None \notin [operation : Operations, meaning : Meanings]
  /\ "stale" \notin Daemons
  /\ MaxConnections \in Nat /\ MaxAsk \in Nat /\ MaxStart \in Nat
  /\ IsFiniteSet(Connections)

VARIABLES
  lock,     \* the holder of the instance lock, or None
  socket,   \* whose socket the path names, "stale", or None
  phase,    \* of a daemon: where run_server is
  shutdown, \* ServerState.shutdown
  active,   \* active_connections
  at,       \* of a connection: where its thread is
  to,       \* the daemon it was made to
  gone,     \* whether its client has hung up
  shaken,   \* handshaken
  ask,      \* the operation and meaning asked for
  reply,    \* the result to tell, or None for an error
  meaning,  \* operations.method and request_hash, or None: no row
  result,   \* operations.response_json
  runs,     \* ghost: how often an operation was executed
  told,     \* ghost: the results clients were told
  asked,    \* bound: requests so far
  started   \* bound: starts so far

process == <<lock, socket, phase, shutdown>>
thread  == <<at, to, gone, shaken, ask, reply>>
journal == <<meaning, result, runs, told>>
bounds  == <<asked, started>>
vars == <<process, active, thread, journal, bounds>>

Phases == {"down", "scan", "unlink_old", "bind", "serve", "unlink", "exit"}
Places == {"closed", "queued", "idle", "select", "insert", "execute", "complete", "answer"}

Init ==
  /\ lock = None /\ socket = None
  /\ phase = [d \in Daemons |-> "down"] /\ shutdown = [d \in Daemons |-> FALSE]
  /\ active = [d \in Daemons |-> 0]
  /\ at = [c \in Connections |-> "closed"] /\ to = [c \in Connections |-> None]
  /\ gone = [c \in Connections |-> FALSE] /\ shaken = [c \in Connections |-> FALSE]
  /\ ask = [c \in Connections |-> None] /\ reply = [c \in Connections |-> None]
  /\ meaning = [o \in Operations |-> None] /\ result = [o \in Operations |-> None]
  /\ runs = [o \in Operations |-> 0] /\ told = {}
  /\ asked = 0 /\ started = 0

(* What a connection leaves behind when its thread ends: nothing.          *)
Clear(C) ==
  /\ to' = [c \in Connections |-> IF c \in C THEN None ELSE to[c]]
  /\ gone' = [c \in Connections |-> gone[c] /\ c \notin C]
  /\ shaken' = [c \in Connections |-> shaken[c] /\ c \notin C]
  /\ ask' = [c \in Connections |-> IF c \in C THEN None ELSE ask[c]]
  /\ reply' = [c \in Connections |-> IF c \in C THEN None ELSE reply[c]]
  /\ at' = [c \in Connections |-> IF c \in C THEN "closed" ELSE at[c]]

(***************************************************************************)
(* The process.                                                            *)
(***************************************************************************)
Start(d) ==
  /\ started < MaxStart /\ started' = started + 1
  /\ phase[d] = "down" /\ lock = None
  /\ lock' = d /\ phase' = [phase EXCEPT ![d] = "scan"]
  /\ UNCHANGED <<socket, shutdown, active, thread, journal, asked>>

(* A process that ends takes its lock, its threads and its listener along. *)
Ends(d) ==
  /\ lock' = IF lock = d THEN None ELSE lock
  /\ phase' = [phase EXCEPT ![d] = "down"]
  /\ shutdown' = [shutdown EXCEPT ![d] = FALSE]
  /\ active' = [active EXCEPT ![d] = 0]
  /\ Clear({c \in Connections : to[c] = d})
  /\ UNCHANGED <<journal, bounds>>

(* A crash, and the error paths of run_server: the socket stays behind.    *)
Crash(d) ==
  /\ phase[d] # "down"
  /\ Ends(d)
  /\ socket' = IF socket = d THEN "stale" ELSE socket

(* recover_all succeeds; when it does not, the daemon ends: Crash.         *)
Scan(d) ==
  /\ phase[d] = "scan"
  /\ phase' = [phase EXCEPT ![d] = IF socket = None THEN "bind" ELSE "unlink_old"]
  /\ UNCHANGED <<lock, socket, shutdown, active, thread, journal, bounds>>

UnlinkOld(d) ==
  /\ phase[d] = "unlink_old"
  /\ socket' = None
  /\ phase' = [phase EXCEPT ![d] = "bind"]
  /\ UNCHANGED <<lock, shutdown, active, thread, journal, bounds>>

Bind(d) ==
  /\ phase[d] = "bind" /\ socket = None
  /\ socket' = d
  /\ phase' = [phase EXCEPT ![d] = "serve"]
  /\ UNCHANGED <<lock, shutdown, active, thread, journal, bounds>>

(* Mutant of Stop: the instance lock goes with the listener.               *)
StopUnlocking(d) ==
  /\ phase[d] = "serve" /\ shutdown[d]
  /\ phase' = [phase EXCEPT ![d] = "unlink"] /\ lock' = None
  /\ Clear({c \in Connections : to[c] = d /\ at[c] = "queued"})
  /\ UNCHANGED <<socket, shutdown, active, journal, bounds>>

(* The loop sees the flag and drops the listener with whoever waits there. *)
Stop(d) ==
  /\ phase[d] = "serve" /\ shutdown[d]
  /\ phase' = [phase EXCEPT ![d] = "unlink"]
  /\ Clear({c \in Connections : to[c] = d /\ at[c] = "queued"})
  /\ UNCHANGED <<lock, socket, shutdown, active, journal, bounds>>

Unlink(d) ==
  /\ phase[d] = "unlink"
  /\ socket' = None
  /\ phase' = [phase EXCEPT ![d] = "exit"]
  /\ UNCHANGED <<lock, shutdown, active, thread, journal, bounds>>

(* The threads still running are killed, wherever they are.                *)
Exit(d) == phase[d] = "exit" /\ Ends(d) /\ UNCHANGED socket

(***************************************************************************)
(* The connections.                                                        *)
(***************************************************************************)
Connect(c) == \E d \in Daemons :
  /\ at[c] = "closed" /\ asked < MaxAsk
  /\ socket = d /\ phase[d] = "serve"
  /\ at' = [at EXCEPT ![c] = "queued"] /\ to' = [to EXCEPT ![c] = d]
  /\ UNCHANGED <<process, active, gone, shaken, ask, reply, journal, bounds>>

Accept(c) ==
  /\ at[c] = "queued" /\ phase[to[c]] = "serve" /\ active[to[c]] < MaxConnections
  /\ active' = [active EXCEPT ![to[c]] = @ + 1]
  /\ at' = [at EXCEPT ![c] = "idle"]
  /\ UNCHANGED <<process, to, gone, shaken, ask, reply, journal, bounds>>

TurnAway(c) ==
  /\ at[c] = "queued" /\ phase[to[c]] = "serve" /\ active[to[c]] >= MaxConnections
  /\ Clear({c})
  /\ UNCHANGED <<process, active, journal, bounds>>

(* The client goes away: at once, or while its request is served.          *)
HangUp(c) ==
  /\ at[c] \notin {"closed", "queued"} /\ ~gone[c]
  /\ gone' = [gone EXCEPT ![c] = TRUE]
  /\ UNCHANGED <<process, active, at, to, shaken, ask, reply, journal, bounds>>

(* Mutant: the slot is kept when the answer could not be written.          *)
CloseKeeping(c) ==
  /\ at[c] \in {"idle", "answer"} /\ gone[c]
  /\ Clear({c})
  /\ active' = IF at[c] = "idle" THEN [active EXCEPT ![to[c]] = @ - 1] ELSE active
  /\ UNCHANGED <<process, journal, bounds>>

(* The end of the stream is read, or an answer cannot be written.          *)
Close(c) ==
  /\ at[c] \in {"idle", "answer"} /\ gone[c]
  /\ Clear({c})
  /\ active' = [active EXCEPT ![to[c]] = @ - 1]
  /\ UNCHANGED <<process, journal, bounds>>

(***************************************************************************)
(* The requests.                                                           *)
(***************************************************************************)
Handshake(c) ==
  /\ at[c] = "idle" /\ ~gone[c] /\ ~shaken[c]
  /\ shaken' = [shaken EXCEPT ![c] = TRUE]
  /\ UNCHANGED <<process, active, at, to, gone, ask, reply, journal, bounds>>

Asks(c) == at[c] = "idle" /\ ~gone[c] /\ asked < MaxAsk /\ asked' = asked + 1

(* Before the handshake there is an error for an answer.                   *)
Request(c) == \E o \in Operations, m \in Meanings :
  /\ Asks(c)
  /\ ask' = [ask EXCEPT ![c] = [operation |-> o, meaning |-> m]]
  /\ at' = [at EXCEPT ![c] = IF shaken[c] THEN "select" ELSE "answer"]
  /\ UNCHANGED <<process, active, to, gone, shaken, reply, journal, started>>

Shutdown(c) ==
  /\ Asks(c) /\ shaken[c]
  /\ shutdown' = [shutdown EXCEPT ![to[c]] = TRUE]
  /\ UNCHANGED <<lock, socket, phase, active, thread, journal, started>>

(* Mutant of Select: a result another execution is to record is waited for. *)
SelectWaiting(c) == LET o == ask[c].operation IN
  /\ at[c] = "select"
  /\ meaning[o] = ask[c].meaning => result[o] # None
  /\ at' = [at EXCEPT ![c] = IF meaning[o] = None THEN "insert" ELSE "answer"]
  /\ reply' = [reply EXCEPT ![c] = IF meaning[o] = ask[c].meaning THEN result[o] ELSE None]
  /\ UNCHANGED <<process, active, to, gone, shaken, ask, journal, bounds>>

(* claim_operation looks for a row: it may be of another meaning           *)
(* (CONFLICT), without a result (RECOVERY_REQUIRED) or with one to tell.   *)
Select(c) == LET o == ask[c].operation IN
  /\ at[c] = "select"
  /\ at' = [at EXCEPT ![c] = IF meaning[o] = None THEN "insert" ELSE "answer"]
  /\ reply' = [reply EXCEPT ![c] = IF meaning[o] = ask[c].meaning THEN result[o] ELSE None]
  /\ UNCHANGED <<process, active, to, gone, shaken, ask, journal, bounds>>

(* Mutant: INSERT OR REPLACE.                                              *)
InsertReplacing(c) == LET o == ask[c].operation IN
  /\ at[c] = "insert"
  /\ meaning' = [meaning EXCEPT ![o] = ask[c].meaning]
  /\ at' = [at EXCEPT ![c] = "execute"]
  /\ UNCHANGED <<process, active, to, gone, shaken, ask, reply, result, runs, told, bounds>>

(* The primary key decides between two that found no row.                  *)
Insert(c) == LET o == ask[c].operation IN
  /\ at[c] = "insert"
  /\ meaning' = IF meaning[o] = None THEN [meaning EXCEPT ![o] = ask[c].meaning] ELSE meaning
  /\ at' = [at EXCEPT ![c] = IF meaning[o] = None THEN "execute" ELSE "select"]
  /\ UNCHANGED <<process, active, to, gone, shaken, ask, reply, result, runs, told, bounds>>

(* What fails keeps its row.                                               *)
Execute(c) ==
  /\ at[c] = "execute"
  /\ runs' = [runs EXCEPT ![ask[c].operation] = @ + 1]
  /\ \E next \in {"complete", "answer"} : at' = [at EXCEPT ![c] = next]
  /\ UNCHANGED <<process, active, to, gone, shaken, ask, reply, meaning, result, told, bounds>>

Complete(c) == LET o == ask[c].operation IN
  /\ at[c] = "complete"
  /\ IF result[o] = None
     THEN /\ result' = [result EXCEPT ![o] = runs[o]]
          /\ reply' = [reply EXCEPT ![c] = runs[o]]
     ELSE UNCHANGED <<result, reply>>
  /\ at' = [at EXCEPT ![c] = "answer"]
  /\ UNCHANGED <<process, active, to, gone, shaken, ask, meaning, runs, told, bounds>>

Answer(c) ==
  /\ at[c] = "answer" /\ ~gone[c]
  /\ told' = IF reply[c] = None THEN told
             ELSE told \cup {<<ask[c].operation, ask[c].meaning, reply[c]>>}
  /\ at' = [at EXCEPT ![c] = "idle"]
  /\ ask' = [ask EXCEPT ![c] = None] /\ reply' = [reply EXCEPT ![c] = None]
  /\ UNCHANGED <<process, active, to, gone, shaken, meaning, result, runs, bounds>>

Thread(c) ==
  Close(c) \/ Select(c) \/ Insert(c) \/ Execute(c) \/ Complete(c) \/ Answer(c)

Loop(c) == Accept(c) \/ TurnAway(c)

Client(c) == Connect(c) \/ HangUp(c) \/ Handshake(c) \/ Request(c) \/ Shutdown(c)

Next ==
  \/ \E d \in Daemons :
       Start(d) \/ Crash(d) \/ Scan(d) \/ UnlinkOld(d) \/ Bind(d) \/ Stop(d) \/ Unlink(d) \/ Exit(d)
  \/ \E c \in Connections : Client(c) \/ Loop(c) \/ Thread(c)

(* The threads and the loop of a daemon that runs are scheduled; nobody    *)
(* has to start one or to send anything.                                   *)
Spec == Init /\ [][Next]_vars /\ \A c \in Connections : WF_vars(Thread(c)) /\ WF_vars(Loop(c))

TypeOK ==
  /\ lock \in Daemons \cup {None} /\ socket \in Daemons \cup {None, "stale"}
  /\ phase \in [Daemons -> Phases] /\ shutdown \in [Daemons -> BOOLEAN]
  /\ active \in [Daemons -> Nat]
  /\ at \in [Connections -> Places] /\ to \in [Connections -> Daemons \cup {None}]
  /\ gone \in [Connections -> BOOLEAN] /\ shaken \in [Connections -> BOOLEAN]
  /\ ask \in [Connections -> [operation : Operations, meaning : Meanings] \cup {None}]
  /\ reply \in [Connections -> Nat \cup {None}]
  /\ meaning \in [Operations -> Meanings \cup {None}]
  /\ result \in [Operations -> Nat \cup {None}]
  /\ runs \in [Operations -> Nat]

(* The parts of the inductive invariant.  One process is up, and it alone  *)
(* touches the socket; ...                                                 *)
Alone == \A d \in Daemons :
  /\ phase[d] # "down" <=> lock = d
  /\ phase[d] \in {"serve", "unlink"} <=> socket = d
  /\ phase[d] = "bind" => socket = None

(* ... a thread has what its place needs; ...                              *)
ThreadHolds == \A c \in Connections :
  /\ at[c] = "closed" <=> to[c] = None
  /\ at[c] \notin {"closed", "queued", "idle"} => ask[c] # None
  /\ reply[c] # None => at[c] = "answer"

(* ... a row without a result was executed once at most, ...               *)
RowsKept == \A o \in Operations :
  /\ meaning[o] = None => runs[o] = 0
  /\ runs[o] \in {0, 1} /\ result[o] \in {None, 1}
  /\ result[o] # None => runs[o] = 1

(* ... and only by the thread that inserted it.                            *)
Owns(c) == at[c] \in {"execute", "complete"}
OwnersKnown ==
  /\ \A c \in Connections : LET o == ask[c].operation IN
       /\ Owns(c) => meaning[o] = ask[c].meaning /\ result[o] = None
       /\ at[c] = "execute" => runs[o] = 0
       /\ at[c] = "complete" => runs[o] = 1
       /\ reply[c] # None => meaning[o] = ask[c].meaning /\ result[o] = reply[c]
  /\ \A c, e \in Connections :
       Owns(c) /\ Owns(e) /\ ask[c].operation = ask[e].operation => c = e

(* Whatever the threads of one daemon or of its successors do with an      *)
(* operation, it keeps the promise of OperationJournal: one meaning, at    *)
(* most one execution, one result for everybody (idempotent,               *)
(* claim_operation, complete_operation).                                   *)
Journal == INSTANCE OperationJournal WITH runs <- runs, told <- told
JournalSpec == Journal!Spec

(* A daemon that accepts connections can be reached: no other process, on  *)
(* its way up or down, has removed the socket it serves (run_server).      *)
ServingIsReachable == \A d \in Daemons : phase[d] = "serve" => socket = d /\ lock = d

(* active_connections counts the threads that run: no end of a connection  *)
(* keeps a slot, or the daemon would turn everybody away at last.          *)
Serving(d) == {c \in Connections : to[c] = d /\ at[c] \notin {"closed", "queued"}}
SlotsAccounted == \A d \in Daemons : active[d] = Cardinality(Serving(d)) /\ active[d] <= MaxConnections

ServerInv == TypeOK /\ Alone /\ ThreadHolds /\ RowsKept /\ OwnersKnown /\ SlotsAccounted

(* Every connection is taken or dropped and every request is answered,     *)
(* unless the daemon stops, which closes the connection as well.           *)
EveryRequestAnswered ==
  \A c \in Connections : at[c] \notin {"closed", "idle"} ~> at[c] \in {"closed", "idle"}
=============================================================================
