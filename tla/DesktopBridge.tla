---------------------------- MODULE DesktopBridge ----------------------------
(***************************************************************************)
(* The desktop's terminal bridge: RuntimeState keeps at most one gateway   *)
(* process, replaced when it is dead, and handshakes with a new one before *)
(* it is used.  A call holds the state's mutex from its start to its       *)
(* return; answers come back through a registry of pending ids, read by a  *)
(* forwarding thread.  The gateway is terminal_data::run_gateway, seen     *)
(* from its two pipes.                                                     *)
(***************************************************************************)
EXTENDS Naturals, Sequences, FiniteSets, Functions

CONSTANTS
  Calls,       \* the terminal commands the user interface issues
  None,
  MaxPending,  \* MAX_PENDING
  MaxBridges   \* bound: how many gateway processes are started

ASSUME CallsAssumption == None \notin Calls \cup Nat /\ MaxPending \in Nat \ {0} /\ MaxBridges \in Nat

Bridges == 1 .. MaxBridges

VARIABLES
  mutex,     \* the call that holds RuntimeState.bridge
  current,   \* the bridge in RuntimeState.bridge, or None
  started,   \* how many bridges were started
  pc,        \* the step of each call
  kind,      \* what a call is about to ask, or asks: "handshake" or "request"
  on,        \* the bridge a call uses, or None
  id,        \* the id of the request a call writes or waits for
  reply,     \* what the receiver of a call holds
  process,   \* each gateway process: running or gone
  reader,    \* each forwarding thread: none, reading (Bridge.alive), draining or ended
  nextId,    \* Bridge.next_id
  pending,   \* Bridge.pending: the ids that are waited for
  inbox,     \* requests in the gateway's stdin
  outbox,    \* responses in its stdout
  handshaken \* the gateway's own flag

callers  == <<mutex, pc, kind, on, id, reply>>
bridges  == <<reader, nextId, pending>>
gateways == <<process, inbox, outbox, handshaken>>
vars == <<callers, current, started, bridges, gateways>>

Labels  == {"idle", "check", "start", "insert", "write", "await", "done"}
Results == {"ok", "refused", "unavailable", "failed"}
Messages == [id : Nat, call : Calls, kind : {"handshake", "request"}]
Answers  == [id : Nat, call : Calls, kind : {"handshake", "request"}, result : Results]

Init ==
  /\ mutex = None /\ current = None /\ started = 0
  /\ pc = [c \in Calls |-> "idle"]
  /\ kind = [c \in Calls |-> "request"]
  /\ on = [c \in Calls |-> None]
  /\ id = [c \in Calls |-> 0]
  /\ reply = [c \in Calls |-> None]
  /\ process = [b \in Bridges |-> "gone"]
  /\ reader = [b \in Bridges |-> "none"]
  /\ nextId = [b \in Bridges |-> 1]
  /\ pending = [b \in Bridges |-> {}]
  /\ inbox = [b \in Bridges |-> <<>>]
  /\ outbox = [b \in Bridges |-> <<>>]
  /\ handshaken = [b \in Bridges |-> FALSE]

Move(c, from, to) == mutex = c /\ pc[c] = from /\ pc' = [pc EXCEPT ![c] = to]
Alive(b) == reader[b] = "reading"

(* Bridge::drop: the child is killed and reaped; what it wrote is still    *)
(* read by the forwarding thread.                                          *)
Killed(b) == /\ process' = [process EXCEPT ![b] = "gone"]
             /\ inbox' = [inbox EXCEPT ![b] = <<>>]
             /\ UNCHANGED <<outbox, handshaken>>

Lock(c) ==
  /\ mutex = None /\ pc[c] = "idle"
  /\ mutex' = c
  /\ pc' = [pc EXCEPT ![c] = "check"]
  /\ UNCHANGED <<current, started, kind, on, id, reply, bridges, gateways>>

(* A bridge that is no longer alive is dropped; without one, a new one is  *)
(* started.                                                                *)
Check(c) ==
  \/ /\ current # None /\ Alive(current)
     /\ Move(c, "check", "insert")
     /\ on' = [on EXCEPT ![c] = current]
     /\ UNCHANGED <<current, started, mutex, kind, id, reply, bridges, gateways>>
  \/ /\ current # None /\ ~Alive(current)
     /\ Move(c, "check", "start")
     /\ current' = None
     /\ Killed(current)
     /\ UNCHANGED <<started, mutex, kind, on, id, reply, bridges>>
  \/ /\ current = None
     /\ Move(c, "check", "start")
     /\ UNCHANGED <<current, started, mutex, kind, on, id, reply, bridges, gateways>>

(* The call returns and the guard of the mutex with it.  A bridge whose    *)
(* handshake did not succeed was never stored, and is dropped.             *)
Return(c) ==
  /\ pc' = [pc EXCEPT ![c] = "done"]
  /\ mutex' = None
  /\ kind' = [kind EXCEPT ![c] = "request"]
  /\ on' = [on EXCEPT ![c] = None]
  /\ id' = [id EXCEPT ![c] = 0]
  /\ reply' = [reply EXCEPT ![c] = None]

(* Mutant: an unused bridge is forgotten with its process running.         *)
AbandonRunning(c) == UNCHANGED gateways

Abandon(c) == IF kind[c] = "handshake" THEN Killed(on[c]) ELSE UNCHANGED gateways

StartFails(c) ==
  /\ mutex = c /\ pc[c] = "start"
  /\ Return(c)
  /\ UNCHANGED <<current, started, bridges, gateways>>

(* Mutant: the new bridge is stored before its handshake.                  *)
StartStored(c) ==
  /\ Move(c, "start", "insert") /\ started < MaxBridges
  /\ LET b == started + 1 IN
     /\ started' = b
     /\ current' = b
     /\ process' = [process EXCEPT ![b] = "running"]
     /\ reader' = [reader EXCEPT ![b] = "reading"]
     /\ on' = [on EXCEPT ![c] = b]
  /\ UNCHANGED <<mutex, kind, id, reply, nextId, pending, inbox, outbox, handshaken>>

Start(c) ==
  /\ Move(c, "start", "insert") /\ started < MaxBridges
  /\ LET b == started + 1 IN
     /\ started' = b
     /\ process' = [process EXCEPT ![b] = "running"]
     /\ reader' = [reader EXCEPT ![b] = "reading"]
     /\ on' = [on EXCEPT ![c] = b]
  /\ kind' = [kind EXCEPT ![c] = "handshake"]
  /\ UNCHANGED <<mutex, current, id, reply, nextId, pending, inbox, outbox, handshaken>>

(* Bridge::request takes an id and registers it, ...                       *)
Insert(c) == LET b == on[c] IN
  /\ Move(c, "insert", "write")
  /\ Cardinality(pending[b]) < MaxPending
  /\ id' = [id EXCEPT ![c] = nextId[b]]
  /\ nextId' = [nextId EXCEPT ![b] = @ + 1]
  /\ pending' = [pending EXCEPT ![b] = @ \cup {nextId[b]}]
  /\ UNCHANGED <<mutex, kind, on, reply, current, started, reader, gateways>>

InsertRefused(c) == LET b == on[c] IN
  /\ mutex = c /\ pc[c] = "insert"
  /\ Cardinality(pending[b]) >= MaxPending
  /\ nextId' = [nextId EXCEPT ![b] = @ + 1]
  /\ Return(c)
  /\ Abandon(c)
  /\ UNCHANGED <<current, started, reader, pending>>

(* ... writes the request, ...                                             *)
Write(c) == LET b == on[c] IN
  /\ Move(c, "write", "await")
  /\ inbox' = IF process[b] = "running"
              THEN [inbox EXCEPT ![b] = Append(@, [id |-> id[c], call |-> c, kind |-> kind[c]])]
              ELSE inbox
  /\ UNCHANGED <<mutex, kind, on, id, reply, current, started, bridges, process, outbox, handshaken>>

WriteFails(c) == LET b == on[c] IN
  /\ mutex = c /\ pc[c] = "write"
  /\ process[b] = "gone"
  /\ pending' = [pending EXCEPT ![b] = @ \ {id[c]}]
  /\ Return(c)
  /\ Abandon(c)
  /\ UNCHANGED <<current, started, reader, nextId>>

(* ... and waits for the response or RESPONSE_TIMEOUT.  After a handshake  *)
(* the bridge is stored and the request itself follows.                    *)
Receive(c) ==
  /\ mutex = c /\ pc[c] = "await" /\ reply[c] # None
  /\ IF kind[c] = "handshake" /\ reply[c].result = "ok"
     THEN /\ pc' = [pc EXCEPT ![c] = "insert"]
          /\ kind' = [kind EXCEPT ![c] = "request"]
          /\ current' = on[c]
          /\ reply' = [reply EXCEPT ![c] = None]
          /\ UNCHANGED <<mutex, on, id, gateways>>
     ELSE Return(c) /\ Abandon(c) /\ UNCHANGED current
  /\ UNCHANGED <<started, bridges>>

(* Mutant: recv without a timeout.                                         *)
TimeOutAtEnd(c) ==
  /\ mutex = c /\ pc[c] = "await" /\ reply[c] = None
  /\ process[on[c]] = "gone"
  /\ Return(c)
  /\ Abandon(c)
  /\ UNCHANGED <<current, started, bridges>>

TimeOut(c) ==
  /\ mutex = c /\ pc[c] = "await" /\ reply[c] = None
  /\ Return(c)
  /\ Abandon(c)
  /\ UNCHANGED <<current, started, bridges>>

(* The gateway answers its requests in order; none before the handshake.   *)
Serve(b) == process[b] = "running" /\ inbox[b] # <<>> /\
  LET m == Head(inbox[b])
      answer(r) == [id |-> m.id, call |-> m.call, kind |-> m.kind, result |-> r]
  IN
  /\ inbox' = [inbox EXCEPT ![b] = Tail(@)]
  /\ \E r \in IF m.kind = "request" /\ ~handshaken[b] THEN {"refused"} ELSE {"ok", "failed"} :
       /\ outbox' = [outbox EXCEPT ![b] = Append(@, answer(r))]
       /\ handshaken' = [handshaken EXCEPT ![b] = @ \/ (m.kind = "handshake" /\ r = "ok")]
  /\ UNCHANGED <<callers, current, started, bridges, process>>

GatewayDies(b) ==
  /\ process[b] = "running"
  /\ Killed(b)
  /\ UNCHANGED <<callers, current, started, bridges>>

(* Who waits for id i of bridge b on its channel.                          *)
Waits(c, b, i) == pc[c] = "await" /\ on[c] = b /\ id[c] = i
Deliver(b, i, r) ==
  reply' = [c \in Calls |-> IF Waits(c, b, i) /\ reply[c] = None THEN r ELSE reply[c]]

(* Mutant: the entry is left when nobody waits any more.                   *)
ForwardKeeping(b) == Alive(b) /\ outbox[b] # <<>> /\
  LET m == Head(outbox[b]) IN
  /\ outbox' = [outbox EXCEPT ![b] = Tail(@)]
  /\ Deliver(b, m.id, m)
  /\ pending' = [pending EXCEPT ![b] = IF \E c \in Calls : Waits(c, b, m.id) THEN @ \ {m.id} ELSE @]
  /\ UNCHANGED <<mutex, pc, kind, on, id, current, started, reader, nextId, process, inbox, handshaken>>

(* Mutant: a response is for whoever waits.                                *)
ForwardAny(b) == Alive(b) /\ outbox[b] # <<>> /\
  LET m == Head(outbox[b]) IN
  /\ outbox' = [outbox EXCEPT ![b] = Tail(@)]
  /\ reply' = [c \in Calls |-> IF pc[c] = "await" THEN m ELSE reply[c]]
  /\ pending' = [pending EXCEPT ![b] = @ \ {m.id}]
  /\ UNCHANGED <<mutex, pc, kind, on, id, current, started, reader, nextId, process, inbox, handshaken>>

(* forward: a response frees its entry, whether someone still waits or not. *)
Forward(b) == Alive(b) /\ outbox[b] # <<>> /\
  LET m == Head(outbox[b]) IN
  /\ outbox' = [outbox EXCEPT ![b] = Tail(@)]
  /\ pending' = [pending EXCEPT ![b] = @ \ {m.id}]
  /\ IF m.id \in pending[b] THEN Deliver(b, m.id, m) ELSE UNCHANGED reply
  /\ UNCHANGED <<mutex, pc, kind, on, id, current, started, reader, nextId, process, inbox, handshaken>>

(* The end of its stdout: first the flag, ...                              *)
Eof(b) ==
  /\ Alive(b) /\ process[b] = "gone" /\ outbox[b] = <<>>
  /\ reader' = [reader EXCEPT ![b] = "draining"]
  /\ UNCHANGED <<callers, current, started, nextId, pending, gateways>>

(* ... then what is registered is answered DAEMON_UNAVAILABLE, once: what  *)
(* registers later waits for its timeout.                                  *)
Drain(b) ==
  /\ reader[b] = "draining"
  /\ reader' = [reader EXCEPT ![b] = "ended"]
  /\ pending' = [pending EXCEPT ![b] = {}]
  /\ reply' = [c \in Calls |->
                 IF reply[c] = None /\ \E i \in pending[b] : Waits(c, b, i)
                 THEN [id |-> id[c], call |-> c, kind |-> kind[c], result |-> "unavailable"]
                 ELSE reply[c]]
  /\ UNCHANGED <<mutex, pc, kind, on, id, current, started, nextId, gateways>>

Call(c) ==
  \/ Lock(c) \/ Check(c) \/ StartFails(c) \/ Start(c) \/ Insert(c) \/ InsertRefused(c)
  \/ Write(c) \/ WriteFails(c) \/ Receive(c) \/ TimeOut(c)
Thread(b) == Forward(b) \/ Eof(b) \/ Drain(b)

Next ==
  \/ \E c \in Calls : Call(c)
  \/ \E b \in Bridges : Thread(b) \/ Serve(b) \/ GatewayDies(b)

(* Nothing is asked of the gateway: a call returns by its timeout.         *)
Spec == Init /\ [][Next]_vars /\ (\A c \in Calls : WF_vars(Call(c)))

TypeOK ==
  /\ mutex \in Calls \cup {None}
  /\ current \in Bridges \cup {None}
  /\ started \in 0 .. MaxBridges
  /\ pc \in [Calls -> Labels]
  /\ kind \in [Calls -> {"handshake", "request"}]
  /\ on \in [Calls -> Bridges \cup {None}]
  /\ id \in [Calls -> Nat]
  /\ reply \in [Calls -> Answers \cup {None}]
  /\ process \in [Bridges -> {"running", "gone"}]
  /\ reader \in [Bridges -> {"none", "reading", "draining", "ended"}]
  /\ nextId \in [Bridges -> Nat]
  /\ pending \in [Bridges -> SUBSET Nat]
  /\ inbox \in [Bridges -> Seq(Messages)]
  /\ outbox \in [Bridges -> Seq(Answers)]
  /\ handshaken \in [Bridges -> BOOLEAN]

(* A call is given the answer to the request it made itself, and never one *)
(* that came too late for an earlier call, of this bridge or of the bridge *)
(* before it, whose ids begin at 1 again: Bridge::request and forward.     *)
OwnAnswer ==
  \A c \in Calls : pc[c] = "await" /\ reply[c] # None =>
    reply[c].call = c /\ reply[c].kind = kind[c]

(* No more than one gateway runs, so no two fight over the same panes: a   *)
(* bridge that is given up takes its process with it.                      *)
OneGateway == \A b1, b2 \in Bridges : process[b1] = "running" /\ process[b2] = "running" => b1 = b2

(* The registry is bounded, and what is in it besides a request that is    *)
(* being written is owed an answer by the gateway or cleared at its end:   *)
(* an answer that comes after the timeout frees its place.                 *)
RegistryAccounted ==
  \A b \in Bridges :
    /\ Cardinality(pending[b]) <= MaxPending
    /\ \A i \in pending[b] :
         \/ process[b] = "gone"
         \/ \E c \in Calls : mutex = c /\ pc[c] = "write" /\ on[c] = b /\ id[c] = i
         \/ \E m \in Range(inbox[b]) \cup Range(outbox[b]) : m.id = i

(* The gateway never refuses a request for want of a handshake: a bridge   *)
(* is used for requests only after its own gateway has accepted one.       *)
HandshakeFirst == \A b \in Bridges : \A m \in Range(outbox[b]) : m.result # "refused"

(***************************************************************************)
(* What an inductive argument needs besides these.                         *)
(***************************************************************************)
Boxes(b) == Range(inbox[b]) \cup Range(outbox[b])

(* Only the owner of the mutex is under way and has a bridge: the stored   *)
(* one, or one it tries while none is stored.                              *)
Owner(c) ==
  /\ pc[c] \in {"check", "start", "insert", "write", "await"}
  /\ pc[c] \in {"insert", "write", "await"} <=> on[c] # None
  /\ kind[c] = "handshake" => on[c] # None /\ current = None
  /\ kind[c] = "request" /\ on[c] # None => current = on[c]
  /\ pc[c] = "start" => current = None
Outsider(c) == pc[c] \in {"idle", "done"} /\ on[c] = None /\ kind[c] = "request" /\ reply[c] = None
MutexOwner == \A c \in Calls : IF mutex = c THEN Owner(c) ELSE Outsider(c)

(* A process that runs is that of the stored bridge or of the one that is  *)
(* being tried; one that was not started yet has no thread and no process. *)
ProcessOwned ==
  /\ \A b \in Bridges : process[b] = "running" =>
       b = current \/ (mutex # None /\ kind[mutex] = "handshake" /\ on[mutex] = b)
  /\ \A b \in Bridges : b > started => process[b] = "gone" /\ inbox[b] = <<>> /\ outbox[b] = <<>>
  /\ \A b \in Bridges : process[b] = "gone" => inbox[b] = <<>>

(* Ids are fresh, and a message under a call's id is about that call.      *)
IdsFresh == \A b \in Bridges : \A m \in Boxes(b) : m.id < nextId[b]
IdOwned(c) == pc[c] \in {"write", "await"} =>
  /\ id[c] < nextId[on[c]]
  /\ \A m \in Boxes(on[c]) : m.id = id[c] => m.call = c /\ m.kind = kind[c] /\ pc[c] = "await"
NoReply == \A c \in Calls : pc[c] # "await" => reply[c] = None
IdsOwned == IdsFresh /\ NoReply /\ \A c \in Calls : IdOwned(c)

(* A request is written only to a gateway that accepted a handshake.       *)
Accepted ==
  /\ current # None => handshaken[current]
  /\ \A b \in Bridges : \A m \in Range(inbox[b]) : m.kind = "request" => handshaken[b]
  /\ \A b \in Bridges : \A m \in Range(outbox[b]) :
       m.kind = "handshake" /\ m.result = "ok" => handshaken[b]
  /\ \A c \in Calls :
       pc[c] = "await" /\ kind[c] = "handshake" /\ reply[c] # None /\ reply[c].result = "ok" =>
         handshaken[on[c]]

(* A registry is finite, and that of a bridge not started yet is empty.     *)
RegistryFinite == \A b \in Bridges : IsFiniteSet(pending[b])
Unused ==
  /\ \A b \in Bridges : b > started => pending[b] = {}
  /\ \A c \in Calls : on[c] # None => on[c] <= started
  /\ current # None => current <= started

BridgeInv ==
  TypeOK /\ MutexOwner /\ ProcessOwned /\ IdsOwned /\ RegistryFinite /\ Unused /\ Accepted /\ OwnAnswer
  /\ RegistryAccounted /\ HandshakeFirst

(* Every call returns, whatever becomes of the gateway.                    *)
EveryCallReturns == \A c \in Calls : pc[c] # "idle" ~> pc[c] = "done"
=============================================================================
