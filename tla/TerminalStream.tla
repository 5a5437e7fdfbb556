---------------------------- MODULE TerminalStream ----------------------------
(***************************************************************************)
(* The terminal stream of one project, from the panes of its tmux session  *)
(* to the viewport: the engine (phase3.rs) with a reader thread, a         *)
(* watchdog and a forwarding thread for each attachment, the gateway that  *)
(* routes its events (terminal_data.rs), and the viewport with its cursor  *)
(* (AppShell.tsx, TerminalViewport.tsx).                                   *)
(*                                                                         *)
(* A terminal stands for its window and its one pane, a line for one       *)
(* %output of the control client.  tmux is external: it reads no pane that *)
(* its control client turned off, and writes a control client's lines in   *)
(* order; a line still in that pipe is one that is not written yet.        *)
(***************************************************************************)
EXTENDS Naturals, Sequences, FiniteSets, SequencesExt

CONSTANTS
  Terminals,
  None,
  MaxLines,  \* MAX_BUFFERED_CONTROL_LINES
  MaxBytes,  \* MAX_BUFFERED_CONTROL_BYTES
  MaxLine,   \* MAX_CONTROL_LINE_BYTES
  MaxEvent,  \* MAX_OUTPUT_EVENT_BYTES
  Text,      \* bound: the lines each terminal writes, by their sizes
  MaxAttach, \* bound: how many attachments are made
  Deeds,     \* bound: what the user does and what goes wrong,
  MaxUser,   \* and how often each
  MaxFaults

ASSUME StreamAssumption ==
  /\ Terminals # {} /\ None \notin Terminals \cup Nat
  /\ Deeds \subseteq {"select", "leave", "type", "close", "window", "client", "refused", "late"}
  /\ {MaxLines, MaxBytes, MaxLine, MaxEvent, MaxAttach, MaxUser, MaxFaults} \subseteq Nat
  /\ Text \in [Terminals -> Seq(Nat)]

Attachments == 1 .. MaxAttach

VARIABLES
  output,   \* how many lines tmux has read of each terminal
  alive,    \* the terminals whose window exists
  open,     \* the terminals whose row is not closed
  att,      \* what belongs to each attachment: its threads, queue and flags
  attached, \* Gateway.attached
  nextId,   \* Gateway.next_attachment_id
  route,    \* the terminal of the route, or None
  calls,    \* requests sent to the gateway
  job,      \* the request it works on, or None
  stage,    \* how far it is
  answers,  \* its answers, on their way to the user interface
  waiting,  \* the requests the user interface waits for
  wire,     \* events on their way to the viewport
  view,     \* the attachment the viewport follows, or None
  next,     \* the sequence number it expects
  ready,    \* readyRef
  screen,   \* the lines it shows
  error,    \* whether an error is shown
  reached,  \* ghost: what was sent for an attachment, and the terminal that received it
  user,     \* bound: what the user asked for so far
  faults    \* bound: what went wrong so far

tmux    == <<output, alive>>
gateway == <<attached, nextId, route>>
working == <<job, stage>>
panel   == <<view, next, ready, screen>>
vars == <<tmux, open, att, gateway, calls, working, answers, waiting, wire, panel, error, reached, user, faults>>

Lines  == [pane : Terminals, n : Nat, size : Nat]  \* n = 0: the window closes
Events == [kind : {"history", "output", "end"}, att : Attachments, seq : Nat, n : Nat]
Ops    == {"attach", "switch", "start", "detach", "send", "close"}
Select(q) == q.op \in {"attach", "switch"}
ASSUME NoneAssumption == None \notin Lines \cup [op : Ops, of : Terminals \cup Attachments]

Fresh(t) ==
  [term |-> t, client |-> TRUE, off |-> FALSE, started |-> FALSE, expired |-> FALSE,
   detached |-> FALSE, history |-> 0, queue |-> <<>>, queued |-> 0, held |-> None,
   reader |-> "on", forwarder |-> "none", seq |-> 1, watchdog |-> "none"]
Blank == [Fresh(CHOOSE t \in Terminals : TRUE) EXCEPT !.client = FALSE, !.reader = "stopped"]

Init ==
  /\ output = [t \in Terminals |-> 0] /\ alive = Terminals /\ open = Terminals
  /\ att = [a \in Attachments |-> Blank]
  /\ attached = None /\ nextId = 1 /\ route = None
  /\ calls = {} /\ job = None /\ stage = "idle" /\ answers = {} /\ waiting = {}
  /\ wire = <<>>
  /\ view = None /\ next = 0 /\ ready = FALSE /\ screen = <<>>
  /\ error = FALSE
  /\ reached = {} /\ user = 0 /\ faults = 0

Does(deed) == deed \in Deeds /\ user < MaxUser /\ user' = user + 1
Suffers(fault) == fault \in Deeds /\ faults < MaxFaults /\ faults' = faults + 1

(***************************************************************************)
(* The control client's lines and the reader thread.                       *)
(***************************************************************************)
TooMuch(r, l) ==
  \/ l.size > MaxLine
  \/ r.queued + l.size > MaxBytes
  \/ Len(r.queue) >= MaxLines

(* The reader ends when a bound is passed, or nobody receives any more.    *)
Read(r, l) ==
  IF ~r.client \/ r.reader = "stopped" THEN r
  ELSE IF TooMuch(r, l) \/ r.forwarder = "done" THEN [r EXCEPT !.reader = "stopped"]
  ELSE [r EXCEPT !.queue = Append(@, l), !.queued = @ + l.size]

ReadAll(l) == att' = [a \in Attachments |-> Read(att[a], l)]

Frozen(t) == \E a \in Attachments : att[a].client /\ att[a].off /\ att[a].term = t

(* Every control client of the session is sent the output of every pane.   *)
Output(t) ==
  /\ t \in alive /\ output[t] < Len(Text[t]) /\ ~Frozen(t)
  /\ output' = [output EXCEPT ![t] = @ + 1]
  /\ ReadAll([pane |-> t, n |-> output'[t], size |-> Text[t][output'[t]]])
  /\ UNCHANGED <<alive, open, gateway, calls, working, answers, waiting, wire, panel, error, reached, user, faults>>

(* A program ends, or the daemon closes the terminal.                      *)
WindowCloses(t) ==
  /\ Suffers("window")
  /\ t \in alive
  /\ alive' = alive \ {t}
  /\ ReadAll([pane |-> t, n |-> 0, size |-> 1])
  /\ UNCHANGED <<output, open, gateway, calls, working, answers, waiting, wire, panel, error, reached, user>>

ClientLost(a) ==
  /\ Suffers("client")
  /\ att[a].client
  /\ att' = [att EXCEPT ![a].client = FALSE, ![a].off = FALSE, ![a].reader = "stopped"]
  /\ UNCHANGED <<tmux, open, gateway, calls, working, answers, waiting, wire, panel, error, reached, user>>

(***************************************************************************)
(* Events, and the threads of an attachment.                               *)
(***************************************************************************)
(* FormalWriter drops an event that is not the route's.                    *)
Emit(a, kind, seq, n) ==
  wire' = IF route = att[a].term
          THEN Append(wire, [kind |-> kind, att |-> a, seq |-> seq, n |-> n]) ELSE wire

(* The receiver and what it holds are dropped with the thread.             *)
Ended(r) == [r EXCEPT !.forwarder = "done", !.held = None, !.queue = <<>>, !.queued = 0]
Handled(r) == [r EXCEPT !.held = None, !.queued = @ - r.held.size]

Receive(a) ==
  /\ att[a].forwarder = "run" /\ att[a].held = None /\ att[a].queue # <<>>
  /\ att' = IF att[a].detached THEN [att EXCEPT ![a] = Ended(@)]
            ELSE [att EXCEPT ![a].held = Head(att[a].queue), ![a].queue = Tail(@)]
  /\ UNCHANGED <<tmux, open, gateway, calls, working, answers, waiting, wire, panel, error, reached, user, faults>>

(* Mutant: the bytes of another pane's line are never given back.          *)
ForwardLeaking(a) == att[a].held # None /\
  LET r == att[a]
      l == r.held IN
  /\ \/ /\ l.pane # r.term
        /\ att' = [att EXCEPT ![a].held = None]
        /\ UNCHANGED wire
     \/ /\ l.pane = r.term /\ l.n # 0 /\ l.size <= MaxEvent
        /\ att' = [att EXCEPT ![a] = [Handled(r) EXCEPT !.seq = @ + 1]]
        /\ Emit(a, "output", r.seq, l.n)
     \/ /\ l.pane = r.term /\ (l.n = 0 \/ l.size > MaxEvent)
        /\ att' = [att EXCEPT ![a] = Ended(r)]
        /\ Emit(a, "end", r.seq, 0)
  /\ UNCHANGED <<tmux, open, gateway, calls, working, answers, waiting, panel, error, reached, user, faults>>

Forward(a) == att[a].held # None /\
  LET r == att[a]
      l == r.held IN
  /\ \/ /\ l.pane # r.term
        /\ att' = [att EXCEPT ![a] = Handled(r)]
        /\ UNCHANGED wire
     \/ /\ l.pane = r.term /\ l.n # 0 /\ l.size <= MaxEvent
        /\ att' = [att EXCEPT ![a] = [Handled(r) EXCEPT !.seq = @ + 1]]
        /\ Emit(a, "output", r.seq, l.n)
     \/ /\ l.pane = r.term /\ (l.n = 0 \/ l.size > MaxEvent)
        /\ att' = [att EXCEPT ![a] = Ended(r)]
        /\ Emit(a, "end", r.seq, 0)
  /\ UNCHANGED <<tmux, open, gateway, calls, working, answers, waiting, panel, error, reached, user, faults>>

ChannelEmpty(a) ==
  /\ att[a].forwarder = "run" /\ att[a].held = None
  /\ att[a].queue = <<>> /\ att[a].reader = "stopped"

(* Mutant: the end of the lines is not told.                               *)
ForwardStops(a) ==
  /\ ChannelEmpty(a)
  /\ att' = [att EXCEPT ![a] = Ended(@)]
  /\ UNCHANGED <<tmux, open, gateway, calls, working, answers, waiting, wire, panel, error, reached, user, faults>>

ForwardEnds(a) ==
  /\ ChannelEmpty(a)
  /\ att' = [att EXCEPT ![a] = Ended(@)]
  /\ IF att[a].detached THEN UNCHANGED wire ELSE Emit(a, "end", att[a].seq, 0)
  /\ UNCHANGED <<tmux, open, gateway, calls, working, answers, waiting, panel, error, reached, user, faults>>

(* BOOTSTRAP_START_TIMEOUT: the watchdog looks, ...                        *)
WatchdogWakes(a) ==
  /\ att[a].watchdog = "sleep"
  /\ att' = [att EXCEPT ![a].watchdog = IF att[a].started \/ att[a].detached THEN "done" ELSE "expire"]
  /\ UNCHANGED <<tmux, open, gateway, calls, working, answers, waiting, wire, panel, error, reached, user, faults>>

(* Mutant: the pane is left as it is.                                      *)
WatchdogLeaves(a) ==
  /\ att[a].watchdog = "expire"
  /\ att' = [att EXCEPT ![a].watchdog = "done", ![a].expired = TRUE]
  /\ UNCHANGED <<tmux, open, gateway, calls, working, answers, waiting, wire, panel, error, reached, user, faults>>

(* ... marks the attachment expired and turns its pane on.                 *)
WatchdogThaws(a) ==
  /\ att[a].watchdog = "expire"
  /\ att' = [att EXCEPT ![a].watchdog = "done", ![a].expired = TRUE, ![a].off = FALSE]
  /\ UNCHANGED <<tmux, open, gateway, calls, working, answers, waiting, wire, panel, error, reached, user, faults>>

(***************************************************************************)
(* The gateway serves one request at a time.                               *)
(***************************************************************************)
Dropped(r) == [r EXCEPT !.detached = TRUE, !.client = FALSE, !.off = FALSE, !.reader = "stopped",
                        !.queue = IF r.forwarder = "none" THEN <<>> ELSE @,
                        !.queued = IF r.forwarder = "none" THEN 0 ELSE @]
Detached(a) == IF a = None THEN att ELSE [att EXCEPT ![a] = Dropped(@)]

(* An answer that nobody waits for any more is dropped by the bridge.      *)
Reply(q, ok) ==
  answers' = IF q \in waiting
             THEN answers \cup {[to |-> q, ok |-> ok, att |-> IF Select(q) /\ ok THEN attached' ELSE None]}
             ELSE answers
Takes(q) == job = None /\ calls' = calls \ {q}
Answered(q, ok) == Reply(q, ok) /\ UNCHANGED working
Done(ok) == Reply(job, ok) /\ job' = None /\ stage' = "idle"

(* The row is not closed, and the session of the project exists.           *)
Managed(t) == t \in open /\ alive # {}

(* attach and switch: the old attachment is given up before the new window *)
(* is looked for.                                                          *)
AttachBegins(q) == LET
    switching == q.op = "switch" /\ route # None
    managed == Managed(q.of)
  IN
  /\ Select(q) /\ Takes(q) /\ nextId <= MaxAttach
  /\ route' = IF switching /\ route = q.of THEN None ELSE route
  /\ attached' = IF switching \/ managed THEN None ELSE attached
  /\ LET rest == IF attached' = None THEN Detached(attached) ELSE att IN
     \/ /\ managed /\ q.of \in alive
        /\ att' = [rest EXCEPT ![nextId] = Fresh(q.of)]
        /\ job' = q /\ stage' = "spawned"
        /\ UNCHANGED answers
     \/ /\ ~(managed /\ q.of \in alive)
        /\ att' = rest
        /\ Answered(q, FALSE)
  /\ UNCHANGED <<tmux, open, nextId, waiting, wire, panel, error, reached, user, faults>>

(* Mutant: what came before is not drained.                                *)
AttachTurnsOffKeeping ==
  /\ stage = "spawned" /\ att[nextId].reader = "on"
  /\ att' = [att EXCEPT ![nextId].off = TRUE]
  /\ stage' = "off"
  /\ UNCHANGED <<tmux, open, gateway, calls, job, answers, waiting, wire, panel, error, reached, user, faults>>

(* The pane is turned off, and what came before tmux says so is drained.   *)
AttachTurnsOff ==
  /\ stage = "spawned" /\ att[nextId].reader = "on"
  /\ att' = [att EXCEPT ![nextId].off = TRUE, ![nextId].queue = <<>>, ![nextId].queued = 0]
  /\ stage' = "off"
  /\ UNCHANGED <<tmux, open, gateway, calls, job, answers, waiting, wire, panel, error, reached, user, faults>>

(* tmux refuses or is late, or has closed the window or the client: the    *)
(* control client is killed.                                               *)
AttachFails ==
  /\ stage \in {"spawned", "off"}
  /\ IF job.of \notin alive \/ (stage = "spawned" /\ att[nextId].reader = "stopped")
     THEN UNCHANGED faults ELSE Suffers("refused")
  /\ att' = [att EXCEPT ![nextId] = Blank]
  /\ UNCHANGED gateway
  /\ Done(FALSE)
  /\ UNCHANGED <<tmux, open, calls, waiting, wire, panel, error, reached, user>>

AttachCaptures ==
  /\ stage = "off" /\ job.of \in alive
  /\ att' = [att EXCEPT ![nextId].history = output[job.of], ![nextId].watchdog = "sleep"]
  /\ attached' = nextId /\ nextId' = nextId + 1 /\ route' = job.of
  /\ Done(TRUE)
  /\ UNCHANGED <<tmux, open, calls, waiting, wire, panel, error, reached, user, faults>>

(* A request for an attachment passes the route, then the engine.          *)
Routed(a) == route = att[a].term
Current(a) == Routed(a) /\ attached = a

StartBegins(q) ==
  /\ q.op = "start" /\ Takes(q)
  /\ \/ /\ Current(q.of) /\ ~att[q.of].expired /\ ~att[q.of].started
        /\ job' = q /\ stage' = "start"
        /\ UNCHANGED <<answers, gateway>>
     \/ /\ ~(Current(q.of) /\ ~att[q.of].expired /\ ~att[q.of].started)
        /\ UNCHANGED gateway
        /\ Answered(q, Current(q.of) /\ ~att[q.of].expired)
  /\ UNCHANGED <<tmux, open, att, waiting, wire, panel, error, reached, user, faults>>

(* The history goes out, the forwarding thread starts, ...                 *)
StartForwards ==
  /\ stage = "start"
  /\ att' = [att EXCEPT ![job.of].started = TRUE, ![job.of].forwarder = "run", ![job.of].history = 0]
  /\ Emit(job.of, "history", 0, att[job.of].history)
  /\ stage' = "on"
  /\ UNCHANGED <<tmux, open, gateway, calls, job, answers, waiting, panel, error, reached, user, faults>>

(* ... and the pane is turned on.                                          *)
StartThaws ==
  /\ stage = "on"
  /\ att' = [att EXCEPT ![job.of].off = FALSE]
  /\ UNCHANGED gateway
  /\ Done(att[job.of].client)
  /\ UNCHANGED <<tmux, open, calls, waiting, wire, panel, error, reached, user, faults>>

(* Mutant: the route is cleared although the engine refused.               *)
DetachUnrouting(q) ==
  /\ q.op = "detach" /\ Takes(q)
  /\ LET ok == Routed(q.of) /\ attached \in {q.of, None} IN
     /\ att' = IF ok THEN Detached(attached) ELSE att
     /\ attached' = IF ok THEN None ELSE attached
     /\ route' = None
     /\ Answered(q, ok)
  /\ UNCHANGED <<tmux, open, nextId, waiting, wire, panel, error, reached, user, faults>>

Detach(q) ==
  /\ q.op = "detach" /\ Takes(q)
  /\ LET ok == Routed(q.of) /\ attached \in {q.of, None} IN
     /\ att' = IF ok THEN Detached(attached) ELSE att
     /\ attached' = IF ok THEN None ELSE attached
     /\ route' = IF ok THEN None ELSE route
     /\ Answered(q, ok)
  /\ UNCHANGED <<tmux, open, nextId, waiting, wire, panel, error, reached, user, faults>>

(* Mutant: a request for an earlier attachment is taken for the current.   *)
SendAny(q) ==
  /\ q.op = "send" /\ Takes(q)
  /\ LET ok == attached # None /\ att[attached].started IN
     /\ reached' = IF ok /\ att[attached].client THEN reached \cup {<<q.of, att[attached].term>>} ELSE reached
     /\ UNCHANGED gateway
     /\ Answered(q, ok)
  /\ UNCHANGED <<tmux, open, att, waiting, wire, panel, error, user, faults>>

(* send_input and resize.                                                  *)
Send(q) ==
  /\ q.op = "send" /\ Takes(q)
  /\ LET ok == Current(q.of) /\ att[q.of].started IN
     /\ reached' = IF ok /\ att[q.of].client THEN reached \cup {<<q.of, att[attached].term>>} ELSE reached
     /\ UNCHANGED gateway
     /\ Answered(q, ok)
  /\ UNCHANGED <<tmux, open, att, waiting, wire, panel, error, user, faults>>

(* close: the window is killed, ...                                        *)
CloseKills(q) ==
  /\ q.op = "close" /\ Takes(q)
  /\ \/ /\ q.of \in alive
        /\ alive' = alive \ {q.of}
        /\ ReadAll([pane |-> q.of, n |-> 0, size |-> 1])
        /\ job' = q /\ stage' = "killed"
        /\ UNCHANGED <<gateway, answers>>
     \/ /\ q.of \notin alive
        /\ UNCHANGED <<alive, att, gateway>>
        /\ Answered(q, FALSE)
  /\ UNCHANGED <<output, open, waiting, wire, panel, error, reached, user, faults>>

(* ... its attachment given up and its row closed.                         *)
CloseRecords ==
  /\ stage = "killed"
  /\ LET mine == attached # None /\ att[attached].term = job.of IN
     /\ att' = IF mine THEN Detached(attached) ELSE att
     /\ attached' = IF mine THEN None ELSE attached
  /\ open' = open \ {job.of}
  /\ route' = IF route = job.of THEN None ELSE route
  /\ Done(TRUE)
  /\ UNCHANGED <<tmux, nextId, calls, waiting, wire, panel, error, reached, user, faults>>

Serve ==
  \/ \E q \in calls : AttachBegins(q) \/ StartBegins(q) \/ Detach(q) \/ Send(q) \/ CloseKills(q)
  \/ AttachTurnsOff \/ AttachFails \/ AttachCaptures \/ StartForwards \/ StartThaws \/ CloseRecords

(***************************************************************************)
(* The user interface.                                                     *)
(***************************************************************************)
New(q) == q \notin calls \cup {job} /\ \A r \in answers : r.to # q
Ask(q) == New(q) /\ calls' = calls \cup {q}

(* attachTerminal: a tab can be asked for while another request is pending *)
(* (the same request is not asked for twice at a time).                    *)
SelectTerminal(t) == LET q == [op |-> IF view = None THEN "attach" ELSE "switch", of |-> t] IN
  /\ nextId + Cardinality({p \in calls \cup ({job} \ {None}) : Select(p)}) <= MaxAttach
  /\ Does("select")
  /\ Ask(q)
  /\ waiting' = waiting \cup {q}
  /\ error' = FALSE
  /\ UNCHANGED <<tmux, open, att, gateway, working, answers, wire, panel, reached, faults>>

(* selectProject.                                                          *)
Leave ==
  /\ view # None
  /\ Does("leave")
  /\ Ask([op |-> "detach", of |-> view])
  /\ view' = None /\ ready' = FALSE
  /\ UNCHANGED <<tmux, open, att, gateway, working, answers, waiting, wire, next, screen, error, reached, faults>>

Type ==
  /\ view # None /\ ready
  /\ Does("type")
  /\ Ask([op |-> "send", of |-> view])
  /\ UNCHANGED <<tmux, open, att, gateway, working, answers, waiting, wire, panel, error, reached, faults>>

CloseTerminal(t) ==
  /\ t \in open
  /\ Does("close")
  /\ Ask([op |-> "close", of |-> t])
  /\ UNCHANGED <<tmux, open, att, gateway, working, answers, waiting, wire, panel, error, reached, faults>>

(* A stream that cannot be started is given up; after a switch that failed *)
(* the viewport stays with the stream it had.                              *)
Failed(q) ==
  /\ view' = IF q = [op |-> "start", of |-> view] THEN None ELSE view
  /\ ready' = (ready /\ view' # None)
  /\ error' = (error \/ Select(q) \/ q = [op |-> "start", of |-> view])
  /\ UNCHANGED <<next, screen, calls>>

(* RESPONSE_TIMEOUT: the gateway may still do what it was asked.           *)
TimeOut(q) ==
  /\ Suffers("late")
  /\ q \in waiting /\ \A r \in answers : r.to # q
  /\ waiting' = waiting \ {q}
  /\ Failed(q)
  /\ UNCHANGED <<tmux, open, att, gateway, working, answers, wire, reached, user>>

ReceiveAnswer(r) ==
  /\ r \in answers
  /\ answers' = answers \ {r}
  /\ \/ /\ ~r.ok
        /\ waiting' = waiting \ {r.to}
        /\ Failed(r.to)
     \/ /\ r.ok /\ Select(r.to)
        /\ view' = r.att /\ next' = 0 /\ ready' = FALSE /\ screen' = <<>>
        /\ LET q == [op |-> "start", of |-> r.att] IN
           /\ calls' = calls \cup {q}
           /\ waiting' = (waiting \ {r.to}) \cup {q}
        /\ UNCHANGED error
     \/ /\ r.ok /\ ~Select(r.to)
        /\ waiting' = waiting \ {r.to}
        /\ ready' = (ready \/ view = r.to.of)
        /\ UNCHANGED <<view, next, screen, calls, error>>
  /\ UNCHANGED <<tmux, open, att, gateway, working, wire, reached, user, faults>>

(* Mutant: an event's attachment is not compared.                          *)
StaleNever(e) == view = None

(* classifyRuntimeEvent, and what the listener does with its verdict.      *)
Stale(e) == view = None \/ e.att # view
Gap(e) == ~Stale(e) /\ (e.seq # next \/ (next = 0 /\ e.kind # "history"))

ReceiveEvent == wire # <<>> /\
  LET e == Head(wire) IN
  /\ wire' = Tail(wire)
  /\ \/ Stale(e) /\ UNCHANGED <<panel, error>>
     \/ /\ Gap(e) \/ (~Stale(e) /\ e.kind = "end")
        /\ view' = None /\ ready' = FALSE /\ error' = TRUE
        /\ UNCHANGED <<next, screen>>
     \/ /\ ~Stale(e) /\ ~Gap(e) /\ e.kind # "end"
        /\ next' = next + 1
        /\ screen' = IF e.kind = "history" THEN [i \in 1 .. e.n |-> i] ELSE Append(screen, e.n)
        /\ UNCHANGED <<view, ready, error>>
  /\ UNCHANGED <<tmux, open, att, gateway, calls, working, answers, waiting, reached, user, faults>>

Thread(a) ==
  \/ Receive(a) \/ Forward(a) \/ ForwardEnds(a)
  \/ WatchdogWakes(a) \/ WatchdogThaws(a)

Interface ==
  \/ \E t \in Terminals : SelectTerminal(t) \/ CloseTerminal(t)
  \/ Leave \/ Type
  \/ \E q \in waiting : TimeOut(q)

Next ==
  \/ \E t \in Terminals : Output(t) \/ WindowCloses(t)
  \/ \E a \in Attachments : ClientLost(a) \/ Thread(a)
  \/ Serve \/ Interface
  \/ \E r \in answers : ReceiveAnswer(r)
  \/ ReceiveEvent

(* The threads, the gateway and the event loops run; nothing is asked of   *)
(* the programs, of tmux or of the user.                                   *)
Spec == Init /\ [][Next]_vars
        /\ (\A a \in Attachments : WF_vars(Thread(a))) /\ WF_vars(Serve)
        /\ WF_vars(\E r \in answers : ReceiveAnswer(r)) /\ WF_vars(ReceiveEvent)

TypeOK ==
  /\ output \in [Terminals -> Nat] /\ alive \subseteq Terminals /\ open \subseteq Terminals
  /\ \A a \in Attachments : att[a].term \in Terminals /\ att[a].held \in Lines \cup {None}
                             /\ att[a].queue \in Seq(Lines) /\ att[a].queued \in Nat
  /\ attached \in Attachments \cup {None} /\ route \in Terminals \cup {None} /\ nextId \in 1 .. MaxAttach + 1
  /\ calls \cup waiting \subseteq [op : Ops, of : Terminals \cup Attachments]
  /\ stage \in {"idle", "spawned", "off", "start", "on", "killed"} /\ (job = None <=> stage = "idle")
  /\ wire \in Seq(Events)
  /\ view \in Attachments \cup {None} /\ next \in Nat /\ {ready, error} \subseteq BOOLEAN
  /\ reached \subseteq Attachments \X Terminals

(* The viewport keeps the promise of TerminalView: what start_stream,      *)
(* forward_control_output and classifyRuntimeEvent let through to the      *)
(* screen is the terminal's output without a gap or a repetition, across   *)
(* the bootstrap, overflows, stale events and late requests.               *)
View == INSTANCE TerminalView WITH viewing <- IF view = None THEN None ELSE att[view].term
ViewSpec == View!Spec

(* What a started stream's terminal writes is shown, or the viewer is told *)
(* or has moved on: no overflow, lost client or closed window stays silent *)
(* (forward_control_output, AppShell's attachTerminal).                    *)
MaxText == Max({Len(Text[t]) : t \in Terminals})
DeliveredOrTold ==
  \A a \in Attachments : \A n \in 1 .. MaxText :
    (view = a /\ ready /\ output[att[a].term] >= n) ~>
      (Len(screen) >= n \/ view # a \/ error \/ att[a].term \notin open)

(* A pane that was turned off to take its history is turned on again,      *)
(* whether the stream is started, given up, or forgotten by its viewer:    *)
(* the watchdog of attach.                                                 *)
Thaws == \A t \in Terminals : Frozen(t) ~> ~Frozen(t)

(* What is sent for an attachment reaches its own terminal, also when the  *)
(* request comes after another terminal was attached: ensure_current_stream. *)
InputStaysHome == \A x \in reached : x[2] = att[x[1]].term /\ att[x[1]].started

(* The bytes counted are those in the queue and in the forwarder's hand,   *)
(* and stay within the bounds: ControlLine and start_control_reader.       *)
Bytes(q) ==
  LET sum[i \in 0 .. Len(q)] == IF i = 0 THEN 0 ELSE sum[i - 1] + q[i].size
  IN  sum[Len(q)]
Balanced(r) ==
  /\ r.queued = Bytes(r.queue) + (IF r.held = None THEN 0 ELSE r.held.size)
  /\ r.queued <= MaxBytes /\ Len(r.queue) <= MaxLines
QueueAccounted == \A a \in Attachments : Balanced(att[a])

(* The events of the attached stream pass the route of the gateway.        *)
RouteFollowsAttachment == attached # None => route = att[attached].term
=============================================================================
