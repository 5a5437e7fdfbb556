------------------------ MODULE TerminalStreamProofs ------------------------
(***************************************************************************)
(* Proofs about TerminalStream, for any terminals, texts, limits of the    *)
(* queue, number of attachments, deeds and faults.                         *)
(***************************************************************************)
EXTENDS TerminalStream, Integers, SequenceTheorems, WellFoundedInduction, TLAPS

Rows == [term : Terminals, client : BOOLEAN, off : BOOLEAN, started : BOOLEAN, expired : BOOLEAN,
         detached : BOOLEAN, history : Nat, queue : Seq(Lines), queued : Int, held : Lines \cup {None},
         reader : {"on", "stopped"}, forwarder : {"none", "run", "done"}, seq : Nat \ {0},
         watchdog : {"none", "sleep", "expire", "done"}]

Requests == {q \in [op : Ops, of : Terminals \cup Attachments] :
               IF q.op \in {"attach", "switch", "close"} THEN q.of \in Terminals ELSE q.of \in Attachments}

(***************************************************************************)
(* The types, and where the gateway is.                                    *)
(***************************************************************************)
AnswersOK == \A r \in answers : /\ r.to \in Requests /\ r.ok \in BOOLEAN
                                /\ r.ok /\ Select(r.to) => r.att \in Attachments /\ r.att < nextId

Types ==
  /\ output \in [Terminals -> Nat] /\ alive \subseteq Terminals
  /\ att \in [Attachments -> Rows]
  /\ nextId \in 1 .. MaxAttach + 1
  /\ attached = None \/ (attached \in Attachments /\ attached < nextId)
  /\ route \in Terminals \cup {None}
  /\ calls \subseteq Requests /\ waiting \subseteq Requests
  /\ job \in Requests \cup {None} /\ (job = None <=> stage = "idle")
  /\ stage \in {"idle", "spawned", "off", "start", "on", "killed"}
  /\ AnswersOK
  /\ wire \in Seq(Events)
  /\ view = None \/ (view \in Attachments /\ view < nextId)
  /\ next \in Nat /\ ready \in BOOLEAN /\ screen \in Seq(Nat)

(* What the job is when the gateway is inside one.                         *)
Working ==
  /\ stage \in {"spawned", "off"} => Select(job) /\ nextId \in Attachments /\ att[nextId].term = job.of
  /\ stage \in {"start", "on"} => job.op = "start" /\ job.of < nextId
  /\ stage = "start" => ~att[job.of].started
  /\ stage = "killed" => job.op = "close"

Routes == attached # None => route = att[attached].term
Sent == \A x \in reached :
          x[1] \in Attachments /\ x[1] < nextId /\ x[2] = att[x[1]].term /\ att[x[1]].started

(***************************************************************************)
(* The lines between tmux and the viewport.  k is the number of lines that *)
(* the history of the attachment has, o what tmux has read by now.         *)
(***************************************************************************)
Own(t, l) == l.pane = t /\ l.n # 0

(* The own lines of a queue are f, f + 1, ... up to some number, in order, *)
Chain(q, t, f) ==
  \A i \in 1 .. Len(q) : Own(t, q[i]) =>
    /\ f <= q[i].n
    /\ \A j \in 1 .. i - 1 : Own(t, q[j]) => q[j].n < q[i].n
    /\ \A m \in f .. q[i].n : \E j \in 1 .. i : Own(t, q[j]) /\ q[j].n = m

(* ... which is at most o, ... or exactly o.                               *)
Within(q, t, o) == \A i \in 1 .. Len(q) : Own(t, q[i]) => q[i].n <= o
Reaches(q, t, f, o) == \A m \in f .. o : \E j \in 1 .. Len(q) : Own(t, q[j]) /\ q[j].n = m

InHand(r) == r.held # None /\ Own(r.term, r.held)
First(r, k) == k + r.seq + (IF InHand(r) THEN 1 ELSE 0)

Piped(r, k, o) ==
  /\ InHand(r) => r.held.n = k + r.seq
  /\ First(r, k) <= o + 1
  /\ Chain(r.queue, r.term, First(r, k)) /\ Within(r.queue, r.term, o)
  /\ r.reader = "on" /\ r.forwarder # "done" => Reaches(r.queue, r.term, First(r, k), o)

Sound(r) ==
  /\ r.reader = "on" => r.client
  /\ r.held # None => r.forwarder = "run"
  /\ r.forwarder # "none" => r.started

(* An attachment that has its history, and one that has not.               *)
Born(r, k, o) == Sound(r) /\ Piped(r, k, o) /\ k <= o /\ (~r.started => r.history = k)
Unborn(r) == /\ Sound(r) /\ r.held = None /\ r.forwarder = "none" /\ ~r.started
             /\ r.watchdog = "none" /\ r.seq = 1

(* While its pane is off, none of its lines comes.                         *)
Drained(r) == /\ r.reader = "on" => r.off
              /\ \A i \in 1 .. Len(r.queue) : ~Own(r.term, r.queue[i])

AttachmentsOK(h) == \A a \in Attachments :
  IF a < nextId THEN Born(att[a], h[a], output[att[a].term]) ELSE Unborn(att[a])
Recovering == stage = "off" => Drained(att[nextId])

EventOK(e, h) ==
  /\ e.att < nextId /\ e.n <= output[att[e.att].term]
  /\ e.kind = "history" => e.seq = 0 /\ e.n = h[e.att]
  /\ e.kind = "output" => e.seq > 0 /\ e.n = h[e.att] + e.seq
Honest(h) == {e \in Events : EventOK(e, h)}
WireOK(h) == \A i \in 1 .. Len(wire) : wire[i] \in Honest(h)

ScreenOK(h) == view # None =>
  IF next = 0 THEN screen = <<>> ELSE Len(screen) = h[view] + next - 1

Flow(h) == AttachmentsOK(h) /\ WireOK(h) /\ ScreenOK(h)
Core(h) == Types /\ Working /\ Routes /\ Sent /\ Recovering /\ Flow(h)

Inv == \E h \in [Attachments -> Nat] : Core(h)

(***************************************************************************)
(* Queues.                                                                 *)
(***************************************************************************)
LEMMA NoLine == None \notin Lines
BY NoneAssumption

LEMMA NoRequest == None \notin Requests
BY NoneAssumption DEF Requests

LEMMA LineInQueue ==
  ASSUME NEW q \in Seq(Lines)
  PROVE  Len(q) \in Nat /\ \A i \in 1 .. Len(q) : q[i] \in Lines /\ q[i].n \in Nat
<1>1. \A i \in 1 .. Len(q) : q[i] \in Lines  OBVIOUS
<1> QED  BY <1>1 DEF Lines

LEMMA EmptyQueue ==
  ASSUME NEW t, NEW f, NEW o
  PROVE  Chain(<<>>, t, f) /\ Within(<<>>, t, o)
BY DEF Chain, Within

LEMMA ChainAppend ==
  ASSUME NEW q \in Seq(Lines), NEW l \in Lines, NEW t, NEW f \in Nat, NEW o \in Nat, NEW p \in Nat,
         Chain(q, t, f), Within(q, t, o), Reaches(q, t, f, o), f <= o + 1,
         Own(t, l) => l.n = o + 1 /\ p = o + 1, ~Own(t, l) => p = o
  PROVE  Chain(Append(q, l), t, f) /\ Within(Append(q, l), t, p) /\ Reaches(Append(q, l), t, f, p)
<1> DEFINE s == Append(q, l)
           n == Len(q)
<1>1. n \in Nat /\ \A i \in 1 .. n : q[i].n \in Nat  BY LineInQueue
<1>2. Len(s) = n + 1 /\ s[n + 1] = l /\ \A i \in 1 .. n : s[i] = q[i]  OBVIOUS
<1>3. l.n \in Nat  BY DEF Lines
<1>4. /\ \A i \in 1 .. n : Own(t, q[i]) => f <= q[i].n /\ q[i].n <= o
      /\ \A i \in 1 .. n : \A j \in 1 .. i - 1 : Own(t, q[i]) /\ Own(t, q[j]) => q[j].n < q[i].n
      /\ \A i \in 1 .. n : Own(t, q[i]) => \A m \in f .. q[i].n : \E j \in 1 .. i : Own(t, q[j]) /\ q[j].n = m
      /\ \A m \in f .. o : \E j \in 1 .. n : Own(t, q[j]) /\ q[j].n = m
  BY DEF Chain, Within, Reaches
<1> HIDE DEF s, n
<1>5. ASSUME NEW i \in 1 .. n + 1, Own(t, s[i])
      PROVE  /\ f <= s[i].n /\ s[i].n <= p
             /\ \A j \in 1 .. i - 1 : Own(t, s[j]) => s[j].n < s[i].n
             /\ \A m \in f .. s[i].n : \E j \in 1 .. i : Own(t, s[j]) /\ s[j].n = m
  <2>1. CASE i \in 1 .. n
    <3>1. s[i] = q[i] /\ Own(t, q[i]) /\ \A j \in 1 .. i : s[j] = q[j]  BY <2>1, <1>5, <1>2, <1>1
    <3>2. f <= s[i].n /\ s[i].n <= p  BY <3>1, <2>1, <1>1, <1>4
    <3>3. \A j \in 1 .. i - 1 : Own(t, s[j]) => s[j].n < s[i].n  BY <3>1, <2>1, <1>1, <1>4
    <3>4. ASSUME NEW m \in f .. s[i].n PROVE \E j \in 1 .. i : Own(t, s[j]) /\ s[j].n = m
      <4>1. PICK j \in 1 .. i : Own(t, q[j]) /\ q[j].n = m  BY <3>1, <2>1, <1>4
      <4>2. s[j] = q[j]  BY <3>1
      <4> QED  BY <4>1, <4>2
    <3> QED  BY <3>2, <3>3, <3>4
  <2>2. CASE i = n + 1
    <3>1. s[i] = l /\ Own(t, l) /\ l.n = o + 1 /\ p = o + 1  BY <2>2, <1>5, <1>2
    <3>2. f <= s[i].n /\ s[i].n <= p  BY <3>1
    <3>3. \A j \in 1 .. i - 1 : Own(t, s[j]) => s[j].n < s[i].n  BY <3>1, <2>2, <1>1, <1>2, <1>4
    <3>4. ASSUME NEW m \in f .. s[i].n PROVE \E j \in 1 .. i : Own(t, s[j]) /\ s[j].n = m
      <4>1. CASE m = o + 1  BY <4>1, <3>1, <2>2, <1>1
      <4>2. CASE m # o + 1
        <5>1. m \in f .. o  BY <4>2, <3>1
        <5>2. PICK j \in 1 .. n : Own(t, q[j]) /\ q[j].n = m  BY <5>1, <1>4
        <5>3. j \in 1 .. i /\ s[j] = q[j]  BY <2>2, <1>1, <1>2
        <5> QED  BY <5>2, <5>3
      <4> QED  BY <4>1, <4>2
    <3> QED  BY <3>2, <3>3, <3>4
  <2> QED  BY <2>1, <2>2, <1>1
<1>6. ASSUME NEW m \in f .. p PROVE \E j \in 1 .. n + 1 : Own(t, s[j]) /\ s[j].n = m
  <2>1. CASE m \in f .. o
    <3>1. PICK j \in 1 .. n : Own(t, q[j]) /\ q[j].n = m  BY <2>1, <1>4
    <3>2. j \in 1 .. n + 1 /\ s[j] = q[j]  BY <1>1, <1>2
    <3> QED  BY <3>1, <3>2
  <2>2. CASE m \notin f .. o
    <3>1. Own(t, l) /\ m = l.n  BY <2>2
    <3>2. n + 1 \in 1 .. n + 1 /\ s[n + 1] = l  BY <1>1, <1>2
    <3> QED  BY <3>1, <3>2
  <2> QED  BY <2>1, <2>2
<1>7. Chain(s, t, f)  BY <1>2, <1>5 DEF Chain
<1>8. Within(s, t, p)  BY <1>2, <1>5 DEF Within
<1>9. Reaches(s, t, f, p)  BY <1>2, <1>6 DEF Reaches
<1> QED  BY <1>7, <1>8, <1>9 DEF s

(* The head is taken: an own one is the first expected.                    *)
LEMMA ChainTail ==
  ASSUME NEW q \in Seq(Lines), q # <<>>, NEW t, NEW f \in Nat, NEW o \in Nat, NEW g \in Nat,
         Chain(q, t, f), Within(q, t, o), g = IF Own(t, Head(q)) THEN f + 1 ELSE f
  PROVE  /\ Own(t, Head(q)) => Head(q).n = f /\ f <= o
         /\ Chain(Tail(q), t, g) /\ Within(Tail(q), t, o)
         /\ Reaches(q, t, f, o) => Reaches(Tail(q), t, g, o)
<1> DEFINE s == Tail(q)
           n == Len(q)
<1>0. Len(q) \in Nat \ {0}  OBVIOUS
<1>1. n \in Nat \ {0} /\ \A i \in 1 .. n : q[i].n \in Nat  BY <1>0, LineInQueue
<1>2. Head(q) = q[1] /\ Len(s) = n - 1 /\ \A i \in 1 .. n - 1 : s[i] = q[i + 1]  BY <1>1
<1>4. /\ \A i \in 1 .. n : Own(t, q[i]) => f <= q[i].n /\ q[i].n <= o
      /\ \A i \in 1 .. n : \A j \in 1 .. i - 1 : Own(t, q[i]) /\ Own(t, q[j]) => q[j].n < q[i].n
      /\ \A i \in 1 .. n : Own(t, q[i]) => \A m \in f .. q[i].n : \E j \in 1 .. i : Own(t, q[j]) /\ q[j].n = m
  BY DEF Chain, Within
<1> HIDE DEF s, n
<1>5. Own(t, q[1]) => q[1].n = f /\ f <= o
  <2> SUFFICES ASSUME Own(t, q[1]) PROVE q[1].n = f /\ f <= o  OBVIOUS
  <2>1. 1 \in 1 .. n /\ f <= q[1].n /\ q[1].n <= o /\ q[1].n \in Nat  BY <1>1, <1>4
  <2>2. f \in f .. q[1].n  BY <2>1
  <2>3. PICK j \in 1 .. 1 : Own(t, q[j]) /\ q[j].n = f  BY <2>1, <2>2, <1>4
  <2>4. j = 1  OBVIOUS
  <2> QED  BY <2>1, <2>3, <2>4
<1>6. \A i \in 2 .. n : Own(t, q[i]) => g <= q[i].n
  <2> SUFFICES ASSUME NEW i \in 2 .. n, Own(t, q[i]) PROVE g <= q[i].n  OBVIOUS
  <2>1. i \in 1 .. n /\ 1 \in 1 .. i - 1 /\ f <= q[i].n /\ q[i].n \in Nat  BY <1>1, <1>4
  <2>2. CASE Own(t, q[1])
    <3>1. q[1].n < q[i].n  BY <2>1, <2>2, <1>4
    <3> QED  BY <3>1, <2>1, <2>2, <1>2, <1>5
  <2>3. CASE ~Own(t, q[1])  BY <2>1, <2>3, <1>2
  <2> QED  BY <2>2, <2>3
<1>7. ASSUME NEW i \in 2 .. n, NEW m, m >= g, m \in Nat,
             \E j \in 1 .. i : Own(t, q[j]) /\ q[j].n = m
      PROVE  \E j \in 1 .. i - 1 : Own(t, s[j]) /\ s[j].n = m
  <2>1. PICK j \in 1 .. i : Own(t, q[j]) /\ q[j].n = m  BY <1>7
  <2>2. j # 1  BY <2>1, <1>7, <1>2, <1>5
  <2>3. j - 1 \in 1 .. i - 1 /\ j - 1 \in 1 .. n - 1 /\ (j - 1) + 1 = j  BY <2>2, <1>1
  <2>4. s[j - 1] = q[j]  BY <2>3, <1>2
  <2> QED  BY <2>1, <2>3, <2>4
<1>8. ASSUME NEW i \in 1 .. n - 1, Own(t, s[i])
      PROVE  /\ g <= s[i].n /\ s[i].n <= o
             /\ \A j \in 1 .. i - 1 : Own(t, s[j]) => s[j].n < s[i].n
             /\ \A m \in g .. s[i].n : \E j \in 1 .. i : Own(t, s[j]) /\ s[j].n = m
  <2>1. i + 1 \in 2 .. n /\ i + 1 \in 1 .. n /\ s[i] = q[i + 1] /\ Own(t, q[i + 1]) /\ q[i + 1].n \in Nat
    BY <1>8, <1>1, <1>2
  <2>2. g <= s[i].n /\ s[i].n <= o  BY <2>1, <1>4, <1>6
  <2>3. \A j \in 1 .. i - 1 : Own(t, s[j]) => s[j].n < s[i].n
    <3> SUFFICES ASSUME NEW j \in 1 .. i - 1, Own(t, s[j]) PROVE s[j].n < s[i].n  OBVIOUS
    <3>1. j \in 1 .. n - 1 /\ s[j] = q[j + 1] /\ j + 1 \in 1 .. (i + 1) - 1  BY <1>1, <1>2
    <3> QED  BY <3>1, <2>1, <1>4
  <2>4. \A m \in g .. s[i].n : \E j \in 1 .. i : Own(t, s[j]) /\ s[j].n = m
    <3> SUFFICES ASSUME NEW m \in g .. s[i].n PROVE \E j \in 1 .. i : Own(t, s[j]) /\ s[j].n = m  OBVIOUS
    <3>1. m \in f .. q[i + 1].n /\ m \in Nat /\ m >= g  BY <2>1
    <3>2. \E j \in 1 .. i + 1 : Own(t, q[j]) /\ q[j].n = m  BY <3>1, <2>1, <1>4
    <3>3. \E j \in 1 .. (i + 1) - 1 : Own(t, s[j]) /\ s[j].n = m  BY <3>1, <3>2, <2>1, <1>7
    <3>4. (i + 1) - 1 = i  BY <1>1
    <3> QED  BY <3>3, <3>4
  <2> QED  BY <2>2, <2>3, <2>4
<1>9. Chain(s, t, g)  BY <1>2, <1>8 DEF Chain
<1>10. Within(s, t, o)  BY <1>2, <1>8 DEF Within
<1>11. Reaches(q, t, f, o) => Reaches(s, t, g, o)
  <2> SUFFICES ASSUME Reaches(q, t, f, o), NEW m \in g .. o PROVE \E j \in 1 .. n - 1 : Own(t, s[j]) /\ s[j].n = m
    BY <1>2 DEF Reaches
  <2>1. m \in f .. o /\ m \in Nat /\ m >= g  OBVIOUS
  <2>2. PICK j \in 1 .. n : Own(t, q[j]) /\ q[j].n = m  BY <2>1 DEF Reaches, n
  <2>3. j # 1  BY <2>1, <2>2, <1>2, <1>5
  <2>4. j - 1 \in 1 .. n - 1 /\ (j - 1) + 1 = j  BY <2>3, <1>1
  <2>5. s[j - 1] = q[j]  BY <2>4, <1>2
  <2> QED  BY <2>2, <2>4, <2>5
<1> QED  BY <1>2, <1>5, <1>9, <1>10, <1>11 DEF s

(***************************************************************************)
(* What is done to one attachment.                                         *)
(***************************************************************************)
(* Fields a reader leaves alone.                                           *)
Alike(r, s) == /\ s.term = r.term /\ s.off = r.off /\ s.started = r.started /\ s.history = r.history
               /\ s.held = r.held /\ s.forwarder = r.forwarder /\ s.seq = r.seq /\ s.watchdog = r.watchdog
               /\ s.client = r.client

LEMMA ReadCases ==
  ASSUME NEW r \in Rows, NEW l \in Lines
  PROVE  /\ Read(r, l) \in Rows /\ Alike(r, Read(r, l))
         /\ \/ Read(r, l).reader = "stopped" /\ Read(r, l).queue = r.queue
            \/ ~r.client /\ Read(r, l) = r
            \/ /\ Read(r, l).reader = "on" /\ r.reader = "on" /\ r.client /\ r.forwarder # "done"
               /\ Read(r, l).queue = Append(r.queue, l)
<1>1. CASE ~r.client \/ r.reader = "stopped"  BY <1>1 DEF Read, Alike
<1>2. CASE ~(~r.client \/ r.reader = "stopped") /\ (TooMuch(r, l) \/ r.forwarder = "done")
  <2>1. Read(r, l) = [r EXCEPT !.reader = "stopped"]  BY <1>2 DEF Read
  <2> QED  BY <2>1 DEF Alike, Rows
<1>3. CASE ~(~r.client \/ r.reader = "stopped") /\ ~(TooMuch(r, l) \/ r.forwarder = "done")
  <2>1. Read(r, l) = [r EXCEPT !.queue = Append(@, l), !.queued = @ + l.size]  BY <1>3 DEF Read
  <2>2. r.reader = "on" /\ r.client /\ r.forwarder # "done"  BY <1>3 DEF Rows
  <2>3. Append(r.queue, l) \in Seq(Lines) /\ r.queued + l.size \in Int  BY DEF Rows, Lines
  <2>4. Read(r, l) \in Rows  BY <2>1, <2>3 DEF Rows
  <2> QED  BY <2>1, <2>2, <2>4 DEF Alike, Rows
<1> QED  BY <1>1, <1>2, <1>3

LEMMA ReadSound ==
  ASSUME NEW r \in Rows, NEW l \in Lines, Sound(r)
  PROVE  Sound(Read(r, l))
BY ReadCases DEF Sound, Alike

LEMMA FirstNat ==
  ASSUME NEW r \in Rows, NEW k \in Nat
  PROVE  First(r, k) \in Nat
BY DEF First, Rows

LEMMA ReadBorn ==
  ASSUME NEW r \in Rows, NEW l \in Lines, NEW k \in Nat, NEW o \in Nat, NEW p \in Nat, Born(r, k, o),
         Own(r.term, l) => l.n = o + 1 /\ p = o + 1, ~Own(r.term, l) => p = o
  PROVE  Born(Read(r, l), k, p)
<1> DEFINE s == Read(r, l)
           f == First(r, k)
<1> SUFFICES Born(s, k, p)  OBVIOUS
<1> HIDE DEF s
<1>1. s \in Rows /\ Alike(r, s) /\ Sound(s)  BY ReadCases, ReadSound DEF s, Born
<1>2. InHand(s) = InHand(r) /\ First(s, k) = f /\ f \in Nat /\ o <= p
  BY <1>1, FirstNat DEF Alike, InHand, First
<1>3. f <= o + 1 /\ f <= p + 1 /\ k <= o /\ k <= p  BY <1>2 DEF Born, Piped
<1>4. (InHand(s) => s.held.n = k + s.seq) /\ (~s.started => s.history = k)
  BY <1>1, <1>2 DEF Born, Piped, Alike
<1>5. Chain(r.queue, r.term, f) /\ Within(r.queue, r.term, o) /\ r.queue \in Seq(Lines)
  BY DEF Born, Piped, Rows
<1>6. Within(r.queue, r.term, p)
  <2>1. \A i \in 1 .. Len(r.queue) : r.queue[i].n \in Nat  BY <1>5, LineInQueue
  <2> QED  BY <2>1, <1>2, <1>5 DEF Within
<1>7. CASE s.reader = "stopped" /\ s.queue = r.queue
  <2>1. Piped(s, k, p)  BY <1>1, <1>2, <1>3, <1>4, <1>5, <1>6, <1>7 DEF Piped, Alike
  <2> QED  BY <2>1, <1>1, <1>3, <1>4 DEF Born
<1>8. CASE ~r.client /\ s = r
  <2>1. s.reader = "stopped"  BY <1>8 DEF Born, Sound, Rows
  <2> QED  BY <2>1, <1>7, <1>8
<1>9. CASE s.reader = "on" /\ r.reader = "on" /\ r.client /\ r.forwarder # "done" /\ s.queue = Append(r.queue, l)
  <2>1. Reaches(r.queue, r.term, f, o)  BY <1>9 DEF Born, Piped
  <2>2. Chain(s.queue, r.term, f) /\ Within(s.queue, r.term, p) /\ Reaches(s.queue, r.term, f, p)
    BY <2>1, <1>2, <1>3, <1>5, <1>9, ChainAppend
  <2>3. Piped(s, k, p)  BY <2>2, <1>1, <1>2, <1>3, <1>4 DEF Piped, Alike
  <2> QED  BY <2>3, <1>1, <1>3, <1>4 DEF Born
<1> QED  BY <1>7, <1>8, <1>9, ReadCases DEF s

(* The threads' steps, and the gateway's, on an attachment with a history. *)
Keeps(r, s) == s \in Rows /\ s.term = r.term /\ (r.started => s.started)

LEMMA DroppedBorn ==
  ASSUME NEW r \in Rows, NEW k \in Nat, NEW o \in Nat, Born(r, k, o)
  PROVE  Keeps(r, Dropped(r)) /\ Born(Dropped(r), k, o)
<1> DEFINE s == Dropped(r)
<1>1. s \in Rows
  <2>e. PICK e \in Seq(Lines) : e = IF r.forwarder = "none" THEN <<>> ELSE r.queue
    BY EmptySeq DEF Rows
  <2>x. PICK x \in Int : x = IF r.forwarder = "none" THEN 0 ELSE r.queued  BY DEF Rows
  <2>s. s = [r EXCEPT !.detached = TRUE, !.client = FALSE, !.off = FALSE, !.reader = "stopped",
                      !.queue = e, !.queued = x]
    BY <2>e, <2>x DEF Dropped, Rows
  <2>1. /\ s.term \in Terminals /\ s.client \in BOOLEAN /\ s.off \in BOOLEAN /\ s.started \in BOOLEAN
        /\ s.expired \in BOOLEAN /\ s.detached \in BOOLEAN
    BY <2>s DEF Rows
  <2>2. s.history \in Nat /\ s.queue \in Seq(Lines) /\ s.queued \in Int  BY <2>s DEF Rows
  <2>3. s.held \in Lines \cup {None} /\ s.reader \in {"on", "stopped"} /\ s.forwarder \in {"none", "run", "done"}
    BY <2>s DEF Rows
  <2>4. s.seq \in Nat \ {0} /\ s.watchdog \in {"none", "sleep", "expire", "done"}  BY <2>s DEF Rows
  <2>5. s = [term |-> s.term, client |-> s.client, off |-> s.off, started |-> s.started,
             expired |-> s.expired, detached |-> s.detached, history |-> s.history, queue |-> s.queue,
             queued |-> s.queued, held |-> s.held, reader |-> s.reader, forwarder |-> s.forwarder,
             seq |-> s.seq, watchdog |-> s.watchdog]
    BY <2>s DEF Rows
  <2> HIDE DEF s
  <2> QED  BY <2>1, <2>2, <2>3, <2>4, <2>5 DEF Rows
<1>2. /\ s.term = r.term /\ s.started = r.started /\ s.history = r.history /\ s.held = r.held
      /\ s.forwarder = r.forwarder /\ s.seq = r.seq /\ s.reader = "stopped"
      /\ s.queue = (IF r.forwarder = "none" THEN <<>> ELSE r.queue)
  BY DEF Dropped, Rows
<1> HIDE DEF s
<1>3. InHand(s) = InHand(r) /\ First(s, k) = First(r, k)  BY <1>2 DEF InHand, First
<1>4. Chain(s.queue, s.term, First(s, k)) /\ Within(s.queue, s.term, o)
  BY <1>2, <1>3, EmptyQueue DEF Born, Piped
<1>5. Piped(s, k, o)  BY <1>2, <1>3, <1>4 DEF Born, Piped
<1>6. Sound(s)  BY <1>2 DEF Born, Sound
<1> QED  BY <1>1, <1>2, <1>5, <1>6 DEF Keeps, Born, s

LEMMA EndedBorn ==
  ASSUME NEW r \in Rows, NEW k \in Nat, NEW o \in Nat, Born(r, k, o), r.started
  PROVE  Keeps(r, Ended(r)) /\ Born(Ended(r), k, o)
<1> DEFINE s == Ended(r)
<1>1. s \in Rows
  <2>e. PICK e \in Seq(Lines) : e = <<>>  BY EmptySeq
  <2>s. s = [r EXCEPT !.forwarder = "done", !.held = None, !.queue = e, !.queued = 0]  BY <2>e DEF Ended
  <2>1. /\ s.term \in Terminals /\ s.client \in BOOLEAN /\ s.off \in BOOLEAN /\ s.started \in BOOLEAN
        /\ s.expired \in BOOLEAN /\ s.detached \in BOOLEAN
    BY <2>s DEF Rows
  <2>2. s.history \in Nat /\ s.queue \in Seq(Lines) /\ s.queued \in Int  BY <2>s DEF Rows
  <2>3. s.held \in Lines \cup {None} /\ s.reader \in {"on", "stopped"} /\ s.forwarder \in {"none", "run", "done"}
    BY <2>s DEF Rows
  <2>4. s.seq \in Nat \ {0} /\ s.watchdog \in {"none", "sleep", "expire", "done"}  BY <2>s DEF Rows
  <2>5. s = [term |-> s.term, client |-> s.client, off |-> s.off, started |-> s.started,
             expired |-> s.expired, detached |-> s.detached, history |-> s.history, queue |-> s.queue,
             queued |-> s.queued, held |-> s.held, reader |-> s.reader, forwarder |-> s.forwarder,
             seq |-> s.seq, watchdog |-> s.watchdog]
    BY <2>s DEF Rows
  <2> HIDE DEF s
  <2> QED  BY <2>1, <2>2, <2>3, <2>4, <2>5 DEF Rows
<1>2. /\ s.term = r.term /\ s.started = r.started /\ s.held = None /\ s.client = r.client
      /\ s.forwarder = "done" /\ s.seq = r.seq /\ s.reader = r.reader /\ s.queue = <<>>
  BY DEF Ended, Rows
<1> HIDE DEF s
<1>3. ~InHand(s) /\ First(s, k) \in Nat /\ First(r, k) \in Nat /\ First(s, k) <= First(r, k)
  BY <1>2 DEF InHand, First, Rows
<1>4. First(s, k) <= o + 1  BY <1>3 DEF Born, Piped
<1>5. Piped(s, k, o)  BY <1>2, <1>3, <1>4, EmptyQueue DEF Piped
<1>6. Sound(s)  BY <1>2 DEF Born, Sound
<1> QED  BY <1>1, <1>2, <1>5, <1>6 DEF Keeps, Born, s

LEMMA TakenBorn ==
  ASSUME NEW r \in Rows, NEW k \in Nat, NEW o \in Nat, Born(r, k, o),
         r.forwarder = "run", r.held = None, r.queue # <<>>,
         NEW s, s = [r EXCEPT !.held = Head(r.queue), !.queue = Tail(r.queue)]
  PROVE  Keeps(r, s) /\ Born(s, k, o)
<1>1. r.queue \in Seq(Lines) /\ Head(r.queue) \in Lines /\ Tail(r.queue) \in Seq(Lines)
  BY HeadTailProperties DEF Rows
<1>2. s \in Rows  BY <1>1 DEF Rows
<1>3. /\ s.term = r.term /\ s.started = r.started /\ s.history = r.history /\ s.client = r.client
      /\ s.held = Head(r.queue) /\ s.queue = Tail(r.queue) /\ s.seq = r.seq
      /\ s.forwarder = "run" /\ s.reader = r.reader
  BY DEF Rows
<1> DEFINE f == First(r, k)
<1>4. f = k + r.seq /\ f \in Nat  BY DEF First, InHand, Rows
<1>5. InHand(s) <=> Own(r.term, Head(r.queue))  BY <1>1, <1>3, NoLine DEF InHand
<1>6. First(s, k) = IF Own(r.term, Head(r.queue)) THEN f + 1 ELSE f  BY <1>3, <1>4, <1>5 DEF First, Rows
<1>7. Chain(r.queue, r.term, f) /\ Within(r.queue, r.term, o) /\ f <= o + 1  BY DEF Born, Piped
<1>8. /\ Own(r.term, Head(r.queue)) => Head(r.queue).n = f /\ f <= o
      /\ Chain(Tail(r.queue), r.term, First(s, k)) /\ Within(Tail(r.queue), r.term, o)
      /\ Reaches(r.queue, r.term, f, o) => Reaches(Tail(r.queue), r.term, First(s, k), o)
  BY <1>1, <1>4, <1>6, <1>7, ChainTail
<1>9. First(s, k) <= o + 1  BY <1>4, <1>6, <1>7, <1>8
<1>10. Piped(s, k, o)  BY <1>3, <1>4, <1>5, <1>8, <1>9 DEF Born, Piped
<1>11. Sound(s)  BY <1>3 DEF Born, Sound
<1> QED  BY <1>2, <1>3, <1>10, <1>11 DEF Keeps, Born

LEMMA HandledBorn ==
  ASSUME NEW r \in Rows, NEW k \in Nat, NEW o \in Nat, Born(r, k, o), r.held # None,
         NEW s, s = [Handled(r) EXCEPT !.seq = IF Own(r.term, r.held) THEN @ + 1 ELSE @]
  PROVE  Keeps(r, s) /\ Born(s, k, o) /\ (Own(r.term, r.held) => r.held.n = k + r.seq /\ k + r.seq <= o)
<1>1. r.held \in Lines /\ r.held.size \in Nat /\ r.queued - r.held.size \in Int  BY DEF Rows, Lines
<1>2. /\ Handled(r) \in Rows /\ Handled(r).seq = r.seq /\ Handled(r).held = None
      /\ Handled(r).term = r.term /\ Handled(r).started = r.started /\ Handled(r).history = r.history
      /\ Handled(r).client = r.client /\ Handled(r).queue = r.queue /\ Handled(r).forwarder = r.forwarder
      /\ Handled(r).reader = r.reader
  BY <1>1 DEF Handled, Rows
<1>3. s \in Rows  BY <1>2 DEF Rows
<1>4. /\ s.term = r.term /\ s.started = r.started /\ s.history = r.history /\ s.client = r.client
      /\ s.held = None /\ s.queue = r.queue /\ s.forwarder = r.forwarder /\ s.reader = r.reader
      /\ s.seq = IF Own(r.term, r.held) THEN r.seq + 1 ELSE r.seq
  BY <1>2 DEF Rows
<1>5. InHand(r) <=> Own(r.term, r.held)  BY DEF InHand
<1>6. ~InHand(s) /\ First(s, k) = First(r, k)
  <2>1. ~InHand(s)  BY <1>4 DEF InHand
  <2>2. First(s, k) = k + s.seq /\ r.seq \in Nat  BY <2>1, <1>3 DEF First, Rows
  <2>3. CASE Own(r.term, r.held)
    <3>1. First(r, k) = k + r.seq + 1  BY <2>3, <1>5 DEF First
    <3> QED  BY <2>1, <2>2, <2>3, <3>1, <1>4
  <2>4. CASE ~Own(r.term, r.held)
    <3>1. First(r, k) = k + r.seq  BY <2>2, <2>4, <1>5 DEF First
    <3> QED  BY <2>1, <2>2, <2>4, <3>1, <1>4
  <2> QED  BY <2>3, <2>4
<1>7. Piped(s, k, o)  BY <1>4, <1>6 DEF Born, Piped
<1>8. Sound(s)  BY <1>4 DEF Born, Sound
<1>9. Own(r.term, r.held) => r.held.n = k + r.seq /\ k + r.seq <= o
  <2>1. k + r.seq \in Nat /\ InHand(r) => First(r, k) = (k + r.seq) + 1  BY DEF First, Rows
  <2>2. k + r.seq \in Nat  BY DEF Rows
  <2> QED  BY <1>5, <2>1, <2>2 DEF Born, Piped
<1> QED  BY <1>3, <1>4, <1>7, <1>8, <1>9 DEF Keeps, Born

(* The watchdog, the gateway's start and a lost client leave the pipe.     *)
LEMMA OtherBorn ==
  ASSUME NEW r \in Rows, NEW s \in Rows, NEW k \in Nat, NEW o \in Nat, Born(r, k, o),
         s.term = r.term, s.held = r.held, s.queue = r.queue, s.seq = r.seq,
         s.reader = "stopped" \/ (s.reader = r.reader /\ s.client = r.client),
         s.forwarder = r.forwarder \/ (s.forwarder = "run" /\ r.forwarder = "none"),
         s.started = r.started \/ s.started = TRUE, s.forwarder # "none" => s.started,
         s.history = r.history \/ s.started
  PROVE  Keeps(r, s) /\ Born(s, k, o)
<1>1. InHand(s) = InHand(r) /\ First(s, k) = First(r, k)  BY DEF InHand, First
<1>2. s.reader = "on" => r.reader = "on" /\ s.client = r.client  BY DEF Rows
<1>3. Piped(s, k, o)  BY <1>1, <1>2 DEF Born, Piped
<1>4. Sound(s)  BY <1>2 DEF Born, Sound, Rows
<1> QED  BY <1>3, <1>4 DEF Keeps, Born

(***************************************************************************)
(* Steps of all rows, of events and of answers.                            *)
(***************************************************************************)
RowsStep(h) ==
  /\ att' \in [Attachments -> Rows]
  /\ \A a \in Attachments :
       IF a < nextId THEN Keeps(att[a], att'[a]) /\ Born(att'[a], h[a], output'[att[a].term])
       ELSE Unborn(att'[a])

LEMMA RowsSent ==
  ASSUME NEW h \in [Attachments -> Nat], Core(h), RowsStep(h), nextId' = nextId
  PROVE  /\ AttachmentsOK(h)'
         /\ reached' = reached => Sent'
         /\ attached' = attached /\ route' = route => Routes'
<1>1. AttachmentsOK(h)'
  BY DEF RowsStep, AttachmentsOK, Keeps
<1>2. reached' = reached => Sent'
  BY DEF RowsStep, Core, Sent, Keeps
<1>3. attached' = attached /\ route' = route => Routes'
  BY DEF RowsStep, Core, Routes, Types, Keeps
<1> QED  BY <1>1, <1>2, <1>3

LEMMA RowsSame ==
  ASSUME NEW h \in [Attachments -> Nat], Core(h), UNCHANGED <<att, output>>
  PROVE  RowsStep(h)
BY DEF RowsStep, Core, Flow, AttachmentsOK, Types, Keeps

(* One row changes.                                                        *)
LEMMA RowStep ==
  ASSUME NEW h \in [Attachments -> Nat], Core(h), UNCHANGED output, NEW a \in Attachments, NEW s \in Rows,
         att' = [att EXCEPT ![a] = s],
         a < nextId => Keeps(att[a], s) /\ Born(s, h[a], output[att[a].term]),
         ~(a < nextId) => Unborn(s)
  PROVE  RowsStep(h)
<1>1. att \in [Attachments -> Rows] /\ AttachmentsOK(h)  BY DEF Core, Types, Flow
<1>2. att' \in [Attachments -> Rows]  BY <1>1
<1>3. \A b \in Attachments : att'[b] = IF b = a THEN s ELSE att[b]  BY <1>1
<1>4. \A b \in Attachments : b < nextId => Keeps(att[b], att[b])  BY <1>1 DEF Keeps
<1>5. ASSUME NEW b \in Attachments
      PROVE  IF b < nextId THEN Keeps(att[b], att'[b]) /\ Born(att'[b], h[b], output'[att[b].term])
             ELSE Unborn(att'[b])
  BY <1>1, <1>3, <1>4 DEF AttachmentsOK
<1> QED  BY <1>2, <1>5 DEF RowsStep

LEMMA UnbornRead ==
  ASSUME NEW r \in Rows, NEW l \in Lines, Unborn(r)
  PROVE  Unborn(Read(r, l))
BY ReadCases, ReadSound DEF Unborn, Alike

LEMMA DrainedRead ==
  ASSUME NEW r \in Rows, NEW l \in Lines, Drained(r), Own(r.term, l) => ~(r.client /\ r.off), Sound(r)
  PROVE  Drained(Read(r, l))
<1> DEFINE s == Read(r, l)
<1> SUFFICES Drained(s)  OBVIOUS
<1> HIDE DEF s
<1>1. s \in Rows /\ Alike(r, s)  BY ReadCases DEF s
<1>2. CASE s.reader = "stopped" /\ s.queue = r.queue  BY <1>1, <1>2 DEF Drained, Alike
<1>3. CASE ~r.client /\ s = r  BY <1>3
<1>4. CASE s.reader = "on" /\ r.reader = "on" /\ r.client /\ r.forwarder # "done" /\ s.queue = Append(r.queue, l)
  <2>1. r.off /\ ~Own(r.term, l)  BY <1>4 DEF Drained
  <2>2. r.queue \in Seq(Lines)  BY DEF Rows
  <2>3. Len(s.queue) = Len(r.queue) + 1 /\ s.queue[Len(r.queue) + 1] = l
        /\ \A i \in 1 .. Len(r.queue) : s.queue[i] = r.queue[i]
    BY <1>4, <2>2
  <2>4. Len(r.queue) \in Nat  BY <2>2
  <2>5. ASSUME NEW i \in 1 .. Len(s.queue) PROVE ~Own(r.term, s.queue[i])
    <3>1. CASE i = Len(r.queue) + 1  BY <3>1, <2>1, <2>3
    <3>2. CASE i \in 1 .. Len(r.queue)  BY <3>2, <2>3 DEF Drained
    <3> QED  BY <3>1, <3>2, <2>3, <2>4
  <2> QED  BY <1>1, <2>1, <2>5 DEF Drained, Alike
<1> QED  BY <1>2, <1>3, <1>4, ReadCases DEF s

LEMMA ReadAllStep ==
  ASSUME NEW h \in [Attachments -> Nat], Core(h), NEW l \in Lines, ReadAll(l), output' \in [Terminals -> Nat],
         \A t \in Terminals : IF Own(t, l) THEN l.n = output[t] + 1 /\ output'[t] = output[t] + 1
                              ELSE output'[t] = output[t],
         l.n # 0 => ~Frozen(l.pane)
  PROVE  /\ RowsStep(h)
         /\ \A a \in Attachments : att'[a].term = att[a].term /\ att'[a].started = att[a].started
         /\ Recovering /\ UNCHANGED <<stage, nextId>> => Recovering'
<1>1. att \in [Attachments -> Rows] /\ output \in [Terminals -> Nat] /\ AttachmentsOK(h)
  BY DEF Core, Types, Flow
<1>2. \A a \in Attachments : att[a] \in Rows /\ att'[a] = Read(att[a], l)  BY <1>1 DEF ReadAll
<1>3. \A a \in Attachments : Read(att[a], l) \in Rows /\ Alike(att[a], Read(att[a], l))
  BY <1>2, ReadCases
<1>4. att' \in [Attachments -> Rows]  BY <1>3 DEF ReadAll
<1>5. ASSUME NEW a \in Attachments, a < nextId
      PROVE  Keeps(att[a], att'[a]) /\ Born(att'[a], h[a], output'[att[a].term])
  <2>1. att[a].term \in Terminals  BY <1>2 DEF Rows
  <2>2. Born(att[a], h[a], output[att[a].term])  BY <1>1, <1>5 DEF AttachmentsOK
  <2>3. output[att[a].term] \in Nat /\ output'[att[a].term] \in Nat /\ h[a] \in Nat  BY <1>1, <2>1
  <2>4. Born(Read(att[a], l), h[a], output'[att[a].term])  BY <1>2, <2>1, <2>2, <2>3, ReadBorn
  <2> QED  BY <1>2, <1>3, <2>4 DEF Keeps, Alike
<1>6. ASSUME NEW a \in Attachments, ~(a < nextId)
      PROVE  Unborn(att'[a])
  BY <1>1, <1>2, <1>6, UnbornRead DEF AttachmentsOK
<1>7. RowsStep(h)  BY <1>4, <1>5, <1>6 DEF RowsStep
<1>8. \A a \in Attachments : att'[a].term = att[a].term /\ att'[a].started = att[a].started
  BY <1>2, <1>3 DEF Alike
<1>9. ASSUME Recovering, UNCHANGED <<stage, nextId>> PROVE Recovering'
  <2> SUFFICES ASSUME stage = "off" PROVE Drained(att'[nextId])  BY <1>9 DEF Recovering
  <2>1. nextId \in Attachments /\ Drained(att[nextId])  BY <1>9 DEF Core, Working, Recovering
  <2>2. ~(nextId < nextId)  BY DEF Core, Types
  <2>3. Unborn(att[nextId])  BY <1>1, <2>1, <2>2 DEF AttachmentsOK
  <2>4. Own(att[nextId].term, l) => ~(att[nextId].client /\ att[nextId].off)
    BY <2>1 DEF Own, Frozen
  <2> QED  BY <1>2, <2>1, <2>3, <2>4, DrainedRead DEF Unborn
<1> QED  BY <1>7, <1>8, <1>9

LEMMA WireSame ==
  ASSUME NEW h \in [Attachments -> Nat], Core(h), RowsStep(h), nextId' = nextId,
         \A t \in Terminals : output[t] <= output'[t], output' \in [Terminals -> Nat]
  PROVE  Honest(h) \subseteq Honest(h)'
<1> SUFFICES ASSUME NEW e \in Events, EventOK(e, h) PROVE EventOK(e, h)'  BY DEF Honest
<1>1. e.att \in Attachments /\ e.att < nextId /\ e.n \in Nat /\ e.n <= output[att[e.att].term]
  BY DEF Events, EventOK
<1>2. att'[e.att].term = att[e.att].term /\ att[e.att].term \in Terminals
  BY <1>1 DEF RowsStep, Keeps, Core, Types, Rows
<1>3. e.n <= output'[att'[e.att].term]
  <2>1. output[att[e.att].term] \in Nat /\ output'[att[e.att].term] \in Nat  BY <1>2 DEF Core, Types
  <2>2. output[att[e.att].term] <= output'[att[e.att].term]  BY <1>2
  <2> QED  BY <1>1, <1>2, <2>1, <2>2
<1> QED  BY <1>1, <1>3 DEF EventOK

(* The wire with what is appended to it or taken from it.                  *)
LEMMA WireStep ==
  ASSUME NEW h \in [Attachments -> Nat], Core(h), Honest(h) \subseteq Honest(h)',
         \/ wire' = wire
         \/ wire # <<>> /\ wire' = Tail(wire)
         \/ \E e \in Honest(h)' : wire' = Append(wire, e)
  PROVE  wire' \in Seq(Events) /\ WireOK(h)'
<1>1. wire \in Seq(Events) /\ \A i \in 1 .. Len(wire) : wire[i] \in Honest(h)'
  BY DEF Core, Types, Flow, WireOK
<1>2. CASE wire' = wire  BY <1>1, <1>2 DEF WireOK
<1>3. CASE wire # <<>> /\ wire' = Tail(wire)
  <2>1. wire' \in Seq(Events) /\ Len(wire) \in Nat /\ Len(wire') = Len(wire) - 1
        /\ \A i \in 1 .. Len(wire') : wire'[i] = wire[i + 1]
    BY <1>1, <1>3, HeadTailProperties
  <2>2. ASSUME NEW i \in 1 .. Len(wire') PROVE wire'[i] \in Honest(h)'
    <3>1. wire'[i] = wire[i + 1] /\ i + 1 \in 1 .. Len(wire)  BY <2>1
    <3> QED  BY <3>1, <1>1
  <2> QED  BY <2>1, <2>2 DEF WireOK
<1>4. ASSUME NEW e \in Honest(h)', wire' = Append(wire, e) PROVE wire' \in Seq(Events) /\ WireOK(h)'
  <2>1. wire' \in Seq(Events) /\ Len(wire) \in Nat /\ Len(wire') = Len(wire) + 1 /\ wire'[Len(wire) + 1] = e
        /\ \A i \in 1 .. Len(wire) : wire'[i] = wire[i]
    BY <1>1, <1>4 DEF Honest
  <2>2. ASSUME NEW i \in 1 .. Len(wire') PROVE wire'[i] \in Honest(h)'
    <3>1. CASE i = Len(wire) + 1  BY <3>1, <2>1
    <3>2. CASE i \in 1 .. Len(wire)  BY <3>2, <2>1, <1>1
    <3> QED  BY <3>1, <3>2, <2>1
  <2> QED  BY <2>1, <2>2 DEF WireOK
<1> QED  BY <1>2, <1>3, <1>4

LEMMA FlowStep ==
  ASSUME NEW h \in [Attachments -> Nat], Core(h), RowsStep(h), UNCHANGED <<nextId, view, next, screen>>,
         output' \in [Terminals -> Nat], \A t \in Terminals : output[t] <= output'[t],
         \/ wire' = wire
         \/ wire # <<>> /\ wire' = Tail(wire)
         \/ \E e \in Honest(h) : wire' = Append(wire, e)
  PROVE  Flow(h)' /\ wire' \in Seq(Events)
<1>1. AttachmentsOK(h)'  BY RowsSent
<1>2. wire' \in Seq(Events) /\ WireOK(h)'
  <2>1. Honest(h) \subseteq Honest(h)'  BY WireSame
  <2> QED  BY <2>1, WireStep
<1>3. ScreenOK(h)'  BY DEF Core, Flow, ScreenOK
<1> QED  BY <1>1, <1>2, <1>3 DEF Flow

(* Everything but the rows and the wire is as it was.                      *)
LEMMA ThreadStep ==
  ASSUME NEW h \in [Attachments -> Nat], Core(h), NEW a \in Attachments, NEW s \in Rows,
         att' = [att EXCEPT ![a] = s], s.term = att[a].term, s.started = att[a].started,
         a < nextId => Keeps(att[a], s) /\ Born(s, h[a], output[att[a].term]),
         ~(a < nextId) => Unborn(s),
         stage = "off" /\ a = nextId => Drained(s),
         UNCHANGED <<tmux, gateway, calls, working, answers, waiting, panel, reached>>,
         wire' = wire \/ \E e \in Honest(h) : wire' = Append(wire, e)
  PROVE  Core(h)'
<1>1. RowsStep(h)  BY RowStep DEF tmux
<1>2. Sent' /\ Routes'  BY <1>1, RowsSent DEF gateway
<1>3. Flow(h)' /\ wire' \in Seq(Events)
  <2>1. output \in [Terminals -> Nat]  BY DEF Core, Types
  <2>2. output' = output /\ \A t \in Terminals : output[t] <= output'[t]  BY <2>1 DEF tmux
  <2> QED  BY <1>1, <2>1, <2>2, FlowStep DEF gateway, panel
<1>4. Types'  BY <1>1, <1>3 DEF Core, Types, AnswersOK, RowsStep, tmux, gateway, working, panel
<1>5. att \in [Attachments -> Rows] /\ \A b \in Attachments : att'[b] = IF b = a THEN s ELSE att[b]
  BY DEF Core, Types
<1>6. Working'
  <2>1. \A b \in Attachments : att'[b].term = att[b].term /\ att'[b].started = att[b].started  BY <1>5
  <2>2. stage \in {"start", "on"} => job.of \in Attachments
    BY NoRequest DEF Core, Working, Types, Requests
  <2> QED  BY <2>1, <2>2 DEF Core, Working, gateway, working
<1>7. Recovering'
  BY <1>5 DEF Core, Working, Recovering, gateway, working
<1> QED  BY <1>2, <1>3, <1>4, <1>6, <1>7 DEF Core

LEMMA BornRow ==
  ASSUME NEW h \in [Attachments -> Nat], Core(h), NEW a \in Attachments
  PROVE  /\ att[a] \in Rows /\ att[a].term \in Terminals /\ h[a] \in Nat
         /\ output[att[a].term] \in Nat /\ att \in [Attachments -> Rows]
         /\ a < nextId => Born(att[a], h[a], output[att[a].term])
         /\ ~(a < nextId) => Unborn(att[a])
         /\ stage = "off" => ~(nextId < nextId) /\ Drained(att[nextId])
<1>1. att[a] \in Rows /\ output \in [Terminals -> Nat] /\ nextId \in Nat  BY DEF Core, Types
<1>2. att[a].term \in Terminals  BY <1>1 DEF Rows
<1>3. ~(nextId < nextId)  BY <1>1
<1> QED  BY <1>1, <1>2, <1>3 DEF Core, Types, Flow, AttachmentsOK, Recovering

LEMMA CoreClientLost ==
  ASSUME NEW h \in [Attachments -> Nat], Core(h), NEW a \in Attachments, ClientLost(a)
  PROVE  Core(h)'
<1> DEFINE r == att[a]
           s == [r EXCEPT !.client = FALSE, !.off = FALSE, !.reader = "stopped"]
<1>1. r \in Rows  BY BornRow
<1>2. /\ s \in Rows /\ s.term = r.term /\ s.held = r.held /\ s.queue = r.queue /\ s.seq = r.seq
      /\ s.reader = "stopped" /\ s.forwarder = r.forwarder /\ s.started = r.started
      /\ s.history = r.history /\ s.watchdog = r.watchdog
  BY <1>1 DEF Rows
<1>3. att' = [att EXCEPT ![a] = s]  BY DEF ClientLost
<1>4. UNCHANGED <<tmux, gateway, calls, working, answers, waiting, panel, reached, wire>>  BY DEF ClientLost
<1>a. r \in Rows /\ r.term \in Terminals /\ h[a] \in Nat /\ output[r.term] \in Nat
      /\ (a < nextId => Born(r, h[a], output[r.term]))
      /\ (~(a < nextId) => Unborn(r)) /\ (stage = "off" => Drained(att[nextId]))
  BY BornRow
<1> HIDE DEF r, s
<1>5. a < nextId => Keeps(r, s) /\ Born(s, h[a], output[r.term])
  <2> SUFFICES ASSUME a < nextId PROVE Keeps(r, s) /\ Born(s, h[a], output[r.term])  OBVIOUS
  <2>1. Born(r, h[a], output[r.term])  BY <1>a
  <2>2. s.forwarder # "none" => s.started  BY <1>2, <2>1 DEF Born, Sound
  <2> QED  BY <1>2, <1>a, <2>1, <2>2, OtherBorn
<1>6. ~(a < nextId) => Unborn(s)  BY <1>2, <1>a DEF Unborn, Sound
<1>7. stage = "off" /\ a = nextId => Drained(s)  BY <1>2, <1>a DEF Drained, r
<1> QED  BY <1>2, <1>3, <1>4, <1>5, <1>6, <1>7, ThreadStep DEF r

LEMMA EmitHonest ==
  ASSUME NEW h \in [Attachments -> Nat], Core(h), NEW a \in Attachments, a < nextId,
         NEW kind, NEW seq \in Nat, NEW n \in Nat, Emit(a, kind, seq, n),
         \/ kind = "history" /\ seq = 0 /\ n = h[a]
         \/ kind = "output" /\ seq > 0 /\ n = h[a] + seq /\ n <= output[att[a].term]
         \/ kind = "end" /\ n = 0
  PROVE  wire' = wire \/ \E e \in Honest(h) : wire' = Append(wire, e)
<1> DEFINE e == [kind |-> kind, att |-> a, seq |-> seq, n |-> n]
<1>1. e \in Events  BY DEF Events
<1>2. h[a] <= output[att[a].term] /\ output[att[a].term] \in Nat  BY BornRow DEF Born
<1>3. EventOK(e, h)  BY <1>2 DEF EventOK
<1>4. e \in Honest(h)  BY <1>1, <1>3 DEF Honest
<1>5. wire' = wire \/ wire' = Append(wire, e)  BY DEF Emit
<1> QED  BY <1>4, <1>5

LEMMA CoreReceive ==
  ASSUME NEW h \in [Attachments -> Nat], Core(h), NEW a \in Attachments, Receive(a)
  PROVE  Core(h)'
<1> DEFINE r == att[a]
<1>1. /\ r \in Rows /\ r.term \in Terminals /\ h[a] \in Nat /\ output[r.term] \in Nat
      /\ (a < nextId => Born(r, h[a], output[r.term]))
      /\ (~(a < nextId) => Unborn(r))
  BY BornRow
<1>2. UNCHANGED <<tmux, gateway, calls, working, answers, waiting, panel, reached, wire>>  BY DEF Receive
<1>3. r.forwarder = "run" /\ r.held = None /\ r.queue # <<>>  BY DEF Receive
<1>4. a < nextId /\ Born(r, h[a], output[r.term]) /\ r.started  BY <1>1, <1>3 DEF Unborn, Born, Sound
<1>5. stage = "off" => ~(a = nextId)  BY <1>4, BornRow
<1>6. CASE r.detached
  <2>1. att' = [att EXCEPT ![a] = Ended(r)]  BY <1>6 DEF Receive
  <2>2. Keeps(r, Ended(r)) /\ Born(Ended(r), h[a], output[r.term])  BY <1>1, <1>4, EndedBorn
  <2>3. Ended(r) \in Rows /\ Ended(r).term = r.term /\ Ended(r).started = r.started
    BY <2>2, <1>1, <1>4 DEF Keeps, Rows
  <2> QED  BY <1>2, <1>4, <1>5, <2>1, <2>2, <2>3, ThreadStep
<1>7. CASE ~r.detached
  <2> DEFINE s == [r EXCEPT !.held = Head(r.queue), !.queue = Tail(r.queue)]
  <2>1. att' = [att EXCEPT ![a] = s]  BY <1>1, <1>7 DEF Receive, Rows, Core, Types
  <2>2. Keeps(r, s) /\ Born(s, h[a], output[r.term])  BY <1>1, <1>3, <1>4, TakenBorn
  <2>3. s \in Rows /\ s.term = r.term /\ s.started = r.started
    BY <2>2, <1>1, <1>4 DEF Keeps, Rows
  <2> HIDE DEF s
  <2> QED  BY <1>2, <1>4, <1>5, <2>1, <2>2, <2>3, ThreadStep
<1> QED  BY <1>6, <1>7

LEMMA CoreForward ==
  ASSUME NEW h \in [Attachments -> Nat], Core(h), NEW a \in Attachments, Forward(a)
  PROVE  Core(h)'
<1> DEFINE r == att[a]
           l == r.held
<1>1. /\ r \in Rows /\ r.term \in Terminals /\ h[a] \in Nat /\ output[r.term] \in Nat
      /\ (a < nextId => Born(r, h[a], output[r.term]))
      /\ (~(a < nextId) => Unborn(r))
  BY BornRow
<1>2. UNCHANGED <<tmux, gateway, calls, working, answers, waiting, panel, reached>> /\ r.held # None
  BY DEF Forward
<1>3. a < nextId /\ Born(r, h[a], output[r.term]) /\ r.started  BY <1>1, <1>2 DEF Unborn, Born, Sound
<1>4. stage = "off" => ~(a = nextId)  BY <1>3, BornRow
<1>5. r.seq \in Nat \ {0} /\ l \in Lines /\ l.n \in Nat /\ l.size \in Nat /\ MaxEvent \in Nat
  BY <1>1, <1>2, StreamAssumption DEF Rows, Lines
<1>6. CASE l.pane # r.term
  <2> DEFINE s == [Handled(r) EXCEPT !.seq = IF Own(r.term, r.held) THEN @ + 1 ELSE @]
  <2>1. ~Own(r.term, r.held) /\ att' = [att EXCEPT ![a] = Handled(r)] /\ wire' = wire
    BY <1>6 DEF Own, Forward
  <2>2. Keeps(r, s) /\ Born(s, h[a], output[r.term])  BY <1>1, <1>2, <1>3, HandledBorn
  <2>3. s = Handled(r)  BY <2>1 DEF Handled
  <2>4. s \in Rows /\ s.term = r.term /\ s.started = r.started  BY <2>2, <1>1, <1>3 DEF Keeps, Rows
  <2> HIDE DEF s
  <2> QED  BY <1>2, <1>3, <1>4, <2>1, <2>2, <2>3, <2>4, ThreadStep
<1>7. CASE l.pane = r.term /\ l.n # 0 /\ l.size <= MaxEvent
  <2> DEFINE s == [Handled(r) EXCEPT !.seq = IF Own(r.term, r.held) THEN @ + 1 ELSE @]
  <2>0. /\ att' = [att EXCEPT ![a] = [Handled(r) EXCEPT !.seq = @ + 1]]
        /\ Emit(a, "output", r.seq, l.n)
    BY <1>7, <1>5 DEF Forward
  <2>1. Own(r.term, r.held)  BY <1>7 DEF Own
  <2>2. att' = [att EXCEPT ![a] = s]  BY <2>0, <2>1
  <2>3. Keeps(r, s) /\ Born(s, h[a], output[r.term]) /\ l.n = h[a] + r.seq /\ h[a] + r.seq <= output[r.term]
    BY <1>1, <1>2, <1>3, <2>1, HandledBorn
  <2>4. s \in Rows /\ s.term = r.term /\ s.started = r.started  BY <2>3, <1>1, <1>3 DEF Keeps, Rows
  <2> HIDE DEF s
  <2>5. wire' = wire \/ \E e \in Honest(h) : wire' = Append(wire, e)
    <3>1. l.n <= output[r.term] /\ r.seq > 0 /\ r.seq \in Nat  BY <1>5, <2>3
    <3> QED  BY <1>3, <1>5, <2>0, <2>3, <3>1, EmitHonest
  <2> QED  BY <1>2, <1>3, <1>4, <2>2, <2>3, <2>4, <2>5, ThreadStep
<1>8. CASE l.pane = r.term /\ (l.n = 0 \/ l.size > MaxEvent)
  <2>1. att' = [att EXCEPT ![a] = Ended(r)] /\ Emit(a, "end", r.seq, 0)  BY <1>8, <1>5 DEF Forward
  <2>2. Keeps(r, Ended(r)) /\ Born(Ended(r), h[a], output[r.term])  BY <1>1, <1>3, EndedBorn
  <2>3. Ended(r) \in Rows /\ Ended(r).term = r.term /\ Ended(r).started = r.started
    BY <2>2, <1>1, <1>3 DEF Keeps, Rows
  <2>4. wire' = wire \/ \E e \in Honest(h) : wire' = Append(wire, e)  BY <1>3, <1>5, <2>1, EmitHonest
  <2> QED  BY <1>2, <1>3, <1>4, <2>1, <2>2, <2>3, <2>4, ThreadStep
<1> QED  BY <1>6, <1>7, <1>8 DEF Forward

LEMMA CoreForwardEnds ==
  ASSUME NEW h \in [Attachments -> Nat], Core(h), NEW a \in Attachments, ForwardEnds(a)
  PROVE  Core(h)'
<1> DEFINE r == att[a]
<1>1. /\ r \in Rows /\ r.term \in Terminals /\ h[a] \in Nat /\ output[r.term] \in Nat
      /\ (a < nextId => Born(r, h[a], output[r.term]))
      /\ (~(a < nextId) => Unborn(r))
  BY BornRow
<1>2. UNCHANGED <<tmux, gateway, calls, working, answers, waiting, panel, reached>> /\ r.forwarder = "run"
  BY DEF ForwardEnds, ChannelEmpty
<1>3. a < nextId /\ Born(r, h[a], output[r.term]) /\ r.started  BY <1>1, <1>2 DEF Unborn, Born, Sound
<1>4. stage = "off" => ~(a = nextId)  BY <1>3, BornRow
<1>5. att' = [att EXCEPT ![a] = Ended(r)] /\ (wire' = wire \/ Emit(a, "end", r.seq, 0))  BY DEF ForwardEnds
<1>6. Keeps(r, Ended(r)) /\ Born(Ended(r), h[a], output[r.term])  BY <1>1, <1>3, EndedBorn
<1>7. Ended(r) \in Rows /\ Ended(r).term = r.term /\ Ended(r).started = r.started
  BY <1>6, <1>1, <1>3 DEF Keeps, Rows
<1>8. r.seq \in Nat  BY <1>1 DEF Rows
<1>9. wire' = wire \/ \E e \in Honest(h) : wire' = Append(wire, e)  BY <1>3, <1>5, <1>8, EmitHonest
<1> QED  BY <1>2, <1>3, <1>4, <1>5, <1>6, <1>7, <1>9, ThreadStep

LEMMA CoreWatchdog ==
  ASSUME NEW h \in [Attachments -> Nat], Core(h), NEW a \in Attachments, WatchdogWakes(a) \/ WatchdogThaws(a)
  PROVE  Core(h)'
<1> DEFINE r == att[a]
           s == att'[a]
<1>1. /\ r \in Rows /\ r.term \in Terminals /\ h[a] \in Nat /\ output[r.term] \in Nat
      /\ (a < nextId => Born(r, h[a], output[r.term]))
      /\ (~(a < nextId) => Unborn(r)) /\ att \in [Attachments -> Rows]
  BY BornRow
<1>2. UNCHANGED <<tmux, gateway, calls, working, answers, waiting, panel, reached, wire>> /\ r.watchdog # "none"
  BY DEF WatchdogWakes, WatchdogThaws
<1>3. a < nextId /\ Born(r, h[a], output[r.term])  BY <1>1, <1>2 DEF Unborn
<1>4. stage = "off" => ~(a = nextId)  BY <1>3, BornRow
<1>5. /\ s \in Rows /\ s.term = r.term /\ s.held = r.held /\ s.queue = r.queue /\ s.seq = r.seq
      /\ s.reader = r.reader /\ s.client = r.client /\ s.forwarder = r.forwarder /\ s.started = r.started
      /\ s.history = r.history
  <2>1. CASE WatchdogWakes(a)  BY <2>1, <1>1 DEF WatchdogWakes, Rows
  <2>2. CASE WatchdogThaws(a)
    <3>1. s = [r EXCEPT !.watchdog = "done", !.expired = TRUE, !.off = FALSE]
      BY <2>2, <1>1 DEF WatchdogThaws
    <3> QED  BY <3>1, <1>1 DEF Rows
  <2> QED  BY <2>1, <2>2
<1>6. att' = [att EXCEPT ![a] = s]  BY <1>1 DEF WatchdogWakes, WatchdogThaws
<1> HIDE DEF s
<1>7. s.forwarder # "none" => s.started  BY <1>3, <1>5 DEF Born, Sound
<1>8. Keeps(r, s) /\ Born(s, h[a], output[r.term])  BY <1>1, <1>3, <1>5, <1>7, OtherBorn
<1> QED  BY <1>2, <1>3, <1>4, <1>5, <1>6, <1>8, ThreadStep

(* A line of every terminal's control clients, and nothing else.           *)
LEMMA LineStep ==
  ASSUME NEW h \in [Attachments -> Nat], Core(h), NEW l \in Lines, ReadAll(l), output' \in [Terminals -> Nat],
         \A t \in Terminals : IF Own(t, l) THEN l.n = output[t] + 1 /\ output'[t] = output[t] + 1
                              ELSE output'[t] = output[t],
         l.n # 0 => ~Frozen(l.pane), alive' \subseteq Terminals,
         UNCHANGED <<gateway, calls, working, answers, waiting, panel, reached, wire>>
  PROVE  Core(h)'
<1>1. /\ RowsStep(h)
      /\ \A a \in Attachments : att'[a].term = att[a].term /\ att'[a].started = att[a].started
      /\ Recovering'
  BY ReadAllStep DEF gateway, working, Core
<1>2. Sent' /\ Routes'  BY <1>1, RowsSent DEF gateway
<1>3. \A t \in Terminals : output[t] <= output'[t]
  <2>1. \A t \in Terminals : output[t] \in Nat /\ (output'[t] = output[t] \/ output'[t] = output[t] + 1)
    BY DEF Core, Types
  <2> QED  BY <2>1
<1>4. Flow(h)' /\ wire' \in Seq(Events)  BY <1>1, <1>3, FlowStep DEF gateway, panel
<1>5. Types'  BY <1>1, <1>4 DEF Core, Types, AnswersOK, RowsStep, gateway, working, panel
<1>6. stage \in {"start", "on"} => job.of \in Attachments
  BY NoRequest DEF Core, Working, Types, Requests
<1>7. Working'  BY <1>1, <1>6 DEF Core, Working, gateway, working
<1> QED  BY <1>1, <1>2, <1>4, <1>5, <1>7 DEF Core

LEMMA CoreOutput ==
  ASSUME NEW h \in [Attachments -> Nat], Core(h), NEW t \in Terminals, Output(t)
  PROVE  Core(h)'
<1>1. output \in [Terminals -> Nat] /\ t \in alive /\ output[t] \in Nat  BY DEF Core, Types, Output
<1>2. output' = [output EXCEPT ![t] = @ + 1] /\ output' \in [Terminals -> Nat] /\ output'[t] = output[t] + 1
  BY <1>1 DEF Output
<1> DEFINE l == [pane |-> t, n |-> output'[t], size |-> Text[t][output'[t]]]
<1>3. l \in Lines
  <2>0. Text[t] \in Seq(Nat) /\ output[t] < Len(Text[t])  BY StreamAssumption DEF Output
  <2>1. output'[t] \in 1 .. Len(Text[t])
    <3>1. Len(Text[t]) \in Nat  BY <2>0
    <3> QED  BY <1>1, <1>2, <2>0, <3>1
  <2>2. Text[t][output'[t]] \in Nat  BY <2>0, <2>1
  <2> QED  BY <1>2, <2>2 DEF Lines
<1>4. \A u \in Terminals : IF Own(u, l) THEN l.n = output[u] + 1 /\ output'[u] = output[u] + 1
                           ELSE output'[u] = output[u]
  BY <1>1, <1>2 DEF Own
<1>5. ReadAll(l) /\ ~Frozen(l.pane)  BY DEF Output
<1>6. alive' \subseteq Terminals /\ UNCHANGED <<gateway, calls, working, answers, waiting, panel, reached, wire>>
  BY DEF Output, Core, Types
<1> HIDE DEF l
<1> QED  BY <1>2, <1>3, <1>4, <1>5, <1>6, LineStep

LEMMA CoreWindowCloses ==
  ASSUME NEW h \in [Attachments -> Nat], Core(h), NEW t \in Terminals, WindowCloses(t)
  PROVE  Core(h)'
<1> DEFINE l == [pane |-> t, n |-> 0, size |-> 1]
<1>1. l \in Lines /\ l.n = 0 /\ output \in [Terminals -> Nat]  BY DEF Lines, Core, Types
<1>2. \A u \in Terminals : ~Own(u, l)  BY DEF Own
<1>3. ReadAll(l) /\ output' = output /\ alive' \subseteq Terminals
  BY DEF WindowCloses, Core, Types
<1>4. UNCHANGED <<gateway, calls, working, answers, waiting, panel, reached, wire>>  BY DEF WindowCloses
<1> HIDE DEF l
<1> QED  BY <1>1, <1>2, <1>3, <1>4, LineStep

(***************************************************************************)
(* The steps of the gateway.                                               *)
(***************************************************************************)
LEMMA GateStep ==
  ASSUME NEW h \in [Attachments -> Nat], Core(h), RowsStep(h), UNCHANGED <<output, nextId, panel, waiting>>,
         alive' \subseteq Terminals, calls' \subseteq Requests, job' \in Requests \cup {None},
         job' = None <=> stage' = "idle", stage' \in {"idle", "spawned", "off", "start", "on", "killed"},
         AnswersOK', route' \in Terminals \cup {None}, attached' \in {attached, None},
         Routes', Sent', Working', Recovering',
         wire' = wire \/ \E e \in Honest(h) : wire' = Append(wire, e)
  PROVE  Core(h)'
<1>1. output \in [Terminals -> Nat]  BY DEF Core, Types
<1>2. output' \in [Terminals -> Nat] /\ \A t \in Terminals : output[t] <= output'[t]  BY <1>1
<1>3. Flow(h)' /\ wire' \in Seq(Events)  BY <1>2, FlowStep DEF panel
<1>4. Types'  BY <1>2, <1>3 DEF Core, Types, RowsStep, panel
<1> QED  BY <1>3, <1>4 DEF Core

LEMMA GateRests ==
  ASSUME NEW h \in [Attachments -> Nat], Core(h), RowsStep(h), UNCHANGED <<output, nextId, panel, waiting>>,
         alive' \subseteq Terminals, calls' \subseteq Requests, job' = None, stage' = "idle",
         AnswersOK', route' \in Terminals \cup {None}, attached' \in {attached, None},
         Routes', Sent',
         wire' = wire \/ \E e \in Honest(h) : wire' = Append(wire, e)
  PROVE  Core(h)'
<1>1. Working' /\ Recovering'  BY DEF Working, Recovering
<1>2. job' = None <=> stage' = "idle"  OBVIOUS
<1> QED  BY <1>1, <1>2, GateStep

LEMMA ReplyOK ==
  ASSUME AnswersOK, NEW q \in Requests, NEW ok \in BOOLEAN, Reply(q, ok),
         nextId \in Nat, nextId' \in Nat, nextId <= nextId',
         \A r \in answers : r.ok /\ Select(r.to) => r.att \in Nat,
         Select(q) /\ ok => attached' \in Attachments /\ attached' < nextId'
  PROVE  AnswersOK'
<1> DEFINE new == [to |-> q, ok |-> ok, att |-> IF Select(q) /\ ok THEN attached' ELSE None]
<1>1. new.to \in Requests /\ new.ok \in BOOLEAN
      /\ (new.ok /\ Select(new.to) => new.att \in Attachments /\ new.att < nextId')
  OBVIOUS
<1>2. \A r \in answers' : r \in answers \/ r = new  BY DEF Reply
<1> HIDE DEF new
<1>3. ASSUME NEW r \in answers'
      PROVE  /\ r.to \in Requests /\ r.ok \in BOOLEAN
             /\ r.ok /\ Select(r.to) => r.att \in Attachments /\ r.att < nextId'
  <2>1. CASE r = new  BY <2>1, <1>1
  <2>2. CASE r \in answers
    <3>1. /\ r.to \in Requests /\ r.ok \in BOOLEAN
          /\ r.ok /\ Select(r.to) => r.att \in Attachments /\ r.att < nextId /\ r.att \in Nat
      BY <2>2 DEF AnswersOK
    <3> QED  BY <3>1
  <2> QED  BY <2>1, <2>2, <1>2
<1> QED  BY <1>3 DEF AnswersOK, Select

LEMMA AnswerStep ==
  ASSUME NEW h, Core(h), NEW q \in Requests, NEW ok \in BOOLEAN, Reply(q, ok), nextId' = nextId,
         ~(Select(q) /\ ok)
  PROVE  AnswersOK'
<1>1. AnswersOK /\ nextId \in Nat  BY DEF Core, Types
<1>2. \A r \in answers : r.ok /\ Select(r.to) => r.att \in Nat  BY <1>1 DEF AnswersOK, Attachments
<1> QED  BY <1>1, <1>2, ReplyOK

(* The rows after the attached one was given up, or not.                   *)
LEMMA DetachedRows ==
  ASSUME NEW h \in [Attachments -> Nat], Core(h), NEW rest, rest \in {att, Detached(attached)}
  PROVE  /\ rest \in [Attachments -> Rows]
         /\ \A a \in Attachments :
              /\ a < nextId => Keeps(att[a], rest[a]) /\ Born(rest[a], h[a], output[att[a].term])
              /\ ~(a < nextId) => rest[a] = att[a]
<1>1. \A a \in Attachments :
        /\ att[a] \in Rows /\ att[a].term \in Terminals /\ h[a] \in Nat
        /\ output[att[a].term] \in Nat /\ att \in [Attachments -> Rows]
        /\ a < nextId => Born(att[a], h[a], output[att[a].term]) /\ Keeps(att[a], att[a])
  BY BornRow DEF Keeps
<1>2. CASE rest = att
  BY <1>1, <1>2 DEF Core, Types
<1>3. CASE rest # att
  <2>1. attached \in Attachments /\ attached < nextId /\ rest = [att EXCEPT ![attached] = Dropped(att[attached])]
    BY <1>3 DEF Detached, Core, Types
  <2>2. Keeps(att[attached], Dropped(att[attached]))
        /\ Born(Dropped(att[attached]), h[attached], output[att[attached].term])
    BY <1>1, <2>1, DroppedBorn
  <2>3. Dropped(att[attached]) \in Rows  BY <2>2 DEF Keeps
  <2>4. rest \in [Attachments -> Rows]
        /\ \A a \in Attachments : rest[a] = IF a = attached THEN Dropped(att[attached]) ELSE att[a]
    BY <1>1, <2>1, <2>3 DEF Core, Types
  <2> QED  BY <1>1, <2>1, <2>2, <2>4
<1> QED  BY <1>2, <1>3

LEMMA DetachedStep ==
  ASSUME NEW h \in [Attachments -> Nat], Core(h), att' \in {att, Detached(attached)}, UNCHANGED <<output, nextId>>
  PROVE  RowsStep(h)
<1>1. /\ att' \in [Attachments -> Rows]
      /\ \A a \in Attachments :
              /\ a < nextId => Keeps(att[a], att'[a]) /\ Born(att'[a], h[a], output[att[a].term])
              /\ ~(a < nextId) => att'[a] = att[a]
  BY DetachedRows
<1> QED  BY <1>1, BornRow DEF RowsStep

LEMMA FreshRow ==
  ASSUME NEW t \in Terminals
  PROVE  Fresh(t) \in Rows /\ Unborn(Fresh(t)) /\ Fresh(t).term = t
<1>1. PICK e \in Seq(Lines) : e = <<>>  BY EmptySeq
<1>2. Fresh(t) = [term |-> t, client |-> TRUE, off |-> FALSE, started |-> FALSE, expired |-> FALSE,
                  detached |-> FALSE, history |-> 0, queue |-> e, queued |-> 0, held |-> None,
                  reader |-> "on", forwarder |-> "none", seq |-> 1, watchdog |-> "none"]
  BY <1>1 DEF Fresh
<1>3. Fresh(t) \in Rows  BY <1>2 DEF Rows
<1> QED  BY <1>2, <1>3 DEF Unborn, Sound

LEMMA BlankRow == Blank \in Rows /\ Unborn(Blank)
<1> DEFINE t == CHOOSE t \in Terminals : TRUE
<1>1. t \in Terminals  BY StreamAssumption
<1> HIDE DEF t
<1>2. Fresh(t) \in Rows /\ Unborn(Fresh(t))  BY <1>1, FreshRow
<1>3. Blank = [Fresh(t) EXCEPT !.client = FALSE, !.reader = "stopped"]  BY DEF Blank, t
<1>4. Blank \in Rows  BY <1>2, <1>3 DEF Rows
<1> QED  BY <1>2, <1>3, <1>4 DEF Unborn, Sound, Rows

LEMMA Asked ==
  ASSUME NEW h, Core(h), NEW q \in calls
  PROVE  /\ q \in Requests /\ q # None /\ calls \ {q} \subseteq Requests
         /\ q.op \in {"attach", "switch", "close"} => q.of \in Terminals
         /\ q.op \notin {"attach", "switch", "close"} => q.of \in Attachments
         /\ job = None => stage = "idle"
BY NoRequest DEF Core, Types, Requests

LEMMA CoreAttachBegins ==
  ASSUME NEW h \in [Attachments -> Nat], Core(h), NEW q \in calls, AttachBegins(q)
  PROVE  Core(h)'
<1> DEFINE rest == IF attached' = None THEN Detached(attached) ELSE att
<1>1. /\ Select(q) /\ job = None /\ calls' = calls \ {q} /\ nextId <= MaxAttach
      /\ UNCHANGED <<tmux, open, nextId, waiting, wire, panel, error, reached>>
  BY DEF AttachBegins, Takes
<1>2. q \in Requests /\ q.of \in Terminals /\ stage = "idle" /\ calls' \subseteq Requests /\ q # None
  BY <1>1, Asked DEF Select
<1>3. nextId \in Attachments /\ MaxAttach \in Nat
  BY <1>1, StreamAssumption DEF Attachments, Core, Types
<1>4. route' \in Terminals \cup {None} /\ attached' \in {attached, None}
  BY DEF AttachBegins, Core, Types
<1>5. attached' # None => attached' = attached /\ route' = route  BY DEF AttachBegins
<1>6. alive' \subseteq Terminals /\ UNCHANGED <<output, nextId, panel, waiting>>  BY <1>1 DEF tmux, Core, Types
<1>7. rest \in [Attachments -> Rows]
      /\ \A a \in Attachments :
           /\ a < nextId => Keeps(att[a], rest[a]) /\ Born(rest[a], h[a], output[att[a].term])
           /\ ~(a < nextId) => rest[a] = att[a]
  BY DetachedRows
<1>8. \A a \in Attachments : ~(a < nextId) => Unborn(att[a])  BY BornRow
<1>9. \/ /\ att' = [rest EXCEPT ![nextId] = Fresh(q.of)] /\ job' = q /\ stage' = "spawned" /\ answers' = answers
      \/ att' = rest /\ Reply(q, FALSE) /\ UNCHANGED working
  BY DEF AttachBegins, Answered
<1> HIDE DEF rest
<1>10. RowsStep(h) /\ (attached' # None => att'[attached'].term = att[attached'].term)
  <2>1. Fresh(q.of) \in Rows /\ Unborn(Fresh(q.of))  BY <1>2, FreshRow
  <2>2. att' \in [Attachments -> Rows]
        /\ \A a \in Attachments : att'[a] = rest[a] \/ (a = nextId /\ att'[a] = Fresh(q.of))
    BY <1>7, <1>9, <2>1
  <2>3. ~(nextId < nextId)  BY DEF Core, Types
  <2>4. RowsStep(h)  BY <1>6, <1>7, <1>8, <2>1, <2>2, <2>3 DEF RowsStep
  <2> QED  BY <2>4, <1>4, <1>5 DEF RowsStep, Keeps, Core, Types
<1>11. Sent'  BY <1>1, <1>10, RowsSent
<1>12. Routes'  BY <1>4, <1>5, <1>10 DEF Routes, Core
<1>13. CASE att' = [rest EXCEPT ![nextId] = Fresh(q.of)] /\ job' = q /\ stage' = "spawned" /\ answers' = answers
  <2>1. att'[nextId].term = q.of  BY <1>2, <1>3, <1>7, <1>13, FreshRow
  <2>2. Working' /\ Recovering'  BY <1>1, <1>3, <1>6, <1>13, <2>1 DEF Working, Recovering, Attachments
  <2>3. AnswersOK'  BY <1>6, <1>13 DEF AnswersOK, Core, Types
  <2> QED  BY <1>1, <1>2, <1>4, <1>6, <1>10, <1>11, <1>12, <1>13, <2>2, <2>3, GateStep
<1>14. CASE att' = rest /\ Reply(q, FALSE) /\ UNCHANGED working
  <2>1. AnswersOK'  BY <1>2, <1>6, <1>14, AnswerStep
  <2>2. job' = None /\ stage' = "idle"  BY <1>1, <1>2, <1>14 DEF working
  <2> QED  BY <1>1, <1>2, <1>4, <1>6, <1>10, <1>11, <1>12, <2>1, <2>2, GateRests
<1> QED  BY <1>9, <1>13, <1>14

LEMMA CoreAttachTurnsOff ==
  ASSUME NEW h \in [Attachments -> Nat], Core(h), AttachTurnsOff
  PROVE  Core(h)'
<1> DEFINE r == att[nextId]
           s == att'[nextId]
<1>1. stage = "spawned" /\ nextId \in Attachments /\ r.term = job.of /\ Select(job) /\ job \in Requests
  BY DEF AttachTurnsOff, Core, Working, Types
<1>2. r \in Rows /\ Unborn(r) /\ ~(nextId < nextId) /\ att \in [Attachments -> Rows]
  <2>1. ~(nextId < nextId) /\ att \in [Attachments -> Rows]  BY DEF Core, Types
  <2> HIDE DEF r
  <2>2. att[nextId] \in Rows /\ Unborn(att[nextId])  BY <1>1, <2>1, BornRow
  <2> QED  BY <2>1, <2>2 DEF r
<1>3. /\ UNCHANGED <<output, nextId, panel, waiting, wire, calls, job, answers, attached, route, reached, alive>>
      /\ stage' = "off"
  BY DEF AttachTurnsOff, tmux, gateway
<1>4. PICK e \in Seq(Lines) : e = <<>>  BY EmptySeq
<1>5. s = [r EXCEPT !.off = TRUE, !.queue = e, !.queued = 0]  BY <1>1, <1>2, <1>4 DEF AttachTurnsOff
<1>6. att' = [att EXCEPT ![nextId] = s]  BY <1>1, <1>2 DEF AttachTurnsOff
<1> HIDE DEF s
<1>7. s \in Rows
  <2>1. PICK u \in Rows : u = [r EXCEPT !.off = TRUE]  BY <1>2 DEF Rows
  <2>2. PICK v \in Rows : v = [u EXCEPT !.queue = e]  BY DEF Rows
  <2>3. PICK z \in Int : z = 0  OBVIOUS
  <2>5. PICK w \in Rows : w = [v EXCEPT !.queued = z]  BY DEF Rows
  <2>4. s = w  BY <1>2, <1>5, <2>1, <2>2, <2>3, <2>5 DEF Rows
  <2> QED  BY <2>4
<1>8. /\ s.off = TRUE /\ s.queue = <<>> /\ s.term = r.term /\ s.reader = r.reader /\ s.client = r.client
      /\ s.held = r.held /\ s.forwarder = r.forwarder /\ s.started = r.started /\ s.watchdog = r.watchdog
      /\ s.seq = r.seq
  BY <1>2, <1>4, <1>5 DEF Rows
<1>9. Unborn(s)  BY <1>2, <1>8 DEF Unborn, Sound
<1>10. RowsStep(h)  BY <1>1, <1>2, <1>3, <1>6, <1>7, <1>9, RowStep
<1>11. Sent' /\ Routes'  BY <1>3, <1>10, RowsSent
<1>12. att'[nextId'] = s  BY <1>1, <1>2, <1>3, <1>6
<1>13. Working'  BY <1>1, <1>3, <1>8, <1>12 DEF Working, Attachments
<1>14. Recovering'  BY <1>8, <1>12 DEF Recovering, Drained
<1>15. AnswersOK' /\ job' # None  BY <1>1, <1>3, NoRequest DEF AnswersOK, Core, Types
<1>16. /\ alive' \subseteq Terminals /\ calls' \subseteq Requests /\ job' \in Requests \cup {None}
       /\ route' \in Terminals \cup {None} /\ attached' \in {attached, None}
  BY <1>1, <1>3 DEF Core, Types
<1> QED  BY <1>3, <1>10, <1>11, <1>13, <1>14, <1>15, <1>16, GateStep

LEMMA CoreAttachFails ==
  ASSUME NEW h \in [Attachments -> Nat], Core(h), AttachFails
  PROVE  Core(h)'
<1>1. stage \in {"spawned", "off"} /\ nextId \in Attachments /\ job \in Requests
  BY NoRequest DEF AttachFails, Core, Working, Types
<1>2. ~(nextId < nextId)  BY DEF Core, Types
<1>3. /\ UNCHANGED <<output, nextId, panel, waiting, wire, calls, attached, route, reached, alive>>
      /\ Reply(job, FALSE) /\ job' = None /\ stage' = "idle" /\ att' = [att EXCEPT ![nextId] = Blank]
  BY DEF AttachFails, tmux, gateway, Done
<1>4. RowsStep(h)  BY <1>1, <1>2, <1>3, BlankRow, RowStep
<1>5. Sent' /\ Routes'  BY <1>3, <1>4, RowsSent
<1>6. AnswersOK'  BY <1>1, <1>3, AnswerStep
<1>7. /\ alive' \subseteq Terminals /\ calls' \subseteq Requests
      /\ route' \in Terminals \cup {None} /\ attached' \in {attached, None}
  BY <1>3 DEF Core, Types
<1> QED  BY <1>3, <1>4, <1>5, <1>6, <1>7, GateRests

LEMMA CoreStartBegins ==
  ASSUME NEW h \in [Attachments -> Nat], Core(h), NEW q \in calls, StartBegins(q)
  PROVE  Core(h)'
<1>1. /\ q.op = "start" /\ job = None /\ calls' = calls \ {q}
      /\ UNCHANGED <<output, nextId, panel, waiting, wire, attached, route, reached, alive, att>>
  BY DEF StartBegins, Takes, tmux, gateway
<1>2. q \in Requests /\ q.of \in Attachments /\ stage = "idle" /\ calls' \subseteq Requests /\ q # None
  BY <1>1, Asked
<1>3. RowsStep(h)  BY <1>1, RowsSame
<1>4. Sent' /\ Routes'  BY <1>1, <1>3, RowsSent
<1>5. /\ alive' \subseteq Terminals /\ route' \in Terminals \cup {None} /\ attached' \in {attached, None}
  BY <1>1 DEF Core, Types
<1>6. CASE /\ Current(q.of) /\ ~att[q.of].started
           /\ job' = q /\ stage' = "start" /\ answers' = answers
  <2>1. q.of < nextId  BY <1>2, <1>6, StreamAssumption DEF Current, Core, Types, Attachments
  <2>2. Working' /\ Recovering'  BY <1>1, <1>6, <2>1 DEF Working, Recovering
  <2>3. AnswersOK'  BY <1>1, <1>6 DEF AnswersOK, Core, Types
  <2> QED  BY <1>1, <1>2, <1>3, <1>4, <1>5, <1>6, <2>2, <2>3, GateStep
<1>7. CASE Answered(q, Current(q.of) /\ ~att[q.of].expired)
  <2>1. AnswersOK'  BY <1>1, <1>2, <1>7, AnswerStep DEF Answered, Select
  <2>2. job' = None /\ stage' = "idle"  BY <1>1, <1>2, <1>7 DEF working, Answered
  <2> QED  BY <1>1, <1>2, <1>3, <1>4, <1>5, <2>1, <2>2, GateRests
<1> QED  BY <1>6, <1>7 DEF StartBegins

LEMMA CoreStartForwards ==
  ASSUME NEW h \in [Attachments -> Nat], Core(h), StartForwards
  PROVE  Core(h)'
<1> DEFINE a == job.of
           r == att[a]
           s == att'[a]
<1>1. /\ stage = "start" /\ job \in Requests /\ a \in Attachments /\ a < nextId /\ ~r.started
      /\ job.op = "start" /\ job # None
  BY NoRequest DEF StartForwards, Core, Working, Types, Requests
<1>2. /\ r \in Rows /\ r.term \in Terminals /\ h[a] \in Nat /\ output[r.term] \in Nat
      /\ Born(r, h[a], output[r.term]) /\ att \in [Attachments -> Rows]
  BY <1>1, BornRow
<1>3. /\ UNCHANGED <<output, nextId, panel, waiting, calls, job, answers, attached, route, reached, alive>>
      /\ stage' = "on"
  BY DEF StartForwards, tmux, gateway
<1>4. s = [r EXCEPT !.started = TRUE, !.forwarder = "run", !.history = 0] /\ att' = [att EXCEPT ![a] = s]
  BY <1>1, <1>2 DEF StartForwards
<1>5. Emit(a, "history", 0, h[a])  BY <1>1, <1>2 DEF StartForwards, Born
<1> HIDE DEF s
<1>6. /\ s \in Rows /\ s.term = r.term /\ s.held = r.held /\ s.queue = r.queue /\ s.seq = r.seq
      /\ s.reader = r.reader /\ s.client = r.client /\ s.forwarder = "run" /\ s.started = TRUE
  BY <1>2, <1>4 DEF Rows
<1>7. r.forwarder = "none"  BY <1>1, <1>2 DEF Born, Sound
<1>8. Keeps(r, s) /\ Born(s, h[a], output[r.term])  BY <1>2, <1>6, <1>7, OtherBorn
<1>9. RowsStep(h)  BY <1>1, <1>3, <1>4, <1>6, <1>8, RowStep
<1>10. Sent' /\ Routes'  BY <1>3, <1>9, RowsSent
<1>11. wire' = wire \/ \E e \in Honest(h) : wire' = Append(wire, e)  BY <1>1, <1>2, <1>5, EmitHonest
<1>12. Working' /\ Recovering'  BY <1>1, <1>3 DEF Working, Recovering
<1>13. AnswersOK'  BY <1>3 DEF AnswersOK, Core, Types
<1>14. /\ alive' \subseteq Terminals /\ calls' \subseteq Requests /\ job' \in Requests \cup {None}
       /\ route' \in Terminals \cup {None} /\ attached' \in {attached, None} /\ job' # None
  BY <1>1, <1>3 DEF Core, Types
<1> QED  BY <1>3, <1>9, <1>10, <1>11, <1>12, <1>13, <1>14, GateStep

LEMMA CoreStartThaws ==
  ASSUME NEW h \in [Attachments -> Nat], Core(h), StartThaws
  PROVE  Core(h)'
<1> DEFINE a == job.of
           r == att[a]
           s == att'[a]
<1>1. stage = "on" /\ job \in Requests /\ a \in Attachments /\ a < nextId /\ job.op = "start"
  BY NoRequest DEF StartThaws, Core, Working, Types, Requests
<1>2. /\ r \in Rows /\ r.term \in Terminals /\ h[a] \in Nat /\ output[r.term] \in Nat
      /\ Born(r, h[a], output[r.term]) /\ att \in [Attachments -> Rows]
  BY <1>1, BornRow
<1>3. /\ UNCHANGED <<output, nextId, panel, waiting, wire, calls, attached, route, reached, alive>>
      /\ Reply(job, r.client) /\ job' = None /\ stage' = "idle"
  BY DEF StartThaws, tmux, gateway, Done
<1>4. s = [r EXCEPT !.off = FALSE] /\ att' = [att EXCEPT ![a] = s]  BY <1>1, <1>2 DEF StartThaws
<1> HIDE DEF s
<1>5. /\ s \in Rows /\ s.term = r.term /\ s.held = r.held /\ s.queue = r.queue /\ s.seq = r.seq
      /\ s.reader = r.reader /\ s.client = r.client /\ s.forwarder = r.forwarder /\ s.started = r.started
      /\ s.history = r.history /\ r.client \in BOOLEAN
  BY <1>2, <1>4 DEF Rows
<1>6. s.forwarder # "none" => s.started  BY <1>2, <1>5 DEF Born, Sound
<1>7. Keeps(r, s) /\ Born(s, h[a], output[r.term])  BY <1>2, <1>5, <1>6, OtherBorn
<1>8. RowsStep(h)  BY <1>1, <1>3, <1>4, <1>5, <1>7, RowStep
<1>9. Sent' /\ Routes'  BY <1>3, <1>8, RowsSent
<1>10. AnswersOK'  BY <1>1, <1>3, <1>5, AnswerStep DEF Select
<1>11. /\ alive' \subseteq Terminals /\ calls' \subseteq Requests
       /\ route' \in Terminals \cup {None} /\ attached' \in {attached, None}
  BY <1>3 DEF Core, Types
<1> QED  BY <1>3, <1>8, <1>9, <1>10, <1>11, GateRests

LEMMA CoreDetach ==
  ASSUME NEW h \in [Attachments -> Nat], Core(h), NEW q \in calls, Detach(q)
  PROVE  Core(h)'
<1> DEFINE ok == Routed(q.of) /\ attached \in {q.of, None}
<1>1. /\ q.op = "detach" /\ job = None /\ calls' = calls \ {q}
      /\ UNCHANGED <<output, nextId, panel, waiting, wire, reached, alive, job, stage>>
      /\ Reply(q, ok) /\ att' \in {att, Detached(attached)}
      /\ attached' = (IF ok THEN None ELSE attached) /\ route' = (IF ok THEN None ELSE route)
      /\ (~ok => att' = att)
  BY DEF Detach, Takes, tmux, working, Answered
<1> HIDE DEF ok
<1>2. q \in Requests /\ stage = "idle" /\ calls' \subseteq Requests  BY <1>1, Asked
<1>3. RowsStep(h)  BY <1>1, DetachedStep
<1>4. Sent'  BY <1>1, <1>3, RowsSent
<1>5. Routes'  BY <1>1 DEF Routes, Core
<1>6. AnswersOK'
  <2>1. PICK b \in BOOLEAN : b = ok  BY DEF ok
  <2> QED  BY <1>1, <1>2, <2>1, AnswerStep DEF Select
<1>7. /\ alive' \subseteq Terminals /\ route' \in Terminals \cup {None} /\ attached' \in {attached, None}
  BY <1>1 DEF Core, Types
<1> QED  BY <1>1, <1>2, <1>3, <1>4, <1>5, <1>6, <1>7, GateRests

LEMMA CoreSend ==
  ASSUME NEW h \in [Attachments -> Nat], Core(h), NEW q \in calls, Send(q)
  PROVE  Core(h)'
<1> DEFINE ok == Current(q.of) /\ att[q.of].started
<1>1. /\ q.op = "send" /\ job = None /\ calls' = calls \ {q}
      /\ UNCHANGED <<output, nextId, panel, waiting, wire, alive, job, stage, att, attached, route>>
      /\ Reply(q, ok)
      /\ reached' = IF ok /\ att[q.of].client THEN reached \cup {<<q.of, att[attached].term>>} ELSE reached
  BY DEF Send, Takes, tmux, working, Answered, gateway
<1>2. q \in Requests /\ q.of \in Attachments /\ stage = "idle" /\ calls' \subseteq Requests  BY <1>1, Asked
<1>3. RowsStep(h)  BY <1>1, RowsSame
<1>4. Routes'  BY <1>1, <1>3, RowsSent
<1>5. Sent'
  <2>1. CASE ok /\ att[q.of].client
    <3>1. q.of = attached /\ q.of < nextId /\ att[q.of].started
      BY <1>2, <2>1, StreamAssumption DEF Current, Core, Types, Attachments
    <3> QED  BY <1>1, <1>2, <2>1, <3>1 DEF Sent, Core
  <2>2. CASE ~(ok /\ att[q.of].client)  BY <1>1, <2>2 DEF Sent, Core
  <2> QED  BY <2>1, <2>2
<1>6. AnswersOK'
  <2>1. PICK b \in BOOLEAN : b = ok  OBVIOUS
  <2> HIDE DEF ok
  <2> QED  BY <1>1, <1>2, <2>1, AnswerStep DEF Select
<1>7. /\ alive' \subseteq Terminals /\ route' \in Terminals \cup {None} /\ attached' \in {attached, None}
  BY <1>1 DEF Core, Types
<1> QED  BY <1>1, <1>2, <1>3, <1>4, <1>5, <1>6, <1>7, GateRests

LEMMA CoreCloseKills ==
  ASSUME NEW h \in [Attachments -> Nat], Core(h), NEW q \in calls, CloseKills(q)
  PROVE  Core(h)'
<1>1. /\ q.op = "close" /\ job = None /\ calls' = calls \ {q}
      /\ UNCHANGED <<output, waiting, wire, panel, reached>>
  BY DEF CloseKills, Takes
<1>2. q \in Requests /\ q.of \in Terminals /\ stage = "idle" /\ calls' \subseteq Requests /\ q # None
  BY <1>1, Asked
<1>3. CASE /\ alive' = alive \ {q.of} /\ ReadAll([pane |-> q.of, n |-> 0, size |-> 1])
           /\ job' = q /\ stage' = "killed" /\ UNCHANGED <<gateway, answers>>
  <2> DEFINE l == [pane |-> q.of, n |-> 0, size |-> 1]
  <2>1. l \in Lines /\ l.n = 0  BY <1>2 DEF Lines
  <2>2. \A u \in Terminals : ~Own(u, l)  BY DEF Own
  <2>3. ReadAll(l)  BY <1>3
  <2> HIDE DEF l
  <2>4. output \in [Terminals -> Nat] /\ output' = output  BY <1>1 DEF Core, Types
  <2>5. RowsStep(h)  BY <2>1, <2>2, <2>3, <2>4, ReadAllStep
  <2>6. /\ UNCHANGED <<output, nextId, panel, waiting, wire, attached, route, reached, answers>>
    BY <1>1, <1>3 DEF gateway
  <2>7. Sent' /\ Routes'  BY <2>5, <2>6, RowsSent
  <2>8. Working' /\ Recovering'  BY <1>1, <1>3 DEF Working, Recovering
  <2>9. AnswersOK' /\ alive' \subseteq Terminals /\ route' \in Terminals \cup {None}
        /\ attached' \in {attached, None}
    BY <1>3, <2>6 DEF AnswersOK, Core, Types
  <2> QED  BY <1>2, <1>3, <2>5, <2>6, <2>7, <2>8, <2>9, GateStep
<1>4. CASE UNCHANGED <<alive, att, gateway>> /\ Answered(q, FALSE)
  <2>1. UNCHANGED <<output, nextId, panel, waiting, wire, attached, route, reached, alive, att, job, stage>>
        /\ Reply(q, FALSE)
    BY <1>1, <1>4 DEF gateway, working, Answered
  <2>2. RowsStep(h)  BY <2>1, RowsSame
  <2>3. Sent' /\ Routes'  BY <2>1, <2>2, RowsSent
  <2>4. AnswersOK'  BY <1>2, <2>1, AnswerStep
  <2>5. alive' \subseteq Terminals /\ route' \in Terminals \cup {None} /\ attached' \in {attached, None}
    BY <2>1 DEF Core, Types
  <2> QED  BY <1>1, <1>2, <2>1, <2>2, <2>3, <2>4, <2>5, GateRests
<1> QED  BY <1>3, <1>4 DEF CloseKills

LEMMA CoreCloseRecords ==
  ASSUME NEW h \in [Attachments -> Nat], Core(h), CloseRecords
  PROVE  Core(h)'
<1> DEFINE mine == attached # None /\ att[attached].term = job.of
<1>1. /\ UNCHANGED <<output, nextId, panel, waiting, wire, calls, reached, alive>>
      /\ Reply(job, TRUE) /\ job' = None /\ stage' = "idle" /\ att' \in {att, Detached(attached)}
      /\ attached' = (IF mine THEN None ELSE attached) /\ (~mine => att' = att)
      /\ route' = IF route = job.of THEN None ELSE route
  BY DEF CloseRecords, tmux, Done
<1>2. job \in Requests /\ job.op = "close"  BY NoRequest DEF CloseRecords, Core, Working, Types
<1>3. RowsStep(h)  BY <1>1, DetachedStep
<1>4. Sent'  BY <1>1, <1>3, RowsSent
<1>5. Routes'  BY <1>1 DEF Routes, Core
<1>6. AnswersOK'  BY <1>1, <1>2, AnswerStep DEF Select
<1>7. /\ alive' \subseteq Terminals /\ route' \in Terminals \cup {None} /\ attached' \in {attached, None}
      /\ calls' \subseteq Requests
  BY <1>1 DEF Core, Types
<1> QED  BY <1>1, <1>3, <1>4, <1>5, <1>6, <1>7, GateRests

(* The history is taken: the attachment is born.                           *)
LEMMA CoreAttachCaptures ==
  ASSUME NEW h \in [Attachments -> Nat], Core(h), AttachCaptures
  PROVE  \E k \in [Attachments -> Nat] : Core(k)'
<1> DEFINE r == att[nextId]
           s == att'[nextId]
           o == output[job.of]
<1>1. /\ stage = "off" /\ nextId \in Attachments /\ r.term = job.of /\ Select(job) /\ job \in Requests
      /\ att \in [Attachments -> Rows] /\ nextId \in Nat
  BY DEF AttachCaptures, Core, Working, Types
<1>2. r \in Rows /\ Unborn(r) /\ Drained(r) /\ r.term \in Terminals /\ o \in Nat
  <2> HIDE DEF r, o
  <2>1. att[nextId] \in Rows /\ Unborn(att[nextId]) /\ Drained(att[nextId]) /\ att[nextId].term \in Terminals
        /\ output[att[nextId].term] \in Nat
    BY <1>1, BornRow
  <2> QED  BY <1>1, <2>1 DEF r, o
<1>3. /\ UNCHANGED <<output, panel, waiting, wire, calls, reached, alive>>
      /\ attached' = nextId /\ nextId' = nextId + 1 /\ route' = job.of
      /\ Reply(job, TRUE) /\ job' = None /\ stage' = "idle"
  BY DEF AttachCaptures, tmux, Done
<1>4. s = [r EXCEPT !.history = o, !.watchdog = "sleep"] /\ att' = [att EXCEPT ![nextId] = s]
  BY <1>1 DEF AttachCaptures
<1>5. PICK k \in [Attachments -> Nat] : k[nextId] = o /\ \A a \in Attachments : a # nextId => k[a] = h[a]
  <2>1. [h EXCEPT ![nextId] = o] \in [Attachments -> Nat]  BY <1>2
  <2> QED  BY <1>1, <2>1
<1> HIDE DEF s
<1>6. /\ s \in Rows /\ s.term = r.term /\ s.held = r.held /\ s.queue = r.queue /\ s.seq = r.seq
      /\ s.reader = r.reader /\ s.client = r.client /\ s.forwarder = r.forwarder /\ s.started = r.started
      /\ s.history = o
  BY <1>2, <1>4 DEF Rows
<1>7. Born(s, o, o)
  <2>1. ~InHand(s) /\ First(s, o) = o + 1  BY <1>2, <1>6 DEF Unborn, InHand, First
  <2>2. \A i \in 1 .. Len(s.queue) : ~Own(s.term, s.queue[i])  BY <1>2, <1>6 DEF Drained
  <2>3. Chain(s.queue, s.term, o + 1) /\ Within(s.queue, s.term, o)  BY <2>2 DEF Chain, Within
  <2>4. Reaches(s.queue, s.term, o + 1, o)  BY <1>2 DEF Reaches
  <2>5. o + 1 <= o + 1 /\ o <= o  BY <1>2
  <2>6. Piped(s, o, o)  BY <2>1, <2>3, <2>4, <2>5 DEF Piped
  <2>7. Sound(s)  BY <1>2, <1>6 DEF Unborn, Sound
  <2> QED  BY <1>6, <2>5, <2>6, <2>7 DEF Born
<1>8. att' \in [Attachments -> Rows] /\ \A a \in Attachments : att'[a] = IF a = nextId THEN s ELSE att[a]
  BY <1>1, <1>4, <1>6
<1>9. \A a \in Attachments : a \in Nat /\ (a < nextId' <=> a < nextId \/ a = nextId)
  BY <1>1, <1>3 DEF Attachments
<1>10. AttachmentsOK(k)'
  <2>1. ASSUME NEW a \in Attachments
        PROVE  IF a < nextId' THEN Born(att'[a], k[a], output'[att'[a].term]) ELSE Unborn(att'[a])
    <3>1. CASE a = nextId  BY <3>1, <1>1, <1>3, <1>5, <1>6, <1>7, <1>8, <1>9
    <3>2. CASE a # nextId
      BY <3>2, <1>3, <1>5, <1>8, <1>9 DEF Core, Flow, AttachmentsOK
    <3> QED  BY <3>1, <3>2
  <2> QED  BY <2>1 DEF AttachmentsOK
<1>11. WireOK(k)'
  <2>1. ASSUME NEW e \in Honest(h) PROVE e \in Honest(k)'
    <3>1. e \in Events /\ e.att \in Attachments /\ e.att < nextId /\ EventOK(e, h)
      BY DEF Honest, EventOK, Events
    <3>2. e.att # nextId /\ e.att < nextId' /\ att'[e.att] = att[e.att] /\ k[e.att] = h[e.att]
      <4>0. e.att \in Nat /\ (e.att < nextId' <=> e.att < nextId \/ e.att = nextId)  BY <3>1, <1>9
      <4>1. e.att # nextId /\ e.att < nextId'  BY <4>0, <3>1, <1>1
      <4>2. att'[e.att] = att[e.att]  BY <3>1, <4>1, <1>8
      <4>3. k[e.att] = h[e.att]  BY <3>1, <4>1, <1>5
      <4> QED  BY <4>1, <4>2, <4>3
    <3>3. EventOK(e, k)'  BY <3>1, <3>2, <1>3 DEF EventOK
    <3> QED  BY <3>1, <3>3 DEF Honest
  <2> QED  BY <1>3, <2>1 DEF WireOK, Core, Flow
<1>12. ScreenOK(k)'
  <2>1. view # None => view \in Attachments /\ view # nextId  BY <1>1, <1>9 DEF Core, Types
  <2> QED  BY <1>3, <1>5, <2>1 DEF ScreenOK, Core, Flow, panel
<1>13. Sent'  BY <1>3, <1>6, <1>8, <1>9 DEF Sent, Core
<1>14. Routes'  BY <1>1, <1>3, <1>6, <1>8 DEF Routes
<1>15. AnswersOK'
  <2>1. \A a \in answers : a.ok /\ Select(a.to) => a.att \in Nat  BY <1>9 DEF AnswersOK, Core, Types
  <2>2. AnswersOK /\ nextId' \in Nat /\ nextId <= nextId' /\ attached' \in Attachments /\ attached' < nextId'
    BY <1>1, <1>3 DEF Core, Types
  <2> QED  BY <1>1, <1>3, <2>1, <2>2, ReplyOK
<1>16. Types'
  <2>1. nextId' \in 1 .. MaxAttach + 1 /\ MaxAttach \in Nat
    BY <1>1, <1>3, StreamAssumption DEF Attachments
  <2>2. view' = None \/ (view' \in Attachments /\ view' < nextId')  BY <1>3, <1>9 DEF Core, Types, panel
  <2>3. attached' \in Attachments /\ attached' < nextId' /\ route' \in Terminals  BY <1>1, <1>2, <1>3
  <2> QED  BY <1>3, <1>8, <1>15, <2>1, <2>2, <2>3 DEF Core, Types, panel
<1>17. Working' /\ Recovering'  BY <1>3 DEF Working, Recovering
<1>18. Core(k)'  BY <1>10, <1>11, <1>12, <1>13, <1>14, <1>16, <1>17 DEF Core, Flow
<1> QED  BY <1>18

(***************************************************************************)
(* The steps of the user interface.                                        *)
(***************************************************************************)
LEMMA PanelStep ==
  ASSUME NEW h \in [Attachments -> Nat], Core(h), UNCHANGED <<tmux, att, gateway, working, reached>>,
         calls' \subseteq Requests, waiting' \subseteq Requests, answers' \subseteq answers,
         wire' = wire \/ (wire # <<>> /\ wire' = Tail(wire)),
         view' = None \/ (view' \in Attachments /\ view' < nextId),
         next' \in Nat, ready' \in BOOLEAN, screen' \in Seq(Nat), ScreenOK(h)'
  PROVE  Core(h)'
<1>1. UNCHANGED <<output, alive, att, attached, nextId, route, job, stage, reached>>
  BY DEF tmux, gateway, working
<1>2. RowsStep(h)  BY <1>1, RowsSame
<1>3. Sent' /\ Routes' /\ AttachmentsOK(h)'  BY <1>1, <1>2, RowsSent
<1>4. output \in [Terminals -> Nat] /\ \A t \in Terminals : output[t] <= output'[t]  BY <1>1 DEF Core, Types
<1>5. wire' \in Seq(Events) /\ WireOK(h)'
  <2>1. Honest(h) \subseteq Honest(h)'  BY <1>1, <1>2, <1>4, WireSame
  <2> QED  BY <2>1, WireStep
<1>6. Flow(h)'  BY <1>3, <1>5 DEF Flow
<1>7. AnswersOK'  BY <1>1 DEF AnswersOK, Core, Types
<1>8. Types'  BY <1>1, <1>5, <1>7 DEF Core, Types
<1>9. Working' /\ Recovering'  BY <1>1 DEF Core, Working, Recovering
<1> QED  BY <1>3, <1>6, <1>8, <1>9 DEF Core

(* What the panel shows stays, or the view is lost.                        *)
LEMMA AskStep ==
  ASSUME NEW h \in [Attachments -> Nat], Core(h), UNCHANGED <<tmux, att, gateway, working, reached>>,
         calls' \subseteq Requests, waiting' \subseteq Requests, answers' \subseteq answers,
         UNCHANGED <<wire, next, screen>>, view' \in {view, None}, ready' \in BOOLEAN
  PROVE  Core(h)'
<1>1. ScreenOK(h)'  BY DEF Core, Flow, ScreenOK
<1>2. /\ next' \in Nat /\ screen' \in Seq(Nat)
      /\ view' = None \/ (view' \in Attachments /\ view' < nextId)
  BY DEF Core, Types
<1> QED  BY <1>1, <1>2, PanelStep

LEMMA CoreAsks ==
  ASSUME NEW h \in [Attachments -> Nat], Core(h), NEW t \in Terminals,
         SelectTerminal(t) \/ CloseTerminal(t) \/ Leave \/ Type
  PROVE  Core(h)'
<1>1. UNCHANGED <<tmux, att, gateway, working, reached, answers, wire, next, screen>>
      /\ view' \in {view, None} /\ ready' \in {ready, FALSE}
  BY DEF SelectTerminal, CloseTerminal, Leave, Type, panel
<1>2. ready' \in BOOLEAN  BY <1>1 DEF Core, Types
<1>3. calls' \subseteq Requests /\ waiting' \subseteq Requests
  <2>1. calls \subseteq Requests /\ waiting \subseteq Requests /\ (view # None => view \in Attachments)
    BY DEF Core, Types
  <2>2. CASE SelectTerminal(t)
    <3>1. [op |-> IF view = None THEN "attach" ELSE "switch", of |-> t] \in Requests  BY DEF Requests, Ops
    <3> QED  BY <2>1, <2>2, <3>1 DEF SelectTerminal, Ask
  <2>3. CASE CloseTerminal(t)
    <3>1. [op |-> "close", of |-> t] \in Requests  BY DEF Requests, Ops
    <3> QED  BY <2>1, <2>3, <3>1 DEF CloseTerminal, Ask
  <2>4. CASE Leave
    <3>1. [op |-> "detach", of |-> view] \in Requests  BY <2>1, <2>4 DEF Requests, Ops, Leave
    <3> QED  BY <2>1, <2>4, <3>1 DEF Leave, Ask
  <2>5. CASE Type
    <3>1. [op |-> "send", of |-> view] \in Requests  BY <2>1, <2>5 DEF Requests, Ops, Type
    <3> QED  BY <2>1, <2>5, <3>1 DEF Type, Ask
  <2> QED  BY <2>2, <2>3, <2>4, <2>5
<1> QED  BY <1>1, <1>2, <1>3, AskStep

LEMMA CoreTimeOut ==
  ASSUME NEW h \in [Attachments -> Nat], Core(h), NEW q \in waiting, TimeOut(q)
  PROVE  Core(h)'
<1>1. UNCHANGED <<tmux, att, gateway, working, reached, answers, wire, next, screen, calls>>
      /\ view' \in {view, None} /\ ready' \in BOOLEAN
  BY DEF TimeOut, Failed
<1>2. calls' \subseteq Requests /\ waiting' \subseteq Requests /\ answers' \subseteq answers
  BY <1>1 DEF TimeOut, Core, Types
<1> QED  BY <1>1, <1>2, AskStep

LEMMA CoreReceiveAnswer ==
  ASSUME NEW h \in [Attachments -> Nat], Core(h), NEW r \in answers, ReceiveAnswer(r)
  PROVE  Core(h)'
<1>1. UNCHANGED <<tmux, att, gateway, working, reached, wire>> /\ answers' \subseteq answers
  BY DEF ReceiveAnswer
<1>2. calls \subseteq Requests /\ waiting \subseteq Requests /\ ready \in BOOLEAN  BY DEF Core, Types
<1>3. CASE ~r.ok
  <2>1. waiting' \subseteq Requests /\ UNCHANGED <<next, screen, calls>> /\ view' \in {view, None}
        /\ ready' \in BOOLEAN
    BY <1>2, <1>3 DEF ReceiveAnswer, Failed
  <2> QED  BY <1>1, <1>2, <2>1, AskStep
<1>4. CASE r.ok /\ Select(r.to)
  <2>1. r.att \in Attachments /\ r.att < nextId  BY <1>4 DEF Core, Types, AnswersOK
  <2>2. [op |-> "start", of |-> r.att] \in Requests  BY <2>1 DEF Requests, Ops
  <2>3. /\ view' = r.att /\ next' = 0 /\ ready' = FALSE /\ screen' = <<>>
        /\ calls' \subseteq Requests /\ waiting' \subseteq Requests
    BY <1>2, <1>4, <2>2 DEF ReceiveAnswer
  <2>4. ScreenOK(h)' /\ screen' \in Seq(Nat)  BY <2>3, EmptySeq DEF ScreenOK
  <2> QED  BY <1>1, <2>1, <2>3, <2>4, PanelStep
<1>5. CASE r.ok /\ ~Select(r.to)
  <2>1. waiting' \subseteq Requests /\ UNCHANGED <<view, next, screen, calls>> /\ ready' \in BOOLEAN
    BY <1>2, <1>5 DEF ReceiveAnswer
  <2> QED  BY <1>1, <1>2, <2>1, AskStep
<1> QED  BY <1>3, <1>4, <1>5 DEF ReceiveAnswer

LEMMA NoneView == None \notin Attachments
BY StreamAssumption DEF Attachments

(* What a line that reaches the screen is.                                 *)
LEMMA ShownLine ==
  ASSUME NEW h \in [Attachments -> Nat], Core(h), wire # <<>>, NEW e, e = Head(wire),
         ~Stale(e), ~Gap(e), e.kind # "end"
  PROVE  /\ e \in Events /\ view \in Attachments /\ e.att = view /\ e.n \in Nat /\ h[view] \in Nat
         /\ e.n <= output[att[view].term]
         /\ \/ e.kind = "history" /\ next = 0 /\ screen = <<>> /\ e.n = h[view]
            \/ e.kind = "output" /\ next > 0 /\ e.n = Len(screen) + 1 /\ e.n = h[view] + next
<1>1. e \in Honest(h)
  <2>1. wire \in Seq(Events) /\ Len(wire) \in Nat \ {0}  BY DEF Core, Types
  <2>2. Head(wire) = wire[1]  BY <2>1
  <2> QED  BY <2>1, <2>2 DEF Core, Flow, WireOK
<1>2. e \in Events /\ EventOK(e, h)  BY <1>1 DEF Honest
<1>3. view \in Attachments /\ e.att = view /\ next \in Nat /\ screen \in Seq(Nat)  BY DEF Stale, Core, Types
<1>4. e.seq = next /\ (next = 0 => e.kind = "history")  BY DEF Gap
<1>5. e.n \in Nat /\ h[view] \in Nat /\ e.kind \in {"history", "output"}  BY <1>2, <1>3 DEF Events
<1>6. e.n <= output[att[view].term]  BY <1>2, <1>3 DEF EventOK
<1>7. CASE e.kind = "history"
  <2>1. e.seq = 0 /\ e.n = h[view]  BY <1>2, <1>3, <1>7 DEF EventOK
  <2>2. next = 0 /\ screen = <<>>  BY <1>3, <1>4, <2>1, NoneView DEF Core, Flow, ScreenOK
  <2> QED  BY <1>2, <1>3, <1>5, <1>6, <1>7, <2>1, <2>2
<1>8. CASE e.kind = "output"
  <2>1. e.seq > 0 /\ e.n = h[view] + e.seq  BY <1>2, <1>3, <1>8 DEF EventOK
  <2>2. next # 0 /\ next > 0 /\ e.n = h[view] + next  BY <1>3, <1>4, <2>1
  <2>3. Len(screen) = h[view] + next - 1  BY <1>3, <2>2, NoneView DEF Core, Flow, ScreenOK
  <2> QED  BY <1>2, <1>3, <1>5, <1>6, <1>8, <2>2, <2>3
<1> QED  BY <1>5, <1>7, <1>8

LEMMA CoreReceiveEvent ==
  ASSUME NEW h \in [Attachments -> Nat], Core(h), ReceiveEvent
  PROVE  Core(h)'
<1> DEFINE e == Head(wire)
<1>1. UNCHANGED <<tmux, att, gateway, working, reached, calls, waiting, answers>>
      /\ wire # <<>> /\ wire' = Tail(wire)
  BY DEF ReceiveEvent
<1>2. /\ calls \subseteq Requests /\ waiting \subseteq Requests /\ ready \in BOOLEAN /\ next \in Nat
      /\ screen \in Seq(Nat) /\ (view = None \/ (view \in Attachments /\ view < nextId))
  BY DEF Core, Types
<1>3. \/ view' \in {view, None} /\ ready' \in {ready, FALSE} /\ UNCHANGED <<next, screen>>
      \/ /\ ~Stale(e) /\ ~Gap(e) /\ e.kind # "end"
         /\ next' = next + 1
         /\ screen' = (IF e.kind = "history" THEN [i \in 1 .. e.n |-> i] ELSE Append(screen, e.n))
         /\ UNCHANGED <<view, ready>>
  BY DEF ReceiveEvent, panel
<1> HIDE DEF e
<1>4. CASE view' \in {view, None} /\ ready' \in {ready, FALSE} /\ UNCHANGED <<next, screen>>
  <2>1. ScreenOK(h)'  BY <1>4 DEF Core, Flow, ScreenOK
  <2> QED  BY <1>1, <1>2, <1>4, <2>1, PanelStep
<1>5. CASE /\ ~Stale(e) /\ ~Gap(e) /\ e.kind # "end"
           /\ next' = next + 1
           /\ screen' = (IF e.kind = "history" THEN [i \in 1 .. e.n |-> i] ELSE Append(screen, e.n))
           /\ UNCHANGED <<view, ready>>
  <2>1. /\ view \in Attachments /\ e.n \in Nat /\ h[view] \in Nat
        /\ \/ e.kind = "history" /\ next = 0 /\ e.n = h[view]
           \/ e.kind = "output" /\ next > 0 /\ e.n = Len(screen) + 1 /\ e.n = h[view] + next
    BY <1>1, <1>5, ShownLine DEF e
  <2>2. screen' \in Seq(Nat) /\ Len(screen') = h[view] + next' - 1
    <3>1. CASE e.kind = "history" /\ next = 0 /\ e.n = h[view]
      <4>1. screen' = [i \in 1 .. e.n |-> i]  BY <1>5, <3>1
      <4>2. screen' \in Seq(Nat) /\ Len(screen') = e.n  BY <4>1, <2>1
      <4> QED  BY <1>5, <2>1, <3>1, <4>2
    <3>2. CASE e.kind = "output" /\ next > 0 /\ e.n = Len(screen) + 1 /\ e.n = h[view] + next
      <4>1. screen' = Append(screen, e.n)  BY <1>5, <3>2
      <4>2. screen' \in Seq(Nat) /\ Len(screen') = Len(screen) + 1  BY <4>1, <2>1, <1>2
      <4> QED  BY <1>2, <1>5, <2>1, <3>2, <4>2
    <3> QED  BY <2>1, <3>1, <3>2
  <2>3. ScreenOK(h)'  BY <1>2, <1>5, <2>1, <2>2 DEF ScreenOK
  <2>4. next' \in Nat /\ ready' \in BOOLEAN /\ (view' = None \/ (view' \in Attachments /\ view' < nextId))
    BY <1>2, <1>5
  <2> QED  BY <1>1, <1>2, <2>2, <2>3, <2>4, PanelStep
<1> QED  BY <1>3, <1>4, <1>5

(***************************************************************************)
(* The invariant.                                                          *)
(***************************************************************************)
LEMMA InitInv == Init => Inv
<1> SUFFICES ASSUME Init PROVE Inv  OBVIOUS
<1>1. PICK h \in [Attachments -> Nat] : \A a \in Attachments : h[a] = 0
  <2>1. [a \in Attachments |-> 0] \in [Attachments -> Nat]  OBVIOUS
  <2> QED  BY <2>1
<1>2. /\ output \in [Terminals -> Nat] /\ alive \subseteq Terminals /\ att = [a \in Attachments |-> Blank]
      /\ attached = None /\ nextId = 1 /\ route = None
      /\ calls = {} /\ job = None /\ stage = "idle" /\ answers = {} /\ waiting = {}
      /\ wire = <<>> /\ view = None /\ next = 0 /\ ready = FALSE /\ screen = <<>> /\ reached = {}
  BY DEF Init
<1>3. att \in [Attachments -> Rows] /\ \A a \in Attachments : Unborn(att[a])  BY <1>2, BlankRow
<1>4. nextId \in 1 .. MaxAttach + 1  BY <1>2, StreamAssumption
<1>5. wire \in Seq(Events) /\ screen \in Seq(Nat) /\ Len(wire) = 0  BY <1>2, EmptySeq
<1>6. Types  BY <1>2, <1>3, <1>4, <1>5 DEF Types, AnswersOK
<1>7. Working /\ Routes /\ Sent /\ Recovering  BY <1>2 DEF Working, Routes, Sent, Recovering
<1>8. AttachmentsOK(h)
  <2>1. \A a \in Attachments : ~(a < nextId)  BY <1>2 DEF Attachments
  <2> QED  BY <1>3, <2>1 DEF AttachmentsOK
<1>9. WireOK(h) /\ ScreenOK(h)  BY <1>2, <1>5 DEF WireOK, ScreenOK
<1> QED  BY <1>6, <1>7, <1>8, <1>9 DEF Inv, Core, Flow

Actions ==
  \/ \E t \in Terminals : Output(t) \/ WindowCloses(t) \/ SelectTerminal(t) \/ CloseTerminal(t)
  \/ \E a \in Attachments :
       ClientLost(a) \/ Receive(a) \/ Forward(a) \/ ForwardEnds(a) \/ WatchdogWakes(a) \/ WatchdogThaws(a)
  \/ \E q \in calls : AttachBegins(q) \/ StartBegins(q) \/ Detach(q) \/ Send(q) \/ CloseKills(q)
  \/ AttachTurnsOff \/ AttachFails \/ AttachCaptures \/ StartForwards \/ StartThaws \/ CloseRecords
  \/ Leave \/ Type \/ (\E q \in waiting : TimeOut(q)) \/ (\E r \in answers : ReceiveAnswer(r)) \/ ReceiveEvent

LEMMA NextIsActions == Next => Actions
BY DEF Next, Actions, Serve, Interface, Thread

LEMMA NextInv == Inv /\ [Next]_vars => Inv'
<1> SUFFICES ASSUME Inv, Actions \/ UNCHANGED vars PROVE Inv'  BY NextIsActions
<1>1. PICK h \in [Attachments -> Nat] : Core(h)  BY DEF Inv
<1>2. ASSUME NEW t \in Terminals, Output(t) \/ WindowCloses(t) \/ SelectTerminal(t) \/ CloseTerminal(t)
      PROVE  Core(h)'
  BY <1>1, <1>2, CoreOutput, CoreWindowCloses, CoreAsks
<1>3. ASSUME NEW a \in Attachments,
             ClientLost(a) \/ Receive(a) \/ Forward(a) \/ ForwardEnds(a) \/ WatchdogWakes(a) \/ WatchdogThaws(a)
      PROVE  Core(h)'
  BY <1>1, <1>3, CoreClientLost, CoreReceive, CoreForward, CoreForwardEnds, CoreWatchdog
<1>4. ASSUME NEW q \in calls, AttachBegins(q) \/ StartBegins(q) \/ Detach(q) \/ Send(q) \/ CloseKills(q)
      PROVE  Core(h)'
  BY <1>1, <1>4, CoreAttachBegins, CoreStartBegins, CoreDetach, CoreSend, CoreCloseKills
<1>5. CASE AttachTurnsOff \/ AttachFails \/ StartForwards \/ StartThaws \/ CloseRecords
  BY <1>1, <1>5, CoreAttachTurnsOff, CoreAttachFails, CoreStartForwards, CoreStartThaws, CoreCloseRecords
     DEF Inv
<1>6. CASE AttachCaptures  BY <1>1, <1>6, CoreAttachCaptures DEF Inv
<1>7. CASE Leave \/ Type
  <2>1. PICK t \in Terminals : TRUE  BY StreamAssumption
  <2>2. Core(h)'  BY <1>1, <1>7, <2>1, CoreAsks
  <2> QED  BY <2>2 DEF Inv
<1>8. ASSUME NEW q \in waiting, TimeOut(q) PROVE Core(h)'  BY <1>1, <1>8, CoreTimeOut
<1>9. ASSUME NEW r \in answers, ReceiveAnswer(r) PROVE Core(h)'  BY <1>1, <1>9, CoreReceiveAnswer
<1>10. CASE ReceiveEvent
  <2>1. Core(h)'  BY <1>1, <1>10, CoreReceiveEvent
  <2> QED  BY <2>1 DEF Inv
<1>11. CASE UNCHANGED vars
  <2>1. /\ UNCHANGED <<output, alive, att, attached, nextId, route, calls, job, stage, answers, waiting>>
        /\ UNCHANGED <<wire, view, next, ready, screen, reached>>
    BY <1>11 DEF vars, tmux, gateway, working, panel
  <2>2. Types' /\ Working' /\ Routes' /\ Sent' /\ Recovering'
    BY <1>1, <2>1 DEF Core, Types, AnswersOK, Working, Routes, Sent, Recovering
  <2>3. Flow(h)'
    BY <1>1, <2>1 DEF Core, Flow, AttachmentsOK, WireOK, Honest, EventOK, ScreenOK
  <2>4. Core(h)'  BY <2>2, <2>3 DEF Core
  <2> QED  BY <2>4 DEF Inv
<1>12. (\E t \in Terminals : Output(t) \/ WindowCloses(t) \/ SelectTerminal(t) \/ CloseTerminal(t)) => Inv'
  BY <1>2 DEF Inv
<1>13. (\E a \in Attachments :
          ClientLost(a) \/ Receive(a) \/ Forward(a) \/ ForwardEnds(a) \/ WatchdogWakes(a) \/ WatchdogThaws(a))
       => Inv'
  BY <1>3 DEF Inv
<1>14. (\E q \in calls : AttachBegins(q) \/ StartBegins(q) \/ Detach(q) \/ Send(q) \/ CloseKills(q)) => Inv'
  BY <1>4 DEF Inv
<1>15. (\E q \in waiting : TimeOut(q)) => Inv'  BY <1>8 DEF Inv
<1>16. (\E r \in answers : ReceiveAnswer(r)) => Inv'  BY <1>9 DEF Inv
<1> QED  BY <1>5, <1>6, <1>7, <1>10, <1>11, <1>12, <1>13, <1>14, <1>15, <1>16 DEF Actions

(* The lines of every attachment are in order on their way, and the events *)
(* and the screen are honest: Inv, in every reachable state.               *)
THEOREM StreamInvariance == Spec => []Inv
BY InitInv, NextInv, PTL DEF Spec

(* Input and resizes reach the terminal they were typed for, however late  *)
(* they come (ensure_current_stream, send_input, resize).                  *)
THEOREM InputReachesHome == Spec => []InputStaysHome
<1>1. Inv => InputStaysHome  BY DEF Inv, Core, Sent, InputStaysHome
<1> QED  BY <1>1, StreamInvariance, PTL

(* The route is the attached terminal's (TerminalDataGateway).             *)
THEOREM RouteKept == Spec => []RouteFollowsAttachment
<1>1. Inv => RouteFollowsAttachment  BY DEF Inv, Core, Routes, RouteFollowsAttachment
<1> QED  BY <1>1, StreamInvariance, PTL

(***************************************************************************)
(* The count of a queue.  The library's theorems on recursive functions    *)
(* take operators, so what Bytes sums up is proved from the least number   *)
(* at which it would not.                                                  *)
(***************************************************************************)
LEMMA LeastNumber ==
  ASSUME NEW T, T \subseteq Nat, T # {}
  PROVE  \E x \in T : \A y \in T : x <= y
<1> DEFINE R == OpToRel(<, Nat)
<1>1. IsWellFoundedOn(R, Nat)  BY NatLessThanWellFounded
<1>2. \A x, y \in Nat : x < y => <<x, y>> \in R  BY DEF OpToRel
<1> HIDE DEF R
<1>3. PICK x \in T : \A y \in T : <<y, x>> \notin R  BY <1>1, WFMin
<1>4. ASSUME NEW y \in T PROVE x <= y
  <2>1. x \in Nat /\ y \in Nat  OBVIOUS
  <2>2. ~ (y < x)  BY <2>1, <1>2, <1>3
  <2> QED  BY <2>1, <2>2
<1> QED  BY <1>4

LEMMA LineSize == \A l \in Lines : l.size \in Nat
BY DEF Lines

Summing(f, q) == f = [i \in 0 .. Len(q) |-> IF i = 0 THEN 0 ELSE f[i - 1] + q[i].size]
LEMMA Unfold == ASSUME NEW q PROVE Bytes(q) = (CHOOSE f : Summing(f, q))[Len(q)]
BY DEF Bytes, Summing

LEMMA SumExists ==
  \A q \in Seq(Lines) : \E f \in [0 .. Len(q) -> Nat] : Summing(f, q)
<1> DEFINE Sized(q) == \E f \in [0 .. Len(q) -> Nat] : Summing(f, q)
           T == {n \in Nat : \E q \in Seq(Lines) : Len(q) = n /\ ~Sized(q)}
<1> SUFFICES ASSUME T # {} PROVE FALSE
  OBVIOUS
<1> HIDE DEF Sized
<1>1. PICK n \in T : \A m \in T : n <= m  BY LeastNumber
<1>2. PICK q \in Seq(Lines) : Len(q) = n /\ ~Sized(q)  OBVIOUS
<1> HIDE DEF T
<1>3. n \in Nat  BY <1>2
<1>4. CASE n = 0
  <2>1. [i \in 0 .. 0 |-> 0] \in [0 .. Len(q) -> Nat]  BY <1>2, <1>4
  <2>2. Summing([i \in 0 .. 0 |-> 0], q)  BY <1>2, <1>4 DEF Summing
  <2> QED  BY <2>1, <2>2, <1>2 DEF Sized
<1>5. CASE n # 0
  <2> DEFINE p == SubSeq(q, 1, n - 1)
  <2>1. p \in Seq(Lines) /\ Len(p) = n - 1 /\ \A i \in 1 .. n - 1 : p[i] = q[i]
    BY <1>2, <1>3, <1>5
  <2>2. Sized(p)
    <3>1. n - 1 \in Nat /\ ~ (n <= n - 1)  BY <1>3, <1>5
    <3>2. n - 1 \notin T  BY <3>1, <1>1
    <3> QED  BY <2>1, <3>1, <3>2 DEF T
  <2> HIDE DEF p
  <2>3. PICK f \in [0 .. Len(p) -> Nat] : Summing(f, p)  BY <2>2 DEF Sized
  <2> DEFINE g == [i \in 0 .. n |-> IF i = n THEN f[n - 1] + q[n].size ELSE f[i]]
  <2>4. q[n].size \in Nat  BY <1>2, <1>3, <1>5, LineSize
  <2>5. \A i \in 0 .. n - 1 : f[i] \in Nat /\ f[i] = IF i = 0 THEN 0 ELSE f[i - 1] + q[i].size
    <3> HIDE DEF g
    <3>1. \A i \in 0 .. Len(p) : f[i] = IF i = 0 THEN 0 ELSE f[i - 1] + p[i].size
      BY <2>3 DEF Summing
    <3>2. ASSUME NEW i \in 0 .. n - 1 PROVE f[i] \in Nat
      BY <2>1, <2>3
    <3>3. ASSUME NEW i \in 0 .. n - 1
          PROVE  f[i] = IF i = 0 THEN 0 ELSE f[i - 1] + q[i].size
      <4>1. i = 0 \/ i \in 1 .. n - 1  BY <1>3
      <4> QED  BY <2>1, <3>1, <4>1
    <3> QED  BY <3>2, <3>3
  <2>6. g \in [0 .. Len(q) -> Nat] /\ \A i \in 0 .. n : g[i] = IF i = n THEN f[n - 1] + q[n].size ELSE f[i]
    BY <1>2, <1>3, <1>5, <2>4, <2>5
  <2> HIDE DEF g
  <2>7. ASSUME NEW i \in 0 .. n PROVE g[i] = IF i = 0 THEN 0 ELSE g[i - 1] + q[i].size
    <3>1. CASE i = n
      <4>1. n - 1 \in 0 .. n /\ n - 1 # n /\ n \in 0 .. n  BY <1>3, <1>5
      <4> QED  BY <3>1, <1>5, <2>6, <4>1
    <3>2. CASE i \in 1 .. n - 1
      <4>1. i - 1 \in 0 .. n /\ i - 1 # n /\ i # n /\ i # 0 /\ i \in 0 .. n - 1  BY <3>2, <1>3
      <4> QED  BY <2>5, <2>6, <4>1
    <3>3. CASE i = 0
      BY <3>3, <1>3, <1>5, <2>5, <2>6
    <3> QED  BY <3>1, <3>2, <3>3, <1>3
  <2>8. Summing(g, q)
    <3>1. DOMAIN g = 0 .. n  BY <2>6, <1>2
    <3>2. g = [i \in 0 .. n |-> g[i]]  BY <2>6, <1>2
    <3> QED  BY <3>2, <2>7, <1>2 DEF Summing
  <2> QED  BY <2>6, <2>8, <1>2 DEF Sized
<1> QED  BY <1>4, <1>5

(* Bytes has a sum. *)
LEMMA SumOf ==
  ASSUME NEW q \in Seq(Lines)
  PROVE  \E f \in [0 .. Len(q) -> Nat] :
           /\ f[0] = 0 /\ \A i \in 1 .. Len(q) : f[i] = f[i - 1] + q[i].size
           /\ Bytes(q) = f[Len(q)]
<1> DEFINE f == CHOOSE f : Summing(f, q)
<1>1. Summing(f, q)  BY SumExists
<1>2. Bytes(q) = f[Len(q)]  BY Unfold
<1> HIDE DEF f
<1>3. PICK g \in [0 .. Len(q) -> Nat] : Summing(g, q)  BY SumExists
<1>4. Len(q) \in Nat  OBVIOUS
<1>5. DOMAIN f = 0 .. Len(q) /\ f[0] = 0 /\ \A i \in 1 .. Len(q) : f[i] = f[i - 1] + q[i].size
  <2>1. \A i \in 0 .. Len(q) : f[i] = IF i = 0 THEN 0 ELSE f[i - 1] + q[i].size
    BY <1>1 DEF Summing
  <2> QED  BY <1>1, <1>4, <2>1 DEF Summing
<1>6. \A i \in 0 .. Len(q) : f[i] \in Nat
  <2> DEFINE T == {i \in 0 .. Len(q) : f[i] \notin Nat}
  <2> SUFFICES ASSUME T # {} PROVE FALSE  OBVIOUS
  <2>1. T \subseteq Nat  BY <1>4
  <2>2. PICK i \in T : \A j \in T : i <= j  BY <2>1, LeastNumber
  <2>3. i # 0  BY <1>5, <2>2
  <2>4. i \in 1 .. Len(q) /\ i - 1 \in 0 .. Len(q) /\ ~ (i <= i - 1)  BY <1>4, <2>2, <2>3
  <2>5. f[i - 1] \in Nat  BY <2>2, <2>4
  <2>6. q[i].size \in Nat  BY <2>4, LineSize
  <2> QED  BY <1>5, <2>2, <2>4, <2>5, <2>6
<1>7. f \in [0 .. Len(q) -> Nat]
  <2>1. f = [i \in 0 .. Len(q) |-> f[i]]  BY <1>1 DEF Summing
  <2> QED  BY <2>1, <1>6
<1> QED  BY <1>2, <1>5, <1>7

LEMMA BytesEmpty == Bytes(<<>>) = 0
<1>1. <<>> \in Seq(Lines) /\ Len(<<>>) = 0  OBVIOUS
<1> QED  BY <1>1, SumOf

(* Two sums that grow alike.                                               *)
LEMMA GrowAlike ==
  ASSUME NEW n \in Nat, NEW f \in [0 .. n -> Nat], NEW g \in [0 .. n -> Nat], NEW c \in Nat,
         g[0] = f[0] + c,
         \A i \in 1 .. n : \E d \in Nat : f[i] = f[i - 1] + d /\ g[i] = g[i - 1] + d
  PROVE  g[n] = f[n] + c
<1> DEFINE T == {i \in 0 .. n : g[i] # f[i] + c}
<1> SUFFICES ASSUME T # {} PROVE FALSE
  <2>1. n \in 0 .. n  OBVIOUS
  <2> QED  BY <2>1
<1>1. T \subseteq Nat  OBVIOUS
<1>2. PICK i \in 0 .. n : i \in T /\ \A j \in T : i <= j
  <2>1. \E i \in T : \A j \in T : i <= j  BY <1>1, LeastNumber
  <2> QED  BY <2>1
<1>3. i \in 1 .. n /\ i - 1 \in 0 .. n /\ ~ (i <= i - 1) /\ g[i] # f[i] + c  BY <1>2
<1>4. i - 1 \notin T  BY <1>2, <1>3
<1>5. g[i - 1] = f[i - 1] + c  BY <1>3, <1>4
<1> HIDE DEF T
<1>6. g[i] \in Nat /\ f[i] \in Nat /\ g[i - 1] \in Nat /\ f[i - 1] \in Nat  BY <1>3
<1>7. PICK d \in Nat : f[i] = f[i - 1] + d /\ g[i] = g[i - 1] + d  BY <1>3
<1>8. g[i] = f[i] + c
  <2> DEFINE w == g[i]  x == g[i - 1]  y == f[i]  z == f[i - 1]
  <2>1. w \in Nat /\ x \in Nat /\ y \in Nat /\ z \in Nat  BY <1>6
  <2>2. x = z + c /\ y = z + d /\ w = x + d  BY <1>5, <1>7
  <2> HIDE DEF w, x, y, z
  <2>3. w = y + c  BY <2>1, <2>2
  <2> QED  BY <2>3 DEF w, y
<1> QED  BY <1>3, <1>8

LEMMA BytesAppend ==
  ASSUME NEW q \in Seq(Lines), NEW l \in Lines
  PROVE  Bytes(Append(q, l)) = Bytes(q) + l.size
<1> DEFINE r == Append(q, l)
<1>1. r \in Seq(Lines) /\ Len(r) = Len(q) + 1 /\ r[Len(q) + 1] = l /\ Len(q) \in Nat
      /\ \A i \in 1 .. Len(q) : r[i] = q[i]
  OBVIOUS
<1> HIDE DEF r
<1>2. PICK f \in [0 .. Len(q) -> Nat] :
           /\ f[0] = 0 /\ \A i \in 1 .. Len(q) : f[i] = f[i - 1] + q[i].size
           /\ Bytes(q) = f[Len(q)]
  BY SumOf
<1>3. PICK g \in [0 .. Len(r) -> Nat] :
           /\ g[0] = 0 /\ \A i \in 1 .. Len(r) : g[i] = g[i - 1] + r[i].size
           /\ Bytes(r) = g[Len(r)]
  BY <1>1, SumOf
<1> DEFINE e == [i \in 0 .. Len(q) |-> g[i]]
<1>4. e[Len(q)] = f[Len(q)] + 0
  <2>1. e \in [0 .. Len(q) -> Nat] /\ e[0] = f[0] + 0  BY <1>1, <1>2, <1>3
  <2>2. ASSUME NEW i \in 1 .. Len(q) PROVE \E d \in Nat : f[i] = f[i - 1] + d /\ e[i] = e[i - 1] + d
    <3>1. /\ i \in 1 .. Len(r) /\ i \in 0 .. Len(q) /\ i - 1 \in 0 .. Len(q)
          /\ r[i] = q[i] /\ q[i].size \in Nat
      BY <1>1, LineSize
    <3>2. g[i] = g[i - 1] + q[i].size /\ f[i] = f[i - 1] + q[i].size  BY <1>2, <1>3, <3>1
    <3>3. i - 1 \in 0 .. Len(r) /\ i \in 0 .. Len(r)  BY <1>1
    <3>4. g[i - 1] \in Nat /\ f[i - 1] \in Nat  BY <3>1, <3>3
    <3> QED  BY <3>1, <3>2, <3>4
  <2> HIDE DEF e
  <2> QED  BY <1>1, <2>1, <2>2, GrowAlike
<1>5. f[Len(q)] \in Nat /\ g[Len(r)] = e[Len(q)] + l.size  BY <1>1, <1>2, <1>3
<1> HIDE DEF e
<1> QED  BY <1>1, <1>2, <1>3, <1>4, <1>5 DEF r

LEMMA BytesTail ==
  ASSUME NEW q \in Seq(Lines), q # <<>>
  PROVE  Bytes(q) = Head(q).size + Bytes(Tail(q))
<1> DEFINE p == Tail(q)
<1>1. p \in Seq(Lines) /\ Len(p) = Len(q) - 1 /\ Head(q) = q[1] /\ Len(q) \in Nat /\ 1 <= Len(q)
      /\ \A i \in 1 .. Len(p) : p[i] = q[i + 1]
  OBVIOUS
<1> HIDE DEF p
<1>2. PICK f \in [0 .. Len(p) -> Nat] :
           /\ f[0] = 0 /\ \A i \in 1 .. Len(p) : f[i] = f[i - 1] + p[i].size
           /\ Bytes(p) = f[Len(p)]
  BY <1>1, SumOf
<1>3. PICK g \in [0 .. Len(q) -> Nat] :
           /\ g[0] = 0 /\ \A i \in 1 .. Len(q) : g[i] = g[i - 1] + q[i].size
           /\ Bytes(q) = g[Len(q)]
  BY SumOf
<1>4. q[1].size \in Nat /\ g[1] = q[1].size
  <2>1. 1 \in 1 .. Len(q) /\ q[1] \in Lines  BY <1>1
  <2> QED  BY <1>3, <2>1, LineSize
<1> DEFINE e == [i \in 0 .. Len(p) |-> g[i + 1]]
<1>5. e[Len(p)] = f[Len(p)] + q[1].size
  <2>1. e \in [0 .. Len(p) -> Nat] /\ e[0] = f[0] + q[1].size  BY <1>1, <1>2, <1>3, <1>4
  <2>2. ASSUME NEW i \in 1 .. Len(p) PROVE \E d \in Nat : f[i] = f[i - 1] + d /\ e[i] = e[i - 1] + d
    <3>1. /\ i + 1 \in 1 .. Len(q) /\ i \in 0 .. Len(p) /\ i - 1 \in 0 .. Len(p)
          /\ i \in 0 .. Len(q) /\ i + 1 - 1 = i /\ i - 1 + 1 = i
          /\ q[i + 1] = p[i] /\ p[i].size \in Nat
      BY <1>1, LineSize
    <3>2. g[i + 1] = g[i] + p[i].size /\ f[i] = f[i - 1] + p[i].size  BY <1>2, <1>3, <3>1
    <3>3. g[i] \in Nat /\ f[i - 1] \in Nat  BY <3>1
    <3> QED  BY <3>1, <3>2, <3>3
  <2> HIDE DEF e
  <2>3. Len(p) \in Nat  BY <1>1
  <2> QED  BY <1>4, <2>1, <2>2, <2>3, GrowAlike
<1>6. f[Len(p)] \in Nat /\ e[Len(p)] = g[Len(q)]  BY <1>1, <1>2
<1> HIDE DEF e
<1> QED  BY <1>1, <1>2, <1>3, <1>4, <1>5, <1>6 DEF p

LEMMA BytesNat == ASSUME NEW q \in Seq(Lines) PROVE Bytes(q) \in Nat
<1>1. Len(q) \in 0 .. Len(q)  OBVIOUS
<1> QED  BY <1>1, SumOf
(* What is done to an attachment keeps its count.                          *)
LEMMA BalancedSame ==
  ASSUME NEW r, NEW s, Balanced(r), s.queue = r.queue, s.queued = r.queued, s.held = r.held
  PROVE  Balanced(s)
BY DEF Balanced

LEMMA BalancedEmpty ==
  ASSUME NEW r, r.queue = <<>>, r.queued = 0, r.held = None
  PROVE  Balanced(r)
<1>1. MaxBytes \in Nat /\ MaxLines \in Nat /\ Len(<<>>) = 0  BY StreamAssumption
<1> QED  BY <1>1, BytesEmpty DEF Balanced

LEMMA BalancedRead ==
  ASSUME NEW r \in Rows, NEW l \in Lines, Balanced(r)
  PROVE  Balanced(Read(r, l))
<1>1. CASE ~r.client \/ r.reader = "stopped"  BY <1>1 DEF Read
<1>2. CASE ~(~r.client \/ r.reader = "stopped") /\ (TooMuch(r, l) \/ r.forwarder = "done")
  <2>1. Read(r, l) = [r EXCEPT !.reader = "stopped"]  BY <1>2 DEF Read
  <2>2. /\ Read(r, l).queue = r.queue /\ Read(r, l).queued = r.queued
        /\ Read(r, l).held = r.held
    BY <2>1 DEF Rows
  <2> QED  BY <2>2, BalancedSame
<1>3. CASE ~(~r.client \/ r.reader = "stopped") /\ ~(TooMuch(r, l) \/ r.forwarder = "done")
  <2> DEFINE s == Read(r, l)
  <2>1. s = [r EXCEPT !.queue = Append(@, l), !.queued = @ + l.size]  BY <1>3 DEF Read
  <2>2. s.queue = Append(r.queue, l) /\ s.queued = r.queued + l.size /\ s.held = r.held
    BY <2>1 DEF Rows
  <2> HIDE DEF s
  <2>3. r.queue \in Seq(Lines) /\ r.queued \in Int /\ l.size \in Nat  BY LineSize DEF Rows
  <2>4. r.queued + l.size <= MaxBytes /\ Len(r.queue) < MaxLines
    <3>1. MaxBytes \in Nat /\ MaxLines \in Nat /\ Len(r.queue) \in Nat  BY <2>3, StreamAssumption
    <3> QED  BY <1>3, <2>3, <3>1 DEF TooMuch
  <2>5. Len(s.queue) <= MaxLines
    <3>1. MaxLines \in Nat  BY StreamAssumption
    <3>2. Len(s.queue) = Len(r.queue) + 1 /\ Len(r.queue) \in Nat  BY <2>2, <2>3
    <3> QED  BY <2>4, <3>1, <3>2
  <2>6. Bytes(s.queue) = Bytes(r.queue) + l.size /\ Bytes(r.queue) \in Nat
    BY <2>2, <2>3, BytesAppend, BytesNat
  <2>7. (IF r.held = None THEN 0 ELSE r.held.size) \in Nat  BY LineSize DEF Rows
  <2>8. r.queued = Bytes(r.queue) + (IF r.held = None THEN 0 ELSE r.held.size)
    BY DEF Balanced
  <2>9. s.queued = Bytes(s.queue) + (IF s.held = None THEN 0 ELSE s.held.size)
    <3> DEFINE hand == IF r.held = None THEN 0 ELSE r.held.size
    <3>1. s.queued = r.queued + l.size /\ r.queued = Bytes(r.queue) + hand /\ hand \in Nat
      BY <2>2, <2>7, <2>8
    <3>2. hand = IF s.held = None THEN 0 ELSE s.held.size  BY <2>2
    <3> HIDE DEF hand
    <3>3. s.queued = Bytes(s.queue) + hand  BY <2>3, <2>6, <3>1
    <3> QED  BY <3>2, <3>3
  <2> QED  BY <2>2, <2>4, <2>5, <2>9 DEF Balanced, s
<1> QED  BY <1>1, <1>2, <1>3

LEMMA BalancedTaken ==
  ASSUME NEW r \in Rows, NEW s, Balanced(r), r.held = None, r.queue # <<>>,
         s.held = Head(r.queue), s.queue = Tail(r.queue), s.queued = r.queued
  PROVE  Balanced(s)
<1>1. r.queue \in Seq(Lines) /\ Head(r.queue) \in Lines /\ Tail(r.queue) \in Seq(Lines)
      /\ Len(Tail(r.queue)) = Len(r.queue) - 1 /\ Len(r.queue) \in Nat
  BY DEF Rows
<1>2. Head(r.queue).size \in Nat /\ Bytes(Tail(r.queue)) \in Nat /\ s.held # None
  BY <1>1, LineSize, BytesNat, NoLine
<1>3. Bytes(r.queue) = Head(r.queue).size + Bytes(Tail(r.queue))  BY <1>1, BytesTail
<1>4. r.queued = Bytes(r.queue) + 0 /\ r.queued <= MaxBytes /\ Len(r.queue) <= MaxLines
  BY DEF Balanced
<1>5. MaxLines \in Nat  BY StreamAssumption
<1>6. Len(s.queue) <= MaxLines  BY <1>1, <1>4, <1>5
<1>7. s.queued = Bytes(s.queue) + s.held.size  BY <1>2, <1>3, <1>4
<1> QED  BY <1>2, <1>4, <1>6, <1>7 DEF Balanced

LEMMA BalancedHandled ==
  ASSUME NEW r \in Rows, NEW s, Balanced(r), r.held # None,
         s.held = None, s.queue = r.queue, s.queued = r.queued - r.held.size
  PROVE  Balanced(s)
<1>1. r.queue \in Seq(Lines) /\ r.held.size \in Nat  BY LineSize DEF Rows
<1>2. Bytes(r.queue) \in Nat /\ MaxBytes \in Nat  BY <1>1, BytesNat, StreamAssumption
<1>3. r.queued = Bytes(r.queue) + r.held.size /\ r.queued <= MaxBytes
      /\ Len(r.queue) <= MaxLines
  BY DEF Balanced
<1>4. s.queued = Bytes(s.queue) + 0 /\ s.queued <= MaxBytes  BY <1>1, <1>2, <1>3
<1> QED  BY <1>3, <1>4 DEF Balanced

LEMMA BalancedDropped ==
  ASSUME NEW r \in Rows, Balanced(r), Sound(r)
  PROVE  Balanced(Dropped(r))
<1> DEFINE s == Dropped(r)
<1>1. /\ s.held = r.held
      /\ s.queue = IF r.forwarder = "none" THEN <<>> ELSE r.queue
      /\ s.queued = IF r.forwarder = "none" THEN 0 ELSE r.queued
  BY DEF Dropped, Rows
<1> HIDE DEF s
<1>2. CASE r.forwarder = "none"
  <2>1. r.held = None  BY <1>2 DEF Sound
  <2>2. Balanced(s)  BY <1>1, <1>2, <2>1, BalancedEmpty
  <2> QED  BY <2>2 DEF s
<1>3. CASE r.forwarder # "none"
  <2>1. Balanced(s)  BY <1>1, <1>3, BalancedSame
  <2> QED  BY <2>1 DEF s
<1> QED  BY <1>2, <1>3

LEMMA BalancedEnded ==
  ASSUME NEW r \in Rows
  PROVE  Balanced(Ended(r))
<1>1. Ended(r).queue = <<>> /\ Ended(r).queued = 0 /\ Ended(r).held = None
  BY DEF Ended, Rows
<1> QED  BY <1>1, BalancedEmpty

LEMMA BalancedFresh ==
  /\ \A t \in Terminals : Balanced(Fresh(t))
  /\ Balanced(Blank)
<1>1. \A t : Balanced(Fresh(t))
  <2>1. \A t : Fresh(t).queue = <<>> /\ Fresh(t).queued = 0 /\ Fresh(t).held = None
    BY DEF Fresh
  <2> QED  BY <2>1, BalancedEmpty
<1>2. Blank.queue = <<>> /\ Blank.queued = 0 /\ Blank.held = None  BY DEF Blank, Fresh
<1> QED  BY <1>1, <1>2, BalancedEmpty

(* One row changes, or the attached one is given up.                       *)
LEMMA CountRow ==
  ASSUME NEW h \in [Attachments -> Nat], Core(h), QueueAccounted, NEW a \in Attachments,
         NEW s, att' = [att EXCEPT ![a] = s], Balanced(s)
  PROVE  QueueAccounted'
<1>1. \A b \in Attachments : att'[b] = IF b = a THEN s ELSE att[b]  BY DEF Core, Types
<1> QED  BY <1>1 DEF QueueAccounted, Balanced

LEMMA CountDetached ==
  ASSUME NEW h \in [Attachments -> Nat], Core(h), QueueAccounted,
         NEW rest, rest \in {att, Detached(attached)}
  PROVE  \A b \in Attachments : Balanced(rest[b])
<1>1. CASE rest = att  BY <1>1 DEF QueueAccounted
<1>2. CASE rest # att
  <2>1. attached \in Attachments /\ rest = [att EXCEPT ![attached] = Dropped(att[attached])]
    BY <1>2 DEF Detached, Core, Types
  <2>2. att[attached] \in Rows /\ Sound(att[attached])
    BY <2>1, BornRow DEF Born, Unborn
  <2>3. Balanced(Dropped(att[attached]))  BY <2>1, <2>2, BalancedDropped DEF QueueAccounted
  <2>4. \A b \in Attachments :
          rest[b] = IF b = attached THEN Dropped(att[attached]) ELSE att[b]
    BY <2>1 DEF Core, Types
  <2> QED  BY <2>3, <2>4 DEF QueueAccounted
<1> QED  BY <1>1, <1>2

LEMMA CountDetach ==
  ASSUME NEW h \in [Attachments -> Nat], Core(h), QueueAccounted,
         att' \in {att, Detached(attached)}
  PROVE  QueueAccounted'
<1>1. \A b \in Attachments : Balanced(att'[b])  BY CountDetached
<1> QED  BY <1>1 DEF QueueAccounted, Balanced

LEMMA CountRead ==
  ASSUME NEW h \in [Attachments -> Nat], Core(h), QueueAccounted, NEW l \in Lines, ReadAll(l)
  PROVE  QueueAccounted'
<1>1. \A b \in Attachments : att[b] \in Rows /\ att'[b] = Read(att[b], l)
  BY DEF Core, Types, ReadAll
<1>2. \A b \in Attachments : Balanced(Read(att[b], l))  BY <1>1, BalancedRead DEF QueueAccounted
<1> QED  BY <1>1, <1>2 DEF QueueAccounted, Balanced

LEMMA CountUnchanged ==
  ASSUME QueueAccounted, att' = att
  PROVE  QueueAccounted'
BY DEF QueueAccounted, Balanced

LEMMA CountStep ==
  ASSUME NEW h \in [Attachments -> Nat], Core(h), QueueAccounted, Actions
  PROVE  QueueAccounted'
<1>1. ASSUME NEW t \in Terminals, Output(t) \/ WindowCloses(t) PROVE QueueAccounted'
  <2>1. CASE Output(t)
    <3>1. [pane |-> t, n |-> output'[t], size |-> Text[t][output'[t]]] \in Lines
      <4>1. output[t] \in Nat /\ output'[t] = output[t] + 1 /\ output'[t] <= Len(Text[t])
            /\ Text[t] \in Seq(Nat)
        <5>1. Text[t] \in Seq(Nat)  BY StreamAssumption
        <5>2. output \in [Terminals -> Nat]  BY DEF Core, Types
        <5>3. output[t] < Len(Text[t]) /\ output' = [output EXCEPT ![t] = @ + 1]
          BY <2>1 DEF Output
        <5>4. Len(Text[t]) \in Nat  BY <5>1
        <5>5. output[t] \in Nat /\ output'[t] = output[t] + 1  BY <5>2, <5>3
        <5> QED  BY <5>1, <5>3, <5>4, <5>5
      <4>2. output'[t] \in 1 .. Len(Text[t])  BY <4>1
      <4> QED  BY <4>1, <4>2 DEF Lines
    <3> QED  BY <2>1, <3>1, CountRead DEF Output
  <2>2. CASE WindowCloses(t)
    <3>1. [pane |-> t, n |-> 0, size |-> 1] \in Lines  BY DEF Lines
    <3> QED  BY <2>2, <3>1, CountRead DEF WindowCloses
  <2> QED  BY <1>1, <2>1, <2>2
<1>2. ASSUME NEW a \in Attachments,
             ClientLost(a) \/ Receive(a) \/ Forward(a) \/ ForwardEnds(a) \/ WatchdogWakes(a)
               \/ WatchdogThaws(a)
      PROVE  QueueAccounted'
  <2> DEFINE r == att[a]
  <2>1. r \in Rows /\ Balanced(r) /\ att \in [Attachments -> Rows]
    BY BornRow DEF QueueAccounted
  <2>2. CASE ClientLost(a)
    <3> DEFINE s == [r EXCEPT !.client = FALSE, !.off = FALSE, !.reader = "stopped"]
    <3>1. att' = [att EXCEPT ![a] = s]  BY <2>2 DEF ClientLost
    <3>2. s.queue = r.queue /\ s.queued = r.queued /\ s.held = r.held  BY <2>1 DEF Rows
    <3> HIDE DEF r, s
    <3> QED  BY <2>1, <3>1, <3>2, BalancedSame, CountRow
  <2>3. CASE Receive(a)
    <3>1. CASE r.detached
      <4>1. att' = [att EXCEPT ![a] = Ended(r)]  BY <2>3, <3>1 DEF Receive
      <4> QED  BY <2>1, <4>1, BalancedEnded, CountRow
    <3>2. CASE ~r.detached
      <4> DEFINE s == [r EXCEPT !.held = Head(r.queue), !.queue = Tail(r.queue)]
      <4>1. att' = [att EXCEPT ![a] = s]  BY <2>1, <2>3, <3>2 DEF Receive, Rows
      <4>2. s.queue = Tail(r.queue) /\ s.queued = r.queued /\ s.held = Head(r.queue)
        BY <2>1 DEF Rows
      <4>3. r.held = None /\ r.queue # <<>>  BY <2>3 DEF Receive
      <4> HIDE DEF r, s
      <4> QED  BY <2>1, <4>1, <4>2, <4>3, BalancedTaken, CountRow
    <3> QED  BY <3>1, <3>2
  <2>4. CASE Forward(a)
    <3>1. PICK s \in {Handled(r), [Handled(r) EXCEPT !.seq = @ + 1], Ended(r)} :
            r.held # None /\ att' = [att EXCEPT ![a] = s]
      BY <2>4 DEF Forward
    <3>2. CASE s = Ended(r)  BY <2>1, <3>1, <3>2, BalancedEnded, CountRow
    <3>3. CASE s # Ended(r)
      <4>1. s.queue = r.queue /\ s.queued = r.queued - r.held.size /\ s.held = None
        BY <2>1, <3>1, <3>3 DEF Handled, Rows
      <4> QED  BY <2>1, <3>1, <4>1, BalancedHandled, CountRow
    <3> QED  BY <3>2, <3>3
  <2>5. CASE ForwardEnds(a)
    <3>1. att' = [att EXCEPT ![a] = Ended(r)]  BY <2>5 DEF ForwardEnds
    <3> QED  BY <2>1, <3>1, BalancedEnded, CountRow
  <2>6. CASE WatchdogWakes(a)
    <3> DEFINE s == [r EXCEPT !.watchdog = IF r.started \/ r.detached THEN "done" ELSE "expire"]
    <3>1. att' = [att EXCEPT ![a] = s]  BY <2>6 DEF WatchdogWakes
    <3>2. s.queue = r.queue /\ s.queued = r.queued /\ s.held = r.held  BY <2>1 DEF Rows
    <3> HIDE DEF r, s
    <3> QED  BY <2>1, <3>1, <3>2, BalancedSame, CountRow
  <2>7. CASE WatchdogThaws(a)
    <3> DEFINE s == [r EXCEPT !.watchdog = "done", !.expired = TRUE, !.off = FALSE]
    <3>1. att' = [att EXCEPT ![a] = s]  BY <2>7 DEF WatchdogThaws
    <3>2. s.queue = r.queue /\ s.queued = r.queued /\ s.held = r.held  BY <2>1 DEF Rows
    <3> HIDE DEF r, s
    <3> QED  BY <2>1, <3>1, <3>2, BalancedSame, CountRow
  <2> QED  BY <1>2, <2>2, <2>3, <2>4, <2>5, <2>6, <2>7
<1>3. ASSUME NEW q \in calls,
             AttachBegins(q) \/ StartBegins(q) \/ Detach(q) \/ Send(q) \/ CloseKills(q)
      PROVE  QueueAccounted'
  <2>1. CASE AttachBegins(q)
    <3>1. PICK rest \in {att, Detached(attached)} :
            \/ q.of \in alive /\ att' = [rest EXCEPT ![nextId] = Fresh(q.of)]
            \/ att' = rest
      BY <2>1 DEF AttachBegins
    <3>2. rest \in [Attachments -> Rows] /\ \A b \in Attachments : Balanced(rest[b])
      BY DetachedRows, CountDetached
    <3>3. q.of \in alive => q.of \in Terminals  BY DEF Core, Types
    <3>4. ASSUME NEW b \in Attachments PROVE Balanced(att'[b])
      <4>1. \/ att'[b] = rest[b]
            \/ q.of \in Terminals /\ att'[b] = Fresh(q.of)
        BY <3>1, <3>2, <3>3
      <4> QED  BY <3>2, <4>1, BalancedFresh
    <3> QED  BY <3>4 DEF QueueAccounted, Balanced
  <2>2. CASE StartBegins(q)  BY <2>2, CountUnchanged DEF StartBegins
  <2>3. CASE Detach(q)
    <3>1. att' \in {att, Detached(attached)}  BY <2>3 DEF Detach
    <3> QED  BY <3>1, CountDetach
  <2>4. CASE Send(q)  BY <2>4, CountUnchanged DEF Send
  <2>5. CASE CloseKills(q)
    <3>1. CASE q.of \in alive
      <4>1. ReadAll([pane |-> q.of, n |-> 0, size |-> 1])  BY <2>5, <3>1 DEF CloseKills
      <4>2. [pane |-> q.of, n |-> 0, size |-> 1] \in Lines  BY <3>1 DEF Lines, Core, Types
      <4> QED  BY <4>1, <4>2, CountRead
    <3>2. CASE q.of \notin alive  BY <2>5, <3>2, CountUnchanged DEF CloseKills
    <3> QED  BY <3>1, <3>2
  <2> QED  BY <1>3, <2>1, <2>2, <2>3, <2>4, <2>5
<1>4. CASE AttachTurnsOff
  <2> DEFINE r == att[nextId]
             s == [r EXCEPT !.off = TRUE, !.queue = <<>>, !.queued = 0]
  <2>1. nextId \in Attachments  BY <1>4 DEF AttachTurnsOff, Core, Working
  <2>2. r \in Rows /\ Unborn(r)
    <3>1. ~ (nextId < nextId)  BY DEF Core, Types
    <3> QED  BY <2>1, <3>1, BornRow
  <2>3. att' = [att EXCEPT ![nextId] = s]  BY <1>4 DEF AttachTurnsOff
  <2>4. s.queue = <<>> /\ s.queued = 0 /\ s.held = None  BY <2>2 DEF Rows, Unborn
  <2> HIDE DEF r, s
  <2> QED  BY <2>1, <2>3, <2>4, BalancedEmpty, CountRow
<1>5. CASE AttachFails
  <2>1. nextId \in Attachments  BY <1>5 DEF AttachFails, Core, Working
  <2> QED  BY <1>5, <2>1, BalancedFresh, CountRow DEF AttachFails
<1>6. CASE AttachCaptures
  <2> DEFINE r == att[nextId]
             s == [r EXCEPT !.history = output[job.of], !.watchdog = "sleep"]
  <2>1. nextId \in Attachments  BY <1>6 DEF AttachCaptures, Core, Working
  <2>2. r \in Rows /\ Balanced(r)  BY <2>1, BornRow DEF QueueAccounted
  <2>3. att' = [att EXCEPT ![nextId] = s]  BY <1>6 DEF AttachCaptures
  <2>4. s.queue = r.queue /\ s.queued = r.queued /\ s.held = r.held  BY <2>2 DEF Rows
  <2> HIDE DEF r, s
  <2> QED  BY <2>1, <2>2, <2>3, <2>4, BalancedSame, CountRow
<1>7. CASE StartForwards \/ StartThaws
  <2> DEFINE r == att[job.of]
             s == [r EXCEPT !.started = TRUE, !.forwarder = "run", !.history = 0]
             u == [r EXCEPT !.off = FALSE]
  <2>1. job.of \in Attachments
    BY <1>7, NoRequest DEF StartForwards, StartThaws, Core, Working, Types, Requests
  <2>2. r \in Rows /\ Balanced(r)  BY <2>1, BornRow DEF QueueAccounted
  <2>3. att' = [att EXCEPT ![job.of] = s] \/ att' = [att EXCEPT ![job.of] = u]
    BY <1>7 DEF StartForwards, StartThaws
  <2>4. /\ s.queue = r.queue /\ s.queued = r.queued /\ s.held = r.held
        /\ u.queue = r.queue /\ u.queued = r.queued /\ u.held = r.held
    BY <2>2 DEF Rows
  <2> HIDE DEF r, s, u
  <2> QED  BY <2>1, <2>2, <2>3, <2>4, BalancedSame, CountRow
<1>8. CASE CloseRecords
  <2>1. att' \in {att, Detached(attached)}  BY <1>8 DEF CloseRecords
  <2> QED  BY <2>1, CountDetach
<1>9. ASSUME NEW t \in Terminals, SelectTerminal(t) \/ CloseTerminal(t) PROVE att' = att
  BY <1>9 DEF SelectTerminal, CloseTerminal
<1>10. CASE Leave \/ Type  BY <1>10, CountUnchanged DEF Leave, Type
<1>11. ASSUME NEW q, TimeOut(q) PROVE att' = att  BY <1>11 DEF TimeOut
<1>12. ASSUME NEW r, ReceiveAnswer(r) PROVE att' = att  BY <1>12 DEF ReceiveAnswer
<1>13. CASE ReceiveEvent  BY <1>13, CountUnchanged DEF ReceiveEvent
<1> QED
  BY <1>1, <1>2, <1>3, <1>4, <1>5, <1>6, <1>7, <1>8, <1>9, <1>10, <1>11, <1>12, <1>13,
     CountUnchanged DEF Actions

(* The bytes counted for a stream are those of the lines in its queue and  *)
(* in its forwarding thread's hand, and stay within the bounds             *)
(* (ControlLine, start_control_reader).                                    *)
THEOREM QueueCounted == Spec => []QueueAccounted
<1>1. Init => QueueAccounted
  <2>1. Init => \A a \in Attachments : att[a] = Blank  BY DEF Init
  <2> QED  BY <2>1, BalancedFresh DEF QueueAccounted, Balanced
<1>2. Inv /\ QueueAccounted /\ [Next]_vars => QueueAccounted'
  <2>1. ASSUME UNCHANGED vars PROVE att' = att  BY <2>1 DEF vars
  <2> QED  BY <2>1, NextIsActions, CountStep, CountUnchanged DEF Inv
<1> QED  BY <1>1, <1>2, StreamInvariance, PTL DEF Spec

(***************************************************************************)
(* The refinement.                                                         *)
(***************************************************************************)
Viewed == IF view = None THEN None ELSE att[view].term

LEMMA TermKept ==
  ASSUME NEW h \in [Attachments -> Nat], Core(h), Actions, NEW a \in Attachments, a < nextId
  PROVE  att'[a].term = att[a].term
<1> DEFINE Same == att'[a].term = att[a].term
<1>1. /\ att \in [Attachments -> Rows] /\ nextId \in Nat /\ \A b \in Attachments : att[b] \in Rows
      /\ attached = None \/ attached \in Attachments
  BY DEF Core, Types
<1>2. \A l : ReadAll(l) => Same
  <2>1. ASSUME NEW l PROVE Read(att[a], l).term = att[a].term  BY <1>1 DEF Read, Rows
  <2> QED  BY <2>1 DEF ReadAll
<1>3. \A rest \in {att, Detached(attached)} : rest[a].term = att[a].term /\ rest \in [Attachments -> Rows]
  BY <1>1, DetachedRows DEF Keeps
<1>4. ASSUME NEW t \in Terminals, Output(t) \/ WindowCloses(t) \/ SelectTerminal(t) \/ CloseTerminal(t)
      PROVE  Same
  BY <1>2, <1>4 DEF Output, WindowCloses, SelectTerminal, CloseTerminal
<1>5. ASSUME NEW b \in Attachments,
             ClientLost(b) \/ Receive(b) \/ Forward(b) \/ ForwardEnds(b) \/ WatchdogWakes(b) \/ WatchdogThaws(b)
      PROVE  Same
  <2>1. CASE b # a
    BY <1>1, <1>5, <2>1 DEF ClientLost, Receive, Forward, ForwardEnds, WatchdogWakes, WatchdogThaws
  <2>2. CASE b = a
    <3>1. CASE ClientLost(a)  BY <1>1, <3>1 DEF ClientLost, Rows
    <3>2. CASE Receive(a)  BY <1>1, <3>2 DEF Receive, Ended, Rows
    <3>3. CASE Forward(a)
      <4>1. /\ Handled(att[a]).term = att[a].term /\ Ended(att[a]).term = att[a].term
            /\ [Handled(att[a]) EXCEPT !.seq = @ + 1].term = att[a].term
        BY <1>1 DEF Handled, Ended, Rows
      <4>2. PICK s \in {Handled(att[a]), Ended(att[a]), [Handled(att[a]) EXCEPT !.seq = @ + 1]} :
              att' = [att EXCEPT ![a] = s]
        BY <3>3 DEF Forward
      <4> QED  BY <1>1, <4>1, <4>2
    <3>4. CASE ForwardEnds(a)  BY <1>1, <3>4 DEF ForwardEnds, Ended, Rows
    <3>5. CASE WatchdogWakes(a)  BY <1>1, <3>5 DEF WatchdogWakes, Rows
    <3>6. CASE WatchdogThaws(a)  BY <1>1, <3>6 DEF WatchdogThaws, Rows
    <3> QED  BY <1>5, <2>2, <3>1, <3>2, <3>3, <3>4, <3>5, <3>6
  <2> QED  BY <2>1, <2>2
<1>6. ASSUME NEW q \in calls, AttachBegins(q) PROVE Same
  <2>1. PICK rest \in {att, Detached(attached)} : att' = rest \/ att' = [rest EXCEPT ![nextId] = Fresh(q.of)]
    <3> DEFINE rest == IF attached' = None THEN Detached(attached) ELSE att
    <3>1. att' = rest \/ att' = [rest EXCEPT ![nextId] = Fresh(q.of)]  BY <1>6 DEF AttachBegins
    <3>2. rest \in {att, Detached(attached)}  OBVIOUS
    <3> HIDE DEF rest
    <3> QED  BY <3>1, <3>2
  <2>2. a # nextId  BY <1>1 DEF Attachments
  <2> QED  BY <2>1, <2>2, <1>3
<1>7. ASSUME NEW q \in calls, StartBegins(q) \/ Send(q) PROVE Same  BY <1>7 DEF StartBegins, Send
<1>8. ASSUME NEW q \in calls, Detach(q) PROVE Same
  <2>1. att' \in {att, Detached(attached)}  BY <1>8 DEF Detach
  <2> QED  BY <2>1, <1>3
<1>9. ASSUME NEW q \in calls, CloseKills(q) PROVE Same  BY <1>2, <1>9 DEF CloseKills
<1>10. CASE AttachTurnsOff \/ AttachFails \/ AttachCaptures
  <2>1. a # nextId  BY <1>1 DEF Attachments
  <2> QED  BY <1>1, <1>10, <2>1 DEF AttachTurnsOff, AttachFails, AttachCaptures
<1>11. CASE StartForwards \/ StartThaws
  <2>1. job.of \in Attachments  BY <1>11, NoRequest DEF StartForwards, StartThaws, Core, Working, Types, Requests
  <2>2. CASE StartForwards
    <3>1. att' = [att EXCEPT ![job.of] = [@ EXCEPT !.started = TRUE, !.forwarder = "run", !.history = 0]]
      BY <2>2, <2>1, <1>1 DEF StartForwards
    <3> QED  BY <1>1, <2>1, <3>1 DEF Rows
  <2>3. CASE StartThaws  BY <1>1, <2>1, <2>3 DEF StartThaws, Rows
  <2> QED  BY <1>11, <2>2, <2>3
<1>12. CASE CloseRecords
  <2>1. att' \in {att, Detached(attached)}  BY <1>12 DEF CloseRecords
  <2> QED  BY <2>1, <1>3
<1>13. CASE Leave \/ Type \/ (\E q \in waiting : TimeOut(q)) \/ (\E r \in answers : ReceiveAnswer(r)) \/ ReceiveEvent
  BY <1>13 DEF Leave, Type, TimeOut, ReceiveAnswer, ReceiveEvent
<1> HIDE DEF Same
<1>14. (\E t \in Terminals : Output(t) \/ WindowCloses(t) \/ SelectTerminal(t) \/ CloseTerminal(t)) => Same
  BY <1>4
<1>15. (\E b \in Attachments :
          ClientLost(b) \/ Receive(b) \/ Forward(b) \/ ForwardEnds(b) \/ WatchdogWakes(b) \/ WatchdogThaws(b))
       => Same
  BY <1>5
<1>16. (\E q \in calls : AttachBegins(q) \/ StartBegins(q) \/ Detach(q) \/ Send(q) \/ CloseKills(q)) => Same
  BY <1>6, <1>7, <1>8, <1>9
<1>17. CASE AttachTurnsOff \/ AttachFails \/ AttachCaptures \/ StartForwards \/ StartThaws \/ CloseRecords
  <2>1. Same  BY <1>17, <1>10, <1>11, <1>12 DEF Same
  <2> QED  BY <2>1 DEF Same
<1>18. Same  BY <1>13, <1>14, <1>15, <1>16, <1>17 DEF Actions, Same
<1> QED  BY <1>18 DEF Same

LEMMA ViewStep ==
  Inv /\ [Next]_vars => [View!Next]_<<output, Viewed, screen>>
<1> SUFFICES ASSUME Inv, Actions \/ UNCHANGED vars PROVE [View!Next]_<<output, Viewed, screen>>
  BY NextIsActions
<1>1. PICK h \in [Attachments -> Nat] : Core(h)  BY DEF Inv
<1>2. view = None \/ (view \in Attachments /\ view < nextId)  BY <1>1 DEF Core, Types
<1>3. UNCHANGED <<view, output, screen>> => UNCHANGED <<output, Viewed, screen>>
  BY <1>1, <1>2, TermKept DEF Viewed, vars
<1>4. view' = None /\ UNCHANGED <<output, screen>> => View!Next
  BY DEF View!Next, View!Lose
<1>5. ASSUME NEW t \in Terminals, Output(t) PROVE View!Next
  <2>1. output' = [output EXCEPT ![t] = @ + 1] /\ UNCHANGED <<view, screen>>  BY <1>5 DEF Output, panel
  <2>2. Actions  BY <1>5 DEF Actions
  <2>3. Viewed' = Viewed  BY <1>1, <1>2, <2>1, <2>2, TermKept DEF Viewed
  <2>4. View!Write(t)  BY <2>1, <2>3 DEF View!Write, Viewed
  <2> QED  BY <2>4 DEF View!Next
<1>6. ASSUME NEW t \in Terminals, WindowCloses(t) \/ SelectTerminal(t) \/ CloseTerminal(t)
      PROVE  UNCHANGED <<view, output, screen>>
  BY <1>6 DEF WindowCloses, SelectTerminal, CloseTerminal, tmux, panel
<1>7. ASSUME NEW a \in Attachments,
             ClientLost(a) \/ Receive(a) \/ Forward(a) \/ ForwardEnds(a) \/ WatchdogWakes(a) \/ WatchdogThaws(a)
      PROVE  UNCHANGED <<view, output, screen>>
  BY <1>7 DEF ClientLost, Receive, Forward, ForwardEnds, WatchdogWakes, WatchdogThaws, tmux, panel
<1>8. ASSUME NEW q \in calls, AttachBegins(q) \/ StartBegins(q) \/ Detach(q) \/ Send(q) \/ CloseKills(q)
      PROVE  UNCHANGED <<view, output, screen>>
  BY <1>8 DEF AttachBegins, StartBegins, Detach, Send, CloseKills, tmux, panel
<1>9. CASE AttachTurnsOff \/ AttachFails \/ AttachCaptures \/ StartForwards \/ StartThaws \/ CloseRecords
  <2>1. UNCHANGED <<view, output, screen>>
    BY <1>9 DEF AttachTurnsOff, AttachFails, AttachCaptures, StartForwards, StartThaws, CloseRecords, tmux, panel
  <2> QED  BY <1>3, <2>1
<1>10. CASE Type
  <2>1. UNCHANGED <<view, output, screen>>  BY <1>10 DEF Type, tmux, panel
  <2> QED  BY <1>3, <2>1
<1>11. CASE Leave
  <2>1. view' = None /\ UNCHANGED <<output, screen>>  BY <1>11 DEF Leave, tmux
  <2> QED  BY <1>4, <2>1
<1>12. ASSUME NEW q \in waiting, TimeOut(q)
       PROVE  UNCHANGED <<view, output, screen>> \/ (view' = None /\ UNCHANGED <<output, screen>>)
  BY <1>12 DEF TimeOut, Failed, tmux
<1>13. ASSUME NEW r \in answers, ReceiveAnswer(r)
       PROVE  \/ UNCHANGED <<view, output, screen>>
              \/ view' = None /\ UNCHANGED <<output, screen>>
              \/ View!Next
  <2>1. UNCHANGED <<output, att>>  BY <1>13 DEF ReceiveAnswer, tmux
  <2>2. CASE r.ok /\ Select(r.to)
    <3>1. view' = r.att /\ screen' = <<>> /\ r.att \in Attachments
      BY <1>1, <1>13, <2>2 DEF ReceiveAnswer, Core, Types, AnswersOK
    <3>2. att[r.att].term \in Terminals  BY <1>1, <3>1, BornRow
    <3>3. View!Open(att[r.att].term)  BY <2>1, <3>1, NoneView DEF View!Open
    <3> QED  BY <3>2, <3>3 DEF View!Next
  <2>3. CASE ~(r.ok /\ Select(r.to))
    BY <1>13, <2>1, <2>3 DEF ReceiveAnswer, Failed
  <2> QED  BY <2>2, <2>3
<1>14. CASE ReceiveEvent
  <2> DEFINE e == Head(wire)
  <2>1. UNCHANGED <<output, att>> /\ wire # <<>>  BY <1>14 DEF ReceiveEvent, tmux
  <2>2. \/ view' \in {view, None} /\ UNCHANGED screen
        \/ /\ ~Stale(e) /\ ~Gap(e) /\ e.kind # "end" /\ UNCHANGED view
           /\ screen' = (IF e.kind = "history" THEN [i \in 1 .. e.n |-> i] ELSE Append(screen, e.n))
    BY <1>14 DEF ReceiveEvent, panel
  <2> HIDE DEF e
  <2>3. CASE view' \in {view, None} /\ UNCHANGED screen  BY <1>3, <1>4, <2>1, <2>3
  <2>4. CASE /\ ~Stale(e) /\ ~Gap(e) /\ e.kind # "end" /\ UNCHANGED view
             /\ screen' = (IF e.kind = "history" THEN [i \in 1 .. e.n |-> i] ELSE Append(screen, e.n))
    <3>1. /\ view \in Attachments /\ e.n \in Nat /\ e.n <= output[att[view].term]
          /\ \/ e.kind = "history" /\ screen = <<>>
             \/ e.kind = "output" /\ e.n = Len(screen) + 1
      BY <1>1, <2>1, <2>4, ShownLine DEF e
    <3>2. /\ att[view].term \in Terminals /\ att[view].term # None /\ view # None
          /\ output[att[view].term] \in Nat /\ screen \in Seq(Nat)
      <4>1. att[view].term \in Terminals /\ output[att[view].term] \in Nat  BY <1>1, <3>1, BornRow
      <4> QED  BY <1>1, <3>1, <4>1, NoneView, StreamAssumption DEF Core, Types
    <3>3. CASE e.kind = "history" /\ screen = <<>>
      <4>1. screen' = [i \in 1 .. e.n |-> i] /\ e.n \in 0 .. output[att[view].term]
        BY <2>4, <3>1, <3>2, <3>3
      <4>2. View!Recover  BY <2>1, <2>4, <3>2, <3>3, <4>1 DEF View!Recover
      <4> QED  BY <4>2 DEF View!Next
    <3>4. CASE e.kind = "output" /\ e.n = Len(screen) + 1
      <4>1. screen' = Append(screen, Len(screen) + 1) /\ Len(screen) < output[att[view].term]
        <5>1. screen' = Append(screen, e.n)  BY <2>4, <3>4
        <5>2. Len(screen) \in Nat  BY <3>2
        <5> QED  BY <3>1, <3>2, <3>4, <5>1, <5>2
      <4>2. View!Show  BY <2>1, <2>4, <3>2, <4>1 DEF View!Show
      <4> QED  BY <4>2 DEF View!Next
    <3> QED  BY <3>1, <3>3, <3>4
  <2> QED  BY <2>2, <2>3, <2>4
<1>15. CASE UNCHANGED vars
  BY <1>15 DEF vars, tmux, panel, Viewed
<1>16. (\E t \in Terminals : Output(t) \/ WindowCloses(t) \/ SelectTerminal(t) \/ CloseTerminal(t))
       => [View!Next]_<<output, Viewed, screen>>
  BY <1>3, <1>5, <1>6
<1>17. (\E a \in Attachments :
          ClientLost(a) \/ Receive(a) \/ Forward(a) \/ ForwardEnds(a) \/ WatchdogWakes(a) \/ WatchdogThaws(a))
       => [View!Next]_<<output, Viewed, screen>>
  BY <1>3, <1>7
<1>18. (\E q \in calls : AttachBegins(q) \/ StartBegins(q) \/ Detach(q) \/ Send(q) \/ CloseKills(q))
       => [View!Next]_<<output, Viewed, screen>>
  BY <1>3, <1>8
<1>19. (\E q \in waiting : TimeOut(q)) => [View!Next]_<<output, Viewed, screen>>  BY <1>3, <1>4, <1>12
<1>20. (\E r \in answers : ReceiveAnswer(r)) => [View!Next]_<<output, Viewed, screen>>  BY <1>3, <1>4, <1>13
<1> QED  BY <1>9, <1>10, <1>11, <1>14, <1>15, <1>16, <1>17, <1>18, <1>19, <1>20 DEF Actions

(* The stream implements TerminalView: for any text, limits of the queue,  *)
(* overflow, lost client, late or refused request, what the viewport shows *)
(* of a terminal is its output without a gap, a repetition or a line of    *)
(* another terminal.                                                       *)
THEOREM StreamImplementsView == Spec => ViewSpec
<1>1. Init => View!Init  BY DEF Init, View!Init
<1>2. Inv /\ [Next]_vars => [View!Next]_<<output, IF view = None THEN None ELSE att[view].term, screen>>
  BY ViewStep DEF Viewed
<1> QED  BY <1>1, <1>2, StreamInvariance, PTL DEF Spec, ViewSpec, View!Spec

(* The numbers up to n, and one more.                                      *)
LEMMA OneMore ==
  ASSUME NEW q \in Seq(Nat), q = [i \in 1 .. Len(q) |-> i]
  PROVE  LET p == Append(q, Len(q) + 1)
         IN  Len(p) = Len(q) + 1 /\ p = [i \in 1 .. Len(q) + 1 |-> i]
<1> DEFINE n == Len(q)  p == Append(q, n + 1)
<1>1. n \in Nat /\ p \in Seq(Nat) /\ Len(p) = n + 1  OBVIOUS
<1>2. p[n + 1] = n + 1 /\ \A i \in 1 .. n : p[i] = q[i]  OBVIOUS
<1>3. \A i \in 1 .. n : q[i] = i  OBVIOUS
<1> HIDE DEF n, p
<1>4. \A i \in 1 .. n + 1 : p[i] = i
  <2>1. \A i \in 1 .. n + 1 : i = n + 1 \/ i \in 1 .. n  BY <1>1
  <2> QED  BY <1>2, <1>3, <2>1
<1>5. p = [i \in 1 .. Len(p) |-> p[i]]  BY <1>1
<1>6. p = [i \in 1 .. n + 1 |-> i]  BY <1>1, <1>4, <1>5
<1> QED  BY <1>1, <1>6 DEF n, p

(* What TerminalView promises, of any view.                                *)
LEMMA ViewGapless ==
  ASSUME NEW t \in Terminals \cup {None}, Viewed = t, output \in [Terminals -> Nat],
         screen \in Seq(Nat), View!Gapless, [View!Next]_<<output, Viewed, screen>>
  PROVE  View!Gapless'
<1>1. ASSUME NEW s \in Terminals, View!Write(s) PROVE View!Gapless'
  <2>1. output' = [output EXCEPT ![s] = @ + 1] /\ screen' = screen /\ Viewed' = Viewed
    BY <1>1, Zenon DEF View!Write, Viewed
  <2>2. ASSUME t # None PROVE Len(screen) <= output'[t]
    <3>1. t \in Terminals /\ output[t] \in Nat  BY <2>2
    <3>2. Len(screen) <= output[t]  BY <2>2, Zenon DEF View!Gapless, Viewed
    <3>3. output'[t] \in {output[t], output[t] + 1}  BY <2>1, <3>1
    <3>4. Len(screen) \in Nat  OBVIOUS
    <3> QED  BY <3>1, <3>2, <3>3, <3>4
  <2>3. screen = [i \in 1 .. Len(screen) |-> i]  BY Zenon DEF View!Gapless
  <2> QED  BY <2>1, <2>2, <2>3, Zenon DEF View!Gapless, Viewed
<1>2. ASSUME NEW s \in Terminals, View!Open(s) PROVE View!Gapless'
  BY <1>2 DEF View!Open, View!Gapless, Viewed
<1>3. CASE View!Recover
  BY <1>3 DEF View!Recover, View!Gapless, Viewed
<1>4. CASE View!Show
  <2>1. /\ Viewed # None /\ Len(screen) < output[Viewed] /\ screen' = Append(screen, Len(screen) + 1)
        /\ output' = output /\ Viewed' = Viewed
    BY <1>4 DEF View!Show, Viewed
  <2>2. t \in Terminals /\ output[t] \in Nat /\ Len(screen) + 1 <= output[t]
    <3>1. t \in Terminals /\ output[t] \in Nat  BY <2>1
    <3> QED  BY <2>1, <3>1
  <2>3. screen = [i \in 1 .. Len(screen) |-> i]  BY Zenon DEF View!Gapless
  <2>4. /\ Len(screen') = Len(screen) + 1
        /\ screen' = [i \in 1 .. Len(screen) + 1 |-> i]
    BY <2>1, <2>3, OneMore, Zenon
  <2>5. Len(screen') <= output'[Viewed']  BY <2>1, <2>2, <2>4
  <2> QED  BY <2>4, <2>5, Zenon DEF View!Gapless, Viewed
<1>5. CASE View!Lose
  BY <1>5 DEF View!Lose, View!Gapless, Viewed
<1>6. CASE UNCHANGED <<output, Viewed, screen>>
  BY <1>6 DEF View!Gapless, Viewed
<1> QED  BY <1>1, <1>2, <1>3, <1>4, <1>5, <1>6 DEF View!Next

(* The text on the screen is the beginning of the output of the terminal   *)
(* that is viewed: every line once, in order, none that was not written.   *)
THEOREM ScreenGapless == Spec => []View!Gapless
<1>1. Init => View!Gapless  BY DEF Init, View!Gapless
<1>2. Inv /\ View!Gapless /\ [Next]_vars => View!Gapless'
  <2>1. Inv => /\ Viewed \in Terminals \cup {None} /\ output \in [Terminals -> Nat]
               /\ screen \in Seq(Nat)
    <3> SUFFICES ASSUME Inv
                 PROVE  /\ Viewed \in Terminals \cup {None}
                        /\ output \in [Terminals -> Nat] /\ screen \in Seq(Nat)
      OBVIOUS
    <3>1. PICK h \in [Attachments -> Nat] : Core(h)  BY DEF Inv
    <3>2. view # None => att[view].term \in Terminals  BY <3>1, BornRow DEF Core, Types
    <3> QED  BY <3>1, <3>2 DEF Core, Types, Viewed
  <2> QED  BY <2>1, ViewStep, ViewGapless
<1> QED  BY <1>1, <1>2, StreamInvariance, PTL DEF Spec
=============================================================================
