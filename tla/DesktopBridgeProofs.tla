------------------------ MODULE DesktopBridgeProofs ------------------------
(***************************************************************************)
(* Proofs about DesktopBridge, for any calls, registry size and number of  *)
(* gateway processes.                                                      *)
(***************************************************************************)
EXTENDS DesktopBridge, FiniteSetTheorems, TLAPS

LEMMA RangeAppend ==
  ASSUME NEW S, NEW s \in Seq(S), NEW e \in S
  PROVE  Append(s, e) \in Seq(S) /\ Range(Append(s, e)) = Range(s) \cup {e}
<1> DEFINE t == Append(s, e)
<1>1. t \in Seq(S) /\ Len(t) = Len(s) + 1  OBVIOUS
<1>2. \A i \in 1 .. Len(s) : t[i] = s[i]  OBVIOUS
<1>3. t[Len(s) + 1] = e  OBVIOUS
<1>4. DOMAIN t = 1 .. Len(s) + 1 /\ DOMAIN s = 1 .. Len(s)  OBVIOUS
<1>5. \A i \in DOMAIN t : i \in DOMAIN s \/ i = Len(s) + 1  BY <1>4
<1>6. DOMAIN s \subseteq DOMAIN t /\ Len(s) + 1 \in DOMAIN t  BY <1>4
<1> HIDE DEF t
<1>7. Range(t) \subseteq Range(s) \cup {e}  BY <1>2, <1>3, <1>4, <1>5 DEF Range
<1>8. Range(s) \cup {e} \subseteq Range(t)  BY <1>2, <1>3, <1>4, <1>6 DEF Range
<1> QED  BY <1>1, <1>7, <1>8 DEF t

LEMMA RangeHead ==
  ASSUME NEW S, NEW s \in Seq(S), s # <<>>
  PROVE  /\ Head(s) \in S /\ Tail(s) \in Seq(S)
         /\ Range(s) = {Head(s)} \cup Range(Tail(s))
<1>1. Head(s) \in S /\ Tail(s) \in Seq(S) /\ Len(s) > 0  OBVIOUS
<1>2. ASSUME NEW i \in 1 .. Len(s) PROVE s[i] \in {Head(s)} \cup Range(Tail(s))
  <2>1. CASE i = 1  BY <2>1
  <2>2. CASE i # 1
    <3>1. i - 1 \in 1 .. Len(Tail(s)) /\ Tail(s)[i - 1] = s[i]  BY <1>2, <2>2
    <3> QED  BY <3>1 DEF Range
  <2> QED  BY <2>1, <2>2
<1>3. ASSUME NEW i \in 1 .. Len(Tail(s)) PROVE Tail(s)[i] \in Range(s)
  <2>1. i + 1 \in 1 .. Len(s) /\ Tail(s)[i] = s[i + 1]  BY <1>3
  <2> QED  BY <2>1 DEF Range
<1>4. Head(s) \in Range(s)  BY <1>1 DEF Range
<1> QED  BY <1>1, <1>2, <1>3, <1>4 DEF Range

LEMMA RangeEmpty == Range(<<>>) = {}
BY DEF Range

(* What is in the pipes has an id.                                         *)
LEMMA MessageIds ==
  ASSUME TypeOK, NEW b \in Bridges, NEW m \in Boxes(b)
  PROVE  m.id \in Nat
<1>1. inbox[b] \in Seq(Messages) /\ outbox[b] \in Seq(Answers)  BY DEF TypeOK
<1>2. DOMAIN inbox[b] = 1 .. Len(inbox[b]) /\ DOMAIN outbox[b] = 1 .. Len(outbox[b])  BY <1>1
<1>3. \A i \in DOMAIN inbox[b] : inbox[b][i] \in Messages  BY <1>1, <1>2
<1>4. \A i \in DOMAIN outbox[b] : outbox[b][i] \in Answers  BY <1>1, <1>2
<1>5. m \in Messages \/ m \in Answers  BY <1>3, <1>4 DEF Boxes, Range
<1> QED  BY <1>5 DEF Messages, Answers

LEMMA InitInv == Init => BridgeInv
<1> SUFFICES ASSUME Init PROVE BridgeInv  OBVIOUS
<1>1. TypeOK  BY CallsAssumption DEF Init, TypeOK, Labels
<1>2. MutexOwner  BY CallsAssumption DEF Init, MutexOwner, Outsider
<1>3. ProcessOwned  BY DEF Init, ProcessOwned
<1>4. \A b \in Bridges : Range(inbox[b]) = {} /\ Range(outbox[b]) = {}  BY RangeEmpty DEF Init
<1>5. IdsOwned  BY <1>4 DEF Init, IdsOwned, IdsFresh, IdOwned, NoReply, Boxes
<1>6. Accepted  BY <1>4 DEF Init, Accepted
<1>7. OwnAnswer /\ HandshakeFirst  BY <1>4 DEF Init, OwnAnswer, HandshakeFirst
<1>8. RegistryAccounted  BY FS_EmptySet, CallsAssumption DEF Init, RegistryAccounted
<1>9. RegistryFinite /\ Unused  BY FS_EmptySet DEF Init, RegistryFinite, Unused
<1> QED  BY <1>1, <1>2, <1>3, <1>5, <1>6, <1>7, <1>8, <1>9 DEF BridgeInv

LEMMA OwnerHasBridge ==
  ASSUME TypeOK, MutexOwner, NEW c \in Calls, mutex = c, pc[c] \in {"insert", "write", "await"}
  PROVE  on[c] \in Bridges
BY DEF TypeOK, MutexOwner, Owner

(* The gateway's part and the call's part of a return.                     *)
LEMMA AbandonType ==
  ASSUME TypeOK, NEW c \in Calls, on[c] \in Bridges, Abandon(c)
  PROVE  /\ process' \in [Bridges -> {"running", "gone"}]
         /\ inbox' \in [Bridges -> Seq(Messages)]
         /\ outbox' \in [Bridges -> Seq(Answers)]
         /\ handshaken' \in [Bridges -> BOOLEAN]
<1>1. <<>> \in Seq(Messages)  OBVIOUS
<1> QED  BY <1>1 DEF TypeOK, Abandon, Killed, gateways

LEMMA ReturnType ==
  ASSUME TypeOK, NEW c \in Calls, Return(c)
  PROVE  /\ mutex' \in Calls \cup {None}
         /\ pc' \in [Calls -> Labels]
         /\ kind' \in [Calls -> {"handshake", "request"}]
         /\ on' \in [Calls -> Bridges \cup {None}]
         /\ id' \in [Calls -> Nat]
         /\ reply' \in [Calls -> Answers \cup {None}]
BY DEF TypeOK, Return, Labels

(* Every variable keeps its type.                                          *)
LEMMA StepType ==
  ASSUME TypeOK, MutexOwner, Next PROVE TypeOK'
<1> USE DEF TypeOK, Labels, callers, bridges, gateways, Move
<1>1. ASSUME NEW c \in Calls, Call(c) PROVE TypeOK'
  <2>1. CASE Lock(c)  BY <2>1 DEF Lock
  <2>2. CASE Check(c)
    <3>1. <<>> \in Seq(Messages)  OBVIOUS
    <3>2. CASE current = None
      <4>1. pc' = [pc EXCEPT ![c] = "start"]  BY <2>2, <3>2 DEF Check
      <4>2. UNCHANGED <<current, started, mutex, kind, on, id, reply, bridges, gateways>>
        BY <2>2, <3>2 DEF Check
      <4> QED  BY <4>1, <4>2
    <3>3. CASE current # None /\ Alive(current)  BY <2>2, <3>3, ZenonT(40) DEF Check
    <3>4. CASE current # None /\ ~Alive(current)
      <4>1. Move(c, "check", "start") /\ current' = None /\ Killed(current)
            /\ UNCHANGED <<started, mutex, kind, on, id, reply, bridges>>
        BY <2>2, <3>4 DEF Check
      <4>2. inbox' \in [Bridges -> Seq(Messages)]  BY <3>1, <4>1 DEF Killed
      <4> QED  BY <4>1, <4>2 DEF Killed
    <3> QED  BY <3>2, <3>3, <3>4
  <2>3. CASE StartFails(c)  BY <2>3 DEF StartFails, Return
  <2>4. CASE Start(c)
    <3>1. started + 1 \in Bridges /\ started + 1 \in 0 .. MaxBridges  BY <2>4, CallsAssumption DEF Start, Bridges
    <3> QED  BY <2>4, <3>1 DEF Start
  <2>5. CASE Insert(c)
    <3>1. on[c] \in Bridges  BY <2>5, OwnerHasBridge DEF Insert
    <3> QED  BY <2>5, <3>1 DEF Insert
  <2>6. CASE InsertRefused(c)
    <3>1. on[c] \in Bridges  BY <2>6, OwnerHasBridge DEF InsertRefused
    <3> QED  BY <2>6, <3>1, AbandonType, ReturnType, SMTT(40) DEF InsertRefused
  <2>7. CASE Write(c)
    <3> DEFINE m == [id |-> id[c], call |-> c, kind |-> kind[c]]
    <3>1. on[c] \in Bridges  BY <2>7, OwnerHasBridge DEF Write
    <3>2. m \in Messages  BY DEF Messages
    <3>3. Append(inbox[on[c]], m) \in Seq(Messages)  BY <3>1, <3>2
    <3> HIDE DEF m
    <3>4. inbox' \in [Bridges -> Seq(Messages)]  BY <2>7, <3>1, <3>3 DEF Write, m
    <3> QED  BY <2>7, <3>4 DEF Write
  <2>8. CASE WriteFails(c)
    <3>1. on[c] \in Bridges  BY <2>8, OwnerHasBridge DEF WriteFails
    <3> QED  BY <2>8, <3>1, AbandonType, ReturnType DEF WriteFails
  <2>9. CASE Receive(c)
    <3>1. on[c] \in Bridges  BY <2>9, OwnerHasBridge DEF Receive
    <3>2. CASE kind[c] = "handshake" /\ reply[c].result = "ok"  BY <2>9, <3>1, <3>2 DEF Receive
    <3>3. CASE ~(kind[c] = "handshake" /\ reply[c].result = "ok")
      BY <2>9, <3>1, <3>3, AbandonType, ReturnType DEF Receive
    <3> QED  BY <3>2, <3>3
  <2>10. CASE TimeOut(c)
    <3>1. on[c] \in Bridges  BY <2>10, OwnerHasBridge DEF TimeOut
    <3> QED  BY <2>10, <3>1, AbandonType, ReturnType DEF TimeOut
  <2> QED  BY <1>1, <2>1, <2>2, <2>3, <2>4, <2>5, <2>6, <2>7, <2>8, <2>9, <2>10 DEF Call
<1>2. ASSUME NEW b \in Bridges, Serve(b) PROVE TypeOK'
  <2> DEFINE m == Head(inbox[b])
  <2>1. m \in Messages /\ Tail(inbox[b]) \in Seq(Messages)  BY <1>2, RangeHead DEF Serve
  <2>2. PICK r \in Results : /\ outbox' = [outbox EXCEPT ![b] = Append(@, [id |-> m.id, call |-> m.call, kind |-> m.kind, result |-> r])]
                             /\ handshaken' = [handshaken EXCEPT ![b] = @ \/ (m.kind = "handshake" /\ r = "ok")]
    BY <1>2 DEF Serve, Results
  <2>3. [id |-> m.id, call |-> m.call, kind |-> m.kind, result |-> r] \in Answers  BY <2>1 DEF Messages, Answers
  <2>4. outbox' \in [Bridges -> Seq(Answers)]  BY <2>2, <2>3
  <2>5. handshaken' \in [Bridges -> BOOLEAN]  BY <2>2
  <2> HIDE DEF m
  <2> QED  BY <1>2, <2>1, <2>4, <2>5 DEF Serve, m
<1>3. ASSUME NEW b \in Bridges, GatewayDies(b) PROVE TypeOK'  BY <1>3 DEF GatewayDies, Killed
<1>4. ASSUME NEW b \in Bridges, Forward(b) PROVE TypeOK'
  <2>1. Head(outbox[b]) \in Answers /\ Tail(outbox[b]) \in Seq(Answers)  BY <1>4, RangeHead DEF Forward
  <2>2. reply' \in [Calls -> Answers \cup {None}]  BY <1>4, <2>1 DEF Forward, Deliver
  <2> QED  BY <1>4, <2>1, <2>2 DEF Forward
<1>5. ASSUME NEW b \in Bridges, Eof(b) PROVE TypeOK'  BY <1>5 DEF Eof
<1>6. ASSUME NEW b \in Bridges, Drain(b) PROVE TypeOK'
  <2>1. \A c \in Calls :
          [id |-> id[c], call |-> c, kind |-> kind[c], result |-> "unavailable"] \in Answers
    BY DEF Answers, Results
  <2>2. reply' \in [Calls -> Answers \cup {None}]  BY <1>6, <2>1 DEF Drain, Waits
  <2> QED  BY <1>6, <2>2 DEF Drain
<1> QED  BY <1>1, <1>2, <1>3, <1>4, <1>5, <1>6 DEF Next, Thread

(* One call at a time has the bridge.                                      *)
LEMMA StepMutex ==
  ASSUME TypeOK, MutexOwner, Next PROVE MutexOwner'
<1> USE CallsAssumption DEF MutexOwner, callers, Move
<1>1. ASSUME NEW c \in Calls, Call(c) PROVE MutexOwner'
  <2> DEFINE Mine == mutex' = c => Owner(c)'
             Given == mutex' # c => Outsider(c)'
  <2>0. ASSUME mutex \in {None, c}, mutex' \in {None, c}, Mine, Given,
               \A d \in Calls \ {c} : /\ pc'[d] = pc[d] /\ kind'[d] = kind[d]
                                       /\ on'[d] = on[d] /\ reply'[d] = reply[d]
        PROVE  MutexOwner'
    <3> SUFFICES ASSUME NEW d \in Calls PROVE (IF mutex = d THEN Owner(d) ELSE Outsider(d))'  OBVIOUS
    <3>1. CASE d = c  BY <2>0, <3>1
    <3>2. CASE d # c  BY <2>0, <3>2 DEF Outsider
    <3> QED  BY <3>1, <3>2
  <2> USE DEF Owner, Outsider, TypeOK
  <2>1. CASE Lock(c)
    <3>1. Mine /\ Given  BY <2>1 DEF Lock
    <3> QED  BY <2>0, <2>1, <3>1 DEF Lock
  <2>2. CASE Check(c)
    <3>1. Mine /\ Given  BY <2>2 DEF Check, Alive, Bridges
    <3> QED  BY <2>0, <2>2, <3>1 DEF Check
  <2>3. CASE StartFails(c)
    <3>1. Mine /\ Given  BY <2>3 DEF StartFails, Return
    <3> QED  BY <2>0, <2>3, <3>1 DEF StartFails, Return
  <2>4. CASE Start(c)
    <3>1. Mine /\ Given  BY <2>4 DEF Start
    <3> QED  BY <2>0, <2>4, <3>1 DEF Start
  <2>5. CASE Insert(c)
    <3>1. Mine /\ Given  BY <2>5 DEF Insert
    <3> QED  BY <2>0, <2>5, <3>1 DEF Insert
  <2>6. CASE InsertRefused(c)
    <3>1. Mine /\ Given  BY <2>6 DEF InsertRefused, Return
    <3> QED  BY <2>0, <2>6, <3>1 DEF InsertRefused, Return
  <2>7. CASE Write(c)
    <3>1. Mine /\ Given  BY <2>7 DEF Write
    <3> QED  BY <2>0, <2>7, <3>1 DEF Write
  <2>8. CASE WriteFails(c)
    <3>1. Mine /\ Given  BY <2>8 DEF WriteFails, Return
    <3> QED  BY <2>0, <2>8, <3>1 DEF WriteFails, Return
  <2>9. CASE Receive(c)
    <3>1. Mine /\ Given  BY <2>9 DEF Receive, Return
    <3> QED  BY <2>0, <2>9, <3>1 DEF Receive, Return
  <2>10. CASE TimeOut(c)
    <3>1. Mine /\ Given  BY <2>10 DEF TimeOut, Return
    <3> QED  BY <2>0, <2>10, <3>1 DEF TimeOut, Return
  <2> QED  BY <1>1, <2>1, <2>2, <2>3, <2>4, <2>5, <2>6, <2>7, <2>8, <2>9, <2>10 DEF Call
<1>2. ASSUME UNCHANGED <<mutex, pc, kind, on, current>>,
             \A d \in Calls : pc[d] # "await" => reply'[d] = reply[d]
      PROVE  MutexOwner'
  BY <1>2 DEF Owner, Outsider
<1>3. ASSUME NEW b \in Bridges, Thread(b) \/ Serve(b) \/ GatewayDies(b) PROVE MutexOwner'
  <2>1. UNCHANGED <<mutex, pc, kind, on, current>>
    BY <1>3 DEF Thread, Serve, GatewayDies, Forward, Eof, Drain
  <2>2. \A d \in Calls : pc[d] # "await" => reply'[d] = reply[d]
    BY <1>3 DEF Thread, Serve, GatewayDies, Forward, Deliver, Eof, Drain, Waits, TypeOK
  <2> QED  BY <1>2, <2>1, <2>2
<1> QED  BY <1>1, <1>3 DEF Next

(* A call that gives a bridge up without storing it takes its process.     *)
LEMMA ReturnProcess ==
  ASSUME TypeOK, MutexOwner, ProcessOwned, NEW c \in Calls, mutex = c, on[c] \in Bridges,
         Return(c), Abandon(c), UNCHANGED <<current, started>>
  PROVE  ProcessOwned'
<1> USE DEF TypeOK
<1>1. \A b \in Bridges : process'[b] = "running" => process[b] = "running" /\ inbox'[b] = inbox[b]
  BY DEF Abandon, Killed, gateways
<1>2. \A b \in Bridges : process'[b] = "running" => ~(kind[c] = "handshake" /\ on[c] = b)
  BY DEF Abandon, Killed, gateways
<1>3. \A b \in Bridges : inbox'[b] \in {inbox[b], <<>>} /\ outbox'[b] = outbox[b] /\ process'[b] \in {process[b], "gone"}
  BY DEF Abandon, Killed, gateways
<1>4. \A b \in Bridges : process'[b] = "gone" => inbox'[b] = <<>>
  BY DEF Abandon, Killed, gateways, ProcessOwned
<1>5. \A b \in Bridges : b > started => process'[b] = "gone" /\ inbox'[b] = <<>> /\ outbox'[b] = <<>>
  BY <1>3 DEF ProcessOwned
<1>6. \A b \in Bridges : process'[b] = "running" => b = current
  BY <1>1, <1>2 DEF ProcessOwned
<1> HIDE DEF TypeOK
<1> QED  BY <1>4, <1>5, <1>6 DEF ProcessOwned

(* A process is started by the owner of the mutex, and stored or killed.   *)
LEMMA StepProcess ==
  ASSUME TypeOK, MutexOwner, ProcessOwned, Next PROVE ProcessOwned'
<1> USE CallsAssumption DEF callers, bridges, gateways, Move
<1>0. ASSUME UNCHANGED <<mutex, kind, on, current, started>>,
             \A b \in Bridges : /\ process'[b] = process[b] \/ (process'[b] = "gone" /\ inbox'[b] = <<>>)
                                /\ inbox'[b] # <<>> => inbox[b] # <<>>
                                /\ outbox'[b] # <<>> => outbox[b] # <<>> \/ inbox[b] # <<>>
      PROVE  ProcessOwned'
  BY <1>0 DEF ProcessOwned, TypeOK
<1>1. ASSUME NEW c \in Calls, Call(c) PROVE ProcessOwned'
  <2>1. CASE Lock(c)
    <3>1. kind[c] = "request"  BY <2>1 DEF Lock, MutexOwner, Outsider
    <3> QED  BY <2>1, <3>1 DEF Lock, ProcessOwned
  <2>2. CASE Check(c)
    <3>1. kind[c] = "request" \/ on[c] # None  BY <2>2 DEF Check, MutexOwner, Owner, TypeOK
    <3>2. on[c] = None  BY <2>2 DEF Check, MutexOwner, Owner
    <3>3. kind' = kind /\ mutex' = mutex /\ mutex = c /\ kind[c] = "request"  BY <2>2, <3>1, <3>2 DEF Check
    <3>4. CASE current' = current /\ UNCHANGED <<started, gateways>>
      BY <3>3, <3>4 DEF ProcessOwned
    <3>5. CASE current # None /\ Killed(current) /\ started' = started /\ current' = None
      BY <3>3, <3>5 DEF ProcessOwned, Killed, TypeOK
    <3> QED  BY <2>2, <3>4, <3>5 DEF Check
  <2>3. CASE StartFails(c)
    <3>1. kind[c] = "request"  BY <2>3 DEF StartFails, MutexOwner, Owner, TypeOK
    <3> QED  BY <2>3, <3>1 DEF StartFails, Return, ProcessOwned
  <2>4. CASE Start(c)
    <3>1. current = None /\ kind[c] = "request"  BY <2>4 DEF Start, MutexOwner, Owner, TypeOK
    <3>2. \A b \in Bridges : process[b] = "gone"  BY <2>4, <3>1 DEF Start, ProcessOwned, TypeOK, Bridges
    <3>3. kind'[c] = "handshake" /\ on'[c] = started + 1 /\ mutex' = c  BY <2>4 DEF Start, TypeOK
    <3>4. \A b \in Bridges : process'[b] = "running" => b = started + 1  BY <2>4, <3>2 DEF Start, TypeOK
    <3>5. \A b \in Bridges : process'[b] = "gone" => process[b] = "gone"  BY <3>2
    <3>6. UNCHANGED <<inbox, outbox>> /\ started' = started + 1  BY <2>4 DEF Start
    <3>7. started \in Nat  BY DEF TypeOK
    <3>8. \A b \in Bridges : b > started' => b > started  BY <3>6, <3>7 DEF Bridges
    <3>9. \A b \in Bridges : b > started' => process'[b] = "gone"  BY <2>4, <3>2, <3>6, <3>7 DEF Start, TypeOK, Bridges
    <3> QED  BY <3>3, <3>4, <3>5, <3>6, <3>8, <3>9 DEF ProcessOwned
  <2>5. CASE Insert(c)  BY <2>5 DEF Insert, ProcessOwned
  <2>6. CASE InsertRefused(c)  BY <2>6, OwnerHasBridge, ReturnProcess DEF InsertRefused
  <2>7. CASE Write(c)
    <3>1. on[c] \in Bridges  BY <2>7, OwnerHasBridge DEF Write
    <3>2. \A b \in Bridges : inbox'[b] = inbox[b] \/ process[b] = "running"  BY <2>7, <3>1 DEF Write, TypeOK
    <3> QED  BY <2>7, <3>2 DEF Write, ProcessOwned
  <2>8. CASE WriteFails(c)  BY <2>8, OwnerHasBridge, ReturnProcess DEF WriteFails
  <2>9. CASE Receive(c)
    <3>1. on[c] \in Bridges  BY <2>9, OwnerHasBridge DEF Receive
    <3>2. CASE kind[c] = "handshake" /\ reply[c].result = "ok"
      <4>1. current = None  BY <2>9, <3>2 DEF Receive, MutexOwner, Owner
      <4>2. current' = on[c] /\ UNCHANGED <<mutex, on, started, gateways>>  BY <2>9, <3>2 DEF Receive
      <4>3. \A b \in Bridges : process[b] = "running" => b = on[c]
        BY <2>9, <4>1 DEF Receive, ProcessOwned, Bridges
      <4> QED  BY <4>2, <4>3 DEF ProcessOwned
    <3>3. CASE ~(kind[c] = "handshake" /\ reply[c].result = "ok")
      BY <2>9, <3>1, <3>3, ReturnProcess DEF Receive
    <3> QED  BY <3>2, <3>3
  <2>10. CASE TimeOut(c)  BY <2>10, OwnerHasBridge, ReturnProcess DEF TimeOut
  <2> QED  BY <1>1, <2>1, <2>2, <2>3, <2>4, <2>5, <2>6, <2>7, <2>8, <2>9, <2>10 DEF Call
<1>2. ASSUME NEW b \in Bridges, Thread(b) \/ Serve(b) \/ GatewayDies(b) PROVE ProcessOwned'
  <2>1. CASE GatewayDies(b)  BY <1>0, <2>1 DEF GatewayDies, Killed, TypeOK
  <2>2. CASE Serve(b)
    <3>1. inbox[b] # <<>>  BY <2>2 DEF Serve
    <3>2. \A d \in Bridges : d # b => inbox'[d] = inbox[d] /\ outbox'[d] = outbox[d]  BY <2>2 DEF Serve, TypeOK
    <3> QED  BY <1>0, <2>2, <3>1, <3>2 DEF Serve
  <2>3. CASE Forward(b)
    <3>1. outbox[b] # <<>>  BY <2>3 DEF Forward
    <3>2. \A d \in Bridges : d # b => outbox'[d] = outbox[d]  BY <2>3 DEF Forward, TypeOK
    <3> QED  BY <1>0, <2>3, <3>1, <3>2 DEF Forward
  <2>4. CASE Eof(b)  BY <1>0, <2>4 DEF Eof
  <2>5. CASE Drain(b)  BY <1>0, <2>5 DEF Drain
  <2> QED  BY <1>2, <2>1, <2>2, <2>3, <2>4, <2>5 DEF Thread
<1> QED  BY <1>1, <1>2 DEF Next

(* At most one process: the stored bridge's, or the one being tried.       *)
LEMMA OneProcess == TypeOK /\ MutexOwner /\ ProcessOwned => OneGateway
<1> SUFFICES ASSUME TypeOK, MutexOwner, ProcessOwned, NEW b \in Bridges, process[b] = "running"
             PROVE  b = IF current # None THEN current ELSE on[mutex]
  BY DEF OneGateway
<1>1. CASE b = current  BY <1>1, CallsAssumption DEF Bridges
<1>2. CASE mutex # None /\ kind[mutex] = "handshake" /\ on[mutex] = b
  <2>1. mutex \in Calls  BY <1>2 DEF TypeOK
  <2>2. current = None  BY <1>2, <2>1 DEF MutexOwner, Owner
  <2> QED  BY <1>2, <2>2
<1> QED  BY <1>1, <1>2 DEF ProcessOwned

(***************************************************************************)
(* What each step does to the pipes.                                       *)
(***************************************************************************)
Shrinks == \A b \in Bridges :
  /\ Range(inbox'[b]) \subseteq Range(inbox[b]) /\ Range(outbox'[b]) \subseteq Range(outbox[b])
  /\ nextId'[b] >= nextId[b] /\ (handshaken[b] => handshaken'[b])
Quiet == UNCHANGED <<inbox, outbox>>

LEMMA WriteBox ==
  ASSUME TypeOK, MutexOwner, NEW c \in Calls, Write(c), NEW b \in Bridges
  PROVE  /\ Range(inbox'[b]) \subseteq Range(inbox[b])
              \cup (IF b = on[c] THEN {[id |-> id[c], call |-> c, kind |-> kind[c]]} ELSE {})
         /\ Range(inbox[b]) \subseteq Range(inbox'[b])
         /\ b = on[c] /\ process[b] = "running" =>
              [id |-> id[c], call |-> c, kind |-> kind[c]] \in Range(inbox'[b])
         /\ outbox' = outbox /\ nextId' = nextId /\ handshaken' = handshaken
<1> DEFINE m == [id |-> id[c], call |-> c, kind |-> kind[c]]
<1>1. m \in Messages /\ inbox[b] \in Seq(Messages)  BY DEF TypeOK, Messages
<1>2. Range(Append(inbox[b], m)) = Range(inbox[b]) \cup {m}  BY <1>1, RangeAppend
<1>3. on[c] \in Bridges  BY OwnerHasBridge DEF Write, Move
<1> HIDE DEF m
<1>4. inbox'[b] = inbox[b] \/ (b = on[c] /\ inbox'[b] = Append(inbox[b], m))
  BY <1>3 DEF Write, TypeOK, m
<1>5. b = on[c] /\ process[b] = "running" => inbox'[b] = Append(inbox[b], m)
  BY <1>3 DEF Write, TypeOK, m
<1> QED  BY <1>2, <1>4, <1>5 DEF Write, bridges, m

LEMMA ServeBox ==
  ASSUME TypeOK, NEW b \in Bridges, Serve(b)
  PROVE  \E m \in Range(inbox[b]), a \in Answers :
           /\ m \in Messages
           /\ a.id = m.id /\ a.call = m.call /\ a.kind = m.kind
           /\ a.result = "refused" => m.kind = "request" /\ ~handshaken[b]
           /\ a.result = "ok" /\ a.kind = "handshake" => handshaken'[b]
           /\ Range(outbox'[b]) = Range(outbox[b]) \cup {a}
           /\ Range(inbox[b]) = {m} \cup Range(inbox'[b])
           /\ handshaken[b] => handshaken'[b]
           /\ \A d \in Bridges \ {b} : /\ inbox'[d] = inbox[d] /\ outbox'[d] = outbox[d]
                                        /\ handshaken'[d] = handshaken[d]
<1> DEFINE m == Head(inbox[b])
           answer(r) == [id |-> m.id, call |-> m.call, kind |-> m.kind, result |-> r]
<1>1. m \in Messages /\ Tail(inbox[b]) \in Seq(Messages) /\ Range(inbox[b]) = {m} \cup Range(Tail(inbox[b]))
  BY RangeHead DEF Serve, TypeOK
<1>2. PICK r \in IF m.kind = "request" /\ ~handshaken[b] THEN {"refused"} ELSE {"ok", "failed"} :
           /\ outbox' = [outbox EXCEPT ![b] = Append(@, answer(r))]
           /\ handshaken' = [handshaken EXCEPT ![b] = @ \/ (m.kind = "handshake" /\ r = "ok")]
  BY DEF Serve
<1>3. answer(r) \in Answers  BY <1>1, <1>2 DEF Messages, Answers, Results
<1>4. outbox[b] \in Seq(Answers)  BY DEF TypeOK
<1>5. Range(Append(outbox[b], answer(r))) = Range(outbox[b]) \cup {answer(r)}  BY <1>3, <1>4, RangeAppend
<1>6. inbox' = [inbox EXCEPT ![b] = Tail(@)]  BY DEF Serve
<1>7. answer(r).id = m.id /\ answer(r).call = m.call /\ answer(r).kind = m.kind /\ answer(r).result = r
  OBVIOUS
<1>8. outbox'[b] = Append(outbox[b], answer(r)) /\ inbox'[b] = Tail(inbox[b])
  BY <1>2, <1>6 DEF TypeOK
<1>9. handshaken'[b] = (handshaken[b] \/ (m.kind = "handshake" /\ r = "ok"))
  BY <1>2 DEF TypeOK
<1>10. \A d \in Bridges \ {b} : /\ inbox'[d] = inbox[d] /\ outbox'[d] = outbox[d]
                                 /\ handshaken'[d] = handshaken[d]
  BY <1>2, <1>6 DEF TypeOK
<1> HIDE DEF m, answer
<1>11. m \in Range(inbox[b])  BY <1>1
<1>12. r = "refused" => m.kind = "request" /\ ~handshaken[b]  BY <1>2
<1> WITNESS m \in Range(inbox[b]), answer(r) \in Answers
<1> QED  BY <1>1, <1>5, <1>7, <1>8, <1>9, <1>10, <1>12

LEMMA ForwardBox ==
  ASSUME TypeOK, NEW b \in Bridges, Forward(b)
  PROVE  /\ Head(outbox[b]) \in Range(outbox[b])
         /\ Range(outbox[b]) = {Head(outbox[b])} \cup Range(outbox'[b])
         /\ Head(outbox[b]) \in Answers
         /\ \A d \in Bridges \ {b} : outbox'[d] = outbox[d]
<1>1. outbox[b] \in Seq(Answers) /\ outbox[b] # <<>>  BY DEF Forward, TypeOK
<1>2. outbox'[b] = Tail(outbox[b])  BY DEF Forward, TypeOK
<1>3. \A d \in Bridges \ {b} : outbox'[d] = outbox[d]  BY DEF Forward, TypeOK
<1> QED  BY <1>1, <1>2, <1>3, RangeHead

LEMMA KilledBox ==
  ASSUME TypeOK, NEW b \in Bridges, Killed(b), NEW d \in Bridges
  PROVE  Range(inbox'[d]) \subseteq Range(inbox[d]) /\ outbox' = outbox /\ handshaken' = handshaken
<1>1. inbox'[d] = inbox[d] \/ inbox'[d] = <<>>  BY DEF Killed, TypeOK
<1> QED  BY <1>1, RangeEmpty DEF Killed

(* Every step but a write and an answer only takes from the pipes.         *)
LEMMA OthersShrink ==
  ASSUME TypeOK, MutexOwner, Next,
         \A c \in Calls : ~Write(c), \A b \in Bridges : ~Serve(b)
  PROVE  Shrinks
<1> USE DEF callers, bridges, gateways
<1>1. ASSUME UNCHANGED <<inbox, outbox, handshaken, nextId>> PROVE Shrinks
  BY <1>1 DEF Shrinks, TypeOK
<1>2. ASSUME NEW b \in Bridges, Killed(b), \A d \in Bridges : nextId'[d] >= nextId[d] PROVE Shrinks
  BY <1>2, KilledBox DEF Shrinks
<1>3. ASSUME NEW c \in Calls, Call(c) PROVE Shrinks
  <2>0. \A d \in Bridges : nextId'[d] >= nextId[d]
    <3>1. CASE nextId' = nextId  BY <3>1 DEF TypeOK
    <3>2. CASE Insert(c) \/ InsertRefused(c)
      <4>1. nextId' = [nextId EXCEPT ![on[c]] = @ + 1]  BY <3>2 DEF Insert, InsertRefused
      <4> QED  BY <4>1 DEF TypeOK
    <3> QED  BY <1>3, <3>1, <3>2 DEF Call, Lock, Check, StartFails, Start, Write, WriteFails, Receive, TimeOut
  <2>1. CASE UNCHANGED <<inbox, outbox, handshaken>>  BY <2>0, <2>1 DEF Shrinks
  <2>2. CASE current \in Bridges /\ Killed(current)  BY <1>2, <2>0, <2>2
  <2>3. CASE on[c] \in Bridges /\ Killed(on[c])  BY <1>2, <2>0, <2>3
  <2>4. Check(c) => UNCHANGED <<inbox, outbox, handshaken>> \/ (current \in Bridges /\ Killed(current))
    BY DEF Check, TypeOK
  <2>5. InsertRefused(c) \/ WriteFails(c) \/ TimeOut(c) \/ Receive(c) =>
          UNCHANGED <<inbox, outbox, handshaken>> \/ (on[c] \in Bridges /\ Killed(on[c]))
    BY OwnerHasBridge DEF InsertRefused, WriteFails, TimeOut, Receive, Abandon
  <2>6. Lock(c) \/ StartFails(c) \/ Start(c) \/ Insert(c) => UNCHANGED <<inbox, outbox, handshaken>>
    BY DEF Lock, StartFails, Start, Insert
  <2> QED  BY <1>3, <2>1, <2>2, <2>3, <2>4, <2>5, <2>6 DEF Call
<1>4. ASSUME NEW b \in Bridges, Forward(b) PROVE Shrinks
  <2>1. UNCHANGED <<inbox, handshaken, nextId>>  BY <1>4 DEF Forward
  <2>2. \A d \in Bridges : Range(outbox'[d]) \subseteq Range(outbox[d])  BY <1>4, ForwardBox
  <2> QED  BY <2>1, <2>2 DEF Shrinks, TypeOK
<1>5. ASSUME NEW b \in Bridges, Eof(b) \/ Drain(b) PROVE Shrinks  BY <1>1, <1>5 DEF Eof, Drain
<1>6. ASSUME NEW b \in Bridges, GatewayDies(b) PROVE Shrinks
  BY <1>2, <1>6 DEF GatewayDies, TypeOK
<1> QED  BY <1>3, <1>4, <1>5, <1>6 DEF Next, Thread

(* The rest of the argument is about three kinds of step.                  *)
LEMMA StepKinds ==
  ASSUME TypeOK, MutexOwner, Next
  PROVE  \/ \E c \in Calls : Write(c)
         \/ \E b \in Bridges : Serve(b)
         \/ Shrinks /\ ((\E c \in Calls : Call(c) /\ ~Write(c)) \/ (\E b \in Bridges : Thread(b) \/ GatewayDies(b)))
<1>1. CASE \E c \in Calls : Write(c)  BY <1>1
<1>2. CASE \E b \in Bridges : Serve(b)  BY <1>2
<1>3. CASE (\A c \in Calls : ~Write(c)) /\ (\A b \in Bridges : ~Serve(b))
  BY <1>3, OthersShrink DEF Next
<1> QED  BY <1>1, <1>2, <1>3

(* What a thread or a gateway does to the calls.                           *)
LEMMA ThreadCalls ==
  ASSUME TypeOK, NEW b \in Bridges, Thread(b) \/ GatewayDies(b) \/ Serve(b)
  PROVE  /\ UNCHANGED <<mutex, pc, kind, on, id, current, started, nextId>>
         /\ \A c \in Calls : reply'[c] = reply[c]
              \/ (pc[c] = "await" /\ reply'[c].call = c /\ reply'[c].kind = kind[c] /\ reply'[c].result = "unavailable")
              \/ (pc[c] = "await" /\ on[c] = b /\ outbox[b] # <<>> /\ Forward(b)
                  /\ reply'[c] = Head(outbox[b]) /\ id[c] = Head(outbox[b]).id)
<1> USE DEF callers, bridges, gateways
<1>1. CASE Forward(b)  BY <1>1 DEF Forward, Deliver, Waits, TypeOK
<1>2. CASE Drain(b)
  <2>1. UNCHANGED <<mutex, pc, kind, on, id, current, started, nextId>>  BY <1>2 DEF Drain
  <2> DEFINE cleared(c) == [id |-> id[c], call |-> c, kind |-> kind[c], result |-> "unavailable"]
  <2>2. \A c \in Calls : reply'[c] = reply[c] \/ (pc[c] = "await" /\ reply'[c] = cleared(c))
    <3> HIDE DEF cleared
    <3>1. reply' = [c \in Calls |-> IF reply[c] = None /\ \E i \in pending[b] : Waits(c, b, i)
                                    THEN cleared(c) ELSE reply[c]]
      BY <1>2 DEF Drain, cleared
    <3>2. ASSUME NEW c \in Calls PROVE reply'[c] = reply[c] \/ (pc[c] = "await" /\ reply'[c] = cleared(c))
      BY <3>1 DEF Waits
    <3> QED  BY <3>2
  <2>3. \A c \in Calls : cleared(c).call = c /\ cleared(c).kind = kind[c] /\ cleared(c).result = "unavailable"
    OBVIOUS
  <2> HIDE DEF cleared
  <2> QED  BY <2>1, <2>2, <2>3
<1>3. CASE Eof(b) \/ GatewayDies(b) \/ Serve(b)  BY <1>3 DEF Eof, GatewayDies, Serve
<1> QED  BY <1>1, <1>2, <1>3 DEF Thread

(* What a call does to itself: it enters `write` with a new id, `await`    *)
(* without a reply, or leaves both.                                        *)
LEMMA CallSelf ==
  ASSUME TypeOK, MutexOwner, NEW c \in Calls, Call(c), ~Write(c)
  PROVE  /\ \A d \in Calls \ {c} : /\ pc'[d] = pc[d] /\ kind'[d] = kind[d] /\ on'[d] = on[d]
                                    /\ id'[d] = id[d] /\ reply'[d] = reply[d]
         /\ pc'[c] # "await"
         /\ pc'[c] = "write" => Insert(c)
         /\ NoReply => reply'[c] = None
<1> USE DEF callers, Move, TypeOK
<1>1. CASE Lock(c) \/ Check(c) \/ Start(c)  BY <1>1 DEF Lock, Check, Start, NoReply
<1>2. CASE StartFails(c)  BY <1>2 DEF StartFails, Return
<1>3. CASE Insert(c)  BY <1>3 DEF Insert, NoReply
<1>4. CASE InsertRefused(c)  BY <1>4 DEF InsertRefused, Return
<1>5. CASE WriteFails(c)  BY <1>5 DEF WriteFails, Return
<1>6. CASE Receive(c)  BY <1>6 DEF Receive, Return
<1>7. CASE TimeOut(c)  BY <1>7 DEF TimeOut, Return
<1> QED  BY <1>1, <1>2, <1>3, <1>4, <1>5, <1>6, <1>7 DEF Call

(* Messages carry the id of the one request they are about.                *)
LEMMA StepIds ==
  ASSUME TypeOK, MutexOwner, IdsOwned, Next PROVE IdsOwned'
<1>1. ASSUME NEW c \in Calls, Write(c) PROVE IdsOwned'
  <2> DEFINE m == [id |-> id[c], call |-> c, kind |-> kind[c]]
  <2>1. on[c] \in Bridges /\ pc[c] = "write" /\ mutex = c  BY <1>1, OwnerHasBridge DEF Write, Move
  <2>2. id[c] < nextId[on[c]] /\ \A x \in Boxes(on[c]) : x.id # id[c]
    BY <2>1 DEF IdsOwned, IdOwned
  <2>3. UNCHANGED <<kind, on, id, reply, nextId, outbox>> /\ pc'[c] = "await"
    BY <1>1 DEF Write, Move, bridges, TypeOK
  <2>4. \A b \in Bridges : Boxes(b)' \subseteq Boxes(b) \cup (IF b = on[c] THEN {m} ELSE {})
    BY <1>1, WriteBox DEF Boxes
  <2>5. IdsFresh'  BY <2>2, <2>3, <2>4 DEF IdsOwned, IdsFresh
  <2>6. \A d \in Calls \ {c} : pc'[d] \in {"idle", "done"}
    BY <1>1, <2>1 DEF Write, Move, MutexOwner, Outsider, TypeOK
  <2>7. IdOwned(c)'  BY <2>1, <2>2, <2>3, <2>4 DEF IdOwned
  <2>8. \A d \in Calls : IdOwned(d)'  BY <2>6, <2>7 DEF IdOwned
  <2>9. NoReply'
    BY <2>1, <2>3, <2>6 DEF IdsOwned, NoReply, MutexOwner, Outsider
  <2> QED  BY <2>5, <2>8, <2>9 DEF IdsOwned
<1>2. ASSUME NEW b \in Bridges, Serve(b) PROVE IdsOwned'
  <2>1. PICK m \in Range(inbox[b]), a \in Answers :
           /\ a.id = m.id /\ a.call = m.call /\ a.kind = m.kind
           /\ Range(outbox'[b]) = Range(outbox[b]) \cup {a}
           /\ Range(inbox[b]) = {m} \cup Range(inbox'[b])
           /\ \A d \in Bridges \ {b} : inbox'[d] = inbox[d] /\ outbox'[d] = outbox[d]
    BY <1>2, ServeBox
  <2>2. UNCHANGED <<mutex, pc, kind, on, id, reply, nextId>>  BY <1>2 DEF Serve, callers, bridges
  <2>3. \A d \in Bridges : \A x \in Boxes(d)' :
          \E y \in Boxes(d) : x.id = y.id /\ x.call = y.call /\ x.kind = y.kind
    BY <2>1 DEF Boxes
  <2>4. IdsFresh'  BY <2>2, <2>3 DEF IdsOwned, IdsFresh
  <2>5. ASSUME NEW c \in Calls PROVE IdOwned(c)'
    <3> SUFFICES ASSUME pc[c] \in {"write", "await"} PROVE IdOwned(c)'  BY <2>2 DEF IdOwned
    <3>1. mutex = c  BY DEF MutexOwner, Outsider
    <3>2. on[c] \in Bridges  BY <3>1, OwnerHasBridge
    <3> QED  BY <2>2, <2>3, <3>2 DEF IdsOwned, IdOwned
  <2>6. NoReply'  BY <2>2 DEF IdsOwned, NoReply
  <2> QED  BY <2>4, <2>5, <2>6 DEF IdsOwned
<1>3. ASSUME Shrinks PROVE \A b \in Bridges : Boxes(b)' \subseteq Boxes(b)  BY <1>3 DEF Shrinks, Boxes
<1>4. ASSUME Shrinks PROVE IdsFresh'
  <2>1. \A b \in Bridges : nextId[b] \in Nat /\ nextId'[b] >= nextId[b] /\ nextId'[b] \in Nat
    BY <1>4, StepType DEF Shrinks, TypeOK
  <2>2. \A b \in Bridges : \A m \in Boxes(b) : m.id \in Nat  BY MessageIds
  <2>3. \A b \in Bridges : \A m \in Boxes(b) : m.id < nextId'[b]  BY <2>1, <2>2 DEF IdsOwned, IdsFresh
  <2> QED  BY <1>3, <1>4, <2>3 DEF IdsFresh
<1>5. ASSUME Shrinks, NEW c \in Calls, Call(c), ~Write(c) PROVE IdsOwned'
  <2>1. mutex = c \/ Lock(c)
    BY <1>5 DEF Call, Lock, Check, StartFails, Start, Insert, InsertRefused, WriteFails, Receive, TimeOut, Move
  <2>2. \A d \in Calls \ {c} : pc[d] \in {"idle", "done"}  BY <2>1, CallsAssumption DEF MutexOwner, Outsider, Lock
  <2>3. \A d \in Calls \ {c} : pc'[d] = pc[d] /\ reply'[d] = reply[d]  BY <1>5, CallSelf
  <2>4. IdOwned(c)'
    <3>1. CASE Insert(c)
      <4>1. on[c] \in Bridges  BY <3>1, OwnerHasBridge DEF Insert, Move
      <4>2. id'[c] = nextId[on[c]] /\ nextId'[on[c]] = nextId[on[c]] + 1 /\ on' = on
            /\ Boxes(on[c])' = Boxes(on[c])
        BY <3>1, <4>1 DEF Insert, TypeOK, Boxes, gateways
      <4>3. \A m \in Boxes(on[c]) : m.id \in Nat /\ m.id < nextId[on[c]]
        BY <4>1, MessageIds DEF IdsOwned, IdsFresh
      <4>4. nextId[on[c]] \in Nat  BY <4>1 DEF TypeOK
      <4> QED  BY <4>1, <4>2, <4>3, <4>4 DEF IdOwned
    <3>2. CASE ~Insert(c)  BY <1>5, <3>2, CallSelf DEF IdOwned
    <3> QED  BY <3>1, <3>2
  <2>5. NoReply'  BY <1>5, <2>3, CallSelf DEF IdsOwned, NoReply
  <2>6. \A d \in Calls : IdOwned(d)'  BY <2>2, <2>3, <2>4 DEF IdOwned
  <2> QED  BY <1>4, <1>5, <2>5, <2>6 DEF IdsOwned
<1>6. ASSUME Shrinks, NEW b \in Bridges, Thread(b) \/ GatewayDies(b) PROVE IdsOwned'
  <2>1. UNCHANGED <<mutex, pc, kind, on, id, nextId>>  BY <1>6, ThreadCalls
  <2>2. NoReply'  BY <1>6, <2>1, ThreadCalls DEF IdsOwned, NoReply
  <2>3. ASSUME NEW c \in Calls PROVE IdOwned(c)'
    <3> SUFFICES ASSUME pc[c] \in {"write", "await"} PROVE IdOwned(c)'  BY <2>1 DEF IdOwned
    <3>1. mutex = c  BY DEF MutexOwner, Outsider
    <3>2. on[c] \in Bridges  BY <3>1, OwnerHasBridge
    <3> QED  BY <1>3, <1>6, <2>1, <3>2 DEF IdsOwned, IdOwned
  <2> QED  BY <1>4, <1>6, <2>2, <2>3 DEF IdsOwned
<1> QED  BY <1>1, <1>2, <1>5, <1>6, StepKinds

(* The answer a forwarding thread hands to a call is about that call.      *)
LEMMA ThreadAnswers ==
  ASSUME TypeOK, MutexOwner, IdsOwned, NEW b \in Bridges, Thread(b) \/ GatewayDies(b) \/ Serve(b),
         NEW c \in Calls
  PROVE  \/ reply'[c] = reply[c]
         \/ /\ pc[c] = "await" /\ reply'[c].call = c /\ reply'[c].kind = kind[c]
            /\ \/ reply'[c].result = "unavailable"
               \/ on[c] = b /\ reply'[c] \in Range(outbox[b])
<1>1. CASE /\ pc[c] = "await" /\ on[c] = b /\ outbox[b] # <<>> /\ Forward(b)
           /\ reply'[c] = Head(outbox[b]) /\ id[c] = Head(outbox[b]).id
  <2>1. Head(outbox[b]) \in Range(outbox[b])  BY <1>1, ForwardBox
  <2>2. Head(outbox[b]).call = c /\ Head(outbox[b]).kind = kind[c]
    BY <1>1, <2>1 DEF IdsOwned, IdOwned, Boxes
  <2> QED  BY <1>1, <2>1, <2>2
<1> QED  BY <1>1, ThreadCalls

(* A call has its own answer or none.                                      *)
LEMMA StepAnswer ==
  ASSUME TypeOK, MutexOwner, IdsOwned, OwnAnswer, Next PROVE OwnAnswer'
<1>1. ASSUME NEW c \in Calls, Write(c) PROVE OwnAnswer'
  <2>1. mutex = c /\ pc[c] = "write" /\ reply' = reply /\ kind' = kind /\ pc' = [pc EXCEPT ![c] = "await"]
    BY <1>1 DEF Write, Move
  <2>2. reply[c] = None  BY <2>1 DEF IdsOwned, NoReply
  <2> QED  BY <2>1, <2>2 DEF OwnAnswer, TypeOK
<1>2. ASSUME NEW b \in Bridges, Thread(b) \/ GatewayDies(b) \/ Serve(b) PROVE OwnAnswer'
  <2>1. UNCHANGED <<pc, kind>>  BY <1>2, ThreadCalls
  <2> QED  BY <1>2, <2>1, ThreadAnswers DEF OwnAnswer
<1>3. ASSUME NEW c \in Calls, Call(c), ~Write(c) PROVE OwnAnswer'
  BY <1>3, CallSelf DEF OwnAnswer
<1> QED  BY <1>1, <1>2, <1>3, StepKinds

(* How the stored bridge changes.                                          *)
LEMMA CurrentMoves ==
  ASSUME TypeOK, MutexOwner, NEW c \in Calls, Call(c)
  PROVE  \/ current' = current
         \/ current' = None
         \/ /\ pc[c] = "await" /\ kind[c] = "handshake" /\ reply[c] # None /\ reply[c].result = "ok"
            /\ current' = on[c] /\ on[c] \in Bridges /\ started' = started
<1>1. CASE Receive(c)  BY <1>1, OwnerHasBridge DEF Receive
<1>2. CASE ~Receive(c)
  BY <1>2 DEF Call, Lock, Check, StartFails, Start, Insert, InsertRefused, Write, WriteFails, TimeOut
<1> QED  BY <1>1, <1>2

(* A request is written only to a gateway that accepted a handshake.       *)
LEMMA StepAccepted ==
  ASSUME TypeOK, MutexOwner, IdsOwned, Accepted, HandshakeFirst, Next
  PROVE  Accepted' /\ HandshakeFirst'
<1> DEFINE Got(c) == /\ pc[c] = "await" /\ kind[c] = "handshake"
                     /\ reply[c] # None /\ reply[c].result = "ok"
<1>1. ASSUME NEW c \in Calls, Write(c) PROVE Accepted' /\ HandshakeFirst'
  <2>1. /\ mutex = c /\ pc[c] = "write" /\ UNCHANGED <<reply, kind, on, current, handshaken, outbox>>
        /\ pc' = [pc EXCEPT ![c] = "await"]
    BY <1>1 DEF Write, Move
  <2>2. reply[c] = None  BY <2>1 DEF IdsOwned, NoReply
  <2>3. \A d \in Calls : Got(d)' => Got(d)  BY <2>1, <2>2 DEF TypeOK
  <2>4. kind[c] = "request" => handshaken[on[c]]
    <3>1. on[c] \in Bridges  BY <2>1, OwnerHasBridge
    <3>2. kind[c] = "request" => current = on[c]  BY <2>1, <3>1, CallsAssumption DEF MutexOwner, Owner
    <3> QED  BY <3>1, <3>2, CallsAssumption DEF Accepted, Bridges
  <2>5. \A b \in Bridges : \A m \in Range(inbox'[b]) : m.kind = "request" => handshaken[b]
    <3> DEFINE w == [id |-> id[c], call |-> c, kind |-> kind[c]]
    <3>1. w.kind = kind[c]  OBVIOUS
    <3> HIDE DEF w
    <3>2. \A b \in Bridges : Range(inbox'[b]) \subseteq Range(inbox[b]) \cup (IF b = on[c] THEN {w} ELSE {})
      BY <1>1, WriteBox DEF w
    <3> QED  BY <2>4, <3>1, <3>2 DEF Accepted
  <2> QED  BY <2>1, <2>3, <2>5 DEF Accepted, HandshakeFirst
<1>2. ASSUME NEW b \in Bridges, Serve(b) PROVE Accepted' /\ HandshakeFirst'
  <2>1. PICK m \in Range(inbox[b]), a \in Answers :
           /\ a.kind = m.kind
           /\ a.result = "refused" => m.kind = "request" /\ ~handshaken[b]
           /\ a.result = "ok" /\ a.kind = "handshake" => handshaken'[b]
           /\ Range(outbox'[b]) = Range(outbox[b]) \cup {a}
           /\ Range(inbox[b]) = {m} \cup Range(inbox'[b])
           /\ handshaken[b] => handshaken'[b]
           /\ \A d \in Bridges \ {b} : /\ inbox'[d] = inbox[d] /\ outbox'[d] = outbox[d]
                                        /\ handshaken'[d] = handshaken[d]
    BY <1>2, ServeBox
  <2>2. UNCHANGED <<pc, kind, on, reply, current>>  BY <1>2 DEF Serve, callers
  <2>3. \A d \in Bridges : handshaken[d] => handshaken'[d]  BY <2>1
  <2>4. current \in Bridges \cup {None}  BY DEF TypeOK
  <2>5. \A c \in Calls : Got(c) => on[c] \in Bridges
    <3> SUFFICES ASSUME NEW c \in Calls, pc[c] = "await" PROVE on[c] \in Bridges  OBVIOUS
    <3>1. mutex = c  BY DEF MutexOwner, Outsider
    <3> QED  BY <3>1, OwnerHasBridge
  <2>6. current # None => handshaken'[current]  BY <2>3, <2>4 DEF Accepted
  <2>7. \A c \in Calls : Got(c) => handshaken'[on[c]]  BY <2>3, <2>5 DEF Accepted
  <2>8. \A d \in Bridges : \A x \in Range(inbox'[d]) : x.kind = "request" => handshaken'[d]
    BY <2>1 DEF Accepted
  <2>9. \A d \in Bridges : \A x \in Range(outbox'[d]) :
          x.kind = "handshake" /\ x.result = "ok" => handshaken'[d]
    BY <2>1 DEF Accepted
  <2>10. HandshakeFirst'  BY <2>1 DEF Accepted, HandshakeFirst
  <2> QED  BY <2>2, <2>6, <2>7, <2>8, <2>9, <2>10 DEF Accepted
<1>3. ASSUME Shrinks
      PROVE  /\ HandshakeFirst'
             /\ \A b \in Bridges : \A m \in Range(inbox'[b]) : m.kind = "request" => handshaken'[b]
             /\ \A b \in Bridges : \A m \in Range(outbox'[b]) :
                  m.kind = "handshake" /\ m.result = "ok" => handshaken'[b]
  BY <1>3 DEF Shrinks, Accepted, HandshakeFirst
<1>4. ASSUME Shrinks, NEW c \in Calls, Call(c), ~Write(c) PROVE Accepted'
  <2>1. \A d \in Calls : Got(d)' => Got(d) /\ on'[d] = on[d]  BY <1>4, CallSelf
  <2>2. \A d \in Calls : Got(d) => on[d] \in Bridges
    <3> SUFFICES ASSUME NEW d \in Calls, pc[d] = "await" PROVE on[d] \in Bridges  OBVIOUS
    <3>1. mutex = d  BY DEF MutexOwner, Outsider
    <3> QED  BY <3>1, OwnerHasBridge
  <2>3. \A d \in Calls : Got(d)' => handshaken'[on'[d]]  BY <1>4, <2>1, <2>2 DEF Accepted, Shrinks
  <2>4. current' # None => handshaken'[current']
    <3>1. CASE current' = current
      <4>1. current \in Bridges \cup {None}  BY DEF TypeOK
      <4> QED  BY <1>4, <3>1, <4>1 DEF Accepted, Shrinks
    <3>2. CASE Got(c) /\ current' = on[c]  BY <1>4, <2>2, <3>2 DEF Accepted, Shrinks
    <3> QED  BY <1>4, <3>1, <3>2, CurrentMoves
  <2> QED  BY <1>3, <1>4, <2>3, <2>4 DEF Accepted
<1>5. ASSUME Shrinks, NEW b \in Bridges, Thread(b) \/ GatewayDies(b) PROVE Accepted'
  <2>1. UNCHANGED <<pc, kind, on, current>>  BY <1>5, ThreadCalls
  <2>2. ASSUME NEW c \in Calls, Got(c)' PROVE handshaken'[on'[c]]
    <3>1. pc[c] = "await" /\ mutex = c  BY <2>1, <2>2 DEF MutexOwner, Outsider
    <3>2. on[c] \in Bridges  BY <3>1, OwnerHasBridge
    <3>3. handshaken[on[c]]
      <4>1. CASE reply'[c] = reply[c]  BY <2>1, <2>2, <4>1 DEF Accepted
      <4>2. CASE on[c] = b /\ reply'[c] \in Range(outbox[b]) /\ reply'[c].kind = kind[c]
        BY <2>1, <2>2, <3>2, <4>2 DEF Accepted
      <4> QED  BY <1>5, <2>2, <4>1, <4>2, ThreadAnswers
    <3> QED  BY <1>5, <2>1, <3>2, <3>3 DEF Shrinks
  <2>3. current \in Bridges \cup {None}  BY DEF TypeOK
  <2>4. current' # None => handshaken'[current']  BY <1>5, <2>1, <2>3 DEF Accepted, Shrinks
  <2> QED  BY <1>3, <1>5, <2>2, <2>4 DEF Accepted
<1> QED  BY <1>1, <1>2, <1>3, <1>4, <1>5, StepKinds

(* A bridge that is not started yet is used by nobody.                     *)
LEMMA StepUnused ==
  ASSUME TypeOK, MutexOwner, Unused, Next PROVE Unused'
<1>1. ASSUME NEW c \in Calls, Call(c) PROVE Unused'
  <2>1. started' >= started /\ started' \in Nat /\ started \in Nat
    <3>1. started' \in {started, started + 1}
      BY <1>1 DEF Call, Lock, Check, StartFails, Start, Insert, InsertRefused, Write, WriteFails, Receive, TimeOut
    <3> QED  BY <3>1 DEF TypeOK
  <2>2. \A d \in Calls : on'[d] # None => on'[d] <= started'
    <3>1. \A d \in Calls : on[d] \in Bridges \cup {None}  BY DEF TypeOK
    <3>2. CASE on' = on  BY <2>1, <3>1, <3>2 DEF Unused, Bridges
    <3>3. CASE on' = [on EXCEPT ![c] = None]  BY <2>1, <3>1, <3>3 DEF Unused, Bridges
    <3>4. CASE on' = [on EXCEPT ![c] = current] /\ current # None
      BY <2>1, <3>1, <3>4 DEF Unused, Bridges, TypeOK
    <3>5. CASE on' = [on EXCEPT ![c] = started + 1] /\ started' = started + 1
      BY <2>1, <3>1, <3>5 DEF Unused, Bridges, TypeOK
    <3>6. Check(c) => on' = on \/ (on' = [on EXCEPT ![c] = current] /\ current # None)  BY DEF Check
    <3>7. Start(c) => on' = [on EXCEPT ![c] = started + 1] /\ started' = started + 1  BY DEF Start
    <3>8. Lock(c) \/ Insert(c) \/ Write(c) => on' = on  BY DEF Lock, Insert, Write
    <3>9. StartFails(c) \/ InsertRefused(c) \/ WriteFails(c) \/ TimeOut(c) => on' = [on EXCEPT ![c] = None]
      BY DEF StartFails, InsertRefused, WriteFails, TimeOut, Return
    <3>10. Receive(c) => on' = on \/ on' = [on EXCEPT ![c] = None]  BY DEF Receive, Return
    <3> QED  BY <1>1, <3>2, <3>3, <3>4, <3>5, <3>6, <3>7, <3>8, <3>9, <3>10 DEF Call
  <2>3. current' # None => current' <= started'
    <3>1. CASE current' = current  BY <2>1, <3>1 DEF Unused, Bridges, TypeOK
    <3>2. CASE current' = on[c] /\ on[c] \in Bridges /\ started' = started
      BY <3>2, CallsAssumption DEF Unused, Bridges
    <3> QED  BY <1>1, <3>1, <3>2, CurrentMoves
  <2>4. \A b \in Bridges : b > started' => pending'[b] = {}
    <3>0. \A b \in Bridges : b > started' => b > started  BY <2>1 DEF Bridges
    <3>1. CASE pending' = pending  BY <3>0, <3>1 DEF Unused
    <3>2. CASE Insert(c) \/ WriteFails(c)
      <4>1. on[c] \in Bridges  BY <3>2, OwnerHasBridge DEF Insert, WriteFails, Move
      <4>2. on[c] <= started /\ on[c] \in Nat  BY <4>1, CallsAssumption DEF Unused, Bridges
      <4>3. \A b \in Bridges : b # on[c] => pending'[b] = pending[b]
        BY <3>2 DEF Insert, WriteFails, TypeOK
      <4>4. \A b \in Bridges : b > started => b # on[c]  BY <2>1, <4>2 DEF Bridges
      <4> QED  BY <3>0, <4>3, <4>4 DEF Unused
    <3> QED  BY <1>1, <3>1, <3>2
             DEF Call, Lock, Check, StartFails, Start, InsertRefused, Write, Receive, TimeOut, bridges
  <2> QED  BY <2>2, <2>3, <2>4 DEF Unused
<1>2. ASSUME NEW b \in Bridges, Thread(b) \/ GatewayDies(b) \/ Serve(b) PROVE Unused'
  <2>1. UNCHANGED <<on, current, started>>  BY <1>2, ThreadCalls
  <2>2. \A d \in Bridges : pending'[d] \subseteq pending[d]
    BY <1>2 DEF Thread, GatewayDies, Serve, Forward, Eof, Drain, bridges, TypeOK
  <2> QED  BY <2>1, <2>2 DEF Unused
<1> QED  BY <1>1, <1>2 DEF Next

(***************************************************************************)
(* The registry of pending requests.                                       *)
(***************************************************************************)
Small(b) == IsFiniteSet(pending[b]) /\ Cardinality(pending[b]) <= MaxPending

LEMMA StepSmall ==
  ASSUME TypeOK, MutexOwner, Next, \A b \in Bridges : Small(b) PROVE \A b \in Bridges : Small(b)'
<1>1. SUFFICES ASSUME NEW b \in Bridges PROVE Small(b)'  OBVIOUS
<1>2. CASE pending'[b] \subseteq pending[b]
  <2>1. IsFiniteSet(pending'[b]) /\ Cardinality(pending'[b]) <= Cardinality(pending[b])
    BY <1>2, FS_Subset DEF Small
  <2>2. Cardinality(pending'[b]) \in Nat /\ Cardinality(pending[b]) \in Nat  BY <2>1, FS_CardinalityType DEF Small
  <2> QED  BY <2>1, <2>2, CallsAssumption DEF Small
<1>3. ASSUME NEW c \in Calls, Insert(c), on[c] = b PROVE Small(b)'
  <2>1. pending'[b] = pending[b] \cup {nextId[b]}  BY <1>3 DEF Insert, TypeOK
  <2>2. Cardinality(pending[b]) < MaxPending /\ Cardinality(pending[b]) \in Nat
    BY <1>3, FS_CardinalityType DEF Insert, Small
  <2>3. IsFiniteSet(pending'[b]) /\ Cardinality(pending'[b]) \in {Cardinality(pending[b]), Cardinality(pending[b]) + 1}
    BY <2>1, FS_AddElement DEF Small
  <2> QED  BY <2>2, <2>3, CallsAssumption DEF Small
<1>4. ASSUME NEW c \in Calls, Call(c), ~(Insert(c) /\ on[c] = b) PROVE pending'[b] \subseteq pending[b]
  <2>1. CASE Insert(c)
    <3>1. on[c] # b  BY <1>4, <2>1
    <3>2. pending' = [pending EXCEPT ![on[c]] = @ \cup {nextId[on[c]]}]  BY <2>1 DEF Insert
    <3> QED  BY <3>1, <3>2 DEF TypeOK
  <2>2. CASE WriteFails(c)
    <3>1. pending' = [pending EXCEPT ![on[c]] = @ \ {id[c]}]  BY <2>2 DEF WriteFails
    <3> QED  BY <3>1 DEF TypeOK
  <2>3. CASE Lock(c) \/ Check(c) \/ StartFails(c) \/ InsertRefused(c)
    BY <2>3 DEF Lock, Check, StartFails, InsertRefused, bridges
  <2>4. CASE Start(c) \/ Write(c) \/ Receive(c) \/ TimeOut(c)
    BY <2>4 DEF Start, Write, Receive, TimeOut, bridges
  <2> QED  BY <1>4, <2>1, <2>2, <2>3, <2>4 DEF Call
<1>5. ASSUME NEW d \in Bridges, Thread(d) \/ GatewayDies(d) \/ Serve(d) PROVE pending'[b] \subseteq pending[b]
  BY <1>5 DEF Thread, GatewayDies, Serve, Forward, Eof, Drain, bridges, TypeOK
<1> QED  BY <1>2, <1>3, <1>4, <1>5 DEF Next

Writing(b, i) == \E c \in Calls : mutex = c /\ pc[c] = "write" /\ on[c] = b /\ id[c] = i
InPipes(b, i) == \E m \in Boxes(b) : m.id = i
Owed == \A b \in Bridges : \A i \in pending[b] : process[b] = "gone" \/ Writing(b, i) \/ InPipes(b, i)

LEMMA Accounted == RegistryAccounted <=> Owed /\ \A b \in Bridges : Cardinality(pending[b]) <= MaxPending
BY DEF RegistryAccounted, Owed, Writing, InPipes, Boxes

(* A call takes nothing out of the pipes of a process it leaves running.   *)
LEMMA CallPipes ==
  ASSUME TypeOK, MutexOwner, NEW c \in Calls, Call(c), NEW b \in Bridges, process'[b] = "running"
  PROVE  /\ process[b] = "running" \/ (Start(c) /\ b = started + 1)
         /\ Boxes(b) \subseteq Boxes(b)'
<1> USE DEF gateways
<1>1. CASE UNCHANGED <<process, inbox, outbox>>  BY <1>1 DEF Boxes, TypeOK
<1>2. CASE Write(c)
  <2>1. process' = process  BY <1>2 DEF Write
  <2> QED  BY <1>2, <2>1, WriteBox DEF Boxes
<1>3. CASE Start(c)
  <2>1. process' = [process EXCEPT ![started + 1] = "running"] /\ UNCHANGED <<inbox, outbox>>  BY <1>3 DEF Start
  <2> QED  BY <1>3, <2>1 DEF Boxes, TypeOK
<1>4. ASSUME NEW d \in Bridges, Killed(d) PROVE process[b] = "running" /\ Boxes(b) \subseteq Boxes(b)'
  BY <1>4 DEF Killed, TypeOK, Boxes
<1>5. Check(c) => UNCHANGED <<process, inbox, outbox>> \/ (current \in Bridges /\ Killed(current))
  BY DEF Check, TypeOK
<1>6. InsertRefused(c) \/ WriteFails(c) \/ TimeOut(c) \/ Receive(c) =>
        UNCHANGED <<process, inbox, outbox>> \/ (on[c] \in Bridges /\ Killed(on[c]))
  BY OwnerHasBridge DEF InsertRefused, WriteFails, TimeOut, Receive, Abandon
<1>7. Lock(c) \/ StartFails(c) \/ Insert(c) => UNCHANGED <<process, inbox, outbox>>
  BY DEF Lock, StartFails, Insert
<1> QED  BY <1>1, <1>2, <1>3, <1>4, <1>5, <1>6, <1>7 DEF Call

(* What is registered is being written, in the pipes, or the pipes' end    *)
(* clears it.                                                              *)
LEMMA StepOwed ==
  ASSUME TypeOK, MutexOwner, Unused, Owed, Next PROVE Owed'
<1> SUFFICES ASSUME NEW b \in Bridges, NEW i \in pending'[b], process'[b] = "running"
             PROVE  Writing(b, i)' \/ InPipes(b, i)'
  <2>1. process' \in [Bridges -> {"running", "gone"}]  BY StepType DEF TypeOK
  <2> QED  BY <2>1 DEF Owed
<1>1. ASSUME NEW c \in Calls, Call(c) PROVE Writing(b, i)' \/ InPipes(b, i)'
  <2>1. CASE Insert(c) /\ on[c] = b /\ i = nextId[b]
    <3>1. mutex' = c /\ pc'[c] = "write" /\ on'[c] = b /\ id'[c] = i  BY <2>1 DEF Insert, Move, TypeOK
    <3> QED  BY <3>1 DEF Writing
  <2>2. CASE ~(Insert(c) /\ on[c] = b /\ i = nextId[b])
    <3>1. i \in pending[b] /\ (WriteFails(c) => on[c] # b \/ i # id[c])
      <4>1. WriteFails(c) => pending' = [pending EXCEPT ![on[c]] = @ \ {id[c]}]  BY DEF WriteFails
      <4>2. Insert(c) => pending' = [pending EXCEPT ![on[c]] = @ \cup {nextId[on[c]]}]  BY DEF Insert
      <4>3. ~WriteFails(c) /\ ~Insert(c) => pending' = pending
        BY <1>1 DEF Call, Lock, Check, StartFails, Start, InsertRefused, Write, Receive, TimeOut, bridges
      <4>4. pending \in [Bridges -> SUBSET Nat]  BY DEF TypeOK
      <4>5. WriteFails(c) => on[c] # b \/ i # id[c]  BY <4>1, <4>4
      <4>6. i \in pending[b]
        <5>1. CASE WriteFails(c)  BY <4>1, <4>4, <5>1
        <5>2. CASE Insert(c)  BY <2>2, <4>2, <4>4, <5>2
        <5>3. CASE ~WriteFails(c) /\ ~Insert(c)  BY <4>3, <5>3
        <5> QED  BY <5>1, <5>2, <5>3
      <4> QED  BY <4>5, <4>6
    <3>2. process[b] = "running"
      <4>1. Start(c) => b # started + 1
        <5>1. started + 1 > started  BY DEF TypeOK
        <5>2. b = started + 1 => pending[b] = {}  BY <5>1 DEF Unused
        <5> QED  BY <3>1, <5>2
      <4> QED  BY <1>1, <4>1, CallPipes
    <3>3. CASE InPipes(b, i)  BY <1>1, <3>3, CallPipes DEF InPipes
    <3>4. CASE Writing(b, i)
      <4>1. PICK d \in Calls : mutex = d /\ pc[d] = "write" /\ on[d] = b /\ id[d] = i  BY <3>4 DEF Writing
      <4>2. mutex = c \/ Lock(c)
        BY <1>1 DEF Call, Lock, Check, StartFails, Start, Insert, InsertRefused, Write, WriteFails, Receive, TimeOut, Move
      <4>3. d = c  BY <4>1, <4>2, CallsAssumption DEF Lock
      <4>4. Write(c) \/ WriteFails(c)
        BY <1>1, <4>1, <4>3 DEF Call, Lock, Check, StartFails, Start, Insert, InsertRefused, Receive, TimeOut, Move
      <4>5. Write(c)  BY <3>1, <4>1, <4>3, <4>4
      <4> DEFINE w == [id |-> id[c], call |-> c, kind |-> kind[c]]
      <4>6. w.id = i  BY <4>1, <4>3
      <4> HIDE DEF w
      <4>7. w \in Range(inbox'[b])  BY <3>2, <4>1, <4>3, <4>5, WriteBox DEF w
      <4> QED  BY <4>6, <4>7 DEF InPipes, Boxes
    <3> QED  BY <3>1, <3>2, <3>3, <3>4 DEF Owed
  <2> QED  BY <2>1, <2>2
<1>2. ASSUME NEW d \in Bridges, Thread(d) \/ GatewayDies(d) \/ Serve(d)
      PROVE  Writing(b, i)' \/ InPipes(b, i)'
  <2>1. UNCHANGED <<mutex, pc, on, id>>  BY <1>2, ThreadCalls
  <2>2. Writing(b, i) => Writing(b, i)'  BY <2>1 DEF Writing
  <2>3. i \in pending[b] /\ (Forward(d) => d # b \/ i # Head(outbox[b]).id) /\ (Drain(d) => d # b)
    <3>1. CASE Forward(d)
      <4>1. pending' = [pending EXCEPT ![d] = @ \ {Head(outbox[d]).id}]  BY <3>1 DEF Forward
      <4>2. i \in pending[b] /\ (d # b \/ i # Head(outbox[b]).id)  BY <4>1 DEF TypeOK
      <4> QED  BY <1>2, <3>1, <4>2 DEF Forward, Drain, Alive
    <3>2. CASE Drain(d)
      <4>1. i \in pending[b] /\ d # b  BY <3>2 DEF Drain, TypeOK
      <4> QED  BY <4>1
    <3>3. CASE Eof(d) \/ GatewayDies(d) \/ Serve(d)
      <4>1. UNCHANGED pending  BY <3>3 DEF Eof, GatewayDies, Serve, bridges
      <4>2. ~Drain(d) /\ ~Forward(d)
        <5>1. Drain(d) => reader'[d] = "ended" /\ reader[d] = "draining"  BY DEF Drain, TypeOK
        <5>2. Forward(d) => reader' = reader /\ outbox[d] # <<>> /\ process' = process /\ inbox' = inbox
          BY DEF Forward
        <5>3. Eof(d) => reader'[d] = "draining" /\ outbox[d] = <<>>  BY DEF Eof, TypeOK
        <5>4. GatewayDies(d) => reader' = reader /\ process[d] # process'[d]
          BY DEF GatewayDies, Killed, bridges, TypeOK
        <5>5. Serve(d) => reader' = reader /\ inbox'[d] # inbox[d]
          <6>1. ASSUME Serve(d) PROVE inbox'[d] = Tail(inbox[d]) /\ inbox[d] \in Seq(Messages) /\ inbox[d] # <<>>
            BY <6>1 DEF Serve, TypeOK
          <6>2. ASSUME NEW q \in Seq(Messages), q # <<>> PROVE Tail(q) # q
            <7>1. Len(Tail(q)) = Len(q) - 1 /\ Len(q) \in Nat  BY <6>2
            <7> QED  BY <7>1
          <6> QED  BY <6>1, <6>2 DEF Serve, bridges
        <5> QED  BY <3>3, <5>1, <5>2, <5>3, <5>4, <5>5
      <4> QED  BY <4>1, <4>2
    <3> QED  BY <1>2, <3>1, <3>2, <3>3 DEF Thread
  <2>4. process[b] = "running" /\ (GatewayDies(d) => d # b)
    BY <1>2 DEF Thread, GatewayDies, Serve, Forward, Eof, Drain, gateways, Killed, TypeOK
  <2>5. InPipes(b, i) => InPipes(b, i)'
    <3>1. CASE Forward(d)
      <4>1. inbox' = inbox /\ \A x \in Bridges \ {d} : outbox'[x] = outbox[x]
        BY <3>1, ForwardBox DEF Forward
      <4>2. Range(outbox[d]) = {Head(outbox[d])} \cup Range(outbox'[d])  BY <3>1, ForwardBox
      <4> QED  BY <2>3, <3>1, <4>1, <4>2 DEF InPipes, Boxes
    <3>2. CASE Serve(d)
      <4>1. PICK m \in Range(inbox[d]), a \in Answers :
               /\ a.id = m.id
               /\ Range(outbox'[d]) = Range(outbox[d]) \cup {a}
               /\ Range(inbox[d]) = {m} \cup Range(inbox'[d])
               /\ \A x \in Bridges \ {d} : inbox'[x] = inbox[x] /\ outbox'[x] = outbox[x]
        BY <3>2, ServeBox
      <4>2. \A x \in Boxes(b) : \E y \in Boxes(b)' : x.id = y.id  BY <4>1 DEF Boxes
      <4> QED  BY <4>2 DEF InPipes
    <3>3. CASE Eof(d) \/ Drain(d) \/ GatewayDies(d)
      <4>1. outbox' = outbox /\ inbox'[b] = inbox[b]
        BY <2>4, <3>3 DEF Eof, Drain, GatewayDies, Killed, gateways, TypeOK
      <4> QED  BY <4>1 DEF InPipes, Boxes
    <3> QED  BY <1>2, <3>1, <3>2, <3>3 DEF Thread
  <2> QED  BY <2>2, <2>3, <2>4, <2>5 DEF Owed
<1> QED  BY <1>1, <1>2 DEF Next

(***************************************************************************)
(* The invariant, and what it gives.                                       *)
(***************************************************************************)
LEMMA StepInv == BridgeInv /\ [Next]_vars => BridgeInv'
<1> SUFFICES ASSUME BridgeInv, [Next]_vars PROVE BridgeInv'  OBVIOUS
<1>1. CASE Next
  <2>1. TypeOK /\ MutexOwner /\ ProcessOwned /\ IdsOwned /\ Unused /\ Accepted /\ OwnAnswer /\ HandshakeFirst
    BY DEF BridgeInv
  <2>2. Owed /\ \A b \in Bridges : Small(b)  BY Accounted DEF BridgeInv, Small, RegistryFinite
  <2>3. TypeOK' /\ MutexOwner'  BY <1>1, <2>1, StepType, StepMutex
  <2>4. ProcessOwned' /\ IdsOwned' /\ Unused'  BY <1>1, <2>1, StepProcess, StepIds, StepUnused
  <2>5. Accepted' /\ HandshakeFirst' /\ OwnAnswer'  BY <1>1, <2>1, StepAccepted, StepAnswer
  <2>6. Owed' /\ \A b \in Bridges : Small(b)'  BY <1>1, <2>1, <2>2, StepOwed, StepSmall
  <2>7. RegistryFinite'  BY <2>6 DEF Small, RegistryFinite
  <2>8. RegistryAccounted'  BY <2>6 DEF Small, RegistryAccounted, Owed, Writing, InPipes, Boxes
  <2> QED  BY <2>3, <2>4, <2>5, <2>7, <2>8 DEF BridgeInv
<1>2. CASE UNCHANGED vars
  BY <1>2 DEF vars, callers, bridges, gateways, BridgeInv, TypeOK, MutexOwner, Owner, Outsider, ProcessOwned, IdsOwned,
              IdsFresh, IdOwned, NoReply, Boxes, RegistryFinite, Unused, Accepted, OwnAnswer, RegistryAccounted,
              HandshakeFirst
<1> QED  BY <1>1, <1>2

(* The inductive invariant of the bridge.                                  *)
THEOREM BridgeInvariance == Spec => []BridgeInv
BY InitInv, StepInv, PTL DEF Spec

(* RuntimeState runs at most one gateway process, whatever calls overlap   *)
(* and whenever processes die (Bridge::drop, RuntimeState::request).       *)
THEOREM AtMostOneGateway == Spec => []OneGateway
<1>1. BridgeInv => OneGateway  BY OneProcess DEF BridgeInv
<1> QED  BY <1>1, BridgeInvariance, PTL

(* Bridge::request and forward: a call is given its own answer, however    *)
(* late other answers come.                                                *)
THEOREM AnswersMatch == Spec => []OwnAnswer
<1>1. BridgeInv => OwnAnswer  BY DEF BridgeInv
<1> QED  BY <1>1, BridgeInvariance, PTL

(* Bridge.pending holds at most MAX_PENDING ids, each still to be answered.  *)
THEOREM RegistryKept == Spec => []RegistryAccounted
<1>1. BridgeInv => RegistryAccounted  BY DEF BridgeInv
<1> QED  BY <1>1, BridgeInvariance, PTL

(* RuntimeState::request uses a gateway only after its handshake.          *)
THEOREM HandshakeBeforeUse == Spec => []HandshakeFirst
<1>1. BridgeInv => HandshakeFirst  BY DEF BridgeInv
<1> QED  BY <1>1, BridgeInvariance, PTL
=============================================================================
