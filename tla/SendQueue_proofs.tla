-------------------------- MODULE SendQueue_proofs ---------------------------
(***************************************************************************)
(* Proofs about SendQueue, for any number of senders and any capacity: the *)
(* lock sendMu keeps the process from panicking, and the connection is a   *)
(* Mailbox.                                                                *)
(***************************************************************************)
EXTENDS SendQueue, SequenceTheorems, TLAPS

\* What the lock protects: a writer in the critical section excludes the
\* senders, closed and the closed channel follow the progress of the one body
\* of Close, and a sender that has passed the check sees an open mailbox.
LockInv ==
  /\ WriteLocked => ~ ReadLocked
  /\ closed <=> once \in {"flagged", "released", "done"}
  /\ chClosed => once \in {"released", "done"}
  /\ \A p \in Senders : pc[p] = "checked" => ~ closed

\* A sender inside SendMessage is sending its message number sent[p].
SentInv == \A p \in Senders : pc[p] # "idle" => sent[p] \in 1 .. MaxSends

\* The write pump holds a message exactly while it writes one, or has failed to.
HandInv == /\ pump = "select" => hand = <<>>
           /\ pump = "writing" => Len(hand) = 1

QueueInv == TypeOK /\ LockInv /\ SentInv /\ HandInv /\ NoPanic

------------------------------------------------------------------------------
(* The inductive invariant.                                                *)

\* A new connection: an empty, open mailbox and nobody in SendMessage.
LEMMA InitQueueInv == Init => QueueInv
<1> SUFFICES ASSUME Init PROVE QueueInv
  OBVIOUS
<1> USE DEF Init
<1>1. TypeOK
  <2>1. <<>> \in Seq(Messages) /\ Len(<<>>) = 0
    OBVIOUS
  <2>2. 0 <= Capacity /\ 0 \in 0 .. MaxSends
    BY CapacityAssumption, MaxSendsAssumption
  <2>3. /\ pc \in [Senders -> {"idle", "locked", "checked"}]
        /\ sent \in [Senders -> 0 .. MaxSends]
    BY <2>2
  <2>4. /\ buffer \in Seq(Messages) /\ Len(buffer) <= Capacity
        /\ hand \in Seq(Messages) /\ Len(hand) <= 1
        /\ wire \in Seq(Messages)
    BY <2>1, <2>2
  <2>5. closed \in BOOLEAN /\ chClosed \in BOOLEAN /\ panic \in BOOLEAN
    BY Zenon
  <2> QED
    BY <2>3, <2>4, <2>5, Zenon DEF TypeOK
<1>2. LockInv
  BY DEF LockInv, WriteLocked
<1>3. SentInv /\ HandInv /\ NoPanic
  BY DEF SentInv, HandInv, NoPanic
<1> QED
  BY <1>1, <1>2, <1>3 DEF QueueInv

\* The message a sender is about to put into the channel is a message.
LEMMA MessageType ==
  ASSUME QueueInv, NEW p \in Senders, pc[p] # "idle"
  PROVE  Message(p) \in Messages
BY DEF QueueInv, SentInv, Message, Messages

\* Every step of SendMessage preserves the invariant; TrySend does not panic
\* because a checked sender keeps Close out of its critical section.
LEMMA SendQueueInv ==
  ASSUME QueueInv, NEW p \in Senders, Send(p)
  PROVE  QueueInv'
<1> USE DEF QueueInv
<1>1. CASE RLock(p)
  <2> USE <1>1 DEF RLock, pumpVars, closeVars
  <2>1. TypeOK'
    BY MaxSendsAssumption DEF TypeOK
  <2>2. LockInv'
    BY DEF LockInv, WriteLocked, ReadLocked, TypeOK
  <2>3. SentInv'
    BY MaxSendsAssumption DEF SentInv, TypeOK
  <2> QED
    BY <2>1, <2>2, <2>3 DEF HandInv, NoPanic
<1>2. CASE CheckClosed(p)
  <2> USE <1>2 DEF CheckClosed, Return, pumpVars, closeVars
  <2>1. TypeOK'
    BY DEF TypeOK
  <2>2. LockInv'
    BY DEF LockInv, WriteLocked, ReadLocked, TypeOK
  <2>3. SentInv'
    BY DEF SentInv, TypeOK
  <2> QED
    BY <2>1, <2>2, <2>3 DEF HandInv, NoPanic
<1>3. CASE TrySend(p)
  <2> USE <1>3 DEF TrySend, Return, pumpVars, closeVars
  <2>1. buffer' \in Seq(Messages) /\ Len(buffer') <= Capacity
    BY MessageType, CapacityAssumption DEF TypeOK
  <2>2. ~ chClosed
    BY DEF LockInv
  <2>3. TypeOK'
    BY <2>1, <2>2 DEF TypeOK, NoPanic
  <2>4. LockInv'
    BY DEF LockInv, WriteLocked, ReadLocked, TypeOK
  <2>5. SentInv'
    BY DEF SentInv, TypeOK
  <2> QED
    BY <2>2, <2>3, <2>4, <2>5 DEF HandInv, NoPanic
<1> QED
  BY <1>1, <1>2, <1>3 DEF Send

\* Every step of Close preserves the invariant; the channel is closed once.
LEMMA CloseQueueInv ==
  ASSUME QueueInv, Close
  PROVE  QueueInv'
<1> USE DEF QueueInv, Advance, senderVars, pumpVars
<1>1. UNCHANGED <<senderVars, buffer, pumpVars>> /\ panic' \in BOOLEAN
      /\ closed' \in BOOLEAN /\ chClosed' \in BOOLEAN
  BY DEF Close, CallClose, DeferredClose, LockSendMu, SetClosed, CloseSend, CloseSocket, TypeOK
<1>2. once' \in {"unused", "entered", "locked", "flagged", "released", "done"}
  BY DEF Close, CallClose, DeferredClose, LockSendMu, SetClosed, CloseSend, CloseSocket
<1>3. TypeOK' /\ SentInv' /\ HandInv'
  BY <1>1, <1>2 DEF TypeOK, SentInv, HandInv
<1>4. LockInv' /\ NoPanic'
  <2>1. CASE CallClose \/ DeferredClose
    BY <2>1 DEF CallClose, DeferredClose, LockInv, NoPanic, WriteLocked, ReadLocked
  <2>2. CASE LockSendMu
    BY <2>2 DEF LockSendMu, LockInv, NoPanic, WriteLocked, ReadLocked
  <2>3. CASE SetClosed
    BY <2>3 DEF SetClosed, LockInv, NoPanic, WriteLocked, ReadLocked
  <2>4. CASE CloseSend
    BY <2>4 DEF CloseSend, LockInv, NoPanic, WriteLocked, ReadLocked
  <2>5. CASE CloseSocket
    BY <2>5 DEF CloseSocket, LockInv, NoPanic, WriteLocked, ReadLocked
  <2> QED
    BY <2>1, <2>2, <2>3, <2>4, <2>5 DEF Close
<1> QED
  BY <1>3, <1>4

\* The pump takes and writes messages and leaves the lock alone.
LEMMA PumpQueueInv ==
  ASSUME QueueInv, WritePump
  PROVE  QueueInv'
<1> USE DEF QueueInv, senderVars, closeVars
<1>1. UNCHANGED <<senderVars, closeVars, panic>>
  BY DEF WritePump, PumpReceives, PumpWrites, WriteFails, PingFails, PumpDrained
<1>2. LockInv' /\ SentInv' /\ NoPanic'
  BY <1>1 DEF LockInv, SentInv, NoPanic, WriteLocked, ReadLocked
<1>3. TypeOK' /\ HandInv'
  <2>1. CASE PumpReceives
    <3>1. Head(buffer) \in Messages /\ Tail(buffer) \in Seq(Messages)
          /\ Len(Tail(buffer)) <= Capacity
      BY <2>1, CapacityAssumption DEF PumpReceives, TypeOK
    <3> QED
      BY <1>1, <2>1, <3>1 DEF PumpReceives, TypeOK, HandInv
  <2>2. CASE PumpWrites
    <3>1. wire' \in Seq(Messages)
      BY <2>2 DEF PumpWrites, TypeOK
    <3> QED
      BY <1>1, <2>2, <3>1 DEF PumpWrites, TypeOK, HandInv
  <2>3. CASE WriteFails \/ PingFails \/ PumpDrained
    BY <1>1, <2>3 DEF WriteFails, PingFails, PumpDrained, TypeOK, HandInv
  <2> QED
    BY <2>1, <2>2, <2>3 DEF WritePump
<1> QED
  BY <1>2, <1>3

\* The invariant is inductive.
LEMMA NextQueueInv == QueueInv /\ [Next]_vars => QueueInv'
<1> SUFFICES ASSUME QueueInv, [Next]_vars PROVE QueueInv'
  OBVIOUS
<1>1. CASE UNCHANGED vars
  BY <1>1 DEF vars, QueueInv, TypeOK, LockInv, SentInv, HandInv, NoPanic, WriteLocked, ReadLocked
<1>2. CASE Next
  BY <1>2, SendQueueInv, CloseQueueInv, PumpQueueInv DEF Next
<1> QED
  BY <1>1, <1>2

\* Every reachable state satisfies the invariant.
THEOREM QueueInvariant == Spec => []QueueInv
BY InitQueueInv, NextQueueInv, PTL DEF Spec

\* Every variable keeps its type; in particular the buffer never exceeds the
\* capacity of the channel.
THEOREM QueueTypeCorrect == Spec => []TypeOK
<1>1. QueueInv => TypeOK
  BY DEF QueueInv
<1> QED
  BY <1>1, QueueInvariant, PTL

\* No number of senders makes the process send on the closed channel, or close
\* it twice.
THEOREM NeverPanics == Spec => []NoPanic
<1>1. QueueInv => NoPanic
  BY DEF QueueInv
<1> QED
  BY <1>1, QueueInvariant, PTL

------------------------------------------------------------------------------
(* Refinement: the connection is a Mailbox.                                *)

\* What is accepted grows at its end when a message enters the buffer.
LEMMA AppendAtEnd ==
  ASSUME NEW M, NEW w \in Seq(M), NEW h \in Seq(M), NEW b \in Seq(M), NEW m \in M
  PROVE  w \o h \o Append(b, m) = Append(w \o h \o b, m)
OBVIOUS

\* Receiving moves the head of the buffer into the hand of the pump.
LEMMA ReceiveKeeps ==
  ASSUME NEW M, NEW w \in Seq(M), NEW b \in Seq(M), b # <<>>
  PROVE  w \o <<Head(b)>> \o Tail(b) = w \o <<>> \o b
OBVIOUS

\* Writing moves the message in hand to the end of the wire.
LEMMA WriteKeeps ==
  ASSUME NEW M, NEW w \in Seq(M), NEW h \in Seq(M), NEW b \in Seq(M), Len(h) = 1
  PROVE  /\ (w \o h) \o <<>> \o b = w \o h \o b
         /\ w \o h = Append(w, (w \o h \o b)[Len(w) + 1])
         /\ Len(w) < Len(w \o h \o b)
<1>1. (w \o h) \o <<>> \o b = w \o h \o b
  OBVIOUS
<1>2. h = <<h[1]>> /\ h[1] \in M
  <2>1. h[1] \in M
    BY 1 \in 1 .. Len(h), ElementOfSeq
  <2>2. <<h[1]>> \in Seq(M) /\ Len(<<h[1]>>) = 1 /\ <<h[1]>>[1] = h[1]
    BY <2>1
  <2> QED
    BY <2>1, <2>2, SeqEqual
<1>5. (w \o h \o b)[Len(w) + 1] = h[1]
  <2>1. w \o h \in Seq(M) /\ Len(w \o h) = Len(w) + 1 /\ Len(w) \in Nat
    <3>1. w \o h \in Seq(M) /\ Len(w \o h) = Len(w) + Len(h)
      BY ConcatProperties
    <3>2. Len(w) \in Nat
      BY LenProperties
    <3> QED
      BY <3>1, <3>2
  <2>2. (w \o h \o b)[Len(w) + 1] = (w \o h)[Len(w) + 1]
    BY <2>1, ConcatProperties
  <2>3. (w \o h)[Len(w) + 1] = h[1]
    BY <2>1, ConcatProperties
  <2> QED
    BY <2>2, <2>3
<1>3. w \o <<h[1]>> = Append(w, h[1])
  BY <1>2
<1>4. Len(w) < Len(w \o h \o b)
  OBVIOUS
<1> QED
  BY <1>1, <1>2, <1>3, <1>4, <1>5

\* The initial mailbox is empty and open.
LEMMA InitBox == Init => Box!Init
BY DEF Init, Box!Init, accepted

\* Every step maps to a step of Mailbox or to a stutter: the send of TrySend to
\* Accept, PumpWrites to Deliver, SetClosed to Shut.
LEMMA NextBox == QueueInv /\ [Next]_vars => [Box!Next]_Box!vars
<1> SUFFICES ASSUME QueueInv, [Next]_vars PROVE [Box!Next]_Box!vars
  OBVIOUS
<1> USE DEF QueueInv
<1>0. wire \in Seq(Messages) /\ hand \in Seq(Messages) /\ buffer \in Seq(Messages)
  BY DEF TypeOK
<1>1. ASSUME UNCHANGED <<buffer, hand, wire, closed>> PROVE UNCHANGED Box!vars
  BY <1>1 DEF Box!vars, accepted
<1>2. CASE UNCHANGED vars
  BY <1>1, <1>2 DEF vars
<1>3. ASSUME NEW p \in Senders, Send(p) PROVE [Box!Next]_Box!vars
  <2>1. CASE RLock(p) \/ CheckClosed(p)
    BY <1>1, <2>1 DEF RLock, CheckClosed, Return, pumpVars, closeVars
  <2>2. CASE TrySend(p) /\ Len(buffer) < Capacity
    <3>1. Message(p) \in Messages
      BY <2>2, MessageType DEF TrySend
    <3>2. accepted' = Append(accepted, Message(p)) /\ UNCHANGED <<wire, closed>>
      BY <1>0, <2>2, <3>1, AppendAtEnd DEF TrySend, Return, pumpVars, closeVars, accepted
    <3>3. Len(accepted) - Len(wire) <= Capacity
      BY <1>0, <2>2, CapacityAssumption DEF accepted, TypeOK
    <3>4. ~ closed
      BY <2>2 DEF TrySend, LockInv
    <3>5. Box!Accept(Message(p))
      BY <3>2, <3>3, <3>4 DEF Box!Accept
    <3> QED
      BY <3>1, <3>5 DEF Box!Next
  <2>3. CASE TrySend(p) /\ ~ Len(buffer) < Capacity
    BY <1>1, <2>3 DEF TrySend, Return, pumpVars, closeVars
  <2> QED
    BY <1>3, <2>1, <2>2, <2>3 DEF Send
<1>4. ASSUME Close PROVE [Box!Next]_Box!vars
  <2>1. CASE SetClosed
    <3>1. ~ closed
      BY <2>1 DEF SetClosed, Advance, LockInv
    <3>2. Box!Shut
      BY <2>1, <3>1 DEF SetClosed, pumpVars, Box!Shut, accepted
    <3> QED
      BY <3>2 DEF Box!Next
  <2>2. CASE CallClose \/ DeferredClose \/ LockSendMu \/ CloseSend \/ CloseSocket
    BY <1>1, <2>2 DEF CallClose, DeferredClose, LockSendMu, CloseSend, CloseSocket, pumpVars
  <2> QED
    BY <1>4, <2>1, <2>2 DEF Close
<1>5. ASSUME WritePump PROVE [Box!Next]_Box!vars
  <2>1. CASE PumpReceives
    <3>1. accepted' = accepted
      BY <1>0, <2>1, ReceiveKeeps DEF PumpReceives, accepted, HandInv
    <3> QED
      BY <2>1, <3>1 DEF PumpReceives, closeVars, Box!vars
  <2>2. CASE PumpWrites
    <3>1. /\ accepted' = accepted
          /\ wire' = Append(wire, accepted[Len(wire) + 1])
          /\ Len(wire) < Len(accepted)
      BY <1>0, <2>2, WriteKeeps DEF PumpWrites, accepted, HandInv
    <3>2. Box!Deliver
      BY <2>2, <3>1 DEF PumpWrites, closeVars, Box!Deliver
    <3> QED
      BY <3>2 DEF Box!Next
  <2>3. CASE WriteFails \/ PingFails \/ PumpDrained
    BY <1>1, <2>3 DEF WriteFails, PingFails, PumpDrained, closeVars
  <2> QED
    BY <1>5, <2>1, <2>2, <2>3 DEF WritePump
<1> QED
  BY <1>2, <1>3, <1>4, <1>5 DEF Next

\* The connection implements the mailbox: messages reach the socket in the order
\* of acceptance, each once, and none is accepted after Close.
THEOREM QueueImplementsMailbox == Spec => ImplementsMailbox
<1>1. Spec => Box!Init /\ [][Box!Next]_Box!vars
  BY InitBox, NextBox, QueueInvariant, PTL DEF Spec
<1> QED
  BY <1>1 DEF ImplementsMailbox, Box!Spec

------------------------------------------------------------------------------
(* What a sender can rely on: its own messages keep their order.           *)

\* The messages of each sender have increasing numbers: none is out of order, and
\* none appears twice.
InSenderOrder(S) ==
  \A i, j \in 1 .. Len(S) : i < j /\ S[i][1] = S[j][1] => S[i][2] < S[j][2]

\* What was accepted has been sent, and a call under way is not among it yet.
Issued(m) == /\ m[2] <= sent[m[1]]
             /\ pc[m[1]] # "idle" => m[2] < sent[m[1]]

OrderInv == InSenderOrder(accepted) /\ \A i \in 1 .. Len(accepted) : Issued(accepted[i])

\* The part of a sequence that was put in front is in order when the whole is.
LEMMA PrefixInOrder ==
  ASSUME NEW M, NEW S \in Seq(M), NEW T \in Seq(M), InSenderOrder(S \o T)
  PROVE  InSenderOrder(S)
BY DEF InSenderOrder

\* A message with a number above all of its sender's keeps the order.
LEMMA AppendInOrder ==
  ASSUME NEW S \in Seq(Messages), NEW m \in Messages, InSenderOrder(S),
         \A i \in 1 .. Len(S) : S[i][1] = m[1] => S[i][2] < m[2]
  PROVE  InSenderOrder(Append(S, m))
BY DEF InSenderOrder

\* What is accepted changes only when a sender past its check finds room: its message
\* comes last, and its call is over.
LEMMA AcceptedSteps ==
  ASSUME QueueInv, [Next]_vars
  PROVE  /\ accepted \in Seq(Messages)
         /\ \/ /\ accepted' = accepted
               /\ \A p \in Senders :
                    \/ sent'[p] = sent[p] /\ (pc'[p] # "idle" => pc[p] # "idle")
                    \/ sent'[p] = sent[p] + 1
            \/ \E p \in Senders :
                 /\ pc[p] # "idle" /\ Message(p) \in Messages
                 /\ accepted' = Append(accepted, Message(p))
                 /\ sent' = sent /\ pc' = [pc EXCEPT ![p] = "idle"]
<1> USE DEF QueueInv
<1>0. wire \in Seq(Messages) /\ hand \in Seq(Messages) /\ buffer \in Seq(Messages)
  BY DEF TypeOK
<1>1. accepted \in Seq(Messages)
  BY <1>0 DEF accepted
<1>2. ASSUME NEW p \in Senders, RLock(p)
      PROVE  /\ accepted' = accepted
             /\ \A q \in Senders : \/ sent'[q] = sent[q] /\ pc'[q] = pc[q]
                                   \/ sent'[q] = sent[q] + 1
  BY <1>2 DEF RLock, pumpVars, accepted, TypeOK
<1>3. ASSUME NEW p \in Senders, CheckClosed(p)
      PROVE  /\ accepted' = accepted /\ sent' = sent
             /\ \A q \in Senders : pc'[q] # "idle" => pc[q] # "idle"
  BY <1>3 DEF CheckClosed, Return, pumpVars, accepted, TypeOK
<1>4. ASSUME NEW p \in Senders, TrySend(p), Len(buffer) < Capacity
      PROVE  /\ pc[p] # "idle" /\ Message(p) \in Messages
             /\ accepted' = Append(accepted, Message(p))
             /\ sent' = sent /\ pc' = [pc EXCEPT ![p] = "idle"]
  <2>1. Message(p) \in Messages
    BY <1>4, MessageType DEF TrySend
  <2> QED BY <1>0, <1>4, <2>1, AppendAtEnd DEF TrySend, Return, pumpVars, accepted
<1>5. ASSUME NEW p \in Senders, TrySend(p), ~ Len(buffer) < Capacity
      PROVE  /\ accepted' = accepted /\ sent' = sent
             /\ \A q \in Senders : pc'[q] # "idle" => pc[q] # "idle"
  BY <1>5 DEF TrySend, Return, pumpVars, accepted, TypeOK
<1>6. ASSUME Close PROVE accepted' = accepted /\ UNCHANGED senderVars
  BY <1>6 DEF Close, CallClose, DeferredClose, LockSendMu, SetClosed, CloseSend, CloseSocket,
              pumpVars, accepted
<1>7. ASSUME WritePump PROVE accepted' = accepted /\ UNCHANGED senderVars
  <2>1. CASE PumpReceives
    BY <1>0, <2>1, ReceiveKeeps DEF PumpReceives, accepted, HandInv
  <2>2. CASE PumpWrites
    BY <1>0, <2>2, WriteKeeps DEF PumpWrites, accepted, HandInv
  <2>3. CASE WriteFails \/ PingFails \/ PumpDrained
    BY <2>3 DEF WriteFails, PingFails, PumpDrained, accepted
  <2> QED BY <1>7, <2>1, <2>2, <2>3 DEF WritePump
<1>8. CASE UNCHANGED vars
  BY <1>1, <1>8 DEF vars, accepted
<1> QED
  BY <1>1, <1>2, <1>3, <1>4, <1>5, <1>6, <1>7, <1>8 DEF Next, Send, senderVars

\* The order is inductive: a call is accepted once, with its own number.
LEMMA NextOrderInv == QueueInv /\ OrderInv /\ [Next]_vars => OrderInv'
<1> SUFFICES ASSUME QueueInv, OrderInv, [Next]_vars PROVE OrderInv'
  OBVIOUS
<1>1. accepted \in Seq(Messages)
  BY AcceptedSteps
<1>2. /\ \A i \in 1 .. Len(accepted) : accepted[i] \in Messages
      /\ sent \in [Senders -> Nat] /\ pc \in [Senders -> {"idle", "locked", "checked"}]
  BY <1>1, MaxSendsAssumption DEF QueueInv, TypeOK
<1>3. \A m \in Messages : m[1] \in Senders /\ m[2] \in Nat
  BY MaxSendsAssumption DEF Messages
<1>4. CASE accepted' = accepted /\ \A p \in Senders :
             \/ sent'[p] = sent[p] /\ (pc'[p] # "idle" => pc[p] # "idle")
             \/ sent'[p] = sent[p] + 1
  BY <1>2, <1>3, <1>4 DEF OrderInv, Issued
<1>5. ASSUME NEW p \in Senders, pc[p] # "idle", Message(p) \in Messages,
             accepted' = Append(accepted, Message(p)), sent' = sent,
             pc' = [pc EXCEPT ![p] = "idle"]
      PROVE  OrderInv'
  <2>1. Message(p)[1] = p /\ Message(p)[2] = sent[p]
    BY DEF Message
  <2>2. \A i \in 1 .. Len(accepted) : accepted[i][1] = p => accepted[i][2] < sent[p]
    BY <1>5 DEF OrderInv, Issued
  <2>3. InSenderOrder(accepted')
    BY <1>1, <1>5, <2>1, <2>2, AppendInOrder DEF OrderInv
  <2>4. \A m \in Messages : Issued(m) => Issued(m)'
    BY <1>2, <1>3, <1>5 DEF Issued
  <2>5. /\ sent[p] <= sent'[p]
        /\ pc'[p] = "idle"
    BY <1>2, <1>5
  <2>6. \A i \in 1 .. Len(accepted') :
          (i \in 1 .. Len(accepted) /\ accepted'[i] = accepted[i]) \/ accepted'[i] = Message(p)
    BY <1>1, <1>5
  <2>7. ASSUME NEW i \in 1 .. Len(accepted')
        PROVE  /\ accepted'[i][2] <= sent'[accepted'[i][1]]
               /\ pc'[accepted'[i][1]] # "idle" => accepted'[i][2] < sent'[accepted'[i][1]]
    <3>1. CASE i \in 1 .. Len(accepted) /\ accepted'[i] = accepted[i]
      BY <1>2, <2>4, <3>1 DEF OrderInv, Issued
    <3>2. CASE accepted'[i] = Message(p)
      BY <2>1, <2>5, <3>2
    <3> QED BY <2>6, <3>1, <3>2
  <2> QED BY <2>3, <2>7 DEF OrderInv, InSenderOrder, Issued
<1> QED BY <1>4, <1>5, AcceptedSteps

LEMMA OrderInvariance == Spec => []OrderInv
<1>1. Init => OrderInv
  BY DEF Init, OrderInv, InSenderOrder, accepted
<1> QED BY <1>1, NextOrderInv, QueueInvariant, PTL DEF Spec

\* Messages of one goroutine reach the client in the order it sent them, none twice.
WireInSenderOrder == InSenderOrder(wire)

\* However many goroutines send, however full the buffer and whenever the connection is
\* closed, the socket shows the messages of each goroutine in the order of its calls.
THEOREM SendersKeepTheirOrder == Spec => []WireInSenderOrder
<1>1. QueueInv /\ OrderInv => WireInSenderOrder
  <2> SUFFICES ASSUME QueueInv, OrderInv PROVE InSenderOrder(wire)
    BY DEF WireInSenderOrder
  <2>1. wire \in Seq(Messages) /\ hand \o buffer \in Seq(Messages)
    BY DEF QueueInv, TypeOK
  <2>2. accepted = wire \o (hand \o buffer)
    BY DEF accepted, QueueInv, TypeOK
  <2> QED BY <2>1, <2>2, PrefixInOrder DEF OrderInv
<1> QED BY <1>1, QueueInvariant, OrderInvariance, PTL
==============================================================================
