------------------------------ MODULE SendQueue ------------------------------
(***************************************************************************)
(* The send side of one Connection: SendMessage called by any number of    *)
(* goroutines (welcome, replies, pushes), the write pump that drains the   *)
(* channel Send, and Close.  sendMu is an RWMutex: senders hold it for     *)
(* reading from the check of closed to the end of the non-blocking send,   *)
(* Close holds it for writing while it sets closed and closes the channel. *)
(* A send on a closed channel and a second close are panics in Go.         *)
(***************************************************************************)
EXTENDS Naturals, Sequences, FiniteSets

CONSTANTS Senders,    \* goroutines that call SendMessage
          Capacity,   \* of the channel Send (256 in NewConnection)
          MaxSends    \* bound of the model: calls per sender

ASSUME CapacityAssumption == Capacity \in Nat \ {0}
ASSUME MaxSendsAssumption == MaxSends \in Nat

VARIABLES
  pc,        \* of each sender: "idle", "locked" (RLock held), "checked"
  sent,      \* calls made so far by each sender
  buffer,    \* the contents of the channel Send
  hand,      \* the message the write pump has received and not yet written
  wire,      \* the messages written to the socket
  closed,    \* Connection.closed
  chClosed,  \* the channel Send is closed
  once,      \* how far the body of closeOnce is
  pump,      \* the write pump
  panic      \* the process has panicked

vars == <<pc, sent, buffer, hand, wire, closed, chClosed, once, pump, panic>>

senderVars == <<pc, sent>>
closeVars == <<closed, chClosed, once>>
pumpVars == <<hand, wire, pump>>

Messages == Senders \X (1 .. MaxSends)
Message(p) == <<p, sent[p]>>

TypeOK ==
  /\ pc \in [Senders -> {"idle", "locked", "checked"}]
  /\ sent \in [Senders -> 0 .. MaxSends]
  /\ buffer \in Seq(Messages) /\ Len(buffer) <= Capacity
  /\ hand \in Seq(Messages) /\ Len(hand) <= 1
  /\ wire \in Seq(Messages)
  /\ closed \in BOOLEAN /\ chClosed \in BOOLEAN /\ panic \in BOOLEAN
  /\ once \in {"unused", "entered", "locked", "flagged", "released", "done"}
  /\ pump \in {"select", "writing", "returned"}

Init ==
  /\ pc = [p \in Senders |-> "idle"]
  /\ sent = [p \in Senders |-> 0]
  /\ buffer = <<>> /\ hand = <<>> /\ wire = <<>>
  /\ closed = FALSE /\ chClosed = FALSE /\ panic = FALSE
  /\ once = "unused" /\ pump = "select"

------------------------------------------------------------------------------
(* SendMessage.                                                            *)

WriteLocked == once \in {"locked", "flagged"}
ReadLocked == \E p \in Senders : pc[p] # "idle"

\* The message is marshalled and sendMu.RLock taken.
RLock(p) ==
  /\ pc[p] = "idle" /\ sent[p] < MaxSends /\ ~ WriteLocked
  /\ pc' = [pc EXCEPT ![p] = "locked"]
  /\ sent' = [sent EXCEPT ![p] = @ + 1]
  /\ UNCHANGED <<buffer, pumpVars, closeVars, panic>>

\* SendMessage returns, with or without an error, and releases sendMu.
Return(p) ==
  /\ pc' = [pc EXCEPT ![p] = "idle"]
  /\ UNCHANGED <<sent, pumpVars, closeVars>>

\* Mutant: closed is not checked.
CheckClosedNot(p) ==
  /\ pc[p] = "locked"
  /\ pc' = [pc EXCEPT ![p] = "checked"]
  /\ UNCHANGED <<sent, pumpVars, closeVars, buffer, panic>>

\* A closed connection refuses with ErrConnectionClosed.
CheckClosed(p) ==
  /\ pc[p] = "locked"
  /\ IF closed
     THEN Return(p)
     ELSE /\ pc' = [pc EXCEPT ![p] = "checked"]
          /\ UNCHANGED <<sent, pumpVars, closeVars>>
  /\ UNCHANGED <<buffer, panic>>

\* Mutant: no default case, the send waits for room.
TrySendBlocking(p) ==
  /\ pc[p] = "checked" /\ Len(buffer) < Capacity
  /\ buffer' = Append(buffer, Message(p))
  /\ Return(p)
  /\ panic' = (panic \/ chClosed)

\* Mutant: the mailbox grows without bound.
TrySendUnbounded(p) ==
  /\ pc[p] = "checked"
  /\ buffer' = Append(buffer, Message(p))
  /\ Return(p)
  /\ panic' = (panic \/ chClosed)

\* The select with a default case: it sends, or
\* refuses with ErrSendBufferFull, at once.
TrySend(p) ==
  /\ pc[p] = "checked"
  /\ buffer' = IF Len(buffer) < Capacity THEN Append(buffer, Message(p)) ELSE buffer
  /\ Return(p)
  /\ panic' = (panic \/ chClosed)

------------------------------------------------------------------------------
(* Close: any goroutine may call it, closeOnce runs its body once.         *)

Advance(from, to) == once = from /\ once' = to

CallClose == /\ Advance("unused", "entered")
             /\ UNCHANGED <<senderVars, buffer, pumpVars, closed, chClosed, panic>>

\* The deferred Close of a write pump that has returned; it waits if another
\* goroutine is in the body already.
DeferredClose == pump = "returned" /\ CallClose

\* Mutant: Close does not exclude the senders.
LockSendMuNot == /\ Advance("entered", "locked")
                 /\ UNCHANGED <<senderVars, buffer, pumpVars, closed, chClosed, panic>>

LockSendMu == /\ Advance("entered", "locked") /\ ~ ReadLocked
              /\ UNCHANGED <<senderVars, buffer, pumpVars, closed, chClosed, panic>>

SetClosed == /\ Advance("locked", "flagged")
             /\ closed' = TRUE
             /\ UNCHANGED <<senderVars, buffer, pumpVars, chClosed, panic>>

\* Mutant: only the flag is set, the channel stays open.
CloseSendNot == /\ Advance("flagged", "released")
                /\ UNCHANGED <<senderVars, buffer, pumpVars, closed, chClosed, panic>>

\* close(c.Send), then sendMu.Unlock.
CloseSend == /\ Advance("flagged", "released")
             /\ chClosed' = TRUE
             /\ panic' = (panic \/ chClosed)
             /\ UNCHANGED <<senderVars, buffer, pumpVars, closed>>

\* The Hub has received the Unregister and the socket is closed.
CloseSocket == /\ Advance("released", "done")
               /\ UNCHANGED <<senderVars, buffer, pumpVars, closed, chClosed, panic>>

------------------------------------------------------------------------------
(* WritePump.                                                              *)

\* Mutant: queued messages are taken along with the first and lost.
PumpReceivesAll ==
  /\ pump = "select" /\ buffer # <<>>
  /\ hand' = <<Head(buffer)>> /\ buffer' = <<>>
  /\ pump' = "writing"
  /\ UNCHANGED <<senderVars, wire, closeVars, panic>>

PumpReceives ==
  /\ pump = "select" /\ buffer # <<>>
  /\ hand' = <<Head(buffer)>> /\ buffer' = Tail(buffer)
  /\ pump' = "writing"
  /\ UNCHANGED <<senderVars, wire, closeVars, panic>>

PumpWrites ==
  /\ pump = "writing" /\ once # "done"
  /\ wire' = wire \o hand /\ hand' = <<>>
  /\ pump' = "select"
  /\ UNCHANGED <<senderVars, buffer, closeVars, panic>>

\* A write fails; the message in hand is lost.
WriteFails ==
  /\ pump = "writing"
  /\ pump' = "returned"
  /\ UNCHANGED <<senderVars, buffer, hand, wire, closeVars, panic>>

\* A ping fails.
PingFails ==
  /\ pump = "select"
  /\ pump' = "returned"
  /\ UNCHANGED <<senderVars, buffer, hand, wire, closeVars, panic>>

\* Send is closed and empty: a close frame, and the pump is done.
PumpDrained ==
  /\ pump = "select" /\ buffer = <<>> /\ chClosed
  /\ pump' = "returned"
  /\ UNCHANGED <<senderVars, buffer, hand, wire, closeVars, panic>>

------------------------------------------------------------------------------
Send(p) == RLock(p) \/ CheckClosed(p) \/ TrySend(p)
Close == CallClose \/ DeferredClose \/ LockSendMu \/ SetClosed \/ CloseSend \/ CloseSocket
WritePump == PumpReceives \/ PumpWrites \/ WriteFails \/ PingFails \/ PumpDrained

Next == (\E p \in Senders : Send(p)) \/ Close \/ WritePump

\* Goroutines that can run do run, and every write ends within writeWait, well
\* or badly.  Nobody need call Close or SendMessage.  LockSendMu needs strong
\* fairness: a waiting sendMu.Lock keeps later senders out.
Fairness ==
  /\ \A p \in Senders : WF_vars(CheckClosed(p)) /\ WF_vars(TrySend(p))
  /\ WF_vars(DeferredClose) /\ SF_vars(LockSendMu) /\ WF_vars(SetClosed)
  /\ WF_vars(CloseSend) /\ WF_vars(CloseSocket)
  /\ WF_vars(PumpReceives) /\ WF_vars(PumpWrites \/ WriteFails) /\ WF_vars(PumpDrained)

Spec == Init /\ [][Next]_vars
FairSpec == Spec /\ Fairness

------------------------------------------------------------------------------
\* No interleaving of senders and closers sends on the closed channel or closes
\* it twice; either would take down every connection of the gateway.
NoPanic == ~ panic

\* Messages reach the socket in the order in which SendMessage accepted them,
\* none twice, none invented, none accepted after Close; a full or closed
\* mailbox refuses.
accepted == wire \o hand \o buffer
Box == INSTANCE Mailbox WITH open <- ~ closed
ImplementsMailbox == Box!Spec

\* SendMessage never waits for a slow client: every call returns, whatever the
\* pump does and however full the buffer is.
SendReturns == \A p \in Senders : pc[p] # "idle" ~> pc[p] = "idle"

\* Every accepted message is written, or the connection ends.
AcceptedIsWritten ==
  \A m \in Messages :
    (\E i \in DOMAIN buffer : buffer[i] = m)
      ~> (\E i \in DOMAIN wire : wire[i] = m) \/ pump = "returned"

\* Once anyone has called Close, the mailbox is shut and the pump returns.
CloseCompletes == once = "entered" ~> closed /\ chClosed /\ pump = "returned"
==============================================================================
