------------------------------- MODULE Mailbox -------------------------------
(***************************************************************************)
(* What Connection promises its senders: a closable, bounded FIFO mailbox. *)
(* A message is either accepted or refused on the spot; accepted messages  *)
(* reach the socket in the order of acceptance, each at most once; after   *)
(* the mailbox is shut nothing is accepted any more.                       *)
(***************************************************************************)
EXTENDS Naturals, Sequences

CONSTANTS Messages, Capacity

VARIABLES accepted, wire, open

vars == <<accepted, wire, open>>

Init == accepted = <<>> /\ wire = <<>> /\ open = TRUE

\* The buffer holds Capacity messages, the write pump one more.
Accept(m) == /\ open
             /\ Len(accepted) - Len(wire) <= Capacity
             /\ accepted' = Append(accepted, m)
             /\ UNCHANGED <<wire, open>>

Deliver == /\ Len(wire) < Len(accepted)
           /\ wire' = Append(wire, accepted[Len(wire) + 1])
           /\ UNCHANGED <<accepted, open>>

Shut == open /\ open' = FALSE /\ UNCHANGED <<accepted, wire>>

Next == (\E m \in Messages : Accept(m)) \/ Deliver \/ Shut

Spec == Init /\ [][Next]_vars
==============================================================================
