----------------------------- MODULE MCPresence ------------------------------
(* One or two devices of one user, one push at a time. *)
EXTENDS Presence

CONSTANTS c1, c2, u1, q1

OneConn == {c1}
TwoConns == {c1, c2}
OneUser == {u1}
OnePusher == {q1}
SameUser == [c \in Conns |-> u1]
==============================================================================
