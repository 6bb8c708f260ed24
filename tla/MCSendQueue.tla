---------------------------- MODULE MCSendQueue ------------------------------
(* Two senders of three messages each and a buffer of two: the buffer fills,
   drains and is closed while both are inside SendMessage. *)
EXTENDS SendQueue

CONSTANTS s1, s2
TwoSenders == {s1, s2}
==============================================================================
