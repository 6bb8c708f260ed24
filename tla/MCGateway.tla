------------------------------ MODULE MCGateway -------------------------------
(* A gateway with two devices of one user, and a few configuration files. *)
EXTENDS Gateway

CONSTANTS c1, c2, u1, u2,
          Restless   \* connections whose clients do as they please

TwoConns == {c1, c2}
TwoUsers == {u1, u2}
OneUser == [c \in Conns |-> u2]

SomeDurations == {-30, 0, 1, 20, 59, 60, 90}

\* The other clients only listen: they get in, send nothing, stay, and take what is
\* written.
\* And two instances in one run: the heartbeat sweeps where no frame is refreshed.
Listens(c) == handler[c] # "rejected" /\ client[c] = "active" /\ refresh[c] = "none"
TakesWrites(c) == closing[c] = "open" => writer'[c] # "closing"
BeatOrRefresh ==
  sweepPc["beat"] \in {"locked", "closing"} => \A c \in Conns : refresh[c] = "none"

MCNext ==
  /\ GNext
  /\ BeatOrRefresh'
  /\ \A c \in Conns \ Restless : Listens(c)' /\ TakesWrites(c)

MCSpec == GInit /\ [][MCNext]_gvars /\ GFairness
==============================================================================
