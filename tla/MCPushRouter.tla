---------------------------- MODULE MCPushRouter -----------------------------
(* A caller on one gateway, its user's connections on that one and on others. *)
EXTENDS PushRouter

CONSTANTS c1, c2, c3, g1, g2, g3, q1

ThreeConns == {c1, c2, c3}
TwoGateways == {g1, g2}
ThreeGateways == {g1, g2, g3}
OneCaller == {q1}

\* c1 is on the gateway of the caller, every other connection on the other one.
OneLocal == [c \in Conns |-> IF c = c1 THEN g1 ELSE g2]
\* One connection on each gateway.
OneEach == [c \in Conns |-> CASE c = c1 -> g1 [] c = c2 -> g2 [] OTHER -> g3]
CallerOnFirst == [q \in Callers |-> g1]

\* The advertised address carries the WebSocket port, the RPC server listens on
\* 8956: nobody answers.
NoGateway == {}
==============================================================================
