--------------------------- MODULE MCHubLifecycle ----------------------------
(* Small gateways for HubLifecycle. *)
EXTENDS HubLifecycle

CONSTANTS c1, c2, u1, u2

OneConn == {c1}
TwoConns == {c1, c2}
TwoUsers == {u1, u2}

\* Every connection is one more device of the same user: the user's entry must
\* outlive the first of them and not the last.
OneUser == [c \in Conns |-> u2]
==============================================================================
