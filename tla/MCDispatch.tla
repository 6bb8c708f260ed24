------------------------------ MODULE MCDispatch ------------------------------
(* One connection with two messages, two replicas of a service, one query. *)
EXTENDS Dispatch

CONSTANTS r1, r2, w1, w2, q1, m1, u1, u2

TwoRequests == {r1, r2}
TwoWriters == {w1, w2}
OneQuery == {q1}
OneMethod == {m1}

\* The whole service, or one method beside a blank name.
SomeLists == {{}, {m1, Blank}}

Plain(type) == [type |-> type, method |-> Blank, user |-> NoUser, keys |-> {}]
SomeFrames ==
  {Plain(t) : t \in {"garbage", "", "heartbeat", "push", "request"}}
    \cup {[Plain("request") EXCEPT !.method = m1]}
    \cup {[Plain("auth") EXCEPT !.user = u, !.keys = k] :
            u \in {u1, u2}, k \in {{"token", "platform"}}}

\* Right, wrong prefix, no user behind the prefix, another user in the query.
SomeHandshakes ==
  {[prefix |-> "uid:", body |-> u1, query |-> NoUser],
   [prefix |-> "", body |-> u1, query |-> u1],
   [prefix |-> "mock:", body |-> NoUser, query |-> NoUser],
   [prefix |-> "user:", body |-> u1, query |-> u2]}

\* Two instances in one run: while the connection is open, one writer works
\* without fault and nobody else asks; before that, and when the handshake was
\* refused, both writers and the query do what they can.
NarrowWhenOpen ==
  phase = "open" => faults = 0 /\ op[w2] = "idle" /\ look[q1] = "none"

MCNext ==
  \/ RegistryNext /\ UNCHANGED dispatchVars /\ NarrowWhenOpen'
  \/ \E h \in Handshakes : Connect(h) /\ NarrowWhenOpen'
  \/ \E m \in Requests : MessageNext(m)
  \/ MailboxMoves

MCSpec == Init /\ [][MCNext]_vars /\ Fairness
==============================================================================
