---------------------------- MODULE HubMembership ----------------------------
(***************************************************************************)
(* What the Hub of one gateway promises its users: a connection joins the  *)
(* set of online connections at most once, leaves it at most once, and     *)
(* never comes back; the index by user and the counters shown by /stats    *)
(* change in the same instant.  HubLifecycle, with its goroutines, channel *)
(* rendezvous and lock, is checked to implement this.                      *)
(***************************************************************************)
EXTENDS Integers, FiniteSets

CONSTANTS Conns,    \* connection objects (their uuid is never reused)
          Users,    \* authenticated user ids
          UserOf    \* the user each connection was authenticated as

VARIABLES status,   \* [Conns -> {"absent", "online", "gone"}]
          byUser,   \* the online connections of every online user
          active,   \* HubStats.ActiveConnections
          total     \* HubStats.TotalConnections

vars == <<status, byUser, active, total>>

Online == {c \in Conns : status[c] = "online"}

\* The connections of a set S, grouped by user; a user without any has no entry.
GroupByUser(S) == [u \in {UserOf[c] : c \in S} |-> {c \in S : UserOf[c] = u}]

Init == /\ status = [c \in Conns |-> "absent"]
        /\ byUser = GroupByUser({})
        /\ active = 0
        /\ total = 0

Join(c) == /\ status[c] = "absent"
           /\ status' = [status EXCEPT ![c] = "online"]
           /\ byUser' = GroupByUser(Online \cup {c})
           /\ active' = active + 1
           /\ total' = total + 1

Leave(c) == /\ status[c] = "online"
            /\ status' = [status EXCEPT ![c] = "gone"]
            /\ byUser' = GroupByUser(Online \ {c})
            /\ active' = active - 1
            /\ UNCHANGED total

Next == \E c \in Conns : Join(c) \/ Leave(c)

Spec == Init /\ [][Next]_vars
==============================================================================
