------------------------------- MODULE Delivery -------------------------------
(***************************************************************************)
(* What a push promises its caller.  A message is handed to a connection   *)
(* at most once, and only while the connection is in its Hub; it may be    *)
(* handed over after the answer, by a gateway whose reply came too late.   *)
(* The answer is given once and is true: a success counts connections that *)
(* took the message; a quiet answer ("nobody there", "only stale routes")  *)
(* means that no connection was there all the time, that none has the      *)
(* message and that none will get it, so the caller can keep it for later  *)
(* without a duplicate.  A failure promises nothing, and neither does the  *)
(* answer of Broadcast, a success that counts nobody ("ANNOUNCED" here).   *)
(* PushRouter is shown to implement this.                                  *)
(***************************************************************************)
EXTENDS Naturals, FiniteSets

CONSTANTS Conns,   \* the connections of the user
          Callers  \* the calls

VARIABLES online,  \* connections in their Hub's maps
          kept,    \* of each call: those live and routable since it began
          got,     \* how often a connection took the message of a call
          answer,  \* the status of the PushResult, when there is one
          count    \* its ConnectionCount

vars == <<online, kept, got, answer, count>>

Quiet == {"STALE_CLEANED", "NOOP_OFFLINE"}
Verdicts == Quiet \cup {"SUCCESS", "FAILED", "ANNOUNCED"}

Reached(q) == {c \in Conns : got[q][c] > 0}

\* What may be answered, with n connections counted, when those in R have taken
\* the message and those in S have been there all the time.
Truthful(v, n, R, S) ==
  /\ v = "SUCCESS" => n \in 1 .. Cardinality(R)
  /\ v # "SUCCESS" => n = 0
  /\ v \in Quiet => R = {} /\ S = {}

Init == /\ online = {}
        /\ kept = [q \in Callers |-> {}]
        /\ got = [q \in Callers |-> [c \in Conns |-> 0]]
        /\ answer = [q \in Callers |-> "unasked"]
        /\ count = [q \in Callers |-> 0]

\* Connections come and go; one that left, or lost its route, has not stayed.
HubsMove == /\ online' \subseteq Conns
            /\ kept' \in [Callers -> SUBSET online']
            /\ \A q \in Callers : kept'[q] \subseteq kept[q]
            /\ UNCHANGED <<got, answer, count>>

\* A call begins, or ends in the same step when it has nothing to do.
Begin(q) ==
  /\ answer[q] = "unasked"
  /\ \E S \in SUBSET online :
       /\ kept' = [kept EXCEPT ![q] = S]
       /\ \E v \in {"pending"} \cup {v \in Verdicts : Truthful(v, 0, {}, S)} :
            answer' = [answer EXCEPT ![q] = v]
  /\ UNCHANGED <<online, got, count>>

Hand(q, c) == /\ answer[q] \in {"pending", "SUCCESS", "FAILED"}
              /\ c \in online /\ got[q][c] = 0
              /\ got' = [got EXCEPT ![q][c] = 1]
              /\ UNCHANGED <<online, kept, answer, count>>

Reply(q) ==
  /\ answer[q] = "pending"
  /\ \E v \in Verdicts, n \in 0 .. Cardinality(Reached(q)) :
       /\ Truthful(v, n, Reached(q), kept[q])
       /\ answer' = [answer EXCEPT ![q] = v]
       /\ count' = [count EXCEPT ![q] = n]
  /\ UNCHANGED <<online, kept, got>>

Next == \/ HubsMove
        \/ \E q \in Callers : Begin(q) \/ Reply(q) \/ \E c \in Conns : Hand(q, c)

Spec == Init /\ [][Next]_vars
==============================================================================
