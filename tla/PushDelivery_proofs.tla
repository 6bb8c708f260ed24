--------------------------- MODULE PushDelivery_proofs ---------------------------
(***************************************************************************)
(* PushRouter implements Delivery, for any connections, gateways, callers  *)
(* and addresses that answer, and any number of faults.                    *)
(***************************************************************************)
EXTENDS PushRouter_proofs

------------------------------------------------------------------------------
(* The inductive invariant.                                                *)

\* Whoever has the message of a call, or may still get it from a handler, is the
\* connection the call waits for, or the call has counted an acceptance or a
\* failure.  No RPC is made for a call that has not begun, nor for a broadcast.
EchoInv(q) ==
  /\ pc[q] = "idle" \/ Announcing(q) => \A c \in Conns : rpc[q][c] = "none"
  /\ \A c \in Conns : rpc[q][c] = "STALE_CLEANED" => got[q][c] = 0
  /\ ~ Announcing(q) =>
       \A c \in Conns :
         got[q][c] > 0 \/ rpc[q][c] \in Running => Heard(q) \/ (Waiting(q) /\ at[q] = c)

LEMMA InitEchoInv == ASSUME Init, NEW q \in Callers PROVE EchoInv(q)
BY DEF Init, EchoInv, Announcing, Running

\* A step that counts an acceptance or a failure makes up for everything.
LEMMA HeardNow ==
  ASSUME TypeOK, NEW q \in Callers, Tally(q, "success") \/ Tally(q, "fail")
  PROVE  Heard(q)'
<1>1. summary[q] \in [{"success", "stale", "noop", "fail"} -> Nat]
  BY DEF TypeOK
<1>2. \/ summary'[q].success = summary[q].success + 1
      \/ summary'[q].fail = summary[q].fail + 1
  BY <1>1 DEF TypeOK, Tally
<1>3. summary[q].success \in Nat /\ summary[q].fail \in Nat
  BY <1>1
<1> QED
  BY <1>2, <1>3 DEF Heard

\* What has been heard is not forgotten.
LEMMA HeardStays ==
  ASSUME TypeOK, NEW q \in Callers, NEW k \in {"success", "stale", "noop", "fail"},
         UNCHANGED summary \/ Tally(q, k), Heard(q)
  PROVE  Heard(q)'
<1>1. summary[q] \in [{"success", "stale", "noop", "fail"} -> Nat]
  BY DEF TypeOK
<1>2. /\ summary'[q].success \in {summary[q].success, summary[q].success + 1}
      /\ summary'[q].fail \in {summary[q].fail, summary[q].fail + 1}
  BY <1>1 DEF TypeOK, Tally
<1>3. summary[q].success \in Nat /\ summary[q].fail \in Nat
  BY <1>1
<1> QED
  BY <1>2, <1>3 DEF Heard

\* The steps of the call itself.
LEMMA EchoCaller ==
  ASSUME RouterInv, NEW q \in Callers, EchoInv(q), CallerStep(q)
  PROVE  EchoInv(q)'
<1>0. TypeOK /\ OnceInv(q)
  BY DEF RouterInv
<1>a. pc[q] = "idle" => \A c \in Conns : got[q][c] = 0 /\ rpc[q][c] = "none"
  BY <1>0 DEF OnceInv, Untouched
<1> USE DEF EchoInv, Announcing, Waiting, Running, storeVars, callVars
<1>1. CASE PushUser(q)
  BY <1>0, <1>a, <1>1 DEF PushUser, Goes, TypeOK
<1>2. CASE Broadcast(q)
  BY <1>0, <1>a, <1>2 DEF Broadcast, Goes, TypeOK
<1>3. CASE \E c \in Conns : Forward(q, c)
  BY <1>0, <1>a, <1>3 DEF Forward, Goes, TypeOK
<1>4. CASE \E c \in Conns : RouteLocal(q, c)
  <2>1. Heard(q) => Heard(q)'
    BY <1>0, <1>4, HeardStays DEF RouteLocal
  <2> QED
    BY <1>0, <1>4, <2>1 DEF RouteLocal, Takes, Goes, TypeOK
<1>5. CASE \E c \in Conns : RouteRemote(q, c)
  BY <1>0, <1>5 DEF RouteRemote, Takes, Goes, Heard, TypeOK
<1>6. CASE \E c \in Conns : BroadcastSends(q, c)
  <2>1. /\ pc[q] = "broadcasting" /\ pc' = pc /\ rpc' = rpc
    BY <1>6 DEF BroadcastSends
  <2> QED
    BY <2>1
<1>7. CASE SendLocal(q)
  <2>1. /\ pc[q] = "sending" /\ pc'[q] = "routing" /\ at[q] \in Conns /\ rpc' = rpc
    BY <1>0, <1>7 DEF SendLocal, Goes, TypeOK
  <2>2. Heard(q)'
    BY <1>0, <1>7, HeardNow DEF SendLocal
  <2>3. \A c \in Conns : rpc[q][c] = "STALE_CLEANED" => got'[q][c] = 0
    <3>1. rpc[q][at[q]] = "none"
      BY <1>0, <2>1 DEF OnceInv, Untouched
    <3>2. \A c \in Conns : c # at[q] => got'[q][c] = got[q][c]
      BY <1>0, <1>7, <2>1, AcceptsEffect DEF SendLocal
    <3> QED
      BY <3>1, <3>2
  <2> QED
    BY <2>1, <2>2, <2>3
<1>8. CASE CleanUp(q)
  BY <1>0, <1>8 DEF CleanUp, Goes, Heard, TypeOK
<1>9. CASE Finish(q)
  BY <1>0, <1>9 DEF Finish, Goes, Heard, TypeOK
<1>10. CASE RpcReturns(q)
  <2>1. /\ pc'[q] \in {"returned", "cleaning", "routing"} /\ pc[q] \in {"calling", "forwarding"}
        /\ rpc' = rpc /\ got' = got /\ at[q] \in Conns
    BY <1>0, <1>10 DEF RpcReturns, Goes, AfterAnswer, TypeOK
  <2>2. CASE rpc[q][at[q]] = "STALE_CLEANED"
    <3>1. Heard(q) => Heard(q)'
      BY <1>0, <1>10, <2>2, HeardStays DEF RpcReturns
    <3>2. got[q][at[q]] = 0
      BY <2>1, <2>2
    <3> QED
      BY <2>1, <2>2, <3>1, <3>2
  <2>3. CASE rpc[q][at[q]] # "STALE_CLEANED"
    <3>1. Heard(q)'
      BY <1>0, <1>10, <2>3, HeardNow DEF RpcReturns
    <3> QED
      BY <2>1, <3>1
  <2> QED
    BY <2>2, <2>3
<1>11. CASE BroadcastReturns(q)
  BY <1>0, <1>11 DEF BroadcastReturns, Goes, TypeOK
<1>12. CASE Arrives(q)
  <2>1. /\ Handler(q, at[q], "none", "lookup") /\ at[q] \in Conns
        /\ pc[q] \in {"calling", "forwarding"}
        /\ pc' = pc /\ at' = at /\ got' = got /\ summary' = summary
    BY <1>0, <1>12 DEF Arrives, TypeOK
  <2>2. \A c \in Conns : rpc'[q][c] = IF c = at[q] THEN "lookup" ELSE rpc[q][c]
    BY <1>0, <2>1, HandlerEffect
  <2> QED
    BY <2>1, <2>2 DEF Heard
<1>13. CASE RpcFails(q)
  <2>1. /\ pc'[q] \in {"returned", "routing"} /\ pc[q] \in {"calling", "forwarding"}
        /\ rpc' = rpc /\ got' = got
    BY <1>0, <1>13 DEF RpcFails, Goes, AfterAnswer, TypeOK
  <2>2. Heard(q)'
    BY <1>0, <1>13, HeardNow DEF RpcFails
  <2> QED
    BY <2>1, <2>2
<1> QED
  BY <1>1, <1>2, <1>3, <1>4, <1>5, <1>6, <1>7, <1>8, <1>9, <1>10, <1>11, <1>12, <1>13 DEF CallerStep, Starts, Proceeds

\* A handler that has begun goes on, takes the message to its connection, or ends.
LEMMA HandlerGoesOn ==
  ASSUME RouterInv, NEW q \in Callers, NEW c \in Conns, HandlerStep(q, c)
  PROVE  /\ rpc[q][c] # "none" /\ rpc'[q][c] # "none"
         /\ \A y \in Conns \ {c} : rpc'[q][y] = rpc[q][y] /\ got'[q][y] = got[q][y]
         /\ rpc'[q][c] \in Running => rpc[q][c] \in Running
         /\ got'[q][c] > 0 => got[q][c] > 0 \/ rpc[q][c] \in Running
         /\ rpc'[q][c] = "STALE_CLEANED" => got'[q][c] = 0
<1>0. TypeOK /\ OnceInv(q)
  BY DEF RouterInv
<1> USE DEF Running, Answers
<1>1. CASE HandlerLooksUp(q, c)
  BY <1>0, <1>1, HandlerEffect DEF HandlerLooksUp
<1>2. CASE HandlerSends(q, c)
  <2>1. /\ Handler(q, c, "send", "SUCCESS") \/ Handler(q, c, "send", "error")
        /\ got' = got \/ Accepts(q, c)
    BY <1>2 DEF HandlerSends
  <2>2. /\ rpc[q][c] = "send" /\ rpc'[q][c] \in {"SUCCESS", "error"}
        /\ \A y \in Conns \ {c} : rpc'[q][y] = rpc[q][y]
    BY <1>0, <2>1, HandlerEffect
  <2>3. \A y \in Conns \ {c} : got'[q][y] = got[q][y]
    BY <1>0, <2>1, AcceptsEffect
  <2> QED
    BY <2>2, <2>3
<1>3. CASE HandlerFinds(q, c)
  BY <1>0, <1>3, HandlerEffect DEF HandlerFinds
<1>4. CASE HandlerCleans(q, c)
  <2>1. rpc[q][c] = "clean" /\ got' = got
    BY <1>0, <1>4, HandlerEffect DEF HandlerCleans
  <2>2. got[q][c] = 0
    BY <1>0, <2>1 DEF OnceInv
  <2> QED
    BY <1>0, <1>4, <2>1, <2>2, HandlerEffect DEF HandlerCleans
<1>5. CASE ReplyLost(q, c)
  <2>1. /\ rpc[q][c] \in Running \cup Answers /\ got' = got
        /\ \A y \in Conns : rpc'[q][y] = IF y = c THEN "lost" ELSE rpc[q][y]
    BY <1>0, <1>5 DEF ReplyLost, TypeOK
  <2> QED
    BY <2>1
<1> QED
  BY <1>1, <1>2, <1>3, <1>4, <1>5 DEF HandlerStep, Handles

LEMMA EchoHandler ==
  ASSUME RouterInv, NEW q \in Callers, NEW c \in Conns, EchoInv(q), HandlerStep(q, c)
  PROVE  EchoInv(q)'
<1>1. pc' = pc /\ at' = at /\ summary' = summary
  BY HandlerFrame
<1>2. pc[q] # "idle" /\ ~ Announcing(q)
  BY HandlerGoesOn DEF EchoInv
<1>3. \A y \in Conns : rpc'[q][y] = "STALE_CLEANED" => got'[q][y] = 0
  BY HandlerGoesOn DEF EchoInv
<1>4. \A y \in Conns : got'[q][y] > 0 \/ rpc'[q][y] \in Running
                         => got[q][y] > 0 \/ rpc[q][y] \in Running
  BY HandlerGoesOn
<1> QED
  BY <1>1, <1>2, <1>3, <1>4 DEF EchoInv, Announcing, Waiting, Heard

LEMMA NextEchoInv ==
  ASSUME RouterInv, \A x \in Callers : EchoInv(x), [Next]_vars
  PROVE  \A x \in Callers : EchoInv(x)'
<1> SUFFICES ASSUME NEW x \in Callers PROVE EchoInv(x)'
  OBVIOUS
<1>0. TypeOK /\ EchoInv(x)
  BY DEF RouterInv
<1>a. Same(x) => EchoInv(x)'
  BY <1>0 DEF Same, EchoInv, Announcing, Waiting, Heard
<1>1. CASE UNCHANGED vars
  BY <1>1, <1>a DEF Same, vars, storeVars, callVars
<1>2. ASSUME NEW c \in Conns, HubNext(c) PROVE EchoInv(x)'
  BY <1>2, <1>a DEF Same, HubNext, Join, Leave, Retract, Refresh, storeVars, callVars
<1>3. ASSUME NEW q \in Callers, CallerStep(q) PROVE EchoInv(x)'
  BY <1>0, <1>3, <1>a, EchoCaller, SameCaller
<1>4. ASSUME NEW q \in Callers, NEW c \in Conns, HandlerStep(q, c) PROVE EchoInv(x)'
  BY <1>0, <1>4, <1>a, EchoHandler, SameHandler
<1> QED
  BY <1>1, <1>2, <1>3, <1>4 DEF Next, CallerStep, HandlerStep

------------------------------------------------------------------------------
(* The refinement.                                                         *)

PushInv == RouterInv /\ \A x \in Callers : KeptInv(x) /\ EchoInv(x)

LEMMA PushInvariant == Spec => []PushInv
<1>1. Init => PushInv
  BY InitRouterInv, InitEchoInv DEF Init, PushInv, KeptInv, Busy
<1>2. PushInv /\ [Next]_vars => PushInv'
  BY NextRouterInv, NextKeptInv, NextEchoInv DEF PushInv
<1> QED
  BY <1>1, <1>2, PTL DEF Spec

\* Delivery counts as this module does.
LEMMA ContractCounts == \A S : Contract!Cardinality(S) = Cardinality(S)
BY DEF Contract!Cardinality, Cardinality

\* The answer of a call that has returned is true of the connections.
AnswersTrue ==
  \A q \in Callers : pc[q] = "returned" =>
    /\ Told(q) \in Contract!Verdicts
    /\ Contract!Truthful(Told(q), CountTold(q), Contract!Reached(q), kept[q])

LEMMA AnswersAreTrue == PushInv => AnswersTrue
<1> SUFFICES ASSUME PushInv, NEW q \in Callers, pc[q] = "returned"
             PROVE  /\ Told(q) \in Contract!Verdicts
                    /\ Contract!Truthful(Told(q), CountTold(q), Contract!Reached(q), kept[q])
  BY DEF AnswersTrue
<1>0. /\ RouterInv /\ KeptInv(q) /\ EchoInv(q)
      /\ summary[q].success \in Nat /\ summary[q].fail \in Nat /\ summary[q].stale \in Nat
  BY DEF PushInv, RouterInv, TypeOK
<1>1. Told(q) = Status(summary[q]) /\ CountTold(q) = summary[q].success
  BY DEF Told, CountTold
<1>2. CASE summary[q].success > 0
  <2>1. Told(q) = "SUCCESS"
    BY <1>0, <1>1, <1>2 DEF Status
  <2>2. summary[q].success <= Cardinality(Contract!Reached(q))
    <3>1. Counted(q) \subseteq Contract!Reached(q) /\ IsFiniteSet(Contract!Reached(q))
      BY ConnsAssumption, FS_Subset DEF Counted, Contract!Reached
    <3>2. /\ Cardinality(Counted(q)) <= Cardinality(Contract!Reached(q))
          /\ Cardinality(Counted(q)) \in Nat /\ Cardinality(Contract!Reached(q)) \in Nat
      BY <3>1, FS_Subset, FS_CardinalityType
    <3> QED
      BY <1>0, <3>2 DEF RouterInv, CountInv
  <2>3. Cardinality(Contract!Reached(q)) \in Nat
    BY ConnsAssumption, FS_Subset, FS_CardinalityType DEF Contract!Reached
  <2> QED
    BY <1>0, <1>1, <1>2, <2>1, <2>2, <2>3, ContractCounts
       DEF Contract!Truthful, Contract!Verdicts, Contract!Quiet
<1>3. CASE summary[q].success = 0 /\ summary[q].fail > 0
  <2>1. Told(q) = "FAILED"
    BY <1>0, <1>1, <1>3 DEF Status
  <2> QED
    BY <1>1, <1>3, <2>1 DEF Contract!Truthful, Contract!Verdicts, Contract!Quiet
<1>4. CASE summary[q].success = 0 /\ summary[q].fail = 0
  <2>1. Told(q) \in {"STALE_CLEANED", "NOOP_OFFLINE"}
    BY <1>0, <1>1, <1>4 DEF Status
  <2>2. ~ Heard(q)
    BY <1>4 DEF Heard
  <2>3. Contract!Reached(q) = {}
    BY <1>0, <2>2 DEF EchoInv, Announcing, Waiting, Contract!Reached
  <2>4. kept[q] = {}
    BY <1>0, <2>2 DEF KeptInv, Busy, InHand, Pending
  <2> QED
    BY <1>1, <1>4, <2>1, <2>3, <2>4 DEF Contract!Truthful, Contract!Verdicts, Contract!Quiet
<1> QED
  BY <1>0, <1>2, <1>3, <1>4

LEMMA AnswersAreTrueNext == PushInv' => AnswersTrue'
BY AnswersAreTrue, PTL

\* The state of Delivery, one call at a time.
Answer == [x \in Callers |-> Told(x)]
Count == [x \in Callers |-> CountTold(x)]

\* A step of one call changes the answer of no other.
LEMMA AnswerOfOne ==
  ASSUME NEW q \in Callers, \A x \in Callers \ {q} : Same(x)
  PROVE  /\ Answer' = [Answer EXCEPT ![q] = Told(q)']
         /\ Count' = [Count EXCEPT ![q] = CountTold(q)']
<1>1. \A x \in Callers \ {q} : Told(x)' = Told(x) /\ CountTold(x)' = CountTold(x)
  BY DEF Same, Told, CountTold
<1> QED
  BY <1>1 DEF Answer, Count

\* The steps of Delivery in terms of the call that takes them.
LEMMA HandStep ==
  ASSUME TypeOK, NEW q \in Callers, NEW c \in Conns, Accepts(q, c), got[q][c] = 0,
         Told(q) \in {"pending", "SUCCESS", "FAILED"},
         status' = status, kept' = kept, Answer' = Answer, Count' = Count
  PROVE  Contract!Hand(q, c)
<1>1. got' = [got EXCEPT ![q][c] = 1] /\ c \in Online
  BY DEF TypeOK, Accepts, Online
<1>2. Online' = Online
  BY DEF Online
<1> QED
  BY <1>1, <1>2 DEF Contract!Hand, Answer, Count

LEMMA ReplyStep ==
  ASSUME PushInv', NEW q \in Callers, Told(q) = "pending", pc'[q] \in Ended,
         \A x \in Callers \ {q} : Same(x),
         status' = status, kept' = kept, got' = got
  PROVE  Contract!Reply(q)
<1>1. Contract!Reached(q)' = Contract!Reached(q) /\ Online' = Online
  BY DEF Contract!Reached, Online
<1>2. /\ Told(q)' \in Contract!Verdicts
      /\ Contract!Truthful(Told(q)', CountTold(q)', Contract!Reached(q), kept[q])
  <2>1. CASE pc'[q] = "returned"
    BY <1>1, <2>1, AnswersAreTrueNext DEF AnswersTrue
  <2>2. CASE pc'[q] = "announced"
    <3>1. Told(q)' = "ANNOUNCED" /\ CountTold(q)' = 0
      BY <2>2 DEF Told, CountTold
    <3> QED
      BY <3>1 DEF Contract!Truthful, Contract!Verdicts, Contract!Quiet
  <2> QED
    BY <2>1, <2>2 DEF Ended
<1>3. CountTold(q)' \in 0 .. Cardinality(Contract!Reached(q))
  <2>1. Cardinality(Contract!Reached(q)) \in Nat
    BY ConnsAssumption, FS_Subset, FS_CardinalityType DEF Contract!Reached
  <2> QED
    BY <1>2, <2>1, ContractCounts DEF Contract!Truthful
<1> QED
  BY <1>1, <1>2, <1>3, AnswerOfOne, ContractCounts DEF Contract!Reply, Answer, Count

LEMMA BeginStep ==
  ASSUME TypeOK, PushInv', NEW q \in Callers, pc[q] = "idle",
         \A c \in Conns : got[q][c] = 0,
         pc'[q] = "returned" \/ Told(q)' = "pending",
         \A x \in Callers \ {q} : Same(x),
         NEW S \in SUBSET Online, kept' = [kept EXCEPT ![q] = S],
         status' = status, got' = got
  PROVE  Contract!Begin(q)
<1>1. Contract!Reached(q)' = {} /\ kept'[q] = S /\ Online' = Online
  BY DEF Contract!Reached, Online, TypeOK
<1>2. Told(q) = "unasked" /\ CountTold(q) = 0
  BY DEF Told, CountTold
<1>3. CASE pc'[q] = "returned"
  <2>1. /\ Told(q)' \in Contract!Verdicts
        /\ Contract!Truthful(Told(q)', CountTold(q)', {}, S)
    BY <1>1, <1>3, AnswersAreTrueNext DEF AnswersTrue
  <2>2. CountTold(q)' = 0
    BY <2>1, FS_EmptySet, ContractCounts DEF Contract!Truthful
  <2>3. Count' = Count
    BY <1>2, <2>2, AnswerOfOne DEF Count
  <2> QED
    <3> DEFINE V == {"pending"} \cup {v \in Contract!Verdicts : Contract!Truthful(v, 0, {}, S)}
    <3>1. Told(q)' \in V
      BY <2>1, <2>2
    <3>2. /\ \E v \in V : Answer' = [Answer EXCEPT ![q] = v]
          /\ Answer[q] = "unasked"
      BY <1>2, <3>1, AnswerOfOne DEF Answer
    <3> QED
      BY <1>1, <2>3, <3>2 DEF Contract!Begin, Answer, Count
<1>4. CASE Told(q)' = "pending"
  <2>1. CountTold(q)' = 0
    BY <1>4, <1>2 DEF CountTold, Told, Status
  <2>2. Count' = Count
    BY <1>2, <2>1, AnswerOfOne DEF Count
  <2> QED
    BY <1>1, <1>2, <1>4, <2>2, AnswerOfOne DEF Contract!Begin, Answer, Count
<1> QED
  BY <1>3, <1>4

\* Every step of the router is a step of Delivery, or none.
LEMMA StepOfContract ==
  ASSUME PushInv, PushInv', [Next]_vars
  PROVE  [Contract!Next]_(Contract!vars)
<1>0. RouterInv /\ TypeOK /\ \A x \in Callers : OnceInv(x) /\ KeptInv(x) /\ EchoInv(x)
  BY DEF PushInv, RouterInv
<1> DEFINE Step == [Contract!Next]_(Contract!vars)
<1>a. ASSUME NEW q \in Callers, NEW c \in Conns,
             Contract!Hand(q, c) \/ Contract!Reply(q) \/ Contract!Begin(q)
      PROVE  Step
  BY <1>a DEF Contract!Next
<1>b. ASSUME status' = status, kept' = kept, got' = got, Answer' = Answer, Count' = Count
      PROVE  Step
  BY <1>b DEF Contract!vars, Online, Answer, Count
<1>c. ASSUME \A x \in Callers : pc'[x] = pc[x] /\ summary'[x] = summary[x]
      PROVE  Answer' = Answer /\ Count' = Count
  BY <1>c DEF Answer, Count, Told, CountTold
<1>1. CASE UNCHANGED vars
  BY <1>1, <1>b, <1>c DEF vars, storeVars, callVars
<1>2. ASSUME NEW c \in Conns, HubNext(c) PROVE Step
  <2>1. pc' = pc /\ summary' = summary /\ got' = got
    BY <1>2 DEF HubNext, Join, Leave, Retract, Refresh, callVars
  <2>2. \A q \in Callers : kept'[q] \subseteq kept[q]
    BY <1>0, <1>2 DEF HubNext, Join, Leave, Retract, Refresh, TypeOK
  <2>3. /\ \A q \in Callers : kept'[q] \subseteq Online'
        /\ kept' \in [Callers -> SUBSET Conns]
    BY DEF PushInv, RouterInv, TypeOK, KeptInv, Online
  <2>4. Online' \subseteq Conns /\ kept' \in [Callers -> SUBSET Online']
    BY <2>3 DEF Online
  <2> QED
    BY <1>c, <2>1, <2>2, <2>4 DEF Contract!HubsMove, Contract!Next, Answer, Count
<1>3. ASSUME NEW q \in Callers, CallerStep(q) PROVE Step
  <2>1. /\ \A x \in Callers \ {q} : Same(x)
        /\ status' = status
    <3>1. \A x \in Callers \ {q} : Same(x)
      BY <1>0, <1>3, SameCaller
    <3>2. status' = status
      BY <1>3 DEF CallerStep, Starts, PushUser, Broadcast, Forward, Proceeds, RouteLocal, RouteRemote,
         BroadcastSends, SendLocal, CleanUp, Finish, RpcReturns, BroadcastReturns, Arrives, RpcFails,
         storeVars
    <3> QED
      BY <3>1, <3>2
  <2>2. CASE Starts(q)
    <3>1. /\ pc[q] = "idle" /\ got' = got
          /\ pc'[q] \in {"returned", "routing", "broadcasting", "forwarding"}
          /\ \E S \in SUBSET Online : kept' = [kept EXCEPT ![q] = S]
      BY <1>0, <2>2 DEF Starts, PushUser, Broadcast, Forward, Goes, TypeOK, Online
    <3>2. \A c \in Conns : got[q][c] = 0
      BY <1>0, <3>1 DEF OnceInv, Untouched
    <3>3. pc'[q] = "returned" \/ Told(q)' = "pending"
      BY <3>1 DEF Told
    <3>4. Contract!Begin(q)
      BY <1>0, <2>1, <3>1, <3>2, <3>3, BeginStep
    <3> QED
      BY <3>4 DEF Contract!Next
  <2>3. ASSUME kept' = kept, got' = got, pc[q] \notin Ended \cup {"idle"}, pc'[q] # "idle" PROVE Step
    <3>1. Told(q) = "pending" /\ CountTold(q) = 0
      BY <2>3 DEF Told, CountTold, Ended
    <3>2. CASE pc'[q] \in Ended
      <4>1. Contract!Reply(q)
        BY <2>1, <2>3, <3>1, <3>2, ReplyStep
      <4> QED
        BY <4>1 DEF Contract!Next
    <3>3. CASE pc'[q] \notin Ended
      <4>1. Told(q)' = "pending" /\ CountTold(q)' = 0
        BY <2>3, <3>3 DEF Told, CountTold, Ended
      <4>2. Answer' = Answer /\ Count' = Count
        BY <2>1, <3>1, <4>1, AnswerOfOne DEF Answer, Count
      <4> QED
        BY <1>b, <2>1, <2>3, <4>2
    <3> QED
      BY <3>2, <3>3
  <2>4. ASSUME NEW c \in Conns, Accepts(q, c), got[q][c] = 0, kept' = kept,
               pc[q] \notin Ended \cup {"idle"}, pc'[q] \notin Ended \cup {"idle"}
        PROVE  Step
    <3>1. /\ Told(q) = "pending" /\ CountTold(q) = 0
          /\ Told(q)' = "pending" /\ CountTold(q)' = 0
      BY <2>4 DEF Told, CountTold, Ended
    <3>2. Answer' = Answer /\ Count' = Count
      BY <2>1, <3>1, AnswerOfOne DEF Answer, Count
    <3>3. Contract!Hand(q, c)
      BY <1>0, <2>1, <2>4, <3>1, <3>2, HandStep
    <3> QED
      BY <1>a, <3>3
  <2>5. CASE SendLocal(q)
    <3>1. /\ pc[q] = "sending" /\ pc'[q] = "routing" /\ at[q] \in Conns /\ kept' = kept
          /\ got' = got \/ Accepts(q, at[q])
      BY <1>0, <2>5 DEF SendLocal, Goes, TypeOK
    <3>2. got[q][at[q]] = 0
      BY <1>0, <3>1 DEF OnceInv, Untouched
    <3> QED
      BY <2>3, <2>4, <3>1, <3>2 DEF Ended
  <2>6. ASSUME NEW c \in Conns, BroadcastSends(q, c) PROVE Step
    <3>1. /\ pc[q] = "broadcasting" /\ pc' = pc /\ kept' = kept /\ c \in todo[q]
          /\ got' = got \/ Accepts(q, c)
      BY <2>6 DEF BroadcastSends
    <3>2. got[q][c] = 0
      BY <1>0, <3>1 DEF OnceInv, Untouched
    <3> QED
      BY <2>3, <2>4, <3>1, <3>2 DEF Ended
  <2>7. CASE \/ \E c \in Conns : RouteLocal(q, c) \/ RouteRemote(q, c)
             \/ CleanUp(q) \/ Finish(q) \/ RpcReturns(q) \/ BroadcastReturns(q)
             \/ Arrives(q) \/ RpcFails(q)
    <3>1. kept' = kept /\ got' = got
      BY <2>7 DEF RouteLocal, RouteRemote, CleanUp, Finish, RpcReturns, BroadcastReturns, Arrives, RpcFails
    <3>2. pc[q] \notin Ended \cup {"idle"}
      BY <2>7 DEF RouteLocal, RouteRemote, CleanUp, Finish, RpcReturns, BroadcastReturns, Arrives, RpcFails,
                  Takes, Waiting, Ended
    <3>3. pc'[q] # "idle"
      BY <1>0, <2>7, <3>2 DEF RouteLocal, RouteRemote, CleanUp, Finish, RpcReturns, BroadcastReturns, Arrives,
                  RpcFails, Goes, AfterAnswer, callVars, TypeOK
    <3> QED
      BY <2>3, <3>1, <3>2, <3>3
  <2> QED
    BY <1>3, <2>2, <2>5, <2>6, <2>7 DEF CallerStep, Proceeds
<1>4. ASSUME NEW q \in Callers, NEW c \in Conns, HandlerStep(q, c) PROVE Step
  <2>1. status' = status /\ kept' = kept /\ pc' = pc /\ summary' = summary
    BY <1>4, HandlerFrame
  <2>2. Answer' = Answer /\ Count' = Count
    BY <1>c, <2>1
  <2>3. CASE got' = got
    BY <1>b, <2>1, <2>2, <2>3
  <2>4. CASE Accepts(q, c) /\ rpc[q][c] = "send"
    <3>1. got[q][c] = 0
      BY <1>0, <2>4 DEF OnceInv, Running
    <3>2. pc[q] # "idle" /\ ~ Announcing(q) /\ (Heard(q) \/ Waiting(q))
      BY <1>0, <2>4 DEF EchoInv, Running
    <3>3. Told(q) \in {"pending", "SUCCESS", "FAILED"}
      <4>1. summary[q].success \in Nat /\ summary[q].fail \in Nat
        BY <1>0 DEF TypeOK
      <4>2. CASE pc[q] = "returned"
        <5>1. Heard(q)
          BY <3>2, <4>2 DEF Waiting
        <5>2. Status(summary[q]) \in {"SUCCESS", "FAILED"}
          BY <4>1, <5>1 DEF Status, Heard
        <5> QED
          BY <4>2, <5>2 DEF Told
      <4>3. CASE pc[q] # "returned"
        BY <3>2, <4>3 DEF Told, Announcing
      <4> QED
        BY <4>2, <4>3
    <3>4. Contract!Hand(q, c)
      BY <1>0, <2>1, <2>2, <2>4, <3>1, <3>3, HandStep
    <3> QED
      BY <1>a, <3>4
  <2>5. got' = got \/ (Accepts(q, c) /\ rpc[q][c] = "send")
    BY <1>4 DEF HandlerStep, Handles, HandlerLooksUp, HandlerSends, HandlerFinds, HandlerCleans, ReplyLost, Handler
  <2> QED
    BY <2>3, <2>4, <2>5
<1> QED
  BY <1>1, <1>2, <1>3, <1>4 DEF Next, CallerStep, HandlerStep

\* The push router keeps every promise of Delivery: what it answers is true when
\* it answers, and a message is handed over at most once, to a connection in its
\* Hub, and never after an answer that says nobody was there.
THEOREM RouterImplementsDelivery == Spec => ImplementsDelivery
<1>1. Init => Contract!Init
  BY DEF Init, Contract!Init, Online, Told, CountTold
<1>2. PushInv /\ PushInv' /\ [Next]_vars => [Contract!Next]_(Contract!vars)
  BY StepOfContract
<1> QED
  BY <1>1, <1>2, PushInvariant, PTL DEF Spec, ImplementsDelivery, Contract!Spec
================================================================================
