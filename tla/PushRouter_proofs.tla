--------------------------- MODULE PushRouter_proofs ---------------------------
(***************************************************************************)
(* For any number of connections, gateways and callers: PushRouter is type *)
(* correct, hands a message to a connection at most once per call, never   *)
(* reports more than was accepted, cleans up only what is gone, and says   *)
(* "nobody there" only when it is true.                                    *)
(***************************************************************************)
EXTENDS PushRouter, FiniteSetTheorems, TLAPS

------------------------------------------------------------------------------
(* The inductive invariant.                                                *)

\* No step of the call of q has gone to c.
Untouched(q, c) == got[q][c] = 0 /\ rpc[q][c] = "none"

\* The connection q is at, while its outcome is not counted.
Pending(q) == IF pc[q] \in {"sending", "calling", "forwarding"} THEN {at[q]} ELSE {}

\* What is still to serve is untouched, and served once it is under way.
OnceInv(q) ==
  /\ pc[q] = "idle" => todo[q] = {} /\ \A c \in Conns : Untouched(q, c)
  /\ \A c \in todo[q] : Untouched(q, c)
  /\ pc[q] = "sending" => Untouched(q, at[q])
  /\ Pending(q) \cap todo[q] = {}
  /\ Waiting(q) => (rpc[q][at[q]] = "none" => got[q][at[q]] = 0)
  /\ \A c \in Conns : rpc[q][c] \in Running => got[q][c] = 0
  /\ \A c \in Conns : got[q][c] <= 1

\* A connection that is looked for has joined; one found missing is gone.
StaleInv(q) ==
  /\ \A c \in todo[q] : status[c] # "absent"
  /\ pc[q] \in {"cleaning", "calling", "forwarding"} => status[at[q]] # "absent"
  /\ pc[q] = "cleaning" => status[at[q]] = "gone"
  /\ \A c \in Conns : rpc[q][c] = "lookup" => status[c] # "absent"
  /\ \A c \in Conns : rpc[q][c] \in {"find", "clean", "STALE_CLEANED"} => status[c] = "gone"

\* The connections whose acceptance the summary of q may count.
Counted(q) == {c \in Conns : got[q][c] > 0} \ (todo[q] \cup Pending(q))

CountInv(q) ==
  /\ \A c \in Conns : rpc[q][c] = "SUCCESS" => got[q][c] > 0
  /\ summary[q].success <= Cardinality(Counted(q))

RouterInv == TypeOK /\ \A q \in Callers : OnceInv(q) /\ StaleInv(q) /\ CountInv(q)

\* A state before the first call.
LEMMA InitRouterInv == Init => RouterInv
<1> SUFFICES ASSUME Init PROVE RouterInv
  OBVIOUS
<1> USE ConnsAssumption, MaxFaultsAssumption DEF Init, EmptySummary
<1>1. TypeOK
  BY DEF TypeOK, Ended, Running, Answers
<1>2. ASSUME NEW q \in Callers PROVE OnceInv(q) /\ StaleInv(q)
  BY DEF OnceInv, StaleInv, Untouched, Pending, Waiting, Running
<1>3. ASSUME NEW q \in Callers PROVE CountInv(q)
  <2>1. Counted(q) = {}
    BY DEF Counted
  <2> QED
    BY <2>1, FS_EmptySet DEF CountInv
<1> QED
  BY <1>1, <1>2, <1>3 DEF RouterInv

------------------------------------------------------------------------------
(* Each part of the invariant, one action at a time.                       *)

\* The step of a caller or of a handler, in the words of Next.
CallerStep(q) == Starts(q) \/ Proceeds(q) \/ Arrives(q) \/ RpcFails(q)
HandlerStep(q, c) == Handles(q, c) \/ ReplyLost(q, c)

\* The helpers of the actions give values of their types.
LEMMA TallyType ==
  ASSUME TypeOK, NEW q \in Callers, NEW k \in {"success", "stale", "noop", "fail"}, Tally(q, k)
  PROVE  summary' \in [Callers -> [{"success", "stale", "noop", "fail"} -> Nat]]
<1> DEFINE K == {"success", "stale", "noop", "fail"}
<1>1. summary \in [Callers -> [K -> Nat]]
  BY DEF TypeOK
<1>2. [summary[q] EXCEPT ![k] = @ + 1] \in [K -> Nat]
  BY <1>1
<1> HIDE DEF K
<1>3. summary' = [summary EXCEPT ![q] = [summary[q] EXCEPT ![k] = @ + 1]]
  BY <1>1 DEF Tally
<1>4. summary' \in [Callers -> [K -> Nat]]
  BY <1>1, <1>2, <1>3
<1> QED
  BY <1>4 DEF K

LEMMA AcceptsType ==
  ASSUME TypeOK, NEW q \in Callers, NEW c \in Conns, Accepts(q, c)
  PROVE  /\ got' \in [Callers -> [Conns -> Nat]]
         /\ faults' \in 0 .. MaxFaults
BY DEF TypeOK, Accepts

LEMMA FaultType ==
  ASSUME TypeOK, Fault
  PROVE  faults' \in 0 .. MaxFaults
BY MaxFaultsAssumption DEF TypeOK, Fault

LEMMA RefusesType ==
  ASSUME TypeOK, NEW c \in Conns, Refuses(c)
  PROVE  faults' \in 0 .. MaxFaults
BY FaultType DEF TypeOK, Refuses

\* What they change, one entry at a time.
LEMMA AcceptsEffect ==
  ASSUME TypeOK, NEW q \in Callers, NEW c \in Conns, Accepts(q, c)
  PROVE  /\ status[c] = "online"
         /\ \A x \in Callers, y \in Conns :
              got'[x][y] = IF x = q /\ y = c THEN got[x][y] + 1 ELSE got[x][y]
         /\ \A x \in Callers \ {q} : got'[x] = got[x]
         /\ got'[q][c] > 0
         /\ \A x \in Callers, y \in Conns : got[x][y] > 0 => got'[x][y] > 0
<1>1. /\ status[c] = "online"
      /\ \A x \in Callers, y \in Conns :
           got'[x][y] = IF x = q /\ y = c THEN got[x][y] + 1 ELSE got[x][y]
      /\ \A x \in Callers \ {q} : got'[x] = got[x]
  BY DEF TypeOK, Accepts
<1>2. \A x \in Callers, y \in Conns : got[x][y] \in Nat
  BY DEF TypeOK
<1> QED
  BY <1>1, <1>2

LEMMA HandlerEffect ==
  ASSUME TypeOK, NEW q \in Callers, NEW c \in Conns, NEW from, NEW to, Handler(q, c, from, to)
  PROVE  /\ rpc[q][c] = from
         /\ \A x \in Callers, y \in Conns :
              rpc'[x][y] = IF x = q /\ y = c THEN to ELSE rpc[x][y]
         /\ \A x \in Callers \ {q} : rpc'[x] = rpc[x]
BY DEF TypeOK, Handler

\* Type correctness.
LEMMA TypeCaller ==
  ASSUME RouterInv, NEW q \in Callers, CallerStep(q)
  PROVE  TypeOK'
<1> USE ConnsAssumption, MaxFaultsAssumption DEF RouterInv, TypeOK, storeVars, callVars, Ended, Running, Answers, Online
<1>1. CASE PushUser(q)
  <2>1. faults' \in 0 .. MaxFaults
    BY <1>1, FaultType DEF PushUser
  <2>2. summary' \in [Callers -> [{"success", "stale", "noop", "fail"} -> Nat]]
    BY <1>1, TallyType DEF PushUser
  <2> QED
    BY <1>1, <2>1, <2>2 DEF PushUser, Goes
<1>2. CASE Broadcast(q)
  BY <1>2 DEF Broadcast, Goes
<1>3. CASE \E c \in Conns : Forward(q, c)
  <2> PICK c \in Conns : Forward(q, c)
    BY <1>3
  <2>1. summary' \in [Callers -> [{"success", "stale", "noop", "fail"} -> Nat]]
    BY TallyType DEF Forward
  <2> QED
    BY <2>1 DEF Forward, Goes, Serves
<1>4. CASE \E c \in Conns : RouteLocal(q, c)
  <2> PICK c \in Conns : RouteLocal(q, c)
    BY <1>4
  <2>1. summary' \in [Callers -> [{"success", "stale", "noop", "fail"} -> Nat]]
    BY TallyType DEF RouteLocal
  <2> QED
    BY <2>1 DEF RouteLocal, Takes, Goes, Serves
<1>5. CASE \E c \in Conns : RouteRemote(q, c)
  BY <1>5 DEF Goes, Serves, RouteRemote, Takes
<1>6. CASE \E c \in Conns : BroadcastSends(q, c)
  <2> PICK c \in Conns : BroadcastSends(q, c)
    BY <1>6
  <2>1. got' \in [Callers -> [Conns -> Nat]] /\ faults' \in 0 .. MaxFaults
    BY AcceptsType, RefusesType DEF BroadcastSends
  <2> QED
    BY <2>1 DEF BroadcastSends
<1>7. CASE SendLocal(q)
  <2>1. at[q] \in Conns
    BY <1>7 DEF SendLocal
  <2>2. got' \in [Callers -> [Conns -> Nat]] /\ faults' \in 0 .. MaxFaults
    BY <1>7, <2>1, AcceptsType, RefusesType DEF SendLocal
  <2>3. summary' \in [Callers -> [{"success", "stale", "noop", "fail"} -> Nat]]
    BY <1>7, TallyType DEF SendLocal
  <2> QED
    BY <1>7, <2>2, <2>3 DEF SendLocal, Goes
<1>8. CASE CleanUp(q)
  BY <1>8 DEF CleanUp, Goes
<1>9. CASE Finish(q)
  BY <1>9 DEF Finish, Goes
<1>10. CASE RpcReturns(q)
  <2>1. summary' \in [Callers -> [{"success", "stale", "noop", "fail"} -> Nat]]
    BY <1>10, TallyType DEF RpcReturns
  <2> QED
    BY <1>10, <2>1 DEF RpcReturns, Goes, AfterAnswer, Waiting
<1>11. CASE BroadcastReturns(q)
  BY <1>11 DEF BroadcastReturns, Goes
<1>12. CASE Arrives(q)
  BY <1>12 DEF Arrives, Handler, Waiting
<1>13. CASE RpcFails(q)
  BY <1>13 DEF RpcFails, Goes, Tally, AfterAnswer, Waiting, Fault
<1> QED
  BY <1>1, <1>2, <1>3, <1>4, <1>5, <1>6, <1>7, <1>8, <1>9, <1>10, <1>11, <1>12, <1>13 DEF CallerStep, Starts, Proceeds

LEMMA TypeHandler ==
  ASSUME RouterInv, NEW q \in Callers, NEW c \in Conns, HandlerStep(q, c)
  PROVE  TypeOK'
<1> USE ConnsAssumption, MaxFaultsAssumption DEF RouterInv, TypeOK, storeVars, callVars, Ended, Running, Answers, Online
<1>1. CASE HandlerLooksUp(q, c)
  BY <1>1 DEF HandlerLooksUp, Handler
<1>2. CASE HandlerSends(q, c)
  <2>1. got' \in [Callers -> [Conns -> Nat]] /\ faults' \in 0 .. MaxFaults
    BY <1>2, AcceptsType, RefusesType DEF HandlerSends
  <2>2. rpc' = [rpc EXCEPT ![q][c] = "SUCCESS"] \/ rpc' = [rpc EXCEPT ![q][c] = "error"]
    BY <1>2 DEF HandlerSends, Handler
  <2>3. rpc' \in [Callers -> [Conns -> {"none", "lost"} \cup Running \cup Answers]]
    <3>1. CASE rpc' = [rpc EXCEPT ![q][c] = "SUCCESS"]
      BY <3>1
    <3>2. CASE rpc' = [rpc EXCEPT ![q][c] = "error"]
      BY <3>2
    <3> QED
      BY <2>2, <3>1, <3>2
  <2> QED
    BY <1>2, <2>1, <2>3 DEF HandlerSends
<1>3. CASE HandlerFinds(q, c)
  BY <1>3 DEF HandlerFinds, Handler
<1>4. CASE HandlerCleans(q, c)
  BY <1>4 DEF HandlerCleans, Handler
<1>5. CASE ReplyLost(q, c)
  BY <1>5 DEF ReplyLost, Fault
<1> QED
  BY <1>1, <1>2, <1>3, <1>4, <1>5 DEF HandlerStep, Handles

LEMMA TypeHub ==
  ASSUME RouterInv, NEW c \in Conns, HubNext(c)
  PROVE  TypeOK'
<1> USE ConnsAssumption, MaxFaultsAssumption DEF RouterInv, TypeOK, storeVars, callVars, Ended, Running, Answers, Online
<1>1. CASE Join(c)
  BY <1>1 DEF Join
<1>2. CASE Leave(c)
  BY <1>2 DEF Leave
<1>3. CASE Retract(c)
  BY <1>3 DEF Retract
<1>4. CASE Refresh(c)
  BY <1>4 DEF Refresh
<1> QED
  BY <1>1, <1>2, <1>3, <1>4 DEF HubNext

\* Nothing is sent twice: the two steps that send to a connection first.
LEMMA OnceSendLocal ==
  ASSUME RouterInv, NEW x \in Callers, NEW q \in Callers, SendLocal(q)
  PROVE  OnceInv(x)'
<1> DEFINE c == at[q]
<1>1. TypeOK /\ OnceInv(q) /\ OnceInv(x)
  BY DEF RouterInv
<1>2. /\ pc[q] = "sending" /\ c \in Conns
      /\ todo' = todo /\ at' = at /\ rpc' = rpc
      /\ pc'[q] = "routing" /\ \A y \in Callers \ {q} : pc'[y] = pc[y]
  BY <1>1 DEF SendLocal, Goes, TypeOK
<1>3. Untouched(q, c) /\ c \notin todo[q]
  BY <1>1, <1>2 DEF OnceInv, Pending
<1> HIDE DEF c
<1>4. \/ got' = got
      \/ Accepts(q, c)
  BY DEF SendLocal, c
<1>5. /\ \A y \in Conns \ {c} : got'[q][y] = got[q][y]
      /\ got'[q][c] \in {0, 1}
      /\ \A y \in Callers \ {q} : got'[y] = got[y]
  BY <1>1, <1>2, <1>3, <1>4, AcceptsEffect DEF Untouched
<1>6. CASE x = q
  <2>1. \A y \in todo[q] : Untouched(q, y)'
    <3>1. \A y \in todo[q] : y \in Conns \ {c}
      BY <1>1, <1>3 DEF TypeOK
    <3>2. \A y \in todo[q] : got[q][y] = 0 /\ rpc[q][y] = "none"
      BY <1>1 DEF OnceInv, Untouched
    <3> QED
      BY <1>2, <1>5, <3>1, <3>2 DEF Untouched
  <2>2. \A y \in Conns : (rpc'[q][y] \in Running => got'[q][y] = 0) /\ got'[q][y] <= 1
    <3>1. rpc[q][c] = "none"
      BY <1>3 DEF Untouched
    <3>2. \A y \in Conns \ {c} : (rpc[q][y] \in Running => got'[q][y] = 0) /\ got'[q][y] <= 1
      BY <1>1, <1>5 DEF OnceInv
    <3> QED
      BY <1>2, <1>5, <3>1, <3>2 DEF Running
  <2> QED
    BY <1>2, <1>6, <2>1, <2>2 DEF OnceInv, Pending, Waiting
<1>7. CASE x # q
  BY <1>1, <1>2, <1>5, <1>7 DEF OnceInv, Untouched, Pending, Waiting
<1> QED
  BY <1>6, <1>7

LEMMA OnceHandlerSends ==
  ASSUME RouterInv, NEW x \in Callers, NEW q \in Callers, NEW c \in Conns, HandlerSends(q, c)
  PROVE  OnceInv(x)'
<1>1. TypeOK /\ OnceInv(q) /\ OnceInv(x)
  BY DEF RouterInv
<1>2. /\ todo' = todo /\ at' = at /\ pc' = pc
      /\ Handler(q, c, "send", "SUCCESS") \/ Handler(q, c, "send", "error")
      /\ got' = got \/ Accepts(q, c)
  BY DEF HandlerSends, callVars
<1>3. rpc[q][c] = "send"
  BY <1>2 DEF Handler
<1>4. /\ got[q][c] = 0 /\ c \notin todo[q] /\ pc[q] # "idle"
      /\ pc[q] = "sending" => at[q] # c
  BY <1>1, <1>3 DEF OnceInv, Untouched, Running
<1>5. /\ \A y \in Conns \ {c} : got'[q][y] = got[q][y]
      /\ got'[q][c] \in {0, 1}
      /\ \A y \in Callers \ {q} : got'[y] = got[y]
  BY <1>1, <1>2, <1>4, AcceptsEffect
<1>6. /\ \A y \in Conns \ {c} : rpc'[q][y] = rpc[q][y]
      /\ rpc'[q][c] \in {"SUCCESS", "error"}
      /\ \A y \in Callers \ {q} : rpc'[y] = rpc[y]
  BY <1>1, <1>2, HandlerEffect
<1>7. CASE x = q
  <2>1. \A y \in todo[q] : Untouched(q, y)'
    BY <1>1, <1>4, <1>5, <1>6 DEF OnceInv, Untouched, TypeOK
  <2>2. \A y \in Conns : (rpc'[q][y] \in Running => got'[q][y] = 0) /\ got'[q][y] <= 1
    BY <1>1, <1>5, <1>6 DEF OnceInv, Running
  <2>3. pc[q] = "sending" => Untouched(q, at[q])'
    BY <1>1, <1>2, <1>4, <1>5, <1>6 DEF OnceInv, Untouched, TypeOK
  <2>4. Waiting(q) => (rpc'[q][at[q]] = "none" => got'[q][at[q]] = 0)
    <3>1. Waiting(q) => at[q] \in Conns
      BY <1>1 DEF Waiting, TypeOK
    <3>2. Waiting(q) => (rpc[q][at[q]] = "none" => got[q][at[q]] = 0)
      BY <1>1 DEF OnceInv
    <3> QED
      BY <1>5, <1>6, <3>1, <3>2
  <2>5. Pending(q) \cap todo[q] = {}
    BY <1>1 DEF OnceInv
  <2> QED
    BY <1>2, <1>4, <1>7, <2>1, <2>2, <2>3, <2>4, <2>5 DEF OnceInv, Pending, Waiting
<1>8. CASE x # q
  BY <1>1, <1>2, <1>5, <1>6, <1>8 DEF OnceInv, Untouched, Pending, Waiting
<1> QED
  BY <1>7, <1>8

\* The other steps.
LEMMA OnceCaller ==
  ASSUME RouterInv, NEW x \in Callers, NEW q \in Callers, CallerStep(q)
  PROVE  OnceInv(x)'
<1> USE DEF RouterInv, TypeOK, OnceInv, storeVars, callVars, Untouched, Pending, Waiting, Running
<1>1. CASE PushUser(q)
  BY <1>1 DEF PushUser, Goes, Tally, Fault
<1>2. CASE Broadcast(q)
  BY <1>2 DEF Broadcast, Goes
<1>3. CASE \E c \in Conns : Forward(q, c)
  BY <1>3 DEF Goes, Tally, Serves, Forward
<1>4. CASE \E c \in Conns : RouteLocal(q, c)
  BY <1>4 DEF Goes, Tally, Serves, RouteLocal, Takes, Holds, IsLocal
<1>5. CASE \E c \in Conns : RouteRemote(q, c)
  BY <1>5 DEF Goes, Serves, RouteRemote, Takes
<1>6. CASE \E c \in Conns : BroadcastSends(q, c)
  BY <1>6 DEF BroadcastSends, Accepts, Refuses, Fault
<1>7. CASE SendLocal(q)
  BY <1>7, OnceSendLocal
<1>8. CASE CleanUp(q)
  BY <1>8 DEF CleanUp, Goes
<1>9. CASE Finish(q)
  BY <1>9 DEF Finish, Goes
<1>10. CASE RpcReturns(q)
  BY <1>10 DEF RpcReturns, Goes, Tally, AfterAnswer, Waiting, Answers
<1>11. CASE BroadcastReturns(q)
  BY <1>11 DEF BroadcastReturns, Goes
<1>12. CASE Arrives(q)
  BY <1>12 DEF Arrives, Handler, Waiting
<1>13. CASE RpcFails(q)
  BY <1>13 DEF RpcFails, Goes, Tally, AfterAnswer, Waiting, Fault
<1> QED
  BY <1>1, <1>2, <1>3, <1>4, <1>5, <1>6, <1>7, <1>8, <1>9, <1>10, <1>11, <1>12, <1>13 DEF CallerStep, Starts, Proceeds

LEMMA OnceHandler ==
  ASSUME RouterInv, NEW x \in Callers, NEW q \in Callers, NEW c \in Conns, HandlerStep(q, c)
  PROVE  OnceInv(x)'
<1> USE DEF RouterInv, TypeOK, OnceInv, storeVars, callVars, Untouched, Pending, Waiting, Running
<1>1. CASE HandlerLooksUp(q, c)
  BY <1>1 DEF HandlerLooksUp, Handler
<1>2. CASE HandlerSends(q, c)
  BY <1>2, OnceHandlerSends
<1>3. CASE HandlerFinds(q, c)
  BY <1>3 DEF HandlerFinds, Handler
<1>4. CASE HandlerCleans(q, c)
  BY <1>4 DEF HandlerCleans, Handler
<1>5. CASE ReplyLost(q, c)
  <2>1. \A y \in Conns : rpc'[x][y] = rpc[x][y]
                          \/ (x = q /\ y = c /\ rpc[x][y] # "none" /\ rpc'[x][y] = "lost")
    BY <1>5 DEF ReplyLost, Answers
  <2> QED
    BY <1>5, <2>1 DEF ReplyLost
<1> QED
  BY <1>1, <1>2, <1>3, <1>4, <1>5 DEF HandlerStep, Handles

LEMMA OnceHub ==
  ASSUME RouterInv, NEW x \in Callers, NEW c \in Conns, HubNext(c)
  PROVE  OnceInv(x)'
<1> USE DEF RouterInv, TypeOK, OnceInv, storeVars, callVars, Untouched, Pending, Waiting, Running
<1>1. CASE Join(c)
  BY <1>1 DEF Join
<1>2. CASE Leave(c)
  BY <1>2 DEF Leave
<1>3. CASE Retract(c)
  BY <1>3 DEF Retract
<1>4. CASE Refresh(c)
  BY <1>4 DEF Refresh
<1> QED
  BY <1>1, <1>2, <1>3, <1>4 DEF HubNext

\* Nothing live is cleaned up.
LEMMA StaleCaller ==
  ASSUME RouterInv, NEW x \in Callers, NEW q \in Callers, CallerStep(q)
  PROVE  StaleInv(x)'
<1> USE DEF RouterInv, TypeOK, StaleInv, storeVars, callVars
<1>1. CASE PushUser(q)
  BY <1>1 DEF PushUser, Goes, Tally, Fault
<1>2. CASE Broadcast(q)
  BY <1>2 DEF Broadcast, Goes, Holds
<1>3. CASE \E c \in Conns : Forward(q, c)
  BY <1>3 DEF Goes, Tally, Serves, Forward
<1>4. CASE \E c \in Conns : RouteLocal(q, c)
  BY <1>4 DEF Goes, Tally, Serves, RouteLocal, Takes, Holds, IsLocal
<1>5. CASE \E c \in Conns : RouteRemote(q, c)
  BY <1>5 DEF Goes, Serves, RouteRemote, Takes
<1>6. CASE \E c \in Conns : BroadcastSends(q, c)
  BY <1>6 DEF BroadcastSends, Accepts, Refuses, Fault
<1>7. CASE SendLocal(q)
  BY <1>7 DEF SendLocal, Goes, Tally, Accepts, Refuses, Fault
<1>8. CASE CleanUp(q)
  BY <1>8 DEF CleanUp, Goes
<1>9. CASE Finish(q)
  BY <1>9 DEF Finish, Goes
<1>10. CASE RpcReturns(q)
  BY <1>10 DEF RpcReturns, Goes, Tally, AfterAnswer, Waiting, Answers
<1>11. CASE BroadcastReturns(q)
  BY <1>11 DEF BroadcastReturns, Goes
<1>12. CASE Arrives(q)
  BY <1>12 DEF Arrives, Handler, Waiting
<1>13. CASE RpcFails(q)
  BY <1>13 DEF RpcFails, Goes, Tally, AfterAnswer, Waiting, Fault
<1> QED
  BY <1>1, <1>2, <1>3, <1>4, <1>5, <1>6, <1>7, <1>8, <1>9, <1>10, <1>11, <1>12, <1>13 DEF CallerStep, Starts, Proceeds

LEMMA StaleHandlerSends ==
  ASSUME RouterInv, NEW x \in Callers, NEW q \in Callers, NEW c \in Conns, HandlerSends(q, c)
  PROVE  StaleInv(x)'
<1>1. TypeOK /\ StaleInv(x)
  BY DEF RouterInv
<1>2. todo' = todo /\ at' = at /\ pc' = pc /\ status' = status
  BY DEF HandlerSends, callVars, storeVars
<1>3. \A y \in Conns : rpc'[x][y] = rpc[x][y] \/ rpc'[x][y] \in {"SUCCESS", "error"}
  BY <1>1, HandlerEffect DEF HandlerSends
<1>4. \A y \in Conns : /\ rpc'[x][y] = "lookup" => status[y] # "absent"
                       /\ rpc'[x][y] \in {"find", "clean", "STALE_CLEANED"} => status[y] = "gone"
  BY <1>1, <1>3 DEF StaleInv
<1> QED
  BY <1>1, <1>2, <1>4 DEF StaleInv

LEMMA StaleHandler ==
  ASSUME RouterInv, NEW x \in Callers, NEW q \in Callers, NEW c \in Conns, HandlerStep(q, c)
  PROVE  StaleInv(x)'
<1> USE DEF RouterInv, TypeOK, StaleInv, storeVars, callVars
<1>1. CASE HandlerLooksUp(q, c)
  BY <1>1 DEF HandlerLooksUp, Handler
<1>2. CASE HandlerSends(q, c)
  BY <1>2, StaleHandlerSends
<1>3. CASE HandlerFinds(q, c)
  BY <1>3 DEF HandlerFinds, Handler
<1>4. CASE HandlerCleans(q, c)
  BY <1>4 DEF HandlerCleans, Handler
<1>5. CASE ReplyLost(q, c)
  BY <1>5 DEF ReplyLost, Fault
<1> QED
  BY <1>1, <1>2, <1>3, <1>4, <1>5 DEF HandlerStep, Handles

LEMMA StaleHub ==
  ASSUME RouterInv, NEW x \in Callers, NEW c \in Conns, HubNext(c)
  PROVE  StaleInv(x)'
<1> USE DEF RouterInv, TypeOK, StaleInv, storeVars, callVars
<1>1. CASE Join(c)
  BY <1>1 DEF Join
<1>2. CASE Leave(c)
  BY <1>2 DEF Leave
<1>3. CASE Retract(c)
  BY <1>3 DEF Retract
<1>4. CASE Refresh(c)
  BY <1>4 DEF Refresh
<1> QED
  BY <1>1, <1>2, <1>3, <1>4 DEF HubNext

\* An acceptance once counted stays counted.
LEMMA CountGrows ==
  ASSUME TypeOK, NEW x \in Callers, Counted(x) \subseteq Counted(x)', CountInv(x),
         summary'[x].success = summary[x].success
  PROVE  summary'[x].success <= Cardinality(Counted(x)')
<1>1. IsFiniteSet(Counted(x)') /\ IsFiniteSet(Counted(x))
  BY ConnsAssumption, FS_Subset DEF Counted
<1>2. Cardinality(Counted(x)) <= Cardinality(Counted(x)')
  BY <1>1, FS_Subset
<1>3. Cardinality(Counted(x)) \in Nat /\ Cardinality(Counted(x)') \in Nat
  BY <1>1, FS_CardinalityType
<1>4. summary[x].success \in Nat
  BY DEF TypeOK
<1> QED
  BY <1>2, <1>3, <1>4 DEF CountInv

\* A success is counted for a connection that accepted and was pending.
LEMMA CountAdds ==
  ASSUME TypeOK, NEW x \in Callers, NEW c \in Conns, CountInv(x),
         c \in Counted(x)' \ Counted(x), Counted(x) \subseteq Counted(x)',
         summary'[x].success = summary[x].success + 1
  PROVE  summary'[x].success <= Cardinality(Counted(x)')
<1>1. IsFiniteSet(Counted(x)') /\ IsFiniteSet(Counted(x))
  BY ConnsAssumption, FS_Subset DEF Counted
<1>2. Cardinality(Counted(x) \cup {c}) = Cardinality(Counted(x)) + 1
  BY <1>1, FS_AddElement
<1>3. Counted(x) \cup {c} \subseteq Counted(x)'
  OBVIOUS
<1>4. Cardinality(Counted(x) \cup {c}) <= Cardinality(Counted(x)')
  BY <1>1, <1>3, FS_Subset
<1>5. Cardinality(Counted(x)) \in Nat /\ Cardinality(Counted(x)') \in Nat
  BY <1>1, FS_CardinalityType
<1>6. summary[x].success \in Nat
  BY DEF TypeOK
<1> QED
  BY <1>2, <1>4, <1>5, <1>6 DEF CountInv

\* A step of the call of q leaves every other call alone.
Same(x) == /\ pc'[x] = pc[x] /\ todo'[x] = todo[x] /\ at'[x] = at[x]
           /\ summary'[x] = summary[x] /\ rpc'[x] = rpc[x] /\ got'[x] = got[x]

LEMMA SameCaller ==
  ASSUME TypeOK, NEW x \in Callers, NEW q \in Callers \ {x}, CallerStep(q)
  PROVE  Same(x)
<1> USE DEF TypeOK, Same, storeVars, callVars
<1>1. CASE PushUser(q)
  BY <1>1 DEF PushUser, Goes, Tally
<1>2. CASE Broadcast(q)
  BY <1>2 DEF Broadcast, Goes
<1>3. CASE \E c \in Conns : Forward(q, c)
  BY <1>3 DEF Goes, Tally, Serves, Forward
<1>4. CASE \E c \in Conns : RouteLocal(q, c)
  BY <1>4 DEF Goes, Tally, Serves, RouteLocal, Takes
<1>5. CASE \E c \in Conns : RouteRemote(q, c)
  BY <1>5 DEF Goes, Serves, RouteRemote, Takes
<1>6. CASE \E c \in Conns : BroadcastSends(q, c)
  BY <1>6 DEF BroadcastSends, Accepts
<1>7. CASE SendLocal(q)
  BY <1>7 DEF SendLocal, Goes, Tally, Accepts
<1>8. CASE CleanUp(q)
  BY <1>8 DEF CleanUp, Goes
<1>9. CASE Finish(q)
  BY <1>9 DEF Finish, Goes
<1>10. CASE RpcReturns(q)
  BY <1>10 DEF RpcReturns, Goes, Tally, AfterAnswer, Waiting
<1>11. CASE BroadcastReturns(q)
  BY <1>11 DEF BroadcastReturns, Goes
<1>12. CASE Arrives(q)
  BY <1>12 DEF Arrives, Handler, Waiting
<1>13. CASE RpcFails(q)
  BY <1>13 DEF RpcFails, Goes, Tally, AfterAnswer, Waiting
<1> QED
  BY <1>1, <1>2, <1>3, <1>4, <1>5, <1>6, <1>7, <1>8, <1>9, <1>10, <1>11, <1>12, <1>13 DEF CallerStep, Starts, Proceeds

LEMMA SameHandler ==
  ASSUME TypeOK, NEW x \in Callers, NEW q \in Callers \ {x}, NEW c \in Conns, HandlerStep(q, c)
  PROVE  Same(x)
<1> USE DEF TypeOK, Same, storeVars, callVars
<1>1. CASE HandlerLooksUp(q, c)
  BY <1>1 DEF HandlerLooksUp, Handler
<1>2. CASE HandlerSends(q, c)
  BY <1>2 DEF HandlerSends, Handler, Accepts
<1>3. CASE HandlerFinds(q, c)
  BY <1>3 DEF HandlerFinds, Handler
<1>4. CASE HandlerCleans(q, c)
  BY <1>4 DEF HandlerCleans, Handler
<1>5. CASE ReplyLost(q, c)
  BY <1>5 DEF ReplyLost, Fault
<1> QED
  BY <1>1, <1>2, <1>3, <1>4, <1>5 DEF HandlerStep, Handles

\* A step that counts no success, loses no acceptance and makes nothing pending.
Quiet(q) ==
  /\ summary'[q].success = summary[q].success
  /\ \A c \in Conns : /\ got[q][c] > 0 => got'[q][c] > 0
                      /\ rpc'[q][c] = "SUCCESS" => got'[q][c] > 0
  /\ \/ \A c \in Conns : got[q][c] = 0
     \/ todo'[q] \cup Pending(q)' \subseteq todo[q] \cup Pending(q)

\* A step that counts a success: of the pending connection, which has accepted.
Credits(q) ==
  /\ summary'[q].success = summary[q].success + 1
  /\ \A c \in Conns : /\ got[q][c] > 0 => got'[q][c] > 0
                      /\ rpc'[q][c] = "SUCCESS" => got'[q][c] > 0
  /\ at[q] \in Conns /\ Pending(q) = {at[q]} /\ Pending(q)' = {}
  /\ at[q] \notin todo[q] /\ todo'[q] = todo[q]
  /\ got'[q][at[q]] > 0

\* A call that has not begun has sent nothing.
LEMMA IdleUntouched ==
  ASSUME RouterInv, NEW q \in Callers, pc[q] = "idle"
  PROVE  \A c \in Conns : Untouched(q, c)
BY DEF RouterInv, OnceInv

\* The two steps that count a success.
LEMMA SendLocalCounts ==
  ASSUME RouterInv, NEW q \in Callers, SendLocal(q)
  PROVE  Quiet(q) \/ Credits(q)
<1>1. TypeOK /\ OnceInv(q) /\ CountInv(q)
  BY DEF RouterInv
<1>2. /\ pc[q] = "sending" /\ at[q] \in Conns /\ at[q] \notin todo[q]
      /\ todo' = todo /\ at' = at /\ rpc' = rpc /\ pc'[q] = "routing"
  BY <1>1 DEF SendLocal, Goes, TypeOK, OnceInv, Pending
<1>3. CASE Accepts(q, at[q]) /\ Tally(q, "success")
  <2>1. /\ \A y \in Conns : got'[q][y] >= got[q][y]
        /\ got'[q][at[q]] > 0
    BY <1>1, <1>2, <1>3 DEF TypeOK, Accepts
  <2>2. summary'[q].success = summary[q].success + 1
    BY <1>1, <1>3 DEF TypeOK, Tally
  <2>3. \A y \in Conns : got[q][y] \in Nat /\ got'[q][y] \in Nat
    BY <1>1, <1>2, <1>3, AcceptsType DEF TypeOK
  <2>4. \A y \in Conns : rpc'[q][y] = "SUCCESS" => got'[q][y] > 0
    BY <1>1, <1>2, <2>1, <2>3 DEF CountInv
  <2> QED
    BY <1>2, <2>1, <2>2, <2>3, <2>4 DEF Credits, Pending
<1>4. CASE Tally(q, "fail") /\ UNCHANGED got
  <2>1. summary'[q].success = summary[q].success
    BY <1>1, <1>4 DEF TypeOK, Tally
  <2> QED
    BY <1>1, <1>2, <1>4, <2>1 DEF Quiet, CountInv, Pending
<1> QED
  BY <1>3, <1>4 DEF SendLocal

LEMMA RpcReturnsCounts ==
  ASSUME RouterInv, NEW q \in Callers, RpcReturns(q)
  PROVE  Quiet(q) \/ Credits(q)
<1>1. TypeOK /\ OnceInv(q) /\ CountInv(q)
  BY DEF RouterInv
<1>2. /\ pc[q] \in {"calling", "forwarding"} /\ at[q] \in Conns /\ at[q] \notin todo[q]
      /\ todo' = todo /\ at' = at /\ rpc' = rpc /\ got' = got
      /\ pc'[q] \in {"returned", "cleaning", "routing"}
  BY <1>1 DEF RpcReturns, Waiting, Goes, AfterAnswer, TypeOK, OnceInv, Pending
<1>3. CASE rpc[q][at[q]] = "SUCCESS"
  <2>1. summary'[q].success = summary[q].success + 1
    BY <1>1, <1>3 DEF RpcReturns, TypeOK, Tally
  <2> QED
    BY <1>1, <1>2, <1>3, <2>1 DEF Credits, CountInv, Pending
<1>4. CASE rpc[q][at[q]] # "SUCCESS"
  <2>1. summary'[q].success = summary[q].success
    BY <1>1, <1>4 DEF RpcReturns, TypeOK, Tally
  <2> QED
    BY <1>1, <1>2, <2>1 DEF Quiet, CountInv, Pending
<1> QED
  BY <1>3, <1>4

\* The others.
LEMMA CountCaller ==
  ASSUME RouterInv, NEW q \in Callers, CallerStep(q)
  PROVE  Quiet(q) \/ Credits(q)
<1> USE DEF RouterInv, TypeOK, CountInv, Quiet, storeVars, callVars, Pending
<1>1. CASE PushUser(q)
  <2>1. \A y \in Conns : Untouched(q, y)
    BY <1>1, IdleUntouched DEF PushUser
  <2> QED
    BY <1>1, <2>1 DEF PushUser, Goes, Tally, Serves, Untouched
<1>2. CASE Broadcast(q)
  <2>1. \A y \in Conns : Untouched(q, y)
    BY <1>2, IdleUntouched DEF Broadcast
  <2> QED
    BY <1>2, <2>1 DEF Broadcast, Goes, Tally, Serves, Untouched
<1>3. CASE \E c \in Conns : Forward(q, c)
  <2> PICK c \in Conns : Forward(q, c)
    BY <1>3
  <2>1. \A y \in Conns : Untouched(q, y)
    BY IdleUntouched DEF Forward
  <2> QED
    BY <2>1 DEF Forward, Goes, Tally, Serves, Untouched
<1>4. CASE \E c \in Conns : RouteLocal(q, c)
  BY <1>4 DEF Goes, Tally, Serves, RouteLocal, Takes
<1>5. CASE \E c \in Conns : RouteRemote(q, c)
  BY <1>5 DEF Goes, Serves, RouteRemote, Takes
<1>6. CASE \E c \in Conns : BroadcastSends(q, c)
  <2> PICK c \in Conns : BroadcastSends(q, c)
    BY <1>6
  <2>1. todo'[q] \cup Pending(q)' \subseteq todo[q] \cup Pending(q)
    BY DEF BroadcastSends
  <2>2. \A y \in Conns : got[q][y] > 0 => got'[q][y] > 0
    BY AcceptsEffect DEF BroadcastSends
  <2>3. rpc' = rpc /\ summary' = summary
    BY DEF BroadcastSends
  <2> QED
    BY <2>1, <2>2, <2>3
<1>7. CASE SendLocal(q)
  BY <1>7, SendLocalCounts
<1>8. CASE CleanUp(q)
  BY <1>8 DEF CleanUp, Goes
<1>9. CASE Finish(q)
  BY <1>9 DEF Finish, Goes
<1>10. CASE RpcReturns(q)
  BY <1>10, RpcReturnsCounts
<1>11. CASE BroadcastReturns(q)
  BY <1>11 DEF BroadcastReturns, Goes
<1>12. CASE Arrives(q)
  BY <1>12 DEF Arrives, Handler, Waiting
<1>13. CASE RpcFails(q)
  BY <1>13 DEF RpcFails, Goes, Tally, AfterAnswer, Waiting
<1> QED
  BY <1>1, <1>2, <1>3, <1>4, <1>5, <1>6, <1>7, <1>8, <1>9, <1>10, <1>11, <1>12, <1>13 DEF CallerStep, Starts, Proceeds

LEMMA CountHandler ==
  ASSUME RouterInv, NEW q \in Callers, NEW c \in Conns, HandlerStep(q, c)
  PROVE  Quiet(q)
<1> USE DEF RouterInv, TypeOK, CountInv, Quiet, storeVars, callVars, Pending
<1>1. CASE HandlerLooksUp(q, c)
  BY <1>1 DEF HandlerLooksUp, Handler
<1>2. CASE HandlerSends(q, c)
  <2>1. \A y \in Conns : got[q][y] > 0 => got'[q][y] > 0
    BY <1>2, AcceptsEffect DEF HandlerSends
  <2>2. \A y \in Conns : rpc'[q][y] = "SUCCESS" => rpc[q][y] = "SUCCESS" \/ got'[q][y] > 0
    <3>1. CASE Accepts(q, c) /\ Handler(q, c, "send", "SUCCESS")
      <4>1. got'[q][c] > 0
        BY <3>1, AcceptsEffect
      <4>2. \A y \in Conns \ {c} : rpc'[q][y] = rpc[q][y]
        BY <3>1, HandlerEffect
      <4> QED
        BY <4>1, <4>2
    <3>2. CASE Handler(q, c, "send", "error")
      <4>1. rpc'[q][c] = "error" /\ \A y \in Conns \ {c} : rpc'[q][y] = rpc[q][y]
        BY <3>2, HandlerEffect
      <4> QED
        BY <4>1
    <3> QED
      BY <1>2, <3>1, <3>2 DEF HandlerSends
  <2>3. summary' = summary /\ todo' = todo /\ pc' = pc /\ at' = at
    BY <1>2 DEF HandlerSends
  <2> QED
    BY <2>1, <2>2, <2>3
<1>3. CASE HandlerFinds(q, c)
  BY <1>3 DEF HandlerFinds, Handler
<1>4. CASE HandlerCleans(q, c)
  BY <1>4 DEF HandlerCleans, Handler
<1>5. CASE ReplyLost(q, c)
  BY <1>5 DEF ReplyLost, Fault
<1> QED
  BY <1>1, <1>2, <1>3, <1>4, <1>5 DEF HandlerStep, Handles

\* Either keeps the count within the connections that accepted.
LEMMA CountStep ==
  ASSUME TypeOK, NEW q \in Callers, CountInv(q), Quiet(q) \/ Credits(q)
  PROVE  CountInv(q)'
<1>1. \A c \in Conns : /\ got[q][c] > 0 => got'[q][c] > 0
                       /\ rpc'[q][c] = "SUCCESS" => got'[q][c] > 0
  <2>1. CASE Quiet(q)
    BY <2>1 DEF Quiet
  <2>2. CASE Credits(q)
    BY <2>2 DEF Credits
  <2> QED
    BY <2>1, <2>2
<1>2. CASE Quiet(q)
  <2>1. Counted(q) \subseteq Counted(q)'
    BY <1>1, <1>2 DEF Quiet, Counted
  <2>2. summary'[q].success <= Cardinality(Counted(q)')
    BY <1>2, <2>1, CountGrows DEF Quiet
  <2> QED
    BY <1>1, <2>2 DEF CountInv
<1>3. CASE Credits(q)
  <2>1. Counted(q) \subseteq Counted(q)'
    BY <1>1, <1>3 DEF Credits, Counted
  <2>2. at[q] \in Conns /\ at[q] \in Counted(q)' \ Counted(q)
    BY <1>3 DEF Credits, Counted
  <2>3. summary'[q].success <= Cardinality(Counted(q)')
    BY <1>3, <2>1, <2>2, CountAdds DEF Credits
  <2> QED
    BY <1>1, <2>3 DEF CountInv
<1> QED
  BY <1>2, <1>3

LEMMA CountFrame ==
  ASSUME NEW x \in Callers, Same(x), CountInv(x)
  PROVE  CountInv(x)'
<1>1. Counted(x)' = Counted(x)
  BY DEF Same, Counted, Pending
<1> QED
  BY <1>1 DEF Same, CountInv

------------------------------------------------------------------------------
(* The steps together, and the theorems.                                   *)

LEMMA NextRouterInv == RouterInv /\ [Next]_vars => RouterInv'
<1> SUFFICES ASSUME RouterInv, [Next]_vars PROVE RouterInv'
  OBVIOUS
<1>0. TypeOK /\ \A x \in Callers : CountInv(x)
  BY DEF RouterInv
<1>1. CASE UNCHANGED vars
  <2>1. TypeOK'
    BY <1>0, <1>1 DEF TypeOK, vars, storeVars, callVars
  <2>2. ASSUME NEW x \in Callers PROVE OnceInv(x)' /\ StaleInv(x)'
    BY <1>1 DEF RouterInv, OnceInv, StaleInv, Untouched, Pending, Waiting, vars, storeVars, callVars
  <2>3. ASSUME NEW x \in Callers PROVE CountInv(x)'
    <3>1. Same(x)
      BY <1>1 DEF Same, vars, storeVars, callVars
    <3> QED
      BY <1>0, <3>1, CountFrame
  <2> QED
    BY <2>1, <2>2, <2>3 DEF RouterInv
<1>2. ASSUME NEW c \in Conns, HubNext(c) PROVE RouterInv'
  <2>1. ASSUME NEW x \in Callers PROVE CountInv(x)'
    <3>1. Same(x)
      BY <1>2 DEF HubNext, Join, Leave, Retract, Refresh, Same, storeVars, callVars
    <3> QED
      BY <1>0, <3>1, CountFrame
  <2> QED
    BY <1>2, <2>1, TypeHub, OnceHub, StaleHub DEF RouterInv
<1>3. ASSUME NEW q \in Callers, CallerStep(q) PROVE RouterInv'
  <2>1. ASSUME NEW x \in Callers PROVE CountInv(x)'
    <3>1. CASE x = q
      BY <1>0, <1>3, <3>1, CountCaller, CountStep
    <3>2. CASE x # q
      <4>1. Same(x)
        BY <1>0, <1>3, <3>2, SameCaller
      <4> QED
        BY <1>0, <4>1, CountFrame
    <3> QED
      BY <3>1, <3>2
  <2> QED
    BY <1>3, <2>1, TypeCaller, OnceCaller, StaleCaller DEF RouterInv
<1>4. ASSUME NEW q \in Callers, NEW c \in Conns, HandlerStep(q, c) PROVE RouterInv'
  <2>1. ASSUME NEW x \in Callers PROVE CountInv(x)'
    <3>1. CASE x = q
      BY <1>0, <1>4, <3>1, CountHandler, CountStep
    <3>2. CASE x # q
      <4>1. Same(x)
        BY <1>0, <1>4, <3>2, SameHandler
      <4> QED
        BY <1>0, <4>1, CountFrame
    <3> QED
      BY <3>1, <3>2
  <2> QED
    BY <1>4, <2>1, TypeHandler, OnceHandler, StaleHandler DEF RouterInv
<1> QED
  BY <1>1, <1>2, <1>3, <1>4 DEF Next, CallerStep, HandlerStep

THEOREM RouterInvariant == Spec => []RouterInv
BY InitRouterInv, NextRouterInv, PTL DEF Spec

\* The variables of the push router keep their types.
THEOREM RouterTypeCorrect == Spec => []TypeOK
<1>1. RouterInv => TypeOK
  BY DEF RouterInv
<1> QED
  BY <1>1, RouterInvariant, PTL

\* One call hands its message to a connection at most once, although an RPC
\* that timed out may have been executed.
THEOREM SendsAtMostOnce == Spec => []AtMostOnce
<1>1. RouterInv => AtMostOnce
  BY DEF RouterInv, OnceInv, AtMostOnce
<1> QED
  BY <1>1, RouterInvariant, PTL

\* A push never reports more successes than connections that accepted.
THEOREM ReportsAtMostAccepted == Spec => []NeverOverstated
<1>1. RouterInv => NeverOverstated
  <2> SUFFICES ASSUME RouterInv, NEW q \in Callers
               PROVE  summary[q].success <= Cardinality({c \in Conns : got[q][c] > 0})
    BY DEF NeverOverstated
  <2> DEFINE A == {c \in Conns : got[q][c] > 0}
  <2>1. IsFiniteSet(A) /\ Counted(q) \in SUBSET A
    BY ConnsAssumption, FS_Subset DEF Counted
  <2>2. IsFiniteSet(Counted(q)) /\ Cardinality(Counted(q)) <= Cardinality(A)
    BY <2>1, FS_Subset
  <2>3. Cardinality(Counted(q)) \in Nat /\ Cardinality(A) \in Nat
    BY <2>1, <2>2, FS_CardinalityType
  <2>4. summary[q].success \in Nat /\ summary[q].success <= Cardinality(Counted(q))
    BY DEF RouterInv, TypeOK, CountInv
  <2> QED
    BY <2>2, <2>3, <2>4
<1> QED
  BY <1>1, RouterInvariant, PTL

\* The router removes the route of no connection that is still in its Hub.
THEOREM CleansOnlyGone == Spec => CleanupSparesLive
<1>1. ASSUME RouterInv, [Next]_vars
      PROVE  [\A c \in routes : (\E q \in Callers : CleanUp(q) \/ HandlerCleans(q, c))
                                 => c \in routes' \/ status[c] = "gone"]_vars
  <2> SUFFICES ASSUME NEW c \in routes, NEW q \in Callers, CleanUp(q) \/ HandlerCleans(q, c)
               PROVE  c \in routes' \/ status[c] = "gone"
    OBVIOUS
  <2>1. TypeOK /\ StaleInv(q) /\ c \in Conns
    BY <1>1 DEF RouterInv, TypeOK
  <2>2. CASE CleanUp(q)
    BY <2>1, <2>2 DEF CleanUp, StaleInv
  <2>3. CASE HandlerCleans(q, c)
    BY <2>1, <2>3 DEF HandlerCleans, Handler, StaleInv
  <2> QED
    BY <2>2, <2>3
<1> QED
  BY <1>1, RouterInvariant, PTL DEF Spec, CleanupSparesLive
------------------------------------------------------------------------------
(* What a returned call says of the connections that stayed.               *)

Busy(q) == pc[q] \notin {"idle", "broadcasting", "announced"}
Heard(q) == summary[q].success > 0 \/ summary[q].fail > 0
InHand(q, c) == (pc[q] # "returned" /\ c \in todo[q]) \/ c \in Pending(q)

\* Whoever stayed is in its Hub, and until the call has counted an acceptance
\* or a failure it is still to be served.
KeptInv(q) ==
  /\ \A c \in kept[q] : status[c] = "online"
  /\ pc[q] = "forwarding" => kept[q] \subseteq {at[q]}
  /\ Busy(q) => Heard(q) \/ \A c \in kept[q] : InHand(q, c)

Announcing(q) == pc[q] \in {"broadcasting", "announced"}

\* Without a fault only those are missed who are gone or on a gateway that does
\* not answer; a broadcast does not look beyond its own gateway.
CleanInv(q) ==
  faults = 0 =>
    /\ pc[q] = "sending" => status[at[q]] # "absent"
    /\ Waiting(q) => Home[at[q]] # Gate[q]
    /\ \A c \in Conns : /\ rpc[q][c] # "lost"
                        /\ rpc[q][c] = "error" => status[c] = "gone"
                        /\ rpc[q][c] = "send" => status[c] # "absent"
    /\ Busy(q) => \A c \in kept[q] : InTouch(q, c) => got[q][c] > 0 \/ InHand(q, c)
    /\ Announcing(q) =>
         \A c \in kept[q] :
           Home[c] = Gate[q] => got[q][c] > 0 \/ (pc[q] = "broadcasting" /\ c \in todo[q])

\* The ghost of a call changes with that call, and shrinks with the Hubs.
LEMMA KeptFrame ==
  ASSUME RouterInv, NEW x \in Callers, NEW q \in Callers \ {x}, CallerStep(q)
  PROVE  kept'[x] = kept[x] /\ status' = status
<1> USE DEF RouterInv, TypeOK, storeVars, callVars
<1>1. CASE Starts(q)
  BY <1>1 DEF Starts, PushUser, Broadcast, Forward
<1>2. CASE Proceeds(q)
  BY <1>2 DEF Proceeds, RouteLocal, RouteRemote, BroadcastSends, SendLocal, CleanUp, Finish,
              RpcReturns, BroadcastReturns
<1>3. CASE Arrives(q) \/ RpcFails(q)
  BY <1>3 DEF Arrives, RpcFails
<1> QED
  BY <1>1, <1>2, <1>3 DEF CallerStep

\* The steps of the call itself.
LEMMA KeptCaller ==
  ASSUME RouterInv, NEW q \in Callers, KeptInv(q), CallerStep(q)
  PROVE  KeptInv(q)'
<1>0. /\ TypeOK /\ OnceInv(q) /\ StaleInv(q)
      /\ kept[q] \subseteq Conns
      /\ summary[q] \in [{"success", "stale", "noop", "fail"} -> Nat]
  BY DEF RouterInv, TypeOK
<1> USE <1>0 DEF TypeOK, KeptInv, Busy, Heard, InHand, Pending, storeVars, callVars
<1>1. CASE PushUser(q)
  BY <1>1 DEF PushUser, Goes, Tally, Online
<1>2. CASE Broadcast(q)
  BY <1>2 DEF Broadcast, Goes, Online
<1>3. CASE \E c \in Conns : Forward(q, c)
  BY <1>3 DEF Forward, Goes, Tally, Serves, Online
<1>4. CASE \E c \in Conns : RouteLocal(q, c)
  <2> PICK c \in Conns : RouteLocal(q, c)
    BY <1>4
  <2>1. /\ pc[q] = "routing" /\ todo'[q] = todo[q] \ {c} /\ at'[q] = c
        /\ status' = status /\ kept' = kept
    BY DEF RouteLocal, Takes, Serves
  <2>2. Heard(q) => Heard(q)'
    <3>1. summary' = summary \/ Tally(q, "stale")
      BY DEF RouteLocal
    <3>2. summary'[q].success = summary[q].success /\ summary'[q].fail = summary[q].fail
      BY <3>1 DEF Tally
    <3> QED
      BY <3>2
  <2>3. CASE Holds(q, c)
    <3>1. pc'[q] = "sending"
      BY <2>3 DEF RouteLocal, Goes
    <3> QED
      BY <2>1, <2>2, <3>1
  <2>4. CASE ~ Holds(q, c)
    <3>1. pc'[q] = "cleaning" /\ status[c] # "online"
      BY <2>4 DEF RouteLocal, Goes, IsLocal, Holds
    <3> QED
      BY <2>1, <2>2, <3>1
  <2> QED
    BY <2>3, <2>4
<1>5. CASE \E c \in Conns : RouteRemote(q, c)
  BY <1>5 DEF RouteRemote, Takes, Goes, Serves
<1>6. CASE \E c \in Conns : BroadcastSends(q, c)
  BY <1>6 DEF BroadcastSends
<1>7. CASE SendLocal(q)
  BY <1>7 DEF SendLocal, Goes, Tally
<1>8. CASE CleanUp(q)
  BY <1>8 DEF CleanUp, Goes
<1>9. CASE Finish(q)
  BY <1>9 DEF Finish, Goes
<1>10. CASE RpcReturns(q)
  BY <1>10 DEF RpcReturns, Goes, Tally, AfterAnswer, Waiting, Answers, StaleInv
<1>11. CASE BroadcastReturns(q)
  BY <1>11 DEF BroadcastReturns, Goes
<1>12. CASE Arrives(q)
  BY <1>12 DEF Arrives, Waiting
<1>13. CASE RpcFails(q)
  BY <1>13 DEF RpcFails, Goes, Tally, AfterAnswer, Waiting
<1> QED
  BY <1>1, <1>2, <1>3, <1>4, <1>5, <1>6, <1>7, <1>8, <1>9, <1>10, <1>11, <1>12, <1>13 DEF CallerStep, Starts, Proceeds

\* Of the ghost and the status, a step of the Hubs takes, a handler nothing.
LEMMA KeptHub ==
  ASSUME RouterInv, NEW x \in Callers, NEW c \in Conns, HubNext(c), KeptInv(x)
  PROVE  KeptInv(x)'
<1> USE DEF RouterInv, TypeOK, KeptInv, Busy, Heard, InHand, Pending, storeVars, callVars
<1>1. CASE Join(c)
  BY <1>1 DEF Join
<1>2. CASE Leave(c)
  BY <1>2 DEF Leave
<1>3. CASE Retract(c)
  BY <1>3 DEF Retract
<1>4. CASE Refresh(c)
  BY <1>4 DEF Refresh
<1> QED
  BY <1>1, <1>2, <1>3, <1>4 DEF HubNext

LEMMA HandlerFrame ==
  ASSUME NEW q \in Callers, NEW c \in Conns, HandlerStep(q, c)
  PROVE  /\ status' = status /\ kept' = kept
         /\ pc' = pc /\ todo' = todo /\ at' = at /\ summary' = summary
BY DEF HandlerStep, Handles, HandlerLooksUp, HandlerSends, HandlerFinds, HandlerCleans, ReplyLost,
       storeVars, callVars

LEMMA NextKeptInv ==
  ASSUME RouterInv, \A x \in Callers : KeptInv(x), [Next]_vars
  PROVE  \A x \in Callers : KeptInv(x)'
<1> SUFFICES ASSUME NEW x \in Callers PROVE KeptInv(x)'
  OBVIOUS
<1>0. TypeOK /\ KeptInv(x)
  BY DEF RouterInv
<1>1. CASE UNCHANGED vars
  BY <1>0, <1>1 DEF KeptInv, Busy, Heard, InHand, Pending, vars, storeVars, callVars
<1>2. ASSUME NEW c \in Conns, HubNext(c) PROVE KeptInv(x)'
  BY <1>0, <1>2, KeptHub
<1>3. ASSUME NEW q \in Callers, CallerStep(q) PROVE KeptInv(x)'
  <2>1. CASE x = q
    BY <1>0, <1>3, <2>1, KeptCaller
  <2>2. CASE x # q
    BY <1>0, <1>3, <2>2, SameCaller, KeptFrame DEF Same, KeptInv, Busy, Heard, InHand, Pending
  <2> QED
    BY <2>1, <2>2
<1>4. ASSUME NEW q \in Callers, NEW c \in Conns, HandlerStep(q, c) PROVE KeptInv(x)'
  BY <1>0, <1>4, HandlerFrame DEF KeptInv, Busy, Heard, InHand, Pending
<1> QED
  BY <1>1, <1>2, <1>3, <1>4 DEF Next, CallerStep, HandlerStep

\* "Nobody there" and "only stale routes" are true: no connection of the user
\* was live and routable from begin to end of the call.
THEOREM QuietIsTrue == Spec => []QuietMeansAway
<1> DEFINE I == RouterInv /\ \A x \in Callers : KeptInv(x)
<1>1. Init => I
  BY InitRouterInv DEF Init, KeptInv, Busy
<1>2. I /\ [Next]_vars => I'
  BY NextRouterInv, NextKeptInv
<1>3. I => QuietMeansAway
  <2> SUFFICES ASSUME I, NEW q \in Callers, pc[q] = "returned", kept[q] # {}
               PROVE  Status(summary[q]) \notin {"NOOP_OFFLINE", "STALE_CLEANED"}
    BY DEF QuietMeansAway
  <2>1. Heard(q)
    BY DEF KeptInv, Busy, InHand, Pending
  <2>2. summary[q].success \in Nat /\ summary[q].fail \in Nat
    BY DEF RouterInv, TypeOK
  <2>3. summary[q].success > 0 \/ (summary[q].success = 0 /\ summary[q].fail > 0)
    BY <2>1, <2>2 DEF Heard
  <2>4. CASE summary[q].success > 0
    <3>1. Status(summary[q]) = "SUCCESS"
      BY <2>2, <2>4 DEF Status
    <3> QED
      BY <3>1
  <2>5. CASE summary[q].success = 0 /\ summary[q].fail > 0
    <3>1. Status(summary[q]) = "FAILED"
      BY <2>2, <2>5 DEF Status
    <3> QED
      BY <3>1
  <2> QED
    BY <2>3, <2>4, <2>5
<1> QED
  BY <1>1, <1>2, <1>3, PTL DEF Spec
------------------------------------------------------------------------------
(* Without a fault.                                                        *)

\* A refusal is no fault only of a connection that left.
LEMMA HonestRefusal ==
  ASSUME TypeOK, NEW c \in Conns, Refuses(c), status[c] # "absent", faults' = 0
  PROVE  status[c] = "gone"
BY MaxFaultsAssumption DEF TypeOK, Refuses, Fault

\* Faults are never taken back.
LEMMA FaultsStay ==
  ASSUME TypeOK, [Next]_vars, faults' = 0
  PROVE  faults = 0
<1>0. faults \in Nat
  BY MaxFaultsAssumption DEF TypeOK
<1>1. faults' = faults \/ Fault
  BY DEF Next, HubNext, Join, Leave, Retract, Refresh, Starts, PushUser, Broadcast, Forward,
         Proceeds, RouteLocal, RouteRemote, BroadcastSends, SendLocal, CleanUp, Finish,
         RpcReturns, BroadcastReturns, Arrives, RpcFails, Handles, HandlerLooksUp, HandlerSends,
         HandlerFinds, HandlerCleans, ReplyLost, Accepts, Refuses, vars, storeVars, callVars
<1> QED
  BY <1>0, <1>1 DEF Fault

LEMMA CleanCaller ==
  ASSUME RouterInv, NEW q \in Callers, KeptInv(q), CleanInv(q), CallerStep(q)
  PROVE  CleanInv(q)'
<1> SUFFICES ASSUME faults' = 0
             PROVE  CleanInv(q)'
  BY DEF CleanInv
<1>0. /\ TypeOK /\ OnceInv(q) /\ StaleInv(q) /\ CountInv(q)
      /\ kept[q] \subseteq Conns
      /\ \A c \in Conns : got[q][c] \in Nat
  BY DEF RouterInv, TypeOK
<1>a. faults = 0 /\ ~ Fault
  BY <1>0, FaultsStay, MaxFaultsAssumption DEF Next, CallerStep, TypeOK, Fault
<1>b. \A c \in kept[q] : status[c] = "online"
  BY DEF KeptInv
<1> USE <1>0, <1>a, <1>b DEF TypeOK, CleanInv, Busy, Announcing, InTouch, InHand, Pending, Waiting, storeVars, callVars
<1>1. CASE PushUser(q)
  BY <1>1 DEF PushUser, Goes, Online
<1>2. CASE Broadcast(q)
  BY <1>2 DEF Broadcast, Goes, Online, Holds
<1>3. CASE \E c \in Conns : Forward(q, c)
  BY <1>3 DEF Forward, Goes, Serves, Online, IsLocal
<1>4. CASE \E c \in Conns : RouteLocal(q, c)
  <2> PICK c \in Conns : RouteLocal(q, c)
    BY <1>4
  <2>1. /\ pc[q] = "routing" /\ todo'[q] = todo[q] \ {c} /\ at'[q] = c /\ c \in todo[q]
        /\ status' = status /\ kept' = kept /\ rpc' = rpc /\ got' = got
    BY DEF RouteLocal, Takes, Serves
  <2>2. CASE Holds(q, c)
    <3>1. pc'[q] = "sending" /\ status[c] = "online"
      BY <2>2 DEF RouteLocal, Goes, Holds
    <3> QED
      BY <2>1, <3>1
  <2>3. CASE ~ Holds(q, c)
    <3>1. pc'[q] = "cleaning" /\ status[c] # "online"
      BY <2>3 DEF RouteLocal, Goes, IsLocal, Holds
    <3> QED
      BY <2>1, <3>1
  <2> QED
    BY <2>2, <2>3
<1>5. CASE \E c \in Conns : RouteRemote(q, c)
  BY <1>5 DEF RouteRemote, Takes, Goes, Serves, IsLocal
<1>6. CASE \E c \in Conns : BroadcastSends(q, c)
  <2> PICK c \in Conns : BroadcastSends(q, c)
    BY <1>6
  <2>1. /\ pc[q] = "broadcasting" /\ pc' = pc /\ c \in todo[q] /\ todo'[q] = todo[q] \ {c}
        /\ status' = status /\ kept' = kept /\ rpc' = rpc /\ at' = at
    BY DEF BroadcastSends
  <2>2. \A y \in Conns : got[q][y] > 0 => got'[q][y] > 0
    BY AcceptsEffect DEF BroadcastSends
  <2>3. c \in kept[q] => got'[q][c] > 0
    <3>1. CASE Accepts(q, c)
      BY <3>1, AcceptsEffect
    <3>2. CASE Refuses(c)
      BY <2>1, <3>2, HonestRefusal DEF StaleInv
    <3> QED
      BY <3>1, <3>2 DEF BroadcastSends
  <2> QED
    BY <2>1, <2>2, <2>3
<1>7. CASE SendLocal(q)
  <2>1. /\ at[q] \in Conns /\ pc[q] = "sending" /\ pc'[q] = "routing"
        /\ status' = status /\ kept' = kept /\ rpc' = rpc /\ todo' = todo /\ at' = at
    BY <1>7 DEF SendLocal, Goes
  <2>2. CASE Accepts(q, at[q])
    BY <2>1, <2>2, AcceptsEffect
  <2>3. CASE Refuses(at[q]) /\ UNCHANGED got
    BY <2>1, <2>3, HonestRefusal
  <2> QED
    BY <1>7, <2>2, <2>3 DEF SendLocal
<1>8. CASE CleanUp(q)
  BY <1>8 DEF CleanUp, Goes, StaleInv
<1>9. CASE Finish(q)
  BY <1>9 DEF Finish, Goes
<1>10. CASE RpcReturns(q)
  <2>1. /\ at[q] \in Conns /\ Waiting(q) /\ rpc[q][at[q]] \in Answers
        /\ pc'[q] = AfterAnswer(q, rpc[q][at[q]])
        /\ status' = status /\ kept' = kept /\ rpc' = rpc /\ todo' = todo /\ at' = at /\ got' = got
    BY <1>10 DEF RpcReturns, Goes, Waiting
  <2>2. got[q][at[q]] > 0 \/ at[q] \notin kept[q]
    BY <2>1 DEF Answers, CountInv, StaleInv
  <2>3. pc[q] = "forwarding" => kept[q] \subseteq {at[q]}
    BY DEF KeptInv
  <2> QED
    BY <2>1, <2>2, <2>3 DEF Waiting, AfterAnswer
<1>11. CASE BroadcastReturns(q)
  BY <1>11 DEF BroadcastReturns, Goes
<1>12. CASE Arrives(q)
  <2>1. Waiting(q) /\ Handler(q, at[q], "none", "lookup") /\ at[q] \in Conns
    BY <1>12 DEF Arrives, Waiting
  <2>2. \A c \in Conns : rpc'[q][c] = rpc[q][c] \/ rpc'[q][c] = "lookup"
    BY <2>1, HandlerEffect
  <2> QED
    BY <1>12, <2>2 DEF Arrives
<1>13. CASE RpcFails(q)
  <2>1. /\ Waiting(q) /\ at[q] \in Conns /\ NoAnswer(q)
        /\ pc'[q] = IF pc[q] = "forwarding" THEN "returned" ELSE "routing"
        /\ status' = status /\ kept' = kept /\ rpc' = rpc /\ todo' = todo /\ at' = at /\ got' = got
    BY <1>13 DEF RpcFails, Waiting, Goes, AfterAnswer
  <2>2. ~ InTouch(q, at[q])
    BY <2>1 DEF NoAnswer
  <2>3. pc[q] = "forwarding" => kept[q] \subseteq {at[q]}
    BY DEF KeptInv
  <2> QED
    BY <2>1, <2>2, <2>3
<1> QED
  BY <1>1, <1>2, <1>3, <1>4, <1>5, <1>6, <1>7, <1>8, <1>9, <1>10, <1>11, <1>12, <1>13 DEF CallerStep, Starts, Proceeds

LEMMA CleanHandler ==
  ASSUME RouterInv, NEW x \in Callers, NEW q \in Callers, NEW c \in Conns, HandlerStep(q, c),
         CleanInv(x)
  PROVE  CleanInv(x)'
<1> SUFFICES ASSUME faults' = 0
             PROVE  CleanInv(x)'
  BY DEF CleanInv
<1>0. TypeOK /\ StaleInv(x) /\ StaleInv(q)
  BY DEF RouterInv
<1>1. faults = 0 /\ ~ Fault
  BY <1>0, FaultsStay, MaxFaultsAssumption DEF Next, HandlerStep, TypeOK, Fault
<1>2. /\ status' = status /\ kept' = kept
      /\ pc' = pc /\ todo' = todo /\ at' = at /\ summary' = summary
  BY HandlerFrame
<1>3. \A y \in Conns : got[x][y] > 0 => got'[x][y] > 0
  <2>1. got' = got \/ Accepts(q, c)
    BY DEF HandlerStep, Handles, HandlerLooksUp, HandlerSends, HandlerFinds, HandlerCleans, ReplyLost
  <2> QED
    BY <1>0, <2>1, AcceptsEffect
<1>4. \A y \in Conns : /\ rpc'[x][y] # "lost"
                       /\ rpc'[x][y] = "error" => status[y] = "gone"
                       /\ rpc'[x][y] = "send" => status[y] # "absent"
  <2> USE <1>0, <1>1 DEF CleanInv, StaleInv
  <2>1. CASE HandlerLooksUp(q, c)
    BY <2>1, HandlerEffect DEF HandlerLooksUp
  <2>2. CASE HandlerSends(q, c)
    <3>1. CASE Handler(q, c, "send", "SUCCESS")
      BY <3>1, HandlerEffect
    <3>2. CASE Refuses(c) /\ Handler(q, c, "send", "error")
      <4>1. x = q => status[c] = "gone"
        BY <3>2, HandlerEffect, HonestRefusal
      <4> QED
        BY <3>2, <4>1, HandlerEffect
    <3> QED
      BY <2>2, <3>1, <3>2 DEF HandlerSends
  <2>3. CASE HandlerFinds(q, c)
    BY <2>3, HandlerEffect DEF HandlerFinds
  <2>4. CASE HandlerCleans(q, c)
    BY <2>4, HandlerEffect DEF HandlerCleans
  <2>5. CASE ReplyLost(q, c)
    BY <2>5 DEF ReplyLost
  <2> QED
    BY <2>1, <2>2, <2>3, <2>4, <2>5 DEF HandlerStep, Handles
<1>5. /\ pc[x] = "sending" => status[at[x]] # "absent"
      /\ Waiting(x) => Home[at[x]] # Gate[x]
      /\ kept[x] \subseteq Conns
  BY <1>0, <1>1 DEF CleanInv, TypeOK
<1>6. Busy(x)' => \A y \in kept'[x] : InTouch(x, y) => got'[x][y] > 0 \/ InHand(x, y)'
  BY <1>1, <1>2, <1>3, <1>5 DEF CleanInv, Busy, InHand, Pending
<1>7. Announcing(x)' =>
        \A y \in kept'[x] :
          Home[y] = Gate[x] => got'[x][y] > 0 \/ (pc'[x] = "broadcasting" /\ y \in todo'[x])
  BY <1>1, <1>2, <1>3, <1>5 DEF CleanInv, Announcing
<1> QED
  BY <1>2, <1>4, <1>5, <1>6, <1>7 DEF CleanInv, InTouch, Waiting

LEMMA CleanHub ==
  ASSUME RouterInv, NEW x \in Callers, NEW c \in Conns, HubNext(c), CleanInv(x)
  PROVE  CleanInv(x)'
<1> USE DEF RouterInv, TypeOK, CleanInv, Busy, Announcing, InTouch, InHand, Pending, Waiting, storeVars, callVars
<1>1. CASE Join(c)
  BY <1>1 DEF Join
<1>2. CASE Leave(c)
  BY <1>2 DEF Leave
<1>3. CASE Retract(c)
  BY <1>3 DEF Retract
<1>4. CASE Refresh(c)
  BY <1>4 DEF Refresh
<1> QED
  BY <1>1, <1>2, <1>3, <1>4 DEF HubNext

LEMMA NextCleanInv ==
  ASSUME RouterInv, \A x \in Callers : KeptInv(x) /\ CleanInv(x), [Next]_vars
  PROVE  \A x \in Callers : CleanInv(x)'
<1> SUFFICES ASSUME NEW x \in Callers, faults' = 0 PROVE CleanInv(x)'
  BY DEF CleanInv
<1>0. TypeOK /\ KeptInv(x) /\ CleanInv(x) /\ faults = 0
  BY FaultsStay DEF RouterInv
<1>1. CASE UNCHANGED vars
  BY <1>0, <1>1 DEF CleanInv, Busy, Announcing, InTouch, InHand, Pending, Waiting, vars, storeVars, callVars
<1>2. ASSUME NEW c \in Conns, HubNext(c) PROVE CleanInv(x)'
  BY <1>0, <1>2, CleanHub
<1>3. ASSUME NEW q \in Callers, CallerStep(q) PROVE CleanInv(x)'
  <2>1. CASE x = q
    BY <1>0, <1>3, <2>1, CleanCaller
  <2>2. CASE x # q
    BY <1>0, <1>3, <2>2, SameCaller, KeptFrame
       DEF Same, CleanInv, Busy, Announcing, InTouch, InHand, Pending, Waiting
  <2> QED
    BY <2>1, <2>2
<1>4. ASSUME NEW q \in Callers, NEW c \in Conns, HandlerStep(q, c) PROVE CleanInv(x)'
  BY <1>0, <1>4, CleanHandler
<1> QED
  BY <1>1, <1>2, <1>3, <1>4 DEF Next, CallerStep, HandlerStep

\* The three parts of the invariant together.
LEMMA ReachInvariant ==
  Spec => [](RouterInv /\ \A x \in Callers : KeptInv(x) /\ CleanInv(x))
<1> DEFINE I == RouterInv /\ \A x \in Callers : KeptInv(x) /\ CleanInv(x)
<1>1. Init => I
  BY InitRouterInv DEF Init, KeptInv, CleanInv, Busy, Announcing, Waiting
<1>2. I /\ [Next]_vars => I'
  BY NextRouterInv, NextKeptInv, NextCleanInv
<1> QED
  BY <1>1, <1>2, PTL DEF Spec

\* The loop of RouteUser loses nobody it can reach, on its own gateway or on one that
\* answers at the address in the route: with the addresses of the code (finding 3) the
\* caller's own gateway only.
THEOREM FaultFreePushReachesInTouch == Spec => []ReachesInTouch
<1>1. RouterInv /\ (\A x \in Callers : KeptInv(x) /\ CleanInv(x)) => ReachesInTouch
  BY DEF CleanInv, Busy, InHand, Pending, ReachesInTouch
<1> QED
  BY <1>1, ReachInvariant, PTL

\* Without a fault a broadcast reaches every connection of its own gateway that is
\* there from begin to end; BroadcastReachesAll fails on the other gateways only.
BroadcastReachesOwn ==
  faults = 0 =>
    \A q \in Callers : pc[q] = "announced" =>
      \A c \in kept[q] : Home[c] = Gate[q] => got[q][c] > 0

\* Hub.Broadcast serves its whole snapshot, whoever comes or goes during the loop.
THEOREM BroadcastReachesItsGateway == Spec => []BroadcastReachesOwn
<1>1. RouterInv /\ (\A x \in Callers : KeptInv(x) /\ CleanInv(x)) => BroadcastReachesOwn
  BY DEF CleanInv, Announcing, BroadcastReachesOwn
<1> QED
  BY <1>1, ReachInvariant, PTL
================================================================================
