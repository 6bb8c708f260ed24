------------------------------ MODULE PushRouter ------------------------------
(***************************************************************************)
(* Pushing a message to the connections of one user that are spread over   *)
(* several gateways: RouteUser, the forwarding leg of RouteConnection and  *)
(* Broadcast, run by callers on any gateway, with the PushToConnection RPC *)
(* to the gateway that owns a remote connection (push/router.go,           *)
(* push/result.go, backbon/service/push_to_connection.go).                 *)
(*                                                                         *)
(* The Hubs appear as HubMembership describes them.  A route is the fact   *)
(* and the index entry together; Presence looks at them one by one.        *)
(***************************************************************************)
EXTENDS Naturals, FiniteSets

CONSTANTS Conns,      \* the connections of the user
          Gateways,
          Home,       \* the gateway each connection is on
          Callers,    \* RPC handler goroutines that run PushData
          Gate,       \* the gateway each caller runs on
          Reachable,  \* gateways whose advertised address their RPC server answers
          NoConn,     \* "no connection"
          MaxFaults   \* bound of the model: refusals, errors, lost or late replies

ASSUME ConnsAssumption == IsFiniteSet(Conns) /\ NoConn \notin Conns
ASSUME HomeAssumption == Home \in [Conns -> Gateways] /\ Gate \in [Callers -> Gateways]
ASSUME ReachableAssumption == Reachable \subseteq Gateways
ASSUME MaxFaultsAssumption == MaxFaults \in Nat

VARIABLES
  status,      \* of each connection in its Hub's maps
  routes,      \* connections with a route in Redis
  pc,          \* of each caller
  todo, at,    \* its connections still to serve, and the one being served
  summary,     \* its routeSummary
  rpc,         \* the PushToConnection handler of each caller and connection
  got,         \* how often a connection accepted the caller's message
  kept,        \* ghost: connections live and routable since the call began
  faults

storeVars == <<status, routes>>
callVars == <<pc, todo, at, summary>>
vars == <<storeVars, callVars, rpc, got, kept, faults>>

Running == {"lookup", "send", "find", "clean"}
Answers == {"SUCCESS", "STALE_CLEANED", "error"}
Ended == {"returned", "announced"}

TypeOK ==
  /\ status \in [Conns -> {"absent", "online", "gone"}]
  /\ routes \subseteq {c \in Conns : status[c] # "absent"}
  /\ pc \in [Callers -> Ended \cup {"idle", "routing", "sending", "cleaning",
                                    "calling", "forwarding", "broadcasting"}]
  /\ todo \in [Callers -> SUBSET Conns]
  /\ at \in [Callers -> Conns \cup {NoConn}]
  /\ \A q \in Callers : pc[q] \in {"sending", "cleaning", "calling", "forwarding"} => at[q] # NoConn
  /\ summary \in [Callers -> [{"success", "stale", "noop", "fail"} -> Nat]]
  /\ rpc \in [Callers -> [Conns -> {"none", "lost"} \cup Running \cup Answers]]
  /\ got \in [Callers -> [Conns -> Nat]]
  /\ kept \in [Callers -> SUBSET Conns]
  /\ faults \in 0 .. MaxFaults

EmptySummary == [k \in {"success", "stale", "noop", "fail"} |-> 0]

Init ==
  /\ status = [c \in Conns |-> "absent"] /\ routes = {}
  /\ pc = [q \in Callers |-> "idle"]
  /\ todo = [q \in Callers |-> {}] /\ at = [q \in Callers |-> NoConn]
  /\ summary = [q \in Callers |-> EmptySummary]
  /\ rpc = [q \in Callers |-> [c \in Conns |-> "none"]]
  /\ got = [q \in Callers |-> [c \in Conns |-> 0]]
  /\ kept = [q \in Callers |-> {}]
  /\ faults = 0

Fault == faults < MaxFaults /\ faults' = faults + 1
Online == {c \in Conns : status[c] = "online"}

------------------------------------------------------------------------------
(* The Hubs and their presence calls.                                      *)

\* The Hub takes c in and writes its route, holding h.mu all the while, so no
\* lookup sees c earlier; the write may fail.
Join(c) ==
  /\ status[c] = "absent"
  /\ status' = [status EXCEPT ![c] = "online"]
  /\ routes' \in {routes, routes \cup {c}}
  /\ UNCHANGED <<callVars, rpc, got, kept, faults>>

\* The Hub drops c, or its gateway dies.
Leave(c) ==
  /\ status[c] = "online"
  /\ status' = [status EXCEPT ![c] = "gone"]
  /\ kept' = [q \in Callers |-> kept[q] \ {c}]
  /\ UNCHANGED <<routes, callVars, rpc, got, faults>>

\* The unregistration of c reaches Redis (it need not), or the TTL ends.
Retract(c) ==
  /\ status[c] # "absent" /\ c \in routes
  /\ routes' = routes \ {c}
  /\ kept' = [q \in Callers |-> kept[q] \ {c}]
  /\ UNCHANGED <<status, callVars, rpc, got, faults>>

\* A refresh writes the route of c again.
Refresh(c) ==
  /\ status[c] # "absent" /\ c \notin routes
  /\ routes' = routes \cup {c}
  /\ UNCHANGED <<status, callVars, rpc, got, kept, faults>>

------------------------------------------------------------------------------
(* The summary of one RouteUser.                                           *)

Tally(q, k) == summary' = [summary EXCEPT ![q][k] = @ + 1]

\* Mutant: stale routes outrank failures.
StatusStaleFirst(s) ==
  CASE s.success > 0 -> "SUCCESS"
    [] s.success = 0 /\ s.stale > 0 -> "STALE_CLEANED"
    [] s.success = 0 /\ s.stale = 0 /\ s.fail > 0 -> "FAILED"
    [] OTHER -> "NOOP_OFFLINE"

\* toPushResult: success first, then failure, then stale, then nobody there.
Status(s) ==
  CASE s.success > 0 -> "SUCCESS"
    [] s.success = 0 /\ s.fail > 0 -> "FAILED"
    [] s.success = 0 /\ s.fail = 0 /\ s.stale > 0 -> "STALE_CLEANED"
    [] OTHER -> "NOOP_OFFLINE"

------------------------------------------------------------------------------
(* RouteUser.                                                              *)

Goes(q, to) == pc' = [pc EXCEPT ![q] = to]

\* Mutant: the connection of the loop is not passed on.
ServesNone(q, c) == UNCHANGED at

Serves(q, c) == at' = [at EXCEPT ![q] = c]

\* ListByUser: no route, an error, or the routes to go through.
PushUser(q) ==
  /\ pc[q] = "idle"
  /\ kept' = [kept EXCEPT ![q] = routes \cap Online]
  /\ \/ /\ Goes(q, IF routes = {} THEN "returned" ELSE "routing")
        /\ todo' = [todo EXCEPT ![q] = routes]
        /\ UNCHANGED <<summary, faults>>
     \/ Fault /\ Goes(q, "returned") /\ Tally(q, "fail") /\ UNCHANGED todo
  /\ UNCHANGED <<storeVars, at, rpc, got>>

\* Mutant: two gateways advertise the same address.
IsLocalAlways(q, c) == Home[c] \in Gateways

\* isLocal compares the address in the route with the gateway's own: no two gateways
\* advertise the same one.
IsLocal(q, c) == Home[c] = Gate[q]

Takes(q, c) == /\ pc[q] = "routing" /\ c \in todo[q]
               /\ todo' = [todo EXCEPT ![q] = @ \ {c}]
               /\ Serves(q, c)

\* The Hub of this gateway is asked for c.
Holds(q, c) == status[c] = "online" /\ Home[c] = Gate[q]

RouteLocal(q, c) ==
  /\ Takes(q, c) /\ IsLocal(q, c)
  /\ IF Holds(q, c)
     THEN Goes(q, "sending") /\ UNCHANGED summary
     ELSE Goes(q, "cleaning") /\ Tally(q, "stale")
  /\ UNCHANGED <<storeVars, rpc, got, kept, faults>>

\* SendToConnection: c accepts the message, ...
Accepts(q, c) == /\ status[c] = "online"
                 /\ got' = [got EXCEPT ![q][c] = @ + 1]
                 /\ UNCHANGED faults

\* ... or has left meanwhile, is closing, or its buffer is full.
Refuses(c) == (status[c] # "online" /\ UNCHANGED faults) \/ Fault

\* Mutant: the error of SendToConnection is dropped.
SendLocalUnchecked(q) ==
  /\ pc[q] = "sending"
  /\ Tally(q, "success")
  /\ Accepts(q, at[q]) \/ (Refuses(at[q]) /\ UNCHANGED got)
  /\ Goes(q, "routing")
  /\ UNCHANGED <<storeVars, todo, at, rpc, kept>>

SendLocal(q) ==
  /\ pc[q] = "sending"
  /\ \/ Accepts(q, at[q]) /\ Tally(q, "success")
     \/ Refuses(at[q]) /\ Tally(q, "fail") /\ UNCHANGED got
  /\ Goes(q, "routing")
  /\ UNCHANGED <<storeVars, todo, at, rpc, kept>>

\* Mutant: the loop over the routes ends at the first stale one.
CleanUpAndReturn(q) ==
  /\ pc[q] = "cleaning"
  /\ routes' \in {routes, routes \ {at[q]}}
  /\ Goes(q, "returned")
  /\ UNCHANGED <<status, todo, at, summary, rpc, got, kept, faults>>

\* cleanupStale; its error is only logged.
CleanUp(q) ==
  /\ pc[q] = "cleaning"
  /\ routes' \in {routes, routes \ {at[q]}}
  /\ Goes(q, "routing")
  /\ UNCHANGED <<status, todo, at, summary, rpc, got, kept, faults>>

Finish(q) ==
  /\ pc[q] = "routing" /\ todo[q] = {}
  /\ Goes(q, "returned")
  /\ UNCHANGED <<storeVars, todo, at, summary, rpc, got, kept, faults>>

RouteRemote(q, c) ==
  /\ Takes(q, c) /\ ~ IsLocal(q, c)
  /\ Goes(q, "calling")
  /\ UNCHANGED <<storeVars, summary, rpc, got, kept, faults>>

\* RouteConnection on a gateway that is not the owner of c: Get, then forward.
\* A missing route is answered with an error.
Forward(q, c) ==
  /\ pc[q] = "idle" /\ ~ IsLocal(q, c) /\ status[c] # "absent"
  /\ kept' = [kept EXCEPT ![q] = {c} \cap routes \cap Online]
  /\ Serves(q, c)
  /\ IF c \in routes
     THEN Goes(q, "forwarding") /\ UNCHANGED summary
     ELSE Goes(q, "returned") /\ Tally(q, "fail")
  /\ UNCHANGED <<storeVars, todo, rpc, got, faults>>

------------------------------------------------------------------------------
(* The RPC PushToConnection: RouteConnection on the gateway that owns c.   *)

Waiting(q) == pc[q] \in {"calling", "forwarding"}
Handler(q, c, from, to) == rpc[q][c] = from /\ rpc' = [rpc EXCEPT ![q][c] = to]

Arrives(q) ==
  /\ Waiting(q) /\ Home[at[q]] \in Reachable
  /\ Handler(q, at[q], "none", "lookup")
  /\ UNCHANGED <<storeVars, callVars, got, kept, faults>>

HandlerLooksUp(q, c) ==
  /\ Handler(q, c, "lookup", IF status[c] = "online" THEN "send" ELSE "find")
  /\ UNCHANGED <<storeVars, callVars, got, kept, faults>>

HandlerSends(q, c) ==
  /\ \/ Accepts(q, c) /\ Handler(q, c, "send", "SUCCESS")
     \/ Refuses(c) /\ Handler(q, c, "send", "error") /\ UNCHANGED got
  /\ UNCHANGED <<storeVars, callVars, kept>>

HandlerFinds(q, c) ==
  /\ Handler(q, c, "find", IF c \in routes THEN "clean" ELSE "error")
  /\ UNCHANGED <<storeVars, callVars, got, kept, faults>>

HandlerCleans(q, c) ==
  /\ Handler(q, c, "clean", "STALE_CLEANED")
  /\ routes' \in {routes, routes \ {c}}
  /\ UNCHANGED <<status, callVars, got, kept, faults>>

\* The gateway dies while it handles the call, or the reply is lost.
ReplyLost(q, c) ==
  /\ rpc[q][c] \in Running \cup Answers
  /\ Fault /\ rpc' = [rpc EXCEPT ![q][c] = "lost"]
  /\ UNCHANGED <<storeVars, callVars, got, kept>>

AfterAnswer(q, answer) ==
  CASE pc[q] = "forwarding" -> "returned"
    [] pc[q] = "calling" /\ answer = "STALE_CLEANED" -> "cleaning"
    [] OTHER -> "routing"

\* The answer is counted; a stale one makes RouteUser clean up as well.
RpcReturns(q) ==
  /\ Waiting(q) /\ rpc[q][at[q]] \in Answers
  /\ Tally(q, CASE rpc[q][at[q]] = "SUCCESS" -> "success"
                [] rpc[q][at[q]] = "STALE_CLEANED" -> "stale"
                [] OTHER -> "fail")
  /\ Goes(q, AfterAnswer(q, rpc[q][at[q]]))
  /\ UNCHANGED <<storeVars, todo, at, rpc, got, kept, faults>>

NoAnswer(q) == Home[at[q]] \notin Reachable \/ rpc[q][at[q]] = "lost"

\* Mutant: without WithRPCTimeout only a refused dial ends a call.
RpcFailsOnDialOnly(q) ==
  /\ Waiting(q) /\ Home[at[q]] \notin Reachable /\ UNCHANGED faults
  /\ Tally(q, "fail") /\ Goes(q, AfterAnswer(q, "error"))
  /\ UNCHANGED <<storeVars, todo, at, rpc, got, kept>>

\* Mutant: a call that failed is made again.
RpcFailsAndRetries(q) ==
  /\ Waiting(q) /\ ((NoAnswer(q) /\ UNCHANGED faults) \/ Fault)
  /\ rpc' = [rpc EXCEPT ![q][at[q]] = "none"]
  /\ UNCHANGED <<storeVars, callVars, got, kept>>

\* Mutant: an owner that does not answer counts as nobody there.
RpcFailsQuietly(q) ==
  /\ Waiting(q) /\ ((NoAnswer(q) /\ UNCHANGED faults) \/ Fault)
  /\ Tally(q, "noop") /\ Goes(q, AfterAnswer(q, "error"))
  /\ UNCHANGED <<storeVars, todo, at, rpc, got, kept>>

\* Nobody listens, or the 10 s of WithRPCTimeout end; the handler may go on.
RpcFails(q) ==
  /\ Waiting(q) /\ ((NoAnswer(q) /\ UNCHANGED faults) \/ Fault)
  /\ Tally(q, "fail") /\ Goes(q, AfterAnswer(q, "error"))
  /\ UNCHANGED <<storeVars, todo, at, rpc, got, kept>>

------------------------------------------------------------------------------
(* Broadcast: the connections of this gateway's Hub, results ignored.      *)

Broadcast(q) ==
  /\ pc[q] = "idle"
  /\ Goes(q, "broadcasting")
  /\ todo' = [todo EXCEPT ![q] = {c \in Conns : Holds(q, c)}]
  /\ kept' = [kept EXCEPT ![q] = Online]
  /\ UNCHANGED <<storeVars, at, summary, rpc, got, faults>>

BroadcastSends(q, c) ==
  /\ pc[q] = "broadcasting" /\ c \in todo[q]
  /\ todo' = [todo EXCEPT ![q] = @ \ {c}]
  /\ Accepts(q, c) \/ (Refuses(c) /\ UNCHANGED got)
  /\ UNCHANGED <<storeVars, pc, at, summary, rpc, kept>>

BroadcastReturns(q) ==
  /\ pc[q] = "broadcasting" /\ todo[q] = {}
  /\ Goes(q, "announced")
  /\ UNCHANGED <<storeVars, todo, at, summary, rpc, got, kept, faults>>

------------------------------------------------------------------------------
HubNext(c) == Join(c) \/ Leave(c) \/ Retract(c) \/ Refresh(c)

Starts(q) == PushUser(q) \/ Broadcast(q) \/ \E c \in Conns : Forward(q, c)

Proceeds(q) == \/ \E c \in Conns : RouteLocal(q, c) \/ RouteRemote(q, c) \/ BroadcastSends(q, c)
               \/ SendLocal(q) \/ CleanUp(q) \/ Finish(q) \/ RpcReturns(q) \/ BroadcastReturns(q)

Handles(q, c) == \/ HandlerLooksUp(q, c) \/ HandlerSends(q, c)
                 \/ HandlerFinds(q, c) \/ HandlerCleans(q, c)

Next == \/ \E c \in Conns : HubNext(c)
        \/ \E q \in Callers : Starts(q) \/ Proceeds(q) \/ Arrives(q) \/ RpcFails(q)
        \/ \E q \in Callers, c \in Conns : Handles(q, c) \/ ReplyLost(q, c)

\* Goroutines run, a request that can be delivered is delivered or times out,
\* and a call without an answer times out.
Fairness ==
  \A q \in Callers : /\ WF_vars(Proceeds(q)) /\ WF_vars(RpcFails(q)) /\ WF_vars(Arrives(q))
                     /\ \A c \in Conns : WF_vars(Handles(q, c))

Spec == Init /\ [][Next]_vars
FairSpec == Spec /\ Fairness

------------------------------------------------------------------------------
\* A push never reports more connections than accepted the message, whatever
\* leaves, refuses, or answers late.
NeverOverstated ==
  \A q \in Callers : summary[q].success <= Cardinality({c \in Conns : got[q][c] > 0})

\* One call hands its message to a connection at most once, although an RPC
\* that timed out may have been executed.
AtMostOnce == \A q \in Callers, c \in Conns : got[q][c] <= 1

\* "Nobody there" and "only stale routes", both reported as success, are true:
\* no connection of the user was live and routable from begin to end of the call.
QuietMeansAway ==
  \A q \in Callers :
    pc[q] = "returned" /\ Status(summary[q]) \in {"NOOP_OFFLINE", "STALE_CLEANED"}
      => kept[q] = {}

\* A push removes the route of a connection only when that connection is gone,
\* never that of a live one on any gateway.
CleanupSparesLive ==
  [][\A c \in routes : (\E q \in Callers : CleanUp(q) \/ HandlerCleans(q, c))
                         => c \in routes' \/ status[c] = "gone"]_vars

\* push/router.go:34 says that the address of a route leads to the remote gateway that
\* confirms it: without a fault a push reaches every connection of the user that was
\* live and routable throughout, on whatever gateway it is.
FaultFreeReachesAll ==
  faults = 0 => \A q \in Callers : pc[q] = "returned" => \A c \in kept[q] : got[q][c] > 0

\* The gateway of c is the caller's own, or answers at its advertised address.
InTouch(q, c) == Home[c] \in Reachable \cup {Gate[q]}

\* Without a fault a push has reached every connection of the user that was live
\* and routable throughout, on its own gateway (RouteUser's local branch) and on
\* every gateway that answers at the address in the route, however many of the
\* others do not answer.
ReachesInTouch ==
  faults = 0 =>
    \A q \in Callers : pc[q] = "returned" =>
      \A c \in kept[q] : InTouch(q, c) => got[q][c] > 0

\* What the caller is told: the status and the ConnectionCount of its PushResult.
Told(q) == CASE pc[q] = "idle" -> "unasked"
             [] pc[q] = "returned" -> Status(summary[q])
             [] pc[q] = "announced" -> "ANNOUNCED"
             [] OTHER -> "pending"

CountTold(q) == IF pc[q] = "returned" THEN summary[q].success ELSE 0

\* A call keeps the promises of Delivery: in particular nobody has the message of
\* a call that answered "nobody there", and nobody gets it later from a gateway
\* that was slow; a late delivery belongs to a call that reported a failure.
Contract == INSTANCE Delivery
              WITH online <- Online,
                   answer <- [q \in Callers |-> Told(q)],
                   count <- [q \in Callers |-> CountTold(q)]

ImplementsDelivery == Contract!Spec

\* Every call ends, also when the other gateway dies in the middle of it.
CallEnds == \A q \in Callers : pc[q] \notin Ended \cup {"idle"} ~> pc[q] \in Ended

\* idl/backbon_service.proto:41 says that broadcast reaches all connections.
BroadcastReachesAll ==
  faults = 0 => \A q \in Callers : pc[q] = "announced" => \A c \in kept[q] : got[q][c] > 0
==============================================================================
