------------------------------ MODULE Presence -------------------------------
(***************************************************************************)
(* The routes of one gateway's connections in Redis: the key of each       *)
(* connection (the fact) and the set of connection ids of each user (a     *)
(* repairable index), written in several calls by the Hub goroutine        *)
(* (register, unregister), by the refresh goroutines every frame spawns,   *)
(* and by the goroutines that read a user's routes: pushes, which trim the *)
(* index and clean stale routes, queries (CheckUserOnline) and sweeps      *)
(* (route/redis_store.go, gateway/lifecycle/presence.go, push/router.go,   *)
(* backbon/service/check_user_online.go).                                  *)
(*                                                                         *)
(* The Hub's maps appear as HubMembership describes them (absent, online,  *)
(* gone), which HubLifecycle implements.  Each Redis call is one action.   *)
(***************************************************************************)
EXTENDS Naturals

CONSTANTS Conns, Users, UserOf,
          Pushers,     \* goroutines that run RouteUser, RouteConnection,
                       \* CheckUserOnline or CleanupStale
          MaxFaults    \* bound of the model: failed calls and lapsed TTLs

ASSUME UserOfAssumption == UserOf \in [Conns -> Users]
ASSUME MaxFaultsAssumption == MaxFaults \in Nat

VARIABLES
  status,          \* the Hub's maps: "absent", "online", "gone"
  hubPc, hubConn,  \* the presence call the Hub goroutine is in, for hubConn
  refresh,         \* the refresh goroutine of each connection
  fact,            \* connections whose connection key exists
  index,           \* connections listed in the set of their user
  pushPc,          \* each pusher: control,
  todo, stale, metas,  \* ids still to look at, ids found stale, routes found
  settled,         \* history: routes a query began with and has to find
  faults,          \* failures so far
  harmed           \* connections one of whose calls failed or whose TTL lapsed

storeVars == <<fact, index>>
hubVars == <<status, hubPc, hubConn>>
localVars == <<todo, stale, metas, settled>>
pushVars == <<pushPc, localVars>>
faultVars == <<faults, harmed>>
vars == <<hubVars, refresh, storeVars, pushVars, faultVars>>

TypeOK ==
  /\ status \in [Conns -> {"absent", "online", "gone"}]
  /\ hubPc \in {"select", "set", "index", "undo", "unindex", "delete"}
  /\ hubConn \in {{}} \cup {{c} : c \in Conns} /\ (hubPc = "select" <=> hubConn = {})
  /\ refresh \in [Conns -> {"none", "get", "set", "index", "undo"}]
  /\ fact \subseteq Conns /\ index \subseteq Conns
  /\ pushPc \in [Pushers -> {"idle", "get", "count", "sweep", "confirm", "find",
                           "unindex", "delete", "offline"}]
  /\ todo \in [Pushers -> SUBSET Conns]
  /\ stale \in [Pushers -> SUBSET Conns]
  /\ metas \in [Pushers -> SUBSET Conns]
  /\ settled \in [Pushers -> SUBSET Conns]
  /\ faults \in 0 .. MaxFaults /\ harmed \subseteq Conns

Init ==
  /\ status = [c \in Conns |-> "absent"]
  /\ hubPc = "select" /\ hubConn = {}
  /\ refresh = [c \in Conns |-> "none"]
  /\ fact = {} /\ index = {}
  /\ pushPc = [q \in Pushers |-> "idle"]
  /\ todo = [q \in Pushers |-> {}]
  /\ stale = [q \in Pushers |-> {}]
  /\ metas = [q \in Pushers |-> {}]
  /\ settled = [q \in Pushers |-> {}]
  /\ faults = 0 /\ harmed = {}

------------------------------------------------------------------------------
(* Redis calls.  A call succeeds, fails, or is applied although the caller *)
(* sees an error (the 2 s timeout hit after the server executed it).       *)

Outcomes == {"ok", "failed", "lost"}
Applied(o) == o # "failed"

\* An outcome other than ok is a fault, which harms the connections in S.
Charge(o, S) ==
  /\ o = "ok" \/ faults < MaxFaults
  /\ faults' = IF o = "ok" THEN faults ELSE faults + 1
  /\ harmed' = IF o = "ok" THEN harmed ELSE harmed \cup S

SetFact(c, o) == fact' = IF Applied(o) THEN fact \cup {c} ELSE fact
DeleteFact(S, o) == fact' = IF Applied(o) THEN fact \ S ELSE fact
\* SAdd, and the Expire after it, whose error is only logged.
AddIndex(c, o) == index' = IF Applied(o) THEN index \cup {c} ELSE index
RemoveIndex(S, o) == index' = IF Applied(o) THEN index \ S ELSE index

\* Mutant: the index is written before the fact.
RegisterCallIndexFirst(pc, c, o) ==
  /\ Charge(o, {c})
  /\ \/ pc = "set" /\ AddIndex(c, o) /\ UNCHANGED fact
     \/ pc = "index" /\ SetFact(c, o) /\ UNCHANGED index
     \/ pc = "undo" /\ DeleteFact({c}, o) /\ UNCHANGED index

\* RedisStore.Register: the fact first, then the index; when the index cannot be
\* written the fact is deleted again.  One call, made in phase pc.
RegisterCall(pc, c, o) ==
  /\ Charge(o, {c})
  /\ \/ pc = "set" /\ SetFact(c, o) /\ UNCHANGED index
     \/ pc = "index" /\ AddIndex(c, o) /\ UNCHANGED fact
     \/ pc = "undo" /\ DeleteFact({c}, o) /\ UNCHANGED index

\* Where Register continues after that call; end when it returns.
AfterRegisterCall(pc, o, end) ==
  CASE pc = "set" /\ o = "ok" -> "index"
    [] pc = "index" /\ o # "ok" -> "undo"
    [] OTHER -> end

\* Mutant: the cleanup takes every index entry of the user.
CleanupCallByUser(pc, S, o) ==
  /\ Charge(o, {})
  /\ \/ /\ pc = "unindex" /\ UNCHANGED fact
        /\ RemoveIndex({d \in Conns : \E c \in S : UserOf[d] = UserOf[c]}, o)
     \/ pc = "delete" /\ DeleteFact(S, o) /\ UNCHANGED index

\* RedisStore.Cleanup of the ids in S: index first; an error ends it.
CleanupCall(pc, S, o) ==
  /\ Charge(o, {})
  /\ \/ pc = "unindex" /\ RemoveIndex(S, o) /\ UNCHANGED fact
     \/ pc = "delete" /\ DeleteFact(S, o) /\ UNCHANGED index

AfterCleanupCall(pc, o, end) == IF pc = "unindex" /\ o = "ok" THEN "delete" ELSE end

------------------------------------------------------------------------------
(* The Hub goroutine.                                                      *)

HubJoins(c) ==
  /\ hubPc = "select" /\ status[c] = "absent"
  /\ status' = [status EXCEPT ![c] = "online"]
  /\ hubPc' = "set" /\ hubConn' = {c}
  /\ UNCHANGED <<refresh, storeVars, pushVars, faultVars>>

HubLeaves(c) ==
  /\ hubPc = "select" /\ status[c] = "online"
  /\ status' = [status EXCEPT ![c] = "gone"]
  /\ hubPc' = "unindex" /\ hubConn' = {c}
  /\ UNCHANGED <<refresh, storeVars, pushVars, faultVars>>

\* Mutant: the Hub goroutine forgets to let go of the connection.
HubContinuesHolding(pc) == hubPc' = pc /\ UNCHANGED hubConn

\* Back in the select of Hub.Run the call works on no connection.
HubContinues(pc) == hubPc' = pc /\ hubConn' = IF pc = "select" THEN {} ELSE hubConn

HubRegisters ==
  /\ hubPc \in {"set", "index", "undo"}
  /\ \E c \in hubConn, o \in Outcomes :
       RegisterCall(hubPc, c, o) /\ HubContinues(AfterRegisterCall(hubPc, o, "select"))
  /\ UNCHANGED <<status, refresh, pushVars>>

HubUnregisters ==
  /\ hubPc \in {"unindex", "delete"}
  /\ \E o \in Outcomes :
       CleanupCall(hubPc, hubConn, o) /\ HubContinues(AfterCleanupCall(hubPc, o, "select"))
  /\ UNCHANGED <<status, refresh, pushVars>>

------------------------------------------------------------------------------
(* RefreshConnectionPresence: a goroutine spawned by a frame of an online  *)
(* connection.  It may still be running when the connection is gone.       *)

\* Mutant: the refresh runs off a timer instead of the frames of a live client.
RefreshSpawnsAlways(c) ==
  /\ refresh[c] = "none"
  /\ refresh' = [refresh EXCEPT ![c] = "get"]
  /\ UNCHANGED <<hubVars, storeVars, pushVars, faultVars>>

\* A frame of a connection the Hub holds, the refresh of the last one having ended.
RefreshSpawns(c) ==
  /\ status[c] = "online" /\ refresh[c] = "none"
  /\ refresh' = [refresh EXCEPT ![c] = "get"]
  /\ UNCHANGED <<hubVars, storeVars, pushVars, faultVars>>

\* Refresh reads the fact; without one it gives up.
RefreshReads(c) ==
  /\ refresh[c] = "get"
  /\ \E o \in {"ok", "failed"} :
       /\ Charge(o, {})
       /\ refresh' = [refresh EXCEPT ![c] = IF o = "ok" /\ c \in fact THEN "set" ELSE "none"]
  /\ UNCHANGED <<hubVars, storeVars, pushVars>>

\* Mutant: the refresh extends the fact only.
RefreshRegistersFactOnly(c) ==
  /\ refresh[c] \in {"set", "index", "undo"}
  /\ \E o \in Outcomes : RegisterCall(refresh[c], c, o)
  /\ refresh' = [refresh EXCEPT ![c] = "none"]
  /\ UNCHANGED <<hubVars, pushVars>>

RefreshRegisters(c) ==
  /\ refresh[c] \in {"set", "index", "undo"}
  /\ \E o \in Outcomes :
       /\ RegisterCall(refresh[c], c, o)
       /\ refresh' = [refresh EXCEPT ![c] = AfterRegisterCall(refresh[c], o, "none")]
  /\ UNCHANGED <<hubVars, pushVars>>

------------------------------------------------------------------------------
(* Pushes, queries and sweeps on this gateway.  RouteUser lists the routes  *)
(* of a user: it reads the index, reads each fact and trims the index; then *)
(* it delivers to or cleans up each route found.  CheckUserOnline counts    *)
(* the routes of the same listing.  CleanupStale lists and trims as well    *)
(* (an operation of the store that no goroutine calls yet).                 *)

Listing == {"get", "count", "sweep"}

IndexOf(u) == {c \in index : UserOf[c] = u}

\* The connections whose routes are complete and unharmed.
Settled == {c \in Conns : status[c] = "online" /\ c \notin hubConn \cup harmed}

PushGoes(q, to) == pushPc' = [pushPc EXCEPT ![q] = to]

\* The call returns, its locals are gone.
PushEnds(q) ==
  /\ PushGoes(q, "idle")
  /\ todo' = [todo EXCEPT ![q] = {}]
  /\ stale' = [stale EXCEPT ![q] = {}]
  /\ metas' = [metas EXCEPT ![q] = {}]
  /\ settled' = [settled EXCEPT ![q] = {}]

ListUser(q, u) ==
  /\ pushPc[q] = "idle"
  /\ \E mode \in Listing :
       /\ PushGoes(q, mode)
       /\ settled' = [settled EXCEPT ![q] =
                        IF mode = "count" THEN {c \in Settled : UserOf[c] = u} ELSE {}]
  /\ todo' = [todo EXCEPT ![q] = IndexOf(u)]
  /\ UNCHANGED <<hubVars, refresh, storeVars, stale, metas, faultVars>>

PushReads(q, c) ==
  /\ pushPc[q] \in Listing /\ c \in todo[q]
  /\ todo' = [todo EXCEPT ![q] = @ \ {c}]
  /\ IF c \in fact
     THEN metas' = [metas EXCEPT ![q] = @ \cup {c}] /\ UNCHANGED stale
     ELSE stale' = [stale EXCEPT ![q] = @ \cup {c}] /\ UNCHANGED metas
  /\ UNCHANGED <<hubVars, refresh, storeVars, pushPc, settled, faultVars>>

\* Any other error makes ListByUser fail as a whole, and the user count as offline.
PushReadFails(q) ==
  /\ todo[q] # {} /\ Charge("failed", {})
  /\ \/ pushPc[q] = "get" /\ PushEnds(q)
     \/ /\ pushPc[q] = "count" /\ PushGoes(q, "offline")
        /\ settled' = [settled EXCEPT ![q] = {}]
        /\ UNCHANGED <<todo, stale, metas>>
  /\ UNCHANGED <<hubVars, refresh, storeVars>>

\* To CleanupStale any error means that the entry is stale.
SweepReadFails(q, c) ==
  /\ pushPc[q] = "sweep" /\ c \in todo[q] /\ Charge("failed", {c})
  /\ todo' = [todo EXCEPT ![q] = @ \ {c}]
  /\ stale' = [stale EXCEPT ![q] = @ \cup {c}]
  /\ UNCHANGED <<hubVars, refresh, storeVars, pushPc, metas, settled>>

\* SRem of the stale ids, if any.
Trim(q) == \E o \in IF stale[q] = {} THEN {"ok"} ELSE Outcomes :
             Charge(o, {}) /\ RemoveIndex(stale[q], o)

\* An error of SRem is only logged, or the result nobody uses.
PushTrims(q) ==
  /\ pushPc[q] \in {"get", "sweep"} /\ todo[q] = {} /\ Trim(q)
  /\ IF pushPc[q] = "get" /\ metas[q] # {}
     THEN /\ PushGoes(q, "confirm")
          /\ todo' = [todo EXCEPT ![q] = metas[q]]
          /\ UNCHANGED <<stale, metas, settled>>
     ELSE PushEnds(q)
  /\ UNCHANGED <<hubVars, refresh, fact>>

\* Mutant: a stale entry is taken for the error of an empty list.
CountAnswersOnStale(q) ==
  /\ pushPc[q] = "count" /\ todo[q] = {} /\ Trim(q)
  /\ IF metas[q] # {} /\ stale[q] = {} THEN PushEnds(q)
     ELSE PushGoes(q, "offline") /\ UNCHANGED localVars
  /\ UNCHANGED <<hubVars, refresh, fact>>

\* checkUserOnlineStatus: online with that many connections, or offline.
CountAnswers(q) ==
  /\ pushPc[q] = "count" /\ todo[q] = {} /\ Trim(q)
  /\ IF metas[q] # {} THEN PushEnds(q)
     ELSE PushGoes(q, "offline") /\ UNCHANGED localVars
  /\ UNCHANGED <<hubVars, refresh, fact>>

\* The local Hub holds c and is handed the message, or the route is cleaned up.
PushConfirms(q, c) ==
  /\ pushPc[q] = "confirm" /\ c \in todo[q]
  /\ todo' = [todo EXCEPT ![q] = @ \ {c}]
  /\ stale' = [stale EXCEPT ![q] = {c}]
  /\ PushGoes(q, IF status[c] = "online" THEN "confirm" ELSE "unindex")
  /\ UNCHANGED <<hubVars, refresh, storeVars, metas, settled, faultVars>>

PushReturns(q) ==
  /\ pushPc[q] = "offline" \/ (pushPc[q] = "confirm" /\ todo[q] = {})
  /\ PushEnds(q)
  /\ UNCHANGED <<hubVars, refresh, storeVars, faultVars>>

PushCleansUp(q) ==
  /\ pushPc[q] \in {"unindex", "delete"}
  /\ \E o \in Outcomes :
       /\ CleanupCall(pushPc[q], stale[q], o)
       /\ PushGoes(q, AfterCleanupCall(pushPc[q], o, "confirm"))
  /\ UNCHANGED <<hubVars, refresh, localVars>>

\* RouteConnection for an id the Hub no longer holds: read its fact, clean it up.
PushConnection(q, c) ==
  /\ pushPc[q] = "idle" /\ status[c] = "gone"
  /\ PushGoes(q, "find")
  /\ stale' = [stale EXCEPT ![q] = {c}]
  /\ UNCHANGED <<hubVars, refresh, storeVars, todo, metas, settled, faultVars>>

PushFinds(q) ==
  /\ pushPc[q] = "find"
  /\ IF stale[q] \subseteq fact THEN PushGoes(q, "unindex") /\ UNCHANGED localVars
                             ELSE PushEnds(q)
  /\ UNCHANGED <<hubVars, refresh, storeVars, faultVars>>

------------------------------------------------------------------------------
(* TTLs.  While a connection is online and refreshed its key does not      *)
(* lapse; that it does (refreshes missing or failing) is a fault.          *)

FactLapses(c) ==
  /\ c \in fact
  /\ Charge(IF status[c] = "online" THEN "lost" ELSE "ok", {c})
  /\ fact' = fact \ {c}
  /\ UNCHANGED <<hubVars, refresh, index, pushVars>>

IndexLapses(u) ==
  /\ IndexOf(u) # {}
  /\ Charge(IF \E c \in IndexOf(u) : status[c] = "online" THEN "lost" ELSE "ok", IndexOf(u))
  /\ index' = index \ IndexOf(u)
  /\ UNCHANGED <<hubVars, refresh, fact, pushVars>>

\* The gateway process dies: no unregister, every goroutine is lost; it comes
\* back at the same address with an empty Hub.
Crash ==
  /\ faults < MaxFaults
  /\ faults' = faults + 1 /\ UNCHANGED harmed
  /\ status' = [c \in Conns |-> IF status[c] = "online" THEN "gone" ELSE status[c]]
  /\ hubPc' = "select" /\ hubConn' = {}
  /\ refresh' = [c \in Conns |-> "none"]
  /\ pushPc' = [q \in Pushers |-> "idle"]
  /\ todo' = [q \in Pushers |-> {}]
  /\ stale' = [q \in Pushers |-> {}]
  /\ metas' = [q \in Pushers |-> {}]
  /\ settled' = [q \in Pushers |-> {}]
  /\ UNCHANGED storeVars

HubNext == (\E c \in Conns : HubJoins(c) \/ HubLeaves(c)) \/ HubRegisters \/ HubUnregisters
RefreshNext(c) == RefreshSpawns(c) \/ RefreshReads(c) \/ RefreshRegisters(c)
PushNext(q) == \/ \E u \in Users : ListUser(q, u)
               \/ \E c \in Conns : \/ PushReads(q, c) \/ SweepReadFails(q, c)
                                  \/ PushConfirms(q, c) \/ PushConnection(q, c)
               \/ PushReadFails(q) \/ PushTrims(q) \/ CountAnswers(q) \/ PushReturns(q)
               \/ PushCleansUp(q) \/ PushFinds(q)

Next == \/ HubNext
        \/ \E c \in Conns : RefreshNext(c) \/ FactLapses(c)
        \/ \E q \in Pushers : PushNext(q)
        \/ \E u \in Users : IndexLapses(u)
        \/ Crash

\* Goroutines run, the client keeps sending frames (it answers the pings every
\* 54 s), and a key nobody refreshes lapses in the end.
Fairness ==
  /\ WF_vars(HubRegisters) /\ WF_vars(HubUnregisters)
  /\ \A c \in Conns : /\ WF_vars(RefreshNext(c))
                      /\ WF_vars(status[c] = "gone" /\ FactLapses(c))

Spec == Init /\ [][Next]_vars
FairSpec == Spec /\ Fairness

------------------------------------------------------------------------------
\* A connection the Hub has registered, and which no failed call and no lapsed
\* TTL has harmed, is routable: its fact exists and its user's index lists it,
\* whatever refreshes, unregistrations of the user's other devices, pushes and
\* cleanups are under way.
LiveIsRoutable ==
  \A c \in Conns : status[c] = "online" /\ c \notin hubConn \cup harmed => c \in fact \cap index

\* Nobody takes the index entry of an unharmed live connection for stale,
\* although it reads index and facts at different times: Register writes the
\* fact before the index.
LiveNeverStale ==
  \A q \in Pushers : \A c \in stale[q] :
    pushPc[q] \in Listing \cup {"unindex", "delete"} => status[c] # "online" \/ c \in harmed

\* CheckUserOnline calls a user offline only if each connection that was routable
\* when it began has gone meanwhile, although other devices of the user come and
\* go and their entries are trimmed.  (A failed read also answers "offline".)
OfflineMeansAway ==
  \A q \in Pushers : \A c \in settled[q] :
    pushPc[q] = "offline" => status[c] # "online" \/ c \in harmed

\* A lost index entry is repaired by the refreshes of a live connection.
IndexHeals ==
  \A c \in Conns :
    status[c] = "online" /\ c \in fact \ index
      ~> c \in index \/ c \notin fact \/ status[c] = "gone"

\* The route of a connection that is gone disappears for good in the end, also
\* after a crash and after failed cleanups: pushes do not chase it forever.
GoneIsForgotten == \A c \in Conns : <>[](status[c] = "gone" => c \notin fact)

\* gateway/lifecycle/presence.go:44: a refresh only extends existing facts and
\* never re-creates a missing route.  The code reads and writes in two calls.
RefreshCreatesNoRoute ==
  [][\A c \in Conns : c \in fact' \ fact => hubConn = {c} /\ hubPc = "set"]_vars
==============================================================================
