---------------------------- MODULE Presence_proofs ----------------------------
(***************************************************************************)
(* Theorems about Presence, for any connections, users, pushers and faults: *)
(* a live connection that no fault has harmed is routable, is never taken  *)
(* for stale, and its user is not called offline.  None of these is        *)
(* inductive: they rest on Register writing the fact before the index, on  *)
(* who may still hold an id, and on a rollback being the mark of a fault.  *)
(* PresenceInv is the conjunction of these facts.                          *)
(***************************************************************************)
EXTENDS Presence, TLAPS

\* A live connection none of whose calls failed and none of whose TTLs lapsed.
Unharmed(c) == status[c] = "online" /\ c \notin harmed

\* The Hub has yet to write the fact of c.
Registering(c) == hubConn = {c} /\ hubPc = "set"

\* Nobody knows a connection the Hub has not registered.
AbsentIsUnknown ==
  \A c \in Conns : status[c] = "absent" =>
    /\ c \notin fact \cup index \cup hubConn /\ refresh[c] = "none"
    /\ \A q \in Pushers : c \notin todo[q] \cup stale[q] \cup metas[q] \cup settled[q]

\* The Hub registers who is online and unregisters who is gone; only a fault makes
\* it, or a refresh, roll a fact back.
HubWork ==
  /\ \A c \in hubConn : /\ hubPc \in {"set", "index", "undo"} => status[c] = "online"
                        /\ hubPc \in {"unindex", "delete"} => status[c] = "gone"
                        /\ hubPc = "undo" => c \in harmed
  /\ \A c \in Conns : refresh[c] = "undo" => c \in harmed

\* Until the fact of a connection is written, nobody comes across it.
FactComesFirst ==
  \A c \in Conns : Unharmed(c) /\ Registering(c) =>
    /\ c \notin fact \cup index /\ refresh[c] \in {"none", "get"}
    /\ \A q \in Pushers : c \notin todo[q] \cup metas[q]

RouteIsKept ==
  \A c \in Conns : Unharmed(c) =>
    /\ ~ Registering(c) => c \in fact
    /\ c \notin hubConn => c \in index

\* Whoever is about to be removed, or looked up as gone, is not live.
StaleIsAway ==
  \A q \in Pushers :
    /\ \A c \in stale[q] :
         pushPc[q] \in Listing \cup {"find", "unindex", "delete"} => ~ Unharmed(c)
    /\ pushPc[q] = "idle" => stale[q] = {} /\ metas[q] = {}

\* A query has yet to look at, or has found, who was routable when it began.
SettledIsFound ==
  \A q \in Pushers : \A c \in settled[q] :
    Unharmed(c) => pushPc[q] = "count" /\ c \in todo[q] \cup metas[q]

RouteFacts == /\ AbsentIsUnknown /\ HubWork /\ FactComesFirst
              /\ RouteIsKept /\ StaleIsAway /\ SettledIsFound

PresenceInv == TypeOK /\ RouteFacts

------------------------------------------------------------------------------
(* Types.                                                                  *)

\* The bookkeeping of faults, and what it says of the outcome.
LEMMA ChargeType ==
  ASSUME TypeOK, NEW o, NEW S \in SUBSET Conns, Charge(o, S)
  PROVE faults' \in 0..MaxFaults /\ harmed' \subseteq Conns
<1>1. faults \in 0..MaxFaults /\ harmed \subseteq Conns
  BY DEF TypeOK
<1>2. faults' \in 0..MaxFaults
  BY <1>1, MaxFaultsAssumption DEF Charge
<1>3. harmed' \subseteq Conns
  BY <1>1 DEF Charge
<1> QED BY <1>2, <1>3

\* The types of everything but the faults.
Shapes ==
  /\ status \in [Conns -> {"absent", "online", "gone"}]
  /\ hubPc \in {"select", "set", "index", "undo", "unindex", "delete"}
  /\ hubConn \in {{}} \cup {{c} : c \in Conns} /\ (hubPc = "select" <=> hubConn = {})
  /\ refresh \in [Conns -> {"none", "get", "set", "index", "undo"}]
  /\ fact \subseteq Conns /\ index \subseteq Conns

PushShapes ==
  /\ pushPc \in [Pushers -> {"idle", "get", "count", "sweep", "confirm", "find",
                           "unindex", "delete", "offline"}]
  /\ todo \in [Pushers -> SUBSET Conns]
  /\ stale \in [Pushers -> SUBSET Conns]
  /\ metas \in [Pushers -> SUBSET Conns]
  /\ settled \in [Pushers -> SUBSET Conns]

FaultShapes == faults \in 0..MaxFaults /\ harmed \subseteq Conns

\* TypeOK in three parts.
LEMMA TypesSplit == TypeOK <=> Shapes /\ PushShapes /\ FaultShapes
BY DEF TypeOK, Shapes, PushShapes, FaultShapes

\* The same of the next state.
LEMMA TypesSplitNext == TypeOK' <=> Shapes' /\ PushShapes' /\ FaultShapes'
BY DEF TypeOK, Shapes, PushShapes, FaultShapes

\* The Hub goroutine keeps the types.
LEMMA HubTypes == ASSUME TypeOK, HubNext PROVE TypeOK'
<1> USE DEF Shapes
<1>1. ASSUME NEW c \in Conns, HubJoins(c) \/ HubLeaves(c) PROVE TypeOK'
  BY <1>1, TypesSplit, TypesSplitNext
     DEF HubJoins, HubLeaves, PushShapes, FaultShapes, storeVars, pushVars, localVars, faultVars
<1>2. CASE HubRegisters
  <2>1. PICK c \in hubConn, o \in Outcomes :
          RegisterCall(hubPc, c, o) /\ HubContinues(AfterRegisterCall(hubPc, o, "select"))
    BY <1>2 DEF HubRegisters
  <2>2. c \in Conns /\ FaultShapes'
    BY <2>1, TypesSplit, ChargeType DEF RegisterCall, FaultShapes
  <2>3. Shapes'
    BY <1>2, <2>1, <2>2, TypesSplit
       DEF HubRegisters, RegisterCall, HubContinues, AfterRegisterCall, SetFact, AddIndex,
           DeleteFact
  <2> QED BY <1>2, <2>2, <2>3, TypesSplit, TypesSplitNext
          DEF HubRegisters, PushShapes, pushVars, localVars
<1>3. CASE HubUnregisters
  <2>1. PICK o \in Outcomes :
          CleanupCall(hubPc, hubConn, o) /\ HubContinues(AfterCleanupCall(hubPc, o, "select"))
    BY <1>3 DEF HubUnregisters
  <2>2. FaultShapes'
    BY <2>1, ChargeType DEF CleanupCall, FaultShapes
  <2>3. Shapes'
    BY <1>3, <2>1, TypesSplit
       DEF HubUnregisters, CleanupCall, HubContinues, AfterCleanupCall, RemoveIndex, DeleteFact
  <2> QED BY <1>3, <2>2, <2>3, TypesSplit, TypesSplitNext
          DEF HubUnregisters, PushShapes, pushVars, localVars
<1> QED BY <1>1, <1>2, <1>3 DEF HubNext

\* A refresh keeps the types.
LEMMA RefreshTypes == ASSUME TypeOK, NEW c \in Conns, RefreshNext(c) PROVE TypeOK'
<1>1. UNCHANGED <<hubVars, pushVars>>
  BY DEF RefreshNext, RefreshSpawns, RefreshReads, RefreshRegisters
<1>2. FaultShapes'
  <2>1. CASE RefreshSpawns(c)
    BY <2>1, TypesSplit DEF RefreshSpawns, faultVars, FaultShapes
  <2>2. CASE RefreshReads(c)
    BY <2>2, ChargeType DEF RefreshReads, FaultShapes
  <2>3. CASE RefreshRegisters(c)
    BY <2>3, ChargeType DEF RefreshRegisters, RegisterCall, FaultShapes
  <2> QED BY <2>1, <2>2, <2>3 DEF RefreshNext
<1>3. Shapes'
  BY <1>1, TypesSplit
     DEF Shapes, RefreshNext, RefreshSpawns, RefreshReads, RefreshRegisters, RegisterCall,
         AfterRegisterCall, SetFact, AddIndex, DeleteFact, storeVars, hubVars
<1> QED BY <1>1, <1>2, <1>3, TypesSplit, TypesSplitNext DEF PushShapes, pushVars, localVars

\* A push, a query or a sweep keeps the types.
LEMMA PushTypes == ASSUME TypeOK, NEW q \in Pushers, PushNext(q) PROVE TypeOK'
<1> USE DEF PushGoes, PushEnds, Listing
<1>1. UNCHANGED <<hubVars, refresh>>
  BY DEF PushNext, ListUser, PushReads, PushReadFails, SweepReadFails, PushTrims, CountAnswers,
         PushConfirms, PushReturns, PushCleansUp, PushConnection, PushFinds
<1>2. FaultShapes'
  <2>1. CASE PushTrims(q) \/ CountAnswers(q)
    BY <2>1, ChargeType DEF PushTrims, CountAnswers, Trim, FaultShapes
  <2>2. CASE PushReadFails(q) \/ PushCleansUp(q)
    BY <2>2, ChargeType DEF PushReadFails, PushCleansUp, CleanupCall, FaultShapes
  <2>3. ASSUME NEW c \in Conns, SweepReadFails(q, c) PROVE FaultShapes'
    BY <2>3, ChargeType DEF SweepReadFails, FaultShapes
  <2>4. CASE UNCHANGED faultVars
    BY <2>4, TypesSplit DEF faultVars, FaultShapes
  <2> QED BY <2>1, <2>2, <2>3, <2>4
          DEF PushNext, ListUser, PushReads, PushConfirms, PushReturns, PushConnection, PushFinds
<1>3. fact' \subseteq fact /\ index' \subseteq index
  BY DEF PushNext, ListUser, PushReads, PushReadFails, SweepReadFails, PushTrims, CountAnswers,
         Trim,
         PushConfirms, PushReturns, PushCleansUp, CleanupCall, PushConnection, PushFinds,
         RemoveIndex, DeleteFact, storeVars
<1>4. PushShapes'
  <2>1. ASSUME NEW u \in Users, ListUser(q, u) PROVE PushShapes'
    <3>1. IndexOf(u) \subseteq Conns /\ {c \in Settled : UserOf[c] = u} \subseteq Conns
      BY TypesSplit DEF Shapes, IndexOf, Settled
    <3> QED BY <2>1, <3>1, TypesSplit DEF ListUser, PushShapes
  <2>2. ASSUME NEW c \in Conns, PushReads(q, c) \/ SweepReadFails(q, c) \/ PushConfirms(q, c)
                              \/ PushConnection(q, c)
        PROVE PushShapes'
    BY <2>2, TypesSplit DEF PushReads, SweepReadFails, PushConfirms, PushConnection, PushShapes
  <2>3. CASE PushReadFails(q) \/ PushTrims(q) \/ CountAnswers(q)
    BY <2>3, TypesSplit DEF PushReadFails, PushTrims, CountAnswers, PushShapes, localVars
  <2>4. CASE PushReturns(q) \/ PushCleansUp(q) \/ PushFinds(q)
    BY <2>4, TypesSplit DEF PushReturns, PushCleansUp, AfterCleanupCall, PushFinds, PushShapes,
                            localVars
  <2> QED BY <2>1, <2>2, <2>3, <2>4 DEF PushNext
<1> QED BY <1>1, <1>2, <1>3, <1>4, TypesSplit, TypesSplitNext DEF Shapes, hubVars

\* Every step keeps the types.
LEMMA TypeStep == ASSUME TypeOK, [Next]_vars PROVE TypeOK'
<1>1. CASE UNCHANGED vars
  BY <1>1 DEF vars, hubVars, storeVars, pushVars, localVars, faultVars, TypeOK
<1>2. ASSUME NEW c \in Conns, FactLapses(c) PROVE TypeOK'
  <2>1. FaultShapes'
    BY <1>2, ChargeType DEF FactLapses, FaultShapes
  <2> QED BY <1>2, <2>1, TypesSplit, TypesSplitNext
          DEF FactLapses, Shapes, PushShapes, hubVars, pushVars, localVars
<1>3. ASSUME NEW u \in Users, IndexLapses(u) PROVE TypeOK'
  <2>1. IndexOf(u) \subseteq Conns
    BY TypesSplit DEF Shapes, IndexOf
  <2>2. FaultShapes'
    BY <1>3, <2>1, ChargeType DEF IndexLapses, FaultShapes
  <2> QED BY <1>3, <2>2, TypesSplit, TypesSplitNext
          DEF IndexLapses, Shapes, PushShapes, hubVars, pushVars, localVars
<1>4. CASE Crash
  <2>1. FaultShapes'
    BY <1>4, TypesSplit, MaxFaultsAssumption DEF Crash, FaultShapes
  <2> QED BY <1>4, <2>1, TypesSplit, TypesSplitNext
          DEF Crash, Shapes, PushShapes, storeVars
<1> QED BY <1>1, <1>2, <1>3, <1>4, HubTypes, RefreshTypes, PushTypes DEF Next

------------------------------------------------------------------------------
(* Each action keeps the facts about routes.                               *)

\* A connection joins or leaves the Hub's maps.
LEMMA HubJoinsOrLeaves ==
  ASSUME PresenceInv, NEW c \in Conns,
         HubJoins(c) \/ HubLeaves(c)
  PROVE RouteFacts'
<1> USE DEF PresenceInv, TypeOK, RouteFacts, AbsentIsUnknown, HubWork, FactComesFirst,
           RouteIsKept, StaleIsAway, SettledIsFound, Unharmed, Registering
<1>1. CASE HubJoins(c)
  BY <1>1 DEF HubJoins, storeVars, pushVars, localVars, faultVars
<1>2. CASE HubLeaves(c)
  BY <1>2 DEF HubLeaves, storeVars, pushVars, localVars, faultVars
<1> QED BY <1>1, <1>2

\* A call of Redis by the Hub goroutine.
LEMMA HubCalls ==
  ASSUME PresenceInv,
         HubRegisters \/ HubUnregisters
  PROVE RouteFacts'
<1> USE DEF PresenceInv, TypeOK, RouteFacts, AbsentIsUnknown, HubWork, FactComesFirst,
           RouteIsKept, StaleIsAway, SettledIsFound, Unharmed, Registering
<1>1. CASE HubRegisters
  BY <1>1 DEF HubRegisters, HubContinues, RegisterCall, AfterRegisterCall, SetFact, AddIndex,
              DeleteFact, Applied, Outcomes, Charge, pushVars, localVars
<1>2. CASE HubUnregisters
  BY <1>2 DEF HubUnregisters, HubContinues, CleanupCall, AfterCleanupCall, RemoveIndex,
              DeleteFact, Applied, Outcomes, Charge, pushVars, localVars
<1> QED BY <1>1, <1>2

\* A refresh that starts, reads, or writes, also one of a connection that is gone.
LEMMA RefreshSteps ==
  ASSUME PresenceInv, NEW c \in Conns,
         RefreshSpawns(c) \/ RefreshReads(c) \/ RefreshRegisters(c)
  PROVE RouteFacts'
<1> USE DEF PresenceInv, TypeOK, RouteFacts, AbsentIsUnknown, HubWork, FactComesFirst,
           RouteIsKept, StaleIsAway, SettledIsFound, Unharmed, Registering
<1>1. CASE RefreshSpawns(c)
  BY <1>1 DEF RefreshSpawns, hubVars, storeVars, pushVars, localVars, faultVars
<1>2. CASE RefreshReads(c)
  BY <1>2 DEF RefreshReads, Charge, hubVars, storeVars, pushVars, localVars
<1>3. CASE RefreshRegisters(c)
  BY <1>3 DEF RefreshRegisters, RegisterCall, AfterRegisterCall, SetFact, AddIndex, DeleteFact,
              Applied, Outcomes, Charge, hubVars, pushVars, localVars
<1> QED BY <1>1, <1>2, <1>3

\* A read of a user's routes: the index, and then each fact.
LEMMA ListingSteps ==
  ASSUME PresenceInv, NEW q \in Pushers,
         \/ \E u \in Users : ListUser(q, u)
         \/ \E c \in Conns : PushReads(q, c) \/ SweepReadFails(q, c)
         \/ PushReadFails(q)
  PROVE RouteFacts'
<1> USE DEF PresenceInv, TypeOK, RouteFacts, AbsentIsUnknown, HubWork, FactComesFirst,
           RouteIsKept, StaleIsAway, SettledIsFound, Unharmed, Registering
<1>1. ASSUME NEW u \in Users, ListUser(q, u) PROVE RouteFacts'
  BY <1>1 DEF ListUser, PushGoes, IndexOf, Settled, Listing, hubVars, storeVars, faultVars
<1>2. ASSUME NEW c \in Conns, PushReads(q, c) PROVE RouteFacts'
  BY <1>2 DEF PushReads, Listing, hubVars, storeVars, faultVars
<1>3. CASE PushReadFails(q)
  <2>1. AbsentIsUnknown' /\ HubWork'
    BY <1>3 DEF PushReadFails, PushGoes, PushEnds, Listing, Charge, hubVars, storeVars
  <2>2. FactComesFirst' /\ RouteIsKept'
    BY <1>3 DEF PushReadFails, PushGoes, PushEnds, Listing, Charge, hubVars, storeVars
  <2>3. StaleIsAway' /\ SettledIsFound'
    BY <1>3 DEF PushReadFails, PushGoes, PushEnds, Listing, Charge, hubVars, storeVars
  <2> QED BY <2>1, <2>2, <2>3
<1>4. ASSUME NEW c \in Conns, SweepReadFails(q, c) PROVE RouteFacts'
  BY <1>4 DEF SweepReadFails, Listing, Charge, hubVars, storeVars
<1> QED BY <1>1, <1>2, <1>3, <1>4

\* The end of a listing: the index is trimmed, a query answered.
LEMMA ListingEnds ==
  ASSUME PresenceInv, NEW q \in Pushers,
         PushTrims(q) \/ CountAnswers(q) \/ PushReturns(q)
  PROVE RouteFacts'
<1> USE DEF PresenceInv, TypeOK, RouteFacts, AbsentIsUnknown, HubWork, FactComesFirst,
           RouteIsKept, StaleIsAway, SettledIsFound, Unharmed, Registering
<1>1. CASE PushTrims(q)
  <2>1. AbsentIsUnknown' /\ HubWork'
    BY <1>1 DEF PushTrims, Trim, RemoveIndex, Applied, Outcomes, Charge, PushGoes, PushEnds,
                Listing, hubVars
  <2>2. FactComesFirst' /\ RouteIsKept'
    BY <1>1 DEF PushTrims, Trim, RemoveIndex, Applied, Outcomes, Charge, PushGoes, PushEnds,
                Listing, hubVars
  <2>3. StaleIsAway' /\ SettledIsFound'
    BY <1>1 DEF PushTrims, Trim, RemoveIndex, Applied, Outcomes, Charge, PushGoes, PushEnds,
                Listing, hubVars
  <2> QED BY <2>1, <2>2, <2>3
<1>2. CASE CountAnswers(q)
  <2>1. AbsentIsUnknown' /\ HubWork'
    BY <1>2 DEF CountAnswers, Trim, RemoveIndex, Applied, Outcomes, Charge, PushGoes, PushEnds,
                Listing, hubVars, localVars
  <2>2. FactComesFirst' /\ RouteIsKept'
    BY <1>2 DEF CountAnswers, Trim, RemoveIndex, Applied, Outcomes, Charge, PushGoes, PushEnds,
                Listing, hubVars, localVars
  <2>3. StaleIsAway' /\ SettledIsFound'
    BY <1>2 DEF CountAnswers, Trim, RemoveIndex, Applied, Outcomes, Charge, PushGoes, PushEnds,
                Listing, hubVars, localVars
  <2> QED BY <2>1, <2>2, <2>3
<1>3. CASE PushReturns(q)
  <2>1. UNCHANGED <<hubVars, refresh, storeVars, faultVars>> /\ PushEnds(q)
    BY <1>3 DEF PushReturns
  <2>2. AbsentIsUnknown' /\ HubWork' /\ FactComesFirst' /\ RouteIsKept'
    BY <2>1 DEF PushEnds, hubVars, storeVars, faultVars
  <2>3. StaleIsAway' /\ SettledIsFound'
    BY <2>1 DEF PushEnds, PushGoes, Listing, hubVars, storeVars, faultVars
  <2> QED BY <2>2, <2>3
<1> QED BY <1>1, <1>2, <1>3

\* A push works on one route, which it may clean up.
LEMMA PushSteps ==
  ASSUME PresenceInv, NEW q \in Pushers,
         \/ \E c \in Conns : PushConfirms(q, c) \/ PushConnection(q, c)
         \/ PushCleansUp(q) \/ PushFinds(q)
  PROVE RouteFacts'
<1> USE DEF PresenceInv, TypeOK, RouteFacts, AbsentIsUnknown, HubWork, FactComesFirst,
           RouteIsKept, StaleIsAway, SettledIsFound, Unharmed, Registering
<1>1. ASSUME NEW c \in Conns, PushConfirms(q, c) PROVE RouteFacts'
  <2>1. AbsentIsUnknown' /\ HubWork'
    BY <1>1 DEF PushConfirms, PushGoes, Listing, hubVars, storeVars, faultVars
  <2>2. FactComesFirst' /\ RouteIsKept'
    BY <1>1 DEF PushConfirms, PushGoes, Listing, hubVars, storeVars, faultVars
  <2>3. StaleIsAway' /\ SettledIsFound'
    BY <1>1 DEF PushConfirms, PushGoes, Listing, hubVars, storeVars, faultVars
  <2> QED BY <2>1, <2>2, <2>3
<1>2. CASE PushCleansUp(q)
  <2>1. AbsentIsUnknown' /\ HubWork'
    BY <1>2 DEF PushCleansUp, PushGoes, CleanupCall, AfterCleanupCall, RemoveIndex, DeleteFact,
                Applied, Outcomes, Charge, Listing, hubVars, localVars
  <2>2. FactComesFirst' /\ RouteIsKept'
    BY <1>2 DEF PushCleansUp, PushGoes, CleanupCall, AfterCleanupCall, RemoveIndex, DeleteFact,
                Applied, Outcomes, Charge, Listing, hubVars, localVars
  <2>3. StaleIsAway' /\ SettledIsFound'
    BY <1>2 DEF PushCleansUp, PushGoes, CleanupCall, AfterCleanupCall, RemoveIndex, DeleteFact,
                Applied, Outcomes, Charge, Listing, hubVars, localVars
  <2> QED BY <2>1, <2>2, <2>3
<1>3. ASSUME NEW c \in Conns, PushConnection(q, c) PROVE RouteFacts'
  BY <1>3 DEF PushConnection, PushGoes, Listing, hubVars, storeVars, faultVars
<1>4. CASE PushFinds(q)
  BY <1>4 DEF PushFinds, PushGoes, PushEnds, Listing, hubVars, storeVars, localVars, faultVars
<1> QED BY <1>1, <1>2, <1>3, <1>4

\* A key lapses.
LEMMA Lapses ==
  ASSUME PresenceInv,
         (\E c \in Conns : FactLapses(c)) \/ (\E u \in Users : IndexLapses(u))
  PROVE RouteFacts'
<1> USE DEF PresenceInv, TypeOK, RouteFacts, AbsentIsUnknown, HubWork, FactComesFirst,
           RouteIsKept, StaleIsAway, SettledIsFound, Unharmed, Registering
<1>1. ASSUME NEW c \in Conns, FactLapses(c) PROVE RouteFacts'
  BY <1>1 DEF FactLapses, Charge, hubVars, pushVars, localVars
<1>2. ASSUME NEW u \in Users, IndexLapses(u) PROVE RouteFacts'
  BY <1>2 DEF IndexLapses, IndexOf, Charge, hubVars, pushVars, localVars
<1> QED BY <1>1, <1>2

\* A crash takes every connection out of the maps and every goroutine with it.
LEMMA CrashStep == ASSUME PresenceInv, Crash PROVE RouteFacts'
BY DEF Crash, PresenceInv, TypeOK, RouteFacts, AbsentIsUnknown, HubWork, FactComesFirst,
       RouteIsKept, StaleIsAway, SettledIsFound, Unharmed, Registering, Listing, storeVars

------------------------------------------------------------------------------
(* The theorems.                                                           *)

\* Every step keeps the invariant.
LEMMA PresenceStep == ASSUME PresenceInv, [Next]_vars PROVE PresenceInv'
<1>1. TypeOK'
  BY TypeStep DEF PresenceInv
<1>2. CASE UNCHANGED vars
  <2>1. /\ UNCHANGED <<status, hubPc, hubConn, refresh, fact, index, harmed>>
        /\ UNCHANGED <<pushPc, todo, stale, metas, settled>>
    BY <1>2 DEF vars, hubVars, storeVars, pushVars, localVars, faultVars
  <2>2. RouteFacts'
    BY <2>1 DEF PresenceInv, RouteFacts, AbsentIsUnknown, HubWork, FactComesFirst, RouteIsKept,
                StaleIsAway, SettledIsFound, Unharmed, Registering
  <2> QED BY <1>1, <2>2 DEF PresenceInv
<1>3. CASE HubNext
  BY <1>1, <1>3, HubJoinsOrLeaves, HubCalls DEF HubNext, PresenceInv
<1>4. ASSUME NEW c \in Conns, RefreshNext(c) PROVE PresenceInv'
  BY <1>1, <1>4, RefreshSteps DEF RefreshNext, PresenceInv
<1>5. ASSUME NEW q \in Pushers, PushNext(q) PROVE PresenceInv'
  BY <1>1, <1>5, ListingEnds, PushSteps, ListingSteps DEF PushNext, PresenceInv
<1>6. ASSUME NEW c \in Conns, FactLapses(c) PROVE PresenceInv'
  BY <1>1, <1>6, Lapses DEF PresenceInv
<1>7. ASSUME NEW u \in Users, IndexLapses(u) PROVE PresenceInv'
  BY <1>1, <1>7, Lapses DEF PresenceInv
<1>8. CASE Crash
  BY <1>1, <1>8, CrashStep DEF PresenceInv
<1> QED BY <1>2, <1>3, <1>4, <1>5, <1>6, <1>7, <1>8 DEF Next

\* The invariant holds in every reachable state.
LEMMA PresenceInvariance == Spec => []PresenceInv
<1>1. Init => PresenceInv
  BY MaxFaultsAssumption
     DEF Init, PresenceInv, TypeOK, RouteFacts, AbsentIsUnknown, HubWork, FactComesFirst,
         RouteIsKept, StaleIsAway, SettledIsFound, Unharmed, Registering
<1> QED BY <1>1, PresenceStep, PTL DEF Spec

\* Every variable of the route store and its users keeps its type.
THEOREM PresenceTypeCorrect == Spec => []TypeOK
<1>1. PresenceInv => TypeOK
  BY DEF PresenceInv
<1> QED BY <1>1, PresenceInvariance, PTL

\* A connection the Hub has registered has its fact and its index entry, unless a
\* call of its own failed or a TTL of its own lapsed: whatever refreshes,
\* unregistrations, pushes, queries, sweeps and crashes happen to others.
THEOREM LiveConnectionsRoutable == Spec => []LiveIsRoutable
<1>1. PresenceInv => LiveIsRoutable
  BY DEF PresenceInv, RouteFacts, RouteIsKept, Unharmed, Registering, LiveIsRoutable
<1> QED BY <1>1, PresenceInvariance, PTL

\* No listing and no clean-up takes an unharmed live connection for stale, although
\* index and facts are read at different times and written in two calls.
THEOREM LiveConnectionsNotStale == Spec => []LiveNeverStale
<1>1. PresenceInv => LiveNeverStale
  BY DEF PresenceInv, RouteFacts, StaleIsAway, Unharmed, LiveNeverStale
<1> QED BY <1>1, PresenceInvariance, PTL

\* CheckUserOnline calls no user offline who has had the same unharmed routable
\* connection since the query began (unless the query itself failed).
THEOREM OfflineOnlyWhenAway == Spec => []OfflineMeansAway
<1>1. PresenceInv => OfflineMeansAway
  BY DEF PresenceInv, RouteFacts, SettledIsFound, Unharmed, OfflineMeansAway
<1> QED BY <1>1, PresenceInvariance, PTL

------------------------------------------------------------------------------
(* Where routes come from, and the safety half of GoneIsForgotten.         *)

\* A fact is written by the registration of a live connection, or by a refresh that
\* has read it before (and which an unregistration may have overtaken since).
FactsHaveWriters ==
  \A c \in Conns : c \in fact' \ fact =>
    (Registering(c) /\ status[c] = "online") \/ refresh[c] = "set"

\* An index entry is written after its fact by the same goroutine, so whoever lists a
\* user finds no connection that never had a fact.
EntriesHaveWriters ==
  \A c \in Conns : c \in index' \ index =>
    (hubConn = {c} /\ hubPc = "index" /\ status[c] = "online") \/ refresh[c] = "index"

\* Nothing but the Hub's registration and the refreshes adds to the two keys.
LEMMA StoreGrows ==
  ASSUME PresenceInv, [Next]_vars
  PROVE  FactsHaveWriters /\ EntriesHaveWriters
<1> USE DEF FactsHaveWriters, EntriesHaveWriters
<1>1. ASSUME fact' \subseteq fact, index' \subseteq index
      PROVE  FactsHaveWriters /\ EntriesHaveWriters
  BY <1>1
<1>2. CASE HubRegisters
  BY <1>2 DEF HubRegisters, RegisterCall, SetFact, AddIndex, DeleteFact, Registering,
              PresenceInv, TypeOK, RouteFacts, HubWork
<1>3. ASSUME NEW c \in Conns, RefreshRegisters(c) PROVE FactsHaveWriters /\ EntriesHaveWriters
  BY <1>3 DEF RefreshRegisters, RegisterCall, SetFact, AddIndex, DeleteFact
<1>4. CASE HubUnregisters
  BY <1>1, <1>4 DEF HubUnregisters, CleanupCall, RemoveIndex, DeleteFact
<1>5. ASSUME NEW c \in Conns, HubJoins(c) \/ HubLeaves(c) \/ RefreshSpawns(c) \/ RefreshReads(c)
      PROVE FactsHaveWriters /\ EntriesHaveWriters
  BY <1>1, <1>5 DEF HubJoins, HubLeaves, RefreshSpawns, RefreshReads, storeVars
<1>6. ASSUME NEW q \in Pushers, PushNext(q) PROVE FactsHaveWriters /\ EntriesHaveWriters
  BY <1>1, <1>6 DEF PushNext, ListUser, PushReads, PushReadFails, SweepReadFails, PushTrims,
        CountAnswers, Trim, PushConfirms, PushReturns, PushCleansUp, CleanupCall,
        PushConnection, PushFinds, RemoveIndex, DeleteFact, storeVars
<1>7. ASSUME NEW c \in Conns, FactLapses(c) PROVE FactsHaveWriters /\ EntriesHaveWriters
  BY <1>1, <1>7 DEF FactLapses
<1>8. ASSUME NEW u \in Users, IndexLapses(u) PROVE FactsHaveWriters /\ EntriesHaveWriters
  BY <1>1, <1>8 DEF IndexLapses
<1>9. CASE Crash \/ UNCHANGED vars
  BY <1>1, <1>9 DEF Crash, vars, storeVars
<1> QED BY <1>2, <1>3, <1>4, <1>5, <1>6, <1>7, <1>8, <1>9 DEF Next, HubNext, RefreshNext

\* A connection that left, whose two keys are gone, and of which no refresh is between
\* its read and its writes.
Forgotten(c) ==
  status[c] = "gone" /\ c \notin fact \cup index /\ refresh[c] \in {"none", "get"}

\* One step keeps a forgotten connection forgotten.
LEMMA ForgottenStep ==
  ASSUME NEW c \in Conns
  PROVE  PresenceInv /\ Forgotten(c) /\ [Next]_vars => Forgotten(c)'
<1> SUFFICES ASSUME PresenceInv, Forgotten(c), [Next]_vars PROVE Forgotten(c)'
  OBVIOUS
<1>1. c \notin fact' \cup index'
  BY StoreGrows DEF FactsHaveWriters, EntriesHaveWriters, Forgotten, PresenceInv, TypeOK
<1> DEFINE Stays == status'[c] = "gone" /\ refresh'[c] \in {"none", "get"}
<1>2. Stays
  <2> USE DEF PresenceInv, TypeOK, Forgotten
  <2>1. CASE UNCHANGED <<status, refresh>>
    BY <2>1
  <2>2. ASSUME NEW d \in Conns, HubJoins(d) \/ HubLeaves(d) PROVE Stays
    BY <2>2 DEF HubJoins, HubLeaves
  <2>3. ASSUME NEW d \in Conns, RefreshNext(d) PROVE Stays
    BY <2>3 DEF RefreshNext, RefreshSpawns, RefreshReads, RefreshRegisters, hubVars
  <2>4. CASE Crash
    BY <2>4 DEF Crash
  <2>5. ASSUME NEW q \in Pushers, PushNext(q) PROVE UNCHANGED <<status, refresh>>
    BY <2>5 DEF PushNext, ListUser, PushReads, PushReadFails, SweepReadFails, PushTrims,
        CountAnswers, PushConfirms, PushReturns, PushCleansUp, PushConnection, PushFinds, hubVars
  <2>6. HubRegisters \/ HubUnregisters => UNCHANGED <<status, refresh>>
    BY DEF HubRegisters, HubUnregisters
  <2>7. (\E d \in Conns : FactLapses(d)) \/ (\E u \in Users : IndexLapses(u)) \/ UNCHANGED vars
          => UNCHANGED <<status, refresh>>
    BY DEF FactLapses, IndexLapses, hubVars, vars
  <2>8. UNCHANGED <<status, refresh>> => Stays
    BY <2>1
  <2> HIDE DEF Stays, PresenceInv, TypeOK, Forgotten
  <2>9. ASSUME NEW d \in Conns, RefreshNext(d) \/ FactLapses(d) PROVE Stays
    BY <2>3, <2>7, <2>8, <2>9
  <2>10. CASE HubNext
    BY <2>2, <2>6, <2>8, <2>10 DEF HubNext
  <2> QED BY <2>4, <2>5, <2>7, <2>8, <2>9, <2>10 DEF Next
<1> QED BY <1>1, <1>2 DEF Forgotten

\* Once a connection is forgotten it stays so, whatever refreshes (of its last frames or
\* of other connections), pushes, sweeps and faults come later.
THEOREM ForgottenForever ==
  ASSUME NEW c \in Conns
  PROVE  Spec => [](Forgotten(c) => []Forgotten(c))
<1>1. PresenceInv /\ Forgotten(c) /\ [Next]_vars => Forgotten(c)'
  BY ForgottenStep
<1> QED BY <1>1, PresenceInvariance, PTL DEF Spec

\* What RefreshCreatesNoRoute gets wrong, put right: a route is created by the Hub for a
\* live connection, or written again by a refresh that had seen it.
THEOREM RoutesHaveWriters == Spec => [][FactsHaveWriters /\ EntriesHaveWriters]_vars
<1>1. PresenceInv /\ [Next]_vars => [FactsHaveWriters /\ EntriesHaveWriters]_vars
  BY StoreGrows
<1> QED BY <1>1, PresenceInvariance, PTL DEF Spec
================================================================================
