------------------------ MODULE HubLifecycle_proofs --------------------------
(***************************************************************************)
(* Proofs about HubLifecycle, for any number of connections and users.     *)
(* The invariants of the runs are not inductive: that the Hub finds every  *)
(* connection it is asked to remove rests on what the handler has done     *)
(* before the pumps exist, on the channel rendezvous, and on the snapshots *)
(* of the sweepers holding registered connections only.  HubInv is the     *)
(* conjunction of these facts.                                             *)
(***************************************************************************)
EXTENDS HubLifecycle, FiniteSetTheorems, TLAPS

Known(c) == handler[c] \in {"welcome", "done"}
NotHandedOver(c) == closing[c] \in {"open", "sendClosed"}

\* A connection whose handler has not got past Register is unknown to everyone.
UnknownIsUntouched ==
  \A c \in Conns : ~ Known(c) =>
    /\ c \notin connections /\ closing[c] = "open"
    /\ reader[c] = "none" /\ writer[c] = "none"
    /\ hubConn # c
    /\ \A s \in Sweepers : c \notin todo[s]

\* Pumps exist only when the handler is done.
PumpsFollowHandler ==
  \A c \in Conns : handler[c] # "done" => reader[c] = "none" /\ writer[c] = "none"

\* What Hub.Run works on in each phase.
HubWork ==
  /\ hubPhase \in {"select", "exited"} <=> hubConn = NoConn
  /\ hubPhase = "register" => hubConn \notin connections /\ NotHandedOver(hubConn)
  /\ hubPhase = "unregister" => hubConn \in connections /\ ~ NotHandedOver(hubConn)

\* Until its Close has reached the Hub, a known connection is in the maps.
KnownIsHeld ==
  \A c \in Conns :
    Known(c) /\ NotHandedOver(c) => c \in connections \/ (hubPhase = "register" /\ hubConn = c)

\* A sweeper is in a Close only while it closes, and of a connection of its own
\* snapshot.
SweepWork == \A s \in Sweepers : at[s] # NoConn => at[s] \in todo[s] /\ sweepPc[s] = "closing"

\* The user index and the counter of active connections are functions of the set
\* of registered connections.
ViewsInv == /\ userConnections = Membership!GroupByUser(connections)
            /\ active = Cardinality(connections)

HubInv == /\ TypeOK
          /\ UnknownIsUntouched /\ PumpsFollowHandler
          /\ HubWork /\ KnownIsHeld /\ SweepWork
          /\ NoZombieEntry /\ ViewsInv

------------------------------------------------------------------------------
(* The index by user follows the set of registered connections.            *)

\* Adding a connection to the index is grouping the larger set.
LEMMA IndexAddGroups ==
  ASSUME NEW S \in SUBSET Conns, NEW c \in Conns
  PROVE  IndexAdd(Membership!GroupByUser(S), c) = Membership!GroupByUser(S \cup {c})
BY UserOfAssumption DEF IndexAdd, Membership!GroupByUser

\* Removing one is grouping the smaller set; a user left without any has no entry.
LEMMA IndexRemoveGroups ==
  ASSUME NEW S \in SUBSET Conns, NEW c \in Conns
  PROVE  IndexRemove(Membership!GroupByUser(S), c) = Membership!GroupByUser(S \ {c})
BY UserOfAssumption DEF IndexRemove, Membership!GroupByUser

\* What TypeOK says of the index holds of every grouping.
LEMMA GroupType ==
  ASSUME NEW S \in SUBSET Conns
  PROVE  LET uc == Membership!GroupByUser(S)
         IN  DOMAIN uc \subseteq Users /\ \A u \in DOMAIN uc : uc[u] \subseteq Conns
BY UserOfAssumption DEF Membership!GroupByUser

\* One connection more, or less, counts one more, or less.
LEMMA CountConnections ==
  ASSUME NEW S \in SUBSET Conns, NEW c \in Conns
  PROVE  /\ Cardinality(S) \in Nat
         /\ c \notin S => Cardinality(S \cup {c}) = Cardinality(S) + 1
         /\ c \in S => /\ Cardinality(S) > 0
                       /\ Cardinality(S \ {c}) = Cardinality(S) - 1
<1>1. IsFiniteSet(S)
  BY FS_Subset, ConnsAssumption
<1>2. Cardinality(S) \in Nat
  BY <1>1, FS_CardinalityType
<1>3. c \notin S => Cardinality(S \cup {c}) = Cardinality(S) + 1
  BY <1>1, FS_AddElement
<1>4. ASSUME c \in S PROVE Cardinality(S) > 0 /\ Cardinality(S \ {c}) = Cardinality(S) - 1
  <2>1. Cardinality(S \ {c}) = Cardinality(S) - 1
    BY <1>1, <1>4, FS_RemoveElement
  <2>2. Cardinality(S) # 0
    BY <1>1, <1>4, FS_EmptySet
  <2> QED
    BY <1>2, <2>1, <2>2
<1> QED
  BY <1>2, <1>3, <1>4

------------------------------------------------------------------------------
(* The inductive invariant.                                                *)

\* The initial state satisfies the invariant: nobody has arrived.
LEMMA InitHubInv == Init => HubInv
<1> SUFFICES ASSUME Init PROVE HubInv
  OBVIOUS
<1> USE DEF Init
<1>1. TypeOK
  BY SweepersAssumption DEF TypeOK
<1>2. UnknownIsUntouched
  BY ConnsAssumption DEF UnknownIsUntouched
<1>3. PumpsFollowHandler
  BY DEF PumpsFollowHandler
<1>4. HubWork
  BY DEF HubWork
<1>5. KnownIsHeld
  BY DEF KnownIsHeld, Known
<1>6. SweepWork
  BY DEF SweepWork
<1>7. NoZombieEntry
  BY DEF NoZombieEntry
<1>8. ViewsInv
  <2>1. Membership!GroupByUser({}) = [u \in {} |-> {}]
    BY DEF Membership!GroupByUser
  <2> QED
    BY <2>1, FS_EmptySet DEF ViewsInv
<1> QED
  BY <1>1, <1>2, <1>3, <1>4, <1>5, <1>6, <1>7, <1>8 DEF HubInv

\* Only HubAdd and HubRemove touch the maps, the index and the counter.
LEMMA NextViewsInv == HubInv /\ [Next]_vars => ViewsInv'
<1> SUFFICES ASSUME HubInv, [Next]_vars PROVE ViewsInv'
  OBVIOUS
<1> USE DEF HubInv, ViewsInv
<1>1. ASSUME UNCHANGED mapVars PROVE ViewsInv'
  BY <1>1 DEF mapVars
<1>2. ASSUME HubAdd PROVE ViewsInv'
  <2>1. hubConn \in Conns /\ hubConn \notin connections /\ connections \in SUBSET Conns
    BY <1>2 DEF HubAdd, HubWork, TypeOK
  <2>2. userConnections' = Membership!GroupByUser(connections')
    BY <1>2, <2>1, IndexAddGroups DEF HubAdd
  <2>3. active' = Cardinality(connections')
    BY <1>2, <2>1, CountConnections DEF HubAdd
  <2> QED
    BY <2>2, <2>3
<1>3. ASSUME HubRemove PROVE ViewsInv'
  <2>1. hubConn \in Conns /\ hubConn \in connections /\ connections \in SUBSET Conns
    BY <1>3 DEF HubRemove, HubWork, TypeOK
  <2>2. userConnections' = Membership!GroupByUser(connections')
    BY <1>3, <2>1, IndexRemoveGroups DEF HubRemove
  <2>3. active' = Cardinality(connections')
    BY <1>3, <2>1, CountConnections DEF HubRemove
  <2> QED
    BY <2>2, <2>3
<1>4. ASSUME NEW c \in Conns, HubAcceptRegister(c) \/ HubAcceptUnregister(c)
      PROVE  UNCHANGED mapVars
  BY <1>4 DEF HubAcceptRegister, HubAcceptUnregister, mapVars
<1>5. ASSUME HubPublished \/ HubRetracted \/ HubExit PROVE UNCHANGED mapVars
  BY <1>5 DEF HubPublished, HubRetracted, HubExit, mapVars
<1>6. ASSUME NEW c \in Conns, ConnNext(c) PROVE UNCHANGED mapVars
  BY <1>6 DEF ConnNext, Authenticate, Reject, StartPumps, ReadFrame, ReadFails, WriteFails,
              SendDrained, WriterCloses, CloseSocket, FallsSilent, ClientLeaves,
              ClientChanges, mapVars
<1>7. ASSUME NEW s \in Sweepers, SweepNext(s) PROVE UNCHANGED mapVars
  BY <1>7 DEF SweepNext, TakeRLock, Snapshot, CallClose, CloseReturned, mapVars
<1>8. ASSUME BeatRests \/ BeatExits \/ CloseStopChan PROVE UNCHANGED mapVars
  BY <1>8 DEF BeatRests, BeatExits, CloseStopChan, mapVars
<1>9. UNCHANGED vars => UNCHANGED mapVars
  BY DEF vars, mapVars
<1> QED
  BY <1>1, <1>2, <1>3, <1>4, <1>5, <1>6, <1>7, <1>8, <1>9 DEF Next, HubNext

\* Every step keeps the types; for the index they follow from its grouping.
LEMMA NextTypeOK == HubInv /\ [Next]_vars => TypeOK'
<1> SUFFICES ASSUME HubInv, [Next]_vars PROVE TypeOK'
  OBVIOUS
<1> USE DEF HubInv, TypeOK
<1>1. ASSUME NEW c \in Conns, HubAcceptRegister(c) PROVE TypeOK'
  BY <1>1 DEF HubAcceptRegister, sweepVars, mapVars
<1>2. ASSUME NEW c \in Conns, HubAcceptUnregister(c) PROVE TypeOK'
  BY <1>2 DEF HubAcceptUnregister, sweepVars, mapVars
<1>3. ASSUME HubAdd PROVE TypeOK'
  <2>1. connections' \in SUBSET Conns /\ active' \in Nat /\ total' \in Nat
    BY <1>3 DEF HubAdd, HubWork
  <2>2. userConnections' = Membership!GroupByUser(connections')
    BY NextViewsInv DEF ViewsInv
  <2>3. /\ DOMAIN userConnections' \subseteq Users
        /\ \A u \in DOMAIN userConnections' : userConnections'[u] \subseteq Conns
    BY <2>1, <2>2, GroupType
  <2>4. hubPhase' \in {"select", "publish", "retract"} /\ hubConn' \in Conns \cup {NoConn}
    BY <1>3 DEF HubAdd
  <2> QED
    BY <1>3, <2>1, <2>3, <2>4 DEF HubAdd, connVars, sweepVars
<1>4. ASSUME HubPublished PROVE TypeOK'
  BY <1>4 DEF HubPublished, connVars, sweepVars, mapVars
<1>5. ASSUME HubRemove PROVE TypeOK'
  <2>1. connections' \in SUBSET Conns /\ active' \in Nat /\ total' \in Nat
    BY <1>5 DEF HubRemove, HubWork
  <2>2. userConnections' = Membership!GroupByUser(connections')
    BY NextViewsInv DEF ViewsInv
  <2>3. /\ DOMAIN userConnections' \subseteq Users
        /\ \A u \in DOMAIN userConnections' : userConnections'[u] \subseteq Conns
    BY <2>1, <2>2, GroupType
  <2>4. hubPhase' \in {"select", "publish", "retract"} /\ hubConn' \in Conns \cup {NoConn}
    BY <1>5 DEF HubRemove
  <2> QED
    BY <1>5, <2>1, <2>3, <2>4 DEF HubRemove, connVars, sweepVars
<1>6. ASSUME HubRetracted PROVE TypeOK'
  BY <1>6 DEF HubRetracted, connVars, sweepVars, mapVars
<1>7. ASSUME HubExit PROVE TypeOK'
  BY <1>7 DEF HubExit, connVars, sweepVars, mapVars
<1>8. ASSUME NEW c \in Conns, Authenticate(c) PROVE TypeOK'
  BY <1>8 DEF Authenticate, sweepVars, mapVars
<1>9. ASSUME NEW c \in Conns, Reject(c) PROVE TypeOK'
  BY <1>9 DEF Reject, sweepVars, mapVars
<1>10. ASSUME NEW c \in Conns, StartPumps(c) PROVE TypeOK'
  BY <1>10 DEF StartPumps, sweepVars, mapVars
<1>11. ASSUME NEW c \in Conns, ReadFrame(c) PROVE TypeOK'
  BY <1>11 DEF ReadFrame, sweepVars, mapVars
<1>12. ASSUME NEW c \in Conns, ReadFails(c) PROVE TypeOK'
  BY <1>12 DEF ReadFails, EnterClose, sweepVars, mapVars
<1>13. ASSUME NEW c \in Conns, WriteFails(c) PROVE TypeOK'
  BY <1>13 DEF WriteFails, WriterCloses, EnterClose, sweepVars, mapVars
<1>14. ASSUME NEW c \in Conns, SendDrained(c) PROVE TypeOK'
  BY <1>14 DEF SendDrained, WriterCloses, EnterClose, sweepVars, mapVars
<1>15. ASSUME NEW c \in Conns, CloseSocket(c) PROVE TypeOK'
  BY <1>15 DEF CloseSocket, sweepVars, mapVars
<1>16. ASSUME NEW c \in Conns, FallsSilent(c) PROVE TypeOK'
  BY <1>16 DEF FallsSilent, ClientChanges, sweepVars, mapVars
<1>17. ASSUME NEW c \in Conns, ClientLeaves(c) PROVE TypeOK'
  BY <1>17 DEF ClientLeaves, ClientChanges, sweepVars, mapVars
<1>18. ASSUME NEW s \in Sweepers, TakeRLock(s) PROVE TypeOK'
  BY <1>18 DEF TakeRLock, connVars, mapVars
<1>19. ASSUME NEW s \in Sweepers, Snapshot(s) PROVE TypeOK'
  BY <1>19 DEF Snapshot, Selections, connVars, mapVars
<1>20. ASSUME NEW s \in Sweepers, CloseReturned(s) PROVE TypeOK'
  BY <1>20 DEF CloseReturned, connVars, mapVars
<1>21. ASSUME NEW s \in Sweepers, NEW c \in Conns, CallClose(s, c) PROVE TypeOK'
  BY <1>21 DEF CallClose, EnterClose, mapVars
<1>22. ASSUME BeatRests PROVE TypeOK'
  BY <1>22 DEF BeatRests, connVars, mapVars
<1>23. ASSUME BeatExits PROVE TypeOK'
  BY <1>23 DEF BeatExits, connVars, mapVars
<1>24. ASSUME CloseStopChan PROVE TypeOK'
  BY <1>24 DEF CloseStopChan, connVars, mapVars
<1>25. CASE UNCHANGED vars
  BY <1>25 DEF vars, connVars, sweepVars, mapVars
<1> QED
  BY <1>1, <1>2, <1>3, <1>4, <1>5, <1>6, <1>7, <1>8, <1>9, <1>10, <1>11,
      <1>12, <1>13, <1>14, <1>15, <1>16, <1>17, <1>18, <1>19, <1>20, <1>21, <1>22,
      <1>23, <1>24, <1>25
      DEF Next, HubNext, ConnNext, SweepNext

\* The conjuncts that relate goroutines, without the types and the views.
ControlInv == /\ UnknownIsUntouched /\ PumpsFollowHandler
              /\ HubWork /\ KnownIsHeld /\ SweepWork
              /\ NoZombieEntry

\* They are preserved by every step: one case per action of Next.
LEMMA NextControlInv == HubInv /\ [Next]_vars => ControlInv'
<1> SUFFICES ASSUME HubInv, [Next]_vars PROVE ControlInv'
  OBVIOUS
<1> USE DEF HubInv, TypeOK, ControlInv, UnknownIsUntouched, PumpsFollowHandler, HubWork,
            KnownIsHeld, SweepWork, NoZombieEntry, Known, NotHandedOver
<1>1. ASSUME NEW c \in Conns, HubAcceptRegister(c) PROVE ControlInv'
  BY <1>1 DEF HubAcceptRegister, sweepVars, mapVars
<1>2. ASSUME NEW c \in Conns, HubAcceptUnregister(c) PROVE ControlInv'
  BY <1>2, ConnsAssumption DEF HubAcceptUnregister, sweepVars, mapVars
<1>3. ASSUME HubAdd PROVE ControlInv'
  BY <1>3 DEF HubAdd, connVars, sweepVars
<1>4. ASSUME HubPublished PROVE ControlInv'
  BY <1>4, ConnsAssumption DEF HubPublished, connVars, sweepVars, mapVars
<1>5. ASSUME HubRemove PROVE ControlInv'
  BY <1>5 DEF HubRemove, connVars, sweepVars
<1>6. ASSUME HubRetracted PROVE ControlInv'
  BY <1>6, ConnsAssumption DEF HubRetracted, connVars, sweepVars, mapVars
<1>7. ASSUME HubExit PROVE ControlInv'
  BY <1>7 DEF HubExit, connVars, sweepVars, mapVars
<1>8. ASSUME NEW c \in Conns, Authenticate(c) PROVE ControlInv'
  BY <1>8 DEF Authenticate, sweepVars, mapVars
<1>9. ASSUME NEW c \in Conns, Reject(c) PROVE ControlInv'
  BY <1>9 DEF Reject, sweepVars, mapVars
<1>10. ASSUME NEW c \in Conns, StartPumps(c) PROVE ControlInv'
  BY <1>10 DEF StartPumps, sweepVars, mapVars
<1>11. ASSUME NEW c \in Conns, ReadFrame(c) PROVE ControlInv'
  BY <1>11 DEF ReadFrame, sweepVars, mapVars
<1>12. ASSUME NEW c \in Conns, ReadFails(c) PROVE ControlInv'
  BY <1>12 DEF ReadFails, EnterClose, sweepVars, mapVars
<1>13. ASSUME NEW c \in Conns, WriteFails(c) PROVE ControlInv'
  BY <1>13 DEF WriteFails, WriterCloses, EnterClose, sweepVars,
      mapVars
<1>14. ASSUME NEW c \in Conns, SendDrained(c) PROVE ControlInv'
  BY <1>14 DEF SendDrained, WriterCloses, EnterClose, sweepVars,
      mapVars
<1>15. ASSUME NEW c \in Conns, CloseSocket(c) PROVE ControlInv'
  BY <1>15 DEF CloseSocket, sweepVars, mapVars
<1>16. ASSUME NEW c \in Conns, FallsSilent(c) PROVE ControlInv'
  BY <1>16 DEF FallsSilent, ClientChanges, sweepVars, mapVars
<1>17. ASSUME NEW c \in Conns, ClientLeaves(c) PROVE ControlInv'
  BY <1>17 DEF ClientLeaves, ClientChanges, sweepVars, mapVars
<1>18. ASSUME NEW s \in Sweepers, TakeRLock(s) PROVE ControlInv'
  BY <1>18 DEF TakeRLock, connVars, mapVars
<1>19. ASSUME NEW s \in Sweepers, Snapshot(s) PROVE ControlInv'
  BY <1>19 DEF Snapshot, Selections, connVars, mapVars
<1>20. ASSUME NEW s \in Sweepers, CloseReturned(s) PROVE ControlInv'
  BY <1>20 DEF CloseReturned, connVars, mapVars
<1>21. ASSUME NEW s \in Sweepers, NEW c \in Conns, CallClose(s, c) PROVE ControlInv'
  BY <1>21 DEF CallClose, EnterClose, mapVars
<1>22. ASSUME BeatRests PROVE ControlInv'
  BY <1>22 DEF BeatRests, connVars, mapVars
<1>23. ASSUME BeatExits PROVE ControlInv'
  BY <1>23 DEF BeatExits, connVars, mapVars
<1>24. ASSUME CloseStopChan PROVE ControlInv'
  BY <1>24 DEF CloseStopChan, connVars, mapVars
<1>25. CASE UNCHANGED vars
  BY <1>25 DEF vars, connVars, sweepVars, mapVars
<1> QED
  BY <1>1, <1>2, <1>3, <1>4, <1>5, <1>6, <1>7, <1>8, <1>9, <1>10, <1>11,
      <1>12, <1>13, <1>14, <1>15, <1>16, <1>17, <1>18, <1>19, <1>20, <1>21, <1>22,
      <1>23, <1>24, <1>25
      DEF Next, HubNext, ConnNext, SweepNext

\* Every step preserves the invariant.
LEMMA NextHubInv == HubInv /\ [Next]_vars => HubInv'
BY NextTypeOK, NextControlInv, NextViewsInv DEF HubInv, ControlInv

\* The invariant holds in every reachable state.
LEMMA HubInvariance == Spec => []HubInv
BY InitHubInv, NextHubInv, PTL DEF Spec

------------------------------------------------------------------------------
(* The theorems.                                                           *)

\* Every variable keeps its type in every reachable state of every gateway.
THEOREM TypeCorrect == Spec => []TypeOK
<1>1. HubInv => TypeOK
  BY DEF HubInv
<1> QED
  BY <1>1, HubInvariance, PTL

\* The early return of unregisterConnection is never taken: every Unregister the
\* Hub receives is for a connection in its maps.
THEOREM UnregisterAlwaysFinds == Spec => []UnregisterFindsEntry
<1>1. HubInv => UnregisterFindsEntry
  BY DEF HubInv, HubWork, UnregisterFindsEntry
<1> QED
  BY <1>1, HubInvariance, PTL

\* No entry of the maps outlives the Unregister of its connection.
THEOREM NoZombies == Spec => []NoZombieEntry
<1>1. HubInv => NoZombieEntry
  BY DEF HubInv
<1> QED
  BY <1>1, HubInvariance, PTL

\* A connection with a running read pump that nobody closes is one the Hub holds
\* or is adding.
THEOREM PumpsRegistered == Spec => []PumpsAreRegistered
<1>1. HubInv => PumpsAreRegistered
  BY DEF HubInv, TypeOK, PumpsFollowHandler, KnownIsHeld, Known, NotHandedOver, PumpsAreRegistered
<1> QED
  BY <1>1, HubInvariance, PTL

------------------------------------------------------------------------------
(* The Hub implements HubMembership: HubAdd is a Join, HubRemove a Leave,  *)
(* and every other step leaves the membership as it is.                    *)

\* The connections the refinement mapping shows online are the registered ones.
LEMMA OnlineIsRegistered == TypeOK => Membership!Online = connections
BY DEF TypeOK, Membership!Online, StatusOf

\* The empty Hub is the empty membership.
LEMMA InitImplements == Init => Membership!Init
<1> SUFFICES ASSUME Init PROVE Membership!Init
  OBVIOUS
<1>1. Membership!GroupByUser({}) = [u \in {} |-> {}]
  BY DEF Membership!GroupByUser
<1>2. [c \in Conns |-> StatusOf(c)] = [c \in Conns |-> "absent"]
  BY DEF Init, StatusOf
<1> QED
  BY <1>1, <1>2 DEF Init, Membership!Init

\* registerConnection is a Join of a connection never seen before.
LEMMA AddIsJoin == HubInv /\ HubAdd => Membership!Join(hubConn)
<1> SUFFICES ASSUME HubInv, HubAdd PROVE Membership!Join(hubConn)
  OBVIOUS
<1>1. /\ hubConn \in Conns /\ hubConn \notin connections /\ NotHandedOver(hubConn)
      /\ connections \in SUBSET Conns
  BY DEF HubInv, HubAdd, HubWork, TypeOK
<1>2. StatusOf(hubConn) = "absent"
  BY <1>1 DEF StatusOf, NotHandedOver
<1>3. [c \in Conns |-> StatusOf(c)]'
        = [[c \in Conns |-> StatusOf(c)] EXCEPT ![hubConn] = "online"]
  BY <1>1 DEF StatusOf, HubAdd, connVars
<1>4. userConnections' = Membership!GroupByUser(Membership!Online \cup {hubConn})
  BY <1>1, OnlineIsRegistered, IndexAddGroups DEF HubInv, ViewsInv, HubAdd
<1> QED
  BY <1>1, <1>2, <1>3, <1>4 DEF Membership!Join, HubAdd

\* unregisterConnection is a Leave of a connection that is online.
LEMMA RemoveIsLeave == HubInv /\ HubRemove => Membership!Leave(hubConn)
<1> SUFFICES ASSUME HubInv, HubRemove PROVE Membership!Leave(hubConn)
  OBVIOUS
<1>1. /\ hubConn \in Conns /\ hubConn \in connections /\ ~ NotHandedOver(hubConn)
      /\ connections \in SUBSET Conns
      /\ closing \in [Conns -> {"open", "sendClosed", "unregistered", "done"}]
  BY DEF HubInv, HubRemove, HubWork, TypeOK
<1>2. StatusOf(hubConn) = "online"
  BY <1>1 DEF StatusOf
<1>3. [c \in Conns |-> StatusOf(c)]'
        = [[c \in Conns |-> StatusOf(c)] EXCEPT ![hubConn] = "gone"]
  BY <1>1 DEF StatusOf, HubRemove, connVars, NotHandedOver
<1>4. userConnections' = Membership!GroupByUser(Membership!Online \ {hubConn})
  BY <1>1, OnlineIsRegistered, IndexRemoveGroups DEF HubInv, ViewsInv, HubRemove
<1>5. active' = active - 1
  BY <1>1, CountConnections DEF HubInv, ViewsInv, HubRemove
<1> QED
  BY <1>1, <1>2, <1>3, <1>4, <1>5 DEF Membership!Leave, HubRemove

\* Every other step leaves the membership as it is.
LEMMA OthersStutter ==
  HubInv /\ [Next]_vars => HubAdd \/ HubRemove \/ UNCHANGED Membership!vars
<1> SUFFICES ASSUME HubInv, [Next]_vars, ~ HubAdd, ~ HubRemove
             PROVE  UNCHANGED Membership!vars
  OBVIOUS
<1> USE DEF HubInv
<1> DEFINE SameStatus == \A c \in Conns : StatusOf(c)' = StatusOf(c)
<1>1. ASSUME UNCHANGED <<closing, mapVars>> PROVE SameStatus /\ UNCHANGED mapVars
  BY <1>1 DEF StatusOf, mapVars
\* A connection enters Close: neither of the two values tells it from the other.
<1>2. ASSUME NEW d \in Conns, EnterClose(d), UNCHANGED mapVars
      PROVE  SameStatus /\ UNCHANGED mapVars
  BY <1>2 DEF EnterClose, StatusOf, mapVars, TypeOK
\* The Hub receives an Unregister: the connection is still online.
<1>3. ASSUME NEW d \in Conns, HubAcceptUnregister(d) PROVE SameStatus /\ UNCHANGED mapVars
  <2>1. d \in connections
    BY <1>3 DEF HubAcceptUnregister, UnknownIsUntouched, KnownIsHeld, NotHandedOver, Known
  <2> QED
    BY <1>3, <2>1 DEF HubAcceptUnregister, StatusOf, mapVars, TypeOK
<1>4. ASSUME NEW d \in Conns, CloseSocket(d) PROVE SameStatus /\ UNCHANGED mapVars
  BY <1>4 DEF CloseSocket, StatusOf, mapVars, TypeOK
<1>5. ASSUME NEW d \in Conns,
             HubAcceptRegister(d) \/ Authenticate(d) \/ Reject(d) \/ StartPumps(d)
               \/ ReadFrame(d) \/ FallsSilent(d) \/ ClientLeaves(d)
      PROVE  UNCHANGED <<closing, mapVars>>
  BY <1>5 DEF HubAcceptRegister, Authenticate, Reject, StartPumps, ReadFrame, FallsSilent,
              ClientLeaves, ClientChanges
<1>6. ASSUME HubPublished \/ HubRetracted \/ HubExit \/ BeatRests \/ BeatExits \/ CloseStopChan
      PROVE  UNCHANGED <<closing, mapVars>>
  BY <1>6 DEF HubPublished, HubRetracted, HubExit, BeatRests, BeatExits, CloseStopChan, connVars
<1>7. ASSUME NEW s \in Sweepers, TakeRLock(s) \/ Snapshot(s) \/ CloseReturned(s)
      PROVE  UNCHANGED <<closing, mapVars>>
  BY <1>7 DEF TakeRLock, Snapshot, CloseReturned, connVars
<1>8. ASSUME NEW d \in Conns, NEW s \in Sweepers, CallClose(s, d)
      PROVE  EnterClose(d) /\ UNCHANGED mapVars
  BY <1>8 DEF CallClose
<1>9. ASSUME NEW d \in Conns, ReadFails(d) \/ WriteFails(d) \/ SendDrained(d)
      PROVE  EnterClose(d) /\ UNCHANGED mapVars
  BY <1>9 DEF ReadFails, WriteFails, SendDrained, WriterCloses
<1>10. UNCHANGED vars => UNCHANGED <<closing, mapVars>>
  BY DEF vars, connVars
<1>11. SameStatus /\ UNCHANGED mapVars
  BY <1>1, <1>2, <1>3, <1>4, <1>5, <1>6, <1>7, <1>8, <1>9, <1>10
     DEF Next, HubNext, ConnNext, SweepNext
<1>12. UNCHANGED [c \in Conns |-> StatusOf(c)]
  BY <1>11
<1> QED
  BY <1>11, <1>12 DEF Membership!vars, mapVars

\* The Hub with all its goroutines implements the abstract membership: whatever
\* the interleaving, each connection joins at most once, leaves at most once and
\* never returns, and the index and both counters move with it.
THEOREM HubImplementsMembership == Spec => ImplementsMembership
<1>1. HubInv /\ HubAdd => Membership!Next
  BY AddIsJoin DEF Membership!Next, HubInv, HubAdd, HubWork, TypeOK
<1>2. HubInv /\ HubRemove => Membership!Next
  BY RemoveIsLeave DEF Membership!Next, HubInv, HubRemove, HubWork, TypeOK
<1>3. HubInv /\ [Next]_vars => [Membership!Next]_(Membership!vars)
  BY <1>1, <1>2, OthersStutter
<1> QED
  BY <1>3, InitImplements, HubInvariance, PTL DEF Spec, ImplementsMembership, Membership!Spec

------------------------------------------------------------------------------
(* What the refinement gives: the numbers of /stats, and no return.        *)

\* The connections that have ever joined.
Joined == {c \in Conns : StatusOf(c) # "absent"}

\* The counters and the index are those of the connections they speak of.
StatsAreTrue ==
  /\ active = Cardinality(connections)
  /\ total = Cardinality(Joined)
  /\ connections \subseteq Joined
  /\ userConnections = Membership!GroupByUser(connections)

\* The status of one connection changes, from one value to another.
Moves(d, from, to) ==
  /\ StatusOf(d) = from
  /\ \A c \in Conns : StatusOf(c)' = IF c = d THEN to ELSE StatusOf(c)

\* Of the statuses: HubAdd makes one connection online that was absent, HubRemove one
\* gone that was online, and nothing else changes any.
LEMMA StatusSteps ==
  ASSUME HubInv, [Next]_vars
  PROVE  \/ \E d \in Conns : Moves(d, "absent", "online") /\ total' = total + 1
         \/ \E d \in Conns : Moves(d, "online", "gone") /\ total' = total
         \/ (\A c \in Conns : StatusOf(c)' = StatusOf(c)) /\ total' = total
<1> USE DEF HubInv
<1>1. CASE HubAdd
  <2>1. PICK d \in Conns : d = hubConn
    BY <1>1 DEF HubAdd, HubWork, TypeOK
  <2>2. Moves(d, "absent", "online") /\ total' = total + 1
    BY <1>1, <2>1 DEF HubAdd, HubWork, TypeOK, StatusOf, NotHandedOver, connVars, Moves
  <2> QED BY <2>2
<1>2. CASE HubRemove
  <2>1. PICK d \in Conns : d = hubConn
    BY <1>2 DEF HubRemove, HubWork, TypeOK
  <2>2. Moves(d, "online", "gone") /\ total' = total
    BY <1>2, <2>1 DEF HubRemove, HubWork, TypeOK, StatusOf, NotHandedOver, connVars, Moves
  <2> QED BY <2>2
<1>3. CASE UNCHANGED Membership!vars
  <2>1. [c \in Conns |-> StatusOf(c)]' = [c \in Conns |-> StatusOf(c)] /\ total' = total
    BY <1>3 DEF Membership!vars
  <2>2. \A c \in Conns : [d \in Conns |-> StatusOf(d)][c] = StatusOf(c)
    OBVIOUS
  <2>3. \A c \in Conns : [d \in Conns |-> StatusOf(d)'][c] = StatusOf(c)'
    OBVIOUS
  <2> QED BY <2>1, <2>2, <2>3
<1> QED BY <1>1, <1>2, <1>3, OthersStutter

\* ActiveConnections and TotalConnections of /stats are the size of the maps and the
\* number of connections that ever joined, and the per-user index is the maps.
THEOREM CountersAreTrue == Spec => []StatsAreTrue
<1> DEFINE CountInv == total = Cardinality(Joined)
<1>1. Init => CountInv
  <2>1. Init => Joined = {}
    BY DEF Init, Joined, StatusOf
  <2> QED BY <2>1, FS_EmptySet DEF Init
<1>2. HubInv /\ CountInv /\ [Next]_vars => CountInv'
  <2> SUFFICES ASSUME HubInv, CountInv, [Next]_vars PROVE CountInv'
    OBVIOUS
  <2>1. /\ Joined \in SUBSET Conns /\ Joined' \in SUBSET Conns
        /\ \A c \in Conns : c \in Joined <=> StatusOf(c) # "absent"
        /\ \A c \in Conns : c \in Joined' <=> StatusOf(c)' # "absent"
    BY DEF Joined
  <2>2. ASSUME NEW d \in Conns, Moves(d, "absent", "online"), total' = total + 1 PROVE CountInv'
    <3>0. \A c \in Conns : StatusOf(c)' # "absent" <=> StatusOf(c) # "absent" \/ c = d
      BY <2>2 DEF Moves
    <3>1. \A c \in Conns : c \in Joined' <=> c \in Joined \/ c = d
      BY <2>1, <3>0
    <3>2. d \notin Joined /\ Joined' = Joined \cup {d}
      BY <2>1, <2>2, <3>1 DEF Moves
    <3> QED BY <2>1, <2>2, <3>2, CountConnections
  <2>3. ASSUME NEW d \in Conns, Moves(d, "online", "gone"), total' = total PROVE CountInv'
    <3>0. \A c \in Conns : StatusOf(c)' # "absent" <=> StatusOf(c) # "absent"
      BY <2>3 DEF Moves
    <3>1. \A c \in Conns : c \in Joined' <=> c \in Joined
      BY <2>1, <3>0
    <3>2. Joined' = Joined
      BY <2>1, <3>1
    <3> QED BY <2>3, <3>2
  <2>4. CASE (\A c \in Conns : StatusOf(c)' = StatusOf(c)) /\ total' = total
    <3>1. Joined' = Joined
      BY <2>4 DEF Joined
    <3> QED BY <2>4, <3>1
  <2> QED BY <2>2, <2>3, <2>4, StatusSteps
<1>3. HubInv /\ CountInv => StatsAreTrue
  BY DEF HubInv, TypeOK, ViewsInv, StatsAreTrue, Joined, StatusOf
<1> QED BY <1>1, <1>2, <1>3, HubInvariance, PTL DEF Spec

\* A step never brings back a connection that has left the maps, and a connection that
\* was in them is never taken for one that is still to come.
NoReturn ==
  \A c \in Conns :
    /\ StatusOf(c) = "gone" => StatusOf(c)' = "gone"
    /\ StatusOf(c) = "online" => StatusOf(c)' # "absent"

\* Whatever the pumps, sweepers and handlers do, a connection that is out of the maps
\* stays out, and no register of it is still on its way.
THEOREM NobodyReturns == Spec => [][NoReturn]_vars
<1>1. HubInv /\ [Next]_vars => [NoReturn]_vars
  <2> SUFFICES ASSUME HubInv, [Next]_vars, NEW c \in Conns
               PROVE  /\ StatusOf(c) = "gone" => StatusOf(c)' = "gone"
                      /\ StatusOf(c) = "online" => StatusOf(c)' # "absent"
    BY DEF NoReturn
  <2>1. ASSUME NEW d \in Conns, Moves(d, "absent", "online") \/ Moves(d, "online", "gone")
        PROVE  /\ StatusOf(c) = "gone" => StatusOf(c)' = "gone"
               /\ StatusOf(c) = "online" => StatusOf(c)' # "absent"
    BY <2>1 DEF Moves
  <2> QED BY <2>1, StatusSteps
<1> QED BY <1>1, HubInvariance, PTL DEF Spec

------------------------------------------------------------------------------
(* The two pumps.                                                          *)

\* A connection nobody closes has both of its pumps, once its handler is done.
PumpsLiveTogether ==
  \A c \in Conns :
    handler[c] = "done" /\ closing[c] = "open" => reader[c] = "running" /\ writer[c] = "running"

\* No connection goes on with one pump only: whichever fails first has begun to close it.
THEOREM PumpsAlwaysLiveTogether == Spec => []PumpsLiveTogether
<1>1. Init => PumpsLiveTogether
  BY DEF Init, PumpsLiveTogether
<1>2. HubInv /\ PumpsLiveTogether /\ [Next]_vars => PumpsLiveTogether'
  <2> SUFFICES ASSUME HubInv, PumpsLiveTogether, [Next]_vars PROVE PumpsLiveTogether'
    OBVIOUS
  <2> USE DEF HubInv, TypeOK, PumpsLiveTogether
  <2>1. ASSUME UNCHANGED <<handler, reader, writer>>,
               \A c \in Conns : closing'[c] = "open" => closing[c] = "open"
        PROVE  PumpsLiveTogether'
    BY <2>1
  <2>2. ASSUME NEW c \in Conns, HubAcceptRegister(c) \/ Authenticate(c) \/ Reject(c)
        PROVE  PumpsLiveTogether'
    BY <2>2 DEF HubAcceptRegister, Authenticate, Reject
  <2>3. ASSUME NEW c \in Conns, StartPumps(c) PROVE PumpsLiveTogether'
    BY <2>3 DEF StartPumps
  <2>4. ASSUME NEW c \in Conns, ReadFails(c) \/ WriteFails(c) \/ SendDrained(c)
        PROVE  PumpsLiveTogether'
    BY <2>4 DEF ReadFails, WriteFails, SendDrained, WriterCloses, EnterClose
  <2>5. ASSUME NEW c \in Conns, HubAcceptUnregister(c) \/ CloseSocket(c) PROVE PumpsLiveTogether'
    BY <2>1, <2>5 DEF HubAcceptUnregister, CloseSocket
  <2>6. ASSUME NEW c \in Conns, ReadFrame(c) \/ FallsSilent(c) \/ ClientLeaves(c)
        PROVE  PumpsLiveTogether'
    BY <2>1, <2>6 DEF ReadFrame, FallsSilent, ClientLeaves, ClientChanges
  <2>7. CASE HubAdd \/ HubPublished \/ HubRemove \/ HubRetracted \/ HubExit
    BY <2>1, <2>7 DEF HubAdd, HubPublished, HubRemove, HubRetracted, HubExit, connVars
  <2>8. ASSUME NEW s \in Sweepers, TakeRLock(s) \/ Snapshot(s) \/ CloseReturned(s)
        PROVE  PumpsLiveTogether'
    BY <2>1, <2>8 DEF TakeRLock, Snapshot, CloseReturned, connVars
  <2>9. ASSUME NEW s \in Sweepers, NEW c \in Conns, CallClose(s, c) PROVE PumpsLiveTogether'
    BY <2>1, <2>9 DEF CallClose, EnterClose
  <2>10. CASE BeatRests \/ BeatExits \/ CloseStopChan \/ UNCHANGED vars
    BY <2>1, <2>10 DEF BeatRests, BeatExits, CloseStopChan, vars, connVars
  <2> QED
    BY <2>2, <2>3, <2>4, <2>5, <2>6, <2>7, <2>8, <2>9, <2>10
       DEF Next, HubNext, ConnNext, SweepNext
<1> QED BY <1>1, <1>2, HubInvariance, PTL DEF Spec
==============================================================================
