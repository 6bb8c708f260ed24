---------------------------- MODULE Gateway_proofs -----------------------------
(***************************************************************************)
(* Theorems about Gateway, for any connections, users and configuration,   *)
(* with a heartbeat or without: Hub.Stop closes all it found, and an       *)
(* orderly exit leaves one route of them at most, those apart that         *)
(* refreshes put back; and the times and the address made of a             *)
(* configuration are what TtlCoversSilence and FileAdvertisesListener say. *)
(***************************************************************************)
EXTENDS Gateway, HubLifecycle_proofs

------------------------------------------------------------------------------
(* The Hub of the gateway is the Hub of HubLifecycle.                      *)

\* Every step of the gateway is a step of the Hub or leaves it alone.
LEMMA StepsOfTheHub == ASSUME [GNext]_gvars PROVE [Next]_vars
<1>1. "stop" \in Sweepers
  BY StopAssumption
<1>2. CASE UNCHANGED gvars
  BY <1>2 DEF gvars
<1>3. CASE Starts \/ Listen \/ Signal \/ MainStops
  BY <1>3 DEF Starts, Listen, Signal, MainStops, HubStopped, ServersStop, CloseContext, Exit,
              MainGoes
<1>4. CASE HubMoves \/ HubLocks
  BY <1>4 DEF HubMoves, HubLocks, HubAccepts, Published, Retracted, Within, Next, HubNext
<1>5. CASE StopMoves
  BY <1>1, <1>5 DEF StopMoves, StopSnapshot, Within, StopBegins, StopCloses, Next, SweepNext
<1>6. CASE Within(Beats)
  BY <1>6 DEF Within, Beats, Next
<1>7. ASSUME NEW c \in Conns, Within(Arrives(c)) \/ Within(Pumps(c)) \/ Refreshes(c)
      PROVE [Next]_vars
  BY <1>7 DEF Within, Arrives, Pumps, Refreshes, FrameRead, RefreshReads, RefreshWrites,
              Next, ConnNext
<1> QED BY <1>2, <1>3, <1>4, <1>5, <1>6, <1>7 DEF GNext

\* What HubLifecycle_proofs shows of the Hub holds in the process around it.
LEMMA GatewayRunsTheHub == GSpec => Spec
<1>1. GInit => Init
  BY DEF GInit
<1>2. [GNext]_gvars => [Next]_vars
  BY StepsOfTheHub
<1> QED BY <1>1, <1>2, PTL DEF GSpec, Spec

\* What HubLifecycle_proofs knows of the Hub.
LEMMA HubInvInGateway == GSpec => []HubInv
  BY GatewayRunsTheHub, HubInvariance, PTL

------------------------------------------------------------------------------
(* The shutdown and the routes.                                            *)

Early == {"load", "context", "hub", "built", "serving"}
AfterHub == {"httpStop", "rpcStop", "closing", "leaving", "exited"}

\* A route is one of a connection that its Close has not handed to the Hub yet, or
\* the Hub is about to remove it, or a refresh has put it back; Stop waits for Close of
\* all it found; and Redis is closed when it has.
ExitInv ==
  /\ main \in Phases /\ listening \in BOOLEAN /\ redisOpen \in BOOLEAN
  /\ routed \subseteq Conns /\ snapshot \subseteq Conns /\ revived \subseteq Conns
  /\ refresh \in [Conns -> {"none", "asked", "read"}]
  /\ main \in Early => snapshot = {} /\ sweepPc["stop"] = "idle"
  /\ main \in AfterHub => sweepPc["stop"] = "exited"
  /\ redisOpen <=> main \notin {"leaving", "exited"}
  /\ sweepPc["stop"] = "exited" => todo["stop"] = {}
  /\ \A c \in snapshot : c \in todo["stop"] \/ closing[c] = "done"
  /\ hubPhase = "publish" => NotHandedOver(hubConn)
  /\ redisOpen =>
       \A c \in routed \ revived :
          NotHandedOver(c) \/ (hubConn = c /\ hubPhase \in {"unregister", "retract"})
  /\ ~ redisOpen => Cardinality((routed \cap snapshot) \ revived) <= 1

\* A step that leaves the process and its routes alone.
ExitKept == UNCHANGED <<main, listening, redisOpen, routed, refresh, snapshot, revived>>

LEMMA ExitInit == GInit => ExitInv
<1> SUFFICES ASSUME GInit PROVE ExitInv
  OBVIOUS
<1>1. "stop" \in Sweepers
  BY StopAssumption
<1> QED BY <1>1 DEF GInit, Init, ExitInv, Phases, Early, AfterHub

\* The steps of start.Start: closing Redis is the one that matters.
LEMMA ExitMain ==
  ASSUME HubInv, ExitInv, Starts \/ Listen \/ Signal \/ MainStops
  PROVE ExitInv'
<1>1. UNCHANGED vars
  BY DEF Starts, Listen, Signal, MainStops, HubStopped, ServersStop, CloseContext, Exit, MainGoes
<1>2. /\ UNCHANGED <<hubPhase, hubConn, closing, sweepPc, todo>>
      /\ \A c : NotHandedOver(c)' <=> NotHandedOver(c)
  BY <1>1 DEF vars, connVars, sweepVars, NotHandedOver
<1>3. CASE CloseContext
  <2>1. /\ main = "closing" /\ main' = "leaving" /\ redisOpen' = FALSE
        /\ UNCHANGED <<listening, routed, refresh, snapshot, revived>>
    BY <1>3 DEF CloseContext, MainGoes
  <2> DEFINE Left == (routed \cap snapshot) \ revived
  <2>2. \A c \in Left : c = hubConn
    <3>1. sweepPc["stop"] = "exited" /\ todo["stop"] = {} /\ redisOpen
      BY <2>1 DEF ExitInv, AfterHub
    <3>2. \A c \in snapshot : closing[c] = "done"
      BY <3>1 DEF ExitInv
    <3> QED BY <3>1, <3>2 DEF ExitInv, NotHandedOver
  <2>3. Cardinality(Left) <= 1
    <3>1. Left \subseteq {hubConn}
      BY <2>2
    <3>2. IsFiniteSet({hubConn}) /\ Cardinality({hubConn}) = 1
      BY FS_Singleton
    <3>3. Cardinality(Left) <= Cardinality({hubConn})
      BY <3>1, <3>2, FS_Subset
    <3> QED BY <3>2, <3>3
  <2> QED BY <1>2, <2>1, <2>3 DEF ExitInv, Phases, Early, AfterHub
<1>4. CASE Starts \/ Listen \/ Signal \/ HubStopped \/ ServersStop \/ Exit
  <2>1. UNCHANGED <<redisOpen, routed, refresh, snapshot, revived>> /\ listening' \in BOOLEAN
    BY <1>4 DEF Starts, Listen, Signal, HubStopped, ServersStop, Exit, shutdownVars, ExitInv
  <2>2. /\ main' \in Phases
        /\ main' \in Early => main \in Early
        /\ main' \in AfterHub => main \in AfterHub \/ sweepPc["stop"] = "exited"
        /\ main' \in {"leaving", "exited"} <=> main \in {"leaving", "exited"}
    BY <1>4 DEF Starts, Listen, Signal, HubStopped, ServersStop, Exit, MainGoes, Phases, Early,
                AfterHub
  <2> QED BY <1>2, <2>1, <2>2 DEF ExitInv
<1> QED BY <1>3, <1>4 DEF MainStops

\* The Hub's own calls of Redis.
LEMMA ExitRedis ==
  ASSUME HubInv, ExitInv, Published \/ Retracted
  PROVE ExitInv'
<1>1. /\ UNCHANGED <<main, listening, redisOpen, refresh, snapshot, revived>>
      /\ UNCHANGED <<closing, sweepPc, todo>>
      /\ \A c : NotHandedOver(c)' <=> NotHandedOver(c)
  BY DEF Published, Retracted, HubPublished, HubRetracted, connVars, sweepVars, NotHandedOver
<1>2. hubPhase' = "select"
  BY DEF Published, Retracted, HubPublished, HubRetracted
<1>3. ~ redisOpen => UNCHANGED routed
  BY DEF Published, Retracted
<1>4. hubPhase \in {"publish", "retract"} /\ hubConn \in Conns
  BY DEF Published, Retracted, HubPublished, HubRetracted, HubInv, HubWork, TypeOK
<1>5. redisOpen => /\ routed' \subseteq Conns
                   /\ \A c \in routed' \ revived : NotHandedOver(c)
  <2> SUFFICES ASSUME redisOpen
               PROVE  routed' \subseteq Conns /\ \A c \in routed' \ revived : NotHandedOver(c)
    OBVIOUS
  <2>1. CASE Published
    BY <1>4, <2>1 DEF Published, HubPublished, ExitInv
  <2>2. CASE Retracted
    BY <1>4, <2>2 DEF Retracted, HubRetracted, ExitInv
  <2> QED BY <2>1, <2>2
<1> QED BY <1>1, <1>2, <1>3, <1>5 DEF ExitInv

\* The snapshot of Hub.Stop.
LEMMA ExitSnapshot == ASSUME HubInv, ExitInv, StopSnapshot PROVE ExitInv'
<1>1. "stop" \in Sweepers
  BY StopAssumption
<1>2. /\ UNCHANGED <<main, listening, redisOpen, routed, refresh, revived>>
      /\ UNCHANGED <<closing, hubPhase, hubConn>>
      /\ \A c : NotHandedOver(c)' <=> NotHandedOver(c)
  BY DEF StopSnapshot, Snapshot, connVars, NotHandedOver
<1>3. /\ sweepPc["stop"] = "locked" /\ sweepPc'["stop"] = "closing"
      /\ snapshot' = connections /\ todo'["stop"] = connections
  BY <1>1 DEF StopSnapshot, Snapshot, Selections, HubInv, TypeOK
<1>4. main \notin Early /\ main \notin AfterHub
  BY <1>3 DEF ExitInv
<1>5. connections \subseteq Conns /\ redisOpen
  BY <1>4 DEF HubInv, TypeOK, ExitInv, AfterHub
<1> QED BY <1>2, <1>3, <1>4, <1>5 DEF ExitInv

\* Steps of a connection and its handler leave the Hub and Stop alone, and hand
\* nothing over.
LEMMA ExitConn ==
  ASSUME HubInv, ExitInv, NEW c \in Conns, Within(Arrives(c)) \/ Within(Pumps(c))
  PROVE ExitInv'
<1>1. ExitKept /\ UNCHANGED <<hubPhase, hubConn, sweepPc, todo>>
  BY DEF ExitKept, Within, Arrives, Pumps, Authenticate, Reject, StartPumps, ReadFails, SendDrained,
         CloseSocket, WriteFails, WriterCloses, FallsSilent, ClientLeaves,
         ClientChanges, gatewayVars, shutdownVars, sweepVars
<1>2. \/ UNCHANGED closing
      \/ EnterClose(c)
      \/ CloseSocket(c)
  BY DEF Within, Arrives, Pumps, Authenticate, Reject, StartPumps, ReadFails, SendDrained,
         CloseSocket, WriteFails, WriterCloses, FallsSilent, ClientLeaves,
         ClientChanges
<1>3. \A d \in Conns : /\ closing[d] = "done" => closing'[d] = "done"
                       /\ NotHandedOver(d)' <=> NotHandedOver(d)
  BY <1>2 DEF EnterClose, CloseSocket, NotHandedOver, HubInv, TypeOK
<1>4. hubPhase = "publish" => hubConn \in Conns
  BY DEF HubInv, HubWork, TypeOK
<1> QED BY <1>1, <1>3, <1>4 DEF ExitInv, ExitKept

\* What Hub.Run does, Redis apart.
LEMMA ExitHub ==
  ASSUME HubInv, ExitInv,
         \/ \E c \in Conns : Within(HubAccepts(c))
         \/ Within(HubAdd) \/ Within(HubRemove) \/ Within(HubExit)
  PROVE ExitInv'
<1>1. ExitKept /\ UNCHANGED <<sweepPc, todo>>
  BY DEF ExitKept, Within, HubAccepts, HubAcceptRegister, HubAcceptUnregister, HubAdd, HubRemove,
         HubExit, gatewayVars, shutdownVars, sweepVars
<1>2. ASSUME NEW c \in Conns, HubAcceptUnregister(c) PROVE ExitInv'
  <2>1. /\ hubPhase = "select" /\ hubConn = NoConn
        /\ hubPhase' = "unregister" /\ hubConn' = c
        /\ closing[c] = "sendClosed"
        /\ closing' = [closing EXCEPT ![c] = "unregistered"]
    BY <1>2 DEF HubAcceptUnregister, HubInv, HubWork
  <2>2. \A d \in Conns \ {c} : closing'[d] = closing[d]
    BY <2>1 DEF HubInv, TypeOK
  <2>3. \A d \in snapshot : closing[d] = "done" => closing'[d] = "done"
    BY <2>1, <2>2 DEF ExitInv
  <2>4. redisOpen => \A d \in routed \ revived : NotHandedOver(d)' \/ d = c
    BY <2>1, <2>2 DEF ExitInv, NotHandedOver
  <2> QED BY <1>1, <2>1, <2>3, <2>4 DEF ExitInv, ExitKept
<1>3. ASSUME UNCHANGED closing,
             hubPhase' = "publish" => NotHandedOver(hubConn'),
             hubPhase \in {"unregister", "retract"} =>
                hubPhase' \in {"unregister", "retract"} /\ hubConn' = hubConn
      PROVE ExitInv'
  <2>1. \A c : NotHandedOver(c)' <=> NotHandedOver(c)
    BY <1>3 DEF NotHandedOver
  <2> QED BY <1>1, <1>3, <2>1 DEF ExitInv, ExitKept, NotHandedOver
<1>4. ASSUME NEW c \in Conns, HubAcceptRegister(c) PROVE ExitInv'
  BY <1>3, <1>4 DEF HubAcceptRegister
<1>5. CASE HubAdd
  BY <1>3, <1>5 DEF HubAdd, connVars, HubInv, HubWork
<1>6. CASE HubRemove
  BY <1>3, <1>6 DEF HubRemove, connVars, HubInv, HubWork
<1>7. CASE HubExit
  BY <1>3, <1>7 DEF HubExit, connVars
<1> QED BY <1>2, <1>4, <1>5, <1>6, <1>7 DEF Within, HubAccepts

\* Hub.Stop, from its call to its return.
LEMMA ExitStop ==
  ASSUME HubInv, ExitInv, Within(StopBegins) \/ Within(StopCloses) \/ Within(CloseStopChan)
  PROVE ExitInv'
<1>1. "stop" \in Sweepers
  BY StopAssumption
<1>2. ExitKept /\ UNCHANGED <<hubPhase, hubConn>>
  BY DEF ExitKept, Within, StopBegins, TakeRLock, StopCloses, CallClose, CloseReturned,
         CloseStopChan, gatewayVars, shutdownVars
<1>3. CASE StopBegins
  <2>1. /\ main = "hubStop" /\ sweepPc["stop"] = "idle" /\ sweepPc'["stop"] = "locked"
        /\ UNCHANGED <<closing, todo>>
    BY <1>1, <1>3 DEF StopBegins, TakeRLock, connVars, HubInv, TypeOK
  <2> QED BY <1>2, <2>1 DEF ExitInv, ExitKept, Early, AfterHub, NotHandedOver
<1>4. CASE CloseStopChan
  <2>1. /\ sweepPc["stop"] = "closing" /\ sweepPc'["stop"] = "exited" /\ todo["stop"] = {}
        /\ UNCHANGED <<closing, todo>>
    BY <1>1, <1>4 DEF CloseStopChan, connVars, HubInv, TypeOK
  <2>2. main \notin Early
    BY <2>1 DEF ExitInv
  <2> QED BY <1>2, <2>1, <2>2 DEF ExitInv, ExitKept, NotHandedOver
<1>5. ASSUME NEW c \in Conns, CallClose("stop", c) PROVE ExitInv'
  <2>1. UNCHANGED <<sweepPc, todo>> /\ EnterClose(c)
    BY <1>5 DEF CallClose
  <2>2. \A d \in Conns : /\ closing[d] = "done" => closing'[d] = "done"
                         /\ NotHandedOver(d)' <=> NotHandedOver(d)
    BY <2>1 DEF EnterClose, NotHandedOver, HubInv, TypeOK
  <2>3. hubPhase = "publish" => hubConn \in Conns
    BY DEF HubInv, HubWork, TypeOK
  <2> QED BY <1>2, <2>1, <2>2, <2>3 DEF ExitInv, ExitKept
<1>6. CASE CloseReturned("stop")
  <2>1. /\ UNCHANGED <<sweepPc, closing>> /\ closing[at["stop"]] = "done"
        /\ todo'["stop"] = todo["stop"] \ {at["stop"]}
    BY <1>1, <1>6 DEF CloseReturned, connVars, HubInv, TypeOK
  <2> QED BY <1>2, <2>1 DEF ExitInv, ExitKept, NotHandedOver
<1> QED BY <1>3, <1>4, <1>5, <1>6 DEF Within, StopCloses

\* The refreshes: what one writes back counts as revived.
LEMMA ExitRefresh ==
  ASSUME HubInv, ExitInv, NEW c \in Conns, Refreshes(c)
  PROVE ExitInv'
<1>1. /\ UNCHANGED <<main, listening, redisOpen, snapshot>>
      /\ UNCHANGED <<hubPhase, hubConn, closing, sweepPc, todo>>
  BY DEF Refreshes, FrameRead, ReadFrame, RefreshReads, RefreshWrites, vars, connVars, sweepVars
<1>2. \A d : NotHandedOver(d)' <=> NotHandedOver(d)
  BY <1>1 DEF NotHandedOver
<1>3. refresh' \in [Conns -> {"none", "asked", "read"}]
  BY DEF Refreshes, FrameRead, RefreshReads, RefreshWrites, ExitInv
<1>4. CASE UNCHANGED <<routed, revived>>
  BY <1>1, <1>2, <1>3, <1>4 DEF ExitInv
<1>5. CASE RefreshWrites(c)
  <2>1. /\ redisOpen /\ routed' = routed \cup {c} /\ revived' = revived \cup ({c} \ routed)
    BY <1>5 DEF RefreshWrites
  <2>2. routed' \ revived' \subseteq routed \ revived
    BY <2>1
  <2>3. routed' \subseteq Conns /\ revived' \subseteq Conns
    BY <2>1 DEF ExitInv
  <2> QED BY <1>1, <1>2, <1>3, <2>1, <2>2, <2>3 DEF ExitInv
<1> QED BY <1>4, <1>5 DEF Refreshes, FrameRead, RefreshReads

\* The heartbeat closes connections as Stop does, and leaves Stop alone.
LEMMA ExitBeat == ASSUME HubInv, ExitInv, Within(Beats) PROVE ExitInv'
<1>1. "stop" \in Sweepers /\ "beat" \in Sweepers
  BY StopAssumption DEF Within, Beats
<1>2. ExitKept /\ UNCHANGED <<hubPhase, hubConn>>
  BY DEF ExitKept, Within, Beats, SweepNext, TakeRLock, Snapshot, CallClose, CloseReturned,
         BeatRests, BeatExits, gatewayVars, shutdownVars
<1>3. sweepPc'["stop"] = sweepPc["stop"] /\ todo'["stop"] = todo["stop"]
  BY <1>1 DEF Within, Beats, SweepNext, TakeRLock, Snapshot, CallClose, CloseReturned,
         BeatRests, BeatExits, HubInv, TypeOK
<1>4. UNCHANGED closing \/ \E c \in Conns : EnterClose(c)
  BY DEF Within, Beats, SweepNext, TakeRLock, Snapshot, CallClose, CloseReturned,
         BeatRests, BeatExits, connVars
<1>5. \A d \in Conns : /\ closing[d] = "done" => closing'[d] = "done"
                       /\ NotHandedOver(d)' <=> NotHandedOver(d)
  BY <1>4 DEF EnterClose, NotHandedOver, HubInv, TypeOK
<1>6. hubPhase = "publish" => hubConn \in Conns
  BY DEF HubInv, HubWork, TypeOK
<1> QED BY <1>2, <1>3, <1>5, <1>6 DEF ExitInv, ExitKept

\* The invariant of the shutdown holds in every reachable state.
LEMMA ExitInvariance == GSpec => []ExitInv
<1>1. HubInv /\ ExitInv /\ [GNext]_gvars => ExitInv'
  <2> SUFFICES ASSUME HubInv, ExitInv, [GNext]_gvars PROVE ExitInv'
    OBVIOUS
  <2>1. CASE UNCHANGED gvars
    <3>1. ExitKept /\ UNCHANGED <<hubPhase, hubConn, closing, sweepPc, todo>>
      BY <2>1 DEF ExitKept, gvars, gatewayVars, shutdownVars, vars, connVars, sweepVars
    <3> QED BY <3>1 DEF ExitInv, ExitKept, NotHandedOver
  <2>2. CASE HubMoves \/ HubLocks
    BY <2>2, ExitRedis, ExitHub DEF HubMoves, HubLocks
  <2>3. CASE StopMoves
    BY <2>3, ExitSnapshot, ExitStop DEF StopMoves
  <2> QED BY <2>1, <2>2, <2>3, ExitMain, ExitConn, ExitRefresh, ExitBeat DEF GNext
<1> QED BY <1>1, ExitInit, HubInvInGateway, PTL DEF GSpec

\* A gateway that exits in order leaves one route of the connections Hub.Stop found
\* in Redis at most, however many there were and whoever else closes them, apart from
\* those a refresh wrote when they had been removed.
THEOREM OneLeftoverAtMost == GSpec => []AtMostOneLeftover
<1>1. ExitInv => AtMostOneLeftover
  BY DEF ExitInv, AtMostOneLeftover
<1> QED BY <1>1, ExitInvariance, PTL

------------------------------------------------------------------------------
(* What Hub.Stop has done when it returns, and what it leaves in the maps. *)

\* stopChan is closed by the return of Hub.Stop, and it is what ends Hub.Run.
StopComesFirst == /\ stopChan => sweepPc["stop"] = "exited"
                  /\ hubPhase = "exited" => stopChan

LEMMA StopComesFirstInvariance == GSpec => []StopComesFirst
<1>1. "stop" \in Sweepers
  BY StopAssumption
<1>2. Init => StopComesFirst
  BY DEF Init, StopComesFirst
<1>3. TypeOK /\ StopComesFirst /\ [Next]_vars => StopComesFirst'
  <2> SUFFICES ASSUME TypeOK, StopComesFirst, [Next]_vars PROVE StopComesFirst'
    OBVIOUS
  <2>1. ASSUME UNCHANGED <<stopChan, sweepPc>>, hubPhase' = "exited" => hubPhase = "exited"
        PROVE StopComesFirst'
    BY <2>1 DEF StopComesFirst
  <2>2. ASSUME NEW c \in Conns, HubAcceptRegister(c) \/ HubAcceptUnregister(c)
        PROVE StopComesFirst'
    BY <2>1, <2>2 DEF HubAcceptRegister, HubAcceptUnregister, sweepVars
  <2>3. CASE HubAdd \/ HubPublished \/ HubRemove \/ HubRetracted
    BY <2>1, <2>3 DEF HubAdd, HubPublished, HubRemove, HubRetracted, sweepVars
  <2>4. CASE HubExit
    BY <2>4 DEF HubExit, sweepVars, StopComesFirst
  <2>5. ASSUME NEW c \in Conns, ConnNext(c) PROVE StopComesFirst'
    BY <2>1, <2>5 DEF ConnNext, Authenticate, Reject, StartPumps, ReadFrame, ReadFails,
         WriteFails, SendDrained, WriterCloses, CloseSocket, FallsSilent, ClientLeaves,
         ClientChanges, sweepVars
  <2>6. ASSUME NEW s \in Sweepers, TakeRLock(s) \/ Snapshot(s) PROVE StopComesFirst'
    <3>1. UNCHANGED <<stopChan, hubPhase>> /\ sweepPc[s] \in {"idle", "locked"}
      BY <2>6 DEF TakeRLock, Snapshot
    <3>2. \A t \in Sweepers \ {s} : sweepPc'[t] = sweepPc[t]
      BY <2>6 DEF TakeRLock, Snapshot, TypeOK
    <3> QED BY <1>1, <3>1, <3>2 DEF StopComesFirst
  <2>7. ASSUME NEW s \in Sweepers, CloseReturned(s) \/ \E c \in Conns : CallClose(s, c)
        PROVE StopComesFirst'
    BY <2>1, <2>7 DEF CloseReturned, CallClose
  <2>8. CASE BeatRests \/ BeatExits
    BY <1>1, <2>8 DEF BeatRests, BeatExits, StopComesFirst, TypeOK
  <2>9. CASE CloseStopChan
    BY <1>1, <2>9 DEF CloseStopChan, StopComesFirst, TypeOK
  <2>10. CASE UNCHANGED vars
    BY <2>1, <2>10 DEF vars, sweepVars
  <2> QED BY <1>1, <2>2, <2>3, <2>4, <2>5, <2>6, <2>7, <2>8, <2>9, <2>10 DEF Next, HubNext, SweepNext
<1> QED BY <1>2, <1>3, GatewayRunsTheHub, TypeCorrect, PTL DEF Spec

\* When Hub.Stop has returned, the socket of every connection it found is closed,
\* whoever closed it.
StopHasClosedAll ==
  main \in AfterHub => \A c \in snapshot : closing[c] = "done"

\* Hub.Stop returns only when each connection of its snapshot is closed, whoever else
\* closes it and whatever registers meanwhile: start.Start may go on to close Redis.
THEOREM StopClosesAllItFound == GSpec => []StopHasClosedAll
<1>1. ExitInv => StopHasClosedAll
  BY DEF ExitInv, StopHasClosedAll
<1> QED BY <1>1, ExitInvariance, PTL

\* What is in the maps when Hub.Run has ended came after the snapshot of Hub.Stop.
LeftBehindCameLate == hubPhase = "exited" => connections \cap snapshot = {}

\* Hub.Run ends only after it has removed every connection Hub.Stop found: whoever is
\* stuck in Close for ever (see DisconnectedIsCleaned) registered after the snapshot.
THEOREM HubRemovesAllStopFound == GSpec => []LeftBehindCameLate
<1>1. HubInv /\ ExitInv /\ StopComesFirst => LeftBehindCameLate
  BY DEF HubInv, NoZombieEntry, ExitInv, StopComesFirst, LeftBehindCameLate
<1> QED BY <1>1, HubInvInGateway, ExitInvariance, StopComesFirstInvariance, PTL

------------------------------------------------------------------------------
(* The configuration.                                                      *)

Sources == {"none", "file", "environment"}
HostNames == Hosts \cup {"", "0.0.0.0"}
PortNames == Ports \cup {"", "8080"}
Configs == [source : Sources, host : HostNames, port : PortNames,
            heartbeatInterval : Int, connectionTimeout : Int]

TimesFit == times.ttl > PingPeriod /\ times.ttl >= times.timeout + times.beat

\* A configuration read from a file has a port when the context computes the
\* address, and the Hub's defaults do not change it afterwards.
SettingsInv ==
  /\ config \in Configs
  /\ main \in {"context", "hub"} /\ config.source = "file" => config.port # ""
  /\ main = "hub" /\ config.source = "file" => AdvertisesListener
  /\ main = "built" => TimesFit
  /\ FileAdvertisesListener

\* A record of fields of the right types is a configuration.
LEMMA ConfigRecord ==
  ASSUME NEW s \in Sources, NEW h \in HostNames, NEW p \in PortNames,
         NEW b \in Int, NEW t \in Int
  PROVE [source |-> s, host |-> h, port |-> p,
         heartbeatInterval |-> b, connectionTimeout |-> t] \in Configs
BY DEF Configs

\* The default of the host is a host.
LEMMA HostDefault == \A v \in HostNames : OrDefault(v, "0.0.0.0") \in HostNames
BY DEF HostNames, OrDefault

\* The default of the port replaces the empty one and no other.
LEMMA PortDefault ==
  ASSUME NEW v \in PortNames
  PROVE /\ OrDefault(v, "8080") \in PortNames
        /\ OrDefault(v, "8080") # ""
        /\ v # "" => OrDefault(v, "8080") = v
BY DEF PortNames, OrDefault

\* The default of a duration is one.
LEMMA SecondsDefault == \A n \in Int, d \in {30, 90} : OrSeconds(n, d) \in Int
BY DEF OrSeconds

\* What Load gives is a configuration, and a file leaves no port empty.
LEMMA LoadGivesConfig ==
  ASSUME NEW env \in BOOLEAN, NEW f \in Files
  PROVE /\ Load(env, f) \in Configs
        /\ Load(env, f).source = "file" => Load(env, f).port # ""
<1>1. CASE env
  <2> DEFINE blank == ""
  <2>1. Load(env, f) = [source |-> "environment", host |-> blank, port |-> blank,
                        heartbeatInterval |-> 0, connectionTimeout |-> 0]
    BY <1>1 DEF Load, NoConfig
  <2>2. "environment" \in Sources /\ blank \in HostNames /\ blank \in PortNames
    BY DEF Sources, HostNames, PortNames
  <2> HIDE DEF blank
  <2>3. Load(env, f).source # "file"
    BY <2>1
  <2>4. Load(env, f) \in Configs
    BY <2>1, <2>2, ConfigRecord
  <2> QED BY <2>3, <2>4
<1>2. CASE ~ env
  <2> DEFINE h == OrDefault(f.host, "0.0.0.0")
             p == OrDefault(f.port, "8080")
             b == OrSeconds(f.heartbeatInterval, 30)
             t == OrSeconds(f.connectionTimeout, 90)
  <2>1. /\ f.host \in HostNames /\ f.port \in PortNames
        /\ f.heartbeatInterval \in Int /\ f.connectionTimeout \in Int
    BY DurationsAssumption DEF Files, HostNames, PortNames
  <2>2. h \in HostNames /\ p \in PortNames /\ p # "" /\ b \in Int /\ t \in Int
    BY <2>1, HostDefault, PortDefault, SecondsDefault
  <2>3. Load(env, f) = [source |-> "file", host |-> h, port |-> p,
                        heartbeatInterval |-> b, connectionTimeout |-> t]
    BY <1>2 DEF Load, setFrontierDefaults
  <2>4. "file" \in Sources
    BY DEF Sources
  <2> HIDE DEF h, p, b, t
  <2>5. Load(env, f) \in Configs
    BY <2>2, <2>3, <2>4, ConfigRecord
  <2>6. Load(env, f).port = p
    BY <2>3
  <2> QED BY <2>2, <2>5, <2>6
<1> QED BY <1>1, <1>2

\* Validation keeps a configuration one, its host, and a port that is there.
LEMMA ValidateGivesConfig ==
  ASSUME NEW c \in Configs
  PROVE /\ Validate(c) \in Configs
        /\ Validate(c).source = c.source
        /\ Validate(c).host = c.host
        /\ c.port # "" => Validate(c).port = c.port
<1> DEFINE p == OrDefault(c.port, "8080")
           b == OrSeconds(c.heartbeatInterval, 30)
           t == OrSeconds(c.connectionTimeout, 90)
<1>1. /\ c.source \in Sources /\ c.host \in HostNames /\ c.port \in PortNames
      /\ c.heartbeatInterval \in Int /\ c.connectionTimeout \in Int
  BY DEF Configs
<1>2. /\ p \in PortNames /\ b \in Int /\ t \in Int
      /\ c.port # "" => p = c.port
  BY <1>1, PortDefault, SecondsDefault
<1>3. Validate(c) = [c EXCEPT !.port = p, !.heartbeatInterval = b, !.connectionTimeout = t]
  BY DEF Validate
<1> HIDE DEF p, b, t
<1>4. Validate(c) = [source |-> c.source, host |-> c.host, port |-> p,
                     heartbeatInterval |-> b, connectionTimeout |-> t]
  BY <1>3 DEF Configs
<1>5. Validate(c) \in Configs
  BY <1>1, <1>2, <1>4, ConfigRecord
<1>6. Validate(c).source = c.source /\ Validate(c).host = c.host /\ Validate(c).port = p
  BY <1>4
<1> QED BY <1>2, <1>5, <1>6

\* The times NewHub computes fit one another, whatever it is given.
LEMMA HubTimesFit ==
  ASSUME NEW c \in Configs
  PROVE /\ RouteTTL(c) > PingPeriod
        /\ RouteTTL(c) >= ConnectionTimeout(c) + HeartbeatInterval(c)
<1>1. ConnectionTimeout(c) \in Int /\ HeartbeatInterval(c) \in Int
  <2>1. Validate(c).heartbeatInterval \in Int /\ Validate(c).connectionTimeout \in Int
    BY ValidateGivesConfig DEF Configs
  <2> QED BY <2>1 DEF ConnectionTimeout, HeartbeatInterval, Positive
<1>2. PingPeriod = 54
  BY DEF PingPeriod, PongWait
<1> QED BY <1>1, <1>2 DEF RouteTTL

\* No configuration is one, too.
LEMMA NoConfigIsConfig == NoConfig \in Configs /\ NoConfig.source = "none"
<1> DEFINE blank == ""
<1>1. "none" \in Sources /\ blank \in HostNames /\ blank \in PortNames
  BY DEF Sources, HostNames, PortNames
<1>2. NoConfig = [source |-> "none", host |-> blank, port |-> blank,
                  heartbeatInterval |-> 0, connectionTimeout |-> 0]
  BY DEF NoConfig
<1>3. NoConfig \in Configs
  <2> HIDE DEF blank
  <2> QED BY <1>1, <1>2, ConfigRecord
<1>4. NoConfig.source = "none"
  BY DEF NoConfig
<1> QED BY <1>3, <1>4

\* The address made for a port keeps it, is not the wildcard, and is that of an
\* interface others can dial when the server listens on all of them and there is one.
LEMMA LocalAddressDialable ==
  ASSUME NEW S \in SUBSET Interfaces, NEW ip \in getLocalIP(S)
  PROVE LET a == LocalAddress(ip) IN
        /\ a.port = config.port /\ a.host \notin Wildcards
        /\ config.host \in Wildcards /\ ~ (S \subseteq Loopbacks) => a.host \in S \ Loopbacks
<1>1. ip \notin Wildcards /\ (~ (S \subseteq Loopbacks) => ip \in S \ Loopbacks)
  BY InterfacesAssumption DEF getLocalIP, Wildcards
<1>2. /\ LocalAddress(ip).port = config.port
      /\ LocalAddress(ip).host = IF config.host \in Wildcards THEN ip ELSE config.host
  BY DEF LocalAddress
<1> QED BY <1>1, <1>2

\* A step of start.Start on its way to serving, or of the process that serves.
LEMMA SettingsStep == ASSUME SettingsInv, [GNext]_gvars PROVE SettingsInv'
<1>1. CASE main = "load" /\ main' = "context" /\ LoadConfig
  <2>1. PICK env \in BOOLEAN, f \in Files : config' = Load(env, f)
    BY <1>1 DEF LoadConfig
  <2> QED BY <1>1, <2>1, LoadGivesConfig DEF SettingsInv, FileAdvertisesListener
<1>2. CASE main = "context" /\ main' = "hub" /\ InitContext
  <2>1. /\ UNCHANGED <<config, times>> /\ interfaces' \subseteq Interfaces
        /\ \E ip \in getLocalIP(interfaces') : address' = LocalAddress(ip)
    BY <1>2 DEF InitContext
  <2>2. PICK ip \in getLocalIP(interfaces') : address' = LocalAddress(ip)
    BY <2>1
  <2>3. config.port # "" => AdvertisesListener'
    BY <2>1, <2>2, LocalAddressDialable DEF AdvertisesListener
  <2> QED BY <1>2, <2>1, <2>3 DEF SettingsInv, FileAdvertisesListener
<1>3. CASE main = "hub" /\ main' = "built" /\ MakeHub
  <2>1. config' = Validate(config) /\ UNCHANGED <<interfaces, address>>
    BY <1>3 DEF MakeHub
  <2>2. times' = [beat |-> HeartbeatInterval(config), timeout |-> ConnectionTimeout(config),
                  ttl |-> RouteTTL(config)]
    BY <1>3 DEF MakeHub
  <2>3. TimesFit'
    BY <2>2, HubTimesFit DEF SettingsInv, TimesFit
  <2>4. /\ config' \in Configs /\ config'.source = config.source /\ config'.host = config.host
        /\ config.port # "" => config'.port = config.port
    BY <2>1, ValidateGivesConfig DEF SettingsInv
  <2>5. config.source = "file" => config.port # "" /\ AdvertisesListener
    BY <1>3 DEF SettingsInv
  <2>6. config'.source = "file" => AdvertisesListener'
    BY <2>1, <2>4, <2>5 DEF AdvertisesListener
  <2> QED BY <1>3, <2>3, <2>4, <2>6 DEF SettingsInv, FileAdvertisesListener
<1>4. CASE main = "built" /\ main' = "serving" /\ Forget
  BY <1>4, NoConfigIsConfig DEF Forget, SettingsInv, FileAdvertisesListener
<1>5. CASE UNCHANGED settingsVars /\ (main' \in {"context", "hub", "built"} => main' = main)
  BY <1>5 DEF settingsVars, SettingsInv, FileAdvertisesListener, AdvertisesListener, TimesFit
<1>6. CASE Starts
  BY <1>1, <1>2, <1>3, <1>4, <1>6 DEF Starts, MainGoes
<1>7. CASE ~ Starts
  <2>1. UNCHANGED settingsVars
    BY <1>7 DEF GNext, Listen, Signal, MainStops, HubStopped, ServersStop, CloseContext, Exit,
                HubMoves, HubLocks, StopMoves, Published, Retracted, StopSnapshot, Refreshes,
                FrameRead, RefreshReads, RefreshWrites, Within, gatewayVars, gvars
  <2>2. main' \in {"context", "hub", "built"} => main' = main
    BY <1>7 DEF GNext, Listen, Signal, MainStops, HubStopped, ServersStop, CloseContext, Exit,
                MainGoes, HubMoves, HubLocks, StopMoves, Published, Retracted, StopSnapshot,
                Refreshes, FrameRead, RefreshReads, RefreshWrites, Within, gatewayVars, gvars
  <2> QED BY <1>5, <2>1, <2>2
<1> QED BY <1>6, <1>7

LEMMA SettingsInvariance == GSpec => []SettingsInv
<1>1. GInit => SettingsInv
  BY NoConfigIsConfig DEF GInit, SettingsInit, SettingsInv, FileAdvertisesListener
<1> QED BY <1>1, SettingsStep, PTL DEF GSpec

\* NewHub's TTL of a route outlasts the pings and the longest silence the heartbeat
\* tolerates, for every configuration, negative durations and none included.
THEOREM TtlAlwaysCovers == GSpec => []TtlCoversSilence
<1>1. SettingsInv => TtlCoversSilence
  BY DEF SettingsInv, TimesFit, TtlCoversSilence
<1> QED BY <1>1, SettingsInvariance, PTL

\* A gateway configured by a file advertises the port it listens on, never at the
\* wildcard; and one that listens on all interfaces at one that others can dial, for
\* every file and whatever interfaces the machine has, if it has such a one.
THEOREM AdvertisesItsListener == GSpec => []FileAdvertisesListener
<1>1. SettingsInv => FileAdvertisesListener
  BY DEF SettingsInv
<1> QED BY <1>1, SettingsInvariance, PTL

\* Every variable of the process, its Hub and its settings keeps its type.
THEOREM GatewayTypeCorrect == GSpec => []GatewayTypeOK
<1>1. HubInv /\ ExitInv /\ SettingsInv => GatewayTypeOK
  BY DEF HubInv, ExitInv, SettingsInv, Configs, Early, GatewayTypeOK
<1> QED BY <1>1, HubInvInGateway, ExitInvariance, SettingsInvariance, PTL
===============================================================================
