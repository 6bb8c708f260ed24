---------------------------- MODULE HubLifecycle -----------------------------
(***************************************************************************)
(* The life of the WebSocket connections of one gateway: the HTTP handler  *)
(* that registers a connection and starts its two pumps, the read and      *)
(* write pumps, Connection.Close guarded by sync.Once, the Hub.Run loop    *)
(* behind the unbuffered channels Register and Unregister, the heartbeat   *)
(* sweep, and Hub.Stop (frontier/hub.go, connection.go, handler_ws.go).    *)
(*                                                                         *)
(* Every goroutine has a program counter.  A send on an unbuffered channel *)
(* is a rendezvous: one action of the sender and of Hub.Run together.      *)
(***************************************************************************)
EXTENDS Integers, FiniteSets

CONSTANTS Conns,    \* connection objects; NewConnection draws a fresh uuid
          Users,    \* user ids the token binder can return (never empty)
          UserOf,   \* UserID, fixed at NewConnection
          Sweepers, \* which of "beat" and "stop" run: both, in the program
          NoConn    \* "no connection": what an idle goroutine works on

ASSUME ConnsAssumption == IsFiniteSet(Conns) /\ NoConn \notin Conns
ASSUME UserOfAssumption == UserOf \in [Conns -> Users]
ASSUME SweepersAssumption == Sweepers \subseteq {"beat", "stop"}

VARIABLES
  handler,          \* ServeHTTP goroutine of each connection
  reader, writer,   \* ReadPump and WritePump
  client,           \* "silent": lastActive older than connectionTimeout;
                    \* "lost": no frame will come (peer gone, or silent past pongWait)
  closing,          \* progress of the body of closeOnce
  hubPhase, hubConn,   \* Hub.Run: what it does, and for which connection
  sweepPc, todo, at,   \* sweepers: control, snapshot left, connection in Close
  stopChan,         \* stopChan is closed
  connections, userConnections, active, total

connVars  == <<handler, reader, writer, client, closing>>
sweepVars == <<sweepPc, todo, at, stopChan>>
mapVars   == <<connections, userConnections, active, total>>
vars == <<connVars, hubPhase, hubConn, sweepVars, mapVars>>

TypeOK ==
  /\ handler \in [Conns -> {"arriving", "rejected", "register", "welcome", "done"}]
  /\ reader \in [Conns -> {"none", "running", "closing"}]
  /\ writer \in [Conns -> {"none", "running", "closing"}]
  /\ client \in [Conns -> {"active", "silent", "lost"}]
  /\ closing \in [Conns -> {"open", "sendClosed", "unregistered", "done"}]
  /\ hubPhase \in {"select", "register", "publish", "unregister", "retract", "exited"}
  /\ hubConn \in Conns \cup {NoConn}
  /\ sweepPc \in [Sweepers -> {"idle", "locked", "closing", "exited"}]
  /\ todo \in [Sweepers -> SUBSET Conns]
  /\ at \in [Sweepers -> Conns \cup {NoConn}]
  /\ stopChan \in BOOLEAN
  /\ connections \subseteq Conns
  /\ DOMAIN userConnections \subseteq Users
  /\ \A u \in DOMAIN userConnections : userConnections[u] \subseteq Conns
  /\ active \in Nat
  /\ total \in Nat

Init ==
  /\ handler = [c \in Conns |-> "arriving"]
  /\ reader = [c \in Conns |-> "none"]
  /\ writer = [c \in Conns |-> "none"]
  /\ client = [c \in Conns |-> "active"]
  /\ closing = [c \in Conns |-> "open"]
  /\ hubPhase = "select" /\ hubConn = NoConn
  /\ sweepPc = [s \in Sweepers |-> "idle"]
  /\ todo = [s \in Sweepers |-> {}]
  /\ at = [s \in Sweepers |-> NoConn]
  /\ stopChan = FALSE
  /\ connections = {}
  /\ userConnections = [u \in {} |-> {}]
  /\ active = 0 /\ total = 0

------------------------------------------------------------------------------
(* Connection.Close.  The first caller runs the body of closeOnce, every   *)
(* other caller waits in Do until that body has returned ("done").         *)

\* Mutant: Close without closeOnce.
EnterCloseWithoutOnce(c) == closing' = [closing EXCEPT ![c] = "sendClosed"]

\* Entering Close: closed = true and close(Send) under sendMu, once.
EnterClose(c) ==
  closing' = IF closing[c] = "open" THEN [closing EXCEPT ![c] = "sendClosed"] ELSE closing

\* c.Conn.Close(), after the Hub has received c from Unregister.
CloseSocket(c) ==
  /\ closing[c] = "unregistered"
  /\ closing' = [closing EXCEPT ![c] = "done"]
  /\ UNCHANGED <<handler, reader, writer, client, hubPhase, hubConn, sweepVars, mapVars>>

------------------------------------------------------------------------------
(* The HTTP handler: upgrade and authenticate, Register, welcome, pumps.   *)

\* authenticateAndBuildSession succeeded; the handler blocks on Hub.Register.
Authenticate(c) ==
  /\ handler[c] = "arriving"
  /\ handler' = [handler EXCEPT ![c] = "register"]
  /\ UNCHANGED <<reader, writer, client, closing, hubPhase, hubConn, sweepVars, mapVars>>

\* The token is refused: the socket is closed and the Hub never hears of it.
Reject(c) ==
  /\ handler[c] = "arriving"
  /\ handler' = [handler EXCEPT ![c] = "rejected"]
  /\ UNCHANGED <<reader, writer, client, closing, hubPhase, hubConn, sweepVars, mapVars>>

\* Mutant: the pumps are started without waiting for the registration.
StartPumpsEarly(c) ==
  /\ handler[c] \in {"register", "welcome"} /\ reader[c] = "none"
  /\ handler' = [handler EXCEPT ![c] = IF @ = "welcome" THEN "done" ELSE @]
  /\ reader' = [reader EXCEPT ![c] = "running"]
  /\ writer' = [writer EXCEPT ![c] = "running"]
  /\ UNCHANGED <<client, closing, hubPhase, hubConn, sweepVars, mapVars>>

\* sendWelcome (to the mailbox, see SendQueue) and then both pumps.
StartPumps(c) ==
  /\ handler[c] = "welcome"
  /\ handler' = [handler EXCEPT ![c] = "done"]
  /\ reader' = [reader EXCEPT ![c] = "running"]
  /\ writer' = [writer EXCEPT ![c] = "running"]
  /\ UNCHANGED <<client, closing, hubPhase, hubConn, sweepVars, mapVars>>

------------------------------------------------------------------------------
(* Hub.Run.  registerConnection holds h.mu from HubAdd to HubPublished,    *)
(* the Redis call included; unregisterConnection releases it before Redis. *)

HubAcceptRegister(c) ==
  /\ hubPhase = "select" /\ handler[c] = "register"
  /\ hubPhase' = "register" /\ hubConn' = c
  /\ handler' = [handler EXCEPT ![c] = "welcome"]
  /\ UNCHANGED <<reader, writer, client, closing, sweepVars, mapVars>>

\* The user map of the Hub with c added, a first connection making the entry.
IndexAdd(uc, c) ==
  [u \in DOMAIN uc \cup {UserOf[c]} |->
     (IF u \in DOMAIN uc THEN uc[u] ELSE {}) \cup (IF u = UserOf[c] THEN {c} ELSE {})]

\* Mutant: the user's entry goes with the first of its connections.
IndexRemoveUser(uc, c) == [u \in DOMAIN uc \ {UserOf[c]} |-> uc[u]]

\* The user map with c deleted, and the user's entry when it was the last one.
IndexRemove(uc, c) ==
  [u \in {v \in DOMAIN uc : uc[v] \ {c} # {} \/ v # UserOf[c]} |-> uc[u] \ {c}]

\* Mutant: the lock is kept while the connections of the snapshot are closed.
ReadLockedWhileClosing == \E s \in Sweepers : sweepPc[s] \in {"locked", "closing"}

\* A sweeper holds h.mu.RLock while it takes its snapshot, and only then.
ReadLocked == \E s \in Sweepers : sweepPc[s] = "locked"

\* Mutant: the counter of active connections moves the wrong way.
HubAddMiscounts ==
  /\ hubPhase = "register" /\ ~ ReadLocked
  /\ hubPhase' = "publish"
  /\ connections' = connections \cup {hubConn}
  /\ userConnections' = IndexAdd(userConnections, hubConn)
  /\ active' = active - 1 /\ total' = total + 1
  /\ UNCHANGED <<connVars, hubConn, sweepVars>>

HubAdd ==
  /\ hubPhase = "register" /\ ~ ReadLocked
  /\ hubPhase' = "publish"
  /\ connections' = connections \cup {hubConn}
  /\ userConnections' = IndexAdd(userConnections, hubConn)
  /\ active' = active + 1 /\ total' = total + 1
  /\ UNCHANGED <<connVars, hubConn, sweepVars>>

\* registerPresence returned (its error is only logged) and h.mu is released.
HubPublished ==
  /\ hubPhase = "publish"
  /\ hubPhase' = "select" /\ hubConn' = NoConn
  /\ UNCHANGED <<connVars, sweepVars, mapVars>>

\* Mutant: the heartbeat runs in the select of Hub.Run itself, which then cannot
\* receive the Unregister of a connection the heartbeat is closing.
HubAcceptUnregisterUnlessSweeping(c) ==
  /\ hubPhase = "select" /\ closing[c] = "sendClosed"
  /\ \A s \in Sweepers : sweepPc[s] # "closing"
  /\ hubPhase' = "unregister" /\ hubConn' = c
  /\ closing' = [closing EXCEPT ![c] = "unregistered"]
  /\ UNCHANGED <<handler, reader, writer, client, sweepVars, mapVars>>

HubAcceptUnregister(c) ==
  /\ hubPhase = "select" /\ closing[c] = "sendClosed"
  /\ hubPhase' = "unregister" /\ hubConn' = c
  /\ closing' = [closing EXCEPT ![c] = "unregistered"]
  /\ UNCHANGED <<handler, reader, writer, client, sweepVars, mapVars>>

\* Mutant: only the user index is cleaned.
HubRemoveKeepsEntry ==
  /\ hubPhase = "unregister" /\ ~ ReadLocked
  /\ hubPhase' = "retract" /\ hubConn' = hubConn
  /\ userConnections' = IndexRemove(userConnections, hubConn)
  /\ active' = IF active > 0 THEN active - 1 ELSE active
  /\ UNCHANGED <<connVars, sweepVars, connections, total>>

HubRemove ==
  /\ hubPhase = "unregister" /\ ~ ReadLocked
  /\ IF hubConn \in connections
     THEN /\ hubPhase' = "retract" /\ hubConn' = hubConn
          /\ connections' = connections \ {hubConn}
          /\ userConnections' = IndexRemove(userConnections, hubConn)
          /\ active' = IF active > 0 THEN active - 1 ELSE active
     ELSE /\ hubPhase' = "select" /\ hubConn' = NoConn
          /\ UNCHANGED <<connections, userConnections, active>>
  /\ UNCHANGED <<connVars, sweepVars, total>>

\* unregisterPresence returned (its error is only logged).
HubRetracted ==
  /\ hubPhase = "retract"
  /\ hubPhase' = "select" /\ hubConn' = NoConn
  /\ UNCHANGED <<connVars, sweepVars, mapVars>>

HubExit ==
  /\ hubPhase = "select" /\ stopChan
  /\ hubPhase' = "exited"
  /\ UNCHANGED <<connVars, hubConn, sweepVars, mapVars>>

------------------------------------------------------------------------------
(* The pumps.                                                              *)

\* A data, ping or pong frame: UpdateLastActive.
ReadFrame(c) ==
  /\ reader[c] = "running" /\ client[c] # "lost" /\ closing[c] # "done"
  /\ client' = [client EXCEPT ![c] = "active"]
  /\ UNCHANGED <<handler, reader, writer, closing, hubPhase, hubConn, sweepVars, mapVars>>

\* Mutant: the deferred Close of the read pump is missing.
ReadFailsWithoutClose(c) ==
  /\ reader[c] = "running"
  /\ client[c] = "lost" \/ closing[c] = "done"
  /\ reader' = [reader EXCEPT ![c] = "closing"]
  /\ UNCHANGED <<handler, writer, client, closing, hubPhase, hubConn, sweepVars, mapVars>>

\* ReadMessage fails (peer gone, read deadline, socket closed): deferred Close.
ReadFails(c) ==
  /\ reader[c] = "running"
  /\ client[c] = "lost" \/ closing[c] = "done"
  /\ reader' = [reader EXCEPT ![c] = "closing"]
  /\ EnterClose(c)
  /\ UNCHANGED <<handler, writer, client, hubPhase, hubConn, sweepVars, mapVars>>

\* The WritePump leaves its loop and runs its deferred Close.
WriterCloses(c) ==
  /\ writer[c] = "running"
  /\ writer' = [writer EXCEPT ![c] = "closing"]
  /\ EnterClose(c)
  /\ UNCHANGED <<handler, reader, client, hubPhase, hubConn, sweepVars, mapVars>>

\* A write or a ping fails: the peer is gone, or too slow for writeWait.
WriteFails(c) == WriterCloses(c)

\* Send is closed and drained: the pump reads !ok.
SendDrained(c) == closing[c] # "open" /\ WriterCloses(c)

------------------------------------------------------------------------------
(* checkHeartbeat ("beat") and Hub.Stop ("stop"): both take a snapshot     *)
(* under h.mu.RLock, release it, and close the connections one by one.     *)

\* The tick of the heartbeat, or the call of Stop.  A write-locked mu blocks it.
TakeRLock(s) ==
  /\ sweepPc[s] = "idle" /\ hubPhase # "publish"
  /\ sweepPc' = [sweepPc EXCEPT ![s] = "locked"]
  /\ UNCHANGED <<connVars, hubPhase, hubConn, todo, at, stopChan, mapVars>>

\* Mutant: the heartbeat tests IsAlive the wrong way round.
SelectionsInverted(s) ==
  IF s = "stop" THEN {connections} ELSE {{c \in connections : client[c] = "active"}}

\* What the snapshot keeps.  Stop: every connection.  The heartbeat: those that
\* IsAlive rejects, which a lost one becomes with time.
Selections(s) ==
  IF s = "stop" THEN {connections}
  ELSE {S \in SUBSET connections :
          \A c \in connections : /\ client[c] = "active" => c \notin S
                                 /\ client[c] = "silent" => c \in S}

Snapshot(s) ==
  /\ sweepPc[s] = "locked"
  /\ \E S \in Selections(s) : todo' = [todo EXCEPT ![s] = S]
  /\ sweepPc' = [sweepPc EXCEPT ![s] = "closing"]
  /\ UNCHANGED <<connVars, hubPhase, hubConn, at, stopChan, mapVars>>

CallClose(s, c) ==
  /\ sweepPc[s] = "closing" /\ at[s] = NoConn /\ c \in todo[s]
  /\ at' = [at EXCEPT ![s] = c]
  /\ EnterClose(c)
  /\ UNCHANGED <<handler, reader, writer, client, hubPhase, hubConn,
                 sweepPc, todo, stopChan, mapVars>>

CloseReturned(s) ==
  /\ at[s] # NoConn /\ closing[at[s]] = "done"
  /\ todo' = [todo EXCEPT ![s] = @ \ {at[s]}]
  /\ at' = [at EXCEPT ![s] = NoConn]
  /\ UNCHANGED <<connVars, hubPhase, hubConn, sweepPc, stopChan, mapVars>>

BeatRests ==
  /\ "beat" \in Sweepers /\ sweepPc["beat"] = "closing" /\ todo["beat"] = {}
  /\ sweepPc' = [sweepPc EXCEPT !["beat"] = "idle"]
  /\ UNCHANGED <<connVars, hubPhase, hubConn, todo, at, stopChan, mapVars>>

BeatExits ==
  /\ "beat" \in Sweepers /\ sweepPc["beat"] = "idle" /\ stopChan
  /\ sweepPc' = [sweepPc EXCEPT !["beat"] = "exited"]
  /\ UNCHANGED <<connVars, hubPhase, hubConn, todo, at, stopChan, mapVars>>

\* Mutant: stopChan is closed before the snapshot's connections are.
CloseStopChanFirst ==
  /\ "stop" \in Sweepers /\ sweepPc["stop"] = "closing" /\ ~ stopChan
  /\ stopChan' = TRUE
  /\ UNCHANGED <<connVars, hubPhase, hubConn, sweepPc, todo, at, mapVars>>

CloseStopChan ==
  /\ "stop" \in Sweepers /\ sweepPc["stop"] = "closing" /\ todo["stop"] = {}
  /\ sweepPc' = [sweepPc EXCEPT !["stop"] = "exited"]
  /\ stopChan' = TRUE
  /\ UNCHANGED <<connVars, hubPhase, hubConn, todo, at, mapVars>>

------------------------------------------------------------------------------
(* The environment: clients leave or fall silent, time passes.             *)

\* Once the socket is closed the client makes no difference any more.
ClientChanges(c, from, to) ==
  /\ handler[c] \in {"welcome", "done"} /\ closing[c] # "done"
  /\ client[c] \in from
  /\ client' = [client EXCEPT ![c] = to]
  /\ UNCHANGED <<handler, reader, writer, closing, hubPhase, hubConn, sweepVars, mapVars>>

FallsSilent(c) == ClientChanges(c, {"active"}, "silent")
ClientLeaves(c) == ClientChanges(c, {"active", "silent"}, "lost")

------------------------------------------------------------------------------
HubNext == \/ \E c \in Conns : HubAcceptRegister(c) \/ HubAcceptUnregister(c)
           \/ HubAdd \/ HubPublished \/ HubRemove \/ HubRetracted \/ HubExit

ConnNext(c) == \/ Authenticate(c) \/ Reject(c) \/ StartPumps(c)
               \/ ReadFrame(c) \/ ReadFails(c)
               \/ WriteFails(c) \/ SendDrained(c) \/ CloseSocket(c)
               \/ FallsSilent(c) \/ ClientLeaves(c)

SweepNext(s) == \/ TakeRLock(s) \/ Snapshot(s) \/ CloseReturned(s)
                \/ \E c \in Conns : CallClose(s, c)

Next == \/ HubNext
        \/ \E c \in Conns : ConnNext(c)
        \/ \E s \in Sweepers : SweepNext(s)
        \/ BeatRests \/ BeatExits \/ CloseStopChan

\* Goroutines that can run do run.  HubAdd and HubRemove need strong fairness:
\* a pending RWMutex.Lock keeps later readers out, so the heartbeat cannot
\* starve it.  Clients owe nothing, Stop need not be called, and a write to a
\* lost peer need not fail: ReadFails rests on the read deadline instead.
Fairness ==
  /\ \A c \in Conns :
       /\ WF_vars(HubAcceptRegister(c)) /\ WF_vars(HubAcceptUnregister(c))
       /\ WF_vars(StartPumps(c)) /\ WF_vars(CloseSocket(c))
       /\ WF_vars(ReadFails(c)) /\ WF_vars(SendDrained(c))
  /\ SF_vars(HubAdd) /\ SF_vars(HubRemove)
  /\ WF_vars(HubPublished) /\ WF_vars(HubRetracted) /\ WF_vars(HubExit)
  /\ "beat" \in Sweepers => WF_vars(TakeRLock("beat"))
  /\ WF_vars(BeatRests) /\ WF_vars(BeatExits)
  /\ \A s \in Sweepers : /\ WF_vars(Snapshot(s)) /\ WF_vars(CloseReturned(s))
                         /\ WF_vars(\E c \in Conns : CallClose(s, c))
  /\ WF_vars(CloseStopChan)

Spec == Init /\ [][Next]_vars
FairSpec == Spec /\ Fairness

------------------------------------------------------------------------------
(* Safety.                                                                 *)

\* The Hub never receives an Unregister for a connection it does not hold: the
\* early return of unregisterConnection is dead code, because pumps start only
\* after Register was received and closeOnce lets one caller through.
UnregisterFindsEntry == hubPhase = "unregister" => hubConn \in connections

\* A connection whose Close has been handed to the Hub is not in the maps,
\* except while the Hub is about to delete that very connection: no zombie
\* entry survives its socket.
NoZombieEntry ==
  \A c \in connections :
    closing[c] \in {"unregistered", "done"} => hubPhase = "unregister" /\ hubConn = c

\* A running read pump of a connection nobody closes belongs to a connection
\* the Hub holds or is adding: no client can talk on a connection that pushes
\* and the heartbeat cannot see.
PumpsAreRegistered ==
  \A c \in Conns :
    reader[c] = "running" /\ closing[c] = "open"
      => c \in connections \/ (hubPhase = "register" /\ hubConn = c)

\* The maps, the per-user index and the counters of /stats move as the abstract
\* membership says: one Join, one Leave, never a second Join, and both maps and
\* both counters in one step.
StatusOf(c) == IF c \in connections THEN "online"
               ELSE IF closing[c] \in {"unregistered", "done"} THEN "gone"
               ELSE "absent"

Membership == INSTANCE HubMembership
                WITH status <- [c \in Conns |-> StatusOf(c)], byUser <- userConnections

ImplementsMembership == Membership!Spec

------------------------------------------------------------------------------
(* Liveness, under FairSpec.                                               *)

\* Every connection in Stop's snapshot has its socket closed, whoever else is
\* closing it and whatever registers meanwhile: the Hub outlives them all.
StopSnapshotIsClosed == \A c \in Conns : c \in todo["stop"] ~> closing[c] = "done"

\* The same for the heartbeat's snapshot, as long as the Hub is not stopped.
BeatSnapshotIsClosed ==
  \A c \in Conns : c \in todo["beat"] ~> closing[c] = "done" \/ stopChan

\* A registered connection that stays silent is evicted by the heartbeat: it
\* leaves the maps unless it becomes active again or the Hub is stopped.
IdleIsEvicted ==
  \A c \in Conns :
    c \in connections /\ client[c] = "silent"
      ~> c \notin connections \/ client[c] = "active" \/ stopChan

\* The goroutines of a lost client end: both pumps return, and the connection
\* is out of the maps with its socket closed, unless the Hub is stopped first.
LostClientIsCleaned ==
  \A c \in Conns :
    handler[c] = "done" /\ client[c] = "lost"
      ~> \/ /\ reader[c] = "closing" /\ writer[c] = "closing"
            /\ closing[c] = "done" /\ c \notin connections
         \/ stopChan

\* frontier/README.md:383 promises without any proviso that the server cleans
\* up disconnected connections by itself.  Hub.Stop breaks it: a connection
\* registered after the snapshot stays, its Close blocked on Unregister.
DisconnectedIsCleaned ==
  \A c \in Conns : c \in connections /\ client[c] = "lost" ~> c \notin connections
==============================================================================
