------------------------------- MODULE Gateway --------------------------------
(***************************************************************************)
(* The process around the Hub: start.Start reads the configuration (module *)
(* Settings), makes the Hub, runs the HTTP and the RPC                     *)
(* server, waits for a signal, and then stops the Hub, the HTTP server and  *)
(* the RPC server, closes Redis and exits (start/start.go,                 *)
(* frontier/server.go, servicecontext/service_context.go).  The Hub is     *)
(* HubLifecycle, here together with the routes it writes to Redis; Redis   *)
(* answers every call until it is closed (Presence looks at the faults).   *)
(***************************************************************************)
EXTENDS HubLifecycle, Settings

VARIABLES
  main,       \* the goroutine of start.Start
  listening,  \* the HTTP server has begun to listen
  redisOpen,  \* serviceCtx.Close has not closed the client yet
  routed,     \* connections with a route in Redis: the fact, the key of the connection
  refresh,    \* how far the refreshes of a connection's frames may be
  snapshot,   \* history: the connections Hub.Stop found
  revived     \* history: those whose route a refresh wrote when it was not there

shutdownVars == <<listening, redisOpen, routed, refresh, snapshot, revived>>
gatewayVars == <<main, shutdownVars, settingsVars>>
gvars == <<vars, gatewayVars>>

\* The process has a Hub.Stop; with "beat" the heartbeat that Hub.Run starts, too.
ASSUME StopAssumption == "stop" \in Sweepers

Phases == {"load", "context", "hub", "built", "serving",
            "hubStop", "httpStop", "rpcStop", "closing", "leaving", "exited"}

GatewayTypeOK ==
  /\ TypeOK
  /\ main \in Phases
  /\ listening \in BOOLEAN /\ redisOpen \in BOOLEAN
  /\ routed \subseteq Conns /\ snapshot \subseteq Conns /\ revived \subseteq Conns
  /\ refresh \in [Conns -> {"none", "asked", "read"}]
  /\ main \in {"load", "context", "hub", "built", "serving"} => redisOpen /\ snapshot = {}
  /\ config.heartbeatInterval \in Int /\ config.connectionTimeout \in Int

GInit ==
  /\ Init /\ SettingsInit
  /\ main = "load" /\ listening = FALSE /\ redisOpen = TRUE
  /\ routed = {} /\ snapshot = {} /\ revived = {}
  /\ refresh = [c \in Conns |-> "none"]

Running == main \notin {"load", "context", "hub", "built", "exited"}

------------------------------------------------------------------------------
(* The goroutine of start.Start.                                           *)

MainGoes(from, to) == main = from /\ main' = to /\ UNCHANGED vars

\* createServiceContext, NewServer with NewHub, startServers.
Starts ==
  /\ \/ MainGoes("load", "context") /\ LoadConfig
     \/ MainGoes("context", "hub") /\ InitContext
     \/ MainGoes("hub", "built") /\ MakeHub
     \/ MainGoes("built", "serving") /\ Forget
  /\ UNCHANGED shutdownVars

\* ListenAndServe opens its socket, unless Shutdown has been called.
Listen ==
  /\ main \in {"serving", "hubStop"} /\ ~ listening /\ listening' = TRUE
  /\ UNCHANGED <<vars, main, redisOpen, routed, refresh, snapshot, revived, settingsVars>>

\* A signal, after the second that Start gives its servers to come up; the listener
\* may need longer.
Signal ==
  /\ MainGoes("serving", "hubStop")
  /\ UNCHANGED <<shutdownVars, settingsVars>>

\* Mutant: hub.Stop is started in a goroutine of its own.
HubStopsBehind ==
  /\ MainGoes("hubStop", "httpStop")
  /\ UNCHANGED <<shutdownVars, settingsVars>>

\* hub.Stop has returned; httpServer.Shutdown follows, which does not wait for
\* hijacked connections, then backbonServer.Stop, then the deferred Close.
HubStopped ==
  /\ MainGoes("hubStop", "httpStop") /\ sweepPc["stop"] = "exited"
  /\ UNCHANGED <<shutdownVars, settingsVars>>

ServersStop ==
  /\ MainGoes("httpStop", "rpcStop") \/ MainGoes("rpcStop", "closing")
  /\ UNCHANGED <<shutdownVars, settingsVars>>

CloseContext ==
  /\ MainGoes("closing", "leaving")
  /\ redisOpen' = FALSE
  /\ UNCHANGED <<listening, routed, refresh, snapshot, revived, settingsVars>>

Exit ==
  /\ MainGoes("leaving", "exited")
  /\ UNCHANGED <<shutdownVars, settingsVars>>

MainStops == HubStopped \/ ServersStop \/ CloseContext \/ Exit

------------------------------------------------------------------------------
(* The Hub of a process that still runs, with its effects on Redis.        *)

\* Steps that touch neither Redis nor the goroutine of start.Start.
Within(A) == Running /\ A /\ UNCHANGED gatewayVars

\* Requests reach the handler once the server listens; one that was under way
\* when Shutdown closed the listener still does.
Arrives(c) == listening /\ (Authenticate(c) \/ Reject(c))

Published ==
  /\ Running /\ HubPublished
  /\ routed' = IF redisOpen THEN routed \cup {hubConn} ELSE routed
  /\ UNCHANGED <<main, listening, redisOpen, refresh, snapshot, revived, settingsVars>>

Retracted ==
  /\ Running /\ HubRetracted
  /\ routed' = IF redisOpen THEN routed \ {hubConn} ELSE routed
  /\ UNCHANGED <<main, listening, redisOpen, refresh, snapshot, revived, settingsVars>>

\* A data, ping or pong frame starts RefreshConnectionPresence in a goroutine of its
\* own, for which nobody waits.  A client sends any number of frames, so once one
\* refresh has got somewhere another may always be there: refresh[c] only grows.
FrameRead(c) ==
  /\ Running /\ ReadFrame(c)
  /\ refresh' = [refresh EXCEPT ![c] = IF @ = "none" THEN "asked" ELSE @]
  /\ UNCHANGED <<main, listening, redisOpen, routed, snapshot, revived, settingsVars>>

\* A refresh finds the fact; one that does not, or cannot ask any more, is over.
RefreshReads(c) ==
  /\ Running /\ redisOpen /\ refresh[c] = "asked" /\ c \in routed
  /\ refresh' = [refresh EXCEPT ![c] = "read"]
  /\ UNCHANGED <<vars, main, listening, redisOpen, routed, snapshot, revived, settingsVars>>

\* It then writes the fact, without asking whether it is still there.
RefreshWrites(c) ==
  /\ Running /\ redisOpen /\ refresh[c] = "read"
  /\ routed' = routed \cup {c} /\ revived' = revived \cup ({c} \ routed)
  /\ UNCHANGED <<vars, main, listening, redisOpen, refresh, snapshot, settingsVars>>

Refreshes(c) == FrameRead(c) \/ RefreshReads(c) \/ RefreshWrites(c)

\* Hub.Stop is called by start.Start, and takes its snapshot.
StopBegins == main = "hubStop" /\ TakeRLock("stop")

StopSnapshot ==
  /\ Running /\ Snapshot("stop") /\ snapshot' = connections
  /\ UNCHANGED <<main, listening, redisOpen, routed, refresh, revived, settingsVars>>

StopCloses == (\E c \in Conns : CallClose("stop", c)) \/ CloseReturned("stop")

Pumps(c) == \/ StartPumps(c) \/ ReadFails(c) \/ SendDrained(c) \/ CloseSocket(c)
            \/ WriteFails(c) \/ FallsSilent(c) \/ ClientLeaves(c)

\* checkHeartbeat, which Hub.Run starts.
Beats ==
  /\ "beat" \in Sweepers
  /\ SweepNext("beat") \/ BeatRests \/ BeatExits

HubAccepts(c) == HubAcceptRegister(c) \/ HubAcceptUnregister(c)

HubMoves == \/ Published \/ Retracted \/ Within(HubExit)
            \/ \E c \in Conns : Within(HubAccepts(c))
HubLocks == Within(HubAdd) \/ Within(HubRemove)
StopMoves == \/ Within(StopBegins) \/ StopSnapshot
             \/ Within(StopCloses) \/ Within(CloseStopChan)

GNext ==
  \/ Starts \/ Listen \/ Signal \/ MainStops
  \/ HubMoves \/ HubLocks \/ StopMoves \/ Within(Beats)
  \/ \E c \in Conns : Within(Arrives(c)) \/ Within(Pumps(c)) \/ Refreshes(c)

\* Every goroutine of the process takes the steps it can, as in HubLifecycle: start.Start
\* once it has been told to stop, Hub.Run, Hub.Stop, and those of a connection.  Of the
\* heartbeat it takes that it gives the lock back; refreshes owe nothing.
GFairness ==
  /\ WF_gvars(MainStops) /\ WF_gvars(HubMoves) /\ SF_gvars(HubLocks) /\ WF_gvars(StopMoves)
  /\ "beat" \in Sweepers => WF_gvars(Within(Snapshot("beat")))
  /\ \A c \in Conns :
       /\ WF_gvars(Within(StartPumps(c))) /\ WF_gvars(Within(CloseSocket(c)))
       /\ WF_gvars(Within(ReadFails(c))) /\ WF_gvars(Within(SendDrained(c)))

GSpec == GInit /\ [][GNext]_gvars
GFairSpec == GSpec /\ GFairness

------------------------------------------------------------------------------
\* A gateway told to stop comes to its end: no handler that still registers and
\* no connection somebody else is closing holds up the shutdown: Stop takes a
\* snapshot so that its Closes cannot deadlock with the Hub (the comment at hub.go:144).
ShutdownEnds == main = "hubStop" ~> main = "exited"

\* An orderly exit takes the routes of the connections Stop found along, all but
\* possibly one, and those that refreshes have put back after their removal: Close
\* returns when the Hub has received the connection, so Redis may be closed before the
\* last removal gets there; and nobody waits for refreshes, so that any number of
\* routes may come back.
AtMostOneLeftover ==
  main = "exited" => Cardinality((routed \cap snapshot) \ revived) <= 1

\* The route of a live connection does not lapse, whatever is configured, the
\* environment or nonsense included: it outlasts the pings, which refresh it, and
\* the longest time the heartbeat leaves a silent connection in the maps.
TtlCoversSilence ==
  main = "built" => times.ttl > PingPeriod /\ times.ttl >= times.timeout + times.beat

\* The advertised port is the one the server listens on, the host is never the
\* wildcard, and, when the server listens on all interfaces, that of an interface other
\* machines can dial if there is one.  (Without one it is "localhost"; and a file may
\* name any host it likes.)
AdvertisesListener ==
  /\ address.port = config.port /\ address.port # ""
  /\ address.host \notin Wildcards
  /\ config.host \in Wildcards /\ ~ (interfaces \subseteq Loopbacks) =>
       address.host \in interfaces \ Loopbacks

\* A gateway configured by a file advertises what it listens on.  (Configured by the
\* environment it advertises an empty port: the default comes with NewHub, when the
\* address has been computed.)
FileAdvertisesListener == main = "built" /\ config.source = "file" => AdvertisesListener
==============================================================================
