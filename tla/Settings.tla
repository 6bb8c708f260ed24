------------------------------- MODULE Settings -------------------------------
(***************************************************************************)
(* What a gateway makes of its configuration: the environment or the file,  *)
(* the defaults, the times the Hub works with, and the address its routes  *)
(* carry (config/config.go, frontier/config.go, hub.go,                    *)
(* servicecontext/service_context.go).  Durations are whole seconds.       *)
(***************************************************************************)
EXTENDS Integers

CONSTANTS Durations,   \* what a file may give as a duration, 0 when it says nothing
          Hosts, Ports,  \* what it may give as host and port, "" when it says nothing
          Interfaces,  \* the IPv4 addresses an interface of the machine may have
          Loopbacks    \* those of them nobody else can dial

\* What "any interface" is written as.
Wildcards == {"", "0.0.0.0"}

ASSUME DurationsAssumption == Durations \subseteq Int
ASSUME InterfacesAssumption == Interfaces \cap Wildcards = {}

VARIABLES config,    \* Config.Frontier and where it came from
          interfaces,  \* what net.InterfaceAddrs gave the context, {} for an error
          address,   \* ServiceContext.LocalAddress
          times      \* the Hub's heartbeatInterval, connectionTimeout and routeTTL

settingsVars == <<config, interfaces, address, times>>

PongWait == 60
PingPeriod == (PongWait * 9) \div 10

Files == [host : Hosts, port : Ports,
          heartbeatInterval : Durations, connectionTimeout : Durations]

OrDefault(v, d) == IF v = "" THEN d ELSE v
OrSeconds(n, d) == IF n = 0 THEN d ELSE n

setFrontierDefaults(f) ==
  [host |-> OrDefault(f.host, "0.0.0.0"),
   port |-> OrDefault(f.port, "8080"),
   heartbeatInterval |-> OrSeconds(f.heartbeatInterval, 30),
   connectionTimeout |-> OrSeconds(f.connectionTimeout, 90)]

NoConfig == [source |-> "none", host |-> "", port |-> "",
             heartbeatInterval |-> 0, connectionTimeout |-> 0]
NoAddress == [host |-> "", port |-> ""]
NoTimes == [beat |-> 0, timeout |-> 0, ttl |-> 0]

SettingsInit ==
  config = NoConfig /\ interfaces = {} /\ address = NoAddress /\ times = NoTimes

\* With ETCD_ENDPOINTS set the file is not read, and nothing is given a default.
Load(env, f) ==
  IF env THEN [NoConfig EXCEPT !.source = "environment"]
  ELSE LET d == setFrontierDefaults(f) IN
       [source |-> "file", host |-> d.host, port |-> d.port,
        heartbeatInterval |-> d.heartbeatInterval, connectionTimeout |-> d.connectionTimeout]

LoadConfig ==
  /\ \E env \in BOOLEAN, f \in Files : config' = Load(env, f)
  /\ UNCHANGED <<interfaces, address, times>>

\* Config.Validate, which NewHub calls on the shared configuration.
Validate(c) ==
  [c EXCEPT !.port = OrDefault(@, "8080"),
            !.heartbeatInterval = OrSeconds(@, 30),
            !.connectionTimeout = OrSeconds(@, 90)]

\* NewHub: what is not positive is replaced.
Positive(n, d) == IF n > 0 THEN n ELSE d
HeartbeatInterval(c) == Positive(Validate(c).heartbeatInterval, 30)
ConnectionTimeout(c) == Positive(Validate(c).connectionTimeout, 90)

\* Mutant: the sum is taken of the values as they were configured.
RouteTTLUnchecked(c) == c.connectionTimeout + c.heartbeatInterval

RouteTTL(c) ==
  LET sum == ConnectionTimeout(c) + HeartbeatInterval(c) IN IF sum < 60 THEN 60 ELSE sum

\* Mutant: the loopback interface is not skipped.
getLocalIPOfAny(addrs) == IF addrs = {} THEN {"localhost"} ELSE addrs

\* The first address that is no loopback, whichever the system lists first.
getLocalIP(addrs) ==
  IF addrs \subseteq Loopbacks THEN {"localhost"} ELSE addrs \ Loopbacks

LocalAddress(ip) ==
  [host |-> IF config.host \in Wildcards THEN ip ELSE config.host, port |-> config.port]

\* ServiceContext.init, before there is a Hub that validates the configuration.
InitContext ==
  /\ interfaces' \in SUBSET Interfaces
  /\ \E ip \in getLocalIP(interfaces') : address' = LocalAddress(ip)
  /\ UNCHANGED <<config, times>>

MakeHub ==
  /\ config' = Validate(config)
  /\ times' = [beat |-> HeartbeatInterval(config), timeout |-> ConnectionTimeout(config),
               ttl |-> RouteTTL(config)]
  /\ UNCHANGED <<interfaces, address>>

\* Once the servers are started nothing here is read any more.
Forget ==
  config' = NoConfig /\ interfaces' = {} /\ address' = NoAddress /\ times' = NoTimes
==============================================================================
