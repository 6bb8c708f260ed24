------------------------------- MODULE Dispatch -------------------------------
(***************************************************************************)
(* What a gateway does with the messages of one connection: the handshake  *)
(* binds the connection to a user, ReadPump starts a goroutine per message, *)
(* Hub.HandleMessage validates it and picks a handler, HandleAuth updates  *)
(* the metadata of the connection field by field, and HandleMessage checks  *)
(* the registry and calls the backend (frontier/handler_ws.go, hub.go,     *)
(* connection.go, message.go, convert.go).  Replies go to the mailbox      *)
(* (module Mailbox, which SendQueue implements).                           *)
(***************************************************************************)
EXTENDS ServiceRegistry, Sequences

CONSTANTS Frames,      \* messages a client can send: [type, method, user, keys]
          Handshakes,  \* upgrade requests: [prefix, body, query], body and prefix
                       \* of the trimmed token, query the user_id parameter
          Users, NoUser,   \* user ids, and the empty string
          NoId,         \* the empty request id
          Echoes,      \* whether a backend may copy the request id: of {"own", "blank"}
          Capacity     \* of the channel Send

\* The fields HandleAuth looks at, in this order.
AuthFields == <<"token", "track_id", "user_id", "deviceID", "platform", "clientVersion">>
DeviceFields == {"deviceID", "platform", "clientVersion"}
Fields == {"token", "track_id"} \cup DeviceFields

ASSUME FramesAssumption ==
  /\ \A f \in Frames : {"type", "method", "user", "keys"} \subseteq DOMAIN f
  /\ \A f \in Frames : f.method \in Names \cup {Blank} /\ f.keys \subseteq Fields
ASSUME UsersAssumption == NoUser \notin Users
ASSUME HandshakesAssumption == \A h \in Handshakes : h.body \in Users \cup {NoUser}
ASSUME NoIdAssumption == NoId \notin Requests

VARIABLES
  phase, user,      \* of the connection; its UserID
  frame, pc,        \* of each message: its content, where its goroutine is
  keyAt,            \* the metadata field HandleAuth looks at
  sending,          \* the request id of the reply about to be sent
  metadata,         \* what wrote each field of Connection.Metadata: the handshake
                    \* or a message that names this user or none, or a foreign one
  accepted, wire, open   \* the mailbox

Box == INSTANCE Mailbox WITH Messages <- [to : Requests, id : Requests \cup {NoId}]

mailVars == <<accepted, wire, open>>
messageVars == <<frame, pc, keyAt, sending>>
dispatchVars == <<phase, user, messageVars, metadata, mailVars>>
vars == <<registryVars, dispatchVars>>

NoFrame == [type |-> "", method |-> Blank, user |-> NoUser, keys |-> {}]

TypeOK ==
  /\ RegistryTypeOK
  /\ phase \in {"arriving", "open", "rejected"}
  /\ IF phase = "open" THEN user \in Users ELSE user = NoUser
  /\ frame \in [Requests -> Frames \cup {NoFrame}]
  /\ pc \in [Requests -> {"unread", "garbled", "handle", "auth", "check", "call",
                          "reply", "error", "answered", "dropped"}]
  /\ keyAt \in [Requests -> 1..(Len(AuthFields) + 1)]
  /\ sending \in [Requests -> Requests \cup {NoId}]
  /\ metadata \in [Fields -> {"handshake", "own", "foreign"}]
  /\ accepted \in Seq([to : Requests, id : Requests \cup {NoId}])
  /\ wire \in Seq([to : Requests, id : Requests \cup {NoId}])
  /\ open \in BOOLEAN

Init ==
  /\ RegistryInit
  /\ phase = "arriving" /\ user = NoUser
  /\ frame = [m \in Requests |-> NoFrame]
  /\ pc = [m \in Requests |-> "unread"]
  /\ keyAt = [m \in Requests |-> 1]
  /\ sending = [m \in Requests |-> NoId]
  /\ metadata = [k \in Fields |-> "handshake"]
  /\ Box!Init

Goes(m, to) == pc' = [pc EXCEPT ![m] = to]

------------------------------------------------------------------------------
(* The handshake.                                                          *)

\* userIDFromMockToken: what follows one of the prefixes, trimmed.
TokenUser(h) == IF h.prefix \in {"user:", "uid:", "mock:"} THEN h.body ELSE NoUser

\* Mutant: a token with a prefix and nothing else is let through.
AdmitsEmptyUser(h) == h.query \in {NoUser, TokenUser(h)}

\* authenticateClient: the token names a user, the query none or the same one.
Admits(h) == TokenUser(h) # NoUser /\ h.query \in {NoUser, TokenUser(h)}

Connect(h) ==
  /\ phase = "arriving"
  /\ IF Admits(h) THEN phase' = "open" /\ user' = TokenUser(h)
                  ELSE phase' = "rejected" /\ UNCHANGED user
  /\ UNCHANGED <<registryVars, messageVars, metadata, mailVars>>

------------------------------------------------------------------------------
(* ReadPump and Hub.HandleMessage.                                         *)

\* The pump answers text that is not JSON itself, before it reads on.
Read(m) ==
  /\ phase = "open" /\ pc[m] = "unread"
  /\ \A n \in Requests : pc[n] # "garbled"
  /\ \E f \in Frames :
       /\ frame' = [frame EXCEPT ![m] = f]
       /\ Goes(m, IF f.type = "garbage" THEN "garbled" ELSE "handle")
  /\ UNCHANGED <<registryVars, phase, user, keyAt, sending, metadata, mailVars>>

Valid(f) == f.type # "" /\ (f.type = "request" => f.method # Blank)

\* registerMessageHandlers: HandleAuth and HandleMessage.
Handlers == [auth |-> "auth", request |-> "check"]

\* Mutant: a message of an unknown type gets no answer.
DefaultHandlerDrops(type) == IF type = "heartbeat" THEN "reply" ELSE "answered"

DefaultHandler(type) == IF type = "heartbeat" THEN "reply" ELSE "error"

\* Where Hub.HandleMessage sends a message.
RouteOf(f) ==
  IF ~ Valid(f) THEN "error"
  ELSE IF f.type \in DOMAIN Handlers THEN Handlers[f.type]
  ELSE DefaultHandler(f.type)

Handle(m) ==
  /\ pc[m] = "handle" /\ RouteOf(frame[m]) # "auth" /\ Goes(m, RouteOf(frame[m]))
  /\ IF RouteOf(frame[m]) = "check" THEN BeginLook(m, frame[m].method)
                                    ELSE UNCHANGED registryVars
  /\ UNCHANGED <<phase, user, frame, keyAt, sending, metadata, mailVars>>

------------------------------------------------------------------------------
(* HandleAuth: one SetMetadata at a time.                                  *)

Foreign(f) == f.user \notin {NoUser, user}

\* Mutant: a foreign user is no obstacle to the fields that follow.
StopsAtNothing(f, i) == i \in DOMAIN AuthFields /\ AuthFields[i] \in f.keys

\* The fields that make HandleAuth do something: it stores them or refuses.
StopsAt(f, i) ==
  /\ i \in DOMAIN AuthFields
  /\ AuthFields[i] \in f.keys \/ (AuthFields[i] = "user_id" /\ Foreign(f))

\* The first such field from number i on, or the end.
NextField(f, i) ==
  CHOOSE j \in i..(Len(AuthFields) + 1) :
    /\ StopsAt(f, j) \/ j = Len(AuthFields) + 1
    /\ \A n \in i..(j - 1) : ~ StopsAt(f, n)

AuthBegins(m) ==
  /\ pc[m] = "handle" /\ RouteOf(frame[m]) = "auth" /\ Goes(m, "auth")
  /\ keyAt' = [keyAt EXCEPT ![m] = NextField(frame[m], 1)]
  /\ UNCHANGED <<registryVars, phase, user, frame, sending, metadata, mailVars>>

AuthStores(m) ==
  /\ pc[m] = "auth" /\ keyAt[m] <= Len(AuthFields) /\ AuthFields[keyAt[m]] # "user_id"
  /\ keyAt' = [keyAt EXCEPT ![m] = NextField(frame[m], @ + 1)]
  /\ metadata' = [metadata EXCEPT ![AuthFields[keyAt[m]]] =
                     IF Foreign(frame[m]) THEN "foreign" ELSE "own"]
  /\ UNCHANGED <<registryVars, phase, user, frame, pc, sending, mailVars>>

\* The reply at the end, or ErrUnauthorized: what was stored before stays.
AuthReturns(m) ==
  /\ pc[m] = "auth"
  /\ \/ keyAt[m] = Len(AuthFields) + 1 /\ Goes(m, "reply")
     \/ keyAt[m] <= Len(AuthFields) /\ AuthFields[keyAt[m]] = "user_id" /\ Goes(m, "error")
  /\ keyAt' = [keyAt EXCEPT ![m] = 1]
  /\ UNCHANGED <<registryVars, phase, user, frame, sending, metadata, mailVars>>

------------------------------------------------------------------------------
(* WebSocketHandler.HandleMessage, between the reads of the registry.      *)

\* Mutant: the goroutines of a connection share one message variable.
RequestIDOfAny(m) == CHOOSE n \in Requests : pc[n] # "unread"

RequestID(m) == m

\* Not registered, or a read failed: an error reply with the request id.
CheckReturns(m) ==
  /\ pc[m] = "check" /\ look[m] \in Answers
  /\ IF look[m] = "registered" THEN Goes(m, "call") /\ UNCHANGED sending
     ELSE Goes(m, "reply") /\ sending' = [sending EXCEPT ![m] = RequestID(m)]
  /\ UNCHANGED <<registryVars, phase, user, frame, keyAt, metadata, mailVars>>

\* The reply carries the id that the backend put into its answer.
ResponseID(m, echo) == IF echo = "own" THEN RequestID(m) ELSE NoId

\* The backend answers with the id it was given or without one, or the call fails or
\* times out, which makes an error reply with the id of the request.
CallReturns(m) ==
  /\ pc[m] = "call" /\ Goes(m, "reply")
  /\ \E e \in Echoes \cup {"own"} :
       sending' = [sending EXCEPT ![m] = ResponseID(m, e)]
  /\ UNCHANGED <<registryVars, phase, user, frame, keyAt, metadata, mailVars>>

------------------------------------------------------------------------------
(* Replies.                                                                *)

Full == Len(accepted) - Len(wire) >= Capacity
\* Closed, or full of replies.
CanRefuse == ~ open \/ Full

\* The goroutine ends, and with it its message.
Ends(m, to) ==
  /\ Goes(m, to)
  /\ frame' = [frame EXCEPT ![m] = NoFrame]
  /\ sending' = [sending EXCEPT ![m] = NoId]

Accepts(m, id) == Box!Accept([to |-> m, id |-> id])

\* Mutant: the handler answers and returns its error to the Hub as well.
ReplySentAndFailed(m) ==
  /\ pc[m] = "reply" /\ Accepts(m, sending[m])
  /\ Goes(m, "error")
  /\ UNCHANGED <<registryVars, phase, user, frame, keyAt, sending, metadata>>

ReplySent(m) ==
  /\ pc[m] = "reply" /\ Accepts(m, sending[m]) /\ Ends(m, "answered")
  /\ UNCHANGED <<registryVars, phase, user, keyAt, metadata>>

\* SendMessage fails: HandleAuth and HandleMessage return the error, upon which
\* the Hub tries SendError; defaultHandler ignores it.
ReplyRefused(m) ==
  /\ pc[m] = "reply" /\ CanRefuse
  /\ IF frame[m].type = "heartbeat" THEN Ends(m, "dropped")
     ELSE Goes(m, "error") /\ UNCHANGED <<frame, sending>>
  /\ UNCHANGED <<registryVars, phase, user, keyAt, metadata, mailVars>>

\* SendError: an error without a request id, whose own failure is ignored.
SendError(m) ==
  /\ pc[m] \in {"garbled", "error"}
  /\ \/ Accepts(m, NoId) /\ Ends(m, "answered")
     \/ CanRefuse /\ Ends(m, "dropped") /\ UNCHANGED mailVars
  /\ UNCHANGED <<registryVars, phase, user, keyAt, metadata>>

------------------------------------------------------------------------------
MessageNext(m) ==
  \/ Read(m) \/ Handle(m)
  \/ AuthBegins(m) \/ AuthStores(m) \/ AuthReturns(m)
  \/ CheckReturns(m) \/ CallReturns(m)
  \/ ReplySent(m) \/ ReplyRefused(m) \/ SendError(m)

\* The write pump writes a reply; somebody closes the connection.
MailboxMoves ==
  /\ phase = "open" /\ (Box!Deliver \/ Box!Shut)
  /\ UNCHANGED <<registryVars, phase, user, messageVars, metadata>>

Next ==
  \/ RegistryNext /\ UNCHANGED dispatchVars
  \/ \E h \in Handshakes : Connect(h)
  \/ \E m \in Requests : MessageNext(m)
  \/ MailboxMoves

\* Every goroutine that can run does, and every Redis or backend call returns or
\* times out.  Clients need not send, nor the write pump write.
Runs(m) == \/ ReadNext(m) /\ UNCHANGED dispatchVars
           \/ MessageNext(m) /\ pc[m] # "unread"

Fairness == \A m \in Requests : WF_vars(Runs(m))

Spec == Init /\ [][Next]_vars
FairSpec == Spec /\ Fairness

------------------------------------------------------------------------------
\* The device fields of a connection never come from a message refused because
\* it names another user, whatever other messages do meanwhile.  (token and
\* track_id are stored before the refusal and stay: handler_ws.go:197.)
RefusedAuthLeavesDevice == \A k \in DeviceFields : metadata[k] # "foreign"

\* A message gets at most one answer, although a handler and the Hub both send,
\* and an answer that names a request names the one it belongs to, although every
\* message has a goroutine of its own and answers overtake one another.  (The code hands
\* on whatever id a backend returns, convert.go:43: this is about backends that return
\* the one they were given, or none.)
OneAnswer ==
  \A i \in DOMAIN accepted :
    /\ accepted[i].id \in {accepted[i].to, NoId}
    /\ \A j \in DOMAIN accepted : accepted[i].to = accepted[j].to => i = j

\* Every message that was read is answered in the end, one of an unknown type or
\* to an unknown service too, unless the mailbox is closed or full.
EveryMessageAnswered ==
  \A m \in Requests :
    pc[m] \in {"garbled", "handle"}
      ~> pc[m] = "dropped" \/ \E i \in DOMAIN accepted : accepted[i].to = m
==============================================================================
