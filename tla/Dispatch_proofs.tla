---------------------------- MODULE Dispatch_proofs ----------------------------
(***************************************************************************)
(* Theorems about Dispatch, for any messages, handshakes, methods, writers *)
(* and queries and any capacity of the mailbox: its types, the registry's  *)
(* promises (from ServiceRegistry_proofs), that a refused authentication   *)
(* leaves the device fields alone, and that a message gets one answer.     *)
(***************************************************************************)
EXTENDS Dispatch, ServiceRegistry_proofs


------------------------------------------------------------------------------
(* Which part of the state a step may change.                              *)

\* Every step of Dispatch is a step of the registry, or leaves it alone.
LEMMA RegistrySteps == ASSUME TypeOK, [Next]_vars PROVE [RegistryStep]_registryVars
<1>1. CASE UNCHANGED vars
  BY <1>1 DEF vars
<1>2. CASE RegistryNext /\ UNCHANGED dispatchVars
  BY <1>2 DEF RegistryStep
<1>3. ASSUME NEW h \in Handshakes, Connect(h) PROVE UNCHANGED registryVars
  BY <1>3 DEF Connect
<1>4. ASSUME NEW m \in Requests, MessageNext(m) PROVE [RegistryStep]_registryVars
  <2>1. CASE Handle(m)
    <3>1. frame[m].method \in Names \cup {Blank}
      <4>1. frame[m] \in Frames \/ frame[m] = NoFrame
        BY DEF TypeOK
      <4>2. CASE frame[m] \in Frames
        BY <4>2, FramesAssumption
      <4>3. CASE frame[m] = NoFrame
        <5>1. NoFrame.method = Blank
          BY DEF NoFrame
        <5> QED BY <4>3, <5>1
      <4> QED BY <4>1, <4>2, <4>3
    <3>2. m \in Lookers
      BY DEF Lookers
    <3> QED BY <2>1, <3>1, <3>2 DEF Handle, RegistryStep
  <2>2. CASE ~ Handle(m)
    BY <1>4, <2>2 DEF MessageNext, Read, AuthBegins, AuthStores, AuthReturns, CheckReturns,
                      CallReturns, ReplySent, ReplyRefused, SendError
  <2> QED BY <2>1, <2>2
<1>5. CASE MailboxMoves
  BY <1>5 DEF MailboxMoves
<1> QED BY <1>1, <1>2, <1>3, <1>4, <1>5 DEF Next

------------------------------------------------------------------------------
(* Types.                                                                  *)

\* HandleAuth's next field lies ahead, and there is one: the end at the latest.
LEMMA NextFieldExists ==
  ASSUME NEW f, NEW i \in 1..(Len(AuthFields) + 1)
  PROVE /\ NextField(f, i) \in i..(Len(AuthFields) + 1)
        /\ StopsAt(f, NextField(f, i)) \/ NextField(f, i) = Len(AuthFields) + 1
        /\ \A n \in i..(NextField(f, i) - 1) : ~ StopsAt(f, n)
<1> DEFINE Next1(k, j) == /\ StopsAt(f, j) \/ j = 7
                          /\ \A n \in k..(j - 1) : ~ StopsAt(f, n)
           Found(k) == \E j \in k..7 : Next1(k, j)
<1>1. Len(AuthFields) = 6
  BY DEF AuthFields
<1>2. Found(7)
  OBVIOUS
<1>3. ASSUME NEW k \in 1..6, Found(k + 1) PROVE Found(k)
  <2>1. CASE StopsAt(f, k)
    <3>1. Next1(k, k)
      BY <2>1
    <3> QED BY <3>1
  <2>2. CASE ~ StopsAt(f, k)
    <3>1. PICK j \in (k + 1)..7 : Next1(k + 1, j)
      BY <1>3
    <3>2. Next1(k, j)
      <4>1. \A n \in k..(j - 1) : n = k \/ n \in (k + 1)..(j - 1)
        OBVIOUS
      <4> QED BY <2>2, <3>1, <4>1
    <3> QED BY <3>2
  <2> QED BY <2>1, <2>2
<1> HIDE DEF Found
<1>4. Found(6)
  BY <1>2, <1>3
<1>5. Found(5)
  BY <1>3, <1>4
<1>6. Found(4)
  BY <1>3, <1>5
<1>7. Found(3)
  BY <1>3, <1>6
<1>8. Found(2)
  BY <1>3, <1>7
<1>9. Found(1)
  BY <1>3, <1>8
<1>10. Found(i)
  BY <1>1, <1>2, <1>4, <1>5, <1>6, <1>7, <1>8, <1>9
<1>11. \E j \in i..(Len(AuthFields) + 1) :
         /\ StopsAt(f, j) \/ j = Len(AuthFields) + 1
         /\ \A n \in i..(j - 1) : ~ StopsAt(f, n)
  BY <1>1, <1>10 DEF Found
<1> QED BY <1>11 DEF NextField

\* A message goes to one of the handlers, or its goroutine sends an error.
LEMMA RouteOfIsAHandler ==
  ASSUME NEW f PROVE RouteOf(f) \in {"auth", "check", "reply", "error"}
<1>1. DOMAIN Handlers = {"auth", "request"}
  BY DEF Handlers
<1>2. Handlers["auth"] = "auth" /\ Handlers["request"] = "check"
  BY DEF Handlers
<1>3. f.type \in DOMAIN Handlers => Handlers[f.type] \in {"auth", "check"}
  BY <1>1, <1>2
<1>4. DefaultHandler(f.type) \in {"reply", "error"}
  BY DEF DefaultHandler
<1> QED BY <1>3, <1>4 DEF RouteOf

\* The mailbox holds replies.
Replies == [to : Requests, id : Requests \cup {NoId}]

DispatchTypes ==
  /\ phase \in {"arriving", "open", "rejected"}
  /\ IF phase = "open" THEN user \in Users ELSE user = NoUser
  /\ frame \in [Requests -> Frames \cup {NoFrame}]
  /\ pc \in [Requests -> {"unread", "garbled", "handle", "auth", "check", "call",
                          "reply", "error", "answered", "dropped"}]
  /\ keyAt \in [Requests -> 1..(Len(AuthFields) + 1)]
  /\ sending \in [Requests -> Requests \cup {NoId}]
  /\ metadata \in [Fields -> {"handshake", "own", "foreign"}]
  /\ accepted \in Seq(Replies) /\ wire \in Seq(Replies) /\ open \in BOOLEAN

\* One step of one message keeps every type.
LEMMA MessageTypes ==
  ASSUME DispatchTypes, NEW m \in Requests, MessageNext(m)
  PROVE DispatchTypes'
<1> USE DEF DispatchTypes
<1>1. CASE Read(m)
  BY <1>1 DEF Read, Goes, mailVars
<1>2. CASE Handle(m)
  <2>1. RouteOf(frame[m]) \in {"auth", "check", "reply", "error"}
    BY RouteOfIsAHandler
  <2> QED BY <1>2, <2>1 DEF Handle, Goes, mailVars
<1>3. CASE AuthBegins(m)
  <2>1. NextField(frame[m], 1) \in 1..(Len(AuthFields) + 1)
    BY NextFieldExists DEF AuthFields
  <2> QED BY <1>3, <2>1 DEF AuthBegins, Goes, mailVars
<1>4. CASE AuthStores(m)
  <2>1. keyAt[m] + 1 \in 1..(Len(AuthFields) + 1)
    BY <1>4 DEF AuthStores, AuthFields
  <2>2. NextField(frame[m], keyAt[m] + 1) \in 1..(Len(AuthFields) + 1)
    BY <2>1, NextFieldExists DEF AuthFields
  <2>3. keyAt' \in [Requests -> 1..(Len(AuthFields) + 1)]
    BY <1>4, <2>2 DEF AuthStores
  <2>4. metadata' \in [Fields -> {"handshake", "own", "foreign"}]
    BY <1>4 DEF AuthStores
  <2> QED BY <1>4, <2>3, <2>4 DEF AuthStores, mailVars
<1>5. CASE AuthReturns(m)
  <2>1. 1 \in 1..(Len(AuthFields) + 1)
    BY DEF AuthFields
  <2> QED BY <1>5, <2>1 DEF AuthReturns, Goes, mailVars
<1>6. CASE CheckReturns(m)
  <2>1. sending' \in [Requests -> Requests \cup {NoId}]
    BY <1>6 DEF CheckReturns, RequestID
  <2>2. pc' \in [Requests -> {"unread", "garbled", "handle", "auth", "check", "call",
                             "reply", "error", "answered", "dropped"}]
    BY <1>6 DEF CheckReturns, Goes
  <2> QED BY <1>6, <2>1, <2>2 DEF CheckReturns, mailVars
<1>7. CASE CallReturns(m)
  BY <1>7 DEF CallReturns, Goes, ResponseID, RequestID, mailVars
<1>8. ASSUME NEW id \in Requests \cup {NoId}, Accepts(m, id)
      PROVE accepted' \in Seq(Replies) /\ UNCHANGED <<wire, open>>
  <2>1. [to |-> m, id |-> id] \in Replies
    BY DEF Replies
  <2> QED BY <1>8, <2>1 DEF Accepts, Box!Accept
<1>9. CASE ReplySent(m)
  BY <1>8, <1>9 DEF ReplySent, Ends, Goes
<1>10. CASE ReplyRefused(m)
  BY <1>10 DEF ReplyRefused, Ends, Goes, mailVars
<1>11. CASE SendError(m)
  BY <1>8, <1>11 DEF SendError, Ends, Goes, mailVars
<1> QED BY <1>1, <1>2, <1>3, <1>4, <1>5, <1>6, <1>7, <1>9, <1>10, <1>11 DEF MessageNext

\* Every variable of Dispatch keeps its type.
LEMMA TypeStep == ASSUME TypeOK, [Next]_vars PROVE TypeOK'
<1>1. TypeOK <=> RegistryTypeOK /\ DispatchTypes
  BY DEF TypeOK, DispatchTypes, Replies
<1>2. RegistryTypeOK'
  BY <1>1, RegistrySteps, RegistryTypeStep
<1>3. ASSUME UNCHANGED dispatchVars PROVE DispatchTypes'
  BY <1>1, <1>3 DEF dispatchVars, messageVars, mailVars, DispatchTypes
<1>4. ASSUME NEW h \in Handshakes, Connect(h) PROVE DispatchTypes'
  <2>1. TokenUser(h) \in Users \cup {NoUser}
    BY HandshakesAssumption DEF TokenUser
  <2>2. UNCHANGED <<messageVars, metadata, mailVars>>
    BY <1>4 DEF Connect
  <2>3. /\ phase' \in {"arriving", "open", "rejected"}
        /\ IF phase' = "open" THEN user' \in Users ELSE user' = NoUser
    BY <1>1, <1>4, <2>1 DEF Connect, Admits, DispatchTypes
  <2> QED BY <1>1, <2>2, <2>3 DEF DispatchTypes, messageVars, mailVars
<1>5. ASSUME NEW m \in Requests, MessageNext(m) PROVE DispatchTypes'
  BY <1>1, <1>5, MessageTypes
<1>6. ASSUME MailboxMoves PROVE DispatchTypes'
  <2>1. UNCHANGED <<phase, user, messageVars, metadata, accepted>>
    BY <1>6 DEF MailboxMoves, Box!Deliver, Box!Shut
  <2>2. wire' \in Seq(Replies) /\ open' \in BOOLEAN
    <3>1. CASE Box!Deliver
      <4>1. Len(wire) \in Nat /\ Len(accepted) \in Nat
        BY <1>1 DEF DispatchTypes
      <4>2. accepted[Len(wire) + 1] \in Replies
        BY <1>1, <3>1, <4>1 DEF Box!Deliver, DispatchTypes
      <4> QED BY <1>1, <3>1, <4>2 DEF Box!Deliver, DispatchTypes
    <3>2. CASE Box!Shut
      BY <1>1, <3>2 DEF Box!Shut, DispatchTypes
    <3> QED BY <1>6, <3>1, <3>2 DEF MailboxMoves
  <2> QED BY <1>1, <2>1, <2>2 DEF messageVars, DispatchTypes
<1>7. DispatchTypes'
  <2>1. CASE UNCHANGED vars
    BY <1>3, <2>1 DEF vars
  <2> QED BY <1>3, <1>4, <1>5, <1>6, <2>1 DEF Next
<1> QED BY <1>2, <1>7 DEF TypeOK, DispatchTypes, Replies

\* The initial values have their types, and none of the hazards has struck.
LEMMA TypeInit == Init => TypeOK
<1> SUFFICES ASSUME Init PROVE TypeOK
  OBVIOUS
<1>1. RegistryTypeOK
  <2>1. /\ look \in [Lookers -> {"none", "exists", "member", "star"} \cup Answers]
        /\ asked \in [Lookers -> Names \cup {Blank}]
        /\ held \in [Lookers -> SUBSET Names]
    BY DEF Init, RegistryInit
  <2>2. isMember \in [Lookers -> BOOLEAN] /\ seen \in [Lookers -> BOOLEAN]
    BY DEF Init, RegistryInit
  <2>3. /\ op \in [Writers -> {"idle", "sadd", "expire", "srem", "delete"}]
        /\ members \in [Writers -> SUBSET Names]
    BY DEF Init, RegistryInit
  <2>4. methods \subseteq Names /\ leased \in BOOLEAN /\ (leased => methods # {})
    BY DEF Init, RegistryInit
  <2>5. faults \in 0..MaxFaults
    BY FaultsAssumption DEF Init, RegistryInit
  <2> QED BY <2>1, <2>2, <2>3, <2>4, <2>5 DEF RegistryTypeOK
<1>2. 1 \in 1..(Len(AuthFields) + 1)
  BY DEF AuthFields
<1>3. accepted \in Seq(Replies) /\ wire \in Seq(Replies) /\ open \in BOOLEAN
  BY DEF Init, Box!Init
<1> QED BY <1>1, <1>2, <1>3 DEF Init, TypeOK, Replies

\* The types of Dispatch, of the registry and of the mailbox hold in every
\* reachable state, for any messages, handshakes, methods, writers and queries.
THEOREM DispatchTypeCorrect == Spec => []TypeOK
<1>1. Init => TypeOK
  BY TypeInit
<1>2. TypeOK /\ [Next]_vars => TypeOK'
  BY TypeStep
<1> QED BY <1>1, <1>2, PTL DEF Spec

------------------------------------------------------------------------------
(* The registry's promises.                                                *)

\* RegisterService never leaves a set of methods without a TTL behind, unless one
\* of its Redis calls or its gateway failed: whatever other replicas register or
\* unregister between SADD and EXPIRE.
THEOREM RegistryKeepsItsTTL == Spec => []UnleasedIsPending
<1>1. Init => UnleasedIsPending
  BY DEF Init, RegistryInit, UnleasedIsPending
<1>2. TypeOK /\ UnleasedIsPending /\ [Next]_vars => UnleasedIsPending'
  BY RegistrySteps, LeaseStep DEF TypeOK
<1> QED BY <1>1, <1>2, DispatchTypeCorrect, PTL DEF Spec

\* checkServiceRegistered and GetService refuse nobody whose method, or "*", was
\* registered through all their reads, and admit nobody for whom neither ever was.
THEOREM AnswersCurrent == Spec => AnswersAreCurrent
<1>1. Init => LookInv
  BY DEF Init, RegistryInit, LookInv, Looking
<1>2. TypeOK /\ LookInv /\ [Next]_vars => LookInv'
  BY RegistrySteps, LookStep DEF TypeOK
<1>3. TypeOK /\ LookInv /\ [Next]_vars =>
        [\A l \in Lookers :
           /\ look[l] # "refused" /\ look'[l] = "refused" => held[l] = {}
           /\ look[l] # "registered" /\ look'[l] = "registered" => seen[l]]_registryVars
  BY RegistrySteps, AnswerStep DEF TypeOK
<1> QED BY <1>1, <1>2, <1>3, DispatchTypeCorrect, PTL DEF Spec, AnswersAreCurrent

------------------------------------------------------------------------------
(* HandleAuth.                                                             *)

AuthBound == \A m \in Requests : pc[m] = "auth" /\ Foreign(frame[m]) => keyAt[m] <= 3

\* No message is read before the handshake, so no user changes under a goroutine,
\* and HandleAuth never gets past user_id in a message that names a foreign one.
AuthInv ==
  /\ RefusedAuthLeavesDevice
  /\ phase # "open" => \A m \in Requests : pc[m] = "unread"
  /\ AuthBound

\* From before user_id, HandleAuth gets no further than user_id.
LEMMA ForeignStops ==
  ASSUME NEW f, NEW i \in 1..3, Foreign(f) PROVE NextField(f, i) \in i..3
<1>1. Len(AuthFields) = 6 /\ AuthFields[3] = "user_id" /\ 3 \in DOMAIN AuthFields
  BY DEF AuthFields
<1>2. StopsAt(f, 3)
  BY <1>1 DEF StopsAt
<1>3. i \in 1..(Len(AuthFields) + 1)
  BY <1>1
<1>4. NextField(f, i) \in i..7 /\ \A n \in i..(NextField(f, i) - 1) : ~ StopsAt(f, n)
  BY <1>1, <1>3, NextFieldExists
<1>5. NextField(f, i) <= 3
  BY <1>2, <1>4
<1> QED BY <1>4, <1>5

\* One step of one message keeps what is known of HandleAuth.
LEMMA AuthMessageStep ==
  ASSUME TypeOK, AuthInv, NEW m \in Requests, MessageNext(m) PROVE AuthInv'
<1>1. phase = "open" /\ UNCHANGED <<phase, user>>
  BY DEF MessageNext, AuthInv, Read, Handle, AuthBegins, AuthStores, AuthReturns,
         CheckReturns, CallReturns, ReplySent, ReplyRefused, SendError
<1>3. CASE AuthStores(m)
  <2>1. keyAt[m] \in 1..6 /\ AuthFields[keyAt[m]] # "user_id"
    BY <1>3 DEF AuthStores, AuthFields, TypeOK
  <2>2. UNCHANGED <<frame, pc>>
    BY <1>3 DEF AuthStores
  <2>3. keyAt' = [keyAt EXCEPT ![m] = NextField(frame[m], keyAt[m] + 1)]
    BY <1>3 DEF AuthStores
  <2>4. CASE Foreign(frame[m])
    <3>1. pc[m] = "auth" /\ keyAt[m] <= 3
      BY <1>3, <2>4 DEF AuthInv, AuthBound, AuthStores
    <3>2. keyAt[m] \in {1, 2} /\ AuthFields[keyAt[m]] \notin DeviceFields
      BY <2>1, <3>1 DEF AuthFields, DeviceFields
    <3>3. NextField(frame[m], keyAt[m] + 1) <= 3
      BY <2>4, <3>2, ForeignStops
    <3>4. AuthBound'
      BY <1>1, <2>2, <2>3, <3>3 DEF AuthInv, AuthBound, Foreign, TypeOK
    <3>5. RefusedAuthLeavesDevice'
      BY <1>3, <3>2 DEF AuthInv, RefusedAuthLeavesDevice, AuthStores, TypeOK, Fields
    <3> QED BY <1>1, <3>4, <3>5 DEF AuthInv
  <2>5. CASE ~ Foreign(frame[m])
    <3>1. AuthBound'
      BY <1>1, <2>2, <2>3, <2>5 DEF AuthInv, AuthBound, Foreign, TypeOK
    <3>2. RefusedAuthLeavesDevice'
      BY <1>3, <2>5 DEF AuthInv, RefusedAuthLeavesDevice, AuthStores, TypeOK, Fields
    <3> QED BY <1>1, <3>1, <3>2 DEF AuthInv
  <2> QED BY <2>4, <2>5
<1>4. CASE AuthBegins(m)
  <2>1. UNCHANGED <<frame, metadata>> /\ pc' = [pc EXCEPT ![m] = "auth"]
    BY <1>4 DEF AuthBegins, Goes
  <2>2. keyAt' = [keyAt EXCEPT ![m] = NextField(frame[m], 1)]
    BY <1>4 DEF AuthBegins
  <2>3. Foreign(frame[m]) => NextField(frame[m], 1) <= 3
    BY ForeignStops
  <2>4. AuthBound'
    BY <1>1, <2>1, <2>2, <2>3 DEF AuthInv, AuthBound, Foreign, TypeOK
  <2> QED BY <1>1, <2>1, <2>4 DEF AuthInv, RefusedAuthLeavesDevice
<1>5. CASE ~ AuthStores(m) /\ ~ AuthBegins(m)
  <2>1. UNCHANGED metadata /\ pc'[m] # "auth"
    <3>1. CASE Handle(m)
      <4>1. pc'[m] = RouteOf(frame[m]) /\ RouteOf(frame[m]) # "auth" /\ UNCHANGED metadata
        BY <3>1 DEF Handle, Goes, TypeOK
      <4> QED BY <4>1
    <3>2. CASE ~ Handle(m)
      BY <1>5, <3>2 DEF MessageNext, Read, AuthReturns, CheckReturns, CallReturns, ReplySent,
                        ReplyRefused, SendError, Goes, Ends, TypeOK
    <3> QED BY <3>1, <3>2
  <2>2. \A n \in Requests \ {m} :
          pc'[n] = pc[n] /\ frame'[n] = frame[n] /\ keyAt'[n] = keyAt[n]
    BY <1>5 DEF MessageNext, Read, Handle, AuthReturns, CheckReturns, CallReturns, ReplySent,
                ReplyRefused, SendError, Goes, Ends, TypeOK
  <2>3. AuthBound'
    BY <1>1, <2>1, <2>2 DEF AuthInv, AuthBound, Foreign
  <2> QED BY <1>1, <2>1, <2>3 DEF AuthInv, RefusedAuthLeavesDevice
<1> QED BY <1>3, <1>4, <1>5

\* What is known of HandleAuth holds in every reachable state.
LEMMA AuthInvariance == Spec => []AuthInv
<1>1. Init => AuthInv
  BY DEF Init, AuthInv, AuthBound, RefusedAuthLeavesDevice, DeviceFields, Fields
<1>2. TypeOK /\ AuthInv /\ [Next]_vars => AuthInv'
  <2> SUFFICES ASSUME TypeOK, AuthInv, [Next]_vars PROVE AuthInv'
    OBVIOUS
  <2>1. ASSUME UNCHANGED <<phase, user, messageVars, metadata>> PROVE AuthInv'
    BY <2>1 DEF messageVars, AuthInv, AuthBound, RefusedAuthLeavesDevice, Foreign
  <2>2. ASSUME NEW h \in Handshakes, Connect(h) PROVE AuthInv'
    BY <2>2 DEF Connect, messageVars, AuthInv, AuthBound, RefusedAuthLeavesDevice
  <2>3. ASSUME NEW m \in Requests, MessageNext(m) PROVE AuthInv'
    BY <2>3, AuthMessageStep
  <2> QED BY <2>1, <2>2, <2>3 DEF Next, MailboxMoves, vars, dispatchVars
<1> QED BY <1>1, <1>2, DispatchTypeCorrect, PTL DEF Spec

\* No message that HandleAuth refuses for its user_id gets a device field into the
\* metadata of the connection, in whatever order the goroutines of the connection
\* store their fields.
THEOREM RefusedAuthStopsInTime == Spec => []RefusedAuthLeavesDevice
<1>1. AuthInv => RefusedAuthLeavesDevice
  BY DEF AuthInv
<1> QED BY <1>1, AuthInvariance, PTL

------------------------------------------------------------------------------
(* Replies.                                                                *)

\* A message whose answer is in the mailbox is over, and the id of the reply that
\* a goroutine is about to send is the one of its message.
ReplyInv ==
  /\ OneAnswer
  /\ \A i \in DOMAIN accepted : pc[accepted[i].to] = "answered"
  /\ \A m \in Requests : sending[m] \in {m, NoId}

\* A reply accepted for a message without one, whose goroutine ends with it.
LEMMA ReplyAccepted ==
  ASSUME TypeOK, ReplyInv, NEW m \in Requests, NEW id \in {m, NoId},
         pc[m] # "answered", Accepts(m, id), Ends(m, "answered")
  PROVE ReplyInv'
<1> DEFINE r == [to |-> m, id |-> id]
<1>1. accepted \in Seq(Replies) /\ r \in Replies
  BY DEF TypeOK, Replies
<1>2. accepted' = Append(accepted, r)
  BY DEF Accepts, Box!Accept
<1>3. /\ DOMAIN accepted' = DOMAIN accepted \cup {Len(accepted) + 1}
      /\ accepted'[Len(accepted) + 1] = r
      /\ \A i \in DOMAIN accepted : accepted'[i] = accepted[i]
  BY <1>1, <1>2
<1>4. /\ pc' = [pc EXCEPT ![m] = "answered"]
      /\ sending' = [sending EXCEPT ![m] = NoId]
  BY DEF Ends, Goes
<1>5. \A i \in DOMAIN accepted : accepted[i].to # m
  BY DEF ReplyInv
<1>6. \A i \in DOMAIN accepted' : pc'[accepted'[i].to] = "answered"
  <2>1. \A i \in DOMAIN accepted : accepted[i].to \in Requests
    <3>1. \A i \in DOMAIN accepted : accepted[i] \in Replies
      BY <1>1
    <3> QED BY <3>1 DEF Replies
  <2> QED BY <1>3, <1>4, <2>1 DEF ReplyInv, TypeOK
<1>7. \A n \in Requests : sending'[n] \in {n, NoId}
  BY <1>4 DEF ReplyInv, TypeOK
<1>8. OneAnswer'
  <2>1. \A i \in DOMAIN accepted' : accepted'[i].id \in {accepted'[i].to, NoId}
    BY <1>3 DEF ReplyInv, OneAnswer
  <2>2. ASSUME NEW i \in DOMAIN accepted', NEW j \in DOMAIN accepted',
               accepted'[i].to = accepted'[j].to
        PROVE i = j
    <3>1. CASE i \in DOMAIN accepted /\ j \in DOMAIN accepted
      BY <1>3, <2>2, <3>1 DEF ReplyInv, OneAnswer
    <3>2. CASE ~ (i \in DOMAIN accepted /\ j \in DOMAIN accepted)
      BY <1>3, <1>5, <2>2, <3>2
    <3> QED BY <3>1, <3>2
  <2> QED BY <2>1, <2>2 DEF OneAnswer
<1> QED BY <1>6, <1>7, <1>8 DEF ReplyInv

\* One step of one message keeps what is known of replies.
LEMMA ReplyMessageStep ==
  ASSUME TypeOK, ReplyInv, NEW m \in Requests, MessageNext(m) PROVE ReplyInv'
<1>1. CASE ReplySent(m)
  <2>1. pc[m] # "answered" /\ sending[m] \in {m, NoId}
    BY <1>1 DEF ReplySent, ReplyInv
  <2> QED BY <1>1, <2>1, ReplyAccepted DEF ReplySent
<1>2. CASE SendError(m) /\ Accepts(m, NoId) /\ Ends(m, "answered")
  <2>1. pc[m] # "answered"
    BY <1>2 DEF SendError
  <2> QED BY <1>2, <2>1, ReplyAccepted
<1>3. CASE /\ UNCHANGED accepted
           /\ \A n \in Requests : pc[n] = "answered" => pc'[n] = "answered"
           /\ \A n \in Requests : sending'[n] \in {n, NoId}
  <2>1. \A i \in DOMAIN accepted : accepted[i].to \in Requests
    <3>1. accepted \in Seq(Replies)
      BY DEF TypeOK, Replies
    <3>2. \A i \in DOMAIN accepted : accepted[i] \in Replies
      BY <3>1
    <3> QED BY <3>2 DEF Replies
  <2> QED BY <1>3, <2>1 DEF ReplyInv, OneAnswer
<1>4. ASSUME UNCHANGED accepted, pc[m] # "answered",
             \A n \in Requests \ {m} : pc'[n] = pc[n] /\ sending'[n] = sending[n],
             sending'[m] \in {m, NoId}
      PROVE ReplyInv'
  BY <1>3, <1>4 DEF ReplyInv
<1>5. sending[m] \in {m, NoId}
  BY DEF ReplyInv
<1>6. CASE Read(m) \/ Handle(m) \/ AuthBegins(m) \/ AuthStores(m) \/ AuthReturns(m)
  BY <1>4, <1>5, <1>6 DEF Read, Handle, AuthBegins, AuthStores, AuthReturns, Goes, mailVars,
                          TypeOK
<1>7. CASE CheckReturns(m)
  BY <1>4, <1>5, <1>7 DEF CheckReturns, Goes, RequestID, mailVars, TypeOK
<1>8. CASE CallReturns(m)
  <2>1. PICK e \in Echoes \cup {"own"} : sending' = [sending EXCEPT ![m] = ResponseID(m, e)]
    BY <1>8 DEF CallReturns
  <2>2. ResponseID(m, e) \in {m, NoId}
    BY DEF ResponseID, RequestID
  <2> QED BY <1>4, <1>8, <2>1, <2>2 DEF CallReturns, Goes, mailVars, TypeOK
<1>9. CASE ReplyRefused(m)
  BY <1>4, <1>5, <1>9 DEF ReplyRefused, Goes, Ends, mailVars, TypeOK
<1>10. CASE SendError(m) /\ Ends(m, "dropped") /\ UNCHANGED mailVars
  BY <1>4, <1>10 DEF SendError, Goes, Ends, mailVars, TypeOK
<1> QED BY <1>1, <1>2, <1>6, <1>7, <1>8, <1>9, <1>10 DEF MessageNext, SendError

\* A client gets one answer to a message at most, with no other message's id,
\* however many goroutines and handlers send to its connection.
THEOREM OneAnswerEach == Spec => []OneAnswer
<1>1. Init => ReplyInv
  BY DEF Init, Box!Init, ReplyInv, OneAnswer
<1>2. TypeOK /\ ReplyInv /\ [Next]_vars => ReplyInv'
  <2> SUFFICES ASSUME TypeOK, ReplyInv, [Next]_vars PROVE ReplyInv'
    OBVIOUS
  <2>1. ASSUME UNCHANGED <<messageVars, accepted>> PROVE ReplyInv'
    BY <2>1 DEF messageVars, ReplyInv, OneAnswer
  <2>2. ASSUME NEW m \in Requests, MessageNext(m) PROVE ReplyInv'
    BY <2>2, ReplyMessageStep
  <2>3. CASE MailboxMoves
    BY <2>1, <2>3 DEF MailboxMoves, Box!Deliver, Box!Shut
  <2>4. ASSUME NEW h \in Handshakes, Connect(h) PROVE ReplyInv'
    BY <2>1, <2>4 DEF Connect, mailVars
  <2> QED BY <2>1, <2>2, <2>3, <2>4 DEF Next, vars, dispatchVars, mailVars
<1>3. ReplyInv => OneAnswer
  BY DEF ReplyInv
<1> QED BY <1>1, <1>2, <1>3, DispatchTypeCorrect, PTL DEF Spec

------------------------------------------------------------------------------
(* The backend.                                                            *)

\* The check was about this request, and it has let it through.
CheckInv ==
  \A m \in Requests :
    /\ pc[m] \in {"check", "call"} => frame[m].type = "request" /\ frame[m].method # Blank
    /\ pc[m] = "call" => look[m] = "registered"

\* Only a request with a method goes to the check.
LEMMA ChecksAreOfRequests ==
  ASSUME NEW f, RouteOf(f) = "check" PROVE f.type = "request" /\ f.method # Blank
<1>1. DOMAIN Handlers = {"auth", "request"} /\ Handlers["auth"] = "auth"
  BY DEF Handlers
<1>2. DefaultHandler(f.type) # "check"
  BY DEF DefaultHandler
<1>3. Valid(f) /\ f.type \in DOMAIN Handlers /\ Handlers[f.type] = "check"
  BY <1>2 DEF RouteOf
<1>4. f.type = "request"
  BY <1>1, <1>3
<1> QED BY <1>3, <1>4 DEF Valid

\* A verdict about a request stays: only GetService starts over.
LEMMA VerdictStays ==
  ASSUME RegistryTypeOK, RegistryNext, NEW m \in Requests, look[m] = "registered"
  PROVE  look'[m] = "registered"
<1>1. m \in Lookers /\ m \notin Queries
  BY LookersAssumption DEF Lookers
<1>2. ASSUME NEW w \in Writers, WriterNext(w) PROVE UNCHANGED look
  BY <1>2 DEF WriterNext, Register, Unregister, SAddReturns, ExpireReturns, RemoveReturns,
              WriteFails, WriteAnswerLost, WriterGoes, lookVars
<1>3. ASSUME NEW q \in Queries, BeginQuery(q) \/ QueryReturns(q) PROVE look'[m] = look[m]
  BY <1>1, <1>3 DEF BeginQuery, BeginLook, QueryReturns, LookGoes, RegistryTypeOK
<1>4. ASSUME NEW l \in Lookers, ReadNext(l) PROVE look'[m] = look[m]
  BY <1>1, <1>4 DEF ReadNext, ReadExists, ReadMember, ReadStar, ReadFails, Answer, LookGoes,
                    Looking, RegistryTypeOK
<1>5. KeyLapses => UNCHANGED look
  BY DEF KeyLapses, lookVars
<1> QED BY <1>2, <1>3, <1>4, <1>5 DEF RegistryNext

\* One step of one message keeps what is known of checks.
LEMMA CheckMessageStep ==
  ASSUME TypeOK, CheckInv, NEW m \in Requests, MessageNext(m) PROVE CheckInv'
<1>1. \A n \in Requests \ {m} :
         pc'[n] = pc[n] /\ frame'[n] = frame[n] /\ look'[n] = look[n]
  <2>1. CASE Handle(m)
    BY <2>1 DEF Handle, Goes, BeginLook, registryVars, lookVars, TypeOK, RegistryTypeOK, Lookers
  <2>2. CASE ~ Handle(m)
    BY <2>2 DEF MessageNext, Read, AuthBegins, AuthStores, AuthReturns, CheckReturns, CallReturns,
            ReplySent, ReplyRefused, SendError, Goes, Ends, registryVars, lookVars, TypeOK
  <2> QED BY <2>1, <2>2
<1>2. CASE Handle(m)
  <2>1. pc'[m] = RouteOf(frame[m]) /\ frame'[m] = frame[m]
    BY <1>2 DEF Handle, Goes, TypeOK
  <2>2. pc'[m] # "call"
    BY <2>1, RouteOfIsAHandler
  <2>3. pc'[m] = "check" => frame[m].type = "request" /\ frame[m].method # Blank
    BY <2>1, ChecksAreOfRequests
  <2> QED BY <1>1, <2>1, <2>2, <2>3 DEF CheckInv
<1>3. CASE CheckReturns(m)
  <2>1. /\ frame'[m] = frame[m] /\ look'[m] = look[m] /\ pc[m] = "check"
        /\ pc'[m] = "reply" \/ (pc'[m] = "call" /\ look[m] = "registered")
    BY <1>3 DEF CheckReturns, Goes, registryVars, lookVars, TypeOK
  <2> QED BY <1>1, <2>1 DEF CheckInv
<1>4. CASE ~ Handle(m) /\ ~ CheckReturns(m)
  <2>1. pc'[m] \notin {"check", "call"}
    BY <1>4 DEF MessageNext, Read, AuthBegins, AuthStores, AuthReturns, CallReturns,
            ReplySent, ReplyRefused, SendError, Goes, Ends, TypeOK
  <2> QED BY <1>1, <2>1 DEF CheckInv
<1> QED BY <1>2, <1>3, <1>4

\* A backend is called for requests only, of a connection bound to a user, with a
\* method that the registry has answered for.
CallsAreChecked ==
  \A m \in Requests : pc[m] = "call" =>
    /\ phase = "open" /\ user \in Users
    /\ frame[m].type = "request" /\ frame[m].method \in Names
    /\ look[m] = "registered"

\* However the goroutines of a connection and the replicas of a service interleave, no
\* message reaches a backend but an authenticated request whose own check has passed
\* (with AnswersCurrent: whose method, or "*", was registered at some moment of it).
THEOREM OnlyCheckedAreCalled == Spec => []CallsAreChecked
<1>1. Init => CheckInv
  BY DEF Init, CheckInv
<1>2. TypeOK /\ CheckInv /\ [Next]_vars => CheckInv'
  <2> SUFFICES ASSUME TypeOK, CheckInv, [Next]_vars PROVE CheckInv'
    OBVIOUS
  <2>1. ASSUME UNCHANGED <<messageVars, registryVars>> PROVE CheckInv'
    BY <2>1 DEF messageVars, registryVars, lookVars, CheckInv
  <2>2. CASE RegistryNext /\ UNCHANGED dispatchVars
    BY <2>2, VerdictStays DEF dispatchVars, messageVars, CheckInv, TypeOK
  <2>3. ASSUME NEW m \in Requests, MessageNext(m) PROVE CheckInv'
    BY <2>3, CheckMessageStep
  <2>4. ASSUME NEW h \in Handshakes, Connect(h) PROVE CheckInv'
    BY <2>1, <2>4 DEF Connect
  <2> QED BY <2>1, <2>2, <2>3, <2>4 DEF Next, MailboxMoves, vars, dispatchVars
<1>3. TypeOK /\ AuthInv /\ CheckInv => CallsAreChecked
  <2> SUFFICES ASSUME TypeOK, AuthInv, CheckInv, NEW m \in Requests, pc[m] = "call"
               PROVE  /\ phase = "open" /\ user \in Users
                      /\ frame[m].type = "request" /\ frame[m].method \in Names
                      /\ look[m] = "registered"
    BY DEF CallsAreChecked
  <2>1. phase = "open" /\ user \in Users
    BY DEF AuthInv, TypeOK
  <2>2. frame[m].type = "request" /\ frame[m].method # Blank /\ look[m] = "registered"
    BY DEF CheckInv
  <2>3. frame[m] \in Frames
    <3>1. NoFrame.method = Blank
      BY DEF NoFrame
    <3> QED BY <2>2, <3>1 DEF TypeOK
  <2> QED BY <2>1, <2>2, <2>3, FramesAssumption
<1> QED BY <1>1, <1>2, <1>3, DispatchTypeCorrect, AuthInvariance, PTL DEF Spec

------------------------------------------------------------------------------
(* The mailbox.                                                            *)

\* The replies of a connection go through its mailbox and nothing else touches it.
UsesMailbox == Box!Spec

\* Whatever the goroutines of a connection do, its replies and errors enter the mailbox
\* one at a time while it is open and has room, and leave it in that order: Dispatch uses
\* the interface that SendQueue is proved to implement.
THEOREM DispatchUsesMailbox == Spec => UsesMailbox
<1>1. Init => Box!Init
  BY DEF Init
<1>2. TypeOK /\ [Next]_vars => [Box!Next]_Box!vars
  <2> SUFFICES ASSUME TypeOK, [Next]_vars PROVE [Box!Next]_Box!vars
    OBVIOUS
  <2>1. ASSUME UNCHANGED mailVars PROVE UNCHANGED Box!vars
    BY <2>1 DEF mailVars, Box!vars
  <2>2. ASSUME NEW m \in Requests, NEW id \in Requests \cup {NoId}, Accepts(m, id)
        PROVE Box!Next
    BY <2>2 DEF Accepts, Box!Next
  <2>3. ASSUME NEW m \in Requests, MessageNext(m) PROVE [Box!Next]_Box!vars
    <3>1. CASE ReplySent(m)
      BY <2>2, <3>1 DEF ReplySent, TypeOK
    <3>2. CASE SendError(m)
      BY <2>1, <2>2, <3>2 DEF SendError
    <3>3. CASE ~ ReplySent(m) /\ ~ SendError(m)
      BY <2>1, <2>3, <3>3 DEF MessageNext, Read, Handle, AuthBegins, AuthStores, AuthReturns,
                              CheckReturns, CallReturns, ReplyRefused
    <3> QED BY <3>1, <3>2, <3>3
  <2>4. CASE MailboxMoves
    BY <2>4 DEF MailboxMoves, Box!Next
  <2>5. ASSUME NEW h \in Handshakes, Connect(h) PROVE UNCHANGED mailVars
    BY <2>5 DEF Connect
  <2>6. (RegistryNext /\ UNCHANGED dispatchVars) \/ UNCHANGED vars => UNCHANGED mailVars
    BY DEF dispatchVars, vars
  <2> QED BY <2>1, <2>3, <2>4, <2>5, <2>6 DEF Next
<1> QED BY <1>1, <1>2, DispatchTypeCorrect, PTL DEF Spec, UsesMailbox, Box!Spec
===============================================================================
