--------------------------- MODULE ServiceRegistry ----------------------------
(***************************************************************************)
(* The registry of one backend service: a Redis set of method names that   *)
(* RegisterService and UnregisterService write and that GetService and, for *)
(* every request, WebSocketHandler.checkServiceRegistered read            *)
(* (backbon/service/service_registry.go, backbon/storage/service_registry.go, *)
(* frontier/handler_ws.go).  Each Redis call is one action, so calls of     *)
(* several replicas and the reads of a check fall between one another.     *)
(***************************************************************************)
EXTENDS Integers, FiniteSets

CONSTANTS Methods,    \* method names of the service
          All,        \* the member "*": every method is supported
          Blank,      \* the empty string as a method name
          Writers,    \* goroutines that serve RegisterService and UnregisterService
          MethodLists,   \* the method lists such calls carry, as sets
          Requests,   \* request messages, each checked once (see Dispatch)
          Queries,    \* goroutines that serve GetService
          MaxFaults   \* bound: writes that fail or lose their answer, gateways that die

Names == Methods \cup {All}
Lookers == Requests \cup Queries

ASSUME NamesAssumption == All \notin Methods /\ Blank \notin Names
ASSUME ListsAssumption == MethodLists \subseteq SUBSET (Names \cup {Blank})
ASSUME LookersAssumption == Requests \cap Queries = {}
ASSUME FaultsAssumption == MaxFaults \in Nat

VARIABLES
  methods, leased,  \* the set, {} when there is no key, and whether the key has a TTL
  op, members,      \* the Redis call a writer is about to make, and its arguments
  look, asked, isMember,   \* progress of a lookup, its method, what SIsMember said
  held,             \* history: names that answer "yes" and were there all along
  seen,             \* history: such a name was there at some moment
  faults

writerVars == <<op, members>>
lookVars == <<look, asked, isMember>>
registryVars == <<methods, leased, writerVars, lookVars, held, seen, faults>>

Looking(l) == look[l] \in {"exists", "member", "star"}
Answers == {"registered", "refused", "failed"}

RegistryTypeOK ==
  /\ methods \subseteq Names
  /\ leased \in BOOLEAN /\ (leased => methods # {})
  /\ op \in [Writers -> {"idle", "sadd", "expire", "srem", "delete"}]
  /\ members \in [Writers -> SUBSET Names]
  /\ look \in [Lookers -> {"none", "exists", "member", "star"} \cup Answers]
  /\ asked \in [Lookers -> Names \cup {Blank}]
  /\ isMember \in [Lookers -> BOOLEAN]
  /\ held \in [Lookers -> SUBSET Names]
  /\ seen \in [Lookers -> BOOLEAN]
  /\ faults \in 0..MaxFaults

RegistryInit ==
  /\ methods = {} /\ leased = FALSE
  /\ op = [w \in Writers |-> "idle"]
  /\ members = [w \in Writers |-> {}]
  /\ look = [l \in Lookers |-> "none"]
  /\ asked = [l \in Lookers |-> Blank]
  /\ isMember = [l \in Lookers |-> FALSE]
  /\ held = [l \in Lookers |-> {}]
  /\ seen = [l \in Lookers |-> FALSE]
  /\ faults = 0

Fault == faults < MaxFaults /\ faults' = faults + 1

------------------------------------------------------------------------------
(* The Redis set.  SADD on a missing key makes one without a TTL, an emptied *)
(* set is no key; whoever is looking sees the change.                      *)

\* The names whose presence makes a lookup of m succeed.
Serving(m) == IF m = Blank THEN Names ELSE {m, All}

\* The set becomes S; if the key exists it has a TTL exactly when lease says so.
Store(S, lease) ==
  /\ methods' = S
  /\ leased' = (lease /\ S # {})
  /\ held' = [l \in Lookers |-> held[l] \cap S]
  /\ seen' = [l \in Lookers |-> seen[l] \/ (Looking(l) /\ Serving(asked[l]) \cap S # {})]

SAdd(S) == Store(methods \cup S, leased)

KeyLapses ==
  /\ leased /\ Store({}, FALSE)
  /\ UNCHANGED <<writerVars, lookVars, faults>>

------------------------------------------------------------------------------
(* RegisterService and UnregisterService.                                  *)

\* stringutil.FilterEmpty; a call without a valid method ends in an error.
FilterEmpty(S) == S \ {Blank}

\* An empty list stands for every method.
Register(w, S) ==
  LET named == IF S = {} THEN {All} ELSE S IN
  /\ op[w] = "idle" /\ FilterEmpty(named) # {}
  /\ op' = [op EXCEPT ![w] = "sadd"]
  /\ members' = [members EXCEPT ![w] = FilterEmpty(named)]
  /\ UNCHANGED <<methods, leased, lookVars, held, seen, faults>>

\* An empty list deletes the key, the methods other replicas registered included.
Unregister(w, S) ==
  /\ op[w] = "idle" /\ (S # {} => FilterEmpty(S) # {})
  /\ op' = [op EXCEPT ![w] = IF S = {} THEN "delete" ELSE "srem"]
  /\ members' = [members EXCEPT ![w] = FilterEmpty(S)]
  /\ UNCHANGED <<methods, leased, lookVars, held, seen, faults>>

WriterGoes(w, pc) ==
  /\ op' = [op EXCEPT ![w] = pc]
  /\ members' = [members EXCEPT ![w] = {}]
  /\ UNCHANGED lookVars

\* Mutant: the TTL of a set that was not there is never set.
SAddReturnsUnlessNew(w) ==
  /\ op[w] = "sadd" /\ SAdd(members[w])
  /\ WriterGoes(w, IF methods = {} THEN "idle" ELSE "expire") /\ UNCHANGED faults

SAddReturns(w) ==
  /\ op[w] = "sadd" /\ SAdd(members[w])
  /\ WriterGoes(w, "expire") /\ UNCHANGED faults

\* EXPIRE, 7 days: no effect on a missing key.
ExpireReturns(w) ==
  /\ op[w] = "expire" /\ Store(methods, TRUE)
  /\ WriterGoes(w, "idle") /\ UNCHANGED faults

RemoveReturns(w) ==
  /\ \/ op[w] = "srem" /\ Store(methods \ members[w], leased)
     \/ op[w] = "delete" /\ Store({}, FALSE)
  /\ WriterGoes(w, "idle") /\ UNCHANGED faults

\* The call fails, or its gateway dies before it.  A failed EXPIRE is only logged.
WriteFails(w) ==
  /\ op[w] # "idle" /\ Fault
  /\ WriterGoes(w, "idle") /\ UNCHANGED <<methods, leased, held, seen>>

\* The call is executed but its answer is lost: no EXPIRE follows the SADD.
WriteAnswerLost(w) ==
  /\ Fault
  /\ \/ op[w] = "sadd" /\ SAdd(members[w])
     \/ op[w] = "srem" /\ Store(methods \ members[w], leased)
     \/ op[w] = "delete" /\ Store({}, FALSE)
  /\ WriterGoes(w, "idle")

WriterNext(w) ==
  \/ \E S \in MethodLists : Register(w, S) \/ Unregister(w, S)
  \/ SAddReturns(w) \/ ExpireReturns(w) \/ RemoveReturns(w)
  \/ WriteFails(w) \/ WriteAnswerLost(w)

------------------------------------------------------------------------------
(* Lookups: EXISTS, SISMEMBER of the method, SISMEMBER of "*".             *)

BeginLook(l, m) ==
  /\ look[l] = "none"
  /\ look' = [look EXCEPT ![l] = "exists"]
  /\ asked' = [asked EXCEPT ![l] = m]
  /\ held' = [held EXCEPT ![l] = Serving(m) \cap methods]
  /\ seen' = [seen EXCEPT ![l] = Serving(m) \cap methods # {}]
  /\ UNCHANGED <<methods, leased, writerVars, isMember, faults>>

LookGoes(l, pc) ==
  /\ look' = [look EXCEPT ![l] = pc]
  /\ UNCHANGED <<methods, leased, writerVars, asked, held, seen, faults>>

\* The lookup is over; its history has served its purpose.
Answer(l, a) ==
  /\ look' = [look EXCEPT ![l] = a]
  /\ asked' = [asked EXCEPT ![l] = Blank]
  /\ isMember' = [isMember EXCEPT ![l] = FALSE]
  /\ held' = [held EXCEPT ![l] = {}]
  /\ seen' = [seen EXCEPT ![l] = FALSE]
  /\ UNCHANGED <<methods, leased, writerVars>>

\* GetService without a method is content with the key.
ReadExists(l) ==
  /\ look[l] = "exists"
  /\ \/ methods = {} /\ Answer(l, "refused") /\ UNCHANGED faults
     \/ methods # {} /\ asked[l] = Blank /\ Answer(l, "registered") /\ UNCHANGED faults
     \/ methods # {} /\ asked[l] # Blank /\ LookGoes(l, "member") /\ UNCHANGED isMember

\* GetService stops at a member; checkServiceRegistered reads "*" all the same.
ReadMember(l) ==
  /\ look[l] = "member"
  /\ \/ /\ l \in Queries /\ asked[l] \in methods
        /\ Answer(l, "registered") /\ UNCHANGED faults
     \/ /\ ~ (l \in Queries /\ asked[l] \in methods)
        /\ isMember' = [isMember EXCEPT ![l] = asked[l] \in methods]
        /\ LookGoes(l, "star")

\* Mutant: the wildcard is read and forgotten.
ReadStarForgotten(l) ==
  /\ look[l] = "star"
  /\ Answer(l, IF isMember[l] THEN "registered" ELSE "refused") /\ UNCHANGED faults

ReadStar(l) ==
  /\ look[l] = "star"
  /\ Answer(l, IF isMember[l] \/ All \in methods THEN "registered" ELSE "refused")
  /\ UNCHANGED faults

\* A read fails, or the 10 s of HandleMessage are over.
ReadFails(l) == Looking(l) /\ Answer(l, "failed") /\ UNCHANGED faults

ReadNext(l) == ReadExists(l) \/ ReadMember(l) \/ ReadStar(l) \/ ReadFails(l)

\* GetService answers, and the goroutine is free for another call.
BeginQuery(q) == \E m \in Methods \cup {Blank} : BeginLook(q, m)

QueryReturns(q) ==
  /\ look[q] \in Answers
  /\ LookGoes(q, "none") /\ UNCHANGED isMember

RegistryNext ==
  \/ \E w \in Writers : WriterNext(w)
  \/ \E q \in Queries : BeginQuery(q) \/ QueryReturns(q)
  \/ \E l \in Lookers : ReadNext(l)
  \/ KeyLapses

------------------------------------------------------------------------------
\* A set without a TTL, which would outlive every process of its service, exists
\* only while the call that made it has yet to set the TTL, or after a fault:
\* neither another replica's Expire nor a deletion in between leaves one.
UnleasedIsPending ==
  methods # {} /\ ~ leased => faults > 0 \/ \E w \in Writers : op[w] = "expire"

\* The three reads of a lookup are not atomic.  Still nobody is refused while one
\* and the same name, the method or "*", was registered all along, and nobody is
\* let through for whom no such name was ever registered meanwhile.  (A service
\* that replaces "*" by its methods during the reads can be refused.)
AnswersAreCurrent ==
  [][\A l \in Lookers :
       /\ look[l] # "refused" /\ look'[l] = "refused" => held[l] = {}
       /\ look[l] # "registered" /\ look'[l] = "registered" => seen[l]]_registryVars
==============================================================================
