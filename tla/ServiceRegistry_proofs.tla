------------------------ MODULE ServiceRegistry_proofs ------------------------
(***************************************************************************)
(* What every step of the registry preserves, for any methods, writers and *)
(* lookups: types, the TTL of the set, and what a lookup knows between its  *)
(* reads.  Dispatch_proofs makes theorems of it.                           *)
(***************************************************************************)
EXTENDS ServiceRegistry, TLAPS

\* A step of the registry, the start of a check by Dispatch included.
RegistryStep ==
  RegistryNext \/ \E l \in Lookers, m \in Names \cup {Blank} : BeginLook(l, m)

\* What a lookup knows: the names it still counts on are in the set, whoever
\* serves it now has been seen, and a negative first answer means that its method
\* was not there all along.
LookInv ==
  \A l \in Lookers :
    /\ held[l] \subseteq methods
    /\ Looking(l) => /\ held[l] \subseteq Serving(asked[l])
                     /\ Serving(asked[l]) \cap methods # {} => seen[l]
    /\ look[l] \in {"member", "star"} => asked[l] # Blank
    /\ look[l] = "star" => /\ isMember[l] => seen[l]
                           /\ ~ isMember[l] => asked[l] \notin held[l]

\* Calls that answer leave the lookups alone.
Writes == UNCHANGED lookVars /\ \E S \in SUBSET Names, b \in BOOLEAN : Store(S, b)
Rests == UNCHANGED <<methods, leased, held, seen, lookVars>>

WriterTypes ==
  /\ op \in [Writers -> {"idle", "sadd", "expire", "srem", "delete"}]
  /\ members \in [Writers -> SUBSET Names]
  /\ faults \in 0..MaxFaults

\* A fault raises the count by one and stays within the bound.
LEMMA FaultType == ASSUME RegistryTypeOK, Fault PROVE faults' \in 0..MaxFaults /\ faults' > 0
  BY FaultsAssumption DEF RegistryTypeOK, Fault

\* What a call carries to Redis is a set of names (FilterEmpty drops the blank).
LEMMA ListsAreNames ==
  ASSUME NEW S \in MethodLists
  PROVE /\ FilterEmpty(S) \subseteq Names
        /\ FilterEmpty(IF S = {} THEN {All} ELSE S) \subseteq Names
  BY ListsAssumption DEF FilterEmpty, Names

\* A step of a writer is a write of names or leaves the set alone.
LEMMA WriterSteps ==
  ASSUME RegistryTypeOK, NEW w \in Writers, WriterNext(w)
  PROVE WriterTypes' /\ (Writes \/ Rests)
<1> USE DEF RegistryTypeOK, WriterTypes
<1>1. CASE \E S \in MethodLists : Register(w, S) \/ Unregister(w, S)
  <2>1. PICK S \in MethodLists : Register(w, S) \/ Unregister(w, S)
    BY <1>1
  <2>2. Rests
    BY <2>1 DEF Register, Unregister, Rests, lookVars
  <2>3. WriterTypes'
    <3>1. /\ FilterEmpty(S) \subseteq Names
          /\ FilterEmpty(IF S = {} THEN {All} ELSE S) \subseteq Names
      BY ListsAreNames
    <3>2. CASE Register(w, S)
      BY <3>1, <3>2 DEF Register
    <3>3. CASE Unregister(w, S)
      BY <3>1, <3>3 DEF Unregister
    <3> QED BY <2>1, <3>2, <3>3
  <2> QED BY <2>2, <2>3
<1>2. CASE SAddReturns(w)
  <2>1. methods \cup members[w] \in SUBSET Names
    OBVIOUS
  <2>2. Writes
    BY <1>2, <2>1 DEF SAddReturns, SAdd, Writes, WriterGoes
  <2>3. WriterTypes'
    BY <1>2 DEF SAddReturns, WriterGoes
  <2> QED BY <2>2, <2>3
<1>3. CASE ExpireReturns(w)
  <2>1. Writes
    BY <1>3 DEF ExpireReturns, Writes, WriterGoes
  <2>2. WriterTypes'
    BY <1>3 DEF ExpireReturns, WriterGoes
  <2> QED BY <2>1, <2>2
<1>4. CASE RemoveReturns(w)
  <2>1. methods \ members[w] \in SUBSET Names /\ {} \in SUBSET Names
    OBVIOUS
  <2>2. Writes
    BY <1>4, <2>1 DEF RemoveReturns, Writes, WriterGoes
  <2>3. WriterTypes'
    BY <1>4 DEF RemoveReturns, WriterGoes
  <2> QED BY <2>2, <2>3
<1>5. CASE WriteFails(w)
  <2>1. faults' \in 0..MaxFaults
    BY <1>5, FaultType DEF WriteFails
  <2>2. WriterTypes' /\ Rests
    BY <1>5, <2>1 DEF WriteFails, WriterGoes, Rests, lookVars
  <2> QED BY <2>2
<1>6. CASE WriteAnswerLost(w)
  <2>1. faults' \in 0..MaxFaults
    BY <1>6, FaultType DEF WriteAnswerLost
  <2>2. /\ methods \cup members[w] \in SUBSET Names
        /\ methods \ members[w] \in SUBSET Names /\ {} \in SUBSET Names
    OBVIOUS
  <2>3. Writes
    BY <1>6, <2>2 DEF WriteAnswerLost, SAdd, Writes, WriterGoes
  <2>4. WriterTypes'
    BY <1>6, <2>1 DEF WriteAnswerLost, WriterGoes
  <2> QED BY <2>3, <2>4
<1> QED BY <1>1, <1>2, <1>3, <1>4, <1>5, <1>6 DEF WriterNext

------------------------------------------------------------------------------
(* Types.                                                                  *)

\* A write keeps the types of the set, its TTL and the histories.
LEMMA StoreTypes ==
  ASSUME RegistryTypeOK, NEW S \in SUBSET Names, NEW b \in BOOLEAN, Store(S, b)
  PROVE /\ methods' \subseteq Names
        /\ leased' \in BOOLEAN /\ (leased' => methods' # {})
        /\ held' \in [Lookers -> SUBSET Names]
        /\ seen' \in [Lookers -> BOOLEAN]
<1>1. held' \in [Lookers -> SUBSET Names]
  BY DEF RegistryTypeOK, Store
<1>2. seen' \in [Lookers -> BOOLEAN]
  BY Zenon DEF Store
<1> QED BY <1>1, <1>2 DEF Store

\* A step of a lookup keeps every type, and the writers.
LEMMA ReadTypes ==
  ASSUME RegistryTypeOK, NEW l \in Lookers, ReadNext(l)
  PROVE RegistryTypeOK'
<1>1. UNCHANGED <<methods, leased, writerVars, faults>>
  BY DEF ReadNext, ReadExists, ReadMember, ReadStar, ReadFails, Answer, LookGoes
<1>2. CASE \E a \in Answers : Answer(l, a)
  <2>1. PICK a \in Answers : Answer(l, a)
    BY <1>2
  <2>2. /\ look' \in [Lookers -> {"none", "exists", "member", "star"} \cup Answers]
        /\ asked' \in [Lookers -> Names \cup {Blank}]
        /\ held' \in [Lookers -> SUBSET Names]
    BY <2>1 DEF RegistryTypeOK, Answer
  <2>3. isMember' \in [Lookers -> BOOLEAN] /\ seen' \in [Lookers -> BOOLEAN]
    BY <2>1 DEF RegistryTypeOK, Answer
  <2> QED BY <1>1, <2>2, <2>3 DEF RegistryTypeOK, writerVars
<1>3. CASE \E pc \in {"member", "star"} : LookGoes(l, pc) /\ isMember' \in [Lookers -> BOOLEAN]
  BY <1>1, <1>3 DEF RegistryTypeOK, LookGoes, writerVars
<1>4. \/ \E a \in Answers : Answer(l, a)
      \/ \E pc \in {"member", "star"} : LookGoes(l, pc) /\ isMember' \in [Lookers -> BOOLEAN]
  <2>1. CASE ReadExists(l)
    BY <2>1 DEF ReadExists, Answers, RegistryTypeOK
  <2>2. CASE ReadMember(l)
    <3>1. [isMember EXCEPT ![l] = asked[l] \in methods] \in [Lookers -> BOOLEAN]
      BY DEF RegistryTypeOK
    <3> QED BY <2>2, <3>1 DEF ReadMember, Answers
  <2>3. CASE ReadStar(l)
    BY <2>3 DEF ReadStar, Answers
  <2>4. CASE ReadFails(l)
    BY <2>4 DEF ReadFails, Answers
  <2> QED BY <2>1, <2>2, <2>3, <2>4 DEF ReadNext
<1> QED BY <1>2, <1>3, <1>4

\* Every step of the registry keeps every type.
LEMMA RegistryTypeStep ==
  ASSUME RegistryTypeOK, [RegistryStep]_registryVars
  PROVE RegistryTypeOK'
<1>1. CASE UNCHANGED registryVars
  BY <1>1 DEF RegistryTypeOK, registryVars, writerVars, lookVars
<1>2. ASSUME NEW w \in Writers, WriterNext(w) PROVE RegistryTypeOK'
  <2>1. WriterTypes' /\ (Writes \/ Rests)
    BY <1>2, WriterSteps
  <2>2. CASE Writes
    BY <2>1, <2>2, StoreTypes DEF Writes, WriterTypes, RegistryTypeOK, lookVars
  <2>3. CASE Rests
    BY <2>1, <2>3 DEF Rests, WriterTypes, RegistryTypeOK, lookVars
  <2> QED BY <2>1, <2>2, <2>3
<1>3. CASE KeyLapses
  BY <1>3, StoreTypes DEF KeyLapses, RegistryTypeOK, lookVars, writerVars
<1>4. ASSUME NEW l \in Lookers, NEW m \in Names \cup {Blank}, BeginLook(l, m)
      PROVE RegistryTypeOK'
  <2>1. /\ look' \in [Lookers -> {"none", "exists", "member", "star"} \cup Answers]
        /\ asked' \in [Lookers -> Names \cup {Blank}]
        /\ held' \in [Lookers -> SUBSET Names]
    BY <1>4 DEF RegistryTypeOK, BeginLook
  <2>2. seen' \in [Lookers -> BOOLEAN]
    BY <1>4 DEF RegistryTypeOK, BeginLook
  <2> QED BY <1>4, <2>1, <2>2 DEF RegistryTypeOK, BeginLook, writerVars
<1>5. ASSUME NEW q \in Queries, BeginQuery(q) PROVE RegistryTypeOK'
  BY <1>4, <1>5 DEF BeginQuery, Lookers, Names
<1>6. ASSUME NEW q \in Queries, QueryReturns(q) PROVE RegistryTypeOK'
  BY <1>6 DEF QueryReturns, LookGoes, RegistryTypeOK, writerVars
<1>7. ASSUME NEW l \in Lookers, ReadNext(l) PROVE RegistryTypeOK'
  BY <1>7, ReadTypes
<1> QED BY <1>1, <1>2, <1>3, <1>4, <1>5, <1>6, <1>7 DEF RegistryStep, RegistryNext

------------------------------------------------------------------------------
(* The TTL of the set.                                                     *)

\* A set without a TTL stays one that a call or a fault accounts for.
LEMMA LeaseStep ==
  ASSUME RegistryTypeOK, UnleasedIsPending, [RegistryStep]_registryVars
  PROVE UnleasedIsPending'
<1>1. ASSUME UNCHANGED <<methods, leased, op, faults>> PROVE UnleasedIsPending'
  BY <1>1 DEF UnleasedIsPending
<1>2. ASSUME NEW w \in Writers, WriterNext(w) PROVE UnleasedIsPending'
  <2>1. CASE \E S \in MethodLists : Register(w, S) \/ Unregister(w, S)
    <3>1. UNCHANGED <<methods, leased, faults>> /\ op[w] = "idle"
      BY <2>1 DEF Register, Unregister
    <3>2. \A v \in Writers : op[v] = "expire" => op'[v] = "expire"
      BY <2>1, <3>1 DEF Register, Unregister, RegistryTypeOK
    <3> QED BY <3>1, <3>2 DEF UnleasedIsPending
  <2>2. CASE SAddReturns(w)
    BY <2>2 DEF SAddReturns, WriterGoes, UnleasedIsPending, RegistryTypeOK
  <2>3. CASE ExpireReturns(w)
    BY <2>3 DEF ExpireReturns, Store, UnleasedIsPending
  <2>4. CASE RemoveReturns(w)
    <3>1. UNCHANGED faults /\ op[w] # "expire"
      BY <2>4 DEF RemoveReturns
    <3>2. \A v \in Writers : op[v] = "expire" => op'[v] = "expire"
      BY <2>4, <3>1 DEF RemoveReturns, WriterGoes, RegistryTypeOK
    <3>3. methods' \subseteq methods /\ (leased' <=> leased /\ methods' # {})
      BY <2>4 DEF RemoveReturns, Store, RegistryTypeOK
    <3> QED BY <3>1, <3>2, <3>3 DEF UnleasedIsPending
  <2>5. CASE WriteFails(w) \/ WriteAnswerLost(w)
    BY <2>5, FaultType DEF WriteFails, WriteAnswerLost, UnleasedIsPending
  <2> QED BY <1>2, <2>1, <2>2, <2>3, <2>4, <2>5 DEF WriterNext
<1>3. CASE KeyLapses
  BY <1>3 DEF KeyLapses, Store, UnleasedIsPending
<1>4. ASSUME NEW l \in Lookers, NEW m \in Names \cup {Blank}, BeginLook(l, m)
      PROVE UnleasedIsPending'
  BY <1>1, <1>4 DEF BeginLook, writerVars
<1>5. ASSUME NEW q \in Queries, BeginQuery(q) \/ QueryReturns(q) PROVE UnleasedIsPending'
  BY <1>1, <1>5 DEF BeginQuery, BeginLook, QueryReturns, LookGoes, writerVars
<1>6. ASSUME NEW l \in Lookers, ReadNext(l) PROVE UnleasedIsPending'
  BY <1>1, <1>6 DEF ReadNext, ReadExists, ReadMember, ReadStar, ReadFails, Answer,
                    LookGoes, writerVars
<1> QED BY <1>1, <1>2, <1>3, <1>4, <1>5, <1>6
        DEF RegistryStep, RegistryNext, registryVars, writerVars

------------------------------------------------------------------------------
(* What a lookup knows between its reads.                                  *)

\* One conjunct of LookInv.
Knows(l) ==
  /\ held[l] \subseteq methods
  /\ Looking(l) => /\ held[l] \subseteq Serving(asked[l])
                   /\ Serving(asked[l]) \cap methods # {} => seen[l]
  /\ look[l] \in {"member", "star"} => asked[l] # Blank
  /\ look[l] = "star" => /\ isMember[l] => seen[l]
                         /\ ~ isMember[l] => asked[l] \notin held[l]

\* A write takes what it removes out of the histories and enters what it adds.
LEMMA StoreKnows ==
  ASSUME RegistryTypeOK, LookInv, UNCHANGED lookVars,
         NEW S \in SUBSET Names, NEW b \in BOOLEAN, Store(S, b)
  PROVE LookInv'
<1> SUFFICES ASSUME NEW l \in Lookers PROVE Knows(l)'
  BY DEF LookInv, Knows
<1>1. Knows(l)
  BY DEF LookInv, Knows
<1>2. methods' = S /\ held'[l] = held[l] \cap S
  BY DEF Store
<1>3. seen'[l] = (seen[l] \/ (Looking(l) /\ Serving(asked[l]) \cap S # {}))
  BY DEF Store
<1>4. Looking(l)' = Looking(l) /\ Serving(asked[l])' = Serving(asked[l])
  BY DEF lookVars, Looking, Serving, Names
<1>5. held'[l] \subseteq methods'
  BY <1>2
<1>6. Looking(l)' => /\ held'[l] \subseteq Serving(asked'[l])
                     /\ Serving(asked'[l]) \cap methods' # {} => seen'[l]
  BY <1>1, <1>2, <1>3, <1>4 DEF lookVars, Knows
<1>7. look'[l] \in {"member", "star"} => asked'[l] # Blank
  BY <1>1 DEF lookVars, Knows
<1>8. look'[l] = "star" => /\ isMember'[l] => seen'[l]
                           /\ ~ isMember'[l] => asked'[l] \notin held'[l]
  BY <1>1, <1>2, <1>3 DEF lookVars, Knows
<1> QED BY <1>5, <1>6, <1>7, <1>8 DEF Knows, Looking, Serving, Names

\* A read of l learns what the set holds at that moment.
LEMMA ReadKnows ==
  ASSUME RegistryTypeOK, LookInv, NEW l \in Lookers, ReadNext(l)
  PROVE LookInv'
<1> SUFFICES ASSUME NEW k \in Lookers PROVE Knows(k)'
  BY DEF LookInv, Knows
<1>1. Knows(k)
  BY DEF LookInv, Knows
<1>2. UNCHANGED methods
  BY DEF ReadNext, ReadExists, ReadMember, ReadStar, ReadFails, Answer, LookGoes
<1>3. CASE k # l
  <2>1. /\ look'[k] = look[k] /\ asked'[k] = asked[k] /\ isMember'[k] = isMember[k]
        /\ held'[k] = held[k] /\ seen'[k] = seen[k]
    BY <1>3, Zenon DEF RegistryTypeOK, ReadNext, ReadExists, ReadMember, ReadStar, ReadFails,
                       Answer, LookGoes
  <2> QED BY <1>1, <1>2, <2>1 DEF Knows, Looking, Serving
<1>4. CASE k = l /\ \E a \in Answers : Answer(l, a)
  <2>1. look'[k] \in Answers /\ held'[k] = {}
    BY <1>4 DEF Answer, RegistryTypeOK
  <2> QED BY <2>1 DEF Knows, Looking, Answers
<1>5. CASE k = l /\ ReadExists(l) /\ methods # {} /\ asked[l] # Blank
  <2>1. /\ look[k] = "exists" /\ look'[k] = "member" /\ asked'[k] = asked[k]
        /\ held'[k] = held[k] /\ seen'[k] = seen[k]
    BY <1>5 DEF ReadExists, LookGoes, RegistryTypeOK
  <2> QED BY <1>1, <1>2, <1>5, <2>1 DEF Knows, Looking, Serving
<1>6. CASE k = l /\ ReadMember(l) /\ ~ (l \in Queries /\ asked[l] \in methods)
  <2>1. /\ look[k] = "member" /\ look'[k] = "star" /\ asked'[k] = asked[k]
        /\ held'[k] = held[k] /\ seen'[k] = seen[k]
    BY <1>6 DEF ReadMember, LookGoes, RegistryTypeOK
  <2>2. isMember'[k] = (asked[k] \in methods)
    BY <1>6 DEF ReadMember, RegistryTypeOK
  <2>3. asked[k] \in methods => seen[k]
    BY <1>1, <2>1 DEF Knows, Looking, Serving
  <2>4. /\ isMember'[k] => seen'[k]
        /\ ~ isMember'[k] => asked'[k] \notin held'[k]
    BY <1>1, <2>1, <2>2, <2>3 DEF Knows
  <2> QED BY <1>1, <1>2, <2>1, <2>4 DEF Knows, Looking, Serving
<1>7. \/ \E a \in Answers : Answer(l, a)
      \/ ReadExists(l) /\ methods # {} /\ asked[l] # Blank
      \/ ReadMember(l) /\ ~ (l \in Queries /\ asked[l] \in methods)
  BY DEF ReadNext, ReadExists, ReadMember, ReadStar, ReadFails, Answers
<1> QED BY <1>3, <1>4, <1>5, <1>6, <1>7

\* Every step of the registry keeps what the lookups know.
LEMMA LookStep ==
  ASSUME RegistryTypeOK, LookInv, [RegistryStep]_registryVars
  PROVE LookInv'
<1>1. ASSUME UNCHANGED <<methods, look, asked, isMember, held, seen>> PROVE LookInv'
  BY <1>1 DEF LookInv, Looking, Serving
<1>2. ASSUME NEW w \in Writers, WriterNext(w) PROVE LookInv'
  <2>1. Writes \/ Rests
    BY <1>2, WriterSteps
  <2> QED BY <1>1, <2>1, StoreKnows DEF Writes, Rests, lookVars
<1>3. CASE KeyLapses
  BY <1>3, StoreKnows DEF KeyLapses
<1>4. ASSUME NEW l \in Lookers, NEW m \in Names \cup {Blank}, BeginLook(l, m) PROVE LookInv'
  <2> SUFFICES ASSUME NEW k \in Lookers PROVE Knows(k)'
    BY DEF LookInv, Knows
  <2>1. Knows(k) /\ UNCHANGED <<methods, isMember>>
    BY <1>4 DEF LookInv, Knows, BeginLook
  <2>2. CASE k # l
    BY <1>4, <2>1, <2>2 DEF BeginLook, RegistryTypeOK, Knows, Looking, Serving
  <2>3. CASE k = l
    <3>1. /\ look'[k] = "exists" /\ asked'[k] = m
          /\ held'[k] = Serving(m) \cap methods
      BY <1>4, <2>3 DEF BeginLook, RegistryTypeOK
    <3>2. seen'[k] = (Serving(m) \cap methods # {})
      BY <1>4, <2>3 DEF BeginLook, RegistryTypeOK
    <3> QED BY <2>1, <3>1, <3>2 DEF Knows, Looking, Serving
  <2> QED BY <2>2, <2>3
<1>5. ASSUME NEW q \in Queries, BeginQuery(q) PROVE LookInv'
  BY <1>4, <1>5 DEF BeginQuery, Lookers, Names
<1>6. ASSUME NEW q \in Queries, QueryReturns(q) PROVE LookInv'
  <2> SUFFICES ASSUME NEW k \in Lookers PROVE Knows(k)'
    BY DEF LookInv, Knows
  <2>1. Knows(k)
    BY DEF LookInv, Knows
  <2>2. /\ look'[k] = IF k = q THEN "none" ELSE look[k]
        /\ UNCHANGED <<methods, asked, held, seen, isMember>>
    BY <1>6 DEF QueryReturns, LookGoes, RegistryTypeOK
  <2> QED BY <2>1, <2>2 DEF Knows, Looking, Serving
<1>7. ASSUME NEW l \in Lookers, ReadNext(l) PROVE LookInv'
  BY <1>7, ReadKnows
<1> QED BY <1>1, <1>2, <1>3, <1>4, <1>5, <1>6, <1>7
        DEF RegistryStep, RegistryNext, registryVars, lookVars

\* An answer agrees with what the lookup knows.
LEMMA AnswerStep ==
  ASSUME RegistryTypeOK, LookInv, [RegistryStep]_registryVars
  PROVE \A l \in Lookers :
          /\ look[l] # "refused" /\ look'[l] = "refused" => held[l] = {}
          /\ look[l] # "registered" /\ look'[l] = "registered" => seen[l]
<1> SUFFICES ASSUME NEW l \in Lookers, look'[l] # look[l]
             PROVE /\ look'[l] = "refused" => held[l] = {}
                   /\ look'[l] = "registered" => seen[l]
  OBVIOUS
<1>1. Knows(l)
  BY DEF LookInv, Knows
<1>2. ASSUME NEW w \in Writers, WriterNext(w) PROVE FALSE
  BY <1>2, WriterSteps DEF Writes, Rests, lookVars
<1>3. ~ KeyLapses /\ ~ UNCHANGED registryVars
  BY DEF KeyLapses, registryVars, lookVars
<1>4. ASSUME NEW k \in Lookers, NEW m \in Names \cup {Blank}, BeginLook(k, m)
      PROVE look'[l] = "exists"
  BY <1>4 DEF BeginLook, RegistryTypeOK
<1>5. ASSUME NEW q \in Queries, BeginQuery(q) PROVE look'[l] = "exists"
  BY <1>4, <1>5 DEF BeginQuery, Lookers, Names
<1>6. ASSUME NEW q \in Queries, QueryReturns(q) PROVE look'[l] = "none"
  BY <1>6 DEF QueryReturns, LookGoes, RegistryTypeOK
<1>7. ASSUME NEW k \in Lookers, ReadNext(k)
      PROVE /\ look'[l] = "refused" => held[l] = {}
            /\ look'[l] = "registered" => seen[l]
  <2>1. k = l
    BY <1>7 DEF ReadNext, ReadExists, ReadMember, ReadStar, ReadFails, Answer, LookGoes,
                RegistryTypeOK
  <2>2. CASE ReadExists(l)
    <3>1. look'[l] = "refused" => methods = {}
      BY <2>2 DEF ReadExists, Answer, LookGoes, RegistryTypeOK
    <3>2. look'[l] = "registered" => methods # {} /\ asked[l] = Blank
      BY <2>2 DEF ReadExists, Answer, LookGoes, RegistryTypeOK
    <3>3. look[l] = "exists"
      BY <2>2 DEF ReadExists
    <3>4. methods # {} /\ asked[l] = Blank => Serving(asked[l]) \cap methods # {}
      BY DEF Serving, RegistryTypeOK
    <3> QED BY <1>1, <3>1, <3>2, <3>3, <3>4 DEF Knows, Looking
  <2>3. CASE ReadMember(l)
    <3>1. look'[l] # "refused" /\ (look'[l] = "registered" => asked[l] \in methods)
      BY <2>3 DEF ReadMember, Answer, LookGoes, RegistryTypeOK
    <3>2. look[l] = "member"
      BY <2>3 DEF ReadMember
    <3>3. asked[l] \in methods => Serving(asked[l]) \cap methods # {}
      BY DEF Serving, RegistryTypeOK
    <3> QED BY <1>1, <3>1, <3>2, <3>3 DEF Knows, Looking
  <2>4. CASE ReadStar(l)
    <3>1. look'[l] = IF isMember[l] \/ All \in methods THEN "registered" ELSE "refused"
      BY <2>4 DEF ReadStar, Answer, RegistryTypeOK
    <3>2. look[l] = "star" /\ asked[l] # Blank
      BY <1>1, <2>4 DEF ReadStar, Knows
    <3>3. Serving(asked[l]) = {asked[l], All}
      BY <3>2 DEF Serving
    <3>4. All \in methods => seen[l]
      BY <1>1, <3>2, <3>3 DEF Knows, Looking
    <3>5. held[l] \subseteq {asked[l], All} \cap methods
      BY <1>1, <3>2, <3>3 DEF Knows, Looking
    <3>6. CASE isMember[l] \/ All \in methods
      <4>1. seen[l]
        BY <1>1, <3>2, <3>4, <3>6 DEF Knows
      <4> QED BY <3>1, <3>6, <4>1
    <3>7. CASE ~ (isMember[l] \/ All \in methods)
      <4>1. asked[l] \notin held[l] /\ All \notin held[l]
        BY <1>1, <3>2, <3>5, <3>7 DEF Knows
      <4>2. held[l] = {}
        BY <3>5, <4>1
      <4> QED BY <3>1, <3>7, <4>2
    <3> QED BY <3>6, <3>7
  <2>5. CASE ReadFails(l)
    BY <2>5 DEF ReadFails, Answer, RegistryTypeOK
  <2> QED BY <1>7, <2>1, <2>2, <2>3, <2>4, <2>5 DEF ReadNext
<1> QED BY <1>2, <1>3, <1>4, <1>5, <1>6, <1>7 DEF RegistryStep, RegistryNext
===============================================================================
