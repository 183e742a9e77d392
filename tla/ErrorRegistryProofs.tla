------------------------ MODULE ErrorRegistryProofs ------------------------
(***************************************************************************)
(* Proofs that ErrorSystem implements ErrorRegistry: for any registers,    *)
(* requests and number of calls, every operation on a register, direct,    *)
(* routed or run by the executor, takes effect at one moment.              *)
(***************************************************************************)
EXTENDS ErrorSystemProofs, FiniteSetTheorems, FunctionTheorems

LEMMA LimitsNatural ==
  \A i \in DOMAIN Registers : Registers[i].limit \in Nat
<1> DEFINE Limit == 1 .. max_register_capacity
           Item == [category : STRING, limit : Limit]
<1>1. max_register_capacity \in Nat
  BY SMT DEF max_register_capacity
<1>2. \A n \in Limit : n \in Nat
  BY <1>1
<1>3. Registers \in Seq(Item)
  BY RegistersAssumption
<1> HIDE DEF Limit
<1>4. \A x \in Item : x.limit \in Nat
  BY <1>2
<1> HIDE DEF Item
<1>5. \A i \in DOMAIN Registers : Registers[i] \in Item
  BY <1>3
<1> QED
  BY <1>4, <1>5
-----------------------------------------------------------------------------
(* The map of a register, and the set of errors that it stands for.        *)

Map(f, i) ==
  /\ f = [k \in DOMAIN f |-> f[k]] /\ IsFiniteSet(DOMAIN f)
  /\ Cardinality(DOMAIN f) <= Registers[i].limit
  /\ \A k \in DOMAIN f :
       f[k].code = k /\ f[k].category = Registers[i].category

\* One error for each code: the map and the set have the same size.
LEMMA MapSize ==
  ASSUME NEW f, NEW i, Map(f, i)
  PROVE  IsFiniteSet(Range(f)) /\ Cardinality(Range(f)) = Cardinality(DOMAIN f)
<1> DEFINE S == DOMAIN f
           T == Range(f)
<1>1. f \in [S -> T] /\ \A y \in T : \E k \in S : f[k] = y
  BY DEF Map, Range
<1>2. \A k, l \in S : f[k] = f[l] => k = l
  BY DEF Map
<1> HIDE DEF S, T
<1>3. f \in Bijection(S, T)
  <2>1. f \in Injection(S, T)
    BY <1>1, <1>2, Fun_IsInj
  <2>2. f \in Surjection(S, T)
    BY <1>1, Fun_IsSurj
  <2> QED
    BY <2>1, <2>2 DEF Bijection
<1>4. ExistsBijection(S, T)
  BY <1>3 DEF ExistsBijection
<1>5. IsFiniteSet(S)
  BY DEF Map, S
<1> QED
  BY <1>4, <1>5, FS_Bijection DEF S, T

\* A code or an error that the map holds, and the set has.
LEMMA MapHolds ==
  ASSUME NEW f, NEW i, Map(f, i), NEW e
  PROVE  /\ Equal(f, e) <=> e \in Range(f)
         /\ Held(f, e) <=> \E x \in Range(f) : x.code = e.code
         /\ {f[k] : k \in DOMAIN f \cap {e.code}} =
              {x \in Range(f) : x.code = e.code}
BY DEF Map, Equal, Held, Range

\* try_emplace of a new code, below the limit.
LEMMA MapAdd ==
  ASSUME NEW f, NEW i \in DOMAIN Registers, Map(f, i), NEW e,
         ~Held(f, e), ~Full(f, i), e.category = Registers[i].category,
         NEW g, g = [k \in DOMAIN f \cup {e.code} |->
                       IF k = e.code THEN e ELSE f[k]]
  PROVE  /\ Map(g, i) /\ Range(g) = Range(f) \cup {e}
         /\ Cardinality(Range(f)) < Registers[i].limit
<1>1. /\ DOMAIN g = DOMAIN f \cup {e.code} /\ e.code \notin DOMAIN f
      /\ g[e.code] = e /\ \A k \in DOMAIN f : g[k] = f[k]
  BY DEF Held
<1>2. IsFiniteSet(DOMAIN f)
  BY DEF Map
<1>3. /\ IsFiniteSet(DOMAIN g) /\ Cardinality(DOMAIN f) \in Nat
      /\ Cardinality(DOMAIN g) = Cardinality(DOMAIN f) + 1
  BY <1>1, <1>2, FS_AddElement, FS_CardinalityType
<1>4. Registers[i].limit \in Nat
  BY LimitsNatural
<1>5. /\ Cardinality(DOMAIN f) < Registers[i].limit
      /\ Cardinality(DOMAIN g) <= Registers[i].limit
  BY <1>3, <1>4 DEF Full
<1>6. Map(g, i)
  BY <1>1, <1>3, <1>5 DEF Map
<1>7. Range(g) = Range(f) \cup {e}
  BY <1>1 DEF Range
<1> QED
  BY <1>5, <1>6, <1>7, MapSize

\* erase and clear.
LEMMA MapErase ==
  ASSUME NEW f, NEW i \in DOMAIN Registers, Map(f, i), NEW K
  PROVE  LET g == Restrict(f, DOMAIN f \ K) IN
         Map(g, i) /\ Range(g) = {x \in Range(f) : x.code \notin K}
<1> DEFINE g == Restrict(f, DOMAIN f \ K)
<1>1. /\ DOMAIN g = DOMAIN f \ K /\ \A k \in DOMAIN g : g[k] = f[k]
      /\ g = [k \in DOMAIN g |-> g[k]]
  BY DEF Restrict
<1>2. IsFiniteSet(DOMAIN f) /\ DOMAIN g \in SUBSET DOMAIN f
  BY <1>1 DEF Map
<1>3. /\ IsFiniteSet(DOMAIN g)
      /\ Cardinality(DOMAIN g) <= Cardinality(DOMAIN f)
      /\ Cardinality(DOMAIN g) \in Nat /\ Cardinality(DOMAIN f) \in Nat
  BY <1>2, FS_Subset, FS_CardinalityType
<1>4. Registers[i].limit \in Nat
  BY LimitsNatural
<1>5. Map(g, i)
  <2>1. Cardinality(DOMAIN g) <= Registers[i].limit
    BY <1>3, <1>4 DEF Map
  <2>2. \A k \in DOMAIN g :
          g[k].code = k /\ g[k].category = Registers[i].category
    BY <1>1 DEF Map
  <2> QED
    BY <1>1, <1>3, <2>1, <2>2 DEF Map
<1>6. ASSUME NEW x PROVE x \in Range(g) <=> x \in Range(f) /\ x.code \notin K
  <2>1. ASSUME NEW k \in DOMAIN f, x = f[k] PROVE x.code = k
    BY <2>1 DEF Map
  <2>2. x \in Range(g) => \E k \in DOMAIN f : x = f[k] /\ k \notin K
    BY <1>1 DEF Range
  <2>3. x \in Range(f) => \E k \in DOMAIN f : x = f[k]
    BY DEF Range
  <2>4. ASSUME NEW k \in DOMAIN f, x = f[k], k \notin K PROVE x \in Range(g)
    <3>1. k \in DOMAIN g /\ g[k] = x
      BY <1>1, <2>4
    <3> QED
      BY <3>1 DEF Range
  <2>5. ASSUME NEW k \in DOMAIN f, x = f[k] PROVE x \in Range(f)
    BY <2>5 DEF Range
  <2> QED
    BY <2>1, <2>2, <2>3, <2>4, <2>5
<1> HIDE DEF g
<1> QED
  BY <1>5, <1>6 DEF g
-----------------------------------------------------------------------------
(* The invariant.                                                          *)

\* Where a request leads agrees with how far its call has come.
Routed(c) ==
  /\ pc[c] \in {"submit", "queued"} => Asked(c).target = 0
  /\ pc[c] = "unrouted" => At(c) = 0
  /\ pc[c] \in {"handler", "register", "access"} => At(c) # 0

Answers ==
  /\ result = [c \in Calls |-> result[c]]
  /\ \A c \in Calls : /\ (request[c] = {}) <=> (pc[c] = "idle")
                      /\ (result[c] = {}) <=> (pc[c] # "done")

Maps ==
  /\ errors = [i \in DOMAIN Registers |-> errors[i]]
  /\ \A i \in DOMAIN Registers : Map(errors[i], i)

\* What a call has seen of its register is still there when it acts on it.
SeenTrue(c) == pc[c] = "access" => seen[c] = errors[At(c)]

Around ==
  /\ policy \in {"single", "multi", "async"} /\ safe \in BOOLEAN
  /\ locks \subseteq {"handler", "register"} \X DOMAIN Registers
  /\ owners \subseteq Calls \cup {0}

RInv ==
  /\ IInv /\ Answers /\ Maps /\ Around
  /\ seen = [c \in Calls |-> seen[c]]
  /\ \A c \in Calls : Routed(c) /\ SeenTrue(c)

LEMMA AskedIs ==
  ASSUME Types, NEW c \in Calls, pc[c] # "idle"
  PROVE  Asked(c) \in Requests /\ request[c] = {Asked(c)}
BY DEF Types, Asked

\* dispatch finds the register that the contract names, or none.
LEMMA RouteIs ==
  ASSUME NEW r \in Requests
  PROVE  /\ Route(r) = 0 => Registry!Routes(r) = {}
         /\ Route(r) # 0 => Route(r) \in Registry!Routes(r) \cap DOMAIN Registers
<1>1. r.target \in {0} \cup DOMAIN Registers
  BY RequestsAssumption
<1>2. CASE r.target # 0
  BY <1>1, <1>2 DEF Route, Registry!Routes
<1>3. CASE r.target = 0
  <2>1. Registry!Routes(r) = First(r)
    BY <1>3 DEF Registry!Routes, First
  <2>2. 0 \notin First(r) /\ First(r) \subseteq DOMAIN Registers
    BY RegistersAssumption DEF First
  <2>3. CASE First(r) = {}
    BY <1>3, <2>1, <2>3 DEF Route
  <2>4. CASE First(r) # {}
    BY <1>3, <2>1, <2>2, <2>4 DEF Route
  <2> QED
    BY <2>3, <2>4
<1> QED
  BY <1>2, <1>3

LEMMA DispatchRouted ==
  ASSUME NEW r \in Requests
  PROVE  \/ Dispatch(r) = "unrouted" /\ Route(r) = 0
         \/ Dispatch(r) \in {"handler", "register"} /\ Route(r) # 0
BY DEF Dispatch
-----------------------------------------------------------------------------
(* The moment of an operation.                                             *)

Fit(r, i) == r.error.category = Registers[i].category

\* An operation that is turned down leaves the register alone.
LEMMA Refusals ==
  ASSUME NEW r \in Requests, NEW i, NEW f, Answer(r, i, f).status # "ok"
  PROVE  \/ r.op \in {"add", "remove"} /\ ~Fit(r, i)
              /\ Answer(r, i, f) = Failed("category")
         \/ r.op = "add" /\ Fit(r, i) /\ Held(f, r.error)
              /\ Answer(r, i, f) = Failed("duplicate")
         \/ r.op = "add" /\ Fit(r, i) /\ ~Held(f, r.error) /\ Full(f, i)
              /\ Answer(r, i, f) = Failed("capacity")
         \/ r.op = "remove" /\ Fit(r, i) /\ ~Equal(f, r.error)
              /\ Answer(r, i, f) = Failed("missing")
         \/ r.op = "remove_code" /\ ~Held(f, r.error)
              /\ Answer(r, i, f) = Failed("missing")
<1>1. CASE r.op = "add"
  BY <1>1 DEF Answer, Found, Fit
<1>2. CASE r.op = "remove"
  BY <1>2 DEF Answer, Found, Fit
<1>3. CASE r.op = "remove_code"
  BY <1>3 DEF Answer, Found
<1>4. CASE r.op \in {"contains", "find", "snapshot", "clear"}
  BY <1>4 DEF Answer, Found
<1> QED
  BY <1>1, <1>2, <1>3, <1>4, RequestsAssumption

Adds(r, i, f) ==
  /\ r.op = "add" /\ Fit(r, i) /\ ~Held(f, r.error) /\ ~Full(f, i)
  /\ Answer(r, i, f) = Found({}, 0)
  /\ Left(r, f) = [k \in DOMAIN f \cup {r.error.code} |->
                     IF k = r.error.code THEN r.error ELSE f[k]]
Erases(r, i, f, K, count) ==
  /\ \/ r.op = "remove" /\ Fit(r, i) /\ Equal(f, r.error) /\ K = {r.error.code}
          /\ count = 0
     \/ r.op = "remove_code" /\ Held(f, r.error) /\ K = {r.error.code}
          /\ count = 0
     \/ r.op = "clear" /\ K = DOMAIN f /\ count = Cardinality(DOMAIN f)
  /\ Answer(r, i, f) = Found({}, count)
  /\ Left(r, f) = Restrict(f, DOMAIN f \ K)
Reads(r, i, f, found, count) ==
  /\ \/ r.op = "contains" /\ found = {d \in {r.error} : Equal(f, d)} /\ count = 0
     \/ r.op = "find" /\ found = {f[k] : k \in DOMAIN f \cap {r.error.code}}
          /\ count = 0
     \/ r.op = "snapshot" /\ found = Range(f) /\ count = Cardinality(DOMAIN f)
  /\ Answer(r, i, f) = Found(found, count)
  /\ Left(r, f) = f

LEMMA Successes ==
  ASSUME NEW r \in Requests, NEW i, NEW f, Answer(r, i, f).status = "ok"
  PROVE  \/ Adds(r, i, f)
         \/ \E K, count : Erases(r, i, f, K, count)
         \/ \E found, count : Reads(r, i, f, found, count)
<1>1. CASE r.op = "add"
  BY <1>1 DEF Adds, Answer, Left, Failed, Fit
<1>2. CASE r.op \in {"remove", "remove_code"}
  <2>1. Erases(r, i, f, {r.error.code}, 0)
    BY <1>2 DEF Erases, Answer, Left, Failed, Fit
  <2> QED
    BY <2>1
<1>3. CASE r.op = "clear"
  <2>1. Erases(r, i, f, DOMAIN f, Cardinality(DOMAIN f))
    BY <1>3 DEF Erases, Answer, Left
  <2> QED
    BY <2>1
<1>4. CASE r.op = "contains"
  <2>1. Reads(r, i, f, {d \in {r.error} : Equal(f, d)}, 0)
    BY <1>4 DEF Reads, Answer, Left
  <2> QED
    BY <2>1
<1>5. CASE r.op = "find"
  <2>1. Reads(r, i, f, {f[k] : k \in DOMAIN f \cap {r.error.code}}, 0)
    BY <1>5 DEF Reads, Answer, Left
  <2> QED
    BY <2>1
<1>6. CASE r.op = "snapshot"
  <2>1. Reads(r, i, f, Range(f), Cardinality(DOMAIN f))
    BY <1>6 DEF Reads, Answer, Left
  <2> QED
    BY <2>1
<1> QED
  BY <1>1, <1>2, <1>3, <1>4, <1>5, <1>6, RequestsAssumption

\* FiniteSets seen through the contract is the one seen here.
LEMMA SameCardinality == \A T : Registry!Cardinality(T) = Cardinality(T)
BY DEF Registry!Cardinality, Cardinality, Registry!IsFiniteSet, IsFiniteSet

Stored == [i \in DOMAIN Registers |-> Range(errors[i])]

\* A change of one map is a change of one set, and the other maps stay.
LEMMA StoredSet ==
  ASSUME Maps, NEW i \in DOMAIN Registers, NEW g, Map(g, i),
         errors' = [errors EXCEPT ![i] = g]
  PROVE  Maps' /\ Stored' = [Stored EXCEPT ![i] = Range(g)]
<1>1. /\ errors' = [j \in DOMAIN Registers |-> errors'[j]] /\ errors'[i] = g
      /\ \A j \in DOMAIN Registers \ {i} : errors'[j] = errors[j]
  BY DEF Maps
<1>2. \A j \in DOMAIN Registers : Map(errors'[j], j)
  BY <1>1 DEF Maps
<1>3. Maps'
  BY <1>1, <1>2 DEF Maps, Map
<1> QED
  BY <1>1, <1>3 DEF Stored

LEMMA StoredKept ==
  ASSUME Maps, UNCHANGED errors PROVE Maps' /\ UNCHANGED Stored
BY DEF Maps, Map, Stored

\* Call c gets the answer that its request has on the map f of register i.
Moment(c, r, i, f) ==
  /\ request[c] = {r} /\ result[c] = {} /\ UNCHANGED request
  /\ result' = [result EXCEPT ![c] = {Answer(r, i, f)}]
  /\ i \in Registry!Routes(r) /\ f = errors[i] /\ Map(f, i) /\ Maps

LEMMA RefusedMoment ==
  ASSUME NEW c \in Calls, NEW r \in Requests, NEW i \in DOMAIN Registers, NEW f,
         Moment(c, r, i, f), Answer(r, i, f).status # "ok", UNCHANGED errors
  PROVE  Registry!Next /\ Maps'
<1>1. Maps' /\ UNCHANGED Stored
  BY StoredKept DEF Moment
<1>2. Registry!Decline(c)
  <2> DEFINE S == Range(f)
             Decline(why) == Registry!Answer(c, why, {}, 0)
  <2>1. \A why : Answer(r, i, f) = Failed(why) => Decline(why)
    BY DEF Moment, Failed, Registry!Answer
  <2>2. /\ Equal(f, r.error) <=> r.error \in S
        /\ Held(f, r.error) <=> Registry!Matching(S, r) # {}
    BY MapHolds DEF Moment, Registry!Matching
  <2>3. Full(f, i) => Cardinality(S) = Registers[i].limit
    <3>1. /\ Cardinality(S) = Cardinality(DOMAIN f) /\ Registers[i].limit \in Nat
          /\ IsFiniteSet(DOMAIN f) /\ Cardinality(DOMAIN f) <= Registers[i].limit
      BY MapSize, LimitsNatural DEF Moment, Map
    <3>2. Cardinality(DOMAIN f) \in Nat
      BY <3>1, FS_CardinalityType
    <3> QED
      BY <3>1, <3>2 DEF Full
  <2>4. \/ r.op \in {"add", "remove"} /\ ~Registry!Fits(r, i)
             /\ Decline("category")
        \/ r.op = "add" /\ Registry!Fits(r, i) /\ Registry!Matching(S, r) # {}
             /\ Decline("duplicate")
        \/ r.op = "add" /\ Registry!Fits(r, i) /\ Registry!Matching(S, r) = {}
             /\ Registry!Cardinality(S) = Registers[i].limit
             /\ Decline("capacity")
        \/ r.op = "remove" /\ Registry!Fits(r, i) /\ r.error \notin S
             /\ Decline("missing")
        \/ r.op = "remove_code" /\ Registry!Matching(S, r) = {}
             /\ Decline("missing")
    <3>1. Fit(r, i) <=> Registry!Fits(r, i)
      BY DEF Fit, Registry!Fits
    <3> HIDE DEF S, Decline
    <3>2. Registry!Cardinality(S) = Cardinality(S)
      BY SameCardinality
    <3>3. Full(f, i) => Registry!Cardinality(S) = Registers[i].limit
      BY <2>3, <3>2
    <3> QED
      BY <2>1, <2>2, <3>1, <3>3, Refusals
  <2>5. r \in request[c] /\ i \in Registry!Routes(r) /\ Stored[i] = S
    BY DEF Moment, Stored
  <2>6. [j \in DOMAIN Registers |-> Range(errors[j])][i] = S
    BY <2>5 DEF Stored
  <2> HIDE DEF S
  <2> QED
    BY <2>4, <2>5, <2>6, Zenon DEF Registry!Decline
<1> QED
  BY <1>1, <1>2 DEF Registry!Next, Stored, Moment

LEMMA AcceptedMoment ==
  ASSUME NEW c \in Calls, NEW r \in Requests, NEW i \in DOMAIN Registers, NEW f,
         Moment(c, r, i, f), Answer(r, i, f).status = "ok",
         errors' = [errors EXCEPT ![i] = Left(r, f)]
  PROVE  Registry!Next /\ Maps'
<1> DEFINE S == Range(f)
           Say(found, count) ==
             /\ result' = [result EXCEPT ![c] =
                  {[status |-> "ok", found |-> found, count |-> count]}]
             /\ UNCHANGED request
<1>1. \A found, count :
        Answer(r, i, f) = Found(found, count) => Say(found, count)
  BY DEF Moment, Found
<1>2. \A found, count : Say(found, count) =>
        Registry!Answer(c, "ok", found, count)
  BY DEF Registry!Answer
<1>3. /\ Map(f, i) /\ Maps /\ r \in request[c] /\ result[c] = {}
      /\ i \in Registry!Routes(r) /\ Stored[i] = S /\ errors[i] = f
  BY DEF Moment, Stored
<1>4. Cardinality(S) = Cardinality(DOMAIN f)
  BY <1>3, MapSize
<1>5. Fit(r, i) <=> Registry!Fits(r, i)
  BY DEF Fit, Registry!Fits
<1>6. /\ Equal(f, r.error) <=> r.error \in S
      /\ Held(f, r.error) <=> Registry!Matching(S, r) # {}
      /\ {f[k] : k \in DOMAIN f \cap {r.error.code}} = Registry!Matching(S, r)
  BY <1>3, MapHolds DEF Registry!Matching
<1> HIDE DEF S, Say
<1>7. ASSUME Map(Left(r, f), i),
             NEW T, T = Range(Left(r, f)),
             Stored' = [Stored EXCEPT ![i] = T] =>
               \/ Registry!Change(c)
               \/ Registry!Observe(c) /\ UNCHANGED Stored
      PROVE  Registry!Next /\ Maps'
  <2>1. Maps' /\ Stored' = [Stored EXCEPT ![i] = T]
    BY <1>3, <1>7, StoredSet
  <2> QED
    BY <1>3, <1>7, <2>1 DEF Registry!Next, Stored
<1>8. CASE Adds(r, i, f)
  <2>1. /\ Map(Left(r, f), i) /\ Range(Left(r, f)) = S \cup {r.error}
        /\ Cardinality(S) < Registers[i].limit
    BY <1>3, <1>8, MapAdd DEF S, Fit, Adds
  <2>2. Stored' = [Stored EXCEPT ![i] = S \cup {r.error}] => Registry!Change(c)
    BY <1>1, <1>2, <1>3, <1>5, <1>6, <1>8, <2>1, SameCardinality
       DEF Registry!Change, Stored, Adds
  <2> QED
    BY <1>7, <2>1, <2>2
<1>9. ASSUME NEW K, NEW count, Erases(r, i, f, K, count)
      PROVE  Registry!Next /\ Maps'
  <2> DEFINE T == {x \in S : x.code \notin K}
  <2>1. /\ Map(Restrict(f, DOMAIN f \ K), i)
        /\ Range(Restrict(f, DOMAIN f \ K)) = T
    BY <1>3, MapErase DEF S
  <2>2. Map(Left(r, f), i) /\ Range(Left(r, f)) = T
    BY <1>9, <2>1 DEF Erases
  <2>3. \A x \in S : x.code \in DOMAIN f /\ f[x.code] = x
    BY <1>3 DEF S, Map, Range
  <2>4. Say({}, count)
    BY <1>1, <1>9 DEF Erases
  <2>5. \/ r.op = "remove" /\ Registry!Fits(r, i) /\ r.error \in S /\ count = 0
             /\ T = S \ {r.error}
        \/ r.op = "remove_code" /\ Registry!Matching(S, r) # {} /\ count = 0
             /\ T = S \ Registry!Matching(S, r)
        \/ r.op = "clear" /\ T = {} /\ count = Cardinality(S)
    <3>1. K = {r.error.code} => T = S \ Registry!Matching(S, r)
      BY DEF Registry!Matching
    <3>2. K = {r.error.code} /\ Equal(f, r.error) => T = S \ {r.error}
      BY <2>3 DEF Equal
    <3>3. K = DOMAIN f => T = {}
      BY <2>3
    <3> QED
      BY <1>4, <1>5, <1>6, <1>9, <3>1, <3>2, <3>3 DEF Erases
  <2> HIDE DEF T
  <2>6. Stored' = [Stored EXCEPT ![i] = T] => Registry!Change(c)
    BY <1>2, <1>3, <2>4, <2>5, SameCardinality DEF Registry!Change, Stored
  <2> QED
    BY <1>7, <2>2, <2>6
<1>10. ASSUME NEW found, NEW count, Reads(r, i, f, found, count)
       PROVE  Registry!Next /\ Maps'
  <2>1. {d \in {r.error} : Equal(f, d)} = {r.error} \cap S
    BY <1>6
  <2>2. Say(found, count)
    BY <1>1, <1>10 DEF Reads
  <2>3. Registry!Observe(c)
    <3>1. Registry!Answer(c, "ok", found, count)
      BY <1>2, <2>2
    <3>2. \/ r.op = "contains" /\ found = {r.error} \cap S /\ count = 0
          \/ r.op = "find" /\ found = Registry!Matching(S, r) /\ count = 0
          \/ r.op = "snapshot" /\ found = S /\ count = Registry!Cardinality(S)
      BY <1>4, <1>6, <1>10, <2>1, SameCardinality DEF Reads, S
    <3>3. \/ r.op = "contains" /\ Registry!Answer(c, "ok", {r.error} \cap S, 0)
          \/ r.op = "find" /\ Registry!Answer(c, "ok", Registry!Matching(S, r), 0)
          \/ r.op = "snapshot"
               /\ Registry!Answer(c, "ok", S, Registry!Cardinality(S))
      BY <3>1, <3>2
    <3>4. r \in request[c] /\ i \in Registry!Routes(r)
          /\ [j \in DOMAIN Registers |-> Range(errors[j])][i] = S
      BY <1>3 DEF Stored
    <3> QED
      BY <3>3, <3>4, Zenon DEF Registry!Observe
  <2>4. Map(Left(r, f), i) /\ Range(Left(r, f)) = S
    BY <1>3, <1>10 DEF Reads, S
  <2>5. Stored' = [Stored EXCEPT ![i] = S] => UNCHANGED Stored
    BY <1>3 DEF Stored
  <2> QED
    BY <1>7, <2>3, <2>4, <2>5
<1> QED
  BY <1>8, <1>9, <1>10, Successes
-----------------------------------------------------------------------------
(* The steps.                                                              *)

\* What holds of a call does not depend on the steps of others that leave its
\* register alone.
LEMMA OthersKept ==
  ASSUME RInv, NEW c \in Calls, NEW label, Onward(c, label),
         \A d \in Calls \ {c} : seen'[d] = seen[d],
         \A d \in Calls \ {c} : pc[d] = "access" => errors'[At(d)] = errors[At(d)]
  PROVE  \A d \in Calls \ {c} : Routed(d)' /\ SeenTrue(d)'
BY OnwardAsked DEF RInv, Routed, SeenTrue

\* A step of a call that goes on, without an effect on registers or answers.
LEMMA SilentStep ==
  ASSUME RInv, IInv', NEW c \in Calls, NEW label, Onward(c, label),
         label # "done", UNCHANGED <<errors, result, owners>>,
         seen' = [d \in Calls |-> seen'[d]],
         \A d \in Calls \ {c} : seen'[d] = seen[d],
         locks' \subseteq locks \cup {"handler", "register"} \X {At(c)},
         locks' = locks \/ At(c) # 0,
         Routed(c)', SeenTrue(c)'
  PROVE  RInv' /\ UNCHANGED Registry!vars
<1>1. \A d \in Calls : Routed(d)' /\ SeenTrue(d)'
  BY OthersKept
<1>2. Maps' /\ UNCHANGED Stored
  BY StoredKept DEF RInv
<1>3. Answers'
  BY OnwardAsked DEF RInv, Answers, Onward, InProgress
<1>4. Around'
  <2>1. locks' \subseteq {"handler", "register"} \X DOMAIN Registers
    <3>1. At(c) # 0 => At(c) \in DOMAIN Registers
      BY AskedIs, RouteIs DEF RInv, IInv, Onward, InProgress, At
    <3> QED
      BY <3>1 DEF RInv, Around
  <2> QED
    BY <2>1 DEF RInv, Around, Onward
<1> QED
  BY <1>1, <1>2, <1>3, <1>4 DEF RInv, Onward, Registry!vars, Stored

LEMMA LockHandlerSilent ==
  ASSUME RInv, IInv', NEW c \in Calls, LockHandler(c)
  PROVE  RInv' /\ UNCHANGED Registry!vars
<1>1. Onward(c, "register") /\ pc[c] = "handler"
  BY DEF LockHandler, Set, Onward, InProgress, Labels
<1>2. /\ locks' = locks \cup {<<"handler", At(c)>>}
      /\ UNCHANGED <<errors, result, owners, seen>>
  BY DEF LockHandler
<1>3. At(c) # 0 /\ At(c)' = At(c) /\ pc'[c] = "register"
  BY <1>1, OnwardAsked DEF RInv, Routed
<1>4. Routed(c)' /\ SeenTrue(c)'
  BY <1>3 DEF Routed, SeenTrue
<1> QED
  BY <1>1, <1>2, <1>3, <1>4, SilentStep DEF RInv

LEMMA EnterSilent ==
  ASSUME RInv, IInv', NEW c \in Calls, Enter(c)
  PROVE  RInv' /\ UNCHANGED Registry!vars
<1>1. Onward(c, "access") /\ pc[c] = "register"
  BY DEF Enter, Set, Onward, InProgress, Labels
<1>2. /\ locks' \subseteq locks \cup {"handler", "register"} \X {At(c)}
      /\ UNCHANGED <<errors, result, owners>>
      /\ seen' = [seen EXCEPT ![c] = errors[At(c)]]
  BY DEF Enter, Set
<1>3. At(c) # 0 /\ At(c)' = At(c) /\ pc'[c] = "access"
  BY <1>1, OnwardAsked DEF RInv, Routed
<1>4. /\ seen' = [d \in Calls |-> seen'[d]] /\ seen'[c] = errors[At(c)]
      /\ \A d \in Calls \ {c} : seen'[d] = seen[d]
  BY <1>2 DEF RInv
<1>5. Routed(c)' /\ SeenTrue(c)'
  BY <1>2, <1>3, <1>4 DEF Routed, SeenTrue
<1> QED
  BY <1>1, <1>2, <1>3, <1>4, <1>5, SilentStep

LEMMA StartSilent ==
  ASSUME RInv, IInv', NEW c \in Calls, Start(c)
  PROVE  RInv' /\ UNCHANGED Registry!vars
<1> DEFINE label == Dispatch(Asked(c))
<1>1. pc[c] = "queued" /\ Asked(c) \in Requests
  BY AskedIs DEF Start, RInv, IInv
<1>2. \/ label = "unrouted" /\ At(c) = 0
      \/ label \in {"handler", "register"} /\ At(c) # 0
  BY <1>1, DispatchRouted DEF At
<1>3. Onward(c, label)
  BY <1>1, <1>2 DEF Start, Set, Onward, InProgress, Labels
<1>4. UNCHANGED <<errors, result, owners, seen, locks>>
  BY DEF Start
<1> HIDE DEF label
<1>5. At(c)' = At(c) /\ pc'[c] = label
  BY <1>3, OnwardAsked DEF RInv
<1>6. Routed(c)' /\ SeenTrue(c)'
  BY <1>2, <1>5 DEF Routed, SeenTrue
<1> QED
  BY <1>2, <1>3, <1>4, <1>6, SilentStep DEF RInv

\* A call that returns gives back its mutexes and its pointer.
LEMMA EndKept ==
  ASSUME RInv, IInv', NEW c \in Calls, Onward(c, "done"), Maps',
         NEW x, result' = [result EXCEPT ![c] = {x}],
         owners' \subseteq owners, locks' \subseteq locks,
         seen' = [d \in Calls |-> seen'[d]],
         \A d \in Calls \ {c} : seen'[d] = seen[d],
         \A d \in Calls \ {c} : pc[d] = "access" => errors'[At(d)] = errors[At(d)]
  PROVE  RInv'
<1>1. /\ pc'[c] = "done" /\ \A d \in Calls \ {c} : pc'[d] = pc[d]
      /\ pc[c] # "idle" /\ UNCHANGED <<policy, safe, request>>
  BY OnwardAsked DEF RInv, Onward, InProgress
<1>2. \A d \in Calls : Routed(d)' /\ SeenTrue(d)'
  BY <1>1, OthersKept DEF Routed, SeenTrue
<1>3. Answers'
  BY <1>1 DEF RInv, Answers
<1>4. Around'
  BY <1>1 DEF RInv, Around
<1> QED
  BY <1>2, <1>3, <1>4 DEF RInv

LEMMA CallMoment ==
  ASSUME RInv, IInv', NEW c \in Calls, Call(c)
  PROVE  RInv' /\ Registry!Next
<1>1. PICK r \in Requests :
        /\ request' = [request EXCEPT ![c] = {r}]
        /\ IF r.target = 0 /\ policy = "async"
           THEN pc' = [pc EXCEPT ![c] = "submit"] /\ owners' = Captures(c)
           ELSE pc' = [pc EXCEPT ![c] = Dispatch(r)] /\ UNCHANGED owners
  BY DEF Call, Set
<1>2. pc[c] = "idle" /\ UNCHANGED <<policy, safe, errors, locks, seen, result>>
  BY DEF Call
<1>3. /\ \A d \in Calls \ {c} : pc'[d] = pc[d] /\ request'[d] = request[d]
      /\ request'[c] = {r}
      /\ \/ pc'[c] = "submit" /\ r.target = 0
         \/ pc'[c] = Dispatch(r)
  BY <1>1 DEF RInv, IInv, Types
<1>4. /\ Asked(c)' = r /\ At(c)' = Route(r)
      /\ \A d \in Calls \ {c} : Asked(d)' = Asked(d) /\ At(d)' = At(d)
  BY <1>3 DEF Asked, At
<1>5. \A d \in Calls \ {c} : Routed(d)' /\ SeenTrue(d)'
  BY <1>2, <1>3, <1>4 DEF RInv, Routed, SeenTrue
<1>6. Routed(c)' /\ SeenTrue(c)' /\ pc'[c] \notin {"idle", "done"}
  BY <1>3, <1>4, DispatchRouted DEF Routed, SeenTrue
<1>7. Answers'
  BY <1>2, <1>3, <1>6 DEF RInv, Answers
<1>8. Maps' /\ UNCHANGED Stored
  BY <1>2, StoredKept DEF RInv
<1>9. Around'
  BY <1>1, <1>2 DEF RInv, Around, Captures
<1>10. Registry!Call(c)
  <2>1. request[c] = {} /\ result[c] = {}
    BY <1>2 DEF RInv, Answers
  <2> QED
    BY <1>1, <1>2, <1>8, <2>1 DEF Registry!Call, Stored
<1> QED
  BY <1>2, <1>5, <1>6, <1>7, <1>8, <1>9, <1>10 DEF RInv, Registry!Next

LEMMA SubmitMoment ==
  ASSUME RInv, IInv', NEW c \in Calls, Submit(c)
  PROVE  RInv' /\ (Registry!Next \/ UNCHANGED Registry!vars)
<1>1. /\ pc[c] = "submit" /\ Asked(c).target = 0
      /\ UNCHANGED <<policy, safe, errors, locks, request, seen>>
  BY DEF Submit, RInv, Routed
<1>2. CASE pc' = [pc EXCEPT ![c] = "queued"] /\ UNCHANGED <<result, owners>>
  <2>1. Onward(c, "queued")
    BY <1>1, <1>2 DEF Onward, InProgress, Labels
  <2>2. Routed(c)' /\ SeenTrue(c)'
    BY <1>1, <2>1, OnwardAsked DEF RInv, Routed, SeenTrue
  <2> QED
    BY <1>1, <1>2, <2>1, <2>2, SilentStep DEF RInv
<1>3. CASE Done(c, Failed("rejected"))
  <2>1. Onward(c, "done")
    BY <1>1, <1>3 DEF Onward, InProgress, Labels, Done, Set
  <2>2. /\ result' = [result EXCEPT ![c] = {Failed("rejected")}]
        /\ owners' \subseteq owners
    BY <1>3 DEF Done, Set
  <2>3. Maps' /\ UNCHANGED Stored
    BY <1>1, StoredKept DEF RInv
  <2>4. RInv'
    BY <1>1, <2>1, <2>2, <2>3, EndKept DEF RInv
  <2>5. {c} \in SUBSET Registry!Pending
    BY <1>1, AskedIs DEF Registry!Pending, RInv, IInv, Answers
  <2>6. Registry!Drop({c}, "rejected")
    BY <1>1, <2>2, <2>3 DEF Registry!Drop, Stored, Failed, RInv, Answers
  <2> QED
    BY <2>4, <2>5, <2>6 DEF Registry!Next
<1> QED
  BY <1>2, <1>3 DEF Submit, Set

LEMMA CancelMoment ==
  ASSUME RInv, IInv', CancelQueue
  PROVE  RInv' /\ (Registry!Next \/ UNCHANGED Registry!vars)
<1> DEFINE dropped == {c \in Calls : pc[c] = "queued"}
<1>1. /\ pc' = [c \in Calls |-> IF c \in dropped THEN "done" ELSE pc[c]]
      /\ result' = [c \in Calls |->
           IF c \in dropped THEN {Failed("cancelled")} ELSE result[c]]
      /\ owners' = owners \ dropped
      /\ UNCHANGED <<policy, safe, errors, locks, request, seen>>
  BY DEF CancelQueue
<1>2. \A c \in Calls : Asked(c)' = Asked(c) /\ At(c)' = At(c)
  BY <1>1 DEF Asked, At
<1>3. \A c \in Calls : Routed(c)' /\ SeenTrue(c)'
  BY <1>1, <1>2 DEF RInv, Routed, SeenTrue
<1>4. Answers'
  BY <1>1 DEF RInv, Answers
<1>5. Maps' /\ UNCHANGED Stored
  BY <1>1, StoredKept DEF RInv
<1>6. RInv'
  BY <1>1, <1>3, <1>4, <1>5 DEF RInv, Around
<1>7. CASE dropped = {}
  <2>1. result' = result
    BY <1>1, <1>7 DEF RInv, Answers
  <2> QED
    BY <1>1, <1>5, <1>6, <2>1 DEF Registry!vars, Stored
<1>8. CASE dropped # {}
  <2>1. ASSUME NEW c \in dropped
        PROVE  result[c] = {} /\ \E r \in request[c] : r.target = 0
    <3>1. Asked(c).target = 0 /\ request[c] = {Asked(c)} /\ result[c] = {}
      BY AskedIs DEF RInv, IInv, Routed, Answers
    <3> QED
      BY <3>1
  <2>2. dropped \in SUBSET Registry!Pending
    BY <2>1 DEF Registry!Pending
  <2>3. Registry!Drop(dropped, "cancelled")
    BY <1>1, <1>5, <1>8 DEF Registry!Drop, Stored, Failed
  <2> HIDE DEF dropped
  <2> QED
    BY <1>6, <2>2, <2>3 DEF Registry!Next
<1> QED
  BY <1>7, <1>8

LEMMA UnroutedMoment ==
  ASSUME RInv, IInv', NEW c \in Calls, Unrouted(c)
  PROVE  RInv' /\ Registry!Next
<1>1. /\ pc[c] = "unrouted" /\ At(c) = 0
      /\ UNCHANGED <<policy, safe, errors, locks, request, seen>>
  BY DEF Unrouted, RInv, Routed
<1>2. Onward(c, "done")
  BY <1>1 DEF Unrouted, Onward, InProgress, Labels, Done, Set
<1>3. /\ result' = [result EXCEPT ![c] = {Failed("missing_register")}]
      /\ owners' \subseteq owners
  BY DEF Unrouted, Done, Set
<1>4. Maps' /\ UNCHANGED Stored
  BY <1>1, StoredKept DEF RInv
<1>5. RInv'
  BY <1>1, <1>2, <1>3, <1>4, EndKept DEF RInv
<1>6. Asked(c) \in Requests /\ request[c] = {Asked(c)} /\ result[c] = {}
  BY <1>1, AskedIs DEF RInv, IInv, Answers
<1>7. Registry!Routes(Asked(c)) = {}
  BY <1>1, <1>6, RouteIs DEF At
<1>8. Registry!Answer(c, "missing_register", {}, 0)
  BY <1>1, <1>3 DEF Registry!Answer, Failed
<1>9. Registry!Decline(c)
  BY <1>6, <1>7, <1>8 DEF Registry!Decline
<1> QED
  BY <1>4, <1>5, <1>6, <1>9 DEF Registry!Next, Stored

\* An operation takes effect in the step that acts on what it saw.
LEMMA ApplyMoment ==
  ASSUME RInv, IInv', NEW c \in Calls, Apply(c)
  PROVE  RInv' /\ Registry!Next
<1> DEFINE r == Asked(c)
           i == At(c)
           f == seen[c]
<1>1. pc[c] = "access" /\ UNCHANGED <<policy, safe, request, accepted>>
  BY DEF Apply
<1>2. /\ errors' = [errors EXCEPT ![i] =
           IF Answer(r, i, f).status = "ok" THEN Left(r, f) ELSE @]
      /\ result' = [result EXCEPT ![c] = {Answer(r, i, f)}]
      /\ owners' \subseteq owners /\ locks' \subseteq locks
      /\ seen' = [seen EXCEPT ![c] = <<>>]
  BY DEF Apply, Done, Set
<1>3. /\ seen' = [d \in Calls |-> seen'[d]]
      /\ \A d \in Calls \ {c} : seen'[d] = seen[d]
  BY <1>2 DEF RInv
<1>4. /\ r \in Requests /\ request[c] = {r} /\ result[c] = {}
      /\ i # 0 /\ f = errors[i]
  BY <1>1, AskedIs DEF RInv, IInv, Answers, Routed, SeenTrue
<1>5. i \in Registry!Routes(r) /\ i \in DOMAIN Registers
  BY <1>4, RouteIs DEF At
<1>6. Onward(c, "done")
  BY <1>1 DEF Apply, Onward, InProgress, Labels, Done, Set
<1>7. \A d \in Calls \ {c} : pc[d] = "access" => At(d) # i
  BY <1>1, ExclusiveAccess DEF RInv, AccessExclusive
<1>8. Map(f, i) /\ Maps
  BY <1>4, <1>5 DEF RInv, Maps
<1> HIDE DEF r, i, f
<1>9. Moment(c, r, i, f)
  BY <1>1, <1>2, <1>4, <1>5, <1>8 DEF Moment
<1>10. \A j \in DOMAIN Registers \ {i} : errors'[j] = errors[j]
  BY <1>2, <1>5 DEF RInv, Maps
<1>11. Registry!Next /\ Maps'
  <2>1. CASE Answer(r, i, f).status = "ok"
    <3>1. errors' = [errors EXCEPT ![i] = Left(r, f)]
      BY <1>2, <2>1
    <3> QED
      BY <1>4, <1>5, <1>9, <2>1, <3>1, AcceptedMoment
  <2>2. CASE Answer(r, i, f).status # "ok"
    <3>1. UNCHANGED errors
      BY <1>2, <2>2 DEF RInv, Maps
    <3> QED
      BY <1>4, <1>5, <1>9, <2>2, <3>1, RefusedMoment
  <2> QED
    BY <2>1, <2>2
<1>12. \A d \in Calls \ {c} : pc[d] = "access" => errors'[At(d)] = errors[At(d)]
  <2> SUFFICES ASSUME NEW d \in Calls \ {c}, pc[d] = "access"
               PROVE  errors'[At(d)] = errors[At(d)]
    OBVIOUS
  <2>1. At(d) \in DOMAIN Registers
    BY AskedIs, RouteIs DEF RInv, IInv, Routed, At
  <2> QED
    BY <1>7, <1>10, <2>1
<1> QED
  BY <1>2, <1>3, <1>6, <1>11, <1>12, EndKept
-----------------------------------------------------------------------------
(* The theorems.                                                           *)

LEMMA RInvInit == Init => RInv /\ Registry!Init
<1> SUFFICES ASSUME Init PROVE RInv /\ Registry!Init
  OBVIOUS
<1>1. IInv
  BY IInvInit
<1>2. Answers /\ Around
  BY DEF Init, Answers, Around
<1>3. \A i \in DOMAIN Registers : errors[i] = <<>> /\ Range(errors[i]) = {}
  BY DEF Init, Range
<1>4. Maps
  <2>1. IsFiniteSet({}) /\ Cardinality({}) = 0
    BY FS_EmptySet
  <2>2. \A i \in DOMAIN Registers : Registers[i].limit >= 0
    BY LimitsNatural
  <2>3. DOMAIN <<>> = {} /\ <<>> = [k \in {} |-> <<>>[k]]
    OBVIOUS
  <2>4. \A i \in DOMAIN Registers : Map(<<>>, i)
    BY <2>1, <2>2, <2>3 DEF Map
  <2> QED
    BY <1>3, <2>4 DEF Init, Maps
<1>5. /\ seen = [c \in Calls |-> seen[c]]
      /\ \A c \in Calls : Routed(c) /\ SeenTrue(c)
  BY DEF Init, Routed, SeenTrue
<1>6. Registry!Init
  BY <1>3 DEF Init, Registry!Init
<1> QED
  BY <1>1, <1>2, <1>4, <1>5, <1>6 DEF RInv

LEMMA RInvStep ==
  RInv /\ [Next]_vars => RInv' /\ [Registry!Next]_(Registry!vars)
<1> SUFFICES ASSUME RInv, [Next]_vars
             PROVE  RInv' /\ (Registry!Next \/ UNCHANGED Registry!vars)
  OBVIOUS
<1>1. IInv'
  BY IInvStep DEF RInv
<1>2. ASSUME NEW c \in Calls, Call(c) \/ Step(c)
      PROVE  RInv' /\ (Registry!Next \/ UNCHANGED Registry!vars)
  BY <1>1, <1>2, CallMoment, SubmitMoment, StartSilent, UnroutedMoment,
     LockHandlerSilent, EnterSilent, ApplyMoment DEF Step
<1>3. CASE CancelQueue
  BY <1>1, <1>3, CancelMoment
<1>4. CASE Shutdown \/ DestroySystem \/ UNCHANGED vars
  <2>1. /\ UNCHANGED <<policy, safe, errors, locks, pc, request, seen, result>>
        /\ owners' \subseteq owners
    BY <1>4 DEF Shutdown, DestroySystem, vars
  <2>2. \A c \in Calls : Asked(c)' = Asked(c) /\ At(c)' = At(c)
    BY <2>1 DEF Asked, At
  <2>3. \A c \in Calls : Routed(c)' /\ SeenTrue(c)'
    BY <2>1, <2>2 DEF RInv, Routed, SeenTrue
  <2>4. Maps' /\ UNCHANGED Stored
    BY <2>1, StoredKept DEF RInv
  <2>5. Answers' /\ Around'
    BY <2>1 DEF RInv, Answers, Around
  <2> QED
    BY <1>1, <2>1, <2>3, <2>4, <2>5 DEF RInv, Registry!vars, Stored
<1> QED
  BY <1>2, <1>3, <1>4 DEF Next

LEMMA RInvTypes == RInv => TypeOK
<1> SUFFICES ASSUME RInv PROVE TypeOK
  OBVIOUS
<1>1. pc \in [Calls -> Labels] /\ \A c \in Calls : request[c] \subseteq Requests
  BY DEF RInv, IInv, Types
<1>2. \A i \in DOMAIN Registers : Map(errors[i], i)
  BY DEF RInv, Maps
<1> QED
  BY <1>1, <1>2 DEF TypeOK, RInv, Around, Answers, Labels, Map

\* A register never holds more than its limit, and under each code only an
\* error of that code and of its category, whatever the order of the calls.
THEOREM TypeCorrect == Spec => []TypeOK
<1>1. RInv /\ [Next]_vars => RInv'
  BY RInvStep
<1>2. Init => RInv
  BY RInvInit
<1> QED
  BY <1>1, <1>2, RInvTypes, PTL DEF Spec

\* Registers and systems, direct calls, routed calls and operations of the
\* executor, take effect one at a time between call and answer.
THEOREM Refinement == Spec => ImplementsRegistry
BY RInvInit, RInvStep, PTL DEF Spec, ImplementsRegistry, Registry!Spec
=============================================================================
