----------------------------- MODULE CacheProofs -----------------------------
(***************************************************************************)
(* What the caches and the limiters guarantee for any keys, tags,          *)
(* goroutines, clients, sizes, rates and times to live: TaggedCache with   *)
(* the MemoryCache under it, the token bucket in Redis, QueryCache and     *)
(* MultiLevelCache, and the four limiters in memory.                       *)
(***************************************************************************)
EXTENDS MCCache, FiniteSetTheorems, Totals, TLAPS

(* A step of Next that is not one of TaggedCache's own leaves the tags.    *)
LEMMA Steps ==
  ASSUME [Next]_vars
  PROVE  \/ \E u \in Users, k \in Keys, ttl \in TTLs, ts \in SUBSET Tags :
               SetTagged(u, k, ttl, ts)
         \/ \E u \in Users, k \in Keys : GetTagged(u, k) \/ DeleteTagged(u, k)
         \/ \E u \in Users : LazyDelete(u)
         \/ \E u \in Users, t \in Tags : ClearTag(u, t)
         \/ CleanupTags
         \/ (Cleanup \/ CacheTick) /\ UNCHANGED <<tagVars, given>>
         \/ UNCHANGED vars
  BY DEF Next

(* A step of TaggedCache keeps the types. *)
LEMMA TypesStep ==
    ASSUME TypeOK, [Next]_vars
    PROVE  TypeOK'
<1> USE KeysAssumption, TTLAssumption, SizeAssumption
<1> USE DEF TypeOK, CacheTypeOK, Absent, tagVars
<1>1. ASSUME NEW u \in Users, NEW k \in Keys, NEW ttl \in TTLs,
             NEW ts \in SUBSET Tags, SetTagged(u, k, ttl, ts)
      PROVE  TypeOK'
  <2>1. items' \in [Keys -> {Absent} \cup 0..MaxTTL] /\ UNCHANGED reader
    BY <1>1 DEF SetTagged, Set, Put
  <2>2. /\ tags' \in [Tags -> SUBSET Keys]
        /\ keyTags' \in [Keys -> SUBSET Tags]
        /\ given' \in [Keys -> SUBSET Tags]
    BY <1>1 DEF SetTagged, RecordTags
  <2>3. QED
    BY <2>1, <2>2
<1>2. ASSUME NEW u \in Users, NEW k \in Keys, GetTagged(u, k) PROVE TypeOK'
  BY <1>2 DEF GetTagged, Get, Read
<1>3. ASSUME NEW u \in Users, NEW k \in Keys, DeleteTagged(u, k) PROVE TypeOK'
  BY <1>3 DEF DeleteTagged, Delete, Forget
<1>4. ASSUME NEW u \in Users, LazyDelete(u) PROVE TypeOK'
  BY <1>4 DEF LazyDelete, DeleteRead
<1>5. ASSUME NEW u \in Users, NEW t \in Tags, ClearTag(u, t) PROVE TypeOK'
  BY <1>5 DEF ClearTag
<1>6. CASE CleanupTags
  BY <1>6 DEF CleanupTags, Forget
<1>7. CASE (Cleanup \/ CacheTick) /\ UNCHANGED <<tagVars, given>>
  BY <1>7 DEF Cleanup, CacheTick, Live
<1>8. CASE UNCHANGED vars
  BY <1>8 DEF vars, cacheVars
<1>9. QED
  BY <1>1, <1>2, <1>3, <1>4, <1>5, <1>6, <1>7, <1>8, Steps

(* The caches keep their types. *)
THEOREM TypeCorrect == Spec => []TypeOK
<1> USE KeysAssumption, TTLAssumption, SizeAssumption
<1>1. Init => TypeOK
  BY DEF Init, CacheInit, TypeOK, CacheTypeOK, NoRead, Absent
<1>2. TypeOK /\ [Next]_vars => TypeOK'
  BY TypesStep
<1>3. QED
  BY <1>1, <1>2, PTL DEF Spec

-----------------------------------------------------------------------------
(* The tags of a key are those the indexes agree on; a live entry has all  *)
(* it was given.  The converse of the first part fails: ClearTags leaves   *)
(* keys in the sets of their other tags.                                   *)
IndexesAgree ==
    /\ \A k \in Keys : \A t \in keyTags[k] : k \in tags[t]
    /\ \A k \in Keys : Live(k) => given[k] \subseteq keyTags[k]

(* A step of TaggedCache keeps its indexes in agreement. *)
LEMMA IndexesStep ==
    ASSUME TypeOK, TypeOK', IndexesAgree, [Next]_vars
    PROVE  IndexesAgree'
<1> USE KeysAssumption, TTLAssumption, SizeAssumption
<1> USE DEF TypeOK, CacheTypeOK, IndexesAgree, Live, Absent, tagVars
<1>1. ASSUME NEW u \in Users, NEW k \in Keys, NEW ttl \in TTLs,
             NEW ts \in SUBSET Tags, SetTagged(u, k, ttl, ts)
      PROVE  IndexesAgree'
  <2>1. \A j \in Keys \ {k} : items'[j] > 0 => items[j] > 0
    BY <1>1 DEF SetTagged, Set, Put
  <2>2. /\ \A j \in Keys \ {k} : given'[j] = given[j] /\ keyTags'[j] = keyTags[j]
        /\ keyTags'[k] = keyTags[k] \cup ts
        /\ given'[k] \subseteq keyTags'[k]
    BY <1>1 DEF SetTagged, RecordTags
  <2>3. \A t \in Tags : tags[t] \subseteq tags'[t] /\ (t \in ts => k \in tags'[t])
    BY <1>1 DEF SetTagged, RecordTags
  <2>4. QED
    BY <2>1, <2>2, <2>3
<1>2. ASSUME NEW u \in Users, NEW k \in Keys, GetTagged(u, k) PROVE IndexesAgree'
  BY <1>2 DEF GetTagged, Get
<1>3. ASSUME NEW u \in Users, NEW k \in Keys, DeleteTagged(u, k) PROVE IndexesAgree'
  BY <1>3 DEF DeleteTagged, Delete, Forget
<1>4. ASSUME NEW u \in Users, LazyDelete(u) PROVE IndexesAgree'
  BY <1>4 DEF LazyDelete, DeleteRead
<1>5. ASSUME NEW u \in Users, NEW t \in Tags, ClearTag(u, t) PROVE IndexesAgree'
  BY <1>5 DEF ClearTag
<1>6. CASE CleanupTags
  BY <1>6 DEF CleanupTags, Forget
<1>7. CASE (Cleanup \/ CacheTick) /\ UNCHANGED <<tagVars, given>>
  BY <1>7 DEF Cleanup, CacheTick
<1>8. CASE UNCHANGED vars
  BY <1>8 DEF vars, cacheVars
<1>9. QED
  BY <1>1, <1>2, <1>3, <1>4, <1>5, <1>6, <1>7, <1>8, Steps

(* ClearTags(t) reaches every live entry that was given the tag t.         *)
THEOREM TagsReach == Spec => []TagsReachKeys
<1> USE KeysAssumption, TTLAssumption, SizeAssumption
<1>1. Init => IndexesAgree
  BY DEF Init, CacheInit, IndexesAgree, Live, Absent
<1>2. TypeOK /\ TypeOK' /\ IndexesAgree /\ [Next]_vars => IndexesAgree'
  BY IndexesStep
<1>3. TypeOK /\ IndexesAgree => TagsReachKeys
  BY DEF TypeOK, IndexesAgree, TagsReachKeys
<1>4. QED
  BY <1>1, <1>2, <1>3, TypeCorrect, PTL DEF Spec

-----------------------------------------------------------------------------
Entries == {k \in Keys : Stored(k)}

(* Set is the only step that adds an entry, and it adds one.               *)
LEMMA SetKeepsSize ==
  ASSUME TypeOK, SizeBounded, NEW u \in Users, NEW k \in Keys, NEW ttl \in TTLs,
         Set(u, k, ttl)
  PROVE  SizeBounded'
<1> USE KeysAssumption, TTLAssumption, SizeAssumption
<1> USE DEF TypeOK, CacheTypeOK, Absent, Stored
<1> SUFFICES ASSUME MaxSize > 0 PROVE Size' <= MaxSize
  BY DEF SizeBounded
<1>1. IsFiniteSet(Entries) /\ Size = Cardinality(Entries) /\ Size \in Nat
  BY FS_Subset, FS_CardinalityType DEF Entries, Size
<1>2. Size' = Cardinality(Entries')
  BY DEF Entries, Size
<1>3. CASE ~MustEvict
  <2>1. Entries' = Entries \cup {k}
    BY <1>3 DEF Set, Put, Entries
  <2>2. Size < MaxSize
    BY <1>1, <1>3 DEF MustEvict
  <2>3. Cardinality(Entries \cup {k}) \in {Size, Size + 1}
    BY <1>1, FS_AddElement
  <2>4. QED
    BY <1>1, <1>2, <2>1, <2>2, <2>3
<1>4. CASE MustEvict
  <2>1. PICK e \in Keys : /\ Evictable(e)
                          /\ items' = [items EXCEPT ![e] = Absent, ![k] = ttl]
    BY <1>4 DEF Set, Put
  <2> DEFINE Rest == Entries \ {e}
  <2>2. e \in Entries
    BY <2>1 DEF Evictable, Entries
  <2>3. Entries' = Rest \cup {k}
    BY <2>1 DEF Entries
  <2>4. IsFiniteSet(Rest) /\ Cardinality(Rest) = Size - 1
    BY <1>1, <2>2, FS_RemoveElement
  <2>5. Cardinality(Rest \cup {k}) \in {Cardinality(Rest), Cardinality(Rest) + 1}
    BY <2>4, FS_AddElement
  <2>6. QED
    BY <1>1, <1>2, <2>3, <2>4, <2>5 DEF SizeBounded
<1>5. QED
  BY <1>3, <1>4

(* Nor does another step of TaggedCache. *)
LEMMA SizeStep ==
    ASSUME TypeOK, TypeOK', SizeBounded, [Next]_vars
    PROVE  SizeBounded'
<1> USE KeysAssumption, TTLAssumption, SizeAssumption
<1> USE DEF TypeOK, CacheTypeOK, Absent
<1>1. ASSUME Entries' \subseteq Entries PROVE SizeBounded'
  <2>1. IsFiniteSet(Entries)
    BY FS_Subset DEF Entries
  <2>2. /\ Cardinality(Entries') <= Cardinality(Entries)
        /\ Cardinality(Entries) \in Nat /\ Cardinality(Entries') \in Nat
    BY <1>1, <2>1, FS_Subset, FS_CardinalityType
  <2>3. Size = Cardinality(Entries) /\ Size' = Cardinality(Entries')
    BY DEF Entries, Size
  <2>4. QED
    BY <2>2, <2>3 DEF SizeBounded
<1> USE DEF Entries, Stored, Live, tagVars
<1>2. ASSUME NEW u \in Users, NEW k \in Keys, NEW ttl \in TTLs,
             NEW ts \in SUBSET Tags, SetTagged(u, k, ttl, ts)
      PROVE  SizeBounded'
  BY <1>2, SetKeepsSize DEF SetTagged
<1>3. ASSUME NEW u \in Users, NEW k \in Keys, GetTagged(u, k) PROVE SizeBounded'
  BY <1>1, <1>3 DEF GetTagged, Get
<1>4. ASSUME NEW u \in Users, NEW k \in Keys, DeleteTagged(u, k) PROVE SizeBounded'
  BY <1>1, <1>4 DEF DeleteTagged, Delete
<1>5. ASSUME NEW u \in Users, LazyDelete(u) PROVE SizeBounded'
  BY <1>1, <1>5 DEF LazyDelete, DeleteRead
<1>6. ASSUME NEW u \in Users, NEW t \in Tags, ClearTag(u, t) PROVE SizeBounded'
  BY <1>1, <1>6 DEF ClearTag
<1>7. CASE CleanupTags
  BY <1>1, <1>7 DEF CleanupTags
<1>8. CASE (Cleanup \/ CacheTick) /\ UNCHANGED <<tagVars, given>>
  BY <1>1, <1>8 DEF Cleanup, CacheTick
<1>9. CASE UNCHANGED vars
  BY <1>1, <1>9 DEF vars, cacheVars
<1>10. QED
  BY <1>2, <1>3, <1>4, <1>5, <1>6, <1>7, <1>8, <1>9, Steps

(* However its entries are set, expire, are tagged and cleared, the cache  *)
(* holds at most maxSize of them.                                          *)
THEOREM SizeHolds == Spec => []SizeBounded
<1> USE KeysAssumption, TTLAssumption, SizeAssumption
<1>1. Init => SizeBounded
  <2> SUFFICES ASSUME Init PROVE SizeBounded
    OBVIOUS
  <2>1. {k \in Keys : Stored(k)} = {}
    BY DEF Init, CacheInit, Stored
  <2>2. QED
    BY <2>1, FS_EmptySet DEF SizeBounded, Size
<1>2. TypeOK /\ TypeOK' /\ SizeBounded /\ [Next]_vars => SizeBounded'
  BY SizeStep
<1>3. QED
  BY <1>1, <1>2, TypeCorrect, PTL DEF Spec

-----------------------------------------------------------------------------
(* The token bucket that processes share in Redis, for any clients, any    *)
(* rate and burst, any time to live and any clocks.                        *)

(* The constants' meaning; the instance that is model-checked has it. *)
SharedLimits ==
    /\ Rate \in Nat /\ SharedBurst \in Nat /\ BucketTtl \in Nat
    /\ MaxN \in Nat /\ MaxClock \in Nat
    /\ NoTime \notin Nat

(* The tokens and the permits given are what the bucket was born with and  *)
(* what the rate has added by the time of the last script; and a script    *)
(* that carried an early time has taken back what the rate adds again.     *)
Balanced == live =>
    /\ stock + granted <= SharedBurst + Rate * (lastTime - born)
    /\ stock >= Rate * (lastTime - latest)
    /\ latest >= lastTime

(* How the rate adds up. *)
LEMMA RateAdds ==
  ASSUME SharedLimits, NEW a \in Int, NEW b \in Int, NEW d \in Int
  PROVE  /\ Rate * (a - b) \in Int
         /\ (a - b) * Rate = Rate * (a - b)
         /\ Rate * (a - b) + Rate * (b - d) = Rate * (a - d)
         /\ a >= b => Rate * (a - b) >= 0
         /\ a <= b => Rate * (a - b) <= 0
<1>1. Rate \in Nat
  BY DEF SharedLimits
<1>2. /\ Rate * (a - b) = Rate * a - Rate * b
      /\ Rate * (b - d) = Rate * b - Rate * d
      /\ Rate * (a - d) = Rate * a - Rate * d
      /\ Rate * a \in Int /\ Rate * b \in Int /\ Rate * d \in Int
  BY <1>1, Z3
<1>3. ASSUME NEW x \in Nat PROVE Rate * x >= 0
  BY <1>1, <1>3
<1>4. a >= b => Rate * (a - b) >= 0
  BY <1>3
<1>5. a <= b => Rate * (b - a) >= 0
  BY <1>3
<1>6. Rate * (b - a) = Rate * b - Rate * a
  BY <1>1, Z3
<1>7. (a - b) * Rate = Rate * (a - b)
  BY <1>1, Z3
<1>8. QED
  BY <1>2, <1>4, <1>5, <1>6, <1>7

(* The limiter starts with variables of their types. *)
LEMMA SharedStart == ASSUME SharedLimits, L!SharedInit PROVE L!SharedTypeOK
<1>1. at \in [Clients -> Nat \cup {NoTime}]
  BY Zenon DEF L!SharedInit
<1>2. live \in BOOLEAN
  BY Zenon DEF L!SharedInit
<1>3. /\ clock \in Nat /\ stock \in Int /\ lastTime \in Nat /\ expires \in Nat
      /\ born \in Nat /\ latest \in Nat /\ granted \in Nat
  BY DEF L!SharedInit
<1>4. QED
  BY <1>1, <1>2, <1>3 DEF L!SharedTypeOK

(* A script, a failure, an expiry or a tick keeps them. *)
LEMMA SharedStep == ASSUME SharedLimits, L!SharedTypeOK, [L!SharedNext]_(L!sharedVars) PROVE L!SharedTypeOK'
<1> USE DEF SharedLimits, L!SharedTypeOK, L!bucket, L!history, L!Answered
<1>1. ASSUME NEW c \in Clients, L!ReadTime(c) PROVE L!SharedTypeOK'
  BY <1>1 DEF L!ReadTime
<1>2. ASSUME NEW c \in Clients, NEW n \in 1..MaxN, L!Script(c, n) PROVE L!SharedTypeOK'
  <2>1. at[c] \in Nat
    BY <1>2 DEF L!Script
  <2>2. (at[c] - lastTime) * Rate \in Int
    BY <2>1, RateAdds
  <2>3. L!Refilled(at[c]) \in Int
    BY <2>2 DEF L!Refilled, L!Lower
  <2>4. QED
    BY <1>2, <2>1, <2>3 DEF L!Script
<1>3. ASSUME NEW c \in Clients, L!FailOpen(c) PROVE L!SharedTypeOK'
  BY <1>3 DEF L!FailOpen
<1>4. CASE L!SharedReset \/ L!Expire
  BY <1>4 DEF L!SharedReset, L!Expire, L!Forget
<1>5. CASE L!SharedTick
  BY <1>5 DEF L!SharedTick
<1>6. CASE UNCHANGED L!sharedVars
  BY <1>6 DEF L!sharedVars
<1>7. QED
  BY <1>1, <1>2, <1>3, <1>4, <1>5, <1>6 DEF L!SharedNext

(* The limiter keeps its types. *)
THEOREM SharedTypeCorrect ==
  ASSUME SharedLimits
  PROVE  L!SharedSpec => []L!SharedTypeOK
<1>1. L!SharedInit => L!SharedTypeOK
  BY SharedStart
<1>2. L!SharedTypeOK /\ [L!SharedNext]_(L!sharedVars) => L!SharedTypeOK'
  BY SharedStep
<1>3. QED
  BY <1>1, <1>2, PTL DEF L!SharedSpec

-----------------------------------------------------------------------------
(* A script keeps the balance, whatever time it carries. *)
LEMMA ScriptBalances ==
  ASSUME SharedLimits, L!SharedTypeOK, Balanced, NEW c \in Clients, NEW n \in 1..MaxN, L!Script(c, n)
  PROVE  Balanced'
<1> DEFINE t == at[c]
           new == L!Refilled(t)
           taken == IF new >= n THEN n ELSE 0
<1> USE DEF SharedLimits, L!SharedTypeOK, Balanced
<1>1. t \in Nat
  BY DEF L!Script
<1>2. taken \in Nat /\ stock' = new - taken /\ lastTime' = t
  BY DEF L!Script
<1>3. CASE ~live
  <2>1. new = SharedBurst /\ born' = t /\ latest' = t /\ granted' = taken
    BY <1>3 DEF L!Refilled, L!Script
  <2>2. Rate * (t - t) = 0
    BY <1>1
  <2>3. stock' >= 0
    BY <2>1, <1>2
  <2>4. /\ Rate * (lastTime' - born') = 0 /\ Rate * (lastTime' - latest') = 0
        /\ latest' >= lastTime'
    BY <1>1, <1>2, <2>1, <2>2
  <2>5. stock' + granted' = SharedBurst
    BY <1>2, <2>1
  <2>6. QED
    BY <2>3, <2>4, <2>5
<1>4. CASE live
  <2> DEFINE late == IF latest > t THEN latest ELSE t
  <2>1. born' = born /\ latest' = late /\ granted' = granted + taken
    BY <1>4 DEF L!Script
  <2>2. new = L!Lower(SharedBurst, stock + (t - lastTime) * Rate)
    BY <1>4 DEF L!Refilled
  <2>3. /\ (t - lastTime) * Rate = Rate * (t - lastTime)
        /\ Rate * (t - lastTime) + Rate * (lastTime - born) = Rate * (t - born)
        /\ Rate * (t - lastTime) + Rate * (lastTime - latest) = Rate * (t - latest)
        /\ Rate * (t - lastTime) \in Int /\ Rate * (t - born) \in Int
        /\ Rate * (t - latest) \in Int
        /\ Rate * (lastTime - born) \in Int /\ Rate * (lastTime - latest) \in Int
        /\ t >= latest => Rate * (t - latest) >= 0
    BY <1>1, RateAdds
  <2>4. Rate * (t - late) \in Int /\ Rate * (t - late) <= 0
    BY <1>1, RateAdds
  <2>5. new \in Int
    BY <2>2, <2>3 DEF L!Lower
  <2>6. new + granted <= SharedBurst + Rate * (t - born)
    BY <1>4, <2>2, <2>3 DEF L!Lower
  <2>7. new >= Rate * (t - late)
    <3>1. CASE latest > t
      BY <1>4, <3>1, <2>2, <2>3, <2>4 DEF L!Lower
    <3>2. CASE ~(latest > t)
      <4>1. Rate * (t - late) = 0
        BY <1>1, <3>2
      <4>2. new >= 0
        BY <1>1, <1>4, <3>2, <2>2, <2>3 DEF L!Lower
      <4>3. QED
        BY <4>1, <4>2
    <3>3. QED
      BY <3>1, <3>2
  <2>8. new - taken >= Rate * (t - late)
    BY <2>4, <2>5, <2>7
  <2>9. QED
    BY <1>1, <1>2, <2>1, <2>3, <2>5, <2>6, <2>8
<1>5. QED
  BY <1>3, <1>4

(* The bucket starts balanced, and a script, a failure, an expiry or a     *)
(* tick keeps it so.                                                       *)
LEMMA BalancedStart == ASSUME L!SharedInit PROVE Balanced
  BY DEF L!SharedInit, Balanced

LEMMA BalancedStep ==
    ASSUME SharedLimits, L!SharedTypeOK, Balanced, [L!SharedNext]_(L!sharedVars)
    PROVE  Balanced'
<1>1. ASSUME NEW c \in Clients, NEW n \in 1..MaxN, L!Script(c, n) PROVE Balanced'
  BY <1>1, ScriptBalances
<1>2. ASSUME NEW c \in Clients, L!ReadTime(c) \/ L!FailOpen(c) PROVE Balanced'
  BY <1>2 DEF L!ReadTime, L!FailOpen, L!bucket, L!history, Balanced
<1>3. CASE L!SharedReset \/ L!Expire
  BY <1>3 DEF L!SharedReset, L!Expire, L!Forget, Balanced
<1>4. CASE L!SharedTick \/ UNCHANGED L!sharedVars
  BY <1>4 DEF L!SharedTick, L!sharedVars, L!bucket, L!history, Balanced
<1>5. QED
  BY <1>1, <1>2, <1>3, <1>4 DEF L!SharedNext

(* A balanced bucket has given no more than it may.                        *)
LEMMA BalancedKeeps ==
    ASSUME SharedLimits, L!SharedTypeOK, Balanced
    PROVE  L!BucketKept
<1> SUFFICES ASSUME live PROVE granted <= SharedBurst + Rate * (latest - born)
  BY DEF L!BucketKept
<1>1. Rate * (latest - lastTime) + Rate * (lastTime - born) = Rate * (latest - born)
  BY RateAdds DEF L!SharedTypeOK, SharedLimits
<1>2. Rate * (lastTime - latest) + Rate * (latest - lastTime) = Rate * (lastTime - lastTime)
  BY RateAdds DEF L!SharedTypeOK, SharedLimits
<1>3. Rate * (lastTime - lastTime) = 0
  BY DEF L!SharedTypeOK, SharedLimits
<1>4. /\ Rate * (latest - lastTime) \in Int /\ Rate * (lastTime - latest) \in Int
      /\ Rate * (lastTime - born) \in Int
  BY RateAdds DEF L!SharedTypeOK, SharedLimits
<1>5. QED
  BY <1>1, <1>2, <1>3, <1>4 DEF Balanced, L!SharedTypeOK, SharedLimits

(* A bucket never gives away more than its burst and its rate allow from   *)
(* its first script to the latest time a script carried                    *)
(* (distributed_limiter.go:86-121).                                        *)
THEOREM BucketIsKept ==
  ASSUME SharedLimits
  PROVE  L!SharedSpec => []L!BucketKept
  BY SharedTypeCorrect, BalancedStart, BalancedStep, BalancedKeeps, PTL DEF L!SharedSpec
-----------------------------------------------------------------------------
(* The settings of MultiLevelCache and QueryCache: entries live for a time *)
(* and are stored within a time.                                           *)
StoreSettings == TTL \in Nat \ {0} /\ MaxDelay \in Nat

(* QueryCache.  An entry's age and what it has left are one ttl and the     *)
(* time to store it at most.                                               *)
QueryAges ==
    IF entry.left > 0 THEN entry.age + entry.left <= TTL + MaxDelay ELSE entry.age = 0
QueryInv == Multi!QueryTypeOK /\ QueryAges

(* A lookup, a query, a write or a tick keeps what the query cache may serve young enough. *)
LEMMA QueryStep ==
    ASSUME StoreSettings, QueryInv, Multi!QueryNext \/ UNCHANGED queryVars
    PROVE  QueryInv'
<1> USE DEF StoreSettings, QueryInv, QueryAges, Multi!QueryTypeOK, Multi!ResultAgeCap, Multi!LiveResult
<1>1. ASSUME NEW c \in Clients, Multi!Lookup(c) \/ Multi!RunQuery(c) PROVE QueryInv'
  BY <1>1 DEF Multi!Lookup, Multi!Miss, Multi!RunQuery
<1>2. ASSUME NEW c \in Clients, Multi!QueryFails(c) \/ Multi!StoreFails(c) PROVE QueryInv'
  BY <1>2 DEF Multi!QueryFails, Multi!StoreFails, Multi!NoQuery
<1>3. ASSUME NEW c \in Clients, Multi!Store(c) PROVE QueryInv'
  BY <1>3 DEF Multi!Store, Multi!NoQuery
<1>4. CASE Multi!InvalidateCache \/ Multi!Enable \/ Multi!Disable
  <2>1. CASE Multi!InvalidateCache
    BY <2>1 DEF Multi!InvalidateCache, Multi!NoResult
  <2>2. CASE Multi!Enable \/ Multi!Disable
    BY <2>2 DEF Multi!Enable, Multi!Disable
  <2>3. QED
    BY <1>4, <2>1, <2>2
<1>5. CASE Multi!QueryTick
  <2>1. entry' \in [left : 0..TTL, age : 0..Multi!ResultAgeCap]
    <3>1. CASE entry.left > 1
      <4>1. entry' = [left |-> entry.left - 1,
                      age |-> IF entry.age < Multi!ResultAgeCap THEN entry.age + 1 ELSE entry.age]
        BY <1>5, <3>1 DEF Multi!QueryTick
      <4>2. QED
        BY <3>1, <4>1
    <3>2. CASE ~(entry.left > 1)
      BY <1>5, <3>2 DEF Multi!QueryTick, Multi!NoResult
    <3>3. QED
      BY <3>1, <3>2
  <2>2. QueryAges'
    BY <1>5 DEF Multi!QueryTick, Multi!NoResult
  <2>3. query' \in [Clients -> [at : {"none", "query", "store"}, age : 0..MaxDelay]]
    BY <1>5 DEF Multi!QueryTick, Multi!Storing
  <2>4. enabled' = enabled
    BY <1>5 DEF Multi!QueryTick
  <2>5. QED
    BY <2>1, <2>2, <2>3, <2>4
<1>6. CASE UNCHANGED queryVars
  BY <1>6 DEF queryVars
<1>7. QED
  BY <1>1, <1>2, <1>3, <1>4, <1>5, <1>6 DEF Multi!QueryNext

-----------------------------------------------------------------------------
(* MultiLevelCache.  A value in redis is one ttl old at most when its time *)
(* is up, one in memory two; what a call is about to store is as young as  *)
(* the time it has taken; and whoever fetches under the mutex has seen     *)
(* that redis has nothing, which only he can change by a fetch.            *)
LevelAges ==
    /\ IF red.left > 0 THEN red.age + red.left <= TTL + MaxDelay ELSE red.age = 0
    /\ IF mem.left > 0 THEN mem.age + mem.left <= Multi!MaxAge ELSE mem.age = 0
CallAges(c) ==
    /\ call[c].at \in {"store_memory", "store_redis"} => call[c].age + call[c].slack <= MaxDelay
    /\ call[c].at = "copy" => call[c].age + call[c].slack < TTL + 2 * MaxDelay
CallFetches(c) ==
    /\ call[c].at = "fetch" => mutex = c /\ ~fetched
    /\ call[c].op = "protected" /\ call[c].at \in {"store_memory", "store_redis"} => mutex = c
MultiInv ==
    /\ Multi!TypeOK
    /\ LevelAges
    /\ fetched => red.left > 0
    /\ \A c \in Clients : CallAges(c) /\ CallFetches(c)


Calls == [op : {"get", "protected", "set", "delete", "setnx"},
          at : Multi!Ats, age : 0..Multi!AgeCap, slack : 0..MaxDelay]

(* What a step makes of one call. *)
LEMMA CallMoves ==
    ASSUME Multi!TypeOK, NEW c \in Clients, NEW r \in Calls \cup {Multi!Idle},
           call' = [call EXCEPT ![c] = r]
    PROVE  /\ call' \in [Clients -> Calls \cup {Multi!Idle}]
           /\ call'[c] = r /\ \A d \in Clients \ {c} : call'[d] = call[d]
<1>1. PICK S : S = Calls \cup {Multi!Idle}
  OBVIOUS
<1>2. call \in [Clients -> S] /\ r \in S
  BY <1>1 DEF Multi!TypeOK, Calls
<1>3. QED
  BY <1>1, <1>2

(* A running call of the multi-level cache is a record that every step of it keeps in shape. *)
LEMMA CallParts ==
    ASSUME StoreSettings, Multi!TypeOK, NEW c \in Clients, call[c] # Multi!Idle
    PROVE  /\ call[c] \in Calls
           /\ \A s \in Multi!Ats : [call[c] EXCEPT !.at = s] \in Calls
           /\ \A s \in Multi!Ats, n \in 0..Multi!AgeCap :
                 [call[c] EXCEPT !.at = s, !.age = n, !.slack = MaxDelay] \in Calls
<1>1. PICK r \in Calls : r = call[c]
  BY DEF Multi!TypeOK, Calls
<1>2. MaxDelay \in 0..MaxDelay
  BY DEF StoreSettings
<1>3. ASSUME NEW s \in Multi!Ats PROVE [r EXCEPT !.at = s] \in Calls
  BY DEF Calls
<1>4. ASSUME NEW s \in Multi!Ats, NEW n \in 0..Multi!AgeCap
      PROVE  [r EXCEPT !.at = s, !.age = n, !.slack = MaxDelay] \in Calls
  BY <1>2 DEF Calls
<1>5. QED
  BY <1>1, <1>3, <1>4

(* What the steps of a call make of it. *)
LEMMA GoMoves ==
    ASSUME StoreSettings, Multi!TypeOK, NEW c \in Clients, call[c] # Multi!Idle,
           NEW s \in Multi!Ats, call' = [call EXCEPT ![c].at = s]
    PROVE  /\ call' \in [Clients -> Calls \cup {Multi!Idle}]
           /\ call'[c] = [call[c] EXCEPT !.at = s]
           /\ \A d \in Clients \ {c} : call'[d] = call[d]
<1>1. PICK r \in Calls : r = [call[c] EXCEPT !.at = s]
  BY CallParts
<1>2. call' = [call EXCEPT ![c] = r]
  BY <1>1
<1>3. QED
  BY <1>1, <1>2, CallMoves

(* Taking a value gives the call that value and a new delay, and touches no other call. *)
LEMMA TakeMoves ==
    ASSUME StoreSettings, Multi!TypeOK, NEW c \in Clients, call[c] # Multi!Idle,
           NEW s \in Multi!Ats, NEW n \in 0..Multi!AgeCap, Multi!Take(c, s, n)
    PROVE  /\ call' \in [Clients -> Calls \cup {Multi!Idle}]
           /\ call'[c] = [call[c] EXCEPT !.at = s, !.age = n, !.slack = MaxDelay]
           /\ \A d \in Clients \ {c} : call'[d] = call[d]
           /\ mutex' = mutex
<1>1. PICK r \in Calls : r = [call[c] EXCEPT !.at = s, !.age = n, !.slack = MaxDelay]
  BY CallParts
<1>2. call' = [call EXCEPT ![c] = r]
  BY <1>1 DEF Multi!Take
<1>3. QED
  BY <1>1, <1>2, CallMoves DEF Multi!Take

(* Returning ends the call, and gives the singleflight mutex back when the call held it. *)
LEMMA ReturnMoves ==
    ASSUME Multi!TypeOK, NEW c \in Clients, Multi!Return(c)
    PROVE  /\ call' \in [Clients -> Calls \cup {Multi!Idle}]
           /\ call'[c] = Multi!Idle
           /\ \A d \in Clients \ {c} : call'[d] = call[d]
           /\ mutex' \in {mutex, Multi!Nobody} /\ (mutex # c => mutex' = mutex)
<1>1. call' = [call EXCEPT ![c] = Multi!Idle]
  BY DEF Multi!Return
<1>2. QED
  BY <1>1, CallMoves DEF Multi!Return

(* Beginning gives the client a fresh call and touches no other one. *)
LEMMA BeginMoves ==
    ASSUME StoreSettings, Multi!TypeOK, NEW c \in Clients,
           NEW op \in {"get", "protected", "set", "delete", "setnx"}, NEW s \in Multi!Ats,
           Multi!Begin(c, op, s)
    PROVE  /\ call' \in [Clients -> Calls \cup {Multi!Idle}]
           /\ call'[c] = [op |-> op, at |-> s, age |-> 0, slack |-> MaxDelay]
           /\ \A d \in Clients \ {c} : call'[d] = call[d]
<1>1. PICK r : r = [op |-> op, at |-> s, age |-> 0, slack |-> MaxDelay]
  OBVIOUS
<1>2. r \in Calls
  BY <1>1 DEF Calls, StoreSettings, Multi!AgeCap, Multi!MaxAge
<1>3. [Multi!Idle EXCEPT !.op = op, !.at = s, !.slack = MaxDelay] = r
  <2>1. PICK i : i = Multi!Idle
    OBVIOUS
  <2>2. DOMAIN i = {"op", "at", "age", "slack"} /\ i.age = 0
        /\ i = [x \in {"op", "at", "age", "slack"} |-> i[x]]
    BY <2>1 DEF Multi!Idle
  <2>3. PICK q : q = [i EXCEPT !.op = op, !.at = s, !.slack = MaxDelay]
    OBVIOUS
  <2>4. /\ DOMAIN q = {"op", "at", "age", "slack"}
        /\ q = [x \in {"op", "at", "age", "slack"} |-> q[x]]
        /\ q.op = op /\ q.at = s /\ q.age = 0 /\ q.slack = MaxDelay
    BY <2>2, <2>3
  <2>5. q = r
    BY <1>1, <2>4
  <2>6. QED
    BY <2>1, <2>3, <2>5
<1>4. call' = [call EXCEPT ![c] = r]
  BY <1>3 DEF Multi!Begin
<1>5. QED
  BY <1>1, <1>2, <1>4, CallMoves
LevelEntries == [left : -1..TTL, age : 0..Multi!AgeCap]

(* What a step of one client has to show for itself: first what it makes   *)
(* of the levels, then what it makes of its call.                          *)
LevelsMove(c) ==
    /\ mem' \in LevelEntries /\ red' \in LevelEntries /\ LevelAges'
    /\ fetched' \in BOOLEAN
    /\ fetched' => red'.left > 0 /\ (fetched \/ mutex = c)

(* A step of one client keeps MultiInv when it keeps the levels and its own call in order. *)
LEMMA MultiFrame ==
    ASSUME MultiInv, Multi!Nobody \notin Clients, NEW c \in Clients, LevelsMove(c),
           call' \in [Clients -> Calls \cup {Multi!Idle}],
           \A d \in Clients \ {c} : call'[d] = call[d],
           mutex' \in Clients \cup {Multi!Nobody}, mutex' = mutex \/ mutex \in {c, Multi!Nobody},
           CallAges(c)', CallFetches(c)'
    PROVE  MultiInv'
<1>1. Multi!TypeOK'
  BY DEF Multi!TypeOK, Calls, LevelEntries, LevelsMove
<1>2. \A d \in Clients \ {c} : CallAges(d)'
  BY DEF MultiInv, CallAges
<1>3. \A d \in Clients \ {c} : CallFetches(d)'
  BY DEF MultiInv, CallFetches, LevelsMove
<1>4. QED
  BY <1>1, <1>2, <1>3 DEF MultiInv, LevelsMove

(* Beginning a call keeps MultiInv. *)
LEMMA Began ==
    ASSUME StoreSettings, MultiInv, Multi!Nobody \notin Clients, NEW c \in Clients, LevelsMove(c),
           NEW op \in {"get", "protected", "set", "delete", "setnx"},
           NEW s \in {"read_memory", "store_memory", "delete_redis", "nx_redis"},
           op = "protected" => s = "read_memory", Multi!Begin(c, op, s), mutex' = mutex
    PROVE  MultiInv'
<1>1. Multi!TypeOK /\ s \in Multi!Ats
  BY DEF MultiInv, Multi!Ats, Multi!Holding
<1>2. /\ call' \in [Clients -> Calls \cup {Multi!Idle}]
      /\ call'[c] = [op |-> op, at |-> s, age |-> 0, slack |-> MaxDelay]
      /\ \A d \in Clients \ {c} : call'[d] = call[d]
  BY <1>1, BeginMoves
<1>3. PICK q : q = [op |-> op, at |-> s, age |-> 0, slack |-> MaxDelay]
  OBVIOUS
<1>4. q.op = op /\ q.at = s /\ q.age + q.slack <= MaxDelay
  BY <1>3 DEF StoreSettings
<1>5. CallAges(c)'
  BY <1>2, <1>3, <1>4 DEF CallAges
<1>6. CallFetches(c)'
  BY <1>2, <1>3, <1>4 DEF CallFetches
<1>7. QED
  BY <1>1, <1>2, <1>5, <1>6, MultiFrame DEF Multi!TypeOK

(* Going on to the next level without a value keeps MultiInv. *)
LEMMA Went ==
    ASSUME StoreSettings, MultiInv, Multi!Nobody \notin Clients, NEW c \in Clients, LevelsMove(c),
           call[c] # Multi!Idle, NEW s \in Multi!Ats, call' = [call EXCEPT ![c].at = s],
           mutex' = mutex \/ mutex = Multi!Nobody, mutex' \in Clients \cup {Multi!Nobody},
           s \notin {"copy", "store_memory"}, s = "store_redis" => call[c].at = "store_memory",
           s = "fetch" => mutex = c /\ mutex' = c /\ ~fetched'
    PROVE  MultiInv'
<1>1. Multi!TypeOK /\ CallAges(c) /\ CallFetches(c)
  BY DEF MultiInv
<1>2. /\ call' \in [Clients -> Calls \cup {Multi!Idle}]
      /\ call'[c] = [call[c] EXCEPT !.at = s]
      /\ \A d \in Clients \ {c} : call'[d] = call[d]
  BY <1>1, GoMoves
<1>3. PICK r \in Calls : r = call[c]
  BY <1>1, CallParts
<1>4. PICK q : q = [r EXCEPT !.at = s]
  OBVIOUS
<1>5. q.at = s /\ q.op = r.op /\ q.age = r.age /\ q.slack = r.slack
  BY <1>4 DEF Calls
<1>6. CallAges(c)'
  BY <1>1, <1>2, <1>3, <1>4, <1>5 DEF CallAges
<1>7. CallFetches(c)'
  <2>1. r.op = "protected" /\ r.at = "store_memory" => mutex = c
    BY <1>1, <1>3 DEF CallFetches
  <2>2. mutex = c => mutex' = c
    OBVIOUS
  <2>3. QED
    BY <1>2, <1>3, <1>4, <1>5, <2>1, <2>2 DEF CallFetches
<1>8. QED
  BY <1>1, <1>2, <1>6, <1>7, MultiFrame

(* Taking a value from Redis or from the source keeps MultiInv. *)
LEMMA Took ==
    ASSUME StoreSettings, MultiInv, Multi!Nobody \notin Clients, NEW c \in Clients, LevelsMove(c),
           call[c] # Multi!Idle, NEW s \in {"copy", "store_memory"}, NEW n \in Nat,
           IF s = "copy" THEN n < TTL + MaxDelay ELSE n = 0 /\ mutex = c, Multi!Take(c, s, n)
    PROVE  MultiInv'
<1>1. Multi!TypeOK /\ s \in Multi!Ats /\ n \in 0..Multi!AgeCap /\ mutex \in Clients \cup {Multi!Nobody}
  <2>1. Multi!TypeOK /\ mutex \in Clients \cup {Multi!Nobody}
    BY DEF MultiInv, Multi!TypeOK
  <2>2. s \in Multi!Ats
    BY DEF Multi!Ats, Multi!Holding
  <2>3. n <= 2 * TTL + 2 * MaxDelay + 1
    BY DEF StoreSettings
  <2>4. n \in 0..Multi!AgeCap
    BY <2>3 DEF Multi!AgeCap, Multi!MaxAge, StoreSettings
  <2>5. QED
    BY <2>1, <2>2, <2>4
<1>2. /\ call' \in [Clients -> Calls \cup {Multi!Idle}]
      /\ call'[c] = [call[c] EXCEPT !.at = s, !.age = n, !.slack = MaxDelay]
      /\ \A d \in Clients \ {c} : call'[d] = call[d]
      /\ mutex' = mutex
  BY <1>1, TakeMoves
<1>3. PICK r \in Calls : r = call[c]
  BY <1>1, CallParts
<1>4. PICK q : q = [r EXCEPT !.at = s, !.age = n, !.slack = MaxDelay]
  OBVIOUS
<1>5. q.at = s /\ q.op = r.op /\ q.age = n /\ q.slack = MaxDelay
  BY <1>4 DEF Calls
<1>6. CallAges(c)'
  <2>1. CASE s = "copy"
    <3>1. n + MaxDelay < TTL + 2 * MaxDelay
      BY <2>1 DEF StoreSettings
    <3>2. QED
      BY <1>2, <1>3, <1>4, <1>5, <2>1, <3>1 DEF CallAges
  <2>2. CASE s = "store_memory"
    <3>1. n + MaxDelay <= MaxDelay
      BY <2>2 DEF StoreSettings
    <3>2. QED
      BY <1>2, <1>3, <1>4, <1>5, <2>2, <3>1 DEF CallAges
  <2>3. QED
    BY <2>1, <2>2
<1>7. CallFetches(c)'
  BY <1>2, <1>3, <1>4, <1>5 DEF CallFetches
<1>8. QED
  BY <1>1, <1>2, <1>6, <1>7, MultiFrame

(* Returning keeps MultiInv. *)
LEMMA Returned ==
    ASSUME MultiInv, Multi!Nobody \notin Clients, NEW c \in Clients, LevelsMove(c), Multi!Return(c)
    PROVE  MultiInv'
<1>1. Multi!TypeOK /\ mutex \in Clients \cup {Multi!Nobody}
  BY DEF MultiInv, Multi!TypeOK
<1>2. /\ call' \in [Clients -> Calls \cup {Multi!Idle}]
      /\ call'[c] = Multi!Idle
      /\ \A d \in Clients \ {c} : call'[d] = call[d]
      /\ mutex' \in {mutex, Multi!Nobody} /\ (mutex # c => mutex' = mutex)
  BY <1>1, ReturnMoves
<1>3. Multi!Idle.at = "none"
  BY DEF Multi!Idle
<1>4. CallAges(c)' /\ CallFetches(c)'
  BY <1>2, <1>3 DEF CallAges, CallFetches
<1>5. QED
  BY <1>1, <1>2, <1>4, MultiFrame

(* Every step of the multi-level cache keeps MultiInv. *)
LEMMA MultiStep ==
    ASSUME StoreSettings, Multi!Nobody \notin Clients, MultiInv, Multi!Next \/ UNCHANGED multiVars
    PROVE  MultiInv'
<1>1. /\ mem \in LevelEntries /\ red \in LevelEntries /\ mutex \in Clients \cup {Multi!Nobody}
      /\ fetched \in BOOLEAN /\ call \in [Clients -> Calls \cup {Multi!Idle}]
      /\ LevelAges /\ (fetched => red.left > 0)
      /\ \A c \in Clients : CallAges(c) /\ CallFetches(c)
      /\ Multi!TypeOK
  BY DEF MultiInv, Multi!TypeOK, Calls, LevelEntries
<1>2. /\ Multi!AgeCap = 2 * TTL + 2 * MaxDelay + 1 /\ Multi!MaxAge = 2 * TTL + 2 * MaxDelay
      /\ TTL \in Nat /\ TTL > 0 /\ MaxDelay \in Nat
  BY DEF StoreSettings, Multi!AgeCap, Multi!MaxAge
<1>3. /\ Multi!Ats = {"copy", "store_memory", "store_redis", "read_memory", "read_redis", "lock",
                     "fetch", "erase_memory", "erase_redis", "delete_redis", "nx_redis"}
      /\ Multi!Idle.at = "none"
  BY DEF Multi!Ats, Multi!Holding, Multi!Idle
<1>4. \A c \in Clients : call[c].at # "none" => call[c] # Multi!Idle
  BY <1>3
(* What leaves the levels alone, and what empties one of them. *)
<1>5. ASSUME NEW c \in Clients, UNCHANGED <<mem, red, fetched>> PROVE LevelsMove(c)
  BY <1>1, <1>5 DEF LevelsMove, LevelAges
<1>6. ASSUME NEW c \in Clients, mem' \in {mem, Multi!NoEntry, Multi!Dead},
             red' \in {red, Multi!NoEntry, Multi!Dead}, Multi!KeepHistory
      PROVE  LevelsMove(c)
  <2>1. /\ Multi!Dead \in LevelEntries /\ Multi!NoEntry \in LevelEntries
        /\ Multi!Dead.left = 0 /\ Multi!Dead.age = 0 /\ Multi!NoEntry.left = -1 /\ Multi!NoEntry.age = 0
    BY <1>2 DEF Multi!Dead, Multi!NoEntry, LevelEntries
  <2>2. LevelAges'
    BY <1>1, <1>6, <2>1 DEF LevelAges
  <2>3. QED
    BY <1>1, <1>6, <2>1, <2>2 DEF LevelsMove, Multi!KeepHistory, Multi!Live
(* What is stored in memory. *)
<1>7. ASSUME NEW c \in Clients, call[c] \in Calls, call[c].age <= TTL + 2 * MaxDelay,
             mem' = Multi!Fresh(call[c].age), red' = red, Multi!KeepHistory
      PROVE  LevelsMove(c)
  <2>1. call[c].age \in 0..Multi!AgeCap
    BY <1>7 DEF Calls
  <2>2. mem' \in LevelEntries /\ mem'.left = TTL /\ mem'.age = call[c].age
    BY <1>2, <1>7, <2>1 DEF Multi!Fresh, LevelEntries
  <2>3. LevelAges'
    BY <1>1, <1>2, <1>7, <2>1, <2>2 DEF LevelAges
  <2>4. QED
    BY <1>1, <1>7, <2>2, <2>3 DEF LevelsMove, Multi!KeepHistory, Multi!Live
<1>8. ASSUME NEW c \in Clients, Multi!BeginRead(c) \/ Multi!BeginSet(c) \/ Multi!BeginSetNX(c)
      PROVE  MultiInv'
  <2>1. LevelsMove(c) /\ mutex' = mutex
    BY <1>5, <1>8 DEF Multi!BeginRead, Multi!BeginSet, Multi!BeginSetNX, Multi!levels
  <2>2. \E op \in {"get", "protected", "set", "setnx"}, s \in {"read_memory", "store_memory", "nx_redis"} :
           (op = "protected" => s = "read_memory") /\ Multi!Begin(c, op, s)
    <3>1. CASE Multi!BeginRead(c)
      BY <3>1 DEF Multi!BeginRead
    <3>2. CASE Multi!BeginSet(c)
      BY <3>2 DEF Multi!BeginSet
    <3>3. CASE Multi!BeginSetNX(c)
      BY <3>3 DEF Multi!BeginSetNX
    <3>4. QED
      BY <1>8, <3>1, <3>2, <3>3
  <2>3. PICK op \in {"get", "protected", "set", "setnx"}, s \in {"read_memory", "store_memory", "nx_redis"} :
           (op = "protected" => s = "read_memory") /\ Multi!Begin(c, op, s)
    BY <2>2
  <2>4. QED
    BY <2>1, <2>3, Began
<1>9. ASSUME NEW c \in Clients, Multi!BeginDelete(c) PROVE MultiInv'
  <2>1. LevelsMove(c) /\ mutex' = mutex /\ Multi!Begin(c, "delete", "delete_redis")
    BY <1>6, <1>9 DEF Multi!BeginDelete
  <2>2. QED
    BY <2>1, Began
<1>10. ASSUME NEW c \in Clients, Multi!ReadMemory(c) PROVE MultiInv'
  <2>1. LevelsMove(c) /\ call[c] # Multi!Idle
    BY <1>4, <1>5, <1>10 DEF Multi!ReadMemory, Multi!levels, Multi!At
  <2>2. CASE Multi!Return(c)
    BY <2>1, <2>2, Returned
  <2>3. CASE Multi!Go(c, "read_redis")
    <3>1. call' = [call EXCEPT ![c].at = "read_redis"] /\ mutex' = mutex
      BY <2>3 DEF Multi!Go
    <3>2. QED
      BY <1>1, <1>3, <2>1, <3>1, Went
  <2>4. QED
    BY <1>10, <2>2, <2>3 DEF Multi!ReadMemory
<1>11. ASSUME NEW c \in Clients, Multi!ReadRedis(c) PROVE MultiInv'
  <2>1. LevelsMove(c) /\ call[c] # Multi!Idle
    BY <1>4, <1>5, <1>11 DEF Multi!ReadRedis, Multi!levels, Multi!At
  <2>2. CASE red.left > 0 /\ Multi!Take(c, "copy", red.age)
    <3>1. red.age \in Nat /\ red.left \in Int
      BY <1>1 DEF LevelEntries
    <3>2. red.age < TTL + MaxDelay
      BY <1>1, <1>2, <2>2, <3>1 DEF LevelAges
    <3>3. QED
      BY <2>1, <2>2, <3>1, <3>2, Took
  <2>3. CASE Multi!Return(c)
    BY <2>1, <2>3, Returned
  <2>4. CASE Multi!Go(c, "lock")
    <3>1. call' = [call EXCEPT ![c].at = "lock"] /\ mutex' = mutex
      BY <2>4 DEF Multi!Go
    <3>2. QED
      BY <1>1, <1>3, <2>1, <3>1, Went
  <2>5. CASE ~(red.left > 0) /\ mutex = c /\ Multi!Go(c, "fetch")
    <3>1. call' = [call EXCEPT ![c].at = "fetch"] /\ mutex' = mutex
      BY <2>5 DEF Multi!Go
    <3>2. ~fetched'
      BY <1>1, <1>11, <2>5 DEF Multi!ReadRedis
    <3>3. QED
      BY <1>1, <1>3, <2>1, <2>5, <3>1, <3>2, Went
  <2>6. QED
    BY <1>11, <2>2, <2>3, <2>4, <2>5 DEF Multi!ReadRedis, Multi!Live
<1>12. ASSUME NEW c \in Clients, Multi!Copy(c) PROVE MultiInv'
  <2>1. call[c].at = "copy" /\ call[c] \in Calls
    BY <1>1, <1>4, <1>12 DEF Multi!Copy, Multi!At
  <2>2. call[c].age + call[c].slack < TTL + 2 * MaxDelay /\ call[c].age \in Nat /\ call[c].slack \in Nat
    <3>1. CallAges(c)
      BY <1>1
    <3>2. call[c].age \in Nat /\ call[c].slack \in Nat
      BY <1>2, <2>1 DEF Calls
    <3>3. QED
      BY <2>1, <3>1, <3>2 DEF CallAges
  <2>3. call[c].age <= TTL + 2 * MaxDelay
    BY <1>2, <2>2
  <2>4. LevelsMove(c)
    BY <1>7, <1>12, <2>1, <2>3 DEF Multi!Copy
  <2>5. QED
    BY <1>12, <2>4, Returned DEF Multi!Copy
<1>13. ASSUME NEW c \in Clients, Multi!Lock(c) PROVE MultiInv'
  <2>1. LevelsMove(c) /\ call[c] # Multi!Idle /\ mutex = Multi!Nobody /\ mutex' = c
        /\ call' = [call EXCEPT ![c].at = "read_memory"]
    BY <1>4, <1>5, <1>13 DEF Multi!Lock, Multi!levels, Multi!At
  <2>2. QED
    BY <1>3, <2>1, Went
<1>14. ASSUME NEW c \in Clients, Multi!Fetch(c) PROVE MultiInv'
  <2>1. LevelsMove(c) /\ call[c] # Multi!Idle /\ call[c].at = "fetch" /\ mutex = c
    BY <1>1, <1>4, <1>5, <1>14 DEF Multi!Fetch, Multi!levels, Multi!At, CallFetches
  <2>2. CASE Multi!Take(c, "store_memory", 0)
    BY <2>1, <2>2, Took
  <2>3. CASE Multi!Return(c)
    BY <2>1, <2>3, Returned
  <2>4. CASE Multi!Go(c, "erase_memory")
    <3>1. call' = [call EXCEPT ![c].at = "erase_memory"] /\ mutex' = mutex
      BY <2>4 DEF Multi!Go
    <3>2. QED
      BY <1>1, <1>3, <2>1, <3>1, Went
  <2>5. QED
    BY <1>14, <2>2, <2>3, <2>4 DEF Multi!Fetch
<1>15. ASSUME NEW c \in Clients, Multi!StoreMemory(c) PROVE MultiInv'
  <2>1. call[c].at = "store_memory" /\ call[c] \in Calls /\ call[c] # Multi!Idle
    BY <1>1, <1>4, <1>15 DEF Multi!StoreMemory, Multi!At
  <2>2. call[c].age + call[c].slack <= MaxDelay /\ call[c].age \in Nat /\ call[c].slack \in Nat
    <3>1. CallAges(c)
      BY <1>1
    <3>2. call[c].age \in Nat /\ call[c].slack \in Nat
      BY <1>2, <2>1 DEF Calls
    <3>3. QED
      BY <2>1, <3>1, <3>2 DEF CallAges
  <2>3. call[c].age <= TTL + 2 * MaxDelay
    BY <1>2, <2>2
  <2>4. LevelsMove(c) /\ call' = [call EXCEPT ![c].at = "store_redis"] /\ mutex' = mutex
    BY <1>7, <1>15, <2>1, <2>3 DEF Multi!StoreMemory, Multi!Go
  <2>5. QED
    BY <1>1, <1>3, <2>1, <2>4, Went
<1>16. ASSUME NEW c \in Clients, Multi!StoreRedis(c) PROVE MultiInv'
  <2>1. call[c].at = "store_redis" /\ call[c] \in Calls
    BY <1>1, <1>4, <1>16 DEF Multi!StoreRedis, Multi!At
  <2>2. call[c].age + call[c].slack <= MaxDelay /\ call[c].age \in Nat /\ call[c].slack \in Nat
    <3>1. CallAges(c)
      BY <1>1
    <3>2. call[c].age \in Nat /\ call[c].slack \in Nat
      BY <1>2, <2>1 DEF Calls
    <3>3. QED
      BY <2>1, <3>1, <3>2 DEF CallAges
  <2>3. red' \in LevelEntries /\ red'.left = TTL /\ red'.age = call[c].age
    <3>1. call[c].age \in 0..Multi!AgeCap
      BY <2>1 DEF Calls
    <3>2. red' = [left |-> TTL, age |-> call[c].age]
      BY <1>16 DEF Multi!StoreRedis, Multi!Fresh
    <3>3. QED
      BY <1>2, <3>1, <3>2 DEF LevelEntries
  <2>4. LevelAges'
    <3>1. mem' = mem
      BY <1>16 DEF Multi!StoreRedis
    <3>2. red'.age + red'.left <= TTL + MaxDelay
      BY <1>2, <2>2, <2>3
    <3>3. QED
      BY <1>1, <1>2, <2>3, <3>1, <3>2 DEF LevelAges
  <2>5. fetched' = (fetched \/ call[c].op = "protected") /\ mem' = mem
    BY <1>16 DEF Multi!StoreRedis, Multi!Does
  <2>6. fetched' => fetched \/ mutex = c
    BY <1>1, <2>1, <2>5 DEF CallFetches
  <2>7. LevelsMove(c)
    BY <1>1, <1>2, <2>3, <2>4, <2>5, <2>6 DEF LevelsMove
  <2>8. QED
    BY <1>16, <2>7, Returned DEF Multi!StoreRedis
<1>17. ASSUME NEW c \in Clients, Multi!EraseMemory(c) PROVE MultiInv'
  <2>1. LevelsMove(c) /\ call[c] # Multi!Idle
        /\ call' = [call EXCEPT ![c].at = "erase_redis"] /\ mutex' = mutex
    BY <1>4, <1>6, <1>17 DEF Multi!EraseMemory, Multi!At, Multi!Go
  <2>2. QED
    BY <1>1, <1>3, <2>1, Went
<1>18. ASSUME NEW c \in Clients, Multi!EraseRedis(c) \/ Multi!DeleteRedis(c) PROVE MultiInv'
  <2>1. LevelsMove(c) /\ Multi!Return(c)
    BY <1>6, <1>18 DEF Multi!EraseRedis, Multi!DeleteRedis
  <2>2. QED
    BY <2>1, Returned
<1>19. ASSUME NEW c \in Clients, Multi!SetNXInRedis(c) PROVE MultiInv'
  <2>1. CASE red' = red
    BY <1>5, <1>19, <2>1, Returned DEF Multi!SetNXInRedis
  <2>2. CASE red' = Multi!Fresh(0)
    <3>1. red' \in LevelEntries /\ red'.left = TTL /\ red'.age = 0
      BY <1>2, <2>2 DEF Multi!Fresh, LevelEntries
    <3>2. mem' = mem /\ fetched' = fetched /\ Multi!Return(c)
      BY <1>19 DEF Multi!SetNXInRedis
    <3>3. LevelAges'
      BY <1>1, <1>2, <3>1, <3>2 DEF LevelAges
    <3>4. LevelsMove(c)
      BY <1>1, <1>2, <3>1, <3>2, <3>3 DEF LevelsMove
    <3>5. QED
      BY <3>2, <3>4, Returned
  <2>3. QED
    BY <1>19, <2>1, <2>2 DEF Multi!SetNXInRedis
(* The levels by themselves. *)
<1>20. ASSUME mem' \in LevelEntries, red' \in LevelEntries, LevelAges', UNCHANGED <<mutex, call>>,
              fetched' \in BOOLEAN, fetched' => fetched /\ red'.left > 0
       PROVE  MultiInv'
  BY <1>1, <1>20 DEF MultiInv, Multi!TypeOK, LevelEntries, CallAges, CallFetches
<1>21. CASE Multi!Evict \/ Multi!CleanupRedis
  <2>1. /\ Multi!NoEntry \in LevelEntries /\ Multi!NoEntry.left = -1 /\ Multi!NoEntry.age = 0
    BY <1>2 DEF Multi!NoEntry, LevelEntries
  <2>2. /\ mem' \in {mem, Multi!NoEntry} /\ red' \in {red, Multi!NoEntry} /\ UNCHANGED <<mutex, call>>
        /\ red' # red => red.left = 0
        /\ fetched' \in {fetched, fetched /\ red'.left > 0}
    BY <1>21 DEF Multi!Evict, Multi!CleanupRedis, Multi!KeepHistory, Multi!Live
  <2>3. LevelAges'
    BY <1>1, <2>1, <2>2 DEF LevelAges
  <2>4. fetched' \in BOOLEAN /\ (fetched' => fetched /\ red'.left > 0)
    BY <1>1, <2>2
  <2>5. QED
    BY <1>1, <1>20, <2>1, <2>2, <2>3, <2>4
<1>22. CASE Multi!Tick
  <2>1. /\ mem' = Multi!Aged(mem) /\ red' = Multi!Aged(red) /\ mutex' = mutex
        /\ fetched' = (fetched /\ red'.left > 0)
        /\ \A c \in Clients : call[c].at \in Multi!Holding => call[c].slack > 0
        /\ call' = [c \in Clients |->
                      IF call[c].at \in Multi!Holding
                        THEN [call[c] EXCEPT !.slack = @ - 1, !.age = Multi!Older(@)]
                        ELSE call[c]]
    BY <1>22 DEF Multi!Tick, Multi!KeepHistory, Multi!Live
  <2>2. ASSUME NEW e \in LevelEntries
        PROVE  /\ Multi!Aged(e) \in LevelEntries
               /\ IF Multi!Aged(e).left > 0
                    THEN e.left > 0 /\ Multi!Aged(e).left = e.left - 1 /\ Multi!Aged(e).age <= e.age + 1
                    ELSE e.left > 0 => Multi!Aged(e).age = 0
               /\ e.left <= 0 => Multi!Aged(e) = e
    <3>1. e.left \in -1..TTL /\ e.age \in 0..Multi!AgeCap
      BY DEF LevelEntries
    <3>2. Multi!Older(e.age) \in 0..Multi!AgeCap /\ Multi!Older(e.age) <= e.age + 1
      BY <1>2, <3>1 DEF Multi!Older
    <3>3. CASE e.left > 1
      <4>1. Multi!Aged(e) = [left |-> e.left - 1, age |-> Multi!Older(e.age)]
        BY <3>3 DEF Multi!Aged
      <4>2. QED
        BY <1>2, <3>1, <3>2, <3>3, <4>1 DEF LevelEntries
    <3>4. CASE e.left = 1
      <4>1. Multi!Aged(e) = [left |-> 0, age |-> 0]
        BY <3>4 DEF Multi!Aged, Multi!Dead
      <4>2. QED
        BY <1>2, <3>4, <4>1 DEF LevelEntries
    <3>5. CASE e.left <= 0
      <4>1. Multi!Aged(e) = e
        BY <3>1, <3>5 DEF Multi!Aged
      <4>2. QED
        BY <3>1, <3>5, <4>1
    <3>6. QED
      BY <1>2, <3>1, <3>3, <3>4, <3>5
  <2>3. mem' \in LevelEntries /\ red' \in LevelEntries
    BY <1>1, <2>1, <2>2
  <2>4. LevelAges'
    <3> DEFINE Within(e, m) == IF e.left > 0 THEN e.age + e.left <= m ELSE e.age = 0
    <3>2. ASSUME NEW e \in LevelEntries, NEW m \in Nat, Within(e, m) PROVE Within(Multi!Aged(e), m)
      <4>1. PICK a : a = Multi!Aged(e)
        OBVIOUS
      <4>2. /\ a \in LevelEntries
            /\ IF a.left > 0 THEN e.left > 0 /\ a.left = e.left - 1 /\ a.age <= e.age + 1
                             ELSE e.left > 0 => a.age = 0
            /\ e.left <= 0 => a = e
        BY <2>2, <4>1
      <4>3. e.left \in Int /\ e.age \in Int /\ a.left \in Int /\ a.age \in Int
        BY <1>2, <4>2 DEF LevelEntries
      <4>4. Within(a, m)
        BY <3>2, <4>2, <4>3
      <4>5. QED
        BY <4>1, <4>4
    <3>3. Within(red, TTL + MaxDelay) /\ Within(mem, Multi!MaxAge)
      BY <1>1 DEF LevelAges
    <3>4. TTL + MaxDelay \in Nat /\ Multi!MaxAge \in Nat
      BY <1>2
    <3>5. Within(red', TTL + MaxDelay) /\ Within(mem', Multi!MaxAge)
      <4>1. Within(Multi!Aged(red), TTL + MaxDelay) /\ Within(Multi!Aged(mem), Multi!MaxAge)
        BY <1>1, <3>2, <3>3, <3>4
      <4>2. QED
        BY <2>1, <4>1
    <3>6. QED
      BY <3>5 DEF LevelAges
  <2>5. ASSUME NEW c \in Clients
        PROVE  call'[c] \in Calls \cup {Multi!Idle} /\ CallAges(c)' /\ CallFetches(c)'
    <3>1. CASE call[c].at \in Multi!Holding
      <4>1. PICK r \in Calls : r = call[c]
        BY <1>1, <1>4, <3>1 DEF Multi!Holding
      <4>2. PICK q : q = [r EXCEPT !.slack = r.slack - 1, !.age = Multi!Older(r.age)]
        OBVIOUS
      <4>3. /\ r.age \in 0..Multi!AgeCap /\ r.slack \in 0..MaxDelay /\ r.slack > 0
            /\ Multi!Older(r.age) \in 0..Multi!AgeCap /\ Multi!Older(r.age) <= r.age + 1
        <5>1. r.age \in 0..Multi!AgeCap /\ r.slack \in 0..MaxDelay
          BY <4>1 DEF Calls
        <5>2. r.slack > 0
          BY <2>1, <3>1, <4>1
        <5>3. Multi!AgeCap \in Nat
          BY <1>2
        <5>4. Multi!Older(r.age) \in 0..Multi!AgeCap /\ Multi!Older(r.age) <= r.age + 1
          BY <5>1, <5>3 DEF Multi!Older
        <5>5. QED
          BY <5>1, <5>2, <5>4
      <4>4. /\ q \in Calls /\ q.at = r.at /\ q.op = r.op
            /\ q.slack = r.slack - 1 /\ q.age = Multi!Older(r.age)
        <5>1. r.slack - 1 \in 0..MaxDelay
          BY <1>2, <4>3
        <5>2. PICK n, m : n = r.slack - 1 /\ m = Multi!Older(r.age)
          OBVIOUS
        <5>3. q = [r EXCEPT !.slack = n, !.age = m] /\ n \in 0..MaxDelay /\ m \in 0..Multi!AgeCap
          BY <4>2, <4>3, <5>1, <5>2
        <5>4. q \in Calls /\ q.at = r.at /\ q.op = r.op /\ q.slack = n /\ q.age = m
          BY <5>3 DEF Calls
        <5>5. QED
          BY <5>2, <5>4
      <4>5. q.age + q.slack <= r.age + r.slack /\ q.age \in Nat /\ q.slack \in Nat
        BY <1>2, <4>3, <4>4
      <4>6. call'[c] = q
        BY <2>1, <3>1, <4>1, <4>2
      <4>7. CallAges(c)'
        <5>1. r.at \in {"store_memory", "store_redis"} => r.age + r.slack <= MaxDelay
          BY <1>1, <4>1 DEF CallAges
        <5>2. r.at = "copy" => r.age + r.slack < TTL + 2 * MaxDelay
          BY <1>1, <4>1 DEF CallAges
        <5>3. r.age + r.slack \in Nat /\ TTL + 2 * MaxDelay \in Nat /\ q.age + q.slack \in Nat
          BY <1>2, <4>3, <4>5
        <5>4. QED
          BY <1>2, <4>4, <4>5, <4>6, <5>1, <5>2, <5>3 DEF CallAges
      <4>8. CallFetches(c)'
        <5>1. CallFetches(c)
          BY <1>1
        <5>2. QED
          BY <2>1, <4>1, <4>4, <4>6, <5>1 DEF CallFetches
      <4>9. QED
        BY <4>4, <4>6, <4>7, <4>8
    <3>2. CASE call[c].at \notin Multi!Holding
      <4>1. call'[c] = call[c] /\ call[c] \in Calls \cup {Multi!Idle}
        BY <1>1, <2>1, <3>2
      <4>2. QED
        BY <1>1, <2>1, <4>1 DEF CallAges, CallFetches
    <3>3. QED
      BY <3>1, <3>2
  <2>6. Multi!TypeOK'
    <3>1. PICK S : S = Calls \cup {Multi!Idle}
      OBVIOUS
    <3>2. call' \in [Clients -> S]
      BY <2>1, <2>5, <3>1
    <3>3. QED
      BY <1>1, <2>1, <2>3, <3>1, <3>2 DEF Multi!TypeOK, Calls, LevelEntries
  <2>7. QED
    BY <2>1, <2>4, <2>5, <2>6 DEF MultiInv
<1>23. CASE UNCHANGED multiVars
  BY <1>1, <1>20, <1>23 DEF multiVars, LevelAges
<1>24. QED
  BY <1>8, <1>9, <1>10, <1>11, <1>12, <1>13, <1>14, <1>15, <1>16, <1>17, <1>18, <1>19,
     <1>21, <1>22, <1>23 DEF Multi!Next

-----------------------------------------------------------------------------
(* The caches as they are run together.                                     *)
LEMMA QueryHolds == ASSUME StoreSettings PROVE MCSpec => []QueryInv
<1>1. MCInit => QueryInv
  BY DEF MCInit, Multi!QueryInit, QueryInv, QueryAges, Multi!QueryTypeOK, Multi!NoResult, Multi!NoQuery,
         Multi!ResultAgeCap, StoreSettings
<1>2. [MCNext]_mcVars => Multi!QueryNext \/ UNCHANGED queryVars
  BY DEF MCNext, OnMemory, OnTagged, OnMulti, OnQuery, OnLimiter, OnShared, mcVars
<1>3. QueryInv /\ [MCNext]_mcVars => QueryInv'
  BY <1>2, QueryStep
<1>4. QED
  BY <1>1, <1>3, PTL DEF MCSpec

(* The multi-level cache keeps MultiInv in every run of the caches together. *)
LEMMA MultiHolds ==
    ASSUME StoreSettings, Multi!Nobody \notin Clients
    PROVE  MCSpec => []MultiInv
<1>1. MCInit => MultiInv
  <2> SUFFICES ASSUME MCInit PROVE MultiInv
    OBVIOUS
  <2>1. /\ mem = Multi!NoEntry /\ red = Multi!NoEntry /\ mutex = Multi!Nobody /\ fetched = FALSE
        /\ call = [c \in Clients |-> Multi!Idle]
    BY DEF MCInit, Multi!Init
  <2>2. /\ Multi!NoEntry \in LevelEntries /\ Multi!NoEntry.left = -1 /\ Multi!NoEntry.age = 0
        /\ Multi!Idle.at = "none"
    BY DEF Multi!NoEntry, Multi!Idle, LevelEntries, StoreSettings, Multi!AgeCap, Multi!MaxAge
  <2>3. Multi!TypeOK
    BY <2>1, <2>2 DEF Multi!TypeOK, LevelEntries
  <2>4. LevelAges /\ \A c \in Clients : CallAges(c) /\ CallFetches(c)
    BY <2>1, <2>2 DEF LevelAges, CallAges, CallFetches
  <2>5. QED
    BY <2>1, <2>3, <2>4 DEF MultiInv
<1>2. [MCNext]_mcVars => Multi!Next \/ UNCHANGED multiVars
  BY DEF MCNext, OnMemory, OnTagged, OnMulti, OnQuery, OnLimiter, OnShared, mcVars
<1>3. MultiInv /\ [MCNext]_mcVars => MultiInv'
  BY <1>2, MultiStep
<1>4. QED
  BY <1>1, <1>3, PTL DEF MCSpec

(* multilevel_cache.go:142, 189 and query_cache.go:73: what was read from   *)
(* the source is served for two ttls at most by MultiLevelCache, and for    *)
(* one by QueryCache, and the time that storing it took, however calls      *)
(* overlap and whatever is deleted, evicted or invalidated between them.    *)
THEOREM StaleForAWhile ==
    ASSUME StoreSettings, Multi!Nobody \notin Clients
    PROVE  MCSpec => []StalenessBounded
<1>1. MultiInv => Multi!StaleBounded
  <2> SUFFICES ASSUME MultiInv PROVE red.age <= TTL + MaxDelay /\ mem.age <= Multi!MaxAge
    BY DEF Multi!StaleBounded
  <2>1. red \in LevelEntries /\ mem \in LevelEntries /\ LevelAges
    BY DEF MultiInv, Multi!TypeOK, LevelEntries
  <2>2. /\ red.left \in Int /\ red.age \in Int /\ mem.left \in Int /\ mem.age \in Int
        /\ TTL + MaxDelay \in Nat /\ Multi!MaxAge \in Nat
    BY <2>1 DEF LevelEntries, StoreSettings, Multi!AgeCap, Multi!MaxAge
  <2>3. QED
    BY <2>1, <2>2 DEF LevelAges
<1>2. QueryInv => Multi!ResultsExpire
  BY DEF QueryInv, QueryAges, Multi!QueryTypeOK, Multi!ResultsExpire, StoreSettings, Multi!ResultAgeCap
<1>3. QED
  BY <1>1, <1>2, MultiHolds, QueryHolds, PTL DEF StalenessBounded

(* multilevel_cache.go:146-190: under the mutex nothing is fetched while    *)
(* redis has what an earlier call fetched, however many clients miss it.    *)
THEOREM FetchedOnce ==
    ASSUME StoreSettings, Multi!Nobody \notin Clients
    PROVE  MCSpec => NoStampede
<1>1. MultiInv => [\A c \in Clients : Multi!At(c, "fetch") /\ Multi!Fetch(c) => ~fetched]_(Multi!vars)
  BY DEF MultiInv, CallFetches, Multi!At
<1>2. QED
  BY <1>1, MultiHolds, PTL DEF NoStampede, Multi!OneFetchPerLoss

-----------------------------------------------------------------------------
(* MemoryCache used by itself pulls and flushes too, and nothing is tagged *)
(* by it.                                                                  *)
Untagged == cache = "memory" => \A k \in Keys : given[k] = {}

CachesInv == TypeOK /\ SizeBounded /\ IndexesAgree /\ Untagged /\ L!SharedTypeOK

(* A step of MemoryCache that is used by itself. *)
LEMMA MemoryStep ==
    ASSUME TypeOK, SizeBounded, CacheNext, UNCHANGED <<tagVars, given>>
    PROVE  TypeOK' /\ SizeBounded'
<1> USE KeysAssumption, TTLAssumption, SizeAssumption
<1> USE DEF TypeOK, CacheTypeOK, Absent, tagVars
<1>1. ASSUME Entries' \subseteq Entries PROVE SizeBounded'
  <2>1. IsFiniteSet(Entries)
    BY FS_Subset DEF Entries
  <2>2. /\ Cardinality(Entries') <= Cardinality(Entries)
        /\ Cardinality(Entries) \in Nat /\ Cardinality(Entries') \in Nat
    BY <1>1, <2>1, FS_Subset, FS_CardinalityType
  <2>3. Size = Cardinality(Entries) /\ Size' = Cardinality(Entries')
    BY DEF Entries, Size
  <2>4. QED
    BY <2>2, <2>3 DEF SizeBounded
<1>2. ASSUME NEW u \in Users, NEW k \in Keys, NEW ttl \in TTLs, Set(u, k, ttl)
      PROVE  TypeOK' /\ SizeBounded'
  <2>1. items' \in [Keys -> {Absent} \cup 0..MaxTTL] /\ UNCHANGED reader
    BY <1>2 DEF Set, Put
  <2>2. QED
    BY <1>2, <2>1, SetKeepsSize
<1>3. ASSUME NEW u \in Users, NEW k \in Keys, Get(u, k) \/ Pull(u, k)
      PROVE  TypeOK' /\ SizeBounded'
  <2>1. items' = items /\ reader' \in [Users -> Read \cup {NoRead}]
    BY <1>3 DEF Get, Pull, Read
  <2>2. QED
    BY <1>1, <2>1 DEF Entries, Stored
<1>4. ASSUME NEW u \in Users, NEW k \in Keys, Delete(u, k) PROVE TypeOK' /\ SizeBounded'
  BY <1>1, <1>4 DEF Delete, Entries, Stored
<1>5. ASSUME NEW u \in Users, DeleteRead(u) PROVE TypeOK' /\ SizeBounded'
  BY <1>1, <1>5 DEF DeleteRead, Entries, Stored
<1>6. CASE Flush \/ Cleanup \/ CacheTick
  BY <1>1, <1>6 DEF Flush, Cleanup, CacheTick, Entries, Stored, Live
<1>7. QED
  BY <1>2, <1>3, <1>4, <1>5, <1>6 DEF CacheNext

(* What holds of the caches, however they are used. *)
LEMMA CachesHold == ASSUME SharedLimits PROVE MCSpec => []CachesInv
<1>1. ASSUME MCInit PROVE CachesInv
  <2>1. TypeOK
    BY <1>1, TTLAssumption DEF MCInit, Init, CacheInit, TypeOK, CacheTypeOK, NoRead, Absent
  <2>2. SizeBounded
    <3>1. {k \in Keys : Stored(k)} = {}
      BY <1>1 DEF MCInit, Init, CacheInit, Stored
    <3>2. QED
      BY <3>1, FS_EmptySet, SizeAssumption DEF SizeBounded, Size
  <2>3. IndexesAgree
    BY <1>1 DEF MCInit, Init, CacheInit, IndexesAgree, Live, Absent
  <2>4. Untagged /\ L!SharedTypeOK
    BY <1>1, SharedStart DEF MCInit, Init, Untagged
  <2>5. QED
    BY <2>1, <2>2, <2>3, <2>4 DEF CachesInv
<1>2. ASSUME CachesInv, [MCNext]_mcVars PROVE CachesInv'
  <2>1. /\ [L!SharedNext]_sharedVars /\ cache' = cache
        /\ \/ [Next]_vars /\ (cache = "memory" => UNCHANGED vars)
           \/ cache = "memory" /\ CacheNext /\ UNCHANGED <<tagVars, given>>
    BY <1>2 DEF MCNext, OnMemory, OnTagged, OnMulti, OnQuery, OnLimiter, OnShared, mcVars, limitVars
  <2>2. [L!SharedNext]_(L!sharedVars)
    BY <2>1 DEF sharedVars, L!sharedVars, L!bucket, L!history
  <2>3. L!SharedTypeOK'
    BY <1>2, <2>2, SharedStep DEF CachesInv
  <2>4. CASE [Next]_vars /\ (cache = "memory" => UNCHANGED vars)
    BY <1>2, <2>1, <2>3, <2>4, TypesStep, SizeStep, IndexesStep DEF CachesInv, Untagged, vars
  <2>5. CASE cache = "memory" /\ CacheNext /\ UNCHANGED <<tagVars, given>>
    <3>1. TypeOK' /\ SizeBounded'
      BY <1>2, <2>5, MemoryStep DEF CachesInv
    <3>2. IndexesAgree' /\ Untagged'
      BY <1>2, <2>1, <2>5 DEF CachesInv, IndexesAgree, Untagged, tagVars
    <3>3. QED
      BY <2>3, <3>1, <3>2 DEF CachesInv
  <2>6. QED
    BY <2>1, <2>4, <2>5
<1>3. QED
  BY <1>1, <1>2, PTL DEF MCSpec

(* The variables of the caches and of the shared limiter keep their types. *)
THEOREM CachesTypesOK ==
    ASSUME StoreSettings, SharedLimits, Multi!Nobody \notin Clients
    PROVE  MCSpec => []TypesOK
<1>1. CachesInv /\ MultiInv /\ QueryInv => TypesOK
  BY DEF CachesInv, MultiInv, QueryInv, TypesOK
<1>2. QED
  BY <1>1, CachesHold, MultiHolds, QueryHolds, PTL

(* MemoryCache holds at most maxSize entries when it is used by itself     *)
(* too, and what ClearTags has to reach it reaches (cache.go:60-160).      *)
THEOREM CachesStaySound == ASSUME SharedLimits PROVE MCSpec => [](SizeBounded /\ TagsReachKeys)
<1>1. CachesInv => SizeBounded /\ TagsReachKeys
  BY DEF CachesInv, TypeOK, IndexesAgree, TagsReachKeys
<1>2. QED
  BY <1>1, CachesHold, PTL

-----------------------------------------------------------------------------
(* The limiters in memory, for any capacity, rate, window and size of a    *)
(* call.  The amounts that are given away are sums over spans of moments;  *)
(* the invariant relates each sum to what the limiter holds now.           *)

(* The constants' meaning; the instance that is model-checked has it. *)
LocalLimits ==
    /\ Burst \in Nat /\ PerTick \in Nat /\ Cost \in Nat \ {0}
    /\ WindowRequests \in Nat /\ WindowSize \in Nat \ {0}
    /\ MaxN \in Nat /\ MaxTime \in Nat

Given(t, u) == Total(permits, t..u)

LEMMA SumOfPermits == ASSUME NEW S PROVE L!MapThenSumSet(LAMBDA v : permits[v], S) = Total(permits, S)
  BY DEF L!MapThenSumSet, L!MapThenFoldSet, Total, MapThenSumSet, MapThenFoldSet
LEMMA KeptMeans == L!AllowancesKept <=> \A t \in 0..now : \A u \in t..now : Given(t, u) <= L!Allowance(u - t)
  BY SumOfPermits DEF L!AllowancesKept, Given

(* Nothing is given ahead of its time. *)
NotYet == \A v \in (now + 1)..MaxTime : permits[v] = 0
NothingSince == \A v \in (since + 1)..MaxTime : permits[v] = 0

(* What the bucket has and what it gave since a moment is what it holds and *)
(* what the rate has added.                                                 *)
TokensKept == strategy = "TokenBucket" =>
    /\ NothingSince
    /\ \A t \in 0..since : Cost * Given(t, since) + level <= Burst * Cost + (since - t) * PerTick

(* What was given and is not in the bucket has leaked. *)
WaterKept == strategy = "LeakyBucket" =>
    /\ NothingSince
    /\ \A t \in 0..since : Given(t, since) <= level + ((since - t) * PerTick) \div Cost

(* What is in the window is on the list, and no window has more than the limit. *)
SlidingKept == strategy = "SlidingWindow" =>
    /\ \A v \in 0..MaxTime : v > now - WindowSize => stamps[v] = permits[v]
    /\ \A t \in 0..now : \A u \in t..now : u - t < WindowSize => Given(t, u) <= WindowRequests

(* The window counts what was given in it, and those before it are full at most. *)
FixedKept == strategy = "FixedWindow" =>
    /\ \A v \in (since + WindowSize + 1)..MaxTime : permits[v] = 0
    /\ Given(since, now) <= level
    /\ \A t \in 0..(since - 1) :
          Given(t, since - 1) <= WindowRequests * (1 + (since - 1 - t) \div (WindowSize + 1))

LocalInv == L!LocalTypeOK /\ NotYet /\ L!AllowancesKept /\ TokensKept /\ WaterKept /\ SlidingKept /\ FixedKept

(* The moments there are, and what is given at them. *)
Moments == LocalLimits /\ now \in 0..MaxTime /\ permits \in [0..MaxTime -> Nat]

LEMMA GivenSpans ==
    ASSUME Moments, NEW t \in 0..now, NEW u \in (t - 1)..now
    PROVE  /\ Given(t, u) \in Nat
           /\ u < t => Given(t, u) = 0
           /\ t <= u => Given(t, u) = Given(t, u - 1) + permits[u] /\ permits[u] \in Nat
           /\ \A v \in t..(u + 1) : Given(t, u) = Given(t, v - 1) + Given(v, u)
<1>1. t \in Nat /\ u \in Int /\ \A x \in t..u : permits[x] \in Nat
  BY DEF Moments, LocalLimits
<1>2. /\ Total(permits, t..u) \in Nat
      /\ u < t => Total(permits, t..u) = 0
      /\ t <= u => Total(permits, t..u) = Total(permits, t..(u - 1)) + permits[u]
      /\ \A v \in t..(u + 1) : Total(permits, t..u) = Total(permits, t..(v - 1)) + Total(permits, v..u)
  BY <1>1, TotalSpan, ZenonT(60)
<1>3. t <= u => permits[u] \in Nat
  BY <1>1
<1>4. QED
  BY <1>2, <1>3 DEF Given

(* What no permit is given in adds nothing. *)
LEMMA GivenNothing ==
    ASSUME Moments, NEW s \in 0..now, \A v \in (s + 1)..MaxTime : permits[v] = 0,
           NEW t \in 0..now, NEW u \in s..now
    PROVE  Given(t, u) = IF t <= s THEN Given(t, s) ELSE 0
<1>0. now \in Nat /\ MaxTime \in Nat /\ now <= MaxTime
  BY DEF Moments, LocalLimits
<1>1. CASE t <= s
  <2>1. Given(t, u) = Given(t, s) + Given(s + 1, u) /\ Given(t, s) \in Nat
    <3>1. u \in (t - 1)..now /\ s \in (t - 1)..now /\ s + 1 \in t..(u + 1) /\ (s + 1) - 1 = s
      BY <1>0, <1>1
    <3>2. Given(t, u) = Given(t, (s + 1) - 1) + Given(s + 1, u) /\ Given(t, s) \in Nat
      BY <3>1, GivenSpans
    <3>3. QED
      BY <3>1, <3>2
  <2>2. Given(s + 1, u) = 0
    <3>1. IsFiniteSet((s + 1)..u) /\ \A v \in (s + 1)..u : permits[v] = 0
      BY <1>0, FS_Interval
    <3>2. QED
      BY <3>1, TotalZero DEF Given
  <2>3. QED
    BY <1>1, <2>1, <2>2
<1>2. CASE t > s
  <2>1. IsFiniteSet(t..u) /\ \A v \in t..u : permits[v] = 0
    BY <1>0, <1>2, FS_Interval
  <2>2. Given(t, u) = 0
    BY <2>1, TotalZero DEF Given
  <2>3. QED
    BY <1>0, <1>2, <2>2
<1>3. QED
  BY <1>0, <1>1, <1>2

(* A call that grants n adds n to what is given up to now. *)
LEMMA GivenGrant ==
    ASSUME Moments, now' = now, NEW n \in Nat, L!Grant(n),
           NEW t \in 0..now, NEW u \in (t - 1)..now
    PROVE  Given(t, u)' = IF u = now /\ t <= now THEN Given(t, u) + n ELSE Given(t, u)
<1> USE DEF Moments, LocalLimits
<1>1. /\ permits' \in [0..MaxTime -> Nat] /\ permits'[now] = permits[now] + n
      /\ \A v \in 0..MaxTime \ {now} : permits'[v] = permits[v]
  BY DEF L!Grant
<1>2. IsFiniteSet(t..u) /\ \A v \in t..u : v \in 0..MaxTime /\ permits[v] \in Int /\ permits'[v] \in Int
  <2>1. IsFiniteSet(t..u) /\ \A v \in t..u : v \in 0..MaxTime
    <3>1. t \in Int /\ u \in Int /\ MaxTime \in Int /\ 0 <= t /\ u <= MaxTime
      OBVIOUS
    <3>2. IsFiniteSet(t..u)
      BY ONLY <3>1, FS_Interval
    <3>3. QED
      BY ONLY <3>1, <3>2
  <2>2. \A v \in 0..MaxTime : permits[v] \in Int /\ permits'[v] \in Int
    BY <1>1
  <2>3. QED
    BY <2>1, <2>2
<1>3. CASE u = now /\ t <= now
  <2>1. now \in t..u /\ \A v \in (t..u) \ {now} : permits'[v] = permits[v]
    BY <1>1, <1>2, <1>3
  <2>2. Total(permits', t..u) = Total(permits, t..u) + permits'[now] - permits[now]
    <3> DEFINE S == t..u
    <3>1. IsFiniteSet(S) /\ now \in S /\ \A v \in S : permits[v] \in Int /\ permits'[v] \in Int
      BY <1>2, <2>1
    <3>2. \A v \in S \ {now} : permits'[v] = permits[v]
      BY <2>1
    <3> HIDE DEF S
    <3>3. \A f, g : (/\ \A v \in S : f[v] \in Int /\ g[v] \in Int
                     /\ \A v \in S \ {now} : g[v] = f[v])
                    => Total(g, S) = Total(f, S) + g[now] - f[now]
      BY ONLY <3>1, TotalChange
    <3>4. QED
      BY <3>1, <3>2, <3>3 DEF S
  <2>3. Total(permits, t..u) \in Nat /\ permits[now] \in Nat
    <3>1. Given(t, u) \in Nat
      BY GivenSpans
    <3>2. QED
      BY <3>1 DEF Given
  <2>4. Given(t, u)' = Total(permits', t..u)
    BY DEF Given
  <2>5. QED
    BY <1>1, <1>3, <2>2, <2>3, <2>4 DEF Given
<1>4. CASE ~(u = now /\ t <= now)
  <2>1. \A v \in t..u : permits'[v] = permits[v]
    BY <1>1, <1>2, <1>4
  <2>2. Total(permits, t..u) = Total(permits', t..u)
    BY <1>2, <2>1, TotalSame
  <2>3. Given(t, u)' = Total(permits', t..u)
    BY DEF Given
  <2>4. QED
    BY <1>4, <2>2, <2>3 DEF Given
<1>5. QED
  BY <1>3, <1>4

LEMMA GivenStays ==
    ASSUME permits' = permits
    PROVE  \A t, u : Given(t, u)' = Given(t, u)
  BY DEF Given

(* An allowance is a natural number, and grows with the time. *)
LEMMA AllowanceGrows ==
    ASSUME LocalLimits, strategy \in L!Strategies, NEW d \in Nat, NEW e \in Nat, d <= e
    PROVE  /\ L!Allowance(d) \in Nat /\ L!Allowance(d) <= L!Allowance(e)
<1> USE DEF LocalLimits
<1>0. ASSUME NEW c \in Nat \ {0}, NEW x \in Nat, NEW y \in Nat, x <= y
      PROVE  x \div c \in Nat /\ y \div c \in Nat /\ x \div c <= y \div c
  <2>1. x \div c \in Nat /\ c * (x \div c) <= x /\ y \div c \in Nat
    BY <1>0, Quotient
  <2>2. c * (x \div c) <= y
    <3>1. c * (x \div c) \in Int
      BY <2>1
    <3>2. QED
      BY <1>0, <2>1, <3>1
  <2>3. QED
    BY <1>0, <2>1, <2>2, QuotientLargest
<1>1. CASE strategy \in {"TokenBucket", "LeakyBucket"}
  <2>1. d * PerTick \in Nat /\ e * PerTick \in Nat /\ d * PerTick <= e * PerTick
    <3>1. PerTick * d <= PerTick * e
      BY ProductGrows
    <3>2. PerTick * d = d * PerTick /\ PerTick * e = e * PerTick
      BY Z3
    <3>3. QED
      BY <3>1, <3>2
  <2>2. (d * PerTick) \div Cost \in Nat /\ (d * PerTick) \div Cost <= (e * PerTick) \div Cost /\ (e * PerTick) \div Cost \in Nat
    BY <1>0, <2>1
  <2>3. L!Allowance(d) = Burst + (d * PerTick) \div Cost /\ L!Allowance(e) = Burst + (e * PerTick) \div Cost
    BY <1>1 DEF L!Allowance
  <2>4. QED
    BY <2>2, <2>3
<1>2. CASE strategy = "SlidingWindow"
  <2>1. d \div WindowSize \in Nat /\ d \div WindowSize <= e \div WindowSize /\ e \div WindowSize \in Nat
    BY <1>0
  <2> DEFINE x == 1 + d \div WindowSize
  <2> DEFINE y == 1 + e \div WindowSize
  <2>2. x \in Nat /\ y \in Nat /\ x <= y
    BY <2>1
  <2>3. L!Allowance(d) = WindowRequests * x /\ L!Allowance(e) = WindowRequests * y
    BY <1>2 DEF L!Allowance
  <2> HIDE DEF x, y
  <2>4. WindowRequests * x \in Nat /\ WindowRequests * x <= WindowRequests * y
    BY <2>2, ProductGrows
  <2>5. QED
    BY <2>3, <2>4
<1>3. CASE strategy = "FixedWindow"
  <2> DEFINE x == IF d = 0 THEN 1 ELSE 2 + (d - 1) \div (WindowSize + 1)
  <2> DEFINE y == IF e = 0 THEN 1 ELSE 2 + (e - 1) \div (WindowSize + 1)
  <2>1. WindowSize + 1 \in Nat \ {0}
    OBVIOUS
  <2>2. d # 0 => d - 1 \in Nat /\ e - 1 \in Nat /\ d - 1 <= e - 1
    OBVIOUS
  <2>3. d # 0 => /\ (d - 1) \div (WindowSize + 1) \in Nat /\ (e - 1) \div (WindowSize + 1) \in Nat
                 /\ (d - 1) \div (WindowSize + 1) <= (e - 1) \div (WindowSize + 1)
    BY <1>0, <2>1, <2>2
  <2>4. e # 0 => (e - 1) \div (WindowSize + 1) \in Nat
    <3>1. e # 0 => e - 1 \in Nat
      OBVIOUS
    <3>2. QED
      BY <1>0, <2>1, <3>1
  <2>5. x \in Nat /\ y \in Nat /\ x <= y
    BY <2>3, <2>4
  <2>6. L!Allowance(d) = WindowRequests * x /\ L!Allowance(e) = WindowRequests * y
    BY <1>3 DEF L!Allowance
  <2> HIDE DEF x, y
  <2>7. WindowRequests * x \in Nat /\ WindowRequests * x <= WindowRequests * y
    BY <2>5, ProductGrows
  <2>8. QED
    BY <2>6, <2>7
<1>4. QED
  BY <1>1, <1>2, <1>3 DEF L!Strategies

(* What a call of any limiter leaves alone, and what its answer does to the pairs of moments. *)
LEMMA AllowancesAfter ==
    ASSUME LocalLimits, L!LocalTypeOK, L!AllowancesKept, UNCHANGED <<strategy, now>>, NEW n \in Nat,
           \/ L!Refuse
           \/ L!Grant(n) /\ \A t \in 0..now : Given(t, now) + n <= L!Allowance(now - t)
    PROVE  L!AllowancesKept' /\ permits' \in [0..MaxTime -> Nat] /\ \A t : Given(t, now)' = Total(permits', t..now)
<1>1. Moments
  BY DEF Moments, L!LocalTypeOK
<1>2. \A t \in 0..now : \A u \in t..now : Given(t, u) <= L!Allowance(u - t)
  BY KeptMeans
<1>3. \A d : L!Allowance(d)' = L!Allowance(d)
  BY DEF L!Allowance
<1>4. ASSUME \A t \in 0..now : \A u \in t..now : Given(t, u)' <= L!Allowance(u - t) PROVE L!AllowancesKept'
  <2>1. \A t \in 0..now' : \A u \in t..now' : Given(t, u)' <= L!Allowance(u - t)'
    BY <1>3, <1>4
  <2>2. (L!AllowancesKept <=> \A t \in 0..now : \A u \in t..now : Given(t, u) <= L!Allowance(u - t))'
    BY KeptMeans, PTL
  <2>3. QED
    BY <2>1, <2>2
<1>5. CASE L!Refuse
  BY <1>1, <1>2, <1>4, <1>5, GivenStays DEF L!Refuse, Moments, Given
<1>6. CASE L!Grant(n) /\ \A t \in 0..now : Given(t, now) + n <= L!Allowance(now - t)
  <2>1. permits' \in [0..MaxTime -> Nat]
    BY <1>1, <1>6 DEF L!Grant, Moments, LocalLimits
  <2>2. ASSUME NEW t \in 0..now, NEW u \in t..now PROVE Given(t, u)' <= L!Allowance(u - t)
    <3>1. u \in (t - 1)..now /\ now \in Nat
      BY <1>1 DEF Moments, LocalLimits
    <3>2. Given(t, u)' = IF u = now /\ t <= now THEN Given(t, u) + n ELSE Given(t, u)
      BY <1>1, <1>6, <3>1, GivenGrant
    <3>3. QED
      BY <1>2, <1>6, <3>2
  <2>3. QED
    BY <1>4, <2>1, <2>2 DEF Given
<1>7. QED
  BY <1>5, <1>6

(* The bucket of tokens: what it may hold after a time is what it held and what the rate adds. *)
LEMMA TokenStep ==
    ASSUME LocalLimits, LocalInv, NEW n \in 1..MaxN, L!AllowToken(n), UNCHANGED <<strategy, now>>
    PROVE  LocalInv'
<1> DEFINE tokens == L!Lower(Burst * Cost, level + L!Elapsed * PerTick)
<1>1. /\ strategy = "TokenBucket" /\ Burst * Cost \in Nat /\ level \in 0..Burst * Cost /\ NothingSince
      /\ now \in Nat /\ since \in 0..now /\ now <= MaxTime /\ MaxTime \in Nat /\ Moments
      /\ stamps \in [0..MaxTime -> Nat] /\ UNCHANGED stamps /\ since' = now /\ n \in Nat
  BY SMTT(60) DEF LocalInv, TokensKept, L!LocalTypeOK, L!AllowToken, LocalLimits, Moments
<1>2. (now - since) * PerTick \in Nat
  BY <1>1 DEF LocalLimits
<1>3. /\ tokens \in 0..Burst * Cost /\ tokens <= level + (now - since) * PerTick
      /\ \/ tokens >= n * Cost /\ level' = tokens - n * Cost /\ L!Grant(n)
         \/ level' = tokens /\ L!Refuse
  BY <1>1, <1>2 DEF L!Lower, L!Elapsed, L!AllowToken
<1> HIDE DEF tokens
<1>4. ASSUME NEW t \in 0..now
      PROVE  /\ Given(t, now) \in Nat /\ (now - t) * PerTick \in Nat
             /\ Cost * Given(t, now) + tokens <= Burst * Cost + (now - t) * PerTick
  <2>1. Given(t, now) = IF t <= since THEN Given(t, since) ELSE 0
    <3>1. now \in since..now /\ \A v \in (since + 1)..MaxTime : permits[v] = 0
      BY <1>1 DEF NothingSince
    <3>2. QED
      BY <1>1, <3>1, GivenNothing
  <2>2. (now - t) * PerTick \in Nat
    BY <1>1 DEF LocalLimits
  <2>3. CASE t <= since
    <3>1. t \in 0..since /\ since \in (t - 1)..now
      BY <1>1, <2>3
    <3>2. Cost * Given(t, since) + level <= Burst * Cost + (since - t) * PerTick
      BY <1>1, <3>1 DEF LocalInv, TokensKept
    <3>3. Given(t, since) \in Nat
      BY <1>1, <3>1, GivenSpans
    <3>4. (since - t) * PerTick \in Int /\ (since - t) * PerTick + (now - since) * PerTick = (now - t) * PerTick
      <4>1. PerTick \in Int /\ since \in Int /\ now \in Int /\ t \in Int
        BY <1>1 DEF LocalLimits
      <4>2. QED
        BY ONLY <4>1, Z3
    <3>5. Cost * Given(t, since) \in Int
      BY <3>3 DEF LocalLimits
    <3>6. Given(t, now) = Given(t, since)
      BY <2>1, <2>3
    <3>7. Cost * Given(t, since) + tokens <= Burst * Cost + (now - t) * PerTick
      <4> DEFINE x == (since - t) * PerTick
      <4> DEFINE y == (now - since) * PerTick
      <4> DEFINE z == (now - t) * PerTick
      <4> DEFINE a == Cost * Given(t, since)
      <4> DEFINE b == Burst * Cost
      <4>1. /\ a + level <= b + x /\ x + y = z /\ tokens <= level + y
            /\ x \in Int /\ y \in Nat /\ z \in Nat /\ a \in Int /\ b \in Nat /\ level \in Int /\ tokens \in Int
        BY <1>1, <1>2, <1>3, <2>2, <3>2, <3>4, <3>5
      <4> HIDE DEF x, y, z, a, b
      <4>2. a + tokens <= b + z
        BY ONLY <4>1
      <4>3. QED
        BY <4>2 DEF z, a, b
    <3>8. QED
      BY <2>2, <3>3, <3>6, <3>7
  <2>4. CASE t > since
    <3>1. Given(t, now) = 0 /\ Cost * 0 = 0
      BY <1>1, <2>1, <2>4 DEF LocalLimits
    <3>2. QED
      BY <1>1, <1>3, <2>2, <3>1, SMTT(60)
  <2>5. QED
    BY <1>1, <2>3, <2>4
<1>5. L!LocalTypeOK' /\ NothingSince' /\ NotYet' /\ L!AllowancesKept' /\ \A t \in 0..now : Cost * Given(t, now)' + level' <= Burst * Cost + (now - t) * PerTick
  <2>1. CASE level' = tokens /\ L!Refuse
    <3>1. permits' = permits
      BY <2>1 DEF L!Refuse
    <3>2. L!LocalTypeOK' /\ NotYet' /\ NothingSince'
      BY <1>1, <1>3, <2>1, <3>1 DEF LocalInv, L!LocalTypeOK, NotYet, NothingSince, Moments, L!Strategies
    <3>3. L!AllowancesKept'
      BY <2>1, AllowancesAfter DEF LocalInv
    <3>4. \A t \in 0..now : Cost * Given(t, now)' + level' <= Burst * Cost + (now - t) * PerTick
      BY <1>4, <2>1, <3>1, GivenStays
    <3>5. QED
      BY <3>2, <3>3, <3>4
  <2>2. CASE tokens >= n * Cost /\ level' = tokens - n * Cost /\ L!Grant(n)
    <3>1. ASSUME NEW t \in 0..now
          PROVE  /\ Given(t, now) + n <= L!Allowance(now - t)
                 /\ Cost * (Given(t, now) + n) + level' <= Burst * Cost + (now - t) * PerTick
      <4> DEFINE g == Given(t, now)
      <4>1. g \in Nat /\ Cost \in Nat \ {0} /\ Burst \in Nat /\ n \in Nat /\ (now - t) * PerTick \in Nat
        BY <1>1, <1>4 DEF LocalLimits
      <4>2. Cost * g + tokens <= Burst * Cost + (now - t) * PerTick
        BY <1>4
      <4> HIDE DEF g
      <4>3. /\ Cost * (g + n) = Cost * g + n * Cost /\ Cost * ((g + n) - Burst) = Cost * (g + n) - Burst * Cost
            /\ Cost * g \in Int /\ n * Cost \in Int /\ Cost * (g + n) \in Int
        BY ONLY <4>1, Z3
      <4>4. Cost * (g + n) + level' <= Burst * Cost + (now - t) * PerTick
        BY <1>1, <1>3, <2>2, <4>1, <4>2, <4>3
      <4>5. Cost * ((g + n) - Burst) <= (now - t) * PerTick
        BY <1>1, <1>3, <2>2, <4>1, <4>3, <4>4
      <4>6. (g + n) - Burst <= ((now - t) * PerTick) \div Cost
        BY <4>1, <4>5, QuotientLargest
      <4>7. ((now - t) * PerTick) \div Cost \in Nat
        BY <4>1, Quotient
      <4>8. L!Allowance(now - t) = Burst + ((now - t) * PerTick) \div Cost
        BY <1>1 DEF L!Allowance
      <4>9. QED
        BY <4>1, <4>4, <4>6, <4>7, <4>8 DEF g
    <3>2. L!AllowancesKept' /\ permits' \in [0..MaxTime -> Nat]
      BY <1>1, <2>2, <3>1, AllowancesAfter DEF LocalInv
    <3>3. ASSUME NEW t \in 0..now PROVE Given(t, now)' = Given(t, now) + n
      BY <1>1, <2>2, GivenGrant
    <3>4. L!LocalTypeOK'
      <4>1. level' \in 0..Burst * Cost
        <5>1. n * Cost \in Nat
          BY <1>1 DEF LocalLimits
        <5>2. QED
          BY <1>1, <1>3, <2>2, <5>1
      <4>2. QED
        BY <1>1, <3>2, <4>1 DEF L!LocalTypeOK, L!Strategies, Moments
    <3>5. NotYet' /\ NothingSince'
      BY <1>1, <2>2 DEF LocalInv, NotYet, NothingSince, L!Grant, Moments
    <3>6. QED
      BY <3>1, <3>2, <3>3, <3>4, <3>5
  <2>3. QED
    BY <1>3, <2>1, <2>2
<1>6. QED
  BY <1>1, <1>5 DEF LocalInv, TokensKept, WaterKept, SlidingKept, FixedKept, Given

LEMMA QuotientsAdd ==
    ASSUME NEW c \in Nat \ {0}, NEW x \in Nat, NEW y \in Nat
    PROVE  x \div c + y \div c <= (x + y) \div c
<1> DEFINE p == x \div c
<1> DEFINE q == y \div c
<1>1. p \in Nat /\ q \in Nat /\ c * p <= x /\ c * q <= y
  BY Quotient
<1> HIDE DEF p, q
<1>2. c * (p + q) = c * p + c * q /\ c * p \in Int /\ c * q \in Int
  BY ONLY <1>1, Z3
<1>3. x + y \in Nat /\ p + q \in Int /\ c * (p + q) <= x + y
  BY <1>1, <1>2
<1>4. p + q <= (x + y) \div c
  BY <1>3, QuotientLargest
<1>5. QED
  BY <1>4 DEF p, q

(* The leaky bucket: what has leaked by whole permits is no more than the rate allows. *)
LEMMA LeakyStep ==
    ASSUME LocalLimits, LocalInv, NEW n \in 1..MaxN, L!AllowLeaky(n), UNCHANGED <<strategy, now>>
    PROVE  LocalInv'
<1> DEFINE leaked == L!Lower(level, (L!Elapsed * PerTick) \div Cost)
<1> DEFINE water == level - leaked
<1>1. /\ strategy = "LeakyBucket" /\ level \in 0..Burst /\ Burst \in Nat /\ NothingSince
      /\ now \in Nat /\ since \in 0..now /\ now <= MaxTime /\ MaxTime \in Nat /\ Moments
      /\ stamps \in [0..MaxTime -> Nat] /\ UNCHANGED stamps /\ since' = now /\ n \in Nat /\ Cost \in Nat \ {0}
  BY SMTT(60) DEF LocalInv, WaterKept, L!LocalTypeOK, L!AllowLeaky, LocalLimits, Moments
<1>2. (now - since) * PerTick \in Nat /\ ((now - since) * PerTick) \div Cost \in Nat
  <2>1. (now - since) * PerTick \in Nat
    BY <1>1 DEF LocalLimits
  <2>2. QED
    BY <1>1, <2>1, Quotient
<1>3. /\ water \in 0..Burst /\ level <= water + ((now - since) * PerTick) \div Cost
      /\ \/ water + n <= Burst /\ level' = water + n /\ L!Grant(n)
         \/ level' = water /\ L!Refuse
  <2> DEFINE q == ((now - since) * PerTick) \div Cost
  <2>1. leaked = L!Lower(level, q) /\ L!Lower(level, q) = IF level < q THEN level ELSE q
    BY DEF L!Elapsed, L!Lower
  <2>2. q \in Nat /\ level \in Nat
    BY <1>1, <1>2
  <2>3. water = level - leaked
    OBVIOUS
  <2>4. \/ water + n <= Burst /\ level' = water + n /\ L!Grant(n)
        \/ level' = water /\ L!Refuse
    BY DEF L!AllowLeaky
  <2> HIDE DEF q, leaked, water
  <2>5. water \in 0..Burst /\ level <= water + q
    BY <1>1, <2>1, <2>2, <2>3
  <2>6. QED
    BY <2>4, <2>5 DEF q
<1> HIDE DEF leaked, water
<1>4. ASSUME NEW t \in 0..now
      PROVE  /\ Given(t, now) \in Nat /\ ((now - t) * PerTick) \div Cost \in Nat
             /\ Given(t, now) <= water + ((now - t) * PerTick) \div Cost
  <2>1. Given(t, now) = IF t <= since THEN Given(t, since) ELSE 0
    <3>1. now \in since..now /\ \A v \in (since + 1)..MaxTime : permits[v] = 0
      BY <1>1 DEF NothingSince
    <3>2. QED
      BY <1>1, <3>1, GivenNothing
  <2>2. (now - t) * PerTick \in Nat /\ ((now - t) * PerTick) \div Cost \in Nat
    <3>1. (now - t) * PerTick \in Nat
      BY <1>1 DEF LocalLimits
    <3>2. QED
      BY <1>1, <3>1, Quotient
  <2>3. CASE t <= since
    <3>1. t \in 0..since /\ since \in (t - 1)..now
      BY <1>1, <2>3
    <3>2. Given(t, since) <= level + ((since - t) * PerTick) \div Cost
      BY <1>1, <3>1 DEF LocalInv, WaterKept
    <3>3. Given(t, since) \in Nat
      BY <1>1, <3>1, GivenSpans
    <3>4. (since - t) * PerTick \in Nat /\ (since - t) * PerTick + (now - since) * PerTick = (now - t) * PerTick
      <4>1. PerTick \in Nat /\ since \in Int /\ now \in Int /\ t \in Int /\ since - t \in Nat
        BY <1>1, <2>3 DEF LocalLimits
      <4>2. (since - t) * PerTick + (now - since) * PerTick = (now - t) * PerTick
        BY ONLY <4>1, Z3
      <4>3. QED
        BY <4>1, <4>2
    <3>5. ((since - t) * PerTick) \div Cost + ((now - since) * PerTick) \div Cost <= ((now - t) * PerTick) \div Cost
      <4> DEFINE x == (since - t) * PerTick
      <4> DEFINE y == (now - since) * PerTick
      <4>1. x \in Nat /\ y \in Nat /\ x + y = (now - t) * PerTick
        BY <1>2, <3>4
      <4> HIDE DEF x, y
      <4>2. x \div Cost + y \div Cost <= (x + y) \div Cost
        BY <1>1, <4>1, QuotientsAdd
      <4>3. QED
        BY <4>1, <4>2 DEF x, y
    <3>6. ((since - t) * PerTick) \div Cost \in Nat
      BY <1>1, <3>4, Quotient
    <3>7. QED
      <4> DEFINE x == ((since - t) * PerTick) \div Cost
      <4> DEFINE y == ((now - since) * PerTick) \div Cost
      <4> DEFINE z == ((now - t) * PerTick) \div Cost
      <4>1. /\ Given(t, now) <= level + x /\ level <= water + y /\ x + y <= z /\ Given(t, now) \in Nat
            /\ x \in Nat /\ y \in Nat /\ z \in Nat /\ water \in Int /\ level \in Int
        BY <1>1, <1>2, <1>3, <2>1, <2>2, <2>3, <3>2, <3>3, <3>5, <3>6
      <4> HIDE DEF x, y, z
      <4>2. Given(t, now) <= water + z
        BY ONLY <4>1
      <4>3. QED
        BY <4>1, <4>2 DEF z
  <2>4. CASE t > since
    <3>1. Given(t, now) = 0
      BY <1>1, <2>1, <2>4
    <3>2. QED
      BY <1>1, <1>3, <2>2, <3>1, SMTT(60)
  <2>5. QED
    BY <1>1, <2>3, <2>4
<1>5. /\ L!LocalTypeOK' /\ NothingSince' /\ NotYet' /\ L!AllowancesKept'
      /\ \A t \in 0..now : Given(t, now)' <= level' + ((now - t) * PerTick) \div Cost
  <2>1. CASE level' = water /\ L!Refuse
    <3>1. permits' = permits
      BY <2>1 DEF L!Refuse
    <3>2. L!LocalTypeOK' /\ NotYet' /\ NothingSince'
      BY <1>1, <1>3, <2>1, <3>1 DEF LocalInv, L!LocalTypeOK, NotYet, NothingSince, Moments, L!Strategies
    <3>3. L!AllowancesKept'
      BY <2>1, AllowancesAfter DEF LocalInv
    <3>4. QED
      BY <1>4, <2>1, <3>1, <3>2, <3>3, GivenStays
  <2>2. CASE water + n <= Burst /\ level' = water + n /\ L!Grant(n)
    <3>1. ASSUME NEW t \in 0..now
          PROVE  /\ Given(t, now) + n <= L!Allowance(now - t)
                 /\ Given(t, now) + n <= level' + ((now - t) * PerTick) \div Cost
      <4> DEFINE q == ((now - t) * PerTick) \div Cost
      <4>1. L!Allowance(now - t) = Burst + q
        BY <1>1 DEF L!Allowance
      <4>2. q \in Nat /\ Given(t, now) \in Nat /\ Given(t, now) <= water + q
        BY <1>4
      <4>3. water \in Nat /\ n \in Nat /\ Burst \in Nat /\ water + n <= Burst /\ level' = water + n
        BY <1>1, <1>3, <2>2
      <4> HIDE DEF q
      <4>4. Given(t, now) + n <= L!Allowance(now - t) /\ Given(t, now) + n <= level' + q
        BY ONLY <4>1, <4>2, <4>3
      <4>5. QED
        BY <4>4 DEF q
    <3>2. L!AllowancesKept' /\ permits' \in [0..MaxTime -> Nat]
      BY <1>1, <2>2, <3>1, AllowancesAfter DEF LocalInv
    <3>3. ASSUME NEW t \in 0..now PROVE Given(t, now)' = Given(t, now) + n
      BY <1>1, <2>2, GivenGrant
    <3>4. L!LocalTypeOK'
      BY <1>1, <1>3, <2>2, <3>2, SMTT(60) DEF L!LocalTypeOK, L!Strategies, Moments
    <3>5. NotYet' /\ NothingSince'
      BY <1>1, <2>2 DEF LocalInv, NotYet, NothingSince, L!Grant, Moments
    <3>6. QED
      BY <3>1, <3>2, <3>3, <3>4, <3>5
  <2>3. QED
    BY <1>3, <2>1, <2>2
<1>6. QED
  BY <1>1, <1>5 DEF LocalInv, TokensKept, WaterKept, SlidingKept, FixedKept, Given

(* Windows that each have at most the limit, one after the other. *)
LEMMA WindowsAdd ==
    ASSUME NEW w \in Nat \ {0}, NEW max \in Nat, NEW m \in Nat, NEW p, \A x \in 0..m : p[x] \in Nat,
           \A t \in 0..m : \A u \in t..m : u - t < w => Total(p, t..u) <= max
    PROVE  \A t \in 0..m : \A u \in t..m : Total(p, t..u) <= max * (1 + (u - t) \div w)
<1> DEFINE T == {k \in Nat : \A t \in 0..m : \A u \in t..m : u - t < w * (k + 1) => Total(p, t..u) <= max * (k + 1)}
<1>1. 0 \in T
  OBVIOUS
<1>2. ASSUME NEW k \in Nat, k \in T PROVE k + 1 \in T
  <2>1. ASSUME NEW t \in 0..m, NEW u \in t..m, u - t < w * ((k + 1) + 1)
        PROVE  Total(p, t..u) <= max * ((k + 1) + 1)
    <3>1. /\ w * ((k + 1) + 1) = w * (k + 1) + w /\ max * ((k + 1) + 1) = max * (k + 1) + max
          /\ w * (k + 1) \in Nat /\ max * (k + 1) \in Nat
      OBVIOUS
    <3>2. CASE u - t < w
      <4>1. Total(p, t..u) <= max /\ Total(p, t..u) \in Nat
        BY <3>2, TotalSpan
      <4>2. QED
        BY <3>1, <4>1
    <3>3. CASE u - t >= w
      <4>1. t + w \in 0..m /\ u \in (t + w)..m /\ (t + w) - 1 \in t..m /\ ((t + w) - 1) - t < w
        BY <3>3
      <4>2. u - (t + w) < w * (k + 1)
        BY <2>1, <3>1
      <4>3. Total(p, t..((t + w) - 1)) <= max /\ Total(p, (t + w)..u) <= max * (k + 1)
        BY <1>2, <4>1, <4>2
      <4>4. Total(p, t..u) = Total(p, t..((t + w) - 1)) + Total(p, (t + w)..u)
        <5>1. t + w \in t..(u + 1) /\ t \in Nat /\ u \in Int /\ \A x \in t..u : p[x] \in Nat
          BY <4>1
        <5>2. QED
          BY ONLY <5>1, TotalSpan
      <4>5. Total(p, t..((t + w) - 1)) \in Nat /\ Total(p, (t + w)..u) \in Nat
        <5> DEFINE e == (t + w) - 1
        <5>1. (\A x \in t..e : p[x] \in Nat) /\ t \in Nat /\ e \in Int
          BY <4>1
        <5>2. (\A x \in (t + w)..u : p[x] \in Nat) /\ t + w \in Nat /\ u \in Int
          BY <4>1
        <5> HIDE DEF e
        <5>3. Total(p, t..e) \in Nat
          BY ONLY <5>1, TotalSpan
        <5>4. Total(p, (t + w)..u) \in Nat
          BY ONLY <5>2, TotalSpan
        <5>5. QED
          BY <5>3, <5>4 DEF e
      <4>6. QED
        BY <3>1, <4>3, <4>4, <4>5
    <3>4. QED
      BY <3>2, <3>3
  <2>2. QED
    BY <2>1
<1> HIDE DEF T
<1>3. Nat \subseteq T
  BY <1>1, <1>2, Induction
<1>4. ASSUME NEW t \in 0..m, NEW u \in t..m PROVE Total(p, t..u) <= max * (1 + (u - t) \div w)
  <2> DEFINE k == (u - t) \div w
  <2>1. k \in Nat /\ u - t < w * k + w /\ w * (k + 1) = w * k + w
    <3>1. u - t \in Nat
      OBVIOUS
    <3>2. QED
      BY <3>1, Quotient
  <2> HIDE DEF k
  <2>2. k \in T /\ u - t < w * (k + 1)
    BY <1>3, <2>1
  <2>3. Total(p, t..u) <= max * (k + 1)
    BY <2>2 DEF T
  <2>4. k + 1 = 1 + k
    BY <2>1
  <2>5. QED
    BY <2>3, <2>4 DEF k
<1>5. QED
  BY <1>4

(* What a call gives, nothing if it refuses, is added to what is given up to now. *)
LEMMA GivenBy ==
    ASSUME Moments, now' = now, NEW n \in Nat, NEW g \in Nat, (g = 0 /\ L!Refuse) \/ (g = n /\ L!Grant(n)),
           NEW t \in 0..now, NEW u \in (t - 1)..now
    PROVE  Given(t, u)' = IF u = now THEN Given(t, u) + g ELSE Given(t, u)
<1>1. CASE g = 0 /\ L!Refuse
  <2>1. Given(t, u)' = Given(t, u) /\ Given(t, u) \in Nat
    BY <1>1, GivenStays, GivenSpans DEF L!Refuse
  <2>2. QED
    BY <1>1, <2>1
<1>2. CASE g = n /\ L!Grant(n)
  <2>1. Given(t, u)' = IF u = now /\ t <= now THEN Given(t, u) + n ELSE Given(t, u)
    BY <1>2, GivenGrant
  <2>2. t <= now
    BY DEF Moments, LocalLimits
  <2>3. QED
    BY <1>2, <2>1, <2>2
<1>3. QED
  BY <1>1, <1>2

(* The sliding window: what the window has is on the list. *)
LEMMA SlidingStep ==
    ASSUME LocalLimits, LocalInv, NEW n \in 1..MaxN, L!AllowSliding(n), UNCHANGED <<strategy, now>>
    PROVE  LocalInv'
<1> DEFINE valid == [t \in 0..MaxTime |-> IF t > now - WindowSize THEN stamps[t] ELSE 0]
<1> DEFINE sum == Total(valid, 0..MaxTime)
<1>1. /\ strategy = "SlidingWindow" /\ now \in Nat /\ now <= MaxTime /\ MaxTime \in Nat /\ Moments
      /\ stamps \in [0..MaxTime -> Nat] /\ permits \in [0..MaxTime -> Nat] /\ n \in Nat
      /\ WindowRequests \in Nat /\ WindowSize \in Nat \ {0} /\ UNCHANGED <<level, since>>
      /\ strategy' = strategy /\ now' = now
  BY SMTT(60) DEF LocalInv, L!LocalTypeOK, L!AllowSliding, LocalLimits, Moments
<1>2. valid \in [0..MaxTime -> Nat] /\ sum \in Nat
  <2>1. valid \in [0..MaxTime -> Nat]
    BY <1>1
  <2>2. QED
    <3> HIDE DEF valid
    <3>1. 0 \in Nat /\ MaxTime \in Int /\ \A x \in 0..MaxTime : valid[x] \in Nat
      BY <1>1, <2>1
    <3>2. QED
      BY ONLY <3>1, <2>1, TotalSpan
<1>3. \/ sum + n <= WindowRequests /\ stamps' = [valid EXCEPT ![now] = @ + n] /\ L!Grant(n)
      \/ stamps' = valid /\ L!Refuse
  <2>1. L!MapThenSumSet(LAMBDA t : valid[t], 0..MaxTime) = sum
    BY DEF L!MapThenSumSet, L!MapThenFoldSet, Total, MapThenSumSet, MapThenFoldSet
  <2>2. QED
    BY <2>1 DEF L!AllowSliding
<1>4. \A v \in 0..MaxTime : v > now - WindowSize => valid[v] = permits[v]
  BY <1>1 DEF LocalInv, SlidingKept
<1>5. \A t \in 0..now : \A u \in t..now : u - t < WindowSize => Given(t, u) <= WindowRequests
  BY <1>1 DEF LocalInv, SlidingKept
<1>6. ASSUME NEW t \in 0..now, now - t < WindowSize PROVE Given(t, now) <= sum /\ Given(t, now) \in Nat
  <2> HIDE DEF valid
  <2>1. t \in Nat /\ now \in Int /\ t..now \subseteq 0..MaxTime
    BY <1>1
  <2>2. \A x \in t..now : permits[x] \in Int /\ permits[x] = valid[x]
    BY <1>1, <1>4, <1>6, <2>1
  <2>3. IsFiniteSet(t..now) /\ IsFiniteSet(0..MaxTime)
    <3>1. 0 \in Int /\ MaxTime \in Int /\ t \in Int /\ now \in Int
      BY <1>1
    <3>2. QED
      BY ONLY <3>1, FS_Interval
  <2>4. Total(permits, t..now) = Total(valid, t..now)
    BY <2>2, <2>3, TotalSame
  <2>5. Total(valid, t..now) \in Nat /\ Total(valid, t..now) <= Total(valid, 0..MaxTime)
    <3>1. \A x \in 0..MaxTime : valid[x] \in Nat
      BY <1>2
    <3>2. QED
      BY ONLY <2>1, <2>3, <3>1, TotalNat
  <2>6. QED
    BY <2>4, <2>5 DEF Given
<1> HIDE DEF sum
<1>7. PICK g \in Nat : /\ (g = 0 /\ L!Refuse) \/ (g = n /\ L!Grant(n) /\ sum + n <= WindowRequests)
                       /\ stamps' = [valid EXCEPT ![now] = @ + g]
                       /\ permits' = [permits EXCEPT ![now] = @ + g]
  <2>1. CASE sum + n <= WindowRequests /\ stamps' = [valid EXCEPT ![now] = @ + n] /\ L!Grant(n)
    <3>1. permits' = [permits EXCEPT ![now] = @ + n]
      BY <2>1 DEF L!Grant
    <3>2. QED
      BY <1>1, <2>1, <3>1
  <2>2. CASE stamps' = valid /\ L!Refuse
    <3>1. now \in 0..MaxTime
      BY <1>1
    <3>2. [valid EXCEPT ![now] = @ + 0] = valid
      <4> HIDE DEF valid
      <4>1. valid[now] + 0 = valid[now]
        BY <1>2, <3>1
      <4>2. QED
        BY <1>2, <4>1
    <3>3. [permits EXCEPT ![now] = @ + 0] = permits
      <4>1. permits[now] + 0 = permits[now]
        BY <1>1, <3>1
      <4>2. QED
        BY <1>1, <4>1
    <3>4. permits' = permits
      BY <2>2 DEF L!Refuse
    <3>5. 0 \in Nat
      OBVIOUS
    <3> HIDE DEF valid
    <3>6. QED
      BY <2>2, <3>2, <3>3, <3>4, <3>5
  <2>3. QED
    BY <1>3, <2>1, <2>2
<1>8. permits' \in [0..MaxTime -> Nat] /\ stamps' \in [0..MaxTime -> Nat]
  <2> HIDE DEF valid
  <2>1. QED
    BY <1>1, <1>2, <1>7, SMTT(60)
<1>9. \A v \in 0..MaxTime : v > now - WindowSize => stamps'[v] = permits'[v]
  <2> HIDE DEF valid
  <2>1. QED
    BY <1>1, <1>2, <1>4, <1>7
<1> HIDE DEF valid
<1>10. ASSUME NEW t \in 0..now, NEW u \in t..now, u - t < WindowSize PROVE Given(t, u)' <= WindowRequests
  <2>1. u \in (t - 1)..now
    BY <1>1
  <2>2. Given(t, u)' = IF u = now THEN Given(t, u) + g ELSE Given(t, u)
    BY <1>1, <1>7, <2>1, GivenBy
  <2>3. Given(t, u) <= WindowRequests /\ Given(t, u) \in Nat
    BY <1>1, <1>5, <1>10, <2>1, GivenSpans
  <2>4. CASE u = now /\ g # 0
    BY <1>1, <1>2, <1>6, <1>7, <1>10, <2>2, <2>4, SMTT(60)
  <2>5. CASE u # now \/ g = 0
    BY <2>2, <2>3, <2>5
  <2>6. QED
    BY <2>4, <2>5
<1>11. L!AllowancesKept'
  <2>1. \A t \in 0..now : \A u \in t..now : u - t < WindowSize => Total(permits', t..u) <= WindowRequests
    BY <1>10 DEF Given
  <2>2. \A x \in 0..now : permits'[x] \in Nat
    BY <1>1, <1>8
  <2>3. \A p : (/\ \A x \in 0..now : p[x] \in Nat
                /\ \A t \in 0..now : \A u \in t..now : u - t < WindowSize => Total(p, t..u) <= WindowRequests)
               => \A t \in 0..now : \A u \in t..now :
                    Total(p, t..u) <= WindowRequests * (1 + (u - t) \div WindowSize)
    BY ONLY <1>1, WindowsAdd
  <2>4. \A t \in 0..now : \A u \in t..now :
            Total(permits', t..u) <= WindowRequests * (1 + (u - t) \div WindowSize)
    BY <2>1, <2>2, <2>3
  <2>5. \A d : L!Allowance(d)' = WindowRequests * (1 + d \div WindowSize)
    BY <1>1 DEF L!Allowance
  <2>6. (\A t \in 0..now : \A u \in t..now : Given(t, u) <= L!Allowance(u - t))'
    BY <1>1, <2>4, <2>5 DEF Given
  <2>7. (L!AllowancesKept <=> \A t \in 0..now : \A u \in t..now : Given(t, u) <= L!Allowance(u - t))'
    BY KeptMeans, PTL
  <2>8. QED
    BY <2>6, <2>7
<1>12. L!LocalTypeOK'
  BY <1>1, <1>8 DEF LocalInv, L!LocalTypeOK, L!Strategies
<1>13. NotYet'
  BY <1>1, <1>7 DEF LocalInv, NotYet
<1>14. SlidingKept'
  BY <1>1, <1>9, <1>10 DEF SlidingKept
<1>15. QED
  BY <1>1, <1>11, <1>12, <1>13, <1>14 DEF LocalInv, TokensKept, WaterKept, FixedKept

(* The fixed window: those before it are full at most, and it counts what it gives. *)
LEMMA FixedStep ==
    ASSUME LocalLimits, LocalInv, NEW n \in 1..MaxN, L!AllowFixed(n), UNCHANGED <<strategy, now>>
    PROVE  LocalInv'
<1> DEFINE over == now - since > WindowSize
<1> DEFINE count == IF over THEN 0 ELSE level
<1> DEFINE most(d) == WindowRequests * (1 + d \div (WindowSize + 1))
<1>1. /\ strategy = "FixedWindow" /\ now \in Nat /\ now <= MaxTime /\ MaxTime \in Nat /\ Moments
      /\ since \in 0..now /\ level \in 0..WindowRequests
      /\ stamps \in [0..MaxTime -> Nat] /\ permits \in [0..MaxTime -> Nat] /\ n \in Nat
      /\ WindowRequests \in Nat /\ WindowSize \in Nat \ {0} /\ UNCHANGED stamps
      /\ strategy' = strategy /\ now' = now /\ since' = IF over THEN now ELSE since
  BY SMTT(60) DEF LocalInv, L!LocalTypeOK, L!AllowFixed, L!Elapsed, LocalLimits, Moments
<1>2. PICK g \in Nat : /\ (g = 0 /\ L!Refuse) \/ (g = n /\ L!Grant(n))
                       /\ level' = count + g /\ count + g <= WindowRequests
  <2>1. count \in 0..WindowRequests
    BY <1>1
  <2>2. \/ count + n <= WindowRequests /\ level' = count + n /\ L!Grant(n)
        \/ level' = count /\ L!Refuse
    BY DEF L!AllowFixed, L!Elapsed
  <2> HIDE DEF count, over
  <2>3. QED
    BY <1>1, <2>1, <2>2
<1>3. /\ \A v \in (since + WindowSize + 1)..MaxTime : permits[v] = 0
      /\ Given(since, now) <= level
      /\ \A t \in 0..(since - 1) : Given(t, since - 1) <= most(since - 1 - t)
  BY <1>1 DEF LocalInv, FixedKept
<1>4. ASSUME NEW t \in 0..now, NEW u \in (t - 1)..now
      PROVE Given(t, u) \in Nat /\ Given(t, u)' = IF u = now THEN Given(t, u) + g ELSE Given(t, u)
  BY <1>1, <1>2, <1>4, GivenBy, GivenSpans
<1>5. ASSUME NEW d \in Nat PROVE most(d) \in Nat /\ WindowRequests <= most(d)
  <2>1. d \div (WindowSize + 1) \in Nat
    <3>1. WindowSize + 1 \in Nat \ {0}
      BY <1>1
    <3>2. QED
      BY <3>1, Quotient
  <2>2. 1 + d \div (WindowSize + 1) \in Nat /\ 1 <= 1 + d \div (WindowSize + 1)
    BY <2>1
  <2> DEFINE x == 1 + d \div (WindowSize + 1)
  <2> HIDE DEF x
  <2>3. x \in Nat /\ 1 <= x
    BY <2>2 DEF x
  <2>4. WindowRequests * 1 <= WindowRequests * x /\ WindowRequests * x \in Nat /\ WindowRequests * 1 = WindowRequests
    BY <1>1, <2>3, ProductGrows
  <2>5. QED
    BY <2>4 DEF x
<1>6. ASSUME NEW t \in 0..(since - 1)
      PROVE  /\ most((since - 1) - t) \in Nat /\ most((now - 1) - t) \in Nat
             /\ most((since - 1) - t) <= most((now - 1) - t)
             /\ over => most((since - 1) - t) + WindowRequests <= most((now - 1) - t)
  <2> DEFINE w == WindowSize + 1
  <2> DEFINE a == (since - 1) - t
  <2> DEFINE b == (now - 1) - t
  <2>1. a \in Nat /\ b \in Nat /\ a <= b /\ w \in Nat \ {0} /\ (over => a + w <= b)
    BY <1>1
  <2>2. most(a) \in Nat /\ most(b) \in Nat
    BY <1>5, <2>1
  <2>3. most(a) = WindowRequests * (1 + a \div w) /\ most(b) = WindowRequests * (1 + b \div w)
    OBVIOUS
  <2> DEFINE p == a \div w
  <2> DEFINE q == b \div w
  <2> HIDE DEF w, a, b, over, count
  <2>4. p \in Nat /\ w * p <= a /\ q \in Nat
    BY <2>1, Quotient
  <2> HIDE DEF p, q
  <2>5. w * p \in Nat /\ w * (p + 1) = w * p + w
    BY ONLY <2>1, <2>4, Z3
  <2>6. p <= q
    <3>1. w * p <= b
      BY <2>1, <2>4, <2>5
    <3>2. QED
      BY <2>1, <2>4, <3>1, QuotientLargest DEF q
  <2>7. over => p + 1 <= q
    <3>1. SUFFICES ASSUME over PROVE p + 1 <= q
      OBVIOUS
    <3>2. w * (p + 1) <= b
      BY <2>1, <2>4, <2>5, <3>1
    <3>3. p + 1 \in Int
      BY <2>4
    <3>4. QED
      BY <2>1, <3>2, <3>3, QuotientLargest DEF q
  <2>8. WindowRequests * (1 + p) <= WindowRequests * (1 + q)
    <3>1. 1 + p \in Int /\ 1 + q \in Int /\ 1 + p <= 1 + q
      BY <2>4, <2>6
    <3>2. QED
      BY <1>1, <3>1, ProductGrows
  <2>9. over => WindowRequests * (1 + p) + WindowRequests <= WindowRequests * (1 + q)
    <3>1. SUFFICES ASSUME over PROVE WindowRequests * (1 + p) + WindowRequests <= WindowRequests * (1 + q)
      OBVIOUS
    <3>2. (1 + p) + 1 \in Int /\ 1 + q \in Int /\ (1 + p) + 1 <= 1 + q
      BY <2>4, <2>7, <3>1
    <3>3. WindowRequests * ((1 + p) + 1) <= WindowRequests * (1 + q)
      BY <1>1, <3>2, ProductGrows
    <3>4. WindowRequests * ((1 + p) + 1) = WindowRequests * (1 + p) + WindowRequests
      BY ONLY <1>1, <2>4, Z3
    <3>5. QED
      BY <3>3, <3>4
  <2>10. most(a) = WindowRequests * (1 + p) /\ most(b) = WindowRequests * (1 + q)
    BY <2>3 DEF p, q
  <2>11. most(a) <= most(b) /\ (over => most(a) + WindowRequests <= most(b))
    BY <2>8, <2>9, <2>10
  <2>12. QED
    BY <2>2, <2>11 DEF a, b
<1> HIDE DEF most
(* What is given before the window that counts now, and what before now if it is over. *)
<1>7. ASSUME NEW t \in since..now, NEW u \in (t - 1)..now PROVE Given(t, u) <= WindowRequests
  <2>1. since \in 0..now /\ now \in (since - 1)..now /\ t \in since..(now + 1) /\ t \in 0..now
        /\ u + 1 \in t..(now + 1) /\ (u + 1) - 1 = u /\ t - 1 \in (since - 1)..now /\ u \in Int
    BY <1>1
  <2>2. Given(since, now) = Given(since, t - 1) + Given(t, now)
    BY <1>1, <2>1, GivenSpans
  <2>3. CASE u = now
    <3>1. Given(since, t - 1) \in Nat /\ Given(t, now) \in Nat
      BY <1>1, <1>4, <2>1, <2>3
    <3>2. Given(since, now) <= level /\ level <= WindowRequests /\ level \in Nat /\ WindowRequests \in Nat
      BY <1>1, <1>3
    <3>3. Given(t, now) <= WindowRequests
      BY ONLY <2>2, <3>1, <3>2
    <3>4. QED
      BY <2>3, <3>3
  <2>4. CASE u # now
    <3>1. Given(t, now) = Given(t, (u + 1) - 1) + Given(u + 1, now)
      BY <1>1, <2>1, GivenSpans
    <3>2. u + 1 \in 0..now /\ now \in ((u + 1) - 1)..now /\ u \in (t - 1)..now
      BY <1>1, <2>1, <2>4
    <3>3. Given(u + 1, now) \in Nat /\ Given(t, u) \in Nat /\ Given(since, t - 1) \in Nat
      BY <1>4, <2>1, <3>2
    <3>4. Given(since, now) <= level /\ level <= WindowRequests /\ level \in Nat /\ WindowRequests \in Nat
      BY <1>1, <1>3
    <3>5. Given(t, now) = Given(t, u) + Given(u + 1, now)
      BY <2>1, <3>1
    <3>6. Given(t, u) <= WindowRequests
      BY ONLY <2>2, <3>3, <3>4, <3>5
    <3>7. QED
      BY <3>6
  <2>5. QED
    BY <2>3, <2>4
<1>8. ASSUME NEW t \in 0..(since - 1), NEW u \in (since - 1)..now
      PROVE  Given(t, u) = Given(t, since - 1) + Given(since, u) /\ Given(t, since - 1) \in Nat /\ Given(since, u) \in Nat
  <2>1. t \in 0..now /\ u \in (t - 1)..now /\ since \in t..(u + 1) /\ since - 1 \in (t - 1)..now /\ since \in 0..now
    BY <1>1
  <2>2. QED
    BY <1>1, <1>4, <2>1, GivenSpans
<1>9. over => permits[now] = 0 /\ \A t \in 0..now : Given(t, now) = Given(t, now - 1)
  <2>1. SUFFICES ASSUME over PROVE permits[now] = 0 /\ \A t \in 0..now : Given(t, now) = Given(t, now - 1)
    OBVIOUS
  <2>2. permits[now] = 0
    BY <1>1, <1>3, <2>1
  <2>3. ASSUME NEW t \in 0..now PROVE Given(t, now) = Given(t, now - 1)
    <3>1. t <= now /\ now \in (t - 1)..now /\ now - 1 \in (t - 1)..now
      BY <1>1
    <3>2. Given(t, now) = Given(t, now - 1) + permits[now] /\ Given(t, now - 1) \in Nat
      BY <1>1, <3>1, GivenSpans
    <3>3. QED
      BY <2>2, <3>2
  <2>4. QED
    BY <2>2, <2>3
<1>10. ASSUME NEW t \in 0..(now - 1), over PROVE Given(t, now - 1) <= most((now - 1) - t)
  <2>1. CASE t >= since
    <3>1. Given(t, now - 1) <= WindowRequests /\ (now - 1) - t \in Nat
      BY <1>1, <1>7, <2>1
    <3>2. Given(t, now - 1) \in Nat
      BY <1>1, <1>4
    <3>3. QED
      BY <1>1, <1>5, <3>1, <3>2, SMTT(60)
  <2>2. CASE t < since
    <3>1. t \in 0..(since - 1) /\ now - 1 \in (since - 1)..now /\ since \in since..now /\ now - 1 \in Int
      BY <1>1, <1>10, <2>2
    <3>2. Given(t, now - 1) = Given(t, since - 1) + Given(since, now - 1)
          /\ Given(t, since - 1) \in Nat /\ Given(since, now - 1) \in Nat
      BY <1>8, <3>1
    <3>3. Given(t, since - 1) <= most((since - 1) - t) /\ Given(since, now - 1) <= WindowRequests
      BY <1>3, <1>7, <3>1
    <3>4. most((since - 1) - t) + WindowRequests <= most((now - 1) - t)
          /\ most((since - 1) - t) \in Nat /\ most((now - 1) - t) \in Nat
      BY <1>6, <1>10, <3>1
    <3>5. QED
      BY <1>1, <3>2, <3>3, <3>4, SMTT(60)
  <2>3. QED
    BY <1>1, <2>1, <2>2
<1>11. L!LocalTypeOK' /\ NotYet'
  <2>1. permits' \in [0..MaxTime -> Nat] /\ \A v \in (now + 1)..MaxTime : permits'[v] = permits[v]
    <3>1. CASE L!Refuse
      BY <1>1, <3>1 DEF L!Refuse
    <3>2. CASE L!Grant(n)
      BY <1>1, <3>2 DEF L!Grant
    <3>3. QED
      BY <1>2, <3>1, <3>2
  <2>2. level' \in 0..WindowRequests /\ since' \in 0..now
    BY <1>1, <1>2
  <2>3. L!LocalTypeOK'
    BY <1>1, <2>1, <2>2 DEF L!LocalTypeOK, L!Strategies
  <2>4. QED
    BY <1>1, <2>1, <2>3 DEF NotYet, LocalInv
<1>12. FixedKept'
  <2>1. CASE over
    <3>1. since' = now /\ level' = g /\ now \in 0..now /\ now \in (now - 1)..now
      BY <1>1, <1>2, <2>1
    <3>2. Given(now, now)' <= level'
      <4>1. Given(now, now) = Given(now, now - 1) /\ now - 1 \in (now - 1)..now /\ now - 1 < now
        BY <1>1, <1>9, <2>1, <3>1
      <4>2. Given(now, now - 1) = 0
        BY <1>1, <3>1, <4>1, GivenSpans
      <4>3. QED
        BY <1>4, <3>1, <4>1, <4>2
    <3>3. \A v \in (now + WindowSize + 1)..MaxTime : permits'[v] = 0
      BY <1>1, <1>11 DEF NotYet
    <3>4. ASSUME NEW t \in 0..(now - 1) PROVE Given(t, now - 1)' <= most((now - 1) - t)
      <4>1. t \in 0..now /\ now - 1 \in (t - 1)..now /\ now - 1 # now
        BY <1>1
      <4>2. Given(t, now - 1)' = Given(t, now - 1)
        BY <1>4, <4>1
      <4>3. QED
        BY <1>10, <2>1, <4>2
    <3>5. Given(since, now)' = Given(now, now)' /\ \A t : Given(t, since - 1)' = Given(t, now - 1)'
      BY <1>1, <3>1 DEF Given
    <3>6. QED
      BY <1>1, <3>1, <3>2, <3>3, <3>4, <3>5 DEF FixedKept, most
  <2>2. CASE ~over
    <3>1. since' = since /\ level' = level + g /\ since \in 0..now /\ now \in (since - 1)..now /\ now <= since + WindowSize
      BY <1>1, <1>2, <2>2
    <3>2. Given(since, now)' <= level'
      <4>1. Given(since, now)' = Given(since, now) + g /\ Given(since, now) \in Nat
        <5>1. Given(since, now)' = Total(permits', since..now)
          BY <1>1, <3>1 DEF Given
        <5>2. QED
          BY <1>4, <3>1, <5>1
      <4>2. QED
        BY <1>1, <1>3, <3>1, <4>1
    <3>3. \A v \in (since + WindowSize + 1)..MaxTime : permits'[v] = 0
      BY <1>1, <1>11, <3>1 DEF NotYet
    <3>4. ASSUME NEW t \in 0..(since - 1) PROVE Given(t, since - 1)' <= most((since - 1) - t)
      <4>1. t \in 0..now /\ since - 1 \in (t - 1)..now /\ since - 1 # now
        BY <1>1
      <4>2. Given(t, since - 1)' = Given(t, since - 1)
        BY <1>4, <3>1, <4>1 DEF Given
      <4>3. QED
        BY <1>3, <4>2
    <3>5. QED
      BY <1>1, <3>1, <3>2, <3>3, <3>4 DEF FixedKept, most
  <2>3. QED
    BY <2>1, <2>2
<1>13. ASSUME NEW t \in 0..now PROVE Given(t, now) + g <= L!Allowance(now - t)
  <2> DEFINE d == (now - t) - 1
  <2>1. /\ t = now => L!Allowance(now - t) = WindowRequests
        /\ t # now => d \in Nat /\ most(d) \in Nat /\ L!Allowance(now - t) = most(d) + WindowRequests
    <3>1. CASE t = now
      <4>1. now - t = 0 /\ WindowRequests * 1 = WindowRequests
        BY <1>1, <3>1
      <4>2. QED
        BY <1>1, <3>1, <4>1 DEF L!Allowance
    <3>2. CASE t # now
      <4>1. d \in Nat /\ now - t # 0
        BY <1>1, <3>2
      <4>2. L!Allowance(now - t) = WindowRequests * (2 + d \div (WindowSize + 1))
        BY <1>1, <4>1 DEF L!Allowance
      <4>3. d \div (WindowSize + 1) \in Nat
        <5>1. WindowSize + 1 \in Nat \ {0}
          BY <1>1
        <5>2. QED
          BY <4>1, <5>1, Quotient
      <4> DEFINE q == d \div (WindowSize + 1)
      <4>4. most(d) = WindowRequests * (1 + q) /\ q \in Nat
        BY <4>3 DEF most
      <4> HIDE DEF q
      <4>5. WindowRequests * (2 + q) = WindowRequests * (1 + q) + WindowRequests
        BY ONLY <1>1, <4>4, Z3
      <4>6. most(d) \in Nat
        BY <1>5, <4>1
      <4>7. QED
        BY <3>2, <4>1, <4>2, <4>4, <4>5, <4>6 DEF q
    <3>3. QED
      BY <3>1, <3>2
  <2> HIDE DEF d
  <2>2. now \in (t - 1)..now /\ Given(t, now) \in Nat
    BY <1>1, <1>4
  <2>3. CASE over
    <3>1. g <= WindowRequests /\ Given(t, now) = Given(t, now - 1)
      BY <1>1, <1>2, <1>9, <2>3
    <3>2. CASE t = now
      <4>1. now - 1 \in (now - 1)..now /\ now - 1 < now /\ now \in 0..now
        BY <1>1
      <4>2. Given(now, now - 1) = 0
        BY <1>1, <4>1, GivenSpans
      <4>3. QED
        BY <1>1, <2>1, <3>1, <3>2, <4>2
    <3>3. CASE t # now
      <4>1. t \in 0..(now - 1) /\ (now - 1) - t = d
        BY <1>1, <3>3 DEF d
      <4>2. Given(t, now - 1) <= most(d)
        BY <1>10, <2>3, <4>1
      <4>3. /\ most(d) \in Nat /\ L!Allowance(now - t) = most(d) + WindowRequests
            /\ g \in Nat /\ WindowRequests \in Nat
        BY <1>1, <2>1, <3>3
      <4>4. QED
        BY ONLY <2>2, <3>1, <4>2, <4>3
    <3>4. QED
      BY <3>2, <3>3
  <2>4. CASE ~over
    <3>1. level + g <= WindowRequests
      BY <1>2, <2>4
    <3>2. Given(since, now) <= level /\ Given(since, now) \in Nat
      <4>1. since \in 0..now /\ now \in (since - 1)..now
        BY <1>1
      <4>2. QED
        BY <1>3, <1>4, <4>1
    <3>3. CASE t >= since
      <4>1. Given(t, now) <= Given(since, now)
        <5>1. since \in 0..now /\ now \in (since - 1)..now /\ t \in since..(now + 1) /\ t - 1 \in (since - 1)..now
          BY <1>1, <3>3
        <5>2. Given(since, now) = Given(since, t - 1) + Given(t, now) /\ Given(since, t - 1) \in Nat
          BY <1>1, <1>4, <5>1, GivenSpans
        <5>3. QED
          BY <2>2, <5>2
      <4>2. Given(t, now) + g <= WindowRequests
        BY <1>1, <2>2, <3>1, <3>2, <4>1, SMTT(60)
      <4>3. QED
        BY <1>1, <2>1, <2>2, <4>2, SMTT(60)
    <3>4. CASE t < since
      <4>1. t \in 0..(since - 1) /\ now \in (since - 1)..now /\ t # now /\ (now - 1) - t = d
        BY <1>1, <3>4 DEF d
      <4>2. Given(t, now) = Given(t, since - 1) + Given(since, now) /\ Given(t, since - 1) \in Nat
        BY <1>8, <4>1
      <4>3. Given(t, since - 1) <= most((since - 1) - t)
        BY <1>3, <4>1
      <4>4. most((since - 1) - t) <= most(d) /\ most((since - 1) - t) \in Nat
        BY <1>6, <4>1
      <4>5. /\ most(d) \in Nat /\ L!Allowance(now - t) = most(d) + WindowRequests
            /\ g \in Nat /\ WindowRequests \in Nat /\ level \in Nat
        BY <1>1, <2>1, <4>1
      <4>6. QED
        BY ONLY <3>1, <3>2, <4>2, <4>3, <4>4, <4>5
    <3>5. QED
      BY <1>1, <3>3, <3>4
  <2>5. QED
    BY <2>3, <2>4
<1>14. L!AllowancesKept'
  <2>1. \/ L!Refuse
        \/ L!Grant(n) /\ \A t \in 0..now : Given(t, now) + n <= L!Allowance(now - t)
    BY <1>2, <1>13
  <2>2. QED
    BY <1>1, <2>1, AllowancesAfter DEF LocalInv
<1>15. QED
  BY <1>1, <1>11, <1>12, <1>14 DEF LocalInv, TokensKept, WaterKept, SlidingKept

(* A tick: nothing is given at the moment that begins. *)
LEMMA LimitTick ==
    ASSUME LocalLimits, LocalInv, L!LocalTick
    PROVE  LocalInv'
<1>1. /\ now \in Nat /\ now < MaxTime /\ MaxTime \in Nat /\ now' = now + 1 /\ Moments
      /\ UNCHANGED <<strategy, level, since, stamps, permits>> /\ since \in 0..now
      /\ permits \in [0..MaxTime -> Nat] /\ permits[now + 1] = 0
  BY SMTT(60) DEF LocalInv, NotYet, L!LocalTypeOK, L!LocalTick, L!limits, LocalLimits, Moments
<1>2. \A t, u : Given(t, u)' = Given(t, u)
  BY <1>1, GivenStays
<1>3. ASSUME NEW t \in 0..(now + 1)
      PROVE  /\ t <= now => Given(t, now + 1) = Given(t, now)
             /\ t = now + 1 => Given(t, now + 1) = 0
  <2>1. t \in Nat /\ now + 1 \in Int /\ \A x \in t..(now + 1) : permits[x] \in Nat
    BY <1>1
  <2>2. Total(permits, t..(now + 1)) = Total(permits, t..((now + 1) - 1)) + permits[now + 1]
    <3>1. t <= now + 1
      BY <1>1
    <3>2. QED
      BY <2>1, <3>1, TotalSpan
  <2>3. (now + 1) - 1 = now
    BY <1>1
  <2>4. Given(t, now + 1) = Given(t, now) + permits[now + 1]
    BY <2>2, <2>3 DEF Given
  <2>5. CASE t <= now
    <3>1. t \in 0..now /\ now \in (t - 1)..now
      BY <1>1, <2>5
    <3>2. Given(t, now) \in Nat
      BY <1>1, <3>1, GivenSpans
    <3>3. QED
      BY <1>1, <2>4, <2>5, <3>2
  <2>6. CASE t = now + 1
    <3>1. \A x \in t..now : permits[x] \in Nat
      BY <1>1, <2>6
    <3>2. t \in Nat /\ now \in Int /\ now < t
      BY <1>1, <2>6
    <3>3. Total(permits, t..now) = 0
      BY ONLY <3>1, <3>2, TotalSpan
    <3>4. QED
      BY <1>1, <2>4, <2>6, <3>3 DEF Given
  <2>7. QED
    BY <2>5, <2>6
<1>4. \A d : L!Allowance(d)' = L!Allowance(d)
  BY <1>1 DEF L!Allowance
<1>5. L!AllowancesKept'
  <2>1. \A t \in 0..now : \A u \in t..now : Given(t, u) <= L!Allowance(u - t)
    BY KeptMeans DEF LocalInv
  <2>2. strategy \in L!Strategies
    BY DEF LocalInv, L!LocalTypeOK
  <2>3. ASSUME NEW t \in 0..(now + 1), NEW u \in t..(now + 1) PROVE Given(t, u) <= L!Allowance(u - t)
    <3>1. CASE u <= now
      <4>1. t \in 0..now /\ u \in t..now
        BY <1>1, <3>1
      <4>2. QED
        BY <2>1, <4>1
    <3>2. CASE u = now + 1 /\ t <= now
      <4>1. t \in 0..now /\ now \in t..now /\ now - t \in Nat /\ (now + 1) - t \in Nat /\ now - t <= (now + 1) - t
        BY <1>1, <3>2
      <4>2. Given(t, now) <= L!Allowance(now - t)
        BY <2>1, <4>1
      <4>3. L!Allowance(now - t) \in Nat /\ L!Allowance(now - t) <= L!Allowance((now + 1) - t)
        BY <2>2, <4>1, AllowanceGrows
      <4>4. L!Allowance((now + 1) - t) \in Nat
        BY <2>2, <4>1, AllowanceGrows
      <4>5. now \in (t - 1)..now
        BY <1>1, <4>1
      <4>6. Given(t, now) \in Nat
        BY <1>1, <4>1, <4>5, GivenSpans
      <4>7. QED
        BY <1>3, <3>2, <4>2, <4>3, <4>4, <4>6
    <3>3. CASE t = now + 1
      <4>1. u = now + 1 /\ u - t = 0
        BY <1>1, <3>3
      <4>2. 0 \in Nat /\ 0 <= 0
        OBVIOUS
      <4>3. L!Allowance(0) \in Nat
        BY <2>2, <4>2, AllowanceGrows
      <4>4. QED
        BY <1>3, <3>3, <4>1, <4>3
    <3>4. QED
      BY <1>1, <3>1, <3>2, <3>3
  <2>4. (\A t \in 0..now : \A u \in t..now : Given(t, u) <= L!Allowance(u - t))'
    BY <1>1, <1>2, <1>4, <2>3
  <2>5. (L!AllowancesKept <=> \A t \in 0..now : \A u \in t..now : Given(t, u) <= L!Allowance(u - t))'
    BY KeptMeans, PTL
  <2>6. QED
    BY <2>4, <2>5
<1>6. L!LocalTypeOK' /\ NotYet' /\ NothingSince' = NothingSince
  BY <1>1 DEF LocalInv, L!LocalTypeOK, L!Strategies, NotYet, NothingSince
<1>7. TokensKept' /\ WaterKept'
  BY <1>1, <1>2, <1>6 DEF LocalInv, TokensKept, WaterKept, Given
<1>8. SlidingKept'
  <2>1. SUFFICES ASSUME strategy = "SlidingWindow" PROVE SlidingKept'
    BY <1>1 DEF SlidingKept
  <2>2. WindowSize \in Nat \ {0} /\ WindowRequests \in Nat
    BY DEF LocalLimits
  <2>3. \A v \in 0..MaxTime : v > (now + 1) - WindowSize => stamps[v] = permits[v]
    BY <1>1, <2>1, <2>2 DEF LocalInv, SlidingKept
  <2>4. ASSUME NEW t \in 0..(now + 1), NEW u \in t..(now + 1), u - t < WindowSize PROVE Given(t, u) <= WindowRequests
    <3>1. \A x \in 0..now : \A y \in x..now : y - x < WindowSize => Given(x, y) <= WindowRequests
      BY <2>1 DEF LocalInv, SlidingKept
    <3>2. CASE u <= now
      BY <1>1, <2>4, <3>1, <3>2
    <3>3. CASE u = now + 1 /\ t <= now
      <4>1. t \in 0..now /\ now \in t..now /\ now - t < WindowSize
        BY <1>1, <2>2, <2>4, <3>3
      <4>2. QED
        BY <1>3, <3>1, <3>3, <4>1
    <3>4. CASE t = now + 1
      <4>1. u = now + 1
        BY <1>1, <3>4
      <4>2. QED
        BY <1>3, <2>2, <3>4, <4>1
    <3>5. QED
      BY <1>1, <3>2, <3>3, <3>4
  <2>5. QED
    BY <1>1, <1>2, <2>3, <2>4 DEF SlidingKept
<1>9. FixedKept'
  <2>1. Given(since, now + 1) = Given(since, now)
    BY <1>1, <1>3
  <2>2. Given(since, now)' = Given(since, now + 1)
    BY <1>1 DEF Given
  <2>3. \A t : Given(t, since - 1)' = Given(t, since - 1)
    BY <1>1 DEF Given
  <2>4. QED
    BY <1>1, <2>1, <2>2, <2>3 DEF LocalInv, FixedKept
<1>10. QED
  BY <1>5, <1>6, <1>7, <1>8, <1>9 DEF LocalInv

LEMMA LimitStart ==
    ASSUME LocalLimits, L!LocalInit
    PROVE  LocalInv
<1>1. /\ now = 0 /\ since = 0 /\ MaxTime \in Nat /\ strategy \in L!Strategies
      /\ stamps = [v \in 0..MaxTime |-> 0] /\ permits = [v \in 0..MaxTime |-> 0]
      /\ level = (IF strategy = "TokenBucket" THEN Burst * Cost ELSE 0)
      /\ Burst * Cost \in Nat /\ Burst \in Nat /\ WindowRequests \in Nat
  BY DEF L!LocalInit, LocalLimits
<1>2. L!LocalTypeOK /\ NotYet /\ Moments
  BY <1>1 DEF L!LocalTypeOK, L!Strategies, NotYet, Moments
<1>3. 0..0 = {0} /\ 0 \in 0..MaxTime /\ 0..(-1) = {} /\ 0 - 1 = -1
  BY <1>1
<1>4. Given(0, 0) = 0
  <2>1. IsFiniteSet({0}) /\ \A v \in {0} : permits[v] = 0
    BY <1>1, <1>3, FS_Singleton
  <2>2. QED
    BY <1>3, <2>1, TotalZero DEF Given
<1>5. L!AllowancesKept
  <2>1. 0 \in Nat /\ 0 <= 0 /\ 0 - 0 = 0
    OBVIOUS
  <2>2. L!Allowance(0) \in Nat
    BY <1>1, <2>1, AllowanceGrows
  <2>3. \A t \in 0..now : \A u \in t..now : t = 0 /\ u = 0
    BY <1>1
  <2>4. \A t \in 0..now : \A u \in t..now : Given(t, u) <= L!Allowance(u - t)
    BY <1>4, <2>1, <2>2, <2>3
  <2>5. QED
    BY <2>4, KeptMeans
<1>6. TokensKept /\ WaterKept
  <2>1. NothingSince
    BY <1>1 DEF NothingSince
  <2>2. \A t \in 0..since : t = 0
    BY <1>1
  <2>3. (since - 0) * PerTick = 0 /\ Cost * 0 = 0 /\ ((since - 0) * PerTick) \div Cost = 0
    <3>1. (since - 0) * PerTick = 0 /\ Cost * 0 = 0
      BY <1>1 DEF LocalLimits
    <3>2. 0 \div Cost = 0
      BY DEF LocalLimits
    <3>3. QED
      BY <3>1, <3>2
  <2>4. TokensKept
    BY <1>1, <1>4, <2>1, <2>2, <2>3 DEF TokensKept
  <2>5. WaterKept
    BY <1>1, <1>4, <2>1, <2>2, <2>3 DEF WaterKept
  <2>6. QED
    BY <2>4, <2>5
<1>7. SlidingKept
  <2>1. \A t \in 0..now : \A u \in t..now : t = 0 /\ u = 0
    BY <1>1
  <2>2. QED
    BY <1>1, <1>4, <2>1 DEF SlidingKept
<1>8. FixedKept
  <2>1. \A v \in (since + WindowSize + 1)..MaxTime : permits[v] = 0
    BY <1>1 DEF LocalLimits
  <2>2. (Given(since, now) <= level /\ 0..(since - 1) = {}) \/ strategy # "FixedWindow"
    BY <1>1, <1>3, <1>4
  <2>3. QED
    BY <2>1, <2>2 DEF FixedKept
<1>9. QED
  BY <1>2, <1>5, <1>6, <1>7, <1>8 DEF LocalInv

LEMMA LimitStays ==
    ASSUME LocalInv, UNCHANGED limiterVars
    PROVE  LocalInv'
<1>1. \A t, u : Given(t, u)' = Given(t, u)
  BY GivenStays DEF limiterVars
<1>2. UNCHANGED <<strategy, now, level, since, stamps, permits>>
  BY DEF limiterVars
<1>3. L!AllowancesKept'
  <2>1. \A t \in 0..now : \A u \in t..now : Given(t, u) <= L!Allowance(u - t)
    BY KeptMeans DEF LocalInv
  <2>2. \A d : L!Allowance(d)' = L!Allowance(d)
    BY <1>2 DEF L!Allowance
  <2>3. (\A t \in 0..now : \A u \in t..now : Given(t, u) <= L!Allowance(u - t))'
    BY <1>1, <1>2, <2>1, <2>2
  <2>4. (L!AllowancesKept <=> \A t \in 0..now : \A u \in t..now : Given(t, u) <= L!Allowance(u - t))'
    BY KeptMeans, PTL
  <2>5. QED
    BY <2>3, <2>4
<1>4. L!LocalTypeOK' /\ NotYet' /\ (NothingSince' <=> NothingSince)
  BY <1>2 DEF LocalInv, L!LocalTypeOK, NotYet, NothingSince
<1>5. TokensKept' /\ WaterKept'
  BY <1>1, <1>2, <1>4 DEF LocalInv, TokensKept, WaterKept, Given
<1>6. SlidingKept' /\ FixedKept'
  BY <1>1, <1>2 DEF LocalInv, SlidingKept, FixedKept, Given
<1>7. QED
  BY <1>3, <1>4, <1>5, <1>6 DEF LocalInv

LEMMA LimitHolds == ASSUME LocalLimits PROVE MCSpec => []LocalInv
<1>1. MCInit => LocalInv
  BY LimitStart DEF MCInit
<1>2. ASSUME LocalInv, [MCNext]_mcVars PROVE LocalInv'
  <2>1. CASE OnLimiter(L!LocalNext)
    <3>1. CASE L!LocalTick
      BY <1>2, <3>1, LimitTick
    <3>2. ASSUME NEW n \in 1..MaxN, L!AllowN(n) PROVE LocalInv'
      <4>1. UNCHANGED <<strategy, now>>
        BY <3>2 DEF L!AllowN
      <4>2. CASE L!AllowToken(n)
        BY <1>2, <4>1, <4>2, TokenStep
      <4>3. CASE L!AllowLeaky(n)
        BY <1>2, <4>1, <4>3, LeakyStep
      <4>4. CASE L!AllowSliding(n)
        BY <1>2, <4>1, <4>4, SlidingStep
      <4>5. CASE L!AllowFixed(n)
        BY <1>2, <4>1, <4>5, FixedStep
      <4>6. QED
        BY <3>2, <4>2, <4>3, <4>4, <4>5 DEF L!AllowN
    <3>3. QED
      BY <2>1, <3>1, <3>2 DEF OnLimiter, L!LocalNext
  <2>2. CASE ~OnLimiter(L!LocalNext)
    <3>1. UNCHANGED limiterVars
      BY <1>2, <2>2 DEF MCNext, mcVars, limitVars, OnMemory, OnTagged, OnMulti, OnQuery, OnShared
    <3>2. QED
      BY <1>2, <3>1, LimitStays
  <2>3. QED
    BY <2>1, <2>2
<1>3. QED
  BY <1>1, <1>2, PTL DEF MCSpec

(* The bucket in Redis, of a behaviour in which any of the caches and      *)
(* limiters is used.                                                       *)
LEMMA BalanceHolds == ASSUME SharedLimits PROVE MCSpec => []Balanced
<1>1. MCInit => Balanced
  BY BalancedStart DEF MCInit
<1>2. CachesInv /\ Balanced /\ [MCNext]_mcVars => Balanced'
  <2>1. SUFFICES ASSUME CachesInv, Balanced, [MCNext]_mcVars PROVE Balanced'
    OBVIOUS
  <2>2. [L!SharedNext]_(L!sharedVars)
    <3>1. [L!SharedNext]_sharedVars
      BY <2>1 DEF MCNext, OnMemory, OnTagged, OnMulti, OnQuery, OnLimiter, OnShared, mcVars, limitVars
    <3>2. QED
      BY <3>1 DEF sharedVars, L!sharedVars, L!bucket, L!history
  <2>3. QED
    BY <2>1, <2>2, BalancedStep DEF CachesInv
<1>3. QED
  BY <1>1, <1>2, CachesHold, PTL DEF MCSpec

(* No limiter gives away more than its allowance between any two moments,  *)
(* whatever is asked for and when: a full bucket and what the rate adds,   *)
(* or the limit for each window that the time touches                      *)
(* (limiter.go:96-300, distributed_limiter.go:86-121).                     *)
THEOREM LimitsHold ==
    ASSUME LocalLimits, SharedLimits
    PROVE  MCSpec => []LimitsKept
<1>1. LocalInv /\ CachesInv /\ Balanced => LimitsKept
  BY BalancedKeeps DEF LocalInv, CachesInv, LimitsKept
<1>2. QED
  BY <1>1, LimitHolds, CachesHold, BalanceHolds, PTL
=============================================================================
