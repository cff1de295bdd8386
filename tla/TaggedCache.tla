---------------------------- MODULE TaggedCache -----------------------------
(***************************************************************************)
(* MemoryCache of framework/cache/cache.go and, over it, TaggedCache of    *)
(* framework/cache/cache_enhanced.go.                                      *)
(*                                                                         *)
(* MemoryCache: Set with its eviction, Get with its lazy deletion, Delete, *)
(* Pull, Flush and the cleanup goroutine, used by several goroutines.  Get *)
(* gives its read lock back before it takes the write lock to delete.      *)
(* Values are left out.  FileCache works in the same steps, without a size.*)
(*                                                                         *)
(* TaggedCache keeps two indexes beside a MemoryCache: the keys of each    *)
(* tag and the tags of each key.  Everything but Get holds tc.mu, so it is *)
(* one step here; Get works on the MemoryCache alone, and its lazy         *)
(* deletion comes in between.  MemoryCache.Set never fails, so fail_delete *)
(* never acts.  Remember and CacheWarm are Get and Set.                    *)
(*                                                                         *)
(* items[k] is the number of ticks an entry has left, 0 when it has        *)
(* expired, and Absent when there is none.                                 *)
(***************************************************************************)
EXTENDS Integers, FiniteSets

CONSTANTS
    Keys,
    Tags,
    Users,          \* goroutines
    TTLs,           \* the ttl arguments, in ticks
    MaxTTL,         \* no ttl is longer
    MaxSize         \* MemoryCache.maxSize, 0 for no limit

ASSUME KeysAssumption == IsFiniteSet(Keys)
ASSUME TTLAssumption == MaxTTL \in Nat /\ TTLs \subseteq 0..MaxTTL
ASSUME SizeAssumption == MaxSize \in Nat

VARIABLES
    items,
    reader          \* what each goroutine's Get or Pull has found

cacheVars == <<items, reader>>

Absent == -1
Stored(k) == items[k] # Absent
Live(k) == items[k] > 0
Size == Cardinality({k \in Keys : Stored(k)})

NoRead == [does |-> "nothing"]
Read == [does : {"delete_expired", "delete_pulled"}, key : Keys]

CacheTypeOK ==
    /\ items \in [Keys -> {Absent} \cup 0..MaxTTL]
    /\ reader \in [Users -> Read \cup {NoRead}]

CacheInit ==
    /\ items = [k \in Keys |-> Absent]
    /\ reader = [u \in Users |-> NoRead]

Idle(u) == reader[u] = NoRead

-----------------------------------------------------------------------------
(* mutant: the size is compared after it is exceeded *)
MustEvictLate == MaxSize > 0 /\ Size > MaxSize

(* The size is compared before it is known whether the key is new. *)
MustEvict == MaxSize > 0 /\ Size >= MaxSize

(* evictOne: an entry that expires first goes; map order decides a tie. *)
Evictable(k) == Stored(k) /\ \A j \in Keys : Stored(j) => items[k] <= items[j]

(* mutant: the new ttl is added to what is left of the old one *)
PutAdds(k, ttl) ==
    LET left == IF Live(k) THEN items[k] + ttl ELSE ttl IN
    \/ /\ ~MustEvict
       /\ items' = [items EXCEPT ![k] = left]
    \/ /\ MustEvict
       /\ \E e \in Keys :
             /\ Evictable(e)
             /\ items' = [items EXCEPT ![e] = Absent, ![k] = left]

(* Set under c.mu *)
Put(k, ttl) ==
    \/ /\ ~MustEvict
       /\ items' = [items EXCEPT ![k] = ttl]
    \/ /\ MustEvict
       /\ \E e \in Keys :
             /\ Evictable(e)
             /\ items' = [items EXCEPT ![e] = Absent, ![k] = ttl]

Set(u, k, ttl) ==
    /\ Idle(u)
    /\ Put(k, ttl)
    /\ UNCHANGED reader

(* Get and Has: the entry is read; if it has expired it is deleted later. *)
Get(u, k) ==
    /\ Idle(u)
    /\ Stored(k) /\ ~Live(k)
    /\ reader' = [reader EXCEPT ![u] = [does |-> "delete_expired", key |-> k]]
    /\ UNCHANGED items

(* Pull: the value is returned and the entry deleted later. *)
Pull(u, k) ==
    /\ Idle(u)
    /\ Live(k)
    /\ reader' = [reader EXCEPT ![u] = [does |-> "delete_pulled", key |-> k]]
    /\ UNCHANGED items

(* The deletion of Get or Pull, whatever the entry is by now. *)
DeleteRead(u) ==
    /\ ~Idle(u)
    /\ items' = [items EXCEPT ![reader[u].key] = Absent]
    /\ reader' = [reader EXCEPT ![u] = NoRead]

Delete(u, k) ==
    /\ Idle(u)
    /\ items' = [items EXCEPT ![k] = Absent]
    /\ UNCHANGED reader

Flush ==
    /\ items' = [k \in Keys |-> Absent]
    /\ UNCHANGED reader

Cleanup ==
    /\ items' = [k \in Keys |-> IF Live(k) THEN items[k] ELSE Absent]
    /\ UNCHANGED reader

CacheTick ==
    /\ items' = [k \in Keys |-> IF Live(k) THEN items[k] - 1 ELSE items[k]]
    /\ UNCHANGED reader

CacheNext ==
    \/ \E u \in Users, k \in Keys :
          (\E ttl \in TTLs : Set(u, k, ttl)) \/ Get(u, k) \/ Pull(u, k) \/ Delete(u, k)
    \/ \E u \in Users : DeleteRead(u)
    \/ Flush \/ Cleanup \/ CacheTick

CacheSpec == CacheInit /\ [][CacheNext]_cacheVars

-----------------------------------------------------------------------------
(* The cache never holds more entries than maxSize. *)
SizeBounded == MaxSize > 0 => Size <= MaxSize

(* cache.go:108: Get lazily deletes expired entries, and no others. *)
LazyDeleteOfExpired ==
    [][\A u \in Users :
          reader[u].does = "delete_expired" /\ DeleteRead(u)
              => ~Live(reader[u].key)]_cacheVars

-----------------------------------------------------------------------------
(* TaggedCache *)

VARIABLES
    tags,           \* tc.tags: tag -> keys
    keyTags,        \* tc.keyTags: key -> tags
    given           \* history: the tags an entry was given while it lived

tagVars == <<tags, keyTags>>
vars == <<cacheVars, tagVars, given>>

TypeOK ==
    /\ CacheTypeOK
    /\ tags \in [Tags -> SUBSET Keys]
    /\ keyTags \in [Keys -> SUBSET Tags]
    /\ given \in [Keys -> SUBSET Tags]

Init ==
    /\ CacheInit
    /\ tags = [t \in Tags |-> {}]
    /\ keyTags = [k \in Keys |-> {}]
    /\ given = [k \in Keys |-> {}]

-----------------------------------------------------------------------------
(* mutant: the tags of the call replace those of the key in one index only *)
RecordTagsOnce(k, ts) ==
    /\ keyTags' = [keyTags EXCEPT ![k] = @ \cup ts]
    /\ tags' = [t \in Tags |->
                  IF t \in ts /\ keyTags[k] = {} THEN tags[t] \cup {k} ELSE tags[t]]

(* The tags of a call are added to those the key has. *)
RecordTags(k, ts) ==
    /\ keyTags' = [keyTags EXCEPT ![k] = @ \cup ts]
    /\ tags' = [t \in Tags |-> IF t \in ts THEN tags[t] \cup {k} ELSE tags[t]]

SetTagged(u, k, ttl, ts) ==
    /\ Set(u, k, ttl)
    /\ RecordTags(k, ts)
    /\ given' = [given EXCEPT ![k] = IF Live(k) THEN @ \cup ts ELSE ts]

GetTagged(u, k) == Get(u, k) /\ UNCHANGED <<tagVars, given>>

LazyDelete(u) == DeleteRead(u) /\ UNCHANGED <<tagVars, given>>

(* The keys leave the index of every tag they have. *)
Forget(ks) ==
    /\ tags' = [t \in Tags |-> tags[t] \ {k \in ks : t \in keyTags[k]}]
    /\ keyTags' = [k \in Keys |-> IF k \in ks THEN {} ELSE keyTags[k]]

DeleteTagged(u, k) ==
    /\ Delete(u, k)
    /\ Forget({k})
    /\ UNCHANGED given

(* ClearTags, for one tag: its keys go and lose their tags, but stay in    *)
(* the sets of their other tags.                                           *)
ClearTag(u, t) ==
    /\ Idle(u)
    /\ items' = [k \in Keys |-> IF k \in tags[t] THEN Absent ELSE items[k]]
    /\ keyTags' = [k \in Keys |-> IF k \in tags[t] THEN {} ELSE keyTags[k]]
    /\ tags' = [tags EXCEPT ![t] = {}]
    /\ UNCHANGED <<reader, given>>

(* One round of cleanupLoop: what the cache does not have any more.        *)
CleanupTags ==
    LET gone == {k \in Keys : keyTags[k] # {} /\ ~Live(k)} IN
    /\ Forget(gone)
    /\ items' = [k \in Keys |-> IF k \in gone THEN Absent ELSE items[k]]
    /\ UNCHANGED <<reader, given>>

Next ==
    \/ \E u \in Users, k \in Keys :
          \/ \E ttl \in TTLs, ts \in SUBSET Tags : SetTagged(u, k, ttl, ts)
          \/ GetTagged(u, k) \/ DeleteTagged(u, k)
    \/ \E u \in Users : LazyDelete(u)
    \/ \E u \in Users, t \in Tags : ClearTag(u, t)
    \/ CleanupTags
    \/ (Cleanup \/ CacheTick) /\ UNCHANGED <<tagVars, given>>

Spec == Init /\ [][Next]_vars

-----------------------------------------------------------------------------
(* ClearTags reaches every live entry that was given the tag, however its  *)
(* key was deleted, cleared by another tag or cleaned up before.           *)
TagsReachKeys ==
    \A k \in Keys : Live(k) => \A t \in given[k] : k \in tags[t]

(* ClearTags reaches no other: what is in the set of a tag has the tag.    *)
TagsReachNoOther == \A t \in Tags : \A k \in tags[t] : t \in keyTags[k]
=============================================================================
