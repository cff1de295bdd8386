----------------------------- MODULE LockProofs -----------------------------
(***************************************************************************)
(* What the distributed locks guarantee for any number of clients and      *)
(* servers and any settings, and what it takes for them to exclude.        *)
(***************************************************************************)
EXTENDS MCLock, FiniteSetTheorems, TLAPS

-----------------------------------------------------------------------------
(* RedLock counts the servers as Cardinality does. *)
LEMMA RedCount == \A S : Red!Cardinality(S) = Cardinality(S)
  BY DEF Red!Cardinality, Cardinality

(* The settings under which RedLock is a lease. *)
RedSettings ==
    /\ Servers \in Nat /\ RedTTL \in Nat /\ MaxSpent \in Nat /\ MaxSpent < RedTTL
    /\ Red!NoOne \notin RedClients

RedShaped ==
    /\ DOMAIN keys = 1..Servers
    /\ \A s \in 1..Servers : DOMAIN keys[s] = {"owner", "ttl"} /\ keys[s].ttl \in Nat
    /\ \A s \in 1..Servers : keys[s] # Red!Free => keys[s].ttl > 0
    /\ DOMAIN phase = RedClients /\ DOMAIN got = RedClients
    /\ server \in [RedClients -> Nat \ {0}] /\ spent \in [RedClients -> Nat]
    /\ \A c \in RedClients : got[c] \subseteq 1..Servers

(* The servers that a client counted hold its key for the rest of the time *)
(* its attempt and its critical section may take.                          *)
Covers(c) ==
    /\ phase[c] \in {"idle", "unlocking"} => got[c] = {}
    /\ Red!Timed(c) => /\ spent[c] <= MaxSpent
                   /\ \A s \in got[c] : keys[s].owner = c /\ keys[s].ttl + spent[c] >= RedTTL
    /\ Red!Critical(c) => Red!Majority(Cardinality(got[c]))
RedInv == RedShaped /\ \A c \in RedClients : Covers(c)

(* The inductive invariant: who counts servers that it believes locked has them locked. *)
LEMMA Covered == ASSUME RedSettings PROVE Red!Spec => []RedInv
<1> USE DEF RedSettings
<1>1. Red!Init => RedInv
  BY DEF Red!Init, RedInv, RedShaped, Covers, Red!Free, Red!Timed, Red!Critical
<1>2. RedInv /\ [Red!Next]_(Red!vars) => RedInv'
  <2> SUFFICES ASSUME RedInv, [Red!Next]_(Red!vars) PROVE RedInv'
    OBVIOUS
  <2> USE DEF RedInv, RedShaped
  (* What a client does without touching a key. *)
  <2>1. ASSUME NEW c \in RedClients, UNCHANGED keys, RedShaped', Covers(c)',
               \A d \in RedClients \ {c} : /\ phase'[d] = phase[d] /\ got'[d] = got[d]
                                        /\ spent'[d] = spent[d]
        PROVE  RedInv'
    BY <2>1 DEF Covers, Red!Timed, Red!Critical
  <2>2. ASSUME NEW c \in RedClients, Red!BeginLock(c) PROVE RedInv'
    BY <2>1, <2>2 DEF Red!BeginLock, Red!Enter, Covers, Red!Timed, Red!Critical
  <2>3. ASSUME NEW c \in RedClients, Red!Granted(c) PROVE RedInv'
    BY <2>1, <2>3, RedCount DEF Red!Granted, Red!Enter, Covers, Red!Timed, Red!Critical
  <2>4. ASSUME NEW c \in RedClients, Red!NotGranted(c) PROVE RedInv'
    BY <2>1, <2>4 DEF Red!NotGranted, Red!Enter, Covers, Red!Timed, Red!Critical
  <2>5. ASSUME NEW c \in RedClients, Red!Finish(c) PROVE RedInv'
    BY <2>1, <2>5 DEF Red!Finish, Red!Enter, Covers, Red!Timed, Red!Critical
  <2>6. ASSUME NEW c \in RedClients, Red!AttemptFailed(c) PROVE RedInv'
    BY <2>1, <2>6 DEF Red!AttemptFailed, Red!Enter, Covers, Red!Timed, Red!Critical
  <2>7. ASSUME NEW c \in RedClients, Red!Released(c) PROVE RedInv'
    BY <2>1, <2>7 DEF Red!Released, Red!Enter, Covers, Red!Timed, Red!Critical
  <2>8. ASSUME NEW c \in RedClients, Red!Crash(c) PROVE RedInv'
    BY <2>1, <2>8 DEF Red!Crash, Red!Enter, Covers, Red!Timed, Red!Critical
  (* A key is only set where there was none. *)
  <2>9. ASSUME NEW c \in RedClients, Red!SetOne(c) PROVE RedInv'
    <3> DEFINE s == server[c]
    <3>1. /\ s \in 1..Servers /\ phase[c] = "setting" /\ UNCHANGED <<phase, spent>>
          /\ server' = [server EXCEPT ![c] = s + 1]
      BY <2>9 DEF Red!SetOne, Red!NextServer
    <3>2. \/ UNCHANGED <<keys, got>>
          \/ /\ keys[s] = Red!Free /\ keys' = [keys EXCEPT ![s] = [owner |-> c, ttl |-> RedTTL]]
             /\ UNCHANGED got \/ got' = [got EXCEPT ![c] = @ \cup {s}]
      BY <2>9 DEF Red!SetOne, Red!IsFree, Red!SetKey
    <3>3. CASE UNCHANGED <<keys, got>>
      BY <2>1, <3>1, <3>3, SMTT(60) DEF Covers, Red!Timed, Red!Critical
    <3>4. CASE /\ keys[s] = Red!Free /\ keys' = [keys EXCEPT ![s] = [owner |-> c, ttl |-> RedTTL]]
               /\ UNCHANGED got \/ got' = [got EXCEPT ![c] = @ \cup {s}]
      <4>1. /\ RedShaped' /\ keys'[s].owner = c /\ keys'[s].ttl = RedTTL
            /\ \A t \in 1..Servers \ {s} : keys'[t] = keys[t]
        <5>1. /\ DOMAIN keys' = 1..Servers /\ keys'[s] = [owner |-> c, ttl |-> RedTTL]
              /\ \A t \in 1..Servers \ {s} : keys'[t] = keys[t]
          BY <3>1, <3>4
        <5>2. \A t \in 1..Servers : /\ DOMAIN keys'[t] = {"owner", "ttl"} /\ keys'[t].ttl \in Nat
                                    /\ keys'[t] # Red!Free => keys'[t].ttl > 0
          <6>1. DOMAIN keys'[s] = {"owner", "ttl"} /\ keys'[s].ttl = RedTTL /\ RedTTL > 0
            BY <5>1
          <6>2. QED
            BY <5>1, <6>1
        <5>3. DOMAIN got' = RedClients /\ \A d \in RedClients : got'[d] \subseteq 1..Servers
          <6>1. CASE UNCHANGED got
            BY <6>1
          <6>2. CASE got' = [got EXCEPT ![c] = @ \cup {s}]
            <7>1. DOMAIN got' = RedClients /\ got'[c] = got[c] \cup {s} /\ \A d \in RedClients \ {c} : got'[d] = got[d]
              BY <6>2
            <7>2. QED
              BY <3>1, <7>1
          <6>3. QED
            BY <3>4, <6>1, <6>2
        <5>4. DOMAIN phase' = RedClients /\ server' \in [RedClients -> Nat \ {0}] /\ spent' \in [RedClients -> Nat]
          BY <3>1
        <5>5. QED
          BY <5>1, <5>2, <5>3, <5>4
      <4>2. \A d \in RedClients : Red!Timed(d) => s \notin got[d]
        BY <3>4 DEF Red!Free, Covers
      <4>3. \A d \in RedClients \ {c} : Covers(d)'
        BY <3>1, <3>4, <4>1, <4>2 DEF Covers, Red!Timed, Red!Critical
      <4>4. Covers(c)'
        BY <3>1, <3>4, <4>1 DEF Covers, Red!Timed, Red!Critical
      <4>5. QED
        BY <4>1, <4>3, <4>4
    <3>5. QED
      BY <3>2, <3>3, <3>4
  (* A client deletes no key but its own, and only when it is not timed. *)
  <2>10. ASSUME NEW c \in RedClients, Red!ReleaseOne(c) PROVE RedInv'
    <3> DEFINE s == server[c]
    <3>1. /\ s \in 1..Servers /\ ~Red!Timed(c) /\ UNCHANGED <<phase, spent, got>>
          /\ server' = [server EXCEPT ![c] = s + 1]
      BY <2>10 DEF Red!ReleaseOne, Red!NextServer, Red!Timed
    <3>2. UNCHANGED keys \/ (keys[s].owner = c /\ keys' = [keys EXCEPT ![s] = Red!Free])
      BY <2>10 DEF Red!ReleaseOne
    <3>3. CASE UNCHANGED keys
      BY <2>1, <3>1, <3>3 DEF Covers, Red!Timed, Red!Critical
    <3>4. CASE keys[s].owner = c /\ keys' = [keys EXCEPT ![s] = Red!Free]
      <4>1. RedShaped' /\ \A t \in 1..Servers \ {s} : keys'[t] = keys[t]
        BY <3>1, <3>4 DEF Red!Free
      <4>2. \A d \in RedClients : Red!Timed(d) => s \notin got[d]
        BY <3>1, <3>4 DEF Covers
      <4>3. \A d \in RedClients : Covers(d)'
        BY <3>1, <3>4, <4>1, <4>2 DEF Covers, Red!Timed, Red!Critical
      <4>4. QED
        BY <4>1, <4>3
    <3>5. QED
      BY <3>2, <3>3, <3>4
  (* A key that is counted outlives the time of the client that counts it. *)
  <2>11. CASE Red!Tick
    <3>1. /\ UNCHANGED <<phase, server, got>> /\ DOMAIN keys' = 1..Servers
          /\ \A d \in RedClients : Red!Timed(d) => spent[d] < MaxSpent
          /\ spent' = [d \in RedClients |-> IF Red!Timed(d) THEN spent[d] + 1 ELSE spent[d]]
      BY <2>11 DEF Red!Tick
    <3>2. \A s \in 1..Servers : /\ DOMAIN keys'[s] = {"owner", "ttl"} /\ keys'[s].ttl \in Nat
                                /\ keys'[s] # Red!Free => keys'[s].ttl > 0
                                /\ keys[s].ttl > 1 => /\ keys'[s].owner = keys[s].owner
                                                      /\ keys'[s].ttl = keys[s].ttl - 1
      BY <2>11 DEF Red!Tick, Red!Aged, Red!Free
    <3>3. RedShaped'
      BY <3>1, <3>2
    <3>4. ASSUME NEW c \in RedClients PROVE Covers(c)'
      <4>1. CASE Red!Timed(c)
        <5>1. spent[c] < MaxSpent /\ spent'[c] = spent[c] + 1
          BY <3>1, <4>1
        <5>2. \A s \in got[c] : /\ keys[s].owner = c /\ keys[s].ttl \in Nat
                                /\ keys[s].ttl + spent[c] >= RedTTL /\ keys[s].ttl > 1
          BY <4>1, <5>1 DEF Covers
        <5>3. \A s \in got[c] : keys'[s].owner = c /\ keys'[s].ttl + spent'[c] >= RedTTL
          BY <3>2, <5>1, <5>2
        <5>4. QED
          BY <3>1, <4>1, <5>1, <5>3 DEF Covers, Red!Timed, Red!Critical
      <4>2. CASE ~Red!Timed(c)
        BY <3>1, <4>2 DEF Covers, Red!Timed, Red!Critical
      <4>3. QED
        BY <4>1, <4>2
    <3>5. QED
      BY <3>3, <3>4
  <2>12. CASE UNCHANGED Red!vars
    BY <2>12 DEF Red!vars, Red!loopVars, Covers, Red!Timed, Red!Critical
  <2>13. QED
    BY <2>2, <2>3, <2>4, <2>5, <2>6, <2>7, <2>8, <2>9, <2>10, <2>11, <2>12 DEF Red!Next, Red!LockStep
<1>3. QED
  BY <1>1, <1>2, PTL DEF Red!Spec

(* Two clients cannot both have a majority. *)
LEMMA OneLeader ==
    ASSUME Servers \in Nat, NEW c \in Red!Leader, NEW d \in Red!Leader PROVE c = d
<1>1. IsFiniteSet(1..Servers) /\ Cardinality(1..Servers) = Servers
  BY FS_Interval
<1>2. \A e \in RedClients : Red!Owned(e) \subseteq 1..Servers /\ Cardinality(Red!Owned(e)) \in Nat
  BY <1>1, FS_Subset, FS_CardinalityType DEF Red!Owned
<1>3. Cardinality(Red!Owned(c)) + Cardinality(Red!Owned(d)) > Servers
  BY <1>2, RedCount DEF Red!Leader, Red!Majority
<1>4. Red!Owned(c) \cap Red!Owned(d) # {}
  BY <1>1, <1>2, <1>3, FS_MajoritiesIntersect DEF Red!Leader
<1>5. QED
  BY <1>4 DEF Red!Owned

(* The abstract holder is the client that leads. *)
LEMMA HolderLeads ==
    ASSUME Servers \in Nat, Red!NoOne \notin RedClients
    PROVE  \A c \in RedClients : Red!Holder = c <=> c \in Red!Leader
  BY OneLeader DEF Red!Holder, Red!Leader

(* More keys make no smaller a majority. *)
LEMMA MoreIsMajority ==
    ASSUME Servers \in Nat, NEW S, NEW T, S \subseteq T, T \subseteq 1..Servers, Red!Majority(Cardinality(S))
    PROVE  Red!Majority(Cardinality(T))
<1>1. IsFiniteSet(T)
  <2>1. IsFiniteSet(1..Servers) /\ T \in SUBSET (1..Servers)
    BY FS_Interval
  <2>2. QED
    BY <2>1, FS_Subset
<1>2. Cardinality(S) <= Cardinality(T) /\ Cardinality(S) \in Nat /\ Cardinality(T) \in Nat
  BY <1>1, FS_Subset, FS_CardinalityType
<1>3. QED
  BY <1>2 DEF Red!Majority

(* redis_lock.go:273-310: the lock over a majority of the servers is a      *)
(* lease too, for any number of servers, if the time from the first command *)
(* of an attempt to the end of the critical section is less than the time   *)
(* to live; commands may fail and clients may crash at any point.           *)
THEOREM RedIsLease == ASSUME RedSettings PROVE Red!Spec => Red!ImplementsLease
<1> USE DEF RedSettings
<1> DEFINE Inside == {c \in RedClients : Red!Critical(c)}
<1>1. Red!Init => Red!Keys!Init
  <2> SUFFICES ASSUME Red!Init PROVE Red!Holder = Red!NoOne /\ Inside = {}
    BY DEF Red!Keys!Init
  <2>1. \A c \in RedClients : Red!Owned(c) = {} /\ ~Red!Critical(c)
    BY DEF Red!Init, Red!Owned, Red!Free, Red!Critical
  <2>2. \A c \in RedClients : c \notin Red!Leader
    BY <2>1, RedCount, FS_EmptySet DEF Red!Leader, Red!Majority
  <2>3. Red!Leader = {}
    BY <2>2 DEF Red!Leader
  <2>4. QED
    BY <2>1, <2>3 DEF Red!Holder
<1>2. RedInv => \A c \in RedClients : Red!Critical(c) => c \in Red!Leader
  <2> SUFFICES ASSUME RedInv, NEW c \in RedClients, Red!Critical(c) PROVE c \in Red!Leader
    OBVIOUS
  <2>1. Red!Majority(Cardinality(got[c])) /\ got[c] \subseteq Red!Owned(c) /\ Red!Owned(c) \subseteq 1..Servers
    BY DEF RedInv, RedShaped, Covers, Red!Timed, Red!Critical, Red!Owned
  <2>2. QED
    BY <2>1, RedCount, MoreIsMajority DEF Red!Leader
<1>3. RedInv' => (\A c \in RedClients : Red!Critical(c) => c \in Red!Leader)'
  BY <1>2, PTL
<1>4. RedInv /\ RedInv' /\ [Red!Next]_(Red!vars) => [Red!Keys!Next]_(Red!Keys!vars)
  <2> SUFFICES ASSUME RedInv, RedInv', [Red!Next]_(Red!vars)
               PROVE  Red!Keys!Next \/ (Red!Holder' = Red!Holder /\ Inside' = Inside)
    BY DEF Red!Keys!vars
  <2>1. /\ \A c \in RedClients : Red!Holder = c <=> c \in Red!Leader
        /\ \A c \in RedClients : Red!Holder' = c <=> c \in Red!Leader'
        /\ Red!Holder \in RedClients \cup {Red!NoOne} /\ Red!Holder' \in RedClients \cup {Red!NoOne}
    BY HolderLeads DEF Red!Holder, Red!Leader
  <2>2. /\ \A c \in RedClients : Red!Critical(c) => Red!Holder = c
        /\ \A c \in RedClients : Red!Critical(c)' => Red!Holder' = c
    BY <1>2, <1>3, <2>1
  (* The keys stay, and a client begins or ends its critical section. *)
  <2>3. ASSUME UNCHANGED keys PROVE Red!Holder' = Red!Holder
    BY <2>3 DEF Red!Holder, Red!Leader, Red!Owned
  <2>4. ASSUME NEW c \in RedClients, UNCHANGED keys, \A d \in RedClients \ {c} : phase'[d] = phase[d]
        PROVE  Red!Keys!Next \/ (Red!Holder' = Red!Holder /\ Inside' = Inside)
    <3>1. Red!Holder' = Red!Holder /\ \A d \in RedClients \ {c} : Red!Critical(d)' = Red!Critical(d)
      BY <2>3, <2>4 DEF Red!Critical
    <3>2. CASE Red!Critical(c)' = Red!Critical(c)
      BY <3>1, <3>2
    <3>3. CASE ~Red!Critical(c) /\ Red!Critical(c)'
      <4>1. Red!Holder = c /\ Inside' = Inside \cup {c}
        BY <2>2, <3>1, <3>3
      <4>2. QED
        BY <3>1, <4>1 DEF Red!Keys!Next, Red!Keys!Enter
    <3>4. CASE Red!Critical(c) /\ ~Red!Critical(c)'
      <4>1. Inside' = Inside \ {c}
        BY <3>1, <3>4
      <4>2. QED
        BY <3>1, <3>4, <4>1 DEF Red!Keys!Next, Red!Keys!Leave
    <3>5. QED
      BY <3>2, <3>3, <3>4 DEF Red!Critical
  (* Keys go. *)
  <2>5. ASSUME UNCHANGED phase, \A c \in RedClients : Red!Owned(c)' \subseteq Red!Owned(c)
        PROVE  Red!Keys!Next \/ (Red!Holder' = Red!Holder /\ Inside' = Inside)
    <3>1. Inside' = Inside
      BY <2>5 DEF Red!Critical
    <3>2. \A c \in RedClients : c \in Red!Leader' => c \in Red!Leader
      BY <2>5, RedCount, MoreIsMajority DEF Red!Leader, Red!Owned
    <3>3. CASE Red!Holder' = Red!Holder
      BY <3>1, <3>3
    <3>4. CASE Red!Holder' # Red!Holder
      <4>1. Red!Holder # Red!NoOne /\ Red!Holder' = Red!NoOne
        BY <2>1, <3>2, <3>4
      <4>2. Red!Holder \notin Inside
        BY <2>2, <3>1, <4>1
      <4>3. QED
        BY <3>1, <4>1, <4>2 DEF Red!Keys!Next, Red!Keys!Lapse
    <3>5. QED
      BY <3>3, <3>4
  (* A free key is set. *)
  <2>6. ASSUME NEW c \in RedClients, UNCHANGED phase, Red!Owned(c) \subseteq Red!Owned(c)',
               \A d \in RedClients \ {c} : Red!Owned(d)' = Red!Owned(d)
        PROVE  Red!Keys!Next \/ (Red!Holder' = Red!Holder /\ Inside' = Inside)
    <3>1. Inside' = Inside
      BY <2>6 DEF Red!Critical
    <3>2. Red!Owned(c)' \subseteq 1..Servers
      BY DEF Red!Owned
    <3>3. \A d \in RedClients : d \in Red!Leader => d \in Red!Leader'
      BY <2>6, <3>2, RedCount, MoreIsMajority DEF Red!Leader
    <3>4. \A d \in RedClients \ {c} : d \in Red!Leader' => d \in Red!Leader
      BY <2>6 DEF Red!Leader
    <3>5. CASE Red!Holder' = Red!Holder
      BY <3>1, <3>5
    <3>6. CASE Red!Holder' # Red!Holder
      <4>1. Red!Holder = Red!NoOne /\ Red!Holder' = c
        BY <2>1, <3>3, <3>4, <3>6
      <4>2. QED
        BY <3>1, <4>1 DEF Red!Keys!Next, Red!Keys!Grant
    <3>7. QED
      BY <3>5, <3>6
  <2> USE DEF RedInv, RedShaped
  <2>7. ASSUME NEW c \in RedClients,
               \/ Red!BeginLock(c) \/ Red!Granted(c) \/ Red!NotGranted(c) \/ Red!Finish(c)
               \/ Red!AttemptFailed(c) \/ Red!Released(c) \/ Red!Crash(c)
        PROVE  Red!Keys!Next \/ (Red!Holder' = Red!Holder /\ Inside' = Inside)
    <3>1. UNCHANGED keys /\ \A d \in RedClients \ {c} : phase'[d] = phase[d]
      BY <2>7 DEF Red!BeginLock, Red!Granted, Red!NotGranted, Red!Finish, Red!AttemptFailed, Red!Released, Red!Crash, Red!Enter
    <3>2. QED
      BY <2>4, <3>1
  <2>8. ASSUME NEW c \in RedClients, Red!SetOne(c)
        PROVE  Red!Keys!Next \/ (Red!Holder' = Red!Holder /\ Inside' = Inside)
    <3> DEFINE s == server[c]
    <3>1. s \in 1..Servers /\ UNCHANGED phase
      BY <2>8 DEF Red!SetOne, Red!NextServer
    <3>2. CASE UNCHANGED keys
      BY <2>4, <3>1, <3>2
    <3>3. CASE keys[s] = Red!Free /\ keys' = [keys EXCEPT ![s] = [owner |-> c, ttl |-> RedTTL]]
      <4>1. /\ keys[s].owner = Red!NoOne /\ keys'[s].owner = c
            /\ \A t \in 1..Servers \ {s} : keys'[t] = keys[t]
        BY <3>1, <3>3 DEF Red!Free
      <4>2. Red!Owned(c) \subseteq Red!Owned(c)' /\ \A d \in RedClients \ {c} : Red!Owned(d)' = Red!Owned(d)
        BY <3>1, <4>1, ZenonT(60) DEF Red!Owned
      <4>3. QED
        BY <2>6, <3>1, <4>2
    <3>4. QED
      BY <2>8, <3>2, <3>3 DEF Red!SetOne, Red!SetKey, Red!IsFree
  <2>9. ASSUME NEW c \in RedClients, Red!ReleaseOne(c)
        PROVE  Red!Keys!Next \/ (Red!Holder' = Red!Holder /\ Inside' = Inside)
    <3> DEFINE s == server[c]
    <3>1. s \in 1..Servers /\ UNCHANGED phase
      BY <2>9 DEF Red!ReleaseOne, Red!NextServer
    <3>2. CASE UNCHANGED keys
      BY <2>4, <3>1, <3>2
    <3>3. CASE keys' = [keys EXCEPT ![s] = Red!Free]
      <4>1. keys'[s].owner = Red!NoOne /\ \A t \in 1..Servers \ {s} : keys'[t] = keys[t]
        BY <3>1, <3>3 DEF Red!Free
      <4>2. \A d \in RedClients : Red!Owned(d)' \subseteq Red!Owned(d)
        BY <4>1 DEF Red!Owned
      <4>3. QED
        BY <2>5, <3>1, <4>2
    <3>4. QED
      BY <2>9, <3>2, <3>3 DEF Red!ReleaseOne
  <2>10. CASE Red!Tick
    <3>1. \A s \in 1..Servers : keys'[s].owner \in {keys[s].owner, Red!NoOne}
      BY <2>10 DEF Red!Tick, Red!Aged, Red!Free
    <3>2. UNCHANGED phase /\ \A d \in RedClients : Red!Owned(d)' \subseteq Red!Owned(d)
      BY <2>10, <3>1 DEF Red!Tick, Red!Owned
    <3>3. QED
      BY <2>5, <3>2
  <2>11. CASE UNCHANGED Red!vars
    BY <2>3, <2>11 DEF Red!vars, Red!loopVars, Red!Critical
  <2>12. QED
    BY <2>7, <2>8, <2>9, <2>10, <2>11 DEF Red!Next, Red!LockStep
<1>5. QED
  BY <1>1, <1>4, Covered, PTL DEF Red!Spec, Red!ImplementsLease, Red!Keys!Spec

(* redis_lock.go:296-310: however late a client unlocks, on no server does  *)
(* it delete the key of another.                                           *)
THEOREM RedForeignKeyKept == ASSUME RedSettings PROVE Red!Spec => Red!OnlyOwnKeyDeleted
<1> DEFINE Kept(s) ==
      keys[s] # Red!Free /\ keys'[s].owner # keys[s].owner
          => /\ keys'[s] = Red!Free
             /\ keys[s].ttl = 1 \/ phase[keys[s].owner] \in {"releasing", "unlocking"}
<1>1. RedInv /\ [Red!Next]_(Red!vars) => [\A s \in 1..Servers : Kept(s)]_(Red!vars)
  <2> SUFFICES ASSUME RedInv, Red!Next, NEW s \in 1..Servers PROVE Kept(s)
    OBVIOUS
  <2> USE DEF RedInv, RedShaped
  <2>1. ASSUME UNCHANGED keys PROVE Kept(s)
    BY <2>1
  <2>2. ASSUME NEW c \in RedClients,
               \/ Red!BeginLock(c) \/ Red!Granted(c) \/ Red!NotGranted(c) \/ Red!Finish(c)
               \/ Red!AttemptFailed(c) \/ Red!Released(c) \/ Red!Crash(c)
        PROVE  Kept(s)
    BY <2>1, <2>2 DEF Red!BeginLock, Red!Granted, Red!NotGranted, Red!Finish, Red!AttemptFailed, Red!Released, Red!Crash
  <2>3. ASSUME NEW c \in RedClients, Red!SetOne(c) PROVE Kept(s)
    <3>1. CASE UNCHANGED keys
      BY <2>1, <3>1
    <3>2. CASE keys[server[c]] = Red!Free /\ keys' = [keys EXCEPT ![server[c]] = [owner |-> c, ttl |-> RedTTL]]
      BY <3>2
    <3>3. QED
      BY <2>3, <3>1, <3>2 DEF Red!SetOne, Red!SetKey, Red!IsFree
  <2>4. ASSUME NEW c \in RedClients, Red!ReleaseOne(c) PROVE Kept(s)
    <3>1. CASE UNCHANGED keys
      BY <2>1, <3>1
    <3>2. CASE keys[server[c]].owner = c /\ keys' = [keys EXCEPT ![server[c]] = Red!Free]
      BY <2>4, <3>2 DEF Red!ReleaseOne
    <3>3. QED
      BY <2>4, <3>1, <3>2 DEF Red!ReleaseOne
  <2>5. CASE Red!Tick
    BY <2>5 DEF Red!Tick, Red!Aged, Red!Free
  <2>6. QED
    BY <2>2, <2>3, <2>4, <2>5 DEF Red!Next, Red!LockStep
<1>2. QED
  BY <1>1, Covered, PTL DEF Red!Spec, Red!OnlyOwnKeyDeleted

(* RedLock's variables keep their types: no attempt is made after the last, *)
(* no server beyond the last is asked, and no key outlives its time.       *)
RedAttemptsLeft == \A c \in RedClients : phase[c] \in {"setting", "releasing"} => left[c] > 0

(* The lock keeps its types, whatever the number of servers. *)
THEOREM RedTypes ==
    ASSUME Servers \in Nat, RedTTL \in Nat \ {0}, Retry \in Nat \ {0}, MaxSpent \in Nat
    PROVE  Red!Spec => []Red!TypeOK
<1> DEFINE RedTypesInv == Red!TypeOK /\ RedAttemptsLeft
<1>1. Red!Init => RedTypesInv
  BY DEF Red!Init, Red!TypeOK, RedAttemptsLeft, Red!Key
<1>2. RedTypesInv /\ [Red!Next]_(Red!vars) => RedTypesInv'
  <2> SUFFICES ASSUME RedTypesInv, [Red!Next]_(Red!vars) PROVE RedTypesInv'
    OBVIOUS
  <2>0. PICK K : K = Red!Key
    OBVIOUS
  <2>1. /\ keys \in [1..Servers -> K] /\ Red!Free \in K
        /\ \A c \in RedClients : [owner |-> c, ttl |-> RedTTL] \in K
        /\ \A key \in K : Red!Aged(key) \in K
    <3>1. Red!Free \in Red!Key /\ \A c \in RedClients : [owner |-> c, ttl |-> RedTTL] \in Red!Key
      BY DEF Red!Key
    <3>2. ASSUME NEW key \in Red!Key PROVE Red!Aged(key) \in Red!Key
      <4>1. CASE key = Red!Free
        BY <4>1 DEF Red!Aged, Red!Free, Red!Key
      <4>2. CASE key # Red!Free
        <5>1. key \in [owner : RedClients, ttl : 1..RedTTL]
          BY <4>2 DEF Red!Key
        <5>2. QED
          BY <5>1 DEF Red!Aged, Red!Key
      <4>3. QED
        BY <4>1, <4>2
    <3>3. QED
      BY <2>0, <3>1, <3>2 DEF Red!TypeOK
  <2> USE <2>0, <2>1 DEF Red!TypeOK, RedAttemptsLeft, Red!loopVars
  <2>2. ASSUME NEW c \in RedClients, Red!BeginLock(c) PROVE RedTypesInv'
    BY <2>2 DEF Red!BeginLock, Red!Enter
  <2>3. ASSUME NEW c \in RedClients, Red!Granted(c) PROVE RedTypesInv'
    BY <2>3 DEF Red!Granted, Red!Enter
  <2>4. ASSUME NEW c \in RedClients, Red!NotGranted(c) \/ Red!Released(c) PROVE RedTypesInv'
    <3>1. CASE Red!NotGranted(c)
      BY <3>1 DEF Red!NotGranted, Red!Enter
    <3>2. CASE Red!Released(c)
      BY <3>2 DEF Red!Released, Red!Enter
    <3>3. QED
      BY <2>4, <3>1, <3>2
  <2>5. ASSUME NEW c \in RedClients, Red!Finish(c) \/ Red!Crash(c) PROVE RedTypesInv'
    <3>1. CASE Red!Finish(c)
      BY <3>1 DEF Red!Finish, Red!Enter
    <3>2. CASE Red!Crash(c)
      BY <3>2 DEF Red!Crash, Red!Enter
    <3>3. QED
      BY <2>5, <3>1, <3>2
  <2>6. ASSUME NEW c \in RedClients, Red!AttemptFailed(c) PROVE RedTypesInv'
    <3>1. left[c] \in 1..Retry
      BY <2>6 DEF Red!AttemptFailed
    <3>2. QED
      BY <2>6, <3>1, SMTT(60) DEF Red!AttemptFailed, Red!Enter
  <2>7. ASSUME NEW c \in RedClients, Red!SetOne(c) PROVE RedTypesInv'
    <3>1. server[c] \in 1..Servers
      BY <2>7 DEF Red!SetOne, Red!NextServer
    <3>2. keys' \in [1..Servers -> K]
      BY <2>7, <3>1, ZenonT(60) DEF Red!SetOne, Red!SetKey
    <3>3. got' \in [RedClients -> SUBSET (1..Servers)]
      <4>1. CASE UNCHANGED got
        BY <4>1
      <4>2. CASE got' = [got EXCEPT ![c] = @ \cup {server[c]}]
        BY <3>1, <4>2
      <4>3. QED
        BY <2>7, <4>1, <4>2 DEF Red!SetOne
    <3>4. UNCHANGED <<phase, left, spent>> /\ server' \in [RedClients -> 1..Servers + 1]
      BY <2>7, <3>1 DEF Red!SetOne, Red!NextServer
    <3>5. QED
      BY <3>2, <3>3, <3>4
  <2>8. ASSUME NEW c \in RedClients, Red!ReleaseOne(c) PROVE RedTypesInv'
    <3>1. server[c] \in 1..Servers
      BY <2>8 DEF Red!ReleaseOne, Red!NextServer
    <3>2. keys' \in [1..Servers -> K] /\ UNCHANGED got
      BY <2>8, <3>1, ZenonT(60) DEF Red!ReleaseOne
    <3>3. UNCHANGED <<phase, left, spent>> /\ server' \in [RedClients -> 1..Servers + 1]
      BY <2>8, <3>1 DEF Red!ReleaseOne, Red!NextServer
    <3>4. QED
      BY <3>2, <3>3
  <2>9. CASE Red!Tick
    BY <2>9 DEF Red!Tick
  <2>10. CASE UNCHANGED Red!vars
    BY <2>10 DEF Red!vars
  <2>11. QED
    BY <2>2, <2>3, <2>4, <2>5, <2>6, <2>7, <2>8, <2>9, <2>10 DEF Red!Next, Red!LockStep
<1>3. QED
  BY <1>1, <1>2, PTL DEF Red!Spec

-----------------------------------------------------------------------------
(* RedisLock. *)

USE TTLAssumption, RetryAssumption, WatchAssumption, HoldAssumption, NoOneAssumption

(* Lock stops when its last attempt is refused: a client that is locking   *)
(* has an attempt left, so the count never goes below 0.                   *)
AttemptsLeft == \A c \in Clients : pc[c] = "locking" => tries[c] > 0

(* The types of the Redis lock are kept, and no caller tries more often than it may. *)
LEMMA TypesAndAttempts == Spec => [](TypeOK /\ AttemptsLeft)
<1> DEFINE Inv == TypeOK /\ AttemptsLeft
<1>1. Init => Inv
  BY DEF Init, TypeOK, AttemptsLeft
<1>2. Inv /\ [Next]_vars => Inv'
  <2> SUFFICES ASSUME Inv, [Next]_vars PROVE Inv'
    OBVIOUS
  <2> USE DEF TypeOK, AttemptsLeft, redisVars, clientVars, watchVars
  <2>1. ASSUME NEW c \in Clients, BeginLock(c) \/ BeginLockWithTimeout(c) \/ GiveUp(c)
        PROVE  Inv'
    BY <2>1 DEF BeginLock, BeginLockWithTimeout, GiveUp
  <2>2. ASSUME NEW c \in Clients, NEW w \in {"off", "on"}, Acquire(c, w)
        PROVE  Inv'
    BY <2>2 DEF Acquire, SetKey
  <2>3. ASSUME NEW c \in Clients, Refused(c) PROVE Inv'
    BY <2>3 DEF Refused, Attempt
  <2>4. ASSUME NEW c \in Clients, AcquireFails(c) PROVE Inv'
    BY <2>4 DEF AcquireFails, Attempt, SetKey
  <2>5. ASSUME NEW c \in Clients, Finish(c) \/ Unlock(c) \/ UnlockFails(c)
        PROVE  Inv'
    BY <2>5 DEF Finish, Unlock, UnlockFails
  <2>6. ASSUME NEW c \in Clients, WatchdogExtend(c) \/ WatchdogExtendFails(c)
        PROVE  Inv'
    BY <2>6 DEF WatchdogExtend, WatchdogExtendFails, ExtendKey
  <2>7. ASSUME NEW c \in Clients, LateExtend(c) \/ Crash(c) PROVE Inv'
    BY <2>7 DEF LateExtend, Crash, ExtendKey
  <2>8. CASE Tick
    BY <2>8 DEF Tick, Critical
  <2>9. CASE UNCHANGED vars
    BY <2>9 DEF vars
  <2>10. QED
    BY <2>1, <2>2, <2>3, <2>4, <2>5, <2>6, <2>7, <2>8, <2>9 DEF Next, TryLock
<1>3. QED
  BY <1>1, <1>2, PTL DEF Spec

(* The lock's variables keep their types. *)
THEOREM TypeCorrect == Spec => []TypeOK
  BY TypesAndAttempts, PTL

(* redis_lock.go:101: whoever unlocks or extends, however late, the key of *)
(* another client stays.                                                   *)
THEOREM ForeignKeyKept == Spec => OnlyOwnKeyDeleted
<1>1. TypeOK /\ [Next]_vars
        => [owner # NoOne /\ owner' # owner
              => owner' = NoOne /\ (ttl = 1 \/ pc[owner] = "unlocking")]_vars
  <2> SUFFICES ASSUME TypeOK, Next, owner # NoOne, owner' # owner
               PROVE  owner' = NoOne /\ (ttl = 1 \/ pc[owner] = "unlocking")
    OBVIOUS
  <2> USE DEF redisVars, clientVars, watchVars
  <2>1. ASSUME NEW c \in Clients,
               BeginLock(c) \/ BeginLockWithTimeout(c) \/ GiveUp(c) \/ TryLock(c)
        PROVE  FALSE
    BY <2>1 DEF BeginLock, BeginLockWithTimeout, GiveUp, TryLock, Acquire,
                Refused, AcquireFails
  <2>2. ASSUME NEW c \in Clients,
               \/ WatchdogExtend(c) \/ WatchdogExtendFails(c) \/ LateExtend(c)
               \/ Crash(c) \/ Finish(c) \/ UnlockFails(c)
        PROVE  FALSE
    BY <2>2 DEF WatchdogExtend, WatchdogExtendFails, LateExtend, ExtendKey,
                Crash, Finish, UnlockFails
  <2>3. ASSUME NEW c \in Clients, Unlock(c)
        PROVE  owner' = NoOne /\ pc[owner] = "unlocking"
    BY <2>3 DEF Unlock
  <2>4. CASE Tick
    BY <2>4 DEF Tick
  <2>5. QED
    BY <2>1, <2>2, <2>3, <2>4 DEF Next
<1>2. QED
  BY <1>1, TypeCorrect, PTL DEF Spec, OnlyOwnKeyDeleted

(* What is left on the key of a client in its critical section, by the     *)
(* clock of whoever guards it: the closure's own time, or the time since   *)
(* its watchdog last extended the key.                                     *)
LeaseCovers ==
    \A c \in Clients : Guarded(c) =>
        /\ owner = c
        /\ watch[c] = "off" => ttl + held[c] >= TTL
        /\ watch[c] = "on" => ttl + WatchInterval >= TTL + timer[c]

(* The lock excludes if a closure without a watchdog takes less than the   *)
(* time to live and the watchdog's interval is shorter than it, up to the  *)
(* clients whose watchdog has given up; whatever commands fail.            *)
THEOREM Excludes ==
    ASSUME MaxHold < TTL, WatchInterval < TTL
    PROVE  Spec => [](HolderHasKey /\ MutualExclusion)
<1> DEFINE Inv == LeaseCovers /\ TypeOK
<1>1. Init => LeaseCovers
  BY DEF Init, LeaseCovers, Guarded, Critical
<1>2. LeaseCovers /\ TypeOK /\ TypeOK' /\ [Next]_vars => LeaseCovers'
  <2> SUFFICES ASSUME LeaseCovers, TypeOK, TypeOK', [Next]_vars
               PROVE  LeaseCovers'
    OBVIOUS
  <2> USE DEF TypeOK, LeaseCovers, Guarded, Critical, redisVars, clientVars, watchVars
  <2>1. ASSUME NEW c \in Clients, BeginLock(c) \/ BeginLockWithTimeout(c) \/ GiveUp(c)
        PROVE  LeaseCovers'
    BY <2>1 DEF BeginLock, BeginLockWithTimeout, GiveUp
  <2>2. ASSUME NEW c \in Clients, NEW w \in {"off", "on"}, Acquire(c, w)
        PROVE  LeaseCovers'
    BY <2>2 DEF Acquire, SetKey
  <2>3. ASSUME NEW c \in Clients, Refused(c) PROVE LeaseCovers'
    BY <2>3 DEF Refused, Attempt
  <2>4. ASSUME NEW c \in Clients, AcquireFails(c) PROVE LeaseCovers'
    BY <2>4 DEF AcquireFails, Attempt, SetKey
  <2>5. ASSUME NEW c \in Clients, Finish(c) \/ Unlock(c) \/ UnlockFails(c)
        PROVE  LeaseCovers'
    BY <2>5 DEF Finish, Unlock, UnlockFails
  <2>6. ASSUME NEW c \in Clients, WatchdogExtend(c) \/ WatchdogExtendFails(c)
        PROVE  LeaseCovers'
    BY <2>6 DEF WatchdogExtend, WatchdogExtendFails, ExtendKey
  <2>7. ASSUME NEW c \in Clients, LateExtend(c) \/ Crash(c) PROVE LeaseCovers'
    BY <2>7 DEF LateExtend, Crash, ExtendKey
  <2>8. CASE Tick
    BY <2>8 DEF Tick
  <2>9. CASE UNCHANGED vars
    BY <2>9 DEF vars
  <2>10. QED
    BY <2>1, <2>2, <2>3, <2>4, <2>5, <2>6, <2>7, <2>8, <2>9 DEF Next, TryLock
<1>3. LeaseCovers /\ TypeOK => HolderHasKey /\ MutualExclusion
  <2> SUFFICES ASSUME LeaseCovers, TypeOK
               PROVE  HolderHasKey /\ MutualExclusion
    OBVIOUS
  <2>1. ASSUME NEW c \in Clients, Guarded(c) PROVE owner = c /\ ttl > 0
    <3>1. CASE watch[c] = "off"
      BY <2>1, <3>1 DEF LeaseCovers, Guarded, TypeOK
    <3>2. CASE watch[c] = "on"
      BY <2>1, <3>2 DEF LeaseCovers, Guarded, TypeOK
    <3>3. QED
      BY <2>1, <3>1, <3>2 DEF Guarded, TypeOK
  <2>2. QED
    BY <2>1 DEF HolderHasKey, MutualExclusion
<1>4. QED
  BY <1>1, <1>2, <1>3, TypeCorrect, PTL DEF Spec

(* redis_lock.go:67-113, 146-237: under the same conditions the lock is a  *)
(* lease.  A client gets it when nobody has it, works only while it has    *)
(* it, and does not lose it while it works.                                *)
THEOREM IsLease ==
    ASSUME MaxHold < TTL, WatchInterval < TTL
    PROVE  Spec => ImplementsLease
<1> DEFINE Inside == {c \in Clients : Guarded(c)}
<1>1. Init => Key!Init
  BY DEF Init, Key!Init, Guarded, Critical
<1>2. TypeOK /\ HolderHasKey /\ HolderHasKey' /\ [Next]_vars => [Key!Next]_(Key!vars)
  <2> SUFFICES ASSUME TypeOK, HolderHasKey, HolderHasKey', [Next]_vars
               PROVE  Key!Next \/ (owner' = owner /\ Inside' = Inside)
    BY DEF Key!vars
  <2> USE DEF TypeOK, redisVars, clientVars, watchVars
  (* Who sets the key found that there was none. *)
  <2>1. ASSUME NEW c \in Clients, owner = NoOne, owner' = c,
               \A d \in Clients \ {c} : Guarded(d)' = Guarded(d)
        PROVE  Key!Next
    <3>1. ~Guarded(c)
      BY <2>1 DEF HolderHasKey
    <3>2. Inside' \in {Inside, Inside \cup {c}}
      <4>1. CASE Guarded(c)'
        BY <2>1, <3>1, <4>1
      <4>2. CASE ~Guarded(c)'
        BY <2>1, <3>1, <4>2
      <4>3. QED
        BY <4>1, <4>2
    <3>3. QED
      BY <2>1, <3>2 DEF Key!Next, Key!Grant
  (* Who stops working keeps the key for now. *)
  <2>2. ASSUME NEW c \in Clients, owner' = owner, ~Guarded(c)',
               \A d \in Clients \ {c} : Guarded(d)' = Guarded(d)
        PROVE  Key!Next \/ (owner' = owner /\ Inside' = Inside)
    <3>1. CASE Guarded(c)
      <4>1. Inside' = Inside \ {c}
        BY <2>2
      <4>2. QED
        BY <2>2, <3>1, <4>1 DEF Key!Next, Key!Leave
    <3>2. CASE ~Guarded(c)
      BY <2>2, <3>2
    <3>3. QED
      BY <3>1, <3>2
  (* The key that goes is that of a client that does not work. *)
  <2>3. ASSUME owner # NoOne, owner' = NoOne, \A d \in Clients : Guarded(d)' = Guarded(d)
        PROVE  Key!Next
    <3>1. \A d \in Clients : ~Guarded(d)
      BY <2>3 DEF HolderHasKey
    <3>2. QED
      BY <2>3, <3>1 DEF Key!Next, Key!Lapse
  <2> USE DEF Guarded, Critical
  <2>4. ASSUME NEW c \in Clients, BeginLock(c) \/ BeginLockWithTimeout(c) \/ GiveUp(c)
        PROVE  owner' = owner /\ Inside' = Inside
    BY <2>4 DEF BeginLock, BeginLockWithTimeout, GiveUp
  <2>5. ASSUME NEW c \in Clients, NEW w \in {"off", "on"}, Acquire(c, w)
        PROVE  Key!Next
    BY <2>1, <2>5 DEF Acquire, SetKey
  <2>6. ASSUME NEW c \in Clients, Refused(c)
        PROVE  owner' = owner /\ Inside' = Inside
    BY <2>6 DEF Refused, Attempt
  <2>7. ASSUME NEW c \in Clients, AcquireFails(c)
        PROVE  Key!Next \/ (owner' = owner /\ Inside' = Inside)
    <3>1. \A d \in Clients : Guarded(d)' = Guarded(d)
      BY <2>7 DEF AcquireFails, Attempt
    <3>2. QED
      BY <2>1, <2>7, <3>1 DEF AcquireFails, SetKey
  <2>8. ASSUME NEW c \in Clients, Finish(c) \/ WatchdogExtendFails(c) \/ Crash(c)
        PROVE  Key!Next \/ (owner' = owner /\ Inside' = Inside)
    BY <2>2, <2>8 DEF Finish, WatchdogExtendFails, Crash
  <2>9. ASSUME NEW c \in Clients, Unlock(c) \/ UnlockFails(c)
        PROVE  Key!Next \/ (owner' = owner /\ Inside' = Inside)
    <3>1. \A d \in Clients : Guarded(d)' = Guarded(d)
      BY <2>9 DEF Unlock, UnlockFails
    <3>2. QED
      BY <2>3, <2>9, <3>1 DEF Unlock, UnlockFails
  <2>10. ASSUME NEW c \in Clients, WatchdogExtend(c) \/ LateExtend(c)
        PROVE  owner' = owner /\ Inside' = Inside
    BY <2>10 DEF WatchdogExtend, LateExtend, ExtendKey
  <2>11. CASE Tick
    <3>1. \A d \in Clients : Guarded(d)' = Guarded(d)
      BY <2>11 DEF Tick
    <3>2. QED
      BY <2>3, <2>11, <3>1 DEF Tick
  <2>12. CASE UNCHANGED vars
    BY <2>12 DEF vars
  <2>13. QED
    BY <2>4, <2>5, <2>6, <2>7, <2>8, <2>9, <2>10, <2>11, <2>12 DEF Next, TryLock
<1>3. QED
  BY <1>1, <1>2, TypeCorrect, Excludes, PTL DEF Spec, ImplementsLease, Key!Spec

-----------------------------------------------------------------------------
(* What a lease is worth: nobody works without it, and so no two at once. *)
THEOREM LeaseExcludes == Key!Spec => []Key!OneInside
<1> DEFINE Inside == {c \in Clients : Guarded(c)}
<1>1. Key!Init => Key!OneInside
  BY DEF Key!Init, Key!OneInside
<1>2. Key!OneInside /\ [Key!Next]_(Key!vars) => Key!OneInside'
  <2> SUFFICES ASSUME Inside \subseteq {owner} \ {NoOne}, [Key!Next]_(Key!vars)
               PROVE  Inside' \subseteq {owner'} \ {NoOne}
    BY DEF Key!OneInside
  <2> HIDE DEF Inside
  <2>1. ASSUME NEW c \in Clients, Key!Grant(c) \/ Key!Enter(c) \/ Key!Leave(c)
        PROVE  Inside' \subseteq {owner'} \ {NoOne}
    BY <2>1, NoOneAssumption DEF Inside, Key!Grant, Key!Enter, Key!Leave
  <2>2. CASE Key!Lapse
    BY <2>2 DEF Inside, Key!Lapse
  <2>3. CASE UNCHANGED Key!vars
    BY <2>3 DEF Inside, Key!vars
  <2>4. QED
    BY <2>1, <2>2, <2>3 DEF Key!Next
<1>3. QED
  BY <1>1, <1>2, PTL DEF Key!Spec

-----------------------------------------------------------------------------
(* Both locks as they are run together: a behaviour of the run is one of   *)
(* each of them.                                                           *)
LEMMA EachLock == MCSpec => Spec /\ Red!Spec
<1>1. MCInit => Init /\ Red!Init
  BY DEF MCInit
<1>2. [MCNext]_mcVars => [Next]_vars /\ [Red!Next]_(Red!vars)
  BY DEF MCNext, OnRedisLock, OnRedLock, mcVars, redVars, Red!vars, Red!loopVars
<1>3. QED
  BY <1>1, <1>2, PTL DEF MCSpec, Spec, Red!Spec

(* Both locks keep their types.                                             *)
THEOREM LocksTypesOK ==
    ASSUME Servers \in Nat, RedTTL \in Nat \ {0}, MaxSpent \in Nat
    PROVE  MCSpec => []TypesOK
<1>1. Spec => []TypeOK
  BY TypeCorrect
<1>2. Red!Spec => []Red!TypeOK
  BY RedTypes
<1>3. QED
  BY <1>1, <1>2, EachLock, PTL DEF TypesOK

(* redis_lock.go:273-310: RedLock is a lease and no late Unlock deletes the *)
(* key of another client, whatever commands and replies are lost, if an    *)
(* attempt with its critical section takes less than the time to live.     *)
THEOREM RedLockIsSafe == ASSUME RedSettings PROVE MCSpec => RedLockSafe
<1>1. Red!Spec => Red!ImplementsLease
  BY RedIsLease
<1>2. Red!Spec => Red!OnlyOwnKeyDeleted
  BY RedForeignKeyKept
<1>3. QED
  BY <1>1, <1>2, EachLock, PTL DEF RedLockSafe
=============================================================================
