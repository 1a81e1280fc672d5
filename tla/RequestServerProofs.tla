------------------------ MODULE RequestServerProofs ------------------------
(***************************************************************************)
(* Proofs about RequestServer, for any connections, requests and limits:   *)
(* no retry runs twice while its result must be remembered, the answers    *)
(* are those of the request they are given to, and what was accepted is    *)
(* not aborted but for a reason.                                           *)
(*                                                                         *)
(* The argument is about the cache: what a result that was used is         *)
(* recorded with, and which results were used after it, agrees with what   *)
(* `memory` says, so the cache drops by age and by place only what need    *)
(* not be remembered.  The last theorem is about connections: a renderer's *)
(* connection has no requests that its end could abort.                    *)
(***************************************************************************)
EXTENDS RequestServer, FiniteSetTheorems, TLAPS

-----------------------------------------------------------------------------
(* The order of use, and the cache.                                        *)

\* O orders S.
Orders(S, O) ==
  /\ O \subseteq S \X S
  /\ \A i, j \in S : <<i, j>> \in O <=> i # j /\ <<j, i>> \notin O
  /\ \A h, i, j \in S : <<h, i>> \in O /\ <<i, j>> \in O => <<h, j>> \in O

Result == [id : Ids, payload : Payloads]

Entry == [payload : Payloads, at : Nat, result : Result]

CacheOk(k) ==
  /\ DOMAIN k.entries \subseteq Ids
  /\ IsFiniteSet(DOMAIN k.entries)
  /\ k.entries \in [DOMAIN k.entries -> Entry]
  /\ Orders(DOMAIN k.entries, k.order)
  /\ \A i \in DOMAIN k.entries :
       k.entries[i].result = [id |-> i, payload |-> k.entries[i].payload]

Fits(k) == Cardinality(DOMAIN k.entries) <= CacheCapacity

MemoryOk(m) ==
  /\ DOMAIN m \subseteq Ids
  /\ m \in [DOMAIN m -> [at : Nat, others : SUBSET Ids]]
  /\ \A i \in DOMAIN m : IsFiniteSet(m[i].others)

\* What Remembers makes of the memory.
Recalled(m, i, at) ==
  With([j \in DOMAIN m |-> [m[j] EXCEPT !.others = @ \cup {i}]],
       i, [at |-> at, others |-> {}])

\* MustRemember of some memory at some time.
Must(m, i, now) ==
  /\ i \in DOMAIN m
  /\ now - m[i].at < CacheTtl
  /\ Cardinality(m[i].others) < CacheCapacity

\* The memory knows when an entry was used and what was used since.
Known(k, m) ==
  \A i \in DOMAIN k.entries :
    /\ i \in DOMAIN m
    /\ k.entries[i].at = m[i].at
    /\ \A j \in DOMAIN k.entries : <<i, j>> \in k.order => j \in m[i].others

\* The cache has what must be remembered.
Holds(k, m, now) == \A i : Must(m, i, now) => i \in DOMAIN k.entries

\* A finite order has a first member.
LEMMA FirstOfOrder ==
  ASSUME NEW S, IsFiniteSet(S), S # {}, NEW O, Orders(S, O)
  PROVE  \E i \in S : \A j \in S : <<j, i>> \notin O
<1> DEFINE before(i) == {j \in S : <<j, i>> \in O}
<1> DEFINE n == Cardinality(S)
<1> DEFINE f == [i \in S |-> Cardinality(before(i))]
<1> DEFINE T == 0 .. n - 1
<1>1. n \in Nat /\ n # 0
  BY FS_CardinalityType, FS_EmptySet
<1>2. IsFiniteSet(T) /\ Cardinality(T) = n
  <2>1. 0 \in Int /\ n - 1 \in Int
    BY <1>1
  <2>2. IsFiniteSet(T) /\ Cardinality(T) = IF 0 > n - 1 THEN 0 ELSE n - 1 - 0 + 1
    BY <2>1, FS_Interval
  <2> QED BY <2>2, <1>1
<1>3. ASSUME NEW i \in S
      PROVE  /\ IsFiniteSet(before(i))
             /\ f[i] \in T
  <2>1. before(i) \in SUBSET S /\ i \notin before(i)
    BY DEF Orders
  <2>2. IsFiniteSet(before(i)) /\ Cardinality(before(i)) <= n
        /\ (n = Cardinality(before(i)) => S = before(i))
    BY <2>1, FS_Subset
  <2>3. Cardinality(before(i)) \in Nat
    BY <2>2, FS_CardinalityType
  <2> HIDE DEF before
  <2> QED BY <1>1, <2>1, <2>2, <2>3
<1>4. ASSUME NEW i \in S, NEW j \in S, <<i, j>> \in O
      PROVE  f[i] # f[j]
  <2>1. before(i) \in SUBSET before(j) /\ i \in before(j) /\ i \notin before(i)
    BY <1>4 DEF Orders
  <2>2. Cardinality(before(i)) # Cardinality(before(j))
    <3> HIDE DEF before
    <3> QED BY <2>1, <1>3, FS_Subset
  <2> HIDE DEF before
  <2> QED BY <2>2
<1>5. f \in Injection(S, T)
  <2>1. f \in [S -> T]
    <3> HIDE DEF T, before
    <3> QED BY <1>3
  <2>2. ASSUME NEW i \in S, NEW j \in S, f[i] = f[j]
        PROVE  i = j
    <3> HIDE DEF f
    <3> QED BY <2>2, <1>4 DEF Orders
  <2> HIDE DEF f, T
  <2> QED BY <2>1, <2>2 DEF Injection, IsInjective
<1>6. f \in Surjection(S, T)
  <2> HIDE DEF f, T
  <2> QED BY <1>2, <1>5, FS_Injection
<1>7. PICK i \in S : f[i] = 0
  <2>1. 0 \in T
    BY <1>1
  <2> HIDE DEF f, T
  <2> QED BY <1>6, <2>1 DEF Surjection
<1>8. before(i) = {}
  <2>1. Cardinality(before(i)) = 0
    <3> HIDE DEF before
    <3> QED BY <1>7
  <2> HIDE DEF before
  <2> QED BY <2>1, <1>3, FS_EmptySet
<1> QED BY <1>8

\* Who is first after all others stays in the order.
LEMMA TouchedOrders ==
  ASSUME NEW k, NEW i, Orders(DOMAIN k.entries, k.order)
  PROVE  /\ Orders(DOMAIN k.entries \cup {i}, Touched(k, i))
         /\ \A g, h : <<g, h>> \in Touched(k, i) <=>
              \/ <<g, h>> \in k.order /\ g # i /\ h # i
              \/ g \in DOMAIN k.entries \ {i} /\ h = i
<1>1. \A g, h : <<g, h>> \in Touched(k, i) <=>
        \/ <<g, h>> \in k.order /\ g # i /\ h # i
        \/ g \in DOMAIN k.entries \ {i} /\ h = i
  BY DEF Touched
<1>2. Touched(k, i) \subseteq (DOMAIN k.entries \cup {i}) \X (DOMAIN k.entries \cup {i})
  BY DEF Touched, Orders
<1> QED BY <1>1, <1>2 DEF Orders

\* What is kept is still in order, and known.
LEMMA KeptOk ==
  ASSUME NEW k, CacheOk(k), NEW ids \in SUBSET DOMAIN k.entries
  PROVE  /\ CacheOk(Kept(k, ids))
         /\ DOMAIN Kept(k, ids).entries = ids
         /\ \A i \in ids : Kept(k, ids).entries[i] = k.entries[i]
         /\ \A g, h : <<g, h>> \in Kept(k, ids).order <=>
              <<g, h>> \in k.order /\ g \in ids /\ h \in ids
         /\ Fits(k) => Fits(Kept(k, ids))
         /\ \A m : Known(k, m) => Known(Kept(k, ids), m)
<1> DEFINE r == Kept(k, ids)
<1>1. r.entries = [i \in ids |-> k.entries[i]] /\ r.order = k.order \cap (ids \X ids)
  BY DEF Kept, Restrict
<1>2. \A g, h : <<g, h>> \in r.order <=> <<g, h>> \in k.order /\ g \in ids /\ h \in ids
  BY <1>1
<1>3. IsFiniteSet(ids) /\ Cardinality(ids) <= Cardinality(DOMAIN k.entries)
  BY FS_Subset DEF CacheOk
<1>4. Cardinality(ids) \in Nat /\ Cardinality(DOMAIN k.entries) \in Nat
  BY <1>3, FS_CardinalityType DEF CacheOk
<1> HIDE DEF r
<1>5. Orders(ids, r.order)
  BY <1>1, <1>2 DEF CacheOk, Orders
<1>6. CacheOk(r)
  BY <1>1, <1>3, <1>5 DEF CacheOk
<1>7. Fits(k) => Fits(r)
  BY <1>1, <1>3, <1>4, ServerConstants DEF Fits
<1>8. \A m : Known(k, m) => Known(r, m)
  BY <1>1, <1>2 DEF Known
<1> QED BY <1>1, <1>2, <1>6, <1>7, <1>8 DEF r

\* What expires is old: the young is kept, also when its place is behind.
LEMMA ExpiredOk ==
  ASSUME NEW k, CacheOk(k), NEW now \in Nat
  PROVE  /\ CacheOk(Expired(k, now))
         /\ Fits(k) => Fits(Expired(k, now))
         /\ \A i \in DOMAIN Expired(k, now).entries :
              i \in DOMAIN k.entries /\ Expired(k, now).entries[i] = k.entries[i]
         /\ \A m : Known(k, m) => Known(Expired(k, now), m)
         /\ \A m, late : (late \in Nat /\ now <= late /\ MemoryOk(m) /\ Known(k, m)
                            /\ Holds(k, m, late))
              => Holds(Expired(k, now), m, late)
<1> DEFINE ids == DOMAIN k.entries \ Outdated(k, now)
<1>1. ids \in SUBSET DOMAIN k.entries
  OBVIOUS
<1>2. Expired(k, now) = Kept(k, ids)
  BY DEF Expired
<1>3. ASSUME NEW m, NEW late \in Nat, now <= late, MemoryOk(m), Known(k, m),
             Holds(k, m, late), NEW i, Must(m, i, late)
      PROVE  i \in ids
  <2>1. i \in DOMAIN k.entries /\ k.entries[i].at = m[i].at
    BY <1>3 DEF Holds, Known
  <2>2. m[i].at \in Nat /\ late - m[i].at < CacheTtl
    BY <1>3 DEF Must, MemoryOk
  <2>3. ~(now - k.entries[i].at >= CacheTtl)
    BY <2>1, <2>2, <1>3, ServerConstants
  <2> QED BY <2>1, <2>3 DEF Outdated
<1> HIDE DEF ids
<1> QED BY <1>1, <1>2, <1>3, KeptOk DEF Holds

-----------------------------------------------------------------------------
(* The memory.                                                             *)

\* The result of ID i is used: of the others, only how many came since changes.
LEMMA RecalledOk ==
  ASSUME NEW m, MemoryOk(m), NEW i \in Ids, NEW at \in Nat
  PROVE  /\ MemoryOk(Recalled(m, i, at))
         /\ DOMAIN Recalled(m, i, at) = DOMAIN m \cup {i}
         /\ Recalled(m, i, at)[i].at = at /\ Recalled(m, i, at)[i].others = {}
         /\ \A j \in DOMAIN m \ {i} :
              /\ Recalled(m, i, at)[j].at = m[j].at
              /\ Recalled(m, i, at)[j].others = m[j].others \cup {i}
         /\ \A j, now : j # i /\ Must(Recalled(m, i, at), j, now) => Must(m, j, now)
<1> DEFINE r == Recalled(m, i, at)
<1>1. DOMAIN r = DOMAIN m \cup {i}
  BY DEF Recalled, With
<1>2. r[i] = [at |-> at, others |-> {}]
  BY DEF Recalled, With
<1>3. ASSUME NEW j \in DOMAIN m \ {i}
      PROVE  r[j] = [at |-> m[j].at, others |-> m[j].others \cup {i}]
  <2>1. r[j] = [h \in DOMAIN m |-> [m[h] EXCEPT !.others = @ \cup {i}]][j]
    BY DEF Recalled, With
  <2>2. m[j] \in [at : Nat, others : SUBSET Ids]
    BY DEF MemoryOk
  <2> HIDE DEF r
  <2> QED BY <2>1, <2>2
<1>4. r = [j \in DOMAIN r |-> r[j]]
  BY DEF Recalled, With
<1> HIDE DEF r
<1>5. IsFiniteSet(r[i].others)
  BY <1>2, FS_EmptySet
<1>6. ASSUME NEW j \in DOMAIN m \ {i}
      PROVE  /\ IsFiniteSet(r[j].others) /\ r[j].others \in SUBSET Ids
             /\ r[j].at = m[j].at /\ r[j].at \in Nat
             /\ Cardinality(m[j].others) \in Nat /\ Cardinality(r[j].others) \in Nat
             /\ Cardinality(m[j].others) <= Cardinality(r[j].others)
  <2>1. IsFiniteSet(m[j].others) /\ m[j].others \in SUBSET Ids /\ m[j].at \in Nat
    BY DEF MemoryOk
  <2>0. r[j] = [at |-> m[j].at, others |-> m[j].others \cup {i}]
    BY <1>3
  <2>2. r[j].others = m[j].others \cup {i} /\ r[j].at = m[j].at
    BY <2>0
  <2>3. IsFiniteSet(m[j].others \cup {i})
    BY <2>1, FS_AddElement
  <2>4. Cardinality(m[j].others) <= Cardinality(m[j].others \cup {i})
    BY <2>3, FS_Subset
  <2> QED BY <2>1, <2>2, <2>3, <2>4, FS_CardinalityType
<1>7. MemoryOk(r)
  <2>1. r \in [DOMAIN r -> [at : Nat, others : SUBSET Ids]]
    BY <1>1, <1>2, <1>3, <1>4, <1>6
  <2> QED BY <2>1, <1>1, <1>5, <1>6 DEF MemoryOk
<1>8. ASSUME NEW j, NEW now, j # i, Must(r, j, now)
      PROVE  Must(m, j, now)
  <2>1. j \in DOMAIN m \ {i}
    BY <1>1, <1>8 DEF Must
  <2> QED BY <2>1, <1>6, <1>8, ServerConstants DEF Must
<1>9. ASSUME NEW j \in DOMAIN m \ {i}
      PROVE  r[j].at = m[j].at /\ r[j].others = m[j].others \cup {i}
  <2>1. r[j] = [at |-> m[j].at, others |-> m[j].others \cup {i}]
    BY <1>3
  <2> QED BY <2>1
<1>10. r[i].at = at /\ r[i].others = {}
  BY <1>2
<1> QED BY <1>1, <1>7, <1>8, <1>9, <1>10 DEF r

\* The entry of ID i is as good as new after a replay.
LEMMA ReplayedOk ==
  ASSUME NEW k, CacheOk(k), NEW i \in DOMAIN k.entries, NEW now \in Nat
  PROVE  /\ CacheOk(Replayed(k, i, now))
         /\ Fits(k) => Fits(Replayed(k, i, now))
         /\ \A m : MemoryOk(m) /\ Known(k, m)
              => Known(Replayed(k, i, now), Recalled(m, i, now))
         /\ \A m, late : MemoryOk(m) /\ Holds(k, m, late)
              => Holds(Replayed(k, i, now), Recalled(m, i, now), late)
<1> DEFINE r == Replayed(k, i, now)
<1>1. r.entries = [k.entries EXCEPT ![i].at = now] /\ r.order = Touched(k, i)
  BY DEF Replayed
<1> HIDE DEF r
<1>2. DOMAIN r.entries = DOMAIN k.entries /\ DOMAIN k.entries \cup {i} = DOMAIN k.entries
      /\ i \in Ids
  BY <1>1 DEF CacheOk
<1>3. k.entries \in [DOMAIN k.entries -> Entry]
  BY DEF CacheOk
<1>4. /\ r.entries[i] = [k.entries[i] EXCEPT !.at = now]
      /\ \A j \in DOMAIN k.entries \ {i} : r.entries[j] = k.entries[j]
  BY <1>1, <1>3
<1>5. /\ r.entries[i].at = now
      /\ r.entries[i].payload = k.entries[i].payload
      /\ r.entries[i].result = k.entries[i].result
      /\ r.entries[i] \in Entry
  BY <1>3, <1>4 DEF Entry
<1>6. r.entries \in [DOMAIN r.entries -> Entry]
  BY <1>1, <1>2, <1>3, <1>4, <1>5
<1>7. /\ Orders(DOMAIN r.entries, r.order)
      /\ \A g, h : <<g, h>> \in r.order <=>
           \/ <<g, h>> \in k.order /\ g # i /\ h # i
           \/ g \in DOMAIN k.entries \ {i} /\ h = i
  <2>1. Orders(DOMAIN k.entries, k.order)
    BY DEF CacheOk
  <2>2. /\ Orders(DOMAIN k.entries \cup {i}, Touched(k, i))
        /\ \A g, h : <<g, h>> \in Touched(k, i) <=>
             \/ <<g, h>> \in k.order /\ g # i /\ h # i
             \/ g \in DOMAIN k.entries \ {i} /\ h = i
    BY <2>1, TouchedOrders
  <2> QED BY <1>1, <1>2, <2>2
<1>8. CacheOk(r)
  <2>1. ASSUME NEW j \in DOMAIN r.entries
        PROVE  r.entries[j].result = [id |-> j, payload |-> r.entries[j].payload]
    <3>1. k.entries[j].result = [id |-> j, payload |-> k.entries[j].payload]
      BY <1>2 DEF CacheOk
    <3>2. CASE j = i
      BY <1>5, <3>1, <3>2
    <3>3. CASE j # i
      <4>1. r.entries[j] = k.entries[j]
        BY <1>2, <1>4, <3>3
      <4> QED BY <3>1, <4>1
    <3> QED BY <3>2, <3>3
  <2>2. IsFiniteSet(DOMAIN r.entries) /\ DOMAIN r.entries \subseteq Ids
    BY <1>2 DEF CacheOk
  <2> QED BY <2>1, <2>2, <1>6, <1>7 DEF CacheOk
<1>9. ASSUME NEW m, MemoryOk(m), Known(k, m)
      PROVE  Known(r, Recalled(m, i, now))
  <2> PICK q : q = Recalled(m, i, now)
    OBVIOUS
  <2>1. /\ DOMAIN q = DOMAIN m \cup {i}
        /\ q[i].at = now
        /\ \A j \in DOMAIN m \ {i} :
             q[j].at = m[j].at /\ q[j].others = m[j].others \cup {i}
    <3>1. i \in Ids /\ MemoryOk(m)
      BY <1>2, <1>9
    <3> QED BY <3>1, RecalledOk
  <2>2. ASSUME NEW j \in DOMAIN k.entries \ {i}
        PROVE  /\ j \in DOMAIN q /\ r.entries[j].at = q[j].at
               /\ \A h \in DOMAIN k.entries : <<j, h>> \in r.order => h \in q[j].others
    BY <1>4, <1>7, <1>9, <2>1 DEF Known
  <2>3. \A h : <<i, h>> \notin r.order
    BY <1>7
  <2> QED BY <1>2, <1>5, <2>1, <2>2, <2>3 DEF Known
<1>10. ASSUME NEW m, NEW late, MemoryOk(m), Holds(k, m, late)
       PROVE  Holds(r, Recalled(m, i, now), late)
  BY <1>2, <1>10, RecalledOk DEF Holds
<1>11. Fits(k) => Fits(r)
  BY <1>2 DEF Fits
<1> QED BY <1>8, <1>9, <1>10, <1>11 DEF r

\* The cache with one more entry, before anything is dropped for it.
Added(k, i, e) == [entries |-> With(k.entries, i, e), order |-> Touched(k, i)]

LEMMA AddedOk ==
  ASSUME NEW k, CacheOk(k), NEW i \in Ids, NEW e \in Entry,
         e.result = [id |-> i, payload |-> e.payload]
  PROVE  /\ CacheOk(Added(k, i, e))
         /\ DOMAIN Added(k, i, e).entries = DOMAIN k.entries \cup {i}
         /\ \A m : MemoryOk(m) /\ Known(k, m)
              => Known(Added(k, i, e), Recalled(m, i, e.at))
<1> DEFINE r == Added(k, i, e)
<1>1. /\ DOMAIN r.entries = DOMAIN k.entries \cup {i}
      /\ r.entries[i] = e
      /\ \A j \in DOMAIN k.entries \ {i} : r.entries[j] = k.entries[j]
      /\ r.entries = [j \in DOMAIN r.entries |-> r.entries[j]]
      /\ r.order = Touched(k, i)
  BY DEF Added, With
<1> HIDE DEF r
<1>2. k.entries \in [DOMAIN k.entries -> Entry]
  BY DEF CacheOk
<1>3. IsFiniteSet(DOMAIN r.entries) /\ DOMAIN r.entries \subseteq Ids
  BY <1>1, FS_AddElement DEF CacheOk
<1>4. r.entries \in [DOMAIN r.entries -> Entry]
  BY <1>1, <1>2
<1>5. /\ Orders(DOMAIN r.entries, r.order)
      /\ \A g, h : <<g, h>> \in r.order <=>
           \/ <<g, h>> \in k.order /\ g # i /\ h # i
           \/ g \in DOMAIN k.entries \ {i} /\ h = i
  <2>1. Orders(DOMAIN k.entries, k.order)
    BY DEF CacheOk
  <2>2. /\ Orders(DOMAIN k.entries \cup {i}, Touched(k, i))
        /\ \A g, h : <<g, h>> \in Touched(k, i) <=>
             \/ <<g, h>> \in k.order /\ g # i /\ h # i
             \/ g \in DOMAIN k.entries \ {i} /\ h = i
    BY <2>1, TouchedOrders
  <2> QED BY <1>1, <2>2
<1>6. CacheOk(r)
  <2>1. ASSUME NEW j \in DOMAIN r.entries
        PROVE  r.entries[j].result = [id |-> j, payload |-> r.entries[j].payload]
    BY <1>1 DEF CacheOk
  <2> QED BY <1>3, <1>4, <1>5, <2>1 DEF CacheOk
<1>7. ASSUME NEW m, MemoryOk(m), Known(k, m)
      PROVE  Known(r, Recalled(m, i, e.at))
  <2> PICK t : t = e.at
    OBVIOUS
  <2> PICK q : q = Recalled(m, i, t)
    OBVIOUS
  <2>1. /\ DOMAIN q = DOMAIN m \cup {i}
        /\ q[i].at = t
        /\ \A j \in DOMAIN m \ {i} :
             q[j].at = m[j].at /\ q[j].others = m[j].others \cup {i}
    <3>1. i \in Ids /\ t \in Nat /\ MemoryOk(m)
      BY <1>7 DEF Entry
    <3>2. q = Recalled(m, i, t)
      OBVIOUS
    <3> QED BY ONLY <3>1, <3>2, RecalledOk
  <2>2. ASSUME NEW j \in DOMAIN k.entries \ {i}
        PROVE  /\ j \in DOMAIN q /\ r.entries[j].at = q[j].at
               /\ \A h \in DOMAIN r.entries : <<j, h>> \in r.order => h \in q[j].others
    BY <1>1, <1>5, <1>7, <2>1 DEF Known
  <2>3. \A h : <<i, h>> \notin r.order
    BY <1>5
  <2> QED BY <1>1, <2>1, <2>2, <2>3 DEF Known
<1> QED BY <1>1, <1>6, <1>7 DEF r

\* The entry that goes when there are too many need not be remembered: as many
\* others as there are places were used since.
LEMMA InsertedOk ==
  ASSUME NEW k, CacheOk(k), NEW i \in Ids, NEW e \in Entry,
         e.result = [id |-> i, payload |-> e.payload]
  PROVE  /\ CacheOk(Inserted(k, i, e))
         /\ Fits(k) => Fits(Inserted(k, i, e))
         /\ \A m : MemoryOk(m) /\ Known(k, m)
              => Known(Inserted(k, i, e), Recalled(m, i, e.at))
         /\ \A m, late : MemoryOk(m) /\ Known(k, m) /\ Holds(k, m, late)
              => Holds(Inserted(k, i, e), Recalled(m, i, e.at), late)
<1>0. CacheCapacity \in Nat \ {0}
  BY ServerConstants
<1> PICK a : a = Added(k, i, e)
  OBVIOUS
<1> DEFINE ids  == DOMAIN a.entries
<1> DEFINE left == {j \in ids : Before(a, j) # {}}
<1>1. /\ CacheOk(a) /\ ids = DOMAIN k.entries \cup {i}
      /\ \A m : MemoryOk(m) /\ Known(k, m) => Known(a, Recalled(m, i, e.at))
  BY AddedOk
<1>2. Inserted(k, i, e) =
        IF Cardinality(ids) <= CacheCapacity THEN a ELSE Kept(a, left)
  BY DEF Inserted, Added
<1>3. left \in SUBSET ids
  OBVIOUS
<1>4. IsFiniteSet(ids) /\ Cardinality(ids) \in Nat /\ Orders(ids, a.order)
  BY <1>1, FS_CardinalityType DEF CacheOk
<1>5. ASSUME NEW m, MemoryOk(m), Known(k, m), NEW late, Holds(k, m, late),
             NEW j, Must(Recalled(m, i, e.at), j, late)
      PROVE  j \in ids
  <2>1. e.at \in Nat
    BY DEF Entry
  <2>2. CASE j = i
    BY <1>1, <2>2
  <2>3. CASE j # i
    <3>1. Must(m, j, late)
      BY <1>5, <2>1, <2>3, RecalledOk
    <3> QED BY <1>1, <1>5, <3>1 DEF Holds
  <2> QED BY <2>2, <2>3
<1>6. CASE Cardinality(ids) <= CacheCapacity
  <2>1. Inserted(k, i, e) = a
    BY <1>2, <1>6
  <2>2. Fits(a)
    BY <1>6 DEF Fits
  <2> HIDE DEF ids
  <2>3. \A m, late : MemoryOk(m) /\ Known(k, m) /\ Holds(k, m, late)
          => Holds(a, Recalled(m, i, e.at), late)
    BY <1>5 DEF Holds, ids
  <2> QED BY <1>1, <2>1, <2>2, <2>3
<1>7. CASE ~(Cardinality(ids) <= CacheCapacity)
  <2>1. Inserted(k, i, e) = Kept(a, left)
    BY <1>2, <1>7
  <2>2. /\ CacheOk(Kept(a, left)) /\ DOMAIN Kept(a, left).entries = left
        /\ \A m : Known(a, m) => Known(Kept(a, left), m)
    BY <1>1, <1>3, KeptOk
  <2>3. ASSUME Fits(k)
        PROVE  Fits(Kept(a, left))
    <3>1. PICK f \in ids : \A j \in ids : <<j, f>> \notin a.order
      <4>1. ids # {}
        BY <1>1
      <4> HIDE DEF ids
      <4> QED BY <1>4, <4>1, FirstOfOrder
    <3>2. left \in SUBSET (ids \ {f})
      BY <3>1 DEF Before
    <3>3. /\ IsFiniteSet(ids \ {f}) /\ Cardinality(ids \ {f}) = Cardinality(ids) - 1
      BY <1>4, FS_RemoveElement
    <3>4. Cardinality(left) <= Cardinality(ids \ {f}) /\ IsFiniteSet(left)
      <4> HIDE DEF left, ids
      <4> QED BY <3>2, <3>3, FS_Subset
    <3>5. Cardinality(ids) <= CacheCapacity + 1
      <4>1. IsFiniteSet(DOMAIN k.entries) /\ Cardinality(DOMAIN k.entries) \in Nat
        BY FS_CardinalityType DEF CacheOk
      <4>2. Cardinality(DOMAIN k.entries \cup {i}) =
              IF i \in DOMAIN k.entries THEN Cardinality(DOMAIN k.entries)
              ELSE Cardinality(DOMAIN k.entries) + 1
        BY <4>1, FS_AddElement
      <4> HIDE DEF ids
      <4> QED BY <1>0, <1>1, <2>3, <4>1, <4>2 DEF Fits
    <3>6. Cardinality(left) \in Nat
      <4> HIDE DEF left
      <4> QED BY <3>4, FS_CardinalityType
    <3> HIDE DEF left, ids
    <3> QED BY <1>0, <1>4, <2>2, <3>3, <3>4, <3>5, <3>6 DEF Fits
  <2>4. ASSUME NEW m, MemoryOk(m), Known(k, m), NEW late, Holds(k, m, late),
               NEW j, Must(Recalled(m, i, e.at), j, late)
        PROVE  j \in left
    <3>1. j \in ids
      BY <1>5, <2>4
    <3>2. SUFFICES ASSUME Before(a, j) = {}
                   PROVE  FALSE
      BY <3>1
    <3> PICK q : q = Recalled(m, i, e.at)
      OBVIOUS
    <3>3. e.at \in Nat
      BY DEF Entry
    <3>4. Known(a, q) /\ MemoryOk(q)
      BY <1>1, <2>4, <3>3, RecalledOk
    <3>5. \A h \in ids \ {j} : <<j, h>> \in a.order
      <4>1. \A h \in ids : <<h, j>> \notin a.order
        BY <3>2 DEF Before
      <4> HIDE DEF ids
      <4> QED BY <1>4, <3>1, <4>1 DEF Orders
    <3>6. ids \ {j} \in SUBSET q[j].others /\ j \in DOMAIN q
      BY <3>1, <3>4, <3>5 DEF Known
    <3>7. IsFiniteSet(q[j].others)
      BY <3>4, <3>6 DEF MemoryOk
    <3>8. Cardinality(ids \ {j}) = Cardinality(ids) - 1
      <4> HIDE DEF ids
      <4> QED BY <1>4, <3>1, FS_RemoveElement
    <3>9. Cardinality(ids \ {j}) <= Cardinality(q[j].others)
      <4> HIDE DEF ids
      <4> QED BY <3>6, <3>7, FS_Subset
    <3>10. Cardinality(q[j].others) \in Nat
      BY <3>7, FS_CardinalityType
    <3>11. Cardinality(q[j].others) < CacheCapacity
      BY <2>4 DEF Must
    <3> HIDE DEF ids
    <3> QED BY <1>0, <1>4, <1>7, <3>8, <3>9, <3>10, <3>11
  <2> HIDE DEF left, ids
  <2>5. \A m, late : MemoryOk(m) /\ Known(k, m) /\ Holds(k, m, late)
          => Holds(Kept(a, left), Recalled(m, i, e.at), late)
    BY <2>2, <2>4 DEF Holds
  <2> QED BY <1>1, <2>1, <2>2, <2>3, <2>5
<1> QED BY <1>6, <1>7

-----------------------------------------------------------------------------
(* The inductive invariant.                                                *)

\* A frame that is not decided.
Open == [conn : Conns, id : Ids \cup {None}, payload : Payloads \cup Odd,
         pc : {"read"} \cup TaskStates, at : Nat, result : Result \cup {None}]

\* What a request has to be, to be where it is.
FrameOk(f, now) ==
  /\ f.pc \notin Ends =>
       /\ f.payload \in Payloads => f.id \in Ids
       /\ f.pc \in TaskStates => f.payload # "redeem"
       /\ f.pc \in {"handler", "replying"} => f.payload # "malformed"
       /\ f.pc = "handler" => f.at <= now
  /\ f.result \in {None, [id |-> f.id, payload |-> f.payload]}

FramesOk ==
  /\ frames \in Seq(Open \cup {Decided(pc) : pc \in Ends})
  /\ \A n \in Frames : FrameOk(frames[n], clock)

PermitsOk ==
  \A c \in Conns : Cardinality(Of(c, TaskStates)) <= MaxInflightPerConnection

ServerOk ==
  /\ conn \in [Conns -> [pc : {"none", "reading", "draining", "renderer", "closed"},
                         first : BOOLEAN]]
  /\ phase \in {"serving", "stopping", "cleanup", "late", "stopped", "timed out",
               "forced", "failed"}
  /\ clock \in Nat

ResultsOk ==
  /\ CacheOk(cache) /\ Fits(cache)
  /\ MemoryOk(memory) /\ Known(cache, memory) /\ Holds(cache, memory, clock)

IInv == ServerOk /\ FramesOk /\ PermitsOk /\ ResultsOk

\* No handler begins.
NoneBegins ==
  \A n \in Frames : frames'[n].pc = "handler" => frames[n].pc = "handler"

\* Nothing happens to a frame but that it may be decided.
OnlyDecides ==
  /\ frames' = [n \in Frames |-> frames'[n]]
  /\ \A n \in Frames : \/ frames'[n] = frames[n]
                       \/ \E pc \in Ends : frames'[n] = Decided(pc)

LEMMA FramesAreFrame == Open \cup {Decided(pc) : pc \in Ends} = Frame
BY DEF Open, Frame, Result

\* A decided frame is as it has to be.
LEMMA DecidedOk ==
  ASSUME NEW pc \in Ends
  PROVE  /\ Decided(pc).pc = pc /\ Decided(pc).result = None
         /\ pc \notin TaskStates /\ pc # "read"
BY DEF Decided, Ends, TaskStates

LEMMA OpenFrame ==
  ASSUME FramesOk, NEW n \in Frames, frames[n].pc \notin Ends
  PROVE  frames[n] \in Open
<1>1. frames[n] \in Open \cup {Decided(pc) : pc \in Ends}
  BY DEF FramesOk, Frames
<1> QED BY <1>1, DecidedOk

\* The frames are a finite set, and so are those of a connection.
LEMMA OfIsFinite ==
  ASSUME frames \in Seq(Open \cup {Decided(pc) : pc \in Ends}), NEW c, NEW S
  PROVE  IsFiniteSet(Of(c, S)) /\ Cardinality(Of(c, S)) \in Nat
<1>1. Frames = 1 .. Len(frames) /\ Len(frames) \in Int /\ 1 \in Int
  BY DEF Frames
<1>2. IsFiniteSet(1 .. Len(frames))
  BY <1>1, FS_Interval
<1>3. Of(c, S) \in SUBSET (1 .. Len(frames))
  BY <1>1 DEF Of
<1>4. IsFiniteSet(Of(c, S))
  BY <1>2, <1>3, FS_Subset
<1> QED BY <1>4, FS_CardinalityType

\* Who has fewer frames that hold permits stays within the limit.
LEMMA FewerPermits ==
  ASSUME FramesOk, PermitsOk, \A c \in Conns : Of(c, TaskStates)' \subseteq Of(c, TaskStates)
  PROVE  PermitsOk'
<1>1. MaxInflightPerConnection \in Nat
  BY ServerConstants
<1>2. ASSUME NEW c \in Conns
      PROVE  Cardinality(Of(c, TaskStates)') <= MaxInflightPerConnection
  <2>1. IsFiniteSet(Of(c, TaskStates)) /\ Cardinality(Of(c, TaskStates)) \in Nat
    BY OfIsFinite DEF FramesOk
  <2>2. /\ IsFiniteSet(Of(c, TaskStates)')
        /\ Cardinality(Of(c, TaskStates)') <= Cardinality(Of(c, TaskStates))
    BY <2>1, FS_Subset
  <2>3. Cardinality(Of(c, TaskStates)') \in Nat
    BY <2>2, FS_CardinalityType
  <2>4. Cardinality(Of(c, TaskStates)) <= MaxInflightPerConnection
    BY DEF PermitsOk
  <2> QED BY <1>1, <2>1, <2>2, <2>3, <2>4
<1>3. ASSUME NEW c \in Conns
      PROVE  Of(c, TaskStates)' = {n \in Frames' : frames'[n].conn = c /\ frames'[n].pc \in TaskStates}
  BY DEF Of, TaskStates
<1> QED BY <1>2, <1>3 DEF PermitsOk, Of, TaskStates

\* A step that only decides frames.
LEMMA OnlyDecidesOk ==
  ASSUME FramesOk, PermitsOk, OnlyDecides, clock' = clock
  PROVE  FramesOk' /\ PermitsOk' /\ NoneBegins
<1> DEFINE F == Open \cup {Decided(pc) : pc \in Ends}
<1>1. frames \in Seq(F) /\ Frames = 1 .. Len(frames) /\ Len(frames) \in Nat
  BY DEF FramesOk, Frames
<1>2. ASSUME NEW n \in Frames
      PROVE  /\ frames'[n] \in F
             /\ FrameOk(frames'[n], clock)
             /\ frames'[n].pc \in TaskStates => frames'[n] = frames[n]
  <2>1. frames[n] \in F /\ FrameOk(frames[n], clock)
    BY <1>1 DEF FramesOk
  <2>2. CASE frames'[n] = frames[n]
    <3> HIDE DEF F
    <3> QED BY <2>1, <2>2
  <2>3. CASE \E pc \in Ends : frames'[n] = Decided(pc)
    <3>1. PICK pc \in Ends : frames'[n] = Decided(pc)
      BY <2>3
    <3>2. frames'[n].pc = pc /\ frames'[n].result = None
      BY <3>1, DecidedOk
    <3>3. pc \notin TaskStates
      BY DecidedOk
    <3> QED BY <3>1, <3>2, <3>3 DEF FrameOk
  <2> QED BY <2>2, <2>3 DEF OnlyDecides
<1>3. Frames' = Frames
  BY DEF OnlyDecides, Frames
<1>4. frames' \in Seq(F)
  <2> HIDE DEF F
  <2>1. frames' = [n \in 1 .. Len(frames) |-> frames'[n]]
    BY <1>1 DEF OnlyDecides
  <2>2. \A n \in 1 .. Len(frames) : frames'[n] \in F
    BY <1>1, <1>2
  <2>3. frames' \in [1 .. Len(frames) -> F]
    BY <2>1, <2>2
  <2> QED BY <1>1, <2>3
<1>5. FramesOk'
  BY <1>2, <1>3, <1>4 DEF FramesOk, Ends, Decided, Open, Result, TaskStates, Odd
<1>6. PermitsOk'
  <2>1. \A c \in Conns : Of(c, TaskStates)' \subseteq Of(c, TaskStates)
    BY <1>2, <1>3 DEF Of, TaskStates
  <2> QED BY <2>1, FewerPermits
<1>7. NoneBegins
  BY <1>2 DEF NoneBegins, TaskStates
<1> QED BY <1>5, <1>6, <1>7

\* A step of one frame.
LEMMA OneStepOk ==
  ASSUME FramesOk, NEW n \in Frames, NEW f \in Open, FrameOk(f, clock),
         frames' = [frames EXCEPT ![n] = f], clock' = clock
  PROVE  /\ FramesOk' /\ Frames' = Frames /\ frames'[n] = f
         /\ \A m \in Frames \ {n} : frames'[m] = frames[m]
<1> DEFINE F == Open \cup {Decided(pc) : pc \in Ends}
<1>1. frames \in Seq(F) /\ \A m \in Frames : FrameOk(frames[m], clock)
  BY DEF FramesOk
<1>2. Frames = DOMAIN frames /\ Frames' = DOMAIN frames' /\ f \in F
  BY DEF Frames
<1> HIDE DEF F
<1>3. frames' \in Seq(F) /\ Frames' = Frames
  BY <1>1, <1>2
<1>4. frames'[n] = f /\ \A m \in Frames \ {n} : frames'[m] = frames[m]
  BY <1>1, <1>2
<1>5. \A m \in Frames' : FrameOk(frames'[m], clock')
  BY <1>1, <1>3, <1>4
<1>6. FramesOk'
  BY <1>3, <1>5 DEF FramesOk, F, Ends, Decided, Open, Result, TaskStates, Odd
<1> QED BY <1>3, <1>4, <1>6

\* A step of a frame that has its permits.
LEMMA TaskStepOk ==
  ASSUME FramesOk, PermitsOk, NEW n \in Frames, frames[n].pc \in TaskStates,
         NEW f \in Open, FrameOk(f, clock), f.conn = frames[n].conn,
         frames' = [frames EXCEPT ![n] = f], clock' = clock
  PROVE  /\ FramesOk' /\ PermitsOk'
         /\ f.pc # "handler" => NoneBegins
         /\ \A m \in Frames \ {n} : frames'[m] = frames[m]
<1>1. /\ FramesOk' /\ Frames' = Frames /\ frames'[n] = f
      /\ \A m \in Frames \ {n} : frames'[m] = frames[m]
  BY OneStepOk
<1>2. \A c \in Conns : Of(c, TaskStates)' \subseteq Of(c, TaskStates)
  BY <1>1 DEF Of, TaskStates
<1>3. PermitsOk'
  BY <1>2, FewerPermits
<1>4. f.pc # "handler" => NoneBegins
  BY <1>1 DEF NoneBegins
<1> QED BY <1>1, <1>3, <1>4

\* The first of the frames that a connection has read is one of them.
LEMMA FirstIsRead ==
  ASSUME FramesOk, NEW c, Batch(c) # {}
  PROVE  First(Batch(c)) \in Batch(c)
<1>1. Batch(c) \in SUBSET Nat
  BY DEF Batch, Of, Frames, FramesOk
<1>2. IsFiniteSet(Batch(c))
  BY OfIsFinite DEF FramesOk, Batch
<1> DEFINE O == {p \in Batch(c) \X Batch(c) : p[1] < p[2]}
<1>3. Orders(Batch(c), O)
  BY <1>1 DEF Orders
<1>4. PICK m \in Batch(c) : \A k \in Batch(c) : <<k, m>> \notin O
  <2> HIDE DEF O
  <2> QED BY <1>2, <1>3, FirstOfOrder
<1>5. ASSUME NEW k \in Batch(c)
      PROVE  m <= k
  <2>1. <<k, m>> \notin O
    BY <1>4
  <2>2. ~(k < m)
    BY <2>1
  <2> QED BY <1>1, <2>2
<1> QED BY <1>5 DEF First

\* A frame is given its permits.
LEMMA AdmitOk ==
  ASSUME FramesOk, PermitsOk, NEW c \in Conns, Admit(c)
  PROVE  FramesOk' /\ PermitsOk' /\ NoneBegins
<1>1. PICK n : n = First(Batch(c))
  OBVIOUS
<1>2. n \in Batch(c)
  BY <1>1, FirstIsRead DEF Admit
<1>3. n \in Frames /\ frames[n].pc = "read" /\ frames[n].conn = c
  BY <1>2 DEF Batch, Of
<1>4. frames[n] \in Open /\ FrameOk(frames[n], clock)
  BY <1>3, OpenFrame DEF FramesOk, Ends
<1> DEFINE f == [frames[n] EXCEPT !.pc = "stripe"]
<1>5. /\ f \in Open /\ f.conn = c /\ f.pc = "stripe"
      /\ f.payload = frames[n].payload /\ f.id = frames[n].id /\ f.result = frames[n].result
  BY <1>3, <1>4 DEF Open, TaskStates
<1>6. /\ frames' = [frames EXCEPT ![n] = f] /\ clock' = clock
      /\ frames[n].payload # "redeem"
  BY <1>1 DEF Admit, Step
<1> HIDE DEF f
<1>7. FrameOk(f, clock)
  BY <1>3, <1>4, <1>5, <1>6 DEF FrameOk, Ends
<1>8. /\ FramesOk' /\ Frames' = Frames /\ frames'[n] = f
      /\ \A m \in Frames \ {n} : frames'[m] = frames[m]
  BY <1>3, <1>5, <1>6, <1>7, OneStepOk
<1>9. NoneBegins
  BY <1>5, <1>8 DEF NoneBegins
<1>10. ASSUME NEW d \in Conns
       PROVE  Cardinality(Of(d, TaskStates)') <= MaxInflightPerConnection
  <2>1. /\ IsFiniteSet(Of(d, TaskStates)) /\ IsFiniteSet(Of(d, TaskStates) \cup {n})
        /\ Cardinality(Of(d, TaskStates)) \in Nat
        /\ Cardinality(Of(d, TaskStates) \cup {n}) <= Cardinality(Of(d, TaskStates)) + 1
    <3>1. IsFiniteSet(Of(d, TaskStates)) /\ Cardinality(Of(d, TaskStates)) \in Nat
      BY OfIsFinite DEF FramesOk
    <3>2. /\ IsFiniteSet(Of(d, TaskStates) \cup {n})
          /\ Cardinality(Of(d, TaskStates) \cup {n}) =
               IF n \in Of(d, TaskStates) THEN Cardinality(Of(d, TaskStates))
               ELSE Cardinality(Of(d, TaskStates)) + 1
      BY <3>1, FS_AddElement
    <3> QED BY <3>1, <3>2
  <2>2. CASE d = c
    <3>1. Of(d, TaskStates)' \in SUBSET (Of(d, TaskStates) \cup {n})
      BY <1>8 DEF Of, TaskStates
    <3>2. Cardinality(Of(d, TaskStates)') <= Cardinality(Of(d, TaskStates) \cup {n})
      BY <2>1, <3>1, FS_Subset
    <3>3. Cardinality(Of(d, TaskStates)) < MaxInflightPerConnection
      BY <2>2 DEF Admit, Permits, Held
    <3>4. Cardinality(Of(d, TaskStates)') \in Nat /\ Cardinality(Of(d, TaskStates) \cup {n}) \in Nat
      BY <2>1, <3>1, FS_Subset, FS_CardinalityType
    <3> QED BY <2>1, <3>2, <3>3, <3>4, ServerConstants
  <2>3. CASE d # c
    <3>1. Of(d, TaskStates)' \in SUBSET Of(d, TaskStates)
      BY <1>3, <1>5, <1>8, <2>3 DEF Of, TaskStates
    <3>2. Cardinality(Of(d, TaskStates)') <= Cardinality(Of(d, TaskStates))
      BY <2>1, <3>1, FS_Subset
    <3>3. Cardinality(Of(d, TaskStates)) <= MaxInflightPerConnection
      BY DEF PermitsOk
    <3>4. Cardinality(Of(d, TaskStates)') \in Nat
      BY <2>1, <3>1, FS_Subset, FS_CardinalityType
    <3> QED BY <2>1, <3>2, <3>3, <3>4, ServerConstants
  <2> QED BY <2>2, <2>3
<1>11. \A d \in Conns :
         Of(d, TaskStates)' = {m \in Frames' : frames'[m].conn = d /\ frames'[m].pc \in TaskStates}
  BY DEF Of, TaskStates
<1>12. PermitsOk'
  BY <1>10, <1>11 DEF PermitsOk, Of, TaskStates
<1> QED BY <1>8, <1>9, <1>12

\* What RetriesRunOnce says of one step.
BeginsOnce ==
  \A n \in Frames :
    (frames'[n].pc = "handler" /\ frames[n].pc # "handler") =>
      /\ ~MustRemember(frames[n].id)
      /\ \A m \in Frames : frames[m].pc = "handler" => frames[m].id # frames[n].id

\* What a read brings is as it has to be.
LEMMA ReadOk ==
  ASSUME FramesOk, PermitsOk, ServerOk, NEW c \in Conns, Read(c)
  PROVE  /\ FramesOk' /\ PermitsOk' /\ NoneBegins
         /\ \A n \in Frames' : frames'[n].pc # "read" => n \in Frames /\ frames'[n] = frames[n]
         /\ Frames \subseteq Frames'
<1> DEFINE F == Open \cup {Decided(pc) : pc \in Ends}
<1>1. PICK chunk \in SeqOf(Sendable, MaxFrames - Len(frames)) :
        frames' = frames \o [n \in DOMAIN chunk |-> Arrived(c, chunk[n])]
  BY DEF Read
<1> DEFINE new == [n \in DOMAIN chunk |-> Arrived(c, chunk[n])]
<1>2. frames \in Seq(F) /\ (\A n \in Frames : FrameOk(frames[n], clock)) /\ clock' = clock
  BY DEF FramesOk, Read
<1>3. PICK len \in Nat : chunk \in [1 .. len -> Sendable]
  <2>1. \E len \in 0 .. (MaxFrames - Len(frames)) : chunk \in [1 .. len -> Sendable]
    BY DEF SeqOf
  <2> QED BY <2>1
<1>4. ASSUME NEW m \in Sendable
      PROVE  /\ Arrived(c, m) \in Open /\ FrameOk(Arrived(c, m), clock)
             /\ Arrived(c, m).pc = "read"
  BY ServerConstants DEF Sendable, Arrived, Open, FrameOk, TaskStates, Odd, Ends
<1>5. new \in [1 .. len -> F]
      /\ \A n \in 1 .. len : FrameOk(new[n], clock) /\ new[n].pc = "read"
  BY <1>3, <1>4
<1>6. new \in Seq(F) /\ Len(new) = len
  <2> HIDE DEF new, F
  <2> QED BY <1>5
<1> HIDE DEF new, F
<1>7. /\ frames' \in Seq(F)
      /\ \A n \in DOMAIN frames' :
           \/ n \in DOMAIN frames /\ frames'[n] = frames[n]
           \/ \E j \in 1 .. len : n \notin DOMAIN frames /\ frames'[n] = new[j]
      /\ DOMAIN frames \subseteq DOMAIN frames'
  <2>1. frames' = frames \o new
    BY <1>1 DEF new
  <2>2. frames' \in Seq(F) /\ Len(frames') = Len(frames) + len
    <3>1. frames \in Seq(F) /\ new \in Seq(F) /\ Len(new) = len
      BY <1>2, <1>6
    <3>2. frames \o new \in Seq(F) /\ Len(frames \o new) = Len(frames) + Len(new)
      BY ONLY <3>1
    <3> QED BY ONLY <2>1, <3>1, <3>2
  <2>3. /\ DOMAIN frames = 1 .. Len(frames) /\ DOMAIN frames' = 1 .. Len(frames')
        /\ Len(frames) \in Nat
    BY <1>2, <2>2
  <2>4. ASSUME NEW n \in DOMAIN frames'
        PROVE  \/ n \in DOMAIN frames /\ frames'[n] = frames[n]
               \/ \E j \in 1 .. len : n \notin DOMAIN frames /\ frames'[n] = new[j]
    <3>1. CASE n <= Len(frames)
      BY <1>2, <1>6, <2>1, <2>2, <2>3, <3>1
    <3>2. CASE n > Len(frames)
      <4>1. frames'[n] = new[n - Len(frames)] /\ n - Len(frames) \in 1 .. len
        BY <1>2, <1>6, <2>1, <2>2, <2>3, <3>2
      <4> QED BY <2>3, <3>2, <4>1
    <3> QED BY <2>3, <3>1, <3>2
  <2> QED BY <2>2, <2>3, <2>4
<1>8. \A n \in Frames' : FrameOk(frames'[n], clock')
  BY <1>2, <1>5, <1>7 DEF Frames
<1>9. FramesOk'
  BY <1>7, <1>8 DEF FramesOk, F, Ends, Decided, Open, Result, TaskStates, Odd
<1>10. ASSUME NEW n \in Frames', frames'[n].pc # "read"
       PROVE  n \in Frames /\ frames'[n] = frames[n]
  BY <1>5, <1>7, <1>10 DEF Frames
<1>11. PermitsOk'
  <2>1. \A d \in Conns : Of(d, TaskStates)' \subseteq Of(d, TaskStates)
    BY <1>10 DEF Of, TaskStates
  <2> QED BY <2>1, FewerPermits
<1>12. NoneBegins
  BY <1>7, <1>10 DEF NoneBegins, Frames
<1> QED BY <1>7, <1>9, <1>10, <1>11, <1>12 DEF Frames

\* A request that has its stripe and is none of the odd frames.
LEMMA TaskIsRequest ==
  ASSUME FramesOk, NEW n \in Frames, frames[n].pc \in TaskStates,
         frames[n].payload # "malformed"
  PROVE  /\ frames[n] \in Open /\ FrameOk(frames[n], clock)
         /\ frames[n].id \in Ids /\ frames[n].payload \in Payloads
<1>1. frames[n].pc \notin Ends
  BY DEF TaskStates, Ends
<1>2. frames[n] \in Open /\ FrameOk(frames[n], clock)
  BY <1>1, OpenFrame DEF FramesOk
<1>3. frames[n].payload \in Payloads
  BY <1>1, <1>2 DEF Open, FrameOk, Odd
<1> QED BY <1>1, <1>2, <1>3 DEF FrameOk

\* A lookup that finds nothing means that nothing had to be remembered, and one
\* that finds a result, that it is the request's own.
LEMMA BeginOk ==
  ASSUME IInv, NEW n \in Frames, Begin(n)
  PROVE  FramesOk' /\ PermitsOk' /\ ResultsOk' /\ BeginsOnce
<1> PICK i : i = frames[n].id
  OBVIOUS
<1> PICK young : young = Expired(cache, clock)
  OBVIOUS
<1>1. FramesOk /\ PermitsOk /\ ResultsOk /\ clock \in Nat
  BY DEF IInv, ServerOk
<1>2. /\ frames[n].pc = "stripe" /\ frames[n].payload # "malformed" /\ StripeFree(n)
      /\ clock' = clock
  BY DEF Begin
<1>3. /\ frames[n] \in Open /\ FrameOk(frames[n], clock)
      /\ i \in Ids /\ frames[n].payload \in Payloads /\ frames[n].payload # "redeem"
  BY <1>1, <1>2, TaskIsRequest, ServerConstants DEF TaskStates, Odd
<1>4. /\ CacheOk(young) /\ Fits(young) /\ MemoryOk(memory)
      /\ Known(young, memory) /\ Holds(young, memory, clock)
  <2>1. /\ CacheOk(cache) /\ Fits(cache) /\ MemoryOk(memory)
        /\ Known(cache, memory) /\ Holds(cache, memory, clock) /\ clock <= clock
    BY <1>1 DEF ResultsOk
  <2> QED BY <1>1, <2>1, ExpiredOk
<1>5. frames \in [Frames -> Open \cup {Decided(pc) : pc \in Ends}]
  BY <1>1 DEF FramesOk, Frames
<1>6. CASE Lookup(young, i, frames[n].payload) = "replay"
  <2>1. i \in DOMAIN young.entries /\ young.entries[i].payload = frames[n].payload
    BY <1>6 DEF Lookup
  <2>2. young.entries[i].result = [id |-> i, payload |-> frames[n].payload]
    BY <1>4, <2>1 DEF CacheOk
  <2> PICK r : r = [id |-> i, payload |-> frames[n].payload]
    OBVIOUS
  <2>3. /\ frames' = [frames EXCEPT ![n].pc = "replying", ![n].result = r]
        /\ cache' = Replayed(young, i, clock)
        /\ memory' = Recalled(memory, i, clock)
    BY <1>6, <2>2 DEF Begin, Remembers, Recalled
  <2> DEFINE f == [frames[n] EXCEPT !.pc = "replying", !.result = r]
  <2>4. frames' = [frames EXCEPT ![n] = f]
    BY <1>3, <1>5, <2>3 DEF Open
  <2>5. /\ f \in Open /\ f.conn = frames[n].conn /\ f.pc = "replying"
        /\ f.id = i /\ f.payload = frames[n].payload /\ f.result = r
    BY <1>3 DEF Open, TaskStates, Result
  <2> HIDE DEF f
  <2>6. FrameOk(f, clock)
    BY <1>2, <1>3, <2>5 DEF FrameOk
  <2>7. FramesOk' /\ PermitsOk' /\ NoneBegins
    BY <1>1, <1>2, <2>4, <2>5, <2>6, TaskStepOk DEF TaskStates
  <2>8. /\ CacheOk(cache') /\ Fits(cache') /\ Known(cache', memory')
        /\ Holds(cache', memory', clock)
    BY <1>1, <1>4, <2>1, <2>3, ReplayedOk
  <2>9. MemoryOk(memory')
    BY <1>1, <1>3, <1>4, <2>3, RecalledOk
  <2> QED BY <1>2, <2>7, <2>8, <2>9 DEF ResultsOk, NoneBegins, BeginsOnce, CacheOk, Fits,
             Known, Holds, MemoryOk
<1>7. CASE Lookup(young, i, frames[n].payload) = "mismatch"
  <2>1. frames' = [frames EXCEPT ![n].pc = "replying"] /\ cache' = young /\ memory' = memory
    BY <1>7 DEF Begin, Step
  <2> DEFINE f == [frames[n] EXCEPT !.pc = "replying"]
  <2>2. frames' = [frames EXCEPT ![n] = f]
    BY <1>3, <1>5, <2>1 DEF Open
  <2>3. /\ f \in Open /\ f.conn = frames[n].conn /\ f.pc = "replying"
        /\ f.id = i /\ f.payload = frames[n].payload /\ f.result = frames[n].result
    BY <1>3 DEF Open, TaskStates
  <2> HIDE DEF f
  <2>4. FrameOk(f, clock)
    BY <1>2, <1>3, <2>3 DEF FrameOk
  <2>5. FramesOk' /\ PermitsOk' /\ NoneBegins
    BY <1>1, <1>2, <2>2, <2>3, <2>4, TaskStepOk DEF TaskStates
  <2> QED BY <1>2, <1>4, <2>1, <2>5 DEF ResultsOk, NoneBegins, BeginsOnce
<1>8. CASE Lookup(young, i, frames[n].payload) = "miss"
  <2>1. /\ frames' = [frames EXCEPT ![n].pc = "handler", ![n].at = clock]
        /\ cache' = young /\ memory' = memory
    BY <1>8 DEF Begin
  <2> DEFINE f == [frames[n] EXCEPT !.pc = "handler", !.at = clock]
  <2>2. frames' = [frames EXCEPT ![n] = f]
    BY <1>3, <1>5, <2>1 DEF Open
  <2>3. /\ f \in Open /\ f.conn = frames[n].conn /\ f.pc = "handler" /\ f.at = clock
        /\ f.id = i /\ f.payload = frames[n].payload /\ f.result = frames[n].result
    BY <1>1, <1>3 DEF Open, TaskStates
  <2> HIDE DEF f
  <2>4. FrameOk(f, clock)
    BY <1>1, <1>2, <1>3, <2>3 DEF FrameOk
  <2>5. FramesOk' /\ PermitsOk' /\ \A m \in Frames \ {n} : frames'[m] = frames[m]
    BY <1>1, <1>2, <2>2, <2>3, <2>4, TaskStepOk DEF TaskStates
  <2>6. ~Must(memory, i, clock)
    <3>1. i \notin DOMAIN young.entries
      BY <1>8 DEF Lookup
    <3> QED BY <1>4, <3>1 DEF Holds
  <2>7. ASSUME NEW m \in Frames, frames[m].pc = "handler"
        PROVE  frames[m].id # i
    BY <1>2, <2>7 DEF StripeFree, Stripe
  <2>8. BeginsOnce
    BY <2>5, <2>6, <2>7 DEF BeginsOnce, Must, MustRemember
  <2> QED BY <1>2, <1>4, <2>1, <2>5, <2>8 DEF ResultsOk
<1> QED BY <1>6, <1>7, <1>8 DEF Lookup

\* What a handler has made is recorded at the time of its lookup.
LEMMA HandledOk ==
  ASSUME IInv, NEW n \in Frames, Handled(n)
  PROVE  FramesOk' /\ PermitsOk' /\ ResultsOk' /\ NoneBegins
<1>1. FramesOk /\ PermitsOk /\ ResultsOk /\ clock \in Nat
  BY DEF IInv, ServerOk
<1>2. frames[n].pc = "handler" /\ clock' = clock
  BY DEF Handled
<1>3. FrameOk(frames[n], clock) /\ frames[n].payload # "malformed" /\ frames[n].payload # "redeem"
  BY <1>1, <1>2 DEF FramesOk, FrameOk, Ends, TaskStates
<1>4. CASE frames[n].payload \in Large
  <2>1. frames' = Decide({n}, "silent") /\ cache' = cache /\ memory' = memory
    BY <1>4 DEF Handled
  <2>2. OnlyDecides
    BY <2>1 DEF OnlyDecides, Decide, Ends
  <2> QED BY <1>1, <1>2, <2>1, <2>2, OnlyDecidesOk DEF ResultsOk
<1>5. CASE frames[n].payload \notin Large
  <2> PICK i, p, at : i = frames[n].id /\ p = frames[n].payload /\ at = frames[n].at
    OBVIOUS
  <2> PICK r : r = [id |-> i, payload |-> p]
    OBVIOUS
  <2> PICK e : e = [payload |-> p, at |-> at, result |-> r]
    OBVIOUS
  <2> PICK old : old = Expired(cache, at)
    OBVIOUS
  <2>1. frames[n] \in Open /\ i \in Ids /\ p \in Payloads
    BY <1>1, <1>2, <1>3, TaskIsRequest DEF TaskStates
  <2>2. at \in Nat /\ at <= clock
    BY <1>2, <1>3, <2>1 DEF Open, FrameOk, Ends
  <2>3. e \in Entry /\ e.at = at /\ e.result = [id |-> i, payload |-> e.payload]
    BY <2>1, <2>2 DEF Entry, Result
  <2>4. /\ frames' = [frames EXCEPT ![n].pc = "replying", ![n].at = 0, ![n].result = r]
        /\ cache' = Inserted(old, i, e)
        /\ memory' = Recalled(memory, i, at)
    BY <1>5 DEF Handled, Remembers, Recalled, RequestOf
  <2> DEFINE f == [frames[n] EXCEPT !.pc = "replying", !.at = 0, !.result = r]
  <2>5. frames' = [frames EXCEPT ![n] = f]
    <3>1. frames \in [Frames -> Open \cup {Decided(pc) : pc \in Ends}]
      BY <1>1 DEF FramesOk, Frames
    <3> QED BY <2>1, <2>4, <3>1 DEF Open
  <2>6. /\ f \in Open /\ f.conn = frames[n].conn /\ f.pc = "replying"
        /\ f.id = i /\ f.payload = p /\ f.result = r
    BY <2>1 DEF Open, TaskStates, Result
  <2> HIDE DEF f
  <2>7. FrameOk(f, clock)
    BY <1>3, <2>1, <2>6 DEF FrameOk
  <2>8. FramesOk' /\ PermitsOk' /\ NoneBegins
    BY <1>1, <1>2, <2>5, <2>6, <2>7, TaskStepOk DEF TaskStates
  <2>9. /\ CacheOk(old) /\ Fits(old) /\ MemoryOk(memory)
        /\ Known(old, memory) /\ Holds(old, memory, clock)
    <3>1. /\ CacheOk(cache) /\ Fits(cache) /\ MemoryOk(memory)
          /\ Known(cache, memory) /\ Holds(cache, memory, clock)
      BY <1>1 DEF ResultsOk
    <3> QED BY <1>1, <2>2, <3>1, ExpiredOk
  <2>10. /\ CacheOk(cache') /\ Fits(cache') /\ Known(cache', memory')
         /\ Holds(cache', memory', clock)
    <3>1. /\ CacheOk(Inserted(old, i, e)) /\ Fits(Inserted(old, i, e))
          /\ Known(Inserted(old, i, e), Recalled(memory, i, e.at))
          /\ Holds(Inserted(old, i, e), Recalled(memory, i, e.at), clock)
      BY <2>1, <2>3, <2>9, InsertedOk
    <3> QED BY <2>3, <2>4, <3>1
  <2>11. MemoryOk(memory')
    BY <2>1, <2>2, <2>4, <2>9, RecalledOk
  <2> QED BY <1>2, <2>8, <2>10, <2>11 DEF ResultsOk, CacheOk, Fits, Known, Holds, MemoryOk
<1> QED BY <1>4, <1>5

-----------------------------------------------------------------------------
(* The steps.                                                              *)

\* NoneBegins is stronger than BeginsOnce.
LEMMA NoneBeginsOnce == NoneBegins => BeginsOnce
BY DEF NoneBegins, BeginsOnce

LEMMA EmptyOk ==
  /\ CacheOk(NoResults) /\ Fits(NoResults)
  /\ MemoryOk([i \in {} |-> None])
  /\ Known(NoResults, [i \in {} |-> None])
  /\ \A now : Holds(NoResults, [i \in {} |-> None], now)
<1>1. CacheCapacity \in Nat
  BY ServerConstants
<1>2. IsFiniteSet({}) /\ Cardinality({}) = 0
  BY FS_EmptySet
<1> QED
  BY <1>1, <1>2 DEF CacheOk, Fits, MemoryOk, Known, Holds, NoResults, Orders, Must

LEMMA InitOk ==
  ASSUME Init
  PROVE  IInv
<1> USE DEF Init
<1>1. ServerOk
  BY DEF ServerOk
<1>2. FramesOk
  BY DEF FramesOk, Frames
<1>3. PermitsOk
  <2>1. \A c \in Conns : Of(c, TaskStates) = {}
    BY DEF Of, Frames
  <2>2. Cardinality({}) = 0 /\ MaxInflightPerConnection \in Nat
    BY FS_EmptySet, ServerConstants
  <2>3. \A c \in Conns : Cardinality(Of(c, TaskStates)) <= MaxInflightPerConnection
    <3> HIDE DEF Init
    <3> QED BY <2>1, <2>2
  <2> QED BY <2>3 DEF PermitsOk
<1>4. ResultsOk
  BY EmptyOk DEF ResultsOk
<1> QED BY <1>1, <1>2, <1>3, <1>4 DEF IInv

\* Cut and AbortAll decide what they take.
LEMMA CutDecides ==
  ASSUME FramesOk, NEW c, Cut(c)
  PROVE  OnlyDecides
BY DEF Cut, OnlyDecides, Ends

LEMMA AbortDecides ==
  ASSUME FramesOk, AbortAll
  PROVE  OnlyDecides
BY DEF AbortAll, OnlyDecides, Ends

LEMMA KeepsDecides ==
  ASSUME FramesOk, UNCHANGED frames
  PROVE  OnlyDecides
BY DEF FramesOk, OnlyDecides, Frames

LEMMA DecideDecides ==
  ASSUME FramesOk, NEW S, NEW pc \in Ends, frames' = Decide(S, pc)
  PROVE  OnlyDecides
BY DEF Decide, OnlyDecides

\* The frames and the permits.
LEMMA FramesPreserved ==
  ASSUME IInv, [Next]_vars
  PROVE  FramesOk' /\ PermitsOk' /\ BeginsOnce
<1>1. FramesOk /\ PermitsOk /\ ServerOk
  BY DEF IInv
<1>2. ASSUME OnlyDecides, clock' = clock
      PROVE  FramesOk' /\ PermitsOk' /\ BeginsOnce
  BY <1>1, <1>2, OnlyDecidesOk, NoneBeginsOnce
<1>3. ASSUME NEW c \in Conns, Connect(c)
      PROVE  FramesOk' /\ PermitsOk' /\ BeginsOnce
  BY <1>1, <1>2, <1>3, KeepsDecides DEF Connect
<1>4. ASSUME NEW c \in Conns, Read(c)
      PROVE  FramesOk' /\ PermitsOk' /\ BeginsOnce
  BY <1>1, <1>4, ReadOk, NoneBeginsOnce
<1>5. ASSUME NEW c \in Conns, Connection(c)
      PROVE  FramesOk' /\ PermitsOk' /\ BeginsOnce
  <2>1. CASE StopsReading(c)
    BY <1>1, <1>2, <2>1, KeepsDecides DEF StopsReading, Drains
  <2>2. CASE Redeems(c)
    <3>1. CASE Cut(c)
      BY <1>1, <1>2, <2>2, <3>1, CutDecides DEF Redeems
    <3>2. CASE frames' = Decide(Batch(c), "lost")
      BY <1>1, <1>2, <2>2, <3>2, DecideDecides DEF Redeems, Ends
    <3> QED BY <2>2, <3>1, <3>2 DEF Redeems
  <2>3. CASE RendererEnds(c)
    BY <1>1, <1>2, <2>3, CutDecides DEF RendererEnds
  <2>4. CASE Admit(c)
    BY <1>1, <2>4, AdmitOk, NoneBeginsOnce
  <2>5. CASE StopsAdmitting(c)
    BY <1>1, <1>2, <2>5, CutDecides DEF StopsAdmitting
  <2>6. CASE Joined(c)
    BY <1>1, <1>2, <2>6, KeepsDecides DEF Joined
  <2> QED BY <1>5, <2>1, <2>2, <2>3, <2>4, <2>5, <2>6 DEF Connection
<1>6. ASSUME NEW n \in Frames, Request(n)
      PROVE  FramesOk' /\ PermitsOk' /\ BeginsOnce
  <2>1. CASE Malformed(n)
    BY <1>1, <1>2, <2>1, DecideDecides DEF Malformed, Ends
  <2>2. CASE Begin(n)
    BY <2>2, BeginOk
  <2>3. CASE Handled(n)
    BY <2>3, HandledOk, NoneBeginsOnce
  <2>4. CASE Answer(n)
    BY <1>1, <1>2, <2>4, DecideDecides DEF Answer, Ends
  <2> QED BY <1>6, <2>1, <2>2, <2>3, <2>4 DEF Request
<1>7. CASE Shutdown
  BY <1>1, <1>2, <1>7, KeepsDecides DEF Shutdown
<1>8. CASE Serve
  <2>1. CASE AllEnded
    BY <1>1, <1>2, <2>1, KeepsDecides DEF AllEnded
  <2>2. CASE GraceOver
    BY <1>1, <1>2, <2>2, AbortDecides DEF GraceOver
  <2>3. CASE CleanedUp
    BY <1>1, <1>2, <2>3, KeepsDecides DEF CleanedUp
  <2> QED BY <1>8, <2>1, <2>2, <2>3 DEF Serve
<1>9. CASE Forced \/ AcceptFails
  BY <1>1, <1>2, <1>9, AbortDecides DEF Forced, AcceptFails
<1>10. CASE Tick
  <2>1. frames' = frames /\ clock' = clock + 1 /\ clock \in Nat
    BY <1>1, <1>10 DEF Tick, ServerOk
  <2>2. ASSUME NEW n \in Frames
        PROVE  FrameOk(frames[n], clock')
    <3>1. FrameOk(frames[n], clock)
      BY <1>1 DEF FramesOk
    <3>2. frames[n].pc = "handler" => frames[n].at \in Nat
      <4>1. frames[n].pc = "handler" => frames[n] \in Open
        BY <1>1, OpenFrame DEF Ends
      <4> QED BY <4>1 DEF Open
    <3> QED BY <2>1, <3>1, <3>2 DEF FrameOk
  <2>3. FramesOk'
    BY <1>1, <2>1, <2>2 DEF FramesOk, Frames, Ends, Decided, Open, Result, TaskStates, Odd
  <2>4. PermitsOk'
    BY <1>1, <2>1 DEF PermitsOk, Of, Frames, TaskStates
  <2>5. BeginsOnce
    BY <2>1 DEF BeginsOnce
  <2> QED BY <2>3, <2>4, <2>5
<1>11. CASE UNCHANGED vars
  BY <1>1, <1>2, <1>11, KeepsDecides DEF vars
<1> QED BY <1>3, <1>4, <1>5, <1>6, <1>7, <1>8, <1>9, <1>10, <1>11 DEF Next

\* The connections, the phase and the clock.
LEMMA ServerPreserved ==
  ASSUME IInv, [Next]_vars
  PROVE  ServerOk'
<1>1. ServerOk
  BY DEF IInv
<1>2. ASSUME NEW c \in Conns, NEW pc \in {"none", "reading", "draining", "renderer", "closed"},
             conn' = [conn EXCEPT ![c].pc = pc], phase' = phase, clock' = clock
      PROVE  ServerOk'
  BY <1>1, <1>2 DEF ServerOk
<1>3. ASSUME NEW c \in Conns, Connect(c) \/ Read(c) \/ Connection(c)
      PROVE  ServerOk'
  <2>1. CASE Connect(c)
    BY <1>1, <2>1 DEF Connect, ServerOk
  <2>2. CASE Read(c)
    BY <1>1, <2>2 DEF Read, ServerOk
  <2>3. CASE Admit(c)
    BY <1>1, <2>3 DEF Admit, ServerOk
  <2>4. CASE StopsReading(c) \/ Redeems(c) \/ RendererEnds(c) \/ StopsAdmitting(c) \/ Joined(c)
    BY <1>2, <2>4 DEF StopsReading, Drains, Redeems, RendererEnds, StopsAdmitting, Joined, Cut
  <2> QED BY <1>3, <2>1, <2>2, <2>3, <2>4 DEF Connection
<1>4. ASSUME NEW n \in Frames, Request(n)
      PROVE  ServerOk'
  BY <1>1, <1>4 DEF Request, Malformed, Begin, Handled, Answer, ServerOk
<1>5. CASE Shutdown \/ AllEnded \/ CleanedUp
  BY <1>1, <1>5 DEF Shutdown, AllEnded, CleanedUp, ServerOk
<1>6. CASE GraceOver \/ Forced \/ AcceptFails
  <2>1. conn' \in [Conns -> [pc : {"none", "reading", "draining", "renderer", "closed"},
                             first : BOOLEAN]]
    BY <1>1, <1>6 DEF GraceOver, Forced, AcceptFails, AbortAll, Accepted, ServerOk
  <2> QED BY <1>1, <1>6, <2>1 DEF GraceOver, Forced, AcceptFails, ServerOk
<1>7. CASE Tick
  <2>1. conn' = conn /\ phase' = phase /\ clock' = clock + 1 /\ clock \in Nat
    BY <1>1, <1>7 DEF Tick, ServerOk
  <2>2. clock' \in Nat
    BY <2>1
  <2> QED BY <1>1, <2>1, <2>2 DEF ServerOk
<1>8. CASE UNCHANGED vars
  BY <1>1, <1>8 DEF vars, ServerOk
<1> QED BY <1>3, <1>4, <1>5, <1>6, <1>7, <1>8 DEF Next, Serve

\* The results and the memory.
LEMMA ResultsPreserved ==
  ASSUME IInv, [Next]_vars
  PROVE  ResultsOk'
<1>1. ResultsOk /\ clock \in Nat
  BY DEF IInv, ServerOk
<1>2. ASSUME cache' = cache, memory' = memory, clock' = clock
      PROVE  ResultsOk'
  BY <1>1, <1>2 DEF ResultsOk
<1>3. ASSUME Forgets
      PROVE  ResultsOk'
  BY <1>3, EmptyOk DEF Forgets, ResultsOk
<1>4. ASSUME NEW c \in Conns, Connect(c) \/ Read(c) \/ Connection(c)
      PROVE  ResultsOk'
  BY <1>2, <1>4 DEF Connect, Read, Connection, StopsReading, Redeems, RendererEnds,
       Admit, StopsAdmitting, Joined
<1>5. ASSUME NEW n \in Frames, Request(n)
      PROVE  ResultsOk'
  <2>1. CASE Begin(n)
    BY <2>1, BeginOk
  <2>2. CASE Handled(n)
    BY <2>2, HandledOk
  <2>3. CASE Malformed(n) \/ Answer(n)
    BY <1>2, <2>3 DEF Malformed, Answer
  <2> QED BY <1>5, <2>1, <2>2, <2>3 DEF Request
<1>6. CASE Shutdown \/ CleanedUp
  BY <1>2, <1>6 DEF Shutdown, CleanedUp
<1>7. CASE AllEnded \/ GraceOver \/ Forced \/ AcceptFails
  BY <1>3, <1>7 DEF AllEnded, GraceOver, Forced, AcceptFails
<1>8. CASE Tick
  <2>1. clock' = clock + 1 /\ cache' = cache /\ memory' = memory
    BY <1>8 DEF Tick
  <2>2. ASSUME NEW i, Must(memory, i, clock')
        PROVE  Must(memory, i, clock)
    <3>1. memory[i].at \in Nat
      BY <1>1, <2>2 DEF ResultsOk, MemoryOk, Must
    <3> QED BY <1>1, <2>1, <2>2, <3>1, ServerConstants DEF Must
  <2> QED BY <1>1, <2>1, <2>2 DEF ResultsOk, Holds
<1>9. CASE UNCHANGED vars
  BY <1>2, <1>9 DEF vars
<1> QED BY <1>4, <1>5, <1>6, <1>7, <1>8, <1>9 DEF Next, Serve

-----------------------------------------------------------------------------
(* The theorems.                                                           *)

-----------------------------------------------------------------------------
(* Which requests run on a connection.                                     *)

\* While a connection waits for its first frame none of its requests runs, and
\* a renderer's connection has had no other.
FirstComesAlone ==
  /\ \A c \in Conns : At(c, "renderer") => conn[c].first
  /\ \A n \in Frames : frames[n].pc \in TaskStates => ~conn[frames[n].conn].first

\* No request begins, and none changes its connection.
TasksStay ==
  \A n \in Frames' :
    frames'[n].pc \in TaskStates =>
      n \in Frames /\ frames[n].pc \in TaskStates /\ frames'[n].conn = frames[n].conn

\* A connection that waits for its first frame goes on to, or was that of a
\* renderer only if it did.
FirstsStay ==
  \A c \in Conns : conn'[c].first = conn[c].first /\ (At(c, "renderer")' => conn[c].first)

\* A request that runs has a connection.
LEMMA TaskHasConn ==
  ASSUME FramesOk, NEW n \in Frames, frames[n].pc \in TaskStates
  PROVE  frames[n].conn \in Conns
<1>1. frames[n] \in Open
  BY OpenFrame DEF TaskStates, Ends
<1> QED BY <1>1 DEF Open

LEMMA StayingKeepsFirst ==
  ASSUME FramesOk, FirstComesAlone, TasksStay, FirstsStay
  PROVE  FirstComesAlone'
BY TaskHasConn DEF FirstComesAlone, TasksStay, FirstsStay

LEMMA DecidingStays == FramesOk /\ OnlyDecides => TasksStay
<1> SUFFICES ASSUME FramesOk, OnlyDecides PROVE TasksStay
  OBVIOUS
<1>1. Frames' = Frames
  BY DEF OnlyDecides, Frames
<1> QED BY <1>1, DecidedOk DEF OnlyDecides, TasksStay

\* The steps of a request keep it where it is.
LEMMA RequestStays ==
  ASSUME FramesOk, NEW n \in Frames, Request(n)
  PROVE  /\ TasksStay
         /\ \A m \in Frames : frames'[m].pc # "aborted" \/ frames'[m] = frames[m]
<1>1. ASSUME NEW f, frames' = [frames EXCEPT ![n] = f],
             f.pc \in TaskStates => frames[n].pc \in TaskStates /\ f.conn = frames[n].conn,
             f.pc # "aborted"
      PROVE  /\ TasksStay
             /\ \A m \in Frames : frames'[m].pc # "aborted" \/ frames'[m] = frames[m]
  BY <1>1 DEF TasksStay, Frames, FramesOk
<1>2. ASSUME NEW pc \in Ends \ {"aborted"}, frames' = Decide({n}, pc)
      PROVE  /\ TasksStay
             /\ \A m \in Frames : frames'[m].pc # "aborted" \/ frames'[m] = frames[m]
  <2>1. frames' = [frames EXCEPT ![n] = Decided(pc)]
    BY <1>2 DEF Decide, Frames, FramesOk
  <2> QED BY <1>1, <1>2, <2>1, DecidedOk
<1>3. frames[n].pc \in TaskStates => frames[n] \in Open
  BY OpenFrame DEF TaskStates, Ends
<1>4. CASE Malformed(n) \/ Answer(n)
  BY <1>2, <1>4 DEF Malformed, Answer, Ends
<1>5. CASE Begin(n)
  <2>1. frames[n].pc = "stripe"
    BY <1>5 DEF Begin
  <2> DEFINE Goes == \E f : /\ frames' = [frames EXCEPT ![n] = f]
                            /\ f.conn = frames[n].conn
                            /\ f.pc \in {"replying", "handler"}
  <2>2. Goes
    <3>1. ASSUME NEW r, frames' = [frames EXCEPT ![n].pc = "replying", ![n].result = r]
          PROVE  Goes
      <4> DEFINE f == [frames[n] EXCEPT !.pc = "replying", !.result = r]
      <4>1. frames' = [frames EXCEPT ![n] = f]
        BY <3>1 DEF FramesOk, Frames
      <4>2. f.conn = frames[n].conn /\ f.pc = "replying"
        BY <1>3, <2>1 DEF Open, TaskStates
      <4> QED BY <4>1, <4>2
    <3>2. ASSUME frames' = [frames EXCEPT ![n].pc = "replying"]
          PROVE  Goes
      <4> DEFINE f == [frames[n] EXCEPT !.pc = "replying"]
      <4>1. f.conn = frames[n].conn /\ f.pc = "replying"
        BY <1>3, <2>1 DEF Open, TaskStates
      <4> QED BY <3>2, <4>1
    <3>3. ASSUME frames' = [frames EXCEPT ![n].pc = "handler", ![n].at = clock]
          PROVE  Goes
      <4> DEFINE f == [frames[n] EXCEPT !.pc = "handler", !.at = clock]
      <4>1. frames' = [frames EXCEPT ![n] = f]
        BY <3>3 DEF FramesOk, Frames
      <4>2. f.conn = frames[n].conn /\ f.pc = "handler"
        BY <1>3, <2>1 DEF Open, TaskStates
      <4> QED BY <4>1, <4>2
    <3> HIDE DEF Goes
    <3> PICK found : found = Lookup(Expired(cache, clock), frames[n].id, frames[n].payload)
      OBVIOUS
    <3>4. CASE found = "replay"
      <4>1. \E r : frames' = [frames EXCEPT ![n].pc = "replying", ![n].result = r]
        BY <1>5, <3>4 DEF Begin
      <4> QED BY <3>1, <4>1
    <3>5. CASE found = "mismatch"
      BY <1>5, <3>2, <3>5 DEF Begin, Step
    <3>6. CASE found = "miss"
      BY <1>5, <3>3, <3>6 DEF Begin
    <3> QED BY <3>4, <3>5, <3>6 DEF Lookup
  <2> QED BY <1>1, <2>1, <2>2 DEF TaskStates
<1>6. CASE Handled(n)
  <2>1. frames[n].pc = "handler"
    BY <1>6 DEF Handled
  <2>2. CASE frames[n].payload \in Large
    BY <1>2, <1>6, <2>2 DEF Handled, Ends
  <2>3. CASE frames[n].payload \notin Large
    <3> PICK r : r = RequestOf(n)
      OBVIOUS
    <3> DEFINE f == [frames[n] EXCEPT !.pc = "replying", !.at = 0, !.result = r]
    <3>1. frames' = [frames EXCEPT ![n].pc = "replying", ![n].at = 0, ![n].result = r]
      BY <1>6, <2>3 DEF Handled
    <3>2. frames' = [frames EXCEPT ![n] = f]
      BY <3>1 DEF FramesOk, Frames
    <3>3. f.conn = frames[n].conn /\ f.pc = "replying"
      BY <1>3, <2>1 DEF Open, TaskStates
    <3> QED BY <1>1, <2>1, <3>2, <3>3 DEF TaskStates
  <2> QED BY <2>2, <2>3
<1> QED BY <1>4, <1>5, <1>6 DEF Request

\* First frames come alone, whatever the connections do.
LEMMA FirstPreserved ==
  ASSUME IInv, FirstComesAlone, [Next]_vars
  PROVE  FirstComesAlone'
<1>1. FramesOk /\ PermitsOk /\ ServerOk
  BY DEF IInv
<1>2. UNCHANGED conn => FirstsStay
  BY DEF FirstsStay, FirstComesAlone, At
<1>3. ASSUME OnlyDecides, FirstsStay
      PROVE  FirstComesAlone'
  BY <1>1, <1>3, DecidingStays, StayingKeepsFirst
<1>4. ASSUME NEW c \in Conns, NEW pc, conn' = [conn EXCEPT ![c].pc = pc],
             pc = "renderer" => conn[c].first
      PROVE  FirstsStay
  BY <1>1, <1>4 DEF FirstsStay, FirstComesAlone, At, ServerOk
<1>5. ASSUME NEW c \in Conns, Cut(c)
      PROVE  FirstComesAlone'
  <2>1. conn' = [conn EXCEPT ![c].pc = "closed"]
    BY <1>5 DEF Cut
  <2>2. OnlyDecides
    BY <1>1, <1>5, CutDecides
  <2>3. FirstsStay
    BY <1>1, <2>1 DEF FirstsStay, FirstComesAlone, At, ServerOk
  <2> QED BY <1>3, <2>2, <2>3
<1>6. ASSUME NEW c \in Conns, Connect(c)
      PROVE  FirstComesAlone'
  <2>1. \E pc \in {"reading", "closed"} : conn' = [conn EXCEPT ![c].pc = pc]
    BY <1>6 DEF Connect
  <2> QED BY <1>1, <1>3, <1>4, <1>6, <2>1, KeepsDecides DEF Connect
<1>7. ASSUME NEW c \in Conns, Read(c)
      PROVE  FirstComesAlone'
  <2>1. TasksStay
    BY <1>1, <1>7, ReadOk DEF TasksStay, TaskStates
  <2> QED BY <1>1, <1>2, <1>7, <2>1, StayingKeepsFirst DEF Read
<1>8. ASSUME NEW c \in Conns, StopsReading(c) \/ Joined(c)
      PROVE  FirstComesAlone'
  BY <1>1, <1>3, <1>4, <1>8, KeepsDecides DEF StopsReading, Drains, Joined
<1>9. ASSUME NEW c \in Conns, Redeems(c)
      PROVE  FirstComesAlone'
  <2>1. CASE frames' = Decide(Batch(c), "lost") /\ conn[c].first
                       /\ conn' = [conn EXCEPT ![c].pc = "renderer"]
    <3>1. OnlyDecides
      BY <1>1, <2>1, DecideDecides DEF Ends
    <3> QED BY <1>3, <1>4, <2>1, <3>1
  <2> QED BY <1>5, <1>9, <2>1 DEF Redeems
<1>10. ASSUME NEW c \in Conns, Admit(c)
       PROVE  FirstComesAlone'
  <2>1. /\ conn' = [conn EXCEPT ![c].first = FALSE] /\ At(c, "reading")
        /\ frames' = [frames EXCEPT ![First(Batch(c))].pc = "stripe"]
        /\ Batch(c) # {}
    BY <1>10 DEF Admit, Step
  <2>2. First(Batch(c)) \in Batch(c)
    BY <1>1, <2>1, FirstIsRead
  <2> PICK n : n = First(Batch(c))
    OBVIOUS
  <2>3. n \in Frames /\ frames[n].conn = c /\ frames[n].pc = "read"
    BY <2>2 DEF Batch, Of
  <2>4. frames[n] \in Open
    BY <1>1, <2>3, OpenFrame DEF Ends
  <2>5. /\ Frames' = Frames /\ frames'[n].conn = c
        /\ \A m \in Frames \ {n} : frames'[m] = frames[m]
    BY <1>1, <2>1, <2>3, <2>4 DEF Frames, FramesOk, Open
  <2>6. \A d \in Conns : conn'[d].first = (conn[d].first /\ d # c) /\ conn'[d].pc = conn[d].pc
    BY <1>1, <2>1 DEF ServerOk
  <2>7. \A d \in Conns : At(d, "renderer")' => conn'[d].first
    BY <2>1, <2>6 DEF FirstComesAlone, At
  <2>8. ASSUME NEW m \in Frames', frames'[m].pc \in TaskStates
        PROVE  ~conn'[frames'[m].conn].first
    <3>1. CASE m = n
      BY <2>5, <2>6, <3>1
    <3>2. CASE m # n
      BY <1>1, <2>5, <2>6, <2>8, <3>2, TaskHasConn DEF FirstComesAlone
    <3> QED BY <3>1, <3>2
  <2> QED BY <2>7, <2>8 DEF FirstComesAlone, TaskStates
<1>11. ASSUME NEW c \in Conns, Connection(c)
       PROVE  FirstComesAlone'
  BY <1>5, <1>8, <1>9, <1>10, <1>11 DEF Connection, RendererEnds, StopsAdmitting
<1>12. ASSUME NEW n \in Frames, Request(n)
       PROVE  FirstComesAlone'
  <2>1. UNCHANGED conn
    BY <1>12 DEF Request, Malformed, Begin, Handled, Answer
  <2> QED BY <1>1, <1>2, <1>12, <2>1, RequestStays, StayingKeepsFirst
<1>13. ASSUME AbortAll
       PROVE  FirstComesAlone'
  <2>1. FirstsStay
    BY <1>1, <1>13 DEF AbortAll, FirstsStay, FirstComesAlone, At, ServerOk
  <2> QED BY <1>1, <1>3, <1>13, <2>1, AbortDecides
<1>14. ASSUME UNCHANGED <<conn, frames>>
       PROVE  FirstComesAlone'
  BY <1>1, <1>2, <1>3, <1>14, KeepsDecides
<1>15. CASE Shutdown \/ AcceptFails \/ Serve \/ Forced \/ Tick \/ UNCHANGED vars
  BY <1>13, <1>14, <1>15 DEF Shutdown, AcceptFails, Serve, AllEnded, GraceOver, CleanedUp,
       Forced, Tick, vars
<1> QED BY <1>6, <1>7, <1>11, <1>12, <1>15 DEF Next

\* A request that runs is aborted by a connection only if that has read more.
LEMMA CutAborts ==
  ASSUME FramesOk, NEW c, Cut(c), NEW n \in Frames, frames[n].pc \in TaskStates,
         frames'[n].pc = "aborted"
  PROVE  frames[n].conn = c
<1>1. CASE n \in Of(c, TaskStates)
  BY <1>1 DEF Of
<1>2. CASE n \notin Of(c, TaskStates)
  <2>1. n \notin Of(c, {"read"})
    BY DEF Of, TaskStates
  <2>2. frames'[n] = frames[n]
    BY <1>2, <2>1 DEF Cut
  <2> QED BY <2>2 DEF TaskStates
<1> QED BY <1>1, <1>2

LEMMA AbortsHaveReasons ==
  ASSUME IInv, FirstComesAlone, [Next]_vars, NEW n \in Frames,
         frames[n].pc \in TaskStates, frames'[n].pc = "aborted"
  PROVE  phase' \in {"late", "forced", "failed"} \/ Batch(frames[n].conn) # {}
<1>1. FramesOk /\ PermitsOk /\ ServerOk
  BY DEF IInv
<1>2. frames[n].pc \notin {"read", "aborted"} /\ frames'[n] # frames[n]
  BY DEF TaskStates
<1>3. frames[n].conn \in Conns
  BY <1>1, TaskHasConn
<1>4. ASSUME NEW c \in Conns, Cut(c)
      PROVE  frames[n].conn = c
  BY <1>1, <1>4, CutAborts
<1>5. ASSUME NEW c \in Conns, Connect(c) \/ Read(c) \/ StopsReading(c) \/ Joined(c)
      PROVE  FALSE
  BY <1>1, <1>2, <1>5, ReadOk DEF Connect, StopsReading, Drains, Joined
<1>6. ASSUME NEW c \in Conns, Redeems(c)
      PROVE  Batch(frames[n].conn) # {}
  <2>1. CASE Cut(c)
    BY <1>4, <1>6, <2>1 DEF Redeems
  <2>2. CASE frames' = Decide(Batch(c), "lost")
    BY <1>2, <2>2 DEF Decide, Batch, Of
  <2> QED BY <1>6, <2>1, <2>2 DEF Redeems
<1>7. ASSUME NEW c \in Conns, RendererEnds(c)
      PROVE  FALSE
  BY <1>3, <1>4, <1>7 DEF RendererEnds, FirstComesAlone
<1>8. ASSUME NEW c \in Conns, Admit(c)
      PROVE  FALSE
  <2>1. /\ frames' = [frames EXCEPT ![First(Batch(c))].pc = "stripe"]
        /\ First(Batch(c)) \in Batch(c)
    BY <1>1, <1>8, FirstIsRead DEF Admit, Step
  <2>2. n # First(Batch(c))
    BY <1>2, <2>1 DEF Batch, Of
  <2> QED BY <1>1, <1>2, <2>1, <2>2 DEF FramesOk, Frames
<1>9. ASSUME NEW c \in Conns, StopsAdmitting(c)
      PROVE  Batch(frames[n].conn) # {}
  BY <1>4, <1>9 DEF StopsAdmitting
<1>10. ASSUME NEW m \in Frames, Request(m)
       PROVE  FALSE
  BY <1>1, <1>2, <1>10, RequestStays
<1>11. CASE Shutdown \/ AcceptFails \/ Serve \/ Forced \/ Tick \/ UNCHANGED vars
  BY <1>2, <1>11 DEF Shutdown, AcceptFails, Serve, AllEnded, GraceOver, CleanedUp,
       Forced, Tick, vars
<1> QED BY <1>5, <1>6, <1>7, <1>8, <1>9, <1>10, <1>11 DEF Next, Connection

LEMMA Invariance == Spec => []IInv
<1>1. ASSUME IInv, [Next]_vars
      PROVE  IInv'
  BY <1>1, FramesPreserved, ServerPreserved, ResultsPreserved DEF IInv
<1> QED BY <1>1, InitOk, PTL DEF Spec

\* The state keeps its types and limits, and a request is answered with the
\* result of its own ID and payload (process_frame): for any connections and
\* frames, any order of the reads, and any sizes of the cache.
THEOREM AnswersStayOwn == Spec => []AnswersAreOwn
<1>1. ASSUME IInv
      PROVE  AnswersAreOwn
  <2>1. frames \in Seq(Frame)
    BY <1>1, FramesAreFrame DEF IInv, FramesOk
  <2>2. TypeOK
    BY <1>1, <2>1 DEF IInv, ServerOk, PermitsOk, ResultsOk, CacheOk, Fits, Orders, TypeOK
  <2>3. AnswersItsRequest
    BY <1>1 DEF IInv, FramesOk, FrameOk, AnswersItsRequest, RequestOf
  <2> QED BY <2>2, <2>3 DEF AnswersAreOwn
<1> QED BY <1>1, Invariance, PTL

\* No handler runs for an ID while another does, nor as long as its result must
\* be remembered (process_frame and the cache): for any number of retries, on
\* any connections, and for any capacity and time to live of the cache.
THEOREM RetriesNeverRunTwice == Spec => RetriesRunOnce
<1>1. ASSUME IInv, [Next]_vars
      PROVE  BeginsOnce
  BY <1>1, FramesPreserved
<1>2. BeginsOnce =>
        \A n \in Frames :
          (frames'[n].pc = "handler" /\ frames[n].pc # "handler") =>
            /\ ~MustRemember(frames[n].id)
            /\ \A m \in Frames : frames[m].pc = "handler" => frames[m].id # frames[n].id
  BY DEF BeginsOnce
<1> QED BY <1>1, <1>2, Invariance, PTL DEF Spec, RetriesRunOnce

\* A request that has its permits runs to its answer, unless the grace is over,
\* the daemon is forced to stop or fails to accept a connection (serve_inner),
\* or its own connection closes on a further frame that it has read
\* (connection_loop): whatever connections come and go, in whatever order the
\* frames of one read are admitted.
THEOREM AcceptedIsNotLost == Spec => AcceptedIsCompleted
<1>1. Init => FirstComesAlone
  BY DEF Init, FirstComesAlone, At, Frames
<1>2. IInv /\ FirstComesAlone /\ [Next]_vars => FirstComesAlone'
  BY FirstPreserved
<1> DEFINE Reason ==
      \A n \in Frames :
        (frames[n].pc \in TaskStates /\ frames'[n].pc = "aborted") =>
          \/ phase' \in {"late", "forced", "failed"}
          \/ Batch(frames[n].conn) # {}
<1>3. IInv /\ FirstComesAlone /\ [Next]_vars => [Reason]_vars
  BY AbortsHaveReasons
<1> QED BY <1>1, <1>2, <1>3, Invariance, PTL DEF Spec, AcceptedIsCompleted
=============================================================================
