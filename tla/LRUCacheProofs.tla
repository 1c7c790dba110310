---------------------------- MODULE LRUCacheProofs ----------------------------
(***************************************************************************)
(* No client of a cache shard ever holds freed memory, no key finds it,    *)
(* nothing leaks, and the usage is what the cached entries are charged:    *)
(* for any handles, keys, capacities and charges, and lists of any length. *)
(***************************************************************************)
EXTENDS LRUCache, FiniteSetTheorems, SequenceTheorems, WellFoundedInduction, TLAPS

(* HandlesPinned alone is not inductive: whether a Release frees memory is
   decided by refs, which it does not mention.  Right says what refs counts,
   and that the table and in_cache agree. *)
Reference(cached) == IF cached THEN 1 ELSE 0

Typed(e, m, t, p) ==
    /\ e \in [Handles -> LRUHandle \cup {NoEntry}]
    /\ m \in [Handles -> {"unused", "allocated", "freed"}]
    /\ t \in [CacheKeys -> Handles \cup {NoHandle}]
    /\ p \in [Handles -> Nat]

Counted(e, m, p) ==
    \A h \in Handles :
        /\ m[h] = "allocated" => /\ e[h] \in LRUHandle
                                 /\ e[h].refs = p[h] + Reference(e[h].inCache)
                                 /\ e[h].refs > 0
        /\ m[h] # "allocated" => p[h] = 0

Found(e, m, t) ==
    /\ \A k \in CacheKeys : t[k] # NoHandle =>
          m[t[k]] = "allocated" /\ e[t[k]].inCache /\ e[t[k]].key = k
    /\ \A h \in Handles : m[h] = "allocated" /\ e[h].inCache => t[e[h].key] = h

Right(e, m, t, p) == Typed(e, m, t, p) /\ Counted(e, m, p) /\ Found(e, m, t)

(* lru_: each once, cached, and held by nobody. *)
Unheld(e, m, p, list) ==
    /\ list \in Seq(Handles)
    /\ \A i, j \in 1 .. Len(list) : list[i] = list[j] => i = j
    /\ \A i \in 1 .. Len(list) :
          m[list[i]] = "allocated" /\ e[list[i]].inCache /\ p[list[i]] = 0

CacheInv == Right(entry, memory, table, pins) /\ Unheld(entry, memory, pins, lru)

-----------------------------------------------------------------------------
(* What the operators of the model return. *)

LEMMA UnrefRecord ==
    ASSUME NEW r \in LRUHandle, r.refs > 0
    PROVE  LET s == [r EXCEPT !.refs = @ - 1]
           IN s \in LRUHandle /\ s.refs = r.refs - 1 /\ s.inCache = r.inCache /\ s.key = r.key
BY DEF LRUHandle

LEMMA RefRecord ==
    ASSUME NEW r \in LRUHandle
    PROVE  LET s == [r EXCEPT !.refs = @ + 1]
           IN s \in LRUHandle /\ s.refs = r.refs + 1 /\ s.inCache = r.inCache /\ s.key = r.key
BY DEF LRUHandle

LEMMA UncachedRecord ==
    ASSUME NEW r \in LRUHandle
    PROVE  LET s == [r EXCEPT !.inCache = FALSE]
           IN s \in LRUHandle /\ s.refs = r.refs /\ s.inCache = FALSE /\ s.key = r.key
BY DEF LRUHandle

(* FinishErase takes exactly the given handles out of the cache, and the
   cache's reference from each. *)
LEMMA OutOfCacheAt ==
    ASSUME NEW e, NEW some, NEW h \in Handles, h \in some, e[h] \in LRUHandle, e[h].refs > 0
    PROVE  LET s == OutOfCache(e, some)[h]
           IN s \in LRUHandle /\ s.refs = e[h].refs - 1 /\ ~s.inCache /\ s.key = e[h].key
<1> DEFINE off == [e[h] EXCEPT !.inCache = FALSE]
<1>1. off \in LRUHandle /\ off.refs = e[h].refs /\ off.inCache = FALSE /\ off.key = e[h].key
    BY UncachedRecord
<1>2. OutOfCache(e, some)[h] = [off EXCEPT !.refs = @ - 1]
    BY DEF OutOfCache, Unref
<1> HIDE DEF off
<1>3. LET s == [off EXCEPT !.refs = @ - 1]
      IN s \in LRUHandle /\ s.refs = off.refs - 1 /\ s.inCache = off.inCache /\ s.key = off.key
    BY <1>1, UnrefRecord
<1> QED BY <1>1, <1>2, <1>3

LEMMA OutOfCacheDomain ==
    ASSUME NEW e, NEW some
    PROVE  OutOfCache(e, some) = [h \in Handles |-> OutOfCache(e, some)[h]]
BY DEF OutOfCache, Unref

(* Unlinking takes out the one handle and keeps the rest. *)
LEMMA UnlinkKeeps ==
    ASSUME NEW list \in Seq(Handles), NEW h,
           \A i, j \in 1 .. Len(list) : list[i] = list[j] => i = j
    PROVE  LET left == Unlink(list, h)
           IN /\ left \in Seq(Handles)
              /\ \A i, j \in 1 .. Len(left) : left[i] = left[j] => i = j
              /\ \A i \in 1 .. Len(left) :
                    left[i] # h /\ \E j \in 1 .. Len(list) : left[i] = list[j]
<1>1. CASE ~\E i \in DOMAIN list : list[i] = h
    BY <1>1 DEF Unlink
<1>2. CASE \E i \in DOMAIN list : list[i] = h
    <2> DEFINE at == CHOOSE i \in DOMAIN list : list[i] = h
               left == [i \in 1 .. Len(list) - 1 |-> IF i < at THEN list[i] ELSE list[i + 1]]
    <2>1. at \in 1 .. Len(list) /\ list[at] = h
        BY <1>2
    <2>2. Unlink(list, h) = left
        BY <1>2 DEF Unlink
    <2> HIDE DEF at
    <2>3. Len(list) - 1 \in Nat
        BY <2>1
    <2>4. \A i \in 1 .. Len(list) - 1 : left[i] \in Handles
        BY <2>1
    <2>5. left \in Seq(Handles) /\ Len(left) = Len(list) - 1
        <3>1. left \in [1 .. Len(list) - 1 -> Handles]
            BY <2>4
        <3> HIDE DEF left
        <3> QED BY <3>1, <2>3
    <2>6. \A i, j \in 1 .. Len(list) - 1 : left[i] = left[j] => i = j
        BY <2>1
    <2>7. \A i \in 1 .. Len(list) - 1 :
             left[i] # h /\ \E j \in 1 .. Len(list) : left[i] = list[j]
        BY <2>1
    <2> QED BY <2>2, <2>5, <2>6, <2>7, ZenonT(30)
<1> QED BY <1>1, <1>2


-----------------------------------------------------------------------------
(* The two changes the operations are built from. *)

(* Taking cached entries out of the cache, as an overwriting insertion, an
   eviction, an erasure and a pruning do: those a client holds stay, the others
   are freed, and the table no longer finds them. *)
WithoutKeys(t, gone) == [k \in CacheKeys |-> IF t[k] \in gone THEN NoHandle ELSE t[k]]

LEMMA OutRight ==
    ASSUME Right(entry, memory, table, pins),
           NEW gone \in SUBSET Handles,
           \A h \in gone : memory[h] = "allocated" /\ entry[h].inCache
    PROVE  Right(OutOfCache(entry, gone), FreedBy(entry, gone), WithoutKeys(table, gone), pins)
<1> DEFINE e == OutOfCache(entry, gone)
           m == FreedBy(entry, gone)
           t == WithoutKeys(table, gone)
<1>1. \A h \in Handles : h \notin gone => e[h] = entry[h] /\ m[h] = memory[h]
    BY DEF OutOfCache, Unref, FreedBy
<1>2. \A h \in gone : /\ e[h] \in LRUHandle /\ e[h].refs = pins[h]
                      /\ ~e[h].inCache
                      /\ m[h] = IF pins[h] = 0 THEN "freed" ELSE "allocated"
    <2> SUFFICES ASSUME NEW h \in gone
                 PROVE  /\ e[h] \in LRUHandle /\ e[h].refs = pins[h]
                        /\ ~e[h].inCache
                        /\ m[h] = IF pins[h] = 0 THEN "freed" ELSE "allocated"
        OBVIOUS
    <2>1. /\ entry[h] \in LRUHandle /\ entry[h].refs > 0
          /\ entry[h].refs = pins[h] + 1 /\ pins[h] \in Nat
        BY DEF Right, Typed, Counted, Reference
    <2>2. e[h] \in LRUHandle /\ e[h].refs = pins[h] /\ ~e[h].inCache
        <3>1. h \in Handles /\ entry[h] \in LRUHandle /\ entry[h].refs > 0
            BY <2>1
        <3> DEFINE o == OutOfCache(entry, gone)[h]
        <3>3. o \in LRUHandle
            BY <3>1, OutOfCacheAt, ZenonT(30)
        <3>4. o.refs = entry[h].refs - 1
            BY <3>1, OutOfCacheAt, ZenonT(30)
        <3>5. ~o.inCache
            BY <3>1, OutOfCacheAt, ZenonT(30)
        <3>2. entry[h].refs - 1 = pins[h]
            BY <2>1
        <3> QED BY <3>2, <3>3, <3>4, <3>5
    <2>3. m[h] = IF pins[h] = 0 THEN "freed" ELSE "allocated"
        BY <2>1 DEF FreedBy
    <2> QED BY <2>2, <2>3
<1>3. /\ e = [h \in Handles |-> e[h]] /\ m = [h \in Handles |-> m[h]]
    BY OutOfCacheDomain DEF FreedBy
<1>4. \A k \in CacheKeys : t[k] = IF table[k] \in gone THEN NoHandle ELSE table[k]
    BY DEF WithoutKeys
<1>5. t = [k \in CacheKeys |-> t[k]]
    BY DEF WithoutKeys
<1> HIDE DEF e, m, t
<1>6. Typed(e, m, t, pins)
    <2>1. \A h \in Handles : e[h] \in LRUHandle \cup {NoEntry}
        BY <1>1, <1>2 DEF Right, Typed
    <2>2. \A h \in Handles : m[h] \in {"unused", "allocated", "freed"}
        BY <1>1, <1>2 DEF Right, Typed
    <2>3. \A k \in CacheKeys : t[k] \in Handles \cup {NoHandle}
        BY <1>4 DEF Right, Typed
    <2>4. e \in [Handles -> LRUHandle \cup {NoEntry}]
        BY <1>3, <2>1
    <2>5. m \in [Handles -> {"unused", "allocated", "freed"}]
        BY <1>3, <2>2
    <2>6. t \in [CacheKeys -> Handles \cup {NoHandle}]
        BY <1>5, <2>3
    <2> QED BY <2>4, <2>5, <2>6 DEF Right, Typed
<1>7. Counted(e, m, pins)
    <2> SUFFICES ASSUME NEW h \in Handles
                 PROVE  /\ m[h] = "allocated" =>
                              /\ e[h] \in LRUHandle
                              /\ e[h].refs = pins[h] + Reference(e[h].inCache)
                              /\ e[h].refs > 0
                        /\ m[h] # "allocated" => pins[h] = 0
        BY DEF Counted
    <2>1. pins[h] \in Nat
        BY DEF Right, Typed
    <2>2. CASE h \in gone
        BY <1>2, <2>1, <2>2 DEF Reference
    <2>3. CASE h \notin gone
        <3>1. e[h] = entry[h] /\ m[h] = memory[h]
            BY <1>1, <2>3
        <3> QED BY <3>1 DEF Right, Counted
    <2> QED BY <2>2, <2>3
<1>8. Found(e, m, t)
    <2>1. ASSUME NEW k \in CacheKeys, t[k] # NoHandle
          PROVE  m[t[k]] = "allocated" /\ e[t[k]].inCache /\ e[t[k]].key = k
        <3>1. t[k] = table[k] /\ table[k] \notin gone
            BY <2>1, <1>4
        <3>2. table[k] \in Handles
            BY <2>1, <3>1 DEF Right, Typed
        <3>3. e[table[k]] = entry[table[k]] /\ m[table[k]] = memory[table[k]]
            BY <3>1, <3>2, <1>1
        <3>4. /\ memory[table[k]] = "allocated" /\ entry[table[k]].inCache
              /\ entry[table[k]].key = k
            BY <2>1, <3>1 DEF Right, Found
        <3> QED BY <3>1, <3>3, <3>4
    <2>2. ASSUME NEW h \in Handles, m[h] = "allocated", e[h].inCache
          PROVE  t[e[h].key] = h
        <3>1. h \notin gone
            BY <2>2, <1>2
        <3>2. e[h] = entry[h] /\ memory[h] = "allocated"
            BY <3>1, <2>2, <1>1
        <3>3. entry[h].key \in CacheKeys /\ table[entry[h].key] = h
            BY <3>2, <2>2 DEF Right, Counted, Found, LRUHandle
        <3> QED BY <3>1, <3>2, <3>3, <1>4
    <2> QED BY <2>1, <2>2 DEF Found
<1> QED BY <1>6, <1>7, <1>8 DEF Right, e, m, t

(* A new entry under a key that finds nothing. *)
LEMMA NewRight ==
    ASSUME NEW e, NEW m, NEW t, NEW p, Right(e, m, t, p),
           NEW h \in Handles, NEW k \in CacheKeys, NEW new \in LRUHandle,
           m[h] # "allocated", t[k] = NoHandle, NoHandle \notin Handles,
           new.key = k, new.inCache, new.refs = 2
    PROVE  Right([e EXCEPT ![h] = new], [m EXCEPT ![h] = "allocated"],
                 [t EXCEPT ![k] = h], [p EXCEPT ![h] = 1])
<1>1. Typed([e EXCEPT ![h] = new], [m EXCEPT ![h] = "allocated"],
            [t EXCEPT ![k] = h], [p EXCEPT ![h] = 1])
    BY DEF Right, Typed
<1>2. Counted([e EXCEPT ![h] = new], [m EXCEPT ![h] = "allocated"], [p EXCEPT ![h] = 1])
    BY DEF Right, Typed, Counted, Reference
<1>3. Found([e EXCEPT ![h] = new], [m EXCEPT ![h] = "allocated"], [t EXCEPT ![k] = h])
    <2>1. \A g \in Handles \ {h} : m[g] = "allocated" => e[g].key \in CacheKeys
        BY DEF Right, Counted, LRUHandle
    <2>2. \A g \in Handles \ {h} : m[g] = "allocated" /\ e[g].inCache => e[g].key # k
        BY DEF Right, Found
    <2> QED BY <2>1, <2>2 DEF Right, Typed, Found
<1> QED BY <1>1, <1>2, <1>3 DEF Right

(* What is neither found nor held is not on the list. *)
LEMMA UncachedUnlisted ==
    ASSUME NEW e, NEW m, NEW p, NEW list, Unheld(e, m, p, list),
           NEW h, m[h] # "allocated" \/ p[h] # 0
    PROVE  \A i \in 1 .. Len(list) : list[i] # h
BY DEF Unheld

-----------------------------------------------------------------------------

LEMMA InitRight == CacheInit => CacheInv
<1> SUFFICES ASSUME CacheInit PROVE CacheInv
    OBVIOUS
<1>1. Right(entry, memory, table, pins)
    BY DEF CacheInit, Right, Typed, Counted, Found
<1>2. Unheld(entry, memory, pins, lru)
    BY DEF CacheInit, Unheld
<1> QED BY <1>1, <1>2 DEF CacheInv

LEMMA EraseRight ==
    ASSUME CacheInv, NEW k \in CacheKeys, Erase(k)
    PROVE  CacheInv'
<1> DEFINE h == table[k]
           gone == {h}
<1>1. /\ h \in Handles /\ memory[h] = "allocated" /\ entry[h].inCache /\ entry[h].key = k
    BY DEF CacheInv, Right, Typed, Found, Erase
<1>2. table' = WithoutKeys(table, gone)
    <2>1. \A j \in CacheKeys : table[j] = h => j = k
        BY <1>1 DEF CacheInv, Right, Found, Erase
    <2>2. table' = [j \in CacheKeys |-> IF j = k THEN NoHandle ELSE table[j]]
        BY DEF Erase, CacheInv, Right, Typed
    <2> QED BY <2>1, <2>2 DEF WithoutKeys
<1>3. /\ entry' = OutOfCache(entry, gone) /\ memory' = FreedBy(entry, gone)
      /\ lru' = Unlink(lru, h) /\ pins' = pins
    BY DEF Erase
<1>4. Right(OutOfCache(entry, gone), FreedBy(entry, gone), WithoutKeys(table, gone), pins)
    <2>1. gone \in SUBSET Handles /\ \A g \in gone : memory[g] = "allocated" /\ entry[g].inCache
        BY <1>1
    <2> HIDE DEF gone
    <2> QED BY <2>1, OutRight DEF CacheInv
<1>5. Right(entry', memory', table', pins')
    BY <1>2, <1>3, <1>4
<1>6. Unheld(entry', memory', pins', lru')
    <2> DEFINE left == Unlink(lru, h)
               e == OutOfCache(entry, gone)
               m == FreedBy(entry, gone)
    <2>1. /\ left \in Seq(Handles)
          /\ \A i, j \in 1 .. Len(left) : left[i] = left[j] => i = j
          /\ \A i \in 1 .. Len(left) : left[i] # h /\ \E j \in 1 .. Len(lru) : left[i] = lru[j]
        BY UnlinkKeeps DEF CacheInv, Unheld
    <2>2. \A g \in Handles : g # h => e[g] = entry[g] /\ m[g] = memory[g]
        BY DEF OutOfCache, Unref, FreedBy
    <2> HIDE DEF left, e, m
    <2>3. \A i \in 1 .. Len(left) : e[left[i]] = entry[left[i]] /\ m[left[i]] = memory[left[i]]
        BY <2>1, <2>2
    <2>4. Unheld(e, m, pins, left)
        BY <2>1, <2>3, SMTT(30) DEF CacheInv, Unheld
    <2> QED BY <1>3, <2>4 DEF left, e, m
<1> QED BY <1>5, <1>6 DEF CacheInv

LEMMA PruneRight ==
    ASSUME CacheInv, Prune
    PROVE  CacheInv'
<1> DEFINE gone == {lru[i] : i \in DOMAIN lru}
<1>1. /\ entry' = OutOfCache(entry, gone) /\ memory' = FreedBy(entry, gone)
      /\ table' = WithoutKeys(table, gone) /\ lru' = <<>> /\ pins' = pins
    BY DEF Prune, WithoutKeys
<1>2. gone \in SUBSET Handles /\ \A g \in gone : memory[g] = "allocated" /\ entry[g].inCache
    BY DEF CacheInv, Unheld
<1> HIDE DEF gone
<1>3. Right(OutOfCache(entry, gone), FreedBy(entry, gone), WithoutKeys(table, gone), pins)
    BY <1>2, OutRight DEF CacheInv
<1>4. Unheld(entry', memory', pins', lru')
    BY <1>1 DEF Unheld
<1>5. Right(entry', memory', table', pins')
    BY <1>1, <1>3
<1> QED BY <1>4, <1>5 DEF CacheInv

LEMMA InsertUncachedRight ==
    ASSUME CacheInv, NEW h \in Handles, NEW k \in CacheKeys, NEW charge \in Charges,
           InsertUncached(h, k, charge)
    PROVE  CacheInv'
<1> DEFINE new == [key |-> k, charge |-> charge, refs |-> 1, inCache |-> FALSE]
<1>1. /\ memory[h] = "unused" /\ entry' = [entry EXCEPT ![h] = new]
      /\ memory' = [memory EXCEPT ![h] = "allocated"] /\ pins' = [pins EXCEPT ![h] = 1]
      /\ table' = table /\ lru' = lru
    BY DEF InsertUncached
<1>2. new \in LRUHandle /\ new.refs = 1 /\ ~new.inCache
    BY CacheAssumption DEF LRUHandle, CacheAssumption
<1> HIDE DEF new
<1>3. Typed(entry', memory', table', pins')
    BY <1>1, <1>2 DEF CacheInv, Right, Typed
<1>4. Counted(entry', memory', pins')
    BY <1>1, <1>2 DEF CacheInv, Right, Typed, Counted, Reference
<1>5. Found(entry', memory', table')
    <2>1. \A g \in Handles : g # h => entry'[g] = entry[g] /\ memory'[g] = memory[g]
        BY <1>1 DEF CacheInv, Right, Typed
    <2>2. \A j \in CacheKeys : table[j] # NoHandle => table[j] \in Handles /\ table[j] # h
        BY <1>1 DEF CacheInv, Right, Typed, Found
    <2>3. entry'[h] = new
        BY <1>1 DEF CacheInv, Right, Typed
    <2> QED BY <1>1, <1>2, <2>1, <2>2, <2>3 DEF CacheInv, Right, Found
<1>6. Unheld(entry', memory', pins', lru')
    <2>1. \A g \in Handles : g # h => entry'[g] = entry[g] /\ memory'[g] = memory[g]
                                      /\ pins'[g] = pins[g]
        BY <1>1 DEF CacheInv, Right, Typed
    <2>2. \A i \in 1 .. Len(lru) : lru[i] # h /\ lru[i] \in Handles
        BY <1>1 DEF CacheInv, Unheld
    <2> QED BY <1>1, <2>1, <2>2 DEF CacheInv, Unheld
<1> QED BY <1>3, <1>4, <1>5, <1>6 DEF CacheInv, Right

LEMMA LookupRight ==
    ASSUME CacheInv, NEW k \in CacheKeys, Lookup(k)
    PROVE  CacheInv'
<1> DEFINE h == table[k]
           ref == [entry[h] EXCEPT !.refs = @ + 1]
<1>1. h \in Handles /\ memory[h] = "allocated" /\ entry[h].inCache
    BY DEF CacheInv, Right, Typed, Found, Lookup
<1>2. /\ entry' = [entry EXCEPT ![h] = ref]
      /\ pins' = [pins EXCEPT ![h] = pins[h] + 1]
      /\ memory' = memory /\ table' = table
      /\ lru' = IF entry[h].refs = 1 /\ entry[h].inCache THEN Unlink(lru, h) ELSE lru
    BY DEF Lookup
<1>3. /\ entry[h] \in LRUHandle /\ pins[h] \in Nat
      /\ entry[h].refs = pins[h] + 1
    BY <1>1 DEF CacheInv, Right, Typed, Counted, Reference
<1>4. /\ ref \in LRUHandle /\ ref.refs = entry[h].refs + 1
      /\ ref.inCache = entry[h].inCache /\ ref.key = entry[h].key
    BY <1>3, RefRecord
<1> HIDE DEF h, ref
<1>5. /\ entry'[h] = ref /\ pins'[h] = pins[h] + 1
      /\ \A g \in Handles : g # h => entry'[g] = entry[g] /\ pins'[g] = pins[g]
    BY <1>1, <1>2 DEF CacheInv, Right, Typed
<1>6. Typed(entry', memory', table', pins')
    BY <1>1, <1>2, <1>3, <1>4 DEF CacheInv, Right, Typed
<1>7. Counted(entry', memory', pins')
    <2>1. /\ entry'[h] \in LRUHandle /\ entry'[h].refs > 0
          /\ entry'[h].refs = pins'[h] + Reference(entry'[h].inCache)
        <3>1. Reference(entry'[h].inCache) = 1
            BY <1>1, <1>4, <1>5 DEF Reference
        <3> QED BY <1>3, <1>4, <1>5, <3>1
    <2>2. ASSUME NEW g \in Handles, g # h
          PROVE  /\ memory'[g] = "allocated" =>
                        /\ entry'[g] \in LRUHandle
                        /\ entry'[g].refs = pins'[g] + Reference(entry'[g].inCache)
                        /\ entry'[g].refs > 0
                 /\ memory'[g] # "allocated" => pins'[g] = 0
        <3>1. entry'[g] = entry[g] /\ pins'[g] = pins[g] /\ memory'[g] = memory[g]
            BY <1>2, <1>5, <2>2
        <3> QED BY <3>1 DEF CacheInv, Right, Counted
    <2>3. memory'[h] = "allocated"
        BY <1>1, <1>2
    <2> QED BY <2>1, <2>2, <2>3 DEF Counted
<1>8. Found(entry', memory', table')
    <2>1. \A g \in Handles : memory[g] = "allocated" =>
              entry'[g].key = entry[g].key /\ entry'[g].inCache = entry[g].inCache
        BY <1>1, <1>4, <1>5
    <2>2. \A j \in CacheKeys : table[j] # NoHandle => table[j] \in Handles
        BY DEF CacheInv, Right, Typed
    <2> QED BY <1>2, <2>1, <2>2 DEF CacheInv, Right, Found
<1>9. Unheld(entry', memory', pins', lru')
    <2>1. /\ lru' \in Seq(Handles)
          /\ \A i, j \in 1 .. Len(lru') : lru'[i] = lru'[j] => i = j
          /\ \A i \in 1 .. Len(lru') : lru'[i] # h /\ \E j \in 1 .. Len(lru) : lru'[i] = lru[j]
        <3>1. CASE pins[h] = 0
            <4>1. lru' = Unlink(lru, h)
                BY <1>1, <1>2, <1>3, <3>1
            <4>2. lru \in Seq(Handles) /\ \A i, j \in 1 .. Len(lru) : lru[i] = lru[j] => i = j
                BY DEF CacheInv, Unheld
            <4> QED BY <4>1, <4>2, UnlinkKeeps
        <3>2. CASE pins[h] # 0
            <4>1. lru' = lru
                BY <1>2, <1>3, <3>2
            <4>2. \A i \in 1 .. Len(lru) : lru[i] # h
                BY <3>2 DEF CacheInv, Unheld
            <4> QED BY <4>1, <4>2 DEF CacheInv, Unheld
        <3> QED BY <3>1, <3>2
    <2>2. \A i \in 1 .. Len(lru') : lru'[i] \in Handles
        BY <2>1
    <2> QED BY <1>2, <1>5, <2>1, <2>2 DEF CacheInv, Unheld
<1> QED BY <1>6, <1>7, <1>8, <1>9 DEF CacheInv, Right

LEMMA ReleaseRight ==
    ASSUME CacheInv, NEW h \in Handles, Release(h)
    PROVE  CacheInv'
<1> DEFINE unref == [entry[h] EXCEPT !.refs = @ - 1]
<1>1. /\ pins[h] > 0 /\ pins[h] \in Nat /\ memory[h] = "allocated"
      /\ entry[h] \in LRUHandle /\ entry[h].refs > 0
      /\ entry[h].refs = pins[h] + Reference(entry[h].inCache)
    BY DEF CacheInv, Right, Typed, Counted, Release
<1>2. /\ entry' = [g \in Handles |-> IF g \in {h} THEN [entry[g] EXCEPT !.refs = @ - 1] ELSE entry[g]]
      /\ memory' = [g \in Handles |-> IF g \in {h} /\ entry[g].refs = 1 THEN "freed" ELSE memory[g]]
      /\ pins' = [pins EXCEPT ![h] = pins[h] - 1] /\ table' = table
      /\ lru' = IF entry[h].inCache /\ entry[h].refs = 2 THEN Append(lru, h) ELSE lru
    BY DEF Release, Unref, FreedBy
<1>3. /\ unref \in LRUHandle /\ unref.refs = entry[h].refs - 1
      /\ unref.inCache = entry[h].inCache /\ unref.key = entry[h].key
    BY <1>1, UnrefRecord
<1>4. /\ entry'[h] = unref
      /\ memory'[h] = IF entry[h].refs = 1 THEN "freed" ELSE memory[h]
      /\ \A g \in Handles : g # h => entry'[g] = entry[g] /\ memory'[g] = memory[g]
      /\ entry' = [g \in Handles |-> entry'[g]] /\ memory' = [g \in Handles |-> memory'[g]]
    BY <1>2
<1>5. pins'[h] = pins[h] - 1 /\ \A g \in Handles : g # h => pins'[g] = pins[g]
    BY <1>2 DEF CacheInv, Right, Typed
<1> HIDE DEF unref
<1>6. Typed(entry', memory', table', pins')
    <2>1. \A g \in Handles : entry'[g] \in LRUHandle \cup {NoEntry}
        BY <1>3, <1>4 DEF CacheInv, Right, Typed
    <2>2. \A g \in Handles : memory'[g] \in {"unused", "allocated", "freed"}
        BY <1>4 DEF CacheInv, Right, Typed
    <2>3. entry' \in [Handles -> LRUHandle \cup {NoEntry}]
        BY <1>4, <2>1
    <2>4. memory' \in [Handles -> {"unused", "allocated", "freed"}]
        BY <1>4, <2>2
    <2>5. pins' \in [Handles -> Nat]
        BY <1>1, <1>2 DEF CacheInv, Right, Typed
    <2> QED BY <1>2, <2>3, <2>4, <2>5 DEF CacheInv, Right, Typed
<1>7. Counted(entry', memory', pins')
    <2>1. CASE entry[h].refs = 1
        <3>1. pins[h] = 1 /\ memory'[h] # "allocated"
            BY <1>1, <1>4, <2>1 DEF Reference
        <3> QED BY <1>4, <1>5, <3>1 DEF CacheInv, Right, Counted
    <2>2. CASE entry[h].refs # 1
        <3>1. memory'[h] = "allocated" /\ entry'[h] \in LRUHandle
            BY <1>1, <1>3, <1>4, <2>2
        <3>2. Reference(entry'[h].inCache) = Reference(entry[h].inCache)
            BY <1>3, <1>4
        <3>3. Reference(entry[h].inCache) \in Nat
            BY DEF Reference
        <3>4. entry'[h].refs = entry[h].refs - 1
            BY <1>3, <1>4
        <3>5. entry'[h].refs = pins'[h] + Reference(entry'[h].inCache)
            BY <1>1, <1>5, <3>2, <3>3, <3>4
        <3>6. entry[h].refs \in Nat
            BY <1>1 DEF LRUHandle
        <3>7. entry'[h].refs > 0
            BY <1>1, <2>2, <3>4, <3>6
        <3> QED BY <1>4, <1>5, <3>1, <3>5, <3>7 DEF CacheInv, Right, Counted
    <2> QED BY <2>1, <2>2
<1>8. Found(entry', memory', table')
    <2>1. entry[h].inCache => memory'[h] = "allocated"
        BY <1>1, <1>4 DEF Reference
    <2>2. \A g \in Handles : memory'[g] = "allocated" => memory[g] = "allocated"
        BY <1>1, <1>4
    <2>3. \A g \in Handles : memory[g] = "allocated" =>
              entry'[g].key = entry[g].key /\ entry'[g].inCache = entry[g].inCache
        BY <1>3, <1>4
    <2>4. \A j \in CacheKeys : table[j] # NoHandle => table[j] \in Handles
        BY DEF CacheInv, Right, Typed
    <2>5. ASSUME NEW j \in CacheKeys, table[j] # NoHandle
          PROVE  memory'[table[j]] = "allocated" /\ entry'[table[j]].inCache /\ entry'[table[j]].key = j
        <3>1. /\ table[j] \in Handles /\ memory[table[j]] = "allocated"
              /\ entry[table[j]].inCache /\ entry[table[j]].key = j
            BY <2>4, <2>5 DEF CacheInv, Right, Found
        <3>2. memory'[table[j]] = "allocated"
            BY <1>4, <2>1, <3>1
        <3> QED BY <2>3, <3>1, <3>2
    <2>6. ASSUME NEW g \in Handles, memory'[g] = "allocated", entry'[g].inCache
          PROVE  table[entry'[g].key] = g
        BY <2>2, <2>3, <2>6 DEF CacheInv, Right, Found
    <2> QED BY <1>2, <2>5, <2>6 DEF Found
<1>9. Unheld(entry', memory', pins', lru')
    <2>1. \A i \in 1 .. Len(lru) : lru[i] \in Handles /\ lru[i] # h
        BY <1>1 DEF CacheInv, Unheld
    <2>2. CASE entry[h].inCache /\ entry[h].refs = 2
        <3>1. lru' = Append(lru, h) /\ lru \in Seq(Handles)
            BY <1>2, <2>2 DEF CacheInv, Unheld
        <3>2. /\ lru' \in Seq(Handles) /\ Len(lru') = Len(lru) + 1 /\ Len(lru) \in Nat
              /\ lru'[Len(lru) + 1] = h
              /\ \A i \in 1 .. Len(lru) : lru'[i] = lru[i]
            BY <3>1
        <3>3. pins'[h] = 0 /\ memory'[h] = "allocated" /\ entry'[h].inCache
            <4>1. entry[h].refs = 2
                BY <2>2, Zenon
            <4>2. entry[h].inCache
                BY <2>2, Zenon
            <4>3. Reference(entry[h].inCache) = 1
                BY <4>2, Zenon DEF Reference
            <4>4. pins[h] = 1
                BY <1>1, <4>1, <4>3
            <4>5. pins'[h] = 0
                BY <1>5, <4>4
            <4>6. memory'[h] = "allocated"
                BY <1>1, <1>4, <4>1
            <4>7. entry'[h].inCache
                BY <1>3, <1>4, <4>2
            <4> QED BY <4>5, <4>6, <4>7
        <3>4. \A i \in 1 .. Len(lru') : i \in 1 .. Len(lru) \/ i = Len(lru) + 1
            BY <3>2
        <3>5. \A i, j \in 1 .. Len(lru') : lru'[i] = lru'[j] => i = j
            BY <2>1, <3>2, <3>4 DEF CacheInv, Unheld
        <3>6. \A i \in 1 .. Len(lru') :
                 memory'[lru'[i]] = "allocated" /\ entry'[lru'[i]].inCache /\ pins'[lru'[i]] = 0
            <4>1. ASSUME NEW i \in 1 .. Len(lru)
                  PROVE  /\ memory'[lru[i]] = "allocated" /\ entry'[lru[i]].inCache
                         /\ pins'[lru[i]] = 0
                <5>1. /\ memory'[lru[i]] = memory[lru[i]] /\ entry'[lru[i]] = entry[lru[i]]
                      /\ pins'[lru[i]] = pins[lru[i]]
                    BY <1>4, <1>5, <2>1
                <5> QED BY <5>1 DEF CacheInv, Unheld
            <4> QED BY <3>2, <3>3, <3>4, <4>1
        <3> QED BY <3>2, <3>5, <3>6 DEF Unheld
    <2>3. CASE ~(entry[h].inCache /\ entry[h].refs = 2)
        <3>1. lru' = lru
            BY <1>2, <2>3
        <3> QED BY <1>4, <1>5, <2>1, <3>1 DEF CacheInv, Unheld
    <2> QED BY <2>2, <2>3
<1> QED BY <1>6, <1>7, <1>8, <1>9 DEF CacheInv, Right

(* Insert: the entry of its key and the evicted ones go, the new one comes. *)
LEMMA InsertRight ==
    ASSUME CacheInv, NEW h \in Handles, NEW k \in CacheKeys, NEW charge \in Charges,
           Insert(h, k, charge)
    PROVE  CacheInv'
<1> DEFINE olds == Old(k)
           list == Unlink(lru, table[k])
           new  == [key |-> k, charge |-> charge, refs |-> 2, inCache |-> TRUE]
           Gone(n) == olds \cup {list[i] : i \in 1 .. n}
<1>1. PICK n \in 0 .. Len(lru) :
         /\ n \in 0 .. Len(list)
         /\ entry' = [OutOfCache(entry, Gone(n)) EXCEPT ![h] = new]
         /\ memory' = [FreedBy(entry, Gone(n)) EXCEPT ![h] = "allocated"]
         /\ table' = [j \in CacheKeys |-> IF j = k THEN h
                         ELSE IF table[j] \in Gone(n) THEN NoHandle ELSE table[j]]
         /\ lru' = SubSeq(list, n + 1, Len(list))
    BY DEF Insert, IsEvicted
<1>2. memory[h] = "unused" /\ pins' = [pins EXCEPT ![h] = 1]
    BY DEF Insert
<1> DEFINE gone == Gone(n)
           e == OutOfCache(entry, gone)
           m == FreedBy(entry, gone)
           t == WithoutKeys(table, gone)
<1>3. NoHandle \notin Handles /\ new \in LRUHandle /\ new.key = k /\ new.inCache /\ new.refs = 2
    BY CacheAssumption DEF CacheAssumption, LRUHandle
<1>4. /\ list \in Seq(Handles)
      /\ \A i, j \in 1 .. Len(list) : list[i] = list[j] => i = j
      /\ \A i \in 1 .. Len(list) :
            list[i] # table[k] /\ \E j \in 1 .. Len(lru) : list[i] = lru[j]
    BY UnlinkKeeps DEF CacheInv, Unheld
<1>5. olds \in SUBSET Handles /\ \A g \in olds : memory[g] = "allocated" /\ entry[g].inCache
    BY DEF Old, CacheInv, Right, Typed, Found
<1>6. \A g \in olds : g = table[k]
    BY DEF Old
<1>7. table[k] \in olds \/ table[k] = NoHandle
    BY DEF Old
<1> HIDE DEF olds, list, new
<1>8. \A i \in 1 .. Len(list) :
         /\ list[i] \in Handles /\ list[i] \notin olds /\ list[i] # h
         /\ memory[list[i]] = "allocated" /\ entry[list[i]].inCache /\ pins[list[i]] = 0
    BY <1>2, <1>4, <1>6 DEF CacheInv, Unheld
<1>9. /\ gone \in SUBSET Handles /\ h \notin gone
      /\ \A g \in gone : memory[g] = "allocated" /\ entry[g].inCache
    BY <1>1, <1>2, <1>5, <1>8
<1>10. /\ entry' = [e EXCEPT ![h] = new] /\ memory' = [m EXCEPT ![h] = "allocated"]
       /\ table' = [t EXCEPT ![k] = h]
    BY <1>1 DEF WithoutKeys
<1>11. t[k] = NoHandle
    BY <1>7 DEF WithoutKeys
<1>12. \A i \in 1 .. Len(list) : i > n => list[i] \notin gone
    BY <1>1, <1>4, <1>8
<1>13. \A g \in Handles : g \notin gone => e[g] = entry[g] /\ m[g] = memory[g]
    BY DEF OutOfCache, Unref, FreedBy
<1> HIDE DEF gone
<1>14. Right(e, m, t, pins)
    BY <1>9, OutRight DEF CacheInv
<1>15. m[h] = "unused"
    BY <1>2, <1>9, <1>13
<1> HIDE DEF e, m, t
<1>16. Right(entry', memory', table', pins')
    <2>1. Right([e EXCEPT ![h] = new], [m EXCEPT ![h] = "allocated"],
                [t EXCEPT ![k] = h], [pins EXCEPT ![h] = 1])
        BY <1>3, <1>11, <1>14, <1>15, NewRight
    <2> QED BY <1>2, <1>10, <2>1
<1>17. Unheld(entry', memory', pins', lru')
    <2>1. \A g \in Handles : g # h =>
             entry'[g] = e[g] /\ memory'[g] = m[g] /\ pins'[g] = pins[g]
        BY <1>2, <1>10, <1>14 DEF Right, Typed
    <2>2. /\ lru' \in Seq(Handles)
          /\ \A i \in 1 .. Len(lru') : i + n \in 1 .. Len(list) /\ lru'[i] = list[i + n]
        <3>1. n + 1 \in Int /\ Len(list) \in Int /\ \A i \in n + 1 .. Len(list) : list[i] \in Handles
            BY <1>1, <1>4, <1>8
        <3>2. /\ lru' \in Seq(Handles)
              /\ Len(lru') = IF n + 1 <= Len(list) THEN Len(list) - (n + 1) + 1 ELSE 0
              /\ \A i \in 1 .. Len(list) - (n + 1) + 1 : lru'[i] = list[n + 1 + i - 1]
            BY <1>1, <3>1, SubSeqProperties
        <3>3. n \in Nat /\ Len(list) \in Nat /\ n <= Len(list)
            BY <1>1, <1>4
        <3>4. Len(lru') = Len(list) - n
            BY <3>2, <3>3
        <3>5. ASSUME NEW i \in 1 .. Len(lru')
              PROVE  i + n \in 1 .. Len(list) /\ lru'[i] = list[i + n]
            BY <3>2, <3>3, <3>4
        <3> QED BY <3>2, <3>5
    <2>3. \A i, j \in 1 .. Len(lru') : lru'[i] = lru'[j] => i = j
        BY <1>1, <1>4, <2>2
    <2>4. ASSUME NEW i \in 1 .. Len(lru')
          PROVE  /\ memory'[lru'[i]] = "allocated" /\ entry'[lru'[i]].inCache
                 /\ pins'[lru'[i]] = 0
        <3> DEFINE g == lru'[i]
        <3>1. g = list[i + n] /\ i + n \in 1 .. Len(list) /\ i + n > n
            BY <1>1, <2>2
        <3> HIDE DEF g
        <3>2. /\ g \in Handles /\ g # h /\ g \notin gone
              /\ memory[g] = "allocated" /\ entry[g].inCache /\ pins[g] = 0
            BY <1>8, <1>12, <3>1
        <3>3. /\ memory'[g] = "allocated" /\ entry'[g].inCache /\ pins'[g] = 0
            BY <1>13, <2>1, <3>2
        <3> QED BY <3>3 DEF g
    <2> QED BY <2>2, <2>3, <2>4 DEF Unheld
<1> QED BY <1>16, <1>17 DEF CacheInv

-----------------------------------------------------------------------------

LEMMA StepRight == CacheInv /\ [CacheNext]_cacheVars => CacheInv'
<1> SUFFICES ASSUME CacheInv, [CacheNext]_cacheVars PROVE CacheInv'
    OBVIOUS
<1>1. ASSUME NEW most \in Capacities, SetCapacity(most) PROVE CacheInv'
    BY <1>1 DEF SetCapacity, CacheInv
<1>2. ASSUME NEW h \in Handles, NEW k \in CacheKeys, NEW charge \in Charges,
             Insert(h, k, charge)
      PROVE  CacheInv'
    BY <1>2, InsertRight
<1>3. ASSUME NEW h \in Handles, NEW k \in CacheKeys, NEW charge \in Charges,
             InsertUncached(h, k, charge)
      PROVE  CacheInv'
    BY <1>3, InsertUncachedRight
<1>4. ASSUME NEW k \in CacheKeys, Lookup(k) PROVE CacheInv'
    BY <1>4, LookupRight
<1>5. ASSUME NEW k \in CacheKeys, Erase(k) PROVE CacheInv'
    BY <1>5, EraseRight
<1>6. ASSUME NEW h \in Handles, Release(h) PROVE CacheInv'
    BY <1>6, ReleaseRight
<1>7. CASE Prune
    BY <1>7, PruneRight
<1>8. CASE UNCHANGED cacheVars
    BY <1>8 DEF cacheVars, CacheInv
<1> QED BY <1>1, <1>2, <1>3, <1>4, <1>5, <1>6, <1>7, <1>8 DEF CacheNext

LEMMA RightPins == CacheInv => HandlesPinned
<1> SUFFICES ASSUME CacheInv, NEW h \in Handles
             PROVE  /\ pins[h] > 0 => memory[h] = "allocated"
                    /\ (\E k \in CacheKeys : table[k] = h) => memory[h] = "allocated"
                    /\ memory[h] = "allocated" =>
                          pins[h] > 0 \/ \E k \in CacheKeys : table[k] = h
    BY DEF HandlesPinned
<1>1. pins[h] > 0 => memory[h] = "allocated"
    BY DEF CacheInv, Right, Counted
<1>2. (\E k \in CacheKeys : table[k] = h) => memory[h] = "allocated"
    BY CacheAssumption DEF CacheAssumption, CacheInv, Right, Found
<1>3. ASSUME memory[h] = "allocated", ~(pins[h] > 0)
      PROVE  \E k \in CacheKeys : table[k] = h
    <2>1. pins[h] = 0 /\ entry[h] \in LRUHandle /\ entry[h].refs > 0
          /\ entry[h].refs = pins[h] + Reference(entry[h].inCache)
        BY <1>3 DEF CacheInv, Right, Typed, Counted
    <2>2. entry[h].inCache
        BY <2>1 DEF Reference
    <2>3. entry[h].key \in CacheKeys /\ table[entry[h].key] = h
        BY <1>3, <2>1, <2>2 DEF CacheInv, Right, Found, LRUHandle
    <2> QED BY <2>3
<1> QED BY <1>1, <1>2, <1>3

(* HandlesPinned for every cache: LRUCache's reference counts (Ref, Unref and
   FinishErase of util/cache.cc) never free memory a client holds or a key
   finds, and always free what neither does. *)
THEOREM HandlesStayPinned == CacheSpec => []HandlesPinned
<1>1. CacheInit => CacheInv
    BY InitRight
<1>2. CacheInv /\ [CacheNext]_cacheVars => CacheInv'
    BY StepRight
<1>3. CacheInv => HandlesPinned
    BY RightPins
<1> QED BY <1>1, <1>2, <1>3, PTL DEF CacheSpec

-----------------------------------------------------------------------------
(* What handles are charged together, as the size of a set of units: a sum *)
(* that needs no recursion.                                                *)

Units(e, some) == {u \in some \X Nat : 1 <= u[2] /\ u[2] <= e[u[1]].charge}

Chargeable(e, some) == IsFiniteSet(some) /\ \A h \in some : e[h].charge \in Nat

LEMMA UnitsOfOne ==
    ASSUME NEW e, NEW h, e[h].charge \in Nat
    PROVE  IsFiniteSet(Units(e, {h})) /\ Cardinality(Units(e, {h})) = e[h].charge
<1> DEFINE n == e[h].charge
<1>1. IsFiniteSet(1 .. n) /\ Cardinality(1 .. n) = n
    <2>1. 1 \in Int /\ n \in Int /\ n >= 0
        OBVIOUS
    <2> HIDE DEF n
    <2>2. IsFiniteSet(1 .. n) /\ Cardinality(1 .. n) = IF 1 > n THEN 0 ELSE n - 1 + 1
        BY <2>1, FS_Interval
    <2> QED BY <2>1, <2>2
<1>2. IsFiniteSet({h}) /\ Cardinality({h}) = 1
    BY FS_Singleton
<1>3. IsFiniteSet({h} \X (1 .. n)) /\ Cardinality({h} \X (1 .. n)) = 1 * n
    BY <1>1, <1>2, FS_Product, ZenonT(30)
<1>4. Units(e, {h}) = {h} \X (1 .. n)
    BY DEF Units
<1>5. 1 * n = n
    OBVIOUS
<1> QED BY <1>3, <1>4, <1>5

LEMMA UnitsFinite ==
    ASSUME NEW e, NEW some, Chargeable(e, some)
    PROVE  IsFiniteSet(Units(e, some)) /\ Cardinality(Units(e, some)) \in Nat
<1> DEFINE parts == {Units(e, {h}) : h \in some}
           UnitsOf == [h \in some |-> Units(e, {h})]
<1>1. IsFiniteSet(parts)
    <2>1. UnitsOf \in Surjection(some, parts)
        BY DEF Surjection
    <2> QED BY <2>1, FS_Surjection DEF Chargeable
<1>2. \A part \in parts : IsFiniteSet(part)
    BY UnitsOfOne DEF Chargeable
<1>3. Units(e, some) = UNION parts
    BY DEF Units
<1> HIDE DEF parts
<1>4. IsFiniteSet(Units(e, some))
    BY <1>1, <1>2, <1>3, FS_UNION
<1> QED BY <1>4, FS_CardinalityType

LEMMA UnitsSplit ==
    ASSUME NEW e, NEW some, NEW more, Chargeable(e, some), Chargeable(e, more),
           some \cap more = {}
    PROVE  /\ Chargeable(e, some \cup more)
           /\ Cardinality(Units(e, some \cup more)) =
                 Cardinality(Units(e, some)) + Cardinality(Units(e, more))
<1>1. Units(e, some \cup more) = Units(e, some) \cup Units(e, more)
    BY DEF Units
<1>2. Units(e, some) \cap Units(e, more) = {}
    BY DEF Units
<1>3. /\ Cardinality(Units(e, some) \cup Units(e, more)) =
            Cardinality(Units(e, some)) + Cardinality(Units(e, more)) - Cardinality({})
      /\ Cardinality(Units(e, some)) \in Nat /\ Cardinality(Units(e, more)) \in Nat
    BY <1>2, UnitsFinite, FS_Union
<1>4. Cardinality({}) = 0
    BY FS_EmptySet
<1>5. Chargeable(e, some \cup more)
    BY FS_Union DEF Chargeable
<1> QED BY <1>1, <1>3, <1>4, <1>5

LEMMA UnitsSame ==
    ASSUME NEW e, NEW d, NEW some, \A h \in some : e[h].charge = d[h].charge
    PROVE  Units(e, some) = Units(d, some)
BY DEF Units

LEMMA NoUnits ==
    ASSUME NEW e
    PROVE  Cardinality(Units(e, {})) = 0
<1>1. Units(e, {}) = {}
    BY DEF Units
<1> QED BY <1>1, FS_EmptySet

(* The sum over a list, in the order of the list. *)
Prefix(list, n) == {list[i] : i \in 1 .. n}

Summed(e, list, g, i) == IF i = 0 THEN 0 ELSE g[i - 1] + e[list[i]].charge

LEMMA PrefixUnits ==
    ASSUME NEW e, NEW S, NEW list \in Seq(S),
           \A i \in 1 .. Len(list) : e[list[i]].charge \in Nat,
           \A i, j \in 1 .. Len(list) : list[i] = list[j] => i = j,
           NEW n \in 0 .. Len(list)
    PROVE  /\ Chargeable(e, Prefix(list, n))
           /\ Cardinality(Units(e, Prefix(list, n))) =
                 IF n = 0 THEN 0
                 ELSE Cardinality(Units(e, Prefix(list, n - 1))) + e[list[n]].charge
<1>0. Len(list) \in Nat
    BY LenProperties
<1>1. ASSUME NEW m \in 0 .. Len(list) PROVE Chargeable(e, Prefix(list, m))
    <2> DEFINE At == [i \in 1 .. m |-> list[i]]
    <2>1. IsFiniteSet(1 .. m)
        BY <1>0, FS_Interval
    <2>2. At \in Surjection(1 .. m, Prefix(list, m))
        BY DEF Surjection, Prefix
    <2>3. IsFiniteSet(Prefix(list, m))
        BY <2>1, <2>2, FS_Surjection
    <2>4. \A h \in Prefix(list, m) : e[h].charge \in Nat
        BY <1>0 DEF Prefix
    <2> QED BY <2>3, <2>4 DEF Chargeable
<1>2. CASE n = 0
    <2>1. Prefix(list, n) = {}
        BY <1>2 DEF Prefix
    <2> QED BY <1>1, <1>2, <2>1, NoUnits
<1>3. CASE n # 0
    <2>1. n \in 1 .. Len(list) /\ n - 1 \in 0 .. Len(list)
        BY <1>0, <1>3
    <2>2. Prefix(list, n) = Prefix(list, n - 1) \cup {list[n]}
        BY <2>1, <1>0 DEF Prefix
    <2>3. Prefix(list, n - 1) \cap {list[n]} = {}
        BY <2>1, <1>0 DEF Prefix
    <2>4. Chargeable(e, {list[n]})
        BY <2>1, FS_Singleton DEF Chargeable
    <2>5. Chargeable(e, Prefix(list, n - 1))
        BY <1>1, <2>1
    <2>6. Cardinality(Units(e, Prefix(list, n))) =
             Cardinality(Units(e, Prefix(list, n - 1))) + Cardinality(Units(e, {list[n]}))
        <3> DEFINE before == Prefix(list, n - 1)
                   last == {list[n]}
        <3>1. before \cap last = {} /\ Chargeable(e, before) /\ Chargeable(e, last)
            BY <2>3, <2>4, <2>5
        <3> HIDE DEF before, last
        <3>2. Cardinality(Units(e, before \cup last)) =
                 Cardinality(Units(e, before)) + Cardinality(Units(e, last))
            BY <3>1, UnitsSplit
        <3> QED BY <2>2, <3>2 DEF before, last
    <2>7. Cardinality(Units(e, {list[n]})) = e[list[n]].charge
        BY <2>1, UnitsOfOne
    <2> QED BY <1>1, <1>3, <2>6, <2>7
<1> QED BY <1>2, <1>3

LEMMA ChargeOfList ==
    ASSUME NEW e, NEW S, NEW list \in Seq(S),
           \A i \in 1 .. Len(list) : e[list[i]].charge \in Nat,
           \A i, j \in 1 .. Len(list) : list[i] = list[j] => i = j,
           NEW n \in 0 .. Len(list)
    PROVE  ChargeOf(e, list, n) = Cardinality(Units(e, Prefix(list, n)))
<1> DEFINE Sum == [i \in 0 .. Len(list) |-> Cardinality(Units(e, Prefix(list, i)))]
           IsSum(g) == g = [i \in 0 .. Len(list) |-> IF i = 0 THEN 0 ELSE g[i - 1] + e[list[i]].charge]
           sum == CHOOSE g : IsSum(g)
<1>0. Len(list) \in Nat
    BY LenProperties
<1>1. IsSum(Sum)
    <2>1. \A i \in 0 .. Len(list) :
             Sum[i] = IF i = 0 THEN 0 ELSE Sum[i - 1] + e[list[i]].charge
        <3> SUFFICES ASSUME NEW i \in 0 .. Len(list)
                     PROVE  Sum[i] = IF i = 0 THEN 0 ELSE Sum[i - 1] + e[list[i]].charge
            OBVIOUS
        <3>1. Cardinality(Units(e, Prefix(list, i))) =
                 IF i = 0 THEN 0
                 ELSE Cardinality(Units(e, Prefix(list, i - 1))) + e[list[i]].charge
            BY PrefixUnits
        <3>2. i # 0 => i - 1 \in 0 .. Len(list)
            BY <1>0
        <3> QED BY <3>1, <3>2
    <2> QED BY <2>1
<1>2. IsSum(sum)
    BY <1>1
<1>3. ChargeOf(e, list, n) = sum[n]
    BY DEF ChargeOf
<1> HIDE DEF sum
<1>4. sum[n] = Sum[n]
    <2> DEFINE Wrong == {i \in 0 .. Len(list) : sum[i] # Sum[i]}
    <2>1. SUFFICES ASSUME Wrong # {} PROVE FALSE
        OBVIOUS
    <2>2. Wrong \subseteq Nat
        BY <1>0
    <2>3. PICK i \in Wrong : \A j \in Wrong : ~(<<j, i>> \in OpToRel(<, Nat))
        <3> HIDE DEF Wrong
        <3> QED BY <2>1, <2>2, NatLessThanWellFounded, WFMin
    <2>4. i \in 0 .. Len(list) /\ sum[i] # Sum[i]
        OBVIOUS
    <2>5. sum[i] = IF i = 0 THEN 0 ELSE sum[i - 1] + e[list[i]].charge
        BY <1>2, <2>4
    <2>6. Sum[i] = IF i = 0 THEN 0 ELSE Sum[i - 1] + e[list[i]].charge
        BY <1>1, <2>4
    <2>7. i # 0 => sum[i - 1] = Sum[i - 1]
        <3>1. i # 0 => i - 1 \in 0 .. Len(list) /\ i - 1 < i /\ i - 1 \in Nat /\ i \in Nat
            BY <1>0, <2>4
        <3>2. i # 0 => <<i - 1, i>> \in OpToRel(<, Nat)
            BY <3>1 DEF OpToRel
        <3> QED BY <2>3, <3>1, <3>2
    <2> HIDE DEF Sum, IsSum
    <2> QED BY <2>4, <2>5, <2>6, <2>7
<1> QED BY <1>3, <1>4

(* The sum over a set, in whatever order its elements are chosen. *)
LEMMA ChargeOfSet ==
    ASSUME NEW some, Chargeable(entry, some)
    PROVE  ChargeOfAll(some) = Cardinality(Units(entry, some))
<1> DEFINE Sum == [rest \in SUBSET some |-> Cardinality(Units(entry, rest))]
           IsSum(g) == g = [rest \in SUBSET some |->
                              IF rest = {} THEN 0
                              ELSE LET h == CHOOSE h \in rest : TRUE
                                   IN entry[h].charge + g[rest \ {h}]]
           sum == CHOOSE g : IsSum(g)
<1>1. ASSUME NEW rest \in SUBSET some, rest # {}, NEW h \in rest
      PROVE  /\ rest \ {h} \in SUBSET some
             /\ Cardinality(Units(entry, rest)) =
                   entry[h].charge + Cardinality(Units(entry, rest \ {h}))
    <2> DEFINE left == rest \ {h}
               one == {h}
    <2>1. Chargeable(entry, left) /\ Chargeable(entry, one) /\ left \cap one = {}
        BY <1>1, FS_Subset, FS_Singleton DEF Chargeable
    <2>2. left \cup one = rest
        BY <1>1
    <2>3. Cardinality(Units(entry, one)) = entry[h].charge /\ entry[h].charge \in Nat
        BY <1>1, UnitsOfOne DEF Chargeable
    <2> HIDE DEF left, one
    <2>4. /\ Cardinality(Units(entry, left \cup one)) =
               Cardinality(Units(entry, left)) + Cardinality(Units(entry, one))
          /\ Cardinality(Units(entry, left)) \in Nat
        BY <2>1, UnitsSplit, UnitsFinite
    <2>5. left \in SUBSET some
        BY <1>1 DEF left
    <2>6. Cardinality(Units(entry, rest)) = entry[h].charge + Cardinality(Units(entry, left))
        <3>1. Cardinality(Units(entry, rest)) =
                 Cardinality(Units(entry, left)) + Cardinality(Units(entry, one))
            BY <2>2, <2>4
        <3>2. \A m, n \in Nat : m + n = n + m
            OBVIOUS
        <3> QED BY <2>3, <2>4, <3>1, <3>2
    <2> QED BY <2>5, <2>6 DEF left
<1>2. ASSUME NEW rest \in SUBSET some
      PROVE  Sum[rest] = IF rest = {} THEN 0
                         ELSE LET h == CHOOSE h \in rest : TRUE
                              IN entry[h].charge + Sum[rest \ {h}]
    <2>1. CASE rest = {}
        BY <2>1, NoUnits
    <2>2. CASE rest # {}
        <3> DEFINE h == CHOOSE h \in rest : TRUE
        <3>1. h \in rest
            BY <2>2
        <3> HIDE DEF h
        <3>2. Sum[rest] = entry[h].charge + Sum[rest \ {h}]
            BY <1>1, <2>2, <3>1
        <3> HIDE DEF Sum
        <3> QED BY <2>2, <3>2 DEF h
    <2> QED BY <2>1, <2>2
<1>3. IsSum(Sum)
    <2>1. Sum = [rest \in SUBSET some |-> Sum[rest]]
        OBVIOUS
    <2> HIDE DEF Sum
    <2> QED BY <1>2, <2>1
<1>4. IsSum(sum)
    <2> HIDE DEF IsSum
    <2> QED BY <1>3
<1>5. ChargeOfAll(some) = sum[some]
    BY DEF ChargeOfAll
<1> HIDE DEF sum
<1>6. ASSUME NEW rest \in SUBSET some, rest # {}
      PROVE  \E h \in rest : sum[rest] = entry[h].charge + sum[rest \ {h}]
    <2> DEFINE h == CHOOSE h \in rest : TRUE
    <2>1. h \in rest
        BY <1>6
    <2>2. sum[rest] = entry[h].charge + sum[rest \ {h}]
        BY <1>4, <1>6
    <2> HIDE DEF h
    <2> QED BY <2>1, <2>2
<1>7. sum[{}] = 0
    BY <1>4
<1>8. sum[some] = Sum[some]
    <2> DEFINE Wrong == {rest \in SUBSET some : sum[rest] # Sum[rest]}
               sizes == {Cardinality(rest) : rest \in Wrong}
    <2>1. SUFFICES ASSUME Wrong # {} PROVE FALSE
        OBVIOUS
    <2>2. \A rest \in SUBSET some : IsFiniteSet(rest) /\ Cardinality(rest) \in Nat
        BY FS_Subset, FS_CardinalityType DEF Chargeable
    <2>3. sizes \subseteq Nat /\ sizes # {}
        BY <2>1, <2>2
    <2>4. PICK n \in sizes : \A m \in sizes : ~(<<m, n>> \in OpToRel(<, Nat))
        <3> HIDE DEF sizes
        <3> QED BY <2>3, NatLessThanWellFounded, WFMin
    <2>5. PICK rest \in Wrong : n = Cardinality(rest)
        BY <2>4
    <2>6. rest \in SUBSET some /\ sum[rest] # Sum[rest]
        BY <2>5
    <2>7. rest # {}
        BY <1>7, <2>6, NoUnits
    <2>8. PICK h \in rest : sum[rest] = entry[h].charge + sum[rest \ {h}]
        BY <1>6, <2>6, <2>7
    <2>9. rest \ {h} \in SUBSET some /\ Sum[rest] = entry[h].charge + Sum[rest \ {h}]
        BY <1>1, <2>6, <2>7, <2>8
    <2>10. sum[rest \ {h}] # Sum[rest \ {h}]
        <3> HIDE DEF Sum
        <3> QED BY <2>6, <2>8, <2>9
    <2>11. Cardinality(rest \ {h}) = n - 1 /\ n \in Nat /\ n - 1 \in Nat
        <3>1. IsFiniteSet(rest) /\ Cardinality(rest) \in Nat /\ Cardinality(rest \ {h}) \in Nat
            BY <2>2, <2>6, <2>9
        <3>2. Cardinality(rest \ {h}) = Cardinality(rest) - 1
            BY <3>1, <2>8, FS_RemoveElement
        <3> QED BY <2>5, <3>1, <3>2
    <2>12. n - 1 \in sizes
        BY <2>9, <2>10, <2>11
    <2>13. <<n - 1, n>> \in OpToRel(<, Nat)
        BY <2>11 DEF OpToRel
    <2> QED BY <2>4, <2>12, <2>13
<1> QED BY <1>5, <1>8

-----------------------------------------------------------------------------
(* The cache and its usage.  CacheInv bounds lru_ from above; that nobody    *)
(* holds it and it is cached must also put an entry there.                   *)

AllListed(m, e, p, list) ==
    \A h \in Handles : m[h] = "allocated" /\ e[h].inCache /\ p[h] = 0 =>
        \E i \in 1 .. Len(list) : list[i] = h

UsageInv ==
    /\ IsFiniteSet(Cached)
    /\ usage = Cardinality(Units(entry, Cached))
    /\ AllListed(memory, entry, pins, lru)

LEMMA CachedChargeable ==
    ASSUME CacheInv, IsFiniteSet(Cached)
    PROVE  Chargeable(entry, Cached)
BY CacheAssumption
   DEF CacheAssumption, CacheInv, Right, Counted, LRUHandle, Cached, Chargeable

(* Unlinking takes nothing else out. *)
LEMMA UnlinkOnly ==
    ASSUME NEW list \in Seq(Handles), NEW h, NEW i \in 1 .. Len(list), list[i] # h
    PROVE  \E j \in 1 .. Len(Unlink(list, h)) : Unlink(list, h)[j] = list[i]
<1>1. CASE ~\E j \in DOMAIN list : list[j] = h
    BY <1>1 DEF Unlink
<1>2. CASE \E j \in DOMAIN list : list[j] = h
    <2> DEFINE at == CHOOSE j \in DOMAIN list : list[j] = h
               left == [j \in 1 .. Len(list) - 1 |-> IF j < at THEN list[j] ELSE list[j + 1]]
    <2>1. at \in 1 .. Len(list) /\ list[at] = h /\ Len(list) \in Nat
        BY <1>2, LenProperties
    <2>2. Unlink(list, h) = left
        BY <1>2 DEF Unlink
    <2> HIDE DEF at
    <2>3. Len(left) = Len(list) - 1
        <3>1. Len(list) - 1 \in Nat /\ DOMAIN left = 1 .. Len(list) - 1
            BY <2>1
        <3>2. left \in Seq(Handles)
            <4>1. \A j \in 1 .. Len(list) - 1 : left[j] \in Handles
                BY <2>1
            <4>2. left \in [1 .. Len(list) - 1 -> Handles]
                BY <4>1
            <4> HIDE DEF left
            <4> QED BY <3>1, <4>2
        <3> HIDE DEF left
        <3> QED BY <3>1, <3>2, LenProperties
    <2>4. CASE i < at
        BY <2>1, <2>2, <2>3, <2>4
    <2>5. CASE i > at
        <3>1. i - 1 \in 1 .. Len(list) - 1 /\ ~(i - 1 < at) /\ (i - 1) + 1 = i
            BY <2>1, <2>5
        <3>2. left[i - 1] = list[i]
            BY <3>1
        <3> QED BY <2>2, <2>3, <3>1, <3>2
    <2> QED BY <2>1, <2>4, <2>5
<1> QED BY <1>1, <1>2

(* Some cached entries go, and their charges with them. *)
LEMMA UsageWithout ==
    ASSUME CacheInv, UsageInv, NEW gone \in SUBSET Cached
    PROVE  /\ Chargeable(entry, Cached \ gone) /\ Chargeable(entry, gone)
           /\ Cardinality(Units(entry, gone)) \in Nat
           /\ Cardinality(Units(entry, Cached \ gone)) \in Nat
           /\ usage = Cardinality(Units(entry, Cached \ gone)) + Cardinality(Units(entry, gone))
<1> DEFINE rest == Cached \ gone
<1>1. Chargeable(entry, Cached)
    BY CachedChargeable DEF UsageInv
<1>2. Chargeable(entry, rest) /\ Chargeable(entry, gone) /\ rest \cap gone = {}
      /\ rest \cup gone = Cached
    BY <1>1, FS_Subset DEF Chargeable
<1> HIDE DEF rest
<1>3. Cardinality(Units(entry, rest \cup gone)) =
         Cardinality(Units(entry, rest)) + Cardinality(Units(entry, gone))
    BY <1>2, UnitsSplit
<1>4. Cardinality(Units(entry, rest)) \in Nat /\ Cardinality(Units(entry, gone)) \in Nat
    BY <1>2, UnitsFinite
<1>5. usage = Cardinality(Units(entry, rest)) + Cardinality(Units(entry, gone))
    BY <1>2, <1>3 DEF UsageInv
<1> QED BY <1>2, <1>4, <1>5 DEF rest

(* Nothing is cached or uncached, and no charge changes. *)
LEMMA UsageKept ==
    ASSUME UsageInv, Cached' = Cached, usage' = usage,
           \A h \in Cached : entry'[h].charge = entry[h].charge
    PROVE  IsFiniteSet(Cached') /\ usage' = Cardinality(Units(entry', Cached'))
<1>1. Units(entry', Cached) = Units(entry, Cached)
    BY UnitsSame
<1> QED BY <1>1 DEF UsageInv

(* What FinishErase and Unref leave cached. *)
LEMMA LeftCached ==
    ASSUME CacheInv, NEW gone \in SUBSET Cached,
           NEW e, NEW m, e = OutOfCache(entry, gone), m = FreedBy(entry, gone)
    PROVE  /\ {h \in Handles : m[h] = "allocated" /\ e[h].inCache} = Cached \ gone
           /\ \A h \in Handles \ gone : e[h] = entry[h] /\ m[h] = memory[h]
<1>1. \A h \in Handles \ gone : e[h] = entry[h] /\ m[h] = memory[h]
    BY DEF OutOfCache, Unref, FreedBy
<1>2. \A h \in gone : ~e[h].inCache
    <2> SUFFICES ASSUME NEW h \in gone PROVE ~e[h].inCache
        OBVIOUS
    <2>1. h \in Handles /\ entry[h] \in LRUHandle /\ entry[h].refs > 0
        BY DEF Cached, CacheInv, Right, Counted
    <2> QED BY <2>1, OutOfCacheAt
<1> QED BY <1>1, <1>2 DEF Cached

LEMMA EraseUsage ==
    ASSUME CacheInv, UsageInv, NEW k \in CacheKeys, Erase(k)
    PROVE  UsageInv'
<1> DEFINE h == table[k]
           gone == {h}
           rest == Cached \ gone
<1>1. /\ h \in Cached /\ h \in Handles /\ gone \in SUBSET Cached
      /\ entry[h].charge \in Nat
    <2>1. h \in Handles /\ memory[h] = "allocated" /\ entry[h].inCache
        BY DEF CacheInv, Right, Typed, Found, Erase
    <2>2. entry[h] \in LRUHandle
        BY <2>1 DEF CacheInv, Right, Counted
    <2> QED BY <2>1, <2>2, CacheAssumption DEF Cached, CacheAssumption, LRUHandle
<1>2. /\ entry' = OutOfCache(entry, gone) /\ memory' = FreedBy(entry, gone)
      /\ lru' = Unlink(lru, h) /\ pins' = pins /\ usage' = usage - entry[h].charge
    BY DEF Erase
<1>3. Cardinality(Units(entry, gone)) = entry[h].charge
    BY <1>1, UnitsOfOne
<1> HIDE DEF h, gone
<1>4. Cached' = rest /\ \A g \in Handles \ gone : entry'[g] = entry[g] /\ memory'[g] = memory[g]
    BY <1>1, <1>2, LeftCached DEF Cached
<1>5. /\ Chargeable(entry, rest) /\ Cardinality(Units(entry, rest)) \in Nat
      /\ usage = Cardinality(Units(entry, rest)) + Cardinality(Units(entry, gone))
    BY <1>1, UsageWithout
<1>6. IsFiniteSet(Cached') /\ usage' = Cardinality(Units(entry', Cached'))
    <2>1. Units(entry', rest) = Units(entry, rest)
        BY <1>4, UnitsSame DEF Cached
    <2> QED BY <1>1, <1>2, <1>3, <1>4, <1>5, <2>1 DEF Chargeable
<1>7. AllListed(memory', entry', pins', lru')
    <2> SUFFICES ASSUME NEW g \in Cached', pins'[g] = 0
                 PROVE  \E i \in 1 .. Len(lru') : lru'[i] = g
        BY DEF AllListed, Cached
    <2>1. g \in Cached /\ g # h /\ pins[g] = 0
        BY <1>2, <1>4 DEF gone
    <2>2. PICK i \in 1 .. Len(lru) : lru[i] = g
        BY <2>1 DEF UsageInv, AllListed, Cached
    <2> QED BY <1>2, <2>1, <2>2, UnlinkOnly DEF CacheInv, Unheld
<1> QED BY <1>6, <1>7 DEF UsageInv

LEMMA PruneUsage ==
    ASSUME CacheInv, UsageInv, Prune
    PROVE  UsageInv'
<1> DEFINE gone == {lru[i] : i \in DOMAIN lru}
           rest == Cached \ gone
<1>1. /\ lru \in Seq(Handles) /\ Len(lru) \in Nat /\ DOMAIN lru = 1 .. Len(lru)
      /\ \A i, j \in 1 .. Len(lru) : lru[i] = lru[j] => i = j
      /\ \A i \in 1 .. Len(lru) : lru[i] \in Cached
    BY LenProperties DEF CacheInv, Unheld, Cached
<1>2. gone \in SUBSET Cached /\ gone = Prefix(lru, Len(lru))
    BY <1>1 DEF Prefix
<1>3. /\ entry' = OutOfCache(entry, gone) /\ memory' = FreedBy(entry, gone)
      /\ pins' = pins /\ usage' = usage - ChargeOf(entry, lru, Len(lru))
    BY DEF Prune
<1>4. ChargeOf(entry, lru, Len(lru)) = Cardinality(Units(entry, gone))
    <2>1. \A i \in 1 .. Len(lru) : entry[lru[i]].charge \in Nat
        BY <1>1, CachedChargeable DEF UsageInv, Chargeable
    <2>2. Len(lru) \in 0 .. Len(lru)
        BY <1>1
    <2> HIDE DEF gone
    <2> QED BY <1>1, <1>2, <2>1, <2>2, ChargeOfList, ZenonT(30)
<1>5. ASSUME NEW g \in Cached, pins[g] = 0 PROVE g \in gone
    BY <1>1, <1>5 DEF UsageInv, AllListed, Cached
<1> HIDE DEF gone
<1>6. Cached' = rest /\ \A g \in Handles \ gone : entry'[g] = entry[g] /\ memory'[g] = memory[g]
    BY <1>2, <1>3, LeftCached DEF Cached
<1>7. /\ Chargeable(entry, rest) /\ Cardinality(Units(entry, rest)) \in Nat
      /\ usage = Cardinality(Units(entry, rest)) + Cardinality(Units(entry, gone))
      /\ Cardinality(Units(entry, gone)) \in Nat
    BY <1>2, UsageWithout
<1>8. IsFiniteSet(Cached') /\ usage' = Cardinality(Units(entry', Cached'))
    <2>1. Units(entry', rest) = Units(entry, rest)
        BY <1>6, UnitsSame DEF Cached
    <2> QED BY <1>3, <1>4, <1>6, <1>7, <2>1 DEF Chargeable
<1>9. AllListed(memory', entry', pins', lru')
    BY <1>3, <1>5, <1>6 DEF AllListed, Cached
<1> QED BY <1>8, <1>9 DEF UsageInv

LEMMA InsertUncachedUsage ==
    ASSUME CacheInv, UsageInv, NEW h \in Handles, NEW k \in CacheKeys, NEW charge \in Charges,
           InsertUncached(h, k, charge)
    PROVE  UsageInv'
<1>1. /\ memory[h] = "unused" /\ lru' = lru /\ usage' = usage
      /\ entry' = [entry EXCEPT ![h] = [key |-> k, charge |-> charge, refs |-> 1, inCache |-> FALSE]]
      /\ memory' = [memory EXCEPT ![h] = "allocated"] /\ pins' = [pins EXCEPT ![h] = 1]
    BY DEF InsertUncached
<1>2. /\ \A g \in Handles \ {h} :
            entry'[g] = entry[g] /\ memory'[g] = memory[g] /\ pins'[g] = pins[g]
      /\ entry'[h].inCache = FALSE
    BY <1>1 DEF CacheInv, Right, Typed
<1>3. Cached' = Cached /\ h \notin Cached
    BY <1>1, <1>2 DEF Cached
<1>4. IsFiniteSet(Cached') /\ usage' = Cardinality(Units(entry', Cached'))
    BY <1>1, <1>2, <1>3, UsageKept DEF Cached
<1>5. AllListed(memory', entry', pins', lru')
    BY <1>1, <1>2 DEF UsageInv, AllListed
<1> QED BY <1>4, <1>5 DEF UsageInv

LEMMA LookupUsage ==
    ASSUME CacheInv, UsageInv, NEW k \in CacheKeys, Lookup(k)
    PROVE  UsageInv'
<1> DEFINE h == table[k]
<1>1. /\ h \in Handles /\ memory' = memory /\ usage' = usage
      /\ lru' = (IF entry[h].refs = 1 /\ entry[h].inCache THEN Unlink(lru, h) ELSE lru)
      /\ entry' = [entry EXCEPT ![h].refs = @ + 1] /\ pins' = [pins EXCEPT ![h] = @ + 1]
      /\ entry[h] \in LRUHandle /\ pins[h] \in Nat
    BY DEF Lookup, CacheInv, Right, Typed, Found, Counted
<1> HIDE DEF h
<1>2. /\ \A g \in Handles \ {h} : entry'[g] = entry[g] /\ pins'[g] = pins[g]
      /\ entry'[h].inCache = entry[h].inCache /\ entry'[h].charge = entry[h].charge
      /\ pins'[h] # 0
    BY <1>1 DEF CacheInv, Right, Typed, LRUHandle
<1>3. Cached' = Cached
    BY <1>1, <1>2 DEF Cached
<1>4. IsFiniteSet(Cached') /\ usage' = Cardinality(Units(entry', Cached'))
    <2>1. \A g \in Cached : entry'[g].charge = entry[g].charge
        BY <1>2 DEF Cached
    <2> QED BY <1>1, <1>3, <2>1, UsageKept
<1>5. AllListed(memory', entry', pins', lru')
    <2> SUFFICES ASSUME NEW g \in Cached', pins'[g] = 0
                 PROVE  \E i \in 1 .. Len(lru') : lru'[i] = g
        BY DEF AllListed, Cached
    <2>1. g \in Cached /\ g # h /\ pins[g] = 0
        BY <1>2, <1>3 DEF Cached
    <2>2. PICK i \in 1 .. Len(lru) : lru[i] = g
        BY <2>1 DEF UsageInv, AllListed, Cached
    <2>3. \E j \in 1 .. Len(Unlink(lru, h)) : Unlink(lru, h)[j] = g
        BY <2>1, <2>2, UnlinkOnly DEF CacheInv, Unheld
    <2>4. \E i2 \in 1 .. Len(lru) : lru[i2] = g
        BY <2>2
    <2>5. CASE entry[h].refs = 1 /\ entry[h].inCache
        BY <1>1, <2>3, <2>5
    <2>6. CASE ~(entry[h].refs = 1 /\ entry[h].inCache)
        BY <1>1, <2>4, <2>6
    <2> QED BY <2>5, <2>6
<1> QED BY <1>4, <1>5 DEF UsageInv

LEMMA ReleaseUsage ==
    ASSUME CacheInv, UsageInv, NEW h \in Handles, Release(h)
    PROVE  UsageInv'
<1>1. /\ pins[h] > 0 /\ pins[h] \in Nat /\ usage' = usage
      /\ pins' = [pins EXCEPT ![h] = @ - 1]
      /\ entry' = Unref(entry, {h}) /\ memory' = FreedBy(entry, {h})
      /\ lru' = IF entry[h].inCache /\ entry[h].refs = 2 THEN Append(lru, h) ELSE lru
    BY DEF Release, CacheInv, Right, Typed
<1>2. /\ memory[h] = "allocated" /\ entry[h] \in LRUHandle
      /\ entry[h].refs = pins[h] + Reference(entry[h].inCache)
    BY <1>1 DEF CacheInv, Right, Counted, Typed
<1>3. /\ \A g \in Handles \ {h} :
            entry'[g] = entry[g] /\ memory'[g] = memory[g] /\ pins'[g] = pins[g]
      /\ entry'[h].inCache = entry[h].inCache /\ entry'[h].charge = entry[h].charge
      /\ pins'[h] = pins[h] - 1
      /\ memory'[h] = (IF entry[h].refs = 1 THEN "freed" ELSE memory[h])
    BY <1>1, <1>2 DEF Unref, FreedBy, CacheInv, Right, Typed, LRUHandle
<1>4. entry[h].inCache => entry[h].refs # 1
    BY <1>1, <1>2 DEF Reference
<1>5. Cached' = Cached
    BY <1>3, <1>4 DEF Cached
<1>6. IsFiniteSet(Cached') /\ usage' = Cardinality(Units(entry', Cached'))
    <2>1. \A g \in Cached : entry'[g].charge = entry[g].charge
        BY <1>3 DEF Cached
    <2> QED BY <1>1, <1>5, <2>1, UsageKept
<1>7. AllListed(memory', entry', pins', lru')
    <2> SUFFICES ASSUME NEW g \in Cached', pins'[g] = 0
                 PROVE  \E i \in 1 .. Len(lru') : lru'[i] = g
        BY DEF AllListed, Cached
    <2>1. lru \in Seq(Handles) /\ Len(lru) \in Nat
        BY LenProperties DEF CacheInv, Unheld
    <2>2. /\ Len(Append(lru, h)) = Len(lru) + 1 /\ Append(lru, h)[Len(lru) + 1] = h
          /\ \A i \in 1 .. Len(lru) : Append(lru, h)[i] = lru[i]
        BY <2>1
    <2>3. CASE g = h
        <3>1. entry[h].inCache /\ pins[h] = 1
            BY <1>1, <1>3, <1>5, <2>3 DEF Cached
        <3>2. entry[h].refs = 2
            BY <1>2, <3>1 DEF Reference
        <3> QED BY <1>1, <2>1, <2>2, <2>3, <3>1, <3>2
    <2>4. CASE g # h
        <3>1. g \in Cached /\ pins[g] = 0
            BY <1>3, <1>5, <2>4 DEF Cached
        <3>2. PICK i \in 1 .. Len(lru) : lru[i] = g
            BY <3>1 DEF UsageInv, AllListed, Cached
        <3> QED BY <1>1, <2>1, <2>2, <3>2
    <2> QED BY <2>3, <2>4
<1> QED BY <1>6, <1>7 DEF UsageInv

(* Insert: the old entry of the key and the evicted ones go, the new comes. *)
LEMMA InsertUsage ==
    ASSUME CacheInv, UsageInv, NEW h \in Handles, NEW k \in CacheKeys, NEW charge \in Charges,
           Insert(h, k, charge)
    PROVE  UsageInv'
<1> DEFINE olds == Old(k)
           list == Unlink(lru, table[k])
           new  == [key |-> k, charge |-> charge, refs |-> 2, inCache |-> TRUE]
           Gone(n) == olds \cup {list[i] : i \in 1 .. n}
           freed == IF olds = {} THEN 0 ELSE entry[table[k]].charge
           use   == usage + charge - freed
<1>1. PICK n \in 0 .. Len(lru) :
         /\ n \in 0 .. Len(list)
         /\ entry' = [OutOfCache(entry, Gone(n)) EXCEPT ![h] = new]
         /\ memory' = [FreedBy(entry, Gone(n)) EXCEPT ![h] = "allocated"]
         /\ lru' = SubSeq(list, n + 1, Len(list))
         /\ usage' = use - ChargeOf(entry, list, n)
    <2>1. \E n \in 0 .. Len(lru) :
             /\ IsEvicted(n, use, list)
             /\ entry' = [OutOfCache(entry, Gone(n)) EXCEPT ![h] = new]
             /\ memory' = [FreedBy(entry, Gone(n)) EXCEPT ![h] = "allocated"]
             /\ lru' = SubSeq(list, n + 1, Len(list))
             /\ usage' = use - ChargeOf(entry, list, n)
        BY DEF Insert
    <2> QED BY <2>1 DEF IsEvicted
<1>2. memory[h] = "unused" /\ pins' = [pins EXCEPT ![h] = 1] /\ charge \in Nat
    BY CacheAssumption DEF Insert, CacheAssumption
<1> DEFINE first == Prefix(list, n)
           gone == olds \cup first
           rest == Cached \ gone
           e == OutOfCache(entry, gone)
           m == FreedBy(entry, gone)
<1>3. /\ list \in Seq(Handles)
      /\ \A i, j \in 1 .. Len(list) : list[i] = list[j] => i = j
      /\ \A i \in 1 .. Len(list) :
            list[i] # table[k] /\ \E j \in 1 .. Len(lru) : list[i] = lru[j]
    BY UnlinkKeeps DEF CacheInv, Unheld
<1>4. Len(list) \in Nat
    BY <1>3, LenProperties
<1>5. olds \in SUBSET Cached /\ (olds = {} \/ olds = {table[k]})
    BY DEF Old, CacheInv, Right, Typed, Found, Cached
<1>6. \A g \in Cached : g # table[k] /\ pins[g] = 0 => \E i \in 1 .. Len(list) : list[i] = g
    <2> SUFFICES ASSUME NEW g \in Cached, g # table[k], pins[g] = 0
                 PROVE  \E i \in 1 .. Len(list) : list[i] = g
        OBVIOUS
    <2>1. PICK i \in 1 .. Len(lru) : lru[i] = g
        BY DEF UsageInv, AllListed, Cached
    <2> QED BY <2>1, UnlinkOnly DEF CacheInv, Unheld
<1>7. table[k] \in Cached => olds = {table[k]}
    BY CacheAssumption DEF Old, Cached, CacheAssumption
<1> HIDE DEF olds, list
<1>8. \A i \in 1 .. Len(list) : list[i] \in Cached /\ list[i] \notin olds
    BY <1>3, <1>5, SMTT(30) DEF CacheInv, Unheld, Cached
<1>9. first \in SUBSET Cached /\ first \cap olds = {} /\ gone \in SUBSET Cached
    BY <1>1, <1>4, <1>5, <1>8 DEF Prefix
<1>10. h \notin Cached
    BY <1>2 DEF Cached
<1>11. entry' = [e EXCEPT ![h] = new] /\ memory' = [m EXCEPT ![h] = "allocated"]
    BY <1>1 DEF Prefix
<1>12. /\ Chargeable(entry, Cached) /\ Chargeable(entry, first) /\ Chargeable(entry, olds)
    <2>1. Chargeable(entry, Cached)
        BY CachedChargeable DEF UsageInv
    <2> QED BY <1>5, <1>9, <2>1, FS_Subset DEF Chargeable
<1>13. ChargeOf(entry, list, n) = Cardinality(Units(entry, first))
    <2>1. \A i \in 1 .. Len(list) : entry[list[i]].charge \in Nat
        BY <1>8, <1>12 DEF Chargeable
    <2>2. n \in 0 .. Len(list)
        BY <1>1
    <2>3. ChargeOf(entry, list, n) = Cardinality(Units(entry, Prefix(list, n)))
        <3>1. \A i, j \in 1 .. Len(list) : list[i] = list[j] => i = j
            BY <1>3
        <3>2. list \in Seq(Handles)
            BY <1>3
        <3> HIDE DEF first, gone, freed, use, rest, e, m, new
        <3> QED BY <2>1, <2>2, <3>1, <3>2, ChargeOfList, ZenonT(30)
    <2> QED BY <2>3
<1>14. freed = Cardinality(Units(entry, olds))
    <2>1. CASE olds = {}
        BY <2>1, NoUnits
    <2>2. CASE olds # {}
        <3>1. olds = {table[k]} /\ entry[table[k]].charge \in Nat
            BY <1>5, <1>12, <2>2 DEF Chargeable
        <3> QED BY <2>2, <3>1, UnitsOfOne
    <2> QED BY <2>1, <2>2
<1> HIDE DEF first, freed
<1>15. Cardinality(Units(entry, gone)) =
          Cardinality(Units(entry, olds)) + Cardinality(Units(entry, first))
    BY <1>9, <1>12, UnitsSplit, ZenonT(30)
<1>16. /\ Cardinality(Units(entry, olds)) \in Nat /\ Cardinality(Units(entry, first)) \in Nat
    BY <1>12, UnitsFinite
<1> HIDE DEF gone
<1>17. /\ {g \in Handles : m[g] = "allocated" /\ e[g].inCache} = rest
       /\ \A g \in Handles \ gone : e[g] = entry[g] /\ m[g] = memory[g]
    BY <1>9, LeftCached
<1>18. /\ Chargeable(entry, rest) /\ Cardinality(Units(entry, rest)) \in Nat
       /\ usage = Cardinality(Units(entry, rest)) + Cardinality(Units(entry, gone))
    BY <1>9, UsageWithout
<1>19. DOMAIN e = Handles /\ DOMAIN m = Handles
    BY DEF OutOfCache, Unref, FreedBy
<1> HIDE DEF e, m
<1>20. /\ \A g \in Handles \ {h} :
             entry'[g] = e[g] /\ memory'[g] = m[g] /\ pins'[g] = pins[g]
       /\ entry'[h] = new /\ memory'[h] = "allocated" /\ pins'[h] = 1
    BY <1>2, <1>11, <1>19 DEF CacheInv, Right, Typed
<1>21. Cached' = rest \cup {h} /\ h \notin rest
    BY <1>10, <1>17, <1>20 DEF Cached
<1>22. \A g \in rest : entry'[g] = entry[g]
    BY <1>17, <1>20, <1>21 DEF Cached
<1> HIDE DEF rest
<1>23. IsFiniteSet(Cached') /\ usage' = Cardinality(Units(entry', Cached'))
    <2>1. /\ Chargeable(entry', rest)
          /\ Cardinality(Units(entry', rest)) = Cardinality(Units(entry, rest))
        <3>1. Units(entry', rest) = Units(entry, rest)
            BY <1>22, UnitsSame
        <3> QED BY <1>18, <1>22, <3>1 DEF Chargeable
    <2>2. entry'[h].charge = charge
        BY <1>20
    <2>3. Chargeable(entry', {h}) /\ Cardinality(Units(entry', {h})) = charge
        BY <1>2, <2>2, FS_Singleton, UnitsOfOne DEF Chargeable
    <2>4. rest \cap {h} = {}
        BY <1>21
    <2>5. /\ Chargeable(entry', rest \cup {h})
          /\ Cardinality(Units(entry', rest \cup {h})) = Cardinality(Units(entry, rest)) + charge
        <3>1. PICK d : d = entry'
            OBVIOUS
        <3>2. Chargeable(d, rest) /\ Chargeable(d, {h})
            BY <2>1, <2>3, <3>1
        <3>3. /\ Chargeable(d, rest \cup {h})
              /\ Cardinality(Units(d, rest \cup {h})) =
                    Cardinality(Units(d, rest)) + Cardinality(Units(d, {h}))
            BY <2>4, <3>2, UnitsSplit
        <3> QED BY <2>1, <2>3, <3>1, <3>3
    <2>6. usage' = Cardinality(Units(entry, rest)) + charge
        <3>1. usage' = (usage + charge - freed) - ChargeOf(entry, list, n)
            BY <1>1, ZenonT(30)
        <3>2. charge \in Nat
            BY <1>2
        <3>3. /\ usage = Cardinality(Units(entry, rest)) + Cardinality(Units(entry, gone))
              /\ Cardinality(Units(entry, rest)) \in Nat
            BY <1>18
        <3> QED BY <1>13, <1>14, <1>15, <1>16, <3>1, <3>2, <3>3
    <2> QED BY <1>21, <2>5, <2>6 DEF Chargeable
<1>24. AllListed(memory', entry', pins', lru')
    <2> SUFFICES ASSUME NEW g \in Cached', pins'[g] = 0
                 PROVE  \E i \in 1 .. Len(lru') : lru'[i] = g
        BY DEF AllListed, Cached
    <2>1. g # h /\ g \in Cached /\ g \notin gone /\ pins[g] = 0
        BY <1>20, <1>21 DEF rest, Cached
    <2>2. g # table[k]
        BY <1>7, <2>1 DEF gone
    <2>3. PICK i \in 1 .. Len(list) : list[i] = g
        BY <1>6, <2>1, <2>2
    <2>4. i > n
        <3>1. i \notin 1 .. n
            BY <2>1, <2>3 DEF gone, first, Prefix
        <3> QED BY <1>1, <1>4, <2>3, <3>1
    <2>5. /\ Len(lru') = Len(list) - n
          /\ \A j \in 1 .. Len(list) - n : lru'[j] = list[n + j]
        <3>1. n \in Nat /\ n <= Len(list)
            BY <1>1, <1>4
        <3>2. n + 1 \in Int /\ Len(list) \in Int /\ \A j \in n + 1 .. Len(list) : list[j] \in Handles
            BY <1>3, <1>4, <1>8, <3>1 DEF Cached
        <3>3. /\ Len(lru') = IF n + 1 <= Len(list) THEN Len(list) - (n + 1) + 1 ELSE 0
              /\ \A j \in 1 .. Len(list) - (n + 1) + 1 : lru'[j] = list[n + 1 + j - 1]
            BY <1>1, <3>2, SubSeqProperties
        <3>4. Len(list) - (n + 1) + 1 = Len(list) - n
            BY <1>4, <3>1
        <3>5. \A j \in Nat : n + 1 + j - 1 = n + j
            BY <3>1
        <3>6. Len(lru') = Len(list) - n
            <4>1. n + 1 <= Len(list) \/ Len(list) - n = 0
                BY <1>4, <3>1
            <4> QED BY <3>3, <3>4, <4>1
        <3>7. \A j \in 1 .. Len(list) - n : lru'[j] = list[n + j]
            <4> SUFFICES ASSUME NEW j \in 1 .. Len(list) - n
                         PROVE  lru'[j] = list[n + j]
                OBVIOUS
            <4>1. j \in Nat /\ n + 1 + j - 1 = n + j
                BY <1>4, <3>1
            <4>2. j \in 1 .. Len(list) - (n + 1) + 1
                BY <3>4
            <4> QED BY <3>3, <4>1, <4>2
        <3> QED BY <3>6, <3>7
    <2>6. i - n \in 1 .. Len(list) - n /\ n + (i - n) = i
        BY <1>1, <1>4, <2>3, <2>4
    <2> QED BY <2>3, <2>5, <2>6
<1> QED BY <1>23, <1>24 DEF UsageInv

LEMMA StepUsage ==
    CacheInv /\ UsageInv /\ [CacheNext]_cacheVars => UsageInv'
<1> SUFFICES ASSUME CacheInv, UsageInv, [CacheNext]_cacheVars PROVE UsageInv'
    OBVIOUS
<1>1. ASSUME UNCHANGED <<entry, memory, lru, usage, pins>> PROVE UsageInv'
    BY <1>1 DEF UsageInv, Cached, Units, AllListed
<1>2. ASSUME NEW most \in Capacities, SetCapacity(most) PROVE UsageInv'
    BY <1>1, <1>2 DEF SetCapacity
<1>3. ASSUME NEW h \in Handles, NEW k \in CacheKeys, NEW charge \in Charges,
             Insert(h, k, charge) \/ InsertUncached(h, k, charge)
      PROVE  UsageInv'
    BY <1>3, InsertUsage, InsertUncachedUsage
<1>4. ASSUME NEW k \in CacheKeys, Lookup(k) \/ Erase(k) PROVE UsageInv'
    BY <1>4, LookupUsage, EraseUsage
<1>5. ASSUME NEW h \in Handles, Release(h) PROVE UsageInv'
    BY <1>5, ReleaseUsage
<1>6. CASE Prune
    BY <1>6, PruneUsage
<1>7. CASE UNCHANGED cacheVars
    BY <1>1, <1>7 DEF cacheVars
<1> QED BY <1>2, <1>3, <1>4, <1>5, <1>6, <1>7 DEF CacheNext

LEMMA InitUsage == CacheInit => UsageInv
<1> SUFFICES ASSUME CacheInit PROVE UsageInv
    OBVIOUS
<1>1. Cached = {} /\ usage = 0
    BY DEF CacheInit, Cached
<1>2. AllListed(memory, entry, pins, lru)
    BY DEF CacheInit, AllListed
<1> QED BY <1>1, <1>2, NoUnits, FS_EmptySet DEF UsageInv

(* UsageAddsUp for every cache: usage_ is what the cached entries are        *)
(* charged, and lru_ lists those that no client holds, each once             *)
(* (LRU_Append, LRU_Remove and FinishErase of util/cache.cc).                *)
THEOREM UsageIsCharged == CacheSpec => []UsageAddsUp
<1>1. CacheInv /\ UsageInv => UsageAddsUp
    <2> SUFFICES ASSUME CacheInv, UsageInv PROVE UsageAddsUp
        OBVIOUS
    <2>1. usage = ChargeOfAll(Cached)
        BY CachedChargeable, ChargeOfSet DEF UsageInv
    <2>2. lru \in Seq(Handles) /\ DOMAIN lru = 1 .. Len(lru)
        BY LenProperties DEF CacheInv, Unheld
    <2>3. {lru[i] : i \in DOMAIN lru} = {h \in Cached : pins[h] = 0}
        BY <2>2 DEF CacheInv, Unheld, UsageInv, AllListed, Cached
    <2>4. \A i, j \in DOMAIN lru : lru[i] = lru[j] => i = j
        BY <2>2 DEF CacheInv, Unheld
    <2> QED BY <2>1, <2>3, <2>4 DEF UsageAddsUp
<1> QED BY <1>1, InitRight, StepRight, InitUsage, StepUsage, PTL DEF CacheSpec

=============================================================================
