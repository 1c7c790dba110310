------------------------------ MODULE LRUCache ------------------------------
(***************************************************************************)
(* One shard of the block or table cache of leveldb, util/cache.cc.  Every *)
(* method runs under the shard's mutex, so a method is one step; what is   *)
(* hard is the order in which clients look up, insert, erase and release.  *)
(*                                                                         *)
(* An entry is a member of Handles, allocated by an insertion and freed at *)
(* its last reference; a client that holds it may use it until then.  The  *)
(* hash table is what it computes, the entry of a key, and in_use_ is the  *)
(* cached entries that are not on the list lru_.                           *)
(***************************************************************************)
EXTENDS Integers, Sequences

CONSTANTS
    Handles,       \* LRUHandles that can be allocated
    CacheKeys,     \* keys
    Capacities,    \* capacities a shard may be given
    Charges,       \* what an entry may be charged
    NoHandle,      \* nullptr
    NoEntry,       \* what a handle holds before it is allocated
    MaxPins        \* bound on the handles clients hold of one entry

ASSUME CacheAssumption ==
    /\ NoHandle \notin Handles
    /\ Capacities \subseteq Nat /\ Charges \subseteq Nat /\ MaxPins \in Nat
    /\ NoEntry \notin [key : CacheKeys, charge : Charges, refs : Nat, inCache : BOOLEAN]

VARIABLES
    capacity,    \* capacity_; 0 turns the cache off
    entry,       \* each handle's LRUHandle: key, charge, refs, in_cache
    memory,      \* each handle's memory: "unused", "allocated" or "freed"
    table,       \* table_: the handle of a key, or NoHandle
    lru,         \* lru_: cached handles that no client holds, oldest first
    usage,       \* usage_
    pins         \* history: how many handles of an entry clients hold

cacheVars == <<capacity, entry, memory, table, lru, usage, pins>>

LRUHandle == [key : CacheKeys, charge : Charges, refs : Nat, inCache : BOOLEAN]

CacheInit ==
    /\ capacity = 0
    /\ entry = [h \in Handles |-> NoEntry]
    /\ memory = [h \in Handles |-> "unused"]
    /\ table = [k \in CacheKeys |-> NoHandle]
    /\ lru = <<>>
    /\ usage = 0
    /\ pins = [h \in Handles |-> 0]

\* LRU_Remove from lru_, where a handle is at most once.
Unlink(list, h) ==
    IF \E i \in DOMAIN list : list[i] = h
    THEN LET at == CHOOSE i \in DOMAIN list : list[i] = h
         IN [i \in 1 .. Len(list) - 1 |-> IF i < at THEN list[i] ELSE list[i + 1]]
    ELSE list

\* Unref of the handles in some: one reference less, and the memory is freed
\* with the last one.  Faulty variant: it is freed with any.
Unref(entries, some) ==
    [h \in Handles |-> IF h \in some THEN [entries[h] EXCEPT !.refs = @ - 1] ELSE entries[h]]
FreedByAnyway(entries, some) ==
    [h \in Handles |-> IF h \in some THEN "freed" ELSE memory[h]]
FreedBy(entries, some) ==
    [h \in Handles |-> IF h \in some /\ entries[h].refs = 1 THEN "freed" ELSE memory[h]]

\* FinishErase of the handles in some: out of the cache, and the cache's
\* reference with it.
OutOfCache(entries, some) ==
    Unref([h \in Handles |-> IF h \in some THEN [entries[h] EXCEPT !.inCache = FALSE]
                             ELSE entries[h]], some)

\* charges[n] is what the first n handles of a list are charged.
ChargeOf(entries, list, n) ==
    LET charges[i \in 0 .. Len(list)] ==
            IF i = 0 THEN 0 ELSE charges[i - 1] + entries[list[i]].charge
    IN charges[n]

\* Called when the shards are made.
SetCapacity(most) ==
    /\ \A h \in Handles : memory[h] = "unused"
    /\ capacity' = most
    /\ UNCHANGED <<entry, memory, table, lru, usage, pins>>

(***************************************************************************)
(* Insert.                                                                 *)
(***************************************************************************)
Old(k) == IF table[k] = NoHandle THEN {} ELSE {table[k]}

\* How many handles the loop evicts: until the usage fits or lru_ is empty.
IsEvicted(n, use, list) ==
    /\ n \in 0 .. Len(list)
    /\ n = Len(list) \/ use - ChargeOf(entry, list, n) <= capacity
    /\ \A m \in 0 .. n - 1 : use - ChargeOf(entry, list, m) > capacity

Insert(h, k, charge) ==
    LET olds == Old(k)
        list == Unlink(lru, table[k])
        use  == usage + charge - (IF olds = {} THEN 0 ELSE entry[table[k]].charge)
        new  == [key |-> k, charge |-> charge, refs |-> 2, inCache |-> TRUE]
    IN /\ capacity > 0
       /\ memory[h] = "unused"
       /\ \E n \in 0 .. Len(lru) :
             LET gone == olds \cup {list[i] : i \in 1 .. n}
             IN /\ IsEvicted(n, use, list)
                /\ entry' = [OutOfCache(entry, gone) EXCEPT ![h] = new]
                /\ memory' = [FreedBy(entry, gone) EXCEPT ![h] = "allocated"]
                /\ table' = [j \in CacheKeys |-> IF j = k THEN h
                                ELSE IF table[j] \in gone THEN NoHandle ELSE table[j]]
                /\ lru' = SubSeq(list, n + 1, Len(list))
                /\ usage' = use - ChargeOf(entry, list, n)
       /\ pins' = [pins EXCEPT ![h] = 1]
       /\ UNCHANGED capacity

\* A cache without capacity: the caller holds the only reference.
InsertUncached(h, k, charge) ==
    /\ capacity = 0
    /\ memory[h] = "unused"
    /\ entry' = [entry EXCEPT ![h] = [key |-> k, charge |-> charge, refs |-> 1, inCache |-> FALSE]]
    /\ memory' = [memory EXCEPT ![h] = "allocated"]
    /\ pins' = [pins EXCEPT ![h] = 1]
    /\ UNCHANGED <<capacity, table, lru, usage>>

(***************************************************************************)
(* Lookup, with Ref: the first client's handle takes the entry off lru_.   *)
(***************************************************************************)
Lookup(k) ==
    LET h == table[k]
    IN /\ h # NoHandle
       /\ pins[h] < MaxPins
       /\ lru' = IF entry[h].refs = 1 /\ entry[h].inCache THEN Unlink(lru, h) ELSE lru
       /\ entry' = [entry EXCEPT ![h].refs = @ + 1]
       /\ pins' = [pins EXCEPT ![h] = @ + 1]
       /\ UNCHANGED <<capacity, memory, table, usage>>

(***************************************************************************)
(* Release, with Unref: the last client's handle puts a cached entry back. *)
(* Faulty variant: it does not.                                            *)
(***************************************************************************)
ReleaseForgetsList(h) ==
    /\ pins[h] > 0
    /\ pins' = [pins EXCEPT ![h] = @ - 1]
    /\ entry' = Unref(entry, {h})
    /\ memory' = FreedBy(entry, {h})
    /\ UNCHANGED <<capacity, table, lru, usage>>
Release(h) ==
    /\ pins[h] > 0
    /\ pins' = [pins EXCEPT ![h] = @ - 1]
    /\ entry' = Unref(entry, {h})
    /\ memory' = FreedBy(entry, {h})
    /\ lru' = IF entry[h].inCache /\ entry[h].refs = 2 THEN Append(lru, h) ELSE lru
    /\ UNCHANGED <<capacity, table, usage>>

Erase(k) ==
    /\ table[k] # NoHandle
    /\ entry' = OutOfCache(entry, {table[k]})
    /\ memory' = FreedBy(entry, {table[k]})
    /\ table' = [table EXCEPT ![k] = NoHandle]
    /\ lru' = Unlink(lru, table[k])
    /\ usage' = usage - entry[table[k]].charge
    /\ UNCHANGED <<capacity, pins>>

Prune ==
    LET gone == {lru[i] : i \in DOMAIN lru}
    IN /\ lru # <<>>
       /\ entry' = OutOfCache(entry, gone)
       /\ memory' = FreedBy(entry, gone)
       /\ table' = [k \in CacheKeys |-> IF table[k] \in gone THEN NoHandle ELSE table[k]]
       /\ lru' = <<>>
       /\ usage' = usage - ChargeOf(entry, lru, Len(lru))
       /\ UNCHANGED <<capacity, pins>>

CacheNext ==
    \/ \E most \in Capacities : SetCapacity(most)
    \/ \E h \in Handles, k \in CacheKeys, charge \in Charges :
          Insert(h, k, charge) \/ InsertUncached(h, k, charge)
    \/ \E k \in CacheKeys : Lookup(k) \/ Erase(k)
    \/ \E h \in Handles : Release(h)
    \/ Prune

CacheSpec == CacheInit /\ [][CacheNext]_cacheVars

-----------------------------------------------------------------------------

(* The memory of an entry outlives every handle a client has and every key
   that finds it, through erasures, evictions and insertions over its key, and
   not longer: what nobody holds and nothing finds is freed, once. *)
HandlesPinned ==
    \A h \in Handles :
        /\ pins[h] > 0 => memory[h] = "allocated"
        /\ (\E k \in CacheKeys : table[k] = h) => memory[h] = "allocated"
        /\ memory[h] = "allocated" => pins[h] > 0 \/ \E k \in CacheKeys : table[k] = h

Cached == {h \in Handles : memory[h] = "allocated" /\ entry[h].inCache}

ChargeOfAll(some) ==
    LET charge[rest \in SUBSET some] ==
            IF rest = {} THEN 0
            ELSE LET h == CHOOSE h \in rest : TRUE IN entry[h].charge + charge[rest \ {h}]
    IN charge[some]

(* usage_ is what the cached entries are charged, and lru_ is those of them no
   client holds, so that a cache over its capacity can shrink: an entry in
   neither list, or charged twice, would stay or be counted for ever. *)
UsageAddsUp ==
    /\ usage = ChargeOfAll(Cached)
    /\ {lru[i] : i \in DOMAIN lru} = {h \in Cached : pins[h] = 0}
    /\ \A i, j \in DOMAIN lru : lru[i] = lru[j] => i = j

=============================================================================
