--------------------------- MODULE SkipListProofs ---------------------------
(***************************************************************************)
(* A skip list may be read without a lock while a node is linked in: its   *)
(* levels stay in order, each a part of the one below, and a reader passes *)
(* over no key that was there when it began, for any keys, heights and     *)
(* readers.                                                                *)
(***************************************************************************)
EXTENDS SkipList, WellFoundedInduction, TLAPS

Nodes == {HeadNode} \cup SkipKeys

Links == [Nodes -> SkipKeys \cup {End}]

LEMMA KeyOrder ==
    /\ MaxKey \in Nat \ {0} /\ MaxHeight \in Nat \ {0} /\ MaxReads \in Nat \ {0}
    /\ SkipKeys \subseteq Nat \ {0} /\ HeadNode = 0 /\ HeadNode \notin SkipKeys
    /\ End \in Nat \ {0} /\ End \notin SkipKeys /\ \A key \in SkipKeys : key < End
    /\ \A node \in Nodes \cup {End} : node \in Nat
    /\ \A key \in SkipKeys : key + 1 \in SkipKeys \cup {End}
BY SkipListAssumption DEF SkipKeys, HeadNode, End, Nodes

-----------------------------------------------------------------------------
(* The nodes that a level's links lead to. *)

LEMMA ReachableClosed ==
    ASSUME NEW links \in Links
    PROVE  Reachable(links) \subseteq SkipKeys /\ ClosedUnder(links, Reachable(links))
<1>1. Reachable(links) \subseteq SkipKeys
    BY DEF Reachable
<1>2. ASSUME NEW node \in {HeadNode} \cup Reachable(links), links[node] # End
      PROVE  links[node] \in Reachable(links)
    <2>1. links[node] \in SkipKeys
        BY <1>1, <1>2 DEF Links, Nodes
    <2>2. ASSUME NEW nodes \in SUBSET SkipKeys, ClosedUnder(links, nodes)
          PROVE  links[node] \in nodes
        <3>1. node \in {HeadNode} \cup nodes
            BY <2>2 DEF Reachable
        <3> QED BY <1>2, <2>2, <3>1 DEF ClosedUnder
    <2> QED BY <2>1, <2>2 DEF Reachable
<1> QED BY <1>1, <1>2 DEF ClosedUnder

LEMMA ReachableLeast ==
    ASSUME NEW links, NEW nodes \in SUBSET SkipKeys, ClosedUnder(links, nodes)
    PROVE  Reachable(links) \subseteq nodes
BY DEF Reachable

(* A link off the list leads nobody anywhere. *)
LEMMA OffTheList ==
    ASSUME NEW links \in Links, NEW after \in Links,
           \A node \in {HeadNode} \cup Reachable(links) : after[node] = links[node]
    PROVE  Reachable(after) = Reachable(links)
<1>1. ClosedUnder(after, Reachable(links)) /\ Reachable(links) \subseteq SkipKeys
    BY ReachableClosed DEF ClosedUnder
<1>2. Reachable(after) \subseteq Reachable(links)
    BY <1>1, ReachableLeast
<1>3. ASSUME NEW nodes \in SUBSET SkipKeys, ClosedUnder(after, nodes)
      PROVE  Reachable(links) \subseteq nodes
    <2> DEFINE both == nodes \cap Reachable(links)
    <2>1. ClosedUnder(links, both)
        <3>1. ASSUME NEW node \in {HeadNode} \cup both
              PROVE  links[node] \in both \cup {End}
            <4>1. after[node] \in nodes \cup {End}
                BY <1>3, <3>1 DEF ClosedUnder
            <4>2. links[node] \in Reachable(links) \cup {End}
                BY <3>1, ReachableClosed DEF ClosedUnder
            <4> QED BY <3>1, <4>1, <4>2
        <3> QED BY <3>1 DEF ClosedUnder
    <2>2. Reachable(links) \subseteq both
        BY <2>1, ReachableLeast
    <2> QED BY <2>2
<1>4. Reachable(links) \subseteq Reachable(after)
    <2>1. ASSUME NEW key \in Reachable(links), NEW nodes \in SUBSET SkipKeys, ClosedUnder(after, nodes)
          PROVE  key \in nodes
        BY <1>3, <2>1
    <2>2. Reachable(links) \subseteq SkipKeys
        BY <1>1
    <2> QED BY <2>1, <2>2 DEF Reachable
<1> QED BY <1>2, <1>4

(* Linking a node in behind one of the list adds that node. *)
LEMMA LinkedIn ==
    ASSUME NEW links \in Links, NEW key \in SkipKeys \ Reachable(links),
           NEW prev \in {HeadNode} \cup Reachable(links), links[key] = links[prev],
           NEW after \in Links, after[prev] = key,
           \A node \in Nodes \ {prev} : after[node] = links[node]
    PROVE  Reachable(after) = Reachable(links) \cup {key}
<1> DEFINE more == Reachable(links) \cup {key}
<1>1. Reachable(links) \subseteq SkipKeys /\ ClosedUnder(links, Reachable(links)) /\ prev # key
    BY ReachableClosed, KeyOrder
<1>2. ClosedUnder(after, more)
    <2>1. ASSUME NEW node \in {HeadNode} \cup more
          PROVE  after[node] \in more \cup {End}
        <3>1. CASE node = prev
            BY <3>1
        <3>2. CASE node = key
            BY <1>1, <3>2 DEF ClosedUnder, Nodes
        <3>3. CASE node # prev /\ node # key
            BY <1>1, <2>1, <3>3 DEF ClosedUnder, Nodes
        <3> QED BY <3>1, <3>2, <3>3
    <2> QED BY <2>1 DEF ClosedUnder
<1>3. Reachable(after) \subseteq more
    BY <1>1, <1>2, ReachableLeast
<1>4. ASSUME NEW nodes \in SUBSET SkipKeys, ClosedUnder(after, nodes)
      PROVE  more \subseteq nodes
    <2>1. ASSUME NEW node \in {HeadNode} \cup nodes
          PROVE  links[node] \in nodes \cup {End}
        <3>1. CASE node = prev
            <4>1. key \in nodes
                BY <1>4, <2>1, <3>1, KeyOrder DEF ClosedUnder
            <4>2. after[key] \in nodes \cup {End}
                BY <1>4, <4>1 DEF ClosedUnder
            <4> QED BY <1>1, <3>1, <4>2 DEF Nodes
        <3>2. CASE node # prev
            BY <1>4, <2>1, <3>2 DEF ClosedUnder, Nodes
        <3> QED BY <3>1, <3>2
    <2>2. Reachable(links) \subseteq nodes
        BY <2>1, ReachableLeast DEF ClosedUnder
    <2>3. key \in nodes
        BY <1>4, <2>2, KeyOrder DEF ClosedUnder
    <2> QED BY <2>2, <2>3
<1>5. more \subseteq Reachable(after)
    <2>1. ASSUME NEW k \in more, NEW nodes \in SUBSET SkipKeys, ClosedUnder(after, nodes)
          PROVE  k \in nodes
        BY <1>4, <2>1
    <2>2. more \subseteq SkipKeys
        BY <1>1
    <2> QED BY <2>1, <2>2 DEF Reachable
<1> QED BY <1>3, <1>5

-----------------------------------------------------------------------------
(* Levels in order. *)

Rising(links) == \A node \in {HeadNode} \cup Reachable(links) : links[node] > node

(* No link passes over a node. *)
LEMMA NothingBetween ==
    ASSUME NEW links \in Links, Rising(links),
           NEW node \in {HeadNode} \cup Reachable(links), NEW key \in Reachable(links), key > node
    PROVE  key >= links[node]
<1> DEFINE R == Reachable(links)
           NotPassed(n) == \A k \in {HeadNode} \cup R : k < n => links[k] <= n
           Skipped(n) == {k \in R : k <= n \/ k >= links[n]}
           Good == {n \in R : NotPassed(n)}
<1>1. /\ R \subseteq SkipKeys /\ ClosedUnder(links, R)
      /\ \A n \in {HeadNode} \cup R : n \in Nat /\ n \in Nodes /\ links[n] \in Nat /\ links[n] > n
    BY ReachableClosed, KeyOrder DEF Rising, Links, Nodes
<1>2. ASSUME NEW n \in {HeadNode} \cup R, NotPassed(n)
      PROVE  R \subseteq Skipped(n)
    <2>1. ASSUME NEW k \in {HeadNode} \cup Skipped(n), links[k] # End
          PROVE  links[k] \in Skipped(n)
        <3>1. k \in {HeadNode} \cup R /\ links[k] \in R
            BY <1>1, <2>1 DEF ClosedUnder
        <3>2. CASE k < n
            BY <1>2, <3>1, <3>2
        <3>3. CASE k = n
            BY <1>1, <3>1, <3>3
        <3>4. CASE k > n
            <4>1. k >= links[n]
                BY <1>1, <3>1, <3>4, <2>1, KeyOrder
            <4>2. links[k] >= links[n]
                BY <1>1, <3>1, <4>1
            <4> QED BY <3>1, <4>2
        <3> QED BY <1>1, <3>1, <3>2, <3>3, <3>4
    <2>2. ClosedUnder(links, Skipped(n))
        BY <2>1 DEF ClosedUnder
    <2>3. Skipped(n) \in SUBSET SkipKeys
        BY <1>1
    <2> HIDE DEF Skipped
    <2> QED BY <2>2, <2>3, ReachableLeast
<1>3. NotPassed(HeadNode)
    BY <1>1, KeyOrder
<1>4. ASSUME NEW n \in {HeadNode} \cup R, NotPassed(n), links[n] # End
      PROVE  links[n] \in Good
    <2>1. links[n] \in R
        BY <1>1, <1>4 DEF ClosedUnder
    <2>2. ASSUME NEW k \in {HeadNode} \cup R, k < links[n]
          PROVE  links[k] <= links[n]
        <3>1. k <= n
            BY <1>1, <1>2, <1>4, <2>2, KeyOrder
        <3>2. CASE k < n
            BY <1>1, <1>4, <3>2
        <3>3. CASE k = n
            BY <1>1, <3>3
        <3> QED BY <1>1, <3>1, <3>2, <3>3
    <2> QED BY <2>1, <2>2
<1>5. ClosedUnder(links, Good)
    <2>1. ASSUME NEW n \in {HeadNode} \cup Good
          PROVE  links[n] \in Good \cup {End}
        <3>1. n \in {HeadNode} \cup R /\ NotPassed(n)
            BY <1>3, <2>1
        <3> QED BY <1>4, <3>1
    <2> QED BY <2>1 DEF ClosedUnder
<1>6. R \subseteq Good
    <2>1. Good \in SUBSET SkipKeys
        BY <1>1
    <2> HIDE DEF Good
    <2> QED BY <1>5, <2>1, ReachableLeast
<1>7. NotPassed(node)
    BY <1>3, <1>6
<1>8. key \in Skipped(node)
    BY <1>2, <1>7
<1> QED BY <1>1, <1>8

(* The place for a key that is not on the list. *)
LEMMA PlaceExists ==
    ASSUME NEW links \in Links, Rising(links), NEW key \in SkipKeys \ Reachable(links)
    PROVE  \E node \in {HeadNode} \cup Reachable(links) : node < key /\ links[node] > key
<1> DEFINE R == Reachable(links)
           before == {node \in {HeadNode} \cup R : node < key}
           distances == {key - node : node \in before}
<1>1. /\ R \subseteq SkipKeys /\ ClosedUnder(links, R) /\ key \in Nat
      /\ \A n \in {HeadNode} \cup R : n \in Nat /\ links[n] \in Nat /\ links[n] > n
    BY ReachableClosed, KeyOrder DEF Rising, Links, Nodes
<1>2. distances \subseteq Nat /\ key - HeadNode \in distances
    BY <1>1, KeyOrder
<1>3. PICK x \in distances : \A y \in distances : ~(<<y, x>> \in OpToRel(<, Nat))
    BY <1>2, NatLessThanWellFounded, WFMin
<1>4. PICK node \in before : x = key - node
    BY <1>3
<1>5. links[node] > key
    <2> SUFFICES ASSUME links[node] <= key PROVE FALSE
        BY <1>1
    <2>1. links[node] # End
        BY KeyOrder, <1>1
    <2>2. links[node] \in R /\ links[node] # key
        BY <1>1, <2>1 DEF ClosedUnder
    <2>3. links[node] \in before
        BY <1>1, <2>2
    <2>4. key - links[node] \in distances /\ key - links[node] \in Nat /\ x \in Nat
        BY <1>2, <2>3
    <2>5. key - links[node] < x
        BY <1>1, <1>4
    <2> QED BY <1>3, <2>4, <2>5 DEF OpToRel
<1> QED BY <1>4, <1>5

-----------------------------------------------------------------------------
(* The invariant. *)

Insertions ==
    [key : SkipKeys, height : Heights, level : Rows, ready : BOOLEAN, prev : [Rows -> Nodes]]

Readings ==
    [op : {"seek", "before", "last", "next"}, target : SkipKeys \cup {End}, at : Nodes,
     level : Rows, start : SUBSET SkipKeys]

Typed ==
    /\ next \in [Rows -> Links]
    /\ maxHeight \in Heights
    /\ insert \in Insertions \cup {NoInsert}
    /\ reader \in [SkipReaders -> Readings \cup {Idle}]

Ascending == \A level \in Rows : Rising(next[level])

Nested == \A level \in Rows : level > 0 => Listed(level) \subseteq Listed(level - 1)

EmptyAbove == \A level \in Rows : level >= maxHeight => next[level][HeadNode] = End

(* Where the new node is about to go on one level. *)
Fits(level) ==
    /\ insert.prev[level] \in {HeadNode} \cup Listed(level)
    /\ insert.prev[level] < insert.key
    /\ insert.key < next[level][insert.prev[level]]

(* An insertion has linked its node in below its level, and nowhere else. *)
PlaceFound ==
    insert # NoInsert =>
        /\ insert.level < insert.height /\ insert.height <= maxHeight
        /\ \A level \in Rows :
            /\ insert.key \in Listed(level) <=> level < insert.level
            /\ insert.level <= level /\ level < insert.height => Fits(level)
        /\ insert.ready =>
            next[insert.level][insert.key] = next[insert.level][insert.prev[insert.level]]

(* A reader stands before its target on the level it is at. *)
OnTheList(reading) ==
    reading # Idle =>
        /\ reading.at \in {HeadNode} \cup Listed(reading.level)
        /\ reading.at < reading.target
        /\ reading.op = "last" => reading.target = End
        /\ reading.start \subseteq Listed(0)

ReadersOnTheList == \A r \in SkipReaders : OnTheList(reader[r])

SkipInv == Typed /\ Ascending /\ Nested /\ EmptyAbove /\ PlaceFound /\ ReadersOnTheList

LEMMA RowFacts ==
    /\ 0 \in Rows /\ \A level \in Rows : level \in Nat /\ (level > 0 => level - 1 \in Rows)
    /\ \A height \in Heights : height \in Nat /\ height - 1 \in Rows
    /\ \A level \in Rows, height \in Heights : level + 1 < height => level + 1 \in Rows
BY KeyOrder DEF Rows, Heights

LEMMA ListedFacts ==
    ASSUME Typed, NEW level \in Rows
    PROVE  /\ next[level] \in Links
           /\ Listed(level) \subseteq SkipKeys
           /\ \A node \in {HeadNode} \cup Listed(level) :
                node \in Nodes /\ (next[level][node] # End => next[level][node] \in Listed(level))
BY ReachableClosed DEF Typed, Listed, ClosedUnder, Nodes

LEMMA Inserting ==
    ASSUME Typed
    PROVE  /\ insert # NoInsert => insert \in Insertions
           /\ insert.ready => insert # NoInsert
BY DEF Typed, NoInsert

LEMMA Reading ==
    ASSUME Typed, NEW r \in SkipReaders
    PROVE  /\ reader[r] # Idle => reader[r] \in Readings
           /\ reader[r].op = "idle" <=> reader[r] = Idle
BY DEF Typed, Readings, Idle

LEMMA NothingListed ==
    ASSUME NEW links \in Links, links[HeadNode] = End
    PROVE  Reachable(links) = {}
<1>1. ClosedUnder(links, {})
    BY DEF ClosedUnder
<1> QED BY <1>1, ReachableLeast

-----------------------------------------------------------------------------
LEMMA InitInv == SkipInit => SkipInv
<1> SUFFICES ASSUME SkipInit PROVE SkipInv
    OBVIOUS
<1>1. /\ next = [level \in Rows |-> [node \in {HeadNode} \cup SkipKeys |-> End]]
      /\ maxHeight = 1 /\ insert = NoInsert /\ reader = [r \in SkipReaders |-> Idle]
    BY DEF SkipInit
<1>2. /\ next \in [Rows -> Links]
      /\ \A level \in Rows : next[level] \in Links /\ next[level][HeadNode] = End
    BY <1>1 DEF Links, Nodes
<1>3. Typed
    <2>1. maxHeight \in Heights
        BY <1>1, KeyOrder DEF Heights
    <2>2. reader \in [SkipReaders -> Readings \cup {Idle}]
        BY <1>1
    <2> QED BY <1>1, <1>2, <2>1, <2>2 DEF Typed
<1>4. \A level \in Rows : Listed(level) = {}
    BY <1>2, NothingListed DEF Listed
<1>5. Ascending
    BY <1>2, <1>4, KeyOrder DEF Ascending, Rising, Listed
<1> QED BY <1>1, <1>2, <1>3, <1>4, <1>5 DEF SkipInv, Nested, EmptyAbove, PlaceFound, ReadersOnTheList, OnTheList

(* A step that keeps the links keeps what is said of them. *)
LEMMA SameLinks ==
    ASSUME UNCHANGED next
    PROVE  /\ \A level : Listed(level)' = Listed(level)
           /\ Ascending => Ascending'
           /\ Nested => Nested'
BY DEF Listed, Ascending, Nested

(* A step that only takes nodes in keeps the readers on the list. *)
LEMMA ReadersStay ==
    ASSUME Typed, ReadersOnTheList, UNCHANGED reader,
           \A level \in Rows : Listed(level) \subseteq Listed(level)'
    PROVE  ReadersOnTheList'
<1> SUFFICES ASSUME NEW r \in SkipReaders, reader[r] # Idle
             PROVE  /\ reader[r].at \in {HeadNode} \cup Listed(reader[r].level)'
                    /\ reader[r].at < reader[r].target
                    /\ reader[r].op = "last" => reader[r].target = End
                    /\ reader[r].start \subseteq Listed(0)'
    BY DEF ReadersOnTheList, OnTheList
<1>1. reader[r].level \in Rows /\ 0 \in Rows
    BY Reading, RowFacts DEF Readings
<1> QED BY <1>1 DEF ReadersOnTheList, OnTheList

LEMMA StartInsertInv ==
    ASSUME SkipInv, NEW key \in SkipKeys, NEW height \in Heights, StartInsert(key, height)
    PROVE  SkipInv'
<1>1. /\ insert = NoInsert /\ key \notin Listed(0) /\ UNCHANGED <<next, reader>>
      /\ maxHeight' = IF height > maxHeight THEN height ELSE maxHeight
      /\ insert' = [key |-> key, height |-> height, level |-> 0, ready |-> FALSE,
                    prev |-> [level \in Rows |->
                        IF level < maxHeight THEN Previous(level, key) ELSE HeadNode]]
    BY DEF StartInsert
<1>2. Typed /\ maxHeight \in Heights /\ maxHeight' \in Heights
    BY <1>1 DEF SkipInv, Typed
<1>3. /\ height \in Nat /\ maxHeight \in Nat /\ maxHeight' \in Nat /\ height >= 1
      /\ height <= maxHeight' /\ maxHeight <= maxHeight'
    BY <1>1, <1>2, RowFacts DEF Heights
<1>4. \A level \in Rows : key \notin Listed(level)
    <2> DEFINE Holding == {level \in Rows : key \in Listed(level)}
    <2> SUFFICES ASSUME Holding # {} PROVE FALSE
        OBVIOUS
    <2>1. Holding \subseteq Nat
        BY RowFacts
    <2>2. PICK x \in Holding : \A y \in Holding : ~(<<y, x>> \in OpToRel(<, Nat))
        BY <2>1, NatLessThanWellFounded, WFMin
    <2>3. x \in Rows /\ x \in Nat /\ x # 0 /\ key \in Listed(x)
        BY <1>1, <2>1
    <2> HIDE DEF Holding
    <2>4. x - 1 \in Holding
        <3>1. x > 0 /\ x - 1 \in Rows
            BY <2>3, RowFacts
        <3>2. Listed(x) \subseteq Listed(x - 1)
            BY <2>3, <3>1 DEF SkipInv, Nested
        <3> QED BY <2>3, <3>1, <3>2 DEF Holding
    <2>5. x - 1 \in Nat /\ x - 1 < x
        BY <2>3
    <2> QED BY <2>2, <2>3, <2>4, <2>5 DEF OpToRel
<1>5. ASSUME NEW level \in Rows
      PROVE  /\ insert'.prev[level] \in {HeadNode} \cup Listed(level)
             /\ insert'.prev[level] < key /\ key < next[level][insert'.prev[level]]
    <2>1. insert'.prev[level] = IF level < maxHeight THEN Previous(level, key) ELSE HeadNode
        BY <1>1
    <2>2. next[level] \in Links /\ Rising(next[level]) /\ Listed(level) = Reachable(next[level])
        BY <1>2 DEF SkipInv, Typed, Ascending, Listed
    <2>3. CASE level < maxHeight
        <3>1. \E node \in Listed(level) \cup {HeadNode} : node < key /\ next[level][node] > key
            BY <1>4, <2>2, PlaceExists
        <3>2. /\ Previous(level, key) \in Listed(level) \cup {HeadNode}
              /\ Previous(level, key) < key /\ next[level][Previous(level, key)] > key
            BY <3>1 DEF Previous
        <3>3. Previous(level, key) \in Nodes
            BY <1>2, <3>2, ListedFacts DEF Nodes
        <3>4. next[level][Previous(level, key)] \in Nat /\ key \in Nat
            BY <2>2, <3>3, KeyOrder DEF Links
        <3> QED BY <2>1, <2>3, <3>2, <3>4
    <2>4. CASE ~(level < maxHeight)
        <3>1. next[level][HeadNode] = End
            BY <1>3, <2>4, RowFacts DEF SkipInv, EmptyAbove
        <3> QED BY <2>1, <2>4, <3>1, KeyOrder
    <2> QED BY <2>3, <2>4
<1>6. insert' \in Insertions
    <2>1. \A level \in Rows : insert'.prev[level] \in Nodes
        BY <1>2, <1>5, ListedFacts DEF Nodes
    <2>2. insert'.prev = [level \in Rows |-> insert'.prev[level]]
        BY <1>1
    <2>3. insert'.prev \in [Rows -> Nodes]
        BY <2>1, <2>2
    <2> QED BY <1>1, <2>3, RowFacts DEF Insertions
<1>7. Typed'
    BY <1>1, <1>2, <1>6 DEF Typed
<1>8. EmptyAbove'
    BY <1>1, <1>3, RowFacts DEF SkipInv, EmptyAbove
<1>9. PlaceFound'
    <2>1. insert'.level = 0 /\ insert'.height = height /\ insert'.key = key /\ insert'.ready = FALSE
        BY <1>1
    <2>2. \A level \in Rows : Fits(level)'
        BY <1>1, <1>5, <2>1, SameLinks DEF Fits
    <2>3. \A level \in Rows : ~(level < 0)
        BY RowFacts
    <2> QED BY <1>1, <1>3, <1>4, <2>1, <2>2, <2>3, SameLinks DEF PlaceFound
<1>10. ReadersOnTheList'
    BY <1>1, <1>2, SameLinks, ReadersStay DEF SkipInv
<1>11. Ascending' /\ Nested'
    BY <1>1, SameLinks DEF SkipInv
<1> QED BY <1>7, <1>8, <1>9, <1>10, <1>11 DEF SkipInv

LEMMA SetOwnLinkInv ==
    ASSUME SkipInv, SetOwnLink
    PROVE  SkipInv'
<1>1. /\ insert # NoInsert /\ ~insert.ready /\ UNCHANGED <<maxHeight, reader>>
      /\ next' = [next EXCEPT ![insert.level][insert.key] = next[insert.level][insert.prev[insert.level]]]
      /\ insert' = [insert EXCEPT !.ready = TRUE]
    BY DEF SetOwnLink
<1>2. Typed /\ insert \in Insertions /\ PlaceFound
    BY <1>1, Inserting DEF SkipInv
<1> DEFINE here == insert.level
           key  == insert.key
           prev == insert.prev[here]
<1>3. /\ here \in Rows /\ key \in SkipKeys /\ key \in Nodes /\ here < insert.height /\ here \in Nat
      /\ key \notin Listed(here) /\ Fits(here)
    BY <1>1, <1>2, RowFacts DEF Insertions, PlaceFound, Nodes
<1>4. /\ next[here] \in Links /\ prev \in {HeadNode} \cup Listed(here) /\ prev \in Nodes
      /\ next[here][prev] \in SkipKeys \cup {End} /\ prev < key
    BY <1>2, <1>3, ListedFacts DEF Fits, Links
<1>5. /\ next'[here] = [next[here] EXCEPT ![key] = next[here][prev]]
      /\ \A level \in Rows \ {here} : next'[level] = next[level]
      /\ next' \in [Rows -> Links]
    BY <1>1, <1>2, <1>3, <1>4 DEF Typed, Links
<1>6. /\ \A node \in Nodes \ {key} : next'[here][node] = next[here][node]
      /\ next'[here][key] = next[here][prev] /\ next'[here] \in Links
    BY <1>3, <1>4, <1>5 DEF Links
<1>7. /\ insert'.level = here /\ insert'.key = key /\ insert'.prev = insert.prev
      /\ insert'.height = insert.height /\ insert' \in Insertions /\ insert' # NoInsert
    BY <1>1, <1>2, <1>3, KeyOrder DEF Insertions, NoInsert
<1>8. prev # key
    BY <1>3, <1>4, KeyOrder
<1> HIDE DEF here, key, prev
<1>9. \A level \in Rows : Listed(level)' = Listed(level)
    <2>1. Reachable(next'[here]) = Reachable(next[here])
        <3>1. Listed(here) = Reachable(next[here])
            BY DEF Listed
        <3>2. \A node \in {HeadNode} \cup Reachable(next[here]) : node \in Nodes \ {key}
            BY <1>2, <1>3, <3>1, ListedFacts, KeyOrder
        <3> QED BY <1>4, <1>6, <3>2, OffTheList
    <2> QED BY <1>3, <1>5, <2>1 DEF Listed
<1>10. \A level \in Rows : \A node \in {HeadNode} \cup Listed(level) : next'[level][node] = next[level][node]
    <2> SUFFICES ASSUME NEW level \in Rows, NEW node \in {HeadNode} \cup Listed(level)
                 PROVE  next'[level][node] = next[level][node]
        OBVIOUS
    <2>1. CASE level = here
        <3>1. node \in Nodes \ {key}
            BY <1>2, <1>3, <2>1, ListedFacts, KeyOrder
        <3> QED BY <1>6, <2>1, <3>1
    <2>2. CASE level # here
        BY <1>5, <2>2
    <2> QED BY <2>1, <2>2
<1>11. Typed'
    BY <1>1, <1>2, <1>5, <1>7 DEF Typed
<1>12. Ascending' /\ Nested'
    BY <1>9, <1>10, RowFacts DEF SkipInv, Ascending, Nested, Rising, Listed
<1>13. EmptyAbove'
    BY <1>1, <1>10 DEF SkipInv, EmptyAbove
<1>14. PlaceFound'
    <2>1. \A level \in Rows : Fits(level) => Fits(level)'
        BY <1>7, <1>9, <1>10 DEF Fits, key
    <2>2. next'[here][key] = next'[here][prev]
        BY <1>4, <1>6, <1>8
    <2> QED BY <1>1, <1>2, <1>7, <1>9, <2>1, <2>2 DEF PlaceFound, here, key, prev
<1>15. ReadersOnTheList'
    BY <1>1, <1>2, <1>9, ReadersStay DEF SkipInv
<1> QED BY <1>11, <1>12, <1>13, <1>14, <1>15 DEF SkipInv

LEMMA LinkInInv ==
    ASSUME SkipInv, LinkIn
    PROVE  SkipInv'
<1>1. /\ insert.ready /\ UNCHANGED <<maxHeight, reader>>
      /\ next' = [next EXCEPT ![insert.level][insert.prev[insert.level]] = insert.key]
      /\ insert' = IF insert.level + 1 = insert.height THEN NoInsert
                   ELSE [insert EXCEPT !.level = insert.level + 1, !.ready = FALSE]
    BY DEF LinkIn
<1>2. Typed /\ insert # NoInsert /\ insert \in Insertions /\ PlaceFound
    BY <1>1, Inserting DEF SkipInv
<1>3. /\ insert.level \in Rows /\ insert.key \in SkipKeys /\ insert.height \in Heights
      /\ insert.level < insert.height /\ insert.height <= maxHeight /\ Fits(insert.level)
      /\ insert.key \notin Listed(insert.level)
      /\ next[insert.level][insert.key] = next[insert.level][insert.prev[insert.level]]
    BY <1>1, <1>2, RowFacts DEF Insertions, PlaceFound
<1>4. PICK here \in Rows, key \in SkipKeys, height \in Heights :
        here = insert.level /\ key = insert.key /\ height = insert.height
    BY <1>3
<1>5. PICK prev \in {HeadNode} \cup Listed(here) : prev = insert.prev[here]
    BY <1>3, <1>4 DEF Fits
<1>6. /\ key \in Nodes /\ here \in Nat /\ height \in Nat /\ here < height /\ height <= maxHeight
      /\ key \notin Listed(here) /\ next[here][key] = next[here][prev]
    BY <1>3, <1>4, <1>5, RowFacts DEF Nodes
<1>7. /\ next[here] \in Links /\ prev \in Nodes /\ prev < key /\ key < next[here][prev]
    BY <1>2, <1>3, <1>4, <1>5, ListedFacts DEF Fits
<1>8. next' = [next EXCEPT ![here][prev] = key]
    BY <1>1, <1>4, <1>5
<1>9. /\ \A level \in Rows \ {here} : next'[level] = next[level]
      /\ \A node \in Nodes \ {prev} : next'[here][node] = next[here][node]
      /\ next'[here][prev] = key /\ next'[here] \in Links /\ next' \in [Rows -> Links]
    BY <1>2, <1>7, <1>8 DEF Typed, Links
<1>10. ASSUME here + 1 = height PROVE insert' = NoInsert
    BY <1>1, <1>4, <1>10
<1>11. ASSUME here + 1 # height
       PROVE  /\ insert' \in Insertions /\ insert'.level = here + 1 /\ insert'.key = key
              /\ insert'.prev = insert.prev /\ insert'.height = height
              /\ insert'.ready = FALSE
    <2>1. here + 1 \in Rows
        BY <1>6, <1>11, RowFacts
    <2>2. insert' = [insert EXCEPT !.level = here + 1, !.ready = FALSE]
        BY <1>1, <1>4, <1>11
    <2> QED BY <1>2, <1>4, <2>1, <2>2 DEF Insertions
<1>12. /\ Listed(here)' = Listed(here) \cup {key}
      /\ \A level \in Rows \ {here} : Listed(level)' = Listed(level)
    <2>1. Reachable(next'[here]) = Reachable(next[here]) \cup {key}
        BY <1>6, <1>7, <1>9, LinkedIn DEF Listed
    <2> QED BY <1>9, <2>1 DEF Listed
<1>13. \A level \in Rows : Listed(level) \subseteq Listed(level)'
    BY <1>12
<1>14. Typed'
    <2>1. CASE here + 1 = height
        BY <1>1, <1>2, <1>9, <1>10, <2>1 DEF Typed
    <2>2. CASE here + 1 # height
        BY <1>1, <1>2, <1>9, <1>11, <2>2 DEF Typed
    <2> QED BY <2>1, <2>2
<1>15. Ascending'
    <2>1. ASSUME NEW level \in Rows, NEW node \in {HeadNode} \cup Listed(level)'
          PROVE  next'[level][node] > node
        <3>1. \A n \in {HeadNode} \cup Listed(level) : next[level][n] > n /\ n \in Nodes
            BY <1>2, ListedFacts DEF SkipInv, Ascending, Rising, Listed
        <3>2. CASE level # here
            BY <1>9, <1>12, <3>1, <3>2
        <3>3. CASE level = here
            <4>1. CASE node = prev
                BY <1>7, <1>9, <3>3, <4>1, KeyOrder
            <4>2. CASE node = key
                <5>1. key # prev /\ next'[here][key] = next[here][prev]
                    BY <1>6, <1>7, <1>9, KeyOrder
                <5>2. next[here][prev] \in Nat /\ key \in Nat
                    BY <1>6, <1>7, KeyOrder DEF Links
                <5> QED BY <1>7, <3>3, <4>2, <5>1, <5>2
            <4>3. CASE node # prev /\ node # key
                BY <1>9, <1>12, <2>1, <3>1, <3>3, <4>3
            <4> QED BY <4>1, <4>2, <4>3
        <3> QED BY <3>2, <3>3
    <2> QED BY <2>1 DEF Ascending, Rising, Listed
<1>16. Nested'
    <2>1. ASSUME NEW level \in Rows, level > 0
          PROVE  Listed(level)' \subseteq Listed(level - 1)'
        <3>1. level - 1 \in Rows /\ level \in Nat /\ Listed(level) \subseteq Listed(level - 1)
            BY <2>1, RowFacts DEF SkipInv, Nested
        <3>2. level = here => key \in Listed(level - 1)
            BY <1>2, <1>4, <3>1 DEF PlaceFound
        <3>3. Listed(level - 1) \subseteq Listed(level - 1)'
            BY <1>13, <3>1
        <3> QED BY <1>12, <3>1, <3>2, <3>3
    <2> QED BY <2>1 DEF Nested
<1>17. EmptyAbove'
    <2>1. ASSUME NEW level \in Rows, level >= maxHeight
          PROVE  next'[level][HeadNode] = End
        <3>1. level # here
            <4>1. level \in Nat /\ maxHeight \in Nat
                BY <1>2, RowFacts DEF Typed
            <4> QED BY <1>6, <2>1, <4>1
        <3> QED BY <1>9, <2>1, <3>1 DEF SkipInv, EmptyAbove
    <2> QED BY <1>1, <2>1 DEF EmptyAbove
<1>18. PlaceFound'
    <2>1. CASE here + 1 = height
        BY <1>10, <2>1 DEF PlaceFound
    <2>2. CASE here + 1 # height
        <3>1. /\ insert'.level = here + 1 /\ insert'.key = key /\ insert'.prev = insert.prev
              /\ insert'.height = height /\ insert'.ready = FALSE
            BY <1>11, <2>2
        <3>2. here + 1 < height
            BY <1>6, <2>2
        <3>3. ASSUME NEW level \in Rows
              PROVE  key \in Listed(level)' <=> level < here + 1
            <4>1. level \in Nat /\ (key \in Listed(level) <=> level < here)
                BY <1>2, <1>4, RowFacts DEF PlaceFound
            <4>2. CASE level = here
                BY <1>6, <1>12, <4>2
            <4>3. CASE level # here
                BY <1>6, <1>12, <4>1, <4>3
            <4> QED BY <4>2, <4>3
        <3>4. ASSUME NEW level \in Rows, here + 1 <= level, level < height
              PROVE  Fits(level)'
            <4>1. level # here /\ here <= level
                BY <1>6, <3>4, RowFacts
            <4>2. Fits(level)
                BY <1>2, <1>4, <3>4, <4>1 DEF PlaceFound
            <4> QED BY <1>9, <1>12, <1>4, <3>1, <4>1, <4>2 DEF Fits
        <3> QED BY <1>1, <1>6, <3>1, <3>2, <3>3, <3>4 DEF PlaceFound
    <2> QED BY <2>1, <2>2
<1>19. ReadersOnTheList'
    BY <1>1, <1>2, <1>13, ReadersStay DEF SkipInv
<1> QED BY <1>14, <1>15, <1>16, <1>17, <1>18, <1>19 DEF SkipInv

(* What the writer has and the links it made stay while a reader moves. *)
LEMMA ReaderMoves ==
    ASSUME SkipInv, UNCHANGED <<next, maxHeight, insert>>, NEW r \in SkipReaders,
           NEW reading \in Readings \cup {Idle}, reader' = [reader EXCEPT ![r] = reading],
           OnTheList(reading)
    PROVE  SkipInv'
<1>1. Typed'
    BY DEF SkipInv, Typed
<1>2. Ascending' /\ Nested' /\ EmptyAbove'
    BY SameLinks DEF SkipInv, EmptyAbove
<1>3. PlaceFound'
    BY SameLinks DEF SkipInv, PlaceFound, Fits
<1>4. ASSUME NEW q \in SkipReaders
      PROVE  OnTheList(reader[q])'
    <2>1. reader'[q] = IF q = r THEN reading ELSE reader[q]
        BY DEF SkipInv, Typed
    <2> QED BY <2>1, SameLinks DEF SkipInv, ReadersOnTheList, OnTheList
<1> QED BY <1>1, <1>2, <1>3, <1>4 DEF SkipInv, ReadersOnTheList

LEMMA BeginInv ==
    ASSUME SkipInv, NEW r \in SkipReaders, NEW op \in {"seek", "before", "last", "next"},
           NEW target \in SkipKeys \cup {End}, NEW at, NEW level \in Rows,
           at \in {HeadNode} \cup Listed(level), at < target, op = "last" => target = End,
           Begin(r, op, target, at, level)
    PROVE  SkipInv'
<1> DEFINE reading == [op |-> op, target |-> target, at |-> at, level |-> level, start |-> Listed(0)]
<1>1. reading \in Readings
    BY RowFacts, ListedFacts DEF SkipInv, Readings
<1>2. PICK some \in Readings : some = reading
    BY <1>1
<1>3. UNCHANGED <<next, maxHeight, insert>> /\ reader' = [reader EXCEPT ![r] = some]
    BY <1>2 DEF Begin
<1>4. OnTheList(some)
    BY <1>2 DEF OnTheList
<1> QED BY <1>3, <1>4, ReaderMoves

LEMMA SearchInv ==
    ASSUME SkipInv, NEW r \in SkipReaders, NEW op \in {"seek", "before", "last"},
           NEW target \in SkipKeys \cup {End}, op = "last" => target = End, Search(r, op, target)
    PROVE  SkipInv'
<1>1. PICK h \in 1..maxHeight : Begin(r, op, target, HeadNode, h - 1)
    BY DEF Search
<1>2. h - 1 \in Rows
    BY RowFacts, KeyOrder DEF SkipInv, Typed, Heights, Rows
<1>3. HeadNode < target
    BY KeyOrder
<1> QED BY <1>1, <1>2, <1>3, BeginInv

LEMMA WalkInv ==
    ASSUME SkipInv, NEW r \in SkipReaders, NEW node \in SkipKeys, Walk(r, node)
    PROVE  SkipInv'
<1>1. node + 1 \in SkipKeys \cup {End} /\ node < node + 1 /\ 0 \in Rows
    BY KeyOrder, RowFacts
<1> QED BY <1>1, BeginInv DEF Walk

LEMMA AdvanceInv ==
    ASSUME SkipInv, NEW r \in SkipReaders, Advance(r)
    PROVE  SkipInv'
<1> DEFINE node == next[reader[r].level][reader[r].at]
<1>1. PICK old \in Readings : old = reader[r]
    BY Reading DEF Advance, SkipInv
<1>2. /\ old.level \in Rows /\ old.at \in {HeadNode} \cup Listed(old.level) /\ old.at < old.target
      /\ old.op = "last" => old.target = End
      /\ old.start \subseteq Listed(0) /\ UNCHANGED <<next, maxHeight, insert>> /\ old # Idle
    BY <1>1 DEF SkipInv, ReadersOnTheList, OnTheList, Readings, Advance, Idle
<1>3. CASE GoesOn(old, node) /\ reader' = [reader EXCEPT ![r].at = node]
    <2>1. node \in Listed(old.level) /\ node \in Nodes /\ node \in SkipKeys
        BY <1>1, <1>2, <1>3, ListedFacts DEF SkipInv, GoesOn, Nodes
    <2>2. PICK some \in Readings : some = [old EXCEPT !.at = node]
        BY <2>1 DEF Readings
    <2>3. reader' = [reader EXCEPT ![r] = some]
        BY <1>1, <1>3, <2>2
    <2>4. node < old.target
        BY <1>2, <1>3, <2>1, KeyOrder DEF GoesOn
    <2>5. OnTheList(some)
        BY <1>2, <2>1, <2>2, <2>4 DEF OnTheList, Readings
    <2> QED BY <1>2, <2>3, <2>5, ReaderMoves
<1>4. CASE old.level > 0 /\ reader' = [reader EXCEPT ![r].level = @ - 1]
    <2>1. old.level - 1 \in Rows /\ old.at \in {HeadNode} \cup Listed(old.level - 1)
        BY <1>2, <1>4, RowFacts DEF SkipInv, Nested
    <2>2. PICK some \in Readings : some = [old EXCEPT !.level = old.level - 1]
        BY <2>1 DEF Readings
    <2>3. reader' = [reader EXCEPT ![r] = some]
        BY <1>1, <1>4, <2>2
    <2>4. OnTheList(some)
        BY <1>2, <2>1, <2>2 DEF OnTheList, Readings
    <2> QED BY <1>2, <2>3, <2>4, ReaderMoves
<1> QED BY <1>1, <1>3, <1>4 DEF Advance

LEMMA StepInv == SkipInv /\ [SkipNext]_skipVars => SkipInv'
<1> SUFFICES ASSUME SkipInv, [SkipNext]_skipVars PROVE SkipInv'
    OBVIOUS
<1>1. CASE UNCHANGED skipVars
    <2>1. Typed' /\ EmptyAbove'
        BY <1>1 DEF SkipInv, Typed, EmptyAbove, skipVars
    <2>2. Ascending' /\ Nested'
        BY <1>1, SameLinks DEF SkipInv, skipVars
    <2>3. PlaceFound' /\ ReadersOnTheList'
        BY <1>1, SameLinks DEF SkipInv, PlaceFound, Fits, ReadersOnTheList, OnTheList, skipVars
    <2> QED BY <2>1, <2>2, <2>3 DEF SkipInv
<1>2. ASSUME NEW key \in SkipKeys, NEW height \in Heights, StartInsert(key, height)
      PROVE  SkipInv'
    BY <1>2, StartInsertInv
<1>3. CASE SetOwnLink
    BY <1>3, SetOwnLinkInv
<1>4. CASE LinkIn
    BY <1>4, LinkInInv
<1>5. ASSUME NEW r \in SkipReaders, NEW op \in {"seek", "before"}, NEW target \in SkipKeys,
             Search(r, op, target)
      PROVE  SkipInv'
    BY <1>5, SearchInv
<1>6. ASSUME NEW r \in SkipReaders, Search(r, "last", End)
      PROVE  SkipInv'
    BY <1>6, SearchInv
<1>7. ASSUME NEW r \in SkipReaders, NEW node \in SkipKeys, Walk(r, node)
      PROVE  SkipInv'
    BY <1>7, WalkInv
<1>8. ASSUME NEW r \in SkipReaders, Advance(r)
      PROVE  SkipInv'
    BY <1>8, AdvanceInv
<1>9. ASSUME NEW r \in SkipReaders, Finish(r)
      PROVE  SkipInv'
    <2>1. OnTheList(Idle)
        BY DEF OnTheList
    <2> QED BY <1>9, <2>1, ReaderMoves DEF Finish
<1> QED BY <1>1, <1>2, <1>3, <1>4, <1>5, <1>6, <1>7, <1>8, <1>9 DEF SkipNext

LEMMA SkipInvariance == SkipSpec => []SkipInv
BY InitInv, StepInv, PTL DEF SkipSpec

(* In the middle of an insertion too every level is in order and part of   *)
(* the level below it.                                                     *)
THEOREM SkipListNests == SkipSpec => []LevelsNest
<1>1. SkipInv => LevelsNest
    BY DEF SkipInv, Ascending, Nested, Rising, Listed, LevelsNest
<1> QED BY <1>1, SkipInvariance, PTL

(* A reader that takes no lock ends on the right side of its target and    *)
(* passes over no key that was on the list when it began.                  *)
THEOREM ReadersSeeAll == SkipSpec => []ReadersMissNothing
<1>1. SkipInv => ReadersMissNothing
    <2> SUFFICES ASSUME SkipInv, NEW r \in SkipReaders, AtResult(reader[r])
                 PROVE  LET reading == reader[r]
                            result  == Result(reading)
                            missed  == IF reading.op \in {"seek", "next"}
                                       THEN Between(reading.target - 1, result)
                                       ELSE Between(result, reading.target)
                        IN /\ result \in Listed(0) \cup {HeadNode, End}
                           /\ reading.op \in {"seek", "next"} => result >= reading.target
                           /\ reading.op = "before" => result < reading.target
                           /\ missed \cap reading.start = {}
        BY DEF ReadersMissNothing
    <2> DEFINE at   == reader[r].at
               node == next[0][at]
               target == reader[r].target
    <2>1. /\ reader[r] \in Readings /\ at \in {HeadNode} \cup Listed(0) /\ at < target
          /\ reader[r].op = "last" => target = End
          /\ reader[r].start \subseteq Listed(0)
        BY Reading DEF AtResult, SkipInv, ReadersOnTheList, OnTheList
    <2>2. /\ next[0] \in Links /\ Rising(next[0]) /\ Listed(0) = Reachable(next[0])
          /\ Listed(0) \subseteq SkipKeys
        BY RowFacts, ListedFacts DEF SkipInv, Ascending, Typed, Listed
    <2>3. /\ at \in Nat /\ target \in SkipKeys \cup {End} /\ target \in Nat /\ node \in SkipKeys \cup {End}
          /\ node \in Nat /\ node \in Listed(0) \cup {End} /\ at \in Nodes
        BY <2>1, <2>2, RowFacts, ListedFacts, KeyOrder DEF SkipInv, Readings, Links
    <2>4. node >= target
        <3>1. node = End \/ (reader[r].op # "last" /\ ~(node < target))
            BY DEF AtResult, GoesOn
        <3> QED BY <2>3, <3>1, KeyOrder
    <2>5. ASSUME NEW k \in Listed(0), k > at
          PROVE  k >= node
        BY <2>1, <2>2, <2>5, NothingBetween
    <2>6. CASE reader[r].op \in {"seek", "next"}
        <3>1. Result(reader[r]) = node
            BY <2>6 DEF Result
        <3>2. ASSUME NEW k \in Between(target - 1, node), k \in reader[r].start
              PROVE  FALSE
            <4>1. k \in Nat /\ target - 1 < k /\ k < node /\ k \in Listed(0)
                BY <2>1, <3>2, KeyOrder DEF Between
            <4>2. k > at
                BY <2>1, <2>3, <4>1
            <4> QED BY <2>3, <2>5, <4>1, <4>2
        <3> QED BY <2>3, <2>4, <2>6, <3>1, <3>2
    <2>7. CASE reader[r].op \in {"before", "last"}
        <3>1. Result(reader[r]) = at
            BY <2>7 DEF Result
        <3>2. ASSUME NEW k \in Between(at, target), k \in reader[r].start
              PROVE  FALSE
            <4>1. k \in Nat /\ at < k /\ k < target /\ k \in Listed(0)
                BY <2>1, <3>2, KeyOrder DEF Between
            <4> QED BY <2>3, <2>4, <2>5, <4>1
        <3> QED BY <2>1, <2>7, <3>1, <3>2
    <2>8. reader[r].op \in {"seek", "before", "last", "next"}
        BY <2>1 DEF Readings
    <2> QED BY <2>6, <2>7, <2>8
<1> QED BY <1>1, SkipInvariance, PTL

=============================================================================
