------------------------------ MODULE SkipList ------------------------------
(***************************************************************************)
(* The skip list of a leveldb memtable, db/skiplist.h: one writer, which   *)
(* DBImpl serialises, and readers that take no lock.  A node is its key;   *)
(* the head is 0 and the end of every list is End, above all keys.         *)
(*                                                                         *)
(* A load or a store of a link is a step.  Links are stored with release   *)
(* and loaded with acquire, so steps on them are in one order; max_height_ *)
(* is read without, so a reader may get any height the list has had.       *)
(***************************************************************************)
EXTENDS Integers, FiniteSets

CONSTANTS
    MaxKey,        \* keys are 1 .. MaxKey
    MaxHeight,     \* kMaxHeight
    SkipReaders,   \* threads that read
    MaxReads       \* bound on their operations

ASSUME SkipListAssumption == {MaxKey, MaxHeight, MaxReads} \subseteq Nat \ {0}

HeadNode     == 0
SkipKeys == 1 .. MaxKey
End      == MaxKey + 1
Heights  == 1 .. MaxHeight
Rows     == 0 .. MaxHeight - 1

VARIABLES
    next,        \* next[level][node]: the node's next_[level]
    maxHeight,   \* max_height_
    insert,      \* the insertion under way
    reader,      \* what each reader does
    reads        \* history: operations begun

skipVars == <<next, maxHeight, insert, reader, reads>>

NoInsert == [key |-> End, height |-> 0, level |-> 0, ready |-> FALSE,
             prev |-> [level \in Rows |-> HeadNode]]

Idle == [op |-> "idle", target |-> End, at |-> HeadNode, level |-> 0, start |-> {}]

SkipInit ==
    /\ next = [level \in Rows |-> [node \in {HeadNode} \cup SkipKeys |-> End]]
    /\ maxHeight = 1
    /\ insert = NoInsert
    /\ reader = [r \in SkipReaders |-> Idle]
    /\ reads = 0

\* The nodes of a level: those that its links lead to from the head on.
ClosedUnder(links, nodes) ==
    \A node \in {HeadNode} \cup nodes : links[node] \in nodes \cup {End}

Reachable(links) ==
    {key \in SkipKeys : \A nodes \in SUBSET SkipKeys : ClosedUnder(links, nodes) => key \in nodes}

Listed(level) == Reachable(next[level])

(***************************************************************************)
(* Insert.  Only the writer changes links, so its own search is one step.  *)
(***************************************************************************)

\* FindGreaterOrEqual with prev: on every level the last node before the key.
Previous(level, key) ==
    CHOOSE node \in Listed(level) \cup {HeadNode} :
        node < key /\ next[level][node] > key

StartInsert(key, height) ==
    /\ insert = NoInsert
    /\ key \notin Listed(0)
    /\ maxHeight' = IF height > maxHeight THEN height ELSE maxHeight
    /\ insert' = [key |-> key, height |-> height, level |-> 0, ready |-> FALSE,
                  prev |-> [level \in Rows |->
                      IF level < maxHeight THEN Previous(level, key) ELSE HeadNode]]
    /\ UNCHANGED <<next, reader, reads>>

\* Level by level, the new node's link and then the link to it.  Faulty
\* variants: the own link is left as it is; the top level is linked first.
SetOwnLinkNever ==
    /\ insert # NoInsert /\ ~insert.ready
    /\ insert' = [insert EXCEPT !.ready = TRUE]
    /\ UNCHANGED <<next, maxHeight, reader, reads>>
SetOwnLink ==
    /\ insert # NoInsert /\ ~insert.ready
    /\ next' = [next EXCEPT ![insert.level][insert.key] =
                    next[insert.level][insert.prev[insert.level]]]
    /\ insert' = [insert EXCEPT !.ready = TRUE]
    /\ UNCHANGED <<maxHeight, reader, reads>>

LinkInTopFirst ==
    LET row == insert.height - 1 - insert.level
    IN /\ insert.ready
       /\ next' = [next EXCEPT ![row][insert.prev[row]] = insert.key]
       /\ insert' = IF row = 0 THEN NoInsert
                    ELSE [insert EXCEPT !.level = insert.level + 1, !.ready = FALSE]
       /\ UNCHANGED <<maxHeight, reader, reads>>
LinkIn ==
    /\ insert.ready
    /\ next' = [next EXCEPT ![insert.level][insert.prev[insert.level]] = insert.key]
    /\ insert' = IF insert.level + 1 = insert.height THEN NoInsert
                 ELSE [insert EXCEPT !.level = insert.level + 1, !.ready = FALSE]
    /\ UNCHANGED <<maxHeight, reader, reads>>

(***************************************************************************)
(* Reading: FindGreaterOrEqual ("seek"), FindLessThan ("before") and       *)
(* FindLast ("last") from the head and any height, and Next of an iterator *)
(* at a node ("next"), which is the last load of a seek past its key.      *)
(***************************************************************************)
Begin(r, op, target, at, level) ==
    /\ reader[r].op = "idle"
    /\ reads < MaxReads
    /\ reads' = reads + 1
    /\ reader' = [reader EXCEPT ![r] =
                    [op |-> op, target |-> target, at |-> at, level |-> level,
                     start |-> Listed(0)]]
    /\ UNCHANGED <<next, maxHeight, insert>>

Search(r, op, target) == \E h \in 1 .. maxHeight : Begin(r, op, target, HeadNode, h - 1)
Walk(r, node)         == node \in Listed(0) /\ Begin(r, "next", node + 1, node, 0)

GoesOn(reading, node) ==
    node # End /\ (reading.op = "last" \/ node < reading.target)

Advance(r) ==
    LET reading == reader[r]
        node    == next[reading.level][reading.at]
    IN /\ reading.op # "idle"
       /\ \/ /\ GoesOn(reading, node)
             /\ reader' = [reader EXCEPT ![r].at = node]
          \/ /\ ~GoesOn(reading, node)
             /\ reading.level > 0
             /\ reader' = [reader EXCEPT ![r].level = @ - 1]
       /\ UNCHANGED <<next, maxHeight, insert, reads>>

Result(reading) ==
    IF reading.op \in {"seek", "next"} THEN next[0][reading.at] ELSE reading.at

AtResult(reading) ==
    reading.op # "idle" /\ reading.level = 0 /\ ~GoesOn(reading, next[0][reading.at])

Finish(r) ==
    /\ AtResult(reader[r])
    /\ reader' = [reader EXCEPT ![r] = Idle]
    /\ UNCHANGED <<next, maxHeight, insert, reads>>

SkipNext ==
    \/ \E key \in SkipKeys, height \in Heights : StartInsert(key, height)
    \/ SetOwnLink
    \/ LinkIn
    \/ \E r \in SkipReaders :
          \/ \E op \in {"seek", "before"}, target \in SkipKeys : Search(r, op, target)
          \/ Search(r, "last", End)
          \/ \E node \in SkipKeys : Walk(r, node)
          \/ Advance(r)
          \/ Finish(r)

SkipSpec == SkipInit /\ [][SkipNext]_skipVars

-----------------------------------------------------------------------------

Between(low, high) == {k \in SkipKeys : low < k /\ k < high}

(* A reader without a lock ends at a node of the list (or at its head or end)
   on the right side of its target, and passes over no key that was in the list
   when it began, whatever the writer stores between two of its loads and
   however old the height it started from. *)
ReadersMissNothing ==
    \A r \in SkipReaders : AtResult(reader[r]) =>
        LET reading == reader[r]
            result  == Result(reading)
            missed  == IF reading.op \in {"seek", "next"}
                       THEN Between(reading.target - 1, result)
                       ELSE Between(result, reading.target)
        IN /\ result \in Listed(0) \cup {HeadNode, End}
           /\ reading.op \in {"seek", "next"} => result >= reading.target
           /\ reading.op = "before" => result < reading.target
           /\ missed \cap reading.start = {}

(* In the middle of an insertion too every level is in order and part of the
   level below it: that is what lets a reader drop a level anywhere. *)
LevelsNest ==
    \A level \in Rows :
        /\ \A node \in Listed(level) \cup {HeadNode} : next[level][node] > node
        /\ level > 0 => Listed(level) \subseteq Listed(level - 1)

=============================================================================
