--------------------------- MODULE MergedIterator ---------------------------
(***************************************************************************)
(* An iterator of leveldb: DBIter (db/db_iter.cc) over a MergingIterator   *)
(* (table/merger.cc) over one child for each memtable, level-0 file and    *)
(* level.  A child is the set of its entries and a position; the first one *)
(* is the live memtable, which writers add to while the iterator is used.  *)
(*                                                                         *)
(* An entry is a user key, a sequence number and a type; its value is its  *)
(* sequence number.  A user's call is one step and so is a write: a write  *)
(* in the middle of a call adds what the call may not see.                 *)
(***************************************************************************)
EXTENDS Integers, FiniteSets

CONSTANTS
    IterKeys,               \* user keys, numbers
    NumChildren,            \* the merging iterator's n
    LastWritten,            \* LastSequence when the iterator is made
    MaxLive,                \* bound on writes while it is used
    Nowhere                 \* no entry, no key

VARIABLES
    made,        \* the iterator exists
    held,        \* the entries of each child
    snapshot,    \* DBIter::sequence_
    merged,      \* the MergingIterator
    cursor,      \* the DBIter
    want         \* history: the key it should be at, or Nowhere

iteratorVars == <<made, held, snapshot, merged, cursor, want>>

Children == 1 .. NumChildren

Kinds   == {"value", "deletion"}
Entries == [key : IterKeys, seq : 1 .. LastWritten + MaxLive, kind : Kinds]

ASSUME IteratorAssumption ==
    /\ IterKeys \subseteq Nat
    /\ {LastWritten, MaxLive} \subseteq Nat
    /\ NumChildren \in Nat \ {0, 1}
    /\ Nowhere \notin Nat \cup Entries

(***************************************************************************)
(* The order of internal keys, and the positions of a child.               *)
(***************************************************************************)
Precedes(e, f) == e.key < f.key \/ (e.key = f.key /\ e.seq > f.seq)

FirstOf(S) == IF S = {} THEN Nowhere ELSE CHOOSE e \in S : \A f \in S \ {e} : Precedes(e, f)
LastOf(S)  == IF S = {} THEN Nowhere ELSE CHOOSE e \in S : \A f \in S \ {e} : Precedes(f, e)

AtOrAfter(S, e) == FirstOf({f \in S : ~Precedes(f, e)})
After(S, e)     == FirstOf({f \in S : Precedes(e, f)})
Before(S, e)    == LastOf({f \in S : Precedes(f, e)})

(***************************************************************************)
(* The MergingIterator: the positions of its children, the child it is at  *)
(* (0 for nullptr) and its direction.                                      *)
(***************************************************************************)
Valid(m) == m.current # 0
At(m)    == m.at[m.current]

Standing(at) == {c \in Children : at[c] # Nowhere}

FindSmallest(at) ==
    [at |-> at, forward |-> TRUE,
     current |-> IF Standing(at) = {} THEN 0
                 ELSE CHOOSE c \in Standing(at) :
                        \A d \in Standing(at) \ {c} : Precedes(at[c], at[d])]
FindLargest(at) ==
    [at |-> at, forward |-> FALSE,
     current |-> IF Standing(at) = {} THEN 0
                 ELSE CHOOSE c \in Standing(at) :
                        \A d \in Standing(at) \ {c} : Precedes(at[d], at[c])]

MergedSeek(e) == FindSmallest([c \in Children |-> AtOrAfter(held[c], e)])
MergedFirst   == FindSmallest([c \in Children |-> FirstOf(held[c])])
MergedLast    == FindLargest([c \in Children |-> LastOf(held[c])])

\* A change of direction puts the other children on the far side of the key.
\* Faulty variant: Next leaves them where they are.
MergedNextUnturned(m) ==
    FindSmallest([c \in Children |-> IF c = m.current THEN After(held[c], m.at[c]) ELSE m.at[c]])
MergedNext(m) ==
    FindSmallest([c \in Children |->
        IF c # m.current /\ m.forward THEN m.at[c] ELSE After(held[c], At(m))])
MergedPrev(m) ==
    FindLargest([c \in Children |->
        IF c # m.current /\ ~m.forward THEN m.at[c] ELSE Before(held[c], At(m))])

(***************************************************************************)
(* The DBIter: [valid, forward, key, value], the last two what key() and   *)
(* value() return.  Its loops read one entry a round; a state of a loop    *)
(* has the merged iterator, whether it is over, and the loop's locals.     *)
(***************************************************************************)
Rounds == Cardinality(UNION {held[c] : c \in Children}) + 1

NotValid(m, forward) == [m |-> m, cursor |-> [valid |-> FALSE, forward |-> forward,
                                              key |-> Nowhere, value |-> Nowhere]]

\* FindNextUserEntry: passes what the snapshot may not see, what is hidden by
\* an entry of the key already passed, and deletions with all they hide.
Yields(e, s) ==
    e.seq <= snapshot /\ e.kind = "value" /\ ~(s.skipping /\ e.key <= s.skip)
Skips(e) == e.seq <= snapshot /\ e.kind = "deletion"

ForwardRound(s) ==
    IF s.over \/ ~Valid(s.m) \/ Yields(At(s.m), s) THEN [s EXCEPT !.over = TRUE]
    ELSE [m        |-> MergedNext(s.m),
          over     |-> FALSE,
          skipping |-> s.skipping \/ Skips(At(s.m)),
          skip     |-> IF Skips(At(s.m)) THEN At(s.m).key ELSE s.skip]

Forward(end) ==
    IF Valid(end.m)
    THEN [m |-> end.m, cursor |-> [valid |-> TRUE, forward |-> TRUE,
                                   key |-> At(end.m).key, value |-> At(end.m).seq]]
    ELSE NotValid(end.m, TRUE)

FindNextUserEntry(m, skipping, skip) ==
    LET round[n \in 0 .. Rounds] ==
            IF n = 0 THEN [m |-> m, over |-> FALSE, skipping |-> skipping, skip |-> skip]
            ELSE ForwardRound(round[n - 1])
    IN Forward(round[Rounds])

\* FindPrevUserEntry: keeps the last entry it may see of a key until it stands
\* before the key; a deletion makes it forget and go on.
StopsBefore(e, s) == e.seq <= snapshot /\ s.kind = "value" /\ e.key < s.key

BackwardRound(s) ==
    IF s.over \/ ~Valid(s.m) \/ StopsBefore(At(s.m), s) THEN [s EXCEPT !.over = TRUE]
    ELSE IF At(s.m).seq > snapshot THEN [s EXCEPT !.m = MergedPrev(s.m)]
    ELSE [m     |-> MergedPrev(s.m),
          over  |-> FALSE,
          kind  |-> At(s.m).kind,
          key   |-> IF At(s.m).kind = "value" THEN At(s.m).key ELSE Nowhere,
          value |-> IF At(s.m).kind = "value" THEN At(s.m).seq ELSE Nowhere]

Backward(end) ==
    IF end.kind = "value"
    THEN [m |-> end.m, cursor |-> [valid |-> TRUE, forward |-> FALSE,
                                   key |-> end.key, value |-> end.value]]
    ELSE NotValid(end.m, TRUE)

FindPrevUserEntry(m) ==
    LET round[n \in 0 .. Rounds] ==
            IF n = 0 THEN [m |-> m, over |-> FALSE, kind |-> "deletion",
                           key |-> Nowhere, value |-> Nowhere]
            ELSE BackwardRound(round[n - 1])
    IN Backward(round[Rounds])

\* The scan with which Prev turns round: back until the key changes.
StepBack(m, key)  == IF Valid(m) /\ At(m).key >= key THEN MergedPrev(m) ELSE m
BeforeKey(m, key) ==
    LET back[n \in 0 .. Rounds] ==
            IF n = 0 THEN m
            ELSE StepBack(back[n - 1], key)
    IN back[Rounds]

(***************************************************************************)
(* What the snapshot holds.                                                *)
(***************************************************************************)
SeenOf(k) ==
    LET seen == {e \in UNION {held[c] : c \in Children} : e.key = k /\ e.seq <= snapshot}
    IN {e \in seen : e.kind = "value" /\ \A f \in seen : f.seq <= e.seq}

Shown == {k \in IterKeys : SeenOf(k) # {}}

LeastOf(S)    == IF S = {} THEN Nowhere ELSE CHOOSE k \in S : \A j \in S : k <= j
GreatestOf(S) == IF S = {} THEN Nowhere ELSE CHOOSE k \in S : \A j \in S : k >= j

-----------------------------------------------------------------------------

NoCursor == [valid |-> FALSE, forward |-> TRUE, key |-> Nowhere, value |-> Nowhere]

IteratorInit ==
    /\ made = FALSE
    /\ held = [c \in Children |-> {}]
    /\ snapshot = 0
    /\ merged = [at |-> [c \in Children |-> Nowhere], forward |-> TRUE, current |-> 0]
    /\ cursor = NoCursor
    /\ want = Nowhere

\* One entry for every sequence number; of one key, the newer entries are in
\* the earlier children.
Layouts ==
    LET Placings == [key : IterKeys, child : Children, kind : Kinds]
        InOrder(place) ==
            \A s, t \in 1 .. LastWritten :
                s < t /\ place[s].key = place[t].key => place[t].child <= place[s].child
    IN {place \in [1 .. LastWritten -> Placings] : InOrder(place)}

\* NewInternalIterator and NewDBIterator, for the last sequence number or an
\* older snapshot.
MakeIterator ==
    /\ ~made
    /\ made' = TRUE
    /\ \E place \in Layouts, s \in 0 .. LastWritten :
          /\ snapshot' = s
          /\ held' = [c \in Children |->
                {[key |-> place[q].key, seq |-> q, kind |-> place[q].kind] :
                    q \in {q \in 1 .. LastWritten : place[q].child = c}}]
    /\ UNCHANGED <<merged, cursor, want>>

\* A write to the memtable the iterator reads.
WriteLive(k, kind) ==
    LET written == {e.seq : e \in UNION {held[c] : c \in Children}}
    IN /\ made
       /\ Cardinality(written) < LastWritten + MaxLive
       /\ held' = [held EXCEPT ![1] = @ \cup
                    {[key |-> k, seq |-> Cardinality(written) + 1, kind |-> kind]}]
       /\ UNCHANGED <<made, snapshot, merged, cursor, want>>

Settle(result) == merged' = result.m /\ cursor' = result.cursor

SeekFrom(m) == IF Valid(m) THEN FindNextUserEntry(m, FALSE, Nowhere) ELSE NotValid(m, TRUE)

Seek(k) ==
    /\ made
    /\ Settle(SeekFrom(MergedSeek([key |-> k, seq |-> snapshot])))
    /\ want' = LeastOf({j \in Shown : j >= k})
    /\ UNCHANGED <<made, held, snapshot>>

SeekToFirst ==
    /\ made
    /\ Settle(SeekFrom(MergedFirst))
    /\ want' = LeastOf(Shown)
    /\ UNCHANGED <<made, held, snapshot>>

SeekToLast ==
    /\ made
    /\ Settle(FindPrevUserEntry(MergedLast))
    /\ want' = GreatestOf(Shown)
    /\ UNCHANGED <<made, held, snapshot>>

\* Backwards the merged iterator stands before the key's entries, or nowhere.
NextFrom ==
    IF cursor.forward THEN merged
    ELSE IF Valid(merged) THEN MergedNext(merged) ELSE MergedFirst

IterNext ==
    /\ made /\ cursor.valid
    /\ Settle(IF Valid(NextFrom) THEN FindNextUserEntry(NextFrom, TRUE, cursor.key)
              ELSE NotValid(NextFrom, TRUE))
    /\ want' = LeastOf({j \in Shown : j > want})
    /\ UNCHANGED <<made, held, snapshot>>

IterPrev ==
    /\ made /\ cursor.valid
    /\ LET start == IF cursor.forward THEN BeforeKey(merged, cursor.key) ELSE merged
       IN Settle(IF cursor.forward /\ ~Valid(start) THEN NotValid(start, TRUE)
                 ELSE FindPrevUserEntry(start))
    /\ want' = GreatestOf({j \in Shown : j < want})
    /\ UNCHANGED <<made, held, snapshot>>

IteratorNext ==
    \/ MakeIterator
    \/ \E k \in IterKeys, kind \in Kinds : WriteLive(k, kind)
    \/ \E k \in IterKeys : Seek(k)
    \/ SeekToFirst \/ SeekToLast
    \/ IterNext \/ IterPrev

IteratorSpec == IteratorInit /\ [][IteratorNext]_iteratorVars

-----------------------------------------------------------------------------

(* Whatever calls are made in whatever order, with turns at any entry and
   writes between them, the iterator is where its snapshot says: at the key
   want with the value the snapshot holds for it, or not valid. *)
FollowsSnapshot ==
    /\ cursor.valid <=> want # Nowhere
    /\ cursor.valid => /\ cursor.key = want
                       /\ \E e \in SeenOf(want) : cursor.value = e.seq

=============================================================================
