---------------------------- MODULE TableFormat ----------------------------
(***************************************************************************)
(* A table file of leveldb, from its builder to its readers:               *)
(* table/table_builder.cc, block_builder.cc, filter_block.cc, table.cc,    *)
(* block.cc, two_level_iterator.cc, and what they ask of the comparators.  *)
(*                                                                         *)
(* A key is a sequence of bytes, the user key's and one for its sequence   *)
(* number, since prefixes and separators are about bytes.  A value is its  *)
(* length.  In a block, offsets are the numbers of entries; offsets in the *)
(* file are bytes, as the filter block goes by them.                       *)
(***************************************************************************)
EXTENDS Integers, Sequences

CONSTANTS
    UserKeys,             \* user keys, sequences of 0 .. MaxByte
    MaxByte,              \* 0xff
    TableSeqs, MaxTag,    \* sequence numbers and kMaxSequenceNumber
    ValueSizes,
    RestartInterval,      \* block_restart_interval of data blocks
    BlockLimit,           \* block_size
    FilterBase,           \* kFilterBase
    MaxAdded,             \* bound on the entries of a table
    NoIter                \* nullptr

ASSUME TableAssumption ==
    /\ UserKeys \subseteq Seq(0 .. MaxByte) /\ MaxTag \in Nat
    /\ TableSeqs \subseteq 0 .. MaxTag /\ ValueSizes \subseteq Nat
    /\ {RestartInterval, BlockLimit, FilterBase, MaxAdded} \subseteq Nat \ {0}

VARIABLES
    added,     \* history: the entries in order, [key, value]
    rep,       \* TableBuilder::Rep, with what it has written:
               \*   data, index: data_block, index_block (its values are numbers
               \*   of data blocks); pending: pending_index_entry; blocks: the
               \*   data blocks, offsets: where each begins, offset: where the
               \*   next one will; keys: user keys that no filter has yet;
               \*   filters: the user keys of each filter
    sealed,    \* Finish has been called: rep.blocks, index and filters are the file
    walker,    \* a TwoLevelIterator on the table
    place      \* history: the entry it should be at, 0 for none

tableVars == <<added, rep, sealed, walker, place>>

-----------------------------------------------------------------------------
(* Keys. *)
InternalKeyOf(user, seq) == Append(user, seq)
UserPart(key) == SubSeq(key, 1, Len(key) - 1)
SeqPart(key)  == key[Len(key)]

SharedLength(a, b) ==
    CHOOSE n \in 0 .. Len(a) :
        /\ n <= Len(b) /\ SubSeq(a, 1, n) = SubSeq(b, 1, n)
        /\ n = Len(a) \/ n = Len(b) \/ a[n + 1] # b[n + 1]

BytesLess(a, b) ==
    LET n == SharedLength(a, b) IN n < Len(b) /\ (n < Len(a) => a[n + 1] < b[n + 1])

\* Newer entries of a key come first.
KeyLess(a, b) ==
    \/ BytesLess(UserPart(a), UserPart(b))
    \/ UserPart(a) = UserPart(b) /\ SeqPart(a) > SeqPart(b)

Incremented(bytes, i) == Append(SubSeq(bytes, 1, i - 1), bytes[i] + 1)

BytesSeparator(start, limit) ==
    LET i == SharedLength(start, limit) + 1
    IN IF i <= Len(start) /\ i <= Len(limit) /\ start[i] < MaxByte /\ start[i] + 1 < limit[i]
       THEN Incremented(start, i) ELSE start

BytesSuccessor(bytes) ==
    LET low == {i \in DOMAIN bytes : bytes[i] # MaxByte}
    IN IF low = {} THEN bytes
       ELSE Incremented(bytes, CHOOSE i \in low : \A j \in low : i <= j)

\* The shorter user key with the earliest tag there is.
Shortened(key, user) ==
    IF Len(user) < Len(UserPart(key)) /\ BytesLess(UserPart(key), user)
    THEN InternalKeyOf(user, MaxTag) ELSE key

FindShortestSeparator(start, limit) ==
    Shortened(start, BytesSeparator(UserPart(start), UserPart(limit)))
FindShortSuccessor(key) == Shortened(key, BytesSuccessor(UserPart(key)))

-----------------------------------------------------------------------------
(* BlockBuilder.  An entry leaves out what its key shares with the one     *)
(* before it, except at a restart point.                                   *)
NewBlock == [entries |-> <<>>, restarts |-> <<1>>, counter |-> 0, last |-> <<>>, bytes |-> 0]

BlockAdd(b, key, value, size, interval) ==
    LET restart == b.counter >= interval
        shared  == IF restart THEN 0 ELSE SharedLength(b.last, key)
        delta   == SubSeq(key, shared + 1, Len(key))
    IN [entries  |-> Append(b.entries, [shared |-> shared, delta |-> delta, value |-> value]),
        restarts |-> IF restart THEN Append(b.restarts, Len(b.entries) + 1) ELSE b.restarts,
        counter  |-> (IF restart THEN 0 ELSE b.counter) + 1,
        last     |-> key,
        bytes    |-> b.bytes + 3 + Len(delta) + size]

CurrentSizeEstimate(b) == b.bytes + 4 * Len(b.restarts) + 4

Written(b) == [entries |-> b.entries, restarts |-> b.restarts]

(* TableBuilder. *)
TableInit ==
    /\ added = <<>>
    /\ rep = [data |-> NewBlock, index |-> NewBlock, pending |-> FALSE, blocks |-> <<>>,
              offsets |-> <<>>, offset |-> 0, keys |-> {}, filters |-> <<>>]
    /\ sealed = FALSE /\ walker = NoIter /\ place = 0

\* One filter for every FilterBase bytes of the file; the first one that is
\* missing gets the keys.
StartBlockOnce(r) ==
    IF r.offset \div FilterBase > Len(r.filters)
    THEN [r EXCEPT !.filters = Append(@, r.keys), !.keys = {}] ELSE r

StartBlock(r) ==
    LET missing == (r.offset \div FilterBase) - Len(r.filters)
    IN IF missing > 0
       THEN [r EXCEPT !.filters = @ \o <<r.keys>> \o [i \in 1 .. missing - 1 |-> {}], !.keys = {}]
       ELSE r

\* A block is followed by its type and its checksum, five bytes.
Flush(r) ==
    IF r.data.entries = <<>> THEN r
    ELSE StartBlock([r EXCEPT
            !.blocks  = Append(@, Written(r.data)),
            !.offsets = Append(@, r.offset),
            !.offset  = @ + CurrentSizeEstimate(r.data) + 5,
            !.data    = NewBlock,
            !.pending = TRUE])

AddIndexEntry(r, key) ==
    IF r.pending
    THEN [r EXCEPT !.index = BlockAdd(@, key, Len(r.blocks), 0, 1), !.pending = FALSE] ELSE r

LastFilter(r) == IF r.keys = {} THEN r ELSE [r EXCEPT !.filters = Append(@, r.keys), !.keys = {}]

LastKey == added[Len(added)].key

\* The block before gets its index entry when the next key is known.
TableAdd(key, size) ==
    /\ ~sealed /\ Len(added) < MaxAdded
    /\ added # <<>> => KeyLess(LastKey, key)
    /\ added' = Append(added, [key |-> key, value |-> size])
    /\ LET indexed == IF rep.pending THEN AddIndexEntry(rep, FindShortestSeparator(LastKey, key))
                      ELSE rep
           r == [indexed EXCEPT !.data = BlockAdd(@, key, size, size, RestartInterval),
                                !.keys = @ \cup {UserPart(key)}]
       IN rep' = IF CurrentSizeEstimate(r.data) >= BlockLimit THEN Flush(r) ELSE r
    /\ UNCHANGED <<sealed, walker, place>>

\* A builder that was given no entry is abandoned (BuildTable).
TableFinish ==
    /\ ~sealed /\ added # <<>>
    /\ rep' = AddIndexEntry(LastFilter(Flush(rep)), FindShortSuccessor(LastKey))
    /\ sealed' = TRUE
    /\ UNCHANGED <<added, walker, place>>

-----------------------------------------------------------------------------
(* Block::Iter: at is current_, next where value_ ends, restart the index  *)
(* of the restart point; broken once an entry could not be decoded.        *)
EntriesEnd(b) == Len(b.entries) + 1
Stands(b, it) == it.at < EntriesEnd(b)

Past(b, it) == [it EXCEPT !.at = EntriesEnd(b), !.restart = Len(b.restarts) + 1]
BlockIter(b) ==
    Past(b, [at |-> 0, restart |-> 0, key |-> <<>>, next |-> EntriesEnd(b), broken |-> FALSE])

CorruptionError(b, it) == [Past(b, it) EXCEPT !.key = <<>>, !.broken = TRUE]

SeekToRestartPoint(b, it, r) == [it EXCEPT !.key = <<>>, !.restart = r, !.next = b.restarts[r]]

ParseNextKey(b, it) ==
    IF it.next >= EntriesEnd(b) THEN Past(b, it)
    ELSE LET e == b.entries[it.next]
             behind == {r \in DOMAIN b.restarts : r > it.restart /\ b.restarts[r] < it.next}
         IN IF Len(it.key) < e.shared THEN CorruptionError(b, it)
            ELSE [it EXCEPT
                    !.at = it.next,
                    !.key = SubSeq(it.key, 1, e.shared) \o e.delta,
                    !.next = it.next + 1,
                    !.restart = IF behind = {} THEN @ ELSE CHOOSE r \in behind : \A o \in behind : o <= r]

RECURSIVE ParseUpTo(_, _, _)
ParseUpTo(b, it, limit) ==
    LET parsed == ParseNextKey(b, it)
    IN IF Stands(b, parsed) /\ parsed.next < limit THEN ParseUpTo(b, parsed, limit) ELSE parsed

BlockFirst(b, it) == ParseNextKey(b, SeekToRestartPoint(b, it, 1))
BlockLast(b, it) ==
    ParseUpTo(b, SeekToRestartPoint(b, it, Len(b.restarts)), EntriesEnd(b))
BlockNext(b, it) == ParseNextKey(b, it)

BlockPrevNotBefore(b, it) ==
    LET before == {r \in 1 .. it.restart : b.restarts[r] <= it.at}
    IN IF before = {} THEN Past(b, it)
       ELSE LET r == CHOOSE r \in before : \A o \in before : o <= r
            IN ParseUpTo(b, SeekToRestartPoint(b, it, r), it.at)

\* Back to a restart point before the entry, and forward from there.
BlockPrev(b, it) ==
    LET before == {r \in 1 .. it.restart : b.restarts[r] < it.at}
    IN IF before = {} THEN Past(b, it)
       ELSE LET r == CHOOSE r \in before : \A o \in before : o <= r
            IN ParseUpTo(b, SeekToRestartPoint(b, it, r), it.at)

\* The last restart point with a key before the target, 0 if one is broken.
RECURSIVE RestartBefore(_, _, _, _)
RestartBefore(b, target, left, right) ==
    IF left >= right THEN left
    ELSE LET mid == (left + right + 1) \div 2
             e   == b.entries[b.restarts[mid]]
         IN IF e.shared # 0 THEN 0
            ELSE IF KeyLess(e.delta, target) THEN RestartBefore(b, target, mid, right)
            ELSE RestartBefore(b, target, left, mid - 1)

RECURSIVE ParseUntil(_, _, _)
ParseUntil(b, it, target) ==
    LET parsed == ParseNextKey(b, it)
    IN IF Stands(b, parsed) /\ KeyLess(parsed.key, target)
       THEN ParseUntil(b, parsed, target) ELSE parsed

BlockSeek(b, it, target) ==
    LET r == RestartBefore(b, target, 1, Len(b.restarts))
    IN IF r = 0 THEN CorruptionError(b, it)
       ELSE ParseUntil(b, SeekToRestartPoint(b, it, r), target)

-----------------------------------------------------------------------------
(* TwoLevelIterator: an iterator on the index and one on a data block,     *)
(* which is NoIter when there is none; block is data_block_handle_.        *)
NewWalker == [index |-> BlockIter(rep.index), block |-> 0, data |-> NoIter]

WalkerValid(w) == w.data # NoIter /\ Stands(rep.blocks[w.block], w.data)

InitDataBlock(w) ==
    IF ~Stands(rep.index, w.index) THEN [w EXCEPT !.data = NoIter]
    ELSE LET n == rep.index.entries[w.index.at].value
         IN IF w.data # NoIter /\ n = w.block THEN w
            ELSE [w EXCEPT !.block = n, !.data = BlockIter(rep.blocks[n])]

OnIndex(w, it) == InitDataBlock([w EXCEPT !.index = it])
OnData(w, Move(_, _)) ==
    IF w.data = NoIter THEN w ELSE [w EXCEPT !.data = Move(rep.blocks[w.block], @)]

RECURSIVE SkipForward(_), SkipBackward(_)
SkipForward(w) ==
    IF WalkerValid(w) THEN w
    ELSE IF ~Stands(rep.index, w.index) THEN [w EXCEPT !.data = NoIter]
    ELSE SkipForward(OnData(OnIndex(w, BlockNext(rep.index, w.index)), BlockFirst))
SkipBackward(w) ==
    IF WalkerValid(w) THEN w
    ELSE IF ~Stands(rep.index, w.index) THEN [w EXCEPT !.data = NoIter]
    ELSE SkipBackward(OnData(OnIndex(w, BlockPrev(rep.index, w.index)), BlockLast))

\* The entry a call should stop at: the first one from the target, or 0.
Indices == DOMAIN added
FirstIn(S) == IF S = {} THEN 0 ELSE CHOOSE i \in S : \A j \in S : i <= j
FirstFrom(target) == FirstIn({i \in Indices : ~KeyLess(added[i].key, target)})

NewTableIterator ==
    /\ sealed /\ walker = NoIter
    /\ walker' = NewWalker /\ place' = 0
    /\ UNCHANGED <<added, rep, sealed>>

WalkTo(w, i) == walker' = w /\ place' = i /\ UNCHANGED <<added, rep, sealed>>

TableSeek(target) ==
    /\ walker # NoIter
    /\ LET seek(b, it) == BlockSeek(b, it, target)
       IN WalkTo(SkipForward(OnData(OnIndex(walker, seek(rep.index, walker.index)), seek)),
                 FirstFrom(target))
TableFirst ==
    /\ walker # NoIter
    /\ WalkTo(SkipForward(OnData(OnIndex(walker, BlockFirst(rep.index, walker.index)), BlockFirst)),
              1)
TableLast ==
    /\ walker # NoIter
    /\ WalkTo(SkipBackward(OnData(OnIndex(walker, BlockLast(rep.index, walker.index)), BlockLast)),
              Len(added))
TableNext ==
    /\ walker # NoIter /\ WalkerValid(walker)
    /\ WalkTo(SkipForward(OnData(walker, BlockNext)), FirstIn({i \in Indices : i > place}))
TablePrev ==
    /\ walker # NoIter /\ WalkerValid(walker)
    /\ WalkTo(SkipBackward(OnData(walker, BlockPrev)), IF place = 0 THEN 0 ELSE place - 1)

Targets == {InternalKeyOf(u, s) : u \in UserKeys, s \in TableSeqs \cup {MaxTag}}

TableFormatNext ==
    \/ \E u \in UserKeys, s \in TableSeqs, size \in ValueSizes : TableAdd(InternalKeyOf(u, s), size)
    \/ TableFinish
    \/ NewTableIterator
    \/ TableFirst
    \/ TableLast
    \/ TableNext
    \/ TablePrev
    \/ \E target \in Targets : TableSeek(target)

TableSpec == TableInit /\ [][TableFormatNext]_tableVars

-----------------------------------------------------------------------------
(* SAFETY: whatever way a table's iterator is moved, it stands on the entry *)
(* that was added there, with its whole key, or nowhere if there is none;   *)
(* no block reads as corrupt.                                               *)
TableWalked ==
    walker # NoIter =>
        /\ ~walker.index.broken /\ (walker.data # NoIter => ~walker.data.broken)
        /\ WalkerValid(walker) <=> place # 0
        /\ place # 0 =>
              /\ walker.data.key = added[place].key
              /\ rep.blocks[walker.block].entries[walker.data.at].value = added[place].value

\* FilterBlockReader::KeyMayMatch with a policy that knows its keys exactly.
KeyMayMatch(offset, key) ==
    LET i == (offset \div FilterBase) + 1
    IN i \in DOMAIN rep.filters => UserPart(key) \in rep.filters[i]

\* Table::InternalGet: the entry it hands to the caller.
InternalGet(target) ==
    LET it == BlockSeek(rep.index, BlockIter(rep.index), target)
        n  == rep.index.entries[it.at].value
        found == BlockSeek(rep.blocks[n], BlockIter(rep.blocks[n]), target)
    IN IF \/ ~Stands(rep.index, it)
          \/ ~KeyMayMatch(rep.offsets[n], target)
          \/ ~Stands(rep.blocks[n], found)
       THEN NoIter
       ELSE [key |-> found.key, value |-> rep.blocks[n].entries[found.at].value]

(* SAFETY: a Get finds the newest entry of its key that its sequence number *)
(* may see, past shortened index keys, restart points and filters, and no   *)
(* entry of the key if there is none.                                       *)
TableFinds ==
    sealed /\ walker = NoIter =>
        \A target \in Targets :
            LET i == FirstFrom(target)
                hit == i # 0 /\ UserPart(added[i].key) = UserPart(target)
                got == InternalGet(target)
            IN IF hit THEN got = added[i]
               ELSE got = NoIter \/ UserPart(got.key) # UserPart(target)

=============================================================================
