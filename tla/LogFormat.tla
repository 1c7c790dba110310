----------------------------- MODULE LogFormat -----------------------------
(***************************************************************************)
(* The files leveldb logs to (its write-ahead log and its MANIFEST):       *)
(* log::Writer and log::Reader, db/log_writer.cc and db/log_reader.cc.  A  *)
(* file is blocks, a record is cut into physical records that do not cross *)
(* a block's end, each behind a header of its length, type and checksum.   *)
(*                                                                         *)
(* Offsets and lengths are bytes; what a payload holds is only of which    *)
(* record it is.  A process that dies leaves any first part of the file.   *)
(***************************************************************************)
EXTENDS Integers, Sequences

CONSTANTS BlockSize, HeaderSize,    \* kBlockSize, kHeaderSize
          MaxRecords, MaxLength     \* bounds on the records written

ASSUME LogAssumption ==
    /\ {BlockSize, HeaderSize, MaxRecords, MaxLength} \subseteq Nat
    /\ HeaderSize > 0 /\ BlockSize > HeaderSize

VARIABLES
    pieces,      \* the physical records, each with its offset
    written      \* history: how many records were added

logVars == <<pieces, written>>

LogInit == pieces = <<>> /\ written = 0

EndOf(piece) == piece.offset + HeaderSize + piece.length
FileEnd(some) == IF some = <<>> THEN 0 ELSE EndOf(some[Len(some)])

(***************************************************************************)
(* Writing.  A trailer too short for a header is filled up; a fragment     *)
(* takes what is left of the record or of the block.                       *)
(***************************************************************************)
Leftover(end) == BlockSize - (end % BlockSize)

\* Faulty variant: a header may lack one byte.
NextOffsetTight(end) ==
    IF Leftover(end) < HeaderSize - 1 THEN end + Leftover(end) ELSE end
NextOffset(end) ==
    IF Leftover(end) < HeaderSize THEN end + Leftover(end) ELSE end

FragmentType(begin, last) ==
    IF begin THEN IF last THEN "full" ELSE "first"
             ELSE IF last THEN "last" ELSE "middle"

\* One round of AddRecord's loop; w is what is written and what is left.
Emit(w) ==
    LET offset == NextOffset(FileEnd(w.pieces))
        avail  == BlockSize - (offset % BlockSize) - HeaderSize
        length == IF w.left < avail THEN w.left ELSE avail
    IN [pieces |-> Append(w.pieces, [offset |-> offset, length |-> length,
                                     type   |-> FragmentType(w.begin, length = w.left),
                                     record |-> written + 1]),
        left   |-> w.left - length,
        begin  |-> FALSE]

EmitMore(w) == IF w.begin \/ w.left > 0 THEN Emit(w) ELSE w

AddRecord(size) ==
    LET emitted[n \in 0 .. size + 2] ==
            IF n = 0 THEN [pieces |-> pieces, left |-> size, begin |-> TRUE]
            ELSE EmitMore(emitted[n - 1])
    IN /\ written < MaxRecords
       /\ written' = written + 1
       /\ pieces' = emitted[size + 2].pieces

LogNext == \E size \in 0 .. MaxLength : AddRecord(size)

LogSpec == LogInit /\ [][LogNext]_logVars

(***************************************************************************)
(* Reading the first bytes of the file.  The buffer is what is left of the *)
(* block pos is in; at the end of the file the last block is short.        *)
(***************************************************************************)
BlockEnd(pos) == (pos \div BlockSize + 1) * BlockSize
Eof(pos, bytes) == bytes < BlockEnd(pos)
Buffered(pos, bytes) == (IF Eof(pos, bytes) THEN bytes ELSE BlockEnd(pos)) - pos

\* A buffer too short for a header is the trailer of a full block.
SkipTrailer(pos, bytes) ==
    IF Buffered(pos, bytes) < HeaderSize /\ ~Eof(pos, bytes) THEN BlockEnd(pos) ELSE pos

\* ReadPhysicalRecord: a type, what was read, and where to go on.
Physical(pos, bytes) ==
    LET there == {pieces[i] : i \in {i \in DOMAIN pieces : pieces[i].offset = pos}}
        Rest(type) == [type |-> type, piece |-> {}, pos |-> pos + Buffered(pos, bytes)]
    IN IF Buffered(pos, bytes) < HeaderSize THEN Rest("eof")
       ELSE IF there = {} THEN Rest("bad")
       ELSE LET piece == CHOOSE piece \in there : TRUE
            IN IF HeaderSize + piece.length > Buffered(pos, bytes)
               THEN Rest(IF Eof(pos, bytes) THEN "eof" ELSE "bad")
               ELSE [type |-> piece.type, piece |-> {piece}, pos |-> EndOf(piece)]

ReadPhysicalRecord(pos, bytes) == Physical(SkipTrailer(pos, bytes), bytes)

Size(some) == IF \E piece \in some : piece.length > 0 THEN 1 ELSE 0

\* One round of ReadRecord's loop: s.out are the records returned, each the
\* set of its fragments, and s.drops counts reports of corruption.
ReadRound(s, got) ==
    [pos   |-> got.pos,
     over  |-> got.type = "eof",
     out   |-> IF got.type = "full" THEN Append(s.out, got.piece)
               ELSE IF got.type = "last" /\ s.fragmented
                    THEN Append(s.out, s.scratch \cup got.piece) ELSE s.out,
     drops |-> s.drops + (IF got.type = "full" \/ got.type = "first"
                          THEN IF s.fragmented THEN Size(s.scratch) ELSE 0
                          ELSE IF got.type = "bad" THEN 1
                          ELSE IF got.type # "eof" /\ ~s.fragmented THEN 1 ELSE 0),
     fragmented |-> got.type = "first" \/ (got.type = "middle" /\ s.fragmented),
     scratch |-> IF got.type = "first" THEN got.piece
                 ELSE IF got.type = "middle" /\ s.fragmented
                      THEN s.scratch \cup got.piece ELSE {}]

ReadMore(s, bytes) ==
    IF s.over THEN s ELSE ReadRound(s, ReadPhysicalRecord(s.pos, bytes))

Reading(bytes) ==
    LET rounds == 2 * Len(pieces) + 2
        read[n \in 0 .. rounds] ==
            IF n = 0 THEN [pos |-> 0, over |-> FALSE, out |-> <<>>, drops |-> 0,
                           fragmented |-> FALSE, scratch |-> {}]
            ELSE ReadMore(read[n - 1], bytes)
    IN read[rounds]

-----------------------------------------------------------------------------

FragmentsOf(record) == {pieces[i] : i \in {i \in DOMAIN pieces : pieces[i].record = record}}

Whole(record, bytes) == \A piece \in FragmentsOf(record) : EndOf(piece) <= bytes

(* Wherever the file ends, a reader returns the records that are in it as a
   whole, each with exactly its own fragments and in order, and takes the torn
   one behind them for no corruption: no cut makes two records one, returns
   half of one, or hides one in front of it. *)
TornTailIgnored ==
    \A bytes \in 0 .. FileEnd(pieces) :
        \E n \in 0 .. written :
            /\ \A record \in 1 .. written : Whole(record, bytes) <=> record <= n
            /\ Reading(bytes).out = [record \in 1 .. n |-> FragmentsOf(record)]
            /\ Reading(bytes).drops = 0

=============================================================================
