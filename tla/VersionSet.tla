----------------------------- MODULE VersionSet -----------------------------
(***************************************************************************)
(* The versions of leveldb's file set and the choice of compactions,       *)
(* db/version_set.cc, with the order of internal keys of db/dbformat.h.    *)
(* The module has no state: a version is a function from levels to sets of *)
(* files, and every operation of the class is an operator on one.          *)
(*                                                                         *)
(* User keys are numbers.  A file is its number and its entries, and one   *)
(* entry stands for one unit of size, so file_size is the number of        *)
(* entries and every limit in bytes becomes a number of entries.           *)
(***************************************************************************)
EXTENDS Integers, FiniteSets

CONSTANTS
    NumLevels,        \* kNumLevels
    L0Trigger,        \* kL0_CompactionTrigger
    MaxMemLevel,      \* kMaxMemCompactLevel
    FileLimit,        \* max_file_size
    LevelLimit,       \* MaxBytesForLevel of level 1
    MaxSequence       \* kMaxSequenceNumber

ASSUME VersionAssumption ==
    /\ {L0Trigger, FileLimit, LevelLimit, MaxSequence} \subseteq Nat \ {0}
    /\ NumLevels \in Nat \ {0, 1}
    /\ MaxMemLevel \in 0 .. NumLevels - 1

Levels == 0 .. NumLevels - 1

Least(S)    == CHOOSE x \in S : \A y \in S : x <= y
Greatest(S) == CHOOSE x \in S : \A y \in S : x >= y

(***************************************************************************)
(* Internal keys: by user key, then by decreasing sequence number.         *)
(***************************************************************************)
InternalKey(k, s) == k * (MaxSequence + 1) + (MaxSequence - s)
KeyOf(e)          == InternalKey(e.key, e.seq)
UserKey(ikey)     == ikey \div (MaxSequence + 1)

Smallest(f) == Least({KeyOf(e) : e \in f.entries})
Largest(f)  == Greatest({KeyOf(e) : e \in f.entries})

\* The user keys some files reach from and to (GetRange).
RangeOf(some) == <<UserKey(Least({Smallest(f) : f \in some})),
                   UserKey(Greatest({Largest(f) : f \in some}))>>

TotalFileSize(files) == Cardinality(UNION {{f} \X f.entries : f \in files})

MaxGrandParentOverlap     == 10 * FileLimit
ExpandedCompactionLimit   == 25 * FileLimit

MaxSizeForLevel[level \in Levels] ==
    IF level <= 1 THEN LevelLimit ELSE 10 * MaxSizeForLevel[level - 1]

EmptyVersion == [level \in Levels |-> {}]

FilesOf(v) == UNION {v[level] : level \in Levels}

(***************************************************************************)
(* Searching a level.  FindFile is the binary search of a level that       *)
(* BySmallestKey sorts, here the set of the one file it finds, or no file. *)
(***************************************************************************)
BySmallestKey(f, g) ==
    \/ Smallest(f) < Smallest(g)
    \/ Smallest(f) = Smallest(g) /\ f.number <= g.number

FirstOf(files) == {f \in files : \A g \in files : BySmallestKey(f, g)}

FindFile(files, ikey) == FirstOf({f \in files : Largest(f) >= ikey})

\* Neither AfterFile nor BeforeFile; a range is a pair of user keys.
Overlaps(f, range) ==
    UserKey(Largest(f)) >= range[1] /\ UserKey(Smallest(f)) <= range[2]

OverlapInLevel(v, level, range) ==
    IF level = 0
    THEN \E f \in v[0] : Overlaps(f, range)
    ELSE \E f \in FindFile(v[level], InternalKey(range[1], MaxSequence)) :
            UserKey(Smallest(f)) <= range[2]

Union(range, other) ==
    <<Least({range[1], other[1]}), Greatest({range[2], other[2]})>>

\* At level 0 a file that reaches over the range widens it and restarts the
\* search: widened[n] is the range after n restarts.
WidenedRange(some, range) ==
    LET widened[n \in 0 .. Cardinality(some)] ==
            IF n = 0 THEN range
            ELSE Union(widened[n - 1],
                       RangeOf({f \in some : Overlaps(f, widened[n - 1])}))
    IN IF \A f \in some : ~Overlaps(f, range) THEN range ELSE widened[Cardinality(some)]

GetOverlappingInputs(v, level, range) ==
    LET wide == IF level = 0 THEN WidenedRange(v[0], range) ELSE range
    IN {f \in v[level] : Overlaps(f, wide)}

\* A memtable's file sinks while nothing overlaps it in the level below and
\* not too much in the level after that.  Faulty variant: it sinks as deep as it
\* may, whatever it meets.
PickLevelForMemTableOutputDeepest(v, range) ==
    IF OverlapInLevel(v, 0, range) THEN 0 ELSE MaxMemLevel
PickLevelForMemTableOutput(v, range) ==
    LET MayEnter(level) ==
            /\ ~OverlapInLevel(v, level, range)
            /\ level + 1 < NumLevels =>
                  TotalFileSize(GetOverlappingInputs(v, level + 1, range)) <= MaxGrandParentOverlap
    IN IF OverlapInLevel(v, 0, range) THEN 0
       ELSE Greatest({level \in 0 .. MaxMemLevel : \A m \in 1 .. level : MayEnter(m)})

(***************************************************************************)
(* Reading.  MemLookup is what a table or a memtable finds: the newest     *)
(* entry of the key that the sequence number may see.  The files of        *)
(* level 0 that may hold the key are asked from the newest to the oldest,  *)
(* then one file of each level, and the first that finds anything answers. *)
(***************************************************************************)
MemLookup(entries, k, s) ==
    LET seen == {e \in entries : e.key = k /\ e.seq <= s}
    IN {e \in seen : \A d \in seen : d.seq <= e.seq}

Candidates(v, level, k, s) ==
    IF level = 0
    THEN {f \in v[0] : Overlaps(f, <<k, k>>)}
    ELSE {f \in FindFile(v[level], InternalKey(k, s)) : UserKey(Smallest(f)) <= k}

VersionGet(v, k, s) ==
    LET answers == UNION {{<<level, f.number, MemLookup(f.entries, k, s)>> :
                             f \in Candidates(v, level, k, s)} : level \in Levels}
        finds   == {a \in answers : a[3] # {}}
        First(a) == \A b \in finds : a[1] < b[1] \/ (a[1] = b[1] /\ a[2] >= b[2])
    IN UNION {a[3] : a \in {a \in finds : First(a)}}

\* The file a read or a read sample of k charges: the first one that may hold
\* the key, when there are others.
SeekFile(v, k, s) ==
    LET asked == UNION {{<<level, f>> : f \in Candidates(v, level, k, s)} : level \in Levels}
        First(p) == \A q \in asked : p[1] < q[1] \/ (p[1] = q[1] /\ p[2].number >= q[2].number)
    IN {p \in asked : Cardinality(asked) > 1 /\ First(p)}

(***************************************************************************)
(* Edits.  An edit deletes pairs of a level and a number and adds pairs of *)
(* a level and a file.                                                     *)
(***************************************************************************)
SaveTo(v, edit) ==
    [level \in Levels |->
        {f \in v[level] : <<level, f.number>> \notin edit.deleted}
            \cup {f \in {p[2] : p \in edit.added} : <<level, f>> \in edit.added}]

(***************************************************************************)
(* Choosing a compaction.  A score is a fraction, <<numerator,             *)
(* denominator>>.                                                          *)
(***************************************************************************)
Score(v, level) ==
    IF level = 0 THEN <<Cardinality(v[0]), L0Trigger>>
    ELSE <<TotalFileSize(v[level]), MaxSizeForLevel[level]>>

Above(a, b) == a[1] * b[2] > b[1] * a[2]

\* Finalize: the first level with the best score; the last level never counts.
CompactionLevel(v) ==
    CHOOSE best \in 0 .. NumLevels - 2 :
        \A level \in 0 .. NumLevels - 2 :
            /\ level < best => Above(Score(v, best), Score(v, level))
            /\ level > best => ~Above(Score(v, level), Score(v, best))

SizeCompaction(v) ==
    LET score == Score(v, CompactionLevel(v)) IN score[1] >= score[2]

\* The first file after the level's compaction pointer, else the first file.
PickInput(v, level, pointer) ==
    LET after == {f \in v[level] : Largest(f) > pointer}
        pool  == IF after = {} THEN v[level] ELSE after
    IN CHOOSE f \in pool : f \in FirstOf(pool)

FindSmallestBoundaryFile(files, largest) ==
    LET boundary == {f \in files : /\ Smallest(f) > largest
                                   /\ UserKey(Smallest(f)) = UserKey(largest)}
    IN {f \in boundary : \A g \in boundary : Smallest(f) <= Smallest(g)}

\* The inputs and their largest key, with one boundary file more if there is one.
AddBoundaryFile(files, acc) ==
    LET found == FindSmallestBoundaryFile(files, acc.largest)
    IN IF found = {} THEN acc
       ELSE [in |-> acc.in \cup found, largest |-> Greatest({Largest(f) : f \in found})]

AddBoundaryInputs(files, inputs) ==
    LET with[n \in 0 .. Cardinality(files)] ==
            IF n = 0 THEN [in |-> inputs, largest |-> Greatest({Largest(f) : f \in inputs})]
            ELSE AddBoundaryFile(files, with[n - 1])
    IN IF inputs = {} THEN inputs ELSE with[Cardinality(files)].in

\* The compaction of some files of a level with some of the next one.
Compaction(v, level, upper, lower) ==
    [level        |-> level,
     upper        |-> upper,
     lower        |-> lower,
     grandparents |-> IF level + 2 < NumLevels
                      THEN GetOverlappingInputs(v, level + 2, RangeOf(upper \cup lower))
                      ELSE {},
     pointer      |-> Greatest({Largest(f) : f \in upper})]

\* The upper inputs may grow if that brings in no more lower ones.
MayGrow(upper, lower, wider, below) ==
    /\ lower # {}
    /\ Cardinality(wider) > Cardinality(upper)
    /\ TotalFileSize(lower) + TotalFileSize(wider) < ExpandedCompactionLimit
    /\ Cardinality(below) = Cardinality(lower)

Beside(v, level, some) ==
    AddBoundaryInputs(v[level], GetOverlappingInputs(v, level, RangeOf(some)))
Below(v, level, some) == GetOverlappingInputs(v, level + 1, RangeOf(some))

Expanded(v, level, upper, lower, wider) ==
    IF MayGrow(upper, lower, wider, Below(v, level, wider))
    THEN Compaction(v, level, wider, Below(v, level, wider))
    ELSE Compaction(v, level, upper, lower)

WithLower(v, level, upper, lower) ==
    Expanded(v, level, upper, lower, Beside(v, level, upper \cup lower))

WithUpper(v, level, upper) == WithLower(v, level, upper, Below(v, level, upper))

SetupOtherInputs(v, level, picked) ==
    WithUpper(v, level, AddBoundaryInputs(v[level], picked))

\* The files of level 0 that overlap the chosen one go with it.
CompactFile(v, level, f) ==
    SetupOtherInputs(v, level, IF level = 0 THEN GetOverlappingInputs(v, 0, RangeOf({f})) ELSE {f})

\* A size compaction goes before one that seeks asked for; seek is the set of
\* the one pair of a level and a file that used up its seeks, or empty.
PickCompaction(v, pointers, seek) ==
    LET best  == CompactionLevel(v)
        asked == CHOOSE p \in seek : TRUE
    IN IF SizeCompaction(v) THEN CompactFile(v, best, PickInput(v, best, pointers[best]))
       ELSE CompactFile(v, asked[1], asked[2])

NeedsCompaction(v, seek) == SizeCompaction(v) \/ seek # {}

IsTrivialMove(c) ==
    /\ Cardinality(c.upper) = 1
    /\ c.lower = {}
    /\ TotalFileSize(c.grandparents) <= MaxGrandParentOverlap

IsBaseLevelForKey(v, c, k) ==
    \A level \in c.level + 2 .. NumLevels - 1 : \A f \in v[level] : ~Overlaps(f, <<k, k>>)

(***************************************************************************)
(* The entries a compaction keeps.  One is hidden when a newer one of the  *)
(* key is visible to the oldest snapshot already; a deletion that the      *)
(* oldest snapshot sees is obsolete when no deeper level holds the key.    *)
(***************************************************************************)
Merged(c) == UNION {f.entries : f \in c.upper \cup c.lower}

Hidden(c, oldest) ==
    {e \in Merged(c) : \E d \in Merged(c) :
        d.key = e.key /\ d.seq > e.seq /\ d.seq <= oldest}

Obsolete(v, c, oldest) ==
    {e \in Merged(c) : /\ e.kind = "deletion"
                       /\ e.seq <= oldest
                       /\ IsBaseLevelForKey(v, c, e.key)}

Kept(v, c, oldest) == (Merged(c) \ Hidden(c, oldest)) \ Obsolete(v, c, oldest)

\* The first FileLimit entries, in order: an output is closed when it is full.
FirstOutput(entries) ==
    {e \in entries : Cardinality({d \in entries : KeyOf(d) < KeyOf(e)}) < FileLimit}

CompactionEdit(c, outputs) ==
    [deleted |-> {<<c.level, f.number>> : f \in c.upper}
                    \cup {<<c.level + 1, f.number>> : f \in c.lower},
     added   |-> {<<c.level + 1, f>> : f \in outputs}]
=============================================================================
