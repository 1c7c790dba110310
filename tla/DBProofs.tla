------------------------------ MODULE DBProofs ------------------------------
(***************************************************************************)
(* What DBProperties states of the database engine, proved for every store *)
(* of levels, every bound and every behaviour.                             *)
(*                                                                         *)
(* DBInv is inductive.  Its parts follow the code's own order: what is on  *)
(* the disk and in the object; an object that is not open does no work;    *)
(* the first writer of the queue is at work; the background thread is      *)
(* scheduled when there is something to do; file numbers are not used      *)
(* twice; and what the descriptor may yield, what the opening will install *)
(* and what readers and merges hold is on disk, with numbers below the     *)
(* next one.  There is one lemma per action, and below them the lemmas     *)
(* about the operators of VersionSet and about the recursive functions of  *)
(* DBImpl: of those, what holds after n steps is proved by a smallest      *)
(* counterexample.                                                         *)
(***************************************************************************)
EXTENDS DBProperties, FiniteSetTheorems, SequenceTheorems, WellFoundedInduction, TLAPS

-----------------------------------------------------------------------------
(* Numbers and finite sets. *)

\* What fails for some number fails for a smallest one.
LEMMA SmallestNumber ==
    ASSUME NEW S, S \subseteq Nat, S # {}
    PROVE  \E n \in S : \A m \in S : n <= m
<1>1. PICK n \in S : \A m \in S : ~(<<m, n>> \in OpToRel(<, Nat))
    BY NatLessThanWellFounded, WFMin
<1>2. \A m \in S : ~(m < n)
    BY <1>1 DEF OpToRel
<1> QED BY <1>2

LEMMA ImageIsFinite ==
    ASSUME NEW S, IsFiniteSet(S), NEW f, DOMAIN f = S
    PROVE  IsFiniteSet({f[x] : x \in S})
<1> DEFINE g == [x \in S |-> f[x]]
<1>1. g \in Surjection(S, {f[x] : x \in S})
    BY DEF Surjection
<1> QED BY <1>1, FS_Surjection

LEMMA FiniteSetHasBounds ==
    ASSUME NEW S, IsFiniteSet(S), S \subseteq Int, S # {}
    PROVE  /\ \E x \in S : \A y \in S : x <= y
           /\ \E x \in S : \A y \in S : x >= y
<1> DEFINE Bounded(T) == /\ \E x \in T : \A y \in T : x <= y
                         /\ \E x \in T : \A y \in T : x >= y
           Wrong == {n \in Nat : \E T \in SUBSET S : /\ Cardinality(T) = n
                                                     /\ T # {}
                                                     /\ ~Bounded(T)}
<1>1. SUFFICES ASSUME ~Bounded(S) PROVE FALSE
    OBVIOUS
<1>2. Cardinality(S) \in Wrong
    BY <1>1, FS_CardinalityType
<1>3. PICK n \in Wrong : \A m \in Wrong : n <= m
    <2>1. Wrong \subseteq Nat /\ Wrong # {}
        BY <1>2
    <2> HIDE DEF Wrong
    <2> QED BY <2>1, SmallestNumber
<1>4. PICK T \in SUBSET S : Cardinality(T) = n /\ T # {} /\ ~Bounded(T)
    BY <1>3
<1>5. PICK x \in T : TRUE
    BY <1>4
<1> DEFINE rest == T \ {x}
<1>6. IsFiniteSet(T) /\ n \in Nat /\ Cardinality(rest) = n - 1 /\ Cardinality(rest) \in Nat
    <2>1. IsFiniteSet(T)
        BY FS_Subset
    <2>2. IsFiniteSet(rest) /\ Cardinality(rest) = Cardinality(T) - 1
        BY <2>1, <1>5, FS_RemoveElement
    <2> QED BY <2>1, <2>2, <1>3, <1>4, FS_CardinalityType
<1>7. rest = {} \/ Bounded(rest)
    <2>1. ~(n - 1 \in Wrong)
        BY <1>3, <1>6
    <2> QED BY <2>1, <1>6
<1>8. CASE rest = {}
    <2>1. T = {x} /\ x \in Int
        BY <1>8, <1>5
    <2> QED BY <2>1, <1>4
<1>9. CASE Bounded(rest)
    <2>1. T = rest \cup {x} /\ T \subseteq Int /\ x \in Int
        BY <1>5
    <2>2. PICK low \in rest : \A y \in rest : low <= y
        BY <1>9
    <2>3. PICK high \in rest : \A y \in rest : high >= y
        BY <1>9
    <2>4. \E z \in T : \A y \in T : z <= y
        <3>1. CASE x <= low
            BY <2>1, <2>2, <3>1
        <3>2. CASE ~(x <= low)
            BY <2>1, <2>2, <3>2
        <3> QED BY <3>1, <3>2
    <2>5. \E z \in T : \A y \in T : z >= y
        <3>1. CASE x >= high
            BY <2>1, <2>3, <3>1
        <3>2. CASE ~(x >= high)
            BY <2>1, <2>3, <3>2
        <3> QED BY <3>1, <3>2
    <2> QED BY <2>4, <2>5, <1>4
<1> QED BY <1>7, <1>8, <1>9

LEMMA LeastIs ==
    ASSUME NEW S, IsFiniteSet(S), S \subseteq Int, S # {}
    PROVE  Least(S) \in S /\ \A y \in S : Least(S) <= y
BY FiniteSetHasBounds DEF Least

LEMMA GreatestIs ==
    ASSUME NEW S, IsFiniteSet(S), S \subseteq Int, S # {}
    PROVE  Greatest(S) \in S /\ \A y \in S : Greatest(S) >= y
BY FiniteSetHasBounds DEF Greatest

-----------------------------------------------------------------------------
(* The recursive functions of the model are there and obey their equations. *)

LEMMA SizeLimits ==
    \A level \in Levels :
        /\ MaxSizeForLevel[level] \in Nat \ {0}
<1> DEFINE Limits(n, f) == f = [l \in 0 .. n |-> IF l <= 1 THEN LevelLimit ELSE 10 * f[l - 1]]
           Right(n) == \E f : Limits(n, f) /\ \A l \in 0 .. n : f[l] \in Nat \ {0}
           Wrong == {n \in Nat : ~Right(n)}
<1>1. Wrong = {}
    <2>1. SUFFICES ASSUME Wrong # {} PROVE FALSE
        OBVIOUS
    <2>2. PICK n \in Wrong : \A m \in Wrong : n <= m
        <3> HIDE DEF Wrong
        <3>1. Wrong \subseteq Nat
            BY DEF Wrong
        <3> QED BY <3>1, <2>1, SmallestNumber
    <2>3. LevelLimit \in Nat \ {0}
        BY VersionAssumption
    <2>4. CASE n = 0
        <3> DEFINE f == [l \in 0 .. 0 |-> LevelLimit]
        <3>1. Limits(0, f) /\ \A l \in 0 .. 0 : f[l] \in Nat \ {0}
            BY <2>3
        <3> QED BY <3>1, <2>2, <2>4
    <2>5. CASE n # 0
        <3>1. n - 1 \in Nat /\ ~(n <= n - 1)
            BY <2>2, <2>5
        <3>2. Right(n - 1)
            BY <3>1, <2>2
        <3>3. PICK f : Limits(n - 1, f) /\ \A l \in 0 .. n - 1 : f[l] \in Nat \ {0}
            BY <3>2
        <3> DEFINE g == [l \in 0 .. n |-> IF l = n THEN IF n <= 1 THEN LevelLimit ELSE 10 * f[n - 1]
                                          ELSE f[l]]
        <3>4. \A l \in 0 .. n : g[l] \in Nat \ {0}
            <4> TAKE l \in 0 .. n
            <4>1. CASE l = n
                <5>1. n - 1 \in 0 .. n - 1
                    BY <3>1
                <5>2. f[n - 1] \in Nat \ {0}
                    BY <5>1, <3>3
                <5>3. 10 * f[n - 1] \in Nat \ {0}
                    BY <5>2
                <5> QED BY <4>1, <5>3, <2>3
            <4>2. CASE l # n
                BY <4>2, <3>3
            <4> QED BY <4>1, <4>2
        <3>5. \A l \in 0 .. n - 1 : g[l] = f[l] /\ f[l] = IF l <= 1 THEN LevelLimit ELSE 10 * f[l - 1]
            BY <3>3, <3>1
        <3>6. \A l \in 0 .. n : g[l] = IF l <= 1 THEN LevelLimit ELSE 10 * g[l - 1]
            <4> TAKE l \in 0 .. n
            <4>1. CASE l = n
                BY <4>1, <3>5, <3>1
            <4>2. CASE l # n
                <5>1. l \in 0 .. n - 1 /\ (~(l <= 1) => l - 1 \in 0 .. n - 1)
                    BY <4>2, <2>2
                <5> QED BY <5>1, <3>5
            <4> QED BY <4>1, <4>2
        <3>7. Limits(n, g)
            <4> HIDE DEF g
            <4>1. g = [l \in 0 .. n |-> g[l]]
                BY DEF g
            <4> QED BY <4>1, <3>6
        <3> QED BY <3>4, <3>7, <2>2
    <2> QED BY <2>4, <2>5
<1>2. NumLevels - 1 \in Nat
    BY VersionAssumption
<1>3. Right(NumLevels - 1)
    BY <1>1, <1>2
<1>4. PICK f : Limits(NumLevels - 1, f)
    BY <1>3
<1>5. MaxSizeForLevel = [l \in Levels |-> IF l <= 1 THEN LevelLimit ELSE 10 * MaxSizeForLevel[l - 1]]
    BY <1>4 DEF MaxSizeForLevel, Levels
<1> DEFINE Bad == {l \in Levels : MaxSizeForLevel[l] \notin Nat \ {0}}
<1>6. SUFFICES ASSUME Bad # {} PROVE FALSE
    OBVIOUS
<1>7. PICK l \in Bad : \A m \in Bad : l <= m
    <2>1. Bad \subseteq Nat
        BY DEF Levels
    <2> HIDE DEF Bad
    <2> QED BY <1>6, <2>1, SmallestNumber
<1>8. CASE l <= 1
    <2>1. MaxSizeForLevel[l] = LevelLimit
        BY <1>5, <1>7, <1>8
    <2> QED BY <2>1, <1>7, VersionAssumption
<1>9. CASE ~(l <= 1)
    <2>1. l - 1 \in Levels /\ l \in Nat /\ ~(l <= l - 1)
        BY <1>7, <1>9, VersionAssumption DEF Levels
    <2>2. MaxSizeForLevel[l - 1] \in Nat \ {0}
        BY <2>1, <1>7
    <2>3. MaxSizeForLevel[l] = 10 * MaxSizeForLevel[l - 1]
        BY <1>5, <1>7, <1>9
    <2>4. 10 * MaxSizeForLevel[l - 1] \in Nat \ {0}
        BY <2>2
    <2> QED BY <2>3, <2>4, <1>7
<1> QED BY <1>8, <1>9

\* f holds the states of a descriptor after each of its first n edits.
Replays(d, n, f) ==
    f = [m \in 0 .. n |-> IF m = 0 THEN d.base ELSE Apply(f[m - 1], d.edits[m])]

\* Two descriptors begin alike.
SameEdits(d, e, n) == d.base = e.base /\ \A m \in 1 .. n : d.edits[m] = e.edits[m]

LEMMA ReplayExists ==
    ASSUME NEW d, NEW n \in Nat
    PROVE  \E f : Replays(d, n, f)
<1> DEFINE Wrong == {k \in Nat : ~\E f : Replays(d, k, f)}
<1>1. SUFFICES ASSUME Wrong # {} PROVE FALSE
    OBVIOUS
<1>2. PICK k \in Wrong : \A m \in Wrong : k <= m
    <2>1. Wrong \subseteq Nat
        OBVIOUS
    <2> HIDE DEF Wrong
    <2> QED BY <2>1, <1>1, SmallestNumber
<1>3. CASE k = 0
    <2> DEFINE f == [m \in 0 .. 0 |-> d.base]
    <2>1. Replays(d, 0, f)
        BY DEF Replays
    <2> HIDE DEF f
    <2> QED BY <2>1, <1>2, <1>3
<1>4. CASE k # 0
    <2>1. k - 1 \in Nat /\ ~(k <= k - 1)
        BY <1>2, <1>4
    <2>2. PICK f : Replays(d, k - 1, f)
        BY <2>1, <1>2
    <2> DEFINE g == [m \in 0 .. k |-> IF m = k THEN Apply(f[k - 1], d.edits[k]) ELSE f[m]]
    <2>3. \A m \in 0 .. k - 1 : g[m] = f[m] /\ f[m] = IF m = 0 THEN d.base ELSE Apply(f[m - 1], d.edits[m])
        BY <2>1, <2>2 DEF Replays
    <2>4. \A m \in 0 .. k : g[m] = IF m = 0 THEN d.base ELSE Apply(g[m - 1], d.edits[m])
        <3> TAKE m \in 0 .. k
        <3>1. CASE m = k
            <4>1. g[m] = Apply(f[k - 1], d.edits[k]) /\ k - 1 \in 0 .. k - 1
                BY <3>1, <2>1
            <4> QED BY <3>1, <4>1, <2>3, <1>4
        <3>2. CASE m # k
            <4>1. m \in 0 .. k - 1 /\ (m # 0 => m - 1 \in 0 .. k - 1)
                BY <3>2, <1>2
            <4> QED BY <4>1, <2>3
        <3> QED BY <3>1, <3>2
    <2>5. Replays(d, k, g)
        <3>1. g = [m \in 0 .. k |-> g[m]]
            OBVIOUS
        <3> HIDE DEF g
        <3> QED BY <3>1, <2>4 DEF Replays
    <2> HIDE DEF g
    <2> QED BY <2>5, <1>2
<1> QED BY <1>3, <1>4

LEMMA ReplayAgrees ==
    ASSUME NEW d, NEW e, NEW f, NEW g, NEW j \in Nat, NEW k \in Nat, NEW n \in Nat,
           n <= j, n <= k, SameEdits(d, e, n),
           Replays(d, j, f), Replays(e, k, g)
    PROVE  f[n] = g[n]
<1> DEFINE Wrong == {m \in 0 .. n : f[m] # g[m]}
<1>1. SUFFICES ASSUME Wrong # {} PROVE FALSE
    <2>1. n \in 0 .. n
        OBVIOUS
    <2> QED BY <2>1
<1>2. PICK m \in Wrong : \A i \in Wrong : m <= i
    <2>1. Wrong \subseteq Nat
        OBVIOUS
    <2> HIDE DEF Wrong
    <2> QED BY <2>1, <1>1, SmallestNumber
<1>3. m \in 0 .. j /\ m \in 0 .. k
    BY <1>2
<1>4. CASE m = 0
    BY <1>2, <1>3, <1>4 DEF Replays, SameEdits
<1>5. CASE m # 0
    <2>1. m - 1 \in 0 .. n /\ ~(m <= m - 1) /\ m \in 1 .. n
        BY <1>2, <1>5
    <2>2. f[m - 1] = g[m - 1]
        BY <2>1, <1>2
    <2>3. f[m] = Apply(f[m - 1], d.edits[m])
        BY <1>3, <1>5 DEF Replays
    <2>4. g[m] = Apply(g[m - 1], e.edits[m])
        BY <1>3, <1>5 DEF Replays
    <2> QED BY <2>1, <2>2, <2>3, <2>4, <1>2 DEF SameEdits
<1> QED BY <1>4, <1>5

LEMMA ReplayIs ==
    ASSUME NEW d, NEW n \in Nat
    PROVE  \E f : Replays(d, n, f) /\ Replay(d, n) = f[n]
<1> DEFINE after[m \in 0 .. n] == IF m = 0 THEN d.base ELSE Apply(after[m - 1], d.edits[m])
<1>1. PICK f : Replays(d, n, f)
    BY ReplayExists
<1>2. Replays(d, n, after)
    BY <1>1 DEF Replays
<1>3. Replay(d, n) = after[n]
    BY DEF Replay
<1> HIDE DEF after
<1> QED BY <1>2, <1>3

LEMMA ReplayStarts ==
    ASSUME NEW d
    PROVE  Replay(d, 0) = d.base
<1>1. PICK f : Replays(d, 0, f) /\ Replay(d, 0) = f[0]
    BY ReplayIs
<1> QED BY <1>1 DEF Replays

LEMMA ReplaySame ==
    ASSUME NEW d, NEW e, NEW n \in Nat,
           SameEdits(d, e, n)
    PROVE  Replay(d, n) = Replay(e, n)
<1>1. PICK f : Replays(d, n, f) /\ Replay(d, n) = f[n]
    BY ReplayIs
<1>2. PICK g : Replays(e, n, g) /\ Replay(e, n) = g[n]
    BY ReplayIs
<1>3. n <= n
    OBVIOUS
<1>4. f[n] = g[n]
    BY <1>1, <1>2, <1>3, ReplayAgrees
<1> QED BY <1>1, <1>2, <1>4

LEMMA ReplayStep ==
    ASSUME NEW d, NEW n \in Nat, n # 0
    PROVE  Replay(d, n) = Apply(Replay(d, n - 1), d.edits[n])
<1>0. n - 1 \in Nat /\ n - 1 <= n /\ n - 1 <= n - 1
    OBVIOUS
<1>1. PICK f : Replays(d, n, f) /\ Replay(d, n) = f[n]
    BY ReplayIs
<1>2. PICK g : Replays(d, n - 1, g) /\ Replay(d, n - 1) = g[n - 1]
    BY <1>0, ReplayIs
<1>3. f[n - 1] = g[n - 1]
    <2>1. SameEdits(d, d, n - 1)
        BY DEF SameEdits
    <2> QED BY <2>1, <1>0, <1>1, <1>2, ReplayAgrees
<1>4. f[n] = Apply(f[n - 1], d.edits[n])
    BY <1>1 DEF Replays
<1> QED BY <1>1, <1>2, <1>3, <1>4

-----------------------------------------------------------------------------
(* The values of the variables. *)

Entries == FiniteSubsetsOf(Entry)
File    == [number : Nat, entries : Entries \ {{}}]
Files   == FiniteSubsetsOf(File)
Version == [Levels -> Files]

\* compact_pointer_; a compaction of no file would have the second one.
Pointer == Int \cup {Greatest({})}

Edit == [deleted : SUBSET (Nat \X Nat), added : FiniteSubsetsOf(Nat \X File),
         pointers : SUBSET (Nat \X Pointer), log : Nat, next : Nat, seq : Nat]

State == [version : Version, pointers : [Levels -> Pointer],
          log : Nat, next : Nat, seq : Nat]

Descriptor == [base : State, edits : Seq(Edit), synced : Nat]

Log == [records : Seq(Entries \cup {Nil}), synced : Nat]

Update  == [key : Keys, kind : {"value", "deletion"}]
Request == [id : Nat, updates : Seq(Update), sync : BOOLEAN]

CompactionOf == [level : 0 .. NumLevels - 2, upper : Files, lower : Files,
                 grandparents : Files, pointer : Pointer]

Thread == [pc : {"idle", "start", "merge", "edit", "sync"},
           kind : {"none", "flush", "move", "merge", "open"},
           edit : Edit, c : CompactionOf \cup {Nil}, input : Version \cup {Nil},
           left : Entries, outputs : Files]

Iterator == [seq : Nat, mem : Nat, imm : Nat \cup {Nil}, version : Version]

Fronts == {"none", "room", "waiting", "log", "sync", "insert", "publish", "failed", "unsynced"}

-----------------------------------------------------------------------------
(* The inductive invariant, in parts. *)

DiskTyped ==
    /\ DOMAIN logs \subseteq Nat /\ IsFiniteSet(DOMAIN logs)
    /\ logs \in [DOMAIN logs -> Log]
    /\ \A n \in DOMAIN logs : logs[n].synced <= Len(logs[n].records)
    /\ tables \subseteq File
    /\ DOMAIN descriptors \subseteq Nat
    /\ descriptors \in [DOMAIN descriptors -> Descriptor]
    /\ \A n \in DOMAIN descriptors : descriptors[n].synced <= Len(descriptors[n].edits)
    /\ current \in DOMAIN descriptors

ObjectTyped ==
    /\ status \in {"closed", "recovered", "described", "pointed", "open"}
    /\ memtables \in [DOMAIN memtables -> Entries]
    /\ lastSeq \in Nat /\ nextFile \in Nat /\ logNumber \in Nat /\ manifest \in Nat
    /\ version \in Version
    /\ pointers \in [Levels -> Pointer]
    /\ bgError \in BOOLEAN
    /\ bg \in Thread /\ (bg.pc = "merge" => bg.c \in CompactionOf)
    /\ iterators \in [Readers -> Iterator \cup {Nil}]

BudgetTyped ==
    \E b \in Budgets : budget \in [menu : {b.menu}, callers : Nat, writes : Nat, crashes : Nat,
             faults : SUBSET STRING, seeks : Nat, snapshots : Nat, views : Nat]

WritersTyped ==
    /\ queue \in Seq(Request)
    /\ front \in Fronts
    /\ group \in 0 .. Len(queue)
    /\ BudgetTyped

\* Only an open store works.
Quiet ==
    status # "open" =>
        /\ queue = <<>> /\ imm = Nil /\ ~bgError /\ seek = {}
        /\ bg.pc = "idle" /\ bg.c = Nil /\ bg.outputs = {}
        /\ \A r \in Readers : iterators[r] = Nil

\* The first writer is at work, and its group is made when it needs one.
FrontWorks ==
    /\ queue = <<>> <=> front = "none"
    /\ front \in {"log", "sync", "insert", "publish", "failed", "unsynced"} => group # 0
    /\ front = "waiting" => ~bgError /\ MustWait

WorkToDo == imm # Nil \/ NeedsCompaction(version, seek)

\* While the disk does not fail the thread is scheduled exactly for what there
\* is to do.
Scheduled ==
    ~bgError => /\ status = "open" /\ WorkToDo => bg.pc # "idle"
                /\ bg.pc = "start" => WorkToDo

SeekTyped ==
    \A p \in seek : \E level \in 0 .. NumLevels - 2 : \E f \in version[level] : p = <<level, f>>

\* The memtables and their logs.
MemTables ==
    /\ status # "closed" => /\ mem \in DOMAIN memtables /\ mem \in DOMAIN logs
                            /\ mem < nextFile
    /\ imm # Nil => imm \in DOMAIN memtables /\ imm \in Nat
    /\ status = "open" => logNumber <= mem
    /\ status \in {"recovered", "described", "pointed"} => bg.edit.log = mem
    /\ bg.pc \in {"edit", "sync"} => bg.edit.log <= mem

OneFilePerNumber == \A f, g \in tables : f.number = g.number => f = g

\* Files that are on disk, with numbers that will not be used again.
Safe(some, next) == some \subseteq tables /\ \A f \in some : f.number < next

Added(edit) == {p[2] : p \in edit.added}

\* What the descriptor may yield is safe, and its numbers grow.
DescriptorSafe ==
    LET d == descriptors[current]
        At(n) == Replay(d, n)
    IN \A n \in d.synced .. Len(d.edits) :
          /\ Safe(FilesOf(At(n).version), At(n).next)
          /\ current < At(n).next
          /\ \A m \in d.synced .. n : At(m).next <= At(n).next

OpeningSafe ==
    status \in {"recovered", "described", "pointed"} =>
        /\ Safe(FilesOf(version), nextFile)
        /\ Safe(Added(bg.edit), nextFile)
        /\ bg.edit.next = nextFile
        /\ manifest < nextFile
        /\ status # "pointed" => manifest # current
        /\ status # "recovered" =>
              /\ manifest \in DOMAIN descriptors
              /\ descriptors[manifest] =
                    [base   |-> Apply([version |-> version, pointers |-> pointers], bg.edit),
                     edits  |-> <<>>, synced |-> 0]

OpenSafe ==
    status = "open" =>
        /\ Safe(FilesOf(version), nextFile)
        /\ \A v \in HeldVersions \cup MergeInput(bg) : Safe(FilesOf(v), nextFile)
        /\ Safe(bg.outputs, nextFile)
        /\ bg.pc \in {"edit", "sync"} =>
              Safe(Added(bg.edit), bg.edit.next) /\ bg.edit.next <= nextFile

\* The descriptor follows the current version, until an edit is lost.
DescriptorFollows ==
    /\ status \in {"pointed", "open"} => current = manifest
    /\ status = "open" =>
          LET d == descriptors[current]
          IN /\ \A n \in d.synced .. Len(d.edits) : Replay(d, n).next <= nextFile
             /\ bg.pc = "edit" => \A n \in d.synced .. Len(d.edits) : Replay(d, n).next <= bg.edit.next
             /\ ~bgError => Saved.version = IF bg.pc = "sync" THEN SaveTo(version, bg.edit) ELSE version

DBInv ==
    /\ DiskTyped /\ ObjectTyped /\ WritersTyped
    /\ Quiet /\ FrontWorks /\ Scheduled /\ SeekTyped /\ MemTables
    /\ OneFilePerNumber /\ DescriptorSafe /\ OpeningSafe /\ OpenSafe /\ DescriptorFollows

-----------------------------------------------------------------------------
(* Files and levels. *)

LEMMA FinitePart ==
    ASSUME NEW S, NEW T \in FiniteSubsetsOf(S), NEW U, U \subseteq T
    PROVE  U \in FiniteSubsetsOf(S)
BY FS_Subset DEF FiniteSubsetsOf

LEMMA FileKeys ==
    ASSUME NEW f \in File
    PROVE  Smallest(f) \in Int /\ Largest(f) \in Int
<1> DEFINE key == [e \in f.entries |-> KeyOf(e)]
           keys == {KeyOf(e) : e \in f.entries}
<1>1. f.entries \subseteq Entry /\ IsFiniteSet(f.entries) /\ f.entries # {}
    BY DEF File, Entries, FiniteSubsetsOf
<1>2. \A e \in f.entries : KeyOf(e) \in Int
    <2> TAKE e \in f.entries
    <2>1. e.key \in Nat /\ e.seq \in Nat /\ MaxSequence \in Nat
        BY <1>1, DBAssumption, VersionAssumption DEF Entry
    <2> QED BY <2>1 DEF KeyOf, InternalKey
<1>3. {key[e] : e \in f.entries} = keys
    OBVIOUS
<1>4. IsFiniteSet({key[e] : e \in f.entries})
    <2>1. DOMAIN key = f.entries
        OBVIOUS
    <2> HIDE DEF key
    <2> QED BY <2>1, <1>1, ImageIsFinite
<1>5. IsFiniteSet(keys) /\ keys \subseteq Int /\ keys # {}
    <2>1. IsFiniteSet(keys)
        BY <1>3, <1>4
    <2> QED BY <2>1, <1>1, <1>2
<1> HIDE DEF keys
<1>6. Least(keys) \in Int /\ Greatest(keys) \in Int
    BY <1>5, LeastIs, GreatestIs
<1> QED BY <1>6 DEF Smallest, Largest, keys

LEMMA FirstOfSome ==
    ASSUME NEW pool \in Files, pool # {}
    PROVE  \E f \in pool : f \in FirstOf(pool)
<1> DEFINE key == [f \in pool |-> Smallest(f)]
           keys == {key[f] : f \in pool}
<1>1. pool \subseteq File /\ IsFiniteSet(pool)
    BY DEF Files, FiniteSubsetsOf
<1>2. IsFiniteSet(keys) /\ keys \subseteq Int /\ keys # {}
    <2>1. DOMAIN key = pool
        OBVIOUS
    <2>2. IsFiniteSet(keys)
        <3> HIDE DEF key
        <3> QED BY <2>1, <1>1, ImageIsFinite
    <2> QED BY <2>2, <1>1, FileKeys
<1>3. PICK k \in keys : \A y \in keys : k <= y
    <2> HIDE DEF keys
    <2> QED BY <1>2, FiniteSetHasBounds
<1> DEFINE numbers == {f.number : f \in {g \in pool : Smallest(g) = k}}
<1>4. numbers \subseteq Nat /\ numbers # {}
    BY <1>1, <1>3 DEF File
<1>5. PICK n \in numbers : \A m \in numbers : n <= m
    <2> HIDE DEF numbers
    <2> QED BY <1>4, SmallestNumber
<1>6. PICK f \in pool : Smallest(f) = k /\ f.number = n
    BY <1>5
<1>7. \A g \in pool : BySmallestKey(f, g)
    <2> TAKE g \in pool
    <2>1. k <= Smallest(g) /\ Smallest(g) \in Int /\ k \in Int
        BY <1>3, <1>2, <1>1, FileKeys
    <2>2. Smallest(g) = k => n <= g.number
        BY <1>5
    <2> QED BY <2>1, <2>2, <1>6 DEF BySmallestKey
<1> QED BY <1>6, <1>7 DEF FirstOf

\* With one file for each number, at most one comes first.
LEMMA FirstOfOne ==
    ASSUME NEW pool, pool \subseteq File,
           \A f, g \in pool : f.number = g.number => f = g
    PROVE  \A f, g \in FirstOf(pool) : f = g
<1> TAKE f, g \in FirstOf(pool)
<1>1. f \in pool /\ g \in pool /\ BySmallestKey(f, g) /\ BySmallestKey(g, f)
    BY DEF FirstOf
<1>2. Smallest(f) \in Int /\ Smallest(g) \in Int /\ f.number \in Nat /\ g.number \in Nat
    BY <1>1, FileKeys DEF File
<1>3. f.number = g.number
    BY <1>1, <1>2 DEF BySmallestKey
<1> QED BY <1>1, <1>3

LEMMA TotalSize ==
    /\ \A some \in Files : TotalFileSize(some) \in Nat
    /\ TotalFileSize({}) = 0
<1>1. ASSUME NEW some \in Files PROVE TotalFileSize(some) \in Nat
    <2> DEFINE part == [f \in some |-> {f} \X f.entries]
               parts == {part[f] : f \in some}
    <2>1. IsFiniteSet(some) /\ some \subseteq File
        BY DEF Files, FiniteSubsetsOf
    <2>2. IsFiniteSet(parts)
        <3>1. DOMAIN part = some
            OBVIOUS
        <3> HIDE DEF part
        <3> QED BY <3>1, <2>1, ImageIsFinite
    <2>3. \A p \in parts : IsFiniteSet(p)
        <3> SUFFICES ASSUME NEW f \in some PROVE IsFiniteSet(part[f])
            OBVIOUS
        <3>1. IsFiniteSet({f}) /\ IsFiniteSet(f.entries)
            BY <2>1, FS_Singleton DEF File, Entries, FiniteSubsetsOf
        <3> QED BY <3>1, FS_Product
    <2>4. IsFiniteSet(UNION parts)
        <3> HIDE DEF parts
        <3> QED BY <2>2, <2>3, FS_UNION
    <2>5. UNION {{f} \X f.entries : f \in some} = UNION parts
        OBVIOUS
    <2>6. Cardinality(UNION {{f} \X f.entries : f \in some}) \in Nat
        BY <2>4, <2>5, FS_CardinalityType
    <2> QED BY <2>6 DEF TotalFileSize
<1>2. TotalFileSize({}) = 0
    <2>1. UNION {{f} \X f.entries : f \in {}} = {}
        OBVIOUS
    <2> QED BY <2>1, FS_EmptySet DEF TotalFileSize
<1> QED BY <1>1, <1>2

-----------------------------------------------------------------------------
(* The choice of a compaction. *)

LEMMA LevelCounts ==
    /\ Levels \subseteq Nat /\ 0 \in Levels /\ NumLevels \in Nat
    /\ \A level \in 0 .. NumLevels - 2 : level \in Levels /\ level + 1 \in Levels
    /\ 0 \in 0 .. NumLevels - 2
BY VersionAssumption DEF Levels

IsScore(a) == a[1] \in Nat /\ a[2] \in Nat \ {0}

LEMMA ScoreTyped ==
    ASSUME NEW v \in Version, NEW level \in Levels
    PROVE  IsScore(Score(v, level))
<1>1. CASE level = 0
    <2>1. v[0] \in Files
        BY LevelCounts DEF Version
    <2>2. Cardinality(v[0]) \in Nat /\ L0Trigger \in Nat \ {0}
        BY <2>1, FS_CardinalityType, VersionAssumption DEF Files, FiniteSubsetsOf
    <2> QED BY <2>2, <1>1 DEF Score, IsScore
<1>2. CASE level # 0
    <2>1. TotalFileSize(v[level]) \in Nat
        BY TotalSize DEF Version
    <2> QED BY <2>1, <1>2, SizeLimits DEF Score, IsScore
<1> QED BY <1>1, <1>2

LEMMA ProductsRise ==
    ASSUME NEW x \in Int, NEW y \in Int, NEW c \in Nat
    PROVE  /\ x <= y => x * c <= y * c
           /\ x * c < y * c => x < y
           /\ x < y /\ c # 0 => x * c < y * c
OBVIOUS

\* Fractions are ordered.
LEMMA AboveOrders ==
    ASSUME NEW a, NEW b, NEW c, IsScore(a), IsScore(b), IsScore(c)
    PROVE  /\ Above(a, b) /\ Above(b, c) => Above(a, c)
           /\ ~Above(b, a) /\ ~Above(c, b) => ~Above(c, a)
           /\ Above(a, b) => ~Above(b, a)
           /\ Above(a, b) /\ ~Above(c, b) => ~Above(c, a)
<1> DEFINE a1 == a[1]  a2 == a[2]  b1 == b[1]  b2 == b[2]  c1 == c[1]  c2 == c[2]
<1>1. /\ a1 \in Nat /\ b1 \in Nat /\ c1 \in Nat
      /\ a2 \in Nat \ {0} /\ b2 \in Nat \ {0} /\ c2 \in Nat \ {0}
    BY DEF IsScore
<1>2. /\ Above(a, b) <=> a1 * b2 > b1 * a2
      /\ Above(b, a) <=> b1 * a2 > a1 * b2
      /\ Above(b, c) <=> b1 * c2 > c1 * b2
      /\ Above(c, b) <=> c1 * b2 > b1 * c2
      /\ Above(a, c) <=> a1 * c2 > c1 * a2
      /\ Above(c, a) <=> c1 * a2 > a1 * c2
    BY DEF Above
<1> HIDE DEF a1, a2, b1, b2, c1, c2
<1> DEFINE x == a1 * b2  y == b1 * a2  z == b1 * c2  w == c1 * b2
<1>3. x \in Int /\ y \in Int /\ z \in Int /\ w \in Int
    BY <1>1
<1>4. /\ x * c2 = (a1 * c2) * b2
      /\ y * c2 = z * a2
      /\ w * a2 = (c1 * a2) * b2
    BY <1>1
<1>5. a1 * c2 \in Int /\ c1 * a2 \in Int
    BY <1>1
<1> HIDE DEF x, y, z, w
<1>6. x > y /\ z > w => a1 * c2 > c1 * a2
    <2> SUFFICES ASSUME x > y, z > w PROVE a1 * c2 > c1 * a2
        OBVIOUS
    <2>1. y * c2 < x * c2
        BY <1>1, <1>3, ProductsRise
    <2>2. w * a2 < z * a2
        BY <1>1, <1>3, ProductsRise
    <2>3. y * c2 \in Int /\ x * c2 \in Int /\ z * a2 \in Int /\ w * a2 \in Int
        BY <1>1, <1>3
    <2>4. (c1 * a2) * b2 < (a1 * c2) * b2
        BY <1>4, <2>1, <2>2, <2>3
    <2> QED BY <1>1, <1>5, <2>4, ProductsRise
<1>7. x >= y /\ z >= w => a1 * c2 >= c1 * a2
    <2> SUFFICES ASSUME x >= y, z >= w, a1 * c2 < c1 * a2 PROVE FALSE
        BY <1>5
    <2>1. y * c2 <= x * c2
        BY <1>1, <1>3, ProductsRise
    <2>2. w * a2 <= z * a2
        BY <1>1, <1>3, ProductsRise
    <2>3. y * c2 \in Int /\ x * c2 \in Int /\ z * a2 \in Int /\ w * a2 \in Int
        BY <1>1, <1>3
    <2>4. (a1 * c2) * b2 < (c1 * a2) * b2
        BY <1>1, <1>5, ProductsRise
    <2> QED BY <1>4, <2>1, <2>2, <2>3, <2>4
<1>8. /\ Above(a, b) <=> x > y
      /\ Above(b, a) <=> y > x
      /\ Above(b, c) <=> z > w
      /\ Above(c, b) <=> w > z
    BY <1>2 DEF x, y, z, w
<1> QED BY <1>2, <1>3, <1>5, <1>6, <1>7, <1>8

\* Finalize finds a level.
LEMMA BestLevel ==
    ASSUME NEW v \in Version
    PROVE  /\ CompactionLevel(v) \in 0 .. NumLevels - 2
           /\ ~Above(Score(v, 0), Score(v, CompactionLevel(v)))
<1> DEFINE S(l) == Score(v, l)
           Best(n, b) == \A l \in 0 .. n : /\ l < b => Above(S(b), S(l))
                                           /\ l > b => ~Above(S(l), S(b))
           Found(n) == n <= NumLevels - 2 => \E b \in 0 .. n : Best(n, b)
           Wrong == {n \in Nat : ~Found(n)}
<1>1. \A l \in 0 .. NumLevels - 2 : IsScore(S(l))
    BY LevelCounts, ScoreTyped
<1>2. Wrong = {}
    <2>1. SUFFICES ASSUME Wrong # {} PROVE FALSE
        OBVIOUS
    <2>2. PICK n \in Wrong : \A m \in Wrong : n <= m
        <3>1. Wrong \subseteq Nat
            OBVIOUS
        <3> HIDE DEF Wrong
        <3> QED BY <3>1, <2>1, SmallestNumber
    <2>3. n \in Nat /\ n <= NumLevels - 2 /\ ~\E b \in 0 .. n : Best(n, b)
        BY <2>2
    <2>4. CASE n = 0
        <3>1. Best(0, 0)
            OBVIOUS
        <3> QED BY <3>1, <2>3, <2>4
    <2>5. CASE n # 0
        <3>1. n - 1 \in Nat /\ ~(n <= n - 1) /\ n - 1 <= NumLevels - 2
            BY <2>3, <2>5, LevelCounts
        <3>2. Found(n - 1)
            BY <3>1, <2>2
        <3>3. PICK b \in 0 .. n - 1 : Best(n - 1, b)
            BY <3>1, <3>2
        <3>4. /\ IsScore(S(b)) /\ IsScore(S(n))
              /\ \A l \in 0 .. n : IsScore(S(l))
            BY <1>1, <2>3, LevelCounts
        <3>5. CASE Above(S(n), S(b))
            <4>1. ASSUME NEW l \in 0 .. n, l < n PROVE Above(S(n), S(l))
                <5>1. l \in 0 .. n - 1 /\ IsScore(S(l))
                    BY <4>1, <3>4
                <5>2. CASE l < b
                    BY <5>1, <5>2, <3>3, <3>4, <3>5, AboveOrders
                <5>3. CASE l = b
                    BY <5>3, <3>5
                <5>4. CASE l > b
                    <6>1. ~Above(S(l), S(b))
                        BY <5>1, <5>4, <3>3
                    <6>2. Above(S(n), S(l))
                        <7> HIDE DEF S
                        <7>1. SUFFICES ASSUME ~Above(S(n), S(l)) PROVE FALSE
                            OBVIOUS
                        <7>2. ~Above(S(n), S(b))
                            BY <7>1, <6>1, <5>1, <3>4, AboveOrders
                        <7> QED BY <7>2, <3>5
                    <6> QED BY <6>2
                <5> QED BY <5>1, <5>2, <5>3, <5>4
            <4>2. Best(n, n)
                BY <4>1
            <4> QED BY <4>2, <2>3
        <3>6. CASE ~Above(S(n), S(b))
            <4>1. Best(n, b)
                <5> TAKE l \in 0 .. n
                <5>1. CASE l = n
                    BY <5>1, <3>6, <3>3
                <5>2. CASE l # n
                    BY <5>2, <3>3
                <5> QED BY <5>1, <5>2
            <4> QED BY <4>1, <3>3, <2>3
        <3> QED BY <3>5, <3>6
    <2> QED BY <2>4, <2>5
<1>3. NumLevels - 2 \in Nat
    BY VersionAssumption
<1>4. \E b \in 0 .. NumLevels - 2 : Best(NumLevels - 2, b)
    BY <1>2, <1>3
<1>5. CompactionLevel(v) \in 0 .. NumLevels - 2 /\ Best(NumLevels - 2, CompactionLevel(v))
    BY <1>4 DEF CompactionLevel
<1>6. ~Above(S(0), S(CompactionLevel(v)))
    <2> DEFINE b == CompactionLevel(v)
    <2>1. b \in 0 .. NumLevels - 2 /\ 0 \in 0 .. NumLevels - 2 /\ IsScore(S(0)) /\ IsScore(S(b))
        BY <1>1, <1>5, <1>3
    <2>2. 0 < b => Above(S(b), S(0))
        BY <1>5, <2>1
    <2>3. CASE b = 0
        BY <2>3, <2>1 DEF Above, IsScore
    <2>4. CASE 0 < b
        BY <2>4, <2>2, <2>1, AboveOrders
    <2> QED BY <2>1, <2>3, <2>4
<1> QED BY <1>5, <1>6

\* The best level of a size compaction has files.
LEMMA SizeCompactionHasFiles ==
    ASSUME NEW v \in Version, SizeCompaction(v)
    PROVE  v[CompactionLevel(v)] # {}
<1> DEFINE b == CompactionLevel(v)
<1>1. b \in Levels
    BY BestLevel, LevelCounts
<1>2. Score(v, b)[1] \in Nat /\ Score(v, b)[2] \in Nat \ {0} /\ Score(v, b)[1] >= Score(v, b)[2]
    BY <1>1, ScoreTyped DEF SizeCompaction, IsScore
<1>3. SUFFICES ASSUME v[b] = {} PROVE FALSE
    OBVIOUS
<1>4. Cardinality({}) = 0 /\ TotalFileSize({}) = 0
    BY FS_EmptySet, TotalSize
<1>5. Score(v, b)[1] = 0
    <2>1. CASE b = 0
        <3>1. v[0] = {}
            BY <1>3, <2>1
        <3>2. Score(v, b) = <<Cardinality({}), L0Trigger>>
            BY <3>1, <2>1 DEF Score
        <3> QED BY <3>2, <1>4
    <2>2. CASE b # 0
        <3>1. Score(v, b) = <<TotalFileSize({}), MaxSizeForLevel[b]>>
            BY <1>3, <2>2 DEF Score
        <3> QED BY <3>1, <1>4
    <2> QED BY <2>1, <2>2
<1> QED BY <1>2, <1>5

\* A level 0 that stops the writers calls for a compaction.
LEMMA FullLevelNeedsCompaction ==
    ASSUME NEW v \in Version, Cardinality(v[0]) >= L0Stop
    PROVE  SizeCompaction(v)
<1> DEFINE best == Score(v, CompactionLevel(v))
           count == Cardinality(v[0])
<1>1. v[0] \in Files
    BY LevelCounts DEF Version
<1>2. count \in Nat /\ L0Stop \in Nat /\ L0Trigger \in Nat \ {0} /\ L0Trigger <= L0Stop
    BY <1>1, FS_CardinalityType, VersionAssumption, DBAssumption DEF Files, FiniteSubsetsOf
<1>3. IsScore(best) /\ ~Above(Score(v, 0), best)
    BY BestLevel, ScoreTyped, LevelCounts
<1>4. Score(v, 0) = <<count, L0Trigger>>
    BY DEF Score
<1> DEFINE n == best[1]  d == best[2]
<1>5. n \in Nat /\ d \in Nat \ {0} /\ ~(count * d > n * L0Trigger)
    BY <1>3, <1>4 DEF Above, IsScore
<1>6. SUFFICES n >= d
    BY DEF SizeCompaction
<1> HIDE DEF n, d, count
<1>7. SUFFICES ASSUME n < d PROVE FALSE
    BY <1>5
<1>8. n * L0Trigger < d * L0Trigger
    BY <1>2, <1>5, <1>7, ProductsRise
<1>9. L0Trigger * d <= count * d
    <2>1. L0Trigger <= count
        BY <1>2 DEF count
    <2> QED BY <2>1, <1>2, <1>5, ProductsRise
<1>10. /\ d * L0Trigger = L0Trigger * d
       /\ n * L0Trigger \in Int /\ L0Trigger * d \in Int /\ count * d \in Int
    BY <1>2, <1>5
<1> QED BY <1>5, <1>8, <1>9, <1>10

-----------------------------------------------------------------------------
(* The files of a compaction. *)

\* with holds the inputs after each of the first n boundary files.
AddsBoundaries(known, inputs, n, with) ==
    with = [m \in 0 .. n |->
               IF m = 0 THEN [in |-> inputs, largest |-> Greatest({Largest(f) : f \in inputs})]
               ELSE AddBoundaryFile(known, with[m - 1])]

LEMMA BoundariesExist ==
    ASSUME NEW known, NEW inputs, NEW n \in Nat
    PROVE  \E f : AddsBoundaries(known, inputs, n, f)
<1> DEFINE start == [in |-> inputs, largest |-> Greatest({Largest(f) : f \in inputs})]
           Wrong == {k \in Nat : ~\E f : AddsBoundaries(known, inputs, k, f)}
<1>1. SUFFICES ASSUME Wrong # {} PROVE FALSE
    OBVIOUS
<1>2. PICK k \in Wrong : \A m \in Wrong : k <= m
    <2>1. Wrong \subseteq Nat
        OBVIOUS
    <2> HIDE DEF Wrong
    <2> QED BY <2>1, <1>1, SmallestNumber
<1>3. CASE k = 0
    <2> DEFINE f == [m \in 0 .. 0 |-> start]
    <2>1. AddsBoundaries(known, inputs, 0, f)
        BY DEF AddsBoundaries
    <2> HIDE DEF f
    <2> QED BY <2>1, <1>2, <1>3
<1>4. CASE k # 0
    <2>1. k - 1 \in Nat /\ ~(k <= k - 1)
        BY <1>2, <1>4
    <2>2. PICK f : AddsBoundaries(known, inputs, k - 1, f)
        BY <2>1, <1>2
    <2> DEFINE g == [m \in 0 .. k |-> IF m = k THEN AddBoundaryFile(known, f[k - 1]) ELSE f[m]]
    <2>3. \A m \in 0 .. k - 1 : g[m] = f[m] /\ f[m] = IF m = 0 THEN start ELSE AddBoundaryFile(known, f[m - 1])
        <3>1. f = [m \in 0 .. k - 1 |-> IF m = 0 THEN start ELSE AddBoundaryFile(known, f[m - 1])]
            BY <2>2 DEF AddsBoundaries
        <3> HIDE DEF start
        <3> QED BY <2>1, <3>1
    <2> HIDE DEF start
    <2>4. \A m \in 0 .. k : g[m] = IF m = 0 THEN start ELSE AddBoundaryFile(known, g[m - 1])
        <3> TAKE m \in 0 .. k
        <3>1. CASE m = k
            <4>1. g[m] = AddBoundaryFile(known, f[k - 1]) /\ k - 1 \in 0 .. k - 1
                BY <3>1, <2>1
            <4> QED BY <3>1, <4>1, <2>3, <1>4
        <3>2. CASE m # k
            <4>1. m \in 0 .. k - 1 /\ (m # 0 => m - 1 \in 0 .. k - 1)
                BY <3>2, <1>2
            <4> QED BY <4>1, <2>3
        <3> QED BY <3>1, <3>2
    <2>5. AddsBoundaries(known, inputs, k, g)
        <3>1. g = [m \in 0 .. k |-> g[m]]
            OBVIOUS
        <3> HIDE DEF g
        <3> QED BY <3>1, <2>4 DEF AddsBoundaries, start
    <2> HIDE DEF g
    <2> QED BY <2>5, <1>2
<1> QED BY <1>3, <1>4

LEMMA BoundariesWithin ==
    ASSUME NEW known, IsFiniteSet(known), NEW inputs, inputs \subseteq known
    PROVE  AddBoundaryInputs(known, inputs) \subseteq known
<1> DEFINE n == Cardinality(known)
           with[m \in 0 .. n] ==
               IF m = 0 THEN [in |-> inputs, largest |-> Greatest({Largest(f) : f \in inputs})]
               ELSE AddBoundaryFile(known, with[m - 1])
<1>1. n \in Nat
    BY FS_CardinalityType
<1>2. PICK f : AddsBoundaries(known, inputs, n, f)
    BY <1>1, BoundariesExist
<1>3. AddsBoundaries(known, inputs, n, with)
    BY <1>2 DEF AddsBoundaries
<1>4. AddBoundaryInputs(known, inputs) = IF inputs = {} THEN inputs ELSE with[n].in
    BY DEF AddBoundaryInputs
<1> HIDE DEF with, n
<1> DEFINE Wrong == {m \in 0 .. n : ~(with[m].in \subseteq known)}
<1>5. Wrong = {}
    <2>1. SUFFICES ASSUME Wrong # {} PROVE FALSE
        OBVIOUS
    <2>2. PICK k \in Wrong : \A m \in Wrong : k <= m
        <3>1. Wrong \subseteq Nat
            OBVIOUS
        <3> HIDE DEF Wrong
        <3> QED BY <3>1, <2>1, SmallestNumber
    <2>3. CASE k = 0
        <3>1. with[k].in = inputs
            BY <1>3, <2>2, <2>3 DEF AddsBoundaries
        <3> QED BY <3>1, <2>2
    <2>4. CASE k # 0
        <3>1. k - 1 \in 0 .. n /\ ~(k <= k - 1)
            BY <2>2, <2>4, <1>1
        <3>2. with[k - 1].in \subseteq known
            BY <3>1, <2>2
        <3>3. with[k] = AddBoundaryFile(known, with[k - 1])
            BY <1>3, <2>2, <2>4 DEF AddsBoundaries
        <3>4. with[k].in \subseteq known
            BY <3>2, <3>3 DEF AddBoundaryFile, FindSmallestBoundaryFile
        <3> QED BY <3>4, <2>2
    <2> QED BY <2>3, <2>4
<1>6. n \in 0 .. n
    BY <1>1
<1> QED BY <1>4, <1>5, <1>6

LEMMA OverlappingWithin ==
    ASSUME NEW v, NEW level, NEW range
    PROVE  GetOverlappingInputs(v, level, range) \subseteq v[level]
BY DEF GetOverlappingInputs

LEMMA LargestOf ==
    ASSUME NEW some \in Files
    PROVE  Greatest({Largest(f) : f \in some}) \in Pointer
<1> DEFINE key == [f \in some |-> Largest(f)]
           keys == {Largest(f) : f \in some}
<1>1. CASE some = {}
    <2>1. keys = {}
        BY <1>1
    <2> HIDE DEF keys
    <2>2. Greatest(keys) \in Pointer
        BY <2>1 DEF Pointer
    <2> QED BY <2>2 DEF keys
<1>2. CASE some # {}
    <2>1. IsFiniteSet({key[f] : f \in some})
        <3>1. DOMAIN key = some /\ IsFiniteSet(some)
            BY DEF Files, FiniteSubsetsOf
        <3> HIDE DEF key
        <3> QED BY <3>1, ImageIsFinite
    <2>2. IsFiniteSet(keys) /\ keys \subseteq Int /\ keys # {}
        <3>1. keys = {key[f] : f \in some}
            OBVIOUS
        <3>2. some \subseteq File
            BY DEF Files, FiniteSubsetsOf
        <3>3. keys \subseteq Int
            BY <3>2, FileKeys
        <3> QED BY <3>1, <3>3, <2>1, <1>2
    <2> HIDE DEF keys
    <2>3. Greatest(keys) \in Int
        BY <2>2, GreatestIs
    <2> QED BY <2>3 DEF Pointer, keys
<1> QED BY <1>1, <1>2

\* What the files of a compaction are.
Chosen(c, v, level) ==
    /\ c \in CompactionOf
    /\ c.level = level
    /\ c.upper \subseteq v[level]
    /\ c.lower \subseteq v[level + 1]

LEMMA CompactionTyped ==
    ASSUME NEW v \in Version, NEW level \in 0 .. NumLevels - 2,
           NEW upper, upper \subseteq v[level], NEW lower, lower \subseteq v[level + 1]
    PROVE  Chosen(Compaction(v, level, upper, lower), v, level)
<1> DEFINE c == Compaction(v, level, upper, lower)
<1>1. level \in Levels /\ level + 1 \in Levels /\ level \in Nat /\ NumLevels \in Nat
    BY LevelCounts
<1>2. v[level] \in Files /\ v[level + 1] \in Files
    BY <1>1 DEF Version
<1>3. upper \in Files /\ lower \in Files
    BY <1>2, FinitePart DEF Files
<1>4. c.grandparents \in Files
    <2>1. CASE level + 2 < NumLevels
        <3>1. level + 2 \in Levels
            BY <1>1, <2>1 DEF Levels
        <3>2. v[level + 2] \in Files
            BY <3>1 DEF Version
        <3>3. c.grandparents = GetOverlappingInputs(v, level + 2, RangeOf(upper \cup lower))
            BY <2>1 DEF Compaction
        <3> HIDE DEF c
        <3> QED BY <3>2, <3>3, OverlappingWithin, FinitePart DEF Files
    <2>2. CASE ~(level + 2 < NumLevels)
        <3>1. c.grandparents = {}
            BY <2>2 DEF Compaction
        <3>2. {} \in Files
            BY FS_EmptySet DEF Files, FiniteSubsetsOf
        <3> QED BY <3>1, <3>2
    <2> QED BY <2>1, <2>2
<1>5. c.pointer \in Pointer
    BY <1>3, LargestOf DEF Compaction
<1>6. /\ c = [level |-> c.level, upper |-> c.upper, lower |-> c.lower,
              grandparents |-> c.grandparents, pointer |-> c.pointer]
      /\ c.level = level /\ c.upper = upper /\ c.lower = lower
    BY DEF Compaction
<1> HIDE DEF c
<1>7. c \in CompactionOf
    BY <1>3, <1>4, <1>5, <1>6 DEF CompactionOf
<1> QED BY <1>6, <1>7 DEF Chosen, c

LEMMA CompactFileTyped ==
    ASSUME NEW v \in Version, NEW level \in 0 .. NumLevels - 2, NEW f \in v[level]
    PROVE  Chosen(CompactFile(v, level, f), v, level)
<1>1. level \in Levels /\ level + 1 \in Levels
    BY LevelCounts
<1>2. IsFiniteSet(v[level])
    BY <1>1 DEF Version, Files, FiniteSubsetsOf
<1> DEFINE picked == IF level = 0 THEN GetOverlappingInputs(v, 0, RangeOf({f})) ELSE {f}
           upper  == AddBoundaryInputs(v[level], picked)
           lower  == Below(v, level, upper)
           wider  == Beside(v, level, upper \cup lower)
<1>3. picked \subseteq v[level]
    BY OverlappingWithin
<1>4. upper \subseteq v[level]
    <2> HIDE DEF picked
    <2> QED BY <1>2, <1>3, BoundariesWithin
<1>5. lower \subseteq v[level + 1]
    BY OverlappingWithin DEF Below
<1>6. wider \subseteq v[level]
    BY <1>2, OverlappingWithin, BoundariesWithin DEF Beside
<1>7. Below(v, level, wider) \subseteq v[level + 1]
    BY OverlappingWithin DEF Below
<1>8. CompactFile(v, level, f) = Expanded(v, level, upper, lower, wider)
    BY DEF CompactFile, SetupOtherInputs, WithUpper, WithLower
<1> HIDE DEF upper, lower, wider
<1>9. Chosen(Expanded(v, level, upper, lower, wider), v, level)
    <2>1. Chosen(Compaction(v, level, upper, lower), v, level)
        BY <1>4, <1>5, CompactionTyped
    <2>2. Chosen(Compaction(v, level, wider, Below(v, level, wider)), v, level)
        BY <1>6, <1>7, CompactionTyped
    <2> QED BY <2>1, <2>2 DEF Expanded
<1> QED BY <1>8, <1>9

\* The compaction picked is one of files of the version.
LEMMA PickTyped ==
    ASSUME NEW v \in Version, NEW moved, NEW asked,
           SizeCompaction(v) \/ asked # {},
           \A p \in asked : \E level \in 0 .. NumLevels - 2 : \E f \in v[level] : p = <<level, f>>
    PROVE  LET c == PickCompaction(v, moved, asked)
           IN Chosen(c, v, c.level) /\ c.level \in 0 .. NumLevels - 2
<1> DEFINE c == PickCompaction(v, moved, asked)
<1>1. CASE SizeCompaction(v)
    <2> DEFINE best == CompactionLevel(v)
               f    == PickInput(v, best, moved[best])
               after == {g \in v[best] : Largest(g) > moved[best]}
               pool == IF after = {} THEN v[best] ELSE after
    <2>1. best \in 0 .. NumLevels - 2 /\ best \in Levels
        BY BestLevel, LevelCounts
    <2>2. v[best] # {} /\ v[best] \in Files
        BY <1>1, <2>1, SizeCompactionHasFiles DEF Version
    <2>3. pool \in Files /\ pool # {} /\ pool \subseteq v[best]
        BY <2>2, FinitePart DEF Files
    <2>4. f = CHOOSE g \in pool : g \in FirstOf(pool)
        BY DEF PickInput
    <2>5. f \in v[best]
        <3> HIDE DEF pool, f
        <3> QED BY <2>3, <2>4, FirstOfSome
    <2>6. c = CompactFile(v, best, f)
        BY <1>1 DEF PickCompaction
    <2>7. Chosen(CompactFile(v, best, f), v, best)
        <3> HIDE DEF f, best
        <3> QED BY <2>1, <2>5, CompactFileTyped
    <2> QED BY <2>1, <2>6, <2>7 DEF Chosen
<1>2. CASE ~SizeCompaction(v)
    <2> DEFINE p == CHOOSE q \in asked : TRUE
    <2>1. p \in asked
        BY <1>2
    <2>2. PICK level \in 0 .. NumLevels - 2 : \E f \in v[level] : p = <<level, f>>
        <3> HIDE DEF p
        <3> QED BY <2>1
    <2>3. PICK f \in v[level] : p = <<level, f>>
        BY <2>2
    <2>4. c = CompactFile(v, level, f)
        <3>1. c = CompactFile(v, p[1], p[2])
            BY <1>2 DEF PickCompaction
        <3> HIDE DEF c, p
        <3> QED BY <2>3, <3>1
    <2>5. Chosen(CompactFile(v, level, f), v, level)
        BY CompactFileTyped
    <2> QED BY <2>4, <2>5 DEF Chosen
<1> QED BY <1>1, <1>2

\* Only a file with another one below it is charged for a seek.
LEMMA SeekFileTyped ==
    ASSUME NEW v \in Version, NEW k, NEW s,
           \A f, g \in FilesOf(v) : f.number = g.number => f = g
    PROVE  \A p \in SeekFile(v, k, s) :
              \E level \in 0 .. NumLevels - 2 : \E f \in v[level] : p = <<level, f>>
<1> DEFINE asked == UNION {{<<level, f>> : f \in Candidates(v, level, k, s)} : level \in Levels}
<1>1. SUFFICES ASSUME NEW p \in SeekFile(v, k, s)
               PROVE  \E level \in 0 .. NumLevels - 2 : \E f \in v[level] : p = <<level, f>>
    OBVIOUS
<1>2. /\ p \in asked /\ Cardinality(asked) > 1
      /\ \A q \in asked : p[1] < q[1] \/ (p[1] = q[1] /\ p[2].number >= q[2].number)
    BY DEF SeekFile
<1>3a. PICK level \in Levels : \E f \in Candidates(v, level, k, s) : p = <<level, f>>
    BY <1>2
<1>3. PICK f \in Candidates(v, level, k, s) : p = <<level, f>>
    BY <1>3a
<1>4. \A l \in Levels : Candidates(v, l, k, s) \subseteq v[l]
    BY DEF Candidates, FindFile, FirstOf
<1>5. SUFFICES level # NumLevels - 1
    <2>1. level # NumLevels - 1 => level \in 0 .. NumLevels - 2
        BY LevelCounts DEF Levels
    <2> QED BY <2>1, <1>3, <1>4
<1>6. SUFFICES ASSUME level = NumLevels - 1 PROVE FALSE
    OBVIOUS
<1>7. \E q \in asked : q # p
    <2>1. SUFFICES ASSUME asked = {p} PROVE FALSE
        BY <1>2
    <2>2. Cardinality(asked) = 1
        BY <2>1, FS_Singleton
    <2> QED BY <2>2, <1>2
<1>8. PICK q \in asked : q # p
    BY <1>7
<1>9a. PICK l \in Levels : \E g \in Candidates(v, l, k, s) : q = <<l, g>>
    BY <1>8
<1>9. PICK g \in Candidates(v, l, k, s) : q = <<l, g>>
    BY <1>9a
<1>10. l = level /\ level # 0
    <2>1. level < l \/ level = l
        BY <1>2, <1>3, <1>8, <1>9
    <2> QED BY <2>1, <1>6, LevelCounts, VersionAssumption DEF Levels
<1> DEFINE reach == {h \in v[level] : Largest(h) >= InternalKey(k, s)}
<1>11. f \in FirstOf(reach) /\ g \in FirstOf(reach)
    BY <1>3, <1>9, <1>10 DEF Candidates, FindFile
<1>12. reach \subseteq FilesOf(v) /\ reach \subseteq File
    BY DEF FilesOf, Version, Files, FiniteSubsetsOf
<1>13. f = g
    <2> HIDE DEF reach
    <2>1. \A x, y \in reach : x.number = y.number => x = y
        BY <1>12
    <2> QED BY <2>1, <1>11, <1>12, FirstOfOne
<1> QED BY <1>3, <1>8, <1>9, <1>10, <1>13

-----------------------------------------------------------------------------
(* Edits and the states of a descriptor. *)

LEMMA AddedTyped ==
    ASSUME NEW edit \in Edit
    PROVE  Added(edit) \in Files
<1> DEFINE file == [p \in edit.added |-> p[2]]
<1>1. IsFiniteSet(edit.added) /\ edit.added \subseteq Nat \X File
    BY DEF Edit, FiniteSubsetsOf
<1>2. IsFiniteSet({file[p] : p \in edit.added})
    <2>1. DOMAIN file = edit.added
        OBVIOUS
    <2> HIDE DEF file
    <2> QED BY <2>1, <1>1, ImageIsFinite
<1>3. Added(edit) = {file[p] : p \in edit.added}
    BY DEF Added
<1>4. Added(edit) \subseteq File
    BY <1>1 DEF Added
<1> QED BY <1>2, <1>3, <1>4 DEF Files, FiniteSubsetsOf

LEMMA SaveToTyped ==
    ASSUME NEW v \in Version, NEW edit \in Edit
    PROVE  /\ SaveTo(v, edit) \in Version
           /\ FilesOf(SaveTo(v, edit)) \subseteq FilesOf(v) \cup Added(edit)
<1> DEFINE saved == SaveTo(v, edit)
<1>1. \A level \in Levels : saved[level] \subseteq v[level] \cup Added(edit)
    BY DEF SaveTo, Added
<1>2. \A level \in Levels : saved[level] \in Files
    <2> TAKE level \in Levels
    <2>1. v[level] \in Files /\ Added(edit) \in Files
        BY AddedTyped DEF Version
    <2>2. v[level] \cup Added(edit) \in Files
        BY <2>1, FS_Union DEF Files, FiniteSubsetsOf
    <2> HIDE DEF saved
    <2> QED BY <1>1, <2>2, FinitePart DEF Files
<1>3. saved = [level \in Levels |-> saved[level]]
    BY DEF SaveTo
<1>4. saved \in Version
    <2> HIDE DEF saved
    <2> QED BY <1>2, <1>3 DEF Version
<1>5. FilesOf(saved) \subseteq FilesOf(v) \cup Added(edit)
    <2> HIDE DEF saved
    <2> QED BY <1>1 DEF FilesOf
<1> QED BY <1>4, <1>5

LEMMA ApplyTyped ==
    ASSUME NEW state, state.version \in Version, state.pointers \in [Levels -> Pointer],
           NEW edit \in Edit
    PROVE  /\ Apply(state, edit) \in State
           /\ Apply(state, edit).version = SaveTo(state.version, edit)
           /\ Apply(state, edit).next = edit.next
<1> DEFINE after == Apply(state, edit)
<1>1. /\ after = [version |-> after.version, pointers |-> after.pointers, log |-> after.log,
                  next |-> after.next, seq |-> after.seq]
      /\ after.version = SaveTo(state.version, edit)
      /\ after.log = edit.log /\ after.next = edit.next /\ after.seq = edit.seq
    BY DEF Apply
<1>2. after.pointers = [level \in Levels |->
                      IF \E p \in edit.pointers : p[1] = level
                      THEN (CHOOSE p \in edit.pointers : p[1] = level)[2]
                      ELSE state.pointers[level]]
    BY DEF Apply
<1>3. edit.pointers \subseteq Nat \X Pointer /\ edit.log \in Nat /\ edit.next \in Nat /\ edit.seq \in Nat
    BY DEF Edit
<1> HIDE DEF after
<1>4. \A level \in Levels : after.pointers[level] \in Pointer
    <2> TAKE level \in Levels
    <2>1. CASE \E p \in edit.pointers : p[1] = level
        <3> DEFINE q == CHOOSE p \in edit.pointers : p[1] = level
        <3>1. q \in edit.pointers
            BY <2>1
        <3>2. after.pointers[level] = q[2]
            BY <2>1, <1>2
        <3> HIDE DEF q
        <3> QED BY <3>1, <3>2, <1>3
    <2>2. CASE ~\E p \in edit.pointers : p[1] = level
        BY <2>2, <1>2
    <2> QED BY <2>1, <2>2
<1>5. after.pointers \in [Levels -> Pointer]
    BY <1>2, <1>4
<1>6. after \in State
    <2>1. after.version \in Version
        BY <1>1, SaveToTyped
    <2> QED BY <2>1, <1>1, <1>3, <1>5 DEF State
<1> QED BY <1>1, <1>6 DEF after

LEMMA ReplayTyped ==
    ASSUME NEW d \in Descriptor, NEW n \in 0 .. Len(d.edits)
    PROVE  Replay(d, n) \in State
<1> DEFINE Wrong == {m \in 0 .. Len(d.edits) : Replay(d, m) \notin State}
<1>1. SUFFICES ASSUME Wrong # {} PROVE FALSE
    OBVIOUS
<1>2. d.base \in State /\ d.edits \in Seq(Edit) /\ Len(d.edits) \in Nat
    BY DEF Descriptor
<1>3. PICK m \in Wrong : \A i \in Wrong : m <= i
    <2>1. Wrong \subseteq Nat
        OBVIOUS
    <2> HIDE DEF Wrong
    <2> QED BY <2>1, <1>1, SmallestNumber
<1>4. CASE m = 0
    BY <1>2, <1>3, <1>4, ReplayStarts
<1>5. CASE m # 0
    <2>1. m \in Nat /\ m - 1 \in 0 .. Len(d.edits) /\ ~(m <= m - 1) /\ m \in 1 .. Len(d.edits)
        BY <1>2, <1>3, <1>5
    <2>2. Replay(d, m - 1) \in State
        BY <2>1, <1>3
    <2>3. d.edits[m] \in Edit
        BY <2>1, <1>2
    <2>4. Apply(Replay(d, m - 1), d.edits[m]) \in State
        BY <2>2, <2>3, ApplyTyped DEF State
    <2>5. Replay(d, m) = Apply(Replay(d, m - 1), d.edits[m])
        BY <2>1, <1>5, ReplayStep
    <2> QED BY <2>4, <2>5, <1>3
<1> QED BY <1>4, <1>5

-----------------------------------------------------------------------------
(* What compactions write. *)

LEMMA OutputLevelTyped ==
    ASSUME NEW v, NEW range
    PROVE  PickLevelForMemTableOutput(v, range) \in Nat
<1> DEFINE MayEnter(level) ==
            /\ ~OverlapInLevel(v, level, range)
            /\ level + 1 < NumLevels =>
                  TotalFileSize(GetOverlappingInputs(v, level + 1, range)) <= MaxGrandParentOverlap
           fit == {level \in 0 .. MaxMemLevel : \A m \in 1 .. level : MayEnter(m)}
<1>1. MaxMemLevel \in Nat
    BY VersionAssumption
<1>2. IsFiniteSet(fit) /\ fit \subseteq Int /\ 0 \in fit
    <2>1. IsFiniteSet(0 .. MaxMemLevel) /\ fit \subseteq 0 .. MaxMemLevel
        BY <1>1, FS_Interval
    <2> HIDE DEF MayEnter
    <2>2. 0 \in 0 .. MaxMemLevel /\ 1 .. 0 = {}
        BY <1>1
    <2>3. 0 \in fit
        BY <2>2
    <2>4. fit \subseteq Int
        BY <1>1
    <2> HIDE DEF fit
    <2> QED BY <2>1, <2>3, <2>4, FS_Subset
<1>3. PickLevelForMemTableOutput(v, range) = IF OverlapInLevel(v, 0, range) THEN 0 ELSE Greatest(fit)
    BY DEF PickLevelForMemTableOutput
<1>4. fit \subseteq Nat
    BY <1>1
<1> HIDE DEF fit
<1>5. Greatest(fit) \in fit
    BY <1>2, GreatestIs
<1>6. CASE OverlapInLevel(v, 0, range)
    BY <1>3, <1>6
<1>7. CASE ~OverlapInLevel(v, 0, range)
    <2>1. PickLevelForMemTableOutput(v, range) = Greatest(fit)
        BY <1>3, <1>7
    <2> QED BY <2>1, <1>4, <1>5
<1> QED BY <1>6, <1>7

LEMMA EntriesOfTyped ==
    ASSUME NEW some \in Files
    PROVE  UNION {f.entries : f \in some} \in Entries
<1> DEFINE entries == [f \in some |-> f.entries]
           all == {f.entries : f \in some}
<1>1. IsFiniteSet(some) /\ some \subseteq File
    BY DEF Files, FiniteSubsetsOf
<1>2. IsFiniteSet(all)
    <2>1. IsFiniteSet({entries[f] : f \in some})
        <3>1. DOMAIN entries = some
            OBVIOUS
        <3> HIDE DEF entries
        <3> QED BY <3>1, <1>1, ImageIsFinite
    <2>2. all = {entries[f] : f \in some}
        OBVIOUS
    <2> QED BY <2>1, <2>2
<1>3. \A s \in all : IsFiniteSet(s) /\ s \subseteq Entry
    BY <1>1 DEF File, Entries, FiniteSubsetsOf
<1>4. IsFiniteSet(UNION all) /\ UNION all \subseteq Entry
    <2> HIDE DEF all
    <2> QED BY <1>2, <1>3, FS_UNION
<1> QED BY <1>4 DEF Entries, FiniteSubsetsOf

LEMMA KeptTyped ==
    ASSUME NEW v, NEW c \in CompactionOf, NEW oldest
    PROVE  Kept(v, c, oldest) \in Entries
<1>1. c.upper \cup c.lower \in Files
    BY FS_Union DEF CompactionOf, Files, FiniteSubsetsOf
<1>2. Merged(c) \in Entries
    BY <1>1, EntriesOfTyped DEF Merged
<1>3. Kept(v, c, oldest) \subseteq Merged(c)
    BY DEF Kept
<1> QED BY <1>2, <1>3, FinitePart DEF Entries

LEMMA FirstOutputTyped ==
    ASSUME NEW entries \in Entries, entries # {}
    PROVE  FirstOutput(entries) \in Entries \ {{}}
<1> DEFINE key == [e \in entries |-> KeyOf(e)]
           keys == {key[e] : e \in entries}
<1>1. IsFiniteSet(entries) /\ entries \subseteq Entry
    BY DEF Entries, FiniteSubsetsOf
<1>2. \A e \in entries : KeyOf(e) \in Int
    <2> TAKE e \in entries
    <2>1. e.key \in Nat /\ e.seq \in Nat /\ MaxSequence \in Nat
        BY <1>1, DBAssumption, VersionAssumption DEF Entry
    <2> QED BY <2>1 DEF KeyOf, InternalKey
<1>3. IsFiniteSet(keys) /\ keys \subseteq Int /\ keys # {}
    <2>1. DOMAIN key = entries
        OBVIOUS
    <2>2. IsFiniteSet(keys)
        <3> HIDE DEF key
        <3> QED BY <2>1, <1>1, ImageIsFinite
    <2> QED BY <2>2, <1>2
<1>4. PICK k \in keys : \A y \in keys : k <= y
    <2> HIDE DEF keys
    <2> QED BY <1>3, FiniteSetHasBounds
<1>5. PICK e \in entries : KeyOf(e) = k
    BY <1>4
<1>6. {d \in entries : KeyOf(d) < KeyOf(e)} = {}
    <2> SUFFICES ASSUME NEW d \in entries, KeyOf(d) < KeyOf(e) PROVE FALSE
        OBVIOUS
    <2>1. k <= KeyOf(d) /\ KeyOf(d) \in Int /\ k \in Int
        BY <1>2, <1>4, <1>5
    <2> QED BY <2>1, <1>5
<1>7. e \in FirstOutput(entries)
    <2>1. 0 < FileLimit
        BY VersionAssumption
    <2>2. Cardinality({d \in entries : KeyOf(d) < KeyOf(e)}) = 0
        BY <1>6, FS_EmptySet
    <2> QED BY <2>1, <2>2 DEF FirstOutput
<1>8. FirstOutput(entries) \subseteq entries
    BY DEF FirstOutput
<1> QED BY <1>7, <1>8, FinitePart DEF Entries

-----------------------------------------------------------------------------
(* Recovery. *)

LEMMA ReadableTyped ==
    ASSUME NEW records \in Seq(Entries \cup {Nil})
    PROVE  Readable(records) \in Seq(Entries)
<1> DEFINE torn == {i \in DOMAIN records : records[i] = Nil}
           n == IF torn = {} THEN Len(records) ELSE Least(torn) - 1
<1>1. DOMAIN records = 1 .. Len(records) /\ Len(records) \in Nat
    OBVIOUS
<1>2. n \in Int /\ n <= Len(records) /\ \A i \in 1 .. n : records[i] # Nil
    <2>1. CASE torn = {}
        BY <1>1, <2>1
    <2>2. CASE torn # {}
        <3>1. IsFiniteSet(torn) /\ torn \subseteq 1 .. Len(records)
            <4>1. torn \subseteq 1 .. Len(records) /\ IsFiniteSet(1 .. Len(records))
                BY <1>1, FS_Interval
            <4> HIDE DEF torn
            <4> QED BY <4>1, FS_Subset
        <3> HIDE DEF torn
        <3>2. Least(torn) \in torn /\ \A y \in torn : Least(torn) <= y
            <4>1. torn \subseteq Int
                BY <3>1, <1>1
            <4> QED BY <4>1, <3>1, <2>2, LeastIs
        <3>3. n = Least(torn) - 1 /\ Least(torn) \in 1 .. Len(records)
            BY <2>2, <3>1, <3>2
        <3>4. \A i \in 1 .. n : i \notin torn /\ i \in 1 .. Len(records)
            BY <3>2, <3>3, <1>1
        <3> QED BY <1>1, <3>3, <3>4 DEF torn
    <2> QED BY <2>1, <2>2
<1>3. \A i \in 1 .. n : records[i] \in Entries
    <2> HIDE DEF n
    <2> TAKE i \in 1 .. n
    <2>1. i \in 1 .. Len(records)
        BY <1>1, <1>2
    <2> QED BY <1>2, <2>1
<1>4. SubSeq(records, 1, n) \in Seq(Entries)
    <2> HIDE DEF n
    <2> QED BY <1>2, <1>3, SubSeqProperties
<1>5. CASE torn = {}
    <2>1. records = SubSeq(records, 1, n)
        BY <1>5, SubSeqFull
    <2> QED BY <1>4, <1>5, <2>1 DEF Readable
<1>6. CASE torn # {}
    BY <1>4, <1>6 DEF Readable
<1> QED BY <1>5, <1>6

Accumulator == [next : Nat, left : Entries, made : Files]

\* What the reading of logs makes are tables with new numbers, from start on.
MakesTables(acc, start) ==
    /\ acc \in Accumulator
    /\ start <= acc.next
    /\ \A f \in acc.made : start <= f.number /\ f.number < acc.next
    /\ \A f, g \in acc.made : f.number = g.number => f = g

\* One table more.
LEMMA TableMade ==
    ASSUME NEW acc, NEW start \in Nat, MakesTables(acc, start),
           NEW m \in Entries, m # {}
    PROVE  MakesTables([next |-> acc.next + 1, left |-> {},
                        made |-> acc.made \cup {[number |-> acc.next, entries |-> m]}], start)
<1> DEFINE f == [number |-> acc.next, entries |-> m]
           made == acc.made \cup {f}
<1>1. acc.next \in Nat /\ acc.made \in Files /\ acc.made \subseteq File
    BY DEF MakesTables, Accumulator, Files, FiniteSubsetsOf
<1>2. f \in File /\ f.number = acc.next
    BY <1>1 DEF File
<1> HIDE DEF f
<1>3. made \in Files
    <2>1. IsFiniteSet(acc.made)
        BY <1>1 DEF Files, FiniteSubsetsOf
    <2>2. IsFiniteSet(made)
        BY <2>1, FS_AddElement
    <2> QED BY <1>1, <1>2, <2>2 DEF Files, FiniteSubsetsOf
<1>4. {} \in Entries
    BY FS_EmptySet DEF Entries, FiniteSubsetsOf
<1>5. \A g \in acc.made : start <= g.number /\ g.number < acc.next /\ g.number \in Nat
    BY <1>1 DEF MakesTables, File
<1>6. \A g \in made : start <= g.number /\ g.number < acc.next + 1
    BY <1>1, <1>2, <1>5 DEF MakesTables
<1>7. \A g, h \in made : g.number = h.number => g = h
    BY <1>1, <1>2, <1>5 DEF MakesTables
<1>8. start <= acc.next + 1 /\ acc.next + 1 \in Nat
    BY <1>1 DEF MakesTables
<1> HIDE DEF made
<1>9. MakesTables([next |-> acc.next + 1, left |-> {}, made |-> made], start)
    BY <1>3, <1>4, <1>6, <1>7, <1>8 DEF MakesTables, Accumulator
<1> QED BY <1>9 DEF made, f

LEMMA AddRecordKeeps ==
    ASSUME NEW acc, NEW start \in Nat, MakesTables(acc, start), NEW record \in Entries
    PROVE  MakesTables(AddRecord(acc, record), start)
<1> DEFINE m == acc.left \cup record
<1>1. m \in Entries
    BY FS_Union DEF MakesTables, Accumulator, Entries, FiniteSubsetsOf
<1>2. acc = [next |-> acc.next, left |-> acc.left, made |-> acc.made]
    BY DEF MakesTables, Accumulator
<1>3. CASE Cardinality(m) > MemLimit
    <2>1. m # {}
        <3> SUFFICES ASSUME m = {} PROVE FALSE
            OBVIOUS
        <3>1. Cardinality(m) = 0 /\ MemLimit \in Nat
            BY FS_EmptySet, DBAssumption
        <3> QED BY <3>1, <1>3
    <2>2. AddRecord(acc, record) = [next |-> acc.next + 1, left |-> {},
                        made |-> acc.made \cup {[number |-> acc.next, entries |-> m]}]
        BY <1>2, <1>3 DEF AddRecord
    <2> HIDE DEF m
    <2> QED BY <1>1, <2>1, <2>2, TableMade
<1>4. CASE ~(Cardinality(m) > MemLimit)
    <2>1. AddRecord(acc, record) = [next |-> acc.next, left |-> m, made |-> acc.made]
        BY <1>2, <1>4 DEF AddRecord
    <2> HIDE DEF m
    <2> QED BY <1>1, <2>1 DEF MakesTables, Accumulator
<1> QED BY <1>3, <1>4

\* f holds what the first n records make.
Reads(acc, records, n, f) ==
    f = [m \in 0 .. n |-> IF m = 0 THEN acc ELSE AddRecord(f[m - 1], records[m])]

LEMMA ReadsExist ==
    ASSUME NEW acc, NEW records, NEW n \in Nat
    PROVE  \E f : Reads(acc, records, n, f)
<1> DEFINE Wrong == {k \in Nat : ~\E f : Reads(acc, records, k, f)}
<1>1. SUFFICES ASSUME Wrong # {} PROVE FALSE
    OBVIOUS
<1>2. PICK k \in Wrong : \A m \in Wrong : k <= m
    <2>1. Wrong \subseteq Nat
        OBVIOUS
    <2> HIDE DEF Wrong
    <2> QED BY <2>1, <1>1, SmallestNumber
<1>3. CASE k = 0
    <2> DEFINE f == [m \in 0 .. 0 |-> acc]
    <2>1. Reads(acc, records, 0, f)
        BY DEF Reads
    <2> HIDE DEF f
    <2> QED BY <2>1, <1>2, <1>3
<1>4. CASE k # 0
    <2>1. k - 1 \in Nat /\ ~(k <= k - 1)
        BY <1>2, <1>4
    <2>2. PICK f : Reads(acc, records, k - 1, f)
        BY <2>1, <1>2
    <2> DEFINE g == [m \in 0 .. k |-> IF m = k THEN AddRecord(f[k - 1], records[k]) ELSE f[m]]
    <2>3. \A m \in 0 .. k - 1 : g[m] = f[m] /\ f[m] = IF m = 0 THEN acc ELSE AddRecord(f[m - 1], records[m])
        BY <2>1, <2>2 DEF Reads
    <2>4. \A m \in 0 .. k : g[m] = IF m = 0 THEN acc ELSE AddRecord(g[m - 1], records[m])
        <3> TAKE m \in 0 .. k
        <3>1. CASE m = k
            <4>1. m # 0 => k - 1 \in 0 .. k - 1
                BY <3>1, <1>2, <2>1
            <4> QED BY <3>1, <4>1, <2>3, <1>4
        <3>2. CASE m # k
            <4>1. m \in 0 .. k - 1 /\ (m # 0 => m - 1 \in 0 .. k - 1)
                BY <3>2, <1>2
            <4> QED BY <4>1, <2>3
        <3> QED BY <3>1, <3>2
    <2>5. Reads(acc, records, k, g)
        <3>1. g = [m \in 0 .. k |-> g[m]]
            OBVIOUS
        <3> HIDE DEF g
        <3> QED BY <3>1, <2>4 DEF Reads
    <2> HIDE DEF g
    <2> QED BY <2>5, <1>2
<1> QED BY <1>3, <1>4

LEMMA ReadRecordsKeeps ==
    ASSUME NEW acc, NEW start \in Nat, MakesTables(acc, start), NEW records \in Seq(Entries)
    PROVE  MakesTables(ReadRecords(acc, records), start)
<1> DEFINE n == Len(records)
           read[i \in 0 .. n] == IF i = 0 THEN acc ELSE AddRecord(read[i - 1], records[i])
<1>1. n \in Nat
    OBVIOUS
<1>2. PICK f : Reads(acc, records, n, f)
    BY <1>1, ReadsExist
<1>3. Reads(acc, records, n, read)
    BY <1>2 DEF Reads
<1>4. ReadRecords(acc, records) = read[n]
    BY DEF ReadRecords
<1> HIDE DEF read
<1> DEFINE Wrong == {m \in 0 .. n : ~MakesTables(read[m], start)}
<1>5. Wrong = {}
    <2>1. SUFFICES ASSUME Wrong # {} PROVE FALSE
        OBVIOUS
    <2>2. PICK k \in Wrong : \A m \in Wrong : k <= m
        <3>1. Wrong \subseteq Nat
            OBVIOUS
        <3> HIDE DEF Wrong
        <3> QED BY <3>1, <2>1, SmallestNumber
    <2>3. CASE k = 0
        <3>1. read[k] = acc
            BY <1>1, <1>3, <2>3 DEF Reads
        <3> QED BY <3>1, <2>2
    <2>4. CASE k # 0
        <3>1. k - 1 \in 0 .. n /\ ~(k <= k - 1) /\ k \in 1 .. n
            BY <2>2, <2>4, <1>1
        <3>2. MakesTables(read[k - 1], start)
            BY <3>1, <2>2
        <3>3. read[k] = AddRecord(read[k - 1], records[k])
            BY <1>1, <1>3, <2>2, <2>4 DEF Reads
        <3>4. records[k] \in Entries
            BY <3>1
        <3>5. MakesTables(AddRecord(read[k - 1], records[k]), start)
            BY <3>2, <3>4, AddRecordKeeps
        <3> QED BY <3>3, <3>5, <2>2
    <2> QED BY <2>3, <2>4
<1>6. n \in 0 .. n
    BY <1>1
<1> HIDE DEF n
<1> QED BY <1>4, <1>5, <1>6

LEMMA RecoverLogFileKeeps ==
    ASSUME DiskTyped, NEW acc, NEW start \in Nat, MakesTables(acc, start), NEW n \in DOMAIN logs
    PROVE  /\ MakesTables(RecoverLogFile(acc, n), start)
           /\ RecoverLogFile(acc, n).left = {}
<1> DEFINE read == ReadRecords(acc, Readable(logs[n].records))
           last == IF read.left = {} THEN read
                   ELSE [next |-> read.next + 1, left |-> {},
                      made |-> read.made \cup {[number |-> read.next, entries |-> read.left]}]
           done == RecoverLogFile(acc, n)
<1>1. n \in Nat /\ logs[n].records \in Seq(Entries \cup {Nil})
    BY DEF DiskTyped, Log
<1>2. MakesTables(read, start)
    BY <1>1, ReadableTyped, ReadRecordsKeeps
<1>3. done = [last EXCEPT !.next = Greatest({@, n + 1})]
    BY DEF RecoverLogFile
<1> HIDE DEF read, done
<1>4. MakesTables(last, start) /\ last.left = {}
    <2>1. CASE read.left = {}
        BY <1>2, <2>1
    <2>2. CASE read.left # {}
        <3>1. read.left \in Entries
            BY <1>2 DEF MakesTables, Accumulator
        <3> QED BY <1>2, <2>2, <3>1, TableMade
    <2> QED BY <2>1, <2>2
<1> HIDE DEF last
<1> DEFINE next == Greatest({last.next, n + 1})
<1>5. last.next \in Nat /\ last = [next |-> last.next, left |-> last.left, made |-> last.made]
    BY <1>4 DEF MakesTables, Accumulator
<1>6. next \in Nat /\ next >= last.next
    <2>1. IsFiniteSet({last.next} \cup {n + 1})
        BY FS_AddElement, FS_Singleton
    <2>2. {last.next, n + 1} = {last.next} \cup {n + 1} /\ {last.next, n + 1} \subseteq Int /\ {last.next, n + 1} \subseteq Nat
        BY <1>1, <1>5
    <2>3. next \in {last.next, n + 1} /\ \A y \in {last.next, n + 1} : next >= y
        BY <2>1, <2>2, GreatestIs
    <2> QED BY <2>2, <2>3
<1> HIDE DEF next
<1>7. done = [next |-> next, left |-> {}, made |-> last.made]
    BY <1>3, <1>4, <1>5 DEF next
<1>8. \A f \in last.made : f.number \in Nat
    BY <1>4 DEF MakesTables, Accumulator, Files, FiniteSubsetsOf, File
<1>9. MakesTables([next |-> next, left |-> {}, made |-> last.made], start)
    BY <1>4, <1>5, <1>6, <1>8 DEF MakesTables, Accumulator
<1> QED BY <1>7, <1>9 DEF done

\* f holds what the logs with numbers below n make.
Recovers(old, acc, n, f) ==
    f = [m \in 0 .. n |-> IF m = 0 THEN acc ELSE RecoverNext(old, f[m - 1], m - 1)]

LEMMA RecoversExist ==
    ASSUME NEW old, NEW acc, NEW n \in Nat
    PROVE  \E f : Recovers(old, acc, n, f)
<1> DEFINE Wrong == {k \in Nat : ~\E f : Recovers(old, acc, k, f)}
<1>1. SUFFICES ASSUME Wrong # {} PROVE FALSE
    OBVIOUS
<1>2. PICK k \in Wrong : \A m \in Wrong : k <= m
    <2>1. Wrong \subseteq Nat
        OBVIOUS
    <2> HIDE DEF Wrong
    <2> QED BY <2>1, <1>1, SmallestNumber
<1>3. CASE k = 0
    <2> DEFINE f == [m \in 0 .. 0 |-> acc]
    <2>1. Recovers(old, acc, 0, f)
        BY DEF Recovers
    <2> HIDE DEF f
    <2> QED BY <2>1, <1>2, <1>3
<1>4. CASE k # 0
    <2>1. k - 1 \in Nat /\ ~(k <= k - 1)
        BY <1>2, <1>4
    <2>2. PICK f : Recovers(old, acc, k - 1, f)
        BY <2>1, <1>2
    <2> DEFINE g == [m \in 0 .. k |-> IF m = k THEN RecoverNext(old, f[k - 1], k - 1) ELSE f[m]]
    <2>3. \A m \in 0 .. k - 1 : g[m] = f[m] /\ f[m] = IF m = 0 THEN acc ELSE RecoverNext(old, f[m - 1], m - 1)
        BY <2>1, <2>2 DEF Recovers
    <2>4. \A m \in 0 .. k : g[m] = IF m = 0 THEN acc ELSE RecoverNext(old, g[m - 1], m - 1)
        <3> TAKE m \in 0 .. k
        <3>1. CASE m = k
            <4>1. m # 0 => k - 1 \in 0 .. k - 1
                BY <3>1, <1>2, <2>1
            <4> QED BY <3>1, <4>1, <2>3, <1>4
        <3>2. CASE m # k
            <4>1. m \in 0 .. k - 1 /\ (m # 0 => m - 1 \in 0 .. k - 1)
                BY <3>2, <1>2
            <4> QED BY <4>1, <2>3
        <3> QED BY <3>1, <3>2
    <2>5. Recovers(old, acc, k, g)
        <3>1. g = [m \in 0 .. k |-> g[m]]
            OBVIOUS
        <3> HIDE DEF g
        <3> QED BY <3>1, <2>4 DEF Recovers
    <2> HIDE DEF g
    <2> QED BY <2>5, <1>2
<1> QED BY <1>3, <1>4

LEMMA RecoverLogsKeeps ==
    ASSUME DiskTyped, NEW acc, NEW start \in Nat, MakesTables(acc, start), acc.left = {},
           NEW old, old \subseteq DOMAIN logs
    PROVE  MakesTables(RecoverLogs(old, acc), start)
<1> DEFINE last == Greatest(old \cup {0})
           upTo[n \in 0 .. last + 1] == IF n = 0 THEN acc ELSE RecoverNext(old, upTo[n - 1], n - 1)
           n == last + 1
<1>1. n \in Nat
    <2>1. IsFiniteSet(old) /\ old \subseteq Nat
        BY FS_Subset DEF DiskTyped
    <2>2. IsFiniteSet(old \cup {0}) /\ old \cup {0} \subseteq Int /\ old \cup {0} \subseteq Nat
        BY <2>1, FS_AddElement
    <2>3. last \in old \cup {0}
        BY <2>2, GreatestIs
    <2> QED BY <2>2, <2>3
<1>2. PICK f : Recovers(old, acc, n, f)
    BY <1>1, RecoversExist
<1>3. Recovers(old, acc, n, upTo)
    BY <1>2 DEF Recovers
<1>4. RecoverLogs(old, acc) = upTo[n]
    BY DEF RecoverLogs
<1> HIDE DEF upTo, n
<1> DEFINE Wrong == {m \in 0 .. n : ~MakesTables(upTo[m], start)}
<1>5. Wrong = {}
    <2>1. SUFFICES ASSUME Wrong # {} PROVE FALSE
        OBVIOUS
    <2>2. PICK k \in Wrong : \A m \in Wrong : k <= m
        <3>1. Wrong \subseteq Nat
            OBVIOUS
        <3> HIDE DEF Wrong
        <3> QED BY <3>1, <2>1, SmallestNumber
    <2>3. CASE k = 0
        <3>1. upTo[k] = acc
            BY <1>1, <1>3, <2>3 DEF Recovers
        <3> QED BY <3>1, <2>2
    <2>4. CASE k # 0
        <3>1. k - 1 \in 0 .. n /\ ~(k <= k - 1)
            BY <2>2, <2>4, <1>1
        <3>2. MakesTables(upTo[k - 1], start)
            BY <3>1, <2>2
        <3>3. upTo[k] = RecoverNext(old, upTo[k - 1], k - 1)
            BY <1>1, <1>3, <2>2, <2>4 DEF Recovers
        <3>4. MakesTables(RecoverNext(old, upTo[k - 1], k - 1), start)
            <4>1. CASE k - 1 \in old
                <5>1. k - 1 \in DOMAIN logs
                    BY <4>1
                <5>2. MakesTables(RecoverLogFile(upTo[k - 1], k - 1), start)
                    BY <5>1, <3>2, RecoverLogFileKeeps
                <5> QED BY <4>1, <5>2 DEF RecoverNext
            <4>2. CASE k - 1 \notin old
                BY <3>2, <4>2 DEF RecoverNext
            <4> QED BY <4>1, <4>2
        <3> QED BY <3>3, <3>4, <2>2
    <2> QED BY <2>3, <2>4
<1>6. n \in 0 .. n
    BY <1>1
<1> QED BY <1>4, <1>5, <1>6

-----------------------------------------------------------------------------
(* The entries of a group. *)

\* f holds the concatenations of the first n sequences.
Flattens(seqs, n, f) ==
    f = [m \in 1 .. n |-> IF m = 1 THEN seqs[1] ELSE f[m - 1] \o seqs[m]]

LEMMA FlattensExist ==
    ASSUME NEW seqs, NEW n \in Nat
    PROVE  \E f : Flattens(seqs, n, f)
<1> DEFINE Wrong == {k \in Nat : ~\E f : Flattens(seqs, k, f)}
<1>1. SUFFICES ASSUME Wrong # {} PROVE FALSE
    OBVIOUS
<1>2. PICK k \in Wrong : \A m \in Wrong : k <= m
    <2>1. Wrong \subseteq Nat
        OBVIOUS
    <2> HIDE DEF Wrong
    <2> QED BY <2>1, <1>1, SmallestNumber
<1>3. CASE k = 0
    <2> DEFINE f == [m \in 1 .. 0 |-> seqs[m]]
    <2>1. Flattens(seqs, 0, f)
        BY DEF Flattens
    <2> HIDE DEF f
    <2> QED BY <2>1, <1>2, <1>3
<1>4. CASE k # 0
    <2>1. k - 1 \in Nat /\ ~(k <= k - 1)
        BY <1>2, <1>4
    <2>2. PICK f : Flattens(seqs, k - 1, f)
        BY <2>1, <1>2
    <2> DEFINE g == [m \in 1 .. k |-> IF m = k THEN IF k = 1 THEN seqs[1] ELSE f[k - 1] \o seqs[k] ELSE f[m]]
    <2>3. \A m \in 1 .. k - 1 : g[m] = f[m] /\ f[m] = IF m = 1 THEN seqs[1] ELSE f[m - 1] \o seqs[m]
        <3>1. \A m \in 1 .. k - 1 : f[m] = IF m = 1 THEN seqs[1] ELSE f[m - 1] \o seqs[m]
            BY <2>2 DEF Flattens
        <3>2. \A m \in 1 .. k - 1 : m # k /\ m \in 1 .. k
            BY <1>2
        <3>3. \A m \in 1 .. k - 1 : g[m] = f[m]
            BY <3>2
        <3> QED BY <3>1, <3>3
    <2>4. \A m \in 1 .. k : g[m] = IF m = 1 THEN seqs[1] ELSE g[m - 1] \o seqs[m]
        <3> TAKE m \in 1 .. k
        <3>1. CASE m = k
            <4>1. m # 1 => k - 1 \in 1 .. k - 1
                BY <3>1, <1>2, <2>1
            <4> QED BY <3>1, <4>1, <2>3, <1>4
        <3>2. CASE m # k
            <4>1. m \in 1 .. k - 1 /\ (m # 1 => m - 1 \in 1 .. k - 1)
                BY <3>2, <1>2
            <4> QED BY <4>1, <2>3
        <3> QED BY <3>1, <3>2
    <2>5. Flattens(seqs, k, g)
        <3>1. g = [m \in 1 .. k |-> g[m]]
            OBVIOUS
        <3> HIDE DEF g
        <3> QED BY <3>1, <2>4 DEF Flattens
    <2> HIDE DEF g
    <2> QED BY <2>5, <1>2
<1> QED BY <1>3, <1>4

LEMMA FlattenTyped ==
    ASSUME NEW S, NEW seqs \in Seq(Seq(S))
    PROVE  FlattenSeq(seqs) \in Seq(S)
<1> DEFINE n == Len(seqs)
           flatten[i \in 1 .. Len(seqs)] == IF i = 1 THEN seqs[i] ELSE flatten[i - 1] \o seqs[i]
<1>1. n \in Nat
    OBVIOUS
<1>2. CASE n = 0
    <2>1. seqs = <<>> /\ FlattenSeq(seqs) = seqs
        BY <1>2 DEF FlattenSeq
    <2> QED BY <2>1, EmptySeq
<1>3. CASE n # 0
    <2>1. PICK f : Flattens(seqs, n, f)
        BY <1>1, FlattensExist
    <2>2. Flattens(seqs, n, flatten)
        BY <2>1 DEF Flattens
    <2>3. FlattenSeq(seqs) = flatten[n]
        BY <1>3 DEF FlattenSeq
    <2> HIDE DEF flatten, n
    <2> DEFINE Wrong == {m \in 1 .. n : flatten[m] \notin Seq(S)}
    <2>4. Wrong = {}
        <3>1. SUFFICES ASSUME Wrong # {} PROVE FALSE
            OBVIOUS
        <3>2. PICK k \in Wrong : \A m \in Wrong : k <= m
            <4>1. Wrong \subseteq Nat
                OBVIOUS
            <4> HIDE DEF Wrong
            <4> QED BY <4>1, <3>1, SmallestNumber
        <3>3. seqs[k] \in Seq(S)
            BY <3>2 DEF n
        <3>4. CASE k = 1
            <4>1. flatten[k] = seqs[k]
                BY <2>2, <3>2, <3>4 DEF Flattens
            <4> QED BY <4>1, <3>2, <3>3
        <3>5. CASE k # 1
            <4>1. k - 1 \in 1 .. n /\ ~(k <= k - 1)
                BY <3>2, <3>5, <1>1
            <4>2. flatten[k - 1] \in Seq(S)
                BY <4>1, <3>2
            <4>3. flatten[k] = flatten[k - 1] \o seqs[k]
                BY <2>2, <3>2, <3>5 DEF Flattens
            <4>4. flatten[k - 1] \o seqs[k] \in Seq(S)
                BY <4>2, <3>3, ConcatProperties
            <4> QED BY <4>3, <4>4, <3>2
        <3> QED BY <3>4, <3>5
    <2>5. n \in 1 .. n
        BY <1>1, <1>3
    <2> QED BY <2>3, <2>4, <2>5
<1> QED BY <1>2, <1>3

Numbered == [key : Keys, kind : {"value", "deletion"}, id : Nat]

LEMMA GroupUpdatesTyped ==
    ASSUME queue \in Seq(Request), NEW n \in 0 .. Len(queue)
    PROVE  GroupUpdates(n) \in Seq(Numbered)
<1> DEFINE Of(i) == [j \in DOMAIN queue[i].updates |->
        [key |-> queue[i].updates[j].key, kind |-> queue[i].updates[j].kind, id |-> queue[i].id]]
           all == [i \in 1 .. n |-> Of(i)]
<1>1. \A i \in 1 .. n : Of(i) \in Seq(Numbered)
    <2> TAKE i \in 1 .. n
    <2>1. queue[i] \in Request
        <3>1. i \in 1 .. Len(queue)
            OBVIOUS
        <3> QED BY <3>1, ElementOfSeq
    <2> DEFINE us == queue[i].updates
               m  == Len(us)
    <2>2. us \in Seq(Update) /\ queue[i].id \in Nat /\ m \in Nat /\ DOMAIN us = 1 .. m
        BY <2>1 DEF Request
    <2>3. \A j \in 1 .. m : us[j].key \in Keys /\ us[j].kind \in {"value", "deletion"}
        <3> TAKE j \in 1 .. m
        <3>1. us[j] \in Update
            BY <2>2
        <3> QED BY <3>1 DEF Update
    <2>4. Of(i) = [j \in 1 .. m |-> [key |-> us[j].key, kind |-> us[j].kind, id |-> queue[i].id]]
        BY <2>2
    <2> HIDE DEF us, m
    <2>5. [j \in 1 .. m |-> [key |-> us[j].key, kind |-> us[j].kind, id |-> queue[i].id]]
              \in [1 .. m -> Numbered]
        BY <2>2, <2>3 DEF Numbered
    <2> HIDE DEF Of
    <2>6. Of(i) \in [1 .. m -> Numbered]
        BY <2>4, <2>5
    <2> QED BY <2>2, <2>6, SeqDef
<1> HIDE DEF Of
<1>2. all \in [1 .. n -> Seq(Numbered)]
    BY <1>1
<1>3. n \in Nat
    OBVIOUS
<1>4. all \in Seq(Seq(Numbered))
    <2> HIDE DEF all
    <2> QED BY <1>2, <1>3, SeqDef
<1>5. GroupUpdates(n) = FlattenSeq(all)
    BY DEF GroupUpdates, Of
<1> HIDE DEF all
<1> QED BY <1>4, <1>5, FlattenTyped

LEMMA GroupEntriesTyped ==
    ASSUME queue \in Seq(Request), lastSeq \in Nat, NEW n \in 0 .. Len(queue)
    PROVE  GroupEntries(n) \in Entries /\ Len(GroupUpdates(n)) \in Nat
<1> DEFINE updates == GroupUpdates(n)
           m == Len(updates)
           entry == [i \in 1 .. m |-> [key |-> updates[i].key, seq |-> lastSeq + i,
                                       kind |-> updates[i].kind, id |-> updates[i].id]]
<1>1. updates \in Seq(Numbered)
    BY GroupUpdatesTyped
<1> HIDE DEF updates
<1>2. m \in Nat /\ DOMAIN updates = 1 .. m
    BY <1>1
<1>3. \A i \in 1 .. m : entry[i] \in Entry
    <2> TAKE i \in 1 .. m
    <2>1. updates[i] \in Numbered
        BY <1>1
    <2>2. lastSeq + i \in Nat
        BY <1>2
    <2> QED BY <2>1, <2>2 DEF Numbered, Entry
<1>4. IsFiniteSet({entry[i] : i \in 1 .. m})
    <2>1. IsFiniteSet(1 .. m) /\ DOMAIN entry = 1 .. m
        BY <1>2, FS_Interval
    <2> HIDE DEF entry, m
    <2> QED BY <2>1, ImageIsFinite
<1>5. GroupEntries(n) = {entry[i] : i \in 1 .. m}
    BY <1>2 DEF GroupEntries, updates
<1> HIDE DEF entry, m
<1>6. GroupEntries(n) \subseteq Entry
    BY <1>3, <1>5
<1> QED BY <1>2, <1>4, <1>5, <1>6 DEF Entries, FiniteSubsetsOf, m, updates

-----------------------------------------------------------------------------
(* A part of the invariant holds on while its variables stay. *)

LEMMA PartsStay ==
    /\ DiskTyped /\ UNCHANGED disk => DiskTyped'
    /\ ObjectTyped /\ UNCHANGED <<status, memtables, lastSeq, files, bgError, bg, iterators>> => ObjectTyped'
    /\ WritersTyped /\ UNCHANGED <<writing, budget>> => WritersTyped'
    /\ Quiet /\ UNCHANGED <<status, queue, imm, bgError, seek, bg, iterators>> => Quiet'
    /\ FrontWorks /\ UNCHANGED <<writing, imm, version, bgError>> => FrontWorks'
    /\ Scheduled /\ UNCHANGED <<status, imm, version, seek, bgError, bg>> => Scheduled'
    /\ SeekTyped /\ UNCHANGED <<seek, version>> => SeekTyped'
    /\ MemTables /\ UNCHANGED <<status, mem, imm, DOMAIN memtables, DOMAIN logs, nextFile, logNumber, bg>>
         => MemTables'
    /\ OneFilePerNumber /\ UNCHANGED tables => OneFilePerNumber'
    /\ DescriptorSafe /\ UNCHANGED <<tables, descriptors, current>> => DescriptorSafe'
    /\ OpeningSafe /\ UNCHANGED <<tables, descriptors, current, status, version, pointers, nextFile, manifest, bg>>
         => OpeningSafe'
    /\ OpenSafe /\ UNCHANGED <<tables, status, version, nextFile, iterators, bg>> => OpenSafe'
    /\ DescriptorFollows /\ UNCHANGED <<status, descriptors, current, manifest, nextFile, version, bgError, bg>>
         => DescriptorFollows'
<1>1. DiskTyped /\ UNCHANGED disk => DiskTyped'
    BY DEF DiskTyped, disk
<1>2. ObjectTyped /\ UNCHANGED <<status, memtables, lastSeq, files, bgError, bg, iterators>> => ObjectTyped'
    BY DEF ObjectTyped, files
<1>3. WritersTyped /\ UNCHANGED <<writing, budget>> => WritersTyped'
    BY DEF WritersTyped, BudgetTyped, writing
<1>4. Quiet /\ UNCHANGED <<status, queue, imm, bgError, seek, bg, iterators>> => Quiet'
    BY DEF Quiet
<1>5. FrontWorks /\ UNCHANGED <<writing, imm, version, bgError>> => FrontWorks'
    BY DEF FrontWorks, MustWait, writing
<1>6. Scheduled /\ UNCHANGED <<status, imm, version, seek, bgError, bg>> => Scheduled'
    BY DEF Scheduled, WorkToDo
<1>7. SeekTyped /\ UNCHANGED <<seek, version>> => SeekTyped'
    BY DEF SeekTyped
<1>8. MemTables /\ UNCHANGED <<status, mem, imm, DOMAIN memtables, DOMAIN logs, nextFile, logNumber, bg>>
         => MemTables'
    BY DEF MemTables
<1>9. OneFilePerNumber /\ UNCHANGED tables => OneFilePerNumber'
    BY DEF OneFilePerNumber
<1>10. DescriptorSafe /\ UNCHANGED <<tables, descriptors, current>> => DescriptorSafe'
    BY DEF DescriptorSafe, Safe
<1>11. OpeningSafe /\ UNCHANGED <<tables, descriptors, current, status, version, pointers, nextFile, manifest, bg>>
         => OpeningSafe'
    BY DEF OpeningSafe, Safe
<1>12. OpenSafe /\ UNCHANGED <<tables, status, version, nextFile, iterators, bg>> => OpenSafe'
    BY DEF OpenSafe, Safe, HeldVersions, MergeInput, OpenIterators
<1>13. DescriptorFollows /\ UNCHANGED <<status, descriptors, current, manifest, nextFile, version, bgError, bg>>
         => DescriptorFollows'
    BY DEF DescriptorFollows, Saved
<1> QED BY <1>1, <1>2, <1>3, <1>4, <1>5, <1>6, <1>7, <1>8, <1>9, <1>10, <1>11, <1>12, <1>13

-----------------------------------------------------------------------------
(* What the bounds of a behaviour allow. *)

LEMMA BudgetStays ==
    ASSUME BudgetTyped
    PROVE  /\ budget.writes > 0 /\ Spend("writes") => BudgetTyped'
           /\ budget.crashes > 0 /\ Spend("crashes") => BudgetTyped'
           /\ budget.seeks > 0 /\ Spend("seeks") => BudgetTyped'
           /\ budget.snapshots > 0 /\ Spend("snapshots") => BudgetTyped'
           /\ budget.views > 0 /\ Spend("views") => BudgetTyped'
           /\ \A what : Fails(what) => BudgetTyped'
           /\ UNCHANGED budget => BudgetTyped'
<1>1. PICK b \in Budgets : budget \in [menu : {b.menu}, callers : Nat, writes : Nat, crashes : Nat,
             faults : SUBSET STRING, seeks : Nat, snapshots : Nat, views : Nat]
    BY DEF BudgetTyped
<1>2. budget.writes > 0 /\ Spend("writes") => BudgetTyped'
    BY <1>1 DEF BudgetTyped, Spend
<1>3. budget.crashes > 0 /\ Spend("crashes") => BudgetTyped'
    BY <1>1 DEF BudgetTyped, Spend
<1>4. budget.seeks > 0 /\ Spend("seeks") => BudgetTyped'
    BY <1>1 DEF BudgetTyped, Spend
<1>5. budget.snapshots > 0 /\ Spend("snapshots") => BudgetTyped'
    BY <1>1 DEF BudgetTyped, Spend
<1>6. budget.views > 0 /\ Spend("views") => BudgetTyped'
    BY <1>1 DEF BudgetTyped, Spend
<1>7. \A what : Fails(what) => BudgetTyped'
    BY <1>1 DEF BudgetTyped, Fails
<1>8. UNCHANGED budget => BudgetTyped'
    BY <1>1 DEF BudgetTyped
<1> QED BY <1>2, <1>3, <1>4, <1>5, <1>6, <1>7, <1>8

LEMMA RequestsTyped ==
    ASSUME BudgetTyped
    PROVE  \A request \in budget.menu : request[1] \in Seq(Update) /\ request[2] \in BOOLEAN
<1>1. PICK b \in Budgets : budget.menu = b.menu
    BY DEF BudgetTyped
<1>2. b.menu \subseteq Seq(Update) \X BOOLEAN
    BY DBAssumption DEF Update
<1>3. SUFFICES ASSUME NEW request \in budget.menu
               PROVE  request[1] \in Seq(Update) /\ request[2] \in BOOLEAN
    OBVIOUS
<1>4. request \in Seq(Update) \X BOOLEAN
    BY <1>1, <1>2
<1> QED BY <1>4

-----------------------------------------------------------------------------
(* The opening state. *)

LEMMA IdleTyped ==
    /\ Idle \in Thread
    /\ EmptyVersion \in Version /\ FilesOf(EmptyVersion) = {}
    /\ [level \in Levels |-> -1] \in [Levels -> Pointer]
    /\ NewDB \in State
<1>1. {} \in Files /\ {} \in Entries
    BY FS_EmptySet DEF Files, Entries, FiniteSubsetsOf
<1>2. NoEdit \in Edit
    BY FS_EmptySet DEF NoEdit, Edit, FiniteSubsetsOf
<1>3. Idle \in Thread
    BY <1>1, <1>2 DEF Idle, Thread
<1>4. EmptyVersion \in Version /\ FilesOf(EmptyVersion) = {}
    BY <1>1 DEF EmptyVersion, Version, FilesOf
<1>5. [level \in Levels |-> -1] \in [Levels -> Pointer]
    BY DEF Pointer
<1>6. NewDB \in State
    BY <1>4, <1>5 DEF NewDB, State
<1> QED BY <1>3, <1>4, <1>5, <1>6

\* A closed object, and the parts that it fulfils by being closed.
ClosedObject ==
    /\ status = "closed" /\ memtables = <<>> /\ mem = Nil /\ imm = Nil
    /\ lastSeq = 0 /\ nextFile = 2 /\ logNumber = 0 /\ manifest = 0
    /\ version = EmptyVersion /\ pointers = [level \in Levels |-> -1]
    /\ seek = {} /\ bgError = FALSE /\ queue = <<>> /\ front = "none" /\ group = 0
    /\ bg = Idle /\ iterators = [r \in Readers |-> Nil]
    /\ BudgetTyped

ClosedInv ==
    /\ ObjectTyped /\ WritersTyped /\ Quiet /\ FrontWorks /\ Scheduled /\ SeekTyped
    /\ MemTables /\ OpeningSafe /\ OpenSafe /\ DescriptorFollows

LEMMA ClosedParts == ClosedObject => ClosedInv
<1> SUFFICES ASSUME ClosedObject PROVE ClosedInv
    OBVIOUS
<1> USE DEF ClosedObject
<1>1. ObjectTyped
    <2>1. memtables \in [DOMAIN memtables -> Entries]
        <3>1. DOMAIN memtables = {} /\ memtables = [x \in {} |-> {}]
            OBVIOUS
        <3> QED BY <3>1
    <2>2. iterators \in [Readers -> Iterator \cup {Nil}]
        OBVIOUS
    <2>3. Idle.pc = "idle"
        BY DEF Idle
    <2> QED BY <2>1, <2>2, <2>3, IdleTyped DEF ObjectTyped
<1>2. WritersTyped
    BY EmptySeq DEF WritersTyped, Fronts
<1>3. Quiet
    BY DEF Quiet, Idle
<1>4. FrontWorks
    BY DEF FrontWorks
<1>5. Scheduled
    BY DEF Scheduled, Idle
<1>6. SeekTyped
    BY DEF SeekTyped
<1>7. MemTables
    BY DEF MemTables, Idle
<1>8. OpeningSafe /\ OpenSafe /\ DescriptorFollows
    BY DEF OpeningSafe, OpenSafe, DescriptorFollows
<1> QED BY <1>1, <1>2, <1>3, <1>4, <1>5, <1>6, <1>7, <1>8 DEF ClosedInv

LEMMA ClosedPartsLater == ClosedObject' => ClosedInv'
BY ClosedParts, PTL

LEMMA InvStarts == Init => DBInv
<1> SUFFICES ASSUME Init PROVE DBInv
    OBVIOUS
<1>1. BudgetTyped
    <2>1. budget \in Budgets
        BY DEF Init
    <2>2. budget \in [menu : {budget.menu}, callers : Nat, writes : Nat, crashes : Nat,
             faults : SUBSET STRING, seeks : Nat, snapshots : Nat, views : Nat]
        BY <2>1, DBAssumption
    <2> QED BY <2>1, <2>2 DEF BudgetTyped
<1>2. ClosedInv
    BY <1>1, ClosedParts DEF Init, ClosedObject
<1>3. logs = <<>> /\ tables = {} /\ current = 1
      /\ descriptors = [n \in {1} |-> [base |-> NewDB, edits |-> <<>>, synced |-> 0]]
    BY DEF Init
<1>4. DiskTyped
    <2>1. DOMAIN logs = {} /\ IsFiniteSet(DOMAIN logs) /\ logs \in [DOMAIN logs -> Log]
        <3>1. DOMAIN logs = {} /\ logs = [x \in {} |-> {}]
            BY <1>3
        <3> QED BY <3>1, FS_EmptySet
    <2>2. [base |-> NewDB, edits |-> <<>>, synced |-> 0] \in Descriptor
        BY IdleTyped, EmptySeq DEF Descriptor
    <2>3. descriptors \in [DOMAIN descriptors -> Descriptor] /\ DOMAIN descriptors = {1}
        BY <1>3, <2>2
    <2>4. \A n \in DOMAIN descriptors : descriptors[n].synced <= Len(descriptors[n].edits)
        BY <1>3, EmptySeq
    <2> QED BY <2>1, <2>3, <2>4, <1>3 DEF DiskTyped
<1>5. OneFilePerNumber
    BY <1>3 DEF OneFilePerNumber
<1>6. DescriptorSafe
    <2> DEFINE d == descriptors[current]
    <2>1. d.base = NewDB /\ d.synced = 0 /\ Len(d.edits) = 0
        BY <1>3, EmptySeq
    <2>2. Replay(d, 0) = NewDB
        BY <2>1, ReplayStarts
    <2>3. \A n \in d.synced .. Len(d.edits) : n = 0
        BY <2>1
    <2>4. Safe(FilesOf(NewDB.version), NewDB.next) /\ current < NewDB.next /\ NewDB.next <= NewDB.next
        BY <1>3, IdleTyped DEF Safe, NewDB
    <2> HIDE DEF d
    <2>5. \A n \in d.synced .. Len(d.edits) :
              /\ Safe(FilesOf(Replay(d, n).version), Replay(d, n).next)
              /\ current < Replay(d, n).next
              /\ \A m \in d.synced .. n : Replay(d, m).next <= Replay(d, n).next
        <3> TAKE n \in d.synced .. Len(d.edits)
        <3>1. n = 0 /\ \A m \in d.synced .. n : m = 0
            BY <2>1, <2>3
        <3> QED BY <3>1, <2>2, <2>4
    <2> QED BY <2>5 DEF DescriptorSafe, d
<1> QED BY <1>2, <1>4, <1>5, <1>6 DEF DBInv, ClosedInv

-----------------------------------------------------------------------------
(* The writers. *)

LEMMA AnswerTyped ==
    ASSUME WritersTyped, NEW n \in 1 .. Len(queue), Answer(n)
    PROVE  /\ queue' \in Seq(Request) /\ group' = 0 /\ group' \in 0 .. Len(queue')
           /\ front' \in {"none", "room"}
           /\ queue' = <<>> <=> front' = "none"
<1>1. queue \in Seq(Request) /\ Len(queue) \in Nat /\ queue' = SubSeq(queue, n + 1, Len(queue))
      /\ front' = (IF n = Len(queue) THEN "none" ELSE "room") /\ group' = 0
    BY DEF WritersTyped, Answer
<1>2. \A i \in n + 1 .. Len(queue) : queue[i] \in Request
    <2> TAKE i \in n + 1 .. Len(queue)
    <2>1. i \in 1 .. Len(queue)
        BY <1>1
    <2> QED BY <1>1, <2>1, ElementOfSeq
<1>3. queue' \in Seq(Request) /\ Len(queue') = IF n + 1 <= Len(queue) THEN Len(queue) - (n + 1) + 1 ELSE 0
    BY <1>1, <1>2, SubSeqProperties
<1>4. queue' = <<>> <=> n = Len(queue)
    <2>1. CASE n = Len(queue)
        <3>1. Len(queue') = 0
            BY <1>1, <1>3, <2>1
        <3> QED BY <3>1, <1>3, <2>1, EmptySeq
    <2>2. CASE n # Len(queue)
        <3>1. Len(queue') # 0
            BY <1>1, <1>3, <2>2
        <3> QED BY <3>1, <2>2, EmptySeq
    <2> QED BY <2>1, <2>2
<1>5. Len(queue') \in Nat
    BY <1>3
<1> QED BY <1>1, <1>3, <1>4, <1>5

LEMMA WriteKeeps ==
    ASSUME DBInv, NEW request \in budget.menu, Write(request[1], request[2])
    PROVE  DBInv'
<1> USE DEF DBInv
<1>1. /\ status = "open" /\ budget.writes > 0 /\ Spend("writes")
      /\ queue' = Append(queue, [id |-> budget.writes, updates |-> request[1], sync |-> request[2]])
      /\ front' = (IF queue = <<>> THEN "room" ELSE front)
      /\ UNCHANGED <<disk, files, memory, reading, history, status, lastSeq, seek, bgError, bg, group>>
    BY DEF Write
<1>2. BudgetTyped /\ BudgetTyped'
    BY <1>1, BudgetStays DEF WritersTyped
<1>3. [id |-> budget.writes, updates |-> request[1], sync |-> request[2]] \in Request
    <2>1. budget.writes \in Nat
        BY <1>2 DEF BudgetTyped
    <2> QED BY <1>2, <2>1, RequestsTyped DEF Request
<1>4. queue \in Seq(Request) /\ queue' \in Seq(Request) /\ Len(queue') = Len(queue) + 1 /\ Len(queue) \in Nat
    BY <1>1, <1>3 DEF WritersTyped
<1>5. queue' # <<>>
    BY <1>4, EmptySeq
<1>6. WritersTyped'
    BY <1>1, <1>2, <1>4 DEF WritersTyped, Fronts
<1>7. FrontWorks'
    BY <1>1, <1>5 DEF FrontWorks, MustWait, files, memory
<1>8. Quiet'
    BY <1>1 DEF Quiet
<1> QED BY <1>1, <1>6, <1>7, <1>8, PartsStay DEF disk, files, memory, reading

LEMMA WaitForRoomKeeps ==
    ASSUME DBInv, WaitForRoom
    PROVE  DBInv'
<1> USE DEF DBInv
<1>1. /\ front = "room" /\ ~bgError /\ MustWait /\ front' = "waiting"
      /\ UNCHANGED <<disk, files, memory, reading, history, status, lastSeq, seek, bgError, bg, queue, group, budget>>
    BY DEF WaitForRoom
<1>2. WritersTyped'
    BY <1>1 DEF WritersTyped, BudgetTyped, Fronts
<1>3. FrontWorks'
    BY <1>1 DEF FrontWorks, MustWait, files, memory
<1> QED BY <1>1, <1>2, <1>3, PartsStay DEF disk, files, memory, reading

LEMMA RefuseWriteKeeps ==
    ASSUME DBInv, RefuseWrite
    PROVE  DBInv'
<1> USE DEF DBInv
<1>1. /\ front = "room" /\ Answer(1)
      /\ UNCHANGED <<disk, files, memory, reading, history, status, lastSeq, seek, bgError, bg>>
    BY DEF RefuseWrite
<1>2. 1 \in 1 .. Len(queue)
    BY <1>1, EmptySeq DEF FrontWorks, WritersTyped
<1>3. BudgetTyped'
    BY BudgetStays DEF RefuseWrite, WritersTyped
<1>4. WritersTyped'
    BY <1>1, <1>2, <1>3, AnswerTyped DEF WritersTyped, Fronts
<1>5. FrontWorks'
    BY <1>1, <1>2, AnswerTyped DEF FrontWorks
<1>6. Quiet'
    BY <1>1, <1>2, EmptySeq DEF Quiet
<1> QED BY <1>1, <1>4, <1>5, <1>6, PartsStay DEF disk, files, memory, reading

LEMMA InsertIntoKeeps ==
    ASSUME DBInv, InsertInto
    PROVE  DBInv'
<1> USE DEF DBInv
<1>1. /\ front = "insert" /\ front' = "publish"
      /\ memtables' = [memtables EXCEPT ![mem] = @ \cup GroupEntries(group)]
      /\ UNCHANGED <<disk, files, mem, imm, reading, history, status, lastSeq, seek, bgError, bg, queue, group, budget>>
    BY DEF InsertInto
<1>2. WritersTyped'
    BY <1>1 DEF WritersTyped, BudgetTyped, Fronts
<1>3. FrontWorks'
    BY <1>1 DEF FrontWorks, files
<1>4. GroupEntries(group) \in Entries
    BY GroupEntriesTyped DEF WritersTyped, ObjectTyped
<1>5. memtables' \in [DOMAIN memtables' -> Entries] /\ DOMAIN memtables' = DOMAIN memtables
    <2>1. \A e \in Entries : e \cup GroupEntries(group) \in Entries
        BY <1>4, FS_Union DEF Entries, FiniteSubsetsOf
    <2> QED BY <1>1, <2>1 DEF ObjectTyped
<1>6. ObjectTyped'
    BY <1>1, <1>5 DEF ObjectTyped, files, reading
<1> QED BY <1>1, <1>2, <1>3, <1>5, <1>6, PartsStay DEF disk, files, memory, reading

LEMMA ScheduleTyped ==
    ASSUME NEW b \in Thread, NEW err, NEW im, NEW v, NEW s
    PROVE  LET n == MaybeSchedule(b, err, im, v, s)
           IN /\ n \in Thread
              /\ n.c = b.c /\ n.input = b.input /\ n.outputs = b.outputs /\ n.edit = b.edit
              /\ b.pc # "idle" => n.pc = b.pc
              /\ b.pc = "idle" => n.pc \in {"idle", "start"}
              /\ b.pc = "idle" => (n.pc = "start" <=> ~err /\ (im # Nil \/ NeedsCompaction(v, s)))
<1> DEFINE n == MaybeSchedule(b, err, im, v, s)
<1>1. CASE b.pc = "idle" /\ ~err /\ (im # Nil \/ NeedsCompaction(v, s))
    <2>1. n = [b EXCEPT !.pc = "start"]
        BY <1>1 DEF MaybeSchedule
    <2> HIDE DEF n
    <2>2. n \in Thread
        BY <2>1 DEF Thread
    <2>3. n.c = b.c /\ n.input = b.input /\ n.outputs = b.outputs /\ n.edit = b.edit /\ n.pc = "start"
        BY <2>1 DEF Thread
    <2> QED BY <1>1, <2>2, <2>3 DEF n
<1>2. CASE ~(b.pc = "idle" /\ ~err /\ (im # Nil \/ NeedsCompaction(v, s)))
    <2>1. n = b
        BY <1>2 DEF MaybeSchedule
    <2> HIDE DEF n
    <2>2. b.pc = "idle" => ~(~err /\ (im # Nil \/ NeedsCompaction(v, s)))
        BY <1>2
    <2>3. b.pc = "idle" => n.pc # "start"
        BY <2>1
    <2> QED BY <2>1, <2>2, <2>3 DEF n
<1> QED BY <1>1, <1>2

LEMMA SafeLater ==
    ASSUME DiskTyped, NEW some, NEW a \in Nat, NEW b \in Nat, a <= b, Safe(some, a)
    PROVE  Safe(some, b)
<1> SUFFICES ASSUME NEW f \in some PROVE f.number < b
    BY DEF Safe
<1>1. f \in tables /\ f.number < a
    BY DEF Safe
<1>2. f.number \in Nat
    BY <1>1 DEF DiskTyped, File
<1> QED BY <1>1, <1>2

\* Numbers may be given out while the store is open.
LEMMA OpenSafeLater ==
    ASSUME DiskTyped, nextFile \in Nat, nextFile' \in Nat, nextFile <= nextFile',
           bg \in Thread, OpenSafe, status = "open",
           UNCHANGED <<tables, status, version, iterators>>,
           MergeInput(bg') \subseteq MergeInput(bg), bg'.outputs \subseteq bg.outputs,
           bg'.pc \in {"edit", "sync"} => bg.pc \in {"edit", "sync"} /\ bg'.edit = bg.edit
    PROVE  OpenSafe'
<1>1. /\ Safe(FilesOf(version), nextFile)
      /\ \A v \in HeldVersions \cup MergeInput(bg) : Safe(FilesOf(v), nextFile)
      /\ Safe(bg.outputs, nextFile)
    BY DEF OpenSafe
<1>2. /\ Safe(FilesOf(version), nextFile')
      /\ \A v \in HeldVersions \cup MergeInput(bg) : Safe(FilesOf(v), nextFile')
      /\ Safe(bg.outputs, nextFile')
    BY <1>1, SafeLater
<1>3. bg'.pc \in {"edit", "sync"} => Safe(Added(bg'.edit), bg'.edit.next) /\ bg'.edit.next <= nextFile'
    <2>1. SUFFICES ASSUME bg'.pc \in {"edit", "sync"}
                   PROVE  Safe(Added(bg.edit), bg.edit.next) /\ bg.edit.next <= nextFile'
        OBVIOUS
    <2>2. Safe(Added(bg.edit), bg.edit.next) /\ bg.edit.next <= nextFile
        BY <2>1 DEF OpenSafe
    <2>3. bg.edit.next \in Nat
        BY DEF Thread, Edit
    <2> QED BY <2>2, <2>3
<1>4. HeldVersions' = HeldVersions /\ \A some, next : Safe(some, next) => Safe(some, next)'
    BY DEF HeldVersions, OpenIterators, Safe
<1>5. Safe(bg'.outputs, nextFile')
    BY <1>2 DEF Safe
<1> HIDE DEF MergeInput
<1>6. MergeInput(bg)' = MergeInput(bg')
    BY DEF MergeInput
<1> QED BY <1>2, <1>3, <1>4, <1>5, <1>6 DEF OpenSafe

LEMMA StartWriteKeeps ==
    ASSUME DBInv, StartWrite
    PROVE  DBInv'
<1> USE DEF DBInv
<1>1. /\ front = "room" /\ ~bgError
      /\ UNCHANGED <<tables, descriptors, current, logNumber, manifest, version, pointers,
                     reading, history, status, lastSeq, seek, bgError, budget>>
    BY DEF StartWrite
<1>2. queue # <<>> /\ status = "open" /\ queue \in Seq(Request) /\ Len(queue) \in Nat \ {0} /\ 1 \in 1 .. Len(queue)
    BY <1>1, EmptySeq DEF FrontWorks, Quiet, WritersTyped
<1>3. /\ queue' \in Seq(Request) /\ group' \in 0 .. Len(queue') /\ front' \in {"none", "room", "log"}
      /\ queue' = <<>> <=> front' = "none"
      /\ front' = "log" => group' # 0
    <2>1. CASE Forced
        <3>1. Answer(1)
            BY <2>1 DEF StartWrite
        <3> QED BY <1>2, <3>1, AnswerTyped
    <2>2. CASE ~Forced
        <3>1. (\E n \in BatchGroups : group' = n) /\ front' = "log" /\ queue' = queue
            BY <2>2 DEF StartWrite
        <3>2. group' \in 1 .. Len(queue)
            BY <3>1 DEF BatchGroups
        <3> QED BY <1>2, <3>1, <3>2
    <2> QED BY <2>1, <2>2
<1>4. WritersTyped'
    BY <1>1, <1>3 DEF WritersTyped, BudgetTyped, Fronts
<1>5. FrontWorks'
    BY <1>3 DEF FrontWorks
<1>6. Quiet'
    BY <1>1, <1>2 DEF Quiet
<1>7. CASE UNCHANGED <<logs, memory, nextFile, bg>>
    BY <1>1, <1>4, <1>5, <1>6, <1>7, PartsStay DEF disk, files, memory, reading
<1>8. CASE SwitchMemTable
    <2>1. /\ mem \in DOMAIN memtables /\ mem \in Nat /\ mem # Nil /\ mem < nextFile /\ logNumber <= mem
          /\ nextFile \in Nat /\ logNumber \in Nat /\ bg \in Thread
          /\ nextFile' = nextFile + 1 /\ mem' = nextFile /\ imm' = mem
        BY <1>2, <1>8, DBAssumption DEF MemTables, DiskTyped, ObjectTyped, SwitchMemTable
    <2>2. bg' = MaybeSchedule(bg, bgError, mem, version, seek)
        BY <1>8 DEF SwitchMemTable
    <2>3. /\ bg' \in Thread
          /\ bg'.c = bg.c /\ bg'.input = bg.input /\ bg'.outputs = bg.outputs /\ bg'.edit = bg.edit
          /\ bg.pc # "idle" => bg'.pc = bg.pc
          /\ bg.pc = "idle" => bg'.pc \in {"idle", "start"}
          /\ bg.pc = "idle" => bg'.pc = "start"
        BY <1>1, <2>1, <2>2, ScheduleTyped
    <2>4. DiskTyped'
        <3> DEFINE new == [records |-> <<>>, synced |-> 0]
        <3>1. logs' = [n \in DOMAIN logs \cup {nextFile} |-> IF n = nextFile THEN new ELSE logs[n]]
            BY <1>8 DEF SwitchMemTable
        <3>2. new \in Log /\ new.synced <= Len(new.records)
            BY EmptySeq DEF Log
        <3> HIDE DEF new
        <3>3. DOMAIN logs' = DOMAIN logs \cup {nextFile} /\ IsFiniteSet(DOMAIN logs')
            <4>1. DOMAIN logs' = DOMAIN logs \cup {nextFile}
                BY <3>1
            <4> QED BY <4>1, FS_AddElement DEF DiskTyped
        <3>4. DOMAIN logs' \subseteq Nat
            BY <2>1, <3>3 DEF DiskTyped
        <3>5. \A n \in DOMAIN logs' : logs'[n] \in Log /\ logs'[n].synced <= Len(logs'[n].records)
            BY <3>1, <3>2 DEF DiskTyped
        <3>6. logs' \in [DOMAIN logs' -> Log]
            BY <3>1, <3>5
        <3> QED BY <1>1, <3>3, <3>4, <3>5, <3>6 DEF DiskTyped
    <2>5. /\ DOMAIN memtables' = DOMAIN memtables \cup {nextFile}
          /\ memtables' \in [DOMAIN memtables' -> Entries]
          /\ nextFile \in DOMAIN logs'
        <3>1. /\ memtables' = [n \in DOMAIN memtables \cup {nextFile} |->
                                IF n = nextFile THEN {} ELSE memtables[n]]
              /\ logs' = [n \in DOMAIN logs \cup {nextFile} |->
                   IF n = nextFile THEN [records |-> <<>>, synced |-> 0] ELSE logs[n]]
            BY <1>8 DEF SwitchMemTable
        <3>2. {} \in Entries
            BY FS_EmptySet DEF Entries, FiniteSubsetsOf
        <3> QED BY <3>1, <3>2 DEF ObjectTyped
    <2>6. ObjectTyped'
        BY <1>1, <2>1, <2>3, <2>5 DEF ObjectTyped, reading
    <2>7. Scheduled'
        BY <2>1, <2>3 DEF Scheduled, WorkToDo
    <2>8. MemTables'
        <3>1. bg'.pc \in {"edit", "sync"} => bg.pc \in {"edit", "sync"}
            BY <2>3
        <3>2. bg.edit.log \in Nat
            BY <2>1 DEF Thread, Edit
        <3>3. bg'.pc \in {"edit", "sync"} => bg'.edit.log <= mem'
            BY <2>1, <2>3, <3>1, <3>2 DEF MemTables
        <3>4. logNumber' <= mem' /\ mem' < nextFile' /\ mem' \in DOMAIN memtables' /\ mem' \in DOMAIN logs'
            BY <1>1, <2>1, <2>5
        <3>5. imm' \in DOMAIN memtables' /\ imm' \in Nat /\ status' = "open"
            BY <1>1, <1>2, <2>1, <2>5
        <3> QED BY <3>3, <3>4, <3>5 DEF MemTables
    <2>9. OpenSafe'
        <3>1. bg'.pc \in {"edit", "sync"} => bg.pc \in {"edit", "sync"}
            BY <2>3
        <3> QED BY <1>1, <1>2, <2>1, <2>3, <3>1, OpenSafeLater DEF reading, MergeInput
    <2>10. OpeningSafe'
        BY <1>1, <1>2 DEF OpeningSafe
    <2>11. DescriptorFollows'
        <3> DEFINE d == descriptors[current]
        <3>1. d \in Descriptor /\ d.synced \in Nat /\ Len(d.edits) \in Nat
            BY DEF DiskTyped, Descriptor
        <3>2. \A n \in d.synced .. Len(d.edits) : Replay(d, n).next \in Nat /\ Replay(d, n).next <= nextFile
            <4> TAKE n \in d.synced .. Len(d.edits)
            <4>1. Replay(d, n) \in State
                BY <3>1, ReplayTyped
            <4> QED BY <1>2, <4>1 DEF DescriptorFollows, State
        <3>3. \A n \in d.synced .. Len(d.edits) : Replay(d, n).next <= nextFile'
            BY <3>2, <2>1
        <3>4. bg'.pc = "edit" => bg.pc = "edit"
            BY <2>3
        <3>5. bg'.pc = "sync" <=> bg.pc = "sync"
            BY <2>3
        <3> QED BY <1>1, <1>2, <2>3, <3>3, <3>4, <3>5 DEF DescriptorFollows, Saved
    <2> QED BY <1>1, <1>4, <1>5, <1>6, <2>4, <2>6, <2>7, <2>8, <2>9, <2>10, <2>11, PartsStay
            DEF disk, files, memory, reading
<1> QED BY <1>7, <1>8 DEF StartWrite

LEMMA LogGrows ==
    ASSUME DiskTyped, mem \in DOMAIN logs, NEW r \in Seq(Entries \cup {Nil}), NEW s \in Nat,
           s <= Len(r), logs' = [logs EXCEPT ![mem] = [records |-> r, synced |-> s]],
           UNCHANGED <<tables, descriptors, current>>
    PROVE  DiskTyped' /\ DOMAIN logs' = DOMAIN logs
<1>1. [records |-> r, synced |-> s] \in Log
    BY DEF Log
<1>2. /\ DOMAIN logs' = DOMAIN logs
      /\ \A n \in DOMAIN logs' : logs'[n] = IF n = mem THEN [records |-> r, synced |-> s] ELSE logs[n]
      /\ logs' = [n \in DOMAIN logs' |-> logs'[n]]
    BY DEF DiskTyped
<1>3. \A n \in DOMAIN logs' : logs'[n] \in Log /\ logs'[n].synced <= Len(logs'[n].records)
    <2> TAKE n \in DOMAIN logs'
    <2>1. CASE n = mem
        BY <1>1, <1>2, <2>1
    <2>2. CASE n # mem
        BY <1>2, <2>2 DEF DiskTyped
    <2> QED BY <2>1, <2>2
<1>4. logs' \in [DOMAIN logs' -> Log]
    BY <1>2, <1>3
<1> QED BY <1>2, <1>3, <1>4 DEF DiskTyped

LEMMA AppendLogKeeps ==
    ASSUME DBInv, AppendLog
    PROVE  DBInv'
<1> USE DEF DBInv
<1>1. /\ front = "log" /\ front' \in {"sync", "insert", "failed"}
      /\ UNCHANGED <<tables, descriptors, current, files, memory, reading, history, status,
                   lastSeq, seek, bgError, bg, queue, group>>
    BY DEF AppendLog
<1>2. queue # <<>> /\ status = "open" /\ mem \in DOMAIN logs
    BY <1>1 DEF FrontWorks, Quiet, MemTables
<1> DEFINE old == logs[mem].records
           e == GroupEntries(group)
<1>3. e \in Entries
    BY GroupEntriesTyped DEF WritersTyped, ObjectTyped
<1>4. old \in Seq(Entries \cup {Nil}) /\ logs[mem].synced \in Nat /\ logs[mem].synced <= Len(old)
      /\ logs[mem] = [records |-> old, synced |-> logs[mem].synced] /\ Len(old) \in Nat
    BY <1>2 DEF DiskTyped, Log
<1>5. \E r \in Seq(Entries \cup {Nil}) : Len(r) >= Len(old) /\ logs' = [logs EXCEPT ![mem].records = r]
    <2> HIDE DEF e
    <2>1. Append(old, e) \in Seq(Entries \cup {Nil}) /\ Len(Append(old, e)) = Len(old) + 1
        BY <1>3, <1>4
    <2>2. \A left \in {<<>>, <<e>>, <<Nil>>} :
              old \o left \in Seq(Entries \cup {Nil}) /\ Len(old \o left) >= Len(old)
        <3> TAKE left \in {<<>>, <<e>>, <<Nil>>}
        <3>1. left \in Seq(Entries \cup {Nil}) /\ Len(left) \in Nat
            <4>1. <<e>> \in Seq(Entries \cup {Nil}) /\ Len(<<e>>) = 1
                BY <1>3
            <4>2. <<Nil>> \in Seq(Entries \cup {Nil}) /\ Len(<<Nil>>) = 1
                OBVIOUS
            <4>3. <<>> \in Seq(Entries \cup {Nil}) /\ Len(<<>>) = 0
                BY EmptySeq
            <4>4. CASE left = <<>>
                BY <4>3, <4>4
            <4>5. CASE left = <<e>>
                BY <4>1, <4>5
            <4>6. CASE left = <<Nil>>
                BY <4>2, <4>6
            <4> QED BY <4>4, <4>5, <4>6
        <3> QED BY <1>4, <3>1, ConcatProperties
    <2>3. \/ logs' = [logs EXCEPT ![mem].records = Append(old, e)]
          \/ \E left \in {<<>>, <<e>>, <<Nil>>} : logs' = [logs EXCEPT ![mem].records = old \o left]
        BY DEF AppendLog, e
    <2> HIDE DEF old
    <2>4. Len(old) + 1 >= Len(old)
        BY <1>4
    <2> QED BY <2>1, <2>2, <2>3, <2>4
<1>6. PICK r \in Seq(Entries \cup {Nil}) : Len(r) >= Len(old) /\ logs' = [logs EXCEPT ![mem].records = r]
    BY <1>5
<1>7. DiskTyped' /\ DOMAIN logs' = DOMAIN logs
    <2>1. logs' = [logs EXCEPT ![mem] = [records |-> r, synced |-> logs[mem].synced]]
        <3>1. logs[mem] \in Log
            BY <1>2 DEF DiskTyped
        <3>2. [logs[mem] EXCEPT !.records = r] = [records |-> r, synced |-> logs[mem].synced]
            BY <3>1 DEF Log
        <3> QED BY <1>6, <3>2
    <2>2. logs[mem].synced <= Len(r)
        <3>1. Len(r) \in Nat
            OBVIOUS
        <3> HIDE DEF old
        <3> QED BY <3>1, <1>4, <1>6
    <2> QED BY <1>1, <1>2, <1>4, <2>1, <2>2, LogGrows
<1>8. BudgetTyped'
    BY BudgetStays DEF AppendLog, WritersTyped
<1>9. WritersTyped'
    BY <1>1, <1>8 DEF WritersTyped, Fronts
<1>10. FrontWorks'
    BY <1>1, <1>2 DEF FrontWorks
<1> QED BY <1>1, <1>7, <1>9, <1>10, PartsStay DEF files, memory, reading

LEMMA SyncLogKeeps ==
    ASSUME DBInv, SyncLog
    PROVE  DBInv'
<1> USE DEF DBInv
<1>1. /\ front = "sync" /\ front' \in {"insert", "unsynced"}
      /\ UNCHANGED <<tables, descriptors, current, files, memory, reading, history, status,
                   lastSeq, seek, bgError, bg, queue, group>>
    BY DEF SyncLog
<1>2. queue # <<>> /\ status = "open" /\ mem \in DOMAIN logs
    BY <1>1 DEF FrontWorks, Quiet, MemTables
<1>3. DiskTyped' /\ DOMAIN logs' = DOMAIN logs
    <2>1. CASE UNCHANGED logs
        BY <1>1, <2>1, PartsStay DEF disk
    <2>2. CASE logs' = [logs EXCEPT ![mem].synced = Len(logs[mem].records)]
        <3> DEFINE old == logs[mem].records
        <3>1. old \in Seq(Entries \cup {Nil}) /\ Len(old) \in Nat
              /\ logs[mem] = [records |-> old, synced |-> logs[mem].synced]
            BY <1>2 DEF DiskTyped, Log
        <3>2. logs' = [logs EXCEPT ![mem] = [records |-> old, synced |-> Len(old)]]
            <4>1. logs[mem] \in Log
                BY <1>2 DEF DiskTyped
            <4>2. [logs[mem] EXCEPT !.synced = Len(old)] = [records |-> old, synced |-> Len(old)]
                BY <4>1 DEF Log
            <4> QED BY <2>2, <4>2
        <3> HIDE DEF old
        <3>3. Len(old) <= Len(old)
            BY <3>1
        <3> QED BY <1>1, <1>2, <3>1, <3>2, <3>3, LogGrows
    <2> QED BY <2>1, <2>2 DEF SyncLog
<1>4. BudgetTyped'
    BY BudgetStays DEF SyncLog, WritersTyped
<1>5. WritersTyped'
    BY <1>1, <1>4 DEF WritersTyped, Fronts
<1>6. FrontWorks'
    BY <1>1, <1>2 DEF FrontWorks
<1> QED BY <1>1, <1>3, <1>5, <1>6, PartsStay DEF files, memory, reading

LEMMA PublishKeeps ==
    ASSUME DBInv, Publish
    PROVE  DBInv'
<1> USE DEF DBInv
<1>1. /\ front \in {"publish", "failed", "unsynced"}
      /\ lastSeq' = lastSeq + Len(GroupUpdates(group))
      /\ bgError' = (bgError \/ front = "unsynced")
      /\ Answer(group)
      /\ UNCHANGED <<disk, files, memory, reading, status, seek, bg, budget>>
    BY DEF Publish
<1>2. queue # <<>> /\ status = "open" /\ group \in 1 .. Len(queue)
    BY <1>1 DEF FrontWorks, Quiet, WritersTyped
<1>3. /\ queue' \in Seq(Request) /\ group' \in 0 .. Len(queue')
      /\ front' \in {"none", "room"}
      /\ queue' = <<>> <=> front' = "none"
    BY <1>1, <1>2, AnswerTyped
<1>4. WritersTyped'
    BY <1>1, <1>3 DEF WritersTyped, BudgetTyped, Fronts
<1>5. FrontWorks'
    BY <1>3 DEF FrontWorks
<1>6. Quiet'
    BY <1>1, <1>2 DEF Quiet
<1>7. ObjectTyped'
    <2>1. Len(GroupUpdates(group)) \in Nat
        BY GroupEntriesTyped DEF WritersTyped, ObjectTyped
    <2>2. lastSeq' \in Nat /\ bgError' \in BOOLEAN
        BY <1>1, <2>1 DEF ObjectTyped
    <2> QED BY <1>1, <2>2 DEF ObjectTyped, files, memory, reading
<1>8. ~bgError' => ~bgError
    BY <1>1
<1>9. Scheduled'
    BY <1>1, <1>8 DEF Scheduled, WorkToDo, files, memory
<1>10. DescriptorFollows'
    BY <1>1, <1>8 DEF DescriptorFollows, Saved, disk, files
<1> QED BY <1>1, <1>4, <1>5, <1>6, <1>7, <1>9, <1>10, PartsStay DEF disk, files, memory, reading

-----------------------------------------------------------------------------
(* Readers. *)

LEMMA SnapshotKeeps ==
    ASSUME DBInv, GetSnapshot \/ \E i \in DOMAIN snapshots : ReleaseSnapshot(i)
    PROVE  DBInv'
<1> USE DEF DBInv
<1>1. UNCHANGED <<disk, files, memory, writing, iterators, history, status, lastSeq, seek, bgError, bg>>
    BY DEF GetSnapshot, ReleaseSnapshot
<1>2. BudgetTyped'
    BY BudgetStays DEF GetSnapshot, ReleaseSnapshot, WritersTyped
<1>3. WritersTyped'
    BY <1>1, <1>2 DEF WritersTyped, writing
<1> QED BY <1>1, <1>3, PartsStay DEF disk, files, memory, writing

LEMMA NewIteratorKeeps ==
    ASSUME DBInv, NEW r \in Readers, NewIterator(r)
    PROVE  DBInv'
<1> USE DEF DBInv
<1> DEFINE it == [seq |-> lastSeq, mem |-> mem, imm |-> imm, version |-> version]
<1>1. /\ status = "open" /\ iterators' = [iterators EXCEPT ![r] = it]
      /\ UNCHANGED <<disk, files, memory, writing, snapshots, history, status, lastSeq, seek, bgError, bg>>
    BY DEF NewIterator
<1>2. BudgetTyped'
    BY BudgetStays DEF NewIterator, WritersTyped
<1>3. WritersTyped'
    BY <1>1, <1>2 DEF WritersTyped, writing
<1>4. it \in Iterator
    BY <1>1 DEF Iterator, MemTables, ObjectTyped, DiskTyped
<1> HIDE DEF it
<1>5. ObjectTyped'
    <2>1. iterators' \in [Readers -> Iterator \cup {Nil}]
        BY <1>1, <1>4 DEF ObjectTyped
    <2> QED BY <1>1, <2>1 DEF ObjectTyped, files, memory
<1>6. Quiet'
    BY <1>1 DEF Quiet
<1>7. OpenSafe'
    <2>1. HeldVersions' \subseteq HeldVersions \cup {version}
        <3>1. SUFFICES ASSUME NEW q \in Readers, iterators'[q] # Nil
                       PROVE  iterators'[q].version \in HeldVersions \cup {version}
            BY DEF HeldVersions, OpenIterators
        <3>2. CASE q = r
            BY <1>1, <3>2 DEF ObjectTyped, it
        <3>3. CASE q # r
            BY <1>1, <3>1, <3>3 DEF ObjectTyped, HeldVersions, OpenIterators
        <3> QED BY <3>2, <3>3
    <2>2. Safe(FilesOf(version), nextFile) /\ \A v \in HeldVersions \cup MergeInput(bg) : Safe(FilesOf(v), nextFile)
        BY <1>1 DEF OpenSafe
    <2>3. \A v \in HeldVersions' \cup MergeInput(bg) : Safe(FilesOf(v), nextFile)
        BY <2>1, <2>2
    <2>4. \A some, next : Safe(some, next)' <=> Safe(some, next)
        BY <1>1 DEF Safe, disk
    <2> QED BY <1>1, <2>3, <2>4 DEF OpenSafe, files, disk, Safe, MergeInput
<1> QED BY <1>1, <1>3, <1>5, <1>6, <1>7, PartsStay DEF disk, files, memory, writing

LEMMA KeepMemTablesTyped ==
    ASSUME ObjectTyped, NEW m, NEW i, NEW readers
    PROVE  LET kept == KeepMemTables(m, i, readers)
           IN /\ kept \in [DOMAIN kept -> Entries]
              /\ DOMAIN kept \subseteq DOMAIN memtables
              /\ m \in DOMAIN memtables => m \in DOMAIN kept
              /\ i \in DOMAIN memtables => i \in DOMAIN kept
<1> DEFINE held == {m, i} \cup UNION {{iterators[r].mem, iterators[r].imm} : r \in readers}
           kept == KeepMemTables(m, i, readers)
<1>1. kept = [n \in DOMAIN memtables \cap held |-> memtables[n]]
    BY DEF KeepMemTables
<1>2. m \in held /\ i \in held
    OBVIOUS
<1> HIDE DEF held, kept
<1>3. kept \in [DOMAIN kept -> Entries] /\ DOMAIN kept = DOMAIN memtables \cap held
    BY <1>1 DEF ObjectTyped
<1> QED BY <1>2, <1>3 DEF kept

LEMMA DeleteIteratorKeeps ==
    ASSUME DBInv, NEW r \in Readers, DeleteIterator(r)
    PROVE  DBInv'
<1> USE DEF DBInv
<1>1. /\ iterators[r] # Nil /\ iterators' = [iterators EXCEPT ![r] = Nil]
      /\ memtables' = KeepMemTables(mem, imm, OpenIterators \ {r})
      /\ UNCHANGED <<disk, files, mem, imm, writing, snapshots, history, status, lastSeq, seek,
                     bgError, bg, budget>>
    BY DEF DeleteIterator
<1>2. status = "open"
    BY <1>1 DEF Quiet
<1>3. /\ memtables' \in [DOMAIN memtables' -> Entries]
      /\ mem \in DOMAIN memtables => mem \in DOMAIN memtables'
      /\ imm \in DOMAIN memtables => imm \in DOMAIN memtables'
    BY <1>1, KeepMemTablesTyped
<1>4. ObjectTyped'
    <2>1. iterators' \in [Readers -> Iterator \cup {Nil}]
        BY <1>1 DEF ObjectTyped
    <2> QED BY <1>1, <1>3, <2>1 DEF ObjectTyped, files
<1>5. Quiet'
    BY <1>1, <1>2 DEF Quiet
<1>6. MemTables'
    BY <1>1, <1>3 DEF MemTables, disk, files
<1>7. OpenSafe'
    <2>1. HeldVersions' \subseteq HeldVersions
        <3>1. SUFFICES ASSUME NEW q \in Readers, iterators'[q] # Nil
                       PROVE  iterators'[q].version \in HeldVersions
            BY DEF HeldVersions, OpenIterators
        <3>2. q # r /\ iterators'[q] = iterators[q]
            BY <1>1, <3>1 DEF ObjectTyped
        <3> QED BY <3>1, <3>2 DEF HeldVersions, OpenIterators
    <2>2. \A v \in HeldVersions' \cup MergeInput(bg) : Safe(FilesOf(v), nextFile)
        BY <1>2, <2>1 DEF OpenSafe
    <2>3. \A some, next : Safe(some, next)' <=> Safe(some, next)
        BY <1>1 DEF Safe, disk
    <2> QED BY <1>1, <2>2, <2>3 DEF OpenSafe, files, disk, Safe, MergeInput
<1> QED BY <1>1, <1>4, <1>5, <1>6, <1>7, PartsStay DEF disk, files, writing

LEMMA UseUpSeeksKeeps ==
    ASSUME DBInv, NEW k \in Keys, UseUpSeeks(k)
    PROVE  DBInv'
<1> USE DEF DBInv
<1>1. /\ status = "open" /\ seek = {} /\ seek' = SeekFile(version, k, lastSeq) /\ seek' # {}
      /\ bg' = MaybeSchedule(bg, bgError, imm, version, seek')
      /\ UNCHANGED <<disk, files, memory, writing, reading, history, status, lastSeq, bgError>>
    BY DEF UseUpSeeks
<1>2. BudgetTyped'
    BY BudgetStays DEF UseUpSeeks, WritersTyped
<1>3. WritersTyped'
    BY <1>1, <1>2 DEF WritersTyped, writing
<1>4. bg \in Thread /\ version \in Version
    BY DEF ObjectTyped
<1>5. /\ bg' \in Thread
      /\ bg'.c = bg.c /\ bg'.input = bg.input /\ bg'.outputs = bg.outputs /\ bg'.edit = bg.edit
      /\ bg.pc # "idle" => bg'.pc = bg.pc
      /\ bg.pc = "idle" => bg'.pc \in {"idle", "start"}
      /\ bg.pc = "idle" => (bg'.pc = "start" <=> ~bgError /\ (imm # Nil \/ NeedsCompaction(version, seek')))
    BY <1>1, <1>4, ScheduleTyped
<1>6. NeedsCompaction(version, seek')
    BY <1>1 DEF NeedsCompaction
<1>7. SeekTyped'
    <2>1. \A f, g \in FilesOf(version) : f.number = g.number => f = g
        BY <1>1 DEF OpenSafe, Safe, OneFilePerNumber
    <2>2. \A p \in seek' : \E level \in 0 .. NumLevels - 2 : \E f \in version[level] : p = <<level, f>>
        BY <1>1, <1>4, <2>1, SeekFileTyped
    <2> QED BY <1>1, <2>2 DEF SeekTyped, files
<1>8. ObjectTyped'
    BY <1>1, <1>5 DEF ObjectTyped, files, memory, reading
<1>9. Quiet'
    BY <1>1 DEF Quiet
<1>10. Scheduled'
    <2>1. WorkToDo'
        BY <1>1, <1>6 DEF WorkToDo, files, memory
    <2>2. ~bgError => bg'.pc # "idle"
        BY <1>5, <1>6
    <2> QED BY <1>1, <2>1, <2>2 DEF Scheduled
<1>11. bg'.pc \in {"edit", "sync"} => bg.pc \in {"edit", "sync"} /\ bg'.pc = bg.pc
    BY <1>5
<1>12. MemTables'
    BY <1>1, <1>5, <1>11 DEF MemTables, disk, files, memory
<1>13. OpenSafe'
    BY <1>1, <1>4, <1>5, <1>11, OpenSafeLater DEF disk, files, reading, ObjectTyped, MergeInput
<1>14. OpeningSafe'
    BY <1>1 DEF OpeningSafe
<1>15. DescriptorFollows'
    <2>1. /\ bg'.pc = "edit" => bg.pc = "edit"
          /\ bg'.pc = "sync" <=> bg.pc = "sync"
        BY <1>5
    <2> QED BY <1>1, <1>5, <2>1 DEF DescriptorFollows, Saved, disk, files
<1>16. FrontWorks'
    BY <1>1, PartsStay DEF files, memory
<1> QED BY <1>1, <1>3, <1>7, <1>8, <1>9, <1>10, <1>12, <1>13, <1>14, <1>15, <1>16, PartsStay DEF disk, files, memory

-----------------------------------------------------------------------------
(* Tables and the background thread. *)

\* New tables with numbers from bound on leave those with numbers below it.
LEMMA TablesAdded ==
    ASSUME DiskTyped, OneFilePerNumber, NEW new \in Files, NEW bound \in Nat,
           \A f \in new : bound <= f.number,
           \A f, g \in new : f.number = g.number => f = g,
           tables' = AddTables(new)
    PROVE  /\ tables' \subseteq File
           /\ OneFilePerNumber'
           /\ new \subseteq tables'
           /\ \A f \in tables : f.number < bound => f \in tables'
<1>1. tables' = {f \in tables : \A g \in new : f.number # g.number} \cup new
    BY DEF AddTables
<1>2. tables \subseteq File /\ new \subseteq File
    BY DEF DiskTyped, Files, FiniteSubsetsOf
<1>3. \A f \in tables \cup new : f.number \in Nat
    BY <1>2 DEF File
<1>4. OneFilePerNumber'
    BY <1>1 DEF OneFilePerNumber
<1>5. ASSUME NEW f \in tables, f.number < bound
      PROVE  f \in tables'
    <2>1. \A g \in new : f.number # g.number
        BY <1>3, <1>5
    <2> QED BY <1>1, <2>1
<1> QED BY <1>1, <1>2, <1>4, <1>5

\* The numbers the descriptor may yield.
LEMMA DescriptorNumbers ==
    ASSUME DiskTyped
    PROVE  LET d == descriptors[current]
           IN /\ d \in Descriptor /\ d.synced \in Nat /\ Len(d.edits) \in Nat
              /\ d.synced <= Len(d.edits)
              /\ \A n \in d.synced .. Len(d.edits) : n \in Nat /\ Replay(d, n) \in State /\ Replay(d, n).next \in Nat
<1> DEFINE d == descriptors[current]
<1>1. d \in Descriptor /\ d.synced \in Nat /\ Len(d.edits) \in Nat /\ d.synced <= Len(d.edits)
    BY DEF DiskTyped, Descriptor
<1> HIDE DEF d
<1>2. \A n \in d.synced .. Len(d.edits) : n \in Nat /\ Replay(d, n) \in State
    <2> TAKE n \in d.synced .. Len(d.edits)
    <2>1. n \in 0 .. Len(d.edits)
        BY <1>1
    <2> QED BY <1>1, <2>1, ReplayTyped
<1>3. \A n \in d.synced .. Len(d.edits) : Replay(d, n).next \in Nat
    BY <1>2 DEF State
<1> QED BY <1>1, <1>2, <1>3 DEF d

LEMMA SafeBelow ==
    ASSUME DiskTyped, NEW bound \in Nat, \A f \in tables : f.number < bound => f \in tables',
           NEW some, NEW next \in Nat, Safe(some, next), next <= bound
    PROVE  some \subseteq tables' /\ \A f \in some : f.number < next
<1>1. \A f \in some : f \in tables /\ f.number < next /\ f.number \in Nat
    BY DEF Safe, DiskTyped, File
<1> QED BY <1>1

LEMMA DescriptorStaysSafe ==
    ASSUME DiskTyped, DescriptorSafe, NEW bound \in Nat,
           \A f \in tables : f.number < bound => f \in tables',
           LET d == descriptors[current]
           IN \A n \in d.synced .. Len(d.edits) : Replay(d, n).next <= bound,
           UNCHANGED <<descriptors, current>>
    PROVE  DescriptorSafe'
<1> DEFINE d == descriptors[current]
<1>1. \A n \in d.synced .. Len(d.edits) : Replay(d, n).next \in Nat /\ Replay(d, n).next <= bound
    BY DescriptorNumbers
<1>2. \A n \in d.synced .. Len(d.edits) :
          /\ Safe(FilesOf(Replay(d, n).version), Replay(d, n).next)
          /\ current < Replay(d, n).next
          /\ \A m \in d.synced .. n : Replay(d, m).next <= Replay(d, n).next
    BY DEF DescriptorSafe
<1>3. \A some : \A next \in Nat : Safe(some, next) /\ next <= bound =>
          some \subseteq tables' /\ \A f \in some : f.number < next
    BY SafeBelow
<1>4. \A n \in d.synced .. Len(d.edits) :
          /\ FilesOf(Replay(d, n).version) \subseteq tables'
          /\ \A f \in FilesOf(Replay(d, n).version) : f.number < Replay(d, n).next
    BY <1>1, <1>2, <1>3
<1> QED BY <1>2, <1>4 DEF DescriptorSafe, Safe

\* The thread gives up, or goes back to its merge, after an error.
LEMMA BackgroundStops ==
    ASSUME DBInv, bg.pc # "idle", bgError' = TRUE,
           bg' = Idle \/ (Merging /\ bg' = [bg EXCEPT !.pc = "merge", !.kind = "merge"]),
           front' = Signal(front), nextFile' \in Nat, nextFile <= nextFile', BudgetTyped',
           UNCHANGED <<disk, memory, reading, status, lastSeq, seek, queue, group,
                       logNumber, manifest, version, pointers>>
    PROVE  DBInv'
<1> USE DEF DBInv
<1>1. status = "open" /\ bg \in Thread
    BY DEF Quiet, ObjectTyped
<1>2. /\ bg' \in Thread /\ bg'.pc \in {"idle", "merge"}
      /\ bg'.pc = "merge" => bg'.c \in CompactionOf
      /\ MergeInput(bg') \subseteq MergeInput(bg) /\ bg'.outputs \subseteq bg.outputs
    <2>1. CASE bg' = Idle
        <3>1. Idle.pc = "idle" /\ MergeInput(Idle) = {} /\ Idle.outputs = {}
            BY DEF Idle, MergeInput
        <3> QED BY <2>1, <3>1, IdleTyped
    <2>2. CASE Merging /\ bg' = [bg EXCEPT !.pc = "merge", !.kind = "merge"]
        <3>1. bg' \in Thread /\ bg'.pc = "merge" /\ bg'.c = bg.c /\ bg'.input = bg.input /\ bg'.outputs = bg.outputs
            BY <1>1, <2>2 DEF Thread
        <3>2. bg'.c \in CompactionOf
            BY <1>1, <2>2, <3>1 DEF Merging, Thread
        <3> QED BY <2>2, <3>1, <3>2 DEF MergeInput
    <2> QED BY <2>1, <2>2
<1>3. front' # "waiting" /\ (front' = "none" <=> front = "none") /\ front' \in Fronts
      /\ (front' \in {"log", "sync", "insert", "publish", "failed", "unsynced"} => front' = front)
    BY DEF Signal, WritersTyped, Fronts
<1>4. WritersTyped'
    BY <1>3 DEF WritersTyped
<1>5. FrontWorks'
    BY <1>3 DEF FrontWorks
<1>6. ObjectTyped'
    BY <1>2 DEF ObjectTyped, memory, reading
<1>7. Quiet'
    BY <1>1 DEF Quiet
<1>8. Scheduled'
    BY DEF Scheduled
<1>9. MemTables'
    <2>1. nextFile \in Nat /\ (mem \in DOMAIN logs => mem \in Nat)
        BY DEF ObjectTyped, DiskTyped
    <2>2. mem < nextFile'
        BY <1>1, <2>1 DEF MemTables
    <2> QED BY <1>1, <1>2, <2>2 DEF MemTables, memory, disk
<1>10. OpeningSafe'
    BY <1>1 DEF OpeningSafe
<1>11. OpenSafe'
    <2>1. nextFile \in Nat /\ UNCHANGED <<tables, status, version, iterators>>
        BY DEF ObjectTyped, disk, reading
    <2>2. bg'.pc \notin {"edit", "sync"}
        BY <1>2
    <2> QED BY <1>1, <1>2, <2>1, <2>2, OpenSafeLater
<1>12. DescriptorFollows'
    <2> DEFINE d == descriptors[current]
    <2>1. \A n \in d.synced .. Len(d.edits) : Replay(d, n).next <= nextFile /\ Replay(d, n).next \in Nat
        BY <1>1, DescriptorNumbers DEF DescriptorFollows
    <2>2. \A n \in d.synced .. Len(d.edits) : Replay(d, n).next <= nextFile'
        BY <2>1 DEF ObjectTyped
    <2> QED BY <1>1, <1>2, <2>2 DEF DescriptorFollows, disk
<1> QED BY <1>4, <1>5, <1>6, <1>7, <1>8, <1>9, <1>10, <1>11, <1>12, PartsStay DEF disk, memory, reading

\* The thread works on: it makes a table or not, and begins an edit or merges.
LEMMA ThreadWorks ==
    ASSUME DBInv, status = "open", bg.pc \in {"start", "merge"},
           nextFile' \in Nat, nextFile <= nextFile',
           bg' \in Thread, bg'.pc \in {"merge", "edit"}, bg'.pc = "merge" => bg'.c \in CompactionOf,
           MergeInput(bg') \subseteq MergeInput(bg) \cup {version},
           Safe(bg.outputs, nextFile)',
           bg'.pc = "edit" => /\ bg'.edit.log <= mem /\ bg'.edit.next = nextFile'
                              /\ Safe(Added(bg.edit), nextFile)',
           DiskTyped', OneFilePerNumber',
           \A f \in tables : f.number < nextFile => f \in tables',
           pointers' \in [Levels -> Pointer],
           UNCHANGED <<logs, descriptors, current, memory, writing, reading, status, lastSeq, seek,
                       bgError, budget, logNumber, manifest, version>>
    PROVE  DBInv'
<1> USE DEF DBInv
<1>1. nextFile \in Nat /\ nextFile <= nextFile
    BY DEF ObjectTyped
<1>2. ObjectTyped'
    BY DEF ObjectTyped, memory, reading
<1>3. Quiet'
    BY DEF Quiet
<1>4. Scheduled'
    BY DEF Scheduled
<1>5. MemTables'
    <2>1. mem < nextFile'
        BY <1>1 DEF MemTables, DiskTyped
    <2> QED BY <2>1 DEF MemTables, memory
<1>6. \A n \in descriptors[current].synced .. Len(descriptors[current].edits) :
          Replay(descriptors[current], n).next <= nextFile /\ Replay(descriptors[current], n).next \in Nat
    BY DescriptorNumbers DEF DescriptorFollows
<1>7. DescriptorSafe'
    BY <1>1, <1>6, DescriptorStaysSafe
<1>8. ASSUME NEW some, Safe(some, nextFile)
      PROVE  some \subseteq tables' /\ \A f \in some : f.number < nextFile'
    <2>1. some \subseteq tables' /\ \A f \in some : f.number < nextFile
        BY <1>1, <1>8, SafeBelow
    <2>2. \A f \in some : f.number \in Nat
        BY <1>8 DEF Safe, DiskTyped, File
    <2> QED BY <1>1, <2>1, <2>2
<1>9. OpenSafe'
    <2>1. \A v \in {version} \cup HeldVersions \cup MergeInput(bg) : Safe(FilesOf(v), nextFile)
        BY DEF OpenSafe
    <2>2. \A v \in {version} \cup HeldVersions \cup MergeInput(bg) :
              FilesOf(v) \subseteq tables' /\ \A f \in FilesOf(v) : f.number < nextFile'
        BY <1>8, <2>1
    <2>3. HeldVersions' = HeldVersions /\ version' = version
        BY DEF HeldVersions, OpenIterators, reading
    <2>4. MergeInput(bg)' = MergeInput(bg')
        BY DEF MergeInput
    <2>5. /\ Safe(FilesOf(version), nextFile)'
          /\ (\A v \in HeldVersions \cup MergeInput(bg) : Safe(FilesOf(v), nextFile))'
        BY <2>2, <2>3, <2>4 DEF Safe
    <2>6. bg'.pc \in {"edit", "sync"} => Safe(Added(bg.edit), bg.edit.next)' /\ bg'.edit.next <= nextFile'
        OBVIOUS
    <2> QED BY <2>5, <2>6 DEF OpenSafe
<1>10. OpeningSafe'
    BY DEF OpeningSafe
<1>11. DescriptorFollows'
    <2>1. \A n \in descriptors[current].synced .. Len(descriptors[current].edits) :
              Replay(descriptors[current], n).next <= nextFile'
        BY <1>1, <1>6
    <2>2. bg.pc # "sync" /\ bg'.pc # "sync"
        OBVIOUS
    <2> QED BY <2>1, <2>2 DEF DescriptorFollows, Saved
<1>12. WritersTyped' /\ FrontWorks' /\ SeekTyped'
    BY PartsStay DEF memory, writing
<1> QED BY <1>2, <1>3, <1>4, <1>5, <1>7, <1>9, <1>10, <1>11, <1>12

LEMMA BackgroundErrorIs ==
    ASSUME NEW merging, BackgroundError(merging)
    PROVE  /\ bgError' = TRUE /\ front' = Signal(front)
           /\ IF merging THEN bg' = [bg EXCEPT !.pc = "merge", !.kind = "merge"] ELSE bg' = Idle
<1>1. EndCall(TRUE, imm, version, seek) => bg' = Idle /\ front' = Signal(front)
    BY DEF EndCall, MaybeSchedule
<1> QED BY <1>1 DEF BackgroundError

LEMMA BackgroundStopKeeps ==
    ASSUME DBInv, BackgroundStop
    PROVE  DBInv'
<1>1. bg.pc = "start" /\ bgError /\ bgError \in BOOLEAN /\ nextFile \in Nat
    BY DEF BackgroundStop, DBInv, ObjectTyped
<1>2. bg' = Idle /\ front' = Signal(front)
    BY DEF BackgroundStop, EndCall, MaybeSchedule
<1>3. BudgetTyped'
    BY BudgetStays DEF BackgroundStop, DBInv, WritersTyped
<1> QED BY <1>1, <1>2, <1>3, BackgroundStops DEF BackgroundStop, files

LEMMA SyncFailsKeeps ==
    ASSUME DBInv, SyncFails
    PROVE  DBInv'
<1>1. bg.pc = "sync" /\ nextFile \in Nat
    BY DEF SyncFails, DBInv, ObjectTyped
<1>2. /\ bgError' = TRUE /\ front' = Signal(front)
      /\ bg' = Idle \/ (Merging /\ bg' = [bg EXCEPT !.pc = "merge", !.kind = "merge"])
    BY BackgroundErrorIs DEF SyncFails
<1>3. BudgetTyped'
    BY BudgetStays DEF SyncFails, DBInv, WritersTyped
<1> QED BY <1>1, <1>2, <1>3, BackgroundStops DEF SyncFails, files

\* A new table, and the disk with it.
LEMMA DiskWithTable ==
    ASSUME DiskTyped, OneFilePerNumber, nextFile \in Nat, NEW f \in File, f.number = nextFile,
           tables' = AddTables({f}), UNCHANGED <<logs, descriptors, current>>
    PROVE  /\ DiskTyped' /\ OneFilePerNumber' /\ f \in tables'
           /\ \A g \in tables : g.number < nextFile => g \in tables'
<1>1. {f} \in Files
    BY FS_Singleton DEF Files, FiniteSubsetsOf
<1>2. /\ tables' \subseteq File /\ OneFilePerNumber' /\ {f} \subseteq tables'
      /\ \A g \in tables : g.number < nextFile => g \in tables'
    <2>1. \A g \in {f} : nextFile <= g.number
        OBVIOUS
    <2>2. \A g, h \in {f} : g.number = h.number => g = h
        OBVIOUS
    <2> QED BY <1>1, <2>1, <2>2, TablesAdded
<1> QED BY <1>2 DEF DiskTyped

\* The outputs stay where they are.
LEMMA OutputsStay ==
    ASSUME DiskTyped, OpenSafe, status = "open", nextFile \in Nat, nextFile' \in Nat, nextFile <= nextFile',
           \A f \in tables : f.number < nextFile => f \in tables'
    PROVE  bg.outputs \subseteq tables' /\ \A f \in bg.outputs : f.number < nextFile'
<1>1. Safe(bg.outputs, nextFile) /\ nextFile <= nextFile
    BY DEF OpenSafe
<1>2. bg.outputs \subseteq tables' /\ \A f \in bg.outputs : f.number < nextFile
    BY <1>1, SafeBelow
<1>3. \A f \in bg.outputs : f.number \in Nat
    BY <1>1 DEF Safe, DiskTyped, File
<1> QED BY <1>2, <1>3

LEMMA FlushMemTableKeeps ==
    ASSUME DBInv, FlushMemTable
    PROVE  DBInv'
<1> USE DEF DBInv
<1> DEFINE f == [number |-> nextFile, entries |-> memtables[imm]]
<1>1. /\ imm # Nil /\ bg.pc \in {"start", "merge"} /\ nextFile' = nextFile + 1 /\ status = "open"
      /\ UNCHANGED <<logs, descriptors, current, memory, reading, history, status, lastSeq,
                   seek, queue, group, logNumber, manifest, version, pointers>>
      /\ nextFile \in Nat /\ nextFile' \in Nat /\ nextFile <= nextFile' /\ bg \in Thread
      /\ mem \in Nat /\ lastSeq \in Nat
    BY DEF FlushMemTable, Quiet, ObjectTyped, MemTables, DiskTyped
<1>2. memtables[imm] \in Entries
    BY <1>1 DEF MemTables, ObjectTyped
<1>3. BudgetTyped'
    BY BudgetStays DEF FlushMemTable, WritersTyped
<1>4. CASE Fails("table") /\ BackgroundError(Merging) /\ UNCHANGED tables
    <2>1. /\ bgError' = TRUE /\ front' = Signal(front)
          /\ bg' = Idle \/ (Merging /\ bg' = [bg EXCEPT !.pc = "merge", !.kind = "merge"])
        <3>1. CASE Merging
            BY <1>4, <3>1 DEF BackgroundError
        <3>2. CASE ~Merging
            BY <1>4, <3>2 DEF BackgroundError, EndCall, MaybeSchedule
        <3> QED BY <3>1, <3>2
    <2> QED BY <1>1, <1>3, <1>4, <2>1, BackgroundStops DEF disk
<1>5. CASE /\ tables' = IF f.entries = {} THEN tables ELSE AddTables({f})
           /\ bg' = BeginEdit("flush", {}, FlushOutput(f), {}, mem)
           /\ UNCHANGED <<bgError, front, budget>>
    <2>1. /\ DiskTyped' /\ OneFilePerNumber'
          /\ \A g \in tables : g.number < nextFile => g \in tables'
          /\ f.entries # {} => f \in File /\ f \in tables'
        <3>1. CASE f.entries = {}
            BY <1>1, <1>5, <3>1, PartsStay DEF disk
        <3>2. CASE f.entries # {}
            <4>1. f \in File /\ f.number = nextFile
                BY <1>1, <1>2, <3>2 DEF File
            <4>2. tables' = AddTables({f})
                BY <1>5, <3>2
            <4> HIDE DEF f
            <4> QED BY <1>1, <4>1, <4>2, DiskWithTable
        <3> QED BY <3>1, <3>2
    <2> DEFINE e == [deleted |-> {}, added |-> FlushOutput(f), pointers |-> {},
                     log |-> mem, next |-> nextFile', seq |-> lastSeq]
    <2>2. f.number = nextFile
        OBVIOUS
    <2> HIDE DEF f
    <2>3. /\ FlushOutput(f) \in FiniteSubsetsOf(Nat \X File)
          /\ {p[2] : p \in FlushOutput(f)} \subseteq (IF f.entries = {} THEN {} ELSE {f})
        <3>1. CASE f.entries = {}
            BY <3>1, FS_EmptySet DEF FlushOutput, FiniteSubsetsOf
        <3>2. CASE f.entries # {}
            <4> DEFINE p == <<PickLevelForMemTableOutput(version, RangeOf({f})), f>>
            <4>1. p \in Nat \X File /\ p[2] = f
                BY <2>1, <3>2, OutputLevelTyped
            <4>2. FlushOutput(f) = {p}
                BY <3>2 DEF FlushOutput
            <4> HIDE DEF p
            <4> QED BY <3>2, <4>1, <4>2, FS_Singleton DEF FiniteSubsetsOf
        <3> QED BY <3>1, <3>2
    <2>4. e \in Edit
        BY <1>1, <2>3 DEF Edit
    <2>5. e.log = mem /\ e.next = nextFile' /\ e.added = FlushOutput(f)
        OBVIOUS
    <2>6. bg' = [bg EXCEPT !.pc = "edit", !.kind = "flush", !.edit = e]
        BY <1>5 DEF BeginEdit
    <2> HIDE DEF e
    <2>7. /\ bg' \in Thread /\ bg'.pc = "edit" /\ bg'.edit = e
          /\ bg'.c = bg.c /\ bg'.input = bg.input /\ bg'.outputs = bg.outputs
        BY <1>1, <2>4, <2>6 DEF Thread
    <2>8. Safe(bg.outputs, nextFile)'
        BY <1>1, <2>1, <2>7, OutputsStay DEF Safe
    <2>9. Safe(Added(bg.edit), nextFile)'
        <3>1. Added(bg.edit)' \subseteq IF f.entries = {} THEN {} ELSE {f}
            BY <2>3, <2>5, <2>7 DEF Added
        <3> QED BY <1>1, <2>1, <2>2, <3>1 DEF Safe
    <2>10. mem <= mem /\ MergeInput(bg') = MergeInput(bg) /\ pointers' \in [Levels -> Pointer]
        BY <1>1, <2>7 DEF MergeInput, ObjectTyped
    <2> QED BY <1>1, <1>5, <2>1, <2>5, <2>7, <2>8, <2>9, <2>10, ThreadWorks DEF writing
<1> QED BY <1>4, <1>5 DEF FlushMemTable

\* The compaction that is picked when there is work.
LEMMA Picked ==
    ASSUME DBInv, bg.pc = "start", ~bgError, imm = Nil
    PROVE  LET c == PickCompaction(version, pointers, seek)
           IN /\ Chosen(c, version, c.level) /\ c.level \in 0 .. NumLevels - 2
              /\ c \in CompactionOf
              /\ c.upper \subseteq FilesOf(version)
<1> USE DEF DBInv
<1> DEFINE c == PickCompaction(version, pointers, seek)
<1>1. SizeCompaction(version) \/ seek # {}
    BY DEF Scheduled, WorkToDo, NeedsCompaction
<1>2. version \in Version
    BY DEF ObjectTyped
<1>3. Chosen(c, version, c.level) /\ c.level \in 0 .. NumLevels - 2
    BY <1>1, <1>2, PickTyped DEF SeekTyped
<1> HIDE DEF c
<1>4. c \in CompactionOf /\ c.upper \subseteq version[c.level] /\ c.level \in Levels
    BY <1>3, LevelCounts DEF Chosen
<1> QED BY <1>3, <1>4 DEF FilesOf, c

LEMMA MoveFileKeeps ==
    ASSUME DBInv, MoveFile
    PROVE  DBInv'
<1> USE DEF DBInv
<1> DEFINE c == PickCompaction(version, pointers, seek)
           added == {<<c.level + 1, f>> : f \in c.upper}
           e == [deleted |-> {<<c.level, f.number>> : f \in c.upper}, added |-> added,
                 pointers |-> {<<c.level, c.pointer>>}, log |-> logNumber,
                 next |-> nextFile', seq |-> lastSeq]
<1>1. /\ bg.pc = "start" /\ ~bgError /\ imm = Nil /\ nextFile' = nextFile
      /\ pointers' = [pointers EXCEPT ![c.level] = c.pointer]
      /\ UNCHANGED <<disk, logNumber, manifest, version, memory, writing, reading,
                     history, status, lastSeq, seek, bgError, budget>>
      /\ status = "open" /\ nextFile \in Nat /\ logNumber \in Nat /\ lastSeq \in Nat /\ bg \in Thread
    BY DEF MoveFile, Quiet, ObjectTyped
<1>2. bg' = [bg EXCEPT !.pc = "edit", !.kind = "move", !.edit = e]
    BY DEF MoveFile, BeginEdit
<1>3. c.level \in 0 .. NumLevels - 2 /\ c \in CompactionOf /\ c.upper \subseteq FilesOf(version)
    BY <1>1, Picked
<1> HIDE DEF c
<1>4. /\ c.level \in Nat /\ c.level \in Levels /\ c.upper \in Files /\ c.upper \subseteq File /\ IsFiniteSet(c.upper)
      /\ c.pointer \in Pointer
    BY <1>3, LevelCounts DEF CompactionOf, Files, FiniteSubsetsOf
<1>5. added \in FiniteSubsetsOf(Nat \X File)
    <2> DEFINE pair == [f \in c.upper |-> <<c.level + 1, f>>]
    <2>1. IsFiniteSet({pair[f] : f \in c.upper})
        <3>1. DOMAIN pair = c.upper
            OBVIOUS
        <3> HIDE DEF pair
        <3> QED BY <3>1, <1>4, ImageIsFinite
    <2>2. added = {pair[f] : f \in c.upper}
        OBVIOUS
    <2>3. added \subseteq Nat \X File
        BY <1>4
    <2> QED BY <2>1, <2>2, <2>3 DEF FiniteSubsetsOf
<1>6. {p[2] : p \in added} = c.upper
    <2>1. \A p \in added : p[2] \in c.upper
        OBVIOUS
    <2>2. \A f \in c.upper : \E p \in added : f = p[2]
        <3> TAKE f \in c.upper
        <3>1. <<c.level + 1, f>> \in added /\ f = <<c.level + 1, f>>[2]
            OBVIOUS
        <3> QED BY <3>1
    <2> HIDE DEF added
    <2> QED BY <2>1, <2>2
<1>7. {<<c.level, f.number>> : f \in c.upper} \subseteq Nat \X Nat
    BY <1>4 DEF File
<1> HIDE DEF added
<1>8. e \in Edit
    BY <1>1, <1>4, <1>5, <1>7 DEF Edit
<1>9. e.log = logNumber /\ e.next = nextFile' /\ e.added = added
    OBVIOUS
<1> HIDE DEF e
<1>10. /\ bg' \in Thread /\ bg'.pc = "edit" /\ bg'.edit = e
       /\ bg'.c = bg.c /\ bg'.input = bg.input /\ bg'.outputs = bg.outputs
    BY <1>1, <1>2, <1>8 DEF Thread
<1>11. DiskTyped' /\ OneFilePerNumber' /\ tables' = tables
    BY <1>1, PartsStay DEF disk
<1>12. Safe(bg.outputs, nextFile)'
    BY <1>1, <1>10, <1>11 DEF OpenSafe, Safe
<1>13. Safe(Added(bg.edit), nextFile)'
    <2>1. Added(bg.edit)' = c.upper
        BY <1>6, <1>9, <1>10 DEF Added
    <2> QED BY <1>1, <1>3, <1>11, <2>1 DEF OpenSafe, Safe
<1>14. pointers' \in [Levels -> Pointer]
    BY <1>1, <1>4 DEF ObjectTyped
<1>15. MergeInput(bg') = MergeInput(bg) /\ logNumber <= mem
    BY <1>1, <1>10 DEF MergeInput, MemTables
<1> QED BY <1>1, <1>9, <1>10, <1>11, <1>12, <1>13, <1>14, <1>15, ThreadWorks DEF disk

LEMMA StartMergeKeeps ==
    ASSUME DBInv, StartMerge
    PROVE  DBInv'
<1> USE DEF DBInv
<1> DEFINE c == PickCompaction(version, pointers, seek)
           kept == Kept(version, c, SmallestSnapshot)
<1>1. /\ bg.pc = "start" /\ ~bgError /\ imm = Nil
      /\ bg' = [bg EXCEPT !.pc = "merge", !.kind = "merge", !.c = c, !.input = version, !.left = kept]
      /\ pointers' = [pointers EXCEPT ![c.level] = c.pointer]
      /\ UNCHANGED <<disk, nextFile, logNumber, manifest, version, memory, writing, reading,
                     history, status, lastSeq, seek, bgError, budget>>
      /\ status = "open" /\ nextFile \in Nat /\ bg \in Thread /\ version \in Version
    BY DEF StartMerge, Quiet, ObjectTyped
<1>2. c.level \in 0 .. NumLevels - 2 /\ c \in CompactionOf
    BY <1>1, Picked
<1> HIDE DEF c
<1>3. c.level \in Levels /\ c.pointer \in Pointer /\ kept \in Entries
    BY <1>2, LevelCounts, KeptTyped DEF CompactionOf
<1>4. /\ bg' \in Thread /\ bg'.pc = "merge" /\ bg'.c = c /\ bg'.input = version /\ bg'.outputs = bg.outputs
    <2> HIDE DEF kept
    <2> QED BY <1>1, <1>2, <1>3 DEF Thread
<1>5. DiskTyped' /\ OneFilePerNumber' /\ tables' = tables
    BY <1>1, PartsStay DEF disk
<1>6. Safe(bg.outputs, nextFile)'
    BY <1>1, <1>4, <1>5 DEF OpenSafe, Safe
<1>7. pointers' \in [Levels -> Pointer]
    BY <1>1, <1>3 DEF ObjectTyped
<1>8. MergeInput(bg') \subseteq MergeInput(bg) \cup {version}
    BY <1>4 DEF MergeInput
<1> QED BY <1>1, <1>2, <1>4, <1>5, <1>6, <1>7, <1>8, ThreadWorks DEF disk

LEMMA WriteOutputKeeps ==
    ASSUME DBInv, WriteOutput
    PROVE  DBInv'
<1> USE DEF DBInv
<1> DEFINE f == [number |-> nextFile, entries |-> FirstOutput(bg.left)]
<1>1. /\ bg.pc = "merge" /\ bg.left # {} /\ nextFile' = nextFile + 1 /\ status = "open"
      /\ UNCHANGED <<logs, descriptors, current, memory, reading, history, status, lastSeq,
                   seek, queue, group, logNumber, manifest, version, pointers>>
      /\ nextFile \in Nat /\ nextFile' \in Nat /\ nextFile <= nextFile' /\ bg \in Thread
      /\ bg.c \in CompactionOf
    BY DEF WriteOutput, Quiet, ObjectTyped
<1>2. f \in File /\ f.number = nextFile
    <2>1. bg.left \in Entries
        BY <1>1 DEF Thread
    <2>2. FirstOutput(bg.left) \in Entries \ {{}}
        BY <1>1, <2>1, FirstOutputTyped
    <2> QED BY <1>1, <2>2 DEF File
<1>3. BudgetTyped'
    BY BudgetStays DEF WriteOutput, WritersTyped
<1> HIDE DEF f
<1>4. CASE Fails("table") /\ BackgroundError(FALSE) /\ UNCHANGED tables
    <2>1. bgError' = TRUE /\ front' = Signal(front) /\ bg' = Idle
        BY <1>4, BackgroundErrorIs
    <2> QED BY <1>1, <1>3, <1>4, <2>1, BackgroundStops DEF disk
<1>5. CASE /\ tables' = AddTables({f})
           /\ bg' = [bg EXCEPT !.left = @ \ f.entries, !.outputs = @ \cup {f}]
           /\ UNCHANGED <<bgError, front, budget>>
    <2>1. /\ DiskTyped' /\ OneFilePerNumber' /\ f \in tables'
          /\ \A g \in tables : g.number < nextFile => g \in tables'
        BY <1>1, <1>2, <1>5, DiskWithTable
    <2>2. bg.left \ f.entries \in Entries
        BY <1>1, FinitePart DEF Thread, Entries
    <2>3. bg.outputs \cup {f} \in Files
        BY <1>1, <1>2, FS_AddElement DEF Thread, Files, FiniteSubsetsOf
    <2>4. /\ bg' \in Thread /\ bg'.pc = "merge" /\ bg'.c = bg.c /\ bg'.input = bg.input
          /\ bg'.outputs = bg.outputs \cup {f}
        BY <1>1, <1>5, <2>2, <2>3 DEF Thread
    <2>5. Safe(bg.outputs, nextFile)'
        <3>1. bg.outputs \subseteq tables' /\ \A g \in bg.outputs : g.number < nextFile'
            BY <1>1, <2>1, OutputsStay
        <3> QED BY <1>1, <1>2, <2>1, <2>4, <3>1 DEF Safe
    <2>6. MergeInput(bg') = MergeInput(bg) /\ pointers' \in [Levels -> Pointer]
        BY <1>1, <2>4 DEF MergeInput, ObjectTyped
    <2> QED BY <1>1, <1>5, <2>1, <2>4, <2>5, <2>6, ThreadWorks DEF writing
<1> QED BY <1>4, <1>5 DEF WriteOutput, f

LEMMA FinishMergeKeeps ==
    ASSUME DBInv, FinishMerge
    PROVE  DBInv'
<1> USE DEF DBInv
<1> DEFINE c == bg.c
           deleted == {<<c.level, f.number>> : f \in c.upper} \cup {<<c.level + 1, f.number>> : f \in c.lower}
           added == {<<c.level + 1, f>> : f \in bg.outputs}
           e == [deleted |-> deleted, added |-> added,
                 pointers |-> {<<c.level, c.pointer>>}, log |-> logNumber,
                 next |-> nextFile', seq |-> lastSeq]
<1>1. /\ bg.pc = "merge" /\ nextFile' = nextFile
      /\ UNCHANGED <<disk, logNumber, manifest, version, pointers, memory, writing, reading,
                     history, status, lastSeq, seek, bgError, budget>>
      /\ status = "open" /\ nextFile \in Nat /\ logNumber \in Nat /\ lastSeq \in Nat /\ bg \in Thread
      /\ c \in CompactionOf
    BY DEF FinishMerge, Quiet, ObjectTyped
<1>2. bg' = [bg EXCEPT !.pc = "edit", !.kind = "merge", !.edit = e]
    <2> DEFINE d == CompactionEdit(bg.c, bg.outputs)
    <2>1. bg' = BeginEdit("merge", d.deleted, d.added, {<<bg.c.level, bg.c.pointer>>}, logNumber)
        BY DEF FinishMerge
    <2>2. d.deleted = deleted /\ d.added = added
        BY DEF CompactionEdit
    <2> HIDE DEF d, deleted, added
    <2> QED BY <2>1, <2>2 DEF BeginEdit
<1>3. /\ c.level \in Nat /\ c.upper \subseteq File /\ c.lower \subseteq File /\ c.pointer \in Pointer
      /\ bg.outputs \subseteq File /\ IsFiniteSet(bg.outputs)
    BY <1>1, LevelCounts DEF CompactionOf, Thread, Files, FiniteSubsetsOf
<1> HIDE DEF c
<1>4. added \in FiniteSubsetsOf(Nat \X File)
    <2> DEFINE pair == [f \in bg.outputs |-> <<c.level + 1, f>>]
    <2>1. IsFiniteSet({pair[f] : f \in bg.outputs})
        <3>1. DOMAIN pair = bg.outputs
            OBVIOUS
        <3> HIDE DEF pair
        <3> QED BY <3>1, <1>3, ImageIsFinite
    <2>2. added = {pair[f] : f \in bg.outputs}
        OBVIOUS
    <2>3. added \subseteq Nat \X File
        BY <1>3
    <2> QED BY <2>1, <2>2, <2>3 DEF FiniteSubsetsOf
<1>5. {p[2] : p \in added} = bg.outputs
    <2>1. \A p \in added : p[2] \in bg.outputs
        OBVIOUS
    <2>2. \A f \in bg.outputs : \E p \in added : f = p[2]
        <3> TAKE f \in bg.outputs
        <3>1. <<c.level + 1, f>> \in added /\ f = <<c.level + 1, f>>[2]
            OBVIOUS
        <3> QED BY <3>1
    <2> HIDE DEF added
    <2> QED BY <2>1, <2>2
<1>6. deleted \subseteq Nat \X Nat
    BY <1>3 DEF File
<1> HIDE DEF added, deleted
<1>7. e \in Edit
    BY <1>1, <1>3, <1>4, <1>6 DEF Edit
<1>8. e.log = logNumber /\ e.next = nextFile' /\ e.added = added
    OBVIOUS
<1> HIDE DEF e
<1>9. /\ bg' \in Thread /\ bg'.pc = "edit" /\ bg'.edit = e
      /\ bg'.c = bg.c /\ bg'.input = bg.input /\ bg'.outputs = bg.outputs
    BY <1>1, <1>2, <1>7 DEF Thread
<1>10. DiskTyped' /\ OneFilePerNumber' /\ tables' = tables
    BY <1>1, PartsStay DEF disk
<1>11. Safe(bg.outputs, nextFile)' /\ Safe(Added(bg.edit), nextFile)'
    <2>1. Added(bg.edit)' = bg.outputs
        BY <1>5, <1>8, <1>9 DEF Added
    <2> QED BY <1>1, <1>9, <1>10, <2>1 DEF OpenSafe, Safe
<1>12. pointers' \in [Levels -> Pointer]
    BY <1>1 DEF ObjectTyped
<1>13. MergeInput(bg') = MergeInput(bg) /\ logNumber <= mem
    BY <1>1, <1>9 DEF MergeInput, MemTables
<1> QED BY <1>1, <1>8, <1>9, <1>10, <1>11, <1>12, <1>13, ThreadWorks DEF disk

LEMMA AppendEditKeeps ==
    ASSUME DBInv, AppendEdit
    PROVE  DBInv'
<1> USE DEF DBInv
<1> DEFINE d == descriptors[current]
           e == bg.edit
           g == [base |-> d.base, edits |-> Append(d.edits, e), synced |-> d.synced]
           last == Len(d.edits)
<1>1. /\ bg.pc = "edit" /\ status = "open" /\ current = manifest /\ bg \in Thread /\ nextFile \in Nat
      /\ UNCHANGED <<logs, tables, current, files, memory, reading, history, status, lastSeq,
                     seek, queue, group>>
    BY DEF AppendEdit, Quiet, ObjectTyped, DescriptorFollows
<1>2. BudgetTyped'
    BY BudgetStays DEF AppendEdit, WritersTyped
<1>3. CASE /\ Fails("manifest") /\ BackgroundError(Merging /\ bg.kind = "flush")
           /\ UNCHANGED descriptors
    <2>1. /\ bgError' = TRUE /\ front' = Signal(front)
          /\ bg' = Idle \/ (Merging /\ bg' = [bg EXCEPT !.pc = "merge", !.kind = "merge"])
        BY <1>3, BackgroundErrorIs
    <2> QED BY <1>1, <1>2, <1>3, <2>1, BackgroundStops DEF disk, files
<1>4. CASE /\ descriptors' = [descriptors EXCEPT ![manifest].edits = Append(@, bg.edit)]
           /\ bg' = [bg EXCEPT !.pc = "sync"]
           /\ UNCHANGED <<bgError, front, budget>>
    <2>1. /\ e \in Edit /\ e.next \in Nat /\ bg' \in Thread /\ bg'.pc = "sync" /\ bg'.c = bg.c
          /\ bg'.input = bg.input /\ bg'.outputs = bg.outputs /\ bg'.edit = e
        BY <1>1, <1>4 DEF Thread, Edit
    <2>2. d \in Descriptor /\ d.synced \in Nat /\ last \in Nat /\ d.synced <= last
          /\ d.edits \in Seq(Edit) /\ d.base \in State
          /\ \A n \in d.synced .. last : Replay(d, n) \in State /\ Replay(d, n).next \in Nat
        BY DescriptorNumbers DEF Descriptor
    <2>3. current \in DOMAIN descriptors /\ d = [base |-> d.base, edits |-> d.edits, synced |-> d.synced]
        BY <2>2 DEF DiskTyped, Descriptor
    <2> HIDE DEF e
    <2>4. /\ descriptors' = [descriptors EXCEPT ![current] = g]
        <3>1. [d EXCEPT !.edits = Append(@, e)] = g
            <4>1. [d EXCEPT !.edits = Append(@, e)] = [d EXCEPT !.edits = Append(d.edits, e)]
                BY <2>3
            <4> QED BY <2>3
        <3> QED BY <1>1, <1>4, <3>1 DEF e
    <2>5. /\ g.edits \in Seq(Edit) /\ Len(g.edits) = last + 1 /\ g.edits[last + 1] = e
          /\ \A n \in 1 .. last : g.edits[n] = d.edits[n]
          /\ g.base = d.base /\ g.synced = d.synced /\ g \in Descriptor
        BY <2>1, <2>2 DEF Descriptor
    <2>6. /\ DOMAIN descriptors' = DOMAIN descriptors /\ descriptors'[current] = g
          /\ \A n \in DOMAIN descriptors' : n # current => descriptors'[n] = descriptors[n]
        BY <2>3, <2>4 DEF DiskTyped
    <2> HIDE DEF g, d, last
    <2>7. DiskTyped'
        <3>1. \A n \in DOMAIN descriptors' : /\ descriptors'[n] \in Descriptor
                                             /\ descriptors'[n].synced <= Len(descriptors'[n].edits)
            <4> TAKE n \in DOMAIN descriptors'
            <4>1. CASE n = current
                BY <2>2, <2>5, <2>6, <4>1
            <4>2. CASE n # current
                BY <2>6, <4>2 DEF DiskTyped
            <4> QED BY <4>1, <4>2
        <3>2. descriptors' \in [DOMAIN descriptors' -> Descriptor]
            BY <2>4, <2>6, <3>1 DEF DiskTyped
        <3> QED BY <1>1, <2>3, <2>6, <3>1, <3>2 DEF DiskTyped
    <2>8. \A n \in d.synced .. last : Replay(g, n) = Replay(d, n)
        <3> TAKE n \in d.synced .. last
        <3>1. n \in Nat /\ SameEdits(g, d, n)
            BY <2>2, <2>5 DEF SameEdits
        <3> QED BY <3>1, ReplaySame
    <2>9. Replay(g, last + 1) = Apply(Replay(d, last), e)
        <3>1. last + 1 \in Nat /\ last + 1 # 0 /\ last + 1 - 1 = last /\ last \in d.synced .. last
            BY <2>2
        <3>2. Replay(g, last + 1) = Apply(Replay(g, last + 1 - 1), g.edits[last + 1])
            BY <3>1, ReplayStep
        <3> QED BY <2>5, <2>8, <3>1, <3>2
    <2>10. /\ last \in d.synced .. last /\ Replay(d, last) \in State /\ Replay(d, last).version \in Version
           /\ Replay(d, last).next \in Nat /\ Replay(d, last).pointers \in [Levels -> Pointer]
        BY <2>2 DEF State
    <2>11. /\ Replay(g, last + 1).version = SaveTo(Replay(d, last).version, e)
           /\ Replay(g, last + 1).next = e.next
        BY <2>1, <2>9, <2>10, ApplyTyped
    <2>12. FilesOf(Replay(g, last + 1).version) \subseteq FilesOf(Replay(d, last).version) \cup Added(e)
        BY <2>1, <2>10, <2>11, SaveToTyped
    <2>13. \A n \in d.synced .. last : Replay(d, n).next <= e.next
        BY <1>1 DEF DescriptorFollows, d, e, last
    <2>14. /\ \A n \in d.synced .. last :
                 /\ Safe(FilesOf(Replay(d, n).version), Replay(d, n).next)
                 /\ current < Replay(d, n).next
                 /\ \A m \in d.synced .. n : Replay(d, m).next <= Replay(d, n).next
        BY DEF DescriptorSafe, d, last
    <2>15. Safe(Added(e), e.next) /\ e.next <= nextFile
        BY <1>1 DEF OpenSafe, e
    <2>16. Safe(FilesOf(Replay(g, last + 1).version), Replay(g, last + 1).next)
        <3>1. Safe(FilesOf(Replay(d, last).version), e.next)
            BY <2>1, <2>10, <2>13, <2>14, SafeLater
        <3> QED BY <2>11, <2>12, <2>15, <3>1 DEF Safe
    <2>17. current < e.next
        <3>1. current \in Nat
            BY DEF DiskTyped
        <3> QED BY <2>1, <2>10, <2>13, <2>14, <3>1
    <2>18. \A n \in d.synced .. last + 1 :
                 /\ Safe(FilesOf(Replay(g, n).version), Replay(g, n).next)
                 /\ current < Replay(g, n).next
                 /\ \A m \in d.synced .. n : Replay(g, m).next <= Replay(g, n).next
        <3> TAKE n \in d.synced .. last + 1
        <3>1. CASE n = last + 1
            <4>1. \A m \in d.synced .. n : Replay(g, m).next <= Replay(g, n).next
                <5> TAKE m \in d.synced .. n
                <5>1. CASE m = last + 1
                    BY <2>1, <2>11, <3>1, <5>1
                <5>2. CASE m # last + 1
                    <6>1. m \in d.synced .. last
                        BY <2>2, <3>1, <5>2
                    <6> QED BY <2>8, <2>11, <2>13, <3>1, <6>1
                <5> QED BY <5>1, <5>2
            <4> QED BY <2>11, <2>16, <2>17, <3>1, <4>1
        <3>2. CASE n # last + 1
            <4>1. n \in d.synced .. last /\ \A m \in d.synced .. n : m \in d.synced .. last
                BY <2>2, <3>2
            <4> QED BY <2>8, <2>14, <4>1
        <3> QED BY <3>1, <3>2
    <2>19. DescriptorSafe'
        BY <1>1, <2>5, <2>6, <2>18 DEF DescriptorSafe, Safe
    <2>20. DescriptorFollows'
        <3>1. \A n \in d.synced .. last + 1 : Replay(g, n).next <= nextFile
            <4> TAKE n \in d.synced .. last + 1
            <4>1. CASE n = last + 1
                BY <2>11, <2>15, <4>1
            <4>2. CASE n # last + 1
                <5>1. n \in d.synced .. last
                    BY <2>2, <4>2
                <5> QED BY <1>1, <2>8, <5>1 DEF DescriptorFollows, d, last
            <4> QED BY <4>1, <4>2
        <3>2. ~bgError => Replay(g, last + 1).version = SaveTo(version, e)
            <4>1. ~bgError => Replay(d, last).version = version
                BY <1>1 DEF DescriptorFollows, Saved, d, last
            <4> QED BY <2>11, <4>1
        <3>3. Saved' = Replay(g, last + 1)
            BY <1>1, <2>5, <2>6 DEF Saved
        <3> QED BY <1>1, <1>4, <2>1, <2>5, <2>6, <3>1, <3>2, <3>3, ZenonT(30) DEF DescriptorFollows, files
    <2>21. ObjectTyped'
        BY <1>1, <1>4, <2>1 DEF ObjectTyped, files, memory, reading
    <2>22. WritersTyped' /\ FrontWorks' /\ SeekTyped' /\ OneFilePerNumber'
        BY <1>1, <1>4, PartsStay DEF writing, memory, files
    <2>23. Quiet' /\ OpeningSafe' /\ Scheduled'
        BY <1>1, <2>1 DEF Quiet, OpeningSafe, Scheduled
    <2>24. MemTables'
        BY <1>1, <2>1 DEF MemTables, memory, files, e
    <2>25. OpenSafe'
        <3>1. nextFile' = nextFile /\ nextFile <= nextFile /\ UNCHANGED <<tables, status, version, iterators>>
            BY <1>1 DEF files, reading
        <3> QED BY <1>1, <2>1, <3>1, OpenSafeLater DEF MergeInput, e
    <2> QED BY <2>7, <2>19, <2>20, <2>21, <2>22, <2>23, <2>24, <2>25
<1> QED BY <1>3, <1>4 DEF AppendEdit

-----------------------------------------------------------------------------
(* Garbage. *)

LEMMA GarbageCollected ==
    ASSUME NEW versions, NEW pending, tables' = LiveTables(versions, pending)
    PROVE  /\ tables' \subseteq tables
           /\ \A v \in versions : FilesOf(v) \subseteq tables => FilesOf(v) \subseteq tables'
           /\ pending \subseteq tables => pending \subseteq tables'
<1> DEFINE live == pending \cup UNION {FilesOf(v) : v \in versions}
<1>1. tables' = {f \in tables : \E g \in live : g.number = f.number}
    BY DEF LiveTables
<1>2. pending \subseteq live /\ \A v \in versions : FilesOf(v) \subseteq live
    OBVIOUS
<1> HIDE DEF live
<1>3. tables' \subseteq tables /\ \A f \in tables : f \in live => f \in tables'
    BY <1>1
<1> QED BY <1>2, <1>3

LEMMA LogsLeft ==
    ASSUME DiskTyped, NEW first \in Nat, logs' = LeaveFrom(first, logs)
    PROVE  /\ DOMAIN logs' \subseteq DOMAIN logs /\ IsFiniteSet(DOMAIN logs')
           /\ logs' \in [DOMAIN logs' -> Log]
           /\ \A n \in DOMAIN logs' : logs'[n].synced <= Len(logs'[n].records)
           /\ \A n \in DOMAIN logs : first <= n => n \in DOMAIN logs'
<1>1. /\ DOMAIN logs' = {n \in DOMAIN logs : n >= first}
      /\ \A n \in DOMAIN logs' : logs'[n] = logs[n]
      /\ logs' = [n \in DOMAIN logs' |-> logs'[n]]
    BY DEF LeaveFrom
<1>2. DOMAIN logs' \subseteq DOMAIN logs /\ IsFiniteSet(DOMAIN logs')
    BY <1>1, FS_Subset DEF DiskTyped
<1>3. \A n \in DOMAIN logs : n \in Nat
    BY DEF DiskTyped
<1>4. \A n \in DOMAIN logs' : logs'[n] \in Log /\ logs'[n].synced <= Len(logs'[n].records)
    BY <1>1, <1>2 DEF DiskTyped
<1>5. logs' \in [DOMAIN logs' -> Log]
    BY <1>1, <1>4
<1>6. \A n \in DOMAIN logs : first <= n => n \in DOMAIN logs'
    BY <1>1, <1>3
<1> QED BY <1>2, <1>4, <1>5, <1>6

LEMMA InstallVersionKeeps ==
    ASSUME DBInv, InstallVersion
    PROVE  DBInv'
<1> USE DEF DBInv
<1> DEFINE d == descriptors[current]
           e == bg.edit
           last == Len(d.edits)
           g == [base |-> d.base, edits |-> d.edits, synced |-> last]
           all == [descriptors EXCEPT ![current] = g]
           installed == SaveTo(version, e)
<1>1. /\ bg.pc = "sync" /\ status = "open" /\ current = manifest /\ bg \in Thread /\ version \in Version
      /\ nextFile \in Nat /\ mem \in Nat /\ manifest \in Nat
      /\ version' = installed /\ logNumber' = e.log /\ seek' = {}
      /\ UNCHANGED <<current, nextFile, manifest, pointers, mem, reading, history, status,
                     lastSeq, bgError, queue, group, budget>>
    BY DEF InstallVersion, Quiet, ObjectTyped, DescriptorFollows, MemTables, DiskTyped
<1>2. e \in Edit /\ e.log \in Nat /\ e.next \in Nat /\ e.log <= mem
    BY <1>1 DEF Thread, Edit, MemTables
<1>3. d \in Descriptor /\ d.synced \in Nat /\ last \in Nat /\ d.synced <= last
      /\ last \in d.synced .. last
    BY DescriptorNumbers
<1>4. Replay(d, last) \in State /\ Replay(d, last).next \in Nat /\ Replay(d, last) = Saved
    BY <1>3, DescriptorNumbers DEF Saved
<1>5. /\ version' \in Version
      /\ FilesOf(version') \subseteq FilesOf(version) \cup Added(e)
    BY <1>1, <1>2, SaveToTyped
<1>6. Safe(FilesOf(version'), nextFile)
    <2>1. Safe(FilesOf(version), nextFile) /\ Safe(Added(e), e.next) /\ e.next <= nextFile
        BY <1>1 DEF OpenSafe
    <2>2. Safe(Added(e), nextFile)
        BY <1>1, <1>2, <2>1, SafeLater
    <2> QED BY <1>5, <2>1, <2>2 DEF Safe
<1>7. /\ bg.kind = "flush" => imm' = Nil /\ memtables' = KeepMemTables(mem, Nil, OpenIterators)
      /\ bg.kind # "flush" => UNCHANGED <<imm, memtables>>
    BY DEF InstallVersion
<1>8. /\ memtables' \in [DOMAIN memtables' -> Entries]
      /\ mem' \in DOMAIN memtables'
      /\ imm' # Nil => imm' \in DOMAIN memtables' /\ imm' \in Nat
    <2>1. mem \in DOMAIN memtables /\ memtables \in [DOMAIN memtables -> Entries] /\ mem' = mem
        BY <1>1 DEF MemTables, ObjectTyped
    <2>2. CASE bg.kind = "flush"
        BY <1>7, <2>1, <2>2, KeepMemTablesTyped
    <2>3. CASE bg.kind # "flush"
        BY <1>7, <2>1, <2>3 DEF MemTables
    <2> QED BY <2>2, <2>3
<1>9. front' = Signal(front)
    BY DEF InstallVersion, EndCall
<1>10. \/ /\ Merging
          /\ bg' = [bg EXCEPT !.pc = "merge", !.kind = "merge"]
       \/ bg' = MaybeSchedule(Idle, bgError, imm', version', {})
    BY DEF InstallVersion, EndCall
<1>11. /\ bg' \in Thread /\ bg'.pc \in {"idle", "start", "merge"}
       /\ bg'.pc = "merge" => bg'.c \in CompactionOf
       /\ MergeInput(bg') \subseteq MergeInput(bg) /\ bg'.outputs \subseteq bg.outputs
       /\ bg'.pc # "merge" => (bg'.pc = "start" <=> ~bgError /\ (imm' # Nil \/ NeedsCompaction(version', {})))
    <2>1. CASE Merging /\ bg' = [bg EXCEPT !.pc = "merge", !.kind = "merge"]
        <3>1. bg' \in Thread /\ bg'.pc = "merge" /\ bg'.c = bg.c /\ bg'.input = bg.input /\ bg'.outputs = bg.outputs
            BY <1>1, <2>1 DEF Thread
        <3>2. bg'.c \in CompactionOf
            BY <1>1, <2>1, <3>1 DEF Merging, Thread
        <3> QED BY <2>1, <3>1, <3>2 DEF MergeInput
    <2>2. CASE bg' = MaybeSchedule(Idle, bgError, imm', version', {})
        <3>1. Idle.pc = "idle" /\ Idle.c = Nil /\ Idle.outputs = {}
            BY DEF Idle
        <3>2. /\ bg' \in Thread /\ bg'.pc \in {"idle", "start"} /\ bg'.c = Nil /\ bg'.outputs = {}
              /\ bg'.pc = "start" <=> ~bgError /\ (imm' # Nil \/ NeedsCompaction(version', {}))
            BY <2>2, <3>1, IdleTyped, ScheduleTyped
        <3>3. MergeInput(bg') = {}
            BY <3>2 DEF MergeInput
        <3> QED BY <3>2, <3>3
    <2> QED BY <1>10, <2>1, <2>2
<1>12. all = [descriptors EXCEPT ![manifest].synced = Len(descriptors[manifest].edits)]
    <2>1. d = [base |-> d.base, edits |-> d.edits, synced |-> d.synced]
        BY <1>3 DEF Descriptor
    <2>2. [d EXCEPT !.synced = last] = g
        BY <2>1
    <2> QED BY <1>1, <2>2
<1>13. g \in Descriptor /\ g.base = d.base /\ g.edits = d.edits /\ g.synced = last
    BY <1>3 DEF Descriptor
<1>14. Replay(g, last) = Replay(d, last)
    BY <1>3, <1>13, ReplaySame DEF SameEdits
<1> HIDE DEF g, last, e, installed
<1>15. /\ current \in DOMAIN all /\ DOMAIN all = DOMAIN descriptors /\ all[current] = g
       /\ \A n \in DOMAIN all : all[n] \in Descriptor /\ all[n].synced <= Len(all[n].edits)
    <2>1. /\ current \in DOMAIN all /\ DOMAIN all = DOMAIN descriptors /\ all[current] = g
          /\ \A n \in DOMAIN all : n # current => all[n] = descriptors[n]
        BY DEF DiskTyped
    <2>2. last <= Len(g.edits)
        BY <1>3, <1>13 DEF last
    <2> HIDE DEF all
    <2>3. \A n \in DOMAIN all : all[n] \in Descriptor /\ all[n].synced <= Len(all[n].edits)
        <3> TAKE n \in DOMAIN all
        <3>1. CASE n = current
            BY <1>13, <2>1, <2>2, <3>1
        <3>2. CASE n # current
            BY <2>1, <3>2 DEF DiskTyped
        <3> QED BY <3>1, <3>2
    <2> QED BY <2>1, <2>3
<1> DEFINE kept == {version'} \cup HeldVersions \cup MergeInput(bg')
<1>16. \/ /\ bg.kind = "move" \/ bgError
          /\ descriptors' = all /\ UNCHANGED <<logs, tables>>
       \/ /\ ~bgError
          /\ tables' = LiveTables(kept, bg'.outputs)
          /\ logs' = LeaveFrom(logNumber', logs)
          /\ descriptors' = LeaveFrom(manifest, all)
    BY <1>12 DEF InstallVersion
<1>17. /\ tables' \subseteq tables
       /\ FilesOf(version') \subseteq tables'
       /\ \A v \in HeldVersions \cup MergeInput(bg') : FilesOf(v) \subseteq tables'
       /\ bg'.outputs \subseteq tables'
       /\ FilesOf(Replay(d, last).version) \subseteq tables'
    <2>1. /\ FilesOf(version') \subseteq tables
          /\ \A v \in HeldVersions \cup MergeInput(bg') : FilesOf(v) \subseteq tables
          /\ bg'.outputs \subseteq tables
          /\ FilesOf(Replay(d, last).version) \subseteq tables
        <3>1. \A v \in HeldVersions \cup MergeInput(bg) : FilesOf(v) \subseteq tables
            BY <1>1 DEF OpenSafe, Safe
        <3>2. bg.outputs \subseteq tables
            BY <1>1 DEF OpenSafe, Safe
        <3>3. FilesOf(Replay(d, last).version) \subseteq tables
            BY <1>3 DEF DescriptorSafe, Safe, last
        <3> QED BY <1>6, <1>11, <3>1, <3>2, <3>3 DEF Safe
    <2>2. CASE UNCHANGED tables
        BY <2>1, <2>2
    <2>3. CASE ~bgError /\ tables' = LiveTables(kept, bg'.outputs)
        <3>1. Replay(d, last).version = version'
            BY <1>1, <1>4, <2>3 DEF DescriptorFollows, e, installed
        <3>2. /\ version' \in kept
              /\ \A v \in HeldVersions \cup MergeInput(bg') : v \in kept
            OBVIOUS
        <3> HIDE DEF kept
        <3>3. /\ tables' \subseteq tables
              /\ \A v \in kept : FilesOf(v) \subseteq tables => FilesOf(v) \subseteq tables'
              /\ bg'.outputs \subseteq tables => bg'.outputs \subseteq tables'
            BY <2>3, GarbageCollected
        <3> QED BY <2>1, <3>1, <3>2, <3>3
    <2> QED BY <1>16, <2>2, <2>3
<1>18. /\ DOMAIN logs' \subseteq DOMAIN logs /\ IsFiniteSet(DOMAIN logs')
       /\ logs' \in [DOMAIN logs' -> Log]
       /\ \A n \in DOMAIN logs' : logs'[n].synced <= Len(logs'[n].records)
       /\ mem' \in DOMAIN logs'
    <2>1. mem \in DOMAIN logs
        BY <1>1 DEF MemTables
    <2>2. CASE UNCHANGED logs
        BY <1>1, <2>1, <2>2 DEF DiskTyped
    <2>3. CASE logs' = LeaveFrom(logNumber', logs)
        BY <1>1, <1>2, <2>1, <2>3, LogsLeft
    <2> QED BY <1>16, <2>2, <2>3
<1>19. /\ DOMAIN descriptors' \subseteq DOMAIN descriptors
       /\ descriptors' \in [DOMAIN descriptors' -> Descriptor]
       /\ \A n \in DOMAIN descriptors' : descriptors'[n].synced <= Len(descriptors'[n].edits)
       /\ current \in DOMAIN descriptors' /\ descriptors'[current] = g
    <2>1. CASE descriptors' = all
        <3>1. descriptors' = [n \in DOMAIN descriptors' |-> descriptors'[n]]
            BY <2>1 DEF DiskTyped
        <3> HIDE DEF all
        <3> QED BY <1>15, <2>1, <3>1
    <2>2. CASE descriptors' = LeaveFrom(manifest, all)
        <3>1. /\ DOMAIN descriptors' = {n \in DOMAIN all : n >= manifest}
              /\ \A n \in DOMAIN descriptors' : descriptors'[n] = all[n]
              /\ descriptors' = [n \in DOMAIN descriptors' |-> descriptors'[n]]
            BY <2>2 DEF LeaveFrom
        <3> HIDE DEF all
        <3> QED BY <1>1, <1>15, <3>1
    <2> QED BY <1>16, <2>1, <2>2
<1> HIDE DEF all, kept
<1>20. DiskTyped'
    BY <1>1, <1>17, <1>18, <1>19 DEF DiskTyped
<1>21. ObjectTyped'
    BY <1>1, <1>2, <1>5, <1>8, <1>11 DEF ObjectTyped, reading
<1>22. front' # "waiting" /\ (front' = "none" <=> front = "none") /\ front' \in Fronts
       /\ (front' \in {"log", "sync", "insert", "publish", "failed", "unsynced"} => front' = front)
    BY <1>9 DEF Signal, WritersTyped, Fronts
<1>23. WritersTyped'
    BY <1>1, <1>22 DEF WritersTyped, BudgetTyped
<1>24. FrontWorks'
    BY <1>1, <1>22 DEF FrontWorks
<1>25. Quiet' /\ OpeningSafe'
    BY <1>1 DEF Quiet, OpeningSafe
<1>26. Scheduled'
    <2>1. WorkToDo' <=> imm' # Nil \/ NeedsCompaction(version', {})
        BY <1>1 DEF WorkToDo
    <2> QED BY <1>1, <1>11, <2>1 DEF Scheduled
<1>27. SeekTyped'
    BY <1>1 DEF SeekTyped
<1>28. MemTables'
    BY <1>1, <1>2, <1>8, <1>11, <1>18 DEF MemTables
<1>29. OneFilePerNumber'
    BY <1>17 DEF OneFilePerNumber
<1>30. DescriptorSafe'
    <2>1. /\ Safe(FilesOf(Replay(d, last).version), Replay(d, last).next)
          /\ current < Replay(d, last).next
        BY <1>3 DEF DescriptorSafe, last
    <2>2. /\ FilesOf(Replay(g, last).version) \subseteq tables'
          /\ \A f \in FilesOf(Replay(g, last).version) : f.number < Replay(g, last).next
          /\ current < Replay(g, last).next /\ Replay(g, last).next <= Replay(g, last).next
        BY <1>4, <1>14, <1>17, <2>1 DEF Safe
    <2>3. \A n \in g.synced .. Len(g.edits) : n = last
        BY <1>3, <1>13 DEF last
    <2>4. \A n \in g.synced .. Len(g.edits) : \A m \in g.synced .. n : n = last /\ m = last
        BY <1>3, <1>13 DEF last
    <2> HIDE DEF d
    <2> QED BY <1>1, <1>19, <2>2, <2>3, <2>4 DEF DescriptorSafe, Safe
<1>31. OpenSafe'
    <2>1. /\ \A f \in FilesOf(version') : f.number < nextFile
          /\ \A v \in HeldVersions \cup MergeInput(bg') : \A f \in FilesOf(v) : f.number < nextFile
          /\ \A f \in bg'.outputs : f.number < nextFile
        BY <1>1, <1>6, <1>11 DEF OpenSafe, Safe
    <2>2. HeldVersions' = HeldVersions
        BY <1>1 DEF HeldVersions, OpenIterators, reading
    <2>3. MergeInput(bg)' = MergeInput(bg')
        BY DEF MergeInput
    <2>4. bg'.pc \notin {"edit", "sync"} /\ nextFile' = nextFile
        BY <1>1, <1>11
    <2> QED BY <1>17, <2>1, <2>2, <2>3, <2>4 DEF OpenSafe, Safe
<1>32. DescriptorFollows'
    <2>1. \A n \in g.synced .. Len(g.edits) : n = last
        BY <1>3, <1>13 DEF last
    <2>2. Replay(g, last).next <= nextFile
        BY <1>1, <1>3, <1>14 DEF DescriptorFollows, last
    <2>3. Saved' = Replay(g, last)
        BY <1>1, <1>13, <1>19 DEF Saved, last
    <2>4. ~bgError => Replay(g, last).version = version'
        BY <1>1, <1>4, <1>14 DEF DescriptorFollows, e, installed
    <2> HIDE DEF d
    <2> QED BY <1>1, <1>11, <1>19, <2>1, <2>2, <2>3, <2>4 DEF DescriptorFollows
<1> QED BY <1>20, <1>21, <1>23, <1>24, <1>25, <1>26, <1>27, <1>28, <1>29, <1>30, <1>31, <1>32

-----------------------------------------------------------------------------
(* The end of the process and of the machine. *)

LEMMA ProcessCrashKeeps ==
    ASSUME DBInv, ProcessCrash
    PROVE  DBInv'
<1>1. BudgetTyped'
    BY BudgetStays DEF ProcessCrash, DBInv, WritersTyped
<1>2. ClosedInv'
    <2>1. ClosedObject'
        BY <1>1 DEF ProcessCrash, Closed, ClosedObject
    <2> QED BY <2>1, ClosedPartsLater
<1>3. DiskTyped' /\ OneFilePerNumber' /\ DescriptorSafe'
    BY PartsStay DEF ProcessCrash, DBInv, disk
<1> QED BY <1>2, <1>3 DEF DBInv, ClosedInv

\* A descriptor that has lost edits yields less.
LEMMA DescriptorCut ==
    ASSUME NEW d \in Descriptor, NEW n \in 0 .. Len(d.edits)
    PROVE  LET g == [base |-> d.base, edits |-> SubSeq(d.edits, 1, n), synced |-> n]
           IN g \in Descriptor /\ Len(g.edits) = n /\ g.synced = n /\ Replay(g, n) = Replay(d, n)
<1> DEFINE kept == SubSeq(d.edits, 1, n)
           g == [base |-> d.base, edits |-> kept, synced |-> n]
<1>1. d.base \in State /\ d.edits \in Seq(Edit) /\ Len(d.edits) \in Nat /\ n \in Nat /\ n <= Len(d.edits)
    BY DEF Descriptor
<1>2. \A i \in 1 .. n : i \in 1 .. Len(d.edits) /\ d.edits[i] \in Edit
    BY <1>1
<1>3. kept \in Seq(Edit) /\ Len(kept) = n /\ \A i \in 1 .. n : kept[i] = d.edits[i]
    <2>1. /\ kept \in Seq(Edit)
          /\ Len(kept) = IF 1 <= n THEN n - 1 + 1 ELSE 0
          /\ \A i \in 1 .. n - 1 + 1 : kept[i] = d.edits[1 + i - 1]
        BY <1>1, <1>2, SubSeqProperties
    <2> HIDE DEF kept
    <2> QED BY <1>1, <2>1
<1> HIDE DEF kept
<1>4. g \in Descriptor /\ Len(g.edits) = n /\ g.synced = n
    BY <1>1, <1>3 DEF Descriptor
<1>5. SameEdits(g, d, n)
    BY <1>3 DEF SameEdits
<1> HIDE DEF g
<1>6. Replay(g, n) = Replay(d, n)
    BY <1>1, <1>5, ReplaySame
<1> QED BY <1>4, <1>6 DEF g, kept

LEMMA MachineCrashKeeps ==
    ASSUME DBInv, MachineCrash
    PROVE  DBInv'
<1> USE DEF DBInv
<1> DEFINE d == descriptors[current]
<1>1. BudgetTyped'
    BY BudgetStays DEF MachineCrash, WritersTyped
<1>2. ClosedInv'
    <2>1. ClosedObject'
        BY <1>1 DEF MachineCrash, Closed, ClosedObject
    <2> QED BY <2>1, ClosedPartsLater
<1>3. UNCHANGED <<tables, current>>
    BY DEF MachineCrash
<1>4. /\ DOMAIN logs' = DOMAIN logs
      /\ logs' \in [DOMAIN logs -> Log]
      /\ \A n \in DOMAIN logs : logs'[n].synced <= Len(logs'[n].records)
    <2>1. PICK cut : /\ \A n \in DOMAIN logs : cut[n] \in logs[n].synced .. Len(logs[n].records)
                     /\ logs' = [n \in DOMAIN logs |-> [records |-> SubSeq(logs[n].records, 1, cut[n]),
                                                        synced  |-> cut[n]]]
        BY DEF MachineCrash
    <2>2. ASSUME NEW n \in DOMAIN logs
          PROVE  logs'[n] \in Log /\ logs'[n].synced <= Len(logs'[n].records)
        <3> DEFINE records == logs[n].records
                   kept == SubSeq(records, 1, cut[n])
        <3>1. records \in Seq(Entries \cup {Nil}) /\ Len(records) \in Nat /\ logs[n].synced \in Nat
            BY <2>2 DEF DiskTyped, Log
        <3>2. cut[n] \in logs[n].synced .. Len(records)
            BY <2>1, <2>2
        <3>3. logs'[n] = [records |-> kept, synced |-> cut[n]]
            BY <2>1, <2>2
        <3> HIDE DEF records
        <3>4. cut[n] \in Nat /\ cut[n] <= Len(records)
            BY <3>1, <3>2
        <3>5. kept \in Seq(Entries \cup {Nil}) /\ Len(kept) = cut[n]
            <4>1. \A i \in 1 .. cut[n] : i \in 1 .. Len(records) /\ records[i] \in Entries \cup {Nil}
                BY <3>1, <3>4
            <4>2. kept \in Seq(Entries \cup {Nil}) /\ Len(kept) = IF 1 <= cut[n] THEN cut[n] - 1 + 1 ELSE 0
                BY <3>4, <4>1, SubSeqProperties
            <4> HIDE DEF kept
            <4> QED BY <3>4, <4>2
        <3> HIDE DEF kept
        <3> QED BY <3>3, <3>4, <3>5 DEF Log
    <2> QED BY <2>1, <2>2
<1>5. PICK n \in d.synced .. Len(d.edits) :
          descriptors' = [descriptors EXCEPT ![current] =
                             [base |-> d.base, edits |-> SubSeq(d.edits, 1, n), synced |-> n]]
    BY DEF MachineCrash
<1>6. d \in Descriptor /\ d.synced \in Nat /\ Len(d.edits) \in Nat /\ n \in 0 .. Len(d.edits)
    <2>1. d \in Descriptor /\ d.synced \in Nat /\ Len(d.edits) \in Nat
        BY DescriptorNumbers
    <2> HIDE DEF d
    <2> QED BY <2>1
<1> DEFINE g == [base |-> d.base, edits |-> SubSeq(d.edits, 1, n), synced |-> n]
<1>7. g \in Descriptor /\ Len(g.edits) = n /\ g.synced = n /\ Replay(g, n) = Replay(d, n)
    BY <1>6, DescriptorCut
<1>8. descriptors' = [descriptors EXCEPT ![current] = g]
    BY <1>5
<1>9. /\ Safe(FilesOf(Replay(d, n).version), Replay(d, n).next)
      /\ current < Replay(d, n).next
      /\ Replay(d, n).next \in Nat
    BY <1>5, DescriptorNumbers DEF DescriptorSafe
<1> HIDE DEF g, d
<1>10. /\ current \in DOMAIN descriptors /\ DOMAIN descriptors' = DOMAIN descriptors
       /\ descriptors'[current] = g /\ descriptors' \in [DOMAIN descriptors -> Descriptor]
       /\ \A m \in DOMAIN descriptors : descriptors'[m].synced <= Len(descriptors'[m].edits)
    <2>1. /\ current \in DOMAIN descriptors /\ DOMAIN descriptors' = DOMAIN descriptors
          /\ descriptors'[current] = g
          /\ \A m \in DOMAIN descriptors : m # current => descriptors'[m] = descriptors[m]
        BY <1>8 DEF DiskTyped
    <2>2. g.synced <= Len(g.edits)
        BY <1>6, <1>7
    <2>3. descriptors' \in [DOMAIN descriptors -> Descriptor]
        BY <1>7, <1>8 DEF DiskTyped
    <2> QED BY <2>1, <2>2, <2>3 DEF DiskTyped
<1>11. DiskTyped' /\ OneFilePerNumber'
    BY <1>3, <1>4, <1>10 DEF DiskTyped, OneFilePerNumber
<1>12. DescriptorSafe'
    <2>1. /\ FilesOf(Replay(g, n).version) \subseteq tables
          /\ \A f \in FilesOf(Replay(g, n).version) : f.number < Replay(g, n).next
          /\ current < Replay(g, n).next /\ Replay(g, n).next <= Replay(g, n).next
        BY <1>7, <1>9 DEF Safe
    <2>2. \A m \in g.synced .. Len(g.edits) : m = n /\ \A l \in g.synced .. m : l = n
        BY <1>6, <1>7
    <2> QED BY <1>3, <1>10, <2>1, <2>2 DEF DescriptorSafe, Safe
<1> QED BY <1>2, <1>11, <1>12 DEF ClosedInv

-----------------------------------------------------------------------------
(* Opening. *)

\* What the descriptor yields when nothing of it is lost.
LEMMA SavedSafe ==
    ASSUME DiskTyped, DescriptorSafe
    PROVE  /\ Saved \in State /\ Saved.next \in Nat
           /\ Safe(FilesOf(Saved.version), Saved.next)
           /\ current < Saved.next /\ current \in Nat
           /\ LET d == descriptors[current]
              IN \A n \in d.synced .. Len(d.edits) : Replay(d, n).next <= Saved.next
<1> DEFINE d == descriptors[current]
           last == Len(d.edits)
<1>1. d.synced \in Nat /\ last \in Nat /\ last \in d.synced .. last /\ Saved = Replay(d, last)
    BY DescriptorNumbers DEF Saved
<1>2. Saved \in State /\ Saved.next \in Nat
    BY <1>1, DescriptorNumbers
<1>3. /\ Safe(FilesOf(Saved.version), Saved.next)
      /\ current < Saved.next
      /\ \A n \in d.synced .. last : Replay(d, n).next <= Saved.next
    BY <1>1 DEF DescriptorSafe
<1>4. current \in Nat
    BY DEF DiskTyped
<1> QED BY <1>2, <1>3, <1>4

\* The sequence numbers that the logs hold.
LogSeqs(old) == {e.seq : e \in UNION {UNION Range(Readable(logs[n].records)) : n \in old}}

LEMMA LogSeqsTyped ==
    ASSUME DiskTyped, NEW old, old \subseteq DOMAIN logs, NEW seq \in Nat
    PROVE  Greatest(LogSeqs(old) \cup {seq}) \in Nat
<1> DEFINE found == [n \in old |-> UNION Range(Readable(logs[n].records))]
           all == UNION {found[n] : n \in old}
<1>1. \A n \in old : found[n] \in Entries
    <2> TAKE n \in old
    <2> DEFINE records == Readable(logs[n].records)
    <2>1. records \in Seq(Entries)
        BY ReadableTyped DEF DiskTyped, Log
    <2> HIDE DEF records
    <2>2. DOMAIN records = 1 .. Len(records) /\ Len(records) \in Nat
        BY <2>1
    <2>3. IsFiniteSet(DOMAIN records)
        BY <2>2, FS_Interval
    <2>4. IsFiniteSet(Range(records))
        BY <2>3, ImageIsFinite DEF Range
    <2>5. \A T \in Range(records) : T \in Entries
        BY <2>1, <2>2 DEF Range
    <2>6. IsFiniteSet(UNION Range(records)) /\ UNION Range(records) \subseteq Entry
        BY <2>4, <2>5, FS_UNION DEF Entries, FiniteSubsetsOf
    <2>7. UNION Range(records) \in Entries
        BY <2>6 DEF Entries, FiniteSubsetsOf
    <2> QED BY <2>7 DEF records
<1>2. all = UNION {UNION Range(Readable(logs[n].records)) : n \in old}
    OBVIOUS
<1>3. IsFiniteSet(all) /\ all \subseteq Entry
    <2>1. IsFiniteSet(old) /\ DOMAIN found = old
        BY FS_Subset DEF DiskTyped
    <2> HIDE DEF found
    <2>2. IsFiniteSet({found[n] : n \in old})
        BY <2>1, ImageIsFinite
    <2>3. \A T \in {found[n] : n \in old} : IsFiniteSet(T) /\ T \subseteq Entry
        BY <1>1 DEF Entries, FiniteSubsetsOf
    <2> QED BY <2>2, <2>3, FS_UNION
<1> HIDE DEF all
<1>4. IsFiniteSet(LogSeqs(old)) /\ LogSeqs(old) \subseteq Nat
    <2> DEFINE seqOf == [e \in all |-> e.seq]
    <2>1. LogSeqs(old) = {seqOf[e] : e \in all}
        BY <1>2 DEF LogSeqs
    <2>2. \A e \in all : seqOf[e] \in Nat
        BY <1>3 DEF Entry
    <2>3. DOMAIN seqOf = all
        OBVIOUS
    <2> HIDE DEF seqOf
    <2>4. IsFiniteSet({seqOf[e] : e \in all})
        BY <1>3, <2>3, ImageIsFinite
    <2> QED BY <2>1, <2>2, <2>4
<1> DEFINE S == LogSeqs(old) \cup {seq}
<1>5. IsFiniteSet(S) /\ S \subseteq Nat /\ S # {}
    BY <1>4, FS_AddElement
<1> HIDE DEF S
<1>6. Greatest(S) \in S
    <2>1. S \subseteq Int
        BY <1>5
    <2> QED BY <1>5, <2>1, GreatestIs
<1> QED BY <1>5, <1>6 DEF S

\* The thread that opens, and its edit.
OpeningThread(made, log, next, seq) ==
    [Idle EXCEPT !.kind = "open",
        !.edit = [deleted |-> {}, added |-> {<<0, f>> : f \in made},
                  pointers |-> {}, log |-> log, next |-> next, seq |-> seq]]

LEMMA OpeningThreadTyped ==
    ASSUME NEW made \in Files, NEW log \in Nat, NEW next \in Nat, NEW seq \in Nat
    PROVE  LET b == OpeningThread(made, log, next, seq)
           IN /\ b \in Thread /\ b.pc = "idle" /\ b.c = Nil /\ b.outputs = {}
              /\ b.edit.log = log /\ b.edit.next = next /\ Added(b.edit) = made
<1> DEFINE pair == [f \in made |-> <<0, f>>]
           added == {<<0, f>> : f \in made}
           e == [deleted |-> {}, added |-> added, pointers |-> {}, log |-> log, next |-> next, seq |-> seq]
           b == [Idle EXCEPT !.kind = "open", !.edit = e]
<1>1. IsFiniteSet(made) /\ made \subseteq File
    BY DEF Files, FiniteSubsetsOf
<1>2. added \subseteq Nat \X File
    BY <1>1
<1>3. IsFiniteSet(added)
    <2>1. added = {pair[f] : f \in made} /\ DOMAIN pair = made
        OBVIOUS
    <2> HIDE DEF pair, added
    <2> QED BY <2>1, <1>1, ImageIsFinite
<1>4. {p[2] : p \in added} = made
    <2>1. \A f \in made : <<0, f>> \in added /\ <<0, f>>[2] = f
        OBVIOUS
    <2>2. \A p \in added : p[2] \in made
        OBVIOUS
    <2> HIDE DEF added
    <2>3. \A f \in made : \E p \in added : p[2] = f
        BY <2>1
    <2> QED BY <2>2, <2>3
<1> HIDE DEF added
<1>5. e \in Edit /\ e.log = log /\ e.next = next /\ Added(e) = made
    BY <1>2, <1>3, <1>4 DEF Edit, FiniteSubsetsOf, Added
<1> HIDE DEF e
<1>6. b \in Thread /\ b.pc = "idle" /\ b.c = Nil /\ b.outputs = {} /\ b.edit = e
    <2>1. Idle \in Thread /\ Idle.pc = "idle" /\ Idle.c = Nil /\ Idle.outputs = {}
        BY IdleTyped DEF Idle
    <2> QED BY <1>5, <2>1 DEF Thread
<1>7. b = OpeningThread(made, log, next, seq)
    BY DEF OpeningThread, e, added
<1> HIDE DEF b
<1> QED BY <1>5, <1>6, <1>7

LEMMA RecoverKeeps ==
    ASSUME DBInv, Recover
    PROVE  DBInv'
<1> USE DEF DBInv
<1> DEFINE saved == Saved
           old   == {n \in DOMAIN logs : n >= saved.log}
           none  == [next |-> saved.next + 1, left |-> {}, made |-> {}]
           done  == RecoverLogs(old, none)
<1>1. /\ saved \in State /\ saved.next \in Nat
      /\ Safe(FilesOf(saved.version), saved.next)
      /\ current < saved.next /\ current \in Nat
      /\ \A n \in descriptors[current].synced .. Len(descriptors[current].edits) :
            Replay(descriptors[current], n).next <= saved.next
    BY SavedSafe
<1>2. /\ status = "closed" /\ status' = "recovered"
      /\ tables' = AddTables(done.made)
      /\ manifest' = saved.next
      /\ mem' = done.next
      /\ memtables' = [n \in {done.next} |-> {}]
      /\ logs' = [n \in DOMAIN logs \cup {done.next} |->
                     IF n = done.next THEN [records |-> <<>>, synced |-> 0] ELSE logs[n]]
      /\ nextFile' = done.next + 1
      /\ lastSeq' = Greatest(LogSeqs(old) \cup {saved.seq})
      /\ logNumber' = saved.log
      /\ version' = saved.version
      /\ pointers' = saved.pointers
      /\ bg' = OpeningThread(done.made, done.next, nextFile', lastSeq')
      /\ UNCHANGED <<descriptors, current, imm, seek, bgError, writing, reading, history, budget>>
    BY DEF Recover, OpeningThread, LogSeqs
<1>3. old \subseteq DOMAIN logs
    OBVIOUS
<1>4. MakesTables(none, saved.next + 1) /\ none.left = {}
    <2>1. {} \in Files /\ {} \in Entries
        BY FS_EmptySet DEF Files, Entries, FiniteSubsetsOf
    <2> QED BY <1>1, <2>1 DEF MakesTables, Accumulator
<1> HIDE DEF saved, old, none
<1>5. MakesTables(done, saved.next + 1)
    BY <1>1, <1>3, <1>4, RecoverLogsKeeps
<1> HIDE DEF done
<1>6. /\ done.next \in Nat /\ done.made \in Files
      /\ saved.next + 1 <= done.next
      /\ \A f \in done.made : saved.next + 1 <= f.number /\ f.number < done.next
      /\ \A f, g \in done.made : f.number = g.number => f = g
    BY <1>5 DEF MakesTables, Accumulator
<1>7. /\ saved.version \in Version /\ saved.pointers \in [Levels -> Pointer]
      /\ saved.log \in Nat /\ saved.seq \in Nat
    BY <1>1 DEF State
<1>8. lastSeq' \in Nat
    BY <1>2, <1>3, <1>7, LogSeqsTyped
<1>9. nextFile' \in Nat /\ manifest' \in Nat /\ manifest' < nextFile' /\ manifest' # current
      /\ mem' \in Nat /\ mem' < nextFile'
    BY <1>1, <1>2, <1>6
<1>10. /\ tables' \subseteq File /\ OneFilePerNumber' /\ done.made \subseteq tables'
       /\ \A f \in tables : f.number < saved.next + 1 => f \in tables'
    BY <1>1, <1>2, <1>6, TablesAdded
<1>11. DescriptorSafe'
    <2>1. \A n \in descriptors[current].synced .. Len(descriptors[current].edits) :
              Replay(descriptors[current], n).next <= saved.next + 1
        BY <1>1, DescriptorNumbers
    <2>2. saved.next + 1 \in Nat
        BY <1>1
    <2> QED BY <1>2, <1>10, <2>1, <2>2, DescriptorStaysSafe
<1>12. DiskTyped'
    <2>1. DOMAIN logs \subseteq Nat /\ IsFiniteSet(DOMAIN logs) /\ logs \in [DOMAIN logs -> Log]
          /\ \A n \in DOMAIN logs : logs[n].synced <= Len(logs[n].records)
        BY DEF DiskTyped
    <2>2. DOMAIN logs' = DOMAIN logs \cup {done.next}
        BY <1>2
    <2>3. DOMAIN logs' \subseteq Nat /\ IsFiniteSet(DOMAIN logs')
        BY <1>6, <2>1, <2>2, FS_AddElement
    <2>4. [records |-> <<>>, synced |-> 0] \in Log /\ Len(<<>>) = 0
        BY EmptySeq DEF Log
    <2>5. \A n \in DOMAIN logs' : logs'[n] \in Log /\ logs'[n].synced <= Len(logs'[n].records)
        <3> TAKE n \in DOMAIN logs'
        <3>1. CASE n = done.next
            <4>1. logs'[n] = [records |-> <<>>, synced |-> 0]
                BY <1>2, <3>1
            <4> QED BY <2>4, <4>1
        <3>2. CASE n # done.next
            <4>1. logs'[n] = logs[n] /\ n \in DOMAIN logs
                BY <1>2, <2>2, <3>2
            <4> QED BY <2>1, <4>1
        <3> QED BY <3>1, <3>2
    <2>6. logs' \in [DOMAIN logs' -> Log]
        BY <1>2, <2>2, <2>5
    <2> QED BY <1>2, <1>10, <2>3, <2>5, <2>6 DEF DiskTyped
<1>13. /\ bg' \in Thread /\ bg'.pc = "idle" /\ bg'.c = Nil /\ bg'.outputs = {}
       /\ bg'.edit.log = done.next /\ bg'.edit.next = nextFile' /\ Added(bg'.edit) = done.made
    <2>1. ASSUME NEW next \in Nat, NEW seq \in Nat, NEW b, b = OpeningThread(done.made, done.next, next, seq)
          PROVE  /\ b \in Thread /\ b.pc = "idle" /\ b.c = Nil /\ b.outputs = {}
                 /\ b.edit.log = done.next /\ b.edit.next = next /\ Added(b.edit) = done.made
        BY <1>6, <2>1, OpeningThreadTyped
    <2>2. nextFile' \in Nat /\ lastSeq' \in Nat
          /\ bg' = OpeningThread(done.made, done.next, nextFile', lastSeq')
        BY <1>2, <1>8, <1>9
    <2> QED BY <2>1, <2>2
<1>14. queue = <<>> /\ imm = Nil /\ ~bgError /\ seek = {} /\ front = "none"
       /\ (\A r \in Readers : iterators[r] = Nil)
    BY <1>2 DEF Quiet, FrontWorks
<1>15. ObjectTyped'
    <2>1. memtables' \in [DOMAIN memtables' -> Entries]
        BY <1>2, FS_EmptySet DEF Entries, FiniteSubsetsOf
    <2> QED BY <1>2, <1>7, <1>8, <1>9, <1>13, <2>1 DEF ObjectTyped, reading
<1>16. WritersTyped'
    BY <1>2, PartsStay
<1>17. Quiet'
    BY <1>2, <1>13, <1>14 DEF Quiet, writing, reading
<1>18. FrontWorks'
    BY <1>2, <1>14 DEF FrontWorks, writing
<1>19. Scheduled'
    BY <1>2, <1>13 DEF Scheduled
<1>20. SeekTyped'
    BY <1>2, <1>14 DEF SeekTyped
<1>21. MemTables'
    <2>1. mem' \in DOMAIN memtables' /\ mem' \in DOMAIN logs'
        BY <1>2
    <2> QED BY <1>2, <1>9, <1>13, <1>14, <2>1 DEF MemTables
<1>22. OpeningSafe'
    <2>1. FilesOf(version') \subseteq tables' /\ \A f \in FilesOf(version') : f.number < nextFile'
        <3>1. /\ FilesOf(saved.version) \subseteq tables'
              /\ \A f \in FilesOf(saved.version) : f.number < saved.next
            <4>1. saved.next + 1 \in Nat /\ saved.next <= saved.next + 1
                BY <1>1
            <4> QED BY <1>1, <1>10, <4>1, SafeBelow
        <3>2. \A f \in FilesOf(saved.version) : f.number \in Nat
            BY <1>10, <3>1 DEF File
        <3> QED BY <1>1, <1>2, <1>6, <3>1, <3>2
    <2>2. Added(bg'.edit) \subseteq tables' /\ \A f \in Added(bg'.edit) : f.number < nextFile'
        <3>1. \A f \in done.made : f.number \in Nat
            BY <1>6 DEF Files, FiniteSubsetsOf, File
        <3>2. \A f \in done.made : f.number < nextFile'
            BY <1>2, <1>6, <3>1
        <3> QED BY <1>10, <1>13, <3>2
    <2> QED BY <1>2, <1>9, <1>13, <2>1, <2>2 DEF OpeningSafe, Safe
<1>23. OpenSafe' /\ DescriptorFollows'
    BY <1>2 DEF OpenSafe, DescriptorFollows
<1> QED BY <1>10, <1>11, <1>12, <1>15, <1>16, <1>17, <1>18, <1>19, <1>20, <1>21, <1>22, <1>23

\* The descriptor of an opening holds the version it will install.
LEMMA OpeningState ==
    ASSUME DBInv, status \in {"recovered", "described", "pointed"}
    PROVE  LET state == Apply([version |-> version, pointers |-> pointers], bg.edit)
           IN /\ state \in State /\ state.version = SaveTo(version, bg.edit)
              /\ state.next = nextFile
              /\ SaveTo(version, bg.edit) \in Version
              /\ Safe(FilesOf(SaveTo(version, bg.edit)), nextFile)
<1> USE DEF DBInv
<1> DEFINE before == [version |-> version, pointers |-> pointers]
<1>1. before.version = version /\ before.pointers = pointers
    OBVIOUS
<1> HIDE DEF before
<1>2. bg.edit \in Edit /\ version \in Version /\ pointers \in [Levels -> Pointer]
    BY DEF ObjectTyped, Thread
<1>3. /\ Apply(before, bg.edit) \in State
      /\ Apply(before, bg.edit).version = SaveTo(version, bg.edit)
      /\ Apply(before, bg.edit).next = bg.edit.next
    BY <1>1, <1>2, ApplyTyped
<1>4. /\ SaveTo(version, bg.edit) \in Version
      /\ FilesOf(SaveTo(version, bg.edit)) \subseteq FilesOf(version) \cup Added(bg.edit)
    BY <1>2, SaveToTyped
<1>5. Safe(FilesOf(version), nextFile) /\ Safe(Added(bg.edit), nextFile) /\ bg.edit.next = nextFile
    BY DEF OpeningSafe
<1>6. Safe(FilesOf(SaveTo(version, bg.edit)), nextFile)
    BY <1>4, <1>5 DEF Safe
<1> QED BY <1>3, <1>4, <1>5, <1>6 DEF before

LEMMA WriteDescriptorKeeps ==
    ASSUME DBInv, WriteDescriptor
    PROVE  DBInv'
<1> USE DEF DBInv
<1> DEFINE state == Apply([version |-> version, pointers |-> pointers], bg.edit)
           new == [base |-> state, edits |-> <<>>, synced |-> 0]
<1>1. /\ status = "recovered" /\ status' = "described"
      /\ descriptors' = [n \in DOMAIN descriptors \cup {manifest} |->
                            IF n = manifest THEN new ELSE descriptors[n]]
      /\ UNCHANGED <<logs, tables, current, files, memory, writing, reading, history, lastSeq,
                     seek, bgError, bg, budget>>
    BY DEF WriteDescriptor
<1>2. state \in State
    BY <1>1, OpeningState
<1>3. manifest \in Nat /\ manifest # current
    BY <1>1 DEF ObjectTyped, OpeningSafe
<1> HIDE DEF state
<1>4. new \in Descriptor /\ new.synced <= Len(new.edits)
    BY <1>2, EmptySeq DEF Descriptor
<1> HIDE DEF new
<1>5. /\ DOMAIN descriptors' = DOMAIN descriptors \cup {manifest}
      /\ descriptors'[manifest] = new
      /\ \A n \in DOMAIN descriptors : n # manifest => descriptors'[n] = descriptors[n]
    BY <1>1
<1>6. descriptors'[current] = descriptors[current] /\ current' = current
    BY <1>1, <1>3, <1>5 DEF DiskTyped
<1>7. DiskTyped'
    <2>1. DOMAIN descriptors' \subseteq Nat
        BY <1>3, <1>5 DEF DiskTyped
    <2>2. \A n \in DOMAIN descriptors' :
              descriptors'[n] \in Descriptor /\ descriptors'[n].synced <= Len(descriptors'[n].edits)
        BY <1>4, <1>5 DEF DiskTyped
    <2>3. descriptors' \in [DOMAIN descriptors' -> Descriptor]
        BY <1>1, <1>5, <2>2
    <2> QED BY <1>1, <1>5, <2>1, <2>2, <2>3 DEF DiskTyped
<1>8. DescriptorSafe'
    BY <1>1, <1>6 DEF DescriptorSafe, Safe
<1>9. OpeningSafe'
    <2>1. /\ Safe(FilesOf(version), nextFile)' /\ Safe(Added(bg.edit), nextFile)'
          /\ bg'.edit.next = nextFile' /\ manifest' < nextFile' /\ manifest' # current'
        BY <1>1 DEF OpeningSafe, Safe, files
    <2>2. /\ manifest' \in DOMAIN descriptors'
          /\ descriptors'[manifest'] =
                [base   |-> Apply([version |-> version', pointers |-> pointers'], bg'.edit),
                 edits  |-> <<>>, synced |-> 0]
        BY <1>1, <1>5 DEF files, new, state
    <2> QED BY <1>1, <2>1, <2>2 DEF OpeningSafe
<1>10. ObjectTyped' /\ Quiet' /\ MemTables' /\ Scheduled'
    BY <1>1 DEF ObjectTyped, Quiet, MemTables, Scheduled, files, memory, reading, writing
<1>11. OpenSafe' /\ DescriptorFollows'
    BY <1>1 DEF OpenSafe, DescriptorFollows
<1>12. WritersTyped' /\ FrontWorks' /\ SeekTyped' /\ OneFilePerNumber'
    BY <1>1, PartsStay DEF files, memory
<1> QED BY <1>7, <1>8, <1>9, <1>10, <1>11, <1>12

LEMMA SetCurrentFileKeeps ==
    ASSUME DBInv, SetCurrentFile
    PROVE  DBInv'
<1> USE DEF DBInv
<1> DEFINE state == Apply([version |-> version, pointers |-> pointers], bg.edit)
           new == [base |-> state, edits |-> <<>>, synced |-> 0]
<1>1. /\ status = "described" /\ status' = "pointed" /\ current' = manifest
      /\ UNCHANGED <<logs, tables, descriptors, files, memory, writing, reading, history,
                     lastSeq, seek, bgError, bg, budget>>
    BY DEF SetCurrentFile
<1>2. /\ state \in State /\ state.next = nextFile
      /\ Safe(FilesOf(state.version), nextFile)
    BY <1>1, OpeningState
<1>3. manifest \in DOMAIN descriptors /\ descriptors[manifest] = new /\ manifest < nextFile
    BY <1>1 DEF OpeningSafe
<1>4. DiskTyped'
    BY <1>1, <1>3 DEF DiskTyped
<1>5. DescriptorSafe'
    <2>1. descriptors'[current'] = new
        BY <1>1, <1>3
    <2>2. new.base = state /\ new.synced = 0 /\ Len(new.edits) = 0
        BY EmptySeq
    <2> HIDE DEF new, state
    <2>3. Replay(new, 0) = state
        BY <2>2, ReplayStarts
    <2>4. nextFile \in Nat /\ state.next <= state.next
        BY <1>2 DEF ObjectTyped
    <2>5. /\ FilesOf(state.version) \subseteq tables'
          /\ \A f \in FilesOf(state.version) : f.number < state.next
          /\ current' < state.next
        BY <1>1, <1>2, <1>3 DEF Safe
    <2>6. \A n \in new.synced .. Len(new.edits) : n = 0 /\ \A m \in new.synced .. n : m = 0
        BY <2>2
    <2> QED BY <2>1, <2>3, <2>4, <2>5, <2>6 DEF DescriptorSafe, Safe
<1>6. OpeningSafe'
    BY <1>1 DEF OpeningSafe, Safe, files
<1>7. ObjectTyped' /\ Quiet' /\ MemTables' /\ Scheduled'
    BY <1>1 DEF ObjectTyped, Quiet, MemTables, Scheduled, files, memory, reading, writing
<1>8. OpenSafe' /\ DescriptorFollows'
    BY <1>1 DEF OpenSafe, DescriptorFollows, files
<1>9. WritersTyped' /\ FrontWorks' /\ SeekTyped' /\ OneFilePerNumber'
    BY <1>1, PartsStay DEF files, memory
<1> QED BY <1>4, <1>5, <1>6, <1>7, <1>8, <1>9

LEMMA FinishOpenKeeps ==
    ASSUME DBInv, FinishOpen
    PROVE  DBInv'
<1> USE DEF DBInv
<1> DEFINE state == Apply([version |-> version, pointers |-> pointers], bg.edit)
           new == [base |-> state, edits |-> <<>>, synced |-> 0]
<1>1. /\ status = "pointed" /\ status' = "open"
      /\ version' = SaveTo(version, bg.edit)
      /\ logNumber' = bg.edit.log
      /\ tables' = LiveTables({version'}, {})
      /\ logs' = LeaveFrom(logNumber', logs)
      /\ descriptors' = LeaveFrom(manifest, descriptors)
      /\ bg' = MaybeSchedule(Idle, FALSE, Nil, version', {})
      /\ UNCHANGED <<current, nextFile, manifest, pointers, memory, writing, reading, lastSeq,
                     seek, bgError, budget>>
    BY DEF FinishOpen
<1>2. /\ state \in State /\ state.version = version' /\ state.next = nextFile
      /\ version' \in Version
      /\ FilesOf(version') \subseteq tables /\ \A f \in FilesOf(version') : f.number < nextFile
    BY <1>1, OpeningState DEF Safe
<1>3. /\ manifest \in DOMAIN descriptors /\ descriptors[manifest] = new /\ manifest < nextFile
      /\ current = manifest /\ nextFile \in Nat /\ manifest \in Nat
    BY <1>1 DEF OpeningSafe, DescriptorFollows, ObjectTyped
<1>4. /\ logNumber' = mem /\ mem \in DOMAIN logs /\ mem \in DOMAIN memtables /\ mem \in Nat
      /\ mem < nextFile /\ bg.edit.log \in Nat
    BY <1>1 DEF MemTables, DiskTyped, ObjectTyped, Thread, Edit
<1>5. /\ queue = <<>> /\ imm = Nil /\ ~bgError /\ seek = {} /\ front = "none"
      /\ \A r \in Readers : iterators[r] = Nil
    BY <1>1 DEF Quiet, FrontWorks
<1>6. /\ bg' \in Thread /\ bg'.c = Nil /\ bg'.outputs = {} /\ bg'.pc \in {"idle", "start"}
      /\ bg'.pc = "start" <=> NeedsCompaction(version', {})
    <2>1. Idle \in Thread /\ Idle.pc = "idle" /\ Idle.c = Nil /\ Idle.outputs = {}
        BY IdleTyped DEF Idle
    <2>2. CASE NeedsCompaction(version', {})
        <3>1. bg' = [Idle EXCEPT !.pc = "start"]
            BY <1>1, <2>1, <2>2 DEF MaybeSchedule
        <3> QED BY <2>1, <2>2, <3>1 DEF Thread
    <2>3. CASE ~NeedsCompaction(version', {})
        <3>1. bg' = Idle
            BY <1>1, <2>3 DEF MaybeSchedule
        <3> QED BY <2>1, <2>3, <3>1
    <2> QED BY <2>2, <2>3
<1> HIDE DEF new, state
<1>7. tables' \subseteq tables /\ FilesOf(version') \subseteq tables'
    <2>1. version' \in {version'}
        OBVIOUS
    <2> QED BY <1>1, <1>2, <2>1, GarbageCollected
<1>8. /\ DOMAIN logs' \subseteq DOMAIN logs /\ IsFiniteSet(DOMAIN logs')
      /\ logs' \in [DOMAIN logs' -> Log]
      /\ \A n \in DOMAIN logs' : logs'[n].synced <= Len(logs'[n].records)
      /\ mem \in DOMAIN logs'
    BY <1>1, <1>4, LogsLeft
<1>9. /\ DOMAIN descriptors' \subseteq DOMAIN descriptors
      /\ descriptors' \in [DOMAIN descriptors' -> Descriptor]
      /\ \A n \in DOMAIN descriptors' : descriptors'[n].synced <= Len(descriptors'[n].edits)
      /\ current' \in DOMAIN descriptors' /\ descriptors'[current'] = new
    <2>1. /\ DOMAIN descriptors' = {n \in DOMAIN descriptors : n >= manifest}
          /\ \A n \in DOMAIN descriptors' : descriptors'[n] = descriptors[n]
          /\ descriptors' = [n \in DOMAIN descriptors' |-> descriptors'[n]]
        BY <1>1 DEF LeaveFrom
    <2> QED BY <1>1, <1>3, <2>1 DEF DiskTyped
<1>10. DiskTyped' /\ OneFilePerNumber'
    BY <1>7, <1>8, <1>9 DEF DiskTyped, OneFilePerNumber
<1>11. Replay(new, 0) = state /\ new.synced = 0 /\ Len(new.edits) = 0
    <2>1. new.base = state /\ new.synced = 0 /\ Len(new.edits) = 0
        BY EmptySeq DEF new
    <2> QED BY <2>1, ReplayStarts
<1>12. \A n \in new.synced .. Len(new.edits) : n = 0 /\ \A m \in new.synced .. n : m = 0
    BY <1>11
<1>13. DescriptorSafe'
    <2>1. state.next <= state.next /\ current' < state.next
        BY <1>1, <1>2, <1>3
    <2>2. FilesOf(state.version) \subseteq tables' /\ \A f \in FilesOf(state.version) : f.number < state.next
        BY <1>2, <1>7
    <2> QED BY <1>9, <1>11, <1>12, <2>1, <2>2 DEF DescriptorSafe, Safe
<1>14. OpenSafe'
    <2>1. HeldVersions' = {} /\ MergeInput(bg') = {}
        BY <1>1, <1>5, <1>6 DEF HeldVersions, OpenIterators, MergeInput, reading
    <2>2. MergeInput(bg)' = MergeInput(bg')
        BY DEF MergeInput
    <2> QED BY <1>1, <1>2, <1>6, <1>7, <2>1, <2>2 DEF OpenSafe, Safe
<1>15. DescriptorFollows'
    <2>1. Saved' = state
        BY <1>9, <1>11 DEF Saved
    <2>2. state.next <= nextFile'
        BY <1>1, <1>2, <1>3
    <2> QED BY <1>1, <1>2, <1>3, <1>6, <1>9, <1>11, <1>12, <2>1, <2>2 DEF DescriptorFollows
<1>16. ObjectTyped'
    BY <1>1, <1>2, <1>4, <1>6 DEF ObjectTyped, memory, reading
<1>17. MemTables'
    <2>1. mem' \in DOMAIN memtables' /\ mem' \in DOMAIN logs' /\ mem' < nextFile' /\ imm' = Nil
        BY <1>1, <1>4, <1>5, <1>8 DEF memory
    <2>2. logNumber' <= mem'
        BY <1>1, <1>4 DEF memory
    <2> QED BY <1>1, <1>6, <2>1, <2>2 DEF MemTables
<1>18. Scheduled'
    <2>1. WorkToDo' <=> NeedsCompaction(version', {})
        BY <1>1, <1>5 DEF WorkToDo, memory
    <2> QED BY <1>1, <1>6, <2>1 DEF Scheduled
<1>19. Quiet' /\ OpeningSafe'
    BY <1>1 DEF Quiet, OpeningSafe
<1>20. FrontWorks' /\ SeekTyped'
    BY <1>1, <1>5 DEF FrontWorks, SeekTyped, writing
<1>21. WritersTyped'
    BY <1>1, PartsStay
<1> QED BY <1>10, <1>13, <1>14, <1>15, <1>16, <1>17, <1>18, <1>19, <1>20, <1>21

-----------------------------------------------------------------------------
(* The induction. *)

LEMMA NextKeeps == DBInv /\ [Next]_vars => DBInv'
<1> SUFFICES ASSUME DBInv, [Next]_vars PROVE DBInv'
    OBVIOUS
<1>1. CASE \E request \in budget.menu : Write(request[1], request[2])
    BY <1>1, WriteKeeps
<1>2. CASE Writing
    BY <1>2, WaitForRoomKeeps, RefuseWriteKeeps, StartWriteKeeps, AppendLogKeeps, SyncLogKeeps,
       InsertIntoKeeps, PublishKeeps DEF Writing
<1>3. CASE Background
    BY <1>3, BackgroundStopKeeps, FlushMemTableKeeps, MoveFileKeeps, StartMergeKeeps,
       WriteOutputKeeps, FinishMergeKeeps, AppendEditKeeps, InstallVersionKeeps, SyncFailsKeeps
       DEF Background
<1>4. CASE Opening
    BY <1>4, RecoverKeeps, WriteDescriptorKeeps, SetCurrentFileKeeps, FinishOpenKeeps DEF Opening
<1>5. CASE GetSnapshot \/ \E i \in DOMAIN snapshots : ReleaseSnapshot(i)
    BY <1>5, SnapshotKeeps
<1>6. CASE \E r \in Readers : NewIterator(r) \/ DeleteIterator(r)
    BY <1>6, NewIteratorKeeps, DeleteIteratorKeeps
<1>7. CASE \E k \in Keys : UseUpSeeks(k)
    BY <1>7, UseUpSeeksKeeps
<1>8. CASE ProcessCrash \/ MachineCrash
    BY <1>8, ProcessCrashKeeps, MachineCrashKeeps
<1>9. CASE UNCHANGED vars
    BY <1>9, PartsStay DEF DBInv, vars, disk, files, memory, writing, reading
<1> QED BY <1>1, <1>2, <1>3, <1>4, <1>5, <1>6, <1>7, <1>8, <1>9 DEF Next

(* The engine keeps its invariant: whatever the order of the writers, the  *)
(* readers and the background thread, the failures of the disk and the     *)
(* ends of the process and the machine (all of db_impl.cc).                *)
THEOREM EngineInvariant == Spec => []DBInv
<1>1. Init => DBInv
    BY InvStarts
<1>2. DBInv /\ [Next]_vars => DBInv'
    BY NextKeeps
<1> QED BY <1>1, <1>2, PTL DEF Spec

-----------------------------------------------------------------------------
(* What it comes to. *)

(* TYPE: every variable keeps the values that its field in db_impl.h and   *)
(* version_set.h can have: CURRENT names a descriptor that is there, an    *)
(* open engine has a memtable with a log, and what imm_ names is still a   *)
(* memtable.                                                               *)
THEOREM TypeCorrect == Spec => []TypeOK
<1>1. DBInv => TypeOK
    <2> SUFFICES ASSUME DBInv PROVE TypeOK
        OBVIOUS
    <2> USE DEF DBInv
    <2>1. \A n \in DOMAIN logs : logs[n].synced \in 0 .. Len(logs[n].records)
        BY DEF DiskTyped, Log
    <2>2. \A f \in File : IsFile(f)
        BY DEF File, IsFile, Entries, FiniteSubsetsOf
    <2>3. IsVersion(version)
        <3>1. version \in Version
            BY DEF ObjectTyped
        <3>2. DOMAIN version = Levels /\ \A f \in FilesOf(version) : f \in File
            BY <3>1 DEF Version, FilesOf, Files, FiniteSubsetsOf
        <3> QED BY <2>2, <3>2 DEF IsVersion
    <2>4. \A f \in tables : IsFile(f)
        BY <2>2 DEF DiskTyped
    <2>5. bg.pc \in {"idle", "start", "merge", "edit", "sync"}
        BY DEF ObjectTyped, Thread
    <2> QED BY <2>1, <2>3, <2>4, <2>5 DEF TypeOK, DiskTyped, ObjectTyped, WritersTyped, MemTables, Fronts
<1> QED BY <1>1, EngineInvariant, PTL

(* SAFETY: a writer that waits in MakeRoomForWrite has a background thread *)
(* to signal it, and the first writer of the queue is never left asleep    *)
(* (background_work_finished_signal_, MaybeScheduleCompaction).            *)
THEOREM WaitersSignalled == Spec => []WaitersAreSignalled
<1>1. DBInv => WaitersAreSignalled
    <2> SUFFICES ASSUME DBInv PROVE WaitersAreSignalled
        OBVIOUS
    <2> USE DEF DBInv
    <2>1. ASSUME front = "waiting"
          PROVE  bg.pc # "idle"
        <3>1. ~bgError /\ MustWait /\ queue # <<>>
            BY <2>1 DEF FrontWorks
        <3>2. status = "open"
            BY <3>1 DEF Quiet
        <3>3. WorkToDo
            <4>1. CASE imm # Nil
                BY <4>1 DEF WorkToDo
            <4>2. CASE Cardinality(version[0]) >= L0Stop
                <5>1. version \in Version
                    BY DEF ObjectTyped
                <5> QED BY <4>2, <5>1, FullLevelNeedsCompaction DEF WorkToDo, NeedsCompaction
            <4> QED BY <3>1, <4>1, <4>2 DEF MustWait
        <3> QED BY <3>1, <3>2, <3>3 DEF Scheduled
    <2>2. queue # <<>> => front # "none"
        BY DEF FrontWorks
    <2> QED BY <2>1, <2>2 DEF WaitersAreSignalled
<1> QED BY <1>1, EngineInvariant, PTL

(* SAFETY: no file is lost that something may still read: DeleteObsolete-  *)
(* Files and the reuse of numbers leave the files of the current version,  *)
(* of the iterators' and the merge's versions, and of every version that   *)
(* opening may build after the process or the machine ends.                *)
THEOREM FilesAreKept == Spec => []FilesKept
<1>1. DBInv => FilesKept
    <2> SUFFICES ASSUME DBInv PROVE FilesKept
        OBVIOUS
    <2> USE DEF DBInv
    <2> DEFINE d == descriptors[current]
    <2>1. \A n \in d.synced .. Len(d.edits) : FilesOf(Replay(d, n).version) \subseteq tables
        BY DEF DescriptorSafe, Safe
    <2>2. status = "open" => \A v \in {version} \cup HeldVersions \cup MergeInput(bg) :
                                FilesOf(v) \subseteq tables
        BY DEF OpenSafe, Safe
    <2> QED BY <2>1, <2>2 DEF FilesKept
<1> QED BY <1>1, EngineInvariant, PTL
=============================================================================
