---------------------------- MODULE DBProperties ----------------------------
(***************************************************************************)
(* What the database engine of DBImpl must keep, whatever the order of its *)
(* threads, the failing of its disk and the end of its process or machine. *)
(***************************************************************************)
EXTENDS DBImpl

Entry == [key : Keys, seq : Nat, kind : {"value", "deletion"}, id : Nat]

IsFile(f) == f.number \in Nat /\ f.entries # {} /\ f.entries \subseteq Entry
IsVersion(v) == DOMAIN v = Levels /\ \A f \in FilesOf(v) : IsFile(f)

(* TYPE: every variable has the values its field in db_impl.h and          *)
(* version_set.h can have.                                                 *)
TypeOK ==
    /\ status \in {"closed", "recovered", "described", "pointed", "open"}
    /\ DOMAIN logs \subseteq Nat
    /\ \A n \in DOMAIN logs : logs[n].synced \in 0 .. Len(logs[n].records)
    /\ \A f \in tables : IsFile(f)
    /\ current \in DOMAIN descriptors
    /\ status # "closed" => mem \in DOMAIN memtables /\ mem \in DOMAIN logs
    /\ imm # Nil => imm \in DOMAIN memtables
    /\ lastSeq \in Nat /\ nextFile \in Nat
    /\ IsVersion(version)
    /\ front \in {"none", "room", "waiting", "log", "sync", "insert", "publish",
                  "failed", "unsynced"}
    /\ group \in 0 .. Len(queue)
    /\ bg.pc \in {"idle", "start", "merge", "edit", "sync"}

(***************************************************************************)
(* The contents a caller sees.                                             *)
(***************************************************************************)
\* Get: the memtable, the immutable memtable, then the version.
Lookup(m, i, v, k, s) ==
    LET inMem == MemLookup(memtables[m], k, s)
        inImm == IF i = Nil THEN {} ELSE MemLookup(memtables[i], k, s)
    IN IF inMem # {} THEN inMem ELSE IF inImm # {} THEN inImm ELSE VersionGet(v, k, s)

ContentsAt(s) == [k \in Keys |-> Value(Lookup(mem, imm, version, k, s))]

View(it) == [k \in Keys |-> Value(Lookup(it.mem, it.imm, it.version, k, it.seq))]

Updates(request) ==
    [j \in DOMAIN request.updates |->
        <<request.updates[j].key,
          IF request.updates[j].kind = "value" THEN request.id ELSE Nil>>]

UpdatesOf(requests) == [i \in DOMAIN requests |-> Updates(requests[i])]

KV == INSTANCE KeyValueStore WITH
        contents  <- IF status = "open" THEN ContentsAt(lastSeq) ELSE DiskContents,
        snapshots <- [i \in DOMAIN snapshots |-> ContentsAt(snapshots[i])],
        views     <- [r \in Readers |-> IF iterators[r] = Nil THEN Nil ELSE View(iterators[r])],
        pending   <- UpdatesOf(queue),
        doubtful  <- UpdatesOf(doubtful)

(* REFINEMENT: the engine is a key-value store.  Flushes, merges, moves,   *)
(* garbage collection and reopening never change what a key, a snapshot or *)
(* an iterator reads; a group takes effect at once, in order; a crash      *)
(* loses only what the write options allow.  It holds only as long as no   *)
(* merge that a snapshot makes keep two entries of a key splits them over  *)
(* two output files: a later merge may then take the file with a deletion  *)
(* marker alone and drop it, and the key reads as the older entry again    *)
(* (ObsoleteDeletions below).  The budgets of its run stay short of that.  *)
KeyValueSpec == KV!Spec

(* SAFETY: every file that something may still read is on disk, as it was  *)
(* written: those of the current version, of the iterators' and the        *)
(* merge's versions, and of every version the descriptor may yield when    *)
(* the engine is opened next (DeleteObsoleteFiles, pending_outputs_, the   *)
(* reuse of numbers after a crash).                                        *)
FilesKept ==
    LET d     == descriptors[current]
        later == {Replay(d, n).version : n \in d.synced .. Len(d.edits)}
        held  == {version} \cup HeldVersions \cup MergeInput(bg)
    IN \A v \in later \cup (IF status = "open" THEN held ELSE {}) : FilesOf(v) \subseteq tables

\* All entries of a key in one file are newer than those in the other one,
\* but for an entry that is in both.
Newer(f, g) ==
    \A d \in f.entries, e \in g.entries : d.key = e.key /\ d # e => d.seq > e.seq

Ordered(v) ==
    /\ \A level \in Levels \ {0} : \A f, g \in v[level] :
          f # g => Largest(f) < Smallest(g) \/ Largest(g) < Smallest(f)
    /\ \A f, g \in v[0] : f.number > g.number => Newer(f, g)
    /\ \A l, m \in Levels : l < m => \A f \in v[l], g \in v[m] : Newer(f, g)

(* SAFETY: in the current version, and in every version that reopening may *)
(* build, no two files of a level below the first overlap and what is      *)
(* nearer the top is newer, key by key: a read may stop at the first file  *)
(* that answers (Version::Get, the assertion in Builder::MaybeAddFile).    *)
LevelsOrdered ==
    LET d == descriptors[current]
    IN /\ Ordered(version)
       /\ \A n \in d.synced .. Len(d.edits) : Ordered(Replay(d, n).version)

(* SAFETY: a writer waits for room only while the background thread is     *)
(* scheduled or at work, to signal it when it is done, and the first of    *)
(* the queue is never left asleep: every wait of MakeRoomForWrite ends.    *)
WaitersAreSignalled ==
    /\ front = "waiting" => bg.pc # "idle"
    /\ queue # <<>> => front # "none"

(* SAFETY: a deletion marker that a merge drops as obsolete has nothing    *)
(* older of its key left below, in a file that the merge does not rewrite  *)
(* (the three reasons DoCompactionWork gives before it drops one).         *)
ObsoleteDeletions ==
    Merging =>
        LET inputs  == bg.c.upper \cup bg.c.lower
            written == bg.left \cup UNION {f.entries : f \in bg.outputs}
        IN \A e \in Merged(bg.c) \ written : e.kind = "deletion" =>
              \/ \E d \in written : d.key = e.key /\ d.seq > e.seq
              \/ \A f \in FilesOf(bg.input) \ inputs : \A d \in f.entries :
                    d.key = e.key => d.seq > e.seq
=============================================================================
