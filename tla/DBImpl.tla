------------------------------- MODULE DBImpl -------------------------------
(***************************************************************************)
(* The database engine of leveldb, db/db_impl.cc, over the operators of    *)
(* VersionSet: the queue of writers, the two memtables, the log, the one   *)
(* background thread, the descriptor (MANIFEST) and the opening after the  *)
(* process or the machine went down.                                       *)
(*                                                                         *)
(* A step is what a thread does between taking mutex_ and releasing it, or *)
(* one access to the disk made without it.  A thread that writes is known  *)
(* by its place in the queue; a Get is an iterator that lives while the    *)
(* Get has the mutex released.                                             *)
(***************************************************************************)
EXTENDS VersionSet, SequencesExt

CONSTANTS
    Keys,          \* user keys, numbers
    MemLimit,      \* write_buffer_size
    L0Stop,        \* kL0_StopWritesTrigger
    Readers,       \* iterators
    Budgets,       \* bounds: what behaviours may do, see budget
    Nil

ASSUME DBAssumption ==
    /\ Keys \subseteq Nat
    /\ MemLimit \in Nat /\ L0Stop \in Nat /\ L0Trigger <= L0Stop
    /\ Nil \notin Nat
    /\ Budgets \subseteq
          [menu : SUBSET (Seq([key : Keys, kind : {"value", "deletion"}]) \X BOOLEAN),
           callers : Nat, writes : Nat, crashes : Nat, faults : SUBSET STRING,
           seeks : Nat, snapshots : Nat, views : Nat]

VARIABLES
    (* The disk. *)
    logs,          \* number -> [records, synced]; a record is a set of entries,
                   \* Nil where an append tore
    tables,        \* table files
    descriptors,   \* number -> [base, edits, synced]
    current,       \* the descriptor CURRENT names
    (* The object. *)
    status,        \* closed, recovered, described, pointed, open
    memtables,     \* number of its log -> entries of a memtable in use
    mem,           \* logfile_number_, and the memtable with its entries
    imm,           \* imm_, Nil if none
    lastSeq,       \* last_sequence_
    nextFile,      \* next_file_number_
    logNumber,     \* log_number_
    manifest,      \* manifest_file_number_
    version,       \* current_
    pointers,      \* compact_pointer_, -1 where empty
    seek,          \* file_to_compact_ of the current version
    bgError,       \* ~bg_error_.ok()
    queue,         \* writers_
    front,         \* what the thread of the first writer does
    group,         \* the writers of the batch group it writes
    bg,            \* the background thread
    snapshots,     \* snapshots_: their sequence numbers, oldest first
    iterators,     \* Reader -> Nil or [seq, mem, imm, version]
    (* History. *)
    survivors,     \* the values a key may have after the machine fails
    doubtful,      \* the requests of a group whose sync failed
    budget         \* bounds: the requests that are made, each an update sequence
                   \* (empty: the null batch) and whether it is synced, how many
                   \* callers there are, what may fail (log, append, sync, table
                   \* or manifest), and how many writes, crashes, ... are left

disk    == <<logs, tables, descriptors, current>>
files   == <<nextFile, logNumber, manifest, version, pointers>>
memory  == <<memtables, mem, imm>>
writing == <<queue, front, group>>
reading == <<snapshots, iterators>>
history == <<survivors, doubtful>>
vars    == <<disk, files, memory, writing, reading, history,
             status, lastSeq, seek, bgError, bg, budget>>

Spend(what)  == budget' = [budget EXCEPT ![what] = @ - 1]

\* An access to the disk fails, once at most.
Fails(what)  == what \in budget.faults /\ budget' = [budget EXCEPT !.faults = {}]

(***************************************************************************)
(* The descriptor: a state and the edits appended since.                   *)
(***************************************************************************)
Apply(state, edit) ==
    [version  |-> SaveTo(state.version, edit),
     pointers |-> [level \in Levels |->
                      IF \E p \in edit.pointers : p[1] = level
                      THEN (CHOOSE p \in edit.pointers : p[1] = level)[2]
                      ELSE state.pointers[level]],
     log      |-> edit.log,
     next     |-> edit.next,
     seq      |-> edit.seq]

\* The state after the first n edits.
Replay(d, n) ==
    LET after[m \in 0 .. n] == IF m = 0 THEN d.base ELSE Apply(after[m - 1], d.edits[m])
    IN after[n]

Saved == LET d == descriptors[current] IN Replay(d, Len(d.edits))

\* NewDB.
NewDB == [version |-> EmptyVersion, pointers |-> [level \in Levels |-> -1],
          log |-> 0, next |-> 2, seq |-> 0]

NoEdit == [deleted |-> {}, added |-> {}, pointers |-> {}, log |-> 0, next |-> 0, seq |-> 0]

(***************************************************************************)
(* The background thread: at rest, scheduled, merging, or applying an edit *)
(* of the given kind.  While it merges it holds the compaction, the        *)
(* version it read, the entries still to write and the outputs written.    *)
(***************************************************************************)
Idle == [pc |-> "idle", kind |-> "none", edit |-> NoEdit, c |-> Nil,
         input |-> Nil, left |-> {}, outputs |-> {}]

\* MaybeScheduleCompaction, for the state after the step.
MaybeSchedule(b, err, im, v, s) ==
    IF b.pc = "idle" /\ ~err /\ (im # Nil \/ NeedsCompaction(v, s))
    THEN [b EXCEPT !.pc = "start"] ELSE b

\* background_work_finished_signal_.SignalAll().  Faulty variant: not called.
SignalNobody(f) == f
Signal(f) == IF f = "waiting" THEN "room" ELSE f

(***************************************************************************)
(* Writers.  An update is [key, kind].  Write puts a request into the      *)
(* queue; the first of the queue writes for a group of them.               *)
(***************************************************************************)
Write(updates, sync) ==
    /\ status = "open"
    /\ budget.writes > 0
    /\ Len(queue) < budget.callers
    /\ Spend("writes")
    /\ queue' = Append(queue, [id |-> budget.writes, updates |-> updates, sync |-> sync])
    /\ front' = IF queue = <<>> THEN "room" ELSE front
    /\ UNCHANGED <<disk, files, memory, reading, history, status, lastSeq, seek,
                   bgError, bg, group>>

\* BuildBatchGroup: no synced write in a group that is not; the group may also
\* end early because it would grow too big.
BatchGroups ==
    {n \in 1 .. Len(queue) : \A i \in 1 .. n : queue[i].sync => queue[1].sync}

\* The updates of the first n requests, numbered from last_sequence_ + 1.
GroupUpdates(n) ==
    FlattenSeq([i \in 1 .. n |-> [j \in DOMAIN queue[i].updates |->
        [key |-> queue[i].updates[j].key, kind |-> queue[i].updates[j].kind, id |-> queue[i].id]]])

GroupEntries(n) ==
    LET updates == GroupUpdates(n)
    IN {[key |-> updates[i].key, seq |-> lastSeq + i, kind |-> updates[i].kind,
         id |-> updates[i].id] : i \in DOMAIN updates}

\* The first n requests are answered and the new first one is signalled.
Answer(n) ==
    /\ queue' = SubSeq(queue, n + 1, Len(queue))
    /\ front' = IF n = Len(queue) THEN "none" ELSE "room"
    /\ group' = 0

Forced == queue[1].updates = <<>>

HasRoom == ~Forced /\ Cardinality(memtables[mem]) <= MemLimit

MustWait == imm # Nil \/ Cardinality(version[0]) >= L0Stop

\* MakeRoomForWrite waits for background work.
WaitForRoom ==
    /\ front = "room" /\ ~bgError /\ ~HasRoom /\ MustWait
    /\ front' = "waiting"
    /\ UNCHANGED <<disk, files, memory, reading, history, status, lastSeq, seek,
                   bgError, bg, queue, group, budget>>

\* MakeRoomForWrite fails: after a background error, or when the new log
\* cannot be made (the number is taken back).
RefuseWrite ==
    /\ front = "room"
    /\ \/ bgError /\ UNCHANGED budget
       \/ ~bgError /\ ~HasRoom /\ ~MustWait /\ Fails("log")
    /\ Answer(1)
    /\ UNCHANGED <<disk, files, memory, reading, history, status, lastSeq, seek, bgError, bg>>

OpenIterators == {r \in Readers : iterators[r] # Nil}

\* The memtables that the object and the iterators of some readers hold.
KeepMemTables(m, i, readers) ==
    LET held == {m, i} \cup UNION {{iterators[r].mem, iterators[r].imm} : r \in readers}
    IN [n \in DOMAIN memtables \cap held |-> memtables[n]]

\* MakeRoomForWrite makes the memtable immutable and starts a new one with a
\* new log.
SwitchMemTable ==
    /\ logs' = [n \in DOMAIN logs \cup {nextFile} |->
                   IF n = nextFile THEN [records |-> <<>>, synced |-> 0] ELSE logs[n]]
    /\ memtables' = [n \in DOMAIN memtables \cup {nextFile} |->
                        IF n = nextFile THEN {} ELSE memtables[n]]
    /\ mem' = nextFile
    /\ imm' = mem
    /\ nextFile' = nextFile + 1
    /\ bg' = MaybeSchedule(bg, bgError, mem, version, seek)

\* The first writer has room, makes it if it must, and forms its group; the
\* null batch only makes room.
StartWrite ==
    /\ front = "room" /\ ~bgError
    /\ \/ HasRoom /\ UNCHANGED <<logs, memory, nextFile, bg>>
       \/ ~HasRoom /\ ~MustWait /\ SwitchMemTable
    /\ IF Forced THEN Answer(1)
       ELSE /\ \E n \in BatchGroups : group' = n
            /\ front' = "log"
            /\ UNCHANGED queue
    /\ UNCHANGED <<tables, descriptors, current, logNumber, manifest, version, pointers,
                   reading, history, status, lastSeq, seek, bgError, budget>>

\* log_->AddRecord.  A failed append may have left the record, a piece of it,
\* or nothing.
AppendLog ==
    /\ front = "log"
    /\ \/ /\ logs' = [logs EXCEPT ![mem].records = Append(@, GroupEntries(group))]
          /\ front' = IF queue[1].sync THEN "sync" ELSE "insert"
          /\ UNCHANGED budget
       \/ /\ Fails("append")
          /\ \E left \in {<<>>, <<GroupEntries(group)>>, <<Nil>>} :
                logs' = [logs EXCEPT ![mem].records = @ \o left]
          /\ front' = "failed"
    /\ UNCHANGED <<tables, descriptors, current, files, memory, reading, history, status,
                   lastSeq, seek, bgError, bg, queue, group>>

\* logfile_->Sync.
SyncLog ==
    /\ front = "sync"
    /\ \/ /\ logs' = [logs EXCEPT ![mem].synced = Len(logs[mem].records)]
          /\ front' = "insert"
          /\ UNCHANGED budget
       \/ /\ Fails("sync")
          /\ front' = "unsynced"
          /\ UNCHANGED logs
    /\ UNCHANGED <<tables, descriptors, current, files, memory, reading, history, status,
                   lastSeq, seek, bgError, bg, queue, group>>

InsertInto ==
    /\ front = "insert"
    /\ memtables' = [memtables EXCEPT ![mem] = @ \cup GroupEntries(group)]
    /\ front' = "publish"
    /\ UNCHANGED <<disk, files, mem, imm, reading, history, status, lastSeq, seek,
                   bgError, bg, queue, group, budget>>

\* What the group wrote to each key, in the order of its updates.
Written(k) == {e \in GroupEntries(group) : e.key = k}
ValueOf(e) == IF e.kind = "value" THEN e.id ELSE Nil

\* Write takes the mutex again: the sequence number moves on even if the log
\* failed, and a failed sync stops all later writes.
Publish ==
    /\ front \in {"publish", "failed", "unsynced"}
    /\ lastSeq' = lastSeq + Len(GroupUpdates(group))
    /\ bgError' = (bgError \/ front = "unsynced")
    /\ Answer(group)
    /\ survivors' = [k \in Keys |->
          IF front # "publish" \/ Written(k) = {} THEN survivors[k]
          ELSE IF queue[1].sync
               THEN {ValueOf(e) : e \in {e \in Written(k) : \A d \in Written(k) : d.seq <= e.seq}}
               ELSE survivors[k] \cup {ValueOf(e) : e \in Written(k)}]
    /\ doubtful' = IF front = "publish" THEN doubtful
                   ELSE doubtful \o SubSeq(queue, 1, group)
    /\ UNCHANGED <<disk, files, memory, reading, status, seek, bg, budget>>

(***************************************************************************)
(* The background thread.                                                  *)
(***************************************************************************)
\* LogAndApply, up to the point where it releases the mutex.
BeginEdit(kind, deleted, added, moved, log) ==
    [bg EXCEPT !.pc = "edit", !.kind = kind,
               !.edit = [deleted |-> deleted, added |-> added, pointers |-> moved,
                         log |-> log, next |-> nextFile', seq |-> lastSeq]]

\* BackgroundCall ends: the thread is scheduled again if there is work.
EndCall(err, im, v, s) ==
    /\ bg' = MaybeSchedule(Idle, err, im, v, s)
    /\ front' = Signal(front)

\* RecordBackgroundError; in a merge the thread goes on with it.
BackgroundError(merging) ==
    /\ bgError' = TRUE
    /\ IF merging
       THEN bg' = [bg EXCEPT !.pc = "merge", !.kind = "merge"] /\ front' = Signal(front)
       ELSE EndCall(TRUE, imm, version, seek)

\* BackgroundCall after a background error.
BackgroundStop ==
    /\ bg.pc = "start" /\ bgError
    /\ EndCall(TRUE, imm, version, seek)
    /\ UNCHANGED <<disk, files, memory, reading, history, status, lastSeq, seek, bgError,
                   queue, group, budget>>

Merging == bg.c # Nil

\* A table file is made; a file of that number that was there is overwritten.
AddTables(new) ==
    {f \in tables : \A g \in new : f.number # g.number} \cup new

\* WriteLevel0Table puts the table at the level PickLevelForMemTableOutput
\* finds; an empty memtable makes none.
FlushOutput(f) ==
    IF f.entries = {} THEN {}
    ELSE {<<PickLevelForMemTableOutput(version, RangeOf({f})), f>>}

\* CompactMemTable up to its LogAndApply.  A merge does it between two of its
\* keys, even after a background error.
FlushMemTable ==
    /\ imm # Nil
    /\ \/ bg.pc = "start" /\ ~bgError
       \/ bg.pc = "merge"
    /\ nextFile' = nextFile + 1
    /\ \E f \in {[number |-> nextFile, entries |-> memtables[imm]]} :
          \/ /\ tables' = IF f.entries = {} THEN tables ELSE AddTables({f})
             /\ bg' = BeginEdit("flush", {}, FlushOutput(f), {}, mem)
             /\ UNCHANGED <<bgError, front, budget>>
          \/ /\ Fails("table")
             /\ BackgroundError(Merging)
             /\ UNCHANGED tables
    /\ UNCHANGED <<logs, descriptors, current, memory, reading, history, status, lastSeq,
                   seek, queue, group, logNumber, manifest, version, pointers>>

\* PickCompaction and IsTrivialMove: the file moves down by an edit alone.
MoveFile ==
    /\ bg.pc = "start" /\ ~bgError /\ imm = Nil
    /\ UNCHANGED nextFile
    /\ \E c \in {PickCompaction(version, pointers, seek)} :
          /\ IsTrivialMove(c)
          /\ bg' = BeginEdit("move", {<<c.level, f.number>> : f \in c.upper},
                             {<<c.level + 1, f>> : f \in c.upper}, {<<c.level, c.pointer>>},
                             logNumber)
          /\ pointers' = [pointers EXCEPT ![c.level] = c.pointer]
    /\ UNCHANGED <<disk, logNumber, manifest, version, memory, writing, reading,
                   history, status, lastSeq, seek, bgError, budget>>

\* The oldest snapshot that is still held.  Faulty variant: none is looked for.
SmallestSnapshotNewest == lastSeq
SmallestSnapshot == IF snapshots = <<>> THEN lastSeq ELSE snapshots[1]

\* DoCompactionWork, up to where it releases the mutex: what the merge will
\* keep is settled here.
StartMerge ==
    /\ bg.pc = "start" /\ ~bgError /\ imm = Nil
    /\ \E c \in {PickCompaction(version, pointers, seek)} :
          /\ ~IsTrivialMove(c)
          /\ bg' = [bg EXCEPT !.pc = "merge", !.kind = "merge", !.c = c, !.input = version,
                              !.left = Kept(version, c, SmallestSnapshot)]
          /\ pointers' = [pointers EXCEPT ![c.level] = c.pointer]
    /\ UNCHANGED <<disk, nextFile, logNumber, manifest, version, memory, writing, reading,
                   history, status, lastSeq, seek, bgError, budget>>

\* The merge fills an output file.  After a failure the whole merge is given
\* up; files made so far stay until a garbage collection.
WriteOutput ==
    /\ bg.pc = "merge" /\ bg.left # {}
    /\ nextFile' = nextFile + 1
    /\ \E f \in {[number |-> nextFile, entries |-> FirstOutput(bg.left)]} :
          \/ /\ tables' = AddTables({f})
             /\ bg' = [bg EXCEPT !.left = @ \ f.entries, !.outputs = @ \cup {f}]
             /\ UNCHANGED <<bgError, front, budget>>
          \/ /\ Fails("table")
             /\ BackgroundError(FALSE)
             /\ UNCHANGED tables
    /\ UNCHANGED <<logs, descriptors, current, memory, reading, history, status, lastSeq,
                   seek, queue, group, logNumber, manifest, version, pointers>>

\* InstallCompactionResults up to where LogAndApply releases the mutex.
FinishMerge ==
    /\ bg.pc = "merge" /\ bg.left = {}
    /\ UNCHANGED nextFile
    /\ \E e \in {CompactionEdit(bg.c, bg.outputs)} :
          bg' = BeginEdit("merge", e.deleted, e.added, {<<bg.c.level, bg.c.pointer>>}, logNumber)
    /\ UNCHANGED <<disk, logNumber, manifest, version, pointers, memory, writing, reading,
                   history, status, lastSeq, seek, bgError, budget>>

\* LogAndApply appends the edit to the descriptor.
AppendEdit ==
    /\ bg.pc = "edit"
    /\ \/ /\ descriptors' = [descriptors EXCEPT ![manifest].edits = Append(@, bg.edit)]
          /\ bg' = [bg EXCEPT !.pc = "sync"]
          /\ UNCHANGED <<bgError, front, budget>>
       \/ /\ Fails("manifest")
          /\ BackgroundError(Merging /\ bg.kind = "flush")
          /\ UNCHANGED descriptors
    /\ UNCHANGED <<logs, tables, current, files, memory, reading, history, status, lastSeq,
                   seek, queue, group>>

\* DeleteObsoleteFiles: what it leaves of the tables, and the numbers of logs
\* and descriptors it leaves.  Faulty variants: the outputs of a merge in
\* progress are not pending; the first number that is needed goes too.
LiveTablesInstalled(versions, pending) ==
    {f \in tables : \E g \in UNION {FilesOf(v) : v \in versions} : g.number = f.number}
LiveTables(versions, pending) ==
    LET live == pending \cup UNION {FilesOf(v) : v \in versions}
    IN {f \in tables : \E g \in live : g.number = f.number}

LeaveFromNext(first, f) == [n \in {n \in DOMAIN f : n > first} |-> f[n]]
LeaveFrom(first, f) == [n \in {n \in DOMAIN f : n >= first} |-> f[n]]

\* The versions that iterators and a merge in progress hold.
MergeInput(b) == IF b.c = Nil THEN {} ELSE {b.input}
HeldVersions  == {iterators[r].version : r \in OpenIterators}

\* LogAndApply syncs the descriptor, takes the mutex and installs the version;
\* its caller collects garbage, except after a move, and a merge goes on.
InstallVersion ==
    /\ bg.pc = "sync"
    /\ version' = SaveTo(version, bg.edit)
    /\ logNumber' = bg.edit.log
    /\ seek' = {}
    /\ IF bg.kind = "flush"
       THEN imm' = Nil /\ memtables' = KeepMemTables(mem, Nil, OpenIterators)
       ELSE UNCHANGED <<imm, memtables>>
    /\ IF Merging /\ bg.kind = "flush"
       THEN /\ bg' = [bg EXCEPT !.pc = "merge", !.kind = "merge"]
            /\ front' = Signal(front)
       ELSE EndCall(bgError, imm', version', {})
    /\ \E synced \in {[descriptors EXCEPT ![manifest].synced = Len(descriptors[manifest].edits)]} :
          IF bg.kind = "move" \/ bgError
          THEN descriptors' = synced /\ UNCHANGED <<logs, tables>>
          ELSE /\ tables' = LiveTables({version'} \cup HeldVersions \cup MergeInput(bg'), bg'.outputs)
               /\ logs' = LeaveFrom(logNumber', logs)
               /\ descriptors' = LeaveFrom(manifest, synced)
    /\ UNCHANGED <<current, nextFile, manifest, pointers, mem, reading, history, status,
                   lastSeq, bgError, queue, group, budget>>

\* The sync of the descriptor fails: the edit may be there or not.
SyncFails ==
    /\ bg.pc = "sync"
    /\ Fails("manifest")
    /\ BackgroundError(Merging /\ bg.kind = "flush")
    /\ UNCHANGED <<disk, files, memory, reading, history, status, lastSeq, seek, queue, group>>

(***************************************************************************)
(* Reading.                                                                *)
(***************************************************************************)
GetSnapshot ==
    /\ status = "open"
    /\ budget.snapshots > 0
    /\ Spend("snapshots")
    /\ snapshots' = Append(snapshots, lastSeq)
    /\ UNCHANGED <<disk, files, memory, writing, iterators, history, status, lastSeq, seek,
                   bgError, bg>>

ReleaseSnapshot(i) ==
    /\ snapshots' = RemoveAt(snapshots, i)
    /\ UNCHANGED <<disk, files, memory, writing, iterators, history, status, lastSeq, seek,
                   bgError, bg, budget>>

\* NewInternalIterator, and the first half of a Get.
NewIterator(r) ==
    /\ status = "open"
    /\ iterators[r] = Nil
    /\ budget.views > 0
    /\ Spend("views")
    /\ iterators' = [iterators EXCEPT ![r] =
                        [seq |-> lastSeq, mem |-> mem, imm |-> imm, version |-> version]]
    /\ UNCHANGED <<disk, files, memory, writing, snapshots, history, status, lastSeq, seek,
                   bgError, bg>>

\* CleanupIteratorState.
DeleteIterator(r) ==
    /\ iterators[r] # Nil
    /\ iterators' = [iterators EXCEPT ![r] = Nil]
    /\ memtables' = KeepMemTables(mem, imm, OpenIterators \ {r})
    /\ UNCHANGED <<disk, files, mem, imm, writing, snapshots, history, status, lastSeq, seek,
                   bgError, bg, budget>>

\* UpdateStats and RecordReadSample: a read of k uses up the seeks of a file of
\* the current version; only the first such file is kept.
UseUpSeeks(k) ==
    /\ status = "open"
    /\ budget.seeks > 0
    /\ seek = {}
    /\ seek' = SeekFile(version, k, lastSeq)
    /\ seek' # {}
    /\ Spend("seeks")
    /\ bg' = MaybeSchedule(bg, bgError, imm, version, seek')
    /\ UNCHANGED <<disk, files, memory, writing, reading, history, status, lastSeq, bgError>>

(***************************************************************************)
(* The end of the process and of the machine, and DB::Open.                *)
(***************************************************************************)
\* What a closed object looks like: nothing of it is left.
Closed ==
    /\ status' = "closed"
    /\ memtables' = <<>> /\ mem' = Nil /\ imm' = Nil
    /\ lastSeq' = 0 /\ nextFile' = 2 /\ logNumber' = 0 /\ manifest' = 0
    /\ version' = EmptyVersion
    /\ pointers' = [level \in Levels |-> -1]
    /\ seek' = {} /\ bgError' = FALSE
    /\ queue' = <<>> /\ front' = "none" /\ group' = 0
    /\ bg' = Idle
    /\ snapshots' = <<>>
    /\ iterators' = [r \in Readers |-> Nil]

\* A log is read up to the first torn record: the reader drops the rest of the
\* block it is in.
Readable(records) ==
    LET torn == {i \in DOMAIN records : records[i] = Nil}
    IN IF torn = {} THEN records ELSE SubSeq(records, 1, Least(torn) - 1)

\* What reopening finds on a disk: the entries of the tables of the saved
\* version and of the logs it does not rule out.
OnDisk ==
    LET saved == Saved
    IN UNION {f.entries : f \in FilesOf(saved.version)}
          \cup UNION {UNION Range(Readable(logs[n].records)) :
                         n \in {n \in DOMAIN logs : n >= saved.log}}

Value(found) == IF found = {} THEN Nil ELSE ValueOf(CHOOSE e \in found : TRUE)

DiskContents ==
    LET found == OnDisk IN [k \in Keys |-> Value(MemLookup(found, k, MaxSequence))]

\* The process ends, by a crash or by the destructor: the disk stays.
ProcessCrash ==
    /\ status # "closed"
    /\ budget.crashes > 0
    /\ Spend("crashes")
    /\ Closed
    /\ survivors' = [k \in Keys |-> survivors[k] \cup {DiskContents[k]}]
    /\ UNCHANGED <<disk, doubtful>>

\* The machine ends: a log loses records from its end on, a descriptor edits,
\* down to what was synced.  What was renamed or removed stays so.
MachineCrash ==
    /\ status # "closed"
    /\ budget.crashes > 0
    /\ Spend("crashes")
    /\ Closed
    /\ UNCHANGED <<tables, current>>
    /\ \E cut \in [DOMAIN logs -> 0 .. Greatest({Len(logs[n].records) : n \in DOMAIN logs} \cup {0})] :
          /\ \A n \in DOMAIN logs : cut[n] \in logs[n].synced .. Len(logs[n].records)
          /\ logs' = [n \in DOMAIN logs |-> [records |-> SubSeq(logs[n].records, 1, cut[n]),
                                            synced  |-> cut[n]]]
    /\ \E n \in descriptors[current].synced .. Len(descriptors[current].edits) :
          descriptors' = [descriptors EXCEPT ![current] =
                             [base |-> @.base, edits |-> SubSeq(@.edits, 1, n), synced |-> n]]
    /\ survivors' = [k \in Keys |-> {DiskContents'[k]}]
    /\ doubtful' = <<>>

\* RecoverLogFile: a log's records go to a memtable, which becomes a table of
\* level 0 when it is over its size, and in the end.
AddRecord(acc, record) ==
    LET m == acc.left \cup record
    IN IF Cardinality(m) > MemLimit
       THEN [acc EXCEPT !.next = @ + 1, !.left = {},
                        !.made = @ \cup {[number |-> acc.next, entries |-> m]}]
       ELSE [acc EXCEPT !.left = m]

ReadRecords(acc, records) ==
    LET read[i \in 0 .. Len(records)] ==
            IF i = 0 THEN acc ELSE AddRecord(read[i - 1], records[i])
    IN read[Len(records)]

RecoverLogFile(acc, n) ==
    LET read == ReadRecords(acc, Readable(logs[n].records))
        last == IF read.left = {} THEN read
                ELSE [next |-> read.next + 1, left |-> {},
                      made |-> read.made \cup {[number |-> read.next, entries |-> read.left]}]
    IN [last EXCEPT !.next = Greatest({@, n + 1})]   \* MarkFileNumberUsed

\* The logs of the given numbers, in the order in which they were made.
RecoverNext(old, acc, n) == IF n \in old THEN RecoverLogFile(acc, n) ELSE acc

RecoverLogs(old, acc) ==
    LET last == Greatest(old \cup {0})
        upTo[n \in 0 .. last + 1] ==
            IF n = 0 THEN acc ELSE RecoverNext(old, upTo[n - 1], n - 1)
    IN upTo[last + 1]

\* DBImpl::Recover and the new log DB::Open makes.
Recover ==
    /\ status = "closed"
    /\ LET saved == Saved
           old   == {n \in DOMAIN logs : n >= saved.log}
           done  == RecoverLogs(old, [next |-> saved.next + 1, left |-> {}, made |-> {}])
           seqs  == {e.seq : e \in UNION {UNION Range(Readable(logs[n].records)) : n \in old}}
       IN /\ \A f \in FilesOf(saved.version) : \E g \in tables : g.number = f.number
          /\ tables' = AddTables(done.made)
          /\ manifest' = saved.next
          /\ mem' = done.next
          /\ memtables' = [n \in {done.next} |-> {}]
          /\ logs' = [n \in DOMAIN logs \cup {done.next} |->
                         IF n = done.next THEN [records |-> <<>>, synced |-> 0] ELSE logs[n]]
          /\ nextFile' = done.next + 1
          /\ lastSeq' = Greatest(seqs \cup {saved.seq})
          /\ logNumber' = saved.log
          /\ version' = saved.version
          /\ pointers' = saved.pointers
          /\ bg' = [Idle EXCEPT !.kind = "open",
                       !.edit = [deleted |-> {}, added |-> {<<0, f>> : f \in done.made},
                                 pointers |-> {}, log |-> done.next, next |-> nextFile',
                                 seq |-> lastSeq']]
    /\ status' = "recovered"
    /\ UNCHANGED <<descriptors, current, imm, seek, bgError, writing, reading, history, budget>>

\* LogAndApply of the opening: a new descriptor with the whole state, synced.
WriteDescriptor ==
    /\ status = "recovered"
    /\ LET state == Apply([version |-> version, pointers |-> pointers], bg.edit)
       IN descriptors' = [n \in DOMAIN descriptors \cup {manifest} |->
                             IF n = manifest THEN [base |-> state, edits |-> <<>>, synced |-> 0]
                             ELSE descriptors[n]]
    /\ status' = "described"
    /\ UNCHANGED <<logs, tables, current, files, memory, writing, reading, history, lastSeq,
                   seek, bgError, bg, budget>>

SetCurrentFile ==
    /\ status = "described"
    /\ current' = manifest
    /\ status' = "pointed"
    /\ UNCHANGED <<logs, tables, descriptors, files, memory, writing, reading, history,
                   lastSeq, seek, bgError, bg, budget>>

\* The new version is installed, garbage collected, and work scheduled.  What
\* is read now is on disk.
FinishOpen ==
    /\ status = "pointed"
    /\ status' = "open"
    /\ version' = SaveTo(version, bg.edit)
    /\ logNumber' = bg.edit.log
    /\ tables' = LiveTables({version'}, {})
    /\ logs' = LeaveFrom(logNumber', logs)
    /\ descriptors' = LeaveFrom(manifest, descriptors)
    /\ bg' = MaybeSchedule(Idle, FALSE, Nil, version', {})
    /\ survivors' = [k \in Keys |-> {DiskContents[k]}]
    /\ doubtful' = <<>>
    /\ UNCHANGED <<current, nextFile, manifest, pointers, memory, writing, reading, lastSeq,
                   seek, bgError, budget>>

Init ==
    /\ logs = <<>> /\ tables = {}
    /\ descriptors = [n \in {1} |-> [base |-> NewDB, edits |-> <<>>, synced |-> 0]]
    /\ current = 1
    /\ status = "closed"
    /\ memtables = <<>> /\ mem = Nil /\ imm = Nil
    /\ lastSeq = 0 /\ nextFile = 2 /\ logNumber = 0 /\ manifest = 0
    /\ version = EmptyVersion
    /\ pointers = [level \in Levels |-> -1]
    /\ seek = {} /\ bgError = FALSE
    /\ queue = <<>> /\ front = "none" /\ group = 0
    /\ bg = Idle
    /\ snapshots = <<>>
    /\ iterators = [r \in Readers |-> Nil]
    /\ survivors = [k \in Keys |-> {Nil}]
    /\ doubtful = <<>>
    /\ budget \in Budgets

Writing ==
    WaitForRoom \/ RefuseWrite \/ StartWrite \/ AppendLog \/ SyncLog \/ InsertInto \/ Publish

Background ==
    \/ BackgroundStop \/ FlushMemTable \/ MoveFile \/ StartMerge \/ WriteOutput
    \/ FinishMerge \/ AppendEdit \/ InstallVersion \/ SyncFails

Opening == Recover \/ WriteDescriptor \/ SetCurrentFile \/ FinishOpen

Next ==
    \/ \E request \in budget.menu : Write(request[1], request[2])
    \/ Writing
    \/ Background
    \/ Opening
    \/ GetSnapshot
    \/ \E i \in DOMAIN snapshots : ReleaseSnapshot(i)
    \/ \E r \in Readers : NewIterator(r) \/ DeleteIterator(r)
    \/ \E k \in Keys : UseUpSeeks(k)
    \/ ProcessCrash
    \/ MachineCrash

Spec == Init /\ [][Next]_vars
=============================================================================
