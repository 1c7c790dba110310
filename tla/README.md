# A specification of relationshAPP

relationshAPP ("anissagram") is an iOS app written in SwiftUI over the Firebase
realtime database, Firebase Auth, Firebase Cloud Messaging and one cloud
function. Users look each other up, ask for a relationship, accept, decline,
unsend and delete; a relationship gives two users a room for memories and lets
one send the other an "attention request", which arrives as a push.

There is no backend of the app's own and no transaction: every device writes
straight into one shared tree, and what makes the app correct is the interplay
of the taps of several users, the Firebase client's queues and its value events,
and the in-place changes the app makes to its own copy of the data. That
interplay is what most of these modules specify. The repository also carries the
pods it was built with; of those, the Firebase database client and `leveldb`, the
engine of its disk cache, hold the concurrent and persistent state, and are
modelled from their source as well. Paths below are relative to
`src/anissagram/anissagram/` unless they start with `src/`.

## 1. Inventory

### 1.1 Components, their state and their operations

| Component | State it keeps | Operations | Correct when |
|---|---|---|---|
| **Relationship tree** (`ViewModels/DatabaseManager.swift` 85-135) | the shared tree: `users/<u>/relationships`, `/pending`, `/requests`, and `relationships/<id>` | `addRelationship`, `deleteRelationship`, `addPending`, `removePending`, `removeRequest`: one multi-path update each | both users' nodes tell the same story; a relationship has a room; nobody is related who did not agree |
| **Firebase client** (vendored, `src/anissagram/Pods/FirebaseDatabase/`) | outstanding puts, a cache of the observed node, the connection | `updateChildValues`, `observe`; acknowledgements, data pushes, reconnection | nothing written in a living process is lost, events lead to the server's state |
| **Session and rows** (`ViewModels/SessionStore.swift` 103-131 and 149-206, `Views/MainViews/ExploreView.swift`) | `session` (three dictionaries changed in place), each row's drawn branch, its `toggled` | `addPending`, `deletePending`, `acceptRequest`, `declineRequest`, `deleteRelationShip`, the observer's closure, drawing | the session shows what the server holds once everything is delivered; a row's button fits the session; answers last |
| **Accounts and session lifecycle** (`SessionStore.swift` 29-142, `ContentView.swift`, `LoginView.swift`, `DatabaseManager.insertUser`) | Auth's current user, the cached user name in `UserDefaults`, the observers | `signUp`, `signIn`, `setupUser`, `signOut`, `load`, `save` | a confirmed sign-in reaches a session; a session was typed by somebody, has an account and has a node |
| **Device tokens and attention requests** (`DatabaseManager.swift` 19-25 and 56-70, `LoveView.swift`, `AppDelegate.swift`, `src/firebase_code/functions/index.js`) | `users/<u>/deviceID`, `messages/<id>`, the function's listeners | `uploadDeviceToken`, `sendNotification`, `newNodeDetected`, token refresh | when nothing is on its way the stored token is that of every phone that observes the user; a request is pushed to its addressee |
| **Memories** (`ProfileView.swift`, `EditProfileView.swift`, `SessionStore.addBlock`) | `downloadedRelationships`, local to the process, and the picked conversation | `fetchDataFromLastConvo`, `addBlock`, the picker, the editor | a post stays where its author put it, once, in order |
| **Dinner picker** (`FoodView.swift`) | `choices`, `dinner` | add, remove by name, pick one at random | ids are unique; picking finds a choice |
| **leveldb engine** (`src/anissagram/Pods/leveldb-library/db/db_impl.cc`) | the queue of writers, two memtables, the log, the background thread, snapshots, iterators; on disk logs, tables, MANIFESTs, CURRENT | `Write`, `Get`, iterators, snapshots, `BackgroundCompaction`, `Recover`, `DeleteObsoleteFiles` | it is a key-value store, also after a crash |
| **leveldb versions** (`db/version_set.cc`, `version_edit.cc`, `dbformat.cc`) | the levels of files, `compact_pointer_`, scores | `Get`, `PickLevelForMemTableOutput`, `PickCompaction`, `SetupOtherInputs`, `LogAndApply` | levels below the first do not overlap, what is nearer the top is newer |
| **leveldb iterators** (`table/merger.cc`, `db/db_iter.cc`) | children and their positions, a direction, the saved key | `Seek`, `SeekToFirst`, `SeekToLast`, `Next`, `Prev` | a walk in any directions shows the snapshot |
| **leveldb skip list** (`db/skiplist.h`) | links per level, `max_height_` | `Insert`; `Contains`, `Seek`, `Next`, `Prev`, ... without a lock | a reader misses no key that was there before it started |
| **leveldb cache** (`util/cache.cc`) | the table, `lru_`, `in_use_`, reference counts, `usage_` | `Insert`, `Lookup`, `Release`, `Erase`, `Prune` | what a client holds is not freed; usage is the charge of the cached |
| **leveldb log files** (`db/log_writer.cc`, `db/log_reader.cc`) | physical records in blocks | `AddRecord`, `ReadRecord` | all whole records are read, and a torn tail is not |
| **leveldb tables** (`table/table_builder.cc`, `block_builder.cc`, `filter_block.cc`, `table.cc`, `block.cc`, `two_level_iterator.cc`, `util/comparator.cc`) | a builder's data and index block, its pending index entry, its filters; an iterator's index and data position | `Add`, `Finish`; `Seek`, `SeekToFirst`, `SeekToLast`, `Next`, `Prev`, `InternalGet` | the iterator stands on what was added; a `Get` finds the newest entry it may see |
| **Views without state** (`PopListView`, `RelationshipPickerHeader`, `anissagramApp`, `Constants`, `TestViews/`) | none | layout | |

### 1.2 How they interact

* *Calls.* A row's button calls one `SessionStore` method on the main thread. It
  calls `DatabaseManager` (one update; `acceptRequest` two) and then changes the
  session's dictionaries in place. Nothing publishes such a change: `session` is
  `@Published` and its `didSet` fires on assignment only, and the dictionaries
  are `NSMutableDictionary`.
* *Callbacks.* `retrieveUserByUsername` registers a permanent `.value` observer
  on `users/<u>` (`DatabaseManager.swift:74`). Each event builds a new `User` and
  assigns it to `session`, which draws the rows again. Events are raised on the
  client's own queue and dispatched to the main queue, so a tap may come between.
* *Messages.* The client sends puts in order over one connection. The server
  applies them in order and answers each; it pushes changes to every client that
  listens on the node. A lost connection loses what was on its way. On
  reconnection the client sends listens again, then every put without an
  acknowledgement, whether the server had applied it or not.
* *Shared state.* The tree. Each relationship is in it three times and each
  request twice, and any user's update may touch another user's node.
* *The function* is triggered by a new `messages/<id>` node and observes the
  recipient's `deviceID`.

### 1.3 What is hard here

Two users' taps meet at the server in any order; what a tap decides on may be
older than what its update meets; events raised before a tap overwrite its
in-place change afterwards; `acceptRequest` is two updates, and a process may
end between them; a repeated put may undo what another user has done since; the
puts of a killed process are gone though its user saw them done; a row keeps a
button its session no longer supports and the method behind it casts by force.
An observer lives as long as its process, through sign-outs and other people's
sign-ins, and assigns the session (and uploads the phone's token) whenever its
node changes; Auth's user, the cached name, the session and the node are four
stores nobody changes together; two phones that observe one user answer each
other's uploads.

In leveldb one writer writes for the queue behind it with the lock released,
while a memtable is switched, flushed behind it and merged with files whose
choice is older than the flush; files are deleted by what is live at that
moment; a crash may fall between any two of the writes that change which files
those are; and the skip list and the version of an iterator are read under no
lock at all.
`PROJECT.json` lists each of these ("hazards") at its line with the properties
that watch it, or the reason no property does.

## 2. Modules

    RelationshipTree          paths, trees, the five updates            (no state)
      `- FirebaseClient       server, puts, caches, events, connection
          `- SessionStore     sessions, rows, taps, kills and launches
              |- SessionStoreProperties   properties and refinement mapping
              |     |- RelationshipLedger   the abstract specification (INSTANCE)
              |     `- MCSessionStore       instances for TLC
              `- SessionStoreProofs     trees and queues, types, acknowledgements, agreement
                    `- RelationshipProofs   mirrored nodes, consent, rooms, the ledger,
                                            accepted, answered and parted requests

    AccountLifecycle          one phone: Auth, keychain, observers, session
      `- AccountProperties    properties
          |- MCAccounts       instances for TLC
          `- AccountProofs    the invariants as theorems

    AttentionRequests         several phones: tokens, uploads, requests
      `- AttentionProperties  properties
          |- MCAttention      instances for TLC
          `- AttentionProofs  type correctness, where tokens settle

    VersionSet                files, levels, compactions                (no state)
      `- DBImpl               writers, memtables, background thread, disk, recovery
          `- DBProperties     properties and refinement mapping
              |- KeyValueStore   the abstract specification (INSTANCE)
              |- MCDB            instances for TLC
              `- DBProofs        types, files kept, writers signalled

    Memories, DinnerPicker, MergedIterator, SkipList, LRUCache, LogFormat, TableFormat
      |- MCParts              all seven in one run, each on its own
      |- PartsProofs          of Memories, DinnerPicker and MergedIterator: posts stay,
      |                       only removals confuse, an iterator follows its snapshot
      |- LRUCacheProofs       of LRUCache: what is held is never freed; the usage
      `- SkipListProofs       of SkipList: levels nest, readers miss nothing
    Selections                what a filter leaves of an array (Memories, DinnerPicker)

The first three groups meet in the state one leaves to the other. `AccountLifecycle`
says which observers a process has and whose session it shows; `SessionStore`
starts from there (observed or just signed up) and opens the session's
dictionaries; `AttentionRequests` follows one leaf of the node, `deviceID`,
through the closures that `signIn` left. `Memories` follows the dictionary a process
keeps through the sessions its observers assign. The modules of leveldb model one
library and abstract each other: in `DBImpl` a memtable is the set of entries that
`SkipList` stores, a log a sequence of the records that `LogFormat` cuts up, a
table the set of entries that `TableFormat` stores, and an iterator reads what
`MergedIterator` shows. The app sets no
`persistenceEnabled`, so no step of leveldb is a step of the other groups.

**RelationshipTree.** A tree is a function from paths to values and an update is
a function on the paths it names, so `updateChildValues` is `Lay(tree, update)`.
A removed leaf holds `Nil`. The values kept apart are ids and, at
`relationships/<id>`, the couple. Left out: the welcome text; names; the entry
every user has for itself, which is written at sign-up and never changes
(deleting it traps, see `TapDeleteSelf`), and which keeps the `relationships`
node from ever being empty, so the observer's `as! NSMutableDictionary` is safe.

**FirebaseClient.** `db` is the server's tree. Per user: `cache` (the client's
copy of its node), `writes` (puts without acknowledgement), `applied` (how many
of those the server has applied on this connection), `down` (messages on the
way back), `events` (snapshots queued for the main thread), `listen`, `link`.
`View(u)` is the overlay of the outstanding puts over the cache, the function
of `FWriteTree.calculateCompleteEventCache`; an event is raised only if it
changed (`FViewProcessor.maybeAddValue...`). The order of `Connect`, listen first
and puts after it, is `restoreState`'s.

**SessionStore.** One action per button: `TapDelete`, `TapDeleteSelf`,
`TapUnsend`, `TapAccept`, `TapDecline`, `TapAdd`, `TapToggled` and
`TapBeforeSession` (the same button while `session` is nil). An action is the
whole turn of the main thread: puts, local events, in-place change, `toggled`,
redraw of the row. `DeliverEvent` is the observer's closure; `Redraw` is SwiftUI
drawing a row for reasons of its own at any time; `Drop`, `Reconnect`, `Kill`
and `Launch` are the world. `asker` and `fate` are history: who minted an id for
whom, and what its users did with it last (asked, unsent, declined, accepted,
deleted). Unsending names no id, so `TakeBack` is about every request of the couple
in that direction that nobody has answered.

**RelationshipLedger** is what all that promises to its users: one request slot
per ordered pair, one bond per couple, one room per id, each changed in one
step, and a bond only for an id that one of the two issued for the other and
the other accepted. `SessionStoreProperties` maps the system to it: a slot or
a bond is read from both nodes that hold it and is *torn* when they differ; no
step of the ledger produces a torn cell, so the refinement contains the claim
that both nodes always change together.

**AccountLifecycle.** `registered` and `nodes` are the servers' state, `account`
(keychain) and `cached` (`UserDefaults`) survive the process, the rest is the
process: `session`, what is drawn (`screen`, `dirty`), `observers` in order of
registration, `events` on the main queue, `calls` of Auth, `puts` of sign-ups.
`signIn` is four steps in the code and here: the button (`logIn`), Auth's answer
(`SignedIn`), the node's first value (`Answer`), the closure (`ObserverCalled`,
or `ObserverCalledInVain` if there is no value, where the casts come before the
check). `Draw` is a body after the session was published, with `onAppear`'s
`load` or `save`; `Launch` is the first body of a process. An event carries the
observers it has yet to call, one block of the main queue each (`FEventRaiser`),
so a sign-out may come between two of them.

**AttentionRequests.** `stored` is `users/<u>/deviceID`. A phone has closures (as
many as it had sign-ins), a copy of the leaf (`seen`), the three queues an upload
passes (`events`, `fetches`, `puts`) and the messages back (`down`). `Refresh`
renews a token and uploads nothing, `Restart` loses the process, `TokenFails` is
Messaging's error. A request is posted, watched by its function's listener,
submitted at every change of the token (`submitPayload`), and may lose its
instance (`Retire`). Submitting to no token reaches nobody: the code's `catch` logs the
rejection and the listener stays.

**VersionSet.** A version is a function from levels to sets of files, a file its
number and the set of its entries, and every method is an operator on those. One
entry is one unit of size. `SetupOtherInputs` is written as the code goes: the
inputs of the upper level completed at their boundary, those of the level below,
then the attempt to grow the upper ones without changing the lower ones.

**DBImpl.** A step is what a thread does between taking `mutex_` and releasing it,
or one access to the disk. `front` is the place in `Write` of the thread whose
request is first in `queue` (`room`, `waiting`, `log`, `sync`, `insert`, `publish`,
or a failure); `bg` is the background thread, with the compaction it was given and
the version it chose it from. The disk has two states at once: what was written,
which the end of the process keeps, and the first `synced` of it, which the end of
the machine keeps (`ProcessCrash`, `MachineCrash`; a log may tear in the middle of a
record). `Recover`, `WriteDescriptor`, `SetCurrentFile` and `FinishOpen` are the
opening, with crashes between them. What may fail, and how often, is drawn from
`Budgets` at the start of a behaviour.

**KeyValueStore** is what `db.h` and `options.h` promise: requests take effect
whole and in order; a snapshot or an iterator reads what it was opened on; the end
of the process loses nothing that was answered; the end of the machine may lose
what was not synced. `DBProperties` maps the engine to it by what a `Get` would
find: memtable, immutable memtable, then the version, level by level, stopping at
the first file that answers. A file lost, a deletion dropped early or a level out of
order would change what is read in a step that may change nothing.

**The small modules.** `MergedIterator`: each child is a set of entries and a
position, a call of the user is a step, and a write to the live memtable may come
between two. `SkipList`: each load and each store of a link is a step; `max_height_`
is loaded without order, so a reader may get any height the list has had.
`LRUCache`: each method runs under the shard's mutex and is a step. `LogFormat`:
`AddRecord` is a step; the reader is a function of the file, applied to every
prefix of it. `TableFormat`: `TableAdd` and `TableFinish` are the builder, each
call on the iterator is a step, and `InternalGet` is a function of the finished
file. A key is a sequence of bytes, the last of which stands for its tag, a value
is its length, offsets in a block number its entries while those in the file count
bytes, and a filter knows its keys exactly. `Memories` and `DinnerPicker`: one action per button, and the
callbacks between them.

Each module of the code's model has *faulty variants*: an update
that misses a path, a reconnection that forgets outstanding puts, and the like.
They take no part in the specification. Each is a plausible bug that, put in the
place of the definition it varies, makes a property fail; `PROJECT.json` pairs
them ("mutants").

### Abstractions a reader should know

* *A data push and the acknowledgement of the put that caused it* are one
  message. The server sends them one after the other, and in between the client's
  view is the same because the put still lies over its cache.
* *A put the server applies after the device lost its connection or its process*
  is covered by letting the loss happen later: the device notices nothing until
  it reconnects, or ever.
* *A turn that traps* takes its own put with it: the put is handed to another
  queue microseconds before the trap. (`acceptRequest` on a missing request is the
  one place; that the put got out first would remove a request whose asker's
  own removal is the usual reason it is missing.)
* *Rejected puts* are not modelled: the repository has no security rules, and the
  app ignores completion blocks.
* *Listens with a hash* (the server may answer "unchanged" instead of the data)
  have the same effect on the client as the answer modelled.
* *`UUID().uuidString`* returns an id never returned before.
* *Sign-up, sign-in, sign-out* enter `SessionStore` only by the states they
  leave: a user in `SignedUp` is still in the process it signed up in, with a
  session and no observer; everybody else has observed.
* *In `AccountLifecycle`* Auth's user is set in the same step as its completion
  runs; reads and writes are allowed to everybody, as the repository has no
  security rules, so a sign-out revokes no listener; any update of a node, the
  phone's own upload of its token included, is a `Change`; other people's phones
  have signed up before and do not take an existing name; the name `"nil"`,
  which `load` passes on when nothing is cached, has no node. A body is
  evaluated only after the session was published: nothing else `ContentView`
  observes changes. (`onAppear`'s `load` therefore runs at launches only, which
  the invariant of `AccountProofs` proves.)
* *In `AttentionRequests`* connections are not lost (that is `FirebaseClient`'s
  subject), a sign-in reads its first value in the step that registers the
  closure, and only signed-in phones send. The upload of a sign-up, which has no
  closure, is left out; so is the level of a request.
* *In leveldb's modules* a group is any first part of the queue (the size limit
  picks one); CURRENT is renamed durably; a partly written MANIFEST record is not
  distinguished from none; a table counts as on the disk from its opening; the
  delay of a slowed writer is no step; a `Get` is an iterator that lives while the
  `Get` has the mutex released. Statistics are kept for the current version only,
  since no other's `file_to_compact_` is ever looked at.

## 3. Runs

The runs over `MCSessionStore` use two users and two ids. Two users are what every operation is about: an
update touches two nodes and one room, and no row of a third user changes
them. Two ids give one couple two requests, one in each direction, or one after
the other, which every disagreement about ids needs. `MaxTaps` bounds the taps of all users
together, `MaxDrops` lost connections, `MaxKills` ended processes, `MaxLaunches`
launches. Queues are bounded by those alone. Symmetry is over users and ids (only
over ids where `SignedUp` tells users apart, and not at all in the liveness run).
Two taps are enough for what `faults` asks: a request that is taken back or accepted, with
the connection lost and the processes ended at any point of it; the theorems of
section 4 say the same of its invariants and the ledger for any number of taps and
faults.
Deadlock checking is off because the system may stop: users owe no taps, and a
trapped process need not be launched again.

| Run | Bounds | Question | Shows |
|---|---|---|---|
| `calm` | 4 taps, no fault | Do four taps (enough for ask, ask back, accept, delete) keep every promise in any order with both clients' queues and redraws? | type; `MirroredNodes`; `ConsentedRelationship`; `NoDanglingRelationship`; `NothingMissed`; `SettledAgreement`; `AcceptedGetsRoom`; `AnsweredStaysAnswered`; `PartedStaysParted`; the ledger |
| `faults` | 2 taps, 1 lost connection, 1 kill, 1 launch, one user just signed up | What survives puts sent twice and the loss of a process, and do running clients end with a session and rows that show what the server holds, and owe it nothing? | acknowledgements (`AcksMatchPuts`); sessions (`NothingMissed`); accepted requests (`AcceptedGetsRoom`); requests that were taken back stay away (`UnsentStaysUnsent`); agreement after the relaunch (`SettledAgreement`); the ledger; `EventualAgreement` |
| `accounts` | 2 accounts, 2 names, 2 entries, 2 sign-outs, 2 changes, 2 kills, any set of nodes at first | Whose session does a phone show, and does a sign-in arrive? | type; `NeverStuckAtLogin`; `TypedTogether`; `SessionHasNode`; `SignInArrives` |
| `attention` | 1 user, 2 phones, 1 request, 2 sign-ins, 1 fault of any kind, `MaxQueued` 1 | Do tokens settle where they should, and do requests find them? | type; `QuietTokens`; `RequestReaches` |
| `leveldb` | 3 levels, 2 keys, 3 or 4 requests of 1 or 2 callers, files of 1 entry, a memtable of more than 1 is switched, nine budgets | Is the engine a key-value store? | type; `FilesKept`; `LevelsOrdered`; `WaitersAreSignalled`; `KeyValueSpec` |
| `parts` | see below | Does each small component keep its promise? | `PostsKept`; `OnlyRemovalsConfuse`; `FollowsSnapshot`; `ReadersMissNothing`, `LevelsNest`; `HandlesPinned`, `UsageAddsUp`; `TornTailIgnored`; `TableWalked`, `TableFinds` |

Two entries let one account follow the other on a phone, or one name be typed
with two accounts, with the first's observer alive. Two sign-ins put the user on
two phones at once, on one after the other, or twice on one (which leaves two
closures); the tokens of two users are leaves that never meet, so one user is
enough. `MaxQueued` has to be there: two phones that answer each other ask for
more uploads than they finish. With 1 a phone starts an upload when its other
queues are empty, and the other phone's may still cross it on the way; what a
phone would do with more under way is beyond the run.

The nine budgets of `leveldb` (`MCDB.MixedBudgets`) each give one family of cases
more room than a single product of all of them would allow: synced and unsynced
requests of two callers with a crash and failing syncs and tables; a MANIFEST that
fails; a log that cannot be appended to or created; four requests in sequences of
flushes, moves and merges; a snapshot and a file used up by seeks; an iterator
over a change of versions; memtables switched by hand (the empty batch); a crash
among merges; a second crash while the first is being recovered from. A file is full
with one entry, so a merge starts a new output at every entry it keeps, and a level
may hold the entries of one key in neighbouring files. Three levels
are the fewest in which a flush may choose its level, a merge has a level below its
output, and `IsBaseLevelForKey` something to find; limits are small enough for
every one of them to be reached: level 0 is compacted at its first file and
stops writers at its second. Two keys are the
fewest with ranges that overlap in part.

`parts` takes 3 people, 2 posts and 3 assignments of the session; 3 places, 4
choices, 3 removals; 3 keys, 3 entries in 2 children in any layout and 1 write
while the iterator is used; 3 keys at heights up to 3 with 1 reader
that does 1 operation; 4 handles, 2 keys, charges 1 and 2, a capacity of 3; blocks
of 7 bytes with headers of 3 and records of up to 10 bytes, so that a record
fits, fills a block's rest exactly, leaves a trailer of each length, or goes over
three blocks. Tables get up to 4 entries of 5 user keys over the bytes 0 to 4 with 2
sequence numbers, and values of 0 or 60 bytes. With restart points every 2
entries, blocks of 20 bytes and a filter for every 32, a block holds one to three
entries, two blocks share a filter or a filter stays empty, and the five keys
(`BytesOfKeys`) have a shorter separator, or none, or end in the last byte there is.

Six further runs check a sentence of the source against the code and find it
broken; each is listed with its quotation under "findings".

| Run | The source says | What happens |
|---|---|---|
| `force_cast` | `SessionStore.swift:170`: `user.relationships[name] as! String` (also 196) | Two taps on Delete (or on accept) before the row is drawn again: the first removes the entry in place and publishes nothing, the second casts nil and the process traps. |
| `half_accepted` | `SessionStore.swift:195`: "Once request is no longer waiting, it is officially a relationship" (`AcceptedIsRelationship`) | `acceptRequest` sends two updates. The server applies the first, which removes the request, and the process ends before the second has left it: there is neither a request nor a relationship. |
| `populated` | `SessionStore.swift:66`: "values always are populated" | A correct password with a name that has no node: the closure gets nil, the cast of line 67 traps, and the message of line 79 ("check username and password") is never reached. |
| `new_device` | `SessionStore.swift:96`: "update current fcm token in case logged in on new device" | A user signs out on one phone and in on another. The first phone's closure is still there: it hears of the new token and puts its own back, the new phone answers, and so on for ever. The counterexample is a loop under fairness. |
| `obsolete` | `db_impl.cc:952-958`: three reasons, "Therefore this deletion marker is obsolete and can be dropped" | Two neighbouring files of a level share a key, since a snapshot kept both its entries when their merge was split. The next merge takes the newer of the two as its input of the lower level, but not the older one (`SetupOtherInputs`, `version_set.cc:1403`, completes the boundary of the upper level only), drops the deletion, and the older entry is what is left. |
| `memories` | `ProfileView.swift:21`: "only you two can see it!" | A user posts and signs out; the blocks stay in the process. The next user of the phone opens the conversation of that name and reads them. |

The names of the properties say what; the comments above them in
`SessionStoreProperties` say why each could fail. `AnsweredStaysAnswered` and
`PartedStaysParted` are conditional on there having been no lost connection and
no ended process, and `AcceptedGetsRoom` and `UnsentStaysUnsent` on there having been
no ended process. Both conditions are needed. An asker whose connection is lost with
the acknowledgement of its request puts it again after the askee has answered, and it
is back. (A request its asker took back is not: the put that takes it back is sent
again behind the one that asked, which is `UnsentStaysUnsent`.) And `acceptRequest`
is two puts, which is the run `half_accepted`. The attempt to prove the two found a third case, which the runs' bounds do not
reach: one request may be *accepted twice*. Without any fault it takes six taps: two users ask
each other, one accepts, a snapshot raised before that tap is delivered after it
and puts the accepted request back into the session, and when the own request is
taken back the row offers to accept again. With a lost connection it takes
five: the asker's put, sent again, brings the request back, and when the
relationship is deleted the row offers to accept it. The second acceptance writes
the same id, so a room that was closed may open again, or one be closed whose id
was just accepted. `fate` is `"again"` for such an id, and `AcceptedGetsRoom` and
`PartedStaysParted` promise nothing for it. A
fourth gap has no property: a session that `signUp` made observes nothing,
and its rows offer to add a user who has already asked.

In leveldb, `KeyValueSpec` and `LevelsOrdered` hold with three limits, which are
the code's and not the model's. The first is about `KeyValueSpec` alone and is what
`obsolete` finds: a snapshot makes a merge keep two entries of a key, the merge is
split between them, and after the snapshot's release the next merge takes the file
with a deletion marker alone and drops it, so that the key reads as its older entry
again. It takes four requests (put 2 and a snapshot; in one batch put 1 and delete 2;
put 1 twice): on the instance of `obsolete` TLC finds `KeyValueSpec` violated too,
after a million states, and with three requests it finds nothing. In the run
`leveldb` merges are split at every entry, but its budgets with a snapshot or an
iterator have three requests, so the property is checked up to where this begins. The
others: an append that fails without a sync sets no
background error, so that a crash later loses the requests logged behind the torn record (`options.h` says
"if it is just the process that crashes ... no writes will be lost"); and
`CompactMemTable` inside a merge is tried again after its MANIFEST's sync failed,
which may bring one memtable to a level twice. Failing appends are therefore
checked without crashes, and failing MANIFESTs with one key.

### Fairness

`FairSpec` assumes weak fairness, per user, of `Apply` (the server applies a put
it was sent), `Handle` (the client's serial queue handles the next message),
`DeliverEvent` (the main queue runs the next block) and `Reconnect` (the client's
retry helper schedules attempts without end, `FPersistentConnection.m` 446-504).
All four are enabled until taken unless a fault intervenes, so weak fairness is
enough. Nothing is assumed of users, redraws, faults or launches; a user that
never launches the app again is not `running`, and `Agreement` asks nothing of it.
Redraws can go on for ever, and one only brings its row up to the session, which is
what `Agreement` asks of it.

`AccountLifecycle` assumes weak fairness of `SystemStep` as a whole: as long as
Auth, the database, the main queue or SwiftUI have something to do, one of them
does something, and bounded entries leave them finitely much to do. A call may
fail instead of succeeding. `AttentionRequests` assumes weak fairness of each
phone's queues and its server (`TokenFetched`, `ObserverCalled`, `ServerApply`,
`Receive`) and of the function's start and listener; failures, refreshes,
restarts and the retirement of an instance owe nothing, and `RequestReaches` asks
nothing of a request whose instance was retired.

The specifications of leveldb are checked for safety only: under weak fairness of
the writers and the background thread every writer returns, but the graph is too
large for TLC to find that out in reasonable time. `WaitersAreSignalled` is the
safety part of it, that nobody sleeps without someone at work to wake him.

## 4. Proofs

TLAPS checks the following for every set of users, every set of ids and every
bound, from eleven assumptions: `NilAssumption` (`Nil` is no id, no couple and no
pair, and an id is no couple), `SessionAssumption` (`NoSession` is no tree;
bounds are numbers), `AccountsAssumption` (`Nil` is no account, no name and no
session; bounds are numbers), `AttentionAssumption` (`Loading` is no user, `Nil` no
user and no phone; bounds are numbers), `CacheAssumption` (`NoHandle` and `NoEntry` are
none; charges, capacities and bounds are numbers), `SkipListAssumption` (the
bounds of keys, heights and reads are positive numbers), `MemoriesAssumption`
(`Loading` and `NoUser` are nobody and not the same; bounds are numbers),
`DinnerAssumption` (the two places of the first list are places and `Undecided` is
none; bounds are numbers), `IteratorAssumption` (keys are numbers, a merging iterator
has two children or more, since `NewMergingIterator` makes none for fewer; `Nowhere` is
no key and no entry), `VersionAssumption` (there
are two levels or more, `config::kNumLevels` being 7, and memtables go to one of them;
the limits of files and levels are positive) and `DBAssumption` (keys are numbers; a
compaction of level 0 is due before writers stop for it, `kL0_CompactionTrigger <=
kL0_StopWritesTrigger`; `Nil` is no number; what a budget may be).

| Theorem | Module | States |
|---|---|---|
| `TypeCorrect` | SessionStoreProofs | `Spec => []TypeOK` |
| `AcksMeetTheirPuts` | SessionStoreProofs | `Spec => []AcksMatchPuts` |
| `NodesMirror` | RelationshipProofs | `Spec => []MirroredNodes` |
| `NobodyRelatedUnasked` | RelationshipProofs | `Spec => []ConsentedRelationship` |
| `RelationshipsHaveRooms` | RelationshipProofs | `Spec => []NoDanglingRelationship` |
| `ImplementsLedger` | RelationshipProofs | `Spec => LedgerSpec` |
| `SessionFollowsView` | SessionStoreProofs | `Spec => []NothingMissed` |
| `SettledSessionsAgree` | SessionStoreProofs | `Spec => []SettledAgreement` |
| `AcceptedRequestsGetRooms` | RelationshipProofs | `Spec => []AcceptedGetsRoom` |
| `AnswersStand` | RelationshipProofs | `Spec => []AnsweredStaysAnswered` |
| `UnsentStand` | RelationshipProofs | `Spec => []UnsentStaysUnsent` |
| `PartingsStand` | RelationshipProofs | `Spec => []PartedStaysParted` |
| `TypeCorrect` | AttentionProofs | `Spec => []TypeOK` (of `AttentionRequests`) |
| `TokensSettle` | AttentionProofs | `Spec => []QuietTokens` |
| `AccountsTyped` | AccountProofs | `Spec => []TypeOK` (of `AccountLifecycle`) |
| `NobodyStuckAtLogin` | AccountProofs | `Spec => []NeverStuckAtLogin` |
| `SessionsAsTyped` | AccountProofs | `Spec => []TypedTogether` |
| `SessionsHaveNodes` | AccountProofs | `Spec => []SessionHasNode` |
| `HandlesStayPinned` | LRUCacheProofs | `CacheSpec => []HandlesPinned` |
| `UsageIsCharged` | LRUCacheProofs | `CacheSpec => []UsageAddsUp` |
| `SkipListNests` | SkipListProofs | `SkipSpec => []LevelsNest` |
| `ReadersSeeAll` | SkipListProofs | `SkipSpec => []ReadersMissNothing` |
| `TypeCorrect` | DBProofs | `Spec => []TypeOK` (of `DBImpl`) |
| `FilesAreKept` | DBProofs | `Spec => []FilesKept` |
| `WaitersSignalled` | DBProofs | `Spec => []WaitersAreSignalled` |
| `IteratorFollows` | PartsProofs | `IteratorSpec => []FollowsSnapshot` |
| `NewPostsStay` | PartsProofs | `MemoriesSpec => []PostsKept` |
| `RemovalsConfuse` | PartsProofs | `DinnerSpec => []OnlyRemovalsConfuse` |

*Type and acknowledgements.* `TypeOK` alone is not inductive: `Receive` takes a
put off the list when an acknowledgement comes, and nothing in `TypeOK` says that
there is one. The inductive invariant `Inv` adds `AcksMatchPuts` (the applied
puts are as many as the acknowledgements in `down`) and that a link that is down
has nothing in `down` and nothing applied. `SessionStoreProofs` proves it step
by step for the client's operators, with the cardinality of the set of
acknowledgements as the only arithmetic, and lifts it to `Next`.

*Agreement.* `NothingMissed` says that a session with no event waiting is what its
client sees. Between two such moments it is not; what always holds is that the
*last* snapshot on the main queue (or, if there is none, the session) is the
client's view: `Latest(u)`. A tap keeps that because its put raises an event before
the in-place change, and where none is raised the change leaves what the view
already is. `SettledAgreement` also needs `CacheCatchesUp`: with the data on its way
laid over it in order, a cache is what the server holds, from the first message
after a reconnection on. Both come down to how writes overlay (`LayAll` of a queue
that grows at one end and shrinks at the other), which `SessionStoreProofs` proves
once, not by induction but by the last write that names a path. `RowsCurrent`
carries it to what is drawn.

*Consent and rooms.* `ConsentedRelationship` speaks of the server's tree, but
what reaches the tree comes from outstanding puts, those come from ids a session
holds, and those come from events, caches and messages: a wrong id anywhere on
that round trip would end in the tree. The invariant `Right` therefore says of
every place a value can be (`ServerRight`, `ClientRight`, `SessionRight`) that it
is right: an id under `pending` or `requests` was minted for that pair in that
direction, an id under `relationships` for that couple and accepted, and a room
holds the couple of its id. `SessionStoreProofs` defines "right" once, for any tree or
update (`Rightful`), proves that `Lay` and `LayAll` preserve it, and that it can
only become easier as history grows (`Grown`): ids are minted once, and an
accepted id never stops being accepted or parted. With that, each action is
one proof step. `NoDanglingRelationship` needs it too: a room may be
overwritten only by its own couple, and a room is removed only by a put that
also removes both entries of the only couple that could point to it.

*The ledger.* `ImplementsLedger` is the refinement. Each step of the system mints one
id, has one accepted, or leaves both as they are (`HistoryStep`), and the first two do
not touch the tree: they are `Issue` and `Consent`. The tree changes when the server
applies a put, and every put sets or clears a slot at both ends, or a bond at both
ends with its room. So the mapped state changes by exactly one step of the ledger, or not at all
(a put sent twice), and `Right` is what entitles that step to its id. The extra
invariant is `FreshUnminted`, that an id has a fate exactly if somebody minted it.

*Answers.* Four properties say that what a user did is not undone, and what
could undo it is a put that was sent and is not applied. The invariants count those
puts. `RoomsKept`, without ended processes: an id accepted once has its room, or a put
that opens it is to come, and no put that closes it is outstanding, since only an
accepted relationship is ever deleted. `Orderly`, without faults: the asker has at
most one put to come that sets a request, the accepting user at most one that sets
the relationship, nobody else has any, and until it is applied the other user sees
nothing of it (`Once`, `Behind`), so nobody answers before it is there; once it was
answered, its asker has no such put left, and where the request is still stored, a put
that clears it is to come (`Answered`); and likewise for a room that was closed
(`Parted`). `UnsentStaysUnsent` has no need of unbroken connections, because it counts
otherwise: all outstanding puts, applied or not. Only the asker's queue stores the
request's id (`OnlyFrom`), behind each put that does stands one that takes it back,
and while the server holds it one of those is still to be applied (`Erased`). A lost
connection has all of them applied again in their order, which changes nothing in that
(`Retracted`). Steps that only move the queues along keep all this by position
(`Shifted`); the taps are a lemma each.

*Tokens.* `QuietTokens` is about a quiet moment, and quiet moments do not follow from
one another. In between, what a phone has in its copy and on its line together
is what is stored (`Heard`); acknowledgements come in the order of the uploads they
answer (`AcksInOrder`, by rank); whatever a phone has queued is about a user its
closures observe (`Attended`); and, as long as no fetch failed and no token was
renewed, a phone that does not show its own token has a fetch or an event that will
upload it again (`OwnTokens`). When everything is empty, every phone shows its own
token and what is stored, so they are the same. `Counted` bounds the closures by the
sign-ins, which the type invariant needs.

*Accounts.* The four theorems share one inductive invariant. `EventsRight`: an
event names observers that exist and says truly that their node does, which is
kept because a found name stays found until the process ends (`FoundPut`,
`FoundApplied`). `AccountsRight`: every account that a call, a closure or the
keychain holds is registered. `TypedRight`: calls and `signIn`'s closures hold
what was typed, and before any process has ended there are no other closures,
since a draw that finds no session finds the tabs already on the screen.
`OnTheWay` strengthens `NeverStuckAtLogin`: the observer that will end the wait is
one of `signIn`, because `setupUser`'s may be called in vain and live on.

*The cache.* `HandlesPinned` says that what a client holds is allocated; whether a
`Release` frees it is decided by `refs`, of which it says nothing. `CacheInv` says
what `refs` counts: the handles clients hold, and one for the cache while
`in_cache` is set (`Counted`); that the table maps a key to an entry exactly if
that entry is in the cache under that key (`Found`); and that `lru_` lists each
entry at most once, and only cached entries nobody holds (`Unheld`), so that
eviction never takes the last reference away from a client. Eviction is a
loop in the code; its lemma takes any part of the list out at once.

`UsageAddsUp` is about a sum over the cached entries. The sum takes its elements one
by one, in an order nobody knows; but it is the number of `Units`, the pairs of an
entry and a number up to its charge, since that number obeys the same recursion and a
smallest set for which they differed would have a smaller one. Numbers of
elements add and subtract, so `UsageInv` (finitely many entries are cached, `usage`
is the number of their units, and what is cached and unheld is on `lru_`) is
kept action by action.

*The skip list.* A level is the least set of nodes that its links close
(`Reachable`), so that an argument about it needs no induction over the list: a
link off the list leads nowhere, and linking a node in behind one of the list adds
that node and no other (`LinkedIn`). `SkipInv` says that every level rises and is
part of the one below, that an insertion has linked its node in on the levels
below its own and nowhere else, with its place on the others still the right one
(`PlaceFound`), and that each reader is on the list of its level, before its
target (`ReadersOnTheList`). Where a reader ends, no link passes over a node
(`NothingBetween`, by the greatest node before it), hence over none that was there
when it began, as nodes are never taken out.

*The engine.* The three theorems of `DBProofs` share one inductive invariant, `DBInv`,
with writers, readers, the background thread, failures of the disk and both kinds of
crash in it. TLC checked `DBInv` on the instance of the run *leveldb* before it was
proved. Its parts fall in three.

- *What is there*: `DiskTyped`, `ObjectTyped`, `WritersTyped`, `SeekTyped`, `MemTables`.
  Versions are finite, which everything about levels needs, and stay so through edits,
  merges and replays. `OneFilePerNumber`: two tables never have the same number.
- *Who works*: a store that is not open has no work (`Quiet`); the first writer of the
  queue is somewhere in `Write` and waits only where `MakeRoomForWrite` tells it to
  (`FrontWorks`); and while the disk has not failed, the thread is scheduled exactly if
  there is something to do (`Scheduled`). A writer waits for the immutable memtable or
  for a full level 0. The first is work. The second is too, because the score of level 0
  is then 1 or more, `CompactionLevel` picks the level with the best score, and finitely
  many levels have one: so the thread that will signal the writer is on its way. If the
  disk does fail, `RecordBackgroundError` signals.
- *What the disk may yield*: the descriptor that `CURRENT` names can be read back, after
  a crash of the machine, at any length from what was synced to what was written.
  `DescriptorSafe` says of every one of these that its files are there, have numbers
  below the next one it would hand out, and that this next number only grows along
  the descriptor; `OpeningSafe` and `OpenSafe` say it of the version being opened and
  of those in use, by readers and by the merge; `DescriptorFollows` relates both, until
  an edit is lost. This is why numbers that are handed out twice, after a crash,
  overwrite nothing: a table that any recovery may need has a number below the one that
  recovery starts from. `DeleteObsoleteFiles` takes a file only if no edit, no version
  and no output names it, and none of them does later without writing it anew. After an
  edit whose sync failed the descriptor may name more than the version in memory does:
  `DeleteObsoleteFiles` gives up on a background error, and that is what the proof of
  this step needs.

Replays, recoveries, the growth of a compaction's inputs and the limits of the levels
are recursive functions in `DBImpl` and `VersionSet`. What the theorems need of them
(that a replay is a version with finite levels, that its next number is above its
files') is had from a smallest counterexample: the least length at which the
statement fails is not the first, and one step down it holds.

*The iterator.* `FollowsSnapshot` speaks of the cursor after a call; what the next call
makes of it depends on where the merging iterator and each of its children were left.
`IterInv` says so (`Landed`): a cursor that came forwards has the merging iterator on
an entry of its key, with every other child at its first entry behind that one
(`FwdAt`); one that came backwards has it before the key, every other child at its
last entry before it (`BwdAt`), and nothing of a smaller key passed over. Between the
position of a child and the entry there may be what a write has put there since, so
"first" and "last" are among what the snapshot sees. `HeldInv` numbers the entries:
they have distinct sequence numbers, those of later writes above the snapshot.

The argument then goes up in three layers. What `MergingIterator` does is to bring
all children to their first or last entry of a set that is closed upwards or
downwards (`Reached`, `ReachedBack`), and `FindSmallest` and `FindLargest` pick the
first or last of it; a change of direction is one of these steps, which is where the
other children have to be moved. What the loops of `DBIter` do is an invariant each:
in `FindNextUserEntry` the newest entry of a shown key from the sought one on is never
passed or hidden, and the first entry that is not hidden is the newest of its key
(`ForwardInv`); what `FindPrevUserEntry` keeps is the newest entry of its key that
it has passed, and no shown key is passed unless it is the one kept (`BackwardInv`).
Each round passes one of finitely many entries, so `Rounds` of them are enough
(`LoopEnds`). What a call of the user does is to start such a loop where its invariant holds, and to find in the
place where it ends the least key above the old one, or the greatest below.

*Memories and the dinner picker.* Both proofs are about filters of arrays, which
`Selections` writes as a recursive function so that something can be proved of it:
`PartsProofs` has that such functions exist, what a selection of an array that grew by
one is, and when it is the whole array or nothing of it. A dinner choice has a smaller id
than the list is long, or a removal came after it (`DinnerInv`). A post's id is its place
among all posts, so when the tabs come up no block anywhere is new, and from then on
what a tab holds of the new ones is exactly what was posted there (`MemoriesInv`).

What the proofs do not cover stays with TLC.

* Everything about what happens in the end (`EventualAgreement`, `SignInArrives`,
  `RequestReaches`), which needs fairness and `ENABLED`.
* Two properties of the engine. `LevelsOrdered` does not hold of every behaviour of
  `DBImpl`: after a MANIFEST's sync that failed, `CompactMemTable` may bring one
  memtable to a level twice (see the limits under Runs), and the run bounds what fails
  so that it cannot come to it.
  `KeyValueSpec` speaks of what a `Get` finds: for every step of the background
  thread, that merging and dropping entries does not change it. It does not
  hold of every behaviour either (the first limit under Runs), and where it does it needs
  the order of entries within and between levels, which rests on `LevelsOrdered`.
* The log and the tables (`TornTailIgnored`, `TableWalked`, `TableFinds`): a writer and
  a reader, recursive over fragments, blocks and entries, of which the second inverts
  the first. That is an induction over the file for every length of it.

## 5. What is not modelled

* *Display*: the three counters of ExploreView, the list of names a search
  downloads, texts and colours. A row that leaves the list and comes back is
  covered by `Redraw`.
* *Transactions, queries, on-disconnect writes, disk persistence* of the Firebase
  client: the app uses none of them.
* *Pictures* among the memories, and the deletion of a block by a long press that
  the welcome announces: there is no code for it.
* *The rest of leveldb*: manual compactions (`CompactRange`), `reuse_logs`,
  paranoid checks, `ApproximateOffsetOf`, `RepairDB`, the C bindings, dumps and
  benchmarks; of tables and logs, compression, checksums, footers and the encodings
  of numbers, keys and edits, which are sequential code with unit tests. A table
  file is read back as it was written, and a write of it that fails gives up the
  whole table (in `DBImpl`). The file system is what a sync promises.
* *The other pods* (Auth, Messaging, Google utilities, GTMSessionFetcher, nanopb).
  The app sees them through a few calls, which are external actions here; of
  most of them the repository's C sources are headers that declare an interface.
  They are the larger part of its C and C++ lines, and the app's own code is Swift and
  JavaScript, so the share of C and C++ that the map covers is small.

## 6. Plan

Done, in this order: the tree and its updates; the client; sessions and rows;
the properties and the ledger; runs; type correctness; consent and rooms;
accounts with their proofs; tokens and requests; memories and the dinner picker;
leveldb's versions and engine with the key-value store; its iterators, skip list,
cache, log and tables; the cache's proof; agreement, answers, the ledger, tokens,
the skip list and the cache's usage as theorems; the engine's types, files and
scheduling as theorems; the dinner picker, the memories and the iterator as theorems.

Next:

1. **One phone, two groups**: the upload of a sign-up in `AttentionRequests`, and a
   second phone that signs up under a name in use, which replaces a node other
   users' relationships point to.
2. **leveldb's manual compactions** (`TEST_CompactRange`, `ManualCompaction`), which
   share the background thread with the automatic ones, and the table cache
   between `VersionSet` and the files.
3. **Order of the levels as a theorem**, of the behaviours in which no sync of a
   MANIFEST fails, and on it the refinement of the key-value store where no merge
   splits the entries of a key.
4. **A second acceptance** under a larger bound: what the sessions of its two users and
   the ledger show after it.
