---------------------------- MODULE KeyValueStore ----------------------------
(***************************************************************************)
(* What leveldb promises to its callers (include/leveldb/db.h and          *)
(* options.h), whatever it does with logs, tables and levels:              *)
(*                                                                         *)
(*   - requests take effect whole, in the order they were submitted, and   *)
(*     nothing but a request changes what a key reads as;                  *)
(*   - a snapshot or an iterator goes on reading what it was opened on;    *)
(*   - the end of the process loses nothing that was answered; the end of  *)
(*     the machine may lose what was written without sync, and leaves each *)
(*     key with one of the values it may still have;                       *)
(*   - a request that failed may or may not turn up at the next opening.   *)
(***************************************************************************)
EXTENDS Integers, Sequences

CONSTANTS Keys, Readers, Nil

VARIABLES
    contents,   \* what each key reads as: the write that set it, or Nil
    survivors,  \* the values each key may have after the machine fails
    snapshots,  \* the contents each open snapshot reads, in order
    views,      \* what each iterator reads, Nil if it is not open
    pending,    \* requests submitted and not answered, in order
    doubtful    \* requests that failed after they may have reached the log

vars == <<contents, survivors, snapshots, views, pending, doubtful>>

NoContents == [k \in Keys |-> Nil]

Init ==
    /\ contents = NoContents
    /\ survivors = [k \in Keys |-> {Nil}]
    /\ snapshots = <<>>
    /\ views = [r \in Readers |-> Nil]
    /\ pending = <<>>
    /\ doubtful = <<>>

\* A request is a sequence of updates, each <<key, value>>.
Apply(c, updates) ==
    [k \in Keys |->
        LET hits == {i \in DOMAIN updates : updates[i][1] = k}
        IN IF hits = {} THEN c[k]
           ELSE updates[CHOOSE i \in hits : \A j \in hits : j <= i][2]]

\* The updates of the first n requests of q, one after the other.
ApplyAll(c, q, n) ==
    LET after[m \in 0 .. n] == IF m = 0 THEN c ELSE Apply(after[m - 1], q[m])
    IN after[n]

Values(updates, k) == {updates[i][2] : i \in {j \in DOMAIN updates : updates[j][1] = k}}
Touched(updates)   == {updates[i][1] : i \in DOMAIN updates}

Submit ==
    /\ Len(pending') = Len(pending) + 1
    /\ SubSeq(pending', 1, Len(pending)) = pending
    /\ UNCHANGED <<contents, survivors, snapshots, views, doubtful>>

\* The first n requests take effect.  If they were synced, what they wrote is
\* all that their keys may have after the machine fails.
Commit ==
    \E n \in 1 .. Len(pending) :
        /\ pending' = SubSeq(pending, n + 1, Len(pending))
        /\ contents' = ApplyAll(contents, pending, n)
        /\ \/ survivors' = [k \in Keys |-> survivors[k] \cup
                              UNION {Values(pending[m], k) : m \in 1 .. n}]
           \/ survivors' = [k \in Keys |->
                              IF \E m \in 1 .. n : k \in Touched(pending[m])
                              THEN {contents'[k]} ELSE survivors[k]]
        /\ UNCHANGED <<snapshots, views, doubtful>>

\* The first n requests fail.
Fail ==
    \E n \in 1 .. Len(pending) :
        /\ pending' = SubSeq(pending, n + 1, Len(pending))
        /\ doubtful' \in {doubtful, doubtful \o SubSeq(pending, 1, n)}
        /\ UNCHANGED <<contents, survivors, snapshots, views>>

TakeSnapshot ==
    /\ snapshots' = Append(snapshots, contents)
    /\ UNCHANGED <<contents, survivors, views, pending, doubtful>>

ReleaseSnapshot ==
    /\ \E i \in DOMAIN snapshots :
          snapshots' = SubSeq(snapshots, 1, i - 1)
                          \o SubSeq(snapshots, i + 1, Len(snapshots))
    /\ UNCHANGED <<contents, survivors, views, pending, doubtful>>

OpenView(r) ==
    /\ views' = [views EXCEPT ![r] = contents]
    /\ UNCHANGED <<contents, survivors, snapshots, pending, doubtful>>

CloseView(r) ==
    /\ views' = [views EXCEPT ![r] = Nil]
    /\ UNCHANGED <<contents, survivors, snapshots, pending, doubtful>>

\* The process ends: everything answered is there, and so may be doubtful
\* requests and the first of those that were under way.
Restart ==
    /\ pending' = <<>> /\ snapshots' = <<>> /\ views' = [r \in Readers |-> Nil]
    /\ UNCHANGED doubtful
    /\ \E d \in {<<>>, doubtful}, n \in 0 .. Len(pending) :
          contents' = ApplyAll(contents, d \o pending, Len(d) + n)
    /\ survivors' = [k \in Keys |-> survivors[k] \cup {contents'[k]}]

\* The machine ends: each key has a value it may still have, and keeps it.
Lose ==
    /\ pending' = <<>> /\ snapshots' = <<>> /\ views' = [r \in Readers |-> Nil]
    /\ doubtful' = <<>>
    /\ \A k \in Keys :
          contents'[k] \in survivors[k]
              \cup UNION {Values(doubtful[i], k) : i \in DOMAIN doubtful}
              \cup UNION {Values(pending[i], k) : i \in DOMAIN pending}
    /\ survivors' = [k \in Keys |-> {contents'[k]}]

\* What is read has reached the disk: opening the store ends with this.
Harden ==
    /\ survivors' = [k \in Keys |-> {contents[k]}]
    /\ doubtful' = <<>>
    /\ UNCHANGED <<contents, snapshots, views, pending>>

Next ==
    \/ Submit
    \/ Commit
    \/ Fail
    \/ TakeSnapshot
    \/ ReleaseSnapshot
    \/ \E r \in Readers : OpenView(r) \/ CloseView(r)
    \/ Restart
    \/ Lose
    \/ Harden

Spec == Init /\ [][Next]_vars
=============================================================================
