-------------------------------- MODULE MCDB --------------------------------
(* Instances of DBImpl for TLC. *)
EXTENDS DBProperties

CONSTANTS r1

Put(k)    == [key |-> k, kind |-> "value"]
Delete(k) == [key |-> k, kind |-> "deletion"]

Spending(menu, callers, writes, crashes, faults, seeks, snaps, views) ==
    [menu |-> menu, callers |-> callers, writes |-> writes, crashes |-> crashes, faults |-> faults,
     seeks |-> seeks, snapshots |-> snaps, views |-> views]

\* One key written over, and a batch that also removes it.
Over   == <<Put(1)>>
Mixed  == <<Put(2), Delete(1)>>
Loose  == {Over, Mixed} \X {FALSE}
Both   == {Over, Mixed} \X BOOLEAN

\* Crashes and failing disks; sequences of compactions; a snapshot and seeks;
\* an iterator; memtables switched by hand; a crash among merges; a crash while
\* reopening.
MixedBudgets ==
    {Spending(Both \ {<<Mixed, FALSE>>}, 2, 3, 1, {"sync", "table"}, 0, 0, 0),
     Spending({<<Over, FALSE>>}, 2, 3, 1, {"manifest"}, 0, 0, 0),
     Spending(Loose, 2, 3, 0, {"append", "log"}, 0, 0, 0),
     Spending(Loose, 1, 4, 0, {}, 0, 0, 0),
     Spending(Loose, 1, 3, 0, {}, 1, 1, 0),
     Spending(Loose, 2, 3, 0, {}, 0, 0, 1),
     Spending(Loose \cup {<<<<>>, FALSE>>}, 2, 3, 0, {}, 0, 0, 0),
     Spending({<<Mixed, FALSE>>}, 1, 4, 1, {}, 0, 0, 0),
     Spending(Loose, 1, 3, 2, {}, 0, 0, 0)}

\* A key that one batch sets and another one removes, with a snapshot that
\* keeps both in one merge, and files of two entries.
SplitBudgets ==
    {Spending({<<<<Put(2)>>, FALSE>>, <<<<Put(1), Delete(2)>>, FALSE>>, <<Over, FALSE>>}, 1, 4, 0, {}, 0, 1, 0)}
=============================================================================
