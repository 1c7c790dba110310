------------------------------ MODULE MCParts ------------------------------
(***************************************************************************)
(* The small components, for TLC in one run.  They share no state and no   *)
(* step: a behaviour is that of one of them, while the others stay as they *)
(* are at first.                                                           *)
(***************************************************************************)
EXTENDS Memories, DinnerPicker, MergedIterator, SkipList, LRUCache, LogFormat, TableFormat

\* Keys with and without a shorter one before the next, up to the last byte.
BytesOfKeys == {<<1, 1>>, <<1, 3>>, <<3>>, <<3, 1>>, <<4>>}

VARIABLE part

Init ==
    /\ part \in {"memories", "dinner", "iterator", "skip list", "cache", "log", "table"}
    /\ MemoriesInit /\ DinnerInit /\ IteratorInit /\ SkipInit /\ CacheInit /\ LogInit
    /\ TableInit

Next ==
    \/ /\ part = "memories" /\ MemoriesNext
       /\ UNCHANGED <<part, dinnerVars, iteratorVars, skipVars, cacheVars, logVars, tableVars>>
    \/ /\ part = "dinner" /\ DinnerNext
       /\ UNCHANGED <<part, memoriesVars, iteratorVars, skipVars, cacheVars, logVars, tableVars>>
    \/ /\ part = "iterator" /\ IteratorNext
       /\ UNCHANGED <<part, memoriesVars, dinnerVars, skipVars, cacheVars, logVars, tableVars>>
    \/ /\ part = "skip list" /\ SkipNext
       /\ UNCHANGED <<part, memoriesVars, dinnerVars, iteratorVars, cacheVars, logVars, tableVars>>
    \/ /\ part = "cache" /\ CacheNext
       /\ UNCHANGED <<part, memoriesVars, dinnerVars, iteratorVars, skipVars, logVars, tableVars>>
    \/ /\ part = "log" /\ LogNext
       /\ UNCHANGED <<part, memoriesVars, dinnerVars, iteratorVars, skipVars, cacheVars, tableVars>>
    \/ /\ part = "table" /\ TableFormatNext
       /\ UNCHANGED <<part, memoriesVars, dinnerVars, iteratorVars, skipVars, cacheVars, logVars>>

vars == <<part, memoriesVars, dinnerVars, iteratorVars, skipVars, cacheVars, logVars, tableVars>>

Spec == Init /\ [][Next]_vars

=============================================================================
