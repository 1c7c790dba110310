------------------------- MODULE SessionStoreProofs -------------------------
(***************************************************************************)
(* Every step of the Firebase client, the server and SessionStore keeps the*)
(* state well typed, and every acknowledgement meets its put, for every set*)
(* of users, every set of ids and all bounds.  The type invariant alone is *)
(* not inductive: handling an acknowledgement takes the oldest put away, so*)
(* the proof also needs AcksMatchPuts, that every acknowledgement under way*)
(* has its put.  The second half is about what users see: sessions follow  *)
(* views, caches follow the server.                                        *)
(***************************************************************************)
EXTENDS SessionStoreProperties, FiniteSetTheorems, SequenceTheorems, WellFoundedInduction, TLAPS

-----------------------------------------------------------------------------
(* Facts about paths, updates and overlaid trees that the proofs about the *)
(* client and the session rest on: where leaves lie, how writes laid over  *)
(* a tree compose, and what the leaves of a tree and the updates on their  *)
(* way may hold.                                                           *)

(* A pair's leaves lie under the node of their owner. *)
LEMMA PairPaths ==
    ASSUME NEW u \in Users, NEW v \in Others(u)
    PROVE  /\ Rel(u, v) \in UserPaths(u)
           /\ Pend(u, v) \in UserPaths(u)
           /\ Req(u, v) \in UserPaths(u)
BY DEF Rel, Pend, Req, UserPaths

(* Every leaf under users/<u> is one of the three kinds. *)
LEMMA UserPathKinds ==
    ASSUME NEW u \in Users, NEW path \in UserPaths(u)
    PROVE  \E v \in Others(u) : path \in {Rel(u, v), Pend(u, v), Req(u, v)}
BY DEF Rel, Pend, Req, UserPaths

(* Rooms are not user leaves, and different ids have different rooms. *)
LEMMA RoomPaths ==
    ASSUME NEW id \in Ids
    PROVE  /\ Room(id) \in Paths
           /\ \A u \in Users : Room(id) \notin UserPaths(u)
           /\ \A other \in Ids : Room(other) = Room(id) => other = id
BY DEF Room, Rooms, Paths, UserPaths

(* User leaves are paths of the tree. *)
LEMMA UserPathsArePaths ==
    ASSUME NEW u \in Users
    PROVE  UserPaths(u) \subseteq Paths
BY DEF Paths

(* One update over a tree: each path holds the update's value or its own. *)
LEMMA LayPoint ==
    ASSUME NEW tree, NEW update
    PROVE  /\ DOMAIN Lay(tree, update) = DOMAIN tree
           /\ Lay(tree, update) = [p \in DOMAIN tree |-> Lay(tree, update)[p]]
           /\ \A p \in DOMAIN tree :
                Lay(tree, update)[p] = IF p \in DOMAIN update THEN update[p] ELSE tree[p]
BY DEF Lay

(* A sequence of writes over a tree: each path holds its own value or that *)
(* of some write that touches it.                                          *)
LEMMA LayAllPoint ==
    ASSUME NEW tree, NEW puts
    PROVE  /\ DOMAIN LayAll(tree, puts) = DOMAIN tree
           /\ LayAll(tree, puts) = [p \in DOMAIN tree |-> LayAll(tree, puts)[p]]
           /\ \A p \in DOMAIN tree :
                \/ LayAll(tree, puts)[p] = tree[p]
                \/ \E i \in DOMAIN puts :
                    /\ p \in DOMAIN puts[i]
                    /\ LayAll(tree, puts)[p] = puts[i][p]
<1>1. DOMAIN LayAll(tree, puts) = DOMAIN tree
    BY DEF LayAll
<1>2. LayAll(tree, puts) = [p \in DOMAIN tree |-> LayAll(tree, puts)[p]]
    BY DEF LayAll
<1>3. ASSUME NEW p \in DOMAIN tree
      PROVE  \/ LayAll(tree, puts)[p] = tree[p]
             \/ \E i \in DOMAIN puts :
                 /\ p \in DOMAIN puts[i]
                 /\ LayAll(tree, puts)[p] = puts[i][p]
    <2>1. CASE LastAt(puts, p) = {}
        BY <2>1 DEF LayAll
    <2>2. CASE LastAt(puts, p) # {}
        <3> DEFINE i == CHOOSE k \in LastAt(puts, p) : TRUE
        <3>1. i \in LastAt(puts, p)
            BY <2>2
        <3>2. LayAll(tree, puts)[p] = puts[i][p]
            BY <2>2 DEF LayAll
        <3>3. i \in DOMAIN puts /\ p \in DOMAIN puts[i]
            BY <3>1 DEF LastAt
        <3> QED BY <3>2, <3>3
    <2> QED BY <2>1, <2>2
<1> QED BY <1>1, <1>2, <1>3

(* What an update of DatabaseManager holds at the leaves it touches. *)
LEMMA UpdateValues ==
    ASSUME NEW update \in Updates
    PROVE  /\ update = [p \in DOMAIN update |-> update[p]]
           /\ DOMAIN update \subseteq Paths
           /\ \A p \in DOMAIN update : update[p] \in Values
           /\ \A u \in Users : \A p \in UserPaths(u) :
                p \in DOMAIN update => update[p] \in Ids \cup {Nil}
<1> USE DEF Pairs, Others, Couples, Values
<1>1. CASE \E pr \in Pairs, id \in Ids : update = addRelationship(pr[1], pr[2], id)
    BY <1>1, RoomPaths, PairPaths, UserPathsArePaths DEF addRelationship
<1>2. CASE \E pr \in Pairs, id \in Ids : update = deleteRelationship(pr[1], pr[2], id)
    BY <1>2, RoomPaths, PairPaths, UserPathsArePaths DEF deleteRelationship
<1>3. CASE \E pr \in Pairs, id \in Ids : update = addPending(pr[1], pr[2], id)
    BY <1>3, PairPaths, UserPathsArePaths DEF addPending
<1>4. CASE \E pr \in Pairs : update = removePending(pr[1], pr[2])
    BY <1>4, PairPaths, UserPathsArePaths DEF removePending
<1>5. CASE \E pr \in Pairs : update = removeRequest(pr[1], pr[2])
    BY <1>5, PairPaths, UserPathsArePaths DEF removeRequest
<1> QED BY <1>1, <1>2, <1>3, <1>4, <1>5 DEF Updates

-----------------------------------------------------------------------------
(* How writes compose: nothing laid is the tree, a write at the end is    *)
(* laid last, a write at the front is laid first.                          *)

(* No writes change nothing. *)
LEMMA LayNothing ==
    ASSUME NEW tree
    PROVE  LayAll(tree, <<>>) = [p \in DOMAIN tree |-> tree[p]]
<1>1. \A p : LastAt(<<>>, p) = {}
    BY DEF LastAt
<1> QED BY <1>1 DEF LayAll

(* The last write that touches a path is the only one, if there is one. *)
LEMMA OneLast ==
    ASSUME NEW S, NEW puts \in Seq(S), NEW p, NEW i \in LastAt(puts, p)
    PROVE  LastAt(puts, p) = {i}
<1>1. DOMAIN puts = 1..Len(puts) /\ Len(puts) \in Nat
    BY LenProperties
<1> QED BY <1>1 DEF LastAt

(* A path some write touches has a last one that does. *)
LEMMA SomeLast ==
    ASSUME NEW S, NEW puts \in Seq(S), NEW p, NEW k \in DOMAIN puts, p \in DOMAIN puts[k]
    PROVE  LastAt(puts, p) # {}
<1> DEFINE n == Len(puts)
           touching == {i \in DOMAIN puts : p \in DOMAIN puts[i]}
           fromEnd == {n - i : i \in touching}
<1>1. DOMAIN puts = 1..n /\ n \in Nat
    BY LenProperties
<1>2. fromEnd \subseteq Nat /\ n - k \in fromEnd
    BY <1>1
<1>3. PICK x \in fromEnd : \A y \in fromEnd : ~(<<y, x>> \in OpToRel(<, Nat))
    BY <1>2, NatLessThanWellFounded, WFMin
<1>4. PICK i \in touching : x = n - i
    BY <1>3
<1>5. ASSUME NEW j \in DOMAIN puts, j > i, p \in DOMAIN puts[j]
      PROVE  FALSE
    <2>1. n - j \in fromEnd /\ n - j \in Nat /\ x \in Nat /\ n - j < x
        BY <1>1, <1>4, <1>5
    <2> QED BY <1>3, <2>1 DEF OpToRel
<1> QED BY <1>1, <1>4, <1>5 DEF LastAt

LEMMA LaidLast ==
    ASSUME NEW S, NEW puts \in Seq(S), NEW tree, NEW p \in DOMAIN tree, NEW i \in LastAt(puts, p)
    PROVE  LayAll(tree, puts)[p] = puts[i][p]
<1>1. LastAt(puts, p) = {i}
    BY OneLast
<1> QED BY <1>1 DEF LayAll

LEMMA LaidNone ==
    ASSUME NEW S, NEW puts \in Seq(S), NEW tree, NEW p \in DOMAIN tree,
           \A i \in DOMAIN puts : p \notin DOMAIN puts[i]
    PROVE  LayAll(tree, puts)[p] = tree[p]
<1>1. LastAt(puts, p) = {}
    BY DEF LastAt
<1> QED BY <1>1 DEF LayAll

(* A write at the end of the outstanding ones lies over all of them. *)
LEMMA LayAtEnd ==
    ASSUME NEW S, NEW puts \in Seq(S), NEW update \in S, NEW tree
    PROVE  LayAll(tree, puts \o <<update>>) = Lay(LayAll(tree, puts), update)
<1> DEFINE more == puts \o <<update>>
           n == Len(puts)
<1>1. /\ DOMAIN puts = 1..n /\ n \in Nat
      /\ more \in Seq(S) /\ DOMAIN more = 1..(n + 1)
      /\ more[n + 1] = update
      /\ \A i \in 1..n : more[i] = puts[i]
    <2>1. <<update>> \in Seq(S) /\ Len(<<update>>) = 1 /\ <<update>>[1] = update
        OBVIOUS
    <2>2. n \in Nat /\ more \in Seq(S) /\ Len(more) = n + 1
        BY <2>1, ConcatProperties, LenProperties
    <2>3. /\ DOMAIN puts = 1..n /\ DOMAIN more = 1..(n + 1)
        BY <2>2, LenProperties
    <2> QED BY <2>1, <2>2, <2>3, ConcatProperties
<1> HIDE DEF more
<1>2. ASSUME NEW p \in DOMAIN tree
      PROVE  LayAll(tree, more)[p] = Lay(LayAll(tree, puts), update)[p]
    <2>1. p \in DOMAIN LayAll(tree, puts)
        BY LayAllPoint
    <2>2. CASE p \in DOMAIN update
        <3>1. n + 1 \in LastAt(more, p)
            BY <1>1, <2>2 DEF LastAt
        <3>2. LayAll(tree, more)[p] = update[p]
            BY <1>1, <3>1, LaidLast
        <3> QED BY <2>1, <2>2, <3>2, LayPoint
    <2>3. CASE p \notin DOMAIN update
        <3>1. Lay(LayAll(tree, puts), update)[p] = LayAll(tree, puts)[p]
            BY <2>1, <2>3, LayPoint
        <3>2. CASE \A i \in DOMAIN puts : p \notin DOMAIN puts[i]
            <4>1. \A i \in DOMAIN more : p \notin DOMAIN more[i]
                BY <1>1, <2>3, <3>2
            <4> QED BY <1>1, <3>1, <3>2, <4>1, LaidNone
        <3>3. CASE \E i \in DOMAIN puts : p \in DOMAIN puts[i]
            <4>1. PICK i : i \in LastAt(puts, p)
                BY <3>3, SomeLast
            <4>2. i \in LastAt(more, p)
                BY <1>1, <2>3, <4>1 DEF LastAt
            <4>3. i \in 1..n
                BY <1>1, <4>1 DEF LastAt
            <4> QED BY <1>1, <3>1, <4>1, <4>2, <4>3, LaidLast
        <3> QED BY <3>2, <3>3
    <2> QED BY <2>2, <2>3
<1> QED BY <1>2, LayAllPoint, LayPoint DEF more

(* The oldest write lies under all the others. *)
LEMMA LayAtFront ==
    ASSUME NEW S, NEW puts \in Seq(S), puts # <<>>, NEW tree
    PROVE  LayAll(tree, puts) = LayAll(Lay(tree, Head(puts)), Tail(puts))
<1> DEFINE rest == Tail(puts)
           n == Len(puts)
           under == Lay(tree, Head(puts))
<1>1. /\ n \in Nat \ {0} /\ DOMAIN puts = 1..n
      /\ Head(puts) = puts[1]
      /\ rest \in Seq(S) /\ DOMAIN rest = 1..(n - 1)
      /\ \A i \in 1..(n - 1) : rest[i] = puts[i + 1]
    BY EmptySeq, LenProperties, HeadTailProperties
<1> HIDE DEF rest
<1>2. ASSUME NEW p \in DOMAIN tree
      PROVE  LayAll(tree, puts)[p] = LayAll(under, rest)[p]
    <2>1. p \in DOMAIN under
        BY LayPoint
    <2>2. CASE \E i \in DOMAIN rest : p \in DOMAIN rest[i]
        <3>1. PICK i : i \in LastAt(rest, p)
            BY <1>1, <2>2, SomeLast
        <3>2. i \in 1..(n - 1) /\ i + 1 \in 1..n
            BY <1>1, <3>1 DEF LastAt
        <3>3. ASSUME NEW j \in 1..n, j > i + 1
              PROVE  p \notin DOMAIN puts[j]
            <4>1. j - 1 \in 1..(n - 1) /\ j - 1 > i /\ rest[j - 1] = puts[(j - 1) + 1]
                BY <1>1, <3>2, <3>3
            <4>2. (j - 1) + 1 = j
                OBVIOUS
            <4> QED BY <1>1, <3>1, <4>1, <4>2 DEF LastAt
        <3>4. i + 1 \in LastAt(puts, p)
            BY <1>1, <3>1, <3>2, <3>3 DEF LastAt
        <3> QED BY <1>1, <2>1, <3>1, <3>2, <3>4, LaidLast
    <2>3. CASE \A i \in DOMAIN rest : p \notin DOMAIN rest[i]
        <3>1. LayAll(under, rest)[p] = under[p]
            BY <1>1, <2>1, <2>3, LaidNone
        <3>2. \A j \in 2..n : p \notin DOMAIN puts[j]
            <4> SUFFICES ASSUME NEW j \in 2..n PROVE p \notin DOMAIN puts[j]
                OBVIOUS
            <4>1. j - 1 \in 1..(n - 1) /\ rest[j - 1] = puts[(j - 1) + 1] /\ (j - 1) + 1 = j
                BY <1>1
            <4> QED BY <1>1, <2>3, <4>1
        <3>3. CASE p \in DOMAIN puts[1]
            <4>1. 1 \in LastAt(puts, p)
                BY <1>1, <3>2, <3>3 DEF LastAt
            <4> QED BY <1>1, <3>1, <3>3, <4>1, LaidLast, LayPoint
        <3>4. CASE p \notin DOMAIN puts[1]
            <4>1. \A j \in DOMAIN puts : p \notin DOMAIN puts[j]
                BY <1>1, <3>2, <3>4
            <4> QED BY <1>1, <3>1, <3>4, <4>1, LaidNone, LayPoint
        <3> QED BY <3>3, <3>4
    <2> QED BY <2>2, <2>3
<1>3. DOMAIN under = DOMAIN tree
    BY LayPoint
<1>4. /\ LayAll(tree, puts) = [p \in DOMAIN tree |-> LayAll(tree, puts)[p]]
      /\ LayAll(under, rest) = [p \in DOMAIN tree |-> LayAll(under, rest)[p]]
    BY <1>3, LayAllPoint
<1> QED BY <1>2, <1>4 DEF rest

-----------------------------------------------------------------------------
(* What the leaves of a tree and the updates on their way may hold, given  *)
(* the ids' askers (a) and the accepted ids (c), and that trees keep it    *)
(* when updates are laid over them.                                        *)

(* Who an id is stored between, and in which direction. *)
Fits(a, c, p, x) ==
    \/ x = Nil
    \/ /\ x \in Ids /\ a[x] # Nil
       /\ \/ p[1] = "pending" /\ a[x] = <<p[2], p[3]>>
          \/ p[1] = "requests" /\ a[x] = <<p[3], p[2]>>
          \/ p[1] = "relationships" /\ x \in c /\ a[x] \in {<<p[2], p[3]>>, <<p[3], p[2]>>}
    \/ p[1] = "room" /\ p[2] \in Ids \cap c /\ a[p[2]] # Nil /\ x = {a[p[2]][1], a[p[2]][2]}

Fitting(a, c, t) == \A p \in DOMAIN t : Fits(a, c, p, t[p])

(* An update that stores or removes an id only between its two users. *)
Rightful(a, c, update) ==
    \/ \E p \in Pairs : \E id \in Ids :
        \/ a[id] = p /\ update = addPending(p[1], p[2], id)
        \/ /\ id \in c /\ a[id] \in {p, <<p[2], p[1]>>}
           /\ update \in {addRelationship(p[1], p[2], id), deleteRelationship(p[1], p[2], id)}
    \/ \E p \in Pairs : update \in {removePending(p[1], p[2]), removeRequest(p[1], p[2])}

(* The askers and the accepted ids only grow. *)
Grown(a, c, a2, c2) ==
    \A id \in Ids : a[id] # Nil => a2[id] = a[id] /\ (id \in c => id \in c2)

(* The two halves of a tree or an update agree. *)
Same(t, p, q) ==
    /\ p \in DOMAIN t <=> q \in DOMAIN t
    /\ p \in DOMAIN t => t[p] = t[q]

Mirrored(t) ==
    \A p \in Pairs :
        /\ Same(t, Pend(p[1], p[2]), Req(p[2], p[1]))
        /\ Same(t, Rel(p[1], p[2]), Rel(p[2], p[1]))

(* A relationship in a tree has its room. *)
Roomed(t) ==
    \A p \in Pairs : \A id \in Ids : t[Rel(p[1], p[2])] = id => t[Room(id)] = {p[1], p[2]}

-----------------------------------------------------------------------------

LEMMA PairFacts ==
    ASSUME NEW p \in Pairs
    PROVE  /\ p = <<p[1], p[2]>> /\ p[1] # p[2] /\ p # Nil
           /\ p[1] \in Users /\ p[2] \in Users
           /\ p[2] \in Others(p[1]) /\ p[1] \in Others(p[2])
           /\ <<p[2], p[1]>> \in Pairs
BY NilAssumption DEF Pairs, Others

LEMMA GrownFits ==
    ASSUME NEW a, NEW c, NEW a2, NEW c2, Grown(a, c, a2, c2), NEW p, NEW x,
           Fits(a, c, p, x)
    PROVE  Fits(a2, c2, p, x)
BY DEF Grown, Fits

LEMMA RightfulFits ==
    ASSUME NEW a, NEW c, NEW update, Rightful(a, c, update)
    PROVE  Fitting(a, c, update) /\ update \in Updates /\ Mirrored(update)
<1>1. ASSUME NEW p \in Pairs, NEW id \in Ids, a[id] = p, update = addPending(p[1], p[2], id)
      PROVE  Fitting(a, c, update) /\ Mirrored(update)
    <2>1. /\ DOMAIN update = {Pend(p[1], p[2]), Req(p[2], p[1])}
          /\ update[Pend(p[1], p[2])] = id /\ update[Req(p[2], p[1])] = id
        BY <1>1 DEF addPending
    <2>2. /\ Fits(a, c, Pend(p[1], p[2]), id)
          /\ Fits(a, c, Req(p[2], p[1]), id)
        BY <1>1, PairFacts DEF Fits, Pend, Req
    <2>3. Mirrored(update)
        BY <2>1, PairFacts DEF Pend, Req, Rel, Mirrored, Same
    <2> QED BY <2>1, <2>2, <2>3 DEF Fitting
<1>2. ASSUME NEW p \in Pairs, NEW id \in Ids, id \in c, a[id] \in {p, <<p[2], p[1]>>},
             update = addRelationship(p[1], p[2], id)
      PROVE  Fitting(a, c, update) /\ Mirrored(update)
    <2>1. Fitting(a, c, update)
        <3>1. DOMAIN update = {Rel(p[1], p[2]), Rel(p[2], p[1]), Room(id)}
            BY <1>2 DEF addRelationship
        <3>2. /\ update[Room(id)] = {p[1], p[2]}
              /\ update[Rel(p[1], p[2])] = id /\ update[Rel(p[2], p[1])] = id
            BY <1>2 DEF addRelationship, Rel, Room
        <3>3. /\ Fits(a, c, Rel(p[1], p[2]), id)
              /\ Fits(a, c, Rel(p[2], p[1]), id)
            BY <1>2, PairFacts DEF Fits, Rel
        <3>4. a[id] # Nil /\ {p[1], p[2]} = {a[id][1], a[id][2]}
            BY <1>2, PairFacts
        <3>5. Fits(a, c, Room(id), {p[1], p[2]})
            BY <1>2, <3>4 DEF Fits, Room
        <3> QED BY <3>1, <3>2, <3>3, <3>5 DEF Fitting
    <2>2. Mirrored(update)
        BY <1>2, PairFacts DEF addRelationship, Rel, Room, Pend, Req, Mirrored, Same
    <2> QED BY <2>1, <2>2
<1>3. ASSUME NEW p \in Pairs, NEW id \in Ids, update = deleteRelationship(p[1], p[2], id)
      PROVE  Fitting(a, c, update) /\ Mirrored(update)
    BY <1>3, PairFacts
       DEF deleteRelationship, Fitting, Fits, Rel, Room, Pend, Req, Mirrored, Same
<1>4. ASSUME NEW p \in Pairs, update \in {removePending(p[1], p[2]), removeRequest(p[1], p[2])}
      PROVE  Fitting(a, c, update) /\ Mirrored(update)
    BY <1>4, PairFacts
       DEF removePending, removeRequest, Fitting, Fits, Rel, Pend, Req, Mirrored, Same
<1>5. update \in Updates
    BY DEF Rightful, Updates
<1> QED BY <1>1, <1>2, <1>3, <1>4, <1>5 DEF Rightful

(* Trees and updates keep fitting while the history grows. *)
LEMMA GrownFitting ==
    ASSUME NEW a, NEW c, NEW a2, NEW c2, Grown(a, c, a2, c2), NEW t, Fitting(a, c, t)
    PROVE  Fitting(a2, c2, t)
BY GrownFits DEF Fitting

LEMMA GrownRightful ==
    ASSUME NEW a, NEW c, NEW a2, NEW c2, Grown(a, c, a2, c2), NEW update, Rightful(a, c, update)
    PROVE  Rightful(a2, c2, update)
BY PairFacts DEF Grown, Rightful

(* One leaf changes. *)
LEMMA LeafFits ==
    ASSUME NEW a, NEW c, NEW t, Fitting(a, c, t), NEW path, NEW x, Fits(a, c, path, x)
    PROVE  Fitting(a, c, [t EXCEPT ![path] = x])
BY DEF Fitting

LEMMA LayFits ==
    ASSUME NEW a, NEW c, NEW t, NEW update, Fitting(a, c, t), Fitting(a, c, update)
    PROVE  Fitting(a, c, Lay(t, update))
BY LayPoint DEF Fitting

LEMMA LayAllFits ==
    ASSUME NEW a, NEW c, NEW t, NEW puts, Fitting(a, c, t),
           \A i \in DOMAIN puts : Fitting(a, c, puts[i])
    PROVE  Fitting(a, c, LayAll(t, puts))
BY LayAllPoint DEF Fitting

LEMMA UnderFits ==
    ASSUME NEW a, NEW c, NEW u, NEW t, Fitting(a, c, t)
    PROVE  Fitting(a, c, Under(u, t))
BY DEF Fitting, Under

LEMMA LayMirrored ==
    ASSUME NEW tree \in Trees, NEW update, Mirrored(tree), Mirrored(update)
    PROVE  Mirrored(Lay(tree, update))
<1> SUFFICES ASSUME NEW p \in Pairs
             PROVE  /\ Same(Lay(tree, update), Pend(p[1], p[2]), Req(p[2], p[1]))
                    /\ Same(Lay(tree, update), Rel(p[1], p[2]), Rel(p[2], p[1]))
    BY DEF Mirrored
<1>1. {Pend(p[1], p[2]), Req(p[2], p[1]), Rel(p[1], p[2]), Rel(p[2], p[1])} \subseteq DOMAIN tree
    BY PairFacts, PairPaths, UserPathsArePaths DEF Trees
<1> QED BY <1>1, LayPoint DEF Mirrored, Same

(* A delete removes the room only of an id the couple holds, and an accept *)
(* opens the room together with the relationship.                          *)
LEMMA LayRoomed ==
    ASSUME NEW a, NEW c, NEW tree \in Trees, NEW update,
           Fitting(a, c, tree), Roomed(tree), Rightful(a, c, update)
    PROVE  Roomed(Lay(tree, update))
<1> DEFINE new == Lay(tree, update)
<1> SUFFICES ASSUME NEW p \in Pairs, NEW id \in Ids, new[Rel(p[1], p[2])] = id
             PROVE  new[Room(id)] = {p[1], p[2]}
    BY DEF Roomed
<1>1. Rel(p[1], p[2]) \in DOMAIN tree /\ Room(id) \in DOMAIN tree
    BY PairFacts, PairPaths, UserPathsArePaths, RoomPaths DEF Trees
<1>2. /\ new[Rel(p[1], p[2])] = IF Rel(p[1], p[2]) \in DOMAIN update
                                THEN update[Rel(p[1], p[2])] ELSE tree[Rel(p[1], p[2])]
      /\ new[Room(id)] = IF Room(id) \in DOMAIN update THEN update[Room(id)] ELSE tree[Room(id)]
    BY <1>1, LayPoint
<1>3. id # Nil
    BY NilAssumption
<1>4. Rel(p[1], p[2]) \notin DOMAIN update =>
        a[id] \in {p, <<p[2], p[1]>>} /\ tree[Room(id)] = {p[1], p[2]}
    BY <1>1, <1>2, <1>3, PairFacts DEF Fitting, Fits, Roomed, Rel
<1> HIDE DEF new
<1>5. ASSUME NEW q \in Pairs, NEW other \in Ids, a[other] \in {q, <<q[2], q[1]>>},
             update = addRelationship(q[1], q[2], other)
      PROVE  new[Room(id)] = {p[1], p[2]}
    <2>1. /\ DOMAIN update = {Rel(q[1], q[2]), Rel(q[2], q[1]), Room(other)}
          /\ update[Room(other)] = {q[1], q[2]}
          /\ Rel(q[1], q[2]) # Room(other) /\ Rel(q[2], q[1]) # Room(other)
          /\ update[Rel(q[1], q[2])] = other /\ update[Rel(q[2], q[1])] = other
        BY <1>5 DEF addRelationship, Rel, Room
    <2>2. CASE Rel(p[1], p[2]) \in DOMAIN update
        <3>1. {p[1], p[2]} = {q[1], q[2]}
            BY <2>1, <2>2 DEF Rel, Room
        <3>2. update[Rel(p[1], p[2])] = other
            <4>1. Rel(p[1], p[2]) # Room(other)
                BY DEF Rel, Room
            <4> QED BY <2>1, <2>2, <4>1
        <3>3. id = other
            BY <1>2, <2>2, <3>2
        <3> QED BY <1>2, <2>1, <3>1, <3>3
    <2>3. CASE Rel(p[1], p[2]) \notin DOMAIN update
        <3>1. id # other
            <4> SUFFICES ASSUME id = other PROVE FALSE
                OBVIOUS
            <4>1. {p[1], p[2]} = {q[1], q[2]}
                BY <1>4, <1>5, <2>3, PairFacts
            <4>2. Rel(p[1], p[2]) \in {Rel(q[1], q[2]), Rel(q[2], q[1])}
                BY <4>1, PairFacts
            <4> QED BY <2>1, <2>3, <4>2
        <3>2. Room(id) \notin DOMAIN update
            BY <2>1, <3>1 DEF Rel, Room
        <3> QED BY <1>2, <1>4, <2>3, <3>2
    <2> QED BY <2>2, <2>3
<1>6. ASSUME NEW q \in Pairs, NEW other \in Ids, a[other] \in {q, <<q[2], q[1]>>},
             update = deleteRelationship(q[1], q[2], other)
      PROVE  new[Room(id)] = {p[1], p[2]}
    <2>1. /\ DOMAIN update = {Rel(q[1], q[2]), Rel(q[2], q[1]), Room(other)}
          /\ \A r \in DOMAIN update : update[r] = Nil
        BY <1>6 DEF deleteRelationship, Rel, Room
    <2>2. Rel(p[1], p[2]) \notin DOMAIN update
        BY <1>2, <1>3, <2>1
    <2>3. id # other
        <3> SUFFICES ASSUME id = other PROVE FALSE
            OBVIOUS
        <3>1. {p[1], p[2]} = {q[1], q[2]}
            BY <1>4, <1>6, <2>2, PairFacts
        <3>2. Rel(p[1], p[2]) \in {Rel(q[1], q[2]), Rel(q[2], q[1])}
            BY <3>1, PairFacts
        <3> QED BY <2>1, <2>2, <3>2
    <2>4. Room(id) \notin DOMAIN update
        BY <2>1, <2>3 DEF Rel, Room
    <2> QED BY <1>2, <1>4, <2>2, <2>4
<1>7. ASSUME DOMAIN update \cap {Rel(p[1], p[2]), Room(id)} = {}
      PROVE  new[Room(id)] = {p[1], p[2]}
    BY <1>2, <1>4, <1>7
<1>8. \A q \in Pairs : \A other \in Ids :
        DOMAIN addPending(q[1], q[2], other) \cap {Rel(p[1], p[2]), Room(id)} = {}
    BY DEF addPending, Pend, Req, Rel, Room
<1>9. \A q \in Pairs :
        /\ DOMAIN removePending(q[1], q[2]) \cap {Rel(p[1], p[2]), Room(id)} = {}
        /\ DOMAIN removeRequest(q[1], q[2]) \cap {Rel(p[1], p[2]), Room(id)} = {}
    BY DEF removePending, removeRequest, Pend, Req, Rel, Room
<1> QED BY <1>5, <1>6, <1>7, <1>8, <1>9 DEF Rightful

-----------------------------------------------------------------------------
(* What is on its way when a connection is lost, and what is acknowledged. *)

(* A lost connection leaves nothing on its way. *)
QuietWhenDown == \A u \in Users : link[u] = "down" => down[u] = <<>>

FirebaseInv == FirebaseTypeOK /\ AcksMatchPuts /\ QuietWhenDown

-----------------------------------------------------------------------------
(* Counting acknowledgements. *)

LEMMA AckIndicesFinite ==
    ASSUME NEW S, NEW s \in Seq(S)
    PROVE  /\ IsFiniteSet(AckIndices(s))
           /\ Cardinality(AckIndices(s)) \in Nat
           /\ Cardinality(AckIndices(s)) <= Len(s)
<1>1. Len(s) \in Nat /\ DOMAIN s = 1..Len(s)
    BY LenProperties
<1>2. IsFiniteSet(1..Len(s)) /\ Cardinality(1..Len(s)) = Len(s)
    BY <1>1, FS_Interval
<1>3. AckIndices(s) \in SUBSET (1..Len(s))
    BY <1>1 DEF AckIndices
<1>4. IsFiniteSet(AckIndices(s)) /\ Cardinality(AckIndices(s)) <= Len(s)
    BY <1>2, <1>3, FS_Subset
<1> QED BY <1>4, FS_CardinalityType

(* A message at the end adds itself, if it acknowledges. *)
LEMMA AckPushed ==
    ASSUME NEW S, NEW s \in Seq(S), NEW m \in S
    PROVE  Cardinality(AckIndices(s \o <<m>>)) =
                Cardinality(AckIndices(s)) + (IF m.ack THEN 1 ELSE 0)
<1> DEFINE t == s \o <<m>>
<1>1. <<m>> \in Seq(S) /\ Len(<<m>>) = 1 /\ <<m>>[1] = m
    OBVIOUS
<1>2. /\ t \in Seq(S)
      /\ Len(t) = Len(s) + 1
      /\ \A i \in 1..(Len(s) + 1) : t[i] = IF i <= Len(s) THEN s[i] ELSE <<m>>[i - Len(s)]
    BY <1>1, ConcatProperties
<1>3. /\ Len(s) \in Nat /\ DOMAIN s = 1..Len(s)
      /\ DOMAIN t = 1..(Len(s) + 1)
    BY <1>2, LenProperties
<1>4. /\ \A i \in 1..Len(s) : t[i] = s[i]
      /\ t[Len(s) + 1] = m
    BY <1>1, <1>2, <1>3
<1>5. IsFiniteSet(AckIndices(s)) /\ Cardinality(AckIndices(s)) \in Nat
    BY AckIndicesFinite
<1>6. CASE m.ack
    <2>1. AckIndices(t) = AckIndices(s) \cup {Len(s) + 1}
        BY <1>3, <1>4, <1>6 DEF AckIndices
    <2>2. Len(s) + 1 \notin AckIndices(s)
        BY <1>3 DEF AckIndices
    <2> QED BY <1>5, <1>6, <2>1, <2>2, FS_AddElement
<1>7. CASE ~m.ack
    <2>1. AckIndices(t) = AckIndices(s)
        BY <1>3, <1>4, <1>7 DEF AckIndices
    <2> QED BY <1>5, <1>7, <2>1
<1> QED BY <1>6, <1>7

(* A message taken from the front takes itself away, if it acknowledges. *)
LEMMA AckTaken ==
    ASSUME NEW S, NEW s \in Seq(S), s # <<>>
    PROVE  Cardinality(AckIndices(Tail(s))) =
                Cardinality(AckIndices(s)) - (IF Head(s).ack THEN 1 ELSE 0)
<1> DEFINE rest == AckIndices(s) \ {1}
           back == [i \in rest |-> i - 1]
<1>1. /\ Len(s) \in Nat \ {0} /\ DOMAIN s = 1..Len(s)
      /\ Head(s) = s[1]
    BY EmptySeq, LenProperties
<1>2. /\ Tail(s) \in Seq(S)
      /\ Len(Tail(s)) = Len(s) - 1
      /\ DOMAIN Tail(s) = 1..(Len(s) - 1)
      /\ \A i \in 1..(Len(s) - 1) : Tail(s)[i] = s[i + 1]
    BY HeadTailProperties, LenProperties
<1>3. IsFiniteSet(AckIndices(s)) /\ Cardinality(AckIndices(s)) \in Nat
    BY AckIndicesFinite
<1>4. /\ IsFiniteSet(rest)
      /\ Cardinality(rest) = Cardinality(AckIndices(s)) - (IF Head(s).ack THEN 1 ELSE 0)
    <2>1. 1 \in AckIndices(s) <=> Head(s).ack
        BY <1>1 DEF AckIndices
    <2> QED BY <1>3, <2>1, FS_RemoveElement
<1>5. back \in [rest -> AckIndices(Tail(s))]
    <2> SUFFICES ASSUME NEW i \in rest
                 PROVE  i - 1 \in AckIndices(Tail(s))
        OBVIOUS
    <2>1. i \in 2..Len(s) /\ s[i].ack
        BY <1>1 DEF AckIndices
    <2>2. i - 1 \in 1..(Len(s) - 1) /\ Tail(s)[i - 1] = s[i]
        BY <1>1, <1>2, <2>1
    <2> QED BY <1>2, <2>1, <2>2 DEF AckIndices
<1>6. \A j \in AckIndices(Tail(s)) : j + 1 \in rest /\ back[j + 1] = j
    <2> SUFFICES ASSUME NEW j \in AckIndices(Tail(s))
                 PROVE  j + 1 \in rest /\ back[j + 1] = j
        OBVIOUS
    <2>1. j \in 1..(Len(s) - 1) /\ s[j + 1].ack
        BY <1>2 DEF AckIndices
    <2>2. j + 1 \in rest
        BY <1>1, <2>1 DEF AckIndices
    <2> QED BY <2>1, <2>2
<1>7. rest \subseteq Nat
    BY <1>1 DEF AckIndices
<1>8. back \in Bijection(rest, AckIndices(Tail(s)))
    <2>1. \A i, j \in rest : back[i] = back[j] => i = j
        BY <1>7
    <2> QED BY <1>5, <1>6, <2>1 DEF Bijection, Injection, Surjection, IsInjective
<1>9. Cardinality(AckIndices(Tail(s))) = Cardinality(rest)
    BY <1>4, <1>8, FS_Bijection DEF ExistsBijection
<1> QED BY <1>4, <1>9

-----------------------------------------------------------------------------
(* Views and pushes are well typed. *)

LEMMA LaidUserTree ==
    ASSUME NEW u \in Users, NEW tree \in UserTrees(u), NEW data,
           data \in Updates \cup Pushes(u)
    PROVE  Lay(tree, data) \in UserTrees(u)
<1>1. \A p \in UserPaths(u) : p \in DOMAIN data => data[p] \in Ids \cup {Nil}
    <2>1. CASE data \in Updates
        BY <2>1, UpdateValues
    <2>2. CASE data \in UserTrees(u)
        BY <2>2 DEF UserTrees
    <2>3. CASE \E update \in Updates : data = Under(u, update)
        BY <2>3, UpdateValues DEF Under
    <2>4. CASE data = Under(u, NoUpdate)
        BY <2>4 DEF Under, NoUpdate
    <2> QED BY <2>1, <2>2, <2>3, <2>4 DEF Pushes
<1> QED BY <1>1, LayPoint DEF UserTrees

LEMMA LaidAllUserTree ==
    ASSUME NEW u \in Users, NEW tree \in UserTrees(u), NEW puts \in Seq(Updates)
    PROVE  LayAll(tree, puts) \in UserTrees(u)
<1>1. \A i \in DOMAIN puts : puts[i] \in Updates
    BY LenProperties, ElementOfSeq
<1>2. \A p \in UserPaths(u) : \A i \in DOMAIN puts :
        p \in DOMAIN puts[i] => puts[i][p] \in Ids \cup {Nil}
    BY <1>1, UpdateValues
<1> QED BY <1>2, LayAllPoint DEF UserTrees

LEMMA LaidTree ==
    ASSUME NEW tree \in Trees, NEW update \in Updates
    PROVE  Lay(tree, update) \in Trees
<1>1. Lay(tree, update) \in [Paths -> Values]
    BY LayPoint, UpdateValues DEF Trees
<1>2. ASSUME NEW u \in Users, NEW p \in UserPaths(u)
      PROVE  Lay(tree, update)[p] \in Ids \cup {Nil}
    BY LayPoint, UpdateValues, UserPathsArePaths DEF Trees
<1> QED BY <1>1, <1>2 DEF Trees

LEMMA ViewType ==
    ASSUME FirebaseTypeOK, NEW u \in Users
    PROVE  View(u) \in UserTrees(u)
BY LaidAllUserTree DEF View, FirebaseTypeOK

(* The first data of a connection is the user's part of the server's tree. *)
LEMMA UnderTree ==
    ASSUME NEW u \in Users, NEW tree \in Trees
    PROVE  Under(u, tree) \in UserTrees(u)
<1>1. DOMAIN tree \cap UserPaths(u) = UserPaths(u)
    BY UserPathsArePaths DEF Trees
<1> QED BY <1>1 DEF Under, UserTrees, Trees

-----------------------------------------------------------------------------
(* One lemma per step. *)

LEMMA FirebaseInitInv ==
    ASSUME NEW observers \in SUBSET Users, FirebaseInit(observers)
    PROVE  FirebaseInv
<1>1. db \in Trees
    BY UserPathsArePaths DEF FirebaseInit, Trees, Values
<1>2. \A u \in Users : EmptyTree(u) \in UserTrees(u)
    BY DEF EmptyTree, UserTrees
<1>3. \A u \in Users : applied[u] = Cardinality(AckIndices(down[u]))
    <2> SUFFICES ASSUME NEW u \in Users PROVE applied[u] = Cardinality(AckIndices(down[u]))
        OBVIOUS
    <2>1. AckIndices(<<>>) = {}
        BY DEF AckIndices
    <2> QED BY <2>1, FS_EmptySet DEF FirebaseInit
<1> QED BY <1>1, <1>2, <1>3
        DEF FirebaseInit, FirebaseInv, FirebaseTypeOK, AcksMatchPuts, QuietWhenDown

LEMMA PutInv ==
    ASSUME FirebaseInv, NEW u \in Users, NEW updates \in Seq(Updates),
           Len(updates) \in {1, 2}, Put(u, updates)
    PROVE  FirebaseInv'
<1> USE DEF FirebaseInv, FirebaseTypeOK
<1>1. writes' \in [Users -> Seq(Updates)] /\ \A v \in Users : Len(writes[v]) <= Len(writes'[v])
    BY ConcatProperties, LenProperties DEF Put
<1>2. \A v \in Users : applied'[v] <= Len(writes'[v])
    BY <1>1, LenProperties DEF Put
<1>3. \A v \in Users : events'[v] \in Seq(UserTrees(v))
    <2>1. updates[1] \in Updates /\ (Len(updates) = 2 => updates[2] \in Updates)
        BY ElementOfSeq
    <2> DEFINE once == Lay(View(u), updates[1])
               twice == IF Len(updates) = 2 THEN Lay(once, updates[2]) ELSE once
    <2>2. once \in UserTrees(u)
        BY <2>1, ViewType, LaidUserTree
    <2>3. twice \in UserTrees(u)
        BY <2>1, <2>2, LaidUserTree
    <2>4. LocalEvents(u, updates) \in Seq(UserTrees(u))
        BY <2>2, <2>3 DEF LocalEvents, Raised
    <2> QED BY <2>4, ConcatProperties DEF Put
<1> QED BY <1>1, <1>2, <1>3 DEF Put, AcksMatchPuts, QuietWhenDown

(* A push is at most one message, of the receiver's own node. *)
LEMMA PushType ==
    ASSUME NEW u \in Users, NEW v \in Users, NEW update \in Updates
    PROVE  Push(u, v, update) \in Seq(Messages(v))
<1> DEFINE data == IF listen[v] = "none" THEN NoUpdate ELSE Under(v, update)
<1>1. data \in Pushes(v)
    <2>1. NoUpdate = Under(v, NoUpdate)
        BY DEF NoUpdate, Under
    <2> QED BY <2>1 DEF Pushes
<1>2. ASSUME NEW b \in BOOLEAN
      PROVE  <<[ack |-> b, data |-> data]>> \in Seq(Messages(v))
    <2>1. [ack |-> b, data |-> data] \in Messages(v)
        BY <1>1 DEF Messages
    <2> QED BY <2>1
<1>3. \/ Push(u, v, update) = <<>>
      \/ Push(u, v, update) = <<[ack |-> TRUE, data |-> data]>>
      \/ Push(u, v, update) = <<[ack |-> FALSE, data |-> data]>>
    BY DEF Push
<1>4. <<>> \in Seq(Messages(v))
    OBVIOUS
<1> HIDE DEF data
<1> QED BY <1>2, <1>3, <1>4

LEMMA ServerApplyInv ==
    ASSUME FirebaseInv, NEW u \in Users, ServerApply(u)
    PROVE  FirebaseInv'
<1> DEFINE update == writes[u][applied[u] + 1]
<1> USE DEF FirebaseInv, FirebaseTypeOK
<1>1. update \in Updates
    <2>1. applied[u] + 1 \in 1..Len(writes[u])
        BY LenProperties DEF ServerApply
    <2> QED BY <2>1, ElementOfSeq
<1>2. db' \in Trees
    BY <1>1, LaidTree DEF ServerApply
<1>3. ASSUME NEW v \in Users
      PROVE  /\ down'[v] \in Seq(Messages(v))
             /\ Cardinality(AckIndices(down'[v])) =
                    Cardinality(AckIndices(down[v])) + (IF v = u THEN 1 ELSE 0)
    <2> DEFINE data == IF listen[v] = "none" THEN NoUpdate ELSE Under(v, update)
               m == [ack |-> v = u, data |-> data]
    <2>1. data \in Pushes(v)
        <3>1. NoUpdate = Under(v, NoUpdate)
            BY DEF NoUpdate, Under
        <3> QED BY <1>1, <3>1 DEF Pushes
    <2>2. m \in Messages(v)
        BY <2>1 DEF Messages
    <2>3. down[v] \in Seq(Messages(v))
        OBVIOUS
    <2>4. down'[v] = down[v] \o Push(u, v, update)
        BY DEF ServerApply
    <2>5. CASE Push(u, v, update) = <<m>>
        <3>1. down'[v] \in Seq(Messages(v))
            BY <2>2, <2>3, <2>4, <2>5, ConcatProperties
        <3>2. v = u <=> m.ack
            OBVIOUS
        <3> QED BY <3>1, <3>2, <2>2, <2>3, <2>4, <2>5, AckPushed
    <2>6. CASE v # u /\ Push(u, v, update) = <<>>
        <3>1. down'[v] = down[v]
            BY <2>3, <2>4, <2>6, ConcatEmptySeq
        <3> QED BY <2>3, <2>6, <3>1, AckIndicesFinite
    <2> QED BY <2>5, <2>6 DEF Push
<1>4. DOMAIN down' = Users
    BY DEF ServerApply
<1>5. /\ applied' \in [Users -> Nat]
      /\ \A v \in Users : applied'[v] <= Len(writes'[v])
      /\ \A v \in Users : applied'[v] = applied[v] + (IF v = u THEN 1 ELSE 0)
    BY LenProperties DEF ServerApply
<1>6. AcksMatchPuts'
    BY <1>3, <1>5 DEF AcksMatchPuts
<1>7. QuietWhenDown'
    <2> SUFFICES ASSUME NEW v \in Users, link'[v] = "down"
                 PROVE  down'[v] = <<>>
        BY DEF QuietWhenDown
    <2>1. v # u /\ down[v] = <<>> /\ link[v] = "down"
        BY DEF ServerApply, QuietWhenDown
    <2>2. Push(u, v, update) = <<>>
        BY <2>1 DEF Push
    <2> QED BY <2>1, <2>2 DEF ServerApply
<1> QED BY <1>2, <1>3, <1>4, <1>5, <1>6, <1>7 DEF ServerApply

LEMMA ReceiveInv ==
    ASSUME FirebaseInv, NEW u \in Users, Receive(u)
    PROVE  FirebaseInv'
<1> DEFINE m    == Head(down[u])
           tree == Lay(cache[u], m.data)
           left == IF m.ack THEN Tail(writes[u]) ELSE writes[u]
           view == LayAll(tree, left)
<1> USE DEF FirebaseInv, FirebaseTypeOK
<1>1. /\ m \in Messages(u)
      /\ Tail(down[u]) \in Seq(Messages(u))
      /\ Cardinality(AckIndices(Tail(down[u]))) =
            Cardinality(AckIndices(down[u])) - (IF m.ack THEN 1 ELSE 0)
    BY HeadTailProperties, AckTaken DEF Receive
<1>2. m.ack => applied[u] >= 1
    <2>1. Cardinality(AckIndices(Tail(down[u]))) \in Nat
        BY <1>1, AckIndicesFinite
    <2>2. applied[u] = Cardinality(AckIndices(down[u])) /\ applied[u] \in Nat
        BY DEF AcksMatchPuts
    <2> QED BY <1>1, <2>1, <2>2
<1>3. m.ack => writes[u] # <<>>
    BY <1>2, EmptySeq
<1>4. left \in Seq(Updates) /\ Len(left) = Len(writes[u]) - (IF m.ack THEN 1 ELSE 0)
    BY <1>3, HeadTailProperties, LenProperties
<1>5. tree \in UserTrees(u)
    BY <1>1, LaidUserTree DEF Messages
<1>6. view \in UserTrees(u)
    BY <1>4, <1>5, LaidAllUserTree
<1>7. /\ DOMAIN cache' = Users
      /\ \A v \in Users : cache'[v] \in UserTrees(v)
    BY <1>5 DEF Receive
<1>8. /\ writes' \in [Users -> Seq(Updates)]
      /\ applied' \in [Users -> Nat]
      /\ \A v \in Users : applied'[v] <= Len(writes'[v])
    BY <1>2, <1>4, LenProperties DEF Receive
<1>9. /\ DOMAIN down' = Users
      /\ \A v \in Users : down'[v] \in Seq(Messages(v))
    BY <1>1 DEF Receive
<1>10. /\ DOMAIN events' = Users
       /\ \A v \in Users : events'[v] \in Seq(UserTrees(v))
    <2> DEFINE raised == IF listen[u] = "none" THEN <<>>
                     ELSE IF listen[u] = "waiting" THEN <<view>>
                     ELSE Raised(View(u), view)
    <2>1. raised \in Seq(UserTrees(u))
        BY <1>6 DEF Raised
    <2>2. events' = [events EXCEPT ![u] = @ \o raised]
        BY DEF Receive
    <2> QED BY <2>1, <2>2, ConcatProperties
<1>11. AcksMatchPuts'
    <2> SUFFICES ASSUME NEW v \in Users
                 PROVE  applied'[v] = Cardinality(AckIndices(down'[v]))
        BY DEF AcksMatchPuts
    <2>1. CASE v = u
        BY <1>1, <1>2, <2>1 DEF Receive, AcksMatchPuts
    <2>2. CASE v # u
        BY <2>2 DEF Receive, AcksMatchPuts
    <2> QED BY <2>1, <2>2
<1>12. listen' \in [Users -> {"none", "waiting", "live"}]
    BY DEF Receive
<1>13. QuietWhenDown'
    BY DEF Receive, QuietWhenDown
<1> QED BY <1>7, <1>8, <1>9, <1>10, <1>11, <1>12, <1>13 DEF Receive

(* A channel without acknowledgements. *)
LEMMA NoAcks ==
    ASSUME NEW s, \A i \in DOMAIN s : ~s[i].ack
    PROVE  Cardinality(AckIndices(s)) = 0
<1>1. AckIndices(s) = {}
    BY DEF AckIndices
<1> QED BY <1>1, FS_EmptySet

LEMMA LoseConnectionInv ==
    ASSUME FirebaseInv, NEW u \in Users, LoseConnection(u)
    PROVE  FirebaseInv'
<1> USE DEF FirebaseInv, FirebaseTypeOK, LoseConnection
<1>1. Cardinality(AckIndices(<<>>)) = 0
    BY NoAcks
<1>2. AcksMatchPuts'
    BY <1>1 DEF AcksMatchPuts
<1>3. \A v \in Users : applied'[v] <= Len(writes'[v])
    BY LenProperties
<1> QED BY <1>2, <1>3 DEF QuietWhenDown

LEMMA ConnectInv ==
    ASSUME FirebaseInv, NEW u \in Users, Connect(u)
    PROVE  FirebaseInv'
<1> DEFINE m == [ack |-> FALSE, data |-> Under(u, db)]
<1> USE DEF FirebaseInv, FirebaseTypeOK, Connect
<1>1. m \in Messages(u)
    BY UnderTree DEF Messages, Pushes
<1>2. /\ DOMAIN down' = Users
      /\ \A v \in Users : down'[v] \in Seq(Messages(v))
    BY <1>1
<1>3. Cardinality(AckIndices(<<>>)) = 0 /\ Cardinality(AckIndices(<<m>>)) = 0
    BY NoAcks
<1>4. AcksMatchPuts'
    BY <1>3 DEF AcksMatchPuts, QuietWhenDown
<1> QED BY <1>2, <1>4 DEF QuietWhenDown

LEMMA EndProcessInv ==
    ASSUME FirebaseInv, NEW u \in Users, EndProcess(u)
    PROVE  FirebaseInv'
<1> USE DEF FirebaseInv, FirebaseTypeOK, EndProcess
<1>1. Cardinality(AckIndices(<<>>)) = 0
    BY NoAcks
<1>2. AcksMatchPuts'
    BY <1>1 DEF AcksMatchPuts
<1>3. EmptyTree(u) \in UserTrees(u)
    BY DEF EmptyTree, UserTrees
<1>4. \A v \in Users : cache'[v] \in UserTrees(v) /\ events'[v] \in Seq(UserTrees(v))
    BY <1>3
<1>5. \A v \in Users : applied'[v] <= Len(writes'[v])
    BY LenProperties
<1> QED BY <1>2, <1>4, <1>5 DEF QuietWhenDown

LEMMA ObserveInv ==
    ASSUME FirebaseInv, NEW u \in Users, Observe(u)
    PROVE  FirebaseInv'
BY DEF FirebaseInv, FirebaseTypeOK, AcksMatchPuts, QuietWhenDown, Observe

LEMMA FirebaseStutterInv ==
    ASSUME FirebaseInv, UNCHANGED firebaseVars
    PROVE  FirebaseInv'
BY DEF FirebaseInv, FirebaseTypeOK, AcksMatchPuts, QuietWhenDown, firebaseVars

-----------------------------------------------------------------------------
Inv == TypeOK /\ AcksMatchPuts /\ QuietWhenDown

SessionTypeOK ==
    /\ DOMAIN session = Users
    /\ \A u \in Users : session[u] \in UserTrees(u) \cup {NoSession}
    /\ DOMAIN shown = Users /\ \A u \in Users : shown[u] \in [Others(u) -> Buttons]
    /\ DOMAIN toggled = Users /\ \A u \in Users : toggled[u] \in [Others(u) -> BOOLEAN]
    /\ app \in [Users -> {"running"} \cup Ends]
    /\ asker \in [Ids -> Pairs \cup {Nil}]
    /\ fate \in [Ids -> Fates]
    /\ taps \in 0..MaxTaps /\ drops \in 0..MaxDrops
    /\ deaths \in Nat /\ launches \in 0..MaxLaunches

LEMMA InvParts == Inv <=> FirebaseInv /\ SessionTypeOK
BY DEF Inv, FirebaseInv, TypeOK, SessionTypeOK

LEMMA InvPartsPrime == Inv' <=> FirebaseInv' /\ SessionTypeOK'
BY DEF Inv, FirebaseInv, TypeOK, SessionTypeOK

LEMMA RowsType ==
    ASSUME NEW s, NEW u
    PROVE  Rows(s, u) \in [Others(u) -> Buttons]
BY DEF Rows, Row, Buttons

LEMMA RowType ==
    ASSUME NEW s, NEW u, NEW v
    PROVE  Row(s, u, v) \in Buttons
BY DEF Row, Buttons

(* The updates a tap sends are updates of DatabaseManager. *)
LEMMA TapUpdates ==
    ASSUME NEW u \in Users, NEW v \in Others(u), NEW id \in Ids
    PROVE  /\ addRelationship(u, v, id) \in Updates
           /\ deleteRelationship(u, v, id) \in Updates
           /\ addPending(u, v, id) \in Updates
<1>1. <<u, v>> \in Pairs /\ <<u, v>>[1] = u /\ <<u, v>>[2] = v
    BY DEF Pairs, Others
<1> QED BY <1>1 DEF Updates

LEMMA RemovalUpdates ==
    ASSUME NEW u \in Users, NEW v \in Others(u)
    PROVE  /\ removePending(u, v) \in Updates
           /\ removeRequest(u, v) \in Updates
<1>1. <<u, v>> \in Pairs /\ <<u, v>>[1] = u /\ <<u, v>>[2] = v
    BY DEF Pairs, Others
<1> QED BY <1>1 DEF Updates

(* One put of a tap. *)
LEMMA PutOneInv ==
    ASSUME FirebaseInv, NEW u \in Users, NEW update \in Updates, Put(u, <<update>>)
    PROVE  FirebaseInv'
<1>1. <<update>> \in Seq(Updates) /\ Len(<<update>>) = 1
    OBVIOUS
<1> QED BY <1>1, PutInv

LEMMA PutTwoInv ==
    ASSUME FirebaseInv, NEW u \in Users, NEW one \in Updates, NEW two \in Updates,
           Put(u, <<one, two>>)
    PROVE  FirebaseInv'
<1>1. <<one, two>> \in Seq(Updates) /\ Len(<<one, two>>) = 2
    OBVIOUS
<1> QED BY <1>1, PutInv

(* A change of a leaf of one's own session. *)
LEMMA SessionChange ==
    ASSUME SessionTypeOK, NEW u \in Users, session[u] # NoSession,
           NEW path \in UserPaths(u), NEW x \in Ids \cup {Nil}
    PROVE  [session[u] EXCEPT ![path] = x] \in UserTrees(u)
BY DEF SessionTypeOK, UserTrees

(* A tap that changes the session in place and neither the rows nor the    *)
(* process.                                                                *)
LEMMA TapKeepsTypes ==
    ASSUME SessionTypeOK, NEW u \in Users, Tap(u), NEW tree \in UserTrees(u),
           session' = [session EXCEPT ![u] = tree],
           UNCHANGED <<shown, toggled, app, deaths>>,
           asker' \in [Ids -> Pairs \cup {Nil}], fate' \in [Ids -> Fates]
    PROVE  SessionTypeOK'
<1>1. taps' \in 0..MaxTaps /\ drops' \in 0..MaxDrops /\ launches' \in 0..MaxLaunches
    BY SessionAssumption DEF SessionTypeOK, Tap
<1>2. DOMAIN session' = Users /\ \A w \in Users : session'[w] \in UserTrees(w) \cup {NoSession}
    BY DEF SessionTypeOK
<1> QED BY <1>1, <1>2 DEF SessionTypeOK

LEMMA ProcessGoneInv ==
    ASSUME Inv, NEW u \in Users, NEW why \in Ends, ProcessGone(u, why),
           taps' \in 0..MaxTaps, UNCHANGED <<drops, launches>>
    PROVE  Inv'
<1>1. FirebaseInv'
    BY InvParts, EndProcessInv DEF ProcessGone
<1>2. SessionTypeOK'
    BY InvParts, RowsType DEF SessionTypeOK, ProcessGone, historyVars
<1> QED BY <1>1, <1>2, InvPartsPrime

-----------------------------------------------------------------------------
(* The initial states, and one lemma per action. *)

LEMMA InitInv == Init => Inv
<1> SUFFICES ASSUME Init PROVE Inv
    OBVIOUS
<1>1. FirebaseInv
    BY FirebaseInitInv DEF Init
<1>2. \A u \in Users : EmptyTree(u) \in UserTrees(u)
    BY DEF EmptyTree, UserTrees
<1>3. SessionTypeOK
    BY <1>2, RowsType, SessionAssumption DEF SessionTypeOK, Init, Fates
<1> QED BY <1>1, <1>3, InvParts

LEMMA TapDeleteInv ==
    ASSUME Inv, NEW u \in Users, NEW v \in Others(u), TapDelete(u, v)
    PROVE  Inv'
<1> DEFINE id == session[u][Rel(u, v)]
<1> USE InvParts, SessionAssumption
<1>1. CASE id = Nil
    <2>1. ProcessGone(u, "nil_cast") /\ taps' \in 0..MaxTaps /\ UNCHANGED <<drops, launches>>
        BY <1>1 DEF TapDelete, Tap, SessionTypeOK
    <2> QED BY <2>1, ProcessGoneInv DEF Ends
<1>2. CASE id # Nil
    <2>1. id \in Ids
        BY <1>2, PairPaths DEF TapDelete, SessionTypeOK, UserTrees
    <2>2. FirebaseInv'
        BY <1>2, <2>1, TapUpdates, PutOneInv DEF TapDelete
    <2>3. [session[u] EXCEPT ![Rel(u, v)] = Nil] \in UserTrees(u)
        BY PairPaths, SessionChange DEF TapDelete
    <2>4. /\ fate' \in [Ids -> Fates]
          /\ asker' \in [Ids -> Pairs \cup {Nil}]
        BY <1>2, <2>1 DEF TapDelete, SessionTypeOK, Fates, AfterDelete
    <2>5. SessionTypeOK'
        BY <1>2, <2>3, <2>4, TapKeepsTypes DEF TapDelete, screenVars
    <2> QED BY <2>2, <2>5, InvPartsPrime
<1> QED BY <1>1, <1>2

LEMMA TapDeleteSelfInv ==
    ASSUME Inv, NEW u \in Users, TapDeleteSelf(u)
    PROVE  Inv'
<1>1. ProcessGone(u, "duplicate_key") /\ taps' \in 0..MaxTaps /\ UNCHANGED <<drops, launches>>
    BY InvParts, SessionAssumption DEF TapDeleteSelf, Tap, SessionTypeOK
<1> QED BY <1>1, ProcessGoneInv DEF Ends

(* Taking requests back leaves fates and askers of their types. *)
LEMMA TakeBackTypes ==
    ASSUME SessionTypeOK, NEW u \in Users, NEW v \in Others(u), TakeBack(u, v)
    PROVE  /\ fate' \in [Ids -> Fates]
           /\ asker' \in [Ids -> Pairs \cup {Nil}]
BY DEF TakeBack, SessionTypeOK, Fates

LEMMA TapUnsendInv ==
    ASSUME Inv, NEW u \in Users, NEW v \in Others(u), TapUnsend(u, v)
    PROVE  Inv'
<1> USE InvParts, SessionAssumption
<1>1. FirebaseInv'
    BY RemovalUpdates, PutOneInv DEF TapUnsend
<1>2. [session[u] EXCEPT ![Pend(u, v)] = Nil] \in UserTrees(u)
    BY PairPaths, SessionChange DEF TapUnsend
<1>3. fate' \in [Ids -> Fates] /\ asker' \in [Ids -> Pairs \cup {Nil}]
    BY TakeBackTypes DEF TapUnsend
<1>4. SessionTypeOK'
    BY <1>2, <1>3, TapKeepsTypes DEF TapUnsend, screenVars
<1> QED BY <1>1, <1>4, InvPartsPrime

LEMMA TapAcceptInv ==
    ASSUME Inv, NEW u \in Users, NEW v \in Others(u), TapAccept(u, v)
    PROVE  Inv'
<1> DEFINE id == session[u][Req(u, v)]
<1> USE InvParts, SessionAssumption
<1>1. CASE id = Nil
    <2>1. ProcessGone(u, "nil_cast") /\ taps' \in 0..MaxTaps /\ UNCHANGED <<drops, launches>>
        BY <1>1 DEF TapAccept, Tap, SessionTypeOK
    <2> QED BY <2>1, ProcessGoneInv DEF Ends
<1>2. CASE id # Nil
    <2>1. id \in Ids
        BY <1>2, PairPaths DEF TapAccept, SessionTypeOK, UserTrees
    <2>2. FirebaseInv'
        BY <1>2, <2>1, TapUpdates, RemovalUpdates, PutTwoInv DEF TapAccept
    <2>3. [session[u] EXCEPT ![Rel(u, v)] = id, ![Req(u, v)] = Nil] \in UserTrees(u)
        BY <2>1, PairPaths DEF TapAccept, SessionTypeOK, UserTrees
    <2>4. session' = [session EXCEPT ![u] =
                        [session[u] EXCEPT ![Rel(u, v)] = id, ![Req(u, v)] = Nil]]
        BY <1>2 DEF TapAccept, SessionTypeOK
    <2>5. /\ fate' \in [Ids -> Fates]
          /\ asker' \in [Ids -> Pairs \cup {Nil}]
        BY <1>2, <2>1 DEF TapAccept, SessionTypeOK, Fates, AfterAccept
    <2>6. SessionTypeOK'
        BY <1>2, <2>3, <2>4, <2>5, TapKeepsTypes DEF TapAccept, screenVars
    <2> QED BY <2>2, <2>6, InvPartsPrime
<1> QED BY <1>1, <1>2

LEMMA TapDeclineInv ==
    ASSUME Inv, NEW u \in Users, NEW v \in Others(u), TapDecline(u, v)
    PROVE  Inv'
<1> USE InvParts, SessionAssumption
<1>1. FirebaseInv'
    BY RemovalUpdates, PutOneInv DEF TapDecline
<1>2. [session[u] EXCEPT ![Req(u, v)] = Nil] \in UserTrees(u)
    BY PairPaths, SessionChange DEF TapDecline
<1>3. /\ fate' \in [Ids -> Fates]
      /\ asker' \in [Ids -> Pairs \cup {Nil}]
    BY DEF TapDecline, SessionTypeOK, Fates
<1>4. SessionTypeOK'
    BY <1>2, <1>3, TapKeepsTypes DEF TapDecline, screenVars
<1> QED BY <1>1, <1>4, InvPartsPrime

(* A tap on an "Add" row also toggles the row. *)
LEMMA TapTogglesTypes ==
    ASSUME SessionTypeOK, NEW u \in Users, NEW v \in Others(u), Tap(u), Toggle(u, v),
           DOMAIN session' = Users,
           \A w \in Users : session'[w] \in UserTrees(w) \cup {NoSession},
           UNCHANGED <<app, deaths>>,
           asker' \in [Ids -> Pairs \cup {Nil}], fate' \in [Ids -> Fates]
    PROVE  SessionTypeOK'
<1>1. taps' \in 0..MaxTaps /\ drops' \in 0..MaxDrops /\ launches' \in 0..MaxLaunches
    BY SessionAssumption DEF SessionTypeOK, Tap
<1>2. DOMAIN shown' = Users /\ \A w \in Users : shown'[w] \in [Others(w) -> Buttons]
    <2> DEFINE row == Row(session'[u], u, v)
    <2>1. row \in Buttons
        BY RowType
    <2>2. [shown[u] EXCEPT ![v] = row] \in [Others(u) -> Buttons]
        BY <2>1 DEF SessionTypeOK
    <2>3. shown' = [shown EXCEPT ![u] = [shown[u] EXCEPT ![v] = row]]
        BY DEF Toggle, SessionTypeOK
    <2> HIDE DEF row
    <2> QED BY <2>2, <2>3 DEF SessionTypeOK
<1>3. DOMAIN toggled' = Users /\ \A w \in Users : toggled'[w] \in [Others(w) -> BOOLEAN]
    <2>1. [toggled[u] EXCEPT ![v] = ~@] \in [Others(u) -> BOOLEAN]
        BY DEF SessionTypeOK
    <2>2. toggled' = [toggled EXCEPT ![u] = [toggled[u] EXCEPT ![v] = ~@]]
        BY DEF Toggle, SessionTypeOK
    <2> QED BY <2>1, <2>2 DEF SessionTypeOK
<1> QED BY <1>1, <1>2, <1>3 DEF SessionTypeOK

LEMMA TapAddInv ==
    ASSUME Inv, NEW u \in Users, NEW v \in Others(u), TapAdd(u, v)
    PROVE  Inv'
<1> USE InvParts
<1>1. PICK id \in Ids :
        /\ Put(u, <<addPending(u, v, id)>>)
        /\ session' = [session EXCEPT ![u][Pend(u, v)] = id]
        /\ asker' = [asker EXCEPT ![id] = <<u, v>>]
        /\ fate' = [fate EXCEPT ![id] = "asked"]
    BY DEF TapAdd
<1>2. FirebaseInv'
    BY <1>1, TapUpdates, PutOneInv
<1>3. [session[u] EXCEPT ![Pend(u, v)] = id] \in UserTrees(u)
    BY PairPaths, SessionChange DEF TapAdd
<1>4. DOMAIN session' = Users /\ \A w \in Users : session'[w] \in UserTrees(w) \cup {NoSession}
    BY <1>1, <1>3 DEF SessionTypeOK
<1>5. <<u, v>> \in Pairs
    BY DEF Pairs, Others
<1>6. asker' \in [Ids -> Pairs \cup {Nil}] /\ fate' \in [Ids -> Fates]
    BY <1>1, <1>5 DEF SessionTypeOK, Fates
<1>7. SessionTypeOK'
    BY <1>4, <1>6, TapTogglesTypes DEF TapAdd
<1> QED BY <1>2, <1>7, InvPartsPrime

LEMMA TapToggledInv ==
    ASSUME Inv, NEW u \in Users, NEW v \in Others(u), TapToggled(u, v)
    PROVE  Inv'
<1> USE InvParts
<1>1. FirebaseInv'
    BY RemovalUpdates, PutOneInv DEF TapToggled
<1>2. [session[u] EXCEPT ![Pend(u, v)] = Nil] \in UserTrees(u)
    BY PairPaths, SessionChange DEF TapToggled
<1>3. DOMAIN session' = Users /\ \A w \in Users : session'[w] \in UserTrees(w) \cup {NoSession}
    BY <1>2 DEF TapToggled, SessionTypeOK
<1>4. fate' \in [Ids -> Fates] /\ asker' \in [Ids -> Pairs \cup {Nil}]
    BY TakeBackTypes DEF TapToggled
<1>5. SessionTypeOK'
    BY <1>3, <1>4, TapTogglesTypes DEF TapToggled
<1> QED BY <1>1, <1>5, InvPartsPrime

LEMMA TapBeforeSessionInv ==
    ASSUME Inv, NEW u \in Users, NEW v \in Others(u), TapBeforeSession(u, v)
    PROVE  Inv'
<1> USE InvParts
<1>1. FirebaseInv'
    BY FirebaseStutterInv DEF TapBeforeSession
<1>2. SessionTypeOK'
    BY TapTogglesTypes DEF TapBeforeSession, SessionTypeOK, historyVars
<1> QED BY <1>1, <1>2, InvPartsPrime

LEMMA DeliverEventInv ==
    ASSUME Inv, NEW u \in Users, DeliverEvent(u)
    PROVE  Inv'
<1> USE InvParts
<1>1. Head(events[u]) \in UserTrees(u) /\ Tail(events[u]) \in Seq(UserTrees(u))
    BY HeadTailProperties DEF DeliverEvent, FirebaseInv, FirebaseTypeOK
<1>2. FirebaseInv'
    BY <1>1 DEF DeliverEvent, FirebaseInv, FirebaseTypeOK, AcksMatchPuts, QuietWhenDown
<1>3. SessionTypeOK'
    BY <1>1, RowsType DEF DeliverEvent, SessionTypeOK, historyVars
<1> QED BY <1>2, <1>3, InvPartsPrime

LEMMA RedrawInv ==
    ASSUME Inv, NEW u \in Users, NEW v \in Others(u), Redraw(u, v)
    PROVE  Inv'
<1> DEFINE row == Row(session[u], u, v)
<1> USE InvParts
<1>1. FirebaseInv'
    BY FirebaseStutterInv DEF Redraw
<1>2. row \in Buttons
    BY RowType
<1>3. [shown[u] EXCEPT ![v] = row] \in [Others(u) -> Buttons]
    BY <1>2 DEF SessionTypeOK
<1>4. shown' = [shown EXCEPT ![u] = [shown[u] EXCEPT ![v] = row]]
    BY DEF Redraw, SessionTypeOK
<1> HIDE DEF row
<1>5. DOMAIN shown' = Users /\ \A w \in Users : shown'[w] \in [Others(w) -> Buttons]
    BY <1>3, <1>4 DEF SessionTypeOK
<1>6. DOMAIN toggled' = Users /\ \A w \in Users : toggled'[w] \in [Others(w) -> BOOLEAN]
    <2>1. [toggled[u] EXCEPT ![v] = FALSE] \in [Others(u) -> BOOLEAN]
        BY DEF SessionTypeOK
    <2>2. \/ toggled' = toggled
          \/ toggled' = [toggled EXCEPT ![u] = [toggled[u] EXCEPT ![v] = FALSE]]
        BY DEF Redraw, SessionTypeOK
    <2> QED BY <2>1, <2>2 DEF SessionTypeOK
<1>7. SessionTypeOK'
    BY <1>5, <1>6 DEF Redraw, SessionTypeOK, historyVars
<1> QED BY <1>1, <1>7, InvPartsPrime

LEMMA DropInv ==
    ASSUME Inv, NEW u \in Users, Drop(u)
    PROVE  Inv'
<1> USE InvParts
<1>1. FirebaseInv'
    BY LoseConnectionInv DEF Drop
<1>2. SessionTypeOK'
    BY SessionAssumption DEF Drop, SessionTypeOK, screenVars, historyVars
<1> QED BY <1>1, <1>2, InvPartsPrime

LEMMA ReconnectInv ==
    ASSUME Inv, NEW u \in Users, Reconnect(u)
    PROVE  Inv'
<1> USE InvParts
<1>1. FirebaseInv'
    BY ConnectInv DEF Reconnect
<1>2. SessionTypeOK'
    BY DEF Reconnect, SessionTypeOK, sessionVars
<1> QED BY <1>1, <1>2, InvPartsPrime

LEMMA KillInv ==
    ASSUME Inv, NEW u \in Users, Kill(u)
    PROVE  Inv'
<1>1. ProcessGone(u, "killed") /\ taps' \in 0..MaxTaps /\ UNCHANGED <<drops, launches>>
    BY InvParts DEF Kill, SessionTypeOK
<1> QED BY <1>1, ProcessGoneInv DEF Ends

LEMMA LaunchInv ==
    ASSUME Inv, NEW u \in Users, Launch(u)
    PROVE  Inv'
<1> USE InvParts
<1>1. FirebaseInv'
    BY ObserveInv DEF Launch
<1>2. SessionTypeOK'
    BY SessionAssumption DEF Launch, SessionTypeOK, screenVars, historyVars
<1> QED BY <1>1, <1>2, InvPartsPrime

LEMMA ApplyInv ==
    ASSUME Inv, NEW u \in Users, Apply(u)
    PROVE  Inv'
<1> USE InvParts
<1>1. FirebaseInv'
    BY ServerApplyInv DEF Apply
<1>2. SessionTypeOK'
    BY DEF Apply, SessionTypeOK, sessionVars
<1> QED BY <1>1, <1>2, InvPartsPrime

LEMMA HandleInv ==
    ASSUME Inv, NEW u \in Users, Handle(u)
    PROVE  Inv'
<1> USE InvParts
<1>1. FirebaseInv'
    BY ReceiveInv DEF Handle
<1>2. SessionTypeOK'
    BY DEF Handle, SessionTypeOK, sessionVars
<1> QED BY <1>1, <1>2, InvPartsPrime

LEMMA StutterInv ==
    ASSUME Inv, UNCHANGED vars
    PROVE  Inv'
<1> USE InvParts
<1>1. FirebaseInv'
    BY FirebaseStutterInv DEF vars
<1>2. SessionTypeOK'
    BY DEF vars, SessionTypeOK, sessionVars
<1> QED BY <1>1, <1>2, InvPartsPrime

LEMMA StepInv == Inv /\ [Next]_vars => Inv'
<1> SUFFICES ASSUME Inv, [Next]_vars PROVE Inv'
    OBVIOUS
<1>1. CASE UNCHANGED vars
    BY <1>1, StutterInv
<1>2. CASE Next
    <2>1. PICK u \in Users : UserStep(u) \/ SystemStep(u) \/ WorldStep(u)
        BY <1>2 DEF Next
    <2>2. CASE TapDeleteSelf(u)
        BY <2>2, TapDeleteSelfInv
    <2>3. CASE \E v \in Others(u) :
                \/ TapDelete(u, v) \/ TapUnsend(u, v)
                \/ TapAccept(u, v) \/ TapDecline(u, v)
                \/ TapAdd(u, v) \/ TapToggled(u, v) \/ TapBeforeSession(u, v)
                \/ Redraw(u, v)
        <3>1. PICK v \in Others(u) :
                \/ TapDelete(u, v) \/ TapUnsend(u, v)
                \/ TapAccept(u, v) \/ TapDecline(u, v)
                \/ TapAdd(u, v) \/ TapToggled(u, v) \/ TapBeforeSession(u, v)
                \/ Redraw(u, v)
            BY <2>3
        <3> QED BY <3>1, TapDeleteInv, TapUnsendInv, TapAcceptInv, TapDeclineInv, TapAddInv,
                   TapToggledInv, TapBeforeSessionInv, RedrawInv
    <2>4. CASE SystemStep(u)
        BY <2>4, ApplyInv, HandleInv, DeliverEventInv, ReconnectInv DEF SystemStep
    <2>5. CASE WorldStep(u)
        BY <2>5, DropInv, KillInv, LaunchInv DEF WorldStep
    <2> QED BY <2>1, <2>2, <2>3, <2>4, <2>5 DEF UserStep
<1> QED BY <1>1, <1>2

THEOREM Invariance == Spec => []Inv
BY InitInv, StepInv, PTL DEF Spec

(* The type invariant, for any number of users, ids, taps and faults: the  *)
(* dictionaries hold ids, every put in a queue is an update of             *)
(* DatabaseManager, and no more puts are applied than are outstanding.     *)
THEOREM TypeCorrect == Spec => []TypeOK
<1>1. Inv => TypeOK
    BY DEF Inv
<1> QED BY <1>1, Invariance, PTL

(* Every acknowledgement on its way to a client is that of an outstanding  *)
(* put, through lost connections, puts sent again and ended processes.     *)
THEOREM AcksMeetTheirPuts == Spec => []AcksMatchPuts
<1>1. Inv => AcksMatchPuts
    BY DEF Inv
<1> QED BY <1>1, Invariance, PTL

-----------------------------------------------------------------------------
(* The sessions follow the clients' views, the caches follow the server,   *)
(* and so, once nothing is left to deliver, every session and every row    *)
(* shows what the server holds.                                            *)

(* The session after the events on the main queue. *)
Latest(u) == IF events[u] = <<>> THEN session[u] ELSE events[u][Len(events[u])]

(* Rows are drawn from the session unless an event is about to replace it. *)
RowsCurrent ==
    \A u \in Users :
        listen[u] = "live" /\ events[u] = <<>> => shown[u] = Rows(session[u], u)

(* The data of a sequence of messages. *)
Data(messages) == [i \in DOMAIN messages |-> messages[i].data]

(* With the data on its way laid over it, a cache is what the server holds. *)
CacheCatchesUp ==
    \A u \in Users : listen[u] # "none" /\ link[u] = "up" =>
        LayAll(cache[u], Data(down[u])) = Under(u, db)

(* A process that ended has no connection. *)
EndedAreOffline == \A u \in Users : app[u] # "running" => link[u] = "down"

Agreeing == NothingMissed /\ RowsCurrent /\ CacheCatchesUp /\ EndedAreOffline

-----------------------------------------------------------------------------
(* The view and the events of one and of two puts. *)

LEMMA LastOfConcat ==
    ASSUME NEW S, NEW s \in Seq(S), NEW x \in S
    PROVE  s \o <<x>> # <<>> /\ (s \o <<x>>)[Len(s \o <<x>>)] = x
<1>1. <<x>> \in Seq(S) /\ Len(<<x>>) = 1 /\ <<x>>[1] = x
    OBVIOUS
<1>2. Len(s) \in Nat
    BY LenProperties
<1> QED BY <1>1, <1>2, ConcatProperties, EmptySeq

(* The queue of snapshots after a view went from x over y to z. *)
Extended(queue, x, y, z) == queue \o (Raised(x, y) \o Raised(y, z))

LEMMA ExtendedEnd ==
    ASSUME NEW S, NEW queue \in Seq(S), NEW x \in S, NEW y \in S, NEW z \in S
    PROVE  /\ x = y /\ y = z => Extended(queue, x, y, z) = queue
           /\ x # y \/ y # z =>
                /\ Extended(queue, x, y, z) # <<>>
                /\ Extended(queue, x, y, z)[Len(Extended(queue, x, y, z))] = z
<1> USE DEF Extended
<1>1. CASE x = y /\ y = z
    <2>1. Raised(x, y) \o Raised(y, z) = <<>>
        BY <1>1 DEF Raised
    <2>2. queue \o <<>> = queue
        BY ConcatEmptySeq
    <2> QED BY <1>1, <2>1, <2>2
<1>2. CASE y # z
    <2>1. queue \o Raised(x, y) \in Seq(S)
        BY ConcatProperties DEF Raised
    <2>2. queue \o (Raised(x, y) \o Raised(y, z)) = (queue \o Raised(x, y)) \o <<z>>
        <3>1. Raised(x, y) \in Seq(S) /\ <<z>> \in Seq(S)
            BY DEF Raised
        <3> QED BY <1>2, <3>1, ConcatAssociative DEF Raised
    <2> QED BY <1>2, <2>1, <2>2, LastOfConcat
<1>3. CASE x # y /\ y = z
    <2>1. Raised(x, y) \o Raised(y, z) = <<y>>
        BY <1>3 DEF Raised
    <2> QED BY <1>3, <2>1, LastOfConcat
<1> QED BY <1>1, <1>2, <1>3

LEMMA PutOneView ==
    ASSUME FirebaseInv, NEW u \in Users, NEW one \in Updates, Put(u, <<one>>)
    PROVE  /\ View(u)' = Lay(View(u), one)
           /\ View(u)' \in UserTrees(u)
           /\ listen[u] = "live" =>
                events'[u] = Extended(events[u], View(u), View(u)', View(u)')
<1>1. writes[u] \in Seq(Updates) /\ writes'[u] = writes[u] \o <<one>> /\ cache'[u] = cache[u]
    BY DEF Put, FirebaseInv, FirebaseTypeOK
<1>2. View(u)' = Lay(View(u), one)
    BY <1>1, LayAtEnd DEF View
<1>3. View(u)' \in UserTrees(u)
    BY <1>2, ViewType, LaidUserTree DEF FirebaseInv
<1>4. LocalEvents(u, <<one>>) = Raised(View(u), View(u)') \o Raised(View(u)', View(u)')
    <2>1. <<one>>[1] = one /\ Len(<<one>>) # 2
        OBVIOUS
    <2> QED BY <1>2, <2>1 DEF LocalEvents
<1>5. listen[u] = "live" => events'[u] = events[u] \o LocalEvents(u, <<one>>)
    BY DEF Put, FirebaseInv, FirebaseTypeOK
<1> QED BY <1>2, <1>3, <1>4, <1>5 DEF Extended

LEMMA PutTwoView ==
    ASSUME FirebaseInv, NEW u \in Users, NEW one \in Updates, NEW two \in Updates,
           Put(u, <<one, two>>)
    PROVE  /\ View(u)' = Lay(Lay(View(u), one), two)
           /\ Lay(View(u), one) \in UserTrees(u)
           /\ View(u)' \in UserTrees(u)
           /\ listen[u] = "live" =>
                events'[u] = Extended(events[u], View(u), Lay(View(u), one), View(u)')
<1>1. writes[u] \in Seq(Updates) /\ writes'[u] = writes[u] \o <<one, two>> /\ cache'[u] = cache[u]
    BY DEF Put, FirebaseInv, FirebaseTypeOK
<1>2. /\ writes[u] \o <<one>> \in Seq(Updates)
      /\ writes'[u] = (writes[u] \o <<one>>) \o <<two>>
    <2>1. <<one>> \in Seq(Updates) /\ <<two>> \in Seq(Updates)
        OBVIOUS
    <2>2. <<one>> \o <<two>> = <<one, two>>
        <3>1. /\ <<one>> \o <<two>> \in Seq(Updates) /\ Len(<<one>> \o <<two>>) = 2
              /\ (<<one>> \o <<two>>)[1] = one /\ (<<one>> \o <<two>>)[2] = two
            BY <2>1, ConcatProperties
        <3>2. /\ <<one, two>> \in Seq(Updates) /\ Len(<<one, two>>) = 2
              /\ <<one, two>>[1] = one /\ <<one, two>>[2] = two
            OBVIOUS
        <3>3. \A i \in 1..2 : (<<one>> \o <<two>>)[i] = <<one, two>>[i]
            BY <3>1, <3>2
        <3> QED BY <3>1, <3>2, <3>3, SeqEqual
    <2>3. writes[u] \o (<<one>> \o <<two>>) = (writes[u] \o <<one>>) \o <<two>>
        BY <1>1, <2>1, ConcatAssociative
    <2> QED BY <1>1, <2>1, <2>2, <2>3, ConcatProperties
<1>3. LayAll(cache[u], writes[u] \o <<one>>) = Lay(View(u), one)
    BY <1>1, LayAtEnd DEF View
<1>4. View(u)' = Lay(Lay(View(u), one), two)
    <2>1. View(u)' = LayAll(cache[u], (writes[u] \o <<one>>) \o <<two>>)
        BY <1>1, <1>2 DEF View
    <2>2. LayAll(cache[u], (writes[u] \o <<one>>) \o <<two>>) =
            Lay(LayAll(cache[u], writes[u] \o <<one>>), two)
        BY <1>2, LayAtEnd
    <2> QED BY <1>3, <2>1, <2>2
<1>5. Lay(View(u), one) \in UserTrees(u) /\ View(u)' \in UserTrees(u)
    BY <1>4, ViewType, LaidUserTree DEF FirebaseInv
<1>6. LocalEvents(u, <<one, two>>) =
        Raised(View(u), Lay(View(u), one)) \o Raised(Lay(View(u), one), View(u)')
    <2>1. <<one, two>>[1] = one /\ <<one, two>>[2] = two /\ Len(<<one, two>>) = 2
        OBVIOUS
    <2> QED BY <1>4, <2>1 DEF LocalEvents
<1>7. listen[u] = "live" => events'[u] = events[u] \o LocalEvents(u, <<one, two>>)
    BY DEF Put, FirebaseInv, FirebaseTypeOK
<1> QED BY <1>4, <1>5, <1>6, <1>7 DEF Extended

(* A put changes nothing of the other clients, of the caches or the server. *)
LEMMA PutShows ==
    ASSUME FirebaseInv, NEW u \in Users, NEW updates, Put(u, updates), CacheCatchesUp
    PROVE  /\ UNCHANGED listen
           /\ CacheCatchesUp'
           /\ \A w \in Users : w # u => View(w)' = View(w) /\ events'[w] = events[w]
BY DEF Put, CacheCatchesUp, View, FirebaseInv, FirebaseTypeOK

-----------------------------------------------------------------------------
(* What a tap changes in its session in place is what its updates show     *)
(* when they are laid over it.                                             *)
LEMMA LaidInPlace ==
    ASSUME NEW u \in Users, NEW v \in Others(u), NEW id \in Ids, NEW s \in UserTrees(u)
    PROVE  /\ Lay(s, deleteRelationship(u, v, id)) = [s EXCEPT ![Rel(u, v)] = Nil]
           /\ Lay(s, addRelationship(u, v, id)) = [s EXCEPT ![Rel(u, v)] = id]
           /\ Lay(s, addPending(u, v, id)) = [s EXCEPT ![Pend(u, v)] = id]
<1>1. /\ DOMAIN s = UserPaths(u) /\ Room(id) \notin UserPaths(u) /\ Room(id) # Rel(u, v)
      /\ Rel(v, u) \notin UserPaths(u) /\ Pend(v, u) \notin UserPaths(u)
      /\ Req(v, u) \notin UserPaths(u)
    BY RoomPaths DEF UserTrees, UserPaths, Rel, Pend, Req, Room, Others
<1>2. Lay(s, deleteRelationship(u, v, id)) = [s EXCEPT ![Rel(u, v)] = Nil]
    BY <1>1 DEF Lay, deleteRelationship
<1>3. Lay(s, addRelationship(u, v, id)) = [s EXCEPT ![Rel(u, v)] = id]
    BY <1>1 DEF Lay, addRelationship
<1>4. Lay(s, addPending(u, v, id)) = [s EXCEPT ![Pend(u, v)] = id]
    BY <1>1 DEF Lay, addPending
<1> QED BY <1>2, <1>3, <1>4

LEMMA LaidRemovals ==
    ASSUME NEW u \in Users, NEW v \in Others(u), NEW s \in UserTrees(u)
    PROVE  /\ Lay(s, removePending(u, v)) = [s EXCEPT ![Pend(u, v)] = Nil]
           /\ Lay(s, removeRequest(u, v)) = [s EXCEPT ![Req(u, v)] = Nil]
<1>1. /\ DOMAIN s = UserPaths(u)
      /\ Pend(v, u) \notin UserPaths(u) /\ Req(v, u) \notin UserPaths(u)
    BY DEF UserTrees, UserPaths, Pend, Req, Others
<1>2. Lay(s, removePending(u, v)) = [s EXCEPT ![Pend(u, v)] = Nil]
    BY <1>1 DEF Lay, removePending
<1>3. Lay(s, removeRequest(u, v)) = [s EXCEPT ![Req(u, v)] = Nil]
    BY <1>1 DEF Lay, removeRequest
<1> QED BY <1>2, <1>3

(* The session after a tap of one put: it agrees with the view, and if the *)
(* put raised no event it is as it was.                                    *)
LEMMA OnePutFollowed ==
    ASSUME Inv, Agreeing, NEW u \in Users, NEW one \in Updates, Put(u, <<one>>),
           session' = [session EXCEPT ![u] = Lay(session[u], one)]
    PROVE  /\ NothingMissed' /\ CacheCatchesUp' /\ UNCHANGED listen
           /\ \A w \in Users : w # u => events'[w] = events[w] /\ session'[w] = session[w]
           /\ listen[u] = "live" /\ events'[u] = <<>> =>
                events[u] = <<>> /\ session'[u] = session[u]
<1>1. FirebaseInv /\ DOMAIN session = Users
    BY InvParts DEF SessionTypeOK
<1>2. /\ UNCHANGED listen /\ CacheCatchesUp'
      /\ \A w \in Users : w # u => View(w)' = View(w) /\ events'[w] = events[w]
    BY <1>1, PutShows DEF Agreeing
<1>3. \A w \in Users : w # u => session'[w] = session[w]
    BY <1>1
<1>4. ASSUME listen[u] = "live"
      PROVE  /\ View(u)' = IF events'[u] = <<>> THEN session'[u] ELSE events'[u][Len(events'[u])]
             /\ events'[u] = <<>> => events[u] = <<>> /\ session'[u] = session[u]
    <2>1. /\ View(u)' = Lay(View(u), one)
          /\ View(u)' \in UserTrees(u) /\ View(u) \in UserTrees(u)
          /\ events[u] \in Seq(UserTrees(u))
          /\ events'[u] = Extended(events[u], View(u), View(u)', View(u)')
        BY <1>1, <1>4, PutOneView, ViewType DEF FirebaseInv, FirebaseTypeOK
    <2>2. View(u) = IF events[u] = <<>> THEN session[u] ELSE events[u][Len(events[u])]
        BY <1>4 DEF Agreeing, NothingMissed
    <2>3. /\ View(u) = View(u)' => events'[u] = events[u]
          /\ View(u) # View(u)' => events'[u] # <<>> /\ events'[u][Len(events'[u])] = View(u)'
        BY <2>1, ExtendedEnd
    <2>4. events[u] = <<>> => session'[u] = View(u)'
        BY <1>1, <2>1, <2>2
    <2> QED BY <2>2, <2>3, <2>4
<1>5. NothingMissed'
    BY <1>2, <1>3, <1>4 DEF Agreeing, NothingMissed
<1> QED BY <1>2, <1>3, <1>4, <1>5

LEMMA TwoPutsFollowed ==
    ASSUME Inv, Agreeing, NEW u \in Users, NEW one \in Updates, NEW two \in Updates,
           Put(u, <<one, two>>),
           session' = [session EXCEPT ![u] = Lay(Lay(session[u], one), two)]
    PROVE  /\ NothingMissed' /\ CacheCatchesUp' /\ UNCHANGED listen
           /\ \A w \in Users : w # u => events'[w] = events[w] /\ session'[w] = session[w]
           /\ listen[u] = "live" /\ events'[u] = <<>> =>
                events[u] = <<>> /\ session'[u] = session[u]
<1> DEFINE once == Lay(View(u), one)
<1>1. FirebaseInv /\ DOMAIN session = Users
    BY InvParts DEF SessionTypeOK
<1>2. /\ UNCHANGED listen /\ CacheCatchesUp'
      /\ \A w \in Users : w # u => View(w)' = View(w) /\ events'[w] = events[w]
    BY <1>1, PutShows DEF Agreeing
<1>3. \A w \in Users : w # u => session'[w] = session[w]
    BY <1>1
<1>4. ASSUME listen[u] = "live"
      PROVE  /\ View(u)' = IF events'[u] = <<>> THEN session'[u] ELSE events'[u][Len(events'[u])]
             /\ events'[u] = <<>> => events[u] = <<>> /\ session'[u] = session[u]
    <2>1. /\ View(u)' = Lay(once, two)
          /\ View(u)' \in UserTrees(u) /\ View(u) \in UserTrees(u) /\ once \in UserTrees(u)
          /\ events[u] \in Seq(UserTrees(u))
          /\ events'[u] = Extended(events[u], View(u), once, View(u)')
        BY <1>1, <1>4, PutTwoView, ViewType DEF FirebaseInv, FirebaseTypeOK
    <2>2. View(u) = IF events[u] = <<>> THEN session[u] ELSE events[u][Len(events[u])]
        BY <1>4 DEF Agreeing, NothingMissed
    <2>3. /\ View(u) = once /\ once = View(u)' => events'[u] = events[u]
          /\ View(u) # once \/ once # View(u)' =>
                events'[u] # <<>> /\ events'[u][Len(events'[u])] = View(u)'
        <3> HIDE DEF once
        <3> QED BY <2>1, ExtendedEnd, SMTT(30)
    <2>4. events[u] = <<>> => session'[u] = View(u)'
        BY <1>1, <2>1, <2>2
    <2> QED BY <2>2, <2>3, <2>4
<1>5. NothingMissed'
    BY <1>2, <1>3, <1>4 DEF Agreeing, NothingMissed
<1> QED BY <1>2, <1>3, <1>4, <1>5

(* A tap that leaves its rows as they were drawn. *)
LEMMA QuietTapAgrees ==
    ASSUME Inv, Agreeing, NEW u \in Users,
           NothingMissed', CacheCatchesUp', UNCHANGED <<listen, link, app, shown>>,
           \A w \in Users : w # u => events'[w] = events[w] /\ session'[w] = session[w],
           listen[u] = "live" /\ events'[u] = <<>> => events[u] = <<>> /\ session'[u] = session[u]
    PROVE  Agreeing'
<1>1. RowsCurrent'
    BY DEF Agreeing, RowsCurrent
<1>2. EndedAreOffline'
    BY DEF Agreeing, EndedAreOffline
<1> QED BY <1>1, <1>2 DEF Agreeing

(* A tap after which its row is drawn again. *)
LEMMA ToggleTapAgrees ==
    ASSUME Inv, Agreeing, NEW u \in Users, NEW v \in Others(u), Toggle(u, v),
           NothingMissed', CacheCatchesUp', UNCHANGED <<listen, link, app>>,
           \A w \in Users : w # u => events'[w] = events[w] /\ session'[w] = session[w],
           listen[u] = "live" /\ events'[u] = <<>> => events[u] = <<>> /\ session'[u] = session[u]
    PROVE  Agreeing'
<1>1. /\ DOMAIN shown = Users /\ DOMAIN shown[u] = Others(u)
      /\ shown'[u] = [shown[u] EXCEPT ![v] = Row(session'[u], u, v)]
      /\ \A w \in Users : w # u => shown'[w] = shown[w]
    BY InvParts DEF SessionTypeOK, Toggle
<1>2. ASSUME listen[u] = "live", events'[u] = <<>>
      PROVE  shown'[u] = Rows(session'[u], u)
    <2>1. session'[u] = session[u] /\ shown[u] = Rows(session[u], u)
        BY <1>2 DEF Agreeing, RowsCurrent
    <2> QED BY <1>1, <2>1 DEF Rows
<1>3. RowsCurrent'
    BY <1>1, <1>2 DEF Agreeing, RowsCurrent
<1>4. EndedAreOffline'
    BY DEF Agreeing, EndedAreOffline
<1> QED BY <1>3, <1>4 DEF Agreeing

-----------------------------------------------------------------------------
(* The taps. *)

LEMMA ProcessGoneAgrees ==
    ASSUME Inv, Agreeing, NEW u \in Users, NEW why \in Ends, ProcessGone(u, why)
    PROVE  Agreeing'
<1> USE InvParts DEF Agreeing, FirebaseInv, FirebaseTypeOK, SessionTypeOK, ProcessGone, EndProcess
<1>1. NothingMissed'
    BY DEF NothingMissed, View
<1>2. RowsCurrent'
    BY DEF RowsCurrent
<1>3. CacheCatchesUp'
    BY DEF CacheCatchesUp
<1>4. EndedAreOffline'
    BY DEF EndedAreOffline
<1> QED BY <1>1, <1>2, <1>3, <1>4

LEMMA TapDeleteAgrees ==
    ASSUME Inv, Agreeing, NEW u \in Users, NEW v \in Others(u), TapDelete(u, v)
    PROVE  Agreeing'
<1> DEFINE id == session[u][Rel(u, v)]
<1>1. CASE id = Nil
    BY <1>1, ProcessGoneAgrees DEF TapDelete, Ends
<1>2. CASE id # Nil
    <2>1. session[u] \in UserTrees(u) /\ id \in Ids
        BY <1>2, InvParts, PairPaths DEF TapDelete, SessionTypeOK, UserTrees
    <2>2. /\ Put(u, <<deleteRelationship(u, v, id)>>)
          /\ session' = [session EXCEPT ![u] = [session[u] EXCEPT ![Rel(u, v)] = Nil]]
          /\ UNCHANGED <<shown, app, link>>
        BY <1>2, InvParts DEF TapDelete, SessionTypeOK, screenVars, Put
    <2>3. session' = [session EXCEPT ![u] = Lay(session[u], deleteRelationship(u, v, id))]
        <3> HIDE DEF id
        <3>1. Lay(session[u], deleteRelationship(u, v, id)) = [session[u] EXCEPT ![Rel(u, v)] = Nil]
            BY <2>1, LaidInPlace
        <3> QED BY <2>2, <3>1
    <2> HIDE DEF id
    <2> QED BY <2>1, <2>2, <2>3, TapUpdates, OnePutFollowed, QuietTapAgrees
<1> QED BY <1>1, <1>2

LEMMA TapUnsendAgrees ==
    ASSUME Inv, Agreeing, NEW u \in Users, NEW v \in Others(u), TapUnsend(u, v)
    PROVE  Agreeing'
<1>1. session[u] \in UserTrees(u)
    BY InvParts DEF TapUnsend, SessionTypeOK
<1>2. /\ Put(u, <<removePending(u, v)>>)
      /\ session' = [session EXCEPT ![u] = [session[u] EXCEPT ![Pend(u, v)] = Nil]]
      /\ UNCHANGED <<shown, app, link>>
    BY InvParts DEF TapUnsend, SessionTypeOK, screenVars, Put
<1>3. session' = [session EXCEPT ![u] = Lay(session[u], removePending(u, v))]
    BY <1>1, <1>2, LaidRemovals
<1> QED BY <1>2, <1>3, RemovalUpdates, OnePutFollowed, QuietTapAgrees

LEMMA TapDeclineAgrees ==
    ASSUME Inv, Agreeing, NEW u \in Users, NEW v \in Others(u), TapDecline(u, v)
    PROVE  Agreeing'
<1>1. session[u] \in UserTrees(u)
    BY InvParts DEF TapDecline, SessionTypeOK
<1>2. /\ Put(u, <<removeRequest(u, v)>>)
      /\ session' = [session EXCEPT ![u] = [session[u] EXCEPT ![Req(u, v)] = Nil]]
      /\ UNCHANGED <<shown, app, link>>
    BY InvParts DEF TapDecline, SessionTypeOK, screenVars, Put
<1>3. session' = [session EXCEPT ![u] = Lay(session[u], removeRequest(u, v))]
    BY <1>1, <1>2, LaidRemovals
<1> QED BY <1>2, <1>3, RemovalUpdates, OnePutFollowed, QuietTapAgrees

LEMMA TapAcceptAgrees ==
    ASSUME Inv, Agreeing, NEW u \in Users, NEW v \in Others(u), TapAccept(u, v)
    PROVE  Agreeing'
<1> DEFINE id == session[u][Req(u, v)]
           once == [session[u] EXCEPT ![Req(u, v)] = Nil]
<1>1. CASE id = Nil
    BY <1>1, ProcessGoneAgrees DEF TapAccept, Ends
<1>2. CASE id # Nil
    <2>1. session[u] \in UserTrees(u) /\ id \in Ids /\ once \in UserTrees(u)
        BY <1>2, InvParts, PairPaths, SessionChange DEF TapAccept, SessionTypeOK, UserTrees
    <2>2. /\ Put(u, <<removeRequest(u, v), addRelationship(u, v, id)>>)
          /\ session' = [session EXCEPT ![u] =
                            [session[u] EXCEPT ![Rel(u, v)] = id, ![Req(u, v)] = Nil]]
          /\ UNCHANGED <<shown, app, link>>
        BY <1>2, InvParts DEF TapAccept, SessionTypeOK, screenVars, Put
    <2>3. [session[u] EXCEPT ![Rel(u, v)] = id, ![Req(u, v)] = Nil] =
                [once EXCEPT ![Rel(u, v)] = id]
        <3>1. Rel(u, v) # Req(u, v)
            BY DEF Rel, Req
        <3> QED BY <2>1, <3>1 DEF UserTrees
    <2>4. Lay(session[u], removeRequest(u, v)) = once
        BY <2>1, LaidRemovals
    <2>5. Lay(once, addRelationship(u, v, id)) = [once EXCEPT ![Rel(u, v)] = id]
        <3> HIDE DEF once, id
        <3> QED BY <2>1, LaidInPlace
    <2> HIDE DEF once, id
    <2>6. session' = [session EXCEPT ![u] =
                        Lay(Lay(session[u], removeRequest(u, v)), addRelationship(u, v, id))]
        BY <2>2, <2>3, <2>4, <2>5
    <2> QED BY <2>1, <2>2, <2>6, TapUpdates, RemovalUpdates, TwoPutsFollowed, QuietTapAgrees
<1> QED BY <1>1, <1>2

LEMMA TapAddAgrees ==
    ASSUME Inv, Agreeing, NEW u \in Users, NEW v \in Others(u), TapAdd(u, v)
    PROVE  Agreeing'
<1>1. PICK id \in Ids :
        /\ Put(u, <<addPending(u, v, id)>>)
        /\ session' = [session EXCEPT ![u][Pend(u, v)] = id]
    BY DEF TapAdd
<1>2. session[u] \in UserTrees(u) /\ DOMAIN session = Users
    BY InvParts DEF TapAdd, SessionTypeOK
<1>3. session' = [session EXCEPT ![u] = Lay(session[u], addPending(u, v, id))]
    <2>1. Lay(session[u], addPending(u, v, id)) = [session[u] EXCEPT ![Pend(u, v)] = id]
        BY <1>2, LaidInPlace
    <2> QED BY <1>1, <1>2, <2>1
<1>4. Toggle(u, v) /\ UNCHANGED <<app, link>>
    BY <1>1 DEF TapAdd, Put
<1> QED BY <1>1, <1>3, <1>4, TapUpdates, OnePutFollowed, ToggleTapAgrees

LEMMA TapToggledAgrees ==
    ASSUME Inv, Agreeing, NEW u \in Users, NEW v \in Others(u), TapToggled(u, v)
    PROVE  Agreeing'
<1>1. session[u] \in UserTrees(u) /\ DOMAIN session = Users
    BY InvParts DEF TapToggled, SessionTypeOK
<1>2. session' = [session EXCEPT ![u] = Lay(session[u], removePending(u, v))]
    BY <1>1, LaidRemovals DEF TapToggled
<1>3. Put(u, <<removePending(u, v)>>) /\ Toggle(u, v) /\ UNCHANGED <<app, link>>
    BY DEF TapToggled, Put
<1> QED BY <1>2, <1>3, RemovalUpdates, OnePutFollowed, ToggleTapAgrees

LEMMA TapBeforeSessionAgrees ==
    ASSUME Inv, Agreeing, NEW u \in Users, NEW v \in Others(u), TapBeforeSession(u, v)
    PROVE  Agreeing'
<1>1. NothingMissed' /\ CacheCatchesUp'
    BY DEF TapBeforeSession, firebaseVars, Agreeing, NothingMissed, CacheCatchesUp, View
<1> QED BY <1>1, ToggleTapAgrees DEF TapBeforeSession, firebaseVars

-----------------------------------------------------------------------------
(* Callbacks, drawing, connections and the life of the process. *)

LEMMA EndOfTail ==
    ASSUME NEW S, NEW s \in Seq(S), s # <<>>
    PROVE  /\ Tail(s) = <<>> => Head(s) = s[Len(s)]
           /\ Tail(s) # <<>> => Tail(s)[Len(Tail(s))] = s[Len(s)]
<1>1. /\ Len(s) \in Nat \ {0} /\ Head(s) = s[1]
      /\ Tail(s) \in Seq(S) /\ Len(Tail(s)) = Len(s) - 1
      /\ \A i \in 1..Len(Tail(s)) : Tail(s)[i] = s[i + 1]
    BY EmptySeq, HeadTailProperties
<1>2. CASE Tail(s) = <<>>
    BY <1>1, <1>2, EmptySeq
<1>3. CASE Tail(s) # <<>>
    <2>1. Len(Tail(s)) \in 1..Len(Tail(s)) /\ Len(Tail(s)) + 1 = Len(s)
        BY <1>1, <1>3, EmptySeq
    <2> QED BY <1>1, <1>3, <2>1
<1> QED BY <1>2, <1>3

LEMMA DeliverEventAgrees ==
    ASSUME Inv, Agreeing, NEW u \in Users, DeliverEvent(u)
    PROVE  Agreeing'
<1> USE InvParts
<1>1. /\ events[u] \in Seq(UserTrees(u)) /\ events[u] # <<>>
      /\ events'[u] = Tail(events[u]) /\ session'[u] = Head(events[u])
      /\ \A w \in Users : w # u => events'[w] = events[w] /\ session'[w] = session[w]
                                    /\ shown'[w] = shown[w]
      /\ \A w \in Users : View(w)' = View(w)
      /\ shown'[u] = Rows(Head(events[u]), u)
    BY DEF DeliverEvent, FirebaseInv, FirebaseTypeOK, SessionTypeOK, View
<1>2. NothingMissed'
    BY <1>1, EndOfTail DEF DeliverEvent, Agreeing, NothingMissed
<1>3. RowsCurrent'
    BY <1>1 DEF DeliverEvent, Agreeing, RowsCurrent
<1>4. CacheCatchesUp' /\ EndedAreOffline'
    BY DEF DeliverEvent, Agreeing, CacheCatchesUp, EndedAreOffline
<1> QED BY <1>2, <1>3, <1>4 DEF Agreeing

LEMMA RedrawAgrees ==
    ASSUME Inv, Agreeing, NEW u \in Users, NEW v \in Others(u), Redraw(u, v)
    PROVE  Agreeing'
<1>1. NothingMissed' /\ CacheCatchesUp' /\ EndedAreOffline'
    BY DEF Redraw, firebaseVars, Agreeing, NothingMissed, CacheCatchesUp, EndedAreOffline, View
<1>2. /\ DOMAIN shown = Users /\ DOMAIN shown[u] = Others(u)
      /\ shown'[u] = [shown[u] EXCEPT ![v] = Row(session[u], u, v)]
      /\ \A w \in Users : w # u => shown'[w] = shown[w]
    BY InvParts DEF SessionTypeOK, Redraw
<1>3. UNCHANGED <<session, listen, events>>
    BY DEF Redraw, firebaseVars
<1>4. shown[u] = Rows(session[u], u) => shown'[u] = Rows(session[u], u)
    BY <1>2 DEF Rows
<1>5. RowsCurrent'
    BY <1>2, <1>3, <1>4 DEF Agreeing, RowsCurrent
<1> QED BY <1>1, <1>5 DEF Agreeing

LEMMA DropAgrees ==
    ASSUME Inv, Agreeing, NEW u \in Users, Drop(u)
    PROVE  Agreeing'
<1> USE InvParts DEF Drop, LoseConnection, FirebaseInv, FirebaseTypeOK, Agreeing, screenVars
<1>1. NothingMissed' /\ RowsCurrent'
    BY DEF NothingMissed, RowsCurrent, View
<1>2. CacheCatchesUp' /\ EndedAreOffline'
    BY DEF CacheCatchesUp, EndedAreOffline
<1> QED BY <1>1, <1>2

(* The answer to the listen brings the whole node. *)
LEMMA FirstDataCatchesUp ==
    ASSUME NEW u \in Users, NEW tree \in UserTrees(u), NEW node \in UserTrees(u)
    PROVE  LayAll(tree, <<node>>) = node
<1>1. <<>> \in Seq(UserTrees(u)) /\ <<>> \o <<node>> = <<node>>
    BY ConcatEmptySeq
<1>2. LayAll(tree, <<>>) = tree
    BY LayNothing DEF UserTrees
<1>3. LayAll(tree, <<node>>) = Lay(tree, node)
    BY <1>1, <1>2, LayAtEnd
<1> QED BY <1>3 DEF Lay, UserTrees

LEMMA ReconnectAgrees ==
    ASSUME Inv, Agreeing, NEW u \in Users, Reconnect(u)
    PROVE  Agreeing'
<1> USE InvParts DEF Reconnect, Connect, Agreeing, sessionVars
<1>1. NothingMissed' /\ RowsCurrent'
    BY DEF NothingMissed, RowsCurrent, View
<1>2. ASSUME listen[u] # "none"
      PROVE  LayAll(cache'[u], Data(down'[u])) = Under(u, db')
    <2>1. down'[u] = <<[ack |-> FALSE, data |-> Under(u, db)]>> /\ cache'[u] = cache[u] /\ db' = db
        BY <1>2 DEF FirebaseInv, FirebaseTypeOK
    <2>2. Data(down'[u]) = <<Under(u, db)>>
        BY <2>1 DEF Data
    <2>3. Under(u, db) \in UserTrees(u) /\ cache[u] \in UserTrees(u)
        BY UnderTree DEF FirebaseInv, FirebaseTypeOK
    <2> QED BY <2>1, <2>2, <2>3, FirstDataCatchesUp
<1>3. CacheCatchesUp'
    BY <1>2 DEF CacheCatchesUp, FirebaseInv, FirebaseTypeOK
<1>4. EndedAreOffline'
    BY DEF EndedAreOffline, FirebaseInv, FirebaseTypeOK
<1> QED BY <1>1, <1>3, <1>4

LEMMA LaunchAgrees ==
    ASSUME Inv, Agreeing, NEW u \in Users, Launch(u)
    PROVE  Agreeing'
<1> USE InvParts DEF Launch, Observe, Agreeing, screenVars, FirebaseInv, FirebaseTypeOK, SessionTypeOK
<1>1. NothingMissed' /\ RowsCurrent'
    BY DEF NothingMissed, RowsCurrent, View
<1>2. link[u] = "down"
    BY DEF EndedAreOffline
<1>3. CacheCatchesUp' /\ EndedAreOffline'
    BY <1>2 DEF CacheCatchesUp, EndedAreOffline
<1> QED BY <1>1, <1>3

-----------------------------------------------------------------------------
(* The server and the client's cache. *)

LEMMA DataType ==
    ASSUME NEW u \in Users, NEW s \in Seq(Messages(u))
    PROVE  Data(s) \in Seq(Pushes(u)) /\ Len(Data(s)) = Len(s)
<1>1. DOMAIN s = 1..Len(s) /\ Len(s) \in Nat /\ \A i \in 1..Len(s) : s[i] \in Messages(u)
    BY LenProperties, ElementOfSeq
<1>2. Data(s) \in [1..Len(s) -> Pushes(u)]
    BY <1>1 DEF Data, Messages
<1> QED BY <1>1, <1>2

LEMMA DataPushed ==
    ASSUME NEW u \in Users, NEW s \in Seq(Messages(u)), NEW m \in Messages(u)
    PROVE  Data(s \o <<m>>) = Data(s) \o <<m.data>>
<1> DEFINE more == s \o <<m>>
<1>1. m.data \in Pushes(u)
    BY DEF Messages
<1>2. /\ <<m>> \in Seq(Messages(u)) /\ Len(<<m>>) = 1 /\ <<m>>[1] = m
      /\ <<m.data>> \in Seq(Pushes(u)) /\ Len(<<m.data>>) = 1 /\ <<m.data>>[1] = m.data
    BY <1>1
<1>3. /\ more \in Seq(Messages(u)) /\ Len(more) = Len(s) + 1
      /\ \A i \in 1..(Len(s) + 1) : more[i] = IF i <= Len(s) THEN s[i] ELSE <<m>>[i - Len(s)]
    BY <1>2, ConcatProperties
<1>4. /\ Data(s) \in Seq(Pushes(u)) /\ Len(Data(s)) = Len(s)
      /\ Data(more) \in Seq(Pushes(u)) /\ Len(Data(more)) = Len(s) + 1
    BY <1>3, DataType
<1>5. ASSUME NEW d \in Seq(Pushes(u)), Len(d) = Len(s), NEW x \in Pushes(u)
      PROVE  /\ d \o <<x>> \in Seq(Pushes(u))
             /\ Len(d \o <<x>>) = Len(s) + 1
             /\ \A i \in 1..Len(s) : (d \o <<x>>)[i] = d[i]
             /\ (d \o <<x>>)[Len(s) + 1] = x
    <2>1. <<x>> \in Seq(Pushes(u)) /\ Len(<<x>>) = 1 /\ <<x>>[1] = x /\ Len(s) \in Nat
        BY LenProperties
    <2> QED BY <1>5, <2>1, ConcatProperties
<1>6. /\ Len(s) \in Nat /\ DOMAIN s = 1..Len(s) /\ DOMAIN more = 1..(Len(s) + 1)
      /\ \A i \in 1..Len(s) : Data(s)[i] = s[i].data
      /\ \A i \in 1..(Len(s) + 1) : Data(more)[i] = more[i].data
    BY <1>3, LenProperties DEF Data
<1>7. /\ \A i \in 1..Len(s) : more[i] = s[i]
      /\ more[Len(s) + 1] = m
    BY <1>2, <1>3, <1>6
<1> DEFINE d == Data(s)
           x == m.data
           one == d \o <<x>>
           two == Data(more)
<1>8. /\ one \in Seq(Pushes(u)) /\ Len(one) = Len(s) + 1
      /\ \A i \in 1..Len(s) : one[i] = d[i]
      /\ one[Len(s) + 1] = x
    <2> HIDE DEF d, x
    <2>1. d \in Seq(Pushes(u)) /\ Len(d) = Len(s) /\ x \in Pushes(u)
        BY <1>1, <1>4 DEF d, x
    <2> QED BY <1>5, <2>1
<1>9. /\ two \in Seq(Pushes(u)) /\ Len(two) = Len(s) + 1
      /\ \A i \in 1..Len(s) : two[i] = d[i]
      /\ two[Len(s) + 1] = x
    <2> HIDE DEF more
    <2> QED BY <1>4, <1>6, <1>7
<1> HIDE DEF d, x, one, two
<1>10. \A i \in 1..Len(two) : two[i] = one[i]
    BY <1>6, <1>8, <1>9
<1>11. two = one
    BY <1>8, <1>9, <1>10, SeqEqual
<1> QED BY <1>11 DEF d, x, one, two

LEMMA DataTaken ==
    ASSUME NEW u \in Users, NEW s \in Seq(Messages(u)), s # <<>>
    PROVE  /\ Data(s) # <<>>
           /\ Head(Data(s)) = Head(s).data
           /\ Tail(Data(s)) = Data(Tail(s))
<1>1. /\ Len(s) \in Nat \ {0} /\ DOMAIN s = 1..Len(s) /\ Head(s) = s[1]
      /\ Tail(s) \in Seq(Messages(u)) /\ Len(Tail(s)) = Len(s) - 1
      /\ DOMAIN Tail(s) = 1..(Len(s) - 1)
      /\ \A i \in 1..(Len(s) - 1) : Tail(s)[i] = s[i + 1]
    BY EmptySeq, HeadTailProperties, LenProperties
<1>2. /\ Data(s) \in Seq(Pushes(u)) /\ Len(Data(s)) = Len(s) /\ Data(s) # <<>>
      /\ Data(Tail(s)) \in Seq(Pushes(u)) /\ Len(Data(Tail(s))) = Len(s) - 1
    BY <1>1, DataType, EmptySeq
<1>3. /\ Tail(Data(s)) \in Seq(Pushes(u)) /\ Len(Tail(Data(s))) = Len(s) - 1
      /\ \A i \in 1..(Len(s) - 1) : Tail(Data(s))[i] = Data(s)[i + 1]
    BY <1>2, HeadTailProperties
<1>4. \A i \in 1..(Len(s) - 1) : Tail(Data(s))[i] = Data(Tail(s))[i]
    <2> SUFFICES ASSUME NEW i \in 1..(Len(s) - 1)
                 PROVE  Tail(Data(s))[i] = Data(Tail(s))[i]
        OBVIOUS
    <2>1. i + 1 \in 1..Len(s)
        BY <1>1
    <2>2. Data(s)[i + 1] = s[i + 1].data
        BY <1>1, <2>1 DEF Data
    <2>3. Data(Tail(s))[i] = Tail(s)[i].data
        BY <1>1 DEF Data
    <2> QED BY <1>1, <1>3, <2>2, <2>3
<1>5. Head(Data(s)) = Head(s).data
    BY <1>1, <1>2 DEF Data
<1> QED BY <1>2, <1>3, <1>4, <1>5, SeqEqual

(* A node of the tree after an update is the node with its part of it. *)
LEMMA UnderLaid ==
    ASSUME NEW v \in Users, NEW tree, NEW update
    PROVE  Under(v, Lay(tree, update)) = Lay(Under(v, tree), Under(v, update))
BY DEF Under, Lay

LEMMA ApplyAgrees ==
    ASSUME Inv, Agreeing, NEW u \in Users, Apply(u)
    PROVE  Agreeing'
<1> DEFINE update == writes[u][applied[u] + 1]
<1> USE InvParts DEF Apply, Agreeing, sessionVars
<1>1. NothingMissed' /\ RowsCurrent' /\ EndedAreOffline'
    BY DEF ServerApply, NothingMissed, RowsCurrent, EndedAreOffline, View
<1>2. update \in Updates
    <2>1. applied[u] + 1 \in 1..Len(writes[u]) /\ writes[u] \in Seq(Updates)
        BY LenProperties DEF ServerApply, FirebaseInv, FirebaseTypeOK
    <2> QED BY <2>1, ElementOfSeq
<1>3. /\ db' = Lay(db, update) /\ UNCHANGED <<cache, listen, link>>
      /\ \A v \in Users : down'[v] = down[v] \o Push(u, v, update)
    BY DEF ServerApply
<1> HIDE DEF update
<1>4. ASSUME NEW v \in Users, listen[v] # "none", link[v] = "up"
      PROVE  LayAll(cache[v], Data(down'[v])) = Under(v, db')
    <2> DEFINE m == [ack |-> v = u, data |-> Under(v, update)]
    <2>1. LayAll(cache[v], Data(down[v])) = Under(v, db)
        BY <1>4 DEF CacheCatchesUp
    <2>2. Under(v, db') = Lay(Under(v, db), Under(v, update))
        BY <1>3, UnderLaid
    <2>3. down[v] \in Seq(Messages(v)) /\ m \in Messages(v) /\ m.data = Under(v, update)
        BY <1>2 DEF FirebaseInv, FirebaseTypeOK, Messages, Pushes
    <2>4. CASE Push(u, v, update) = <<m>>
        <3>1. Data(down'[v]) = Data(down[v]) \o <<m.data>>
            <4> HIDE DEF m
            <4>1. down'[v] = down[v] \o <<m>>
                BY <1>3, <2>4
            <4>2. Data(down[v] \o <<m>>) = Data(down[v]) \o <<m.data>>
                BY <2>3, DataPushed
            <4> QED BY <4>1, <4>2
        <3>2. Data(down[v]) \in Seq(Pushes(v)) /\ m.data \in Pushes(v)
            BY <2>3, DataType DEF Messages
        <3>3. LayAll(cache[v], Data(down'[v])) = Lay(LayAll(cache[v], Data(down[v])), m.data)
            BY <3>1, <3>2, LayAtEnd
        <3> QED BY <2>1, <2>2, <2>3, <3>3
    <2>5. CASE Under(v, update) = NoUpdate /\ Push(u, v, update) = <<>>
        <3>1. down'[v] = down[v]
            BY <1>3, <2>3, <2>5, ConcatEmptySeq
        <3>2. Lay(Under(v, db), NoUpdate) = Under(v, db)
            BY DEF Lay, NoUpdate, Under
        <3> QED BY <2>1, <2>2, <2>5, <3>1, <3>2
    <2> QED BY <1>4, <2>4, <2>5 DEF Push
<1>5. CacheCatchesUp'
    BY <1>3, <1>4 DEF CacheCatchesUp
<1> QED BY <1>1, <1>5

LEMMA HandleAgrees ==
    ASSUME Inv, Agreeing, NEW u \in Users, Handle(u)
    PROVE  Agreeing'
<1> DEFINE m    == Head(down[u])
           tree == Lay(cache[u], m.data)
           left == IF m.ack THEN Tail(writes[u]) ELSE writes[u]
           view == LayAll(tree, left)
           raised == IF listen[u] = "none" THEN <<>>
                     ELSE IF listen[u] = "waiting" THEN <<view>>
                     ELSE Raised(View(u), view)
<1> USE InvParts DEF Handle, Agreeing, sessionVars
<1>1. /\ down[u] \in Seq(Messages(u)) /\ down[u] # <<>>
      /\ down'[u] = Tail(down[u]) /\ cache'[u] = tree /\ writes'[u] = left
      /\ events[u] \in Seq(UserTrees(u)) /\ events'[u] = events[u] \o raised
      /\ listen'[u] = IF listen[u] = "waiting" THEN "live" ELSE listen[u]
      /\ UNCHANGED <<db, link, session, shown, app>>
      /\ \A w \in Users : w # u =>
            /\ down'[w] = down[w] /\ cache'[w] = cache[w] /\ writes'[w] = writes[w]
            /\ events'[w] = events[w] /\ listen'[w] = listen[w]
    BY DEF Receive, FirebaseInv, FirebaseTypeOK
<1>2. View(u)' = view /\ \A w \in Users : w # u => View(w)' = View(w)
    BY <1>1 DEF View
<1>3. view \in UserTrees(u)
    <2>1. FirebaseInv'
        BY ReceiveInv
    <2>2. View(u)' \in UserTrees(u)
        <3>1. cache'[u] \in UserTrees(u) /\ writes'[u] \in Seq(Updates)
            BY <2>1 DEF FirebaseInv, FirebaseTypeOK
        <3> QED BY <3>1, LaidAllUserTree DEF View
    <2> QED BY <1>2, <2>2
<1> HIDE DEF view
<1>4. ASSUME listen'[u] = "live"
      PROVE  /\ view = IF events'[u] = <<>> THEN session[u] ELSE events'[u][Len(events'[u])]
             /\ events'[u] = <<>> => events[u] = <<>> /\ listen[u] = "live"
    <2>1. CASE raised = <<view>>
        <3>1. events'[u] = events[u] \o <<view>>
            BY <1>1, <2>1
        <3>2. /\ events[u] \o <<view>> # <<>>
              /\ (events[u] \o <<view>>)[Len(events[u] \o <<view>>)] = view
            BY <1>1, <1>3, LastOfConcat
        <3> QED BY <3>1, <3>2
    <2>2. CASE listen[u] = "live" /\ View(u) = view
        <3>1. raised = <<>>
            BY <2>2 DEF Raised
        <3>2. events'[u] = events[u]
            BY <1>1, <3>1, ConcatEmptySeq
        <3> QED BY <2>2, <3>2 DEF NothingMissed
    <2> QED BY <1>1, <1>4, <2>1, <2>2 DEF Raised
<1>5. NothingMissed'
    BY <1>1, <1>2, <1>4 DEF NothingMissed
<1>6. RowsCurrent'
    BY <1>1, <1>4 DEF RowsCurrent
<1>7. LayAll(cache'[u], Data(down'[u])) = LayAll(cache[u], Data(down[u]))
    <2>1. /\ Data(down[u]) \in Seq(Pushes(u)) /\ Data(down[u]) # <<>>
          /\ Head(Data(down[u])) = m.data /\ Tail(Data(down[u])) = Data(down'[u])
        BY <1>1, DataType, DataTaken
    <2> QED BY <1>1, <2>1, LayAtFront, ZenonT(30)
<1>8. link[u] = "up" /\ listen'[u] # "none" => listen[u] # "none"
    BY <1>1
<1>9. CacheCatchesUp'
    BY <1>1, <1>7, <1>8 DEF CacheCatchesUp
<1>10. EndedAreOffline'
    BY <1>1 DEF EndedAreOffline
<1> QED BY <1>5, <1>6, <1>9, <1>10

-----------------------------------------------------------------------------

LEMMA NoData == Data(<<>>) = <<>>
BY DEF Data

LEMMA InitAgrees == Init => Agreeing
<1> SUFFICES ASSUME Init PROVE Agreeing
    OBVIOUS
<1>1. ASSUME NEW u \in Users
      PROVE  /\ LayAll(EmptyTree(u), <<>>) = EmptyTree(u)
             /\ Under(u, db) = EmptyTree(u)
    <2>1. LayAll(EmptyTree(u), <<>>) = EmptyTree(u)
        BY LayNothing DEF EmptyTree
    <2>2. Under(u, db) = EmptyTree(u)
        BY UserPathsArePaths DEF Init, FirebaseInit, Under, EmptyTree
    <2> QED BY <2>1, <2>2
<1>2. NothingMissed
    BY <1>1 DEF Init, FirebaseInit, NothingMissed, View
<1>3. RowsCurrent
    BY DEF Init, FirebaseInit, RowsCurrent
<1>4. CacheCatchesUp
    BY <1>1, NoData DEF Init, FirebaseInit, CacheCatchesUp
<1>5. EndedAreOffline
    BY DEF Init, EndedAreOffline
<1> QED BY <1>2, <1>3, <1>4, <1>5 DEF Agreeing

LEMMA StutterAgrees ==
    ASSUME Agreeing, UNCHANGED vars
    PROVE  Agreeing'
BY DEF vars, firebaseVars, sessionVars, Agreeing, NothingMissed, RowsCurrent, CacheCatchesUp,
       EndedAreOffline, View

LEMMA StepAgrees == Inv /\ Agreeing /\ [Next]_vars => Agreeing'
<1> SUFFICES ASSUME Inv, Agreeing, [Next]_vars PROVE Agreeing'
    OBVIOUS
<1>1. CASE UNCHANGED vars
    BY <1>1, StutterAgrees
<1>2. CASE Next
    <2>1. PICK u \in Users : UserStep(u) \/ SystemStep(u) \/ WorldStep(u)
        BY <1>2 DEF Next
    <2>2. CASE TapDeleteSelf(u)
        BY <2>2, ProcessGoneAgrees DEF TapDeleteSelf, Ends
    <2>3. CASE \E v \in Others(u) :
                \/ TapDelete(u, v) \/ TapUnsend(u, v)
                \/ TapAccept(u, v) \/ TapDecline(u, v)
                \/ TapAdd(u, v) \/ TapToggled(u, v) \/ TapBeforeSession(u, v)
                \/ Redraw(u, v)
        <3>1. PICK v \in Others(u) :
                \/ TapDelete(u, v) \/ TapUnsend(u, v)
                \/ TapAccept(u, v) \/ TapDecline(u, v)
                \/ TapAdd(u, v) \/ TapToggled(u, v) \/ TapBeforeSession(u, v)
                \/ Redraw(u, v)
            BY <2>3
        <3> QED BY <3>1, TapDeleteAgrees, TapUnsendAgrees, TapAcceptAgrees, TapDeclineAgrees,
                   TapAddAgrees, TapToggledAgrees, TapBeforeSessionAgrees, RedrawAgrees
    <2>4. CASE SystemStep(u)
        BY <2>4, ApplyAgrees, HandleAgrees, DeliverEventAgrees, ReconnectAgrees DEF SystemStep
    <2>5. CASE Drop(u)
        BY <2>5, DropAgrees
    <2>6. CASE Kill(u)
        BY <2>6, ProcessGoneAgrees DEF Kill, Ends
    <2>7. CASE Launch(u)
        BY <2>7, LaunchAgrees
    <2> QED BY <2>1, <2>2, <2>3, <2>4, <2>5, <2>6, <2>7 DEF UserStep, WorldStep
<1> QED BY <1>1, <1>2

THEOREM AgreeingAlways == Spec => []Agreeing
<1>1. Init => Inv /\ Agreeing
    BY InitInv, InitAgrees
<1>2. Inv /\ Agreeing /\ [Next]_vars => (Inv /\ Agreeing)'
    BY StepInv, StepAgrees
<1> QED BY <1>1, <1>2, PTL DEF Spec

(* No snapshot is lost for good: the last event on the main queue, or the  *)
(* session when there is none, is the client's view, although every tap    *)
(* changes the session in place behind the queue's back.                   *)
THEOREM SessionFollowsView == Spec => []NothingMissed
<1>1. Agreeing => NothingMissed
    BY DEF Agreeing
<1> QED BY <1>1, AgreeingAlways, PTL

(* Once no put is outstanding and nothing is left to deliver to a client,  *)
(* its session and its rows show what the server holds, whatever was lost, *)
(* sent twice or killed on the way.                                        *)
THEOREM SettledSessionsAgree == Spec => []SettledAgreement
<1>1. Inv /\ Agreeing => SettledAgreement
    <2> SUFFICES ASSUME Inv, Agreeing, NEW u \in Users, NothingOutstanding, Settled(u)
                 PROVE  /\ session[u] = Under(u, db)
                        /\ shown[u] = Rows(session[u], u)
        BY DEF SettledAgreement
    <2>1. writes[u] = <<>> /\ down[u] = <<>> /\ events[u] = <<>>
        BY DEF NothingOutstanding, Settled
    <2>2. LayAll(cache[u], <<>>) = cache[u]
        BY LayNothing, InvParts DEF FirebaseInv, FirebaseTypeOK, UserTrees
    <2>3. session[u] = cache[u]
        BY <2>1, <2>2 DEF Agreeing, NothingMissed, Settled, View
    <2>4. cache[u] = Under(u, db)
        BY <2>1, <2>2, NoData DEF Agreeing, CacheCatchesUp, Settled
    <2>5. shown[u] = Rows(session[u], u)
        BY <2>1 DEF Agreeing, RowsCurrent, Settled
    <2> QED BY <2>3, <2>4, <2>5
<1> QED BY <1>1, Invariance, AgreeingAlways, PTL

=============================================================================
