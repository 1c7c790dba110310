-------------------------- MODULE RelationshipProofs --------------------------
(***************************************************************************)
(* Nobody is related without having agreed: the nodes of both users always *)
(* agree, every stored id was minted and accepted by the two it is stored  *)
(* between, and every relationship has its room, for every set of users    *)
(* and ids, whatever is lost, sent twice or killed.                        *)
(*                                                                         *)
(* The server's tree alone is not inductive: the ids it will hold are on   *)
(* their way in puts, and those come from sessions, which come from events *)
(* raised over caches and data pushes.  Right says of all of them that     *)
(* they hold an id only where it belongs.                                  *)
(*                                                                         *)
(* It follows that the whole system implements the ledger of               *)
(* relationships: minting an id is Issue, accepting one is Consent, and an *)
(* update the server applies changes one cell and at most one room.        *)
(*                                                                         *)
(* Last, what becomes of a request: an accepted one leads to its room, and *)
(* one its asker took back stays away, also through lost connections and   *)
(* puts sent twice; and, if none is lost, an answered request does not     *)
(* come back and a room that was closed stays closed.  All four rest on    *)
(* which puts are still to be applied.                                     *)
(***************************************************************************)
EXTENDS SessionStoreProofs

Accepted == {id \in Ids : Consented(id)}

ServerRight(a, c) == Fitting(a, c, db) /\ Mirrored(db) /\ Roomed(db)

ClientRight(a, c) ==
    \A u \in Users :
        /\ Fitting(a, c, cache[u])
        /\ \A i \in DOMAIN writes[u] : Rightful(a, c, writes[u][i])
        /\ \A i \in DOMAIN down[u] : Fitting(a, c, down[u][i].data)
        /\ \A i \in DOMAIN events[u] : Fitting(a, c, events[u][i])

SessionRight(a, c) ==
    \A u \in Users : session[u] # NoSession => Fitting(a, c, session[u])

AllRight(a, c) == ServerRight(a, c) /\ ClientRight(a, c) /\ SessionRight(a, c)

Right == AllRight(asker, Accepted)

-----------------------------------------------------------------------------
(* Sequences all of whose elements have a property. *)

LEMMA ConcatElements ==
    ASSUME NEW S, NEW s \in Seq(S), NEW t \in Seq(S), NEW i \in DOMAIN (s \o t)
    PROVE  (\E j \in DOMAIN s : (s \o t)[i] = s[j]) \/ (\E j \in DOMAIN t : (s \o t)[i] = t[j])
<1>1. i \in 1..(Len(s) + Len(t))
    BY ConcatProperties, LenProperties
<1>2. CASE i <= Len(s)
    BY <1>1, <1>2, ConcatProperties, LenProperties
<1>3. CASE i > Len(s)
    <2>1. (s \o t)[i] = t[i - Len(s)] /\ i - Len(s) \in 1..Len(t)
        BY <1>1, <1>3, ConcatProperties, LenProperties
    <2> QED BY <2>1, LenProperties
<1> QED BY <1>1, <1>2, <1>3, LenProperties

LEMMA TailElements ==
    ASSUME NEW S, NEW s \in Seq(S), s # <<>>
    PROVE  /\ 1 \in DOMAIN s /\ Head(s) = s[1]
           /\ \A i \in DOMAIN Tail(s) : \E j \in DOMAIN s : Tail(s)[i] = s[j]
<1>1. 1 \in DOMAIN s /\ Head(s) = s[1]
    BY EmptySeq, LenProperties
<1>2. ASSUME NEW i \in DOMAIN Tail(s)
      PROVE  \E j \in DOMAIN s : Tail(s)[i] = s[j]
    <2>1. Tail(s) \in Seq(S) /\ Len(Tail(s)) = Len(s) - 1 /\ \A k \in 1..Len(Tail(s)) : Tail(s)[k] = s[k + 1]
        BY HeadTailProperties, LenProperties
    <2>2. i \in 1..(Len(s) - 1) /\ Len(s) \in Nat
        BY <2>1, LenProperties
    <2>3. i + 1 \in DOMAIN s /\ Tail(s)[i] = s[i + 1]
        BY <2>1, <2>2, LenProperties
    <2> QED BY <2>3
<1> QED BY <1>1, <1>2

-----------------------------------------------------------------------------
(* The server and the clients, for any history. *)

LEMMA EmptyFits ==
    ASSUME NEW a, NEW c, NEW u
    PROVE  Fitting(a, c, EmptyTree(u)) /\ Fitting(a, c, NoUpdate)
BY DEF Fitting, Fits, EmptyTree, NoUpdate

LEMMA ViewFits ==
    ASSUME NEW a, NEW c, ClientRight(a, c), NEW u \in Users
    PROVE  Fitting(a, c, View(u))
<1>1. \A i \in DOMAIN writes[u] : Fitting(a, c, writes[u][i])
    BY RightfulFits DEF ClientRight
<1> QED BY <1>1, LayAllFits DEF View, ClientRight

LEMMA RaisedFits ==
    ASSUME NEW a, NEW c, NEW before, NEW after, Fitting(a, c, after)
    PROVE  \A i \in DOMAIN Raised(before, after) : Fitting(a, c, Raised(before, after)[i])
BY DEF Raised

LEMMA PutRight ==
    ASSUME NEW a, NEW c, FirebaseInv, ServerRight(a, c), ClientRight(a, c), NEW u \in Users,
           NEW updates \in Seq(Updates), Len(updates) \in {1, 2},
           \A i \in DOMAIN updates : Rightful(a, c, updates[i]),
           Put(u, updates)
    PROVE  ServerRight(a, c)' /\ ClientRight(a, c)'
<1>1. ServerRight(a, c)'
    BY DEF Put, ServerRight
<1>2. writes[u] \in Seq(Updates) /\ events[u] \in Seq(UserTrees(u))
    BY DEF FirebaseInv, FirebaseTypeOK
<1>3. \A i \in DOMAIN (writes[u] \o updates) : Rightful(a, c, (writes[u] \o updates)[i])
    BY <1>2, ConcatElements DEF ClientRight
<1>4. \A v \in Users : \A i \in DOMAIN writes'[v] : Rightful(a, c, writes'[v][i])
    BY <1>3 DEF Put, ClientRight, FirebaseInv, FirebaseTypeOK
<1>5. \A v \in Users : \A i \in DOMAIN events'[v] : Fitting(a, c, events'[v][i])
    <2> DEFINE once  == Lay(View(u), updates[1])
               twice == IF Len(updates) = 2 THEN Lay(once, updates[2]) ELSE once
    <2>1. \A i \in DOMAIN updates : Fitting(a, c, updates[i]) /\ updates[i] \in Updates
        BY RightfulFits
    <2>2. 1 \in DOMAIN updates /\ (Len(updates) = 2 => 2 \in DOMAIN updates)
        BY LenProperties
    <2>3. /\ Fitting(a, c, once) /\ Fitting(a, c, twice)
          /\ once \in UserTrees(u) /\ twice \in UserTrees(u)
        BY <2>1, <2>2, ViewFits, ViewType, LayFits, LaidUserTree DEF FirebaseInv
    <2> HIDE DEF once, twice
    <2>4. /\ Raised(View(u), once) \in Seq(UserTrees(u))
          /\ Raised(once, twice) \in Seq(UserTrees(u))
        BY <2>3 DEF Raised
    <2>5. LocalEvents(u, updates) = Raised(View(u), once) \o Raised(once, twice)
        BY DEF LocalEvents, once, twice
    <2>6. \A i \in DOMAIN LocalEvents(u, updates) : Fitting(a, c, LocalEvents(u, updates)[i])
        BY <2>3, <2>4, <2>5, ConcatElements, RaisedFits
    <2>7. LocalEvents(u, updates) \in Seq(UserTrees(u))
        BY <2>4, <2>5, ConcatProperties
    <2>8. \A i \in DOMAIN (events[u] \o LocalEvents(u, updates)) :
            Fitting(a, c, (events[u] \o LocalEvents(u, updates))[i])
        BY <1>2, <2>6, <2>7, ConcatElements DEF ClientRight
    <2>9. \/ events' = events
          \/ events' = [events EXCEPT ![u] = events[u] \o LocalEvents(u, updates)]
        BY DEF Put
    <2> QED BY <2>8, <2>9 DEF ClientRight, FirebaseInv, FirebaseTypeOK
<1>6. UNCHANGED <<cache, down>>
    BY DEF Put
<1> QED BY <1>1, <1>4, <1>5, <1>6 DEF ClientRight

LEMMA ServerApplyRight ==
    ASSUME NEW a, NEW c, FirebaseInv, ServerRight(a, c), ClientRight(a, c), NEW u \in Users,
           ServerApply(u)
    PROVE  ServerRight(a, c)' /\ ClientRight(a, c)'
<1> DEFINE update == writes[u][applied[u] + 1]
<1>1. applied[u] + 1 \in DOMAIN writes[u]
    BY LenProperties DEF ServerApply, FirebaseInv, FirebaseTypeOK
<1>2. Rightful(a, c, update)
    BY <1>1 DEF ClientRight
<1> HIDE DEF update
<1>3. Fitting(a, c, update) /\ Mirrored(update)
    BY <1>2, RightfulFits
<1>4. db' = Lay(db, update) /\ db \in Trees
    BY DEF ServerApply, update, FirebaseInv, FirebaseTypeOK
<1>5. ServerRight(a, c)'
    BY <1>2, <1>3, <1>4, LayFits, LayMirrored, LayRoomed DEF ServerRight
<1>6. ASSUME NEW v \in Users, NEW i \in DOMAIN down'[v]
      PROVE  Fitting(a, c, down'[v][i].data)
    <2>1. down'[v] = down[v] \o Push(u, v, update)
        BY DEF ServerApply, update
    <2>2. \A j \in DOMAIN Push(u, v, update) : Fitting(a, c, Push(u, v, update)[j].data)
        BY <1>3, UnderFits, EmptyFits DEF Push
    <2>3. down[v] \in Seq(Messages(v))
        BY DEF FirebaseInv, FirebaseTypeOK
    <2>4. Push(u, v, update) \in Seq(Messages(v))
        BY <1>2, RightfulFits, PushType
    <2> QED BY <2>1, <2>2, <2>3, <2>4, ConcatElements DEF ClientRight
<1>7. UNCHANGED <<cache, writes, events>>
    BY DEF ServerApply
<1> QED BY <1>5, <1>6, <1>7 DEF ClientRight

LEMMA ReceiveRight ==
    ASSUME NEW a, NEW c, FirebaseInv, ServerRight(a, c), ClientRight(a, c), NEW u \in Users,
           Receive(u)
    PROVE  ServerRight(a, c)' /\ ClientRight(a, c)'
<1> DEFINE m    == Head(down[u])
           tree == Lay(cache[u], m.data)
           left == IF m.ack THEN Tail(writes[u]) ELSE writes[u]
           view == LayAll(tree, left)
           new  == IF listen[u] = "none" THEN <<>>
                   ELSE IF listen[u] = "waiting" THEN <<view>>
                   ELSE Raised(View(u), view)
<1>1. /\ down[u] \in Seq(Messages(u)) /\ down[u] # <<>>
      /\ writes[u] \in Seq(Updates) /\ cache[u] \in UserTrees(u)
      /\ events[u] \in Seq(UserTrees(u))
    BY DEF Receive, FirebaseInv, FirebaseTypeOK
<1>2. 1 \in DOMAIN down[u] /\ m = down[u][1] /\ m \in Messages(u)
    BY <1>1, TailElements, ElementOfSeq, LenProperties
<1>3. Fitting(a, c, m.data) /\ m.data \in Pushes(u)
    BY <1>2 DEF ClientRight, Messages
<1>4. Fitting(a, c, tree) /\ tree \in UserTrees(u)
    BY <1>1, <1>3, LayFits, LaidUserTree DEF ClientRight
<1>5. left \in Seq(Updates) /\ \A i \in DOMAIN left : Rightful(a, c, left[i])
    <2>1. CASE m.ack
        <3>1. 1 \in AckIndices(down[u])
            BY <1>2, <2>1 DEF AckIndices
        <3>2. applied[u] # 0
            BY <1>1, <3>1, AckIndicesFinite, FS_EmptySet DEF FirebaseInv, AcksMatchPuts
        <3>3. writes[u] # <<>>
            BY <1>1, <3>2, EmptySeq DEF FirebaseInv, FirebaseTypeOK
        <3> QED BY <1>1, <2>1, <3>3, TailElements, HeadTailProperties DEF ClientRight
    <2>2. CASE ~m.ack
        BY <1>1, <2>2 DEF ClientRight
    <2> QED BY <2>1, <2>2
<1> HIDE DEF left
<1>6. Fitting(a, c, view) /\ view \in UserTrees(u)
    BY <1>4, <1>5, RightfulFits, LayAllFits, LaidAllUserTree
<1>7. /\ cache' = [cache EXCEPT ![u] = tree]
      /\ writes' = [writes EXCEPT ![u] = left]
      /\ events' = [events EXCEPT ![u] = events[u] \o new]
      /\ down' = [down EXCEPT ![u] = Tail(down[u])]
      /\ db' = db
    BY DEF Receive, left, FirebaseInv, FirebaseTypeOK
<1> HIDE DEF view, tree
<1>8. new \in Seq(UserTrees(u)) /\ \A i \in DOMAIN new : Fitting(a, c, new[i])
    BY <1>6, RaisedFits DEF Raised
<1> HIDE DEF new, m
<1>9. \A i \in DOMAIN (events[u] \o new) : Fitting(a, c, (events[u] \o new)[i])
    BY <1>1, <1>8, ConcatElements DEF ClientRight
<1>10. \A i \in DOMAIN Tail(down[u]) : Fitting(a, c, Tail(down[u])[i].data)
    BY <1>1, TailElements DEF ClientRight
<1>11. ServerRight(a, c)'
    BY <1>7 DEF ServerRight
<1> QED BY <1>4, <1>5, <1>7, <1>9, <1>10, <1>11 DEF ClientRight, FirebaseInv, FirebaseTypeOK

(* What is lost, cut off or ended holds nothing; a new connection brings a *)
(* part of the server's tree.                                              *)
LEMMA LoseConnectionRight ==
    ASSUME NEW a, NEW c, FirebaseInv, ServerRight(a, c), ClientRight(a, c), NEW u \in Users,
           LoseConnection(u)
    PROVE  ServerRight(a, c)' /\ ClientRight(a, c)'
BY DEF LoseConnection, ServerRight, ClientRight, FirebaseInv, FirebaseTypeOK

LEMMA ConnectRight ==
    ASSUME NEW a, NEW c, FirebaseInv, ServerRight(a, c), ClientRight(a, c), NEW u \in Users,
           Connect(u)
    PROVE  ServerRight(a, c)' /\ ClientRight(a, c)'
<1>1. Fitting(a, c, Under(u, db))
    BY UnderFits DEF ServerRight
<1>2. \A i \in DOMAIN down'[u] : Fitting(a, c, down'[u][i].data)
    BY <1>1 DEF Connect, FirebaseInv, FirebaseTypeOK
<1> QED BY <1>2 DEF Connect, ServerRight, ClientRight, FirebaseInv, FirebaseTypeOK

LEMMA EndProcessRight ==
    ASSUME NEW a, NEW c, FirebaseInv, ServerRight(a, c), ClientRight(a, c), NEW u \in Users,
           EndProcess(u)
    PROVE  ServerRight(a, c)' /\ ClientRight(a, c)'
BY EmptyFits DEF EndProcess, ServerRight, ClientRight, FirebaseInv, FirebaseTypeOK

-----------------------------------------------------------------------------
(* The steps of the devices. *)

LEMMA AllRightInit ==
    ASSUME NEW a, NEW c, Init
    PROVE  AllRight(a, c)
<1>1. \A p \in Paths : db[p] = Nil
    BY DEF Init, FirebaseInit
<1>2. /\ \A p \in Pairs : {Rel(p[1], p[2]), Rel(p[2], p[1]), Pend(p[1], p[2]), Req(p[2], p[1])} \subseteq Paths
      /\ DOMAIN db = Paths
    BY PairFacts, PairPaths, UserPathsArePaths DEF Init, FirebaseInit
<1>3. ServerRight(a, c)
    BY <1>1, <1>2, NilAssumption DEF ServerRight, Fitting, Fits, Mirrored, Same, Roomed
<1>4. ClientRight(a, c)
    <2> SUFFICES ASSUME NEW u \in Users
                 PROVE  /\ Fitting(a, c, cache[u])
                        /\ \A i \in DOMAIN writes[u] : Rightful(a, c, writes[u][i])
                        /\ \A i \in DOMAIN down[u] : Fitting(a, c, down[u][i].data)
                        /\ \A i \in DOMAIN events[u] : Fitting(a, c, events[u][i])
        BY DEF ClientRight
    <2>1. /\ cache[u] = EmptyTree(u)
          /\ writes[u] = <<>> /\ down[u] = <<>> /\ events[u] = <<>>
        BY DEF Init, FirebaseInit
    <2>2. DOMAIN writes[u] = {} /\ DOMAIN down[u] = {} /\ DOMAIN events[u] = {}
        BY <2>1
    <2> QED BY <2>1, <2>2, EmptyFits
<1>5. SessionRight(a, c)
    BY EmptyFits DEF Init, SessionRight
<1> QED BY <1>3, <1>4, <1>5 DEF AllRight

LEMMA GrownRight ==
    ASSUME NEW a, NEW c, NEW a2, NEW c2, Grown(a, c, a2, c2), AllRight(a, c)
    PROVE  AllRight(a2, c2)
<1>1. ServerRight(a2, c2)
    BY GrownFitting DEF AllRight, ServerRight
<1>2. ClientRight(a2, c2)
    <2> SUFFICES ASSUME NEW u \in Users
                 PROVE  /\ Fitting(a2, c2, cache[u])
                        /\ \A i \in DOMAIN writes[u] : Rightful(a2, c2, writes[u][i])
                        /\ \A i \in DOMAIN down[u] : Fitting(a2, c2, down[u][i].data)
                        /\ \A i \in DOMAIN events[u] : Fitting(a2, c2, events[u][i])
        BY DEF ClientRight
    <2>1. Fitting(a2, c2, cache[u])
        BY GrownFitting DEF AllRight, ClientRight
    <2>2. ASSUME NEW i \in DOMAIN writes[u]
          PROVE  Rightful(a2, c2, writes[u][i])
        BY GrownRightful DEF AllRight, ClientRight
    <2>3. ASSUME NEW i \in DOMAIN down[u]
          PROVE  Fitting(a2, c2, down[u][i].data)
        BY GrownFitting DEF AllRight, ClientRight
    <2>4. ASSUME NEW i \in DOMAIN events[u]
          PROVE  Fitting(a2, c2, events[u][i])
        BY GrownFitting DEF AllRight, ClientRight
    <2> QED BY <2>1, <2>2, <2>3, <2>4
<1>3. SessionRight(a2, c2)
    BY GrownFitting DEF AllRight, SessionRight
<1> QED BY <1>1, <1>2, <1>3 DEF AllRight

(* A step ends in Right when it leaves everything right for the history it *)
(* ends with.                                                              *)
LEMMA RightAfter ==
    ASSUME NEW a, NEW c, a = asker', c = Accepted', AllRight(a, c)'
    PROVE  Right'
BY DEF Right, AllRight, ServerRight, ClientRight, SessionRight

LEMMA SameHistory ==
    ASSUME UNCHANGED historyVars
    PROVE  asker' = asker /\ Accepted' = Accepted
BY DEF historyVars, Accepted, Consented

(* A tap: the history grows, a put is rightful for it, and a leaf of the   *)
(* session changes to what fits there.                                     *)
LEMMA TapRight ==
    ASSUME Inv, Right, NEW u \in Users, Grown(asker, Accepted, asker', Accepted'),
           NEW updates \in Seq(Updates), Len(updates) \in {1, 2}, Put(u, updates),
           \A i \in DOMAIN updates : Rightful(asker', Accepted', updates[i]),
           NEW tree, session' = [session EXCEPT ![u] = tree],
           Fitting(asker', Accepted', tree)
    PROVE  Right'
<1>1. PICK a, c : a = asker' /\ c = Accepted'
    OBVIOUS
<1>2. AllRight(a, c)
    BY <1>1, GrownRight DEF Right
<1>3. ServerRight(a, c)' /\ ClientRight(a, c)'
    BY <1>1, <1>2, InvParts, PutRight DEF AllRight
<1>4. SessionRight(a, c)'
    BY <1>1, <1>2, InvParts DEF AllRight, SessionRight, SessionTypeOK
<1>5. AllRight(a, c)'
    BY <1>3, <1>4 DEF AllRight
<1> QED BY <1>1, <1>5, RightAfter

LEMMA ProcessGoneRight ==
    ASSUME Inv, Right, NEW u \in Users, NEW why, ProcessGone(u, why)
    PROVE  Right'
<1>1. PICK a, c : a = asker /\ c = Accepted
    OBVIOUS
<1>2. a = asker' /\ c = Accepted'
    BY <1>1, SameHistory DEF ProcessGone
<1>3. ServerRight(a, c)' /\ ClientRight(a, c)'
    BY <1>1, InvParts, EndProcessRight DEF ProcessGone, Right, AllRight
<1>4. SessionRight(a, c)'
    BY <1>1, InvParts DEF ProcessGone, Right, AllRight, SessionRight, SessionTypeOK
<1> QED BY <1>2, <1>3, <1>4, RightAfter DEF AllRight

LEMMA TapDeleteRight ==
    ASSUME Inv, Right, NEW u \in Users, NEW v \in Others(u), TapDelete(u, v)
    PROVE  Right'
<1> DEFINE id == session[u][Rel(u, v)]
           update == deleteRelationship(u, v, id)
           tree == [session[u] EXCEPT ![Rel(u, v)] = Nil]
<1>1. CASE id = Nil
    BY <1>1, ProcessGoneRight DEF TapDelete
<1>2. CASE id # Nil
    <2>1. Fitting(asker, Accepted, session[u]) /\ session[u] \in UserTrees(u)
        BY InvParts DEF TapDelete, Right, AllRight, SessionRight, SessionTypeOK
    <2>2. id \in Ids \cap Accepted /\ asker[id] \in {<<u, v>>, <<v, u>>}
        BY <1>2, <2>1, PairPaths DEF Fitting, Fits, UserTrees, Rel
    <2>3. fate' = [fate EXCEPT ![id] = AfterDelete(@)] /\ asker' = asker
        BY <1>2 DEF TapDelete
    <2>4. Accepted' = Accepted
        BY <2>2, <2>3, InvParts DEF Accepted, Consented, SessionTypeOK, AfterDelete
    <2>5. Grown(asker, Accepted, asker', Accepted')
        BY <2>3, <2>4 DEF Grown
    <2>6. <<u, v>> \in Pairs /\ <<u, v>>[1] = u /\ <<u, v>>[2] = v
        BY DEF Pairs, Others
    <2>7. Rightful(asker', Accepted', update)
        BY <2>2, <2>3, <2>4, <2>6 DEF Rightful
    <2>8. Fitting(asker', Accepted', tree)
        BY <2>1, <2>3, <2>4, LeafFits DEF Fits
    <2>9. session' = [session EXCEPT ![u] = tree] /\ Put(u, <<update>>)
        BY <1>2, InvParts DEF TapDelete, SessionTypeOK
    <2> HIDE DEF update, tree, id
    <2>10. update \in Updates
        BY <2>7, RightfulFits
    <2>11. /\ <<update>> \in Seq(Updates) /\ Len(<<update>>) \in {1, 2}
           /\ \A i \in DOMAIN <<update>> : Rightful(asker', Accepted', <<update>>[i])
        BY <2>7, <2>10
    <2> QED BY <2>5, <2>8, <2>9, <2>11, TapRight
<1> QED BY <1>1, <1>2

(* A tap that leaves the history alone and removes an entry. *)
LEMMA RemovalRight ==
    ASSUME Inv, Right, NEW u \in Users, NEW v \in Others(u), session[u] # NoSession,
           Grown(asker, Accepted, asker', Accepted'),
           NEW update \in {removePending(u, v), removeRequest(u, v)}, Put(u, <<update>>),
           NEW path, session' = [session EXCEPT ![u] = [session[u] EXCEPT ![path] = Nil]]
    PROVE  Right'
<1>1. <<u, v>> \in Pairs /\ <<u, v>>[1] = u /\ <<u, v>>[2] = v
    BY DEF Pairs, Others
<1>2. Rightful(asker', Accepted', update) /\ update \in Updates
    BY <1>1, RemovalUpdates DEF Rightful
<1>3. /\ <<update>> \in Seq(Updates) /\ Len(<<update>>) \in {1, 2}
      /\ \A i \in DOMAIN <<update>> : Rightful(asker', Accepted', <<update>>[i])
    BY <1>2
<1>4. Fitting(asker', Accepted', session[u])
    BY GrownFitting DEF Right, AllRight, SessionRight
<1>5. Fitting(asker', Accepted', [session[u] EXCEPT ![path] = Nil])
    BY <1>4, LeafFits DEF Fits
<1> QED BY <1>3, <1>5, TapRight

(* Taking back mints nothing and undoes no consent. *)
LEMMA TakenBack ==
    ASSUME Inv, NEW u \in Users, NEW v \in Others(u), TakeBack(u, v)
    PROVE  /\ asker' = asker /\ Accepted' = Accepted
           /\ \A id \in Ids :
                \/ fate'[id] = fate[id]
                \/ fate[id] = "asked" /\ fate'[id] = "unsent" /\ asker[id] = <<u, v>>
<1>1. asker' = asker
    BY DEF TakeBack
<1>2. ASSUME NEW id \in Ids
      PROVE  \/ fate'[id] = fate[id]
             \/ fate[id] = "asked" /\ fate'[id] = "unsent" /\ asker[id] = <<u, v>>
    BY DEF TakeBack
<1>3. \A id \in Ids : Consented(id)' <=> Consented(id)
    BY <1>2 DEF Consented
<1> QED BY <1>1, <1>2, <1>3 DEF Accepted

LEMMA TakenBackGrown ==
    ASSUME Inv, NEW u \in Users, NEW v \in Others(u), TakeBack(u, v)
    PROVE  Grown(asker, Accepted, asker', Accepted')
BY TakenBack DEF Grown

LEMMA TapUnsendRight ==
    ASSUME Inv, Right, NEW u \in Users, NEW v \in Others(u), TapUnsend(u, v)
    PROVE  Right'
<1>1. session' = [session EXCEPT ![u] = [session[u] EXCEPT ![Pend(u, v)] = Nil]]
    BY InvParts DEF TapUnsend, SessionTypeOK
<1> QED BY <1>1, TakenBackGrown, RemovalRight DEF TapUnsend

LEMMA TapToggledRight ==
    ASSUME Inv, Right, NEW u \in Users, NEW v \in Others(u), TapToggled(u, v)
    PROVE  Right'
<1>1. session' = [session EXCEPT ![u] = [session[u] EXCEPT ![Pend(u, v)] = Nil]]
    BY InvParts DEF TapToggled, SessionTypeOK
<1> QED BY <1>1, TakenBackGrown, RemovalRight DEF TapToggled

LEMMA TapDeclineRight ==
    ASSUME Inv, Right, NEW u \in Users, NEW v \in Others(u), TapDecline(u, v)
    PROVE  Right'
<1>1. session' = [session EXCEPT ![u] = [session[u] EXCEPT ![Req(u, v)] = Nil]]
    BY InvParts DEF TapDecline, SessionTypeOK
<1>2. \A id \in Ids : Consented(id) => fate'[id] = fate[id]
    BY DEF TapDecline, Consented
<1>3. Grown(asker, Accepted, asker', Accepted')
    BY <1>2 DEF TapDecline, Grown, Accepted, Consented
<1> QED BY <1>1, <1>3, RemovalRight DEF TapDecline

LEMMA TapAcceptRight ==
    ASSUME Inv, Right, NEW u \in Users, NEW v \in Others(u), TapAccept(u, v)
    PROVE  Right'
<1> DEFINE id   == session[u][Req(u, v)]
           one  == removeRequest(u, v)
           two  == addRelationship(u, v, id)
           tree == [[session[u] EXCEPT ![Rel(u, v)] = id] EXCEPT ![Req(u, v)] = Nil]
<1>1. CASE id = Nil
    BY <1>1, ProcessGoneRight DEF TapAccept
<1>2. CASE id # Nil
    <2>1. Fitting(asker, Accepted, session[u]) /\ session[u] \in UserTrees(u)
        BY InvParts DEF TapAccept, Right, AllRight, SessionRight, SessionTypeOK
    <2>2. id \in Ids /\ asker[id] = <<v, u>> /\ asker[id] # Nil
        <3>1. Req(u, v) \in UserPaths(u) /\ Req(u, v) \in DOMAIN session[u] /\ id \in Ids
            BY <1>2, <2>1, PairPaths DEF UserTrees
        <3>2. Fits(asker, Accepted, Req(u, v), id)
            BY <1>2, <2>1, <3>1 DEF Fitting
        <3> QED BY <1>2, <3>1, <3>2 DEF Fits, Req
    <2>3. fate' = [fate EXCEPT ![id] = AfterAccept(@)] /\ asker' = asker
        BY <1>2 DEF TapAccept
    <2>4. Accepted \subseteq Accepted' /\ id \in Accepted'
        BY <2>2, <2>3, InvParts DEF Accepted, Consented, SessionTypeOK, AfterAccept
    <2>5. Grown(asker, Accepted, asker', Accepted')
        BY <2>3, <2>4 DEF Grown
    <2>6. <<u, v>> \in Pairs /\ <<u, v>>[1] = u /\ <<u, v>>[2] = v
        BY DEF Pairs, Others
    <2>7. Rightful(asker', Accepted', one) /\ Rightful(asker', Accepted', two)
        BY <2>2, <2>3, <2>4, <2>6 DEF Rightful
    <2>8. Fitting(asker', Accepted', tree)
        <3>1. Fits(asker', Accepted', Rel(u, v), id)
            BY <2>2, <2>3, <2>4 DEF Fits, Rel
        <3>2. Fits(asker', Accepted', Req(u, v), Nil)
            BY DEF Fits
        <3>3. Fitting(asker', Accepted', session[u])
            BY <2>1, <2>5, GrownFitting
        <3>4. Fitting(asker', Accepted', [session[u] EXCEPT ![Rel(u, v)] = id])
            BY <3>1, <3>3, LeafFits
        <3> QED BY <3>2, <3>4, LeafFits
    <2>9. session' = [session EXCEPT ![u] = tree] /\ Put(u, <<one, two>>)
        BY <1>2, <2>1, InvParts DEF TapAccept, SessionTypeOK, UserTrees
    <2> HIDE DEF one, two, tree, id
    <2>10. one \in Updates /\ two \in Updates
        BY <2>7, RightfulFits
    <2>11. /\ <<one, two>> \in Seq(Updates) /\ Len(<<one, two>>) \in {1, 2}
           /\ \A i \in DOMAIN <<one, two>> : Rightful(asker', Accepted', <<one, two>>[i])
        BY <2>7, <2>10
    <2> QED BY <2>5, <2>8, <2>9, <2>11, TapRight
<1> QED BY <1>1, <1>2

LEMMA TapAddRight ==
    ASSUME Inv, Right, NEW u \in Users, NEW v \in Others(u), TapAdd(u, v)
    PROVE  Right'
<1>1. PICK id \in Ids :
        /\ asker[id] = Nil
        /\ Put(u, <<addPending(u, v, id)>>)
        /\ session' = [session EXCEPT ![u][Pend(u, v)] = id]
        /\ asker' = [asker EXCEPT ![id] = <<u, v>>]
        /\ fate' = [fate EXCEPT ![id] = "asked"]
    BY DEF TapAdd
<1> DEFINE update == addPending(u, v, id)
           tree == [session[u] EXCEPT ![Pend(u, v)] = id]
<1>2. <<u, v>> \in Pairs /\ <<u, v>>[1] = u /\ <<u, v>>[2] = v /\ <<u, v>> # Nil
    BY PairFacts DEF Pairs, Others
<1>3. asker'[id] = <<u, v>>
    BY <1>1, InvParts DEF SessionTypeOK
<1>4. Grown(asker, Accepted, asker', Accepted')
    <2>1. \A other \in Ids \ {id} : asker'[other] = asker[other] /\ fate'[other] = fate[other]
        BY <1>1, InvParts DEF SessionTypeOK
    <2> QED BY <1>1, <2>1 DEF Grown, Accepted, Consented
<1>5. Rightful(asker', Accepted', update)
    BY <1>2, <1>3 DEF Rightful
<1>6. Fitting(asker', Accepted', tree)
    <2>1. Fits(asker', Accepted', Pend(u, v), id)
        BY <1>2, <1>3 DEF Fits, Pend
    <2>2. Fitting(asker', Accepted', session[u])
        BY <1>4, GrownFitting DEF TapAdd, Right, AllRight, SessionRight
    <2> QED BY <2>1, <2>2, LeafFits
<1>7. session' = [session EXCEPT ![u] = tree] /\ Put(u, <<update>>)
    BY <1>1, InvParts DEF SessionTypeOK
<1> HIDE DEF update, tree
<1>8. update \in Updates
    BY <1>5, RightfulFits
<1>9. /\ <<update>> \in Seq(Updates) /\ Len(<<update>>) \in {1, 2}
      /\ \A i \in DOMAIN <<update>> : Rightful(asker', Accepted', <<update>>[i])
    BY <1>5, <1>8
<1> QED BY <1>4, <1>6, <1>7, <1>9, TapRight

(* The steps that leave the history alone. *)
LEMMA SystemRight ==
    ASSUME Right, UNCHANGED historyVars,
           ASSUME NEW a, NEW c, AllRight(a, c) PROVE AllRight(a, c)'
    PROVE  Right'
<1>1. PICK a, c : a = asker /\ c = Accepted
    OBVIOUS
<1>2. a = asker' /\ c = Accepted' /\ AllRight(a, c)
    BY <1>1, SameHistory DEF Right
<1> QED BY <1>2, RightAfter

LEMMA DeliverEventRight ==
    ASSUME Inv, Right, NEW u \in Users, DeliverEvent(u)
    PROVE  Right'
<1>1. UNCHANGED historyVars
    BY DEF DeliverEvent
<1>2. ASSUME NEW a, NEW c, AllRight(a, c)
      PROVE  AllRight(a, c)'
    <2>1. events[u] \in Seq(UserTrees(u)) /\ events[u] # <<>>
        BY InvParts DEF DeliverEvent, FirebaseInv, FirebaseTypeOK
    <2>2. /\ Fitting(a, c, Head(events[u]))
          /\ \A i \in DOMAIN Tail(events[u]) : Fitting(a, c, Tail(events[u])[i])
        BY <1>2, <2>1, TailElements DEF AllRight, ClientRight
    <2>3. SessionRight(a, c)'
        BY <1>2, <2>2, InvParts DEF DeliverEvent, AllRight, SessionRight, SessionTypeOK
    <2>4. \A v \in Users : \A i \in DOMAIN events'[v] : Fitting(a, c, events'[v][i])
        BY <1>2, <2>2, InvParts
           DEF DeliverEvent, AllRight, ClientRight, FirebaseInv, FirebaseTypeOK
    <2> QED BY <1>2, <2>3, <2>4 DEF DeliverEvent, AllRight, ServerRight, ClientRight
<1> QED BY <1>1, <1>2, SystemRight

LEMMA QuietRight ==
    ASSUME Right, UNCHANGED <<db, cache, writes, down, events, session, historyVars>>
    PROVE  Right'
<1>1. ASSUME NEW a, NEW c, AllRight(a, c)
      PROVE  AllRight(a, c)'
    BY <1>1 DEF AllRight, ServerRight, ClientRight, SessionRight
<1> QED BY <1>1, SystemRight

LEMMA WireRight ==
    ASSUME Inv, Right, NEW u \in Users, UNCHANGED <<session, historyVars>>,
           ServerApply(u) \/ Receive(u) \/ LoseConnection(u) \/ Connect(u)
    PROVE  Right'
<1>1. ASSUME NEW a, NEW c, AllRight(a, c)
      PROVE  AllRight(a, c)'
    <2>1. ServerRight(a, c)' /\ ClientRight(a, c)'
        BY <1>1, InvParts, ServerApplyRight, ReceiveRight, LoseConnectionRight, ConnectRight
           DEF AllRight
    <2> QED BY <1>1, <2>1 DEF AllRight, SessionRight
<1> QED BY <1>1, SystemRight

-----------------------------------------------------------------------------

LEMMA StepRight == Inv /\ Right /\ [Next]_vars => Right'
<1> SUFFICES ASSUME Inv, Right, [Next]_vars PROVE Right'
    OBVIOUS
<1>1. CASE UNCHANGED vars
    BY <1>1, QuietRight DEF vars, firebaseVars, sessionVars, historyVars
<1>2. CASE Next
    <2>1. PICK u \in Users : UserStep(u) \/ SystemStep(u) \/ WorldStep(u)
        BY <1>2 DEF Next
    <2>2. CASE TapDeleteSelf(u)
        BY <2>2, ProcessGoneRight DEF TapDeleteSelf
    <2>3. ASSUME NEW v \in Others(u),
                 \/ TapDelete(u, v) \/ TapUnsend(u, v)
                 \/ TapAccept(u, v) \/ TapDecline(u, v)
                 \/ TapAdd(u, v) \/ TapToggled(u, v)
          PROVE  Right'
        BY <2>3, TapDeleteRight, TapUnsendRight, TapAcceptRight, TapDeclineRight, TapAddRight,
           TapToggledRight
    <2>4. ASSUME NEW v \in Others(u), TapBeforeSession(u, v) \/ Redraw(u, v)
          PROVE  Right'
        BY <2>4, QuietRight DEF TapBeforeSession, Redraw, firebaseVars
    <2>5. CASE SystemStep(u)
        <3>1. CASE Apply(u) \/ Handle(u) \/ Reconnect(u)
            BY <3>1, WireRight DEF Apply, Handle, Reconnect, sessionVars, historyVars
        <3> QED BY <2>5, <3>1, DeliverEventRight DEF SystemStep
    <2>6. CASE Drop(u)
        BY <2>6, WireRight DEF Drop
    <2>7. CASE Kill(u)
        BY <2>7, ProcessGoneRight DEF Kill
    <2>8. CASE Launch(u)
        BY <2>8, QuietRight DEF Launch, Observe
    <2> QED BY <2>1, <2>2, <2>3, <2>4, <2>5, <2>6, <2>7, <2>8 DEF UserStep, WorldStep
<1> QED BY <1>1, <1>2

LEMMA InitRight == Init => Right
BY AllRightInit DEF Right

THEOREM RightAlways == Spec => []Right
BY InitRight, StepRight, Invariance, PTL DEF Spec

(* Both users' nodes tell the same story at every moment, because every    *)
(* update of DatabaseManager writes both halves.                           *)
THEOREM NodesMirror == Spec => []MirroredNodes
<1>1. Inv /\ Right => MirroredNodes
    <2> SUFFICES ASSUME Inv, Right, NEW p \in Pairs
                 PROVE  /\ db[Pend(p[1], p[2])] = db[Req(p[2], p[1])]
                        /\ db[Rel(p[1], p[2])] = db[Rel(p[2], p[1])]
        BY DEF MirroredNodes
    <2>1. /\ Pend(p[1], p[2]) \in Paths /\ Rel(p[1], p[2]) \in Paths /\ DOMAIN db = Paths
        BY PairFacts, PairPaths, UserPathsArePaths DEF Inv, TypeOK, FirebaseTypeOK, Trees
    <2> QED BY <2>1 DEF Right, AllRight, ServerRight, Mirrored, Same
<1> QED BY <1>1, RightAlways, Invariance, PTL

(* Nobody is related to a user who did not agree, in every interleaving of *)
(* taps, stale rows, lost connections, puts sent again and dead processes. *)
THEOREM NobodyRelatedUnasked == Spec => []ConsentedRelationship
<1>1. Inv /\ Right => ConsentedRelationship
    <2> SUFFICES ASSUME Inv, Right, NEW p \in Pairs
                 PROVE  /\ db[Pend(p[1], p[2])] # Nil => asker[db[Pend(p[1], p[2])]] = p
                        /\ db[Rel(p[1], p[2])] # Nil =>
                            /\ Consented(db[Rel(p[1], p[2])])
                            /\ Between(db[Rel(p[1], p[2])]) = {p[1], p[2]}
        BY DEF ConsentedRelationship
    <2>1. /\ Pend(p[1], p[2]) \in Paths /\ Rel(p[1], p[2]) \in Paths /\ DOMAIN db = Paths
        BY PairFacts, PairPaths, UserPathsArePaths DEF Inv, TypeOK, FirebaseTypeOK, Trees
    <2>2. /\ Fits(asker, Accepted, Pend(p[1], p[2]), db[Pend(p[1], p[2])])
          /\ Fits(asker, Accepted, Rel(p[1], p[2]), db[Rel(p[1], p[2])])
        BY <2>1 DEF Right, AllRight, ServerRight, Fitting
    <2>3. ASSUME db[Pend(p[1], p[2])] # Nil
          PROVE  asker[db[Pend(p[1], p[2])]] = p
        BY <2>2, <2>3, PairFacts DEF Fits, Pend
    <2>4. ASSUME db[Rel(p[1], p[2])] # Nil
          PROVE  /\ Consented(db[Rel(p[1], p[2])])
                 /\ Between(db[Rel(p[1], p[2])]) = {p[1], p[2]}
        BY <2>2, <2>4, PairFacts DEF Fits, Rel, Accepted, Between
    <2> QED BY <2>3, <2>4
<1> QED BY <1>1, RightAlways, Invariance, PTL

(* Every relationship has its room, also when a delete names an id the     *)
(* server no longer holds.                                                 *)
THEOREM RelationshipsHaveRooms == Spec => []NoDanglingRelationship
<1>1. Right => NoDanglingRelationship
    BY DEF Right, AllRight, ServerRight, Roomed, NoDanglingRelationship
<1> QED BY <1>1, RightAlways, PTL

-----------------------------------------------------------------------------
(* An id has a fate exactly when somebody minted it. *)
FreshUnminted == \A id \in Ids : asker[id] = Nil <=> fate[id] = "fresh"

LEMMA InitFresh == Init => FreshUnminted
BY DEF Init, FreshUnminted

(* An id in a session was minted by one of its two users for the other, and *)
(* one in its relationships was accepted.                                   *)
LEMMA SessionIds ==
    ASSUME Inv, Right, NEW u \in Users, NEW v \in Others(u), session[u] # NoSession
    PROVE  /\ session[u][Rel(u, v)] # Nil =>
                /\ session[u][Rel(u, v)] \in Accepted
                /\ asker[session[u][Rel(u, v)]] \in {<<u, v>>, <<v, u>>}
           /\ session[u][Req(u, v)] # Nil =>
                /\ session[u][Req(u, v)] \in Ids
                /\ asker[session[u][Req(u, v)]] = <<v, u>>
<1>1. Fitting(asker, Accepted, session[u]) /\ DOMAIN session[u] = UserPaths(u)
    BY InvParts DEF Right, AllRight, SessionRight, SessionTypeOK, UserTrees
<1>2. /\ Fits(asker, Accepted, Rel(u, v), session[u][Rel(u, v)])
      /\ Fits(asker, Accepted, Req(u, v), session[u][Req(u, v)])
    BY <1>1, PairPaths DEF Fitting
<1> QED BY <1>2 DEF Fits, Rel, Req, Accepted

LEMMA UserPairs ==
    ASSUME NEW u \in Users, NEW v \in Others(u)
    PROVE  /\ <<u, v>> \in Pairs /\ <<u, v>>[1] = u /\ <<u, v>>[2] = v /\ <<u, v>> # Nil
           /\ <<v, u>> \in Pairs /\ <<v, u>>[1] = v /\ <<v, u>>[2] = u /\ <<v, u>> # Nil
BY PairFacts DEF Pairs, Others

-----------------------------------------------------------------------------
(* What every step does to the history: it mints one id, has one accepted, *)
(* or leaves the minted and the accepted ids as they are.                  *)
Minted(id, p) ==
    /\ asker[id] = Nil /\ asker' = [asker EXCEPT ![id] = p]
    /\ Accepted' = Accepted /\ UNCHANGED db

Agreed(id) ==
    /\ asker[id] # Nil /\ UNCHANGED asker
    /\ Accepted' = Accepted \cup {id} /\ UNCHANGED db

Undisturbed == UNCHANGED asker /\ Accepted' = Accepted

HistoryStep ==
    \/ \E id \in Ids : \E p \in Pairs : Minted(id, p)
    \/ \E id \in Ids : Agreed(id)
    \/ Undisturbed /\ (UNCHANGED db \/ \E u \in Users : ServerApply(u))

LEMMA SameHistoryFresh ==
    ASSUME FreshUnminted, UNCHANGED historyVars
    PROVE  FreshUnminted' /\ Undisturbed
BY SameHistory DEF FreshUnminted, Undisturbed, historyVars

LEMMA TapDeleteHistory ==
    ASSUME Inv, Right, FreshUnminted, NEW u \in Users, NEW v \in Others(u), TapDelete(u, v)
    PROVE  FreshUnminted' /\ HistoryStep
<1> DEFINE id == session[u][Rel(u, v)]
<1>1. CASE id = Nil
    BY <1>1, SameHistoryFresh DEF TapDelete, ProcessGone, EndProcess, HistoryStep
<1>2. CASE id # Nil
    <2>1. id \in Accepted /\ asker[id] # Nil
        <3>1. session[u] # NoSession
            BY DEF TapDelete
        <3>2. id \in Accepted /\ asker[id] \in {<<u, v>>, <<v, u>>}
            BY <1>2, <3>1, SessionIds
        <3> QED BY <3>2, UserPairs
    <2>2. fate' = [fate EXCEPT ![id] = AfterDelete(@)] /\ asker' = asker /\ db' = db
        BY <1>2 DEF TapDelete, Put
    <2> HIDE DEF id
    <2>3. Accepted' = Accepted
        BY <2>1, <2>2, InvParts DEF Accepted, Consented, SessionTypeOK, AfterDelete
    <2>4. FreshUnminted'
        BY <2>1, <2>2, InvParts DEF FreshUnminted, SessionTypeOK, AfterDelete
    <2> QED BY <2>2, <2>3, <2>4 DEF HistoryStep, Undisturbed
<1> QED BY <1>1, <1>2

LEMMA TapAcceptHistory ==
    ASSUME Inv, Right, FreshUnminted, NEW u \in Users, NEW v \in Others(u), TapAccept(u, v)
    PROVE  FreshUnminted' /\ HistoryStep
<1> DEFINE id == session[u][Req(u, v)]
<1>1. CASE id = Nil
    BY <1>1, SameHistoryFresh DEF TapAccept, ProcessGone, EndProcess, HistoryStep
<1>2. CASE id # Nil
    <2>1. id \in Ids /\ asker[id] # Nil
        <3>1. session[u] # NoSession
            BY DEF TapAccept
        <3>2. id \in Ids /\ asker[id] = <<v, u>>
            BY <1>2, <3>1, SessionIds
        <3> QED BY <3>2, UserPairs
    <2>2. fate' = [fate EXCEPT ![id] = AfterAccept(@)] /\ asker' = asker /\ db' = db
        BY <1>2 DEF TapAccept, Put
    <2> HIDE DEF id
    <2>3. Accepted' = Accepted \cup {id}
        BY <2>1, <2>2, InvParts DEF Accepted, Consented, SessionTypeOK, AfterAccept
    <2>4. FreshUnminted'
        BY <2>1, <2>2, InvParts DEF FreshUnminted, SessionTypeOK, AfterAccept
    <2> QED BY <2>1, <2>2, <2>3, <2>4 DEF HistoryStep, Agreed
<1> QED BY <1>1, <1>2

LEMMA TapDeclineHistory ==
    ASSUME Inv, FreshUnminted, NEW u \in Users, NEW v \in Others(u), TapDecline(u, v)
    PROVE  FreshUnminted' /\ HistoryStep
<1>1. /\ UNCHANGED <<asker, db>>
      /\ \A id \in Ids : fate'[id] = fate[id] \/ (fate[id] = "asked" /\ fate'[id] = "declined")
    <2>1. UNCHANGED <<asker, db>>
        BY DEF TapDecline, Put
    <2>2. fate' = [id \in Ids |-> IF id = session[u][Req(u, v)] /\ fate[id] = "asked"
                                  THEN "declined" ELSE fate[id]]
        BY DEF TapDecline
    <2>3. ASSUME NEW id \in Ids
          PROVE  fate'[id] = fate[id] \/ (fate[id] = "asked" /\ fate'[id] = "declined")
        <3>1. fate'[id] = IF id = session[u][Req(u, v)] /\ fate[id] = "asked"
                          THEN "declined" ELSE fate[id]
            BY <2>2
        <3> QED BY <3>1
    <2> QED BY <2>1, <2>3
<1>2. Accepted' = Accepted
    BY <1>1 DEF Accepted, Consented
<1>3. FreshUnminted'
    BY <1>1 DEF FreshUnminted
<1> QED BY <1>1, <1>2, <1>3 DEF HistoryStep, Undisturbed

LEMMA TakeBackHistory ==
    ASSUME Inv, FreshUnminted, NEW u \in Users, NEW v \in Others(u),
           TapUnsend(u, v) \/ TapToggled(u, v)
    PROVE  FreshUnminted' /\ HistoryStep
<1>1. TakeBack(u, v) /\ UNCHANGED db
    BY DEF TapUnsend, TapToggled, Put
<1>2. /\ asker' = asker /\ Accepted' = Accepted
      /\ \A id \in Ids : fate'[id] = "fresh" <=> fate[id] = "fresh"
    BY <1>1, TakenBack
<1> QED BY <1>1, <1>2 DEF FreshUnminted, HistoryStep, Undisturbed

LEMMA TapAddHistory ==
    ASSUME Inv, FreshUnminted, NEW u \in Users, NEW v \in Others(u), TapAdd(u, v)
    PROVE  FreshUnminted' /\ HistoryStep
<1>1. PICK id \in Ids :
        /\ asker[id] = Nil
        /\ Put(u, <<addPending(u, v, id)>>)
        /\ asker' = [asker EXCEPT ![id] = <<u, v>>]
        /\ fate' = [fate EXCEPT ![id] = "asked"]
    BY DEF TapAdd
<1>2. fate[id] = "fresh" /\ fate'[id] = "asked" /\ asker'[id] # Nil
    BY <1>1, UserPairs, InvParts DEF FreshUnminted, SessionTypeOK
<1>3. \A other \in Ids \ {id} : asker'[other] = asker[other] /\ fate'[other] = fate[other]
    BY <1>1, InvParts DEF SessionTypeOK
<1>4. Accepted' = Accepted
    BY <1>2, <1>3 DEF Accepted, Consented
<1>5. FreshUnminted'
    BY <1>2, <1>3 DEF FreshUnminted
<1>6. Minted(id, <<u, v>>)
    BY <1>1, <1>4 DEF Minted, Put
<1> QED BY <1>5, <1>6, UserPairs DEF HistoryStep

LEMMA StepHistory ==
    ASSUME Inv, Right, FreshUnminted, [Next]_vars
    PROVE  FreshUnminted' /\ HistoryStep
<1>1. CASE UNCHANGED vars
    BY <1>1, SameHistoryFresh DEF vars, firebaseVars, sessionVars, historyVars, HistoryStep
<1>2. CASE Next
    <2>1. PICK u \in Users : UserStep(u) \/ SystemStep(u) \/ WorldStep(u)
        BY <1>2 DEF Next
    <2>2. CASE TapDeleteSelf(u)
        BY <2>2, SameHistoryFresh DEF TapDeleteSelf, ProcessGone, EndProcess, HistoryStep
    <2>3. ASSUME NEW v \in Others(u),
                 \/ TapDelete(u, v) \/ TapUnsend(u, v)
                 \/ TapAccept(u, v) \/ TapDecline(u, v)
                 \/ TapAdd(u, v) \/ TapToggled(u, v)
          PROVE  FreshUnminted' /\ HistoryStep
        BY <2>3, TapDeleteHistory, TapAcceptHistory, TapDeclineHistory, TakeBackHistory,
           TapAddHistory
    <2>4. ASSUME NEW v \in Others(u), TapBeforeSession(u, v) \/ Redraw(u, v)
          PROVE  FreshUnminted' /\ HistoryStep
        BY <2>4, SameHistoryFresh DEF TapBeforeSession, Redraw, firebaseVars, HistoryStep
    <2>5. CASE SystemStep(u)
        BY <2>5, SameHistoryFresh DEF SystemStep, Apply, Handle, Receive, DeliverEvent, Reconnect,
           Connect, sessionVars, historyVars, HistoryStep
    <2>6. CASE WorldStep(u)
        BY <2>6, SameHistoryFresh DEF WorldStep, Drop, LoseConnection, Kill, ProcessGone,
           EndProcess, Launch, Observe, HistoryStep
    <2> QED BY <2>1, <2>2, <2>3, <2>4, <2>5, <2>6 DEF UserStep, WorldStep
<1> QED BY <1>1, <1>2

-----------------------------------------------------------------------------
(* The cells of the ledger in a tree whose halves agree. *)

AskIn(t) == [p \in Pairs |-> Both(t[Pend(p[1], p[2])], t[Req(p[2], p[1])])]

BondIn(t) == [c \in Couples |-> Both(t[Rel(PairOf(c)[1], PairOf(c)[2])], t[Rel(PairOf(c)[2], PairOf(c)[1])])]

RoomsIn(t) == [id \in Ids |-> t[Room(id)]]

LEMMA CellsOf ==
    ASSUME NEW t \in Trees, Mirrored(t), NEW p \in Pairs
    PROVE  /\ AskIn(t)[p] = t[Pend(p[1], p[2])]
           /\ {p[1], p[2]} \in Couples
           /\ BondIn(t)[{p[1], p[2]}] = t[Rel(p[1], p[2])]
<1>1. /\ Pend(p[1], p[2]) \in DOMAIN t /\ Rel(p[1], p[2]) \in DOMAIN t
    BY PairFacts, PairPaths, UserPathsArePaths DEF Trees
<1>2. t[Pend(p[1], p[2])] = t[Req(p[2], p[1])]
    BY <1>1 DEF Mirrored, Same
<1>3. {p[1], p[2]} \in Couples
    BY DEF Couples
<1> DEFINE q == PairOf({p[1], p[2]})
<1>4. q \in Pairs /\ {q[1], q[2]} = {p[1], p[2]}
    BY DEF PairOf
<1>5. q = p \/ q = <<p[2], p[1]>>
    <2> HIDE DEF q
    <2>1. q = <<q[1], q[2]>> /\ p = <<p[1], p[2]>> /\ q[1] # q[2]
        BY <1>4, PairFacts
    <2>2. \/ q[1] = p[1] /\ q[2] = p[2]
          \/ q[1] = p[2] /\ q[2] = p[1]
        BY <1>4, <2>1
    <2> QED BY <2>1, <2>2
<1>6. t[Rel(p[1], p[2])] = t[Rel(p[2], p[1])]
    BY <1>1 DEF Mirrored, Same
<1>7. BondIn(t)[{p[1], p[2]}] = Both(t[Rel(q[1], q[2])], t[Rel(q[2], q[1])])
    BY <1>3 DEF BondIn
<1>8. BondIn(t)[{p[1], p[2]}] = t[Rel(p[1], p[2])]
    <2> HIDE DEF q
    <2> QED BY <1>5, <1>6, <1>7 DEF Both
<1> QED BY <1>2, <1>3, <1>8 DEF AskIn, Both

(* An update of the tree is one step of the ledger's cells. *)
LEMMA LaidPair ==
    ASSUME NEW t \in Trees, NEW update, NEW p \in Pairs
    PROVE  /\ Lay(t, update)[Pend(p[1], p[2])] =
                IF Pend(p[1], p[2]) \in DOMAIN update
                THEN update[Pend(p[1], p[2])] ELSE t[Pend(p[1], p[2])]
           /\ Lay(t, update)[Rel(p[1], p[2])] =
                IF Rel(p[1], p[2]) \in DOMAIN update
                THEN update[Rel(p[1], p[2])] ELSE t[Rel(p[1], p[2])]
<1>1. Pend(p[1], p[2]) \in DOMAIN t /\ Rel(p[1], p[2]) \in DOMAIN t
    BY PairFacts, PairPaths, UserPathsArePaths DEF Trees
<1> QED BY <1>1, LayPoint

LEMMA LaidRoom ==
    ASSUME NEW t \in Trees, NEW update, NEW id \in Ids
    PROVE  RoomsIn(Lay(t, update))[id] =
                IF Room(id) \in DOMAIN update THEN update[Room(id)] ELSE RoomsIn(t)[id]
<1>1. Room(id) \in DOMAIN t
    BY RoomPaths DEF Trees
<1> QED BY <1>1, LayPoint DEF RoomsIn

(* The ledger's cells from the leaves of the asker's side. *)
LEMMA AsksAre ==
    ASSUME NEW t \in Trees, Mirrored(t), NEW asks,
           DOMAIN asks = Pairs, asks = [p \in Pairs |-> asks[p]],
           \A p \in Pairs : t[Pend(p[1], p[2])] = asks[p]
    PROVE  AskIn(t) = asks
<1>1. \A p \in Pairs : AskIn(t)[p] = asks[p]
    BY CellsOf
<1>2. AskIn(t) = [p \in Pairs |-> AskIn(t)[p]]
    BY DEF AskIn
<1> QED BY <1>1, <1>2

LEMMA BondsAre ==
    ASSUME NEW t \in Trees, Mirrored(t), NEW bonds,
           DOMAIN bonds = Couples, bonds = [c \in Couples |-> bonds[c]],
           \A p \in Pairs : t[Rel(p[1], p[2])] = bonds[{p[1], p[2]}]
    PROVE  BondIn(t) = bonds
<1>1. ASSUME NEW c \in Couples
      PROVE  BondIn(t)[c] = bonds[c]
    <2>1. PICK p \in Pairs : c = {p[1], p[2]}
        BY DEF Couples
    <2> QED BY <2>1, CellsOf
<1>2. BondIn(t) = [c \in Couples |-> BondIn(t)[c]]
    BY DEF BondIn
<1> QED BY <1>1, <1>2

LEMMA SameBonds ==
    ASSUME NEW t \in Trees, Mirrored(t), NEW other \in Trees, Mirrored(other),
           \A p \in Pairs : other[Rel(p[1], p[2])] = t[Rel(p[1], p[2])]
    PROVE  BondIn(other) = BondIn(t)
<1>1. ASSUME NEW c \in Couples
      PROVE  BondIn(other)[c] = BondIn(t)[c]
    <2>1. PICK p \in Pairs : c = {p[1], p[2]}
        BY DEF Couples
    <2> QED BY <2>1, CellsOf
<1> QED BY <1>1 DEF BondIn

LEMMA CellShapes ==
    ASSUME NEW t \in Trees, Mirrored(t)
    PROVE  /\ DOMAIN AskIn(t) = Pairs /\ AskIn(t) = [p \in Pairs |-> AskIn(t)[p]]
           /\ \A p \in Pairs : AskIn(t)[p] = t[Pend(p[1], p[2])]
           /\ DOMAIN BondIn(t) = Couples /\ BondIn(t) = [c \in Couples |-> BondIn(t)[c]]
           /\ \A p \in Pairs : BondIn(t)[{p[1], p[2]}] = t[Rel(p[1], p[2])]
           /\ DOMAIN RoomsIn(t) = Ids /\ RoomsIn(t) = [id \in Ids |-> RoomsIn(t)[id]]
BY CellsOf DEF AskIn, BondIn, RoomsIn

LEMMA SamePair ==
    ASSUME NEW p \in Pairs, NEW q \in Pairs
    PROVE  /\ Pend(p[1], p[2]) = Pend(q[1], q[2]) <=> p = q
           /\ Rel(p[1], p[2]) \in {Rel(q[1], q[2]), Rel(q[2], q[1])}
                <=> {p[1], p[2]} = {q[1], q[2]}
<1>1. p = <<p[1], p[2]>> /\ q = <<q[1], q[2]>> /\ p[1] # p[2] /\ q[1] # q[2]
    BY PairFacts
<1>2. Pend(p[1], p[2]) = Pend(q[1], q[2]) <=> p[1] = q[1] /\ p[2] = q[2]
    BY DEF Pend
<1>3. Rel(p[1], p[2]) \in {Rel(q[1], q[2]), Rel(q[2], q[1])} <=>
        (p[1] = q[1] /\ p[2] = q[2]) \/ (p[1] = q[2] /\ p[2] = q[1])
    BY DEF Rel
<1>4. {p[1], p[2]} = {q[1], q[2]} <=>
        (p[1] = q[1] /\ p[2] = q[2]) \/ (p[1] = q[2] /\ p[2] = q[1])
    BY <1>1
<1> QED BY <1>1, <1>2, <1>3, <1>4

LEMMA AskCells ==
    ASSUME NEW t \in Trees, Mirrored(t), NEW q \in Pairs, NEW x \in Ids \cup {Nil},
           NEW update, Mirrored(Lay(t, update)), Lay(t, update) \in Trees,
           DOMAIN update = {Pend(q[1], q[2]), Req(q[2], q[1])},
           \A path \in DOMAIN update : update[path] = x
    PROVE  /\ AskIn(Lay(t, update)) = [AskIn(t) EXCEPT ![q] = x]
           /\ BondIn(Lay(t, update)) = BondIn(t)
           /\ RoomsIn(Lay(t, update)) = RoomsIn(t)
<1> DEFINE new == Lay(t, update)
           asks == [AskIn(t) EXCEPT ![q] = x]
<1>1. \A p \in Pairs : new[Pend(p[1], p[2])] = asks[p]
    <2> SUFFICES ASSUME NEW p \in Pairs PROVE new[Pend(p[1], p[2])] = asks[p]
        OBVIOUS
    <2>1. Pend(p[1], p[2]) \in DOMAIN update <=> p = q
        <3>1. Pend(p[1], p[2]) # Req(q[2], q[1])
            BY DEF Pend, Req
        <3> QED BY <3>1, SamePair
    <2>2. asks[p] = IF p = q THEN x ELSE t[Pend(p[1], p[2])]
        BY CellShapes
    <2> QED BY <2>1, <2>2, LaidPair
<1>2. \A p \in Pairs : new[Rel(p[1], p[2])] = t[Rel(p[1], p[2])]
    <2> SUFFICES ASSUME NEW p \in Pairs PROVE new[Rel(p[1], p[2])] = t[Rel(p[1], p[2])]
        OBVIOUS
    <2>1. Rel(p[1], p[2]) \notin DOMAIN update
        BY DEF Rel, Pend, Req
    <2> QED BY <2>1, LaidPair
<1>3. RoomsIn(new) = RoomsIn(t)
    <2>1. \A id \in Ids : Room(id) \notin DOMAIN update
        BY DEF Room, Pend, Req
    <2>2. \A id \in Ids : RoomsIn(new)[id] = RoomsIn(t)[id]
        BY <2>1, LaidRoom
    <2> QED BY <2>2 DEF RoomsIn
<1>4. DOMAIN asks = Pairs /\ asks = [p \in Pairs |-> asks[p]]
    BY CellShapes
<1>5. new \in Trees /\ Mirrored(new)
    OBVIOUS
<1> HIDE DEF new, asks
<1>6. AskIn(new) = asks
    BY <1>1, <1>4, <1>5, AsksAre
<1>7. BondIn(new) = BondIn(t)
    BY <1>2, <1>5, SameBonds
<1> QED BY <1>3, <1>6, <1>7 DEF new, asks

LEMMA BondCells ==
    ASSUME NEW t \in Trees, Mirrored(t), NEW q \in Pairs, NEW id \in Ids,
           NEW x \in Ids \cup {Nil}, NEW room,
           NEW update, Mirrored(Lay(t, update)), Lay(t, update) \in Trees,
           DOMAIN update = {Rel(q[1], q[2]), Rel(q[2], q[1]), Room(id)},
           update[Rel(q[1], q[2])] = x, update[Rel(q[2], q[1])] = x, update[Room(id)] = room
    PROVE  /\ AskIn(Lay(t, update)) = AskIn(t)
           /\ BondIn(Lay(t, update)) = [BondIn(t) EXCEPT ![{q[1], q[2]}] = x]
           /\ RoomsIn(Lay(t, update)) = [RoomsIn(t) EXCEPT ![id] = room]
<1> DEFINE new == Lay(t, update)
           asks == AskIn(t)
           bonds == [BondIn(t) EXCEPT ![{q[1], q[2]}] = x]
<1>1. \A p \in Pairs : new[Pend(p[1], p[2])] = asks[p]
    <2> SUFFICES ASSUME NEW p \in Pairs PROVE new[Pend(p[1], p[2])] = asks[p]
        OBVIOUS
    <2>1. Pend(p[1], p[2]) \notin DOMAIN update
        BY DEF Rel, Pend, Room
    <2> QED BY <2>1, LaidPair, CellShapes
<1>2. \A p \in Pairs : new[Rel(p[1], p[2])] = bonds[{p[1], p[2]}]
    <2> SUFFICES ASSUME NEW p \in Pairs PROVE new[Rel(p[1], p[2])] = bonds[{p[1], p[2]}]
        OBVIOUS
    <2>1. Rel(p[1], p[2]) # Room(id)
        BY DEF Rel, Room
    <2>2. Rel(p[1], p[2]) \in DOMAIN update <=> {p[1], p[2]} = {q[1], q[2]}
        BY <2>1, SamePair
    <2>3. Rel(p[1], p[2]) \in DOMAIN update => update[Rel(p[1], p[2])] = x
        BY <2>1
    <2>4. bonds[{p[1], p[2]}] = IF {p[1], p[2]} = {q[1], q[2]} THEN x ELSE t[Rel(p[1], p[2])]
        BY CellShapes, CellsOf
    <2> QED BY <2>2, <2>3, <2>4, LaidPair
<1>3. RoomsIn(new) = [RoomsIn(t) EXCEPT ![id] = room]
    <2>1. \A other \in Ids : Room(other) \in DOMAIN update <=> other = id
        BY RoomPaths DEF Room, Rel
    <2>2. \A other \in Ids : RoomsIn(new)[other] = IF other = id THEN room ELSE RoomsIn(t)[other]
        BY <2>1, LaidRoom
    <2> QED BY <2>2 DEF RoomsIn
<1>4. DOMAIN bonds = Couples /\ bonds = [c \in Couples |-> bonds[c]]
    BY CellShapes
<1>5. DOMAIN asks = Pairs /\ asks = [p \in Pairs |-> asks[p]]
    BY CellShapes
<1>6. new \in Trees /\ Mirrored(new)
    OBVIOUS
<1> HIDE DEF new, asks, bonds
<1>7. AskIn(new) = asks
    BY <1>1, <1>5, <1>6, AsksAre
<1>8. BondIn(new) = bonds
    BY <1>2, <1>4, <1>6, BondsAre
<1> QED BY <1>3, <1>7, <1>8 DEF new, asks, bonds

-----------------------------------------------------------------------------
(* The server's step is a step of the ledger. *)

LEMMA LedgerSets ==
    /\ Ledger!AskPairs = Pairs
    /\ Ledger!Couples = Couples
    /\ \A p : Ledger!Couple(p) = {p[1], p[2]}
BY DEF Ledger!AskPairs, Ledger!Couples, Ledger!Couple, Pairs, Couples

(* A cleared slot, in the terms of the tree. *)
LEMMA SlotCleared ==
    ASSUME UNCHANGED asker, Accepted' = Accepted, NEW p, AskIn(db') = [AskIn(db) EXCEPT ![p] = Nil],
           BondIn(db') = BondIn(db), RoomsIn(db') = RoomsIn(db)
    PROVE  Ledger!Clear(p)
<1>1. asker' = asker /\ {id \in Ids : Consented(id)}' = {id \in Ids : Consented(id)}
    BY DEF Accepted
<1> QED BY <1>1 DEF Ledger!Clear, AskIn, BondIn, RoomsIn

LEMMA ServerApplyLedger ==
    ASSUME Inv, Right, Inv', Right', Undisturbed, NEW u \in Users, ServerApply(u)
    PROVE  Ledger!Next
<1> DEFINE update == writes[u][applied[u] + 1]
<1>1. db' = Lay(db, update) /\ db \in Trees /\ Lay(db, update) \in Trees
    BY DEF ServerApply, Inv, TypeOK, FirebaseTypeOK
<1>2. Mirrored(db) /\ Mirrored(Lay(db, update))
    BY <1>1 DEF Right, AllRight, ServerRight
<1>3. Rightful(asker, Accepted, update)
    <2>1. applied[u] + 1 \in DOMAIN writes[u]
        BY LenProperties DEF ServerApply, Inv, TypeOK, FirebaseTypeOK
    <2> QED BY <2>1 DEF Right, AllRight, ClientRight
<1> HIDE DEF update
<1>4. UNCHANGED asker /\ Accepted' = Accepted
    BY DEF Undisturbed
<1>5. ASSUME NEW p \in Pairs, NEW id \in Ids, asker[id] = p, update = addPending(p[1], p[2], id)
      PROVE  Ledger!Ask(id)
    <2>1. /\ DOMAIN update = {Pend(p[1], p[2]), Req(p[2], p[1])}
          /\ \A path \in DOMAIN update : update[path] = id
        BY <1>5 DEF addPending
    <2>2. /\ AskIn(db') = [AskIn(db) EXCEPT ![p] = id]
          /\ BondIn(db') = BondIn(db) /\ RoomsIn(db') = RoomsIn(db)
        BY <1>1, <1>2, <2>1, AskCells
    <2>3. asker[id] # Nil
        BY <1>5, PairFacts
    <2> QED BY <1>4, <1>5, <2>2, <2>3 DEF Ledger!Ask, AskIn, BondIn, RoomsIn, Accepted
<1>5a. ASSUME NEW q \in Pairs, DOMAIN update = {Pend(q[1], q[2]), Req(q[2], q[1])},
              \A path \in DOMAIN update : update[path] = Nil
       PROVE  Ledger!Clear(q)
    <2>1. Nil \in Ids \cup {Nil}
        OBVIOUS
    <2>2. /\ AskIn(Lay(db, update)) = [AskIn(db) EXCEPT ![q] = Nil]
          /\ BondIn(Lay(db, update)) = BondIn(db)
          /\ RoomsIn(Lay(db, update)) = RoomsIn(db)
        BY <1>1, <1>2, <1>5a, <2>1, AskCells
    <2>3. /\ AskIn(db') = [AskIn(db) EXCEPT ![q] = Nil]
          /\ BondIn(db') = BondIn(db) /\ RoomsIn(db') = RoomsIn(db)
        BY <1>1, <2>2, Zenon
    <2> QED BY <1>4, <2>3, SlotCleared
<1>6. ASSUME NEW p \in Pairs, update = removePending(p[1], p[2])
      PROVE  Ledger!Clear(p)
    <2>1. /\ DOMAIN update = {Pend(p[1], p[2]), Req(p[2], p[1])}
          /\ \A path \in DOMAIN update : update[path] = Nil
        BY <1>6 DEF removePending
    <2> QED BY <1>5a, <2>1
<1>7. ASSUME NEW p \in Pairs, update = removeRequest(p[1], p[2])
      PROVE  Ledger!Clear(<<p[2], p[1]>>)
    <2> DEFINE q == <<p[2], p[1]>>
    <2>1. /\ q \in Pairs
          /\ DOMAIN update = {Pend(q[1], q[2]), Req(q[2], q[1])}
          /\ \A path \in DOMAIN update : update[path] = Nil
        BY <1>7, PairFacts DEF removeRequest
    <2> HIDE DEF q
    <2>2. Ledger!Clear(q)
        BY <1>5a, <2>1
    <2> QED BY <2>2 DEF q
<1>8. ASSUME NEW p \in Pairs, NEW id \in Ids, id \in Accepted, asker[id] \in {p, <<p[2], p[1]>>},
             update = addRelationship(p[1], p[2], id)
      PROVE  Ledger!Bond(id)
    <2>1. /\ DOMAIN update = {Rel(p[1], p[2]), Rel(p[2], p[1]), Room(id)}
          /\ update[Rel(p[1], p[2])] = id /\ update[Rel(p[2], p[1])] = id
          /\ update[Room(id)] = {p[1], p[2]}
        BY <1>8 DEF addRelationship, Rel, Room
    <2>2. /\ AskIn(db') = AskIn(db)
          /\ BondIn(db') = [BondIn(db) EXCEPT ![{p[1], p[2]}] = id]
          /\ RoomsIn(db') = [RoomsIn(db) EXCEPT ![id] = {p[1], p[2]}]
        BY <1>1, <1>2, <2>1, BondCells
    <2>3. Ledger!Couple(asker[id]) = {p[1], p[2]}
        BY <1>8, LedgerSets
    <2> QED BY <1>4, <1>8, <2>2, <2>3 DEF Ledger!Bond, AskIn, BondIn, RoomsIn, Accepted
<1>9. ASSUME NEW p \in Pairs, NEW id \in Ids, asker[id] \in {p, <<p[2], p[1]>>},
             update = deleteRelationship(p[1], p[2], id)
      PROVE  Ledger!Part(id)
    <2>1. /\ DOMAIN update = {Rel(p[1], p[2]), Rel(p[2], p[1]), Room(id)}
          /\ update[Rel(p[1], p[2])] = Nil /\ update[Rel(p[2], p[1])] = Nil
          /\ update[Room(id)] = Nil
        BY <1>9 DEF deleteRelationship
    <2>2. /\ AskIn(db') = AskIn(db)
          /\ BondIn(db') = [BondIn(db) EXCEPT ![{p[1], p[2]}] = Nil]
          /\ RoomsIn(db') = [RoomsIn(db) EXCEPT ![id] = Nil]
        BY <1>1, <1>2, <2>1, BondCells
    <2>3. Ledger!Couple(asker[id]) = {p[1], p[2]} /\ asker[id] # Nil
        BY <1>9, LedgerSets, PairFacts
    <2> QED BY <1>4, <2>2, <2>3 DEF Ledger!Part, AskIn, BondIn, RoomsIn, Accepted
<1>10. \A p \in Pairs : p \in Ledger!AskPairs /\ <<p[2], p[1]>> \in Ledger!AskPairs
    BY LedgerSets, PairFacts
<1>11. CASE \E p \in Pairs : update \in {removePending(p[1], p[2]), removeRequest(p[1], p[2])}
    BY <1>6, <1>7, <1>10, <1>11 DEF Ledger!Next
<1>12. CASE \E p \in Pairs : \E id \in Ids :
                \/ asker[id] = p /\ update = addPending(p[1], p[2], id)
                \/ /\ id \in Accepted /\ asker[id] \in {p, <<p[2], p[1]>>}
                   /\ update \in {addRelationship(p[1], p[2], id),
                                   deleteRelationship(p[1], p[2], id)}
    BY <1>5, <1>8, <1>9, <1>12 DEF Ledger!Next
<1> QED BY <1>3, <1>11, <1>12 DEF Rightful

(* Minting an id is Issue, accepting one is Consent. *)
LEMMA StepLedger ==
    ASSUME Inv, Right, FreshUnminted, Inv', Right', [Next]_vars
    PROVE  Ledger!Next \/ UNCHANGED Ledger!ledgerVars
<1>1. HistoryStep
    BY StepHistory
<1>2. ASSUME NEW id \in Ids, NEW p \in Pairs, Minted(id, p)
      PROVE  Ledger!Issue(id, p) /\ p \in Ledger!AskPairs
    BY <1>2, LedgerSets DEF Minted, Ledger!Issue, Accepted
<1>3. ASSUME NEW id \in Ids, Agreed(id)
      PROVE  Ledger!Consent(id)
    BY <1>3 DEF Agreed, Ledger!Consent, Accepted
<1>4. ASSUME Undisturbed, UNCHANGED db
      PROVE  UNCHANGED Ledger!ledgerVars
    BY <1>4 DEF Undisturbed, Ledger!ledgerVars, Accepted
<1> QED BY <1>1, <1>2, <1>3, <1>4, ServerApplyLedger DEF HistoryStep, Ledger!Next

LEMMA InitLedger == Init => Ledger!Init
<1> SUFFICES ASSUME Init PROVE Ledger!Init
    OBVIOUS
<1>1. db = [p \in Paths |-> Nil] /\ asker = [id \in Ids |-> Nil] /\ fate = [id \in Ids |-> "fresh"]
    BY DEF Init, FirebaseInit
<1>2. {id \in Ids : Consented(id)} = {}
    BY <1>1 DEF Consented
<1>3. \A id \in Ids : db[Room(id)] = Nil
    BY <1>1, RoomPaths
<1>4. db \in Trees /\ Mirrored(db)
    BY InitInv, InitRight DEF Inv, TypeOK, FirebaseTypeOK, Right, AllRight, ServerRight
<1>5. \A p \in Pairs : db[Pend(p[1], p[2])] = Nil /\ db[Rel(p[1], p[2])] = Nil
    BY <1>1, PairFacts, PairPaths, UserPathsArePaths
<1>6. AskIn(db) = [p \in Pairs |-> Nil]
    <2> DEFINE asks == [p \in Pairs |-> Nil]
    <2>1. /\ DOMAIN asks = Pairs /\ asks = [p \in Pairs |-> asks[p]]
          /\ \A p \in Pairs : db[Pend(p[1], p[2])] = asks[p]
        BY <1>5
    <2> HIDE DEF asks
    <2>2. AskIn(db) = asks
        BY <1>4, <2>1, AsksAre
    <2> QED BY <2>2 DEF asks
<1>7. BondIn(db) = [c \in Couples |-> Nil]
    <2> DEFINE bonds == [c \in Couples |-> Nil]
    <2>1. \A p \in Pairs : db[Rel(p[1], p[2])] = bonds[{p[1], p[2]}]
        BY <1>5 DEF Couples
    <2> QED BY <1>4, <2>1, BondsAre
<1> QED BY <1>1, <1>2, <1>3, <1>6, <1>7, LedgerSets DEF Ledger!Init, AskIn, BondIn

(* The devices, the queues and the nodes written twice implement the       *)
(* ledger: every step of the system is one step of the ledger or none.     *)
THEOREM ImplementsLedger == Spec => LedgerSpec
<1>1. Inv /\ Right /\ FreshUnminted /\ Inv' /\ Right' /\ [Next]_vars
        => FreshUnminted' /\ [Ledger!Next]_(Ledger!ledgerVars)
    BY StepHistory, StepLedger
<1> QED BY <1>1, InitLedger, InitFresh, Invariance, RightAlways, PTL
        DEF Spec, LedgerSpec, Ledger!Spec

-----------------------------------------------------------------------------
(* An accepted request leads to a room.  While nothing has ended a         *)
(* process, the room of an id that was accepted once is there or a put     *)
(* that opens it waits to be applied, and no put that closes it is         *)
(* outstanding: only an accepted relationship can be deleted.              *)

Opens(update, id) == Room(id) \in DOMAIN update /\ update[Room(id)] # Nil

Closes(update, id) == Room(id) \in DOMAIN update /\ update[Room(id)] = Nil

OpensLater(u, id) == \E i \in DOMAIN writes[u] : i > applied[u] /\ Opens(writes[u][i], id)

Kept(id) ==
    /\ \A u \in Users : \A i \in DOMAIN writes[u] : ~Closes(writes[u][i], id)
    /\ db[Room(id)] # Nil \/ \E u \in Users : OpensLater(u, id)

RoomsKept == deaths = 0 => \A id \in Ids : fate[id] = "accepted" => Kept(id)

(* What the updates do to a room. *)
LEMMA WhoCloses ==
    ASSUME NEW a, NEW c, NEW update, Rightful(a, c, update), NEW id \in Ids, Closes(update, id)
    PROVE  id \in c
<1>1. ASSUME NEW p \in Pairs, NEW other \in Ids, other \in c,
             update = deleteRelationship(p[1], p[2], other)
      PROVE  id \in c
    BY <1>1 DEF Closes, deleteRelationship, Room, Rel
<1>2. ASSUME NEW p \in Pairs, NEW other \in Ids, update = addRelationship(p[1], p[2], other)
      PROVE  FALSE
    <2>1. Room(id) = Room(other)
        BY <1>2 DEF Closes, addRelationship, Room, Rel
    <2> QED BY <1>2, <2>1, NilAssumption, PairFacts DEF Closes, addRelationship, Couples
<1>3. ASSUME NEW p \in Pairs, NEW other \in Ids, update = addPending(p[1], p[2], other)
      PROVE  FALSE
    BY <1>3 DEF Closes, addPending, Room, Pend, Req
<1>4. ASSUME NEW p \in Pairs, update \in {removePending(p[1], p[2]), removeRequest(p[1], p[2])}
      PROVE  FALSE
    BY <1>4 DEF Closes, removePending, removeRequest, Room, Pend, Req
<1> QED BY <1>1, <1>2, <1>3, <1>4 DEF Rightful

LEMMA TapRooms ==
    ASSUME NEW u \in Users, NEW v \in Others(u), NEW id \in Ids
    PROVE  /\ Opens(addRelationship(u, v, id), id)
           /\ \A other \in Ids : ~Closes(addRelationship(u, v, id), other)
           /\ \A other \in Ids \ {id} : ~Closes(deleteRelationship(u, v, id), other)
           /\ \A other \in Ids :
                /\ ~Closes(addPending(u, v, id), other)
                /\ ~Closes(removePending(u, v), other)
                /\ ~Closes(removeRequest(u, v), other)
<1>1. {u, v} # Nil
    <2>1. <<u, v>> \in Pairs /\ <<u, v>>[1] = u /\ <<u, v>>[2] = v
        BY DEF Pairs, Others
    <2>2. {u, v} \in Couples
        BY <2>1 DEF Couples
    <2> QED BY <2>2, NilAssumption
<1>2. /\ Opens(addRelationship(u, v, id), id)
      /\ \A other \in Ids : ~Closes(addRelationship(u, v, id), other)
    BY <1>1 DEF Opens, Closes, addRelationship, Room, Rel
<1>3. \A other \in Ids \ {id} : ~Closes(deleteRelationship(u, v, id), other)
    BY DEF Closes, deleteRelationship, Room, Rel
<1>4. \A other \in Ids :
        /\ ~Closes(addPending(u, v, id), other)
        /\ ~Closes(removePending(u, v), other)
        /\ ~Closes(removeRequest(u, v), other)
    BY DEF Closes, addPending, removePending, removeRequest, Room, Pend, Req
<1> QED BY <1>2, <1>3, <1>4

-----------------------------------------------------------------------------
(* What the client and the server do to the room of one id. *)

LEMMA PutQueue ==
    ASSUME FirebaseInv, NEW u \in Users, NEW updates \in Seq(Updates), Put(u, updates)
    PROVE  /\ writes'[u] = writes[u] \o updates /\ UNCHANGED <<db, applied>>
           /\ \A w \in Users : w # u => writes'[w] = writes[w]
           /\ \A i \in DOMAIN writes[u] : i \in DOMAIN writes'[u] /\ writes'[u][i] = writes[u][i]
           /\ \A i \in DOMAIN updates :
                /\ Len(writes[u]) + i \in DOMAIN writes'[u]
                /\ writes'[u][Len(writes[u]) + i] = updates[i]
                /\ Len(writes[u]) + i > applied[u]
<1>1. /\ writes'[u] = writes[u] \o updates /\ UNCHANGED <<db, applied>>
      /\ \A w \in Users : w # u => writes'[w] = writes[w]
    BY DEF Put, FirebaseInv, FirebaseTypeOK
<1>2. /\ writes[u] \in Seq(Updates) /\ applied[u] \in Nat /\ applied[u] <= Len(writes[u])
    BY DEF FirebaseInv, FirebaseTypeOK
<1>3. /\ Len(writes[u]) \in Nat /\ Len(updates) \in Nat
      /\ DOMAIN writes[u] = 1..Len(writes[u]) /\ DOMAIN updates = 1..Len(updates)
      /\ DOMAIN (writes[u] \o updates) = 1..(Len(writes[u]) + Len(updates))
    BY <1>2, LenProperties, ConcatProperties
<1>4. \A i \in DOMAIN writes[u] : i \in DOMAIN writes'[u] /\ writes'[u][i] = writes[u][i]
    BY <1>1, <1>2, <1>3, ConcatProperties
<1>5. ASSUME NEW i \in DOMAIN updates
      PROVE  /\ Len(writes[u]) + i \in DOMAIN writes'[u]
             /\ writes'[u][Len(writes[u]) + i] = updates[i]
             /\ Len(writes[u]) + i > applied[u]
    <2>1. i \in 1..Len(updates)
        BY <1>3
    <2>2. (writes[u] \o updates)[Len(writes[u]) + i] = updates[(Len(writes[u]) + i) - Len(writes[u])]
        BY <1>2, <1>3, <2>1, ConcatProperties
    <2>3. (Len(writes[u]) + i) - Len(writes[u]) = i
        BY <1>3, <2>1
    <2> QED BY <1>1, <1>2, <1>3, <2>1, <2>2, <2>3
<1> QED BY <1>1, <1>4, <1>5

LEMMA PutKeeps ==
    ASSUME FirebaseInv, NEW id \in Ids, NEW u \in Users, NEW updates \in Seq(Updates),
           Put(u, updates), \A i \in DOMAIN updates : ~Closes(updates[i], id),
           \A w \in Users : \A i \in DOMAIN writes[w] : ~Closes(writes[w][i], id),
           \/ db[Room(id)] # Nil \/ \E w \in Users : OpensLater(w, id)
           \/ \E i \in DOMAIN updates : Opens(updates[i], id)
    PROVE  Kept(id)'
<1>1. ASSUME NEW w \in Users, NEW i \in DOMAIN writes'[w]
      PROVE  ~Closes(writes'[w][i], id)
    <2>1. CASE w = u
        <3>1. writes[u] \in Seq(Updates) /\ writes'[u] = writes[u] \o updates
            BY PutQueue DEF FirebaseInv, FirebaseTypeOK
        <3> QED BY <1>1, <2>1, <3>1, ConcatElements
    <2> QED BY <1>1, <2>1, PutQueue
<1>2. ASSUME NEW w \in Users, OpensLater(w, id)
      PROVE  OpensLater(w, id)'
    BY <1>2, PutQueue DEF OpensLater
<1>3. ASSUME NEW i \in DOMAIN updates, Opens(updates[i], id)
      PROVE  OpensLater(u, id)'
    BY <1>3, PutQueue DEF OpensLater
<1>4. db' = db
    BY PutQueue
<1> QED BY <1>1, <1>2, <1>3, <1>4 DEF Kept

LEMMA ServerApplyKeeps ==
    ASSUME FirebaseInv, NEW id \in Ids, Kept(id), NEW u \in Users, ServerApply(u)
    PROVE  Kept(id)'
<1> DEFINE n == applied[u] + 1
<1>1. /\ n \in DOMAIN writes[u] /\ n \in Nat /\ applied[u] \in Nat
      /\ db' = Lay(db, writes[u][n]) /\ Room(id) \in DOMAIN db
      /\ writes' = writes /\ applied'[u] = n
      /\ \A w \in Users : w # u => applied'[w] = applied[w]
    BY LenProperties, RoomPaths DEF ServerApply, FirebaseInv, FirebaseTypeOK, Trees
<1> HIDE DEF n
<1>2. ~Closes(writes[u][n], id)
    BY <1>1 DEF Kept
<1>3. CASE Opens(writes[u][n], id)
    <2>1. db'[Room(id)] # Nil
        BY <1>1, <1>3, LayPoint DEF Opens
    <2> QED BY <1>1, <2>1 DEF Kept
<1>4. CASE Room(id) \notin DOMAIN writes[u][n]
    <2>1. db'[Room(id)] = db[Room(id)]
        BY <1>1, <1>4, LayPoint
    <2>2. ASSUME NEW w \in Users, OpensLater(w, id)
          PROVE  OpensLater(w, id)'
        <3>1. PICK i \in DOMAIN writes[w] : i > applied[w] /\ Opens(writes[w][i], id)
            BY <2>2 DEF OpensLater
        <3>2. CASE w = u
            <4>1. i # n
                BY <1>4, <3>1, <3>2 DEF Opens
            <4>2. i \in Nat
                <5>1. writes[w] \in Seq(Updates)
                    BY DEF FirebaseInv, FirebaseTypeOK
                <5> QED BY <5>1, LenProperties
            <4>3. i > n
                BY <1>1, <3>1, <3>2, <4>1, <4>2 DEF n
            <4> QED BY <1>1, <3>1, <3>2, <4>3 DEF OpensLater
        <3>3. CASE w # u
            BY <1>1, <3>1, <3>3 DEF OpensLater
        <3> QED BY <3>2, <3>3
    <2> QED BY <1>1, <2>1, <2>2 DEF Kept
<1> QED BY <1>2, <1>3, <1>4 DEF Opens, Closes

LEMMA ReceiveKeeps ==
    ASSUME FirebaseInv, NEW id \in Ids, Kept(id), NEW u \in Users, Receive(u)
    PROVE  Kept(id)'
<1> DEFINE ack == Head(down[u]).ack
<1>1. /\ down[u] \in Seq(Messages(u)) /\ down[u] # <<>>
      /\ writes[u] \in Seq(Updates) /\ applied[u] \in Nat /\ applied[u] <= Len(writes[u])
      /\ db' = db
      /\ writes'[u] = IF ack THEN Tail(writes[u]) ELSE writes[u]
      /\ applied'[u] = IF ack THEN applied[u] - 1 ELSE applied[u]
      /\ \A w \in Users : w # u => writes'[w] = writes[w] /\ applied'[w] = applied[w]
    BY DEF Receive, FirebaseInv, FirebaseTypeOK
<1>2. CASE ~ack
    <2>1. \A w \in Users : writes'[w] = writes[w] /\ applied'[w] = applied[w]
        BY <1>1, <1>2
    <2> QED BY <1>1, <2>1 DEF Kept, OpensLater
<1>3. CASE ack
    <2>1. 1 \in AckIndices(down[u])
        <3>1. 1 \in DOMAIN down[u] /\ Head(down[u]) = down[u][1]
            BY <1>1, TailElements
        <3> QED BY <1>3, <3>1 DEF AckIndices
    <2>2. applied[u] # 0
        BY <1>1, <2>1, AckIndicesFinite, FS_EmptySet DEF FirebaseInv, AcksMatchPuts
    <2>3. writes[u] # <<>>
        BY <1>1, <2>2, EmptySeq
    <2>4. /\ writes'[u] = Tail(writes[u]) /\ applied'[u] = applied[u] - 1
          /\ Len(writes[u]) \in Nat \ {0} /\ DOMAIN writes[u] = 1..Len(writes[u])
          /\ DOMAIN Tail(writes[u]) = 1..(Len(writes[u]) - 1)
          /\ \A i \in 1..(Len(writes[u]) - 1) : Tail(writes[u])[i] = writes[u][i + 1]
        BY <1>1, <1>3, <2>3, EmptySeq, LenProperties, HeadTailProperties
    <2>5. \A i \in DOMAIN writes'[u] : ~Closes(writes'[u][i], id)
        BY <1>1, <2>3, <2>4, TailElements DEF Kept
    <2>6. ASSUME OpensLater(u, id)
          PROVE  OpensLater(u, id)'
        <3>1. PICK i \in DOMAIN writes[u] : i > applied[u] /\ Opens(writes[u][i], id)
            BY <2>6 DEF OpensLater
        <3>2. i - 1 \in 1..(Len(writes[u]) - 1) /\ i - 1 > applied[u] - 1 /\ (i - 1) + 1 = i
            BY <1>1, <2>2, <2>4, <3>1
        <3>3. writes'[u][i - 1] = writes[u][i] /\ i - 1 \in DOMAIN writes'[u]
            BY <2>4, <3>2
        <3> QED BY <2>4, <3>1, <3>2, <3>3 DEF OpensLater
    <2>7. ASSUME NEW w \in Users, OpensLater(w, id)
          PROVE  OpensLater(w, id)'
        BY <1>1, <2>6, <2>7 DEF OpensLater
    <2>8. \A w \in Users : \A i \in DOMAIN writes'[w] : ~Closes(writes'[w][i], id)
        BY <1>1, <2>5 DEF Kept
    <2> QED BY <1>1, <2>7, <2>8 DEF Kept
<1> QED BY <1>2, <1>3

LEMMA LinkKeeps ==
    ASSUME FirebaseInv, NEW id \in Ids, Kept(id), NEW u \in Users,
           LoseConnection(u) \/ Connect(u) \/ Observe(u)
    PROVE  Kept(id)'
<1>1. /\ UNCHANGED <<db, writes>>
      /\ \A w \in Users : applied'[w] = applied[w] \/ applied'[w] = 0
    BY DEF LoseConnection, Connect, Observe, FirebaseInv, FirebaseTypeOK
<1>2. ASSUME NEW w \in Users, OpensLater(w, id)
      PROVE  OpensLater(w, id)'
    <2>1. writes[w] \in Seq(Updates) /\ applied[w] \in Nat
        BY DEF FirebaseInv, FirebaseTypeOK
    <2>2. PICK i \in DOMAIN writes[w] : i > applied[w] /\ Opens(writes[w][i], id)
        BY <1>2 DEF OpensLater
    <2>3. i > applied'[w]
        BY <1>1, <2>1, <2>2, LenProperties
    <2> QED BY <1>1, <2>2, <2>3 DEF OpensLater
<1> QED BY <1>1, <1>2 DEF Kept

-----------------------------------------------------------------------------
(* The steps of the devices. *)

(* A tap whose put closes no room of an accepted request. *)
LEMMA TapKeepsRooms ==
    ASSUME Inv, RoomsKept, deaths' = deaths, NEW u \in Users,
           NEW updates \in Seq(Updates), Put(u, updates),
           \A id \in Ids : fate'[id] = "accepted" =>
                fate[id] = "accepted" /\ \A i \in DOMAIN updates : ~Closes(updates[i], id)
    PROVE  RoomsKept'
<1> SUFFICES ASSUME deaths' = 0, NEW id \in Ids, fate'[id] = "accepted"
             PROVE  Kept(id)'
    BY DEF RoomsKept
<1>1. Kept(id) /\ \A i \in DOMAIN updates : ~Closes(updates[i], id)
    BY DEF RoomsKept
<1> QED BY <1>1, PutKeeps, InvParts DEF Kept

LEMMA OneUpdate ==
    ASSUME NEW update \in Updates
    PROVE  <<update>> \in Seq(Updates) /\ \A i \in DOMAIN <<update>> : <<update>>[i] = update
OBVIOUS

LEMMA TapDeleteKeepsRooms ==
    ASSUME Inv, Right, RoomsKept, NEW u \in Users, NEW v \in Others(u), TapDelete(u, v),
           deaths' = deaths
    PROVE  RoomsKept'
<1> DEFINE id == session[u][Rel(u, v)]
           update == deleteRelationship(u, v, id)
<1>1. id # Nil
    BY InvParts DEF TapDelete, ProcessGone, SessionTypeOK
<1>2. session[u] \in UserTrees(u)
    BY InvParts DEF TapDelete, SessionTypeOK
<1>3. id \in Ids
    BY <1>1, <1>2, PairPaths DEF UserTrees
<1>4. Put(u, <<update>>) /\ fate' = [fate EXCEPT ![id] = AfterDelete(@)]
    BY <1>1 DEF TapDelete
<1>5. update \in Updates
    BY <1>3, TapUpdates
<1> HIDE DEF id
<1>6. \A other \in Ids \ {id} : ~Closes(update, other)
    BY <1>3, TapRooms
<1>7. ASSUME NEW other \in Ids, fate'[other] = "accepted"
      PROVE  other # id /\ fate[other] = "accepted"
    BY <1>3, <1>4, <1>7, InvParts DEF SessionTypeOK, AfterDelete
<1> HIDE DEF update
<1> DEFINE updates == <<update>>
<1>8. updates \in Seq(Updates) /\ \A i \in DOMAIN updates : updates[i] = update
    BY <1>5, OneUpdate
<1>9. \A other \in Ids : fate'[other] = "accepted" =>
          fate[other] = "accepted" /\ \A i \in DOMAIN updates : ~Closes(updates[i], other)
    BY <1>6, <1>7, <1>8
<1>10. Put(u, updates)
    BY <1>4
<1> HIDE DEF updates
<1> QED BY <1>8, <1>9, <1>10, TapKeepsRooms

LEMMA TapAcceptKeepsRooms ==
    ASSUME Inv, Right, RoomsKept, NEW u \in Users, NEW v \in Others(u), TapAccept(u, v),
           deaths' = deaths
    PROVE  RoomsKept'
<1> DEFINE id  == session[u][Req(u, v)]
           one == removeRequest(u, v)
           two == addRelationship(u, v, id)
           updates == <<one, two>>
<1>1. id # Nil
    BY InvParts DEF TapAccept, ProcessGone, SessionTypeOK
<1>2. session[u] \in UserTrees(u)
    BY InvParts DEF TapAccept, SessionTypeOK
<1>3. id \in Ids
    BY <1>1, <1>2, PairPaths DEF UserTrees
<1>4. Put(u, updates) /\ fate' = [fate EXCEPT ![id] = AfterAccept(@)]
    BY <1>1 DEF TapAccept
<1>5. one \in Updates /\ two \in Updates
    BY <1>3, TapUpdates, RemovalUpdates
<1> HIDE DEF id
<1>6. Opens(two, id) /\ \A other \in Ids : ~Closes(one, other) /\ ~Closes(two, other)
    BY <1>3, TapRooms
<1> HIDE DEF one, two
<1>7. /\ updates \in Seq(Updates) /\ 2 \in DOMAIN updates /\ updates[2] = two
      /\ \A i \in DOMAIN updates : updates[i] = one \/ updates[i] = two
    BY <1>5
<1> HIDE DEF updates
<1> SUFFICES ASSUME deaths' = 0, NEW other \in Ids, fate'[other] = "accepted"
             PROVE  Kept(other)'
    BY DEF RoomsKept
<1>8. \A i \in DOMAIN updates : ~Closes(updates[i], other)
    BY <1>6, <1>7
<1>9. CASE fate[other] = "accepted"
    <2>1. Kept(other)
        BY <1>9 DEF RoomsKept
    <2> QED BY <1>4, <1>7, <1>8, <2>1, PutKeeps, InvParts DEF Kept
<1>10. CASE fate[other] # "accepted"
    <2>1. other = id /\ other \notin Accepted
        BY <1>3, <1>4, <1>10, InvParts DEF SessionTypeOK, AfterAccept, Accepted, Consented
    <2>2. \A w \in Users : \A i \in DOMAIN writes[w] : ~Closes(writes[w][i], other)
        BY <2>1, WhoCloses DEF Right, AllRight, ClientRight
    <2>3. \E i \in DOMAIN updates : Opens(updates[i], other)
        BY <1>6, <1>7, <2>1
    <2> QED BY <1>4, <1>7, <1>8, <2>2, <2>3, PutKeeps, InvParts
<1> QED BY <1>9, <1>10

LEMMA TapAddKeepsRooms ==
    ASSUME Inv, RoomsKept, NEW u \in Users, NEW v \in Others(u), TapAdd(u, v)
    PROVE  RoomsKept'
<1>1. PICK id \in Ids :
        /\ Put(u, <<addPending(u, v, id)>>)
        /\ fate' = [fate EXCEPT ![id] = "asked"]
    BY DEF TapAdd
<1> DEFINE update == addPending(u, v, id)
<1>2. update \in Updates /\ \A other \in Ids : ~Closes(update, other)
    BY TapUpdates, TapRooms
<1> HIDE DEF update
<1>3. \A other \in Ids : fate'[other] = "accepted" => fate[other] = "accepted"
    BY <1>1, InvParts DEF SessionTypeOK
<1>4. Put(u, <<update>>) /\ deaths' = deaths
    BY <1>1 DEF TapAdd, update
<1> QED BY <1>2, <1>3, <1>4, OneUpdate, TapKeepsRooms

LEMMA RemovalKeepsRooms ==
    ASSUME Inv, RoomsKept, NEW u \in Users, NEW v \in Others(u), deaths' = deaths,
           NEW update \in {removePending(u, v), removeRequest(u, v)}, Put(u, <<update>>),
           \A id \in Ids : fate'[id] = "accepted" => fate[id] = "accepted"
    PROVE  RoomsKept'
<1>1. update \in Updates /\ \A id \in Ids : ~Closes(update, id)
    BY RemovalUpdates, TapRooms
<1> QED BY <1>1, OneUpdate, TapKeepsRooms

LEMMA StillKeepsRooms ==
    ASSUME RoomsKept, UNCHANGED <<db, writes, applied, fate, deaths>>
    PROVE  RoomsKept'
BY DEF RoomsKept, Kept, OpensLater

LEMMA WireKeepsRooms ==
    ASSUME Inv, RoomsKept, NEW u \in Users, UNCHANGED <<fate, deaths>>,
           \/ ServerApply(u) \/ Receive(u)
           \/ LoseConnection(u) \/ Connect(u) \/ Observe(u)
    PROVE  RoomsKept'
<1> SUFFICES ASSUME deaths = 0, NEW id \in Ids, fate[id] = "accepted"
             PROVE  Kept(id)'
    BY DEF RoomsKept
<1>1. Kept(id)
    BY DEF RoomsKept
<1> QED BY <1>1, InvParts, ServerApplyKeeps, ReceiveKeeps, LinkKeeps

(* A process that ends is counted. *)
LEMMA DeathsOnlyRise == Next => deaths' \in {deaths, deaths + 1}
<1> SUFFICES ASSUME Next PROVE deaths' \in {deaths, deaths + 1}
    OBVIOUS
<1>1. PICK u \in Users : UserStep(u) \/ SystemStep(u) \/ WorldStep(u)
    BY DEF Next
<1>2. ASSUME NEW v \in Others(u),
             \/ TapDelete(u, v) \/ TapUnsend(u, v)
             \/ TapAccept(u, v) \/ TapDecline(u, v)
      PROVE  deaths' \in {deaths, deaths + 1}
    BY <1>2 DEF TapDelete, TapUnsend, TapAccept, TapDecline, ProcessGone
<1>3. ASSUME NEW v \in Others(u),
             \/ TapAdd(u, v) \/ TapToggled(u, v) \/ TapBeforeSession(u, v)
             \/ Redraw(u, v)
      PROVE  deaths' \in {deaths, deaths + 1}
    BY <1>3 DEF TapAdd, TapToggled, TapBeforeSession, Redraw
<1>4. CASE TapDeleteSelf(u) \/ SystemStep(u)
    BY <1>4 DEF TapDeleteSelf, ProcessGone, SystemStep, Apply, Handle, DeliverEvent, Reconnect,
       sessionVars
<1>5. CASE WorldStep(u)
    BY <1>5 DEF WorldStep, Drop, Kill, Launch, ProcessGone
<1> QED BY <1>1, <1>2, <1>3, <1>4, <1>5 DEF UserStep

LEMMA StepKeepsRooms == Inv /\ Right /\ RoomsKept /\ [Next]_vars => RoomsKept'
<1> SUFFICES ASSUME Inv, Right, RoomsKept, [Next]_vars PROVE RoomsKept'
    OBVIOUS
<1>1. CASE UNCHANGED vars
    BY <1>1, StillKeepsRooms DEF vars, firebaseVars, sessionVars, historyVars
<1>2. CASE deaths' # deaths /\ Next
    <2>1. deaths' = deaths + 1 /\ deaths \in Nat
        BY <1>2, DeathsOnlyRise, InvParts DEF SessionTypeOK
    <2> QED BY <2>1 DEF RoomsKept
<1>3. CASE deaths' = deaths /\ Next
    <2>1. PICK u \in Users : UserStep(u) \/ SystemStep(u) \/ WorldStep(u)
        BY <1>3 DEF Next
    <2>2. deaths \in Nat
        BY InvParts DEF SessionTypeOK
    <2>3. ASSUME NEW v \in Others(u), TapDelete(u, v) \/ TapAccept(u, v) \/ TapAdd(u, v)
          PROVE  RoomsKept'
        BY <1>3, <2>3, TapDeleteKeepsRooms, TapAcceptKeepsRooms, TapAddKeepsRooms
    <2>4. ASSUME NEW v \in Others(u), TapUnsend(u, v) \/ TapToggled(u, v)
          PROVE  RoomsKept'
        <3>1. TakeBack(u, v) /\ Put(u, <<removePending(u, v)>>)
            BY <2>4 DEF TapUnsend, TapToggled
        <3>2. \A id \in Ids : fate'[id] = "accepted" => fate[id] = "accepted"
            BY <3>1, TakenBack
        <3> QED BY <1>3, <3>1, <3>2, RemovalKeepsRooms
    <2>5. ASSUME NEW v \in Others(u), TapDecline(u, v)
          PROVE  RoomsKept'
        <3>1. \A id \in Ids : fate'[id] = "accepted" => fate[id] = "accepted"
            BY <2>5 DEF TapDecline
        <3> QED BY <1>3, <2>5, <3>1, RemovalKeepsRooms DEF TapDecline
    <2>6. ASSUME NEW v \in Others(u), TapBeforeSession(u, v) \/ Redraw(u, v)
          PROVE  RoomsKept'
        BY <2>6, StillKeepsRooms DEF TapBeforeSession, Redraw, firebaseVars, historyVars
    <2>7. CASE SystemStep(u)
        <3>1. CASE Apply(u) \/ Handle(u) \/ Reconnect(u)
            BY <3>1, WireKeepsRooms DEF Apply, Handle, Reconnect, sessionVars
        <3>2. CASE DeliverEvent(u)
            BY <3>2, StillKeepsRooms DEF DeliverEvent, historyVars
        <3> QED BY <2>7, <3>1, <3>2 DEF SystemStep
    <2>8. CASE Drop(u) \/ Launch(u)
        BY <2>8, WireKeepsRooms DEF Drop, Launch, historyVars
    <2>9. ~TapDeleteSelf(u) /\ ~Kill(u)
        BY <1>3, <2>2 DEF TapDeleteSelf, Kill, ProcessGone
    <2> QED BY <2>1, <2>3, <2>4, <2>5, <2>6, <2>7, <2>8, <2>9 DEF UserStep, WorldStep
<1> QED BY <1>1, <1>2, <1>3

LEMMA InitKeepsRooms == Init => RoomsKept
BY DEF Init, RoomsKept

(* As long as no process ends, a request that was accepted once has its    *)
(* room when every put has been applied, whatever connections were lost    *)
(* and whatever was sent twice on the way.                                 *)
THEOREM AcceptedRequestsGetRooms == Spec => []AcceptedGetsRoom
<1>1. RoomsKept => AcceptedGetsRoom
    <2> SUFFICES ASSUME RoomsKept, deaths = 0, NothingOutstanding,
                        NEW id \in Ids, fate[id] = "accepted"
                 PROVE  db[Room(id)] # Nil
        BY DEF AcceptedGetsRoom
    <2>1. ASSUME NEW u \in Users
          PROVE  ~OpensLater(u, id)
        <3>1. writes[u] = <<>>
            BY DEF NothingOutstanding
        <3> QED BY <3>1 DEF OpensLater
    <2> QED BY <2>1 DEF RoomsKept, Kept
<1> QED BY <1>1, InitKeepsRooms, StepKeepsRooms, Invariance, RightAlways, PTL DEF Spec

-----------------------------------------------------------------------------
(* While no connection is lost, a put is applied once.  The put that       *)
(* stores a request, and the put that stores an accepted relationship,     *)
(* are still to be applied only as long as the other user has not seen     *)
(* what they store: that is why an answer, and a delete by the asker, come *)
(* after them.  An id that was accepted twice (fate "again") has two puts  *)
(* of its relationship, and only its request is in order.                  *)

Unapplied(u) == {i \in DOMAIN writes[u] : i > applied[u]}

Sets(update, path, x) == path \in DOMAIN update /\ update[path] = x

OnScreen(path, x, reader) == session[reader] # NoSession /\ session[reader][path] = x

Behind(path, x, reader) ==
    /\ db[path] # x /\ cache[reader][path] # x
    /\ \A i \in DOMAIN events[reader] : events[reader][i][path] # x
    /\ \A i \in DOMAIN down[reader] : ~Sets(down[reader][i].data, path, x)

(* The owner has at most one put to come that sets the path, nobody else   *)
(* has any, and the reader sees nothing of it before it is applied.        *)
Once(path, x, owner, reader) ==
    /\ \A w \in Users : \A i \in DOMAIN writes[w] : Sets(writes[w][i], path, x) => w = owner
    /\ \A i \in Unapplied(owner) : Sets(writes[owner][i], path, x) =>
        /\ \A j \in Unapplied(owner) : Sets(writes[owner][j], path, x) => j = i
        /\ Behind(path, x, reader) /\ ~OnScreen(path, x, reader)

Answered(u, v, id) ==
    /\ \A i \in Unapplied(u) : ~Sets(writes[u][i], Req(v, u), id)
    /\ db[Req(v, u)] = id => \E i \in Unapplied(v) : Sets(writes[v][i], Req(v, u), Nil)

Parted(id) ==
    /\ \A w \in Users : \A i \in Unapplied(w) : Opens(writes[w][i], id) =>
        \E j \in Unapplied(w) : j > i /\ Closes(writes[w][j], id)
    /\ db[Room(id)] # Nil => \E w \in Users : \E i \in Unapplied(w) : Closes(writes[w][i], id)

InOrder(p, id) ==
    /\ Once(Req(p[2], p[1]), id, p[1], p[2])
    /\ fate[id] # "again" => Once(Rel(p[1], p[2]), id, p[2], p[1])
    /\ fate[id] \notin {"fresh", "asked", "unsent"} => Answered(p[1], p[2], id)
    /\ fate[id] = "parted" => Parted(id)

Orderly ==
    deaths = 0 /\ drops = 0 => \A p \in Pairs : \A id \in Ids : asker[id] = p => InOrder(p, id)

-----------------------------------------------------------------------------
(* The puts still to be applied. *)

LEMMA QueueFacts ==
    ASSUME FirebaseInv, NEW w \in Users
    PROVE  /\ writes[w] \in Seq(Updates) /\ applied[w] \in Nat /\ Len(writes[w]) \in Nat
           /\ applied[w] <= Len(writes[w]) /\ DOMAIN writes[w] = 1..Len(writes[w])
           /\ \A i : i \in Unapplied(w) <=>
                i \in Nat /\ applied[w] < i /\ i <= Len(writes[w])
<1>1. /\ writes[w] \in Seq(Updates) /\ applied[w] \in Nat /\ applied[w] <= Len(writes[w])
    BY DEF FirebaseInv, FirebaseTypeOK
<1>2. DOMAIN writes[w] = 1..Len(writes[w]) /\ Len(writes[w]) \in Nat
    BY <1>1, LenProperties
<1> QED BY <1>1, <1>2 DEF Unapplied

(* A put is added at the end of the queue, still to be applied. *)
LEMMA PutUnapplied ==
    ASSUME FirebaseInv, NEW u \in Users, NEW updates \in Seq(Updates), Put(u, updates)
    PROVE  /\ \A w \in Users : \A i \in Unapplied(w) : i \in Unapplied(w)' /\ writes'[w][i] = writes[w][i]
           /\ \A w \in Users : \A i \in Unapplied(w)' :
                \/ i \in Unapplied(w) /\ writes'[w][i] = writes[w][i]
                \/ /\ w = u
                   /\ \E k \in DOMAIN updates :
                        i = Len(writes[u]) + k /\ writes'[w][i] = updates[k]
           /\ \A k \in DOMAIN updates :
                /\ Len(writes[u]) + k \in Unapplied(u)'
                /\ writes'[u][Len(writes[u]) + k] = updates[k]
                /\ \A i \in Unapplied(u) : Len(writes[u]) + k > i
<1>1. /\ applied' = applied
      /\ \A w \in Users : w # u => writes'[w] = writes[w]
      /\ \A i \in DOMAIN writes[u] : i \in DOMAIN writes'[u] /\ writes'[u][i] = writes[u][i]
      /\ \A k \in DOMAIN updates :
            /\ Len(writes[u]) + k \in DOMAIN writes'[u]
            /\ writes'[u][Len(writes[u]) + k] = updates[k]
            /\ Len(writes[u]) + k > applied[u]
    BY PutQueue
<1>2. /\ DOMAIN writes[u] = 1..Len(writes[u]) /\ Len(writes[u]) \in Nat
      /\ DOMAIN updates = 1..Len(updates) /\ Len(updates) \in Nat
      /\ DOMAIN writes'[u] = 1..(Len(writes[u]) + Len(updates))
    <2>1. writes'[u] = writes[u] \o updates /\ writes[u] \in Seq(Updates)
        BY PutQueue, QueueFacts
    <2> QED BY <2>1, LenProperties, ConcatProperties
<1>3. ASSUME NEW w \in Users, NEW i \in Unapplied(w)
      PROVE  i \in Unapplied(w)' /\ writes'[w][i] = writes[w][i]
    BY <1>1, <1>3 DEF Unapplied
<1>4. ASSUME NEW w \in Users, NEW i \in Unapplied(w)'
      PROVE  \/ i \in Unapplied(w) /\ writes'[w][i] = writes[w][i]
             \/ /\ w = u
                /\ \E k \in DOMAIN updates :
                    i = Len(writes[u]) + k /\ writes'[w][i] = updates[k]
    <2>1. i \in DOMAIN writes'[w] /\ i > applied[w]
        BY <1>1, <1>4 DEF Unapplied
    <2>2. CASE w # u \/ i \in DOMAIN writes[w]
        BY <1>1, <2>1, <2>2 DEF Unapplied
    <2>3. CASE w = u /\ i \notin DOMAIN writes[u]
        <3>1. i - Len(writes[u]) \in DOMAIN updates /\ i = Len(writes[u]) + (i - Len(writes[u]))
            BY <1>2, <2>1, <2>3
        <3> QED BY <1>1, <2>3, <3>1
    <2> QED BY <2>2, <2>3
<1>5. ASSUME NEW k \in DOMAIN updates
      PROVE  /\ Len(writes[u]) + k \in Unapplied(u)'
             /\ writes'[u][Len(writes[u]) + k] = updates[k]
             /\ \A i \in Unapplied(u) : Len(writes[u]) + k > i
    BY <1>1, <1>2, <1>5 DEF Unapplied
<1> QED BY <1>3, <1>4, <1>5

(* Other steps keep the puts to come, in their order, and take at most the *)
(* oldest put away.                                                        *)
Shifted(w, s) ==
    /\ \A i \in DOMAIN writes'[w] :
        /\ i \in Nat /\ i + s \in DOMAIN writes[w] /\ writes'[w][i] = writes[w][i + s]
        /\ i \in Unapplied(w)' <=> i + s \in Unapplied(w)
    /\ \A i \in DOMAIN writes[w] : i > s =>
        i - s \in DOMAIN writes'[w] /\ writes'[w][i - s] = writes[w][i]
    /\ \A i \in Unapplied(w) : i - s \in Unapplied(w)' /\ writes'[w][i - s] = writes[w][i]

SameQueues == \A w \in Users : Shifted(w, 0) \/ Shifted(w, 1)

LEMMA StillShifted ==
    ASSUME FirebaseInv, NEW w \in Users, writes'[w] = writes[w], applied'[w] = applied[w]
    PROVE  Shifted(w, 0)
<1>1. \A i \in DOMAIN writes[w] : i \in Nat /\ i + 0 = i /\ i - 0 = i
    BY QueueFacts
<1> QED BY <1>1 DEF Shifted, Unapplied

LEMMA ReceiveQueues ==
    ASSUME FirebaseInv, NEW u \in Users, Receive(u)
    PROVE  SameQueues
<1> DEFINE ack == Head(down[u]).ack
<1>1. /\ down[u] \in Seq(Messages(u)) /\ down[u] # <<>>
      /\ writes'[u] = IF ack THEN Tail(writes[u]) ELSE writes[u]
      /\ applied'[u] = IF ack THEN applied[u] - 1 ELSE applied[u]
      /\ \A w \in Users : w # u => writes'[w] = writes[w] /\ applied'[w] = applied[w]
    BY DEF Receive, FirebaseInv, FirebaseTypeOK
<1>2. \A w \in Users : w # u \/ ~ack => Shifted(w, 0)
    BY <1>1, StillShifted
<1>3. ASSUME ack PROVE Shifted(u, 1)
    <2>1. 1 \in AckIndices(down[u])
        <3>1. 1 \in DOMAIN down[u] /\ Head(down[u]) = down[u][1]
            BY <1>1, TailElements
        <3> QED BY <1>3, <3>1 DEF AckIndices
    <2>2. applied[u] # 0
        BY <1>1, <2>1, AckIndicesFinite, FS_EmptySet DEF FirebaseInv, AcksMatchPuts
    <2>3. writes[u] # <<>> /\ writes[u] \in Seq(Updates)
        BY <2>2, QueueFacts, EmptySeq
    <2>4. /\ writes'[u] = Tail(writes[u]) /\ applied'[u] = applied[u] - 1
          /\ DOMAIN writes'[u] = 1..(Len(writes[u]) - 1)
          /\ \A i \in 1..(Len(writes[u]) - 1) : writes'[u][i] = writes[u][i + 1]
        BY <1>1, <1>3, <2>3, EmptySeq, LenProperties, HeadTailProperties
    <2>5. /\ DOMAIN writes[u] = 1..Len(writes[u]) /\ Len(writes[u]) \in Nat
          /\ applied[u] \in Nat /\ applied[u] <= Len(writes[u])
        BY QueueFacts
    <2>6. ASSUME NEW i \in DOMAIN writes'[u]
          PROVE  /\ i \in Nat /\ i + 1 \in DOMAIN writes[u]
                 /\ writes'[u][i] = writes[u][i + 1]
                 /\ i \in Unapplied(u)' <=> i + 1 \in Unapplied(u)
        BY <2>4, <2>5, <2>6 DEF Unapplied
    <2>7. ASSUME NEW i \in Unapplied(u)
          PROVE  i - 1 \in Unapplied(u)' /\ writes'[u][i - 1] = writes[u][i]
        <3>1. i \in 1..Len(writes[u]) /\ i > applied[u]
            BY <2>5, <2>7 DEF Unapplied
        <3>2. i - 1 \in 1..(Len(writes[u]) - 1) /\ i - 1 > applied[u] - 1 /\ (i - 1) + 1 = i
            BY <2>2, <2>5, <3>1
        <3>3. writes'[u][i - 1] = writes[u][(i - 1) + 1]
            BY <2>4, <3>2
        <3> QED BY <2>4, <3>2, <3>3 DEF Unapplied
    <2>8. ASSUME NEW i \in DOMAIN writes[u], i > 1
          PROVE  i - 1 \in DOMAIN writes'[u] /\ writes'[u][i - 1] = writes[u][i]
        <3>1. i - 1 \in 1..(Len(writes[u]) - 1) /\ (i - 1) + 1 = i
            BY <2>5, <2>8
        <3>2. writes'[u][i - 1] = writes[u][(i - 1) + 1]
            BY <2>4, <3>1
        <3> QED BY <2>4, <3>1, <3>2
    <2> QED BY <2>6, <2>7, <2>8 DEF Shifted
<1> QED BY <1>2, <1>3 DEF SameQueues

LEMMA QueuesOnce ==
    ASSUME FirebaseInv, NEW path, NEW x, NEW owner \in Users, NEW reader \in Users,
           Once(path, x, owner, reader), SameQueues,
           Behind(path, x, reader) /\ ~OnScreen(path, x, reader)
                => Behind(path, x, reader)' /\ ~OnScreen(path, x, reader)'
    PROVE  Once(path, x, owner, reader)'
<1>1. ASSUME NEW w \in Users, NEW i \in DOMAIN writes'[w], Sets(writes'[w][i], path, x)
      PROVE  w = owner
    <2>1. PICK s \in {0, 1} : Shifted(w, s)
        BY DEF SameQueues
    <2> QED BY <1>1, <2>1 DEF Shifted, Once
<1>2. ASSUME NEW i \in Unapplied(owner)', Sets(writes'[owner][i], path, x)
      PROVE  /\ \A j \in Unapplied(owner)' : Sets(writes'[owner][j], path, x) => j = i
             /\ Behind(path, x, reader)' /\ ~OnScreen(path, x, reader)'
    <2>1. PICK s \in {0, 1} : Shifted(owner, s)
        BY DEF SameQueues
    <2>2. \A j \in Unapplied(owner)' :
            j \in Nat /\ j + s \in Unapplied(owner) /\ writes'[owner][j] = writes[owner][j + s]
        BY <2>1 DEF Shifted, Unapplied
    <2>3. /\ Sets(writes[owner][i + s], path, x)
          /\ \A j \in Unapplied(owner)' : Sets(writes'[owner][j], path, x) => j + s = i + s
        BY <1>2, <2>2 DEF Once
    <2>4. Behind(path, x, reader) /\ ~OnScreen(path, x, reader)
        BY <1>2, <2>2, <2>3 DEF Once
    <2> QED BY <1>2, <2>2, <2>3, <2>4
<1> QED BY <1>1, <1>2 DEF Once

LEMMA QueuesAnswered ==
    ASSUME NEW u \in Users, NEW v \in Users, NEW id \in Ids, Answered(u, v, id),
           SameQueues, UNCHANGED db
    PROVE  Answered(u, v, id)'
<1>1. \A i \in Unapplied(u)' : ~Sets(writes'[u][i], Req(v, u), id)
    <2>1. PICK s \in {0, 1} : Shifted(u, s)
        BY DEF SameQueues
    <2>2. \A i \in Unapplied(u)' : i + s \in Unapplied(u) /\ writes'[u][i] = writes[u][i + s]
        BY <2>1 DEF Shifted, Unapplied
    <2> QED BY <2>2 DEF Answered
<1>2. ASSUME NEW i \in Unapplied(v), Sets(writes[v][i], Req(v, u), Nil)
      PROVE  \E j \in Unapplied(v)' : Sets(writes'[v][j], Req(v, u), Nil)
    <2>1. PICK s \in {0, 1} : Shifted(v, s)
        BY DEF SameQueues
    <2>2. i - s \in Unapplied(v)' /\ writes'[v][i - s] = writes[v][i]
        BY <2>1 DEF Shifted
    <2> QED BY <1>2, <2>2
<1> QED BY <1>1, <1>2 DEF Answered

LEMMA QueuesParted ==
    ASSUME FirebaseInv, NEW id \in Ids, Parted(id), SameQueues, UNCHANGED db
    PROVE  Parted(id)'
<1>1. ASSUME NEW w \in Users, NEW j \in Unapplied(w), NEW s \in {0, 1}, Shifted(w, s)
      PROVE  j - s \in Unapplied(w)' /\ writes'[w][j - s] = writes[w][j]
    BY <1>1 DEF Shifted
<1>2. ASSUME NEW w \in Users, NEW i \in Unapplied(w)', Opens(writes'[w][i], id)
      PROVE  \E j \in Unapplied(w)' : j > i /\ Closes(writes'[w][j], id)
    <2>1. PICK s \in {0, 1} : Shifted(w, s)
        BY DEF SameQueues
    <2>2. i \in Nat /\ i + s \in Unapplied(w) /\ writes'[w][i] = writes[w][i + s]
        BY <2>1 DEF Shifted, Unapplied
    <2>3. PICK j \in Unapplied(w) : j > i + s /\ Closes(writes[w][j], id)
        BY <1>2, <2>2 DEF Parted
    <2>4. j - s > i
        BY <2>2, <2>3, QueueFacts
    <2> QED BY <1>1, <2>1, <2>3, <2>4
<1>3. ASSUME NEW w \in Users, NEW j \in Unapplied(w), Closes(writes[w][j], id)
      PROVE  \E i \in Unapplied(w)' : Closes(writes'[w][i], id)
    <2>1. PICK s \in {0, 1} : Shifted(w, s)
        BY DEF SameQueues
    <2> QED BY <1>1, <1>3, <2>1
<1> QED BY <1>2, <1>3 DEF Parted

-----------------------------------------------------------------------------
(* What lies behind the screen. *)

LEMMA LaidHides ==
    ASSUME NEW tree, NEW path \in DOMAIN tree, NEW x, tree[path] # x
    PROVE  /\ \A update : ~Sets(update, path, x) => Lay(tree, update)[path] # x
           /\ \A puts : (\A i \in DOMAIN puts : ~Sets(puts[i], path, x)) => LayAll(tree, puts)[path] # x
BY LayPoint, LayAllPoint DEF Sets

LEMMA PutBehind ==
    ASSUME FirebaseInv, NEW reader \in Users, NEW path \in UserPaths(reader), NEW x,
           Behind(path, x, reader),
           \A i \in DOMAIN writes[reader] : ~Sets(writes[reader][i], path, x),
           NEW u \in Users, NEW updates \in Seq(Updates), Len(updates) \in {1, 2}, Put(u, updates),
           u = reader => \A i \in DOMAIN updates : ~Sets(updates[i], path, x)
    PROVE  Behind(path, x, reader)'
<1>1. UNCHANGED <<db, cache, down>> /\ (events' # events => events'[u] = events[u] \o LocalEvents(u, updates))
      /\ \A w \in Users : w # u => events'[w] = events[w]
    BY DEF Put, FirebaseInv, FirebaseTypeOK
<1>2. CASE u # reader \/ events' = events
    BY <1>1, <1>2 DEF Behind
<1>3. CASE u = reader /\ events' # events
    <2> DEFINE once  == Lay(View(u), updates[1])
               twice == IF Len(updates) = 2 THEN Lay(once, updates[2]) ELSE once
    <2>1. View(u)[path] # x /\ View(u) \in UserTrees(u)
        <3>1. cache[u] \in UserTrees(u) /\ cache[u][path] # x
            BY <1>3 DEF Behind, FirebaseInv, FirebaseTypeOK
        <3> QED BY <1>3, <3>1, LaidHides, ViewType DEF View, UserTrees, FirebaseInv
    <2>2. 1 \in DOMAIN updates /\ (Len(updates) = 2 => 2 \in DOMAIN updates)
        BY LenProperties
    <2>3. updates[1] \in Updates /\ (Len(updates) = 2 => updates[2] \in Updates)
        BY <2>2
    <2>4. once[path] # x /\ once \in UserTrees(u)
        BY <1>3, <2>1, <2>2, <2>3, LaidHides, LaidUserTree DEF UserTrees
    <2>5. twice[path] # x /\ twice \in UserTrees(u)
        <3> HIDE DEF once
        <3>1. path \in DOMAIN once
            BY <1>3, <2>4 DEF UserTrees
        <3>2. CASE Len(updates) = 2
            <4>1. ~Sets(updates[2], path, x) /\ updates[2] \in Updates
                BY <1>3, <2>2, <2>3, <3>2
            <4>2. Lay(once, updates[2])[path] # x
                BY <2>4, <3>1, <4>1, LaidHides
            <4> QED BY <2>4, <3>2, <4>1, <4>2, LaidUserTree
        <3> QED BY <2>4, <3>2
    <2>6. LocalEvents(u, updates) = Raised(View(u), once) \o Raised(once, twice)
        BY DEF LocalEvents
    <2> HIDE DEF once, twice
    <2>7. /\ Raised(View(u), once) \in Seq(UserTrees(u))
          /\ Raised(once, twice) \in Seq(UserTrees(u))
          /\ \A i \in DOMAIN Raised(View(u), once) : Raised(View(u), once)[i][path] # x
          /\ \A i \in DOMAIN Raised(once, twice) : Raised(once, twice)[i][path] # x
        BY <2>4, <2>5 DEF Raised
    <2>8. LocalEvents(u, updates) \in Seq(UserTrees(u))
        BY <2>6, <2>7, ConcatProperties
    <2>9. \A i \in DOMAIN LocalEvents(u, updates) : LocalEvents(u, updates)[i][path] # x
        BY <2>6, <2>7, ConcatElements
    <2>10. events[u] \in Seq(UserTrees(u))
        BY DEF FirebaseInv, FirebaseTypeOK
    <2>11. \A i \in DOMAIN (events[u] \o LocalEvents(u, updates)) :
            (events[u] \o LocalEvents(u, updates))[i][path] # x
        BY <1>3, <2>8, <2>9, <2>10, ConcatElements DEF Behind
    <2> QED BY <1>1, <1>3, <2>11 DEF Behind
<1> QED BY <1>2, <1>3

LEMMA ReceiveBehind ==
    ASSUME FirebaseInv, NEW reader \in Users, NEW path \in UserPaths(reader), NEW x,
           Behind(path, x, reader),
           \A i \in DOMAIN writes[reader] : ~Sets(writes[reader][i], path, x),
           NEW u \in Users, Receive(u), FirebaseInv'
    PROVE  Behind(path, x, reader)'
<1>1. CASE u # reader
    <2>1. /\ db' = db /\ cache'[reader] = cache[reader]
          /\ events'[reader] = events[reader] /\ down'[reader] = down[reader]
        BY <1>1 DEF Receive, FirebaseInv, FirebaseTypeOK
    <2> QED BY <2>1 DEF Behind
<1>2. CASE u = reader
    <2> DEFINE m    == Head(down[u])
               tree == Lay(cache[u], m.data)
               left == IF m.ack THEN Tail(writes[u]) ELSE writes[u]
               view == LayAll(tree, left)
               new  == IF listen[u] = "none" THEN <<>>
                       ELSE IF listen[u] = "waiting" THEN <<view>>
                       ELSE Raised(View(u), view)
    <2>1. /\ cache'[u] = tree /\ events'[u] = events[u] \o new
          /\ down'[u] = Tail(down[u]) /\ db' = db
          /\ writes'[u] = left
        BY DEF Receive, FirebaseInv, FirebaseTypeOK
    <2>2. /\ down[u] \in Seq(Messages(u)) /\ down[u] # <<>>
          /\ cache[u] \in UserTrees(u) /\ events[u] \in Seq(UserTrees(u))
          /\ writes[u] \in Seq(Updates)
        BY DEF Receive, FirebaseInv, FirebaseTypeOK
    <2>3. 1 \in DOMAIN down[u] /\ m = down[u][1] /\ \A i \in DOMAIN Tail(down[u]) : \E j \in DOMAIN down[u] : Tail(down[u])[i] = down[u][j]
        BY <2>2, TailElements
    <2>4. ~Sets(m.data, path, x)
        BY <1>2, <2>3 DEF Behind
    <2>5. tree[path] # x /\ path \in DOMAIN tree
        <3>1. path \in DOMAIN cache[u] /\ cache[u][path] # x
            BY <1>2, <2>2 DEF Behind, UserTrees
        <3> HIDE DEF m
        <3> QED BY <2>4, <3>1, LaidHides, LayPoint
    <2>6. \A i \in DOMAIN left : ~Sets(left[i], path, x)
        <3>1. PICK s \in {0, 1} : Shifted(u, s)
            BY ReceiveQueues DEF SameQueues
        <3>2. \A i \in DOMAIN writes'[u] : ~Sets(writes'[u][i], path, x)
            BY <1>2, <3>1 DEF Shifted
        <3> QED BY <2>1, <3>2
    <2> HIDE DEF tree, left, m
    <2>7. view[path] # x
        BY <2>5, <2>6, LaidHides
    <2>8. view \in UserTrees(u)
        <3>1. cache'[u] \in UserTrees(u) /\ writes'[u] \in Seq(Updates)
            BY DEF FirebaseInv, FirebaseTypeOK
        <3> QED BY <2>1, <3>1, LaidAllUserTree
    <2> HIDE DEF view
    <2>9. new \in Seq(UserTrees(u)) /\ \A i \in DOMAIN new : new[i][path] # x
        BY <2>7, <2>8 DEF Raised
    <2> HIDE DEF new
    <2>10. \A i \in DOMAIN (events[u] \o new) : (events[u] \o new)[i][path] # x
        BY <1>2, <2>2, <2>9, ConcatElements DEF Behind
    <2>11. \A i \in DOMAIN Tail(down[u]) : ~Sets(Tail(down[u])[i].data, path, x)
        BY <1>2, <2>3 DEF Behind
    <2> QED BY <1>2, <2>1, <2>5, <2>10, <2>11 DEF Behind
<1> QED BY <1>1, <1>2

LEMMA ConnectBehind ==
    ASSUME FirebaseInv, NEW reader \in Users, NEW path \in UserPaths(reader), NEW x,
           Behind(path, x, reader), NEW u \in Users, Connect(u)
    PROVE  Behind(path, x, reader)'
<1>1. UNCHANGED <<db, cache, events>> /\ \A w \in Users : w # u => down'[w] = down[w]
    BY DEF Connect, FirebaseInv, FirebaseTypeOK
<1>2. \A i \in DOMAIN down'[u] : down'[u][i].data = Under(u, db)
    BY DEF Connect, FirebaseInv, FirebaseTypeOK
<1>3. ~Sets(Under(u, db), path, x)
    BY DEF Behind, Under, Sets
<1> QED BY <1>1, <1>2, <1>3 DEF Behind

-----------------------------------------------------------------------------
(* A put of the app. *)

LEMMA PutOnce ==
    ASSUME FirebaseInv, NEW reader \in Users, NEW path \in UserPaths(reader), NEW x,
           NEW owner \in Users, owner # reader, Once(path, x, owner, reader),
           NEW u \in Users, NEW updates \in Seq(Updates), Len(updates) \in {1, 2}, Put(u, updates),
           \A i \in DOMAIN updates : ~Sets(updates[i], path, x),
           OnScreen(path, x, reader)' => OnScreen(path, x, reader)
    PROVE  Once(path, x, owner, reader)'
<1>1. ASSUME NEW w \in Users, NEW i \in DOMAIN writes'[w], Sets(writes'[w][i], path, x)
      PROVE  w = owner
    <2>1. CASE w # u
        BY <1>1, <2>1, PutQueue DEF Once
    <2>2. CASE w = u
        <3>1. writes'[u] = writes[u] \o updates /\ writes[u] \in Seq(Updates)
            BY PutQueue, QueueFacts
        <3>2. \E j \in DOMAIN writes[u] : writes'[u][i] = writes[u][j]
            BY <1>1, <2>2, <3>1, ConcatElements
        <3> QED BY <1>1, <2>2, <3>2 DEF Once
    <2> QED BY <2>1, <2>2
<1>2. ASSUME NEW i \in Unapplied(owner)', Sets(writes'[owner][i], path, x)
      PROVE  /\ \A j \in Unapplied(owner)' : Sets(writes'[owner][j], path, x) => j = i
             /\ Behind(path, x, reader)' /\ ~OnScreen(path, x, reader)'
    <2>1. \A j \in Unapplied(owner)' : Sets(writes'[owner][j], path, x) =>
            j \in Unapplied(owner) /\ writes'[owner][j] = writes[owner][j]
        BY PutUnapplied
    <2>2. /\ \A j \in Unapplied(owner)' : Sets(writes'[owner][j], path, x) => j = i
          /\ Behind(path, x, reader) /\ ~OnScreen(path, x, reader)
        BY <1>2, <2>1 DEF Once
    <2>3. \A j \in DOMAIN writes[reader] : ~Sets(writes[reader][j], path, x)
        BY DEF Once
    <2>4. Behind(path, x, reader)'
        BY <2>2, <2>3, PutBehind
    <2> QED BY <2>2, <2>4
<1> QED BY <1>1, <1>2 DEF Once

(* The one put that sets the path, when nothing held the value before. *)
LEMMA PutFirst ==
    ASSUME FirebaseInv, NEW reader \in Users, NEW path \in UserPaths(reader), NEW x,
           NEW owner \in Users, owner # reader,
           \A w \in Users : \A i \in DOMAIN writes[w] : ~Sets(writes[w][i], path, x),
           Behind(path, x, reader), ~OnScreen(path, x, reader)',
           NEW updates \in Seq(Updates), Len(updates) \in {1, 2}, Put(owner, updates),
           NEW k \in DOMAIN updates, \A i \in DOMAIN updates : Sets(updates[i], path, x) => i = k
    PROVE  Once(path, x, owner, reader)'
<1>1. ASSUME NEW w \in Users, NEW i \in DOMAIN writes'[w], Sets(writes'[w][i], path, x)
      PROVE  w = owner
    BY <1>1, PutQueue
<1>2. \A i \in Unapplied(owner)' : Sets(writes'[owner][i], path, x) => i = Len(writes[owner]) + k
    <2>1. \A i \in Unapplied(owner) : ~Sets(writes[owner][i], path, x)
        BY DEF Unapplied
    <2> QED BY <2>1, PutUnapplied
<1>3. Behind(path, x, reader)'
    BY PutBehind
<1> QED BY <1>1, <1>2, <1>3 DEF Once

(* No put sets the path at all. *)
LEMMA PutNone ==
    ASSUME FirebaseInv, NEW path, NEW x, NEW owner \in Users, NEW reader \in Users,
           \A w \in Users : \A i \in DOMAIN writes[w] : ~Sets(writes[w][i], path, x),
           NEW u \in Users, NEW updates \in Seq(Updates), Put(u, updates),
           \A i \in DOMAIN updates : ~Sets(updates[i], path, x)
    PROVE  Once(path, x, owner, reader)'
<1>1. \A w \in Users : \A i \in DOMAIN writes'[w] : ~Sets(writes'[w][i], path, x)
    <2>1. writes'[u] = writes[u] \o updates /\ writes[u] \in Seq(Updates)
        BY PutQueue, QueueFacts
    <2>2. \A i \in DOMAIN writes'[u] : ~Sets(writes'[u][i], path, x)
        BY <2>1, ConcatElements
    <2> QED BY <2>2, PutQueue
<1> QED BY <1>1 DEF Once, Unapplied

LEMMA PutAnswered ==
    ASSUME FirebaseInv, NEW u \in Users, NEW v \in Users, NEW id \in Ids,
           \A i \in Unapplied(u) : ~Sets(writes[u][i], Req(v, u), id),
           NEW w \in Users, NEW updates \in Seq(Updates), Put(w, updates),
           \A i \in DOMAIN updates : ~Sets(updates[i], Req(v, u), id),
           \/ Answered(u, v, id)
           \/ w = v /\ \E i \in DOMAIN updates : Sets(updates[i], Req(v, u), Nil)
    PROVE  Answered(u, v, id)'
<1>1. \A i \in Unapplied(u)' : ~Sets(writes'[u][i], Req(v, u), id)
    BY PutUnapplied
<1>2. db' = db
    BY PutQueue
<1>3. ASSUME db[Req(v, u)] = id
      PROVE  \E i \in Unapplied(v)' : Sets(writes'[v][i], Req(v, u), Nil)
    BY <1>3, PutUnapplied DEF Answered
<1> QED BY <1>1, <1>2, <1>3 DEF Answered

LEMMA PutParted ==
    ASSUME FirebaseInv, NEW id \in Ids, Parted(id),
           NEW u \in Users, NEW updates \in Seq(Updates), Put(u, updates),
           \A i \in DOMAIN updates : ~Opens(updates[i], id)
    PROVE  Parted(id)'
<1>1. ASSUME NEW w \in Users, NEW i \in Unapplied(w)', Opens(writes'[w][i], id)
      PROVE  \E j \in Unapplied(w)' : j > i /\ Closes(writes'[w][j], id)
    <2>1. i \in Unapplied(w) /\ writes'[w][i] = writes[w][i]
        BY <1>1, PutUnapplied
    <2>2. PICK j \in Unapplied(w) : j > i /\ Closes(writes[w][j], id)
        BY <1>1, <2>1 DEF Parted
    <2> QED BY <2>2, PutUnapplied
<1>2. ASSUME NEW w \in Users, NEW i \in Unapplied(w), Closes(writes[w][i], id)
      PROVE  \E j \in Unapplied(w)' : Closes(writes'[w][j], id)
    BY <1>2, PutUnapplied
<1>3. db' = db
    BY PutQueue
<1> QED BY <1>1, <1>2, <1>3 DEF Parted

(* The put that closes the room, behind every put that opens it. *)
LEMMA PutParts ==
    ASSUME FirebaseInv, NEW id \in Ids, NEW u \in Users, NEW update \in Updates,
           Put(u, <<update>>), Closes(update, id),
           \A w \in Users : \A i \in Unapplied(w) : Opens(writes[w][i], id) => w = u
    PROVE  Parted(id)'
<1> DEFINE updates == <<update>>
<1>1. updates \in Seq(Updates) /\ DOMAIN updates = {1} /\ updates[1] = update
    OBVIOUS
<1>1a. Put(u, updates)
    OBVIOUS
<1> HIDE DEF updates
<1>2. PICK k : /\ k \in Unapplied(u)' /\ writes'[u][k] = update
               /\ \A i \in Unapplied(u) : k > i
    <2>1. /\ Len(writes[u]) + 1 \in Unapplied(u)'
          /\ writes'[u][Len(writes[u]) + 1] = updates[1]
          /\ \A i \in Unapplied(u) : Len(writes[u]) + 1 > i
        BY <1>1, <1>1a, PutUnapplied
    <2> QED BY <1>1, <2>1
<1>3. ASSUME NEW w \in Users, NEW i \in Unapplied(w)', Opens(writes'[w][i], id)
      PROVE  w = u /\ i \in Unapplied(u)
    <2>1. ~Opens(update, id)
        BY DEF Opens, Closes
    <2>2. \/ i \in Unapplied(w) /\ writes'[w][i] = writes[w][i]
          \/ \E n \in DOMAIN updates : writes'[w][i] = updates[n]
        BY <1>1, <1>1a, PutUnapplied
    <2>3. i \in Unapplied(w) /\ writes'[w][i] = writes[w][i]
        BY <1>1, <1>3, <2>1, <2>2
    <2> QED BY <1>3, <2>3
<1> QED BY <1>2, <1>3 DEF Parted

-----------------------------------------------------------------------------
(* The server applies a put. *)

LEMMA ApplyUnapplied ==
    ASSUME FirebaseInv, NEW u \in Users, ServerApply(u)
    PROVE  /\ writes' = writes /\ db' = Lay(db, writes[u][applied[u] + 1])
           /\ applied[u] + 1 \in Unapplied(u)
           /\ \A w \in Users : \A i : i \in Unapplied(w)' <=>
                i \in Unapplied(w) /\ (w = u => i # applied[u] + 1)
           /\ \A i \in Unapplied(u) : i # applied[u] + 1 => i > applied[u] + 1
<1>1. /\ writes' = writes /\ db' = Lay(db, writes[u][applied[u] + 1])
      /\ applied[u] < Len(writes[u])
      /\ applied'[u] = applied[u] + 1 /\ \A w \in Users : w # u => applied'[w] = applied[w]
    BY DEF ServerApply, FirebaseInv, FirebaseTypeOK
<1>2. applied[u] + 1 \in Unapplied(u)
    BY <1>1, QueueFacts
<1>3. \A i \in Unapplied(u) : i # applied[u] + 1 => i > applied[u] + 1
    BY QueueFacts
<1>4. \A i \in DOMAIN writes[u] : i > applied[u] + 1 <=> i > applied[u] /\ i # applied[u] + 1
    BY QueueFacts
<1>5. ASSUME NEW w \in Users, NEW i
      PROVE  i \in Unapplied(w)' <=> i \in Unapplied(w) /\ (w = u => i # applied[u] + 1)
    BY <1>1, <1>4 DEF Unapplied
<1> QED BY <1>1, <1>2, <1>3, <1>5

LEMMA ApplyBehind ==
    ASSUME FirebaseInv, NEW reader \in Users, NEW path \in UserPaths(reader), NEW x,
           Behind(path, x, reader), NEW u \in Users, ServerApply(u),
           ~Sets(writes[u][applied[u] + 1], path, x)
    PROVE  Behind(path, x, reader)'
<1> DEFINE update == writes[u][applied[u] + 1]
<1>1. /\ UNCHANGED <<cache, events>> /\ db' = Lay(db, update)
      /\ down'[reader] = down[reader] \o Push(u, reader, update)
      /\ path \in DOMAIN db /\ db[path] # x
    BY UserPathsArePaths DEF ServerApply, FirebaseInv, FirebaseTypeOK, Trees, Behind
<1>2. update \in Updates
    BY ApplyUnapplied, QueueFacts, ElementOfSeq DEF Unapplied
<1>3. ~Sets(update, path, x)
    OBVIOUS
<1> HIDE DEF update
<1>4. db'[path] # x
    BY <1>1, <1>3, LaidHides
<1>5. ~Sets(NoUpdate, path, x) /\ ~Sets(Under(reader, update), path, x)
    BY <1>3 DEF Sets, NoUpdate, Under
<1>6. \A i \in DOMAIN Push(u, reader, update) : ~Sets(Push(u, reader, update)[i].data, path, x)
    BY <1>5 DEF Push
<1>7. down[reader] \in Seq(Messages(reader)) /\ Push(u, reader, update) \in Seq(Messages(reader))
    BY <1>2, PushType DEF FirebaseInv, FirebaseTypeOK
<1>8. \A i \in DOMAIN down'[reader] : ~Sets(down'[reader][i].data, path, x)
    BY <1>1, <1>6, <1>7, ConcatElements DEF Behind
<1> QED BY <1>1, <1>4, <1>8 DEF Behind

LEMMA ApplyOnce ==
    ASSUME FirebaseInv, NEW reader \in Users, NEW path \in UserPaths(reader), NEW x,
           NEW owner \in Users, Once(path, x, owner, reader), UNCHANGED session,
           NEW u \in Users, ServerApply(u)
    PROVE  Once(path, x, owner, reader)'
<1> DEFINE n == applied[u] + 1
<1>1. \A w \in Users : \A i \in DOMAIN writes'[w] : Sets(writes'[w][i], path, x) => w = owner
    BY ApplyUnapplied DEF Once
<1>2. ASSUME NEW i \in Unapplied(owner)', Sets(writes'[owner][i], path, x)
      PROVE  /\ \A j \in Unapplied(owner)' : Sets(writes'[owner][j], path, x) => j = i
             /\ Behind(path, x, reader)' /\ ~OnScreen(path, x, reader)'
    <2>1. i \in Unapplied(owner) /\ writes' = writes /\ (owner = u => i # n)
        BY ApplyUnapplied
    <2>2. /\ \A j \in Unapplied(owner) : Sets(writes[owner][j], path, x) => j = i
          /\ Behind(path, x, reader) /\ ~OnScreen(path, x, reader)
        BY <1>2, <2>1 DEF Once
    <2>3. ~Sets(writes[u][n], path, x)
        <3>1. n \in Unapplied(u) /\ n \in DOMAIN writes[u]
            BY ApplyUnapplied DEF Unapplied
        <3> QED BY <2>1, <2>2, <3>1 DEF Once
    <2>4. Behind(path, x, reader)'
        BY <2>2, <2>3, ApplyBehind
    <2>5. \A j \in Unapplied(owner)' : j \in Unapplied(owner)
        BY ApplyUnapplied
    <2> QED BY <2>1, <2>2, <2>4, <2>5 DEF OnScreen
<1> QED BY <1>1, <1>2 DEF Once

LEMMA ApplyAnswered ==
    ASSUME FirebaseInv, NEW u \in Users, NEW v \in Others(u), NEW id \in Ids, Answered(u, v, id),
           \A w \in Users : \A i \in DOMAIN writes[w] : Sets(writes[w][i], Req(v, u), id) => w = u,
           NEW w \in Users, ServerApply(w)
    PROVE  Answered(u, v, id)'
<1> DEFINE n == applied[w] + 1
<1>1. \A i \in Unapplied(u)' : ~Sets(writes'[u][i], Req(v, u), id)
    BY ApplyUnapplied DEF Answered
<1>2. ASSUME db'[Req(v, u)] = id
      PROVE  \E i \in Unapplied(v)' : Sets(writes'[v][i], Req(v, u), Nil)
    <2>1. n \in Unapplied(w) /\ n \in DOMAIN writes[w] /\ db' = Lay(db, writes[w][n])
        BY ApplyUnapplied DEF Unapplied
    <2>2. ~Sets(writes[w][n], Req(v, u), id)
        BY <2>1 DEF Answered
    <2>3. Req(v, u) \in DOMAIN db
        BY PairPaths, UserPathsArePaths DEF Others, FirebaseInv, FirebaseTypeOK, Trees
    <2>4. db[Req(v, u)] = id /\ Req(v, u) \notin DOMAIN writes[w][n]
        BY <1>2, <2>1, <2>2, <2>3, LayPoint DEF Sets
    <2>5. PICK i \in Unapplied(v) : Sets(writes[v][i], Req(v, u), Nil)
        BY <2>4 DEF Answered
    <2>6. v = w => i # n
        BY <2>4, <2>5 DEF Sets
    <2>7. i \in Unapplied(v)' /\ writes'[v][i] = writes[v][i]
        BY <2>5, <2>6, ApplyUnapplied DEF Others
    <2> QED BY <2>5, <2>7
<1> QED BY <1>1, <1>2 DEF Answered

LEMMA ApplyParted ==
    ASSUME FirebaseInv, NEW id \in Ids, Parted(id), NEW u \in Users, ServerApply(u)
    PROVE  Parted(id)'
<1> DEFINE n == applied[u] + 1
<1>1. ASSUME NEW w \in Users, NEW i \in Unapplied(w), Opens(writes[w][i], id)
      PROVE  \E j \in Unapplied(w)' : j > i /\ Closes(writes'[w][j], id)
    <2>1. PICK j \in Unapplied(w) : j > i /\ Closes(writes[w][j], id)
        BY <1>1 DEF Parted
    <2>2. w = u => j # n
        BY <2>1, QueueFacts
    <2> QED BY <2>1, <2>2, ApplyUnapplied
<1>2. \A w \in Users : \A i \in Unapplied(w)' : Opens(writes'[w][i], id) =>
        \E j \in Unapplied(w)' : j > i /\ Closes(writes'[w][j], id)
    BY <1>1, ApplyUnapplied
<1>3. ASSUME db'[Room(id)] # Nil
      PROVE  \E w \in Users : \E i \in Unapplied(w)' : Closes(writes'[w][i], id)
    <2>1. n \in Unapplied(u) /\ db' = Lay(db, writes[u][n]) /\ Room(id) \in DOMAIN db
        BY ApplyUnapplied, RoomPaths DEF FirebaseInv, FirebaseTypeOK, Trees
    <2>2. CASE Opens(writes[u][n], id)
        BY <1>1, <2>1, <2>2
    <2>3. CASE ~Opens(writes[u][n], id)
        <3>1. Room(id) \notin DOMAIN writes[u][n] /\ db[Room(id)] # Nil
            BY <1>3, <2>1, <2>3, LayPoint DEF Opens
        <3>2. PICK w \in Users : \E i \in Unapplied(w) : Closes(writes[w][i], id)
            BY <3>1 DEF Parted
        <3>3. PICK i \in Unapplied(w) : Closes(writes[w][i], id)
            BY <3>2
        <3>4. w = u => i # n
            BY <3>1, <3>3 DEF Closes
        <3> QED BY <3>3, <3>4, ApplyUnapplied
    <2> QED BY <2>2, <2>3
<1> QED BY <1>2, <1>3 DEF Parted

-----------------------------------------------------------------------------
(* What the updates of a tap set, and what nothing holds yet. *)

LEMMA RemovalsSetNothing ==
    ASSUME NEW u \in Users, NEW v \in Others(u), NEW other \in Ids, NEW id \in Ids,
           NEW update \in {removePending(u, v), removeRequest(u, v), deleteRelationship(u, v, other)}
    PROVE  ~Opens(update, id) /\ \A path : ~Sets(update, path, id)
BY NilAssumption DEF Opens, Sets, removePending, removeRequest, deleteRelationship

LEMMA AddPendingSets ==
    ASSUME NEW u \in Users, NEW v \in Others(u), NEW other \in Ids, NEW id \in Ids, NEW p \in Pairs
    PROVE  /\ Sets(addPending(u, v, other), Req(p[2], p[1]), id) => id = other
           /\ ~Sets(addPending(u, v, other), Rel(p[1], p[2]), id)
           /\ ~Opens(addPending(u, v, other), id)
BY DEF Opens, Sets, addPending, Req, Rel, Pend, Room

LEMMA AddRelationshipSets ==
    ASSUME NEW u \in Users, NEW v \in Others(u), NEW other \in Ids, NEW id \in Ids, NEW p \in Pairs
    PROVE  /\ Sets(addRelationship(u, v, other), Rel(p[1], p[2]), id) => id = other
           /\ ~Sets(addRelationship(u, v, other), Req(p[2], p[1]), id)
           /\ Opens(addRelationship(u, v, other), id) => id = other
BY RoomPaths DEF Opens, Sets, addRelationship, Req, Rel, Room

LEMMA RequestRemoved ==
    ASSUME NEW u \in Users, NEW v \in Others(u)
    PROVE  Sets(removeRequest(u, v), Req(u, v), Nil)
BY DEF Sets, removeRequest

LEMMA DeleteCloses ==
    ASSUME NEW u \in Users, NEW v \in Others(u), NEW id \in Ids
    PROVE  Closes(deleteRelationship(u, v, id), id)
BY DEF Closes, deleteRelationship

(* Whoever opens the room of an id also stores it with its asker. *)
LEMMA OpensSets ==
    ASSUME NEW a, NEW c, NEW update, Rightful(a, c, update), NEW p \in Pairs, NEW id \in Ids,
           a[id] = p, Opens(update, id)
    PROVE  Sets(update, Rel(p[1], p[2]), id)
<1>1. ASSUME NEW q \in Pairs, NEW other \in Ids, a[other] \in {q, <<q[2], q[1]>>},
             update = addRelationship(q[1], q[2], other)
      PROVE  Sets(update, Rel(p[1], p[2]), id)
    <2>1. id = other
        BY <1>1, RoomPaths DEF Opens, addRelationship, Room, Rel
    <2>2. p = q \/ p = <<q[2], q[1]>>
        BY <1>1, <2>1
    <2>3. Rel(p[1], p[2]) \in {Rel(q[1], q[2]), Rel(q[2], q[1])}
        BY <2>2
    <2>4. Rel(p[1], p[2]) # Room(other)
        BY DEF Rel, Room
    <2> QED BY <1>1, <2>1, <2>3, <2>4 DEF Sets, addRelationship
<1>2. ASSUME NEW q \in Pairs, NEW other \in Ids,
             \/ update = deleteRelationship(q[1], q[2], other)
             \/ update = addPending(q[1], q[2], other)
             \/ update \in {removePending(q[1], q[2]), removeRequest(q[1], q[2])}
      PROVE  FALSE
    BY <1>2 DEF Opens, deleteRelationship, addPending, removePending, removeRequest, Room, Pend, Req
<1> QED BY <1>1, <1>2 DEF Rightful

(* What does not fit the history is nowhere. *)
LEMMA Misfit ==
    ASSUME Inv, Right, NEW reader \in Users, NEW path \in UserPaths(reader), NEW x,
           ~Fits(asker, Accepted, path, x)
    PROVE  /\ \A w \in Users : \A i \in DOMAIN writes[w] : ~Sets(writes[w][i], path, x)
           /\ Behind(path, x, reader) /\ ~OnScreen(path, x, reader)
<1>1. ASSUME NEW t, Fitting(asker, Accepted, t), path \in DOMAIN t
      PROVE  t[path] # x
    BY <1>1 DEF Fitting
<1>2. ASSUME NEW w \in Users, NEW i \in DOMAIN writes[w]
      PROVE  ~Sets(writes[w][i], path, x)
    <2>1. Fitting(asker, Accepted, writes[w][i])
        BY RightfulFits DEF Right, AllRight, ClientRight
    <2> QED BY <1>1, <2>1 DEF Sets
<1>3. path \in DOMAIN db /\ path \in DOMAIN cache[reader]
    BY UserPathsArePaths DEF Inv, TypeOK, FirebaseTypeOK, Trees, UserTrees
<1>4. ASSUME NEW i \in DOMAIN events[reader]
      PROVE  events[reader][i][path] # x
    <2>1. events[reader][i] \in UserTrees(reader)
        BY ElementOfSeq, LenProperties DEF Inv, TypeOK, FirebaseTypeOK
    <2> QED BY <1>1, <2>1 DEF UserTrees, Right, AllRight, ClientRight
<1>5. \A i \in DOMAIN down[reader] : ~Sets(down[reader][i].data, path, x)
    BY <1>1 DEF Sets, Right, AllRight, ClientRight
<1>6. db[path] # x /\ cache[reader][path] # x
    BY <1>1, <1>3 DEF Right, AllRight, ServerRight, ClientRight
<1>7. ~OnScreen(path, x, reader)
    <2>1. session[reader] # NoSession => path \in DOMAIN session[reader]
        BY DEF Inv, TypeOK, UserTrees
    <2> QED BY <1>1, <2>1 DEF OnScreen, Right, AllRight, SessionRight
<1> QED BY <1>2, <1>4, <1>5, <1>6, <1>7 DEF Behind

(* A leaf of one session changes. *)
LEMMA ScreenChange ==
    ASSUME Inv, NEW u \in Users, NEW reader \in Users, session[u] # NoSession,
           NEW q, NEW y, session' = [session EXCEPT ![u] = [session[u] EXCEPT ![q] = y]],
           NEW path \in UserPaths(reader), NEW x, y # x \/ q # path,
           OnScreen(path, x, reader)'
    PROVE  OnScreen(path, x, reader)
<1>1. reader # u => session'[reader] = session[reader]
    BY DEF Inv, TypeOK
<1>2. reader = u => session'[u] = [session[u] EXCEPT ![q] = y] /\ path \in DOMAIN session[u]
    BY DEF Inv, TypeOK, UserTrees
<1> QED BY <1>1, <1>2 DEF OnScreen

LEMMA PairLeaves ==
    ASSUME NEW p \in Pairs
    PROVE  /\ p[1] \in Users /\ p[2] \in Users /\ p[1] # p[2] /\ p[2] \in Others(p[1])
           /\ Req(p[2], p[1]) \in UserPaths(p[2]) /\ Rel(p[1], p[2]) \in UserPaths(p[1])
BY PairFacts, PairPaths

-----------------------------------------------------------------------------
(* The steps of the devices and the server. *)

LEMMA QuietOrder ==
    ASSUME Inv, NEW p \in Pairs, NEW id \in Ids, InOrder(p, id), UNCHANGED <<fate, db>>, SameQueues,
           ASSUME NEW reader \in Users, NEW path \in UserPaths(reader),
                  \A i \in DOMAIN writes[reader] : ~Sets(writes[reader][i], path, id),
                  Behind(path, id, reader), ~OnScreen(path, id, reader)
           PROVE  Behind(path, id, reader)' /\ ~OnScreen(path, id, reader)'
    PROVE  InOrder(p, id)'
<1>1. FirebaseInv
    BY InvParts
<1>2. ASSUME NEW reader \in Users, NEW path \in UserPaths(reader), NEW owner \in Users,
             owner # reader, Once(path, id, owner, reader)
      PROVE  Once(path, id, owner, reader)'
    <2>1. \A i \in DOMAIN writes[reader] : ~Sets(writes[reader][i], path, id)
        BY <1>2 DEF Once
    <2>2. Behind(path, id, reader) /\ ~OnScreen(path, id, reader)
            => Behind(path, id, reader)' /\ ~OnScreen(path, id, reader)'
        BY <2>1
    <2> QED BY <1>1, <1>2, <2>2, QueuesOnce
<1>3. Once(Req(p[2], p[1]), id, p[1], p[2])'
    BY <1>2, PairLeaves DEF InOrder
<1>4. ASSUME fate[id] # "again" PROVE Once(Rel(p[1], p[2]), id, p[2], p[1])'
    BY <1>2, <1>4, PairLeaves DEF InOrder
<1>5. ASSUME fate[id] \notin {"fresh", "asked", "unsent"} PROVE Answered(p[1], p[2], id)'
    BY <1>5, PairLeaves, QueuesAnswered DEF InOrder
<1>6. ASSUME fate[id] = "parted" PROVE Parted(id)'
    BY <1>1, <1>6, QueuesParted DEF InOrder
<1> QED BY <1>3, <1>4, <1>5, <1>6 DEF InOrder

LEMMA ApplyOrder ==
    ASSUME Inv, NEW p \in Pairs, NEW id \in Ids, InOrder(p, id), UNCHANGED <<fate, session>>,
           NEW u \in Users, ServerApply(u)
    PROVE  InOrder(p, id)'
<1>1. FirebaseInv
    BY InvParts
<1>2. Once(Req(p[2], p[1]), id, p[1], p[2])'
    BY <1>1, PairLeaves, ApplyOnce DEF InOrder
<1>3. ASSUME fate[id] # "again" PROVE Once(Rel(p[1], p[2]), id, p[2], p[1])'
    BY <1>1, <1>3, PairLeaves, ApplyOnce DEF InOrder
<1>4. ASSUME fate[id] \notin {"fresh", "asked", "unsent"} PROVE Answered(p[1], p[2], id)'
    <2>1. \A w \in Users : \A i \in DOMAIN writes[w] : Sets(writes[w][i], Req(p[2], p[1]), id) => w = p[1]
        BY DEF InOrder, Once
    <2> QED BY <1>1, <1>4, <2>1, PairLeaves, ApplyAnswered DEF InOrder
<1>5. ASSUME fate[id] = "parted" PROVE Parted(id)'
    BY <1>1, <1>5, ApplyParted DEF InOrder
<1> QED BY <1>2, <1>3, <1>4, <1>5 DEF InOrder

(* A put that does not set the id where it counts, nor opens its room. *)
LEMMA PutOrder ==
    ASSUME Inv, NEW p \in Pairs, NEW id \in Ids, InOrder(p, id), NEW u \in Users,
           NEW updates \in Seq(Updates), Len(updates) \in {1, 2}, Put(u, updates),
           \A i \in DOMAIN updates :
                /\ ~Sets(updates[i], Req(p[2], p[1]), id)
                /\ ~Sets(updates[i], Rel(p[1], p[2]), id)
                /\ ~Opens(updates[i], id),
           OnScreen(Req(p[2], p[1]), id, p[2])' => OnScreen(Req(p[2], p[1]), id, p[2]),
           OnScreen(Rel(p[1], p[2]), id, p[1])' => OnScreen(Rel(p[1], p[2]), id, p[1])
    PROVE  /\ Once(Req(p[2], p[1]), id, p[1], p[2])'
           /\ fate[id] # "again" => Once(Rel(p[1], p[2]), id, p[2], p[1])'
           /\ fate[id] \notin {"fresh", "asked", "unsent"} => Answered(p[1], p[2], id)'
           /\ fate[id] = "parted" => Parted(id)'
<1>1. FirebaseInv
    BY InvParts
<1>2. Once(Req(p[2], p[1]), id, p[1], p[2])'
    BY <1>1, PairLeaves, PutOnce DEF InOrder
<1>3. ASSUME fate[id] # "again" PROVE Once(Rel(p[1], p[2]), id, p[2], p[1])'
    BY <1>1, <1>3, PairLeaves, PutOnce DEF InOrder
<1>4. ASSUME fate[id] \notin {"fresh", "asked", "unsent"} PROVE Answered(p[1], p[2], id)'
    <2>1. Answered(p[1], p[2], id)
        BY <1>4 DEF InOrder
    <2>2. \A i \in Unapplied(p[1]) : ~Sets(writes[p[1]][i], Req(p[2], p[1]), id)
        BY <2>1 DEF Answered
    <2> QED BY <1>1, <2>1, <2>2, PairLeaves, PutAnswered
<1>5. ASSUME fate[id] = "parted" PROVE Parted(id)'
    BY <1>1, <1>5, PutParted DEF InOrder
<1> QED BY <1>2, <1>3, <1>4, <1>5

(* A put that only removes, and a leaf of the session that is removed. *)
LEMMA RemovalOrder ==
    ASSUME Inv, NEW p \in Pairs, NEW id \in Ids, InOrder(p, id), NEW u \in Users,
           NEW update \in Updates, Put(u, <<update>>), session[u] # NoSession,
           ~Opens(update, id), \A path : ~Sets(update, path, id),
           NEW q, session' = [session EXCEPT ![u] = [session[u] EXCEPT ![q] = Nil]]
    PROVE  /\ Once(Req(p[2], p[1]), id, p[1], p[2])'
           /\ fate[id] # "again" => Once(Rel(p[1], p[2]), id, p[2], p[1])'
           /\ fate[id] \notin {"fresh", "asked", "unsent"} => Answered(p[1], p[2], id)'
           /\ fate[id] = "parted" => Parted(id)'
<1> DEFINE updates == <<update>>
<1>1. /\ updates \in Seq(Updates) /\ Len(updates) \in {1, 2}
      /\ \A i \in DOMAIN updates : updates[i] = update
    OBVIOUS
<1>2. Put(u, updates)
    OBVIOUS
<1> HIDE DEF updates
<1>3. Nil # id
    BY NilAssumption
<1>4. /\ OnScreen(Req(p[2], p[1]), id, p[2])' => OnScreen(Req(p[2], p[1]), id, p[2])
      /\ OnScreen(Rel(p[1], p[2]), id, p[1])' => OnScreen(Rel(p[1], p[2]), id, p[1])
    BY <1>3, PairLeaves, ScreenChange
<1> QED BY <1>1, <1>2, <1>4, PutOrder

-----------------------------------------------------------------------------
(* Every step keeps the order, as long as no process ends and no           *)
(* connection is lost.                                                     *)
AllInOrder(ids) == \A p \in Pairs : \A id \in ids : asker[id] = p => InOrder(p, id)

LEMMA OnceOwner ==
    ASSUME NEW path, NEW x, NEW owner, NEW reader, Once(path, x, owner, reader)
    PROVE  \A w \in Users : \A i \in DOMAIN writes[w] : Sets(writes[w][i], path, x) => w = owner
BY DEF Once

LEMMA TapUnsendOrder ==
    ASSUME Inv, AllInOrder(Ids), NEW u \in Users, NEW v \in Others(u),
           TapUnsend(u, v) \/ TapToggled(u, v)
    PROVE  AllInOrder(Ids)'
<1> DEFINE update == removePending(u, v)
<1>1. /\ Put(u, <<update>>) /\ session[u] # NoSession /\ TakeBack(u, v)
      /\ session' = [session EXCEPT ![u] = [session[u] EXCEPT ![Pend(u, v)] = Nil]]
    BY InvParts DEF TapUnsend, TapToggled, SessionTypeOK
<1>2. update \in Updates /\ \A id \in Ids : ~Opens(update, id) /\ \A path : ~Sets(update, path, id)
    BY RemovalUpdates, RemovalsSetNothing
<1> HIDE DEF update
<1>3. ASSUME NEW p \in Pairs, NEW id \in Ids, asker'[id] = p
      PROVE  InOrder(p, id)'
    <2>1. /\ InOrder(p, id)
          /\ fate'[id] = fate[id] \/ (fate[id] = "asked" /\ fate'[id] = "unsent")
        BY <1>1, <1>3, TakenBack DEF AllInOrder
    <2>2. /\ Once(Req(p[2], p[1]), id, p[1], p[2])'
          /\ fate[id] # "again" => Once(Rel(p[1], p[2]), id, p[2], p[1])'
          /\ fate[id] \notin {"fresh", "asked", "unsent"} => Answered(p[1], p[2], id)'
          /\ fate[id] = "parted" => Parted(id)'
        BY <1>1, <1>2, <2>1, RemovalOrder
    <2> QED BY <2>1, <2>2 DEF InOrder
<1> QED BY <1>3 DEF AllInOrder

LEMMA TapDeclineOrder ==
    ASSUME Inv, Right, AllInOrder(Ids), NEW u \in Users, NEW v \in Others(u), TapDecline(u, v)
    PROVE  AllInOrder(Ids)'
<1> DEFINE update == removeRequest(u, v)
           declined == session[u][Req(u, v)]
<1>1. /\ Put(u, <<update>>) /\ session[u] # NoSession /\ UNCHANGED asker
      /\ session' = [session EXCEPT ![u] = [session[u] EXCEPT ![Req(u, v)] = Nil]]
      /\ \A id \in Ids : fate'[id] # fate[id] => id = declined /\ fate'[id] = "declined"
    BY InvParts DEF TapDecline, SessionTypeOK
<1>2. update \in Updates /\ \A id \in Ids : ~Opens(update, id) /\ \A path : ~Sets(update, path, id)
    BY RemovalUpdates, RemovalsSetNothing
<1>3. Sets(update, Req(u, v), Nil) /\ <<update>> \in Seq(Updates) /\ DOMAIN <<update>> = {1} /\ <<update>>[1] = update
    BY <1>2, RequestRemoved
<1>4. declined # Nil => asker[declined] = <<v, u>>
    BY <1>1, SessionIds
<1>5. FirebaseInv
    BY InvParts
<1>6. OnScreen(Req(u, v), declined, u)
    BY <1>1 DEF OnScreen
<1> HIDE DEF update, declined
<1>7. ASSUME NEW p \in Pairs, NEW id \in Ids, asker'[id] = p
      PROVE  InOrder(p, id)'
    <2>1. InOrder(p, id)
        BY <1>1, <1>7 DEF AllInOrder
    <2>2. /\ Once(Req(p[2], p[1]), id, p[1], p[2])'
          /\ fate[id] # "again" => Once(Rel(p[1], p[2]), id, p[2], p[1])'
          /\ fate[id] \notin {"fresh", "asked", "unsent"} => Answered(p[1], p[2], id)'
          /\ fate[id] = "parted" => Parted(id)'
        BY <1>1, <1>2, <2>1, RemovalOrder
    <2>3. CASE fate'[id] = fate[id]
        BY <2>2, <2>3 DEF InOrder
    <2>4. CASE fate'[id] # fate[id]
        <3>1. id = declined /\ fate'[id] = "declined" /\ id # Nil
            BY <1>1, <2>4, NilAssumption
        <3>2. p[1] = v /\ p[2] = u
            BY <1>1, <1>4, <1>7, <3>1
        <3>3. \A i \in Unapplied(v) : ~Sets(writes[v][i], Req(u, v), id)
            BY <1>6, <2>1, <3>1, <3>2 DEF InOrder, Once
        <3>4. \A i \in DOMAIN <<update>> : ~Sets(<<update>>[i], Req(u, v), id)
            BY <1>2, <1>3
        <3>5. \E i \in DOMAIN <<update>> : Sets(<<update>>[i], Req(u, v), Nil)
            BY <1>3
        <3>6. v \in Users
            BY DEF Others
        <3>7. Answered(v, u, id)'
            BY <1>1, <1>3, <1>5, <3>3, <3>4, <3>5, <3>6, PutAnswered
        <3>8. fate'[id] = "declined" => fate[id] # "again" \/ fate[id] = "again"
            OBVIOUS
        <3>9. fate[id] # "again"
            BY <1>7, <2>4, <3>1 DEF TapDecline
        <3> QED BY <2>2, <3>1, <3>2, <3>7, <3>9 DEF InOrder
    <2> QED BY <2>3, <2>4
<1> QED BY <1>7 DEF AllInOrder

LEMMA TapDeleteOrder ==
    ASSUME Inv, Right, AllInOrder(Ids), NEW u \in Users, NEW v \in Others(u), TapDelete(u, v),
           deaths' = deaths
    PROVE  AllInOrder(Ids)'
<1> DEFINE gone == session[u][Rel(u, v)]
           update == deleteRelationship(u, v, gone)
<1>1. gone # Nil /\ session[u] # NoSession
    BY InvParts DEF TapDelete, ProcessGone, SessionTypeOK
<1>2. gone \in Accepted /\ asker[gone] \in {<<u, v>>, <<v, u>>} /\ gone \in Ids
    BY <1>1, SessionIds DEF Accepted
<1>3. /\ Put(u, <<update>>) /\ UNCHANGED asker
      /\ session' = [session EXCEPT ![u] = [session[u] EXCEPT ![Rel(u, v)] = Nil]]
      /\ fate' = [fate EXCEPT ![gone] = AfterDelete(@)]
    BY <1>1, InvParts DEF TapDelete, SessionTypeOK
<1>4. fate[gone] \in {"accepted", "parted", "again"}
    BY <1>2 DEF Accepted, Consented
<1>5. /\ \A id \in Ids \ {gone} : fate'[id] = fate[id]
      /\ fate[gone] = "again" => fate'[gone] = "again"
      /\ fate[gone] # "again" => fate'[gone] = "parted"
    BY <1>2, <1>3, <1>4, InvParts DEF AfterDelete, SessionTypeOK
<1>6. update \in Updates /\ Closes(update, gone)
    BY <1>2, TapUpdates, DeleteCloses
<1>7. \A id \in Ids : ~Opens(update, id) /\ \A path : ~Sets(update, path, id)
    BY <1>2, RemovalsSetNothing
<1>8. FirebaseInv
    BY InvParts
<1>9. OnScreen(Rel(u, v), gone, u)
    BY <1>1 DEF OnScreen
<1> HIDE DEF gone, update
<1>10. ASSUME NEW p \in Pairs, NEW id \in Ids, id = gone, asker[id] = p, InOrder(p, id),
             fate[id] # "again"
      PROVE  Parted(id)'
    <2>1. \A w \in Users : \A i \in Unapplied(w) : Opens(writes[w][i], id) =>
            Sets(writes[w][i], Rel(p[1], p[2]), id)
        BY <1>2, <1>10, OpensSets DEF Right, AllRight, ClientRight, Unapplied
    <2>2. Once(Rel(p[1], p[2]), id, p[2], p[1])
        BY <1>10 DEF InOrder
    <2>3. \A w \in Users : \A i \in Unapplied(w) : Opens(writes[w][i], id) => w = p[2]
        <3>1. \A w \in Users : \A i \in DOMAIN writes[w] :
                Sets(writes[w][i], Rel(p[1], p[2]), id) => w = p[2]
            BY <2>2, OnceOwner
        <3> QED BY <2>1, <3>1 DEF Unapplied
    <2>4. \/ p[1] = u /\ p[2] = v
          \/ p[2] = u
        BY <1>2, <1>10
    <2>5. ASSUME p[1] = u, p[2] = v
          PROVE  \A w \in Users : \A i \in Unapplied(w) : ~Opens(writes[w][i], id)
        BY <1>9, <1>10, <2>1, <2>2, <2>3, <2>5 DEF Once
    <2>6. \A w \in Users : \A i \in Unapplied(w) : Opens(writes[w][i], id) => w = u
        BY <2>3, <2>4, <2>5
    <2>7. Put(u, <<update>>) /\ update \in Updates /\ Closes(update, id)
        BY <1>3, <1>6, <1>10
    <2> QED BY <1>8, <2>6, <2>7, PutParts
<1>11. ASSUME NEW p \in Pairs, NEW id \in Ids, asker'[id] = p
      PROVE  InOrder(p, id)'
    <2>1. InOrder(p, id) /\ asker[id] = p
        BY <1>3, <1>11 DEF AllInOrder
    <2>2. /\ Once(Req(p[2], p[1]), id, p[1], p[2])'
          /\ fate[id] # "again" => Once(Rel(p[1], p[2]), id, p[2], p[1])'
          /\ fate[id] \notin {"fresh", "asked", "unsent"} => Answered(p[1], p[2], id)'
          /\ fate[id] = "parted" => Parted(id)'
        BY <1>1, <1>3, <1>6, <1>7, <2>1, RemovalOrder
    <2>3. CASE id # gone
        BY <1>5, <2>2, <2>3 DEF InOrder
    <2>4. CASE id = gone
        <3>1. CASE fate[gone] = "again"
            BY <1>5, <2>2, <2>4, <3>1 DEF InOrder
        <3>2. CASE fate[gone] # "again"
            <4>1. Parted(id)'
                BY <1>10, <2>1, <2>4, <3>2
            <4> QED BY <1>4, <1>5, <2>2, <2>4, <3>2, <4>1 DEF InOrder
        <3> QED BY <3>1, <3>2
    <2> QED BY <2>3, <2>4
<1> QED BY <1>11 DEF AllInOrder

(* What an accept does to the leaves on the screens. *)
LEMMA AcceptScreen ==
    ASSUME Inv, NEW u \in Users, NEW v \in Others(u), NEW id, session[u] # NoSession,
           session' = [session EXCEPT ![u][Rel(u, v)] = id, ![u][Req(u, v)] = Nil],
           NEW reader \in Users, NEW path \in UserPaths(reader), NEW other \in Ids,
           ~(reader = u /\ path = Rel(u, v) /\ other = id),
           OnScreen(path, other, reader)'
    PROVE  OnScreen(path, other, reader)
<1>1. DOMAIN session = Users /\ session[u] \in UserTrees(u) /\ Nil # other
    BY InvParts, NilAssumption DEF SessionTypeOK
<1>2. reader # u => session'[reader] = session[reader]
    BY <1>1
<1>3. session'[u] = [[session[u] EXCEPT ![Rel(u, v)] = id] EXCEPT ![Req(u, v)] = Nil]
    BY <1>1 DEF UserTrees
<1>4. CASE reader # u
    BY <1>2, <1>4 DEF OnScreen
<1>5. CASE reader = u
    <2>1. path \in DOMAIN session[u]
        BY <1>1, <1>5 DEF UserTrees
    <2>2. session'[u][path] = other
        BY <1>5 DEF OnScreen
    <2>3. session[u][path] = other
        BY <1>1, <1>3, <1>5, <2>1, <2>2
    <2> QED BY <1>5, <2>3 DEF OnScreen
<1> QED BY <1>4, <1>5

LEMMA TapAcceptOrder ==
    ASSUME Inv, Right, AllInOrder(Ids), NEW u \in Users, NEW v \in Others(u), TapAccept(u, v),
           deaths' = deaths
    PROVE  AllInOrder(Ids)'
<1>1. PICK taken \in Ids :
        /\ session[u] # NoSession /\ session[u][Req(u, v)] = taken
        /\ asker[taken] = <<v, u>>
        /\ Put(u, <<removeRequest(u, v), addRelationship(u, v, taken)>>)
        /\ session' = [session EXCEPT ![u][Rel(u, v)] = taken, ![u][Req(u, v)] = Nil]
        /\ fate' = [fate EXCEPT ![taken] = AfterAccept(@)]
        /\ asker' = asker
    <2>1. session[u] # NoSession /\ session[u][Req(u, v)] # Nil
        BY InvParts DEF TapAccept, ProcessGone, SessionTypeOK
    <2> QED BY <2>1, SessionIds DEF TapAccept
<1> DEFINE one == removeRequest(u, v)
           two == addRelationship(u, v, taken)
           updates == <<one, two>>
<1>2. one \in Updates /\ two \in Updates
    BY RemovalUpdates, TapUpdates
<1>3. Sets(one, Req(u, v), Nil)
    BY RequestRemoved
<1>4. ASSUME NEW p \in Pairs, NEW id \in Ids
      PROVE  /\ ~Sets(one, Req(p[2], p[1]), id) /\ ~Sets(one, Rel(p[1], p[2]), id)
             /\ ~Sets(two, Req(p[2], p[1]), id) /\ ~Opens(one, id)
             /\ id # taken => ~Sets(two, Rel(p[1], p[2]), id) /\ ~Opens(two, id)
    BY RemovalsSetNothing, AddRelationshipSets
<1>5. Put(u, updates)
    BY <1>1
<1> HIDE DEF one, two
<1>6. /\ updates \in Seq(Updates) /\ Len(updates) \in {1, 2} /\ DOMAIN updates = {1, 2}
      /\ updates[1] = one /\ updates[2] = two
    BY <1>2
<1> HIDE DEF updates
<1>7. FirebaseInv /\ v \in Users /\ u # v
    BY InvParts DEF Others
<1>8. /\ \A id \in Ids \ {taken} : fate'[id] = fate[id]
      /\ fate'[taken] = AfterAccept(fate[taken])
    BY <1>1, InvParts DEF SessionTypeOK
<1>9. ASSUME NEW p \in Pairs, NEW id \in Ids
      PROVE  /\ OnScreen(Req(p[2], p[1]), id, p[2])' => OnScreen(Req(p[2], p[1]), id, p[2])
             /\ p[1] # u \/ id # taken =>
                    (OnScreen(Rel(p[1], p[2]), id, p[1])' => OnScreen(Rel(p[1], p[2]), id, p[1]))
    <2>1. Req(p[2], p[1]) # Rel(u, v)
        BY DEF Req, Rel
    <2>2. ASSUME NEW reader \in Users, NEW path \in UserPaths(reader),
                 ~(reader = u /\ path = Rel(u, v) /\ id = taken),
                 OnScreen(path, id, reader)'
          PROVE  OnScreen(path, id, reader)
        <3>1. /\ session[u] # NoSession
              /\ session' = [session EXCEPT ![u][Rel(u, v)] = taken, ![u][Req(u, v)] = Nil]
            BY <1>1
        <3> QED BY <2>2, <3>1, AcceptScreen
    <2>3. OnScreen(Req(p[2], p[1]), id, p[2])' => OnScreen(Req(p[2], p[1]), id, p[2])
        BY <2>1, <2>2, PairLeaves
    <2>4. p[1] # u \/ id # taken =>
            (OnScreen(Rel(p[1], p[2]), id, p[1])' => OnScreen(Rel(p[1], p[2]), id, p[1]))
        BY <2>2, PairLeaves
    <2> QED BY <2>3, <2>4
<1>10. ASSUME NEW p \in Pairs, NEW id \in Ids, asker'[id] = p, id # taken
       PROVE  InOrder(p, id)'
    <2>1. InOrder(p, id) /\ fate'[id] = fate[id]
        BY <1>1, <1>8, <1>10 DEF AllInOrder
    <2>2. \A i \in DOMAIN updates :
            /\ ~Sets(updates[i], Req(p[2], p[1]), id)
            /\ ~Sets(updates[i], Rel(p[1], p[2]), id)
            /\ ~Opens(updates[i], id)
        BY <1>4, <1>6, <1>10
    <2>3. /\ OnScreen(Req(p[2], p[1]), id, p[2])' => OnScreen(Req(p[2], p[1]), id, p[2])
          /\ OnScreen(Rel(p[1], p[2]), id, p[1])' => OnScreen(Rel(p[1], p[2]), id, p[1])
        BY <1>9, <1>10
    <2>4. /\ Once(Req(p[2], p[1]), id, p[1], p[2])'
          /\ fate[id] # "again" => Once(Rel(p[1], p[2]), id, p[2], p[1])'
          /\ fate[id] \notin {"fresh", "asked", "unsent"} => Answered(p[1], p[2], id)'
          /\ fate[id] = "parted" => Parted(id)'
        BY <1>5, <1>6, <2>1, <2>2, <2>3, PutOrder
    <2> QED BY <2>1, <2>4 DEF InOrder
<1>11. InOrder(<<v, u>>, taken)'
    <2> DEFINE p == <<v, u>>
    <2>1. p \in Pairs /\ p[1] = v /\ p[2] = u
        BY UserPairs
    <2>2. InOrder(p, taken)
        BY <1>1, <2>1 DEF AllInOrder
    <2> HIDE DEF p
    <2>3. \A i \in DOMAIN updates : ~Sets(updates[i], Req(u, v), taken)
        BY <1>4, <1>6, <2>1
    <2>4. Once(Req(u, v), taken, v, u) /\ Req(u, v) \in UserPaths(u) /\ Rel(v, u) \in UserPaths(v)
        BY <2>1, <2>2, PairLeaves DEF InOrder
    <2>5. OnScreen(Req(u, v), taken, u)' => OnScreen(Req(u, v), taken, u)
        BY <1>9, <2>1
    <2>6. Once(Req(u, v), taken, v, u)'
        BY <1>5, <1>6, <1>7, <2>3, <2>4, <2>5, PutOnce
    <2>7. Answered(v, u, taken)'
        <3>1. OnScreen(Req(u, v), taken, u)
            BY <1>1 DEF OnScreen
        <3>2. \A i \in Unapplied(v) : ~Sets(writes[v][i], Req(u, v), taken)
            BY <2>4, <3>1 DEF Once
        <3>3. \E i \in DOMAIN updates : Sets(updates[i], Req(u, v), Nil)
            BY <1>3, <1>6
        <3> QED BY <1>5, <1>6, <1>7, <2>3, <3>2, <3>3, PutAnswered
    <2>8. ASSUME fate'[taken] # "again" PROVE Once(Rel(v, u), taken, u, v)'
        <3>1. taken \notin Accepted
            BY <1>8, <2>8 DEF Accepted, Consented, AfterAccept
        <3>2. ~Fits(asker, Accepted, Rel(v, u), taken)
            BY <3>1, NilAssumption DEF Fits, Rel
        <3>3. /\ \A w \in Users : \A i \in DOMAIN writes[w] : ~Sets(writes[w][i], Rel(v, u), taken)
              /\ Behind(Rel(v, u), taken, v) /\ ~OnScreen(Rel(v, u), taken, v)
            BY <1>7, <2>4, <3>2, Misfit
        <3>4. ~OnScreen(Rel(v, u), taken, v)'
            BY <1>7, <1>9, <2>1, <3>3
        <3>5. 2 \in DOMAIN updates /\ \A i \in DOMAIN updates : Sets(updates[i], Rel(v, u), taken) => i = 2
            BY <1>4, <1>6, <2>1
        <3> QED BY <1>5, <1>6, <1>7, <2>4, <3>3, <3>4, <3>5, PutFirst
    <2>9. fate'[taken] # "parted"
        BY <1>8 DEF AfterAccept
    <2> QED BY <2>1, <2>6, <2>7, <2>8, <2>9 DEF InOrder, p
<1>12. ASSUME NEW p \in Pairs, NEW id \in Ids, asker'[id] = p
       PROVE  InOrder(p, id)'
    <2>1. id = taken => p = <<v, u>>
        BY <1>1, <1>12
    <2> QED BY <1>10, <1>11, <1>12, <2>1
<1> QED BY <1>12 DEF AllInOrder

LEMMA TapAddOrder ==
    ASSUME Inv, Right, AllInOrder(Ids), NEW u \in Users, NEW v \in Others(u), TapAdd(u, v)
    PROVE  AllInOrder(Ids)'
<1>1. PICK new \in Ids :
        /\ asker[new] = Nil
        /\ Put(u, <<addPending(u, v, new)>>)
        /\ session' = [session EXCEPT ![u] = [session[u] EXCEPT ![Pend(u, v)] = new]]
        /\ asker' = [asker EXCEPT ![new] = <<u, v>>]
        /\ fate' = [fate EXCEPT ![new] = "asked"]
    BY InvParts DEF TapAdd, SessionTypeOK
<1> DEFINE one == addPending(u, v, new)
           updates == <<one>>
<1>2. one \in Updates
    BY TapUpdates
<1>3. ASSUME NEW p \in Pairs, NEW id \in Ids
      PROVE  /\ Sets(one, Req(p[2], p[1]), id) => id = new
             /\ ~Sets(one, Rel(p[1], p[2]), id)
             /\ ~Opens(one, id)
    BY AddPendingSets
<1>4. Put(u, updates) /\ session[u] # NoSession
    BY <1>1 DEF TapAdd
<1> HIDE DEF one
<1>5. /\ updates \in Seq(Updates) /\ Len(updates) \in {1, 2} /\ DOMAIN updates = {1}
      /\ updates[1] = one
    BY <1>2
<1> HIDE DEF updates
<1>6. FirebaseInv /\ v \in Users /\ u # v
    BY InvParts DEF Others
<1>7. /\ \A id \in Ids \ {new} : fate'[id] = fate[id] /\ asker'[id] = asker[id]
      /\ fate'[new] = "asked" /\ asker'[new] = <<u, v>>
    BY <1>1, InvParts DEF SessionTypeOK
<1>8. ASSUME NEW p \in Pairs, NEW id \in Ids
      PROVE  /\ OnScreen(Req(p[2], p[1]), id, p[2])' => OnScreen(Req(p[2], p[1]), id, p[2])
             /\ OnScreen(Rel(p[1], p[2]), id, p[1])' => OnScreen(Rel(p[1], p[2]), id, p[1])
    <2>1. Req(p[2], p[1]) # Pend(u, v) /\ Rel(p[1], p[2]) # Pend(u, v)
        BY DEF Req, Rel, Pend
    <2>2. ASSUME NEW reader \in Users, NEW path \in UserPaths(reader), path # Pend(u, v),
                 OnScreen(path, id, reader)'
          PROVE  OnScreen(path, id, reader)
        BY <1>1, <1>4, <2>2, ScreenChange
    <2>3. OnScreen(Req(p[2], p[1]), id, p[2])' => OnScreen(Req(p[2], p[1]), id, p[2])
        BY <2>1, <2>2, PairLeaves
    <2>4. OnScreen(Rel(p[1], p[2]), id, p[1])' => OnScreen(Rel(p[1], p[2]), id, p[1])
        BY <2>1, <2>2, PairLeaves
    <2> QED BY <2>3, <2>4
<1>9. ASSUME NEW p \in Pairs, NEW id \in Ids, asker'[id] = p, id # new
      PROVE  InOrder(p, id)'
    <2>1. InOrder(p, id) /\ fate'[id] = fate[id]
        BY <1>7, <1>9 DEF AllInOrder
    <2>2. \A i \in DOMAIN updates :
            /\ ~Sets(updates[i], Req(p[2], p[1]), id)
            /\ ~Sets(updates[i], Rel(p[1], p[2]), id)
            /\ ~Opens(updates[i], id)
        BY <1>3, <1>5, <1>9
    <2>3. /\ Once(Req(p[2], p[1]), id, p[1], p[2])'
          /\ fate[id] # "again" => Once(Rel(p[1], p[2]), id, p[2], p[1])'
          /\ fate[id] \notin {"fresh", "asked", "unsent"} => Answered(p[1], p[2], id)'
          /\ fate[id] = "parted" => Parted(id)'
        BY <1>4, <1>5, <1>8, <2>1, <2>2, PutOrder
    <2> QED BY <2>1, <2>3 DEF InOrder
<1>10. InOrder(<<u, v>>, new)'
    <2> DEFINE p == <<u, v>>
    <2>1. p \in Pairs /\ p[1] = u /\ p[2] = v
        BY UserPairs
    <2> HIDE DEF p
    <2>2. Req(v, u) \in UserPaths(v) /\ Rel(u, v) \in UserPaths(u)
        BY <2>1, PairLeaves
    <2>3. ~Fits(asker, Accepted, Req(v, u), new) /\ ~Fits(asker, Accepted, Rel(u, v), new)
        BY <1>1, NilAssumption DEF Fits, Req, Rel
    <2>4. /\ \A w \in Users : \A i \in DOMAIN writes[w] : ~Sets(writes[w][i], Req(v, u), new)
          /\ Behind(Req(v, u), new, v) /\ ~OnScreen(Req(v, u), new, v)
        BY <1>6, <2>2, <2>3, Misfit
    <2>5. \A w \in Users : \A i \in DOMAIN writes[w] : ~Sets(writes[w][i], Rel(u, v), new)
        BY <2>2, <2>3, Misfit
    <2>6. ~OnScreen(Req(v, u), new, v)'
        BY <1>8, <2>1, <2>4
    <2>7. 1 \in DOMAIN updates /\ \A i \in DOMAIN updates : Sets(updates[i], Req(v, u), new) => i = 1
        BY <1>5
    <2>8. Once(Req(v, u), new, u, v)'
        BY <1>4, <1>5, <1>6, <2>2, <2>4, <2>6, <2>7, PutFirst
    <2>9. \A i \in DOMAIN updates : ~Sets(updates[i], Rel(u, v), new)
        BY <1>3, <1>5, <2>1
    <2>10. Once(Rel(u, v), new, v, u)'
        BY <1>4, <1>5, <1>6, <2>5, <2>9, PutNone
    <2> QED BY <1>7, <2>1, <2>8, <2>10 DEF InOrder, p
<1>11. ASSUME NEW p \in Pairs, NEW id \in Ids, asker'[id] = p
       PROVE  InOrder(p, id)'
    <2>1. id = new => p = <<u, v>>
        BY <1>7, <1>11
    <2> QED BY <1>9, <1>10, <1>11, <2>1
<1> QED BY <1>11 DEF AllInOrder

(* The steps that keep every put to come. *)
LEMMA StillQueues ==
    ASSUME Inv, UNCHANGED <<writes, applied>>
    PROVE  SameQueues
BY InvParts, StillShifted DEF SameQueues

LEMMA QuietAllInOrder ==
    ASSUME Inv, AllInOrder(Ids), UNCHANGED <<asker, fate, db>>, SameQueues,
           ASSUME NEW reader \in Users, NEW path \in UserPaths(reader), NEW id \in Ids,
                  \A i \in DOMAIN writes[reader] : ~Sets(writes[reader][i], path, id),
                  Behind(path, id, reader), ~OnScreen(path, id, reader)
           PROVE  Behind(path, id, reader)' /\ ~OnScreen(path, id, reader)'
    PROVE  AllInOrder(Ids)'
<1>1. ASSUME NEW p \in Pairs, NEW id \in Ids, asker'[id] = p
      PROVE  InOrder(p, id)'
    <2>1. InOrder(p, id)
        BY <1>1 DEF AllInOrder
    <2>2. ASSUME NEW reader \in Users, NEW path \in UserPaths(reader),
                 \A i \in DOMAIN writes[reader] : ~Sets(writes[reader][i], path, id),
                 Behind(path, id, reader), ~OnScreen(path, id, reader)
          PROVE  Behind(path, id, reader)' /\ ~OnScreen(path, id, reader)'
        BY <2>2
    <2> QED BY <2>1, <2>2, QuietOrder
<1> QED BY <1>1 DEF AllInOrder

LEMMA StillOrder ==
    ASSUME Inv, AllInOrder(Ids),
           UNCHANGED <<asker, fate, session, db, cache, writes, applied, down, events>>
    PROVE  AllInOrder(Ids)'
<1>1. SameQueues
    BY StillQueues
<1>2. ASSUME NEW reader \in Users, NEW path \in UserPaths(reader), NEW id \in Ids,
             Behind(path, id, reader), ~OnScreen(path, id, reader)
      PROVE  Behind(path, id, reader)' /\ ~OnScreen(path, id, reader)'
    BY <1>2 DEF Behind, OnScreen
<1> QED BY <1>1, <1>2, QuietAllInOrder

LEMMA HandleOrder ==
    ASSUME Inv, Inv', AllInOrder(Ids), NEW u \in Users, Handle(u)
    PROVE  AllInOrder(Ids)'
<1>1. Receive(u) /\ UNCHANGED <<asker, fate, session>> /\ db' = db
    BY DEF Handle, Receive, sessionVars
<1>2. FirebaseInv /\ FirebaseInv'
    BY InvParts, InvPartsPrime
<1>3. SameQueues
    BY <1>1, <1>2, ReceiveQueues
<1>4. ASSUME NEW reader \in Users, NEW path \in UserPaths(reader), NEW id \in Ids,
             \A i \in DOMAIN writes[reader] : ~Sets(writes[reader][i], path, id),
             Behind(path, id, reader), ~OnScreen(path, id, reader)
      PROVE  Behind(path, id, reader)' /\ ~OnScreen(path, id, reader)'
    <2>1. Behind(path, id, reader)'
        BY <1>1, <1>2, <1>4, ReceiveBehind
    <2> QED BY <1>1, <1>4, <2>1 DEF OnScreen
<1> QED BY <1>1, <1>3, <1>4, QuietAllInOrder

LEMMA ReconnectOrder ==
    ASSUME Inv, AllInOrder(Ids), NEW u \in Users, Reconnect(u)
    PROVE  AllInOrder(Ids)'
<1>1. Connect(u) /\ UNCHANGED <<asker, fate, session, db, writes, applied>>
    BY DEF Reconnect, Connect, sessionVars
<1>2. SameQueues
    BY <1>1, StillQueues
<1>3. ASSUME NEW reader \in Users, NEW path \in UserPaths(reader), NEW id \in Ids,
             Behind(path, id, reader), ~OnScreen(path, id, reader)
      PROVE  Behind(path, id, reader)' /\ ~OnScreen(path, id, reader)'
    <2>1. Behind(path, id, reader)'
        BY <1>1, <1>3, InvParts, ConnectBehind
    <2> QED BY <1>1, <1>3, <2>1 DEF OnScreen
<1> QED BY <1>1, <1>2, <1>3, QuietAllInOrder

LEMMA DeliverEventOrder ==
    ASSUME Inv, AllInOrder(Ids), NEW u \in Users, DeliverEvent(u)
    PROVE  AllInOrder(Ids)'
<1>1. /\ UNCHANGED <<asker, fate, db, cache, writes, applied, down>> /\ events[u] # <<>>
      /\ session' = [session EXCEPT ![u] = Head(events[u])]
      /\ events' = [events EXCEPT ![u] = Tail(events[u])]
    BY DEF DeliverEvent, historyVars
<1>2. SameQueues
    BY <1>1, StillQueues
<1>3. /\ events[u] \in Seq(UserTrees(u)) /\ DOMAIN session = Users /\ DOMAIN events = Users
    BY InvParts DEF FirebaseInv, FirebaseTypeOK, SessionTypeOK
<1>4. /\ 1 \in DOMAIN events[u] /\ Head(events[u]) = events[u][1]
      /\ \A i \in DOMAIN Tail(events[u]) : \E j \in DOMAIN events[u] : Tail(events[u])[i] = events[u][j]
    BY <1>1, <1>3, TailElements
<1>5. /\ session'[u] = events[u][1] /\ events'[u] = Tail(events[u])
      /\ \A w \in Users : w # u => session'[w] = session[w] /\ events'[w] = events[w]
    BY <1>1, <1>3, <1>4
<1>6. ASSUME NEW reader \in Users, NEW path \in UserPaths(reader), NEW id \in Ids,
             Behind(path, id, reader), ~OnScreen(path, id, reader)
      PROVE  Behind(path, id, reader)' /\ ~OnScreen(path, id, reader)'
    <2>1. CASE reader # u
        BY <1>1, <1>5, <1>6, <2>1 DEF Behind, OnScreen
    <2>2. CASE reader = u
        <3>1. \A i \in DOMAIN events[u] : events[u][i][path] # id
            BY <1>6, <2>2 DEF Behind
        <3>2. \A i \in DOMAIN events'[u] : events'[u][i][path] # id
            BY <1>4, <1>5, <3>1
        <3> QED BY <1>1, <1>4, <1>5, <1>6, <2>2, <3>1, <3>2 DEF Behind, OnScreen
    <2> QED BY <2>1, <2>2
<1> QED BY <1>1, <1>2, <1>6, QuietAllInOrder

LEMMA ServerOrder ==
    ASSUME Inv, AllInOrder(Ids), NEW u \in Users, Apply(u)
    PROVE  AllInOrder(Ids)'
<1>1. ServerApply(u) /\ UNCHANGED <<asker, fate, session>>
    BY DEF Apply, sessionVars
<1> QED BY <1>1, ApplyOrder DEF AllInOrder

(* A lost connection is counted. *)
LEMMA DropsOnlyRise == Next => drops' \in {drops, drops + 1}
<1> SUFFICES ASSUME Next PROVE drops' \in {drops, drops + 1}
    OBVIOUS
<1>1. PICK u \in Users : UserStep(u) \/ SystemStep(u) \/ WorldStep(u)
    BY DEF Next
<1>2. CASE UserStep(u)
    BY <1>2 DEF UserStep, Tap, TapDeleteSelf, TapDelete, TapUnsend, TapAccept, TapDecline, TapAdd,
       TapToggled, TapBeforeSession, Redraw
<1>3. CASE SystemStep(u)
    BY <1>3 DEF SystemStep, Apply, Handle, DeliverEvent, Reconnect, sessionVars
<1>4. CASE WorldStep(u)
    BY <1>4 DEF WorldStep, Drop, Kill, Launch
<1> QED BY <1>1, <1>2, <1>3, <1>4

LEMMA StepOrder ==
    ASSUME Inv, Inv', Right, AllInOrder(Ids), [Next]_vars, deaths' = deaths, drops' = drops
    PROVE  AllInOrder(Ids)'
<1>1. CASE UNCHANGED vars
    BY <1>1, StillOrder DEF vars, firebaseVars, sessionVars
<1>2. CASE Next
    <2>1. PICK u \in Users : UserStep(u) \/ SystemStep(u) \/ WorldStep(u)
        BY <1>2 DEF Next
    <2>2. deaths \in Nat /\ drops \in Nat
        BY InvParts DEF SessionTypeOK
    <2>3. ASSUME NEW v \in Others(u), TapDelete(u, v) \/ TapAccept(u, v) \/ TapAdd(u, v)
          PROVE  AllInOrder(Ids)'
        BY <2>3, TapDeleteOrder, TapAcceptOrder, TapAddOrder
    <2>4. ASSUME NEW v \in Others(u), TapUnsend(u, v) \/ TapToggled(u, v) \/ TapDecline(u, v)
          PROVE  AllInOrder(Ids)'
        BY <2>4, TapUnsendOrder, TapDeclineOrder
    <2>5. ASSUME NEW v \in Others(u), TapBeforeSession(u, v) \/ Redraw(u, v)
          PROVE  AllInOrder(Ids)'
        BY <2>5, StillOrder DEF TapBeforeSession, Redraw, firebaseVars, historyVars
    <2>6. CASE SystemStep(u)
        BY <2>6, ServerOrder, HandleOrder, DeliverEventOrder, ReconnectOrder DEF SystemStep
    <2>7. CASE Launch(u)
        BY <2>7, StillOrder DEF Launch, Observe, historyVars
    <2>8. ~TapDeleteSelf(u) /\ ~Kill(u) /\ ~Drop(u)
        BY <2>2 DEF TapDeleteSelf, Kill, ProcessGone, Drop
    <2> QED BY <2>1, <2>3, <2>4, <2>5, <2>6, <2>7, <2>8 DEF UserStep, WorldStep
<1> QED BY <1>1, <1>2

LEMMA InitOrderly == Init => Orderly
<1> SUFFICES ASSUME Init, NEW p \in Pairs, NEW id \in Ids
             PROVE  asker[id] # p
    BY DEF Orderly
<1> QED BY PairFacts DEF Init

LEMMA StepOrderly == Inv /\ Inv' /\ Right /\ Orderly /\ [Next]_vars => Orderly'
<1> SUFFICES ASSUME Inv, Inv', Right, Orderly, [Next]_vars, deaths' = 0, drops' = 0
             PROVE  AllInOrder(Ids)'
    BY DEF Orderly, AllInOrder
<1>1. deaths \in Nat /\ drops \in Nat
    BY InvParts DEF SessionTypeOK
<1>2. deaths' \in {deaths, deaths + 1} /\ drops' \in {drops, drops + 1}
    BY DeathsOnlyRise, DropsOnlyRise DEF vars, sessionVars
<1>3. deaths' = deaths /\ drops' = drops
    BY <1>1, <1>2
<1>4. AllInOrder(Ids)
    BY <1>3 DEF Orderly, AllInOrder
<1> QED BY <1>3, <1>4, StepOrder

LEMMA OrderlyAlways == Spec => [](Inv /\ Right /\ Orderly /\ FreshUnminted)
<1>1. Init => FreshUnminted
    BY InitFresh
<1>2. Inv /\ Right /\ FreshUnminted /\ [Next]_vars => FreshUnminted'
    BY StepHistory
<1> QED BY <1>1, <1>2, InitOrderly, StepOrderly, Invariance, RightAlways, PTL DEF Spec

LEMMA NothingUnapplied ==
    ASSUME NothingOutstanding, NEW w \in Users
    PROVE  \A i : i \notin Unapplied(w)
BY DEF NothingOutstanding, Unapplied

-----------------------------------------------------------------------------
(* A request that was taken back.  Only its asker's queue stores its id,   *)
(* behind every put that does stands one that takes it back, and when the  *)
(* server holds it, one that takes it back is still to be applied.  A lost *)
(* connection has every outstanding put applied again, in its order, and   *)
(* spoils nothing of that.                                                 *)

OnlyFrom(path, id, u) ==
    \A w \in Users : \A i \in DOMAIN writes[w] : Sets(writes[w][i], path, id) => w = u

Erased(path, id) ==
    /\ \A w \in Users : \A i \in DOMAIN writes[w] : Sets(writes[w][i], path, id) =>
        \E j \in DOMAIN writes[w] : j > i /\ Sets(writes[w][j], path, Nil)
    /\ db[path] = id => \E w \in Users : \E i \in Unapplied(w) : Sets(writes[w][i], path, Nil)

Retracted ==
    \A p \in Pairs : \A id \in Ids : asker[id] = p =>
        /\ OnlyFrom(Req(p[2], p[1]), id, p[1])
        /\ deaths = 0 /\ fate[id] = "unsent" => Erased(Req(p[2], p[1]), id)

(* What a put leaves of the queues, applied puts included. *)
LEMMA PutWrites ==
    ASSUME FirebaseInv, NEW u \in Users, NEW updates \in Seq(Updates), Put(u, updates)
    PROVE  /\ \A w \in Users : \A i \in DOMAIN writes[w] :
                i \in DOMAIN writes'[w] /\ writes'[w][i] = writes[w][i]
           /\ \A w \in Users : \A i \in DOMAIN writes'[w] :
                \/ i \in DOMAIN writes[w] /\ writes'[w][i] = writes[w][i]
                \/ w = u /\ \E k \in DOMAIN updates : writes'[w][i] = updates[k]
           /\ \A k \in DOMAIN updates :
                /\ Len(writes[u]) + k \in DOMAIN writes'[u]
                /\ writes'[u][Len(writes[u]) + k] = updates[k]
                /\ \A i \in DOMAIN writes[u] : Len(writes[u]) + k > i
<1>1. /\ \A w \in Users : w # u => writes'[w] = writes[w]
      /\ \A i \in DOMAIN writes[u] : i \in DOMAIN writes'[u] /\ writes'[u][i] = writes[u][i]
      /\ \A k \in DOMAIN updates :
            /\ Len(writes[u]) + k \in DOMAIN writes'[u]
            /\ writes'[u][Len(writes[u]) + k] = updates[k]
    BY PutQueue
<1>2. /\ DOMAIN writes[u] = 1..Len(writes[u]) /\ Len(writes[u]) \in Nat
      /\ DOMAIN updates = 1..Len(updates) /\ Len(updates) \in Nat
      /\ DOMAIN writes'[u] = 1..(Len(writes[u]) + Len(updates))
    <2>1. writes'[u] = writes[u] \o updates /\ writes[u] \in Seq(Updates)
        BY PutQueue, QueueFacts
    <2> QED BY <2>1, LenProperties, ConcatProperties
<1>3. ASSUME NEW i \in DOMAIN writes'[u], i \notin DOMAIN writes[u]
      PROVE  \E k \in DOMAIN updates : writes'[u][i] = updates[k]
    <2>1. i - Len(writes[u]) \in DOMAIN updates /\ i = Len(writes[u]) + (i - Len(writes[u]))
        BY <1>2, <1>3
    <2> QED BY <1>1, <2>1
<1>4. \A k \in DOMAIN updates : \A i \in DOMAIN writes[u] : Len(writes[u]) + k > i
    BY <1>2
<1> QED BY <1>1, <1>3, <1>4

LEMMA PutOnlyFrom ==
    ASSUME FirebaseInv, NEW u \in Users, NEW updates \in Seq(Updates), Put(u, updates),
           NEW path, NEW id, NEW v, OnlyFrom(path, id, v),
           u = v \/ \A k \in DOMAIN updates : ~Sets(updates[k], path, id)
    PROVE  OnlyFrom(path, id, v)'
BY PutWrites DEF OnlyFrom

LEMMA PutErased ==
    ASSUME FirebaseInv, NEW u \in Users, NEW updates \in Seq(Updates), Put(u, updates),
           NEW path, NEW id, Erased(path, id),
           \A k \in DOMAIN updates : ~Sets(updates[k], path, id)
    PROVE  Erased(path, id)'
<1>1. ASSUME NEW w \in Users, NEW i \in DOMAIN writes'[w], Sets(writes'[w][i], path, id)
      PROVE  \E j \in DOMAIN writes'[w] : j > i /\ Sets(writes'[w][j], path, Nil)
    <2>1. i \in DOMAIN writes[w] /\ writes'[w][i] = writes[w][i]
        BY <1>1, PutWrites
    <2>2. PICK j \in DOMAIN writes[w] : j > i /\ Sets(writes[w][j], path, Nil)
        BY <1>1, <2>1 DEF Erased
    <2> QED BY <2>2, PutWrites
<1>2. ASSUME NEW w \in Users, NEW i \in Unapplied(w), Sets(writes[w][i], path, Nil)
      PROVE  \E j \in Unapplied(w)' : Sets(writes'[w][j], path, Nil)
    BY <1>2, PutUnapplied
<1>3. db' = db
    BY PutQueue
<1> QED BY <1>1, <1>2, <1>3 DEF Erased

(* The put that takes back, behind every put that asks. *)
LEMMA PutErases ==
    ASSUME FirebaseInv, NEW u \in Users, NEW updates \in Seq(Updates), Put(u, updates),
           DOMAIN updates = {1}, NEW path, NEW id \in Ids, Sets(updates[1], path, Nil),
           OnlyFrom(path, id, u)
    PROVE  Erased(path, id)'
<1>1. ~Sets(updates[1], path, id)
    BY NilAssumption DEF Sets
<1> DEFINE last == Len(writes[u]) + 1
<1>2. /\ last \in DOMAIN writes'[u] /\ last \in Unapplied(u)'
      /\ Sets(writes'[u][last], path, Nil)
      /\ \A i \in DOMAIN writes[u] : last > i
    BY PutWrites, PutUnapplied
<1> HIDE DEF last
<1>3. ASSUME NEW w \in Users, NEW i \in DOMAIN writes'[w], Sets(writes'[w][i], path, id)
      PROVE  w = u /\ i \in DOMAIN writes[u]
    <2>1. i \in DOMAIN writes[w] /\ writes'[w][i] = writes[w][i]
        BY <1>1, <1>3, PutWrites
    <2> QED BY <1>3, <2>1 DEF OnlyFrom
<1> QED BY <1>2, <1>3 DEF Erased

LEMMA QueuesErased ==
    ASSUME FirebaseInv, NEW path, NEW id, Erased(path, id), SameQueues, UNCHANGED db
    PROVE  Erased(path, id)'
<1>1. ASSUME NEW w \in Users, NEW i \in DOMAIN writes'[w], Sets(writes'[w][i], path, id)
      PROVE  \E j \in DOMAIN writes'[w] : j > i /\ Sets(writes'[w][j], path, Nil)
    <2>1. PICK s \in {0, 1} : Shifted(w, s)
        BY DEF SameQueues
    <2>2. i \in Nat /\ i + s \in DOMAIN writes[w] /\ writes'[w][i] = writes[w][i + s]
        BY <2>1 DEF Shifted
    <2>3. PICK j \in DOMAIN writes[w] : j > i + s /\ Sets(writes[w][j], path, Nil)
        BY <1>1, <2>2 DEF Erased
    <2>4. j \in Nat /\ j > s /\ j - s > i
        BY <2>2, <2>3, QueueFacts
    <2>5. j - s \in DOMAIN writes'[w] /\ writes'[w][j - s] = writes[w][j]
        BY <2>1, <2>3, <2>4 DEF Shifted
    <2> QED BY <2>3, <2>4, <2>5
<1>2. ASSUME NEW w \in Users, NEW i \in Unapplied(w), Sets(writes[w][i], path, Nil)
      PROVE  \E j \in Unapplied(w)' : Sets(writes'[w][j], path, Nil)
    <2>1. PICK s \in {0, 1} : Shifted(w, s)
        BY DEF SameQueues
    <2>2. i - s \in Unapplied(w)' /\ writes'[w][i - s] = writes[w][i]
        BY <1>2, <2>1 DEF Shifted
    <2> QED BY <1>2, <2>2
<1> QED BY <1>1, <1>2 DEF Erased

LEMMA ApplyErased ==
    ASSUME FirebaseInv, NEW path \in Paths, NEW id \in Ids, Erased(path, id),
           NEW u \in Users, ServerApply(u)
    PROVE  Erased(path, id)'
<1> DEFINE n == applied[u] + 1
<1>1. \A w \in Users : \A i \in DOMAIN writes'[w] : Sets(writes'[w][i], path, id) =>
        \E j \in DOMAIN writes'[w] : j > i /\ Sets(writes'[w][j], path, Nil)
    BY ApplyUnapplied DEF Erased
<1>2. ASSUME db'[path] = id
      PROVE  \E w \in Users : \E i \in Unapplied(w)' : Sets(writes'[w][i], path, Nil)
    <2>1. /\ n \in Unapplied(u) /\ n \in DOMAIN writes[u] /\ n \in Nat
          /\ db' = Lay(db, writes[u][n]) /\ path \in DOMAIN db
        BY ApplyUnapplied, QueueFacts DEF FirebaseInv, FirebaseTypeOK, Trees, Unapplied
    <2>2. CASE Sets(writes[u][n], path, id)
        <3>1. PICK j \in DOMAIN writes[u] : j > n /\ Sets(writes[u][j], path, Nil)
            BY <2>1, <2>2 DEF Erased
        <3>2. j \in Unapplied(u) /\ j # n
            BY <3>1, QueueFacts DEF Unapplied
        <3>3. j \in Unapplied(u)' /\ writes' = writes
            BY <3>2, ApplyUnapplied
        <3> QED BY <3>1, <3>3
    <2>3. CASE ~Sets(writes[u][n], path, id)
        <3>1. path \notin DOMAIN writes[u][n] /\ db[path] = id
            BY <1>2, <2>1, <2>3, LayPoint DEF Sets
        <3>2. PICK w \in Users : \E i \in Unapplied(w) : Sets(writes[w][i], path, Nil)
            BY <3>1 DEF Erased
        <3>3. PICK i \in Unapplied(w) : Sets(writes[w][i], path, Nil)
            BY <3>2
        <3>4. w = u => i # n
            BY <3>1, <3>3 DEF Sets
        <3>5. i \in Unapplied(w)' /\ writes' = writes
            BY <3>4, ApplyUnapplied
        <3> QED BY <3>3, <3>5
    <2> QED BY <2>2, <2>3
<1> QED BY <1>1, <1>2 DEF Erased

(* A connection that is lost makes every outstanding put one to come. *)
LEMMA LinkErased ==
    ASSUME FirebaseInv, NEW path, NEW id, Erased(path, id), NEW u \in Users,
           LoseConnection(u) \/ Connect(u) \/ Observe(u)
    PROVE  Erased(path, id)'
<1>1. /\ UNCHANGED <<db, writes>>
      /\ \A w \in Users : applied'[w] = applied[w] \/ applied'[w] = 0
    BY DEF LoseConnection, Connect, Observe, FirebaseInv, FirebaseTypeOK
<1>2. ASSUME NEW w \in Users, NEW i \in Unapplied(w)
      PROVE  i \in Unapplied(w)'
    <2>1. i \in DOMAIN writes[w] /\ i > applied[w] /\ applied[w] \in Nat /\ i \in Nat
        BY <1>2, QueueFacts DEF Unapplied
    <2>2. i > applied'[w]
        BY <1>1, <2>1
    <2> QED BY <1>1, <2>1, <2>2 DEF Unapplied
<1> QED BY <1>1, <1>2 DEF Erased

-----------------------------------------------------------------------------
(* Every step keeps that. *)

(* A put that asks for nothing, of a tap that takes nothing back. *)
LEMMA QuietPutRetracted ==
    ASSUME Inv, Retracted, NEW u \in Users, NEW updates \in Seq(Updates), Put(u, updates),
           UNCHANGED <<asker, deaths>>,
           \A id \in Ids : fate'[id] = "unsent" => fate[id] = "unsent",
           \A k \in DOMAIN updates : \A p \in Pairs : \A id \in Ids :
                ~Sets(updates[k], Req(p[2], p[1]), id)
    PROVE  Retracted'
<1> SUFFICES ASSUME NEW p \in Pairs, NEW id \in Ids, asker[id] = p
             PROVE  /\ OnlyFrom(Req(p[2], p[1]), id, p[1])'
                    /\ deaths = 0 /\ fate'[id] = "unsent" => Erased(Req(p[2], p[1]), id)'
    BY DEF Retracted
<1>1. PICK path : path = Req(p[2], p[1])
    OBVIOUS
<1>2. \A k \in DOMAIN updates : ~Sets(updates[k], path, id)
    BY <1>1
<1>3. /\ OnlyFrom(path, id, p[1])
      /\ deaths = 0 /\ fate'[id] = "unsent" => Erased(path, id)
    BY <1>1 DEF Retracted
<1>4. OnlyFrom(path, id, p[1])' /\ (deaths = 0 /\ fate'[id] = "unsent" => Erased(path, id)')
    BY <1>2, <1>3, InvParts, PutOnlyFrom, PutErased
<1> QED BY <1>1, <1>4

(* The other steps put nothing. *)
LEMMA WireRetracted ==
    ASSUME Inv, Retracted, NEW u \in Users, UNCHANGED <<asker, fate, deaths>>,
           \/ ServerApply(u) \/ Receive(u)
           \/ LoseConnection(u) \/ Connect(u) \/ Observe(u)
    PROVE  Retracted'
<1> SUFFICES ASSUME NEW p \in Pairs, NEW id \in Ids, asker[id] = p
             PROVE  /\ OnlyFrom(Req(p[2], p[1]), id, p[1])'
                    /\ deaths = 0 /\ fate[id] = "unsent" => Erased(Req(p[2], p[1]), id)'
    BY DEF Retracted
<1>1. PICK path : path = Req(p[2], p[1])
    OBVIOUS
<1>2. path \in Paths /\ FirebaseInv
    BY <1>1, PairLeaves, UserPathsArePaths, InvParts
<1>3. /\ OnlyFrom(path, id, p[1])
      /\ deaths = 0 /\ fate[id] = "unsent" => Erased(path, id)
    BY <1>1 DEF Retracted
<1>4. CASE Receive(u)
    <2>1. SameQueues /\ UNCHANGED db
        BY <1>2, <1>4, ReceiveQueues DEF Receive
    <2>2. ASSUME NEW w \in Users, NEW i \in DOMAIN writes'[w]
          PROVE  \E j \in DOMAIN writes[w] : writes'[w][i] = writes[w][j]
        <3>1. PICK s \in {0, 1} : Shifted(w, s)
            BY <2>1 DEF SameQueues
        <3> QED BY <2>2, <3>1 DEF Shifted
    <2>3. OnlyFrom(path, id, p[1])'
        BY <1>3, <2>2 DEF OnlyFrom
    <2> QED BY <1>1, <1>2, <1>3, <2>1, <2>3, QueuesErased
<1>5. CASE ServerApply(u)
    <2>1. OnlyFrom(path, id, p[1])'
        BY <1>2, <1>3, <1>5, ApplyUnapplied DEF OnlyFrom
    <2> QED BY <1>1, <1>2, <1>3, <1>5, <2>1, ApplyErased
<1>6. CASE LoseConnection(u) \/ Connect(u) \/ Observe(u)
    <2>1. OnlyFrom(path, id, p[1])'
        BY <1>3, <1>6 DEF OnlyFrom, LoseConnection, Connect, Observe
    <2> QED BY <1>1, <1>2, <1>3, <1>6, <2>1, LinkErased
<1> QED BY <1>4, <1>5, <1>6

LEMMA StillRetracted ==
    ASSUME Retracted, UNCHANGED <<db, writes, applied, asker, fate, deaths>>
    PROVE  Retracted'
BY DEF Retracted, OnlyFrom, Erased, Unapplied

LEMMA ProcessGoneRetracted ==
    ASSUME Inv, Retracted, NEW u \in Users, NEW why, ProcessGone(u, why)
    PROVE  Retracted'
<1>1. /\ asker' = asker /\ deaths' = deaths + 1 /\ deaths \in Nat
      /\ \A w \in Users : writes'[w] = writes[w] \/ writes'[w] = <<>>
    BY InvParts DEF ProcessGone, EndProcess, historyVars, SessionTypeOK, FirebaseInv, FirebaseTypeOK
<1>2. ASSUME NEW p \in Pairs, NEW id \in Ids, asker[id] = p
      PROVE  OnlyFrom(Req(p[2], p[1]), id, p[1])'
    <2>1. OnlyFrom(Req(p[2], p[1]), id, p[1])
        BY <1>2 DEF Retracted
    <2> QED BY <1>1, <2>1 DEF OnlyFrom
<1>3. deaths' # 0
    BY <1>1
<1> QED BY <1>1, <1>2, <1>3 DEF Retracted

LEMMA TakeBackRetracted ==
    ASSUME Inv, Retracted, NEW u \in Users, NEW v \in Others(u),
           TapUnsend(u, v) \/ TapToggled(u, v)
    PROVE  Retracted'
<1> DEFINE update == removePending(u, v)
           updates == <<update>>
<1>1. Put(u, updates) /\ TakeBack(u, v) /\ UNCHANGED deaths
    BY DEF TapUnsend, TapToggled
<1>2. /\ update \in Updates /\ Sets(update, Req(v, u), Nil)
      /\ \A id \in Ids : \A path : ~Sets(update, path, id)
    BY RemovalUpdates, RemovalsSetNothing DEF Sets, removePending
<1> HIDE DEF update
<1>3. /\ updates \in Seq(Updates) /\ DOMAIN updates = {1} /\ updates[1] = update
    BY <1>2
<1> HIDE DEF updates
<1>4. ASSUME NEW p \in Pairs, NEW id \in Ids, asker'[id] = p
      PROVE  /\ OnlyFrom(Req(p[2], p[1]), id, p[1])'
             /\ deaths' = 0 /\ fate'[id] = "unsent" => Erased(Req(p[2], p[1]), id)'
    <2>1. /\ asker[id] = p
          /\ fate'[id] = fate[id] \/ asker[id] = <<u, v>>
        BY <1>1, <1>4, TakenBack
    <2>2. PICK path : path = Req(p[2], p[1])
        OBVIOUS
    <2>3. \A k \in DOMAIN updates : ~Sets(updates[k], path, id)
        BY <1>2, <1>3
    <2>4. /\ OnlyFrom(path, id, p[1])
          /\ deaths = 0 /\ fate[id] = "unsent" => Erased(path, id)
        BY <2>1, <2>2 DEF Retracted
    <2>5. OnlyFrom(path, id, p[1])'
        BY <1>1, <1>3, <2>3, <2>4, InvParts, PutOnlyFrom
    <2>6. CASE fate'[id] = fate[id]
        <3>1. deaths' = 0 /\ fate'[id] = "unsent" => Erased(path, id)'
            BY <1>1, <1>3, <2>3, <2>4, <2>6, InvParts, PutErased
        <3> QED BY <2>2, <2>5, <3>1
    <2>7. CASE asker[id] = <<u, v>>
        <3>1. p[1] = u /\ p[2] = v
            BY <2>1, <2>7
        <3>2. Sets(updates[1], path, Nil) /\ OnlyFrom(path, id, u)
            BY <1>2, <1>3, <2>2, <2>4, <3>1
        <3>3. Erased(path, id)'
            BY <1>1, <1>3, <3>2, InvParts, PutErases
        <3> QED BY <2>2, <2>5, <3>3
    <2> QED BY <2>1, <2>6, <2>7
<1> QED BY <1>4 DEF Retracted

LEMMA TapAddRetracted ==
    ASSUME Inv, Right, Retracted, NEW u \in Users, NEW v \in Others(u), TapAdd(u, v)
    PROVE  Retracted'
<1>1. PICK new \in Ids :
        /\ asker[new] = Nil
        /\ Put(u, <<addPending(u, v, new)>>)
        /\ asker' = [asker EXCEPT ![new] = <<u, v>>]
        /\ fate' = [fate EXCEPT ![new] = "asked"]
    BY DEF TapAdd
<1> DEFINE one == addPending(u, v, new)
           updates == <<one>>
<1>2. Put(u, updates) /\ deaths' = deaths
    BY <1>1 DEF TapAdd
<1>3. one \in Updates
    BY TapUpdates
<1>4. \A p \in Pairs : \A id \in Ids : Sets(one, Req(p[2], p[1]), id) => id = new
    BY AddPendingSets
<1> HIDE DEF one
<1>5. /\ updates \in Seq(Updates) /\ DOMAIN updates = {1} /\ updates[1] = one
    BY <1>3
<1> HIDE DEF updates
<1>6. /\ \A id \in Ids \ {new} : fate'[id] = fate[id] /\ asker'[id] = asker[id]
      /\ fate'[new] = "asked" /\ asker'[new] = <<u, v>>
    BY <1>1, InvParts DEF SessionTypeOK
<1>7. ASSUME NEW p \in Pairs, NEW id \in Ids, asker'[id] = p
      PROVE  /\ OnlyFrom(Req(p[2], p[1]), id, p[1])'
             /\ deaths' = 0 /\ fate'[id] = "unsent" => Erased(Req(p[2], p[1]), id)'
    <2>1. PICK path : path = Req(p[2], p[1])
        OBVIOUS
    <2>2. CASE id # new
        <3>1. \A k \in DOMAIN updates : ~Sets(updates[k], path, id)
            BY <1>4, <1>5, <2>1, <2>2
        <3>2. /\ OnlyFrom(path, id, p[1])
              /\ deaths = 0 /\ fate'[id] = "unsent" => Erased(path, id)
            BY <1>6, <1>7, <2>1, <2>2 DEF Retracted
        <3>3. /\ OnlyFrom(path, id, p[1])'
              /\ deaths = 0 /\ fate'[id] = "unsent" => Erased(path, id)'
            BY <1>2, <1>5, <3>1, <3>2, InvParts, PutOnlyFrom, PutErased
        <3> QED BY <1>2, <2>1, <3>3
    <2>3. CASE id = new
        <3>1. p[1] = u
            BY <1>6, <1>7, <2>3
        <3>2. ~Fits(asker, Accepted, path, id)
            BY <1>1, <2>1, <2>3, NilAssumption DEF Fits, Req
        <3>3. path \in UserPaths(p[2]) /\ p[2] \in Users
            BY <2>1, PairLeaves
        <3>4. \A w \in Users : \A i \in DOMAIN writes[w] : ~Sets(writes[w][i], path, id)
            BY <3>2, <3>3, Misfit
        <3>5. OnlyFrom(path, id, u)
            BY <3>4 DEF OnlyFrom
        <3>6. OnlyFrom(path, id, u)'
            BY <1>2, <1>5, <3>5, InvParts, PutOnlyFrom
        <3> QED BY <1>6, <2>1, <2>3, <3>1, <3>6
    <2> QED BY <2>2, <2>3
<1> QED BY <1>7 DEF Retracted

(* The taps that answer and the one that deletes ask for nothing. *)
LEMMA TapAnswersRetracted ==
    ASSUME Inv, Right, Retracted, NEW u \in Users, NEW v \in Others(u),
           TapDelete(u, v) \/ TapAccept(u, v) \/ TapDecline(u, v)
    PROVE  Retracted'
<1>1. CASE \E why : ProcessGone(u, why)
    BY <1>1, ProcessGoneRetracted
<1>2. CASE ~\E why : ProcessGone(u, why)
    <2>1. PICK updates \in Seq(Updates) :
            /\ Put(u, updates) /\ UNCHANGED <<asker, deaths>>
            /\ \A k \in DOMAIN updates : \A p \in Pairs : \A id \in Ids :
                    ~Sets(updates[k], Req(p[2], p[1]), id)
        <3>1. CASE TapDelete(u, v)
            <4> DEFINE id == session[u][Rel(u, v)]
            <4>1. id # Nil /\ session[u] # NoSession
                BY <1>2, <3>1 DEF TapDelete
            <4>2. id \in Ids
                BY <4>1, SessionIds DEF Accepted
            <4>3. Put(u, <<deleteRelationship(u, v, id)>>) /\ UNCHANGED <<asker, deaths>>
                BY <3>1, <4>1 DEF TapDelete
            <4> HIDE DEF id
            <4>4. deleteRelationship(u, v, id) \in Updates
                BY <4>2, TapUpdates
            <4>5. \A other \in Ids : \A path : ~Sets(deleteRelationship(u, v, id), path, other)
                BY <4>2, RemovalsSetNothing
            <4>6. PICK puts : puts = <<deleteRelationship(u, v, id)>>
                OBVIOUS
            <4>7. /\ puts \in Seq(Updates) /\ Put(u, puts)
                  /\ \A k \in DOMAIN puts : puts[k] = deleteRelationship(u, v, id)
                BY <4>3, <4>4, <4>6
            <4>8. \A k \in DOMAIN puts : \A p \in Pairs : \A other \in Ids :
                    ~Sets(puts[k], Req(p[2], p[1]), other)
                BY <4>5, <4>7
            <4> QED BY <4>3, <4>7, <4>8
        <3>2. CASE TapAccept(u, v)
            <4> DEFINE id == session[u][Req(u, v)]
            <4>1. id # Nil /\ session[u] # NoSession
                BY <1>2, <3>2 DEF TapAccept
            <4>2. id \in Ids
                BY <4>1, SessionIds
            <4>3. /\ Put(u, <<removeRequest(u, v), addRelationship(u, v, id)>>)
                  /\ UNCHANGED <<asker, deaths>>
                BY <3>2, <4>1 DEF TapAccept
            <4> HIDE DEF id
            <4>4. removeRequest(u, v) \in Updates /\ addRelationship(u, v, id) \in Updates
                BY <4>2, TapUpdates, RemovalUpdates
            <4>5. \A other \in Ids : \A path : ~Sets(removeRequest(u, v), path, other)
                BY <4>2, RemovalsSetNothing
            <4>6. \A p \in Pairs : \A other \in Ids :
                    ~Sets(addRelationship(u, v, id), Req(p[2], p[1]), other)
                BY <4>2, AddRelationshipSets
            <4>7. PICK puts : puts = <<removeRequest(u, v), addRelationship(u, v, id)>>
                OBVIOUS
            <4>8. /\ puts \in Seq(Updates) /\ Put(u, puts)
                  /\ \A k \in DOMAIN puts :
                        puts[k] = removeRequest(u, v) \/ puts[k] = addRelationship(u, v, id)
                BY <4>3, <4>4, <4>7
            <4>9. \A k \in DOMAIN puts : \A p \in Pairs : \A other \in Ids :
                    ~Sets(puts[k], Req(p[2], p[1]), other)
                BY <4>5, <4>6, <4>8
            <4> QED BY <4>3, <4>8, <4>9
        <3>3. CASE TapDecline(u, v)
            <4>1. Put(u, <<removeRequest(u, v)>>) /\ UNCHANGED <<asker, deaths>>
                BY <3>3 DEF TapDecline
            <4>2. removeRequest(u, v) \in Updates
                BY RemovalUpdates
            <4>3. \A other \in Ids : \A path : ~Sets(removeRequest(u, v), path, other)
                BY RemovalsSetNothing
            <4>4. PICK puts : puts = <<removeRequest(u, v)>>
                OBVIOUS
            <4>5. /\ puts \in Seq(Updates) /\ Put(u, puts)
                  /\ \A k \in DOMAIN puts : puts[k] = removeRequest(u, v)
                BY <4>1, <4>2, <4>4
            <4>6. \A k \in DOMAIN puts : \A p \in Pairs : \A other \in Ids :
                    ~Sets(puts[k], Req(p[2], p[1]), other)
                BY <4>3, <4>5
            <4> QED BY <4>1, <4>5, <4>6
        <3> QED BY <3>1, <3>2, <3>3
    <2>2. \A id \in Ids : fate'[id] = "unsent" => fate[id] = "unsent"
        <3>1. CASE TapDelete(u, v)
            BY <1>2, <3>1, InvParts DEF TapDelete, SessionTypeOK, AfterDelete
        <3>2. CASE TapAccept(u, v)
            BY <1>2, <3>2, InvParts DEF TapAccept, SessionTypeOK, AfterAccept
        <3>3. CASE TapDecline(u, v)
            BY <3>3 DEF TapDecline
        <3> QED BY <3>1, <3>2, <3>3
    <2> QED BY <2>1, <2>2, QuietPutRetracted
<1> QED BY <1>1, <1>2

LEMMA StepRetracted == Inv /\ Right /\ Retracted /\ [Next]_vars => Retracted'
<1> SUFFICES ASSUME Inv, Right, Retracted, [Next]_vars PROVE Retracted'
    OBVIOUS
<1>1. CASE UNCHANGED vars
    BY <1>1, StillRetracted DEF vars, firebaseVars, sessionVars
<1>2. CASE Next
    <2>1. PICK u \in Users : UserStep(u) \/ SystemStep(u) \/ WorldStep(u)
        BY <1>2 DEF Next
    <2>2. CASE TapDeleteSelf(u) \/ Kill(u)
        BY <2>2, ProcessGoneRetracted DEF TapDeleteSelf, Kill
    <2>3. ASSUME NEW v \in Others(u),
                 \/ TapDelete(u, v) \/ TapUnsend(u, v)
                 \/ TapAccept(u, v) \/ TapDecline(u, v)
                 \/ TapAdd(u, v) \/ TapToggled(u, v)
          PROVE  Retracted'
        BY <2>3, TapAnswersRetracted, TakeBackRetracted, TapAddRetracted
    <2>4. ASSUME NEW v \in Others(u), TapBeforeSession(u, v) \/ Redraw(u, v)
          PROVE  Retracted'
        BY <2>4, StillRetracted DEF TapBeforeSession, Redraw, firebaseVars, historyVars
    <2>5. CASE Apply(u) \/ Handle(u) \/ Reconnect(u)
        BY <2>5, WireRetracted DEF Apply, Handle, Reconnect, sessionVars
    <2>6. CASE DeliverEvent(u)
        BY <2>6, StillRetracted DEF DeliverEvent, historyVars
    <2>7. CASE Drop(u) \/ Launch(u)
        BY <2>7, WireRetracted DEF Drop, Launch, historyVars
    <2> QED BY <2>1, <2>2, <2>3, <2>4, <2>5, <2>6, <2>7 DEF UserStep, SystemStep, WorldStep
<1> QED BY <1>1, <1>2

LEMMA InitRetracted == Init => Retracted
<1> SUFFICES ASSUME Init, NEW p \in Pairs, NEW id \in Ids
             PROVE  asker[id] # p
    BY DEF Retracted
<1> QED BY PairFacts DEF Init

(* A request in the askee's node was minted for the two it stands between. *)
LEMMA StoredRequest ==
    ASSUME Inv, Right, NEW p \in Pairs, NEW id \in Ids, db[Req(p[1], p[2])] = id
    PROVE  asker[id] = <<p[2], p[1]>> /\ <<p[2], p[1]>> \in Pairs
<1>1. <<p[2], p[1]>> \in Pairs /\ p[1] \in Users /\ p[2] \in Users
    BY PairFacts
<1>2. Req(p[1], p[2]) \in DOMAIN db
    BY <1>1, PairFacts, PairPaths, UserPathsArePaths DEF Inv, TypeOK, FirebaseTypeOK, Trees
<1>3. Fits(asker, Accepted, Req(p[1], p[2]), id)
    BY <1>2 DEF Right, AllRight, ServerRight, Fitting
<1> QED BY <1>1, <1>3, NilAssumption DEF Fits, Req

(* As long as no process ends, a request that was taken back is not in the *)
(* askee's node when every put has been applied, whatever connections were *)
(* lost on the way: what asks is never applied last.                       *)
THEOREM UnsentStand == Spec => []UnsentStaysUnsent
<1>1. Inv /\ Right /\ Retracted => UnsentStaysUnsent
    <2> SUFFICES ASSUME Inv, Right, Retracted, deaths = 0, NothingOutstanding,
                        NEW p \in Pairs, NEW id \in Ids, db[Req(p[1], p[2])] = id,
                        fate[id] = "unsent"
                 PROVE  FALSE
        BY DEF UnsentStaysUnsent
    <2> DEFINE q == <<p[2], p[1]>>
    <2>1. asker[id] = q /\ q \in Pairs /\ q[1] = p[2] /\ q[2] = p[1]
        BY StoredRequest
    <2> HIDE DEF q
    <2>2. Erased(Req(p[1], p[2]), id)
        BY <2>1 DEF Retracted
    <2> QED BY <2>2, NothingUnapplied DEF Erased
<1> QED BY <1>1, InitRetracted, StepRetracted, Invariance, RightAlways, PTL DEF Spec

(* As long as no process ends and no connection is lost, a request that    *)
(* was accepted, declined or taken back has left the askee's node when     *)
(* every put has been applied: the put that stored it cannot come after    *)
(* the answer, nor after the one that took it back.                        *)
THEOREM AnswersStand == Spec => []AnsweredStaysAnswered
<1>1. Inv /\ Right /\ Orderly /\ FreshUnminted /\ UnsentStaysUnsent => AnsweredStaysAnswered
    <2> SUFFICES ASSUME Inv, Right, Orderly, FreshUnminted, UnsentStaysUnsent,
                        deaths = 0, drops = 0, NothingOutstanding,
                        NEW p \in Pairs, NEW id \in Ids, db[Req(p[1], p[2])] = id
                 PROVE  fate[id] = "asked"
        BY DEF AnsweredStaysAnswered
    <2> DEFINE q == <<p[2], p[1]>>
    <2>1. /\ asker[id] = q /\ q \in Pairs /\ q[1] = p[2] /\ q[2] = p[1]
          /\ p[1] \in Users /\ p[2] \in Users
        BY StoredRequest, PairFacts
    <2> HIDE DEF q
    <2>2. InOrder(q, id)
        BY <2>1 DEF Orderly
    <2>3. ~Answered(p[2], p[1], id)
        BY <2>1, NothingUnapplied DEF Answered
    <2>4. fate[id] \in {"fresh", "asked", "unsent"}
        BY <2>1, <2>2, <2>3 DEF InOrder
    <2>5. fate[id] # "unsent"
        BY DEF UnsentStaysUnsent
    <2>6. fate[id] # "fresh"
        BY <2>1, PairFacts DEF FreshUnminted
    <2> QED BY <2>4, <2>5, <2>6
<1> QED BY <1>1, OrderlyAlways, UnsentStand, PTL

(* The room of a deleted relationship is gone when every put has been      *)
(* applied: no accept of the same id comes after the delete.               *)
THEOREM PartingsStand == Spec => []PartedStaysParted
<1>1. Inv /\ Right /\ Orderly /\ FreshUnminted => PartedStaysParted
    <2> SUFFICES ASSUME Inv, Right, Orderly, FreshUnminted, deaths = 0, drops = 0,
                        NothingOutstanding, NEW id \in Ids, fate[id] = "parted"
                 PROVE  db[Room(id)] = Nil
        BY DEF PartedStaysParted
    <2>1. asker[id] \in Pairs
        BY InvParts DEF FreshUnminted, SessionTypeOK
    <2>2. Parted(id)
        BY <2>1 DEF Orderly, InOrder
    <2> QED BY <2>2, NothingUnapplied DEF Parted
<1> QED BY <1>1, OrderlyAlways, PTL

=============================================================================
