------------------------ MODULE SessionStoreProperties ------------------------
(***************************************************************************)
(* What SessionStore, DatabaseManager and the Firebase client have to keep *)
(* true together, and the claims of the source that do not hold.           *)
(***************************************************************************)
EXTENDS SessionStore

(* The two users an id was minted for. *)
Between(id) == IF asker[id] = Nil THEN {} ELSE {asker[id][1], asker[id][2]}

(* The askee has accepted this id. *)
Consented(id) == fate[id] \in {"accepted", "parted", "again"}

(* No put is on its way: what the server holds is what will remain. *)
NothingOutstanding == \A u \in Users : writes[u] = <<>>

(* Nobody's client has anything left to do. *)
Settled(u) ==
    /\ app[u] = "running" /\ link[u] = "up" /\ listen[u] = "live"
    /\ down[u] = <<>> /\ events[u] = <<>>

-----------------------------------------------------------------------------
(* Both users' nodes tell the same story at every moment: a request is in  *)
(* the asker's pending and the askee's requests under one id, and a        *)
(* relationship is in both users' relationships under one id.  Every       *)
(* update of DatabaseManager writes both sides in one call.                *)
MirroredNodes ==
    \A p \in Pairs :
        /\ db[Pend(p[1], p[2])] = db[Req(p[2], p[1])]
        /\ db[Rel(p[1], p[2])] = db[Rel(p[2], p[1])]

(* An id stored between two users was minted by one of them for the other, *)
(* in that direction, and a relationship's id was accepted by the askee:   *)
(* nobody is related to a user who did not agree, whatever the order in    *)
(* which taps of both sides, stale rows and puts sent twice meet.          *)
ConsentedRelationship ==
    \A p \in Pairs :
        /\ db[Pend(p[1], p[2])] # Nil => asker[db[Pend(p[1], p[2])]] = p
        /\ db[Rel(p[1], p[2])] # Nil =>
            /\ Consented(db[Rel(p[1], p[2])])
            /\ Between(db[Rel(p[1], p[2])]) = {p[1], p[2]}

(* A relationship always has its room, and the room is theirs: no order of *)
(* accepts and deletes (also of an id the deleter's session holds though   *)
(* the server has another) leaves an entry that points to no room.         *)
NoDanglingRelationship ==
    \A p \in Pairs : \A id \in Ids :
        db[Rel(p[1], p[2])] = id => db[Room(id)] = {p[1], p[2]}

(* The session never falls behind for good: after the events on the main   *)
(* queue it is exactly the client's view, although every tap changes it in *)
(* place and events raised before the tap overwrite it afterwards.         *)
NothingMissed ==
    \A u \in Users : listen[u] = "live" =>
        View(u) = IF events[u] = <<>> THEN session[u] ELSE events[u][Len(events[u])]

(* When everything has been delivered and every put applied, the sessions  *)
(* show what the server holds.                                             *)
SettledAgreement ==
    \A u \in Users : NothingOutstanding /\ Settled(u) =>
        /\ session[u] = Under(u, db)
        /\ shown[u] = Rows(session[u], u)

(* A request accepted once leads to a room that stays until someone        *)
(* deletes the relationship, through lost connections and puts sent twice. *)
AcceptedGetsRoom ==
    deaths = 0 /\ NothingOutstanding =>
        \A id \in Ids : fate[id] = "accepted" => db[Room(id)] # Nil

(* A request that was accepted, declined or taken back by its asker does   *)
(* not come back.                                                          *)
AnsweredStaysAnswered ==
    deaths = 0 /\ drops = 0 /\ NothingOutstanding =>
        \A p \in Pairs : \A id \in Ids :
            db[Req(p[1], p[2])] = id => fate[id] = "asked"

(* A request its asker took back stays away, also when the puts are sent   *)
(* again after a lost connection: the one that asked arrives again only    *)
(* with the one that takes it back behind it, and nothing another user     *)
(* does brings it back.                                                    *)
UnsentStaysUnsent ==
    deaths = 0 /\ NothingOutstanding =>
        \A p \in Pairs : \A id \in Ids :
            db[Req(p[1], p[2])] = id => fate[id] # "unsent"

(* The room of a relationship somebody deleted stays deleted, unless its   *)
(* request came back to the askee's screen and was accepted again.         *)
PartedStaysParted ==
    deaths = 0 /\ drops = 0 /\ NothingOutstanding =>
        \A id \in Ids : fate[id] = "parted" => db[Room(id)] = Nil

-----------------------------------------------------------------------------
(* What the source says of itself and the code does not keep: each has a   *)
(* run of its own whose counterexample shows how it breaks.                *)

(* deleteRelationShip and acceptRequest cast the dictionary's entry with   *)
(* as!, which asserts that a row with their button has the entry.          *)
CastsSucceed == \A u \in Users : app[u] # "nil_cast"

(* acceptRequest: "Once request is no longer waiting, it is officially a   *)
(* relationship": an accepted request the server no longer holds has its   *)
(* room when nothing is on its way.                                        *)
AcceptedIsRelationship ==
    NothingOutstanding =>
        \A id \in Ids : \A p \in Pairs :
            fate[id] = "accepted" /\ asker[id] = p /\ db[Req(p[2], p[1])] = Nil =>
                db[Room(id)] # Nil

-----------------------------------------------------------------------------
(* The ledger this system implements.  A cell the tree holds twice is torn *)
(* when the two copies differ, and no ledger has a torn cell.              *)
Torn == "torn"

Both(x, y) == IF x = y THEN x ELSE Torn

PairOf(couple) == CHOOSE p \in Pairs : {p[1], p[2]} = couple

Ledger == INSTANCE RelationshipLedger WITH
    issued <- asker,
    consented <- {id \in Ids : Consented(id)},
    ask <- [p \in Pairs |-> Both(db[Pend(p[1], p[2])], db[Req(p[2], p[1])])],
    bond <- [c \in Couples |->
                Both(db[Rel(PairOf(c)[1], PairOf(c)[2])], db[Rel(PairOf(c)[2], PairOf(c)[1])])],
    members <- [id \in Ids |-> db[Room(id)]]

(* Every step of the devices and the server is one ledger step or none. *)
LedgerSpec == Ledger!Spec

-----------------------------------------------------------------------------
(* Once the users stop, every running client that observes its node ends   *)
(* with a session and rows that show what the server holds.                *)
Agreement ==
    \A u \in Users : app[u] = "running" /\ listen[u] # "none" =>
        /\ session[u] = Under(u, db)
        /\ shown[u] = Rows(session[u], u)
        /\ writes[u] = <<>>

EventualAgreement == <>[]Agreement

=============================================================================
