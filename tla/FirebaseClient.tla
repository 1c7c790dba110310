---------------------------- MODULE FirebaseClient ----------------------------
(***************************************************************************)
(* The realtime database and the Firebase client each device runs, as far  *)
(* as the relationships are concerned: the server's tree, the outstanding  *)
(* puts of each client, the connection that carries them, the client's     *)
(* cache of its own users/<u> node and the value events it raises.         *)
(*                                                                         *)
(* Delivery is the client's: puts are sent in order and applied in order,  *)
(* acknowledgements and data pushes come back in the order the server sent *)
(* them, a lost connection loses what was on its way, and on reconnection  *)
(* every put without an acknowledgement is sent again, also when the       *)
(* server had applied it.  The app turns no disk persistence on, so the    *)
(* outstanding puts die with the process.                                  *)
(*                                                                         *)
(* A data push and the acknowledgement of the put that caused it are one   *)
(* message here: the server sends them one after the other, and between    *)
(* them the client's view is the same, since the put still lies over its   *)
(* cache.                                                                  *)
(***************************************************************************)
EXTENDS RelationshipTree, FiniteSets

VARIABLES
    db,       \* the server's tree
    cache,    \* cache[u]: the client's copy of users/<u>
    writes,   \* writes[u]: the puts without an acknowledgement, oldest first
    applied,  \* applied[u]: how many of them this connection's server has applied
    down,     \* down[u]: messages on their way from the server
    events,   \* events[u]: snapshots dispatched to the app's main queue
    listen,   \* listen[u]: "none", "waiting" (for its first data) or "live"
    link      \* link[u]: "up" or "down"

firebaseVars == <<db, cache, writes, applied, down, events, listen, link>>

-----------------------------------------------------------------------------
(* Every update some DatabaseManager method can send. *)
Updates ==
    UNION {
        { addRelationship(p[1], p[2], id) : p \in Pairs, id \in Ids },
        { deleteRelationship(p[1], p[2], id) : p \in Pairs, id \in Ids },
        { addPending(p[1], p[2], id) : p \in Pairs, id \in Ids },
        { removePending(p[1], p[2]) : p \in Pairs },
        { removeRequest(p[1], p[2]) : p \in Pairs } }

Pushes(u) == { Under(u, update) : update \in Updates \cup {NoUpdate} } \cup UserTrees(u)

Messages(u) == [ack : BOOLEAN, data : Pushes(u)]

FirebaseTypeOK ==
    /\ db \in Trees
    /\ DOMAIN cache = Users /\ \A u \in Users : cache[u] \in UserTrees(u)
    /\ writes \in [Users -> Seq(Updates)]
    /\ applied \in [Users -> Nat]
    /\ \A u \in Users : applied[u] <= Len(writes[u])
    /\ DOMAIN down = Users /\ \A u \in Users : down[u] \in Seq(Messages(u))
    /\ DOMAIN events = Users /\ \A u \in Users : events[u] \in Seq(UserTrees(u))
    /\ listen \in [Users -> {"none", "waiting", "live"}]
    /\ link \in [Users -> {"up", "down"}]

AckIndices(messages) == {i \in DOMAIN messages : messages[i].ack}

(* Every put the connection's server has applied has its acknowledgement   *)
(* on the way, and none other: no acknowledgement can meet an empty list   *)
(* of outstanding puts, whatever was lost or sent twice before.            *)
AcksMatchPuts == \A u \in Users : applied[u] = Cardinality(AckIndices(down[u]))

-----------------------------------------------------------------------------
(* What the client believes users/<u> holds: its writes over its cache. *)
View(u) == LayAll(cache[u], writes[u])

(* Faulty: a node that becomes empty raises nothing. *)
RaisedNonEmpty(before, after) ==
    IF after = before \/ \A p \in DOMAIN after : after[p] = Nil THEN <<>> ELSE <<after>>

(* A value event is raised only when the view changed. *)
Raised(before, after) == IF after = before THEN <<>> ELSE <<after>>

(* The snapshots raised while one or two puts are laid over the view. *)
LocalEvents(u, updates) ==
    LET once  == Lay(View(u), updates[1])
        twice == IF Len(updates) = 2 THEN Lay(once, updates[2]) ELSE once
    IN  Raised(View(u), once) \o Raised(once, twice)

(* updateChildValues, called once or twice in a row by the app. *)
Put(u, updates) ==
    /\ writes' = [writes EXCEPT ![u] = @ \o updates]
    /\ events' = IF listen[u] = "live"
                 THEN [events EXCEPT ![u] = @ \o LocalEvents(u, updates)]
                 ELSE events
    /\ UNCHANGED <<db, cache, applied, down, listen, link>>

(* What the server tells v of an update applied for u. *)
Push(u, v, update) ==
    LET data == IF listen[v] = "none" THEN NoUpdate ELSE Under(v, update)
    IN  IF v = u THEN <<[ack |-> TRUE, data |-> data]>>
        ELSE IF link[v] = "up" /\ data # NoUpdate THEN <<[ack |-> FALSE, data |-> data]>>
        ELSE <<>>

(* The server applies the next put of u and tells every listener. *)
ServerApply(u) ==
    /\ link[u] = "up"
    /\ applied[u] < Len(writes[u])
    /\ LET update == writes[u][applied[u] + 1] IN
        /\ db' = Lay(db, update)
        /\ down' = [v \in Users |-> down[v] \o Push(u, v, update)]
    /\ applied' = [applied EXCEPT ![u] = @ + 1]
    /\ UNCHANGED <<cache, writes, events, listen, link>>

(* Faulty: data that comes while a put is outstanding is thrown away. *)
ReceiveShadowed(u) ==
    /\ down[u] # <<>>
    /\ LET m    == Head(down[u])
           tree == IF m.ack \/ writes[u] = <<>> THEN Lay(cache[u], m.data) ELSE cache[u]
           left == IF m.ack THEN Tail(writes[u]) ELSE writes[u]
       IN
        /\ cache' = [cache EXCEPT ![u] = tree]
        /\ writes' = [writes EXCEPT ![u] = left]
        /\ applied' = [applied EXCEPT ![u] = IF m.ack THEN @ - 1 ELSE @]
        /\ events' = [events EXCEPT ![u] = @ \o Raised(View(u), LayAll(tree, left))]
    /\ down' = [down EXCEPT ![u] = Tail(@)]
    /\ UNCHANGED <<db, listen, link>>

(* The client handles the next message: data goes into the cache, an       *)
(* acknowledged put leaves the outstanding ones, and the observer gets an  *)
(* event if the view changed or this is its first data.                    *)
Receive(u) ==
    /\ down[u] # <<>>
    /\ LET m    == Head(down[u])
           tree == Lay(cache[u], m.data)
           left == IF m.ack THEN Tail(writes[u]) ELSE writes[u]
           view == LayAll(tree, left)
       IN
        /\ cache' = [cache EXCEPT ![u] = tree]
        /\ writes' = [writes EXCEPT ![u] = left]
        /\ applied' = [applied EXCEPT ![u] = IF m.ack THEN @ - 1 ELSE @]
        /\ events' = [events EXCEPT ![u] =
                        @ \o IF listen[u] = "none" THEN <<>>
                             ELSE IF listen[u] = "waiting" THEN <<view>>
                             ELSE Raised(View(u), view)]
        /\ listen' = [listen EXCEPT ![u] = IF @ = "waiting" THEN "live" ELSE @]
    /\ down' = [down EXCEPT ![u] = Tail(@)]
    /\ UNCHANGED <<db, link>>

(* Faulty: the applied puts are not counted anew; dispatched events go too. *)
LoseConnectionKeepsCount(u) ==
    /\ link[u] = "up"
    /\ link' = [link EXCEPT ![u] = "down"]
    /\ down' = [down EXCEPT ![u] = <<>>]
    /\ UNCHANGED <<db, cache, writes, applied, events, listen>>

LoseConnectionClearsEvents(u) ==
    /\ link[u] = "up"
    /\ link' = [link EXCEPT ![u] = "down"]
    /\ down' = [down EXCEPT ![u] = <<>>]
    /\ applied' = [applied EXCEPT ![u] = 0]
    /\ events' = [events EXCEPT ![u] = <<>>]
    /\ UNCHANGED <<db, cache, writes, listen>>

(* The connection is lost with everything on its way to the client, the    *)
(* acknowledgements of applied puts included.                              *)
LoseConnection(u) ==
    /\ link[u] = "up"
    /\ link' = [link EXCEPT ![u] = "down"]
    /\ down' = [down EXCEPT ![u] = <<>>]
    /\ applied' = [applied EXCEPT ![u] = 0]
    /\ UNCHANGED <<db, cache, writes, events, listen>>

(* Faulty: outstanding puts are not sent again; the listen is not answered. *)
ConnectForgets(u) ==
    /\ link[u] = "down"
    /\ link' = [link EXCEPT ![u] = "up"]
    /\ down' = [down EXCEPT ![u] =
                    IF listen[u] = "none" THEN <<>>
                    ELSE <<[ack |-> FALSE, data |-> Under(u, db)]>>]
    /\ writes' = [writes EXCEPT ![u] = <<>>]
    /\ UNCHANGED <<db, cache, applied, events, listen>>

ConnectStale(u) ==
    /\ link[u] = "down"
    /\ link' = [link EXCEPT ![u] = "up"]
    /\ UNCHANGED <<db, cache, writes, applied, down, events, listen>>

(* Faulty: the puts are sent again in no order of theirs. *)
ConnectReversed(u) ==
    /\ link[u] = "down"
    /\ link' = [link EXCEPT ![u] = "up"]
    /\ down' = [down EXCEPT ![u] =
                    IF listen[u] = "none" THEN <<>>
                    ELSE <<[ack |-> FALSE, data |-> Under(u, db)]>>]
    /\ writes' = [writes EXCEPT ![u] = [i \in DOMAIN @ |-> @[Len(@) + 1 - i]]]
    /\ UNCHANGED <<db, cache, applied, events, listen>>

(* A new connection: first the listen on users/<u>, answered with what the *)
(* node holds now, then every outstanding put again, from the first.       *)
Connect(u) ==
    /\ link[u] = "down"
    /\ link' = [link EXCEPT ![u] = "up"]
    /\ down' = [down EXCEPT ![u] =
                    IF listen[u] = "none" THEN <<>>
                    ELSE <<[ack |-> FALSE, data |-> Under(u, db)]>>]
    /\ UNCHANGED <<db, cache, writes, applied, events, listen>>

(* The process of u ends: nothing of its client survives. *)
EndProcess(u) ==
    /\ link' = [link EXCEPT ![u] = "down"]
    /\ down' = [down EXCEPT ![u] = <<>>]
    /\ writes' = [writes EXCEPT ![u] = <<>>]
    /\ applied' = [applied EXCEPT ![u] = 0]
    /\ events' = [events EXCEPT ![u] = <<>>]
    /\ cache' = [cache EXCEPT ![u] = EmptyTree(u)]
    /\ listen' = [listen EXCEPT ![u] = "none"]
    /\ UNCHANGED db

(* observe(.value) on users/<u>, in a process that has not observed yet. *)
Observe(u) ==
    /\ listen' = [listen EXCEPT ![u] = "waiting"]
    /\ UNCHANGED <<db, cache, writes, applied, down, events, link>>

(* Everyone is connected and synchronised, and no pair knows each other;   *)
(* `observers` are the users whose client observes its own node.           *)
FirebaseInit(observers) ==
    /\ db = [p \in Paths |-> Nil]
    /\ cache = [u \in Users |-> EmptyTree(u)]
    /\ writes = [u \in Users |-> <<>>]
    /\ applied = [u \in Users |-> 0]
    /\ down = [u \in Users |-> <<>>]
    /\ events = [u \in Users |-> <<>>]
    /\ listen = [u \in Users |-> IF u \in observers THEN "live" ELSE "none"]
    /\ link = [u \in Users |-> "up"]

=============================================================================
