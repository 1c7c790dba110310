--------------------------- MODULE RelationshipTree ---------------------------
(***************************************************************************)
(* The part of the Firebase realtime database the app keeps relationships  *)
(* in, and the multi-path updates DatabaseManager.swift sends to it.       *)
(*                                                                         *)
(* A tree is a function from paths to values.  The paths are the leaves    *)
(* the app writes:                                                         *)
(*    users/<u>/relationships/<v>   Rel(u, v)    the id of their room      *)
(*    users/<u>/pending/<v>         Pend(u, v)   the id of u's request     *)
(*    users/<v>/requests/<u>        Req(v, u)    the same id, at the other *)
(*    relationships/<id>            Room(id)     the room's two users      *)
(* An absent leaf holds Nil.  The entry that pairs a user with itself is   *)
(* left out: it is written once, at sign-up, and the only call that would  *)
(* delete it traps first (see TapDeleteSelf in SessionStore).  The welcome *)
(* text a room is created with is left out too.                            *)
(***************************************************************************)
EXTENDS Naturals, Sequences

CONSTANTS
    Users,  \* user names, the keys under users/
    Ids,    \* the values UUID().uuidString can return
    Nil     \* no value at a path

(* The ordered pairs of distinct users, and the couples they form. *)
Pairs == {p \in Users \X Users : p[1] # p[2]}

Couples == {{p[1], p[2]} : p \in Pairs}

ASSUME NilAssumption ==
    /\ Nil \notin Ids
    /\ Nil \notin Couples \cup Pairs
    /\ Ids \cap Couples = {}

-----------------------------------------------------------------------------
(* Paths. *)

Rel(u, v)  == <<"relationships", u, v>>
Pend(u, v) == <<"pending", u, v>>
Req(u, v)  == <<"requests", u, v>>
Room(id)   == <<"room", id, id>>

Others(u) == Users \ {u}

(* The leaves under users/<u>: what the observer on that node downloads. *)
UserPaths(u) == {"relationships", "pending", "requests"} \X {u} \X Others(u)

Rooms == {Room(id) : id \in Ids}

Paths == (UNION {UserPaths(u) : u \in Users}) \cup Rooms

Values == Ids \cup Couples \cup {Nil}

-----------------------------------------------------------------------------
(* Trees and multi-path updates. *)

Trees == {tree \in [Paths -> Values] :
            \A u \in Users : \A p \in UserPaths(u) : tree[p] \in Ids \cup {Nil}}

UserTrees(u) == [UserPaths(u) -> Ids \cup {Nil}]

EmptyTree(u) == [p \in UserPaths(u) |-> Nil]

(* updateChildValues: every path of the update at once, the others stay. *)
Lay(tree, update) ==
    [p \in DOMAIN tree |-> IF p \in DOMAIN update THEN update[p] ELSE tree[p]]

(* The part of a tree or an update that lies under users/<u>. *)
Under(u, t) == [p \in DOMAIN t \cap UserPaths(u) |-> t[p]]

NoUpdate == [p \in {} |-> Nil]

(* What a tree shows once a sequence of writes lies over it: at each path  *)
(* the last write that touches it wins.                                    *)
LastAt(writes, p) ==
    {i \in DOMAIN writes :
        /\ p \in DOMAIN writes[i]
        /\ \A j \in DOMAIN writes : j > i => p \notin DOMAIN writes[j]}

LayAll(tree, writes) ==
    [p \in DOMAIN tree |->
        IF LastAt(writes, p) = {} THEN tree[p]
        ELSE writes[CHOOSE i \in LastAt(writes, p) : TRUE][p]]

-----------------------------------------------------------------------------
(* Faulty variants of the updates below, to see the properties catch them. *)

addRelationshipSwapped(userName, relationshipUser, id) ==
    [p \in {Rel(userName, relationshipUser), Rel(relationshipUser, userName), Room(id)} |->
        IF p = Room(id) THEN id ELSE {userName, relationshipUser}]

addRelationshipRoomless(userName, relationshipUser, id) ==
    [p \in {Rel(userName, relationshipUser), Rel(relationshipUser, userName)} |-> id]

deleteRelationshipOneSided(userName, relationshipUser, id) ==
    [p \in {Rel(userName, relationshipUser), Room(id)} |-> Nil]

deleteRelationshipKeepsRoom(userName, relationshipUser, id) ==
    [p \in {Rel(userName, relationshipUser), Rel(relationshipUser, userName)} |-> Nil]

addPendingSwapped(userName, relationshipUser, id) ==
    [p \in {Pend(relationshipUser, userName), Req(userName, relationshipUser)} |-> id]

removeRequestSwapped(userName, relationshipUser) ==
    [p \in {Pend(userName, relationshipUser), Req(relationshipUser, userName)} |-> Nil]

-----------------------------------------------------------------------------
(* The updates of DatabaseManager.swift, one operator per method. *)

addRelationship(userName, relationshipUser, id) ==
    [p \in {Rel(userName, relationshipUser), Rel(relationshipUser, userName), Room(id)} |->
        IF p = Room(id) THEN {userName, relationshipUser} ELSE id]

deleteRelationship(userName, relationshipUser, id) ==
    [p \in {Rel(userName, relationshipUser), Rel(relationshipUser, userName), Room(id)} |-> Nil]

addPending(userName, relationshipUser, id) ==
    [p \in {Pend(userName, relationshipUser), Req(relationshipUser, userName)} |-> id]

removePending(userName, relationshipUser) ==
    [p \in {Pend(userName, relationshipUser), Req(relationshipUser, userName)} |-> Nil]

removeRequest(userName, relationshipUser) ==
    [p \in {Pend(relationshipUser, userName), Req(userName, relationshipUser)} |-> Nil]

=============================================================================
