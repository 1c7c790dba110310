-------------------------- MODULE RelationshipLedger --------------------------
(***************************************************************************)
(* What the relationship store promises, without devices, queues or nodes  *)
(* written twice: one request slot per ordered pair of users, one bond per *)
(* couple, one room per id, and every change of them a single step.        *)
(* A bond's id was issued by one of the two for the other, and the other   *)
(* one consented.                                                          *)
(***************************************************************************)
CONSTANTS Users, Ids, Nil

VARIABLES
    issued,     \* issued[id]: <<asker, askee>>, or Nil
    consented,  \* the ids their askee accepted
    ask,        \* ask[<<u, v>>]: the id of u's open request to v, or Nil
    bond,       \* bond[{u, v}]: the id of their relationship, or Nil
    members     \* members[id]: the two users of an open room, or Nil

ledgerVars == <<issued, consented, ask, bond, members>>

AskPairs == {p \in Users \X Users : p[1] # p[2]}

Couple(pair) == {pair[1], pair[2]}

Couples == {Couple(pair) : pair \in AskPairs}

Init ==
    /\ issued = [id \in Ids |-> Nil]
    /\ consented = {}
    /\ ask = [pair \in AskPairs |-> Nil]
    /\ bond = [couple \in Couples |-> Nil]
    /\ members = [id \in Ids |-> Nil]

(* A user mints an id for a request. *)
Issue(id, pair) ==
    /\ issued[id] = Nil
    /\ issued' = [issued EXCEPT ![id] = pair]
    /\ UNCHANGED <<consented, ask, bond, members>>

(* The askee accepts. *)
Consent(id) ==
    /\ issued[id] # Nil
    /\ consented' = consented \cup {id}
    /\ UNCHANGED <<issued, ask, bond, members>>

(* The request is posted. *)
Ask(id) ==
    /\ issued[id] # Nil
    /\ ask' = [ask EXCEPT ![issued[id]] = id]
    /\ UNCHANGED <<issued, consented, bond, members>>

(* The request is unsent, accepted or declined. *)
Clear(pair) ==
    /\ ask' = [ask EXCEPT ![pair] = Nil]
    /\ UNCHANGED <<issued, consented, bond, members>>

(* The couple is bonded, over whatever bond it had, and the room opens. *)
Bond(id) ==
    /\ id \in consented
    /\ bond' = [bond EXCEPT ![Couple(issued[id])] = id]
    /\ members' = [members EXCEPT ![id] = Couple(issued[id])]
    /\ UNCHANGED <<issued, consented, ask>>

(* The couple parts, and the room it knew of closes. *)
Part(id) ==
    /\ issued[id] # Nil
    /\ bond' = [bond EXCEPT ![Couple(issued[id])] = Nil]
    /\ members' = [members EXCEPT ![id] = Nil]
    /\ UNCHANGED <<issued, consented, ask>>

Next ==
    \/ \E id \in Ids :
        \/ \E pair \in AskPairs : Issue(id, pair)
        \/ Consent(id) \/ Ask(id) \/ Bond(id) \/ Part(id)
    \/ \E pair \in AskPairs : Clear(pair)

Spec == Init /\ [][Next]_ledgerVars

=============================================================================
