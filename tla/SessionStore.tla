----------------------------- MODULE SessionStore -----------------------------
(***************************************************************************)
(* SessionStore.swift and the search rows of ExploreView.swift that call   *)
(* it: every user looks the others up, asks them for a relationship,       *)
(* unsends, accepts, declines and deletes, while value events of the       *)
(* user's own node replace the whole session.                              *)
(*                                                                         *)
(* A tap is one turn of the main thread: the row's button calls one        *)
(* SessionStore method, which sends one or two updates and then changes    *)
(* the dictionaries of the session in place.  Nothing publishes that       *)
(* change, so a row keeps the button it was drawn with until an event      *)
(* replaces the session, SwiftUI draws the row again, or the row's own     *)
(* state (toggled) changes.                                                *)
(***************************************************************************)
EXTENDS FirebaseClient

CONSTANTS
    NoSession,  \* session == nil
    SignedUp,   \* users still in the process they signed up in: no observer
    MaxTaps, MaxDrops, MaxKills, MaxLaunches  \* bounds on what the counters count

ASSUME SessionAssumption ==
    /\ NoSession \notin UNION {UserTrees(u) : u \in Users}
    /\ SignedUp \subseteq Users
    /\ {MaxTaps, MaxDrops, MaxKills, MaxLaunches} \subseteq Nat

VARIABLES
    session,  \* session[u]: the dictionaries of u's session, or NoSession
    shown,    \* shown[u][v]: the button row v of u was drawn with
    toggled,  \* toggled[u][v]: the @State of that row
    app,      \* app[u]: "running", "killed", or stopped by a runtime check
    asker,    \* history: who minted an id, and for whom
    fate,     \* history: what became of an id
    taps, drops, deaths, launches  \* how many taps, lost connections,
                                    \* ended processes and launches

screenVars == <<shown, toggled>>
historyVars == <<asker, fate>>
sessionVars == <<session, shown, toggled, app, asker, fate, taps, drops, deaths, launches>>
vars == <<firebaseVars, sessionVars>>

Buttons == {"Delete", "Unsend", "Reply", "Add"}

(* What stops a process: the system, or a trap of the Swift runtime. *)
Ends == {"killed", "nil_cast", "duplicate_key"}

(* An id is accepted "again" when its request came back to the askee's     *)
(* screen after the first accept: a snapshot raised before that tap is     *)
(* delivered after it, or the request was sent twice.  It is "unsent" when *)
(* its asker took it back before anybody answered it.                      *)
Fates == {"fresh", "asked", "unsent", "declined", "accepted", "parted", "again"}

AfterAccept(f) == IF f \in {"accepted", "parted", "again"} THEN "again" ELSE "accepted"

AfterDelete(f) == IF f = "again" THEN "again" ELSE "parted"

TypeOK ==
    /\ FirebaseTypeOK
    /\ DOMAIN session = Users
    /\ \A u \in Users : session[u] \in UserTrees(u) \cup {NoSession}
    /\ DOMAIN shown = Users /\ \A u \in Users : shown[u] \in [Others(u) -> Buttons]
    /\ DOMAIN toggled = Users /\ \A u \in Users : toggled[u] \in [Others(u) -> BOOLEAN]
    /\ app \in [Users -> {"running"} \cup Ends]
    /\ asker \in [Ids -> Pairs \cup {Nil}]
    /\ fate \in [Ids -> Fates]
    /\ taps \in 0..MaxTaps /\ drops \in 0..MaxDrops
    /\ deaths \in Nat /\ launches \in 0..MaxLaunches

-----------------------------------------------------------------------------
(* The branch of SearchResultItem.body: "Reply" is the row with the two    *)
(* buttons that accept and decline.                                        *)
isInRelationship(s, u, v)      == s # NoSession /\ s[Rel(u, v)] # Nil
isPendingRelationship(s, u, v) == s # NoSession /\ s[Pend(u, v)] # Nil
isRequestedRelationship(s, u, v) == s # NoSession /\ s[Req(u, v)] # Nil

Row(s, u, v) ==
    IF isInRelationship(s, u, v) THEN "Delete"
    ELSE IF isPendingRelationship(s, u, v) THEN "Unsend"
    ELSE IF isRequestedRelationship(s, u, v) THEN "Reply"
    ELSE "Add"

Rows(s, u) == [v \in Others(u) |-> Row(s, u, v)]

Init ==
    /\ FirebaseInit(Users \ SignedUp)
    /\ session = [u \in Users |-> EmptyTree(u)]
    /\ shown = [u \in Users |-> Rows(EmptyTree(u), u)]
    /\ toggled = [u \in Users |-> [v \in Others(u) |-> FALSE]]
    /\ app = [u \in Users |-> "running"]
    /\ asker = [id \in Ids |-> Nil]
    /\ fate = [id \in Ids |-> "fresh"]
    /\ taps = 0 /\ drops = 0 /\ deaths = 0 /\ launches = 0

-----------------------------------------------------------------------------
(* Taps. *)

Tap(u) ==
    /\ app[u] = "running"
    /\ taps < MaxTaps
    /\ taps' = taps + 1
    /\ UNCHANGED <<drops, launches>>

(* The process of u is gone, and with it the session and the rows; a put   *)
(* of the turn that traps goes with it.                                    *)
ProcessGone(u, why) ==
    /\ EndProcess(u)
    /\ app' = [app EXCEPT ![u] = why]
    /\ session' = [session EXCEPT ![u] = NoSession]
    /\ shown' = [shown EXCEPT ![u] = Rows(NoSession, u)]
    /\ toggled' = [toggled EXCEPT ![u] = [v \in Others(u) |-> FALSE]]
    /\ deaths' = deaths + 1
    /\ UNCHANGED historyVars

(* deleteRelationShip(with: v); a forced cast of a missing id traps. *)
TapDelete(u, v) ==
    /\ Tap(u)
    /\ shown[u][v] = "Delete"
    /\ session[u] # NoSession
    /\ LET id == session[u][Rel(u, v)] IN
        IF id = Nil
        THEN ProcessGone(u, "nil_cast")
        ELSE /\ Put(u, <<deleteRelationship(u, v, id)>>)
             /\ session' = [session EXCEPT ![u][Rel(u, v)] = Nil]
             /\ fate' = [fate EXCEPT ![id] = AfterDelete(@)]
             /\ UNCHANGED <<screenVars, app, asker, deaths>>

(* deleteRelationShip(with: u), on the row of one's own name: the update   *)
(* is a dictionary literal with one key twice.                             *)
TapDeleteSelf(u) ==
    /\ Tap(u)
    /\ session[u] # NoSession
    /\ ProcessGone(u, "duplicate_key")

(* removePending names no id: it takes back all that u asks of v. *)
TakeBack(u, v) ==
    /\ fate' = [id \in Ids |-> IF asker[id] = <<u, v>> /\ fate[id] = "asked"
                               THEN "unsent" ELSE fate[id]]
    /\ UNCHANGED asker

(* deletePending(with: v), on the row of a pending request. *)
TapUnsend(u, v) ==
    /\ Tap(u)
    /\ shown[u][v] = "Unsend"
    /\ session[u] # NoSession
    /\ Put(u, <<removePending(u, v)>>)
    /\ session' = [session EXCEPT ![u][Pend(u, v)] = Nil]
    /\ TakeBack(u, v)
    /\ UNCHANGED <<screenVars, app, deaths>>

(* acceptRequest(from: v): two updates, the request first. *)
TapAccept(u, v) ==
    /\ Tap(u)
    /\ shown[u][v] = "Reply"
    /\ session[u] # NoSession
    /\ LET id == session[u][Req(u, v)] IN
        IF id = Nil
        THEN ProcessGone(u, "nil_cast")
        ELSE /\ Put(u, <<removeRequest(u, v), addRelationship(u, v, id)>>)
             /\ session' = [session EXCEPT ![u][Rel(u, v)] = id, ![u][Req(u, v)] = Nil]
             /\ fate' = [fate EXCEPT ![id] = AfterAccept(@)]
             /\ UNCHANGED <<screenVars, app, asker, deaths>>

(* declineRequest(from: v) *)
TapDecline(u, v) ==
    /\ Tap(u)
    /\ shown[u][v] = "Reply"
    /\ session[u] # NoSession
    /\ Put(u, <<removeRequest(u, v)>>)
    /\ session' = [session EXCEPT ![u][Req(u, v)] = Nil]
    /\ fate' = [id \in Ids |-> IF id = session[u][Req(u, v)] /\ fate[id] = "asked"
                               THEN "declined" ELSE fate[id]]
    /\ UNCHANGED <<screenVars, app, asker, deaths>>

(* A change of toggled draws the row again, from the session as it is now. *)
Toggle(u, v) ==
    /\ toggled' = [toggled EXCEPT ![u][v] = ~@]
    /\ shown' = [shown EXCEPT ![u][v] = Row(session'[u], u, v)]

(* addPending(with: v), on an "Add" row that is not toggled. *)
TapAdd(u, v) ==
    /\ Tap(u)
    /\ shown[u][v] = "Add" /\ ~toggled[u][v]
    /\ session[u] # NoSession
    /\ \E id \in Ids :
        /\ asker[id] = Nil
        /\ Put(u, <<addPending(u, v, id)>>)
        /\ session' = [session EXCEPT ![u][Pend(u, v)] = id]
        /\ asker' = [asker EXCEPT ![id] = <<u, v>>]
        /\ fate' = [fate EXCEPT ![id] = "asked"]
    /\ Toggle(u, v)
    /\ UNCHANGED <<app, deaths>>

(* deletePending(with: v), on an "Add" row that is toggled: it reads       *)
(* "Unsend" though nothing is pending.                                     *)
TapToggled(u, v) ==
    /\ Tap(u)
    /\ shown[u][v] = "Add" /\ toggled[u][v]
    /\ session[u] # NoSession
    /\ Put(u, <<removePending(u, v)>>)
    /\ session' = [session EXCEPT ![u][Pend(u, v)] = Nil]
    /\ TakeBack(u, v)
    /\ Toggle(u, v)
    /\ UNCHANGED <<app, deaths>>

(* The same button before the session is there: only the row changes. *)
TapBeforeSession(u, v) ==
    /\ Tap(u)
    /\ shown[u][v] = "Add"
    /\ session[u] = NoSession
    /\ UNCHANGED <<firebaseVars, session, app, historyVars, deaths>>
    /\ Toggle(u, v)

-----------------------------------------------------------------------------
(* Callbacks, drawing and the life of the process. *)

(* The observer's closure replaces the session, and every row is drawn. *)
DeliverEvent(u) ==
    /\ events[u] # <<>>
    /\ session' = [session EXCEPT ![u] = Head(events[u])]
    /\ shown' = [shown EXCEPT ![u] = Rows(Head(events[u]), u)]
    /\ events' = [events EXCEPT ![u] = Tail(@)]
    /\ UNCHANGED <<db, cache, writes, applied, down, listen, link>>
    /\ UNCHANGED <<toggled, app, historyVars, taps, drops, deaths, launches>>

(* SwiftUI draws a row again; a row that left the list and came back also  *)
(* has its toggled reset.                                                  *)
Redraw(u, v) ==
    /\ app[u] = "running"
    /\ shown' = [shown EXCEPT ![u][v] = Row(session[u], u, v)]
    /\ \/ UNCHANGED toggled
       \/ toggled' = [toggled EXCEPT ![u][v] = FALSE]
    /\ UNCHANGED <<firebaseVars, session, app, historyVars, taps, drops, deaths, launches>>

Drop(u) ==
    /\ drops < MaxDrops
    /\ drops' = drops + 1
    /\ LoseConnection(u)
    /\ UNCHANGED <<session, screenVars, app, historyVars, taps, deaths, launches>>

Reconnect(u) ==
    /\ app[u] = "running"
    /\ Connect(u)
    /\ UNCHANGED sessionVars

Kill(u) ==
    /\ app[u] = "running"
    /\ deaths < MaxKills
    /\ ProcessGone(u, "killed")
    /\ UNCHANGED <<taps, drops, launches>>

(* ContentView finds no session and calls setupUser, which observes. *)
Launch(u) ==
    /\ app[u] # "running"
    /\ launches < MaxLaunches
    /\ launches' = launches + 1
    /\ app' = [app EXCEPT ![u] = "running"]
    /\ Observe(u)
    /\ UNCHANGED <<session, screenVars, historyVars, taps, drops, deaths>>

Apply(u) == ServerApply(u) /\ UNCHANGED sessionVars

Handle(u) == Receive(u) /\ UNCHANGED sessionVars

-----------------------------------------------------------------------------
UserStep(u) ==
    \/ TapDeleteSelf(u)
    \/ \E v \in Others(u) :
        \/ TapDelete(u, v) \/ TapUnsend(u, v)
        \/ TapAccept(u, v) \/ TapDecline(u, v)
        \/ TapAdd(u, v) \/ TapToggled(u, v) \/ TapBeforeSession(u, v)
        \/ Redraw(u, v)

SystemStep(u) == Apply(u) \/ Handle(u) \/ DeliverEvent(u) \/ Reconnect(u)

WorldStep(u) == Drop(u) \/ Kill(u) \/ Launch(u)

Next == \E u \in Users : UserStep(u) \/ SystemStep(u) \/ WorldStep(u)

Spec == Init /\ [][Next]_vars

(* The server, the client's queues and its reconnection keep running;      *)
(* users, lost connections and dying processes owe nothing.                *)
Fairness ==
    \A u \in Users :
        /\ WF_vars(Apply(u))
        /\ WF_vars(Handle(u))
        /\ WF_vars(DeliverEvent(u))
        /\ WF_vars(Reconnect(u))

FairSpec == Spec /\ Fairness

=============================================================================
