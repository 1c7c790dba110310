-------------------------- MODULE AttentionRequests --------------------------
(***************************************************************************)
(* Device tokens and the requests for attention that travel by them:       *)
(* uploadDeviceToken and sendNotification of DatabaseManager, the closure  *)
(* signIn leaves observing users/<u>, LoveView's button, and the cloud     *)
(* function that a new message starts.                                     *)
(*                                                                         *)
(* The Firebase client is that of FirebaseClient with one leaf,            *)
(* users/<u>/deviceID: puts are applied in order, what the server says     *)
(* arrives in order, a put lies over the client's copy until its           *)
(* acknowledgement has come.  Lost connections are left to that module.    *)
(***************************************************************************)
EXTENDS Naturals, Sequences, FiniteSets

CONSTANTS
    Users, Devices, Requests,
    Loading,   \* "loading...", what the picker shows before there is a session
    Nil,       \* no token, no user, no request
    Unheard,   \* what a function instance has heard before its first value
    MaxSignIns,  \* bound on signIns
    MaxQueued,   \* bound on what a phone has queued, see UnderWay
    MaxFaults    \* bound on failures, refreshes, restarts and retires together

ASSUME AttentionAssumption ==
    /\ Loading \notin Users /\ Nil \notin Users \cup Devices \cup {Unheard}
    /\ {MaxSignIns, MaxQueued, MaxFaults} \subseteq Nat

VARIABLES
    stored,    \* stored[u]: users/<u>/deviceID on the server
    token,     \* token[d]: the registration token of d
    signedIn,  \* signedIn[d]: the name d's account signed in with, or Nil
    closures,  \* closures[d][u]: how many closures of signIn observe u in this process
    seen,      \* seen[d][u]: the client's copy of users/<u>/deviceID
    events,    \* events[d]: closures to run on the main queue, by user
    fetches,   \* fetches[d]: users for whom Messaging.token was asked
    puts,      \* puts[d]: uploads without an acknowledgement
    down,      \* down[d]: what the server has told d and d has not handled
    request,   \* request[r]: [to, state] or Nil; "watched" while its function
               \* instance listens
    told,      \* told[r]: the value it heard last
    reached,   \* history: requests of which a push was submitted to a token
    signIns, failures, refreshes, restarts, retires

deviceVars  == <<token, signedIn, closures, seen, events, fetches, puts, down>>
requestVars == <<request, told, reached>>
countVars   == <<signIns, failures, refreshes, restarts, retires>>
vars == <<stored, deviceVars, requestVars, countVars>>

Tokens == Devices \X (0..MaxFaults)

Uploads == [user : Users, token : Tokens]

Messages == [user : Users, token : Tokens, ack : BOOLEAN]

Sent == [to : Users \cup {Loading}, state : {"posted", "watched", "retired"}]

TypeOK ==
    /\ stored \in [Users -> Tokens \cup {Nil}]
    /\ token \in [Devices -> Tokens]
    /\ signedIn \in [Devices -> Users \cup {Nil}]
    /\ closures \in [Devices -> [Users -> 0..MaxSignIns]]
    /\ seen \in [Devices -> [Users -> Tokens \cup {Nil}]]
    /\ events \in [Devices -> Seq(Users)]
    /\ fetches \in [Devices -> Seq(Users)]
    /\ puts \in [Devices -> Seq(Uploads)]
    /\ down \in [Devices -> Seq(Messages)]
    /\ request \in [Requests -> Sent \cup {Nil}]
    /\ told \in [Requests -> Tokens \cup {Nil, Unheard}]
    /\ reached \subseteq Requests
    /\ signIns \in 0..MaxSignIns
    /\ {failures, refreshes, restarts, retires} \subseteq 0..MaxFaults

(* The faults the counters admit. *)
MayFail == failures + refreshes + restarts + retires < MaxFaults

Init ==
    /\ stored = [u \in Users |-> Nil]
    /\ token = [d \in Devices |-> <<d, 0>>]
    /\ signedIn = [d \in Devices |-> Nil]
    /\ closures = [d \in Devices |-> [u \in Users |-> 0]]
    /\ seen = [d \in Devices |-> [u \in Users |-> Nil]]
    /\ events = [d \in Devices |-> <<>>]
    /\ fetches = [d \in Devices |-> <<>>]
    /\ puts = [d \in Devices |-> <<>>]
    /\ down = [d \in Devices |-> <<>>]
    /\ request = [r \in Requests |-> Nil]
    /\ told = [r \in Requests |-> Unheard]
    /\ reached = {}
    /\ signIns = 0 /\ failures = 0 /\ refreshes = 0 /\ restarts = 0 /\ retires = 0

-----------------------------------------------------------------------------
(* Signing in: the observer's first value, which assigns the session and   *)
(* uploads the token of this phone.                                        *)
signIn(d, u) ==
    /\ signedIn[d] = Nil
    /\ signIns < MaxSignIns
    /\ signIns' = signIns + 1
    /\ signedIn' = [signedIn EXCEPT ![d] = u]
    /\ closures' = [closures EXCEPT ![d][u] = @ + 1]
    /\ seen' = IF closures[d][u] > 0 THEN seen ELSE [seen EXCEPT ![d][u] = stored[u]]
    /\ fetches' = [fetches EXCEPT ![d] = Append(@, u)]
    /\ UNCHANGED <<stored, token, events, puts, down, requestVars, failures, refreshes, restarts,
                   retires>>

(* The session goes, the closures stay. *)
signOut(d) ==
    /\ signedIn[d] # Nil
    /\ signedIn' = [signedIn EXCEPT ![d] = Nil]
    /\ UNCHANGED <<stored, token, closures, seen, events, fetches, puts, down, requestVars,
                   countVars>>

(* Firebase Messaging renews the token; AppDelegate's callback uploads     *)
(* nothing.                                                                *)
Refresh(d) ==
    /\ MayFail
    /\ refreshes' = refreshes + 1
    /\ token' = [token EXCEPT ![d] = <<d, refreshes + 1>>]
    /\ UNCHANGED <<stored, signedIn, closures, seen, events, fetches, puts, down, requestVars,
                   signIns, failures, restarts, retires>>

(* The process ends and is launched again: setupUser's closure shows the   *)
(* session and uploads nothing.                                            *)
Restart(d) ==
    /\ MayFail
    /\ restarts' = restarts + 1
    /\ closures' = [closures EXCEPT ![d] = [u \in Users |-> 0]]
    /\ seen' = [seen EXCEPT ![d] = [u \in Users |-> Nil]]
    /\ events' = [events EXCEPT ![d] = <<>>]
    /\ fetches' = [fetches EXCEPT ![d] = <<>>]
    /\ puts' = [puts EXCEPT ![d] = <<>>]
    /\ down' = [down EXCEPT ![d] = <<>>]
    /\ UNCHANGED <<stored, token, signedIn, requestVars, signIns, failures, refreshes,
                   retires>>

-----------------------------------------------------------------------------
(* uploadDeviceToken: the token is asked for, and what comes back is put   *)
(* under the name the call was made with.                                  *)

(* A client sees the last of its own puts, or else its copy. *)
Overlay(copy, list, u) ==
    LET mine == {i \in DOMAIN list : list[i].user = u} IN
    IF mine = {} THEN copy
    ELSE list[CHOOSE i \in mine : \A j \in mine : j <= i].token

View(d, u) == Overlay(seen[d][u], puts[d], u)

(* If the observed value changed, an event is raised for every closure. *)
Raise(d, u, changed) ==
    events' = IF changed THEN [events EXCEPT ![d] = @ \o [i \in 1..closures[d][u] |-> u]]
              ELSE events

(* Two phones that answer each other's uploads have ever more to do:       *)
(* MaxQueued bounds what a phone has under way when a token comes, and how *)
(* many tokens it waits for when it asks for another.                      *)
UnderWay(d) == Len(events[d]) + Len(puts[d]) + Len(down[d])

TokenFetched(d) ==
    /\ fetches[d] # <<>>
    /\ UnderWay(d) < MaxQueued
    /\ fetches' = [fetches EXCEPT ![d] = Tail(@)]
    /\ LET u == Head(fetches[d]) IN
        /\ puts' = [puts EXCEPT ![d] = Append(@, [user |-> u, token |-> token[d]])]
        /\ Raise(d, u, View(d, u) # token[d])
    /\ UNCHANGED <<stored, token, signedIn, closures, seen, down, requestVars, countVars>>

(* Faulty: there being no error is not looked at. *)
TokenFailsUploaded(d) ==
    /\ fetches[d] # <<>>
    /\ MayFail
    /\ failures' = failures + 1
    /\ fetches' = [fetches EXCEPT ![d] = Tail(@)]
    /\ puts' = [puts EXCEPT ![d] = Append(@, [user |-> Head(fetches[d]), token |-> Nil])]
    /\ UNCHANGED <<stored, token, signedIn, closures, seen, events, down, requestVars,
                   signIns, refreshes, restarts, retires>>

(* Messaging reports an error, which is printed. *)
TokenFails(d) ==
    /\ fetches[d] # <<>>
    /\ MayFail
    /\ failures' = failures + 1
    /\ fetches' = [fetches EXCEPT ![d] = Tail(@)]
    /\ UNCHANGED <<stored, token, signedIn, closures, seen, events, puts, down, requestVars,
                   signIns, refreshes, restarts, retires>>

(* Faulty: the token is uploaded at the sign-in only. *)
ObserverCalledOnce(d) ==
    /\ events[d] # <<>>
    /\ Len(fetches[d]) <= MaxQueued
    /\ events' = [events EXCEPT ![d] = Tail(@)]
    /\ UNCHANGED <<stored, token, signedIn, closures, seen, fetches, puts, down, requestVars, countVars>>

(* signIn's closure runs at every event: it assigns the session and        *)
(* uploads the token again.                                                *)
ObserverCalled(d) ==
    /\ events[d] # <<>>
    /\ Len(fetches[d]) <= MaxQueued
    /\ events' = [events EXCEPT ![d] = Tail(@)]
    /\ fetches' = [fetches EXCEPT ![d] = Append(@, Head(events[d]))]
    /\ UNCHANGED <<stored, token, signedIn, closures, seen, puts, down, requestVars, countVars>>

(* The server applies d's next upload and tells everyone who listens. *)
AckIndices(messages) == {i \in DOMAIN messages : messages[i].ack}

Applied(d) == Cardinality(AckIndices(down[d]))

ServerApply(d) ==
    /\ Applied(d) < Len(puts[d])
    /\ LET put == puts[d][Applied(d) + 1] IN
        /\ stored' = [stored EXCEPT ![put.user] = put.token]
        /\ down' = [e \in Devices |->
                      IF e = d \/ closures[e][put.user] > 0
                      THEN Append(down[e], [user |-> put.user, token |-> put.token, ack |-> e = d])
                      ELSE down[e]]
    /\ UNCHANGED <<token, signedIn, closures, seen, events, fetches, puts, requestVars,
                   countVars>>

(* The client handles the next message. *)
Receive(d) ==
    /\ down[d] # <<>>
    /\ LET m    == Head(down[d])
           left == IF m.ack THEN Tail(puts[d]) ELSE puts[d]
       IN
        /\ seen' = [seen EXCEPT ![d][m.user] = m.token]
        /\ puts' = [puts EXCEPT ![d] = left]
        /\ Raise(d, m.user, Overlay(m.token, left, m.user) # View(d, m.user))
    /\ down' = [down EXCEPT ![d] = Tail(@)]
    /\ UNCHANGED <<stored, token, signedIn, closures, fetches, requestVars, countVars>>

-----------------------------------------------------------------------------
(* Requests for attention. *)

(* LoveView's button; the picker holds a user, or Loading if the view      *)
(* appeared before the session did.  The alert says "Request Sent!".       *)
sendNotification(d, r, to) ==
    /\ signedIn[d] # Nil /\ request[r] = Nil
    /\ request' = [request EXCEPT ![r] = [to |-> to, state |-> "posted"]]
    /\ UNCHANGED <<stored, deviceVars, told, reached, countVars>>

InState(r, state) == request[r] # Nil /\ request[r].state = state

(* The new message starts the function, which starts to listen. *)
newNodeDetected(r) ==
    /\ InState(r, "posted")
    /\ request' = [request EXCEPT ![r].state = "watched"]
    /\ UNCHANGED <<stored, deviceVars, told, reached, countVars>>

Addressed(r) == IF request[r].to = Loading THEN Nil ELSE stored[request[r].to]

(* Faulty: the function reads the token once. *)
submitPayloadOnce(r) ==
    /\ InState(r, "watched")
    /\ request' = [request EXCEPT ![r].state = "retired"]
    /\ told' = [told EXCEPT ![r] = Addressed(r)]
    /\ reached' = IF Addressed(r) = Nil THEN reached ELSE reached \cup {r}
    /\ UNCHANGED <<stored, deviceVars, countVars>>

(* on('value'): the function submits to the token there is, and submits    *)
(* again whenever it changes.  Without a token the message is rejected,    *)
(* which the code's catch logs: nothing is reached, and the listener stays.*)
submitPayload(r) ==
    /\ InState(r, "watched")
    /\ told[r] # Addressed(r)
    /\ told' = [told EXCEPT ![r] = Addressed(r)]
    /\ reached' = IF Addressed(r) = Nil THEN reached ELSE reached \cup {r}
    /\ UNCHANGED <<stored, deviceVars, request, countVars>>

(* The function has returned long ago; its instance may go at any time. *)
Retire(r) ==
    /\ InState(r, "watched")
    /\ MayFail
    /\ retires' = retires + 1
    /\ request' = [request EXCEPT ![r].state = "retired"]
    /\ UNCHANGED <<stored, deviceVars, told, reached, signIns, failures, refreshes, restarts>>

-----------------------------------------------------------------------------
UserStep ==
    \E d \in Devices :
        \/ \E u \in Users : signIn(d, u)
        \/ signOut(d)
        \/ \E r \in Requests, to \in Users \cup {Loading} : sendNotification(d, r, to)

DeviceStep(d) ==
    TokenFetched(d) \/ ObserverCalled(d) \/ ServerApply(d) \/ Receive(d)

FunctionStep(r) == newNodeDetected(r) \/ submitPayload(r)

WorldStep ==
    \/ \E d \in Devices : Refresh(d) \/ Restart(d) \/ TokenFails(d)
    \/ \E r \in Requests : Retire(r)

Next ==
    \/ UserStep \/ WorldStep
    \/ \E d \in Devices : DeviceStep(d)
    \/ \E r \in Requests : FunctionStep(r)

Spec == Init /\ [][Next]_vars

(* Every queue of a phone, the server and the function keep running. *)
Fairness ==
    /\ \A d \in Devices :
        /\ WF_vars(TokenFetched(d)) /\ WF_vars(ObserverCalled(d))
        /\ WF_vars(ServerApply(d)) /\ WF_vars(Receive(d))
    /\ \A r \in Requests : WF_vars(newNodeDetected(r)) /\ WF_vars(submitPayload(r))

FairSpec == Spec /\ Fairness

=============================================================================
