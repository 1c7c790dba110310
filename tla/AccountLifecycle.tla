--------------------------- MODULE AccountLifecycle ---------------------------
(***************************************************************************)
(* One phone from its first launch on: SessionStore's signUp, signIn,      *)
(* setupUser and signOut, ContentView's load and save, the user Firebase   *)
(* Auth keeps in the keychain, the user name the app keeps in its          *)
(* UserDefaults, and the observers that assign the session.                *)
(*                                                                         *)
(* An observer is a closure over an account and a user name.  Nothing ever *)
(* removes it: it lives as long as the process, sign-outs included.  What  *)
(* the dictionaries of a session hold is SessionStore's subject; here a    *)
(* session is its account and its name.                                    *)
(***************************************************************************)
EXTENDS Naturals, Sequences, FiniteSets

CONSTANTS
    Accounts,  \* e-mail addresses, each with the uid Auth gives it
    Names,     \* user names, the keys under users/
    Nil,       \* no account, no name, no session
    MaxEntries, MaxSignOuts, MaxChanges, MaxKills  \* bounds on what is counted

ASSUME AccountsAssumption ==
    /\ Nil \notin Accounts \cup Names
    /\ Nil \notin [account : Accounts, name : Names \cup {Nil}]
    /\ {MaxEntries, MaxSignOuts, MaxChanges, MaxKills} \subseteq Nat

VARIABLES
    registered,  \* the accounts Auth's server knows
    nodes,       \* nodes[n]: the account that signed up as n on the server, or Nil
    account,     \* Auth.auth().currentUser, kept in the keychain
    cached,      \* the name under "username" in UserDefaults, or Nil
    app,         \* "running", "killed", or stopped by a forced cast
    session,     \* [account, name] or Nil
    screen,      \* what ContentView has drawn: "login" or "tabs"
    dirty,       \* the session was published since
    observers,   \* the closures of this process, in order of registration
    events,      \* main queue: changes, each with the observers left to call
    calls,       \* calls of Auth without a completion yet
    puts,        \* sign-ups on their way to the server
    entered,     \* history: which name was typed with which account
    entries, signOuts, changes, deaths  \* how often

serverVars  == <<registered, nodes>>
storageVars == <<account, cached>>
viewVars    == <<screen, dirty>>
countVars   == <<entries, signOuts, changes, deaths>>
vars == <<serverVars, storageVars, app, session, viewVars, observers, events,
          calls, puts, entered, countVars>>

People == [account : Accounts, name : Names]

(* load passes on "nil" when nothing is cached; no node has that name. *)
Sessions == [account : Accounts, name : Names \cup {Nil}]

Closures == [who : Sessions, by : {"signIn", "setupUser"}, live : BOOLEAN]

Events == [found : BOOLEAN, left : SUBSET Nat]

Calls == [op : {"createUser", "created", "signIn"}, who : People, nr : 0..MaxEntries]

TypeOK ==
    /\ registered \subseteq Accounts
    /\ nodes \in [Names -> Accounts \cup {Nil}]
    /\ account \in Accounts \cup {Nil}
    /\ cached \in Names \cup {Nil}
    /\ app \in {"running", "killed", "nil_cast"}
    /\ session \in Sessions \cup {Nil}
    /\ screen \in {"login", "tabs"}
    /\ dirty \in BOOLEAN
    /\ observers \in Seq(Closures)
    /\ events \in Seq(Events)
    /\ calls \subseteq Calls
    /\ puts \in Seq(People)
    /\ entered \subseteq People
    /\ entries \in 0..MaxEntries /\ signOuts \in 0..MaxSignOuts
    /\ changes \in 0..MaxChanges /\ deaths \in Nat

-----------------------------------------------------------------------------
(* Does users/<name> hold a value, as this phone's client sees it? *)
Found(name) ==
    /\ name \in Names
    /\ nodes[name] # Nil \/ \E i \in DOMAIN puts : puts[i].name = name

Observer(who, by) == [who |-> who, by |-> by, live |-> FALSE]

(* A change of users/<name> goes to every observer that has had its first  *)
(* value, one block of the main queue each, in order of registration.      *)
Listening(name) == {i \in DOMAIN observers : observers[i].live /\ observers[i].who.name = name}

Raise(found, left) ==
    events' = IF left = {} THEN events ELSE Append(events, [found |-> found, left |-> left])

Running == app = "running"

(* A fresh installation, and other people's phones have signed up before. *)
Init ==
    /\ nodes \in [Names -> Accounts \cup {Nil}]
    /\ \A m, n \in Names : nodes[m] = nodes[n] => m = n \/ nodes[m] = Nil
    /\ registered = {nodes[n] : n \in Names} \ {Nil}
    /\ account = Nil /\ cached = Nil
    /\ app = "running" /\ session = Nil
    /\ screen = "login" /\ dirty = FALSE
    /\ observers = <<>> /\ events = <<>> /\ calls = {} /\ puts = <<>>
    /\ entered = {}
    /\ entries = 0 /\ signOuts = 0 /\ changes = 0 /\ deaths = 0

-----------------------------------------------------------------------------
(* LoginView's buttons: a call of Auth is started. *)

Enter(op, who) ==
    /\ Running /\ screen = "login"
    /\ entries < MaxEntries
    /\ entries' = entries + 1
    /\ calls' = calls \cup {[op |-> op, who |-> who, nr |-> entries]}
    /\ entered' = entered \cup {who}
    /\ UNCHANGED <<serverVars, storageVars, app, session, viewVars, observers, events, puts,
                   signOuts, changes, deaths>>

logIn(who) == Enter("signIn", who)

signUp(who) == Enter("createUser", who)

(* Auth's server creates the account, and refuses a second one. *)
AuthCreates(c) ==
    /\ c \in calls /\ c.op = "createUser"
    /\ c.who.account \notin registered
    /\ registered' = registered \cup {c.who.account}
    /\ calls' = (calls \ {c}) \cup {[c EXCEPT !.op = "created"]}
    /\ UNCHANGED <<nodes, storageVars, app, session, viewVars, observers, events, puts,
                   entered, countVars>>

(* A completion with an error, also one whose account was created: both    *)
(* closures only print.                                                    *)
CallFails(c) ==
    /\ c \in calls
    /\ calls' = calls \ {c}
    /\ UNCHANGED <<serverVars, storageVars, app, session, viewVars, observers, events, puts,
                   entered, countVars>>

(* signUp's completion: the session is built from what was typed, and      *)
(* insertUser writes all of users/<name>.                                  *)
SignedUp(c) ==
    /\ c \in calls /\ c.op = "created"
    /\ calls' = calls \ {c}
    /\ account' = c.who.account
    /\ session' = c.who
    /\ dirty' = TRUE
    /\ puts' = Append(puts, c.who)
    /\ Raise(TRUE, Listening(c.who.name))
    /\ UNCHANGED <<serverVars, cached, app, screen, observers, entered, countVars>>

(* Faulty: the name is looked up by nobody. *)
SignedInUnobserved(c) ==
    /\ c \in calls /\ c.op = "signIn"
    /\ c.who.account \in registered
    /\ calls' = calls \ {c}
    /\ account' = c.who.account
    /\ UNCHANGED <<serverVars, cached, app, session, viewVars, observers, events, puts, entered,
                   countVars>>

(* signIn's completion: it observes users/<name>; the session is left to   *)
(* the observer.                                                           *)
SignedIn(c) ==
    /\ c \in calls /\ c.op = "signIn"
    /\ c.who.account \in registered
    /\ calls' = calls \ {c}
    /\ account' = c.who.account
    /\ observers' = Append(observers, Observer(c.who, "signIn"))
    /\ UNCHANGED <<serverVars, cached, app, session, viewVars, events, puts, entered, countVars>>

-----------------------------------------------------------------------------
(* The database. *)

(* An observer's first value, or that there is none. *)
Answer(i) ==
    /\ i \in DOMAIN observers /\ ~observers[i].live
    /\ observers' = [observers EXCEPT ![i].live = TRUE]
    /\ Raise(Found(observers[i].who.name), {i})
    /\ UNCHANGED <<serverVars, storageVars, app, session, viewVars, calls, puts, entered, countVars>>

(* Somebody's update changes users/<name>. *)
Change(name) ==
    /\ Running /\ nodes[name] # Nil
    /\ changes < MaxChanges
    /\ changes' = changes + 1
    /\ Raise(TRUE, Listening(name))
    /\ UNCHANGED <<serverVars, storageVars, app, session, viewVars, observers, calls, puts,
                   entered, entries, signOuts, deaths>>

(* The server applies a sign-up; users/<name> is replaced as a whole. *)
Apply ==
    /\ puts # <<>>
    /\ nodes' = [nodes EXCEPT ![Head(puts).name] = Head(puts).account]
    /\ puts' = Tail(puts)
    /\ UNCHANGED <<registered, storageVars, app, session, viewVars, observers, events, calls,
                   entered, countVars>>

-----------------------------------------------------------------------------
(* The process ends; the keychain and UserDefaults stay. *)
ProcessGone(why) ==
    /\ app' = why
    /\ session' = Nil
    /\ screen' = "login" /\ dirty' = FALSE
    /\ observers' = <<>> /\ events' = <<>> /\ calls' = {} /\ puts' = <<>>
    /\ deaths' = deaths + 1
    /\ UNCHANGED <<serverVars, storageVars, entered, entries, signOuts, changes>>

(* It is observer i's turn to be called with the oldest change. *)
Turn(i) ==
    /\ events # <<>>
    /\ i \in Head(events).left /\ \A j \in Head(events).left : i <= j

Dequeue(i) ==
    LET e == Head(events) IN
    events' = IF e.left = {i} THEN Tail(events)
              ELSE [events EXCEPT ![1] = [found |-> e.found, left |-> e.left \ {i}]]

(* Faulty: a closure that takes whoever is signed in now, and one that     *)
(* does not look whether there is a value.                                 *)
ObserverCalledCurrent(i) ==
    /\ Turn(i) /\ Head(events).found
    /\ session' = [account |-> IF account = Nil THEN observers[i].who.account ELSE account,
                   name |-> observers[i].who.name]
    /\ dirty' = TRUE
    /\ Dequeue(i)
    /\ UNCHANGED <<serverVars, storageVars, app, screen, observers, calls, puts, entered, countVars>>

ObserverCalledBlind(i) ==
    /\ Turn(i)
    /\ session' = observers[i].who
    /\ dirty' = TRUE
    /\ Dequeue(i)
    /\ UNCHANGED <<serverVars, storageVars, app, screen, observers, calls, puts, entered, countVars>>

(* A closure with a value assigns a session of what it captured. *)
ObserverCalled(i) ==
    /\ Turn(i) /\ Head(events).found
    /\ session' = observers[i].who
    /\ dirty' = TRUE
    /\ Dequeue(i)
    /\ UNCHANGED <<serverVars, storageVars, app, screen, observers, calls, puts, entered, countVars>>

(* Without one, signIn's closure casts nil before it looks at the error,   *)
(* and setupUser's prints and returns.                                     *)
ObserverCalledInVain(i) ==
    /\ Turn(i) /\ ~Head(events).found
    /\ IF observers[i].by = "signIn"
       THEN ProcessGone("nil_cast")
       ELSE /\ Dequeue(i)
            /\ UNCHANGED <<serverVars, storageVars, app, session, viewVars, observers, calls,
                           puts, entered, countVars>>

-----------------------------------------------------------------------------
(* ContentView: load observes for the current user under the cached name,  *)
(* save caches the session's name.                                         *)
load == observers' = Append(observers, Observer([account |-> account, name |-> cached], "setupUser"))

save == cached' = session.name

(* Faulty: a sign-in is not drawn until something else is. *)
DrawSignOutsOnly ==
    /\ dirty
    /\ dirty' = FALSE
    /\ screen' = IF account = Nil THEN "login" ELSE screen
    /\ UNCHANGED <<cached, observers, serverVars, account, app, session, events, calls, puts,
                   entered, countVars>>

(* The body is evaluated after the session was published; onAppear runs    *)
(* when the tabs take the place of the login screen.                       *)
Draw ==
    /\ dirty
    /\ dirty' = FALSE
    /\ screen' = IF account = Nil THEN "login" ELSE "tabs"
    /\ IF account = Nil \/ screen = "tabs" THEN UNCHANGED <<cached, observers>>
       ELSE IF session = Nil THEN load /\ UNCHANGED cached
       ELSE save /\ UNCHANGED observers
    /\ UNCHANGED <<serverVars, account, app, session, events, calls, puts, entered, countVars>>

signOut ==
    /\ Running /\ screen = "tabs"
    /\ signOuts < MaxSignOuts
    /\ signOuts' = signOuts + 1
    /\ account' = Nil
    /\ session' = Nil
    /\ dirty' = TRUE
    /\ UNCHANGED <<serverVars, cached, app, screen, observers, events, calls, puts, entered,
                   entries, changes, deaths>>

Kill ==
    /\ Running
    /\ deaths < MaxKills
    /\ ProcessGone("killed")

(* Faulty: the current user is loaded whether there is one or not. *)
LaunchUnchecked ==
    /\ ~Running
    /\ app' = "running"
    /\ screen' = "tabs" /\ load
    /\ UNCHANGED <<serverVars, storageVars, session, dirty, events, calls, puts, entered, countVars>>

(* The first body of a new process: an account in the keychain means tabs. *)
Launch ==
    /\ ~Running
    /\ app' = "running"
    /\ IF account = Nil THEN UNCHANGED <<screen, observers>>
       ELSE screen' = "tabs" /\ load
    /\ UNCHANGED <<serverVars, storageVars, session, dirty, events, calls, puts, entered, countVars>>

-----------------------------------------------------------------------------
UserStep ==
    \/ \E who \in People : logIn(who) \/ signUp(who)
    \/ signOut \/ Launch

SystemStep ==
    \/ \E c \in calls : AuthCreates(c) \/ CallFails(c) \/ SignedUp(c) \/ SignedIn(c)
    \/ \E i \in DOMAIN observers : Answer(i) \/ ObserverCalled(i) \/ ObserverCalledInVain(i)
    \/ Draw \/ Apply

WorldStep == Kill \/ \E name \in Names : Change(name)

Next == UserStep \/ SystemStep \/ WorldStep

Spec == Init /\ [][Next]_vars

(* Auth answers, the database answers and applies, the main queue runs;    *)
(* users and faults owe nothing.                                           *)
FairSpec == Spec /\ WF_vars(SystemStep)

=============================================================================
