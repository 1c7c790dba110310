----------------------------- MODULE AccountProofs -----------------------------
(***************************************************************************)
(* AccountProperties' invariants hold for all accounts, names and bounds.  *)
(***************************************************************************)
EXTENDS AccountProperties, TLAPS

(* Events name observers there are, and say truly that there is a value. *)
EventsRight ==
    \A k \in DOMAIN events :
        /\ events[k].left # {} /\ events[k].left \subseteq DOMAIN observers
        /\ events[k].found => \A i \in events[k].left : Found(observers[i].who.name)

(* Every account in use is registered. *)
AccountsRight ==
    /\ account # Nil => account \in registered
    /\ \A i \in DOMAIN observers : observers[i].who.account \in registered
    /\ \A c \in calls : c.op = "created" => c.who.account \in registered

(* What was typed is what calls and signIn's closures hold; setupUser's    *)
(* closures need a relaunch, since a draw without a session finds the tabs *)
(* on the screen.                                                          *)
TypedRight ==
    /\ app # "running" => deaths > 0
    /\ dirty /\ session = Nil => screen = "tabs"
    /\ \A c \in calls : c.who \in entered
    /\ \A i \in DOMAIN observers : observers[i].by = "signIn" => observers[i].who \in entered
    /\ deaths = 0 => \A i \in DOMAIN observers : observers[i].by = "signIn"

(* NeverStuckAtLogin's observer is one of signIn. *)
OnTheWay ==
    app = "running" /\ account # Nil /\ screen = "login" =>
        \/ dirty
        \/ \E i \in DOMAIN observers :
            /\ observers[i].who.account = account /\ observers[i].by = "signIn"
            /\ ~observers[i].live \/ \E k \in DOMAIN events : i \in events[k].left

Right == EventsRight /\ AccountsRight /\ TypedRight /\ OnTheWay

Inv == TypeOK /\ Right /\ SessionHasNode /\ TypedTogether

-----------------------------------------------------------------------------
(* What the sequences do. *)

LEMMA AppendAt ==
    ASSUME NEW S, NEW s \in Seq(S), NEW e \in S
    PROVE  /\ Append(s, e) \in Seq(S)
           /\ DOMAIN Append(s, e) = DOMAIN s \cup {Len(s) + 1}
           /\ \A i \in DOMAIN s : Append(s, e)[i] = s[i]
           /\ Append(s, e)[Len(s) + 1] = e
OBVIOUS

LEMMA TailAt ==
    ASSUME NEW S, NEW s \in Seq(S), s # <<>>
    PROVE  /\ Head(s) \in S /\ Head(s) = s[1] /\ 1 \in DOMAIN s
           /\ Tail(s) \in Seq(S)
           /\ \A i \in DOMAIN Tail(s) : i + 1 \in DOMAIN s /\ Tail(s)[i] = s[i + 1]
           /\ \A i \in DOMAIN s : i = 1 \/ (i - 1 \in DOMAIN Tail(s) /\ Tail(s)[i - 1] = s[i])
OBVIOUS

(* A name with a node, or with one on its way, keeps it in every step but  *)
(* the end of the process.                                                 *)
LEMMA FoundSame ==
    ASSUME UNCHANGED <<nodes, puts>>, NEW n
    PROVE  Found(n)' <=> Found(n)
BY DEF Found

LEMMA FoundPut ==
    ASSUME TypeOK, UNCHANGED nodes, NEW who \in People, puts' = Append(puts, who), NEW n
    PROVE  (Found(n) => Found(n)') /\ Found(who.name)'
<1>1. puts \in Seq(People) /\ who.name \in Names
    BY DEF TypeOK, People
<1>2. /\ DOMAIN puts' = DOMAIN puts \cup {Len(puts) + 1}
      /\ \A i \in DOMAIN puts : puts'[i] = puts[i]
      /\ puts'[Len(puts) + 1] = who
    BY <1>1, AppendAt
<1> QED BY <1>1, <1>2 DEF Found

LEMMA FoundApplied ==
    ASSUME TypeOK, Apply, NEW n
    PROVE  Found(n) => Found(n)'
<1>1. puts \in Seq(People) /\ puts # <<>> /\ nodes \in [Names -> Accounts \cup {Nil}]
    BY DEF TypeOK, Apply
<1>2. /\ Head(puts) \in People /\ Head(puts) = puts[1]
      /\ \A i \in DOMAIN puts : i = 1 \/ (i - 1 \in DOMAIN Tail(puts) /\ Tail(puts)[i - 1] = puts[i])
    BY <1>1, TailAt
<1>3. Head(puts).account \in Accounts /\ Head(puts).account # Nil
    BY <1>2, AccountsAssumption DEF People
<1>4. nodes' = [nodes EXCEPT ![Head(puts).name] = Head(puts).account] /\ puts' = Tail(puts)
    BY DEF Apply
<1>5. nodes[n] # Nil /\ n \in Names => nodes'[n] # Nil
    BY <1>1, <1>3, <1>4
<1>6. \A i \in DOMAIN puts : puts[i].name = n /\ n \in Names =>
          nodes'[n] # Nil \/ \E j \in DOMAIN puts' : puts'[j].name = n
    BY <1>1, <1>2, <1>3, <1>4
<1> QED BY <1>5, <1>6 DEF Found

(* A raised event is right if its observers are there and the value is.    *)
LEMMA RaiseRight ==
    ASSUME events \in Seq(Events), EventsRight,
           NEW found \in BOOLEAN, NEW left \in SUBSET Nat, Raise(found, left),
           left \subseteq DOMAIN observers', DOMAIN observers \subseteq DOMAIN observers',
           \A i \in DOMAIN observers : observers'[i].who = observers[i].who,
           \A n : Found(n) => Found(n)',
           found => \A i \in left : Found(observers[i].who.name)' /\ i \in DOMAIN observers
    PROVE  /\ events' \in Seq(Events) /\ EventsRight'
           /\ \A k \in DOMAIN events : k \in DOMAIN events' /\ events'[k] = events[k]
           /\ left # {} => \E k \in DOMAIN events' : events'[k].left = left
<1> DEFINE e == [found |-> found, left |-> left]
<1>1. e \in Events /\ e.found = found /\ e.left = left
    BY DEF Events
<1>2. CASE left = {}
    BY <1>2 DEF Raise, EventsRight
<1>3. CASE left # {}
    <2>1. events' = Append(events, e)
        BY <1>3 DEF Raise
    <2>2. /\ events' \in Seq(Events)
          /\ DOMAIN events' = DOMAIN events \cup {Len(events) + 1}
          /\ \A k \in DOMAIN events : events'[k] = events[k]
          /\ events'[Len(events) + 1] = e
        BY <1>1, <2>1, AppendAt
    <2>3. ASSUME NEW k \in DOMAIN events
          PROVE  /\ events'[k].left # {} /\ events'[k].left \subseteq DOMAIN observers'
                 /\ events'[k].found => \A i \in events'[k].left : Found(observers[i].who.name)'
        BY <2>2 DEF EventsRight
    <2>4. EventsRight'
        BY <1>1, <1>3, <2>2, <2>3 DEF EventsRight
    <2> QED BY <1>1, <2>2, <2>4
<1> QED BY <1>2, <1>3

(* Taking an observer off the oldest event leaves right events. *)
LEMMA DequeueRight ==
    ASSUME events \in Seq(Events), EventsRight, NEW i, Turn(i), Dequeue(i),
           UNCHANGED <<observers, nodes, puts>>
    PROVE  /\ events' \in Seq(Events) /\ EventsRight'
           /\ \A k \in DOMAIN events : \A j : j \in events[k].left /\ j # i =>
                  \E m \in DOMAIN events' : j \in events'[m].left
<1>1. events # <<>> /\ i \in Head(events).left
    BY DEF Turn
<1>2. /\ Head(events) \in Events /\ Head(events) = events[1] /\ 1 \in DOMAIN events
      /\ Tail(events) \in Seq(Events)
      /\ \A k \in DOMAIN Tail(events) : k + 1 \in DOMAIN events /\ Tail(events)[k] = events[k + 1]
      /\ \A k \in DOMAIN events :
             k = 1 \/ (k - 1 \in DOMAIN Tail(events) /\ Tail(events)[k - 1] = events[k])
    BY <1>1, TailAt
<1>3. CASE Head(events).left = {i}
    <2>1. events' = Tail(events)
        BY <1>3 DEF Dequeue
    <2>2. EventsRight'
        BY <1>2, <2>1, FoundSame DEF EventsRight
    <2>3. ASSUME NEW k \in DOMAIN events, NEW j, j \in events[k].left, j # i
          PROVE  \E m \in DOMAIN events' : j \in events'[m].left
        <3>1. k # 1
            BY <1>2, <1>3, <2>3
        <3>2. k - 1 \in DOMAIN events' /\ events'[k - 1] = events[k]
            BY <1>2, <2>1, <3>1
        <3> QED BY <2>3, <3>2
    <2> QED BY <1>2, <2>1, <2>2, <2>3
<1>4. CASE Head(events).left # {i}
    <2> DEFINE e == [found |-> events[1].found, left |-> events[1].left \ {i}]
    <2>1. events' = [events EXCEPT ![1] = e]
        BY <1>2, <1>4 DEF Dequeue
    <2>2. e \in Events /\ e.left = events[1].left \ {i} /\ e.found = events[1].found
        BY <1>2 DEF Events
    <2>3. events' \in Seq(Events) /\ DOMAIN events' = DOMAIN events
        BY <1>2, <2>1, <2>2
    <2>4. events'[1] = e /\ \A k \in DOMAIN events : k # 1 => events'[k] = events[k]
        BY <1>2, <2>1
    <2>5. e.left # {}
        BY <1>1, <1>2, <1>4, <2>2
    <2>6. EventsRight'
        BY <2>2, <2>3, <2>4, <2>5, <1>2, FoundSame DEF EventsRight
    <2> QED BY <2>2, <2>3, <2>4, <2>6
<1> QED BY <1>3, <1>4

-----------------------------------------------------------------------------
LEMMA EmptySeqs == <<>> \in Seq(Closures) /\ <<>> \in Seq(Events) /\ <<>> \in Seq(People)
OBVIOUS

LEMMA InitInv == Init => Inv
<1> SUFFICES ASSUME Init PROVE Inv
    OBVIOUS
<1>1. /\ observers = <<>> /\ events = <<>> /\ calls = {} /\ puts = <<>>
      /\ account = Nil /\ session = Nil /\ cached = Nil /\ app = "running" /\ dirty = FALSE
    BY DEF Init
<1>2. registered \subseteq Accounts
    BY DEF Init
<1>3. /\ 0 \in 0..MaxEntries /\ 0 \in 0..MaxSignOuts /\ 0 \in 0..MaxChanges /\ 0 \in Nat
    BY AccountsAssumption
<1>4. /\ nodes \in [Names -> Accounts \cup {Nil}] /\ screen = "login" /\ entered = {}
      /\ entries = 0 /\ signOuts = 0 /\ changes = 0 /\ deaths = 0
    BY DEF Init
<1>5. TypeOK
    BY <1>1, <1>2, <1>3, <1>4, EmptySeqs DEF TypeOK
<1>6. Right
    BY <1>1 DEF Right, EventsRight, AccountsRight, TypedRight, OnTheWay
<1> QED BY <1>1, <1>5, <1>6 DEF Inv, SessionHasNode, TypedTogether

(* An end of the process leaves little to be wrong. *)
LEMMA GoneInv ==
    ASSUME Inv, NEW why \in {"killed", "nil_cast"}, ProcessGone(why)
    PROVE  Inv'
<1>1. /\ observers' = <<>> /\ events' = <<>> /\ calls' = {} /\ puts' = <<>>
      /\ session' = Nil /\ app' = why /\ dirty' = FALSE /\ deaths' = deaths + 1
      /\ account' = account /\ registered' = registered
    BY DEF ProcessGone, serverVars, storageVars
<1>2. deaths' \in Nat /\ deaths' > 0
    BY <1>1 DEF Inv, TypeOK
<1>3. /\ screen' = "login" /\ dirty' = FALSE /\ session' = Nil /\ app' = why /\ calls' = {}
      /\ UNCHANGED <<registered, nodes, account, cached, entered, entries, signOuts, changes>>
    BY DEF ProcessGone, serverVars, storageVars
<1>4. observers' \in Seq(Closures) /\ events' \in Seq(Events) /\ puts' \in Seq(People)
    BY <1>1, EmptySeqs
<1>5. TypeOK'
    BY <1>2, <1>3, <1>4 DEF Inv, TypeOK
<1>6. Right'
    BY <1>1, <1>2 DEF Inv, Right, EventsRight, AccountsRight, TypedRight, OnTheWay
<1> QED BY <1>1, <1>2, <1>5, <1>6 DEF Inv, SessionHasNode, TypedTogether

(* A closure is added to the observers. *)
LEMMA ObserverAdded ==
    ASSUME observers \in Seq(Closures), NEW who \in Sessions, NEW by \in {"signIn", "setupUser"},
           observers' = Append(observers, Observer(who, by))
    PROVE  /\ observers' \in Seq(Closures)
           /\ DOMAIN observers' = DOMAIN observers \cup {Len(observers) + 1}
           /\ \A i \in DOMAIN observers : observers'[i] = observers[i]
           /\ observers'[Len(observers) + 1] = Observer(who, by)
           /\ Observer(who, by).who = who /\ Observer(who, by).by = by
           /\ Observer(who, by).live = FALSE
<1>1. Observer(who, by) \in Closures
    BY DEF Observer, Closures
<1>2. /\ Observer(who, by).who = who /\ Observer(who, by).by = by
      /\ Observer(who, by).live = FALSE
    BY DEF Observer
<1> QED BY <1>1, <1>2, AppendAt

-----------------------------------------------------------------------------
(* Calls of Auth. *)

LEMMA EnterInv ==
    ASSUME Inv, NEW op \in {"signIn", "createUser"}, NEW who \in People, Enter(op, who)
    PROVE  Inv'
<1> DEFINE c == [op |-> op, who |-> who, nr |-> entries]
<1>1. /\ calls' = calls \cup {c} /\ entered' = entered \cup {who}
      /\ entries' = entries + 1 /\ entries < MaxEntries
      /\ UNCHANGED <<registered, nodes, account, cached, app, session, screen, dirty, observers,
                     events, puts, signOuts, changes, deaths>>
    BY DEF Enter, serverVars, storageVars, viewVars
<1>2. entries \in 0..MaxEntries /\ MaxEntries \in Nat
    BY AccountsAssumption DEF Inv, TypeOK
<1>3. c \in Calls /\ c.op # "created" /\ c.who = who
    BY <1>2 DEF Calls
<1>4. TypeOK'
    BY <1>1, <1>2, <1>3 DEF Inv, TypeOK
<1>5. Right'
    BY <1>1, <1>3, FoundSame
    DEF Inv, Right, EventsRight, AccountsRight, TypedRight, OnTheWay
<1> QED BY <1>1, <1>4, <1>5, FoundSame DEF Inv, SessionHasNode, TypedTogether

LEMMA AuthCreatesInv ==
    ASSUME Inv, NEW c \in calls, AuthCreates(c)
    PROVE  Inv'
<1> DEFINE d == [c EXCEPT !.op = "created"]
<1>1. /\ registered' = registered \cup {c.who.account}
      /\ calls' = (calls \ {c}) \cup {d}
      /\ UNCHANGED <<nodes, account, cached, app, session, screen, dirty, observers, events, puts,
                     entered, entries, signOuts, changes, deaths>>
    BY DEF AuthCreates, storageVars, viewVars, countVars
<1>2. c \in Calls
    BY DEF Inv, TypeOK
<1>3. c.who \in People /\ c.who.account \in Accounts /\ d \in Calls /\ d.who = c.who
    BY <1>2 DEF Calls, People
<1>4. TypeOK'
    BY <1>1, <1>3 DEF Inv, TypeOK
<1>5. Right'
    BY <1>1, <1>3, FoundSame
    DEF Inv, Right, EventsRight, AccountsRight, TypedRight, OnTheWay
<1> QED BY <1>1, <1>4, <1>5, FoundSame DEF Inv, SessionHasNode, TypedTogether

LEMMA CallFailsInv ==
    ASSUME Inv, NEW c \in calls, CallFails(c)
    PROVE  Inv'
<1>1. /\ calls' = calls \ {c}
      /\ UNCHANGED <<registered, nodes, account, cached, app, session, screen, dirty, observers,
                     events, puts, entered, entries, signOuts, changes, deaths>>
    BY DEF CallFails, serverVars, storageVars, viewVars, countVars
<1>2. TypeOK'
    BY <1>1 DEF Inv, TypeOK
<1>3. Right'
    BY <1>1, FoundSame DEF Inv, Right, EventsRight, AccountsRight, TypedRight, OnTheWay
<1> QED BY <1>1, <1>2, <1>3, FoundSame DEF Inv, SessionHasNode, TypedTogether

(* A closure of Auth's answer appends to events or observers. *)
LEMMA SignedUpInv ==
    ASSUME Inv, NEW c \in calls, SignedUp(c)
    PROVE  Inv'
<1>1. /\ c.op = "created" /\ calls' = calls \ {c} /\ account' = c.who.account
      /\ session' = c.who /\ dirty' = TRUE /\ puts' = Append(puts, c.who)
      /\ Raise(TRUE, Listening(c.who.name))
      /\ UNCHANGED <<registered, nodes, cached, app, screen, observers, entered, entries, signOuts,
                     changes, deaths>>
    BY DEF SignedUp, serverVars, countVars
<1>2. c.who \in People /\ c.who.account \in Accounts /\ c.who \in Sessions /\ c.who # Nil
    BY AccountsAssumption DEF Inv, TypeOK, Calls, People, Sessions
<1>3. c.who.account \in registered /\ c.who \in entered
    BY <1>1 DEF Inv, Right, AccountsRight, TypedRight
<1>4. /\ \A n : Found(n) => Found(n)'
      /\ Found(c.who.name)'
    BY <1>1, <1>2, FoundPut DEF Inv
<1>5. /\ Listening(c.who.name) \subseteq DOMAIN observers
      /\ DOMAIN observers \subseteq Nat
      /\ \A i \in Listening(c.who.name) : observers[i].who.name = c.who.name
    BY DEF Listening, Inv, TypeOK
<1>6. events' \in Seq(Events) /\ EventsRight'
    BY <1>1, <1>4, <1>5, RaiseRight DEF Inv, TypeOK, Right
<1>7. puts' \in Seq(People)
    BY <1>1, <1>2, AppendAt DEF Inv, TypeOK
<1>8. TypeOK'
    BY <1>1, <1>2, <1>6, <1>7 DEF Inv, TypeOK
<1>9. Right'
    BY <1>1, <1>2, <1>3, <1>6 DEF Inv, Right, AccountsRight, TypedRight, OnTheWay
<1>10. SessionHasNode'
    BY <1>1, <1>3, <1>4 DEF SessionHasNode
<1>11. TypedTogether'
    BY <1>1, <1>3 DEF Inv, TypedTogether
<1> QED BY <1>8, <1>9, <1>10, <1>11 DEF Inv

LEMMA SignedInInv ==
    ASSUME Inv, NEW c \in calls, SignedIn(c)
    PROVE  Inv'
<1>1. /\ c.who.account \in registered /\ calls' = calls \ {c} /\ account' = c.who.account
      /\ observers' = Append(observers, Observer(c.who, "signIn"))
      /\ UNCHANGED <<registered, nodes, cached, app, session, screen, dirty, events, puts, entered,
                     entries, signOuts, changes, deaths>>
    BY DEF SignedIn, serverVars, viewVars, countVars
<1>2. c.who \in Sessions /\ c.who.account \in Accounts
    BY DEF Inv, TypeOK, Calls, People, Sessions
<1>3. /\ observers' \in Seq(Closures)
      /\ DOMAIN observers' = DOMAIN observers \cup {Len(observers) + 1}
      /\ \A i \in DOMAIN observers : observers'[i] = observers[i]
      /\ observers'[Len(observers) + 1].who = c.who
      /\ observers'[Len(observers) + 1].by = "signIn"
      /\ observers'[Len(observers) + 1].live = FALSE
    BY <1>1, <1>2, ObserverAdded DEF Inv, TypeOK
<1>4. TypeOK'
    BY <1>1, <1>2, <1>3 DEF Inv, TypeOK
<1>5. EventsRight'
    BY <1>1, <1>3, FoundSame DEF Inv, Right, EventsRight
<1>6. AccountsRight'
    BY <1>1, <1>3 DEF Inv, Right, AccountsRight
<1>7. TypedRight'
    BY <1>1, <1>3 DEF Inv, Right, TypedRight
<1>8. OnTheWay'
    BY <1>1, <1>3 DEF OnTheWay
<1>9. SessionHasNode' /\ TypedTogether'
    BY <1>1, FoundSame DEF Inv, SessionHasNode, TypedTogether
<1> QED BY <1>4, <1>5, <1>6, <1>7, <1>8, <1>9 DEF Inv, Right

-----------------------------------------------------------------------------
(* The database. *)

LEMMA LiveClosure ==
    ASSUME NEW o \in Closures
    PROVE  /\ [o EXCEPT !.live = TRUE] \in Closures
           /\ [o EXCEPT !.live = TRUE].who = o.who
           /\ [o EXCEPT !.live = TRUE].by = o.by
BY DEF Closures

LEMMA AnswerInv ==
    ASSUME Inv, NEW i \in DOMAIN observers, Answer(i)
    PROVE  Inv'
<1>1. /\ observers' = [observers EXCEPT ![i].live = TRUE]
      /\ Raise(Found(observers[i].who.name), {i})
      /\ UNCHANGED <<registered, nodes, account, cached, app, session, screen, dirty, calls, puts,
                     entered, entries, signOuts, changes, deaths>>
    BY DEF Answer, serverVars, storageVars, viewVars, countVars
<1>2. observers \in Seq(Closures) /\ i \in Nat /\ events \in Seq(Events)
    BY DEF Inv, TypeOK
<1> DEFINE o == [observers[i] EXCEPT !.live = TRUE]
<1>a. o \in Closures /\ o.who = observers[i].who /\ o.by = observers[i].by
    BY <1>2, LiveClosure
<1>b. observers' = [observers EXCEPT ![i] = o]
    BY <1>1
<1> HIDE DEF o
<1>3. /\ observers' \in Seq(Closures) /\ DOMAIN observers' = DOMAIN observers
      /\ \A j \in DOMAIN observers :
             observers'[j].who = observers[j].who /\ observers'[j].by = observers[j].by
      /\ \A j \in DOMAIN observers : j # i => observers'[j].live = observers[j].live
    BY <1>2, <1>a, <1>b
<1>4. \A n : Found(n) <=> Found(n)'
    BY <1>1, FoundSame
<1>5. Found(observers[i].who.name) \in BOOLEAN
    BY DEF Found
<1>6. /\ events' \in Seq(Events) /\ EventsRight'
      /\ \A k \in DOMAIN events : k \in DOMAIN events' /\ events'[k] = events[k]
      /\ \E k \in DOMAIN events' : events'[k].left = {i}
    <2>1. {i} \in SUBSET Nat /\ {i} \subseteq DOMAIN observers' /\ {i} # {}
        BY <1>2, <1>3
    <2>2. Found(observers[i].who.name) =>
              \A j \in {i} : Found(observers[j].who.name)' /\ j \in DOMAIN observers
        BY <1>3, <1>4, FoundSame, <1>1
    <2> QED BY <1>1, <1>2, <1>3, <1>4, <1>5, <2>1, <2>2, RaiseRight DEF Inv, Right
<1>7. TypeOK'
    BY <1>1, <1>3, <1>6 DEF Inv, TypeOK
<1>8. AccountsRight' /\ TypedRight'
    BY <1>1, <1>3 DEF Inv, Right, AccountsRight, TypedRight
<1>9. OnTheWay'
    BY <1>1, <1>3, <1>6 DEF Inv, Right, OnTheWay
<1>10. SessionHasNode' /\ TypedTogether'
    BY <1>1, <1>4 DEF Inv, SessionHasNode, TypedTogether
<1> QED BY <1>6, <1>7, <1>8, <1>9, <1>10 DEF Inv, Right

LEMMA ChangeInv ==
    ASSUME Inv, NEW name \in Names, Change(name)
    PROVE  Inv'
<1>1. /\ nodes[name] # Nil /\ changes < MaxChanges /\ changes' = changes + 1
      /\ Raise(TRUE, Listening(name))
      /\ UNCHANGED <<registered, nodes, account, cached, app, session, screen, dirty, observers,
                     calls, puts, entered, entries, signOuts, deaths>>
    BY DEF Change, serverVars, storageVars, viewVars
<1>2. /\ Listening(name) \subseteq DOMAIN observers
      /\ DOMAIN observers \subseteq Nat
      /\ \A i \in Listening(name) : observers[i].who.name = name
    BY DEF Listening, Inv, TypeOK
<1>3. Found(name) /\ \A n : Found(n) <=> Found(n)'
    BY <1>1, FoundSame DEF Found
<1>4. /\ events' \in Seq(Events) /\ EventsRight'
      /\ \A k \in DOMAIN events : k \in DOMAIN events' /\ events'[k] = events[k]
    BY <1>1, <1>2, <1>3, RaiseRight DEF Inv, TypeOK, Right
<1>5. changes' \in 0..MaxChanges
    BY <1>1, AccountsAssumption DEF Inv, TypeOK
<1>6. TypeOK'
    BY <1>1, <1>4, <1>5 DEF Inv, TypeOK
<1>7. AccountsRight' /\ TypedRight' /\ OnTheWay'
    BY <1>1, <1>4 DEF Inv, Right, AccountsRight, TypedRight, OnTheWay
<1>8. SessionHasNode' /\ TypedTogether'
    BY <1>1, <1>3 DEF Inv, SessionHasNode, TypedTogether
<1> QED BY <1>4, <1>6, <1>7, <1>8 DEF Inv, Right

LEMMA ApplyInv ==
    ASSUME Inv, Apply
    PROVE  Inv'
<1>1. /\ puts # <<>> /\ puts' = Tail(puts)
      /\ nodes' = [nodes EXCEPT ![Head(puts).name] = Head(puts).account]
      /\ UNCHANGED <<registered, account, cached, app, session, screen, dirty, observers, events,
                     calls, entered, entries, signOuts, changes, deaths>>
    BY DEF Apply, storageVars, viewVars, countVars
<1>2. Head(puts) \in People /\ puts' \in Seq(People)
    BY <1>1, TailAt DEF Inv, TypeOK
<1>3. nodes' \in [Names -> Accounts \cup {Nil}]
    BY <1>1, <1>2 DEF Inv, TypeOK, People
<1>4. TypeOK'
    BY <1>1, <1>2, <1>3 DEF Inv, TypeOK
<1>5. \A n : Found(n) => Found(n)'
    BY FoundApplied DEF Inv
<1>6. EventsRight'
    BY <1>1, <1>5 DEF Inv, Right, EventsRight
<1>7. AccountsRight' /\ TypedRight' /\ OnTheWay'
    BY <1>1 DEF Inv, Right, AccountsRight, TypedRight, OnTheWay
<1>8. SessionHasNode' /\ TypedTogether'
    BY <1>1, <1>5 DEF Inv, SessionHasNode, TypedTogether
<1> QED BY <1>4, <1>6, <1>7, <1>8 DEF Inv, Right

-----------------------------------------------------------------------------
(* Observers. *)

LEMMA ObserverCalledInv ==
    ASSUME Inv, NEW i \in DOMAIN observers, ObserverCalled(i)
    PROVE  Inv'
<1>1. /\ Turn(i) /\ Head(events).found /\ Dequeue(i)
      /\ session' = observers[i].who /\ dirty' = TRUE
      /\ UNCHANGED <<registered, nodes, account, cached, app, screen, observers, calls, puts,
                     entered, entries, signOuts, changes, deaths>>
    BY DEF ObserverCalled, serverVars, storageVars, countVars
<1>2. observers[i].who \in Sessions /\ observers[i].who # Nil
    <2>1. observers[i] \in Closures
        BY DEF Inv, TypeOK
    <2>2. observers[i].who \in Sessions
        BY <2>1 DEF Closures
    <2> QED BY <2>2, AccountsAssumption DEF Sessions
<1>3. events' \in Seq(Events) /\ EventsRight'
    BY <1>1, DequeueRight DEF Inv, TypeOK, Right
<1>4. TypeOK'
    BY <1>1, <1>2, <1>3 DEF Inv, TypeOK
<1>5. AccountsRight' /\ TypedRight' /\ OnTheWay'
    BY <1>1, <1>2 DEF Inv, Right, AccountsRight, TypedRight, OnTheWay
<1>6. Found(observers[i].who.name)
    <2>1. events # <<>> /\ i \in Head(events).left /\ events \in Seq(Events)
        BY <1>1 DEF Turn, Inv, TypeOK
    <2>2. Head(events) = events[1] /\ 1 \in DOMAIN events
        BY <2>1, TailAt
    <2> QED BY <1>1, <2>1, <2>2 DEF Inv, Right, EventsRight
<1>7. SessionHasNode'
    BY <1>1, <1>6, FoundSame DEF Inv, Right, AccountsRight, SessionHasNode
<1>8. TypedTogether'
    BY <1>1 DEF Inv, Right, TypedRight, TypedTogether
<1> QED BY <1>3, <1>4, <1>5, <1>7, <1>8 DEF Inv, Right

LEMMA ObserverCalledInVainInv ==
    ASSUME Inv, NEW i \in DOMAIN observers, ObserverCalledInVain(i)
    PROVE  Inv'
<1>1. CASE observers[i].by = "signIn"
    BY <1>1, GoneInv DEF ObserverCalledInVain
<1>2. CASE observers[i].by # "signIn"
    <2>1. /\ Turn(i) /\ Dequeue(i)
          /\ UNCHANGED <<registered, nodes, account, cached, app, session, screen, dirty,
                         observers, calls, puts, entered, entries, signOuts, changes, deaths>>
        BY <1>2 DEF ObserverCalledInVain, serverVars, storageVars, viewVars, countVars
    <2>2. /\ events' \in Seq(Events) /\ EventsRight'
          /\ \A k \in DOMAIN events : \A j : j \in events[k].left /\ j # i =>
                 \E m \in DOMAIN events' : j \in events'[m].left
        BY <2>1, DequeueRight DEF Inv, TypeOK, Right
    <2>3. TypeOK'
        BY <2>1, <2>2 DEF Inv, TypeOK
    <2>4. AccountsRight' /\ TypedRight'
        BY <2>1 DEF Inv, Right, AccountsRight, TypedRight
    <2>5. OnTheWay'
        BY <1>2, <2>1, <2>2 DEF Inv, Right, OnTheWay
    <2>6. SessionHasNode' /\ TypedTogether'
        BY <2>1, FoundSame DEF Inv, SessionHasNode, TypedTogether
    <2> QED BY <2>2, <2>3, <2>4, <2>5, <2>6 DEF Inv, Right
<1> QED BY <1>1, <1>2

-----------------------------------------------------------------------------
(* ContentView and the phone. *)

(* load adds a closure of setupUser for the account there is. *)
LEMMA LoadRight ==
    ASSUME Inv, account # Nil, load, UNCHANGED <<nodes, registered, puts, events, account, calls>>
    PROVE  /\ observers' \in Seq(Closures) /\ EventsRight' /\ AccountsRight'
           /\ \A i \in DOMAIN observers' :
                  observers'[i].by = "signIn" => i \in DOMAIN observers /\ observers'[i] = observers[i]
<1> DEFINE who == [account |-> account, name |-> cached]
<1>1. who \in Sessions /\ who.account = account
    BY DEF Inv, TypeOK, Sessions
<1>2. observers' = Append(observers, Observer(who, "setupUser"))
    BY DEF load
<1>3. /\ observers' \in Seq(Closures)
      /\ DOMAIN observers' = DOMAIN observers \cup {Len(observers) + 1}
      /\ \A i \in DOMAIN observers : observers'[i] = observers[i]
      /\ observers'[Len(observers) + 1].who = who
      /\ observers'[Len(observers) + 1].by = "setupUser"
    <2> HIDE DEF who
    <2> QED BY <1>1, <1>2, ObserverAdded DEF Inv, TypeOK
<1>4. EventsRight'
    BY <1>3, FoundSame DEF Inv, Right, EventsRight
<1>5. AccountsRight'
    BY <1>1, <1>3 DEF Inv, Right, AccountsRight
<1> QED BY <1>3, <1>4, <1>5

LEMMA DrawInv ==
    ASSUME Inv, Draw
    PROVE  Inv'
<1>1. /\ dirty = TRUE /\ dirty' = FALSE
      /\ screen' = IF account = Nil THEN "login" ELSE "tabs"
      /\ IF account = Nil \/ screen = "tabs" THEN UNCHANGED <<cached, observers>>
         ELSE IF session = Nil THEN load /\ UNCHANGED cached
         ELSE save /\ UNCHANGED observers
      /\ UNCHANGED <<registered, nodes, account, app, session, events, calls, puts, entered,
                     entries, signOuts, changes, deaths>>
    BY DEF Draw, serverVars, countVars, Inv, TypeOK
<1>2. screen' \in {"login", "tabs"} /\ (screen' = "login" => account = Nil)
    BY <1>1
<1>3. SessionHasNode'
    BY <1>1, FoundSame DEF Inv, SessionHasNode
<1>4. CASE account = Nil \/ screen = "tabs"
    <2>1. UNCHANGED <<cached, observers>>
        BY <1>1, <1>4
    <2>2. TypeOK'
        BY <1>1, <1>2, <2>1 DEF Inv, TypeOK
    <2>3. Right'
        BY <1>1, <1>2, <2>1, FoundSame
        DEF Inv, Right, EventsRight, AccountsRight, TypedRight, OnTheWay
    <2> QED BY <1>1, <1>3, <2>1, <2>2, <2>3 DEF Inv, TypedTogether
<1>5. CASE account # Nil /\ screen # "tabs"
    <2>1. session # Nil
        BY <1>1, <1>5 DEF Inv, Right, TypedRight
    <2>2. cached' = session.name /\ observers' = observers
        BY <1>1, <1>5, <2>1 DEF save
    <2>3. cached' \in Names \cup {Nil}
        BY <2>1, <2>2 DEF Inv, TypeOK, Sessions
    <2>4. TypeOK'
        BY <1>1, <1>2, <2>2, <2>3 DEF Inv, TypeOK
    <2>5. Right'
        BY <1>1, <1>2, <2>2, FoundSame
        DEF Inv, Right, EventsRight, AccountsRight, TypedRight, OnTheWay
    <2>6. TypedTogether'
        BY <1>1, <2>1, <2>2 DEF Inv, TypedTogether
    <2> QED BY <1>3, <2>4, <2>5, <2>6 DEF Inv
<1> QED BY <1>4, <1>5

LEMMA SignOutInv ==
    ASSUME Inv, signOut
    PROVE  Inv'
<1>1. /\ screen = "tabs" /\ signOuts < MaxSignOuts /\ signOuts' = signOuts + 1
      /\ account' = Nil /\ session' = Nil /\ dirty' = TRUE
      /\ UNCHANGED <<registered, nodes, cached, app, screen, observers, events, calls, puts, entered,
                     entries, changes, deaths>>
    BY DEF signOut, serverVars
<1>2. signOuts' \in 0..MaxSignOuts
    BY <1>1, AccountsAssumption DEF Inv, TypeOK
<1>3. TypeOK'
    BY <1>1, <1>2 DEF Inv, TypeOK
<1>4. Right'
    BY <1>1, FoundSame DEF Inv, Right, EventsRight, AccountsRight, TypedRight, OnTheWay
<1> QED BY <1>1, <1>3, <1>4 DEF Inv, SessionHasNode, TypedTogether

LEMMA LaunchInv ==
    ASSUME Inv, Launch
    PROVE  Inv'
<1>1. /\ app # "running" /\ app' = "running"
      /\ IF account = Nil THEN UNCHANGED <<screen, observers>>
         ELSE screen' = "tabs" /\ load
      /\ UNCHANGED <<registered, nodes, account, cached, session, dirty, events, calls, puts,
                     entered, entries, signOuts, changes, deaths>>
    BY DEF Launch, Running, serverVars, storageVars, countVars
<1>2. deaths > 0 /\ deaths \in Nat
    BY <1>1 DEF Inv, Right, TypedRight, TypeOK
<1>3. SessionHasNode' /\ TypedTogether'
    BY <1>1, <1>2, FoundSame DEF Inv, SessionHasNode, TypedTogether
<1>4. CASE account = Nil
    <2>1. UNCHANGED <<screen, observers>>
        BY <1>1, <1>4
    <2>2. TypeOK'
        BY <1>1, <2>1 DEF Inv, TypeOK
    <2>3. Right'
        BY <1>1, <1>2, <1>4, <2>1, FoundSame
        DEF Inv, Right, EventsRight, AccountsRight, TypedRight, OnTheWay
    <2> QED BY <1>3, <2>2, <2>3 DEF Inv
<1>5. CASE account # Nil
    <2>1. screen' = "tabs" /\ load
        BY <1>1, <1>5
    <2>2. /\ observers' \in Seq(Closures) /\ EventsRight' /\ AccountsRight'
          /\ \A i \in DOMAIN observers' : observers'[i].by = "signIn" =>
                 i \in DOMAIN observers /\ observers'[i] = observers[i]
        BY <1>1, <1>5, <2>1, LoadRight
    <2>3. TypeOK'
        BY <1>1, <2>1, <2>2 DEF Inv, TypeOK
    <2>4. TypedRight' /\ OnTheWay'
        BY <1>1, <1>2, <2>1, <2>2 DEF Inv, Right, TypedRight, OnTheWay
    <2> QED BY <1>3, <2>2, <2>3, <2>4 DEF Inv, Right
<1> QED BY <1>4, <1>5

-----------------------------------------------------------------------------
LEMMA StepInv == Inv /\ [Next]_vars => Inv'
<1> SUFFICES ASSUME Inv, [Next]_vars PROVE Inv'
    OBVIOUS
<1>1. CASE \E who \in People : logIn(who) \/ signUp(who)
    BY <1>1, EnterInv DEF logIn, signUp
<1>2. CASE signOut
    BY <1>2, SignOutInv
<1>3. CASE Launch
    BY <1>3, LaunchInv
<1>4. CASE \E c \in calls : AuthCreates(c) \/ CallFails(c) \/ SignedUp(c) \/ SignedIn(c)
    BY <1>4, AuthCreatesInv, CallFailsInv, SignedUpInv, SignedInInv
<1>5. CASE \E i \in DOMAIN observers :
               Answer(i) \/ ObserverCalled(i) \/ ObserverCalledInVain(i)
    BY <1>5, AnswerInv, ObserverCalledInv, ObserverCalledInVainInv
<1>6. CASE Draw
    BY <1>6, DrawInv
<1>7. CASE Apply
    BY <1>7, ApplyInv
<1>8. CASE Kill
    BY <1>8, GoneInv DEF Kill
<1>9. CASE \E name \in Names : Change(name)
    BY <1>9, ChangeInv
<1>10. CASE UNCHANGED vars
    <2>1. UNCHANGED <<registered, nodes, account, cached, app, session, screen, dirty, observers,
                      events, calls, puts, entered, entries, signOuts, changes, deaths>>
        BY <1>10 DEF vars, serverVars, storageVars, viewVars, countVars
    <2>2. TypeOK'
        BY <2>1 DEF Inv, TypeOK
    <2>3. Right' /\ SessionHasNode' /\ TypedTogether'
        BY <2>1, FoundSame
        DEF Inv, Right, EventsRight, AccountsRight, TypedRight, OnTheWay, SessionHasNode,
            TypedTogether
    <2> QED BY <2>2, <2>3 DEF Inv
<1> QED BY <1>1, <1>2, <1>3, <1>4, <1>5, <1>6, <1>7, <1>8, <1>9, <1>10
    DEF Next, UserStep, SystemStep, WorldStep

LEMMA AccountsInv == Spec => []Inv
BY InitInv, StepInv, PTL DEF Spec

(* Every state of a phone has its type; in particular load never runs      *)
(* without an account.                                                     *)
THEOREM AccountsTyped == Spec => []TypeOK
<1>1. Inv => TypeOK
    BY DEF Inv
<1> QED BY AccountsInv, <1>1, PTL

(* Nobody who has signed in waits at the login screen for nothing.         *)
THEOREM NobodyStuckAtLogin == Spec => []NeverStuckAtLogin
<1>1. Inv => NeverStuckAtLogin
    BY DEF Inv, Right, OnTheWay, NeverStuckAtLogin
<1> QED BY AccountsInv, <1>1, PTL

(* Without an ended process, a session is one that was typed.              *)
THEOREM SessionsAsTyped == Spec => []TypedTogether
<1>1. Inv => TypedTogether
    BY DEF Inv
<1> QED BY AccountsInv, <1>1, PTL

(* Every session has an account and a node behind it.                      *)
THEOREM SessionsHaveNodes == Spec => []SessionHasNode
<1>1. Inv => SessionHasNode
    BY DEF Inv
<1> QED BY AccountsInv, <1>1, PTL

=============================================================================
