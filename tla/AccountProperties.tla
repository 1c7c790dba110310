-------------------------- MODULE AccountProperties --------------------------
(***************************************************************************)
(* Whose session a phone shows, and what the source says of signing in.    *)
(***************************************************************************)
EXTENDS AccountLifecycle

(* Somebody who is signed in while the login screen is drawn is on the way *)
(* to a session: an observer for the account has not been answered, its    *)
(* answer is on the main queue, or the session waits to be drawn.  The     *)
(* completion of signIn publishes nothing, so nothing else would ever      *)
(* leave the login screen.                                                 *)
NeverStuckAtLogin ==
    app = "running" /\ account # Nil /\ screen = "login" =>
        \/ dirty
        \/ \E i \in DOMAIN observers :
            /\ observers[i].who.account = account
            /\ ~observers[i].live \/ \E k \in DOMAIN events : i \in events[k].left

(* As long as no process has ended, the session is of an account and a     *)
(* name that were typed together, however sign-ins, sign-outs, answers of  *)
(* Auth and events of observers that survive a sign-out overtake each      *)
(* other.  (After a process ended between Auth's answer and save, load     *)
(* pairs the account with whatever name was cached before.)                *)
TypedTogether ==
    deaths = 0 =>
        /\ session # Nil => session \in entered
        /\ cached # Nil => \E who \in entered : who.name = cached

(* A session is of a registered account, and its node exists or is being   *)
(* written: a name without a node gives no session, also after restarts    *)
(* that lost the sign-up's put or the cached name.                         *)
SessionHasNode == session # Nil => Found(session.name) /\ session.account \in registered

(* A sign-in that Auth has confirmed leads to a session, unless its        *)
(* process ends or its user signs out.                                     *)
SignInArrives ==
    (deaths = 0 /\ account # Nil) ~> (session # Nil \/ account = Nil \/ deaths > 0)

-----------------------------------------------------------------------------
(* signIn: "values always are populated", it says of the first name, the   *)
(* last name and the relationships it casts by force.                      *)
ValuesPopulated == app # "nil_cast"

=============================================================================
