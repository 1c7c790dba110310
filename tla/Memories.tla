------------------------------ MODULE Memories ------------------------------
(***************************************************************************)
(* The "Mems" tab: ProfileView and EditProfileView over the dictionary     *)
(* downloadedRelationships of SessionStore, which maps a name to blocks.   *)
(* The dictionary belongs to the process; the tab's state goes with the    *)
(* TabView, which a sign-out replaces by the login screen.                 *)
(*                                                                         *)
(* A block is its author (the session's user), the name it was written     *)
(* for and, for a post, the number that stands for its UUID.               *)
(***************************************************************************)
EXTENDS Naturals, Sequences, Selections

CONSTANTS
    People,          \* user names
    Loading,         \* String.loading, the placeholder
    NoUser,          \* session is nil
    MaxPosts, MaxArrivals   \* bounds on posts and on assignments of session

ASSUME MemoriesAssumption ==
    /\ Loading \notin People /\ NoUser \notin People /\ NoUser # Loading
    /\ {MaxPosts, MaxArrivals} \subseteq Nat

VARIABLES
    viewer,            \* session's user
    blocks,            \* downloadedRelationships, <<>> for a missing name
    lastConversation,  \* ProfileView's state
    tab,               \* "unopened", "shown", "editing" or "trapped"
    observed,          \* users whose node the process observes
    posts, before,     \* history: all posts in order, and how many of them were
                       \* made before the tabs came up
    arrivals           \* history: assignments of session

memoriesVars == <<viewer, blocks, lastConversation, tab, observed, posts, before, arrivals>>

Names == People \cup {Loading}

MemoriesInit ==
    /\ viewer = NoUser
    /\ blocks = [name \in Names |-> <<>>]
    /\ lastConversation = Loading
    /\ tab = "unopened"
    /\ observed = {}
    /\ posts = <<>> /\ before = 0 /\ arrivals = 0

Welcome(u, name)    == [by |-> u, with |-> name, id |-> 0]
Post(u, name, id)   == [by |-> u, with |-> name, id |-> id]

(* An observer assigns the session: a new one's first answer where there is no
   session, or any one's that has ever answered, whoever has signed in since
   (AccountLifecycle). *)
SessionArrives(u) ==
    /\ tab # "trapped"
    /\ viewer = NoUser \/ u \in observed
    /\ observed' = observed \cup {u}
    /\ arrivals < MaxArrivals
    /\ arrivals' = arrivals + 1
    /\ viewer' = u
    /\ UNCHANGED <<blocks, lastConversation, tab, posts, before>>

(* signOut clears the session and nothing else.  Its button is in another
   tab; the login screen that follows drops the tabs with their state. *)
SignedOut ==
    /\ tab \notin {"trapped", "editing"}
    /\ viewer # NoUser
    /\ viewer' = NoUser
    /\ lastConversation' = Loading
    /\ tab' = "unopened"
    /\ before' = Len(posts)
    /\ UNCHANGED <<blocks, observed, posts, arrivals>>

Welcomed(name) == [blocks EXCEPT ![name] = <<Welcome(viewer, name)>>]

(* The tab comes up, for the first time or on the way back: ProfileView's
   onAppear turns the placeholder into the viewer's name.  If the placeholder
   had no blocks the body drawn before that holds a NothingToDisplayView, whose
   onAppear is fetchDataFromLastConvo: for a new tab it is called, and since
   SwiftUI does not say which onAppear comes first, for either name.  It unwraps
   the session, so without one the process traps. *)
OpenMemories ==
    /\ tab \in {"unopened", "shown"}
    /\ lastConversation' = IF viewer # NoUser /\ lastConversation = Loading
                           THEN viewer ELSE lastConversation
    /\ \/ /\ blocks[lastConversation] # <<>> \/ tab = "shown"
          /\ tab' = "shown" /\ UNCHANGED blocks
       \/ /\ blocks[lastConversation] = <<>> /\ viewer = NoUser
          /\ tab' = "trapped" /\ UNCHANGED blocks
       \/ /\ blocks[lastConversation] = <<>> /\ viewer # NoUser
          /\ tab' = "shown"
          /\ \E name \in {lastConversation, lastConversation'} : blocks' = Welcomed(name)
    /\ UNCHANGED <<viewer, observed, posts, before, arrivals>>

(* The same view in a tab that is up, where the name or the session changes
   under it; SwiftUI need not call its onAppear again.  A tab that is up
   without a session shows the placeholder's blocks, or OpenMemories would have
   trapped, so here there is a viewer.  Faulty variant: it is called where
   there are blocks too. *)
NothingAppearsAnyway ==
    /\ tab = "shown"
    /\ viewer # NoUser
    /\ blocks' = Welcomed(lastConversation)
    /\ UNCHANGED <<viewer, lastConversation, tab, observed, posts, before, arrivals>>
NothingAppears ==
    /\ tab = "shown"
    /\ viewer # NoUser
    /\ blocks[lastConversation] = <<>>
    /\ blocks' = Welcomed(lastConversation)
    /\ UNCHANGED <<viewer, lastConversation, tab, observed, posts, before, arrivals>>

(* A name of the list createUserNames gives: the session's relationships, or
   placeholders. *)
PickRelationship(name) ==
    /\ tab = "shown"
    /\ name \in IF viewer = NoUser THEN {Loading} ELSE People
    /\ lastConversation' = name
    /\ UNCHANGED <<viewer, blocks, tab, observed, posts, before, arrivals>>

OpenEditor ==
    /\ tab = "shown"
    /\ tab' = "editing"
    /\ UNCHANGED <<viewer, blocks, lastConversation, observed, posts, before, arrivals>>

CloseEditor ==
    /\ tab = "editing"
    /\ tab' = "shown"
    /\ UNCHANGED <<viewer, blocks, lastConversation, observed, posts, before, arrivals>>

(* The button "Add post": addBlock, which does nothing without a session, and
   back to ProfileView. *)
AddBlock ==
    /\ tab = "editing"
    /\ Len(posts) < MaxPosts
    /\ tab' = "shown"
    /\ IF viewer = NoUser
       THEN UNCHANGED <<blocks, posts>>
       ELSE LET post == Post(viewer, lastConversation, Len(posts) + 1)
            IN /\ blocks' = [blocks EXCEPT ![lastConversation] = Append(@, post)]
               /\ posts' = Append(posts, post)
    /\ UNCHANGED <<viewer, lastConversation, observed, before, arrivals>>

MemoriesNext ==
    \/ \E u \in People : SessionArrives(u)
    \/ SignedOut
    \/ OpenMemories
    \/ NothingAppears
    \/ \E name \in Names : PickRelationship(name)
    \/ OpenEditor
    \/ CloseEditor
    \/ AddBlock

MemoriesSpec == MemoriesInit /\ [][MemoriesNext]_memoriesVars

-----------------------------------------------------------------------------

IsPost(block) == block.id # 0

\* The posts made since the tabs came up, for one of some names.
New(names) == [by : People, with : names, id : before + 1 .. MaxPosts]

(* Every post stays, in order, under the name that was picked when it was
   made, as long as the tabs are up and whatever sessions come and go under
   them, and nothing is older than a name's one welcome:
   fetchDataFromLastConvo assigns the list of a name, it does not append, so one
   call at the wrong moment would wipe what addBlock kept.  Behind a sign-out
   and a sign-in there is such a moment (OpenMemories), so posts made before
   the tabs came up are not promised to stay. *)
PostsKept ==
    \A name \in Names :
        /\ Selection(blocks[name], New(Names)) = Selection(posts, New({name}))
        /\ \A i \in DOMAIN blocks[name] : ~IsPost(blocks[name][i]) => i = 1

(* "Here is a place you can post memories with this person, and only you two
   can see it!" (ProfileView.swift:21): the posts the tab shows were written by
   its viewer or for them. *)
OnlyYouTwo ==
    tab = "shown" /\ viewer # NoUser =>
        \A i \in DOMAIN blocks[lastConversation] :
            LET block == blocks[lastConversation][i]
            IN IsPost(block) => viewer \in {block.by, block.with}

=============================================================================
