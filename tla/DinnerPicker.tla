---------------------------- MODULE DinnerPicker ----------------------------
(***************************************************************************)
(* FoodView: the list of places to have dinner at.  A choice is an id and  *)
(* a name.  ForEach tells choices apart by id (RestauantItem is            *)
(* Identifiable), a tap removes by name.                                   *)
(***************************************************************************)
EXTENDS Naturals, Sequences, Selections

CONSTANTS
    Places,                     \* names that can be typed
    Manpuku, Me,                \* the two choices of a fresh view
    Undecided,                  \* no dinner yet
    MaxChoices, MaxRemovals     \* bounds on the list and on the history

ASSUME DinnerAssumption ==
    /\ {Manpuku, Me} \subseteq Places /\ Manpuku # Me /\ Undecided \notin Places
    /\ {MaxChoices, MaxRemovals} \subseteq Nat

VARIABLES
    choices,     \* choices, each with the history field era: how many
                 \* removals came before it
    dinner,      \* the name of the dinner on the card, or Undecided
    trapped,     \* randomElement()! found nothing
    removals     \* history: taps that removed something

dinnerVars == <<choices, dinner, trapped, removals>>

Choice(id, name) == [id |-> id, name |-> name, era |-> removals]

DinnerInit ==
    /\ removals = 0
    /\ choices = <<Choice(0, Manpuku), Choice(1, Me)>>
    /\ dinner = Undecided
    /\ trapped = FALSE

(* "Add Restaurant": the id is the number of choices.  Faulty variant: it is
   the last one's. *)
AddRestaurantNextToLast(name) ==
    /\ ~trapped
    /\ Len(choices) < MaxChoices
    /\ choices' = Append(choices, Choice(Len(choices) - 1, name))
    /\ UNCHANGED <<dinner, trapped, removals>>
AddRestaurant(name) ==
    /\ ~trapped
    /\ Len(choices) < MaxChoices
    /\ choices' = Append(choices, Choice(Len(choices), name))
    /\ UNCHANGED <<dinner, trapped, removals>>

(* "Generate Dinner". *)
GenerateDinner ==
    /\ ~trapped
    /\ IF choices = <<>>
       THEN trapped' = TRUE /\ UNCHANGED dinner
       ELSE (\E i \in DOMAIN choices : dinner' = choices[i].name) /\ UNCHANGED trapped
    /\ UNCHANGED <<choices, removals>>

(* A tap on a ChoiceView, in the grid or on the dinner card, which keeps the
   name of a choice that may be gone: all choices of its name leave. *)
TapChoice(name) ==
    LET others == {choices[i] : i \in {i \in DOMAIN choices : choices[i].name # name}}
        left   == Selection(choices, others)
    IN /\ ~trapped
       /\ name = dinner \/ \E i \in DOMAIN choices : choices[i].name = name
       /\ removals < MaxRemovals
       /\ choices' = left
       /\ removals' = IF left = choices THEN removals ELSE removals + 1
       /\ UNCHANGED <<dinner, trapped>>

DinnerNext ==
    \/ \E name \in Places : AddRestaurant(name) \/ TapChoice(name)
    \/ GenerateDinner

DinnerSpec == DinnerInit /\ [][DinnerNext]_dinnerVars

-----------------------------------------------------------------------------

(* Nothing but a removal can give two choices one id, or leave nothing to
   choose: of two choices with one id the later came after a removal that the
   earlier survived, and a draw from an empty list (line 70) was preceded by
   one. *)
OnlyRemovalsConfuse ==
    /\ \A i, j \in DOMAIN choices :
          i < j /\ choices[i].id = choices[j].id => choices[i].era < choices[j].era
    /\ trapped => removals > 0

=============================================================================
