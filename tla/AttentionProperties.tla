-------------------------- MODULE AttentionProperties --------------------------
(***************************************************************************)
(* What becomes of device tokens and of requests for attention.            *)
(***************************************************************************)
EXTENDS AttentionRequests

(* Nothing about tokens is on its way anywhere. *)
Quiet ==
    \A d \in Devices :
        events[d] = <<>> /\ fetches[d] = <<>> /\ puts[d] = <<>> /\ down[d] = <<>>

(* When everything has been delivered, the stored token of a user is that  *)
(* of every phone whose signIn closure observes the user, also of a phone  *)
(* that signed in late, signed out, or heard of another phone's upload     *)
(* while its own was on its way.  (Two such phones can therefore never be  *)
(* quiet: each answers the other's upload.)                                *)
QuietTokens ==
    Quiet /\ failures = 0 /\ refreshes = 0 =>
        \A d \in Devices, u \in Users : closures[d][u] > 0 => stored[u] = token[d]

(* A request that was posted is submitted to a token once its addressee    *)
(* has one, even if it had none when the function started, as long as the  *)
(* function's instance lives.                                              *)
RequestReaches ==
    \A r \in Requests :
        (/\ retires = 0
         /\ request[r] # Nil /\ Addressed(r) # Nil)
        ~> (r \in reached \/ retires > 0)

-----------------------------------------------------------------------------
(* signIn: "update current fcm token in case logged in on new device": if  *)
(* a user is signed in on one phone, the stored token ends up to be that   *)
(* phone's.                                                                *)
NewDeviceKept ==
    \A u \in Users, d \in Devices :
        <>[]((\A e \in Devices : signedIn[e] = u <=> e = d) => stored[u] = token[d])

=============================================================================
