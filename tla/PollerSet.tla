------------------------------ MODULE PollerSet ------------------------------
(***************************************************************************)
(* What the users of poller.h may think of a poller: a set of descriptors. *)
(* onion_poller_add puts one in, onion_poller_remove takes it out, and its *)
(* own two descriptors never leave.  A user that closes a descriptor which *)
(* is still in the set has nothing to expect of it any more.               *)
(***************************************************************************)
CONSTANTS
  Descriptors,
  Own          \* the eventfd and the timerfd

VARIABLES
  watched,
  misused      \* a descriptor was closed before it was taken out

Init == watched = Own /\ misused = FALSE

Add(fd) ==
  /\ fd \notin watched
  /\ watched' = watched \cup {fd}

Remove(fd) ==
  /\ fd \in watched \ Own
  /\ watched' = watched \ {fd}

Misuse == misused' = TRUE /\ (misused \/ watched' = watched)

Next ==
  \/ ~ misused /\ misused' = FALSE /\ \E fd \in Descriptors : Add(fd) \/ Remove(fd)
  \/ Misuse

Spec == Init /\ [][Next]_<<watched, misused>>
=============================================================================
