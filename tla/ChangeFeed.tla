----------------------------- MODULE ChangeFeed -----------------------------
(***************************************************************************)
(* What the indexer promises a subscriber (service.go:95-175): it hears of *)
(* changes the index already shows, in the order they were applied, each   *)
(* at most once and none from before it subscribed.  It may miss some.     *)
(***************************************************************************)
EXTENDS Integers

VARIABLES
  applied,   \* the number of changes applied to the index
  upTo,      \* the last of them the subscriber heard of, or was too late for
  heard      \* how many it heard of

Init == applied = 0 /\ upTo = 0 /\ heard = 0

Apply == applied' = applied + 1 /\ UNCHANGED <<upTo, heard>>

\* The change that is just being handed out is still to be heard.
Join ==
  /\ upTo' \in {applied, applied - 1} \cap Nat /\ heard' = 0
  /\ UNCHANGED applied

Hear == upTo' \in upTo + 1 .. applied /\ heard' = heard + 1 /\ UNCHANGED applied

\* The indexer ends, and the subscription with it.
Restart == applied' = 0 /\ upTo' = 0 /\ heard' = 0

Next == Apply \/ Join \/ Hear \/ Restart

Spec == Init /\ [][Next]_<<applied, upTo, heard>>
=============================================================================
