--------------------------- MODULE SliceOwnership ---------------------------
(***************************************************************************)
(* What the slice lock promises to everybody who takes it: a slice has at  *)
(* most one holder at a time, until the promise is broken once and for     *)
(* all.  SliceLock says what breaks it and implements this specification.  *)
(***************************************************************************)
CONSTANT Runs
VARIABLES holders, broken
vars == <<holders, broken>>

Init == holders = {} /\ broken = FALSE

Enter(r) == holders = {} /\ holders' = {r} /\ UNCHANGED broken
Leave(r) == r \in holders /\ holders' = holders \ {r} /\ UNCHANGED broken

\* From the first slip on nothing is promised.
Break == broken' = TRUE /\ holders' \in SUBSET Runs

Next == (\E r \in Runs : Enter(r) \/ Leave(r)) \/ Break

Spec == Init /\ [][Next]_vars
==============================================================================
