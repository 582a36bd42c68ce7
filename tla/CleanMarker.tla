----------------------------- MODULE CleanMarker -----------------------------
(***************************************************************************)
(* What the clean marker of a volume promises about the medium, whoever    *)
(* keeps it: `claim` is what the medium's marker says, `whole` whether the *)
(* medium holds every write of finished operations only, so that a power   *)
(* loss now would leave a consistent volume.                               *)
(***************************************************************************)
VARIABLES
    claim,   \* the marker on the medium says the volume is clean
    whole    \* the medium is consistent and complete

\* The medium is touched only while it does not claim to be clean.
Disturb == ~claim /\ whole' = FALSE /\ UNCHANGED claim

\* Everything reached the medium, or a checker repaired it.
Settle == ~claim /\ whole' = TRUE /\ UNCHANGED claim

\* The claim is raised only over a medium that is whole.
Raise == whole /\ claim' = TRUE /\ UNCHANGED whole

Withdraw == claim' = FALSE /\ UNCHANGED whole

Init == claim => whole

Next == Disturb \/ Settle \/ Raise \/ Withdraw

vars == <<claim, whole>>

Spec == Init /\ [][Next]_vars
=============================================================================
