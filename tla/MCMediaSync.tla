------------------------------ MODULE MCMediaSync ------------------------------
(* Small instances of MediaSync for TLC.                                     *)
EXTENDS MediaSync, TLC

\* Contents are alike, and so are devices.
Symmetry == Permutations(Contents) \cup Permutations(Clients)
=============================================================================
