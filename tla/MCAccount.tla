------------------------------ MODULE MCAccount ------------------------------
(* Values of the account model's constants that a .cfg cannot write. *)
EXTENDS Account, TLC

RestoredOrNot == Handle \union {NoHandle}
NeverLinked == {NoHandle}

\* One poll is as good as another, and so with relay tasks and handles.
Symmetry == Permutations(Poll) \union Permutations(Relay) \union Permutations(Handle)
=============================================================================
