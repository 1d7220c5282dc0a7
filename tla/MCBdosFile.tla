----------------------------- MODULE MCBdosFile -----------------------------
(* Three files; a card of two clusters that can be full.                     *)
EXTENDS BdosFile, TLC

NamesAndValues == Permutations(Names) \cup Permutations(Values)
=============================================================================
