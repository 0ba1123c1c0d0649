------------------------------- MODULE MCStore -------------------------------
(* Store with interchangeable processes, for the safety runs. *)
EXTENDS Store, TLC

Processes == Permutations(Recorders) \cup Permutations(Collectors)

=============================================================================
