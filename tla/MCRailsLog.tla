------------------------------ MODULE MCRailsLog ------------------------------
(* RailsLog with interchangeable inode numbers. *)
EXTENDS RailsLog, TLC

Numbers == Permutations(Inodes)

=============================================================================
