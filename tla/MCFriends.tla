------------------------------- MODULE MCFriends -------------------------------
(* Friends for TLC: the ids of friendship rows are interchangeable *)
EXTENDS Friends, TLC

Symmetry == Permutations(RowIds)
================================================================================
