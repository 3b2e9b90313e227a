------------------------------ MODULE MCFriendLists ------------------------------
(* FriendLists for TLC: the other users are interchangeable *)
EXTENDS FriendLists, TLC

Symmetry == Permutations(Others)
================================================================================
