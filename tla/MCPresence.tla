------------------------------- MODULE MCPresence -------------------------------
(* Presence for TLC *)
EXTENDS Presence, TLC

CONSTANTS u1, u2

MCUsers == {u1, u2}
MCTabs == {<<u1, 1>>, <<u2, 1>>}

Symmetry == Permutations(MCUsers) \union Permutations(Sockets)
================================================================================
