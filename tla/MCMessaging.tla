------------------------------ MODULE MCMessaging ------------------------------
(* Messaging for TLC *)
EXTENDS Messaging, TLC

Symmetry == Permutations(Users) \union Permutations(Handlers) \union Permutations(Instances)
================================================================================
