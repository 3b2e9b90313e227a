----------------------------- MODULE MCConversations -----------------------------
(* Conversations for TLC: a page of each user, the second of whom has two devices *)
EXTENDS Conversations, TLC

CONSTANTS a, b, pa, pb

MCUserOf == (pa :> a) @@ (pb :> b)
MCDeviceOf == (pa :> 1) @@ (pb :> 2)
MCOwner == <<a, b, b>>
MCCurrent == (a :> 1) @@ (b :> 2)
================================================================================
