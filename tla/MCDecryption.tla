------------------------------ MODULE MCDecryption ------------------------------
(* Decryption for TLC *)
EXTENDS Decryption, TLC

CONSTANTS a, b, ca, cb

MCWith == (ca :> a) @@ (cb :> b)
MCOwner == <<a, b, a>>

P(mine, theirs, byMe) == [mine |-> mine, theirs |-> theirs, byMe |-> byMe]

(* with the first friend a conversation of this device, one that names no device, or *)
(* one whose creator, the user's, is not recorded any more; with the second none    *)
(* yet, or one of another device of the user                                        *)
MCPairs == {(ca :> P("this", 1, TRUE)) @@ (cb :> None),
            (ca :> P("none", NoDev, TRUE)) @@ (cb :> P("other", 2, TRUE)),
            (ca :> P("none", 1, TRUE)) @@ (cb :> P("other", 2, FALSE))}
================================================================================
