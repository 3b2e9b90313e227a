-------------------------------- MODULE MCDevices --------------------------------
(* Devices for TLC: two tabs of one browser and one tab of another *)
EXTENDS Devices, TLC

CONSTANTS t1, t2, u1, b, c

MCIn == (t1 :> b) @@ (t2 :> b) @@ (u1 :> c)
================================================================================
