---------------------------- MODULE MCSshForwards ----------------------------
(* SshForwards for TLC: a local forward, and two remote ones on one port, held *)
(* together or one after the other.                                           *)
EXTENDS SshForwards, TLC

CONSTANTS l1, r1, r2, b1

OneBind == (r1 :> b1) @@ (r2 :> b1)
================================================================================
