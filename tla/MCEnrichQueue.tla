---------------------------- MODULE MCEnrichQueue ----------------------------
(* Small instance of EnrichQueue: three rows of two remote addresses; the   *)
(* two that share an address need not both be blocked.                      *)
EXTENDS EnrichQueue, TLC

CONSTANTS r1, r2, r3, a1, a2

MCRemoteOf == (r1 :> a1) @@ (r2 :> a2) @@ (r3 :> a2)
MCStampOf  == (r1 :> 1) @@ (r2 :> 2) @@ (r3 :> 2)
MCRemote  == [r \in Rows |-> MCRemoteOf[r]]
MCStamp   == [r \in Rows |-> MCStampOf[r]]
=============================================================================
