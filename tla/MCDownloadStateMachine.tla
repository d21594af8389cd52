---------------------- MODULE MCDownloadStateMachine ----------------------
(***************************************************************************)
(* Five sortitions in reward cycles of three: prev_wanted_tenures holds    *)
(* sortitions 1..3 and wanted_tenures sortitions 4 and 5; tenure 5 is the  *)
(* ongoing tenure.  from_inventory places tenures 1..3 (tenure 3 across    *)
(* the reward-cycle boundary, which need_unconfirmed_tenures requires);    *)
(* tenure 4 is the highest complete tenure, whose end block is tenure 5's  *)
(* start block, and only the unconfirmed path can fetch it.  The ongoing   *)
(* tenure has two blocks, so a peer's tip may be either.                   *)
(***************************************************************************)
EXTENDS DownloadStateMachine

CONSTANTS p1, p2

MCPeers      == {p1, p2}
MCNumTenures == 5
MCRCLen      == 3
MCTenureLen  == [t \in 0..5 |-> IF t \in {4, 5} THEN 2 ELSE 1]
MCInv        == [p \in MCPeers |-> (1 :> {1, 2, 3}) @@ (2 :> {1, 2})]
MCInvOrder   == <<p1, p2>>
MCAggKey     == (1 :> 1) @@ (2 :> 2)
MCInvLate    == {<<p2, 2>>}

\* A shorter chain for the Byzantine run: four sortitions in reward cycles
\* of two, tenure 4 ongoing, tenure 3 the highest complete one.  Tenure 3
\* has two blocks, so once tenure 4's start block is processed a block of
\* the current reward cycle lies below the node's height without being a
\* tenure start.
ShortNumTenures == 4
ShortRCLen      == 2
ShortTenureLen  == [t \in 0..4 |-> IF t \in {3, 4} THEN 2 ELSE 1]
ShortInv        == [p \in MCPeers |-> (1 :> {1, 2}) @@ (2 :> {1, 2})]

=============================================================================
