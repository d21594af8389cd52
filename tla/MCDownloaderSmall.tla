------------------------ MODULE MCDownloaderSmall ------------------------
(***************************************************************************)
(* A short chain: four sortitions in reward cycles of three, so            *)
(* prev_wanted_tenures holds sortitions 1..3 and wanted_tenures sortition  *)
(* 4.  Tenure 1 has two blocks.  Both peers advertise every tenure and     *)
(* the aggregate keys of both cycles are known.  from_inventory yields     *)
(* tenures 1 and 2 (tenure 3's end block lies past the tip).  Used with    *)
(* connection breaks (MCDownloaderFlaky.cfg) and with a Byzantine peer     *)
(* (MCDownloaderByzantine.cfg).                                            *)
(***************************************************************************)
EXTENDS DownloaderSet

CONSTANTS p1, p2

SmallPeers      == {p1, p2}
SmallNumTenures == 4
SmallRCLen      == 3
SmallTenureLen  == [t \in 0..4 |-> IF t = 1 THEN 2 ELSE 1]
SmallInv        == [p \in SmallPeers |-> (1 :> {1, 2, 3}) @@ (2 :> {1})]
SmallInvOrder   == <<p1, p2>>
SmallAggKey     == (1 :> 1) @@ (2 :> 2)

SmallDownloaded == TenuresEventuallyDownloaded(1..2)

SmallStore == INSTANCE TenureStore
                WITH got <- StoreGot, Content <- GenuineTenure, Deliverable <- 1..2

\* The download path implements TenureStore although connections break
\* and requests are lost (NeighborRPC drops a broken peer's request, and
\* run clears the downloader and unbinds the peer): tenures 1 and 2 are
\* each returned exactly once, whole, once the peers are back.
SmallStoreRefined == SmallStore!Spec

\* The safety half of TenureStore when a peer may answer anything: what
\* run returns is still the genuine tenure, and never twice.
StoreSafety == SmallStore!SafeSpec

=============================================================================
