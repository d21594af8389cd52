------------------------- MODULE MCDownloaderSet -------------------------
(***************************************************************************)
(* Five sortitions in reward cycles of three: prev_wanted_tenures holds   *)
(* sortitions 1..3, wanted_tenures 4..5 (the tip).  Tenures 1 and 3 have   *)
(* two blocks, so tenure streams take one or two replies.  Both peers      *)
(* advertise every tenure and aggregate keys of both cycles are known.     *)
(* from_inventory then yields tenures 1..3 (all three with fetch-end: 1 as *)
(* the last tenure found inside the previous cycle, 2 and 3 across the    *)
(* boundary); tenure 4's end block lies past the tip, so it is left to the *)
(* unconfirmed downloader, which this module does not model.               *)
(***************************************************************************)
EXTENDS DownloaderSet

CONSTANTS p1, p2

MCPeers       == {p1, p2}
MCNumTenures  == 5
MCRCLen       == 3
MCTenureLen   == [t \in 0..5 |-> IF t \in {1, 3} THEN 2 ELSE 1]
MCInv         == [p \in MCPeers |-> (1 :> {1, 2, 3}) @@ (2 :> {1, 2})]
MCInvOrder    == <<p1, p2>>
MCAggKey      == (1 :> 1) @@ (2 :> 2)
MCInvLate     == MCPeers \X {1}

\* The tenures from_inventory schedules for the confirmed downloader.
Downloadable == 1..3

\* Keeps the number of downloaders ever pushed within what the bounds allow.
SlotBound == Len(slots) <= 8

EventuallyDownloaded == TenuresEventuallyDownloaded(Downloadable)

\* The abstract store, with the tenures from_inventory schedules deliverable.
Store == INSTANCE TenureStore
           WITH got <- StoreGot, Content <- GenuineTenure, Deliverable <- Downloadable

\* The confirmed download path implements TenureStore: every tenure
\* returned by NakamotoTenureDownloaderSet::run (try_accept_tenure_blocks'
\* output, gathered in run's new_blocks) is the whole genuine tenure, none
\* is returned twice (completed_tenures against the schedule rebuilt every
\* tick), and every scheduled tenure is returned, when honest peers answer
\* and the download state machine keeps ticking.
StoreRefined == Store!Spec

=============================================================================
