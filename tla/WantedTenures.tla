---------------------------- MODULE WantedTenures ----------------------------
(***************************************************************************)
(* The wanted-tenure window of NakamotoDownloadStateMachine                 *)
(* (stackslib/src/net/download/nakamoto.rs): update_wanted_tenures, with    *)
(* initialize_wanted_tenures, extend_wanted_tenures,                        *)
(* update_wanted_tenures_for_reward_cycle, load_wanted_tenures_at_tip,      *)
(* load_wanted_tenures and have_unprocessed_tenures, run once per call of   *)
(* run, while the burnchain tip advances and peers' inventories of new      *)
(* reward cycles arrive.                                                    *)
(*                                                                          *)
(* With them, the tenure_block_ids that update_available_tenures derives   *)
(* from the window and an honest peer's inventory (find_tenure_block_ids  *)
(* over both windows, each through TenureStartEnd::from_inventory), which  *)
(* have_unprocessed_tenures reads back on the next tick.                   *)
(*                                                                          *)
(* A wanted tenure is named by the burn height of its sortition (one        *)
(* snapshot per burn height, all on the canonical fork).  The chain is      *)
(* honest: tenure h builds on tenure h - 1, a block id is the number of the *)
(* tenure it starts, so the winning commit of sortition h names block      *)
(* h - 1.  The download progress is not modelled: whether the schedule has *)
(* drained (so update_available_tenures recomputes) and whether a tenure   *)
(* of tenure_block_ids is still unprocessed are inputs of each tick.       *)
(***************************************************************************)
EXTENDS TenureInventory, SequencesExt

CONSTANTS
    RCLen,          \* pox_constants.reward_cycle_length
    FirstHeight,    \* sortdb.first_block_height
    StartTip,       \* the burnchain tip when the downloader is created
    MaxTip,         \* bound on the burnchain tip
    None            \* Option::None (of last_sort_tip and prev_wanted_tenures)

VARIABLES
    tip,            \* network.burnchain_tip.block_height
    lastTip,        \* last_sort_tip: the tip of the previous call of run
    wanted,         \* wanted_tenures: burn heights
    prevWanted,     \* prev_wanted_tenures: burn heights, or None
    rewardCycle,    \* reward_cycle
    invs,           \* an honest peer's inventory: reward cycle -> set bit indices
    tbi             \* tenure_block_ids of that peer: consensus hash -> TenureStartEnd

vars == <<tip, lastTip, wanted, prevWanted, rewardCycle, invs, tbi>>

SatSub(a, b) == IF a > b THEN a - b ELSE 0

\* PoxConstants::block_height_to_reward_cycle and reward_cycle_to_block_height
\* (a cycle's heights are FirstHeight + rc * RCLen + 0 .. RCLen - 1).
RcOfHeight(h) == (h - FirstHeight) \div RCLen
RcToHeight(rc) == FirstHeight + rc * RCLen + 1

\* The first height of reward cycle rc.
CycleStart(rc) == FirstHeight + rc * RCLen

\* load_wanted_tenures: the sortitions at heights first .. last - 1, walked
\* down from last - 1 and reversed.
LoadWantedTenures(first, last) ==
    LET top == SatSub(last, 1) IN
    IF top < first THEN <<>> ELSE [i \in 1..(top - first + 1) |-> first + i - 1]

\* update_wanted_tenures_for_reward_cycle: append the sortitions of cycle rc
\* up to the tip t that come after the last one of wts.
UpdateWantedTenuresForRewardCycle(rc, t, wts) ==
    LET hi    == IF wts = <<>> THEN 0 ELSE wts[Len(wts)]
        first == Max({SatSub(RcToHeight(rc), 1), hi + 1})
        last  == Min({SatSub(RcToHeight(rc + 1), 1), t + 1})
    IN  IF hi > last THEN wts ELSE wts \o LoadWantedTenures(first, last)

\* load_wanted_tenures_at_tip, reading one height past the tip.
LoadWantedTenuresAtTipLong(last, t, soFar) ==
    LET tipRc == RcOfHeight(t)
        first == IF soFar # <<>> THEN soFar[Len(soFar)] + 1
                 ELSE IF last # None THEN last + 1
                 ELSE SatSub(RcToHeight(tipRc), 1)
        lastH == Min({SatSub(RcToHeight(tipRc + 1), 1), t}) + 2
    IN  IF lastH < first THEN <<>> ELSE LoadWantedTenures(first, lastH)

\* load_wanted_tenures_at_tip, starting after last_sort_tip even when
\* tenures past it are already loaded.
LoadWantedTenuresAtTipFromLast(last, t, soFar) ==
    LET tipRc == RcOfHeight(t)
        first == IF last # None THEN last + 1
                 ELSE SatSub(RcToHeight(tipRc), 1)
        lastH == Min({SatSub(RcToHeight(tipRc + 1), 1), t}) + 1
    IN  IF lastH < first THEN <<>> ELSE LoadWantedTenures(first, lastH)

\* load_wanted_tenures_at_tip
LoadWantedTenuresAtTip(last, t, soFar) ==
    LET tipRc == RcOfHeight(t)
        first == IF soFar # <<>> THEN soFar[Len(soFar)] + 1
                 ELSE IF last # None THEN last + 1
                 ELSE SatSub(RcToHeight(tipRc), 1)
        lastH == Min({SatSub(RcToHeight(tipRc + 1), 1), t}) + 1
    IN  IF lastH < first THEN <<>> ELSE LoadWantedTenures(first, lastH)

PrevLen(p) == IF p = None THEN 0 ELSE Len(p)

\* initialize_wanted_tenures over s = [prev, wanted, rc].
InitializeWantedTenures(s, t) ==
    LET s1 == IF PrevLen(s.prev) < RCLen
              THEN [s EXCEPT !.prev = UpdateWantedTenuresForRewardCycle(
                                          SatSub(RcOfHeight(t), 1), t, <<>>)]
              ELSE s
    IN  IF s1.wanted = <<>>
        THEN [s1 EXCEPT !.wanted = UpdateWantedTenuresForRewardCycle(RcOfHeight(t), t, <<>>),
                        !.rc = RcOfHeight(t)]
        ELSE s1

\* The WantedTenure the sortition DB holds for burn height h.
WantedTenureAt(h) == [ch |-> h, win |-> h - 1, burn |-> h, processed |-> FALSE]

WantedTenuresOf(s) == [i \in DOMAIN s |-> WantedTenureAt(s[i])]

\* find_tenure_block_ids for the one peer: from_inventory, or nothing when
\* the peer has no inventory of cycle rc.
FindTenureBlockIdsOf(rc, ws, hasNext, next, inv) ==
    IF rc \in DOMAIN inv
    THEN FromInventory(rc, WantedTenuresOf(ws), hasNext, WantedTenuresOf(next),
                       FirstHeight, RCLen, inv)
    ELSE <<>>

\* The tenure_block_ids of update_available_tenures: the ids found over
\* prev_wanted_tenures extend, and so override, those over wanted_tenures.
AvailableTenureBlockIds(prev, cur, rc, inv) ==
    LET prevIds == IF prev = None THEN <<>>
                   ELSE FindTenureBlockIdsOf(SatSub(rc, 1), prev, TRUE, cur, inv)
        curIds  == FindTenureBlockIdsOf(rc, cur, FALSE, <<>>, inv)
    IN  prevIds @@ curIds

\* update_available_tenures over the window (prev, cur, rc), when it runs
\* (the schedule has drained): tenure_block_ids is cleared, and stays so
\* when there is no wanted tenure or no inventory; otherwise recomputed.
UpdateAvailableTenures(prev, cur, rc, drained) ==
    IF ~drained THEN tbi
    ELSE IF cur = <<>> \/ invs = <<>> THEN <<>>
    ELSE AvailableTenureBlockIds(prev, cur, rc, invs)

\* Some record of tenure_block_ids starts or ends in reward cycle rc.
HasRcBlock(ids, rc) == \E ch \in DOMAIN ids : rc \in {ids[ch].startRc, ids[ch].endRc}

\* have_unprocessed_tenures: TRUE without a previous window, without an
\* inventory of its cycle and of the next, or when tenure_block_ids is
\* stale (no record in either cycle); otherwise whether some tenure of the
\* previous window has a record that is neither downloaded nor processed
\* (`unproc`, the download progress).
HaveUnprocessedTenures(p, unproc) ==
    \/ p = <<>>
    \/ RcOfHeight(p[1]) \notin DOMAIN invs
    \/ RcOfHeight(p[1]) + 1 \notin DOMAIN invs
    \/ ~HasRcBlock(tbi, RcOfHeight(p[1]))
    \/ ~HasRcBlock(tbi, RcOfHeight(p[1]) + 1)
    \/ unproc /\ \E i \in DOMAIN p : p[i] \in DOMAIN tbi

CanAdvance(s, unproc) == s.prev = None \/ ~HaveUnprocessedTenures(s.prev, unproc)

\* sort_by burn_height, keeping equal heights.
SortHeights(s) == SortSeq(s, LAMBDA a, b : a < b)

OptSeq(s) == IF s = <<>> THEN None ELSE s

\* extend_wanted_tenures over s, with sortRc the cycle of the last tip.
ExtendWantedTenures(s, sortRc, unproc) ==
    LET new == LoadWantedTenuresAtTip(lastTip, tip, s.wanted)
        all == new \o (IF s.prev = None THEN <<>> ELSE s.prev) \o s.wanted
    IN  IF s.rc # sortRc /\ CanAdvance(s, unproc)
        THEN [prev   |-> OptSeq(SortHeights(SelectSeq(all, LAMBDA h : RcOfHeight(h) + 1 = sortRc))),
              wanted |-> SortHeights(SelectSeq(all, LAMBDA h : RcOfHeight(h) = sortRc)),
              rc     |-> sortRc]
        ELSE [s EXCEPT !.wanted = @ \o new]

\* update_wanted_tenures
UpdateWantedTenures(unproc) ==
    LET s      == InitializeWantedTenures([prev |-> prevWanted, wanted |-> wanted,
                                           rc |-> rewardCycle], tip)
        lastH  == IF lastTip = None THEN tip ELSE lastTip
        sortRc == RcOfHeight(lastH)
        nextRc == IF lastH = tip THEN RcOfHeight(tip + 1) ELSE RcOfHeight(tip)
    IN  IF sortRc = nextRc THEN ExtendWantedTenures(s, sortRc, unproc)
        ELSE IF ~CanAdvance(s, unproc) THEN s
        ELSE [prev   |-> OptSeq(UpdateWantedTenuresForRewardCycle(sortRc, tip, <<>>)),
              wanted |-> UpdateWantedTenuresForRewardCycle(sortRc + 1, tip, <<>>),
              rc     |-> sortRc]

-----------------------------------------------------------------------------

Init ==
    /\ tip = StartTip
    /\ lastTip = None
    /\ wanted = <<>>
    /\ prevWanted = None
    /\ rewardCycle = 0
    /\ invs = <<>>
    /\ tbi = <<>>

\* run: update_wanted_tenures, then run_downloads (of which only
\* update_available_tenures is modelled), then last_sort_tip := the tip.
Run(unproc, drained) ==
    LET s == UpdateWantedTenures(unproc) IN
    /\ prevWanted' = s.prev
    /\ wanted' = s.wanted
    /\ rewardCycle' = s.rc
    /\ tbi' = UpdateAvailableTenures(prevWanted', wanted', rewardCycle', drained)
    /\ lastTip' = tip
    /\ UNCHANGED <<tip, invs>>

\* A new burnchain block is processed.
NewBurnBlock ==
    /\ tip < MaxTip
    /\ tip' = tip + 1
    /\ UNCHANGED <<lastTip, wanted, prevWanted, rewardCycle, invs, tbi>>

\* The bits an honest peer that has every tenure up to the tip sets in its
\* inventory of cycle c: bit i (from 1) is height CycleStart(c) + i - 1.
HonestBits(c) == {i \in 1..RCLen : CycleStart(c) + i - 1 <= tip}

\* The inventory sync receives the peer's inventory of a started cycle c,
\* for the first time or refreshed after new burn blocks.  It walks the
\* cycles upwards, so the cycles below c it holds are current: the view is
\* one snapshot of the peer's chain, in which an unset bit is a height
\* without a tenure (what from_inventory takes it to mean).
SyncInventory(c) ==
    /\ \A c2 \in DOMAIN invs : c2 < c => invs[c2] = HonestBits(c2)
    /\ IF c \in DOMAIN invs THEN invs[c] # HonestBits(c) ELSE TRUE
    /\ invs' = (c :> HonestBits(c)) @@ invs
    /\ UNCHANGED <<tip, lastTip, wanted, prevWanted, rewardCycle, tbi>>

Next ==
    \/ \E u, d \in BOOLEAN : Run(u, d)
    \/ NewBurnBlock
    \/ \E c \in 0..RcOfHeight(tip) : SyncInventory(c)

Spec == Init /\ [][Next]_vars

=============================================================================
