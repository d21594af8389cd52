-------------------------- MODULE TenureInventory --------------------------
(***************************************************************************)
(* Pure functions of the Nakamoto block downloader that turn sortition    *)
(* history and peer inventory bit vectors into download work              *)
(* (stackslib/src/net/download/nakamoto.rs):                              *)
(*   TenureStartEnd::from_inventory          -> FromInventory             *)
(*   find_available_tenures                  -> FindAvailableTenures      *)
(*   make_ibd_download_schedule              -> IbdSchedule               *)
(*   make_rarest_first_download_schedule     -> RarestFirstSchedule       *)
(*                                                                         *)
(* A WantedTenure is a record [ch, win, burn, processed]: the tenure's    *)
(* consensus hash, the winning block-commit's block id (which names the   *)
(* tenure-start block of the PARENT tenure), its burn height and whether  *)
(* it was processed.  Lists are 1-based TLA+ sequences; an inventory bit  *)
(* vector is the set of its 1-based indices that are set.  `invs` is a    *)
(* function from the reward cycles the peer has an inventory for to its   *)
(* bit set.  A TenureStartEnd is a record                                 *)
(* [ch, start, end, startRc, endRc, fetchEnd, processed].                 *)
(***************************************************************************)
EXTENDS Integers, Sequences, FiniteSets, TLC

\* The first set index of `bits` in from..len, or len + 1 when there is
\* none: the code's `loop { i += 1; if i >= len {break}; if bit {break} }`.
RECURSIVE NextBit(_, _, _)
NextBit(bits, from, len) ==
    IF from > len \/ from \in bits THEN from ELSE NextBit(bits, from + 1, len)

\* TenureStartEnd::new: fetch_end_block starts out FALSE.
TenureStartEnd(wt, startWt, endWt, startRc, endRc) ==
    [ch |-> wt.ch, start |-> startWt.win, end |-> endWt.win,
     startRc |-> startRc, endRc |-> endRc, fetchEnd |-> FALSE,
     processed |-> wt.processed]

\* tenure_block_ids.insert(ch, tse): a later insert replaces an earlier one.
Insert(acc, tse) == (tse.ch :> tse) @@ acc

(***************************************************************************)
(* First loop of from_inventory: tenures whose start and end both lie in   *)
(* `wanted`.  It stops at the first set bit that cannot be completed and   *)
(* remembers it (last_tenure) together with the last tenure inserted.      *)
(***************************************************************************)
RECURSIVE FirstLoop(_, _, _, _, _, _, _)
FirstLoop(rc, wanted, bits, i, last, lastCh, acc) ==
    LET W == Len(wanted) IN
    IF i > W THEN [last |-> last, lastCh |-> lastCh, acc |-> acc]
    ELSE IF i \notin bits
         THEN FirstLoop(rc, wanted, bits, i + 1, last, lastCh, acc)
    ELSE LET j == NextBit(bits, i + 1, W)
             k == NextBit(bits, j + 1, W)
         IN  IF j > W \/ k > W
             THEN [last |-> i, lastCh |-> lastCh, acc |-> acc]
             ELSE FirstLoop(rc, wanted, bits, i + 1, i, {wanted[i].ch},
                     Insert(acc, TenureStartEnd(wanted[i], wanted[j], wanted[k], rc, rc)))

(***************************************************************************)
(* Second loop: tenures whose start or end lies in `next`.  `n` and the    *)
(* flag `nx` (the code's `next`) persist across iterations as in the code. *)
(***************************************************************************)
\* Variant that starts the search AT the start block's index in `next`.
EndSearchFromAtStart(nx, n) == IF nx THEN n ELSE 1

\* Where the search for the tenure-end bit in `next` begins: just after the
\* start block when that was found in `next`, else at its first entry.
EndSearchFrom(nx, n) == IF nx THEN n + 1 ELSE 1

\* pox_constants.block_height_to_reward_cycle(first_burn_height, burn) for
\* reward cycles of rcLen sortitions.
BurnToRewardCycle(burn, firstHeight, rcLen) == (burn - firstHeight) \div rcLen

RECURSIVE SecondLoop(_, _, _, _, _, _, _, _, _, _, _)
SecondLoop(rc, wanted, bits, next, nbits, firstHeight, rcLen, i, n, nx, acc) ==
    LET W == Len(wanted)
        N == Len(next)
    IN
    IF i > W THEN acc
    ELSE IF i \notin bits
         THEN SecondLoop(rc, wanted, bits, next, nbits, firstHeight, rcLen, i + 1, n, nx, acc)
    ELSE LET i2  == NextBit(bits, i + 1, W)
             n2  == IF i2 <= W THEN n ELSE NextBit(nbits, n, N)
             nx2 == nx \/ (i2 > W /\ n2 <= N)
             k   == NextBit(nbits, EndSearchFrom(nx2, n2), N)
         IN  IF i2 > W /\ n2 > N THEN acc
             ELSE IF k > N THEN acc
             ELSE LET wt      == wanted[i]
                      wtStart == IF i2 <= W THEN wanted[i2] ELSE next[n2]
                      tse     == [TenureStartEnd(wt, wtStart, next[k], rc,
                                                 BurnToRewardCycle(wtStart.burn, firstHeight, rcLen))
                                  EXCEPT !.fetchEnd = TRUE]
                  IN  SecondLoop(rc, wanted, bits, next, nbits, firstHeight, rcLen, i2, n2, nx2,
                                 Insert(acc, tse))

\* TenureStartEnd::from_inventory.  Precondition: rc \in DOMAIN invs (the
\* code returns None otherwise, and the caller skips the peer).
FromInventory(rc, wanted, hasNext, next, firstHeight, rcLen, invs) ==
    LET bits == invs[rc]
        r1   == FirstLoop(rc, wanted, bits, 1, 1, {}, <<>>)
        flagged == [ch \in DOMAIN r1.acc |->
                      IF ch \in r1.lastCh THEN [r1.acc[ch] EXCEPT !.fetchEnd = TRUE]
                      ELSE r1.acc[ch]]
    IN  IF ~hasNext THEN r1.acc
        ELSE IF rc + 1 \notin DOMAIN invs THEN flagged
        ELSE SecondLoop(rc, wanted, bits, next, invs[rc + 1], firstHeight, rcLen,
                        r1.last, 1, FALSE, flagged)

(***************************************************************************)
(* find_available_tenures: every wanted tenure maps to the list of peers   *)
(* (in the inventory map's iteration order `order`) whose bit is set,      *)
(* skipping processed tenures and tenures without a winning block.         *)
(***************************************************************************)
FindAvailableTenures(rc, wanted, order, Invs, zeroId) ==
    [ch \in {wanted[i].ch : i \in DOMAIN wanted} |->
        LET i == CHOOSE x \in DOMAIN wanted : wanted[x].ch = ch
            Has(p) == /\ rc \in DOMAIN Invs[p]
                      /\ ~wanted[i].processed
                      /\ wanted[i].win # zeroId
                      /\ i \in Invs[p][rc]
        IN  SelectSeq(order, Has)]

\* make_ibd_download_schedule: unprocessed, post-Nakamoto, available
\* tenures in sortition order.
Schedulable(wt, nakamotoStart, available) ==
    /\ ~wt.processed
    /\ wt.burn >= nakamotoStart
    /\ wt.ch \in DOMAIN available

IbdSchedule(nakamotoStart, wanted, available) ==
    LET Keep(wt) == Schedulable(wt, nakamotoStart, available)
        kept     == SelectSeq(wanted, Keep)
    IN  [x \in DOMAIN kept |-> kept[x].ch]

\* make_rarest_first_download_schedule: the same tenures, sorted by how many
\* peers can serve them, fewest first; `sort_by` is stable, so tenures with
\* equal counts keep sortition order.
RarestFirstSchedule(nakamotoStart, wanted, available) ==
    LET ibd    == IbdSchedule(nakamotoStart, wanted, available)
        Cnt(ch) == Len(available[ch])
        RECURSIVE ByCount(_)
        ByCount(c) ==
            IF \A x \in DOMAIN ibd : Cnt(ibd[x]) < c THEN <<>>
            ELSE SelectSeq(ibd, LAMBDA ch : Cnt(ch) = c) \o ByCount(c + 1)
    IN  ByCount(0)

=============================================================================
