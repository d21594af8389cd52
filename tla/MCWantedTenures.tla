--------------------------- MODULE MCWantedTenures ---------------------------
(***************************************************************************)
(* Checks of the wanted-tenure window for three-block reward cycles, the    *)
(* downloader created at burn height 7 (in cycle 2) and the burnchain tip   *)
(* growing to 12 (in cycle 4), so that the window crosses two cycle         *)
(* boundaries, once with the tip on a cycle's last height.                  *)
(***************************************************************************)
EXTENDS WantedTenures

\* Every window holds burn heights the current tip has reached (the loads
\* of update_wanted_tenures stop at the tip), last_sort_tip is a tip of an
\* earlier tick, and tenure_block_ids names only tenures of those heights.
TypeOK ==
    /\ tip \in StartTip..MaxTip
    /\ lastTip \in StartTip..tip \cup {None}
    /\ wanted \in Seq(0..tip)
    /\ prevWanted = None \/ prevWanted \in Seq(0..tip)
    /\ rewardCycle \in 0..RcOfHeight(tip)
    /\ DOMAIN invs \subseteq 0..RcOfHeight(tip)
    /\ \A c \in DOMAIN invs : invs[c] \subseteq 1..RCLen
    /\ DOMAIN tbi \subseteq 0..tip

\* Every record of tenure_block_ids, as update_available_tenures derives it
\* from the window and the peer's inventory, names the tenure's own start
\* block and, as its end block, the start block of the tenure after it.
\* find_available_tenures and from_inventory read wanted_tenures against
\* the inventory of reward_cycle and prev_wanted_tenures against that of
\* reward_cycle - 1, bit for bit (the comment above
\* initialize_wanted_tenures: prev_wanted_tenures holds the last full
\* reward cycle's tenures, wanted_tenures the ongoing one's); this is about
\* the reward_cycle and windows update_wanted_tenures leaves behind.
TenureIdsGenuine ==
    \A ch \in DOMAIN tbi : tbi[ch].start = ch /\ tbi[ch].end = ch + 1

\* A window as a sequence (None is the empty window).
WindowSeq(w) == IF w = None THEN <<>> ELSE w

\* Each window, wanted_tenures and prev_wanted_tenures, holds a run of
\* consecutive burn heights in increasing order: the loads of one tick and
\* the appends of extend_wanted_tenures over many ticks (each starting
\* after the last tenure already loaded, or after last_sort_tip), the
\* reloads of initialize_wanted_tenures and the sort after a repartition
\* never leave a sortition out between two wanted ones nor want one twice
\* (a repeated tenure would get two downloaders, a skipped one none).
WindowsContiguous ==
    \A w \in {wanted, WindowSeq(prevWanted)} :
        \A i \in 1..(Len(w) - 1) : w[i + 1] = w[i] + 1
=============================================================================
