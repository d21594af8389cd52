------------------------- MODULE MCTenureInventory -------------------------
(***************************************************************************)
(* Checks TenureStartEnd::from_inventory against the rule its comment     *)
(* states, over every inventory of a small history: a full reward cycle   *)
(* `Wanted` of RCLen sortitions (the previous cycle) followed by a         *)
(* partial cycle `Next` (the current one, up to the chain tip).            *)
(***************************************************************************)
EXTENDS TenureInventory

\* Sortitions per reward cycle, and how many sortitions of the next cycle
\* have happened so far.
RCLen  == 4
NextLen == 3

\* Reward cycle of a burn height: cycle c holds heights (c - 1) * RCLen + 1
\* .. c * RCLen (block_height_to_reward_cycle with the first burn height
\* at 1 - RCLen, which the check passes to from_inventory).
RcOf(burn) == (burn - 1) \div RCLen + 1

\* Sortition i of cycle c.  Every sortition picked a winner, so each has a
\* distinct winning block id.
Sortition(c, i) ==
    [ch |-> <<"ch", c, i>>, win |-> <<"blk", c, i>>,
     burn |-> (c - 1) * RCLen + i, processed |-> FALSE]

Wanted == [i \in 1..RCLen |-> Sortition(1, i)]
Next   == [i \in 1..NextLen |-> Sortition(2, i)]

\* One call of from_inventory: the inventory bits for cycle 1, whether the
\* caller passes next_wanted_tenures, and the bits for cycle 2 if the peer
\* has an inventory for it.
Inputs ==
    [bits : SUBSET (1..RCLen), hasNext : BOOLEAN,
     nextInv : BOOLEAN, nbits : SUBSET (1..NextLen)]

VARIABLE inp

Invs(x) == IF x.nextInv THEN (1 :> x.bits) @@ (2 :> x.nbits) ELSE (1 :> x.bits)

Init == inp \in Inputs
Next_ == inp' \in Inputs
Spec == Init /\ [][Next_]_inp

(***************************************************************************)
(* Reference: bit i set means sortition i's tenure is available.  A       *)
(* block-commit commits to the start block of its PARENT tenure, so the   *)
(* start block of tenure i is the winning block of the next set bit j     *)
(* after i and its end block that of the next set bit k after j, looking  *)
(* on into the next cycle when the caller passes it and the peer has an   *)
(* inventory for it.  The end block must be fetched directly when k lies  *)
(* in the next cycle, and for the last tenure found wholly in `Wanted`    *)
(* when a next cycle is passed.                                            *)
(***************************************************************************)
RefTenureBlockIds(x) ==
    LET useNext == x.hasNext /\ x.nextInv
        C  == IF useNext THEN Wanted \o Next ELSE Wanted
        CB == x.bits \cup (IF useNext THEN {RCLen + n : n \in x.nbits} ELSE {})
        J(i) == NextBit(CB, i + 1, Len(C))
        K(i) == NextBit(CB, J(i) + 1, Len(C))
        found   == {i \in x.bits : K(i) <= Len(C)}
        inCycle == {i \in found : K(i) <= RCLen}
        lastIn  == IF inCycle = {} THEN 0
                   ELSE CHOOSE i \in inCycle : \A i2 \in inCycle : i2 <= i
        Idx(ch) == CHOOSE i \in found : Wanted[i].ch = ch
    IN  [ch \in {Wanted[i].ch : i \in found} |->
            [ch |-> ch, start |-> C[J(Idx(ch))].win, end |-> C[K(Idx(ch))].win,
             startRc |-> 1, endRc |-> RcOf(C[J(Idx(ch))].burn),
             fetchEnd |-> K(Idx(ch)) > RCLen \/ (x.hasNext /\ Idx(ch) = lastIn),
             processed |-> FALSE]]

\* from_inventory, over every inventory of the history, yields exactly the
\* tenures, start/end block ids, reward cycles and fetch-end flags of the
\* commit-to-parent rule, including across the reward-cycle boundary where
\* its two loops hand over to each other.
FromInventoryCorrect ==
    FromInventory(1, Wanted, inp.hasNext, Next, 1 - RCLen, RCLen, Invs(inp))
        = RefTenureBlockIds(inp)

=============================================================================
