------------------------- MODULE TenureDownloader -------------------------
(***************************************************************************)
(* NakamotoTenureDownloader (stackslib/src/net/download/nakamoto.rs): the  *)
(* per-tenure state machine that fetches a tenure's start block, its end   *)
(* block (the NEXT tenure's start block, whose tenure-change payload says  *)
(* how many blocks the tenure has) and then the tenure's blocks, highest   *)
(* first, by following parent links down to the start block.              *)
(*                                                                         *)
(* Chain abstraction.  Tenure t (t = 0 is the last pre-Nakamoto tenure)    *)
(* has TenureLen[t] blocks <<t, 1>> .. <<t, TenureLen[t]>>; a block id is  *)
(* that pair, <<t, 1>> is the tenure-start block and its consensus hash is *)
(* t.  Sortition s (burn height s) elected tenure s.  Blocks of tenure t   *)
(* are signed by the signers of the reward cycle of sortition t; a key is *)
(* the number of the cycle it belongs to.  A block id is a hash of the     *)
(* header, so a peer cannot answer with a different block under a given    *)
(* id: a reply is a genuine block, a genuine list, or undecodable bytes.   *)
(***************************************************************************)
EXTENDS Integers, Sequences, SequencesExt, FiniteSets

CONSTANTS
    NumTenures,     \* tenures 1..NumTenures are Nakamoto tenures
    TenureLen,      \* [0..NumTenures -> Nat \ {0}]: blocks per tenure
    RCLen           \* sortitions per reward cycle

Tenures == 0..NumTenures
Block   == UNION {{<<t, k>> : k \in 1..TenureLen[t]} : t \in Tenures}
NoBlock == <<0, 0>>

\* block_height_to_reward_cycle for the sortition at burn height h.
RcOf(h) == (h - 1) \div RCLen + 1

\* header.parent_block_id
Parent(b) ==
    IF b[2] > 1 THEN <<b[1], b[2] - 1>>
    ELSE IF b[1] = 0 THEN NoBlock
    ELSE <<b[1] - 1, TenureLen[b[1] - 1]>>

\* header.consensus_hash; is_wellformed_tenure_start_block (with a tenure-
\* change payload); the payload's prev_tenure_consensus_hash and
\* previous_tenure_blocks.
BlockCh(b)       == b[1]
IsTenureStart(b) == b[2] = 1 /\ b[1] > 0
TcPrevCh(b)      == b[1] - 1
TcPrevBlocks(b)  == TenureLen[b[1] - 1]

\* schnorr_signature.verify(key, signer_signature_hash).  A forged block
\* (a header with a third component, see Forged) verifies under no key.
Verify(key, b) == Len(b) = 2 /\ key = RcOf(b[1])

\* A copy of block b's header with a signature nobody made.
Forged(b) == <<b[1], b[2], 0>>

\* header.chain_length: the block's height in the Stacks chain.
RECURSIVE BlocksBefore(_)
BlocksBefore(t) == IF t = 0 THEN 0 ELSE BlocksBefore(t - 1) + TenureLen[t - 1]
Height(b) == BlocksBefore(b[1]) + b[2]

\* The tenure as the chain has it, lowest block first.
GenuineTenure(t) == [k \in 1..TenureLen[t] |-> <<t, k>>]

States == {"GetStart", "WaitEnd", "GetEnd", "GetBlocks", "Done"}

\* Outcome of an operation: the downloader afterwards, Ok or Err, and the
\* blocks it returns (only when it reaches Done).
Err(d) == [d |-> d, ok |-> FALSE, out |-> <<>>]
Ok(d)  == [d |-> d, ok |-> TRUE, out |-> <<>>]

\* NakamotoTenureDownloader::new.  `cur` is the block id carried by the
\* state; `startBlk`, `endBlk`, `seed` and `blocks` stand for
\* tenure_start_block, tenure_end_header, tenure_end_block, tenure_blocks.
NewDownloader(ch, startId, endId, naddr, startKey, endKey) ==
    [ch |-> ch, startId |-> startId, endId |-> endId, naddr |-> naddr,
     startKey |-> startKey, endKey |-> endKey, idle |-> FALSE,
     st |-> "GetStart", cur |-> startId, startBlk |-> FALSE,
     seed |-> NoBlock, endBlk |-> NoBlock, blocks |-> <<>>]

\* is_waiting
IsWaiting(d) == d.st = "WaitEnd"

\* transition_to_fetch_end_block (only called on waiting downloaders).
TransitionToFetchEndBlock(d) == [d EXCEPT !.st = "GetEnd"]

\* try_accept_tenure_end_block
TryAcceptTenureEndBlock(d, b) ==
    IF \/ d.st \notin {"WaitEnd", "GetEnd"}
       \/ ~d.startBlk
       \/ b # d.endId
       \/ ~Verify(d.endKey, b)
       \/ ~IsTenureStart(b)
       \/ TcPrevCh(b) # BlockCh(d.startId)
    THEN Err(d)
    ELSE Ok([d EXCEPT !.endBlk = b, !.st = "GetBlocks", !.cur = Parent(b)])

\* try_accept_tenure_start_block.  When a tenure-end block was seeded it is
\* taken and accepted at once; its error is returned, the state change kept.
TryAcceptTenureStartBlock(d, b) ==
    IF d.st # "GetStart" \/ b # d.startId \/ ~Verify(d.startKey, b)
    THEN Err(d)
    ELSE LET d1 == [d EXCEPT !.startBlk = TRUE] IN
         IF d1.endBlk # NoBlock
         THEN Ok([d1 EXCEPT !.st = "GetBlocks", !.cur = Parent(d1.endBlk)])
         ELSE IF d1.seed # NoBlock
         THEN TryAcceptTenureEndBlock(
                  [d1 EXCEPT !.seed = NoBlock, !.st = "WaitEnd", !.cur = d1.seed],
                  d1.seed)
         ELSE Ok([d1 EXCEPT !.st = "WaitEnd", !.cur = d1.endId])

\* tenure_length: previous_tenure_blocks of the accepted end block, or 0.
TenureLength(d) == IF d.endBlk = NoBlock THEN 0 ELSE TcPrevBlocks(d.endBlk)

\* The per-block checks of try_accept_tenure_blocks: each block is the one
\* expected (the cursor, then the previous block's parent), is signed under
\* the start key, and the running count stays within the tenure length.
\* Variant that checks the parent links but not that the stream begins at
\* the cursor.
LinkedFromAnywhere(d, bs) ==
    \A i \in 2..Len(bs) : bs[i] = Parent(bs[i - 1])

LinkedFromCursor(d, bs) ==
    \A i \in 1..Len(bs) : bs[i] = IF i = 1 THEN d.cur ELSE Parent(bs[i - 1])

\* Variant whose length check is off by one (< for <=).
AcceptableBlocksStrict(d, bs) ==
    /\ LinkedFromCursor(d, bs)
    /\ \A i \in 1..Len(bs) : Verify(d.startKey, bs[i])
    /\ Len(d.blocks) + Len(bs) < TenureLength(d)

AcceptableBlocks(d, bs) ==
    /\ LinkedFromCursor(d, bs)
    /\ \A i \in 1..Len(bs) : Verify(d.startKey, bs[i])
    /\ Len(d.blocks) + Len(bs) <= TenureLength(d)

\* Variant that returns the blocks in the order they were fetched.
TryAcceptTenureBlocksUnreversed(d, bs) ==
    IF d.st # "GetBlocks" THEN Err(d)
    ELSE IF bs = <<>> THEN Ok(d)
    ELSE IF ~AcceptableBlocks(d, bs) THEN Err(d)
    ELSE LET all == d.blocks \o bs IN
         IF Last(all) # d.startId
         THEN Ok([d EXCEPT !.blocks = all, !.cur = Parent(Last(all))])
         ELSE [d |-> [d EXCEPT !.st = "Done", !.cur = NoBlock, !.blocks = <<>>],
               ok |-> TRUE, out |-> all]

\* try_accept_tenure_blocks.  An empty list is accepted without effect.
TryAcceptTenureBlocks(d, bs) ==
    IF d.st # "GetBlocks" THEN Err(d)
    ELSE IF bs = <<>> THEN Ok(d)
    ELSE IF ~AcceptableBlocks(d, bs) THEN Err(d)
    ELSE LET all == d.blocks \o bs IN
         IF Last(all) # d.startId
         THEN Ok([d EXCEPT !.blocks = all, !.cur = Parent(Last(all))])
         ELSE [d |-> [d EXCEPT !.st = "Done", !.cur = NoBlock, !.blocks = <<>>],
               ok |-> TRUE, out |-> Reverse(all)]

\* A reply as decoded: a single block, a tenure stream, or undecodable.
Response == [kind : {"block"}, b : Block, bs : {<<>>}]
              \cup [kind : {"tenure"}, b : {NoBlock}, bs : Seq(Block)]
              \cup [kind : {"garbage"}, b : {NoBlock}, bs : {<<>>}]
BlockResp(b)   == [kind |-> "block", b |-> b, bs |-> <<>>]
TenureResp(bs) == [kind |-> "tenure", b |-> NoBlock, bs |-> bs]
Garbage        == [kind |-> "garbage", b |-> NoBlock, bs |-> <<>>]

\* make_next_download_request: the request for the current state (a block
\* by id, or the tenure stream ending at the cursor).  WaitEnd sends
\* nothing; Done is an error.
MakeNextDownloadRequest(d) ==
    [kind |-> IF d.st = "GetBlocks" THEN "tenure" ELSE "block", id |-> d.cur]

\* Variant that leaves the downloader marked busy after a reply.
HandleResponseStayBusy(d, r) ==
    CASE d.st = "GetStart"  -> IF r.kind = "block"
                               THEN TryAcceptTenureStartBlock(d, r.b) ELSE Err(d)
      [] d.st = "GetEnd"    -> IF r.kind = "block"
                               THEN TryAcceptTenureEndBlock(d, r.b) ELSE Err(d)
      [] d.st = "GetBlocks" -> IF r.kind = "tenure"
                               THEN TryAcceptTenureBlocks(d, r.bs) ELSE Err(d)
      [] OTHER              -> Err(d)

\* handle_next_download_response: marks the downloader idle, decodes the
\* reply for the request its state implies, and feeds it to try_accept_*.
HandleNextDownloadResponse(d, r) ==
    LET d1 == [d EXCEPT !.idle = TRUE] IN
    CASE d1.st = "GetStart"  -> IF r.kind = "block"
                                THEN TryAcceptTenureStartBlock(d1, r.b) ELSE Err(d1)
      [] d1.st = "GetEnd"    -> IF r.kind = "block"
                                THEN TryAcceptTenureEndBlock(d1, r.b) ELSE Err(d1)
      [] d1.st = "GetBlocks" -> IF r.kind = "tenure"
                                THEN TryAcceptTenureBlocks(d1, r.bs) ELSE Err(d1)
      [] OTHER               -> Err(d1)

=============================================================================
