----------------------- MODULE UnconfirmedDownloader -----------------------
(***************************************************************************)
(* NakamotoUnconfirmedTenureDownloader (stackslib/src/net/download/        *)
(* nakamoto.rs): the per-peer state machine that asks a peer for its       *)
(* ongoing tenure (its tenure tip), fetches that tenure's start block if   *)
(* this node does not have it, then streams the tenure's blocks from the   *)
(* peer's tip down to the start block or to the node's own tip, and        *)
(* finally builds a confirmed downloader for the highest complete tenure.  *)
(*                                                                         *)
(* Same chain abstraction as TenureDownloader.  Sortition s has burn       *)
(* height s, every sortition is canonical, and its winning block-commit    *)
(* names <<s - 1, 1>>.  A tenure tip (RPCGetTenureInfo) is a record        *)
(* [ch, parentCh, startId, parentStartId, tip, tipHeight]; `stored` is     *)
(* the set of blocks in this node's staging database.                      *)
(***************************************************************************)
EXTENDS TenureDownloader

UStates == {"GetInfo", "GetStart", "GetBlocks", "Done"}

\* snapshot.winning_stacks_block_hash of sortition s
Winner(s) == IF s = 0 THEN NoBlock ELSE <<s - 1, 1>>

\* tenure_tip = None
NoInfo == [ch |-> -1, parentCh |-> -1, startId |-> NoBlock, parentStartId |-> NoBlock,
           tip |-> NoBlock, tipHeight |-> 0]

\* A decoded tenure-info reply.
InfoResp(i) == [kind |-> "info", b |-> NoBlock, bs |-> <<>>, info |-> i]

\* Outcome of an operation: the downloader afterwards, Ok or Err, and
\* whether Some(blocks) was returned (possibly an empty list) with them.
UErr(d)        == [d |-> d, ok |-> FALSE, some |-> FALSE, out |-> <<>>]
UOk(d)         == [d |-> d, ok |-> TRUE, some |-> FALSE, out |-> <<>>]
USome(d, bs)   == [d |-> d, ok |-> TRUE, some |-> TRUE, out |-> bs]

\* NakamotoUnconfirmedTenureDownloader::new.  `cur` is the block id the
\* state carries; hpH = -1 is highest_processed_block_height = None; the
\* two aggregate keys are set together (hasKeys).
NewUnconfirmed(naddr, hp) ==
    [naddr |-> naddr, st |-> "GetInfo", cur |-> NoBlock, hp |-> hp, hpH |-> -1,
     hasKeys |-> FALSE, confKey |-> 0, unconfKey |-> 0, info |-> NoInfo,
     startBlk |-> NoBlock, blocks |-> <<>>]

\* set_highest_processed_block
SetHighestProcessedBlock(d, b) == [d EXCEPT !.hp = b, !.hpH = Height(b)]

\* agg_pubkeys.get(rc) is Some(Some(key))
KnownKey(akeys, none, rc) == rc \in DOMAIN akeys /\ akeys[rc] # none

\* try_accept_tenure_info.  Both consensus hashes must name sortitions
\* (all of them canonical here), the parent's first; the ongoing tenure's
\* sortition must commit to the parent tenure's start block.  When this
\* node is at or past the peer's tip it loads the ongoing tenure's start
\* block and is Done at once, without keys; otherwise it records the two
\* keys and fetches the start block unless it already has it.
TryAcceptTenureInfo(d, i, stored, akeys, none) ==
    IF d.st # "GetInfo" \/ d.info # NoInfo THEN UErr(d)
    ELSE IF i.ch \notin Tenures \/ i.parentCh \notin Tenures THEN UErr(d)
    ELSE IF i.ch <= i.parentCh THEN UErr(d)
    ELSE IF Winner(i.ch) # i.parentStartId THEN UErr(d)
    ELSE LET d1    == IF d.hp # NoBlock THEN [d EXCEPT !.hpH = Height(d.hp)] ELSE d
             ahead == d.hp # NoBlock /\ (i.tip = d.hp \/ Height(d.hp) > i.tipHeight)
             ck    == RcOf(i.parentCh)
             uk    == RcOf(i.ch)
         IN
         IF ahead
         THEN IF i.startId \notin stored THEN UErr(d1)
              ELSE UOk([d1 EXCEPT !.startBlk = i.startId, !.st = "Done", !.info = i])
         ELSE IF ~KnownKey(akeys, none, ck) \/ ~KnownKey(akeys, none, uk) THEN UErr(d1)
         ELSE LET d2 == [d1 EXCEPT !.hasKeys = TRUE, !.confKey = akeys[ck],
                                   !.unconfKey = akeys[uk], !.info = i]
              IN  IF i.startId \in stored
                  THEN UOk([d2 EXCEPT !.startBlk = i.startId, !.st = "GetBlocks",
                                      !.cur = i.tip])
                  ELSE UOk([d2 EXCEPT !.st = "GetStart", !.cur = i.startId])

\* try_accept_unconfirmed_tenure_start_block
TryAcceptUnconfirmedTenureStartBlock(d, b) ==
    IF d.st # "GetStart" \/ d.info = NoInfo \/ ~d.hasKeys THEN UErr(d)
    ELSE IF ~Verify(d.unconfKey, b) \/ b # d.cur \/ BlockCh(b) # d.info.ch THEN UErr(d)
    ELSE UOk([d EXCEPT !.startBlk = b, !.st = "GetBlocks", !.cur = d.info.tip])

(***************************************************************************)
(* The checking loop of try_accept_unconfirmed_tenure_blocks.  It walks    *)
(* the stream from the cursor down and stops (at_tenure_start) at the      *)
(* ongoing tenure's start block, which must be last, at the node's highest *)
(* processed block, or below the node's height.  The blocks after the one  *)
(* it stops at are not looked at.                                          *)
(***************************************************************************)
RECURSIVE UScan(_, _, _, _)
UScan(d, bs, i, exp) ==
    IF i > Len(bs) THEN [ok |-> TRUE, atStart |-> FALSE]
    ELSE LET b == bs[i] IN
    IF b # exp \/ ~Verify(d.unconfKey, b) THEN [ok |-> FALSE, atStart |-> FALSE]
    ELSE IF IsTenureStart(b)
         THEN [ok |-> b = d.info.startId /\ i = Len(bs), atStart |-> TRUE]
    ELSE IF d.hp # NoBlock /\ exp = d.hp THEN [ok |-> TRUE, atStart |-> TRUE]
    ELSE IF d.hpH >= 0 /\ Height(b) < d.hpH THEN [ok |-> TRUE, atStart |-> TRUE]
    ELSE UScan(d, bs, i + 1, Parent(b))

\* try_accept_unconfirmed_tenure_blocks.  The whole list is appended; once
\* the scan stops, the blocks above the node's height are returned lowest
\* first.
TryAcceptUnconfirmedTenureBlocks(d, bs) ==
    IF d.st # "GetBlocks" \/ d.info = NoInfo \/ ~d.hasKeys THEN UErr(d)
    ELSE IF bs = <<>> THEN UOk(d)
    ELSE LET r   == UScan(d, bs, 1, d.cur)
             all == d.blocks \o bs
             h   == IF d.hpH >= 0 THEN d.hpH ELSE 0
         IN
         IF ~r.ok THEN UErr(d)
         ELSE IF r.atStart
         THEN USome([d EXCEPT !.st = "Done", !.blocks = <<>>],
                    Reverse(SelectSeq(all, LAMBDA b : Height(b) > h)))
         ELSE UOk([d EXCEPT !.blocks = all, !.cur = Parent(Last(all))])

MakeHighestCompleteTenureDownloaderSwapped(d, highestCh, unconfirmedWin) ==
    IF d.st # "Done" \/ d.startBlk = NoBlock \/ ~d.hasKeys THEN [ok |-> FALSE, dl |-> d]
    ELSE [ok |-> TRUE,
          dl |-> [NewDownloader(highestCh, d.startBlk, unconfirmedWin, d.naddr,
                                d.confKey, d.unconfKey) EXCEPT !.seed = d.startBlk]]

\* make_highest_complete_tenure_downloader: a confirmed downloader for the
\* highest complete tenure, whose end block is the ongoing tenure's start
\* block, handed over as its tenure-end block.
MakeHighestCompleteTenureDownloader(d, highestCh, unconfirmedWin) ==
    IF d.st # "Done" \/ d.startBlk = NoBlock \/ ~d.hasKeys THEN [ok |-> FALSE, dl |-> d]
    ELSE [ok |-> TRUE,
          dl |-> [NewDownloader(highestCh, unconfirmedWin, d.startBlk, d.naddr,
                                d.confKey, d.unconfKey) EXCEPT !.seed = d.startBlk]]

\* make_next_download_request: tenure info, a block, or the tenure stream
\* from the cursor down to the highest processed block.
MakeNextDownloadRequestU(d) ==
    [kind |-> CASE d.st = "GetInfo"  -> "info"
                [] d.st = "GetStart" -> "block"
                [] OTHER             -> "tenure",
     id |-> d.cur]

\* handle_next_download_response: decode the reply for the current state
\* and feed it to the matching try_accept_*.
HandleNextDownloadResponseU(d, r, stored, akeys, none) ==
    CASE d.st = "GetInfo"   -> IF r.kind = "info"
                               THEN TryAcceptTenureInfo(d, r.info, stored, akeys, none)
                               ELSE UErr(d)
      [] d.st = "GetStart"  -> IF r.kind = "block"
                               THEN TryAcceptUnconfirmedTenureStartBlock(d, r.b)
                               ELSE UErr(d)
      [] d.st = "GetBlocks" -> IF r.kind = "tenure"
                               THEN TryAcceptUnconfirmedTenureBlocks(d, r.bs)
                               ELSE UErr(d)
      [] OTHER              -> UErr(d)

=============================================================================
