--------------------------- MODULE DownloaderSet ---------------------------
(***************************************************************************)
(* NakamotoTenureDownloaderSet and the confirmed-tenure path of            *)
(* NakamotoDownloadStateMachine (stackslib/src/net/download/nakamoto.rs).  *)
(*                                                                         *)
(* One tick of NakamotoDownloadStateMachine::run in Confirmed mode is      *)
(* three steps of one thread, in order (pc):                               *)
(*   BeginTick   update_processed_tenures, update_available_tenures and    *)
(*               make_tenure_downloaders (update_tenure_downloaders);      *)
(*   RunSend     the send half of NakamotoTenureDownloaderSet::run;        *)
(*   RunCollect  its collect half, then the rest of                        *)
(*               download_confirmed_tenures (cross-feeding tenure-start    *)
(*               blocks as tenure-end blocks) and the dead-peer handling   *)
(*               of do_network_block_sync_nakamoto.                         *)
(* A tick runs to completion on the p2p thread; between ticks the network  *)
(* acts: a peer answers an outstanding request (Deliver), a connection     *)
(* drops (Break) or is (re)opened (Reconnect).  The relayer processes a    *)
(* downloaded tenure (ProcessTenure) at any time.                          *)
(*                                                                         *)
(* The reward-cycle window is fixed: prev_wanted_tenures is the cycle      *)
(* before the tip's, wanted_tenures the tip's cycle, every sortition up to *)
(* the tip elected a tenure.  A peer's inventory of a reward cycle is     *)
(* either known from the start or arrives between ticks (InvLate).        *)
(***************************************************************************)
EXTENDS TenureDownloader, TenureInventory

CONSTANTS
    Peers,          \* neighbor addresses
    Byzantine,      \* peers that may answer anything a peer can send
    Inv,            \* [Peers -> [cycles -> bit set]]: tenure inventories
    InvLate,        \* <<peer, cycle>> inventories the inventory sync has yet to fetch
    InvOrder,       \* iteration order of the inventory HashMap
    AggKey,         \* [cycles -> key or NoKey]: aggregate public keys
    MaxInflight,    \* max_inflight_blocks
    IBD,            \* whether the node is in initial block download
    MaxDowns,       \* connection breaks per peer
    Null, NoReq, NoResp, NoKey  \* absent slot, request, reply, key

ASSUME Byzantine \subseteq Peers

VARIABLES
    slots,      \* downloaders: Vec<Option<NakamotoTenureDownloader>>
    peers,      \* peers: NeighborAddress -> index into slots
    completed,  \* completed_tenures
    schedule,   \* tenure_download_schedule
    available,  \* available_tenures: ch -> [NeighborAddress]
    tbi,        \* tenure_block_ids: NeighborAddress -> ch -> TenureStartEnd
    tsb,        \* tenure_start_blocks (their block ids)
    net,        \* NeighborRPC: the outstanding request of each peer
    dead,       \* NeighborRPC: peers marked dead this tick
    connected,  \* peers with an open conversation
    downs,      \* connection breaks per peer so far
    processed,  \* tenures the chain state has processed
    yieldCount, \* how often each tenure was returned by run (capped at 2)
    yieldBlocks,\* the blocks last returned for each tenure
    pc,         \* step of the current tick
    inventories \* inv_state_nakamoto.inventories: peer -> cycle -> bit set

vars == <<slots, peers, completed, schedule, available, tbi, tsb, net, dead,
          connected, downs, processed, yieldCount, yieldBlocks, pc, inventories>>

NakamotoStart == 1
CurRc  == RcOf(NumTenures)
PrevRc == CurRc - 1

\* The wanted tenures of reward cycle c with their processed flags as
\* update_processed_tenures sets them from the chain state's processed
\* tenures `proc`.
WantedFrom(c, proc) ==
    LET first == (c - 1) * RCLen + 1
        last  == IF c = CurRc THEN NumTenures ELSE c * RCLen
    IN  [i \in 1..(last - first + 1) |->
           LET s == first + i - 1 IN
           [ch |-> s, win |-> <<s - 1, 1>>, burn |-> s,
            processed |-> s < NakamotoStart \/ s \in proc]]

WantedOf(c) == WantedFrom(c, processed)

\* The first burn height under which block_height_to_reward_cycle puts
\* heights (c - 1) * RCLen + 1 .. c * RCLen in cycle c, as RcOf does.
FirstBurnHeight == 1 - RCLen

\* find_tenure_block_ids for both windows, merged as update_available_tenures
\* merges them, with the tenures `proc` processed.
FindTenureBlockIdsWith(proc, invs) ==
    LET P(p) == PrevRc \in DOMAIN invs[p]
        C(p) == CurRc \in DOMAIN invs[p]
        Prev(p) == FromInventory(PrevRc, WantedFrom(PrevRc, proc), TRUE,
                                 WantedFrom(CurRc, proc), FirstBurnHeight, RCLen, invs[p])
        Cur(p)  == FromInventory(CurRc, WantedFrom(CurRc, proc), FALSE, <<>>,
                                 FirstBurnHeight, RCLen, invs[p])
    IN  [p \in {q \in DOMAIN invs : P(q) \/ C(q)} |->
           IF P(p) /\ C(p) THEN Prev(p) @@ Cur(p)
           ELSE IF P(p) THEN Prev(p) ELSE Cur(p)]

FindTenureBlockIds == FindTenureBlockIdsWith(processed, inventories)

\* The inventory map's iteration order restricted to the peers it holds.
FindAvailable ==
    LET order == SelectSeq(InvOrder, LAMBDA p : p \in DOMAIN inventories) IN
    FindAvailableTenures(PrevRc, WantedOf(PrevRc), order, inventories, NoBlock)
      @@ FindAvailableTenures(CurRc, WantedOf(CurRc), order, inventories, NoBlock)

MakeSchedule(av) ==
    IF IBD
    THEN IbdSchedule(NakamotoStart, WantedOf(PrevRc), av)
           \o IbdSchedule(NakamotoStart, WantedOf(CurRc), av)
    ELSE RarestFirstSchedule(NakamotoStart, WantedOf(PrevRc), av)
           \o RarestFirstSchedule(NakamotoStart, WantedOf(CurRc), av)

\* count_available_tenure_neighbors(av) > 0
HasNeighborsToTry(av) == \E ch \in DOMAIN av : av[ch] # <<>>

\* Mutant: a peer's tenure block ids, once found, are kept over the ones
\* found afresh.
RecomputedKeepingIds(av) ==
    [available |-> av, tbi |-> tbi @@ FindTenureBlockIds, schedule |-> MakeSchedule(av)]

\* The availability av found afresh, with the tenure block ids and schedule.
Recomputed(av) == [available |-> av, tbi |-> FindTenureBlockIds, schedule |-> MakeSchedule(av)]

\* update_available_tenures: keep the current work while some tenure still
\* has neighbors to try, or when there are no wanted tenures or no
\* inventories; otherwise recompute availability and the schedule.
UpdateAvailableTenures ==
    LET av0 == IF schedule = <<>> THEN <<>> ELSE available
        tb0 == IF schedule = <<>> THEN <<>> ELSE tbi
    IN  IF HasNeighborsToTry(av0) \/ Len(WantedOf(CurRc)) = 0 \/ DOMAIN inventories = {}
        THEN [available |-> av0, tbi |-> tb0, schedule |-> schedule]
        ELSE Recomputed(FindAvailable)

-----------------------------------------------------------------------------
(* NakamotoTenureDownloaderSet operations on the slot vector `sl` and the  *)
(* peer binding `pr`.                                                      *)

Live(sl, i) == sl[i] # Null

\* inflight: downloaders that are neither idle, waiting nor done.
Inflight(sl) ==
    Cardinality({i \in DOMAIN sl : Live(sl, i) /\ ~sl[i].idle
                                   /\ ~IsWaiting(sl[i]) /\ sl[i].st # "Done"})

\* Mutant: only a downloader with a request outstanding counts.
HasDownloaderForTenureBusy(sl, ch) == \E i \in DOMAIN sl : Live(sl, i) /\ ~sl[i].idle /\ sl[i].ch = ch

HasDownloaderForTenure(sl, ch) == \E i \in DOMAIN sl : Live(sl, i) /\ sl[i].ch = ch

\* clear_available_peers: unbind peers whose slot is empty, idle or waiting.
ClearAvailablePeers(sl, pr) ==
    LET Busy(p) == Live(sl, pr[p]) /\ ~sl[pr[p]].idle /\ ~IsWaiting(sl[pr[p]])
    IN  [p \in {q \in DOMAIN pr : Busy(q)} |-> pr[p]]

\* clear_finished_downloaders
ClearFinishedDownloaders(sl) ==
    [i \in DOMAIN sl |-> IF Live(sl, i) /\ sl[i].st = "Done" THEN Null ELSE sl[i]]

\* try_transition_fetch_tenure_end_blocks
TryTransitionFetchTenureEndBlocks(sl, tb) ==
    LET flagged == UNION {{tb[p][ch].end : ch \in {c \in DOMAIN tb[p] : tb[p][c].fetchEnd}}
                            : p \in DOMAIN tb}
    IN  [i \in DOMAIN sl |->
           IF Live(sl, i) /\ sl[i].idle /\ IsWaiting(sl[i]) /\ sl[i].endId \in flagged
           THEN TransitionToFetchEndBlock(sl[i]) ELSE sl[i]]

\* Variant that removes the cleared slots from the vector (Vec::remove)
\* instead of nulling them, shifting the slots after them.
ClearDownloadersRemoving(sl, pr, S) ==
    LET gone == {pr[p] : p \in S \cap DOMAIN pr}
        kept == SelectSeq([i \in DOMAIN sl |-> i], LAMBDA i : i \notin gone)
    IN  [slots |-> [k \in DOMAIN kept |-> sl[kept[k]]],
         peers |-> [p \in DOMAIN pr \ S |-> pr[p]]]

\* clear_downloader for every peer in S
ClearDownloaders(sl, pr, S) ==
    [slots |-> [i \in DOMAIN sl |->
                  IF \E p \in S \cap DOMAIN pr : pr[p] = i THEN Null ELSE sl[i]],
     peers |-> [p \in DOMAIN pr \ S |-> pr[p]]]

\* Variant that never resumes a peer that is already bound.
TryResumeFreshPeer(s, p) ==
    IF p \in DOMAIN s.peers THEN [ok |-> FALSE, s |-> s]
    ELSE LET C == {i \in DOMAIN s.slots : /\ Live(s.slots, i)
                                           /\ s.slots[i].idle
                                           /\ ~IsWaiting(s.slots[i])
                                           /\ s.slots[i].naddr = p}
         IN  IF C = {} THEN [ok |-> FALSE, s |-> s]
             ELSE [ok |-> TRUE, s |-> [s EXCEPT !.peers = (p :> Min(C)) @@ @]]

\* Variant that binds an unbound peer to any idle, non-waiting downloader,
\* whoever drives it.
TryResumeAnyPeer(s, p) ==
    IF p \in DOMAIN s.peers THEN [ok |-> Live(s.slots, s.peers[p]), s |-> s]
    ELSE LET C == {i \in DOMAIN s.slots : /\ Live(s.slots, i)
                                           /\ s.slots[i].idle
                                           /\ ~IsWaiting(s.slots[i])}
         IN  IF C = {} THEN [ok |-> FALSE, s |-> s]
             ELSE [ok |-> TRUE, s |-> [s EXCEPT !.peers = (p :> Min(C)) @@ @]]

\* try_resume_peer over the loop state s = [slots, peers, schedule, available]:
\* a bound peer resumes iff its slot is live; an unbound one binds to the
\* first idle, non-waiting downloader it drives.
TryResumePeer(s, p) ==
    IF p \in DOMAIN s.peers THEN [ok |-> Live(s.slots, s.peers[p]), s |-> s]
    ELSE LET C == {i \in DOMAIN s.slots : /\ Live(s.slots, i)
                                           /\ s.slots[i].idle
                                           /\ ~IsWaiting(s.slots[i])
                                           /\ s.slots[i].naddr = p}
         IN  IF C = {} THEN [ok |-> FALSE, s |-> s]
             ELSE [ok |-> TRUE, s |-> [s EXCEPT !.peers = (p :> Min(C)) @@ @]]

\* add_downloader: overwrite the peer's slot, or push a new one.
AddDownloader(s, p, d) ==
    IF p \in DOMAIN s.peers THEN [s EXCEPT !.slots[s.peers[p]] = d]
    ELSE [s EXCEPT !.slots = Append(@, d), !.peers = (p :> Len(s.slots) + 1) @@ @]

PopFront(s) == [s EXCEPT !.schedule = Tail(@)]
KeyOf(rc) == IF rc \in DOMAIN AggKey THEN AggKey[rc] ELSE NoKey

\* The while loop of make_tenure_downloaders.  Every iteration pops the
\* schedule's head or one of its neighbors, so it terminates.
RECURSIVE MakeLoop(_, _, _, _)
MakeLoop(s, tb, done, count) ==
    IF Inflight(s.slots) >= count \/ s.schedule = <<>> THEN s
    ELSE LET ch == Head(s.schedule) IN
    IF ch \in done \/ ch \notin DOMAIN s.available \/ s.available[ch] = <<>>
    THEN MakeLoop(PopFront(s), tb, done, count)
    ELSE LET p  == Last(s.available[ch])
             s1 == [s EXCEPT !.available[ch] = Front(@)]
             r  == TryResumePeer(s1, p)
         IN
         IF r.ok THEN MakeLoop(r.s, tb, done, count)
         ELSE IF HasDownloaderForTenure(s1.slots, ch) THEN MakeLoop(PopFront(s1), tb, done, count)
         ELSE IF p \notin DOMAIN tb THEN MakeLoop(s1, tb, done, count)
         ELSE IF ch \notin DOMAIN tb[p] THEN MakeLoop(s1, tb, done, count)
         ELSE LET info == tb[p][ch] IN
              IF KeyOf(info.startRc) = NoKey \/ KeyOf(info.endRc) = NoKey
              THEN MakeLoop(PopFront(s1), tb, done, count)
              ELSE MakeLoop(PopFront(AddDownloader(s1, p,
                              NewDownloader(ch, info.start, info.end, p,
                                            KeyOf(info.startRc), KeyOf(info.endRc)))),
                            tb, done, count)

\* make_tenure_downloaders
MakeTenureDownloaders(sl, pr, sch, av, tb, done, count) ==
    LET pr1 == ClearAvailablePeers(sl, pr)
        sl1 == TryTransitionFetchTenureEndBlocks(ClearFinishedDownloaders(sl), tb)
    IN  MakeLoop([slots |-> sl1, peers |-> pr1, schedule |-> sch, available |-> av],
                 tb, done, count)

-----------------------------------------------------------------------------
(* NeighborRPC.  A request outstanding for a peer is a record naming the   *)
(* slot and state it was sent from; `resp` is NoResp until the peer        *)
(* answers.                                                                *)

\* is_dead_or_broken: marked dead, or no open conversation.
DeadOrBroken(p, dd) == p \in dd \/ p \notin connected

\* One iteration of the send loop of run for bound peer p over
\* s = [slots, net, dead, fin, finT], including send_next_download_request.
SendOne(p, s) ==
    LET i == peers[p]
        d == s.slots[i]
    IN
    IF s.net[p] # NoReq \/ ~Live(s.slots, i) THEN s
    ELSE IF d.st = "Done" THEN [s EXCEPT !.fin = @ \cup {p}, !.finT = @ \cup {d.ch}]
    ELSE IF s.net[d.naddr] # NoReq THEN s
    ELSE IF DeadOrBroken(d.naddr, s.dead) THEN [s EXCEPT !.dead = @ \cup {p}]
    ELSE IF IsWaiting(d) THEN s
    ELSE [s EXCEPT !.net[d.naddr] = [slot |-> i, st |-> d.st,
                                     req |-> MakeNextDownloadRequest(d), resp |-> NoResp],
                   !.slots[i].idle = FALSE]

RECURSIVE SendLoop(_, _)
SendLoop(S, s) ==
    IF S = {} THEN s
    ELSE LET p == CHOOSE x \in S : TRUE IN SendLoop(S \ {p}, SendOne(p, s))

\* One reply of collect_replies, routed through the peer binding, over
\* s = [slots, net, dead, fin, finT, nb].
\* The outcome r of handle_next_download_response for the peer p bound to
\* slot i, applied to s1.
ApplyReply(p, s1, i, r) ==
    LET s2 == [s1 EXCEPT !.slots[i] = r.d] IN
    IF ~r.ok THEN [s2 EXCEPT !.dead = @ \cup {p}]
    ELSE IF r.d.st = "Done"
    THEN [s2 EXCEPT !.nb = (r.d.ch :> r.out) @@ @, !.fin = @ \cup {p},
                    !.finT = @ \cup {r.d.ch}]
    ELSE s2

CollectOne(p, s) ==
    LET s1 == [s EXCEPT !.net[p] = NoReq] IN
    IF p \notin DOMAIN peers \/ ~Live(s1.slots, peers[p]) THEN s1
    ELSE ApplyReply(p, s1, peers[p],
                    HandleNextDownloadResponse(s1.slots[peers[p]], s.net[p].resp))

RECURSIVE CollectLoop(_, _)
CollectLoop(S, s) ==
    IF S = {} THEN s
    ELSE LET p == CHOOSE x \in S : TRUE IN CollectLoop(S \ {p}, CollectOne(p, s))

\* find_new_tenure_start_blocks
FindNewTenureStartBlocks(sl) ==
    {sl[i].startId : i \in {j \in DOMAIN sl : Live(sl, j) /\ sl[j].startBlk}}

\* handle_tenure_end_blocks: waiting downloaders whose end block is a known
\* tenure-start block accept it; the peers of those that fail are dead.
HandleTenureEndBlocks(sl, starts) ==
    LET W    == {i \in DOMAIN sl : Live(sl, i) /\ IsWaiting(sl[i]) /\ sl[i].cur \in starts}
        R(i) == TryAcceptTenureEndBlock(sl[i], sl[i].cur)
    IN  [slots |-> [i \in DOMAIN sl |-> IF i \in W THEN R(i).d ELSE sl[i]],
         dead  |-> {sl[i].naddr : i \in {j \in W : ~R(j).ok}}]

-----------------------------------------------------------------------------
(* The tick.                                                               *)

\* The <<peer, cycle>> pairs of the inventories the peers have.
InvPairs == {<<p, c>> \in Peers \X UNION {DOMAIN Inv[q] : q \in Peers} : c \in DOMAIN Inv[p]}

\* The inventory map holding the inventories of the pairs in K.
KnownInventories(K) ==
    LET Has(p) == {c \in DOMAIN Inv[p] : <<p, c>> \in K} IN
    [p \in {q \in Peers : Has(q) # {}} |-> [c \in Has(p) |-> Inv[p][c]]]

TypeOK ==
    /\ pc \in {"make", "send", "recv"}
    /\ \A i \in DOMAIN slots : slots[i] = Null \/ slots[i].st \in States
    /\ DOMAIN peers \subseteq Peers
    /\ \A p \in DOMAIN peers : peers[p] \in DOMAIN slots
    /\ completed \subseteq 1..NumTenures
    /\ dead \subseteq Peers /\ connected \subseteq Peers
    /\ net \in [Peers -> {NoReq} \cup [slot : Nat, st : States, req : [kind : {"block", "tenure"}, id : Block],
                                      resp : {NoResp} \cup Response]]
    /\ processed \subseteq Tenures
    /\ yieldCount \in [1..NumTenures -> 0..2]

Init ==
    /\ slots = <<>> /\ peers = <<>> /\ completed = {}
    /\ schedule = <<>> /\ available = <<>> /\ tbi = <<>> /\ tsb = {}
    /\ net = [p \in Peers |-> NoReq] /\ dead = {} /\ connected = Peers
    /\ downs = [p \in Peers |-> 0] /\ processed = {0}
    /\ yieldCount = [t \in 1..NumTenures |-> 0]
    /\ yieldBlocks = [t \in 1..NumTenures |-> <<>>]
    /\ pc = "make"
    /\ inventories = KnownInventories(InvPairs \ InvLate)

\* run: update_processed_tenures, update_available_tenures, then
\* update_tenure_downloaders.
\* The work u of update_available_tenures and the set m after
\* make_tenure_downloaders.
MadeInto(u, m) ==
    /\ slots' = m.slots /\ peers' = m.peers
    /\ schedule' = m.schedule /\ available' = m.available /\ tbi' = u.tbi

BeginTickFrom(u) ==
    MadeInto(u, MakeTenureDownloaders(slots, peers, u.schedule, u.available, u.tbi,
                                      completed, MaxInflight))

BeginTick ==
    /\ pc = "make"
    /\ BeginTickFrom(UpdateAvailableTenures)
    /\ pc' = "send"
    /\ UNCHANGED <<completed, tsb, net, dead, connected, downs, processed,
                   yieldCount, yieldBlocks, inventories>>

\* NakamotoTenureDownloaderSet::run, up to and including the first clearing
\* of dead, broken and finished downloaders.
RunSend ==
    /\ pc = "send"
    /\ LET s   == SendLoop(DOMAIN peers, [slots |-> slots, net |-> net, dead |-> dead,
                                          fin |-> {}, finT |-> {}])
           clr == ClearDownloaders(s.slots, peers,
                     {q \in DOMAIN peers : DeadOrBroken(q, s.dead)} \cup s.fin)
       IN  /\ slots' = clr.slots /\ peers' = clr.peers
           /\ net' = s.net /\ dead' = s.dead
           /\ completed' = completed \cup s.finT
    /\ pc' = "recv"
    /\ UNCHANGED <<schedule, available, tbi, tsb, connected, downs, processed,
                   yieldCount, yieldBlocks, inventories>>

\* The collect half of run and its second clearing, then the rest of
\* download_confirmed_tenures: cross-feeding tenure-start blocks.  `dead`
\* is every peer marked dead this tick, `nb` the tenures run returned.
AfterCollect(s) ==
    LET clr == ClearDownloaders(s.slots, peers,
                  {q \in DOMAIN peers : DeadOrBroken(q, s.dead)} \cup s.fin)
        starts == tsb \cup FindNewTenureStartBlocks(clr.slots)
        h   == HandleTenureEndBlocks(clr.slots, starts)
    IN  [slots |-> h.slots, peers |-> clr.peers, completed |-> completed \cup s.finT,
         tsb |-> starts, net |-> s.net, dead |-> s.dead \cup h.dead, nb |-> s.nb]

ConfirmedCollect ==
    LET ready == {p \in Peers : net[p] # NoReq /\ net[p].resp # NoResp} IN
    AfterCollect(CollectLoop(ready, [slots |-> slots, net |-> net, dead |-> dead,
                                     fin |-> {}, finT |-> {}, nb |-> <<>>]))

\* The caller's record of the tenures returned by one run.
CountYields(nb) ==
    [t \in 1..NumTenures |->
       IF t \in DOMAIN nb THEN IF yieldCount[t] < 2 THEN yieldCount[t] + 1 ELSE 2
       ELSE yieldCount[t]]
LastYields(nb) ==
    [t \in 1..NumTenures |-> IF t \in DOMAIN nb THEN nb[t] ELSE yieldBlocks[t]]

\* take_dead / deregister_neighbor at the end of the tick: the peers marked
\* dead lose their conversation and their outstanding request.
Deregistered(n, gone) == [p \in Peers |-> IF p \in gone THEN NoReq ELSE n[p]]

\* The rest of run (collect replies, clear again), the rest of
\* download_confirmed_tenures, and take_dead / deregister_neighbor.
\* The variables after the collect c of download_confirmed_tenures.
CollectedInto(c) ==
    /\ slots' = c.slots /\ peers' = c.peers
    /\ completed' = c.completed /\ tsb' = c.tsb
    /\ yieldCount' = CountYields(c.nb) /\ yieldBlocks' = LastYields(c.nb)

RunCollectWith(c) ==
    /\ CollectedInto(c)
    /\ net' = Deregistered(c.net, c.dead)
    /\ dead' = {}
    /\ connected' = connected \ c.dead

RunCollect ==
    /\ pc = "recv"
    /\ RunCollectWith(ConfirmedCollect)
    /\ pc' = "make"
    /\ UNCHANGED <<schedule, available, tbi, processed, downs, inventories>>

Tick == BeginTick \/ RunSend \/ RunCollect

-----------------------------------------------------------------------------
(* The network and the chain.                                              *)

\* The blocks from `b` down to the start of its tenure, at most n of them.
RunFrom(b, n) == [i \in 1..n |-> <<b[1], b[2] - i + 1>>]

HonestReplies(req) ==
    IF req.kind = "block" THEN {BlockResp(req.id)}
    ELSE {TenureResp(RunFrom(req.id, n)) : n \in 1..req.id[2]}

\* Anything a peer can send: undecodable bytes, an empty stream, or genuine
\* blocks and short genuine runs that need not be the ones asked for.
ByzantineReplies ==
    {Garbage, TenureResp(<<>>)}
      \cup {BlockResp(b) : b \in Block}
      \cup {TenureResp(<<b>>) : b \in Block}
      \cup {TenureResp(<<b, Parent(b)>>) : b \in {c \in Block : Parent(c) # NoBlock}}

Deliver(p) ==
    /\ pc = "make"
    /\ p \in connected /\ net[p] # NoReq /\ net[p].resp = NoResp
    /\ \E r \in IF p \in Byzantine THEN ByzantineReplies ELSE HonestReplies(net[p].req) :
          net' = [net EXCEPT ![p].resp = r]
    /\ UNCHANGED <<slots, peers, completed, schedule, available, tbi, tsb, dead,
                   connected, downs, processed, yieldCount, yieldBlocks, pc, inventories>>

Break(p) ==
    /\ pc = "make"
    /\ p \in connected /\ downs[p] < MaxDowns
    /\ connected' = connected \ {p}
    /\ net' = [net EXCEPT ![p] = NoReq]
    /\ downs' = [downs EXCEPT ![p] = @ + 1]
    /\ UNCHANGED <<slots, peers, completed, schedule, available, tbi, tsb, dead,
                   processed, yieldCount, yieldBlocks, pc, inventories>>

Reconnect(p) ==
    /\ pc = "make"
    /\ p \notin connected
    /\ connected' = connected \cup {p}
    /\ UNCHANGED <<slots, peers, completed, schedule, available, tbi, tsb, net, dead,
                   downs, processed, yieldCount, yieldBlocks, pc, inventories>>

\* The relayer processes a downloaded tenure once its parent is processed.
ProcessTenure(t) ==
    /\ t \notin processed /\ t - 1 \in processed
    /\ yieldCount[t] > 0 /\ yieldBlocks[t] = GenuineTenure(t)
    /\ processed' = processed \cup {t}
    /\ UNCHANGED <<slots, peers, completed, schedule, available, tbi, tsb, net, dead,
                   connected, downs, yieldCount, yieldBlocks, pc, inventories>>

\* The inventory state machine, between two passes of the downloader,
\* fetches peer p's inventory of reward cycle c.
SyncInventory(p, c) ==
    /\ pc = "make"
    /\ <<p, c>> \in InvLate
    /\ ~(p \in DOMAIN inventories /\ c \in DOMAIN inventories[p])
    /\ inventories' = KnownInventories({<<p, c>>} \cup
                          {x \in InvPairs :
                             x[1] \in DOMAIN inventories /\ x[2] \in DOMAIN inventories[x[1]]})
    /\ UNCHANGED <<slots, peers, completed, schedule, available, tbi, tsb, net, dead,
                   connected, downs, processed, yieldCount, yieldBlocks, pc>>

Next ==
    \/ Tick
    \/ \E p \in Peers : Deliver(p) \/ Break(p) \/ Reconnect(p)
    \/ \E t \in 1..NumTenures : ProcessTenure(t)
    \/ \E x \in InvLate : SyncInventory(x[1], x[2])

\* The download thread ticks forever (the p2p main loop calls run on every
\* pass).  Tick is enabled in every state and always changes pc, so weak
\* fairness of Tick is the same as Tick happening infinitely often; it is
\* written that way because TLC would otherwise evaluate ENABLED over the
\* whole make_tenure_downloaders recursion.
Fairness ==
    /\ []<><<Tick>>_vars
    /\ \A p \in Peers \ Byzantine : SF_vars(Deliver(p)) /\ SF_vars(Reconnect(p))
    /\ \A x \in InvLate : SF_vars(SyncInventory(x[1], x[2]))

Spec == Init /\ [][Next]_vars /\ Fairness

-----------------------------------------------------------------------------
(* State view for TLC.  add_downloader pushes a new slot whenever an       *)
(* unbound peer is given a downloader and clear_downloader only nulls      *)
(* slots, so the vector grows on every tick in which a scheduled peer is   *)
(* unreachable.  Slot indices are only compared for equality and order     *)
(* (Vec iteration), so two states that agree once the unreferenced null    *)
(* slots are dropped, keeping the order of the rest, behave alike.         *)

Referenced == ({i \in DOMAIN slots : Live(slots, i)}
                 \cup {peers[p] : p \in DOMAIN peers}
                 \cup {net[p].slot : p \in {q \in Peers : net[q] # NoReq}})
              \cap DOMAIN slots
SlotRank(i) == Cardinality({j \in Referenced : j <= i})
SlotAt(k)   == CHOOSE i \in Referenced : SlotRank(i) = k

CompactView ==
    <<[k \in 1..Cardinality(Referenced) |-> slots[SlotAt(k)]],
      [p \in DOMAIN peers |-> SlotRank(peers[p])],
      [p \in Peers |-> IF net[p] = NoReq THEN NoReq
                       ELSE [net[p] EXCEPT !.slot = SlotRank(@)]],
      completed, schedule, available, tbi, tsb, dead, connected, downs,
      processed, yieldCount, yieldBlocks, pc, inventories>>

-----------------------------------------------------------------------------
(* Properties.                                                             *)

\* Every tenure run returns (new_blocks of NakamotoTenureDownloaderSet::run,
\* produced by try_accept_tenure_blocks) is the whole tenure as the chain
\* has it, lowest block first: contiguous, complete, signed, nothing of
\* another tenure (spec section 8, invariants 4 and 5).
YieldCorrect ==
    \A t \in 1..NumTenures : yieldCount[t] > 0 => yieldBlocks[t] = GenuineTenure(t)

\* No tenure is returned twice: completed_tenures keeps
\* make_tenure_downloaders from downloading a finished tenure again, even
\* while the chain has not yet processed it (spec section 5).
YieldedAtMostOnce == \A t \in 1..NumTenures : yieldCount[t] <= 1

\* A reply is handled by the downloader that sent the request, in the
\* state it sent it from: while a request of peer p is outstanding, p stays
\* bound to the sending slot (clear_available_peers keeps busy peers, run
\* sends only when has_inflight is false), and nothing else moves that
\* downloader out of the state the request was made for.
ReplyRoutedToSender ==
    \A p \in Peers :
        (net[p] # NoReq /\ p \in DOMAIN peers) =>
            /\ peers[p] = net[p].slot
            /\ Live(slots, peers[p]) => slots[peers[p]].st = net[p].st

\* A bound peer always names a live downloader that it drives itself, and
\* no two peers share a downloader (spec section 8, invariants 1 and 2;
\* try_resume_peer only binds a peer to a downloader whose naddr it is).
PeerBindingSound ==
    /\ \A p \in DOMAIN peers : Live(slots, peers[p]) /\ slots[peers[p]].naddr = p
    /\ \A p, q \in DOMAIN peers : p # q => peers[p] # peers[q]

\* However long the downloaders vector grows (add_downloader pushes a slot
\* for every unbound peer and clearing only nulls slots), no two live
\* downloaders fetch the same tenure: has_downloader_for_tenure must see
\* idle and waiting downloaders whose peers were unbound, across ticks,
\* broken connections and resumption by try_resume_peer.
OneDownloaderPerTenure ==
    \A i, j \in DOMAIN slots :
        i # j /\ Live(slots, i) /\ Live(slots, j) => slots[i].ch # slots[j].ch

\* The tenures run has returned, as TenureStore records deliveries (see
\* the MC modules, which instantiate TenureStore with this mapping).
StoreGot == [t \in 1..NumTenures |-> [i \in 1..yieldCount[t] |-> yieldBlocks[t]]]

\* Every tenure in R is eventually downloaded completely, when honest peers
\* answer and reconnect eventually and the download state machine keeps
\* ticking.
TenuresEventuallyDownloaded(R) == \A t \in R : <>(t \in completed)

=============================================================================
