----------------------- MODULE DownloadStateMachine -----------------------
(***************************************************************************)
(* NakamotoDownloadStateMachine::run_downloads with both of its modes      *)
(* (stackslib/src/net/download/nakamoto.rs): the Confirmed mode of         *)
(* DownloaderSet, and the Unconfirmed mode, in which per-peer unconfirmed  *)
(* downloaders (UnconfirmedDownloader) fetch the ongoing tenure and hand   *)
(* the downloader set a confirmed downloader for the highest complete      *)
(* tenure.  The two kinds of downloader share one NeighborRPC: a request   *)
(* of an unconfirmed downloader is recorded in `net` with slot 0.          *)
(*                                                                         *)
(* A tick in Unconfirmed mode (pc):                                        *)
(*   UBegin          update_available_tenures, make_unconfirmed_tenure_   *)
(*                   downloaders, and, when confirmed downloaders are in  *)
(*                   flight, make_tenure_downloaders with count 0;        *)
(*   RunSend, URecvConfirmed  download_confirmed_tenures, if it runs;     *)
(*   USend, URecv    run_unconfirmed_downloaders when no confirmed        *)
(*                   downloader is in flight, add_downloaders, the mode   *)
(*                   transition, and the dead-peer handling.              *)
(* The relayer stores every block handed to it and processes it once its  *)
(* parent is processed; `tip` is the node's highest processed block        *)
(* (network.stacks_tip).                                                   *)
(***************************************************************************)
EXTENDS DownloaderSet, UnconfirmedDownloader

\* Both windows exist, so the early returns of download_unconfirmed_tenures
\* for an uninitialised window are not taken.
ASSUME RCLen >= 2 /\ NumTenures > RCLen

CONSTANT
    TipLag      \* how many sortitions an honest peer's ongoing tenure may lag

ASSUME TipLag \subseteq {0, 1}

VARIABLES
    mode,       \* NakamotoDownloadState: "Confirmed" or "Unconfirmed"
    udl,        \* unconfirmed_tenure_downloads: NeighborAddress -> downloader
    usched,     \* unconfirmed_tenure_download_schedule
    tip,        \* network.stacks_tip: the highest processed block
    ustore,     \* unconfirmed blocks handed to the relayer
    procSnap    \* processed tenures as update_processed_tenures last saw them

uvars   == <<mode, udl, usched, tip, ustore, procSnap>>
allVars == <<vars, uvars>>

N == NumTenures

\* The staging database: the processed chain, the tenures run returned and
\* the unconfirmed blocks returned (a forged block is refused on storing).
Stored == {b \in Block : \/ Height(b) <= Height(tip)
                         \/ b[1] \in 1..N /\ yieldCount[b[1]] > 0}
          \cup {b \in ustore : Len(b) = 2}

\* has_any_unprocessed_nakamoto_block
HasAnyUnprocessedBlock == \E b \in Stored : Height(b) > Height(tip)

HasInvFor(rc)  == \E p \in DOMAIN inventories : rc \in DOMAIN inventories[p]
HasRcBlock(rc) == \E p \in DOMAIN tbi : \E ch \in DOMAIN tbi[p] :
                      rc \in {tbi[p][ch].startRc, tbi[p][ch].endRc}

\* have_unprocessed_tenures, with the completed tenures `comp`.
HaveUnprocessedTenures(comp) ==
    LET prev == WantedFrom(PrevRc, procSnap) IN
    \/ Len(prev) = 0
    \/ ~HasInvFor(PrevRc) \/ ~HasInvFor(CurRc)
    \/ ~HasRcBlock(PrevRc) \/ ~HasRcBlock(CurRc)
    \/ \E p \in DOMAIN tbi, i \in DOMAIN prev :
          /\ prev[i].ch \in DOMAIN tbi[p]
          /\ prev[i].ch \notin comp
          /\ ~tbi[p][prev[i].ch].processed

\* need_unconfirmed_tenures; the sortition DB is at the burnchain tip.
NeedUnconfirmedTenures(comp) ==
    LET cur == WantedFrom(CurRc, procSnap) IN
    /\ Len(cur) > 0 /\ Len(WantedFrom(PrevRc, procSnap)) > 0
    /\ ~HaveUnprocessedTenures(comp)
    /\ ~\E p \in DOMAIN tbi, i \in DOMAIN cur :
          cur[i].ch \in DOMAIN tbi[p] /\ cur[i].ch \notin comp /\ ~cur[i].processed
    /\ ~HasAnyUnprocessedBlock

\* make_unconfirmed_tenure_download_schedule: every open conversation (all
\* peers share this node's burnchain view and are outbound), in a fixed
\* order.
UnconfirmedSchedule == SelectSeq(InvOrder, LAMBDA p : p \in connected)

\* download_unconfirmed_tenures: the last wanted tenure is the ongoing one,
\* the tenure before it the highest complete one.
UnconfirmedTenure ==
    LET w == WantedOf(CurRc) IN w[Len(w)]
HighestCompleteTenureLast ==
    LET w == WantedOf(CurRc) IN w[Len(w)]
HighestCompleteTenure ==
    LET w == WantedOf(CurRc)
        p == WantedOf(PrevRc)
    IN  IF Len(w) = 1 THEN p[Len(p)] ELSE w[Len(w) - 1]

\* make_unconfirmed_tenure_downloaders.  A scheduled peer that already has
\* a downloader is neither popped nor skipped: the loop would spin.
RECURSIVE MakeUnconfirmedTenureDownloaders(_, _, _, _)
MakeUnconfirmedTenureDownloaders(sch, dl, count, hp) ==
    IF Cardinality(DOMAIN dl) >= count \/ sch = <<>>
    THEN [sched |-> sch, dl |-> dl, spin |-> FALSE]
    ELSE IF Head(sch) \in DOMAIN dl
    THEN [sched |-> sch, dl |-> dl, spin |-> TRUE]
    ELSE MakeUnconfirmedTenureDownloaders(
             Tail(sch), (Head(sch) :> NewUnconfirmed(Head(sch), hp)) @@ dl, count, hp)

\* has_downloader, and add_downloaders for the map m of new downloaders.
HasDownloader(s, p) == p \in DOMAIN s.peers /\ Live(s.slots, s.peers[p])

RECURSIVE AddDownloaders(_, _)
AddDownloaders(m, s) ==
    IF DOMAIN m = {} THEN s
    ELSE LET p    == CHOOSE x \in DOMAIN m : TRUE
             rest == [x \in DOMAIN m \ {p} |-> m[x]]
         IN  AddDownloaders(rest, IF HasDownloader(s, p) THEN s
                                  ELSE AddDownloader(s, p, m[p]))

\* One iteration of the send loop of run_unconfirmed_downloaders over
\* s = [udl, net, dead, fin], with send_next_download_request.
USendOne(p, s) ==
    LET d == s.udl[p] IN
    IF d.st = "Done" THEN [s EXCEPT !.fin = @ \cup {p}]
    ELSE IF s.net[p] # NoReq THEN s
    ELSE IF DeadOrBroken(p, s.dead) THEN [s EXCEPT !.dead = @ \cup {p}]
    ELSE [s EXCEPT !.net[p] = [slot |-> 0, st |-> d.st,
                               req |-> MakeNextDownloadRequestU(d), resp |-> NoResp]]

RECURSIVE USendLoop(_, _)
USendLoop(S, s) ==
    IF S = {} THEN s
    ELSE LET p == CHOOSE x \in S : TRUE IN USendLoop(S \ {p}, USendOne(p, s))

\* One reply of collect_replies in run_unconfirmed_downloaders, over
\* s = [udl, net, dead, fin, hcd, ub]: a reply from a peer without an
\* unconfirmed downloader is dropped; returned blocks are kept and, when the
\* downloader is done, so is its highest-complete-tenure downloader.
UApplyReply(p, s1, r) ==
    LET s2 == [s1 EXCEPT !.udl[p] = r.d]
        h  == MakeHighestCompleteTenureDownloader(r.d, HighestCompleteTenure.ch,
                                                  UnconfirmedTenure.win)
        done == r.d.st = "Done"
    IN  IF ~r.ok THEN [s2 EXCEPT !.dead = @ \cup {p}]
        ELSE IF ~r.some THEN s2
        ELSE [s2 EXCEPT !.hcd = IF h.ok /\ done THEN (p :> h.dl) @@ @ ELSE @,
                        !.ub  = @ \cup Range(r.out),
                        !.fin = IF done THEN @ \cup {p} ELSE @]

UCollectOne(p, s) ==
    LET s1 == [s EXCEPT !.net[p] = NoReq] IN
    IF p \notin DOMAIN s1.udl THEN s1
    ELSE UApplyReply(p, s1, HandleNextDownloadResponseU(s1.udl[p], s.net[p].resp,
                                                        Stored, AggKey, NoKey))

RECURSIVE UCollectLoop(_, _)
UCollectLoop(S, s) ==
    IF S = {} THEN s
    ELSE LET p == CHOOSE x \in S : TRUE IN UCollectLoop(S \ {p}, UCollectOne(p, s))

-----------------------------------------------------------------------------
(* The tick.                                                               *)

TypeOKU ==
    /\ mode \in {"Confirmed", "Unconfirmed"}
    /\ pc \in {"make", "send", "recv", "usend", "urecv", "spin"}
    /\ DOMAIN udl \subseteq Peers
    /\ \A p \in DOMAIN udl : udl[p].st \in UStates /\ udl[p].naddr = p
    /\ \A p \in DOMAIN peers : peers[p] \in DOMAIN slots
    /\ \A p \in Peers : net[p] = NoReq \/ net[p].slot \in {0} \cup DOMAIN slots
    /\ tip \in Block /\ ustore \subseteq UNION {{b, Forged(b)} : b \in Block}

InitU ==
    /\ Init
    /\ mode = "Confirmed" /\ udl = <<>> /\ usched = <<>>
    /\ tip = <<0, TenureLen[0]>> /\ ustore = {} /\ procSnap = processed

\* Confirmed mode: run_downloads' update_available_tenures and
\* download_confirmed_tenures up to its run.
CBegin ==
    /\ mode = "Confirmed" /\ BeginTick /\ procSnap' = processed
    /\ UNCHANGED <<mode, udl, usched, tip, ustore>>

CSend == RunSend /\ UNCHANGED uvars

\* Confirmed mode: the rest of the tick, then the transition to Unconfirmed
\* when the downloader set is idle and need_unconfirmed_tenures holds.
ToUnconfirmed(go) ==
    /\ mode' = IF go THEN "Unconfirmed" ELSE mode
    /\ usched' = IF go THEN UnconfirmedSchedule ELSE usched

CRecv ==
    /\ mode = "Confirmed" /\ RunCollect
    /\ ToUnconfirmed(Inflight(slots') = 0 /\ NeedUnconfirmedTenures(completed'))
    /\ UNCHANGED <<udl, tip, ustore, procSnap>>

\* Unconfirmed mode: update_available_tenures, then the start of
\* download_unconfirmed_tenures.
\* The work u of update_available_tenures, the unconfirmed downloaders m,
\* and the set mk after make_tenure_downloaders, used only if run.
UBeginWith(u, m, run, mk) ==
    /\ tbi' = u.tbi
    /\ schedule'  = IF run THEN mk.schedule ELSE u.schedule
    /\ available' = IF run THEN mk.available ELSE u.available
    /\ slots' = IF run THEN mk.slots ELSE slots
    /\ peers' = IF run THEN mk.peers ELSE peers
    /\ usched' = m.sched /\ udl' = m.dl
    /\ pc' = IF m.spin THEN "spin" ELSE IF run THEN "send" ELSE "usend"

UBeginFrom(u) ==
    UBeginWith(u, MakeUnconfirmedTenureDownloaders(usched, udl, MaxInflight, tip),
               Inflight(slots) > 0,
               MakeTenureDownloaders(slots, peers, u.schedule, u.available, u.tbi,
                                     completed, 0))

UBegin ==
    /\ pc = "make" /\ mode = "Unconfirmed"
    /\ UBeginFrom(UpdateAvailableTenures)
    /\ procSnap' = processed
    /\ UNCHANGED <<completed, tsb, net, dead, connected, downs, processed, yieldCount,
                   yieldBlocks, mode, tip, ustore, inventories>>

\* Unconfirmed mode: the collect half of download_confirmed_tenures.  The
\* unconfirmed downloaders run only if no confirmed downloader is left in
\* flight; otherwise the tick ends here.
URecvConfirmedWith(c) ==
    /\ CollectedInto(c)
    /\ IF Inflight(c.slots) > 0
       THEN /\ net' = Deregistered(c.net, c.dead) /\ dead' = {}
            /\ connected' = connected \ c.dead
            /\ pc' = "make"
       ELSE /\ net' = c.net /\ dead' = c.dead /\ pc' = "usend"
            /\ UNCHANGED connected

URecvConfirmed ==
    /\ pc = "recv" /\ mode = "Unconfirmed"
    /\ URecvConfirmedWith(ConfirmedCollect)
    /\ UNCHANGED <<schedule, available, tbi, processed, downs, inventories, uvars>>

\* run_unconfirmed_downloaders up to and including its first clearing.
USend ==
    /\ pc = "usend"
    /\ LET dl   == [p \in DOMAIN udl |-> SetHighestProcessedBlock(udl[p], tip)]
           s    == USendLoop(DOMAIN dl, [udl |-> dl, net |-> net, dead |-> dead,
                                         fin |-> {}])
           gone == {p \in DOMAIN dl : DeadOrBroken(p, s.dead)} \cup s.fin
       IN  /\ udl' = [p \in DOMAIN dl \ gone |-> s.udl[p]]
           /\ net' = s.net /\ dead' = s.dead
    /\ pc' = "urecv"
    /\ UNCHANGED <<slots, peers, completed, schedule, available, tbi, tsb, connected,
                   downs, processed, yieldCount, yieldBlocks, mode, usched, tip,
                   ustore, procSnap, inventories>>

\* run_downloads in Unconfirmed mode reconsiders the mode only when no
\* downloader of either kind is left and nothing is scheduled.
UnconfirmedDrainedEarly(sl, dl, sch) == Inflight(sl) = 0 /\ sch = <<>>
UnconfirmedDrained(sl, dl, sch) == Inflight(sl) = 0 /\ DOMAIN dl = {} /\ sch = <<>>

\* The rest of run_unconfirmed_downloaders, add_downloaders, the blocks
\* handed to the relayer, the Unconfirmed-mode transition, and take_dead.
\* The tick's end after the collect s: the downloaders kept (dl), the set
\* after add_downloaders (a), and whether run_downloads reconsiders the
\* mode (idle) and stays Unconfirmed (again).
URecvWith(s, dl, a, idle, again) ==
    /\ udl' = dl /\ slots' = a.slots /\ peers' = a.peers
    /\ ustore' = ustore \cup s.ub
    /\ mode' = IF idle /\ ~again THEN "Confirmed" ELSE mode
    /\ usched' = IF again THEN UnconfirmedSchedule ELSE usched
    /\ net' = Deregistered(s.net, s.dead) /\ dead' = {}
    /\ connected' = connected \ s.dead

URecvCollected(s, dl, a) ==
    LET idle == UnconfirmedDrained(a.slots, dl, usched) IN
    URecvWith(s, dl, a, idle, idle /\ NeedUnconfirmedTenures(completed))

URecvFrom(s) ==
    LET gone == {p \in DOMAIN s.udl : DeadOrBroken(p, s.dead)} \cup s.fin IN
    URecvCollected(s, [p \in DOMAIN s.udl \ gone |-> s.udl[p]],
                   AddDownloaders(s.hcd, [slots |-> slots, peers |-> peers]))

URecv ==
    /\ pc = "urecv"
    /\ LET ready == {p \in Peers : net[p] # NoReq /\ net[p].resp # NoResp} IN
       URecvFrom(UCollectLoop(ready, [udl |-> udl, net |-> net, dead |-> dead,
                                      fin |-> {}, hcd |-> <<>>, ub |-> {}]))
    /\ pc' = "make"
    /\ UNCHANGED <<completed, schedule, available, tbi, tsb, downs, processed,
                   yieldCount, yieldBlocks, tip, procSnap, inventories>>

TickU == CBegin \/ CSend \/ CRecv \/ UBegin \/ URecvConfirmed \/ USend \/ URecv

-----------------------------------------------------------------------------
(* The network and the relayer.                                            *)

\* What an honest peer reports as its tenure tip (handle_getinfo reports the
\* tenure of the peer's own Stacks tip): the sortition tip's tenure, or,
\* with lag 1, the one before while the new tenure's first block has not
\* reached the peer; its tip is any block of that tenure.
HonestInfos ==
    UNION {{[ch |-> x, parentCh |-> x - 1, startId |-> <<x, 1>>,
             parentStartId |-> Winner(x), tip |-> <<x, h>>,
             tipHeight |-> Height(<<x, h>>)] : h \in 1..TenureLen[x]}
           : x \in {N - l : l \in TipLag}}

\* A Byzantine peer may also name any block as its tip while claiming the
\* height of the real tip, and append a forged copy of the
\* highest block to a stream.
ByzantineUReplies ==
    {InfoResp(i) : i \in HonestInfos}
      \cup {InfoResp([i EXCEPT !.tip = b, !.tipHeight = Height(<<N, TenureLen[N]>>)])
              : i \in HonestInfos, b \in Block}
      \cup {TenureResp(<<b, Forged(<<N, TenureLen[N]>>)>>) : b \in Block}

Replies(p) ==
    IF p \in Byzantine THEN ByzantineReplies \cup ByzantineUReplies
    ELSE IF net[p].req.kind = "info" THEN {InfoResp(i) : i \in HonestInfos}
    ELSE HonestReplies(net[p].req)

DeliverU(p) ==
    /\ pc = "make"
    /\ p \in connected /\ net[p] # NoReq /\ net[p].resp = NoResp
    /\ \E r \in Replies(p) : net' = [net EXCEPT ![p].resp = r]
    /\ UNCHANGED <<slots, peers, completed, schedule, available, tbi, tsb, dead,
                   connected, downs, processed, yieldCount, yieldBlocks, pc, inventories,
                   uvars>>

BreakU(p)     == Break(p) /\ UNCHANGED uvars
SyncInventoryU(p, c) == SyncInventory(p, c) /\ UNCHANGED uvars
ReconnectU(p) == Reconnect(p) /\ UNCHANGED uvars

\* The relayer processes a whole downloaded tenure, or an unconfirmed block
\* whose parent is the processed tip.
ProcessTenureU(t) ==
    /\ ProcessTenure(t)
    /\ tip' = IF Height(tip) < Height(<<t, TenureLen[t]>>) THEN <<t, TenureLen[t]>> ELSE tip
    /\ UNCHANGED <<mode, udl, usched, ustore, procSnap>>

ProcessBlock(b) ==
    /\ b \in ustore /\ Len(b) = 2 /\ Parent(b) = tip
    /\ tip' = b
    /\ processed' = IF b[2] = TenureLen[b[1]] THEN processed \cup {b[1]} ELSE processed
    /\ UNCHANGED <<slots, peers, completed, schedule, available, tbi, tsb, net, dead,
                   connected, downs, yieldCount, yieldBlocks, pc, mode, udl, usched,
                   ustore, procSnap, inventories>>

NextU ==
    \/ TickU
    \/ \E p \in Peers : DeliverU(p) \/ BreakU(p) \/ ReconnectU(p)
    \/ \E t \in 1..N : ProcessTenureU(t)
    \/ \E b \in ustore : ProcessBlock(b)
    \/ \E x \in InvLate : SyncInventoryU(x[1], x[2])

\* As in DownloaderSet: the p2p thread calls run on every pass, honest peers
\* answer and reconnect eventually; the relayer thread keeps processing the
\* blocks handed to it.
FairnessU ==
    /\ []<><<TickU>>_allVars
    /\ WF_allVars(\E t \in 1..N : ProcessTenureU(t))
    /\ WF_allVars(\E b \in ustore : ProcessBlock(b))
    /\ \A p \in Peers \ Byzantine : SF_allVars(DeliverU(p)) /\ SF_allVars(ReconnectU(p))
    /\ \A x \in InvLate : SF_allVars(SyncInventoryU(x[1], x[2]))

SpecU == InitU /\ [][NextU]_allVars /\ FairnessU

\* DownloaderSet's view, extended by the unconfirmed state (slot 0 ranks 0).
CompactViewU == <<CompactView, uvars>>

-----------------------------------------------------------------------------
(* Properties.                                                             *)

\* make_unconfirmed_tenure_downloaders never meets a scheduled peer that
\* still has an unconfirmed downloader (it would loop forever, nakamoto.rs
\* 3271): the schedule is only rebuilt once every downloader is gone.
NeverSpins == pc # "spin"

\* An honest peer is marked dead only when its conversation has broken:
\* whatever it answers, to whichever of the two kinds of downloader holds
\* its request, is accepted.
HonestPeersNotDead == \A p \in dead \ Byzantine : p \notin connected

\* Every unconfirmed block handed to the relayer carries a valid signature
\* of the reward cycle's signers (spec section 8, invariant 4, for
\* try_accept_unconfirmed_tenure_blocks).
UnconfirmedBlocksSigned == \A b \in ustore : Verify(AggKey[RcOf(b[1])], b)

\* The highest complete tenure, which only the unconfirmed path can fetch
\* (its end block is the ongoing tenure's start block), is eventually
\* processed: the state machine leaves Confirmed mode once the confirmed
\* tenures are processed, and a highest-complete-tenure downloader is
\* handed to the downloader set and runs.
HighestCompleteProcessed == <>(N - 1 \in processed)

=============================================================================
