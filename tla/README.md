# TLA+ models of the Nakamoto block downloader

This directory models the Nakamoto block downloader, `src/stackslib/src/net/download/nakamoto.rs`. TLC checks the models. The downloader does four things:

- it works out, from peers' tenure inventories, which tenures each peer can serve;
- it fetches each tenure's start block, end block and blocks from those peers;
- it validates what it gets;
- it hands whole tenures, lowest block first, to the chain processor.

## 1. The system

Parts of the code, and how they interact:

| Part | Code | What it does |
|---|---|---|
| A. Tenure identity and availability | `TenureStartEnd::from_inventory`, `find_available_tenures`, `find_tenure_block_ids`, `make_ibd_download_schedule`, `make_rarest_first_download_schedule` | Turn sortition history and inventory bit vectors into the start and end block ids of every tenure a peer can serve, and into a download schedule. Commit-to-parent rule: the start block of the tenure at set bit i is the winner of the next set bit j, and its end block is the winner of the next set bit k after j. |
| B. Confirmed tenure downloader | `NakamotoTenureDownloader` | Per-tenure state machine: `GetStart → WaitEnd → GetEnd → GetBlocks → Done`. It fetches the start block. It then takes the end block, which is the next tenure's start block, either from a sibling downloader or directly. Last, it fetches the tenure's blocks highest first, following parent links to the start block. |
| C. Unconfirmed tenure downloader | `NakamotoUnconfirmedTenureDownloader` | Per-peer state machine `GetTenureInfo → GetTenureStartBlock → GetUnconfirmedTenureBlocks → Done`. It asks a peer for its tenure tip and fetches the ongoing tenure's start block if needed. It then streams the tenure from the peer's tip down to the start block or the node's own height. When done, it builds a confirmed downloader for the highest complete tenure (`make_highest_complete_tenure_downloader`). |
| D. Downloader set | `NakamotoTenureDownloaderSet` | Holds a vector of downloader slots and a map from peer to slot. It creates downloaders from the schedule, binds peers to slots, sends one request per peer, routes replies back, and retires finished, dead and broken downloaders. |
| E. Download state machine | `NakamotoDownloadStateMachine` | One `run` per p2p pass: `update_wanted_tenures`, `update_processed_tenures`, `update_available_tenures`, then `download_confirmed_tenures` (Confirmed mode) or `download_unconfirmed_tenures` (Unconfirmed mode). `download_confirmed_tenures` cross-feeds tenure-start blocks to downloaders waiting for them as end blocks. The mode changes through `need_unconfirmed_tenures`, which uses `have_unprocessed_tenures` and `has_any_unprocessed_nakamoto_block`. The unconfirmed path hands its highest-complete-tenure downloaders to D through `add_downloaders`. |
| F. NeighborRPC / network (not under `src/`) | spec §6 PeerFacade | One outstanding request per peer; `is_dead_or_broken`, `add_dead`, `collect_replies`; dead peers are deregistered after the tick (`do_network_block_sync_nakamoto`). |
| G. Downloader set, second version | `nakamoto/tenure_downloader_set.rs` | A later revision of D. No `mod` declaration includes it, so it is not compiled; not modelled (see §6). |
| H. Others | signer backoff, Clarity Wasm glue, peg-out parsing, tests | Not modelled; see §6. |

Hard behaviours:

- **Interleavings.** Replies, connection breaks and tenure processing happen in any order relative to the downloader's ticks.
- **Stale state across ticks.** A peer is unbound and rebound while its request is outstanding.
- **Byzantine peers.** A peer may answer with wrong, short or undecodable data.
- **Repeated scheduling.** A finished tenure is scheduled again until the chain has processed it.
- **The reward-cycle boundary in `from_inventory`.**
- **The reward-cycle rollover of the wanted-tenure window.** `update_wanted_tenures` crosses a boundary only once the previous window is done, inventories of both cycles are in, and `tenure_block_ids` is not stale (it has a record in each of the two cycles). It runs several times per burn block, so the same tip is seen by repeated ticks.
- **Two kinds of downloader on one `NeighborRPC`.** Replies to unconfirmed requests may be collected by the confirmed half of a tick, and the reverse.
- **Mode changes.** These are decided on a staging database that the relayer updates concurrently.

## 2. Modules

| Module | Models | State and actions |
|---|---|---|
| `TenureInventory` | A | Pure operators. `FromInventory` follows from_inventory's two loops (`FirstLoop`, `SecondLoop`, `NextBit` is the bit scan). `FindAvailableTenures`, `IbdSchedule`, `RarestFirstSchedule`. |
| `TenureDownloader` | B | The chain abstraction: block `<<t, k>>` is block k of tenure t, and `<<t, 1>>` is its start block. A key is valid for a block iff it is the key of the block's reward cycle. One operator per method: `TryAcceptTenureStartBlock`, `TryAcceptTenureEndBlock`, `TryAcceptTenureBlocks`, `HandleNextDownloadResponse`, and so on. Each returns `[d, ok, out]`: the downloader afterwards, Ok or Err, and the blocks yielded. |
| `DownloaderSet` | D, E (Confirmed mode), F | Variables: `slots` (the downloaders vector), `peers`, `completed`, `schedule`, `available`, `tbi`, `tsb`, `net` (each peer's outstanding request and its reply), `dead`, `connected`, `processed`, `pc`, and `inventories` (`inv_state_nakamoto.inventories`, the map the tick reads). Actions: see below. `SyncInventory(p, c)` is the inventory state machine, which is not under src/. Between two ticks it adds peer p's inventory of cycle c, one of the pairs in `InvLate`. |
| `TenureStore` | what D and E promise | The abstract specification. `got[t]` is the sequence of deliveries of tenure t, and `processed` is the chain state. `Deliver(T)` hands over a set of tenures that have not arrived before, each as `Content(t)`. `Process(t)` needs the tenure delivered and its parent processed. `Spec` adds weak fairness of the arrival of each tenure in `Deliverable`. |
| `UnconfirmedDownloader` | C | Extends `TenureDownloader`. A tenure tip is a record `[ch, parentCh, startId, parentStartId, tip, tipHeight]`. One operator per method: `TryAcceptTenureInfo` (including the early-out when the node is at or past the peer's tip), `TryAcceptUnconfirmedTenureStartBlock`, `TryAcceptUnconfirmedTenureBlocks` (its checking loop is `UScan`), `MakeHighestCompleteTenureDownloader`, `HandleNextDownloadResponseU`. Each returns `[d, ok, some, out]`. |
| `DownloadStateMachine` | C, D, E (both modes), F | Extends `DownloaderSet` and `UnconfirmedDownloader` with `mode`, `udl` (`unconfirmed_tenure_downloads`), `usched` (its schedule), `tip` (`network.stacks_tip`), `ustore` (unconfirmed blocks handed to the relayer) and `procSnap`. Actions: see below. |
| `MCDownloadStateMachine` | | Two chains: five sortitions in cycles of three with tenures 4 and 5 of two blocks, and a short chain of four sortitions in cycles of two with tenures 3 and 4 of two blocks. Two peers. |
| `MCTenureInventory` | | Checks `FromInventory` against the commit-to-parent rule over all 512 inputs of a 4+3 sortition history. |
| `MCDownloaderSet` | | Five sortitions in cycles of three; tenures 1 and 3 have two blocks; two peers. |
| `MCDownloaderSmall` | | Four sortitions in cycles of three; tenure 1 has two blocks; two peers. Used by two cfgs. |
| `WantedTenures` | E (window), composed with A | Extends `TenureInventory`. Variables: `tip` (`network.burnchain_tip`), `lastTip` (`last_sort_tip`), `wanted`, `prevWanted` (`None` or a sequence), `rewardCycle`, `invs` (an honest peer's inventory: reward cycle to its set bits) and `tbi` (that peer's `tenure_block_ids`). A tenure is the burn height of its sortition. The chain is honest: tenure h builds on h - 1, and the winning commit of sortition h names block h - 1, tenure h - 1's start block (`WantedTenureAt`). One operator per method: `LoadWantedTenures`, `UpdateWantedTenuresForRewardCycle`, `LoadWantedTenuresAtTip`, `InitializeWantedTenures`, `ExtendWantedTenures` (append, or repartition the window by cycle), `HaveUnprocessedTenures` (with the stale-ids check `HasRcBlock`), `UpdateWantedTenures` (extend, wait, or cross the boundary), `UpdateAvailableTenures`. `AvailableTenureBlockIds` is `find_tenure_block_ids` (`FindTenureBlockIdsOf`) over `prev_wanted_tenures` at `reward_cycle - 1` and over `wanted_tenures` at `reward_cycle`, each through `FromInventory`, with the first result overriding. Actions: `Run(unproc, drained)` (one `run`: the window, then `update_available_tenures`, then `last_sort_tip`), `NewBurnBlock`, `SyncInventory(c)`. The downloads are not modelled: `drained` (the schedule ran out, so the ids are recomputed) and `unproc` (some tenure of the previous window is not yet downloaded or processed) are chosen freely at every tick. |
| `MCWantedTenures` | | Cycles of three heights, the downloader created at tip 7, the tip growing to 12. |

**Refinement.** `MCDownloaderSet` and `MCDownloaderSmall` instantiate `TenureStore` with `got <- StoreGot`, `processed <- processed` and `Content <- GenuineTenure`. `StoreGot` turns the caller's record of what `run` returned (`yieldCount`, `yieldBlocks`) into a sequence of deliveries per tenure. A tenure returned twice therefore maps to a sequence of length 2, which no abstract step makes. A wrong tenure maps to a delivery other than `Content(t)`. `Deliverable` is the set of tenures `from_inventory` schedules. `DownloadStateMachine` is not shown to refine `TenureStore`: `ProcessBlock` processes unconfirmed blocks that were never delivered as a tenure, and `highest_twice` shows that a tenure can be returned twice.

`DownloaderSet` actions:

- One `run` of the state machine in Confirmed mode is one `Tick`, split into three steps by `pc`. Every step models a whole phase of the code:
  1. `BeginTick`: `update_processed_tenures`, `update_available_tenures` and `make_tenure_downloaders`, including its clearing calls.
  2. `RunSend`: the send loop of `NakamotoTenureDownloaderSet::run`, including `send_next_download_request`, and the first clearing of dead, broken and done downloaders.
  3. `RunCollect`: the collect loop and second clearing, then `find_new_tenure_start_blocks` and `handle_tenure_end_blocks`, then the deregistration of dead peers.
- The network acts between ticks:
  - `Deliver(p)`: a peer answers its outstanding request.
  - `Break(p)`: a conversation closes and the request is lost.
  - `Reconnect(p)`: a conversation is (re)opened.
- `ProcessTenure(t)`: the relayer processes a downloaded tenure after its parent. It may happen at any time.

Spec §5 says the tick is single-threaded and cooperative: replies are collected in bulk and nothing interrupts a tick. This is why network actions are allowed only while `pc = "make"`.

`DownloadStateMachine` actions. In Confirmed mode a tick is `CBegin`, `CSend` and `CRecv`. These are `DownloaderSet`'s three steps, and `CRecv` adds the switch to Unconfirmed mode when the set is idle and `need_unconfirmed_tenures` holds. In Unconfirmed mode a tick is:

1. `UBegin`: `update_available_tenures` and `make_unconfirmed_tenure_downloaders`, plus `make_tenure_downloaders` with count 0 when confirmed downloaders are in flight. If the schedule's head already has a downloader, the code's loop never ends; the model records this as `pc = "spin"`.
2. `CSend` and `URecvConfirmed`: `download_confirmed_tenures`, if confirmed downloaders are in flight. If any are still in flight afterwards, the tick ends.
3. `USend` and `URecv`: `run_unconfirmed_downloaders`, `add_downloaders`, and the switch back to Confirmed mode. `URecv` also stores the unconfirmed blocks and deregisters dead peers.

The network actions are `DeliverU`, `BreakU` and `ReconnectU`. An honest peer answers a tenure-info request with its tenure tip (`HonestInfos`). With `TipLag = {0, 1}`, that tip may be the previous tenure. The relayer has two actions:

- `ProcessTenureU(t)` processes a downloaded tenure.
- `ProcessBlock(b)` processes a stored unconfirmed block whose parent is the tip.

`need_unconfirmed_tenures` is evaluated before the tick's blocks are processed, as in the code.

`WantedTenures` actions. `Run(unproc)` is `update_wanted_tenures` followed by the `last_sort_tip` update of `run`; the downloads in between are not part of this module. `unproc` is what `have_unprocessed_tenures` learns from `tenure_block_ids` and `completed_tenures` once inventories of the previous window's cycle and the next are in; it is an input of each tick, and its other cases (no window, an inventory missing) are computed. `NewBurnBlock` moves the tip up one height, any number of times between ticks. `SyncInventory(c)` receives the peer's inventory of a started cycle c: the cycle's heights up to the current tip (`HonestBits`). It is received again once new burn blocks change it.

Honest and Byzantine peers:

- An honest peer answers a block request with that block. It answers a tenure request with a genuine run of one or more blocks ending at the requested block (`HonestReplies`).
- A Byzantine peer may send any block, any single block or parent-linked pair as a stream, an empty stream, or garbage (`ByzantineReplies`).
- Block ids are header hashes, so no peer can send a different block under an id.

## 3. Runs

| Run | cfg | Checks | Result |
|---|---|---|---|
| `from_inventory` | `MCTenureInventory.cfg` | `FromInventoryCorrect` | pass, 512 states |
| `downloader_honest` | `MCDownloaderSet.cfg` | `TypeOK`, `ReplyRoutedToSender`, `PeerBindingSound`, `OneDownloaderPerTenure`, `StoreRefined` | pass, 6831 states |
| `downloader_flaky` | `MCDownloaderFlaky.cfg` | `ReplyRoutedToSender`, `PeerBindingSound`, `OneDownloaderPerTenure`, `SmallStoreRefined`, with one break per peer and rarest-first scheduling | pass, 10508 states |
| `downloader_byzantine` | `MCDownloaderByzantine.cfg` | `StoreSafety`, with peer p2 Byzantine | pass, 7484 states |
| `unconfirmed_honest` | `MCDownloadStateMachine.cfg` | `TypeOKU`, `YieldCorrect`, `PeerBindingSound`, `NeverSpins`, `HonestPeersNotDead`, `HighestCompleteProcessed` | pass, 103896 states |
| `unconfirmed_flaky` | `MCUnconfirmedFlaky.cfg` | `PeerBindingSound`, `NeverSpins`, `HonestPeersNotDead`, on the short chain with one break per peer | pass, 386637 states |
| `lagging_peer` | `MCLaggingPeer.cfg` | `HonestPeersNotDead`, with honest tips one tenure behind | violation (finding) |
| `highest_twice` | `MCHighestTwice.cfg` | `YieldedAtMostOnce` on the whole state machine | violation (finding) |
| `forged_tail` | `MCForgedTail.cfg` | `UnconfirmedBlocksSigned`, short chain, p2 Byzantine | violation (finding) |
| `stuck_confirmed` | `MCStuckConfirmed.cfg` | `HighestCompleteProcessed`, short chain, one break per peer | violation (finding) |
| `wanted_tenures` | `MCWantedTenures.cfg` | `TypeOK`, `WindowsContiguous` | pass, 7890 states |
| `wanted_window` | `MCTenureIdsGenuine.cfg` | `TenureIdsGenuine` | violation (finding) |

What the properties say:

- **`FromInventoryCorrect`**: from_inventory's two loops, and their hand-over at the reward-cycle boundary, compute the commit-to-parent rule of spec §3 exactly. This includes the `fetch_end_block` flags.
- **`StoreRefined`, `SmallStoreRefined`**: the confirmed download path implements `TenureStore`. Every tenure `run` returns is the whole tenure, lowest block first. No tenure is returned twice: a finished tenure is scheduled again until the relayer processes it, and `completed_tenures` must catch that. Every tenure that `from_inventory` can place is eventually returned, across broken connections in the flaky run. In the honest run both peers' inventories of the first cycle arrive only after the first ticks. At first only the current cycle's tenures are available; neither is schedulable, because tenure 4's end lies past the tip and tenure 5 is the tip. Tenures 1–3 must therefore be found when `update_available_tenures` recomputes, after the old neighbor lists run out (`nakamoto.rs:2984`). A recompute that kept the tenure block ids found earlier would never schedule them.
- **`StoreSafety`**: the safety half of `TenureStore` (`SafeSpec`), with a Byzantine peer.
- **`YieldCorrect`**: every tenure `run` returns is the whole tenure, lowest block first; checked on the whole state machine.
- **`YieldedAtMostOnce`**: no tenure is returned twice; its violation on the whole state machine is a finding.
- **`ReplyRoutedToSender`**: while a request of peer p is outstanding, p stays bound to the slot that sent it, and that slot stays in the state it sent from.
- **`PeerBindingSound`**: a bound peer names a live downloader it drives, and no two peers share one (spec §8 invariants 1 and 2).
- **`OneDownloaderPerTenure`**: no two live downloaders fetch the same tenure. `add_downloader` pushes a slot for every unbound peer, and clearing only nulls slots, so the vector grows without bound (`nakamoto.rs:1643`). This property shows that the live work stays one downloader per tenure. `has_downloader_for_tenure` must count idle and waiting downloaders whose peers were unbound. The property is not checked on the whole state machine: there the unconfirmed path adds a second downloader for the highest complete tenure, which is the cause of `highest_twice`.
- **`NeverSpins`**: `make_unconfirmed_tenure_downloaders` never meets a scheduled peer that still has a downloader. The schedule is rebuilt only after every downloader is gone.
- **`HonestPeersNotDead`**: an honest peer is marked dead only if its conversation broke. This covers replies to either kind of downloader.
- **`UnconfirmedBlocksSigned`**: every unconfirmed block handed to the relayer is signed by its reward cycle's key (spec §8 invariant 4).
- **`HighestCompleteProcessed`**: the highest complete tenure, which only the unconfirmed path can fetch, is eventually processed.
- **`TypeOK`** (window): each window holds only burn heights the current tip has reached, `last_sort_tip` is the tip of an earlier tick, and `tenure_block_ids` names only tenures of those heights.
- **`WindowsContiguous`**: `wanted_tenures` and `prev_wanted_tenures` each hold consecutive burn heights in increasing order. The window is built over many ticks from `load_wanted_tenures_at_tip` appends (each starting after the last tenure already loaded, or after `last_sort_tip`), `initialize_wanted_tenures` reloads, repartitions and crossings; a repeated height would get two downloaders and a skipped one none.
- **`TenureIdsGenuine`**: after every tick, each tenure id record that `update_available_tenures` derives from the window and an honest peer's inventory names the tenure's own start block, and the next tenure's start block as its end block. `find_available_tenures` and `from_inventory` read entry i of a window against bit i of the inventory of `reward_cycle` (for `wanted_tenures`) or `reward_cycle - 1` (for `prev_wanted_tenures`). The property therefore fails if the window and `reward_cycle` disagree. Its violation is a finding.

Each property of a passing run has a mutant in `PROJECT.json` that TLC catches. Each mutant stands for a plausible bug:

- `Vec::remove` instead of nulling a slot;
- a missing `.rev()`;
- ignoring `completed_tenures`;
- `try_resume_peer` ignoring an existing binding;
- `try_resume_peer` ignoring `naddr`;
- a stream checked without its first block being the cursor;
- a reply that leaves the downloader busy;
- the end-block search starting at `n` instead of `n + 1`;
- rebuilding the unconfirmed schedule while downloaders remain;
- swapping the start and end blocks of the highest-complete downloader;
- taking the ongoing tenure as the highest complete one;
- `load_wanted_tenures_at_tip` starting after `last_sort_tip` instead of after the tenures already loaded, or reading one height past the tip.

**Finding: lagging honest peer** (`lagging_peer`). `make_highest_complete_tenure_downloader` takes the highest complete tenure and its start block from the node's own wanted tenures. It takes the end block from the peer's tenure tip (`nakamoto.rs:1105`). The comment at line 671 says that tip may lag the sortition tip. For an honest peer one tenure behind, the end block is the highest complete tenure's own start block. `try_accept_tenure_end_block` rejects it (line 330), and the honest peer is marked dead and deregistered.

**Finding: highest complete tenure yielded twice** (`highest_twice`). `add_downloaders` skips only peers that already have a downloader (`nakamoto.rs:1670`). It checks neither `completed_tenures` nor whether a downloader for the tenure exists. Each peer whose unconfirmed downloader finishes adds a downloader for the same tenure, and `run` returns the tenure once per peer. Spec §5 and §8 say a completed tenure is never yielded again.

**Finding: forged block after a low block** (`forged_tail`). `try_accept_unconfirmed_tenure_blocks` stops its checks at the first block below the node's height (lines 1003–1007). It then appends the whole reply (line 1015) and returns the blocks above the node's height (line 1029). A Byzantine peer can put a forged block after a genuine low block, and the forged block is handed to the relayer unverified. In TLC's trace the peer answers the stream request with `[<<3,2>>, forged <<4,2>>]` once the node's tip is `<<4,1>>`.

**Finding: stuck in Confirmed mode** (`stuck_confirmed`). Suppose an unconfirmed block of the ongoing tenure is stored before its parent tenure, and the highest-complete downloader for that parent is then lost to a broken connection. `has_any_unprocessed_nakamoto_block` stays true (`nakamoto.rs:3212`), so the machine never re-enters Unconfirmed mode. Confirmed mode never schedules the parent, because no inventory has its end block, so nothing is fetched until the next sortition. This assumes the staging database stores a block whose parent is missing (spec §6).

**Finding: the window is read one reward cycle early after a rollover** (`wanted_window`). When `update_wanted_tenures` crosses a boundary, it loads `prev_wanted_tenures` from cycle `sort_rc` and `wanted_tenures` from `sort_rc + 1`. It then sets `reward_cycle = sort_rc` (`nakamoto.rs:2819`). `update_available_tenures` reads `wanted_tenures` against the inventories of `reward_cycle`, and `prev_wanted_tenures` against those of `reward_cycle - 1`. The comment on `initialize_wanted_tenures`, and spec §3 and §4.E, say each window lines up bit for bit with its own cycle's inventory. When the tip moves past the boundary, the next tick's `extend_wanted_tenures` repartitions the window and repairs it. When the tip is a cycle's last height, the crossing loads an empty `wanted_tenures` for the next cycle. TLC's trace, in cycles of three: tip 8, inventories of cycles 1 and 2; the first tick crosses to prev = heights 6–8, wanted = empty, `reward_cycle` = 2. The second tick's `initialize_wanted_tenures` reloads wanted with heights 6–8, so both windows hold cycle 2. On the crossing tick itself `update_available_tenures` finds `wanted_tenures` empty and computes nothing, so the wrong ids appear one tick later. The state is never repaired. `have_unprocessed_tenures` (lines 2655–2683) treats `tenure_block_ids` as stale unless it has a record in the cycle after `prev_wanted_tenures`, and the ids computed from two windows of cycle 2 read against cycles 1 and 2 have none in cycle 3. Every later crossing is refused, so the window stays on cycle 2 and later sortitions are never wanted: TLC finds `[]<>(the tip is in wanted_tenures)` violated, with `wanted_tenures` stuck at heights 6–8 while the tip is 11. Tenures 6–8 are looked up in the cycle-1 bits, with the same heights also passed as the next window. `from_inventory` then gives tenure 8 the start block of tenure 5 as its start block and tenure 6's start block as its end block. It gives tenure 7 tenure 5's start block as its end block. The start reward cycle it records for tenure 8 is cycle 1, which is where block 5 really is. `try_accept_tenure_start_block` checks only that the block has the id it was given and a valid signature, so the downloads that follow may fetch tenure 5's blocks under tenure 8's consensus hash. The window modules do not include the downloads, so that consequence is not checked here.

**Not a run: a window that skips a cycle.** `run` sets `last_sort_tip` to the tip on every tick (`nakamoto.rs:3757`), also when the crossing was refused. If the tip passes the end of the next cycle before a crossing is allowed, the next crossing takes `sort_rc` from the new tip and replaces both windows. TLC shows this with the tip moving from 7 to 11 over one refused tick: `wanted_tenures` = heights 6–7 is replaced by `prev_wanted_tenures` = 9–11 and an empty `wanted_tenures`, so tenures 6–8 are never downloaded by this path. It is listed as a hazard; with real cycle lengths it needs a crossing to be refused for most of a cycle.

**Assumed: inventories are one snapshot.** `SyncInventory` takes cycle c only when the cycles below it are current. An older cycle's inventory synced before the tip moved, read next to a newer one, makes `from_inventory` take an unset bit for a height without a tenure and pair tenures with the wrong end block. The inventory sync is not under `src/`; this is listed as a hazard.

**Not a run: empty tenure streams.** `try_accept_tenure_blocks` returns `Ok(None)` for an empty list (`nakamoto.rs:372`). The peer is therefore not marked dead, and the downloader stays in `GetBlocks`. Spec §4.B requires `list[0]` to be the cursor, and §7 says an invalid message marks the peer dead. A peer that always answers with an empty list keeps the tenure's only downloader alive forever. The safety half still holds under such a peer (`downloader_byzantine`); only progress on that tenure is lost. It is kept as a hazard.

**Not checked: the early-out of `try_accept_tenure_info`.** This early-out goes to `Done` without keys, so no highest-complete downloader can be made (line 775). Spec S5 says one is. The node is then already at the peer's tip, so no property of the download outcome distinguishes the two.

**Slot growth.** `add_downloader` pushes a new slot for every unbound peer (`nakamoto.rs:1643`), and slots are only ever nulled. While a scheduled peer is unreachable, the vector grows by one every tick. The model keeps this behaviour. The cfgs use `VIEW CompactView`, which drops unreferenced null slots while keeping the order of the rest. Slot indices are only compared for equality and iteration order, so the view loses nothing TLC checks.

## 4. Bounds and why they are enough

- **Two reward cycles.**
  - Five sortitions with three per cycle put tenures 1–3 in `prev_wanted_tenures` and 4–5 in `wanted_tenures`. Both of from_inventory's loops then run, and tenures 2 and 3 have their start or end block in the next cycle.
  - Tenures of one and two blocks make tenure streams arrive in one or two replies, which exercises the cursor and the length check.
  - Tenure 1 is the last one found inside the previous cycle, so it gets `fetch_end_block` by rule 5.
- **Unconfirmed mode.**
  - Unconfirmed mode needs an available tenure in the current reward cycle (`have_unprocessed_tenures`). The main chain therefore has five sortitions in cycles of three. The short chain has four in cycles of two and keeps the flaky and Byzantine runs under five minutes.
  - A two-block ongoing tenure lets a stream stop below the node's height, which the forged-tail case needs.
  - `TipLag = {0, 1}` lets honest peers report the previous tenure.
- **Two peers.** Two peers are the fewest that can compete for slots, rebind, and cross-feed start blocks.
- **`MaxInflight = 2`.** The loop of `make_tenure_downloaders` then stops with work left.
- **`MaxDowns = 1`.** Each peer can lose its connection once, with or without an outstanding request, at any point between ticks.
- **The window.** Cycles of three heights, the downloader created at tip 7 (cycle 2) and the tip growing to 12 (cycle 4). The window then crosses two boundaries: 8→9 with the tip on a cycle's last height and 11→12. The tip may also jump past a boundary between two ticks. Inventories of cycles 0–4 arrive, lowest cycle first, and are received again as the tip grows. `unproc` and `drained` take both values at every tick. Three heights per cycle is the fewest with a first, a middle and a last height, and the tip reaches the last height of cycle 3 (11), where both the misaligned window and the cycle skip happen.
- **Inventories.** The from_inventory check enumerates every inventory of a 4+3 history. In the downloader runs every peer advertises every tenure. Some of those inventories arrive late:
  - in `downloader_honest`, both peers' inventories of cycle 1;
  - in `unconfirmed_honest`, p2's inventory of cycle 2.

  The other runs start with every inventory. An inventory arrives whole; bits that a peer later sets in an inventory it already sent are not modelled.

## 5. Fairness

- **`Tick`.** The p2p thread calls `run` on every pass. `Tick` is enabled in every state and always changes `pc`, so its weak fairness is stated as `[]<><<Tick>>_vars`. The stronger-looking form is not used because TLC would evaluate `ENABLED` over the whole `make_tenure_downloaders` recursion.
- **`Deliver(p)` and `Reconnect(p)`, for honest peers.** An honest peer that is asked again and again eventually answers, and an honest peer eventually reconnects. Both actions are enabled only between ticks, so the fairness is strong (`SF`).
- **`SyncInventory`.** The inventory state machine runs on the same thread between passes, and it keeps asking a peer until it has that peer's inventory. It is enabled only between ticks, so its fairness is strong.
- **The relayer.** `ProcessTenureU` and `ProcessBlock` are weakly fair: the relayer thread keeps processing what it was handed.
- **Byzantine peers.** They get no fairness.
- **`WantedTenures`.** Its run checks safety only, so it assumes no fairness. A liveness property of the window (the tip is eventually wanted, under weak fairness of `Run(FALSE, TRUE)` and of the inventory sync) does not hold in this code; see the `wanted_window` finding.
- **`TenureStore`.** The abstract `Spec` is weakly fair in the arrival of each tenure in `Deliverable`: a deliverable tenure that has not arrived stays deliverable, so this says that it arrives. The abstract relayer gets no fairness, because the concrete `ProcessTenure` has none. The byzantine run checks only `SafeSpec`, because a Byzantine peer may hold a tenure's only downloader forever with empty streams (see §3).

## 6. Not modelled, and the plan

Not modelled yet, with the reason:

- **E: the window composed with the downloads.** `WantedTenures` models `update_wanted_tenures` and the rollover on its own. In `DownloaderSet` and `DownloadStateMachine` the window is fixed, and the sortition DB is at the burnchain tip; inventories can arrive late, but only for the two cycles of the window. Composing the two would multiply the download state spaces by the window's. `update_tenure_start_blocks` is a cache of start blocks and is not modelled. In `WantedTenures` a tenure is a burn height: every burn block has a sortition, and the chain does not reorganise.
- **C: sortition forks.** Every sortition is canonical, so the fork checks of `try_accept_tenure_info` reduce to checking that consensus hashes name sortitions.
- **G: the second version of the downloader set.** `nakamoto/tenure_downloader_set.rs` is not included by any `mod` declaration, so no build of this tree contains it. Its `run` also calls `send_next_download_request` as returning `Result<bool>`, while this tree's downloader returns `Result<Option<bool>>`.
- **H: no model.**
  - `retry_with_exponential_backoff` delegates its state to the backoff crate.
  - `clarity_wasm.rs` and `peg_out_request.rs` are data conversion with no protocol state.
  - The tests are drivers.

Plan for later work:

1. Compose `WantedTenures` with `DownloaderSet` on a chain that crosses a boundary, to check what the misaligned window does to the downloads.
2. Add Byzantine unconfirmed peers that lie about the parent tenure (`parentCh` and `parentStartId`).
