# clob-rs, specified

TLA+ specifications of clob-rs, a central limit order book in Rust: the
matching engine, its book, its risk gateway and its fees, its market data
channels, its journal and its snapshots down to their bytes. TLC checks them on
small instances; TLAPS proves for every instance that the matching engine, its
sums, limits and fees are safe, that the slab's lists are the queues the book
takes them for, and that the journal and the snapshot are a durable log. Source references are to
`src/src/` of the repository (`engine.rs:229` is `src/src/engine.rs`, line 229).

## 1. The system

### 1.1 Components

| Component | Source | State | Operations |
|---|---|---|---|
| Commands, events, types | `types.rs`, `order.rs`, `output.rs`, `error.rs` | none | constructors of orders and commands |
| Clob, sequencer | `clob.rs`, `sequencer.rs` | `seq`, `next_order_id` | `submit_into`, `capture`, `from_snapshot` |
| Gateway and risk | `gateway.rs`, `risk.rs` | the configuration | structural and risk validation of a command |
| Matching engine | `engine.rs`, `book/matching.rs` | last trade price, dormant stops | new, cancel, modify; `settle`; `drive_stops` |
| Stop book | `stops.rs` | list of dormant stops | insert, cancel, take the oldest triggered one |
| Order book | `book/mod.rs` | two maps of levels, index, reserves, accounts | insert, cancel, reduce, detach, match; depth queries |
| Slab and level lists | `slab.rs` | nodes, free list, head and tail of each level | alloc, dealloc, link_back, unlink |
| Accounts | `book/accounts.rs` | net position and open volume by account | add_open, sub_open, fill |
| L2 feed | `marketdata.rs` | quantity by level, level by order | `apply`, `from_book` |
| L3 feed | `l3feed.rs` | queue by level, level by order | `apply`, `from_book` |
| Trade tape | `tape.rs` | the last prints | `apply` |
| Journal | `wal.rs` | a file of frames, an open handle, the block not yet written | append, commit, rotate, read |
| Snapshot | `snapshot.rs` | a file | write, read |
| Persistent clob | `persist.rs` | the two files and a clob | open, submit, submit_batch, checkpoint |
| Record format | `journal.rs`, `codec.rs` | none | encode, decode |
| Fees | `fees.rs` | the schedule | fee of a trade |
| Examples | `examples/*.rs` | none | drivers |

### 1.2 How they interact

A caller owns a `Clob` and calls `submit_into` with a command and an event
buffer. The sequencer numbers the command; the gateway checks its structure and,
if risk checks are on, reads positions, open volume and the middle of the book
for them; the engine executes it and fills the buffer. A new order is parked as
a stop, refused by its execution condition (FOK, post-only), or matched, maker
by maker, until it is filled, rests, or has its remainder canceled. Trades move
the last trade price, and then stops are activated one at a time, each through
the same matching, until no stop is triggered.

The book, the accounts and the slab are driven only by the engine, synchronously.
The feeds and the tape are driven by the owner of the `Clob` after each call:
they get the events, of one command or of a batch, and, except the tape, read the
book as it is after the call. Their updates go to consumers that start from a
snapshot and tell by its number which updates it has. `PersistentClob` writes
the commands of a call as one frame, syncs it, and executes them after that;
`checkpoint` renames a snapshot into place and then a fresh journal segment whose
header says how far the snapshot is; `open` loads the snapshot and replays what
the journal has beyond it.

### 1.3 What is hard here

The library is sequential: no lock, no thread, no callback. What a test hardly
reaches is of five kinds.

- *Long sequences of legal calls.* One call may consist of many trades, refills,
  self-trade cancels and stop activations. Levels, index, reserves, cached
  aggregates and open volume are changed in six places of the code and must
  agree after each of them.
- *Derived state that is kept, not computed.* Level aggregates, open volume,
  and the feeds' maps from orders to levels. A stale one is not noticed where it
  goes wrong: open volume, for one, is released with a saturating subtraction.
- *Order.* Time priority through refills and amendments; the order of events,
  which is all a client has; the order in which the L3 feed compares levels.
- *Crashes and failures.* Between a write and its sync, between the two renames
  of a checkpoint, between the creation of the journal and its header; restarts
  that append to what a crash has left, whose bytes are then read as lengths and
  checksums of something else; commits that fail in a process that goes on.

- *Numbers at an edge.* Short last peaks, truncated fees and rebates, grids, the
  last bits of a varint, the sign of a position.

`PROJECT.json` lists the hazards with their lines and the properties for each.

### 1.4 What makes each component correct

- *Book*: index and queues agree; no empty level and no empty order; aggregates
  are sums; no bid at or above an ask; nobody loses time priority but by a refill
  of one's own. *Slab*: the lists are those queues, no slot leaks.
- *Engine*: FOK is all or nothing; post-only never takes; nobody trades past a
  better price; a call ends, and then no dormant stop is triggered; an order has
  one home; icebergs keep their peak.
- *Accounts and gateway*: open volume is what rests, positions cancel out, the
  position limit holds whatever fills, but for stops, everything stays on the grid.
- *Events and fees*: a client that has only the events knows the book, and what
  an order pays does not depend on how it was split, but for the rounding.
- *Feeds*: they equal what a restart would seed from the book; a consumer that
  joins at any time has the queues; the tape ends at the last trade.
- *Persistence*: a restart rebuilds the state that was acknowledged, exactly, and
  of a batch all or nothing; what is read back is what was written.

## 2. The modules

```
ClobTypes <- OrderBook <- Gateway, Fees <- MatchingEngine <- EngineProperties
                                             |- MCEngine <- IcebergPeak
                                             |- EventLedger   (MCLedger)
                                             |- RiskHistory   (MCRisk)
                                             |- MarketData    (MCFeeds)
                                             `- Snapshot      (MCSnapshot)
ClobTypes, Codec <- SnapshotFile <- Snapshot
ClobTypes, Codec, Frames <- JournalFile   (MCJournal)
Frames <- PersistentClob ~> DurableLog         Slab ~> LevelQueues

EngineProperties <- EngineProofs
EngineProofs, RiskHistory, Sums <- VolumeProofs
VolumeProofs, EventLedger <- LedgerProofs
VolumeProofs, MarketData <- FeedProofs <- L3Proofs
Slab, Sums <- SlabProofs          PersistentClob, Sums <- PersistentProofs
```

`A <- B`: B extends A. `A ~> B`: A implements B. The MC modules hold the menus of
orders and amendments of the runs that instantiate them.

**ClobTypes** has the orders with their constructors, commands and events. The
timestamp (always equal to `seq`) is not in the events.

**Fees** is `FeeConfig`: a rate in parts of a million on the notional, truncated
toward zero and clamped to 64 bits. The scale and the clamp are constants, so
that small instances round. The saturation of the 128-bit products is not seen
behind the clamp.

**OrderBook** has `levels` (side, price -> aggregate and queue), `resting` (the
index and the slab's orders as one map), `reserves` and `accounts`, and one
operator for each way the code changes them: `Insert`, `CancelResting`, `Reduce`,
`Detach`, and `FillHead`, which is `FillPart`, `FillAndRefill` or `FillAndRemove`.
Prices and quantities are naturals; a queue is a sequence of ids, which module
Slab justifies.

**Gateway** is `validate_risk`: `Structural`, then `RiskNew` or `RiskModify`, with
the verdict that each early return gives, in the order of the code.

**MatchingEngine** is `submit_into` with everything it runs. A call is taken apart
at its loops; `phase` says where it stands:

```
idle --Submit--> match --a maker a step, then the tail of settle--> stops
     stops --one triggered stop a step, back through match--> done --Deliver--> idle
```

| Action | Code |
|---|---|
| `RejectCommand` | the gateway's verdict, `clob.rs:51-63` |
| `ParkStop`, `RefuseOrder`, `AcceptOrder` | `execute_new` |
| `CancelInBook`, `CancelStop`, `CancelUnknown` | `execute_cancel` |
| `ModifyUnknown`, `ModifyInPlace`, `ModifyReplace` | `execute_modify` |
| `TradeWithHead`, `CancelMaker`, `CancelTaker`, `CancelBoth` | one iteration of `match_against`: a trade or one of the self-trade modes |
| `FinishFilled`, `RestRemainder`, `CancelRemainder` | the tail of `settle` |
| `ActivateStop`, `RefuseStop`, `StopsSettled` | one iteration of `drive_stops`, and its end |
| `Deliver` | the return of `submit` |

Intermediate states of a call are not visible to a caller; they are in the model
because the code's own decisions are taken in them. The invariants are checked
there too, except where a property says `phase = "idle"`.

**EngineProperties** states what must hold. **EventLedger** adds a client that
keeps what is open of each order from commands and events alone, and adds up its
fees. **RiskHistory** adds the volume of the stops that were activated, by account
and side: these are in no open volume while they are dormant and are not checked
again, and `WithinPositionLimit` says that an account gets past its limit by them
and by nothing else. **IcebergPeak** adds a record of the peaks icebergs were
placed with.

**MarketData** adds the feeds. `Publish` is the return of a call and the three
`apply` together; `NextOfBatch` is a command of `submit_batch` that is not the
last, whose events wait in `backlog`: the feeds see them with the book as the
later commands left it. In the L3 feed the order of the comparison matters and is
kept: bids before asks, best price first, one shared map of locations (`L3Diffed`
takes one touched level after the other to `DiffLevel`). An update carries the number of the first command
of its call (`CommandSeq`). It goes through `channel` to a consumer, `mirror`,
that takes a snapshot at any time (`Join`), skips what the snapshot has by its
number, and applies removals, reductions and additions in the order they are sent
(`Receive`). The deltas of one kind are taken together (`Removed`, `Reduced`, `Added`):
an update names an id at most once in each kind, and additions keep their order.

**Snapshot** adds a restart: `Restart` captures the state between two calls,
writes and reads the bytes of the file, and empties the engine; `RestoreOrder`
puts back one resting order with the book's `Insert`, `RestoreRest` the rest.
**SnapshotFile** is the encoding: flags for what may be absent, positions with
their sign folded in, lists behind their length, a checksum at the end.

**Codec** is `codec.rs`: little-endian words, varints, and a reader that stops at
its first error. The width of a word, 64 bits in the code, is the constant
`WordBits`, one more than a multiple of 7 as 64 is, so that the last group of a
varint has one bit. The checksum is idealised: its bytes name what they are the
checksum of, so different data never agree on it.

**Frames** is the journal as PersistentClob sees it, a sequence of frames that are
whole or torn. **JournalFile** is the file itself: header, frames and command
records as bytes, `Commit` and `Rotate`, and crashes that leave any first part of
what is being written. `ReadSegment` follows `read_segment` byte by byte through
whatever a cut made of later frames. That it finds what `CommandsIn` finds in the
frames (`ReadsIntactFrames`) is what PersistentClob rests on. A record does not
hold the price of a market or stop order, which no code reads (`Recorded`).

**PersistentClob** has the two files and the process. Since the engine is
deterministic and module Snapshot shows that a snapshot reproduces it, a `Clob`
is here the sequence of commands it has executed. `WriteFrame`, `SyncFrame` and
`Execute` are the three parts of a submit or batch, and of the `Flush` of a block
that a failed commit left; `SaveSnapshot`, then `Rotate`,
`RotateFails` or `ReopenFails` are a checkpoint; `Open` and `SyncHeader` a start.
`Crash` may come between any two. `Faults` says what else may go wrong: `"torn"`
(an append that was not synced is left in part), `"reopen"` (the new segment
cannot be opened once it is in place), `"retry"` (a write or sync fails, and the
process goes on with the block it did not clear). `promised` and `misplaced` are history
variables: what clients have been shown, and whether some frame since the last
snapshot or restart went where no restart will read it.

**DurableLog** is what a write-ahead log promises: it grows, somebody is told what
is in it, and a crash takes only an end that nobody was told of.
`PersistentClob` implements it under the mapping `log <- Recovered`, the state
`open` would build from the files, as long as no fault but crashes happens.

**Slab** has `nodes`, `free`, `ends` (head and tail by level) and `index`, and the
calls the book makes: an order enters at the tail, leaves from anywhere, or is
the head and refills to the tail. It implements **LevelQueues**, one sequence per
level, under the mapping that walks the list from its head.

## 3. The runs

| Run | Module | Properties |
|---|---|---|
| `book` | MCEngine | `TypeOK`, `IndexMatchesQueues`, `NothingEmptyRests`, `LevelTotals`, `NotCrossed`, `FokCovered`, `PostOnlyNeverTakes`, `NoTradeThrough`, `KeepsPlace` |
| `calls` | MCLedger | `StopsDormant`, `OneHome`, `LedgerMatchesBook`, `FeesAddUp`, `VenueNeverPays`, `CallReturns` |
| `risk` | MCRisk | `OpenVolumeIsBook`, `NetsBalance`, `WithinPositionLimit`, `OnGrid` |
| `feeds` | MCFeeds | `L2InSync`, `L3InSync`, `L3KnowsOrders`, `TapeEndsAtLastTrade` |
| `restart` | MCSnapshot | `RestoresExactly` |
| `frames` | MCJournal | `ReadsIntactFrames`, `OnlyTornHeaderRefused` |
| `durable` | PersistentClob | `RestartIsExact`, `ImplementsDurableLog` |
| `faults` | PersistentClob | `LostOnlyIfMisplaced`, `TornHeaderHoldsNothing`, `CallsAreWhole`, `CheckpointHeals` |
| `slab` | Slab | `LinksAgree`, `SlotsAccountedFor`, `ImplementsQueues` |
| `advance` | MCFeeds | `L3InSync`, violated (finding 1) |
| `torn_tail` | PersistentClob | `AckedSurvives`, violated (finding 2) |
| `peak` | IcebergPeak | `PeakKept`, violated (finding 3) |

What the passing runs show:

- **book**: orders of every time in force, icebergs and a stop over two levels,
  with amendments both ways. After every step of every call the book is consistent and
  not crossed; an FOK order that was let in is covered by what it may trade with
  until its end; post-only never takes; no order trades at a price while a better
  one is left; an order falls behind another only when the step has just consumed
  its peak.
- **calls**: stops on both sides trigger each other. Every call ends, and when it
  does no dormant stop is triggered by the last trade price; the paths that never
  look at the stops (cancel, in-place amendment, rejection) do not have to. An
  order that goes from dormant to matching to the book is in one place at a time.
  The events are complete: makers have no event of their own when they are filled,
  refills have none at all, and a stop refused on activation is named only by the
  event before the rejection; a client that knows this can follow. However many
  fills an order is split into, it pays and earns no more than its rate on all of
  them, short by less than a unit a fill, and under rates that do not add up to a
  loss no single trade costs the venue. (One fee is excepted: a rebate clamped to
  the lowest 64-bit number is one larger than the largest fee.)
- **risk**: open volume is, at every step, what the account's orders show and
  hide, so the saturating subtraction in `accounts.rs:35` never saturates; positions
  cancel out; if everything an account has were filled on one side, its position
  would be past the limit by no more than the volume of its activated stops,
  whatever mix of fills, refills, amendments and self-trade cancels came before; no
  peak or remainder leaves the grid. The excess by stops does occur
  (`docs/en/STATUS.md` documents that dormant stops are not in the open volume).
- **feeds**: with amendments that move no order to a better price, both feeds agree
  with the book after every call, batches included, and a consumer that joined at
  any time has every queue when the updates on their way have arrived.
- **restart**: queues after refills and amendments, hidden parts, open volumes,
  positions of either sign and stops come back exactly through the bytes of the
  file, at any point between two commands, and no snapshot is refused.
- **frames**: every type of command, with numbers at the edges of a varint group
  and of the word, in frames that crashes cut at any byte and later appends follow.
  The frames before the first cut are read, nothing after it is mistaken for a
  frame, and only a file cut within its header, with no command in it, is refused.
- **durable**: with crashes between any two steps and appends that are all or
  nothing, a restart is exact at every point between calls and in the middle of a
  checkpoint, and the two files are a durable log.
- **faults**: with torn appends, failed reopenings and failed commits too, what is
  lost was written behind a torn frame, to a file that is not the journal any more,
  with commands of a refused call, or under numbers that such commands or the
  snapshot have taken; a batch is replayed whole or not at all; a checkpoint makes
  the running state durable whatever was there before, unless refused commands have
  taken the segment past the running state; a journal that `open` refuses for its
  header never held an acknowledged command.
- **slab**: see modules Slab and LevelQueues above.

### 3.1 Bounds

| Bound | Value | Why it is enough |
|---|---|---|
| `MaxCommands` | 5 | An iceberg, two orders that make it refill, an amendment or a cancel and an order that sweeps is a full story. Steps within a call are not bounded. |
| Prices | 10, 11 (9 in `restart`; 10, 15, 25 and off-grid 12 in `risk`) | Sweeps of two levels, levels emptied and made anew, orders on both sides of a level; with 25, prices outside the band. |
| Quantities | 1 to 4 (2 to 6 in `risk`) | Full and short last peaks, partial fills, remainders, whole and broken lots. |
| `Accounts` | two, and anonymous orders | Self-trades and trades between strangers. |
| `PpmScale`, rates, `FeeMax` | 100, a fee of 4, a rebate of 3, 1000 | Notionals of 10 to 44 give fees and rebates of 0 and of 1, all of them truncated. The clamp is out of reach; the theorem `NoTradeAtALoss` has it. |
| `TapeCap` | 2 | Two trades fill the tape; one command may make three. |
| `MaxCommands`, `MaxBatch`, `ChannelCap` of MarketData | 4, 2, 2 | An order, a batch that changes it and takes it away, a consumer that joins before, between or after with two updates on their way. |
| `MaxCommands`, `MaxBatch`, `MaxFrames` of PersistentClob | 5, 2, 5 (4, 2, 4 in `faults`) | Segments of several frames, batches cut by a tear, two checkpoints and commands between and after them. Crashes, checkpoints and failed commits are not bounded. |
| `WordBits` | 29 | TLC's integers have 32 bits. As with 64, a varint's last group holds one bit; 29 bits are five groups. |
| `MaxAppends` of JournalFile | 3 | A whole frame, a cut one, and one behind the cut; cuts at every byte. |
| `MaxOrders` of Slab | 4, on two levels | Three in a list have a middle, and slots are reused in another list. Refills are not bounded. |

The menus are small because every order of a menu may be submitted at every
point: ids, levels and queues come from the commands, and each run's menu has the
orders its properties are about. All ids handed out, and one that was not, are
tried in cancels and amendments.

`CHECK_DEADLOCK FALSE` stands in every configuration because behaviours end at
the bound on commands (on orders, in Slab). That no call gets stuck before it
returns is what `CallReturns` says.

### 3.2 Fairness

Only `FairSpec`, and `LedgerSpec` like it, assume any: weak fairness of `Run`, the
steps of a call that is under way. A call is one thread that executes a loop; it is not suspended by
anything in the program. No client is obliged to submit anything, and nothing is
assumed of which of several possible steps is taken. `CallReturns` then says that
neither the matching loop nor the cascade goes on forever or stops halfway.

### 3.3 Mutants

Every property has a mutant in `PROJECT.json`: a plausible bug in a definition
(`LinkBack_Front`, `PeakOf_Full`, `Durable_NotAwaited`, ...), stated before
the definition it stands in for, under which TLC finds the property violated.

## 4. What is proved

For every set of orders, amendments and accounts, every risk configuration and
fee schedule, any number of commands, every set of faults and any bounds:

| Theorem | Module | States |
|---|---|---|
| `TypeCorrect` | EngineProofs | `Spec => []TypeOK` |
| `IndexConsistent` | EngineProofs | `Spec => []IndexMatchesQueues` |
| `NeverEmpty` | EngineProofs | `Spec => []NothingEmptyRests` |
| `OnePlace` | EngineProofs | `Spec => []OneHome` |
| `BookNotCrossed` | EngineProofs | `Spec => []NotCrossed` |
| `TimePriority` | EngineProofs | `Spec => KeepsPlace` |
| `NoStopLeftBehind` | EngineProofs | `Spec => []StopsDormant` |
| `PostOnlyIsPassive` | EngineProofs | `Spec => []PostOnlyNeverTakes` |
| `TradesAreAtTheBest` | EngineProofs | `Spec => []NoTradeThrough` |
| `GridKeeps` | EngineProofs | `Spec => []OnGrid` |
| `LevelsAddUp` | VolumeProofs | `Spec => []LevelTotals` |
| `OpenVolumeExact` | VolumeProofs | `Spec => []OpenVolumeIsBook` |
| `FokIsCovered` | VolumeProofs | `Spec => []FokCovered` |
| `PositionsBalance` | VolumeProofs | `EveryOrderOwned => (Spec => []NetsBalance)` |
| `PositionLimited` | VolumeProofs | `RiskSpec => []WithinPositionLimit` |
| `EventsTellAll` | LedgerProofs | `LedgerSpec => []LedgerMatchesBook` |
| `NoTradeAtALoss` | LedgerProofs | `Spec => []VenueNeverPays` |
| `FeesOfSplitOrders` | LedgerProofs | `Spec => [](NoneSaturated => FeesAddUp)` |
| `L2Exact` | FeedProofs | `FeedSpec => []L2InSync` |
| `TapeIsCurrent` | FeedProofs | `FeedSpec => []TapeEndsAtLastTrade` |
| `L3LocationsExact` | L3Proofs | `FeedSpec /\ [][NeverAdvances]_vars => []L3KnowsOrders` |
| `L3MirrorsExact` | L3Proofs | `FeedSpec /\ [][NeverAdvances]_vars => []L3InSync` |
| `NoSlotLeaks` | SlabProofs | `Spec => []SlotsAccountedFor` |
| `LinksConsistent` | SlabProofs | `Spec => []LinksAgree` |
| `ListsAreQueues` | SlabProofs | `Spec => ImplementsQueues` |
| `TornHeaderIsEmpty` | PersistentProofs | `Spec => []TornHeaderHoldsNothing` |
| `StateIsFound` | PersistentProofs | `Spec => []StateInv` |
| `LossNeedsMisplacing` | PersistentProofs | `Spec => []LostOnlyIfMisplaced` |
| `BatchesAreWhole` | PersistentProofs | `Spec => []CallsAreWhole` |
| `CheckpointRepairs` | PersistentProofs | `Spec => []CheckpointHeals` |
| `RestartRebuilds` | PersistentProofs | `Faults = {} => (Spec => []RestartIsExact)` |
| `FilesAreDurableLog` | PersistentProofs | `Faults = {} => (Spec => ImplementsDurableLog)` |

`Spec` is that of the module's component: the engine's in EngineProofs,
VolumeProofs and LedgerProofs (`RiskSpec` is the engine with a record of the
stops it activated, `LedgerSpec` the engine with a client that reads its events,
`FeedSpec` the engine with the market data channels), Slab's and PersistentClob's in the others.

Four kinds of theorem have a hypothesis. `EveryOrderOwned`: what an anonymous
order trades moves the position of one account only, so positions cancel out
where every order has an owner, as in the run `risk`. `NoneSaturated`: a fee cut to
64 bits is not what its rate calls for. `Faults = {}`: with nothing but crashes, as
in the run `durable`; with other faults the code keeps less, which the four theorems
about every set of faults, and the runs `faults` and `torn_tail`, are about.

`NeverAdvances`: no order of the book is taken out by an amendment to a better
price. Of one that is, the L3 feed forgets the place, so both properties are
false without the hypothesis (finding 1, the run `advance`); the menu of the run
`feeds` satisfies it at every step, and every menu does whose amendments
are away from the market or in place.

*Assumptions.* They are the named ASSUMEs of the modules, which TLC evaluates in
every run: `None` is not a number, accounts are positive numbers (0 is the
anonymous owner), the risk parameters are naturals, rates are integers, the scale
of fees and their clamp are naturals (the scale not 0), so are the bounds of the
tape, of a batch and of the channel, the orders and amendments
are records of the types a client can construct, and the faults are among those
PersistentClob names.

### 4.1 The engine

No property is inductive alone. That the index matches the queues after a trade
needs that the order at the head of a queue is in the index with that very side
and price; that a refill leaves nothing empty needs that a reserve hides
something; that a stop may enter the book under its id needs that no other place
has it. The inductive invariant is

    Inv == BookInv /\ CallTypeOK /\ OneHome
    BookInv == BookTypeOK /\ IndexMatchesQueues /\ NothingEmptyRests

The first part of `EngineProofs` shows, for each operation of the book, that it preserves `BookInv`
and what it does to the queues (`QueuesKept`: those that stay keep their order;
`QueuesKeptBut(id)` for a refill; `NoNewLevel`). The second has one lemma per
action, which concludes

    StepKeeps == Inv' /\ KeepsPlaceStep /\ (NotCrossed => NotCrossed')

and `NextKeeps` puts them together. `NotCrossed` needs a reason in one action
only: `RestRemainder` inserts at a limit price when `NothingToMatch` holds, that
is, when the best opposite price does not cross it. `StopsDormant` and
`PostOnlyNeverTakes` are inductive relative to `Inv`: the first because only
matching moves the last trade price and matching leads to the loop over the stops,
the second because what `Precheck` sees is what the first iteration of the
matching loop sees. `NoTradeThrough` is about the last trade of the running match:
it was at the best level, and nothing inserts on that side before the match is over.

`OnGrid` needs that the order being matched and the dormant stops are on the
grid too (`GridKeeps`, in EngineProofs as well):

    GridInv == OnGrid /\ LiveOnGrid /\ StopsOnGrid

The gateway checks quantity, peak and price once. After that the code only
subtracts whole lots from whole lots, or takes the smaller of two; every such step
is a lemma about multiples of the lot size.

`LedgerProofs` shows that every trade in the events of a call has the fees its
price and quantity call for (`FeesCharged`). What that means for the venue is
arithmetic: division that truncates toward zero is monotone and odd, so
under rates with a sum of 0 or more the two fees of one notional have a sum of 0
or more (`ChargesCoverEachOther`), unless one is clamped to the lowest number.
What it means for an order is a sum: a fee is off its exact value by less than a
unit, so the fees of all the fills of an order are off by less than their number.

### 4.2 Volumes and positions

`VolumeProofs` is about sums over sets of orders: what a level shows, what an
account has open. An operation of the book changes one order, so it moves one
term of one such sum (`OneMove`) and the number kept for it by the same amount:

    VolumeInv == TotalsHold /\ OpenVolumeIsBook

`TotalsHold` is `LevelTotals` at every price, whether there is a level or not, for
what a new level starts from. `OpenVolumeIsBook` needs itself: `sub_open` saturates at
0, and that it takes off no more than is open is because the order it releases is
a term of the sum.

`FokCovered` compares two things that a step of the match lessens together: what
the order has left, and what the crossing levels show. An iceberg that refills
only adds to the second (`Precheck` counts shown quantities alone), and levels that the
order took away are at prices it does not come back to.

### 4.3 What the events tell

`LedgerMatchesBook` speaks of a client between calls. In the middle of a call its
ledger is that of the call before, and nothing can be said of it; what can be said
is what the ledger *would be* with the events emitted so far:

    Told == BookAll(out, command, ledger)
    LedgerInv == Tells(Told) /\ OpenIds \cap GoneIds = {} /\ (phase = "idle" => out = <<>>)

`Tells(v)`: `v` has exactly the orders of the book, the dormant stops and the order
being matched, each with what is left of it, and besides them `GoneIds`: the makers
that self-trade prevention has removed from the book and whose `Canceled` comes with
the end of the match. That these are in no other place is the second conjunct; it
is why an id that comes back while its removal is still unpublished would break the
ledger. `BookAll` is a recursive function over the events of a call; that it books the
old events first and the new one last (`BookAll` after `Append`) is an induction over
their number, by `NatInductive`. The one event that is read together with the one
before it is a `Rejected` in the cascade of stops, which names no order. That a trade
takes its quantity and no more from what the maker has, hidden volume included and
through a refill, is `FillMoves` of `VolumeProofs`, which needs `Inv` and `VolumeInv`.

`WithinPositionLimit` is about what an account would hold if all it has on a side
were filled: its position, its open volume, and what is left of the order being
matched (`Exposed`). A fill moves volume from the last two to the first, everything
else lessens it, and what enters by a command was checked (`ExposureKept`). A stop is the
exception: its volume is added to `activated` in the same step (`LimitInv`).
`NetsBalance` holds because a trade moves one quantity between two positions in
opposite directions, or within one.

### 4.4 The feeds

`L2InSync` says something at the end of a call only, when the feed has read the
events of it; and it reads them with the book *as it is then*. An event is
therefore not understood when it happens: whether a `Trade` makes the feed forget the
maker depends on whether the maker rests when the call is over, after later
matches, activated stops and the rest of a batch. The proof follows every id
through the events so far (`News`, those of the commands that are done and of
the one under way) *for each way the id may end*: gone, or resting as a buy, or as a
sell (`Ends`). `Leads` is the run of the feed on one id: from where the feed
had it, through the events, to where it has it (`at`) and what it has touched on the
way. What must be true of the outcome depends on where the id is now:

- resting (`ToldResting`): if it ends as what it is now, the feed has it at its level,
  and either it is the order it was when the feed was last brought up to date, in
  place and quantity, or its level then and its level now are both touched. If
  it ends gone, the level it was at is touched, or the feed still has it there
  and will touch it with the `Canceled` or `Filled` that is to come;
- being matched (`ToldLive`), or taken off by self-trade prevention and not published
  yet (`ToldGone`): what was at the old level is accounted for;
- nowhere (`ToldLeft`): the feed has forgotten it, and its old level is touched.

The feed is that of the book when it was last published. Instead of a history
variable, the invariant says that there *are* such orders `r`:

    L2Inv == CallFacts /\ \E r : Seeds(r) /\ FollowsAll(r)
    FeedInv == Inv /\ VolumeInv /\ L2Inv

There is one lemma for each operation of the book and each action of the engine;
nothing but the orders an operation names is disturbed, and these are exactly
those whose event comes with it. Two cases are what makes the property hard: an
iceberg refill, which has no event of its own and is found by the trade that consumed the
peak, at the same price; and a modify that crosses, in which one id leaves the book,
matches and rests elsewhere within a command. When the call is over, a level that is
not touched has the orders of `r` with their quantities of then, so its sum is that of
then; a touched one is read from the book, whose cached aggregate is that sum
by `LevelTotals`. That is why `FeedInv` includes `VolumeInv`.

`TapeEndsAtLastTrade` relates the tape to the price that the engine will have
taken over when the match is settled (`LastPrice`): it is the price of the newest
trade among the `News`, or that of the newest print if there is none (`NewestOf`). A
tape that is full drops prints from the other end, however many a call has.

The L3 feed (`L3Proofs`) finds touched levels from the same events, and the invariant
has the same `r`; but it compares *queues*, and one level after the other, with one map
of locations that every comparison changes. Three things are added:

    L3Follows(r) == Seeds(r) /\ FollowsAll(r) /\ L3Seeds(r) /\ PlacesKnown(r)
                       /\ NotAdvanced(r)
    L3Inv == CallFacts /\ \E r : L3Follows(r)

- `L3Seeds`: the feed has the orders `r`, each once, in the queue of its level.
- `PlacesKnown`: two orders that have stayed since then at one level that no event
  touches stand there in the order in which the feed has them. Since new orders come
  with an event that touches their level (`FollowsAll`), a level that is not touched
  has the very queue that the feed has (`UntouchedQueues`).
- `NotAdvanced`: an order, resting or being matched, is at the price of `r` or at a worse
  one. Levels are compared best first (`DiffedOrder`; the loop takes each once,
  `AllDiffed`), so the level an order has left is compared before the level it is at:
  its old location is removed first, and then the new one recorded. This is the conjunct that an
  amendment to a better price breaks.

What one comparison does is `DiffStep`: the queue is the book's, and locations
change for the orders that left or came only. When all touched levels are done, the
feed is the book (`L3Settled`).

For the consumer, `Tells` says what the deltas of a call contain: as removed, exactly
the orders that no comparison kept, level by level; as reduced, the orders that
were kept with another quantity, and that quantity; as added, what comes behind the kept ones, in
the order of the book. Removals, reductions and additions are applied in this order,
over all levels, and an order that moved is in the first and in the last of the three.
`QueueUpdated` shows for one queue, and `UpdateTells` for all, that they make of the feed
before the call the feed after it. What is on its way is a trail of queues, from those of the
consumer to those of the feed, one step an update (`IsCatchingUp`); an update the
snapshot has is a step that changes nothing:

    MirrorInv ==
        /\ channel \in Seq(Update) /\ CallsNumbered
        /\ mirror # None => \E number \in Nat : \E queues : IsMirror(number, queues)

A consumer that joins takes the queues of the book, which between calls are those of
the feed, under the number of the last command; all updates on their way
have a number that is no greater, and the call under way, if any, has only greater ones
(`CallsNumbered`, `IsMirror`). When nothing is on its way the trail has one
element, and the consumer has the queues of the feed. `L3Snapshot_Ahead`, the mutant
that numbers the snapshot one higher, breaks just that.

### 4.5 The slab

`SlotsAccountedFor` is inductive together with `SlabTypeOK`: ids are given out
once, links lead to slots, levels that are kept have a head. `link_back` and
`unlink` change nothing of a node but its links (`LinkBackKeeps`, `UnlinkKeeps`),
so slots change hands in `alloc` and `dealloc` alone.

For the links the invariant is

    ListInv == SlabInv /\ Linked

where `Linked` says that at every price the walk along `next` from the head is a
*chain*: no slot twice, `prev` and `next` of each slot its neighbours, head and tail
its ends, and exactly the slots that the index has at that price (`Holds`). Lists of
different prices then share no slot, which is why `link_back` and `unlink` cannot
touch another list. `LinkBackAppends` and `UnlinkRemoves` show what the two do to a
chain, `ChainIsShort` (no chain is longer than the slab, by the pigeonhole principle) that
the walk is long enough to see all of it. `ListsAreQueues` follows: the ids along the
chain are the queue of LevelQueues, and the slab's calls are its steps.

### 4.6 The journal and the snapshot

`TornHeaderHoldsNothing` needs `OnlyTheLastWrite` (what a crash may cut is a header
nobody was told of or the frame just written) and `NothingYet` (until the header
is synced there is no snapshot and no promise).

What a restart finds, `Recovered`, is the snapshot and the commands behind its
number in the frames before the first torn one. The invariant for every set of
faults, `StateInv`, gives it for each value of the step counter (`WhereStateIs`): the running
state; or that with the block of a failed commit; or, when a frame was just written,
that frame at the end of frames which give the running state (`JustWritten`), since
the crash that comes next may keep it or drop it. It promises nothing once a
frame was misplaced, except in the middle of a checkpoint: there the snapshot is
the running state. `LossNeedsMisplacing`, `BatchesAreWhole` and `CheckpointRepairs`
are consequences.

Where crashes are the only fault, `Calm` adds that nothing is ever misplaced, because
the numbers of frames continue each other, no frame stays torn, and the snapshot is
between the base and the end of the segment. With it `Recovered` is exact at every
step (`CalmReads`), and each step of the files is a step of DurableLog or
none: a synced frame extends the log by a whole call, and a checkpoint leaves it as it is.

### 4.7 How sums and walks are proved

The sums are `SumFunctionOnSet` of the community modules, which is a fold whose
order of choice nobody knows, and walks and flattened sequences are recursive
functions over numbers. Both need induction, and the induction theorems of the library
take a predicate as a parameter. `Sums` goes around that: every set of naturals has
a least element (`NatHasMin`, from the well-foundedness of `<`), and therefore a *set* of
naturals that contains 0 and every successor is all of them (`NatInductive`), and a
*family* of sets that contains a set whenever it contains what is left without any one of its
elements contains every finite set (`FiniteInductive`). From these come the laws of
sums that the other modules use: a sum after one term has changed, after an element
has joined or left, and of terms none of which is negative.

### 4.8 What is only model-checked

- `ReadsIntactFrames`, `OnlyTornHeaderRefused`, `RestoresExactly`: the byte formats,
  where readers recurse over what is left of a sequence: what they return for every
  input is an induction over data with operators as parameters.
- `CallReturns`: liveness.

## 5. Findings

1. **The L3 feed forgets orders that are amended to a better price** (`advance`,
   `l3feed.rs:154`). `diff_level` compares the better level first and records the
   order's new location, then compares the level it left and removes the location.
   When the order is canceled later, no level is touched, and the consumer keeps
   it. `docs/en/ARCHITECTURE.md:345-346` promises that the consumer's queues match
   the book.
2. **Commands acknowledged behind a torn frame are lost** (`torn_tail`,
   `wal.rs:26`). After a crash that left a part of a frame, `open` appends behind
   it; readers stop at it for good. The next restart loses everything
   acknowledged since, unless a checkpoint came between (`CheckpointHeals`).
   `docs/en/ARCHITECTURE.md:394-396` promises that a confirmed order survives, and
   lines 414-415 that a torn tail "is cut off".
3. **An iceberg on its last peak is amended as a plain order** (`peak`,
   `engine.rs:176`). The code knows icebergs by their reserve, which is gone by
   then; the order shows its whole new quantity.
   `docs/en/ARCHITECTURE.md:117-119` says that an iceberg keeps its display.

The run `faults` has more histories in which something acknowledged is lost or
something refused is executed. They are not listed as findings, since they need an
I/O error in a process that goes on, and `docs/en/STATUS.md:108` calls a failed
fsync fatal: the application should restart. `LostOnlyIfMisplaced` names all four
ways, of which the torn frame above is one.

- After a rotation whose reopening fails (`wal.rs:76`), the writer keeps the
  replaced file, and what it acknowledges from then on is in no file with a name
  until the next checkpoint.
- A commit that fails keeps its block (`wal.rs:57`). The next one writes the
  refused commands again, in front of its own: a restart executes them under the
  numbers of others, or twice if the failed frame is on disk after all.
- Refused commands that are on disk take the segment past the running state. If a
  crash comes between the two renames of a checkpoint then, a restart executes them on top
  of the snapshot: `CheckpointHeals` has this as its one exception.
- Where a torn frame or refused commands have left the segment behind or ahead of the running
  state, the next commands are written under numbers that are taken, and a restart
  skips some of them.

## 6. What is not modelled

- Overflow of u64 sums (aggregates, open volume, `available_qty`): quantities are
  unbounded naturals in the engine. The byte formats have a width.
- The directory: a rename is durable when it returns. Renames are not followed by
  an fsync of the directory, which a power failure could tell.
- The `.tmp` files: they are truncated before every use and never read.
- Checksums that agree by chance, and bits that change on the disk: a checksum
  stands for the data it was computed from.
- The saturation of 128-bit products in `fees.rs`: the clamp to 64 bits comes
  after it and hides it.
- Slots beyond 2^32 in the slab (`slab.rs:25`).
- The depth limit of `l2_snapshot`, the unbounded tape, the examples.

## 7. Plan

Done, in this order, the most important first: the engine with its book and
gateway; its properties and menus; the proofs about it; the ledger; the feeds;
the snapshot; persistence with DurableLog; the slab with LevelQueues; then fees,
batches and late joiners in the feeds, the bytes of journal and snapshot, failed
commits and batches in PersistentClob, stops in the risk checks, the proofs of
trade-through, grid, fees, slab and journal header; with induction at hand, the
proofs of aggregates, open volume, FOK, positions and the position limit, of the sums of
fees, of the lists of the slab and its queues, and of recovery, checkpoints and
the durable log; and the proofs of the L2 feed, the tape, the L3 feed and its
consumer.

What is left:

1. A directory whose renames a power failure may undo.
2. Quantities modulo a width, to place the overflows of the sums.
3. An abstract engine (price-time priority as a relation between book, order and
   trades) that MatchingEngine implements call by call.
4. A consumer of the L2 updates, with a snapshot of limited depth.
5. Proofs of the byte formats, a varint first.
