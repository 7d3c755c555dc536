# Verification of lobsim

TLA+ models of `lobsim`, a limit order book simulator, with the TLC runs that check them on small
instances and TLAPS proofs of their central invariants. The reference is the C++ source; paths below
are relative to `src/`. `PROJECT.json` lists components, runs, hazards, theorems and, for each
definition that models code, the lines it stands for.

`lobsim` rebuilds a historical order book from a feed of normalized events. A strategy submits
*paper* orders, which trade against the historical book without changing it and queue behind it;
historical orders that arrive later trade with the paper orders they reach. Several books can be
merged on one clock. Two benchmark programs drive the engine from a UDP socket or from memory,
through bounded queues between threads.

## 1. Inventory

| Component | Source | State | Operations | What makes it correct | Status |
|---|---|---|---|---|---|
| Matching engine | `cpp/src/paper_trading_simulator.cpp`, `.hpp` | price levels with intrusive queues of pooled nodes, two lazy heaps, `order_info`; paper levels with queue, `queued_lots`, two Fenwick trees; paper orders; two node pools | `update` (ADD, DELETE, SUBTRACT, SET, MATCH, AGGRESSIVE_TRADE), `init_from_l2/l3_snapshot`, queries (one changes the heap) | the redundant indexes agree after every step; best level found; uncrossed; price-time priority; queue position of paper orders; lots conserved; calls return | modelled |
| Fenwick tree | `paper_trading_simulator.hpp:164` | `tree` | `ensure_size`, `add`, `sum` | computes the prefix sums | modelled |
| Multi-book simulator | `cpp/include/lobsim/multibook_simulator.hpp` | books, streams with one buffered event, submitted events, heap, clock | `add_book`, `add_stream`, `submit_strategy_event`, `apply`, `step`, `step_until`, `step_for` | no look-ahead; monotone clock; nothing dropped; heap and buffers agree; `step_until` complete; calls return | modelled |
| Blocking queue | `benchmark/blocking_queue.hpp` | deque, `isClosed`, two condition variables | `push`, `pop`, `close` | within capacity; no lost wakeup; `close` releases all | modelled |
| Replay pipeline | `benchmark/lobsim_udp_main.cpp`, `lobsim_memory_replay_main.cpp`, `diagnostic_queue_sink.hpp` | two queues, shutdown flag, three or four threads | threads, `request_shutdown` | lines in order and none lost; diagnostics accounted for; terminates | partly |
| In-memory ledger | `cpp/src/in_memory_sink.cpp` | logs; orders and fills derived from callbacks | `on_fill`, `on_event_apply`, `on_diagnostic`, `reset`, drains | agrees with the engine's paper orders; closed stays closed | modelled |
| Multi-book ledger, scoped sinks | `multi_log_sink.hpp` | shared logs, an index per book, a ledger per book | the same, scoped, and queries per book | each book sees what a sink of its own would show | modelled |
| Replay session | `replay_session.hpp`, `run_raw` in `python_bindings.cpp` | configuration, last `ts_received` | `step`, `run` over a span or a source, `run_raw` | rows in order, once, none lost; summaries exact; also after exceptions | modelled |
| Instrument conversion | `instrument.hpp`, `coinbase_btcusdt_adapter.hpp` | none | ticks and lots from decimals | rounds to the grid as the policy says, or refuses | modelled |
| Market data source | `coinbase_btcusdt_parquet_source.cpp` | a batch and a cursor | the constructor, `next` | each row once, as long as it can be read | modelled |
| Interfaces and records | `engine.hpp`, `log_sink.hpp`, `lob_event.hpp`, `types.hpp`, `event_source.hpp`, `event_adapter.hpp` | - | - | - | partly: declarations, inside the modules that use them |
| Hash map | `flat_hash_map.hpp`, `fast_hash_map.hpp` | - | - | - | vendored; used as a map |
| Parser, generator | `normalized_event_parser.hpp`, `lobsim_event_generator.cpp` | - | - | - | not modelled: pure input |
| Python bindings, examples, scripts | `python_bindings.cpp`, `python/lobsim` | none | forward calls | - | not modelled (but `run_raw`) |

How they interact. Callers own an engine and call `update` on one thread; during the call the engine
calls its *sink* back after each fill, event and diagnostic. The sink is the ledger, a queue of the
pipeline, or user code, which may query the engine, or submit further events to the multi-book
simulator. The multi-book simulator owns one engine per book and calls `update` from `step`. The
replay session pulls events from a source into one engine. In the pipeline one thread owns the
engine; it shares the two queues with the others and nothing else but an atomic flag.

What is hard here:

- *Redundant state.* An order is in an intrusive list, in a map, in a pool, in a heap entry, in
  `queued_lots` and in two Fenwick trees at once, each kept by hand in every handler.
- *Work in progress.* Callbacks run in the middle of a handler; exceptions leave the multi-book
  simulator halfway through a step.
- *Order.* Lazy heaps with duplicates and stale entries; ties between streams and strategies; queue
  positions recomputed from arrival numbers.
- *Derived state.* A ledger follows the engine by callbacks that say what was asked, not what was
  done; sinks are attached late, and one kind ignores `reset`.
- *Exceptions.* A source, an adapter or a session throws at any row, and the caller goes on with
  cursor, clock and configuration as they are then.
- *Threads.* Notifications of one waiter, `close` in three steps, a deadline that closes both queues
  under the threads that use them, and two full queues in a row.
- *Limits.* Node pools that run out after an order has traded; capacity zero; empty snapshot rows.

The hazards, one line each with the source line where it bites and the properties that cover it, are
in `PROJECT.json` under `hazards`.

## 2. Modules

| Module | Role |
|---|---|
| `PrefixSums` | what the engine expects of its Fenwick trees: a growing array, by its prefix sums |
| `PrefixSumArray` | that array as a specification |
| `FenwickTree` | the tree of the code; refines `PrefixSumArray` |
| `PaperTradingSimulator` | the engine |
| `PaperTradingProperties`, `PaperTradingInvariant` | its properties; its inductive invariant |
| `OrderBook` | what the engine promises of its historical book, without levels, heaps and nodes; the engine implements it |
| `MCPaperTrading` | instances of it for TLC |
| `PaperTradingProofs`, `PriorityProofs` | proofs: the indexes, heaps, price-time priority and the refinement of `OrderBook`; the trees of a paper level, conserved lots, complete sweeps, queue priority, the Fenwick tree |
| `MultiBookSimulator`, `MultiBookProperties`, `MCMultiBook`, `MultiBookProofs` | the same for the multi-book simulator |
| `PaperLedger` | the ledger of a sink, as operators |
| `LedgeredEngine`, `MCLedger`, `LedgerProofs` | the engine composed with a sink that keeps a ledger; its instance; proofs |
| `InMemoryLogSink` | the sink of one book |
| `MultiLogSink` | the sink of several books; refines one `InMemoryLogSink` per book |
| `SinkWiring`, `MCSinks`, `SinkProofs` | the pointers by which the engines of several books reach their sinks; proofs about both |
| `Instrument`, `CoinbaseFeed` | conversion of amounts; the reading and the adapter of a row |
| `ReplaySession`, `MCReplaySession`, `ReplaySessionProofs` | session, source and `run_raw` |
| `BlockingQueue` | the queue, as operators on a record; used by the next two |
| `QueueClients`, `QueueProofs` | any threads that use one queue; proofs |
| `ReplayPipeline`, `PipelineProofs` | both replay programs, composed of two queues and their threads |

### The engine

`update(e)` is one step per iteration of the loops of a handler that trades, and one step for a
handler that does not, so that each state is one a sink may see in a callback. The local variables
of the running handler are the record `call`; its field `pc` says where it is:

| `pc` | Code |
|---|---|
| `sweep` | the loop of `on_add`/`on_aggressive_trade` over the opposite side of the book |
| `queue`, `settle` | `apply_paper_trade_at_level` for a level that traded, then the update of `market_qty` |
| `paper` | `trade_against_paper_level` for what is left |
| `rest`, `mirror` | the remainder becomes a node; a new paper level copies the queue of the book |
| `reduce` | the end of `on_match` |
| `l2`, `l3` | the rows of a snapshot |

Abstractions: a node of an intrusive list is named by its `arrival_seq`, a paper node by its order
id, so `node` is the pool's nodes in use with their contents; a heap is a bag of prices and
`BestPrice`/`Pruned` are the loops that pop stale entries; a Fenwick tree is its prefix sums
(justified by `FenwickTree`, and proved); `market_index_by_seq` is a position in `market_seqs`. Trader ids,
symbols, timestamps, diagnostics and the update counter are left out; no handler branches on them,
but that a wrong side or price of an event is reported.

A historical order consumes the book; a strategy's order works on `heap_copy` and leaves the book as
it is. The early returns of each handler are the operators `...Rejected`; the `Reject` action says
that they change nothing. Exceptions of snapshot rows leave the state of the rows before.

Lots leave a paper order in two ways. `TakeFromPaperOrder` (a fill from the queue, SUBTRACT, SET,
DELETE) takes them off the order and off the two sums of its level, `queued_lots` and `paper_qty`.
`FillPaperOrder` (a fill by a crossing order, `trade_against_paper_level`) takes them off the order
first, so that `remove_paper_order`, which takes off the level at most what the order has left, takes
nothing when the order is filled completely: its lots stay behind, *stale*, as long as another order
keeps the level. See `queue_position` below.

Not modelled: exceptions thrown by a user's sink inside `update`, and `std::bad_alloc`.

`OrderBook` is the abstract book: a set of resting orders with side, price, arrival and lots, at most
one incoming order, and the rule that it trades with the best order there is, best by price and then
by arrival, before paper orders absorb what is left and before it rests. `ImplementsOrderBook` in
`PaperTradingProperties` maps levels, nodes and the running handler to it: each step of the engine
is a step of the book or none. A crossed book, a lost place in the queue, a skipped level or an
order that rests too early are all steps that the abstract book does not have.

### The sinks

`PaperLedger` has `update_strategy_order` and `apply_strategy_fill`, which the code has twice, once per
sink. `LedgeredEngine` composes them with the engine: `Update` tells the ledger of an event before
the engine handles it, `Proceed` of a fill, and `Reset` of a snapshot unless the sink is a
`BookScopedSink`, whose `reset` does nothing. `set_log_sink` attaches another sink between calls.
The code cannot keep the two in agreement in every case, and the history variable `estranged` says
exactly in which it does not: ids whose ADD only one side accepted (an id that the ledger has seen
once is refused by it for ever, while the engine forgets it), or that an aggressive trade bears,
orders dropped because the pool of paper nodes is exhausted, orders older than the sink, and orders
that a snapshot discarded behind a scoped sink. `LedgerAgrees` is about all other ids, in every state,
also between the fills of a sweep. Callbacks and the engine's own bookkeeping for the same event or
fill are one step; a sink that queries the engine in between is not modelled.

`MultiLogSink` is the shared sink with its positions per book. A record that names a book keeps its
name. (An event that comes by the multi-book simulator always names its book; one that is given to
the engine of a book directly may name another, and its records then go to the ledger of that one.)
The queries for a book are compared with the `InMemoryLogSink` that was told the records with its key.

`SinkWiring` adds the pointers: of each engine to its sink, of the simulator to the `BookScopedSink`s
it owns and to the sink for all books. An address that was freed may be used for the next
`BookScopedSink`, of any book. A book only reports to the shared sink if its pointer leads there.

### The replay session

`ReplaySession` has the session, the source it reads and the calls of a caller that catches
exceptions and goes on: further steps, runs with other configurations, another source. A row is a
step. `TakeRow` moves the cursor first, as `next` does; `NextThrows`, `NormalizeThrows` and a refused
event leave the run from there; `LoadThrows` is a batch that the library fails to read. `run_raw`
first buffers (`BufferRow`) and then replays the buffer as a span. It calls `py::iter` on its source
each time (`python_bindings.cpp:359`), so what is said of rows across several raw runs is about a source
that is its own iterator, a cursor; a Python list begins again. Rows are records of what the
readers distinguish (`CoinbaseFeed`): forms of a time, a missing cell, an unknown type. Amounts are
exact fractions (`Instrument`). `read`, `updates`, `opened` and `dropped` are history variables.

### The multi-book simulator

A call (`step`, `step_until`, `apply`) is a sequence of steps: one per event read from a source
(`FillBuffer`), one for the choice (`Pick`), one for the return of the engine (`EndUpdate`). While
`call.pc = "update"` the engine's sink may call `submit_strategy_event`. With `fail_fast` a
malformed, unordered or late event is an exception that ends the call where it is; otherwise it is
skipped. `heap` is a set, ordered by `Before` (`HeapCompare`); that no entry is in it twice is
`HeapMirrors`. `Usage` says what the callers do besides stepping and submitting: events applied past
the streams, streams registered when the clock runs, submissions from callbacks.

### The queue and the pipeline

With the lock held, `push` and `pop` go on to their next wait or their return without interference:
that is one step. `close` notifies after it has released the lock: three steps. A waiting thread is
in `notFull` or `notEmpty`; `notify_one` removes an arbitrary one, and any waiting thread may wake
up spuriously. A thread that was notified competes for the lock with all others. Relaxed atomics are
only used for statistics, which are left out, and for `shutdown_requested`, whose only order that
matters is that the input thread sees it at some later read.

In `ReplayPipeline` the variable `program` selects the program. The input thread receives datagrams
of up to `MaxDatagram` lines, or has them in memory; the processing thread pops lines and runs an
update that emits some number of diagnostics through `on_diagnostic`, which may block; the third
thread counts them. With `ENGINE_DURATION_SEC` a timer thread performs `request_shutdown`.

## 3. What the runs check

| Run | Config | Instance | Distinct states | Properties |
|---|---|---|---|---|
| `ledger` | `MCLedger.cfg` | engine and ledger: 3 prices; a paper bid with every change, another below it and an ask; historical orders with fresh ids and with that of the bid; aggressive trades of 3 lots; pools of 2; 3 arrivals; L2 and L3 snapshots with repeated, empty and surplus rows; all kinds of sinks | 901,584 | `TypeOK`, `BookIndexed`, `ArrivalOrder`, `TopOfBook`, `PaperIndexed`, `PriceTimePriority`, `SweepComplete`, `LotsConserved`, `ImplementsOrderBook`, `EveryCallReturns`, `LedgerAgrees`, `ClosedStays` |
| `queue` | `MCQueue.cfg` | engine: 1 price, 4 resting ids, a crossing historical order of 4 lots, aggressive buys of 3; pools of 3 and 2; 5 arrivals; snapshots of 1 or 2 orders | 683,560 | `QueuedLots`, `MarketMirrored`, `ServedInTurn`, `LotsLeaveWithOrder`, `PriorityInvariant` |
| `queue_position` | `MCQueuePriority.cfg` | as `queue` | violation | `QueuePriority` |
| `trade_through` | `MCTradeThrough.cfg` | engine: 2 prices, historical orders of 2 lots, paper bids of 1; 4 arrivals | violation | `NoTradeThrough` |
| `fenwick` | `MCFenwickTree.cfg` | up to 6 quantities of {0, 1, 3} | 1,093 | `ImplementsArray` |
| `merge` | `MCMerge.cfg` | 2 books, feeds with ties, disorder and malformed events, 2 submissions; bad events skipped | 199,149 | `MergeInvariant`, `NoLookAhead`, `StepUntilComplete`, `NothingDropped` |
| `disturbed` | `MCDisturbed.cfg` | the same with `fail_fast`, `apply`, late streams and callbacks; submissions relative to the clock, to one of the books | 241,611 | `HeapMirrors`, `ClockMonotone`, `EveryCallReturns` |
| `stale_clock` | `MCStaleClock.cfg` | callbacks only | violation | `RelativeToCurrentTime` |
| `blocking_queue` | `MCQueueClients.cfg` | 3 producers, 2 consumers, 3 closers (one a producer, one a consumer, one neither); capacities 0, 1, 2 | 20,284 | `TypeOK`, `NoLostWakeup`, `ClosedReleases`, `NobodyForgotten` |
| `pipeline` | `MCReplayPipeline.cfg` | all three programs, queues of 1, datagrams of up to 2 lines, updates of up to 2 diagnostics, 3 lines | 73,497 | `LinesProcessed`, `DiagnosticsCounted`, `EveryLineProcessed`, `ProgramEnds` |
| `sinks` | `MCSinks.cfg` | 2 books, one paper id, fills as maker and as taker, records that name their book and that do not; 2 records in the logs; 2 sinks for all books, one sink for a single book, 2 addresses | 86,468 | `LedgersConsistent`, `PointersAlive`, `SinksOfBooks` |
| `session` | `MCReplaySession.cfg` | 3 recordings of 3 to 6 rows in 2 batches and one without columns, 2 instruments, one span, 2 stepped events; 2 sources | 260,882 | `InOrder`, `RowsReachEngine`, `SummaryExact` |

What each property says is in the comment above it. For each one `PROJECT.json` names a mutant, a
plausible bug in one definition, under which TLC finds the property violated.

Why these bounds are enough:

- *Engine and ledger.* Three prices and two nodes are enough for a level to go, come back and be a
  duplicate in the heap, for a sweep to continue at a second level, of the book or of paper orders, for
  the pools to be exhausted and for a level without orders, which an exhausted pool leaves. One paper
  order sees every change; the others compete for the paper nodes and make a second paper level. Two
  lots and fills of 1 give a partial fill followed by any change. `MaxFilled` stops calls, not fills
  within a call. Three rows of a snapshot exhaust the pool of two.
- *Queue of a level.* A queue of paper, historical and paper orders, with a crossing order that takes
  all of it, needs five arrivals at one price. Ids of resting orders are interchangeable there, hence
  the symmetry. `MaxArrivals` caps the arrival numbers: beyond it `OnAdd` accepts nothing and the book
  drains.
- *Sinks.* Two books and one id are enough to mix them up. Two records make an index of two positions,
  or a stale one after a drain. The logs may be drained at any time; the ledgers, which may not, are
  bounded by `MaxLots` and `MaxRejected` only. Two addresses are what two books need, so that memory
  that is freed is always used again, for either book.
- *Session.* The recordings are chosen so that each way to refuse a row, each policy below, on and
  above a grid point, and time going back at a batch boundary occur; two sources make the second
  start with the clock of the first. `MaxUpdates` bounds the updates when a call begins.
- *Fenwick tree.* Sizes 1 to 6 have elements that cover one, two and four quantities, and growth
  into each of them over a non-empty tree.
- *Multi-book.* Two streams and two submissions give ties between two streams, between two
  submissions, and between each; three events in a feed give one out of order between two in order.
- *Queue.* A lost wakeup needs a thread that takes what another was woken for: two consumers, two
  producers and one more to push or pop in between.
- *Pipeline.* Queues of one place are always full or empty, so all three threads can wait at once;
  the code's capacities (one million and 4096) only make that rarer. Three lines make the input
  thread wait behind a line in the queue and one being processed.

`MaxLines`, `MaxArrivals`, `MaxStrategyEvents`, `MaxFilled`, `MaxLog`, `MaxRejected`, `MaxLots`,
`MaxOpened` and `MaxUpdates` are bounds of the models and not of the code.

### Fairness

Only calls that were made go on, and only threads that can run do; nobody has to call, submit or
send.

- Engine and multi-book simulator: `WF_vars(Continue)` (`WF_allVars(Proceed)` with a ledger), the
  steps of the running call. The caller's thread executes them without waiting for anything.
- Queue: `WF_vars(Continue(t))` for each thread: a thread that can run is scheduled and gets the
  mutex. (Weak fairness is enough although threads compete for the lock: a step of `push` or `pop`
  that does not wait stays possible until taken, possibly in another disjunct.) Calls, `close` and
  spurious wakeups are not fair: no property relies on them.
- Pipeline: the same per thread. A datagram need not arrive; only a program with a duration, or
  whose socket was shut down, gets out of `recvfrom` (`TimesOut`), because it sets `SO_RCVTIMEO`
  (`lobsim_udp_main.cpp:171-174`). This is assumed: a program that forgot the option would pass too.
  The deadline passes (`Deadline` is in `Timer`).

### Disagreements between code and documentation

- `trade_through`: `on_add` sweeps the whole historical book down to the limit before it looks at
  prices where only paper orders rest (`paper_trading_simulator.cpp:183`), so a historical SELL
  trades with a bid of the book at a worse price than a resting paper bid that it passes by.
  `cpp/tests/test_paper_trading_simulator.cpp:555` says of that bid: "Later historical SELL arrives
  below the resting bid -> should trade against the paper order". The test's book is empty.
- `queue_position`: `trade_against_paper_level` reduces `remaining_qty`
  (`paper_trading_simulator.cpp:633`) before it calls `remove_paper_order` (`:639`), whose
  `min(removed_qty, remaining_qty)` (`:684`) is then 0: `queued_lots` and `paper_qty` keep the lots of
  an order that a crossing order fills completely, and `apply_paper_trade_at_level` counts them as
  being ahead of the orders behind it (`:529`). In the run paper bid A has 2
  lots and B behind it 3, a historical SELL of 4 fills A and two lots of B, a historical bid of 1 comes
  to rest behind B, and a MATCH that trades its lot then gives B, which is first, nothing.
  `cpp/tests/test_paper_trading_simulator.cpp:785` says "Paper orders respect interleaved market orders
  in queue priority", and `README.md:209` that with order ids "you get full L3 behavior: queue priority,
  maker/taker attribution, and order lifecycle tracking"; no test has a crossing order that fills one
  paper order and leaves another.
  `ServedInTurn` is what holds in spite of it: orders get too little, never too much, and still in
  turn; `LotsLeaveWithOrder` that stale lots have no other origin.
- `stale_clock`: `submit_strategy_event` with `ts_received = 0` is "relative to current time"
  (`README.md:182`). The clock is set after `update` has returned
  (`multibook_simulator.hpp:449-451`), so an event that a sink submits in reaction to a fill is
  relative to the event before, and can precede the event it reacts to.

## 4. What is proved

The theorems hold for all values of the constants: any prices (a finite set, which stands for the
price range of a run), ids, events, snapshots and capacities; any books, feeds, submissions and
configuration; any records reported to any number of books and sinks; any recordings, instruments and
rounding policies; any finite set of threads and any capacities. The assumptions are the `ASSUME`s of
the modules (types of the inputs, `UnknownOrderId` is no id, a clock rate is positive) and nothing
else. TLC evaluates them in the runs. One of them is about the callers of the engine:
`SnapshotsAssumption` has no negative quantity in a snapshot. The code stores the quantities of a
snapshot as they are (`paper_trading_simulator.cpp:1120`, `:1146`, `:1170`, `:1203`), so `TypeOK`, and
what rests on it, is shown for well-formed snapshots only. Events are not assumed to be well-formed.

| Theorem | Module | Establishes |
|---|---|---|
| `TypeCorrect`, `BookAlwaysIndexed`, `PaperAlwaysIndexed` | `PaperTradingProofs` | `[]TypeOK`, `[]BookIndexed`, `[]PaperIndexed` of the engine |
| `HeapFindsBest` | `PaperTradingProofs` | `[]TopOfBook` |
| `ArrivalsInOrder` | `PaperTradingProofs` | `[]ArrivalOrder` |
| `MakersInOrder` | `PaperTradingProofs` | `[]PriceTimePriority` |
| `OrderBookImplemented` | `PaperTradingProofs` | `ImplementsOrderBook`: the engine implements `OrderBook` |
| `LotsAlwaysQueued` | `PriorityProofs` | `[]QueuedLots` |
| `NoLotLost`, `NothingLeftBehind` | `PriorityProofs` | `[]LotsConserved`, `[]SweepComplete` |
| `QueuesMirrored`, `PapersServedInOrder` | `PriorityProofs` | `[]MarketMirrored`, `[]ServedInTurn` |
| `TreeImplementsArray` | `PriorityProofs` | `ImplementsArray`: `FenwickTree` implements `PrefixSumArray` |
| `Invariance`, `PriorityInvariance` | `PaperTradingProofs`, `PriorityProofs` | the inductive invariants, `[]Inductive` and `[]PriorityInvariant` |
| `LedgerAlwaysAgrees`, `ClosedAlwaysStays` | `LedgerProofs` | `[]LedgerAgrees`, `ClosedStays` |
| `NoDanglingSink`, `LedgersAlwaysConsistent` | `SinkProofs` | `[]PointersAlive`, `[]LedgersConsistent` |
| `SinksImplemented` | `SinkProofs` | `SinksOfBooks`: the shared sink implements a sink per book |
| `ConversionsKeepToTheGrid` | `ReplaySessionProofs` | what `ticks` and `lots` return |
| `RowsInOrder`, `NoRowLost`, `SummariesExact` | `ReplaySessionProofs` | `[]InOrder`, `[]RowsReachEngine`, `[]SummaryExact` |
| `EveryAcceptedLine`, `EveryDiagnostic` | `PipelineProofs` | `[]LinesProcessed`, `[]DiagnosticsCounted` |
| `MultiBookTypes`, `HeapCorrect` | `MultiBookProofs` | `[]TypeOK`, `[]HeapMirrors` |
| `NoLookAheadCorrect`, `ClockMonotoneCorrect`, `StepUntilCorrect`, `NothingDroppedCorrect` | `MultiBookProofs` | the action properties of the merge |
| `QueueTypes`, `WakeupsKept` | `QueueProofs` | `[]TypeOK`, `[]NoLostWakeup` |

*Engine: indexes.* `Inductive` (in `PaperTradingInvariant`) is the inductive invariant. The three
properties are not inductive alone. `TypeOK` needs to know that the node a handler follows is in use;
that needs `QueuesApart` (no node is in two queues, each queue strictly increases, every node is older
than the next), or unlinking a node could leave another copy of it; and that needs `HandlerState`:
what an earlier step of the same call has found - the level it trades at, the order a MATCH names,
the id that is still free - is still there at the next. `IdsApart` is needed because a paper order
that comes to rest has reserved an id that no other step may take. `PaperTradingProofs` has facts
about lists, maps and sums, then one lemma for each kind of change (a node is unlinked, shrinks, is
appended, a paper order loses lots), then one per action. TLC checks `Inductive`, as a part of
`PriorityInvariant`, in the `queue` run.

*Engine: priority.* What `PriorityInvariant` adds to `Inductive` was found property by property.
`TopOfBook` is not inductive: a stale entry may become live again. `HeapCovers` is: each level with
orders has an entry. `ArrivalOrder` needs `MarketKnown`, that a paper level with orders misses no node
of its queue, and, while the first order makes the level, `MirrorFollows`, that it knows the nodes
already copied. `PriceTimePriority` speaks of the fills of the past, so `SweepProceeds` says of the
future that whatever a sweep can still meet comes after all it has filled: for a strategy what its
copy of the heap and its iterator have not passed, for a historical order all that is still in the
book. `QueuedLots` (the lots of each resting order at its index, perhaps stale lots elsewhere) needs
`PlacedBefore`. The properties of one tree are first stated of any tree, queue and map of orders
(`LotsHeld`), for it to lose, keep or gain one order.

*Engine: lots.* `LotsConserved` and `SweepComplete` add up fills with `MapThenSumSet`, whose recursion
takes out an element that `CHOOSE` picks. What it computes is shown without an induction theorem: a
counterexample would have a least one (`LeastSubset`), so the recursion has exactly one solution, and
any element may be taken out first (`SumWithout`); a fill that is appended then adds its lots
(`LotsSplit`). `LotsConserved` is inductive together with `Inductive`. `SweepComplete` needs
`SweptSoFar`, what a strategy has done so far: whatever it has passed, because the level is popped from
its copy of the heap or lies behind its iterator, it has filled to the last lot. That the node it comes
to has not been filled before is `SweepProceeds`; that what it crosses has been passed when no price is
left follows because everything that is not popped is still found.

*Engine: the trees of a level.* `MarketMirrored` says of each node that a level knows that its entry
in the tree is the quantity in the book and what the running handler has yet to tell (`Untold`).
Changes come from five handlers, and the sweep tells its fills late, after the paper orders have been
served. `KnownAreQueued` gives the node back from its number, `ToldInTime` says in which steps
something may be untold, and `SweepStays` that a sweep which owes a level something is still at that
level, so that no other level is owed anything (`Due`, `Owed`). Each step then either leaves trees and
debts alone, or tells a level what it owes, or trades at a node and owes it.

*Engine: queue priority.* `ServedInTurn` compares the fills of the paper orders at a level with what
a single queue of nodes and paper orders would give them, from the quantities before the trade
(`LotsDue`). Those are gone while the level is served: the nodes have been filled and the first paper
orders with them. So they are put together again, for nodes from what is left and what has traded
(`LevelTrades`, `MarketMirrored`), for paper orders from what remains and what they were filled.
`NothingTradedAhead` makes sure that the fills at this price are all of this one visit. `QueueServed` is
what the loop of `apply_paper_trade_at_level` keeps: what has been given to paper orders, what was
passed on the way (`consumed`) and what is left add up to no more than the lots that traded, and to
exactly these if no stale lots stand in the tree; orders that were filled come before those that rest;
and what was passed never exceeds the nodes ahead of the next order. Stale lots do not come or go while
the queue is served (`StaleStays`). The hard step is a fill (`QueueFillKeeps`): the next order gets no
more than its place in the queue says, and all of that if nothing is stale (`QueueHead`), whether it is
removed from the queue by it or stays, and nobody else's share moves.

*Fenwick tree.* `LowBit`, `Sum` and `Ancestors` are recursive functions. That each has the value its
recursion says is shown by a least counterexample: if a function of that kind exists for all smaller
arguments it can be extended, and two of them cannot first differ. An element `i` covers the indices
`i - LowBit(i) .. i - 1`, and the intervals of two elements nest or are apart (`ElementsNest`), which
follows by halving both numbers. So `Ancestors(index)` are the elements that cover the index
(`AncestorsCover`), a prefix that reaches beyond the index meets exactly one of them (`TreeSumAdded`),
and an element that is added sums up to what was there (`TreeGrown`). `LowBit` is the recursion and
not a power of two because the provers know nothing of `2^k`.

*Engine implements `OrderBook`.* The resting orders are what the queues hold (`OrdersAreQueued`), and
each step is one of the kinds of change above: a node leaves, shrinks or enters, and the orders with
it. The step that trades is the hard one: the best order there is must be the one the sweep is at.
That follows from `HeapCovers` (the best live level is found) and `Increasing` queues (its head is the
oldest), and for paper levels and orders at rest from `SweepProceeds` (nothing in the book crosses any
more).

*Engine and ledger.* `LedgerInvariant` is `Inductive` and `LedgerFollows`. `LedgerAgrees` is not
inductive: that a partly filled order comes to rest with the status of its entry holds only because
what its entry has been filled and what it still wants add up to the quantity of the event
(`TracksOrder`); that a fill is credited to the order that trades and no other needs `PaperPhase` (a
paper order never trades with paper orders), `AggressorUnknown` (an aggressive trade has the id of no
entry still followed) and that maker and taker differ. `ContinueEffects` sorts the steps of the engine
by what they mean to the ledger: nothing, a paper order trades as maker or as taker, the rest of one
is dropped or rests. `ClosedStays` follows from the same lemmas.

*Sinks.* `PointersAlive` needs `WiringInvariant`: two `BookScopedSink`s never share an address, and an
engine with the address of one is of that one's book. `LedgersConsistent` is inductive together with
the types of entries. `SinksOfBooks` maps the shared logs to the records of one book by the positions
of its index; a callback appends one position, to the index of the record's own book only.

*Session.* `SessionInvariant` has the clock (the last `ts_received` is that of the last update), the
counts of a running and of a returned call, and what is read but yet to replay, besides two of the
three properties. The conversions are proved from the properties of integer division.

*Pipeline.* `LinesKept` says that what was accepted is what was processed and what is queued, in
order; `InboundSound` and `DiagnosticsSound` that the queue of a stage is closed only when the stage
before it has ended or the deadline has passed; `DiagnosticsKept` that what was emitted is counted,
queued or refused; `TimerSound` that the timer has said so before it closes.

*Multi-book simulator.* `MergeInvariant` adds to types and `HeapMirrors` that a stream's `last_ts`
is that of its buffered event, that a choice is only made when all streams are primed, and that
without disturbance nothing that may be taken is late. No look-ahead then follows for the events
still in a source: they are not earlier than `last_ts`, which is buffered and thus in the heap. TLC
checks `MergeInvariant` in the `merge` run.

*Queue.* `QueueInvariant` is `TypeOK /\ NoLostWakeup`, which is inductive because `NoLostWakeup`
counts: while a consumer waits there are at least as many consumers under way as values. A push adds
a value and wakes a consumer; a pop takes a value and a consumer; a spurious wakeup only adds one.

Only model-checked are `LotsLeaveWithOrder`, in the `queue` run, and all liveness
(`EveryCallReturns`, `ClosedReleases`, `NobodyForgotten`, `EveryLineProcessed`, `ProgramEnds`), which
needs fairness and `ENABLED`.

## 5. Not modelled

- *Hash map* (`flat_hash_map.hpp`, `fast_hash_map.hpp`): vendored; the modules use functions.
- *Parser and generator of events* (`normalized_event_parser.hpp`, `lobsim_event_generator.cpp`), the
  LOBSTER example and the micro-benchmarks: they make or print input and keep no state over calls.
- *Python bindings* but for `run_raw`: they forward a call and convert its arguments.
- *The node pool* (`NodePool`) is the set of nodes in use and its capacity; its free list, and with it
  the reuse of memory by another node, is not modelled.
- *Pure reads*: `l2_top_n`, `depth_at`, sizes, getters; the number of events that `step_until` returns,
  which counts a late event that was dropped (`multibook_simulator.hpp:258`).
- *Inside a callback* the ledger is ahead of the engine by the event or fill it is told of; user code
  that compares them there is not modelled, nor are exceptions of a sink and `std::bad_alloc`.
- *Conversions*: the error of `long double` arithmetic, the hash of an order id and its collisions.
  `std::llround` beyond 64 bits is unspecified (`instrument.hpp:88`, `:97`): the model refuses such an
  amount, as the code does on x86-64; where `llround` saturates and a `long double` is a `double`, the
  code returns `INT64_MAX`. The amount beyond `MaxInt64` in the `session` run is refused.

## 6. Plan

Every safety property and refinement of the passing runs is proved but `LotsLeaveWithOrder`. What is
left to model is the *node pool* as a free list that implements the set of nodes in use. Once
`trade_against_paper_level` is corrected, `FillPaperOrder` becomes `TakeFromPaperOrder`, and
`QueuePriority` can take the place of `ServedInTurn`.
