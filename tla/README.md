# A TLA+ verification of the hawkes-ofi backtester

The repository is an event-driven backtester: a C++20 limit order book and
matching engine, an event loop that merges a market tape with a strategy's own
delayed orders, a portfolio, three strategies, the order-flow and Hawkes
signals, and Python scripts that capture exchange feeds and convert them into
tapes. This directory specifies the parts of it whose correctness depends on
sequences of events, checks them with TLC, and proves with TLAPS what matters
most: the matching engine (which implements an abstract price-time book), the
event loop, the portfolio it drives and the three strategies that drive it,
the tapes that the converters make of three exchanges' messages,
the order-flow signal and the samples a calibration takes of it, calibrations
and the files they leave, the capture batch, and the fidelity study.

## The system

### Parts, state and operations

| Part (source) | State | Operations | What makes it correct |
|---|---|---|---|
| Order (`order.hpp`, `types.hpp`) | quantity, remaining, status | `on_accept`, `on_fill`, `on_cancel`, `on_reject` | status and remaining quantity agree |
| OrderBook (`order_book.hpp`) | a map price -> level per side, each level a FIFO list with a cached total; `index_`: id -> (side, price, list node) | `insert`, `cancel`, `match`, best prices, sizes | index, queues and totals agree; no empty level, no spent order; price-time priority |
| MatchingEngine (`matching_engine.hpp`) | the book | `submit` (match, then rest, cancel or reject), `cancel` | never crossed, within the limit, FOK all or nothing, every unit reported |
| Backtester (`backtester.hpp`) | clock, heap of commands in flight, id and sequence counters | `run`, `drain_pending`, `submit`/`cancel` of the OrderContext, `route_fill` | one time order of events and commands, nothing overdue, every own fill reported once |
| LatencyModel, SlippageModel (`friction.hpp`) | random generator | `sample`, `extra_ticks` | never negative, always adverse |
| Portfolio (`portfolio.hpp`) | position, average price, cash, PnL components | `on_fill`, `mark` | components add up to the PnL |
| Strategies (`strategies/`) | inventory, ids of live quotes, a price window | the callbacks | position within reach of its cap, no order lost sight of |
| Data feed (`data_feed.hpp`) | ring of live ids | synthetic feed, CSV loader | ids used once, depth bounded |
| OFI (`ofi.hpp`) | levels of the last snapshot, a window of increments | `update` | sign and reversal of the signal |
| Hawkes (`hawkes.hpp`) | the recursive state R, the optimiser's parameters | likelihood, residuals, `fit_mle` | the recursion is the sum; converged means converged; stable parameters |
| Analytics (`analytics.hpp`) | none: reads the equity curve | `max_drawdown`, ratios | worst decline over all pairs |
| `calibrate_hawkes`, `bootstrap_ci` | a book, samples, arrivals, two calibration files | replay, fit, write, resample | no look-ahead; files whole or absent; structure kept |
| `validate_fidelity` | three cash accounts over one path | three executions | they differ by friction only |
| `run_backtest` | the calibration it loads | load, wire, report | one run's calibration as a whole, or the defaults |
| Converters (`scripts/*_to_csv.py`) | levels known so far and their synthetic ids | one per message kind | replaying the tape gives the exchange's book |
| Captures and batch scripts | files, reconnect delay, results per window | connect, retry, time out, rerun | every window attempted, whole windows measured |

### How they interact

`Backtester::run` is one thread. For each tape event it first executes every
command of the strategy that has arrived by the event's time, then the event,
then calls the strategy back. The strategy answers through the `OrderContext`,
which stamps each command with the clock plus a latency and puts it in a heap.
Both streams end in `MatchingEngine::submit` and `cancel`. While it matches,
the book calls `on_fill` for both legs of each trade; `route_fill` passes the
strategy's own fills to the portfolio, together with a mid price read from the
book *in the middle of the match*, and to the strategy, which may issue further
commands there. The converters produce the tape; ids, times and level changes
they write are inputs the loop trusts.

### What is hard

There are no threads in the C++ code; the difficulty is in re-entrancy and order. Callbacks
look at a half-updated book. The book keeps the same information three times
(queues, totals, index with iterators). Commands overtake each other under
jitter. The clock runs backwards for the time of a drained command. The tape
and the strategy share one id space. Strategies compare caps with a position
that does not know what is in flight. The converters lose information and
must recover from reconnects. Calibrations, backtests, captures and the batch
scripts are processes that meet in files, and any of them may stop anywhere.
`PROJECT.json` lists each hazard at its line.

## Modules

| Module | Models |
|---|---|
| `OrderBook` | `order_book.hpp` as a value `[levels, index]` and operators from one book to the next |
| `MatchingEngine` | `submit` and `cancel` as actions on that book, with the order lifecycle; the engine's properties and the refinement mapping |
| `PriceTimeBook` | the abstract specification: a set of resting orders and an arrival order, without levels, queues, totals or index |
| `Backtester` | the event loop, latency and an arbitrary strategy around the engine |
| `Portfolio` | the accounting of `portfolio.hpp` under any sequence of fills and marks, in exact arithmetic |
| `Accounting` | the loop with the portfolio it drives: slippage, the mid of a fill, the marks. Every action is one of `Backtester` joined with one of an instance of `Portfolio` |
| `StrategyLoop` | the loop with a strategy that is a program: a record of members and two callbacks |
| `MarketMaker`, `HawkesOFIMarketMaker`, `MeanReversion` | the three strategies, on `StrategyLoop` |
| `Strategies` | a run of the market maker or of mean reversion on its market, as `run_backtest` wires it |
| `Ofi`, `OfiStream` | the OFI of `ofi.hpp` as operators on books, and a book that changes under it |
| `CalibrationReplay` | the replay of a tape that `calibrate_hawkes` and `bootstrap_ci` share: engine, mids, samples, arrivals |
| `OrderFlow` | `OfiStream` or `CalibrationReplay`, one of the two in each behaviour |
| `HawkesRecursion` | the recursive state of the kernel in its three copies: likelihood, residuals, live strategy |
| `HawkesFit` | the control of `fit_mle` |
| `CalibrationFiles` | runs of `calibrate_hawkes`, their two files, and backtests that load one of them |
| `Calibration` | `HawkesFit` inside a run of `CalibrationFiles` |
| `BlockBootstrap` | the two resamplings of `bootstrap_ci` |
| `Fidelity` | the path and the three executions of `validate_fidelity` |
| `Analytics` | `max_drawdown`, and the percentile of `bootstrap_ci` |
| `TapeReplay` | rows of a CSV on their way into the engine |
| `KrakenConverter`, `BitmexConverter`, `LobsterConverter` | an exchange (external), its connection, the converter, and the replay of its rows, on `TapeReplay` |
| `SyntheticFeed` | `generate_synthetic_feed` |
| `CaptureBatch` | a capture window with its reconnects, the loop over windows, and the batch beside it |
| `MatchingEngineProofs` | the proofs about the order book's operators and the engine |
| `BacktesterProofs`, `AccountingProofs` | the proofs about the loop and about the loop with its portfolio, each on top of the one before |
| `StrategyProofs` | the proofs about the three strategies, on top of those about the loop |
| `SignalProofs` | the proofs about `OrderFlow` and `HawkesRecursion`, on top of those about the engine |
| `FeedProofs` | the proofs about `SyntheticFeed` and the three converters, the latter on top of those about the engine |
| `PortfolioProofs` | the proofs about `Portfolio` |
| `CalibrationProofs` | the proofs about `HawkesFit`, `Calibration`, `CaptureBatch` and `Fidelity` |
| `MC*` | the instances for TLC, one per run (`Portfolio` and `CaptureBatch` need a `.cfg` only); `MCStrategies`, `MCFeeds` and `MCEvaluation` join modules that share a question, one of them active in each behaviour while the variables of the others rest |

### Correspondence with the code

*OrderBook.* `levels[s]` is `bids_`/`asks_`, a partial function from price to
`[total_qty, queue]`; `index` is `index_`. The list iterator in a `Locator`
names one node; the model finds it as the node that carries the id, which is
the same node as long as `IndexMatchesQueues` holds (the first violation of
that property is where they could differ, and it is an invariant). One
iteration of the inner loop of `match_against` is cut in two, `TradeFront`
before the callbacks and `PopFront` after them, because that is where others look.

*MatchingEngine.* The variable `in` is the by-value parameter of `submit`,
`fills` the fills delivered during it. `Submit` covers the entry, acceptance
and the FOK check; `Trade` and `Settle` one iteration of the loop; `Rest`,
`Discard` and `Complete` the three ways it ends; `Return` the return.
`Cancel` is atomic: it runs no callback.

*Backtester.* `at` is the place in `run`: `feed` (loop head), `drain`
(`drain_pending`), `ours` (inside `apply_our_order`), `event` and `tape`
(`apply_market_event`), `data` (the strategy's callbacks after an event, and
`on_start`), `ended`. `event = EndOfTape` is the final `drain_pending(kMaxTs)`.
The strategy is open: wherever a callback runs it may submit any order of
`OwnOrders` or cancel any id it holds, so a property checked here holds for the
three strategies of the repository and any other. `filled`, `withdrawn` and
`horizon` are history for the properties; `filled` is also what the portfolio
and the strategies add up as their position.

*Portfolio.* The variables are the members. Prices are in half ticks, since a
mid is the mean of two ticks, so that every amount of money is an integer; the
average price and the realised PnL are quotients in the code and reduced
fractions here. `tick_size` and `qty_scale` multiply every amount and are left
out: what is shown is about exact arithmetic, and says nothing of rounding.

*Accounting.* `CurrentMid` is `current_mid`, `extra` the ticks that
`apply_our_order` has computed for the order being executed. A fill is routed
to the portfolio in the same step as to the strategy, at the point of the match
where the code calls `route_fill`. `SampledMark` and `FinalMark` are the two
calls of `mark_now` in `run`. Friction is on; a configuration with friction off
is the one with latency and impact 0, because an order with an empty opposite
side, the only case where `extra_ticks` adds a tick regardless, has no taker fill.

*Strategies.* `st` is the strategy's members, `todo` the commands its
`on_market_data` has decided on and not yet issued; they reach the
`OrderContext` one by one, as calls do. `on_fill` runs in the middle of a
match, by `ToldFill`. Every command draws a latency of its own, so commands overtake
each other: a cancel that is due before its order finds nothing and is lost
(`lost` remembers its id), and a quote may reach the book before the cancels that were issued ahead
of it. `sent` remembers, for each side, what the last order was for and how much was out
beside it when it was decided on. Both are history. The market maker's skew and the mean reverter's z-score
are exact (z is compared squared, so no root is taken). In
`HawkesOFIMarketMaker` the fused signal is any number of [-1, 1]; what it is
made of is in `Ofi` and `HawkesRecursion`.

*HawkesRecursion.* Decay by a power of two per tick makes the exponentials
exact integers; `Unit`, the weight of a new arrival, is large enough for the
fastest decay over the whole horizon, so that no division has a remainder. The three records are the local state of
`log_likelihood_and_grad` and `compensator_residuals` and the members of the
strategy, and every action is one event of the tape seen by all three.

*HawkesFit, CalibrationFiles, Calibration.* Where a step of Adam leads is any
pair of a log-likelihood and a spectral radius; what remains is the projection,
the patience, and the exits. A file is the run it is from and what can be read
of it; opening truncates and closing writes, as `ofstream` does with a file
this short, so a crash lies between the two. `pc` is the place in `main`.

*Converters.* The exchange, its messages and the connection are external. The
converter's dictionaries (`ids`, `id_to_price`, `remaining`) are variables; one
level, entry or trade of a message is converted in one step, since nothing
observes the script within one, and its rows are replayed one by one. Sizes of
the exchange are in fractions of a tape unit, so that `round(...)` can
lose a level; prices are ticks, one to one (`round(price / tick_size)` is taken
not to merge two of the exchange's). A trade takes a part of the best level or
all of it, and what it leaves is told on another channel or table, before the
trade or after it.

*LobsterConverter.* The exchange starts empty, so every order has its type 1
message. The branches for orders that have none (`remaining.get(order_id, size)`
at line 86, the default at 96, the missing `else` at 101) are translated and never
taken; a file that starts at 9:30 with orders from before does take them, and there
the replayed book lacks those orders, which the properties do not cover.

*BitmexConverter.* Out of connection the exchange goes on, and a `partial` is
converted like inserts (lines 87-106): it withdraws nothing. Three histories
name the levels about which the tape may then be wrong: `stale`, tracked
levels whose end was missed (they stay on the tape until the level is told of again);
`late`, levels of which a trade was converted after the size it left, so that it
was taken from the tape twice until the level's next entry, and levels that came
to lie across a stale one of the other side; `dust`, levels that are not tracked because
their size once rounded to nothing. Each is cleared by the message that sets the level right.

*CaptureBatch.* A capture file is as long as the time it was connected for.
`Second` passes only when the capture has nothing to do at once (`Due`), as an
event loop runs whatever is ready; a connection may drop, an exception end
the process, and a process hang. The batch reads the files as they are at each step.
`kraken_ws_to_csv.py` writes row by row, so a conversion that fails leaves a CSV of
any part of the window, which a later batch without `--force` takes for finished.

*BlockBootstrap, Fidelity, Analytics.* Times are in units of 1 / `NBlocks` of a
tick, so that a block has a whole length. Prices and costs are in ticks. A
drawdown is a pair of numerator and denominator.

## Runs

| Run | Question | Bounds |
|---|---|---|
| `engine` | do index, queues and totals stay together (`BookConsistent`); is the book never crossed; do fills, status and the FOK promise settle every order (`OrderSettled`); is it a price-time priority book (`ImplementsPriceTimeBook`) | four ids (a symmetry set), three prices, quantities 0 to 2 |
| `loop` | are commands and events merged in time (`TimeOrder`, `NothingOverdue`); is every own unit accounted for; is a cancelled order gone for good (`CancelSticks`); does `run` return (`RunEnds`) | two tape events and two commands, gaps 0 or 1, latency 0 to 2 |
| `portfolio` | do the decomposition and realised plus unrealised PnL give the total | four fills, any number of marks |
| `accounting` | is every fill booked with a mid that is positive and on its right side; does the portfolio hold what the strategy was told, and is the residual gone in the end (`AccountsClose`) | three events, two commands, three prices |
| `strategies` | which orders does the market maker lose (`MakerKnowsItsQuotes`), which sides does it quote and how far does it pass its cap (`MakerQuotesToTheCap`); how far does the mean reverter pass its cap (`TakerCapped`) and a flatten zero (`TakerFlattens`) | five and seven events, gaps 0 or 1, latency 0 or 1 |
| `hawkes_ofi_mm` | is every open order a quote, being cancelled, or one whose cancel was lost (`StraysAreLostCancels`); when does the strategy trade with itself (`MeetsOnlyRecalled`); how far does the position pass its cap (`InventoryContained`) | four events, gaps 0 or 1, latency 0 or 1 |
| `feeds` | is the replayed book the exchange's, and every order of the tape one that can be withdrawn (`KrakenBookFollows`, `BitmexBookFollows`, `LobsterBookFollows`); is the synthetic book bounded | five, seven and six messages; five synthetic rows |
| `order_flow` | does OFI have the sign of the change (`OfiFollowsTheBook`); does a sample see its own future (`RegressionIsCausal`) | six events; levels over three bid and two ask prices |
| `hawkes` | is the recursion the sum, the live state the offline one, the residual sum the compensator | four arrivals, horizon 5, two marks, two components |
| `calibration` | does converged mean a plateau; is what a backtest loads the whole result of a stable fit (`LoadedIsAFinishedRun`) | two runs of up to four iterations, crashes at every step |
| `evaluation` | do replicates keep the tape's structure (`BlocksAreCopiedWhole`); is the drawdown the worst decline, the percentile a percentile (`StatisticsAreDefinite`); do three executions differ by friction only | four arrivals, six marks, three steps |
| `capture` | does backoff fit into the grace period; is every window tried; does a forced run measure whole windows | two windows of three seconds with three of grace, two batches |

All of them pass. Every property has a mutant in `PROJECT.json`: a plausible
mistake in one definition, kept beside the definition it changes, that makes
the property fail in the same instance. Properties that belong together are one
conjunction of named parts, each with its own comment: `BookConsistent`, for
example, is `BookIndexed`, `BookTotals` and `NothingSpentRests`.

### Bounds, and why they are enough

Engine: three orders give a queue with a middle, two levels to sweep and a
partial fill in each, and the fourth comes in; quantity 0 is included because
the CSV loader produces it. Ids are only compared for equality.

Loop: equal times, overtaking commands and commands still in flight at the end
of the tape all occur. The tape's times do not decrease (`Gaps \subseteq Nat`):
`run` assumes that of its input. The Kraken converter does not guarantee it,
since its trades carry another clock than its depth.

Portfolio: two prices, two quantities and three mids (one of them between two
ticks), so that the position averages in, closes in part and in full, and
flips, in both directions. Accounting: a sweep crosses two levels of asks; an own order
can rest, take, meet the strategy's other order, and be large enough for one
tick of slippage (`ImpactNum / ImpactDen` is the default 0.5); a mark after
every second event. `ResidualVanishes` (in `AccountsClose`) is about runs that end with a mid.

Strategies: each has a tape that brings out what can go wrong with it: two
units on either side of a wide spread, aggressors that take a quote in part, in
whole, or with the market behind it, and, for mean reversion, offers whose
coming and going moves the mid away and back. The cap is one quote, so that it
is reached after one fill. The shipped latency is 50 us +/- 20 us
(`friction.hpp:12-13`) and rows of a tape are a microsecond or two apart, or at one
time (`data_feed.hpp:69-77`). What matters of that is the order in which things
arrive: with gaps of 0 and 1 and a latency of 0 or 1, any number of
events come while a command is under way, commands overtake each other, cancels
overtake their orders, and requotes follow each other at one time. Latencies that span more
events give longer runs of the same; the theorems below hold for all of them.

Feeds: three prices or levels, and sizes of nothing, less than a unit, one and
two units: enough for a level to vanish by rounding and come back, a drop between two
messages that each matter, and, with three LOBSTER orders, a queue whose middle
is cancelled. BitMEX' seven steps are enough for a level to be deleted in a gap,
survive the partial, and be crossed by the other side, and for a partial trade whose
size comes first. The synthetic ring holds two, so that it is full from the third add on.

Order flow, Hawkes, evaluation: a depth of two with three bid prices lets a
level be pushed out of the snapshot and return; two components with one decay
of zero and arrivals at one time exercise the three cases of the kernel; three
blocks over spans that divide evenly and spans that do not.

Calibration, capture: a plateau of two within four iterations can begin, break
and begin again; three seconds and three of grace are enough for the backoff to reach
its bound and for a sleep to end after the deadline, and two batches for one to convert what the other reads.

Deadlock checking is off where a script, a tape or a curve ends, and on
elsewhere; a backtest that has returned stutters in `Stopped`.

### Fairness

`BTFairSpec` assumes weak fairness of the steps of `run` only, which contain
those of `submit`: straight-line code of one thread, so a step that is enabled
is taken. Nothing is assumed of the environment: the tape and the strategy need
not issue anything. Callbacks return, which is the assumption about a strategy
that `EndCallback` and `EngineStep` make. `CBSpec` assumes weak fairness of the
capture scripts as a whole: the processes run, and time passes for them. It
assumes nothing of the network, which may refuse, drop or hang every
connection, and nothing of the batch.

## Proofs

| Module | Theorems that state a property of a run | From |
|---|---|---|
| `MatchingEngineProofs` | `TypeCorrect`, `IndexAgrees`, `TotalsAgree`, `OnlyTheFrontIsSpent`, `BookStaysConsistent`, `NeverCrossed`, `OrdersSettle`, `EngineIsAPriceTimeBook` | `PriceAssumption`, `MaxQtyAssumption`, `OwnersAssumption` |
| `BacktesterProofs` | `LoopUsesEngine`, `Causality`, `OneTimeOrder`, `QuantityIsAccountedFor`*, `CancelsStick`* | also the named assumptions of `Backtester` |
| `AccountingProofs` | `AccountingUsesLoop`, `MakersEarn`, `AccountingImplementsPortfolio`*, `AccountsAreClosed`* | also `MarkAssumption`, `ImpactAssumption` |
| `StrategyProofs` | `NothingStrays`*, `OldQuotesMeetOnlyRecalled`*, `InventoryStaysContained`*, `MakerKnows`*, `MakerKeepsToTheCap`*, `TakerStaysCapped`*, `TakerRevertsToFlat`* | also the named assumptions of the strategies |
| `SignalProofs` | `OfiHasTheSignOfTheChange`, `RegressionUsesThePast` | those of the engine, `OfiAssumption`, `StreamAssumption`, `ReplayAssumption` |
| | `RecursionSumsTheHistory`, `LiveStateIsTheOfflineOne`, `ResidualsAddUp`* | `HawkesAssumption` |
| `FeedProofs` | `TheRingBoundsTheBook` | `SyntheticFeedAssumption` |
| | `LobsterBookIsRebuilt` | those of the engine, `TapeAssumption`, `LobsterAssumption` |
| | `KrakenBookIsFollowed` | those of the engine, `TapeAssumption`, `KrakenAssumption` |
| | `BitmexBookIsBounded` (two of the three parts of `BitmexBookFollows`) | those of the engine, `TapeAssumption`, `BitmexAssumption` |
| `PortfolioProofs` | `DecompositionIsExact`, `ProfitAddsUp` | `FillAssumption`, `MidAssumption` |
| `CalibrationProofs` | `ConvergenceIsAPlateau`, `FitIsStable`, `BacktestsLoadFinishedRuns`*, `FrictionIsAllThatDiffers`, `RunsStayOnTarget`, `CapturesEndByThemselves`*, `ForcedSummariesAreWhole` | `FitAssumption`, `CalibrationFilesAssumption`, `CaptureBatchAssumption`, `FidelityAssumption` |

Theorems with a star have a hypothesis of their own, which the code does not
enforce; each is named and explained below, and the instance TLC checks satisfies it.

### The engine

`IInv` is what makes the book's invariants inductive. It joins them and adds
what ties the phase of `submit` to the book: while a trade is being reported,
the best opposite level exists, is the one just traded at and crosses the
order; in every phase the incoming order does not trade through a spent node.
The index is needed to keep types (a pop removes the id it finds in the node),
the totals need the index (a cancel subtracts the quantity of the node it
unlinks), and the uncrossed book needs the loop's exit condition: an order
rests only when the best opposite level does not cross, and, as prices are
finitely many integers, every other level is then worse.

`OrdersSettle` needs sums. The lemmas about sums characterise the fold
`SumFunctionOnSet` over any finite set (`SumTake`, `SumAdd`, `SumSame`,
`SumChange`, `SumByParts`), with induction stated for a set of naturals. `SInv` then adds to
`OrderSettled` what the all-or-nothing promise of FOK rests on: the depth that
was marketable when `fully_fillable` looked is, less what has been traded, still there
(`DepthStillThere`). A trade takes the same amount from both sides, a pop takes a
level's empty node from neither; a FOK order that stops early would have to
face a level that does not cross, and then nothing is marketable and nothing is left.

`EngineIsAPriceTimeBook` is the refinement. The abstract state is computed
from the book: the resting orders from the index and the nodes it points to,
and who is ahead of whom from places in the queues. The lemmas about the book say what
insert, cancel and trade do to both (`InsertEntries`, `CancelEntries`, `TradeEntries`;
`InsertPlaces`, `CancelPlaces`, `TradePlaces`), so that a step becomes one
equation between two functions: a leave drops an order and forgets who was
behind it, a join puts it behind everybody at its price. That the abstract
book's `Available` is the engine's depth (`AvailableIsDepth`) is the double
sum over levels and queues taken apart by `SumByParts` and `QueueQtyByIds`,
and uses that the cached totals are right.

### The loop

`LoopUsesEngine`, `BTSpec => Spec`, comes first: wherever the loop is, the
engine takes a step of its own or none, so all of the above holds in every
backtest. `LInv` says that the engine works exactly while the loop waits for
it, that the commands in flight are finitely many and numbered apart (so the
heap has a first one), and on which side of the clock and the horizon each of them
is; `Routing` that the unrouted fills are legs of the last trade only. From it
follow `Causality` and `OneTimeOrder`, with any jitter.

`OInv` keeps the account of an own order's quantity. An order is in one
place at a time, in flight, in the engine or on the book (`OnePlace`), a
cancel is in flight behind its order (`CancelsFollow`), and what was
reported, what the unrouted legs report and what is in those places add up
(`Accounted`). `QuantityIsAccountedFor` and `CancelsStick` assume
`TapeIdsApart`: no event of the tape carries an id the strategy may be given.
`data_feed.hpp:28-30` reserves ids from 2^40 on for the synthetic tape;
converted tapes number from 1, and then `insert` refuses the second order with
an id, after it may have traded. The hypothesis marks where the theorem stops.

### The portfolio

`DecompositionIsExact` is not inductive alone, because it does not say which
position earns the next move of the mid. `DecompositionInv` adds that: the reference position is
the position, at the reference mid the two components are the whole PnL, and
before the first mid nothing has been earned or held. A step of the clock and
a fill then come down to one identity each (`ClockIdentity`, `FillIdentity`).

`ProfitAddsUp` is about fractions in lowest terms. `RatioIs` shows that `Ratio`
is the quotient it stands for; a fill then is one of three cases
(`FillCases`: the average moves, a part is realised, or both after the position
has changed sign), each an identity of polynomials multiplied by a
denominator and divided by it again (`GrowIdentity`, `ReduceIdentity`, `FlipIdentity`).

`AccountingImplementsPortfolio` joins the two sides: each step of the
loop is a fill or a mark of `Portfolio`, with a positive mid and a price
within the slippage bound, or leaves it alone. That the mid is there when
`route_fill` asks for it follows from `LastTrade`, the two legs in the
callback are at the best price of a level that is still on the book, which also gives `MakersEarn`. `HInv`
says that the position is the sum over the strategy's orders and that each
counted fill was for something, `SlipBound` that an order that can
trade was moved by at most what the largest order pays on one visible unit.
What `PortfolioProofs` proves then holds of the loop, and with `MarkedAtEnd` (the
last mark is at the reference mid when `run` has returned) gives
`AccountsAreClosed`. The hypotheses are `TapeIdsApart` and `PositivePrices`:
`current_mid` returns 0 for an empty book and the portfolio takes it for that.

### The strategies

A strategy sees the book now and acts on it later: its commands are in flight
for a latency each, its fills are reported in the middle of a match, and partial
fills make it forget a quote that still rests. `StrategyProofs` says how far
what it knows can be behind, for every latency, jitter and tape. All its theorems assume

* `TapeIdsApart`, as above.
* `[]OrdersFit`: what the strategy decides to submit is an order of the model,
  with its price in `Price` and its quantity in `1 .. MaxQty`. `Price` is finite
  because the book searches it for the best level; it is of any size.

`SBase` joins what holds for any program in the loop, on top of `BInv` and
`OInv`: commands wait to be issued (`todo`) only inside `on_market_data`, and cancels
are for ids that were given. The lemma `Passage` says
that an order only goes on: from the heap into the engine and from there to the
book; a cancel that is not lost leaves nothing of it (`CancelDelivered`).

What the two market makers do in `on_market_data` is one kind of step,
`QuoteStep`: cancel the quotes remembered, place new ones with the next ids,
remember those. `QInv` is invariant under it, under fills and under the
loop (`StepQInv`): no remembered quote is being cancelled (`Fresh`), and
every order that can still trade is remembered, has its cancel on the way or about
to be issued, had a cancel that was lost, or was forgotten at a fill (`Tracked`).
`NothingStrays` is that for a strategy that does not forget, and
`OldQuotesMeetOnlyRecalled` follows from it: at most two orders are remembered, they are a bid
below an ask (`Wide`), and a trade crosses (`TradeCrosses`), so one of the
two orders of a trade with oneself is not remembered. The market maker forgets a
quote on its first fill; `Untouched` says that a quote it remembers was never
filled, so that it can still trade, and `Posted` that while it has quotes they are those
the cap allows.

How far a position can go is a count. `Committed(s)` is what is left of
all orders on side s that can still trade or have a fill waiting to be told
(`LiveIds`), and `Reach(pos, limit)` says that the position, and whatever of
`Committed` and of the commands still to be issued adds to it, stays within a limit for the side.
Latency, matching, fills and lost cancels only move quantity from one of the terms to another or
take it away (`ReachGoesOn`); only a decision adds, and `ReachDecided` compares what
it adds with the limit that `sent` then states: what was out beside it, which is at
most `Committed` (`CommittedIsUnfilled`), and one order on top of a position
that was below the cap. `Far` is this for a cap; it gives the third part of
`MakerQuotesToTheCap` and `InventoryContained`, and for the mean reverter both
`TakerCapped` and `TakerFlattens`: a flatten adds as much as the
position is away from zero, so its limit is what was on its way beside it. The other part of
`InventoryContained` is `AtCap`, which carries the side that was stopped from
the decision to the next event.

What the hypotheses of an ideal connection would give, and the code does not: with a latency
that never varies no cancel is lost, so nothing strays; with events further apart than commands
take, `sent` has nothing beside it, the taker stays below two entries and a flatten
ends at zero. Neither is how the programs are run.

### Order flow

`level_ofi` compares the m-th level of two snapshots, whatever their prices. So
when a side grows, the m-th level may be another one than before, and the sign
of OFI is not plain. A price's rank is the number of better prices
(`EveryRankIsTaken`: on a finite side every rank has its price, one). Adding
prices can only increase the ranks of the old ones, so the price of rank m
only improves (`PricesImprove`), or stays with no less on it, and each term is
at least zero (`GrownTerm`), for every depth. A side that shrinks is one that grew,
seen backwards, and `level_ofi` of two snapshots is the negative of that of the
two in the other order (`TermTurns`, `OfiTurns`): that is also
`ReversalCancels`, and it holds because `>=` and `<=` in the code share their
equality case. `OSInv` adds that every level has a positive quantity.

`RegressionUsesThePast` follows the replay with `CRInv`. `RollsOver` says what
`RollingOFI` holds: the increments of the last `Window` updates and their sum, as
the sum over the history of snapshots; `UpToNext` moves the window by one. A sample
then has the sum at its own snapshot, which later snapshots do not change
(`UpToKept`). `MidsFollow` says how a mid follows from the book or from the mid before;
by induction over the snapshots it is that of the latest two-sided one
(`MidsAreLatest`), so positive exactly when there is one, prices being positive.
What `Resolve` gathers is given by a recursion over the samples: it exists, is
unique, and has one pair for each sample with known mids (`GatherExists`,
`GatherUnique`, `GatherIs`). The book shows what it should because `IInv` of
the engine is part of `CRInv`: levels are typed and the best price is the first.

### Hawkes

R is never compared with another R. Each copy is compared with the history:
`IsStateOf(R, es, t)` says that every `R[i][j][p]` is the sum, over the
arrivals of es marked j, of `Unit` decayed by the arrival's age at t. This fixes R
(`SameState`), so two copies that are states of one history at one time are
equal, however often each was decayed in between. `RInv` states it of the three,
each at its own clock, and needs three lemmas: decaying by d moves the state from t to t + d
(`DecayState`), an arrival appends to the history (`MarkState`), and before the first
arrival there is nothing to decay, whatever the clock says (`NoHistory`).

Division of integers makes the first of them less than obvious: a sum is divided, not
its terms. `UnitDecays` shows that nothing is lost: `Unit` is a power of two
as large as the fastest kernel needs over `MaxDuration`, so every weight that occurs is
again a power of two and every further decay divides it exactly. Taking each
weight out of the sums over marks, components and arrivals, and putting the sums in
the other order (`SumSwap`, `OverHistory`), gives `intensity_naive`'s sum, and with it
`RecursionSumsTheHistory`; `LiveStateIsTheOfflineOne` is `SameState`.

`ResidualsAddUp` adds `ResidInv`: the residuals of a mark and its running part are
the compensator of the history so far less that at the mark's first arrival
(`Upto`, `Since`). `Upto` does not depend on when the tape begins (`UptoIs`), and from
one arrival to the next it grows by what `compensator_residuals` integrates over the gap
(`ChargeGrows`): the mass of a kernel up to t + d is that up to t and what the decayed
kernel adds in d (`MassGrows`), and by `IsStateOf` the kernels of all arrivals
together decay as R. Its hypothesis `SlowIsNone` is that a decay of at most `NoDecayBelow`
(1e-12 in the code) is 0. A positive one is integrated as if it were none, piece by piece of a
weight that shrinks from gap to gap in the residuals, in one piece and at full weight in the
likelihood; then the two differ, and the property can fail.

### The synthetic feed

`TheRingBoundsTheBook` rests on `Sound`, what the property says of a tape and all its
prefixes. `GenInv` is kept by every event the generator emits, not only by every
iteration: the ring holds exactly the ids added and not withdrawn (`Holds`), in
increasing order, and every id is below `next`. Hence the front of the ring is the oldest
order left, so that withdrawing it leaves only newer ones and no order is withdrawn twice;
and the ring may be one over its capacity only between an add and the cancel behind it
(`OrderEmitted`, `RingEvicts`). A tape cut by `resize` is sound because its prefixes were (`CutIsSound`). That prices stay
positive needs the floor of the mid to be more than the levels and one, as 100 is more than 6
(`SyntheticFeedAssumption`).

### The LOBSTER tape

`LobsterBookIsRebuilt` follows a message of the exchange through the converter
and the rows it writes into the engine's book. A view (`View`) is what the
exchange shows, a queue for each side and price; a book mirrors a view when it
holds the same orders with the same sizes in the same order (`Mirrors`). The
property speaks of quiet moments; between them the converter is a message
behind the exchange, or the replay up to two rows behind the converter and in the
middle of `submit`. `LBInv` says where each of them stands:

* `OnTheWay`, once the message is converted: some view is where the engine's
  remaining steps lead (`InProgress`), and the rows to come lead from it to what the
  exchange shows (`Leads`, row by row `RowLeads`). An execution is the case that needs
  `InProgress`: between the trade and the pop the book is neither the old view nor the new.
* `OneBehind`, while a message waits: the book mirrors a view from which the
  message leads to the one shown now (`MessageLeads`).
* `ExchangeOK`: the exchange's ids are given once and its sides are apart
  (`Good`). Without the first, a cancel could take the wrong order out of the book; without
  the second, an added order could trade.

What the converter remembers (`Knows`) is needed for the book and not only for
itself: the size that a type 2 message leaves is written from it. Once an order
has been overtaken the invariant keeps `Good` and `Knows` only, and the property asks
for no more.

### The Kraken and the BitMEX tape

Both converters keep one order for each level they know, and the engine
may take that order away, in part or whole, when a trade or a crossing add is
replayed; a cancel then finds less than was added, or nothing. `Tracks(i, c)` is what
survives that: everything that rests, is being submitted or waits in `rows` to be added is an
order i tracks, under the id and at the level i says, and of no more than the cap c there,
unless the next row cancels it.
It is kept by every step of the engine and of the replay for any i and c
that rest; a row only has to add what is tracked and within the cap. `NoGhosts` and
`EveryOrderIsTracked` are its first half, `NeverDeeper` and `NoLevelIsDeeper` its second.

`KrakenBookIsFollowed` takes for the cap what the exchange has, for the levels that
the socket says nothing more of (`Capped`). `SnapshotResyncs` needs equality, which comes from how a
snapshot is converted (`Resyncing`): first every known level is cancelled, and
as everything on the book is tracked, the book is then empty; from there every add
finds levels of its own side and none it crosses, as the exchange's book is uncrossed, so the book
is level by level the one sent so far (`Resynced`, with `Leads` and `InProgress` of the LOBSTER proof).

`BitmexBookIsBounded` takes for the cap what the exchange has, and for the levels that are
stale or told of by an entry still on the wire, `MaxQty` (`Caps`). `BMLevelsOK` says that
each tracked level is one of the exchange's on its side, is stale, or has its end on the wire, and
`Says` what an entry on the wire knows. The third part of `BitmexBookFollows`,
`LevelsAreAsDeep`, is model-checked only: it needs to know of every level that no trade was
taken from it twice and that nothing on the other side was in its way, over a wire whose entries
are half converted.

### Calibrations, captures, executions

`FitInv` says that the patience counter is the length of the plateau the last
likelihoods form, and that it is less than the number of iterations; so
`converged` is reported on a plateau only, and with a patience of at least
`max_iters`, which is how the defaults are, never (`DefaultsNeverConverge`).
`BacktestsLoadFinishedRuns` follows a calibration into its files. `Secured(r)`
says that run r has a good fit and its dated copy, and that no run which is
writing or will write has a name of the same second; the latest file is
absent, empty, another's, or that of a secured run (`Genuine`). It
assumes `CarefulUse`: at least one iteration, an excitation above 0 (the code
has `exp(w)`), a fit of at least one second, without which two runs share a name, and that whoever
replaces the latest file puts a whole calibration, or none, in its place.

`CapturesEndByThemselves` assumes `WaitsFit`: the first and the longest backoff
and the longest attempt to connect are within the grace (2 s, 60 s and some ten
seconds within 120 s in the scripts). Every wait that begins in a window then
ends within it and the grace, and the next thing the capture does is to look at
the time. `ForcedSummariesAreWhole` rests on the captures being over when the
batch starts: from then on no file grows, and each converted length is the recorded one.

`FDInv` adds to the two properties of the fidelity study that every variable is an integer, and that all
three positions are equal, which the gross PnL needs to be one account for all three.

### Checked, not proved

* `RunEnds`, `EveryWindowIsTried`: liveness, outside the prover's reach.
* The bootstraps' blocks, the drawdown and the percentile: induction over data.
* `LevelsAreAsDeep` of the BitMEX converter, the third part of `BitmexBookFollows`.

## Where a text and the code differ

Properties are stated so that they hold of the code; where a comment promises
more, the property says where it stops.

* `order.hpp:10-11`: the status never drifts from the remaining quantity. An
  order of quantity 0, which `load_csv_feed` makes of an empty field, ends
  `Accepted`; `StatusTracksRemaining` is about positive quantities.
* `data_feed.hpp:28-29`: market ids never collide with strategy ids. The range
  is used by the synthetic feed only; the converters number from 1, as the
  strategy does. The modules of the loop give the tape ids of its own.
* `portfolio.hpp:118-120`: the residual is rounding. `mark_now` skips an empty
  book, so a final flush that empties it leaves a residual of the position times the move since the last mark.
* `market_maker.hpp:6-8`: it quotes inside the spread. The skew is not bounded
  by the distance to the touch, and with inventory a quote can take.
* `mean_reversion.hpp:31`: revert to flat. With a latency that spans events, as
  the shipped one does, the next event decides as if the flatten before it did not exist,
  and the second one opens the other side. `FlattensToFlat` says by how much at most.
* `hawkes_ofi_mm.hpp:102`: over the cap, stop adding more risk. The strategy sends nothing
  more that adds, but a quote whose cancel overtook it stays in the book and is never
  withdrawn, so risk can still be added; `OverTheCapOnlyReduces` is about the orders
  that were not recalled.
* `data_feed.hpp:35-36`: the touch is left open. The mid walks towards orders
  that stay where they are.
* `ofi.hpp:74`: summed over the available levels. Missing levels count as empty ones.
* `test_hawkes.cpp:10-11`: the recursion is the naive sum exactly.
  `intensity_naive` leaves out arrivals at the same time; `RecursionIsTheSum`
  counts them, as the recursion does.
* `hawkes.hpp:338`: decays below 1e-12 are integrated as none, by the residuals
  over each gap and by the likelihood over the whole tape, and the two then differ
  (the hypothesis of `ResidualsAddUp`).
* `calibrate_hawkes.cpp:21-23`: rerun with more iterations if not converged.
  With the default of 2000 for both, converged cannot be reported (`DefaultsNeverConverge`).
* `calibrate_hawkes.cpp:132`: the return over the next `horizon` events. At the
  end of the tape it is over fewer, down to none.
* `calibrate_hawkes.cpp:7`: nothing gets overwritten. Two runs within one second share their names.
* `run_backtest.cpp:70-72`: defaults if the file does not parse. A short line
  repeats its last number, and a field that is no number ends the program;
  `ReadsAWholeCalibration` is about files that `calibrate_hawkes` wrote.
* `bootstrap_ci.cpp:16-23`: replicates are refitted. One with fewer than 20 arrivals enters as 0.
* `analytics.hpp:39-42`: variance on the upside gives a Sortino above the Sharpe.
  The downside sum is divided by the number of losses, so rare losses count in full.
* `kraken_ws_to_csv.py:13-21`: the tape is the exchange's book. A level that
  shrinks below a unit keeps its old size, and the bids of a message are
  written before its asks, so that a bid can meet an ask that is about to go.
* `bitmex_ws_to_csv.py:116-118`: unknown ids are levels never seen. A level
  whose size rounded to zero was seen and is skipped as well (`dust`).
* `bitmex_ws_to_csv.py:98-99`: that a partial or an insert finds a tracked id should not
  normally happen. It does after every reconnection, when a partial lists what is tracked; what
  it does not list stays on the tape (`stale`).
* `lobster_to_csv.py:13-14`: the engine reconstructs the book. A partial
  cancellation loses its place in the queue; `ReconstructsTheBook` holds until
  such an order has been overtaken.
* `process_all_captures.py:11-13`: safe to re-run. A window converted while it
  was being captured, or whose conversion failed half way, stays cut short unless `--force` is
  given, and its part is reported as the window; `ForcedSeesWholeWindows` is about runs with `--force` only.
* `process_all_captures.py:25-28`: the summary of all processed windows. A
  calibration that times out ends the run without one.

## Not modelled, and why

* The floor of the intensity at `hawkes.hpp:147`, before the logarithm, which no property is about.
* Floating-point numerics: gradients and Adam's arithmetic, the power iteration
  of `spectral_radius`, logarithms, the Sharpe and Sortino ratios, correlations,
  the Monte Carlo of `validate_fidelity`. Real analysis is outside what TLC can
  represent; the control around it is modelled where it has any.
* Argument parsing, CSV text, logging, printing and plots: no state that a
  property could be about.
* `on_stop` may submit orders that are never executed, since the last drain is
  over; no strategy of the repository overrides it.
* The Coinbase capture, `crypto_trades_to_csv.py`, `generate_data.py`,
  `calibrate_all_binance_days.py`, `multiwindow_stats.py`, `benchmark.cpp`: one
  loop each over rows, files or time without state between the iterations.
* LOBSTER's `--validate`, which repeats the replay and prints.
* The gap between two capture windows is any time; nothing but the batch runs in it.
