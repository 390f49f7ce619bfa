# t2s in TLA+

t2s collects Binance market data: C++ feed handlers read trades and order
books from WebSockets, a kdb+ tickerplant (TP) numbers and logs every row, a
write database (WDB) stores the rows on disk, and a set of tools checks,
rebuilds and analyses what was stored. Its central promise is the README's "No
silent loss": a row is stored exactly once, or its absence is counted and
visible. The modules here model the code that keeps this promise, check it
with TLC on small instances and prove most of its safety with TLAPS.

Paths below are relative to the repository. `PROJECT.json` maps every
definition to the lines it models and lists runs, mutants, findings, hazards
and theorems.

## The system

| component | state it keeps | operations | talks to |
|---|---|---|---|
| TP counter (`kdb/tick/tp.q`, `.tp.seq`) | `tpSeqNo`, the reservation in memory and on disk, daily logs | start (load, migrate, raise), number a row, rotate at midnight | WDB compares its checkpoints with these numbers |
| TP sessions (`tp.q`, `.tp.session`, `.tp.checkSeq`, `upd`) | last `fhSeqNo` and session id per table, session file, counters of missed and out-of-order rows | register a handler, check and log a row, log an event, recover at start, end of day | handlers (sync registration, async rows), subscribers |
| `TpPublisher` (`cpp/include/tp_publisher.hpp`) | handle, resend ring | connect, register, resend, publish, send an event | TP |
| WDB (`kdb/tick/wdb.q`) | buffers, floor and checkpoint per table, `tmp.<date>` directories, HDB partitions | receive, flush, checkpoint, replay the logs, roll, shut down, reconcile at start | TP (subscription, cutoff), TP's log files |
| Log reader (`kdb/tick/logreader.q`) | seek index beside each log | read rows from a position, survive a torn end | used by WDB and the tools |
| Order book (`cpp/include/order_book_manager.hpp`) | levels, horizon, sequence state, delta buffer, held refresh snapshot, last published quote | apply an event, sync from a snapshot, refresh, quote | quote handler |
| Quote handler (`cpp/src/quote_feed_handler.cpp`) | loop, outstanding request per symbol | drain results, read a message, publish, reconnect | exchange, worker thread, TP |
| Snapshot worker (`cpp/include/snapshot_worker.hpp`) | two bounded queues, one thread | fetch a snapshot | exchange (REST), quote handler |
| Snapshot scheduler (`cpp/include/snapshot_scheduler.hpp`) | token bucket, backoff per symbol, pause | grant or refuse a request, note an outcome | quote handler, backfill |
| Trade handlers, gap tracking, backfill (`cpp/src/trade_feed_handler.cpp`, `cpp/include/trade_gap.hpp`, `trade_backfill.hpp`) | last trade id per symbol, open gaps, queued events, worker thread | classify an id, record a gap, fetch missing trades | exchange (stream and REST), TP |
| Row clock (`cpp/include/row_clock.hpp`) | last exchange time | choose a row's time | handlers |
| Tools (`kdb/utils/*`) | none while the system runs | log retention, rebuilding a day, checks, loaders | logs, HDB |
| Research (`kdb/framework`, `kdb/strategies`, `kdb/ml`) | positions, features | back tests | HDB |

What is hard here: asynchronous writes to peers that may be dead; a resend
that may break in the middle; rows that travel asynchronously and gap events
that are acknowledged, on one connection; a file, a log and memory that are
written at different moments and disagree after a kill; a replay that races the live
stream; directories that move between stores; days that change in the middle
of everything; snapshots that are older or newer than the stream they are
joined with; two threads that exchange requests and results through queues
that drop.

What makes each part correct:

* TP counter: a number is never used twice.
* Sessions: the reply to a reconnecting handler separates what TP has from
  what it has not; a row is lost or logged twice only if it is counted.
* WDB: no row is lost, none written twice; what it refuses as a duplicate it
  really has; what is in the HDB is below the saved checkpoint.
* Order book and quote handler: a book that claims to be valid is the
  exchange's, what is published is exact at its update id, a hole in the
  published ids is marked, a lost request does not block a symbol.
* Trades: every hole in the exchange's ids is recorded and, where possible,
  filled, each trade once; what TP calls backfilled is in its log.
* Scheduler: our share of the exchange's limit is kept, pauses are obeyed, and
  nobody who asks waits for good.

## Modules

### `TpSeqNo`, `SeqAllocator`

`SeqAllocator` is the promise: an allocator that only ever issues a larger
number. `TpSeqNo` is the code: the counter, the reservation in memory and on
disk, the daily logs, TP up or down. `Start` is the whole startup (open
today's log, load the reservation or migrate from the newest log, raise the
counter to today's log, persist); `LogRow` is one row or event through `upd`
or `.tp.event` with the reservation it may have to write first; `LogFails` is
the write to the log that throws after the number was taken; kills fall at
rest, inside the startup and between a reservation and its row. A logged entry
keeps whether a scan counts it, because `.tp.scanUpd` skips gap events and
unknown tables. `ImplementsAllocator` maps the numbers in the logs to what the
allocator has issued.

### `TpSession`

One handler and TP, for one table. A row is its session and its `fhSeqNo`.
Each connection is a FIFO stream of its own; TP may still read the rows that
reached it on an old connection after a new one has registered. `Connect` and
`ConnectLost` are a registration with its reply and its resend, complete or
broken off at any row. `Upd` and `UpdFails` are `upd` with `.tp.checkSeq`.
`TpStart` is `.tp.session.load` followed by `.tp.recoverFhSeq`. The counter of
missed rows is kept as the set of the rows it stands for, so that a property
can say which rows were counted; rows `upd` has failed on are in `refused`.
`OldSessionLingers` and `StartsNextDay` say whether rows of an ended session
may still be read and whether TP may start on a day whose log does not exist
with a session file that is not current.

### `Wdb`

WDB and the part of TP it sees. Row n is the one with `tpSeqNo` n; it has a
table, a date and the day of the log it is in. A handler of WDB is one step;
a handler that flushes takes an outcome, which says whether a write or a save
fails, and kills have actions of their own at the points where half of the
work is on disk: inside a flush between dates and between write and
checkpoint, inside a roll between dates, inside the merge of a replay, which
goes table by table. What is written in one piece is one date's rows of one
table: `.[p; (); ,; rows]` appends to a splayed table column by column and
`disksort` rewrites a partition's columns in place (`wdb.q:372`, 441-461), and a
kill or a full disk inside either leaves columns of different lengths or
orders. The models do not have such a state, so none of the properties says what
becomes of it. A checkpoint file that cannot be read, which a start takes for
zeros (`wdb.q:240-243`), is left out too: it is replaced by a rename. `conn`
splits `.wdb.connect` where other processes can come in between: after the
subscription and after TP has answered with the cutoff. The log reader is
taken to return every row from a start at or below the one asked for. A buffer
is the number of times it holds each row: a flush sorts its rows by date, and
nothing else depends on their order in the table.

`RowStore` is the promise: rows are logged one after the other, stored rows stay
stored, and of each table the first rows are stored, never one without all
before it. `ImplementsStore` maps the tables of TP's log to what is logged and
the rows in `tmp.*` and the HDB to what is stored, so buffers, checkpoints,
replays and every kill between them are steps that store more rows or none.

### `OrderBook`, `QuoteFh`

`OrderBook` holds the operators of `OrderBookManager` on the record of one
symbol, for one side. `QuoteFh` is the handler's loop (drain the results, then
read one message), the worker thread with its two queues, and the exchange:
the history of its book, the events of its stream, each covering one or more
updates, and snapshots as of any update so far. Futures ids leave numbers out,
as the exchange's do. A snapshot or an event may hold a level that cannot be
parsed. Whether the scheduler grants a request and whether a timeout has passed
are free choices.

### `TradeFh`

A trade handler and what TP keeps of its trades, for one symbol. Trade i is the
exchange's i-th. The handler's loop reads one message at a time; what one
message leads to is a list `todo` of commands (publish a row, record a gap
event, flush the event queue, pump the backfill), executed one per step so that
a connection can break, the worker can answer and a kill can fall between any
two of them. Rows are asynchronous (`chan`); an event is a synchronous call, so
TP has read every row before it when it answers. `Start` is `run()` up to its
main loop: the tracker seeded with the last id TP has logged and the open gaps
resumed with the progress TP derived from backfilled rows; `StartBlind` is a
start that lost the reply or got an error. `ProcessMessage` with `ValidateTradeId` is
`processMessage` and the tracker; `ReadUnreadable`, `ReadOld` and `ReadOther`
are messages that cannot be parsed, repeat an old trade, or are of another
symbol. `EventAcked`, `EventUnacked` and `EventRejected` are the outcomes of
`sendEvent`. `PumpBackfill` is one pump: the page in hand (`OnPage`), gaps that
need no request (`Settle`), the next request (`Ask`) if the scheduler grants
it. `Pages` are the answers the worker may bring: full, short, starting early
or late, empty, failed, out of reach. The ghosts `blind`, `dropped` and `again`
name the ids a handler could not know of, those of events TP rejected, and
those the exchange delivered again.

What `TpSession` checks of the connection (rows logged in order and once) is
assumed here: a broken connection only costs an acknowledgement.

### `SnapshotScheduler`

`tryAcquire`, `onFetchOk`, `onFailure` and `onSynced` with time in ticks.
Instants are kept as the time left until them, and tokens in parts of a
minute's weight, so that a refill is exact. The callers are symbols that ask,
wait for an answer and report it.

### MC modules

`MCTpSeqNo`, `MCTpSession`, `MCWdb`, `MCQuoteFh`, `MCTradeFh` and
`MCSnapshotScheduler` only give values to constants that a `.cfg` cannot write.

## Runs

Deadlock is not checked: every model ends when its bounds are used up, and a
market that stands still is no fault. No symmetry is used: sessions, days, row
numbers and prices are ordered, and tables are flushed in order.

| run | shows |
|---|---|
| `MCTpSeqNo` | with the file kept: two kills, a failing log write, three days; the inductive invariant, no reuse, refinement of `SeqAllocator` |
| `MCTpSeqNoFaults` | with the file lost or an old copy put back: the scanned rows of one day never reuse a number |
| `MCTpSessionRestarts` | two kills, an orderly restart, a midnight, a failing `upd`, a lost session file: the reply is exact, duplicates are counted |
| `MCTpSessionHandler` | two broken connections, a handler restart, a midnight, a ring too small for the gap: losses are counted, the reply is exact |
| `MCTpSessionFhThenTp` (violated) | a handler restart and then a TP kill: rows lost uncounted |
| `MCWdb` | two tables, across midnight, a kill between any two writes and one other fault (a stop, a lost connection or failed replay, a failing write, save or move): nothing lost, nothing refused that is not there, nothing written twice before a save fails, no checkpoint goes back, refinement of `RowStore` |
| `MCWdbSaveFails` (violated) | one save of the checkpoint fails: rows move into the HDB above the saved checkpoint |
| `MCQuoteFhSpot` | spot rules, a lost message, a reconnect, failed, late, dropped and timed-out snapshots: exact books and rows, the refresh stays on the stream's chain, every request is watched and ends |
| `MCQuoteFhFutures` | futures rules, a lost message, an unreadable level in an event or a snapshot: exact books and rows, every break in the published ids is marked |
| `MCTradeFh` | any three faults of six kinds (a lost message, a trade delivered again, a broken connection or lost acknowledgement, a rejected event, a start without trade state, a kill): no hole unrecorded, TP's progress is in its log, nothing logged twice, answers fit their gap, every recorded gap is closed |
| `MCTradeFhKill` (violated) | a kill between the record of a gap and the row after it: trades published twice |
| `MCSnapshotScheduler` | two symbols, failures of every kind: the budget holds over every stretch of a minute, pauses and backoffs are obeyed, a symbol that asks is granted a request |

The violated runs are the findings of `PROJECT.json`: each states what a
comment, a document or a test of the repository says, and TLC's trace is a
sequence of steps in which the code does otherwise.

### What the passing runs leave out, and why

Each passing run allows the faults under which its properties hold. These
combinations break them; each can be reproduced by changing the constant it
names.

* Handler and TP restarted together (`MCTpSessionFhThenTp`).
* `StartsNextDay = TRUE` with `DuplicatesCounted` (one kill, one midnight): TP
  killed after logging rows and started after midnight finds no log for today
  and answers with a session file last written at a registration; the handler
  resends rows that are in yesterday's log and TP logs them again, uncounted
  (`tp.q:685`; `tp.q:426-428` says "so the file never has to be fresher than
  that", `tests/test_resend.sh:10` that nothing is logged twice).
* `Seeded = FALSE` with `FloorIsTruth` (tables `trade` and an event table, one
  orderly stop): a table without a floor is read from the first row of the open
  log, and an event table is not read at all; rows of the day before, or events
  logged while WDB was away, are not staged, and the first live row raises the
  floor over them for good (`wdb.q:656`; `README.md:523` says a disconnect over
  midnight is caught up in full).
* A failing save, a kill and `WrittenOnce`: the rows have left the buffer when
  the save fails, so the next roll's flush finds nothing to do, succeeds, and
  moves them into the HDB above the checkpoint (`MCWdbSaveFails`); a start after
  a kill replays them and writes them again. `WrittenOnce` therefore speaks of
  the time before a save has failed.
* `OldSessionLingers = TRUE` with two sessions: `upd` checks a row against its
  table's sequence, not its connection's, so rows a dead handler left in its
  socket, read after the next session has registered, move the new session's
  number, and a later loss below it is not counted (`tp.q:506-524`, 595).
* A failing `upd` with `NoSilentLoss`: `checkSeq` has accepted the number
  before `nextSeqNo` or the log write throws, so the row is neither logged nor
  counted (`tp.q:595-600`). `ReplyIsExact` names these rows `refused`.
* Broken connections and kills in one run with `ReplyIsExact`: a row of an old
  connection may be the last one in the log without being the highest, and
  `.tp.recoverFhSeq` takes the last (`tp.q:681-698`).
* A missing reservation file with `CounterAboveLog`: the seed is the largest
  scanned number of the newest log, which may be empty, and the scan skips gap
  events and unknown tables (`tp.q:304-317`, 643-651).
* `DatesInOrder = FALSE` with `NothingMissing`: a flush writes its dates in
  ascending order; killed after the first of two, with an earlier-dated row
  numbered above a later-dated one (a backfilled row can be), the disk maximum
  lies above an unwritten row and the next start raises the checkpoint over it
  (`wdb.q:310-320`).
* A level that cannot be parsed: it is skipped and the book stays valid
  (`quote_feed_handler.cpp:410-428`); in a truncated snapshot it also makes the
  snapshot look complete, so that the side has no horizon
  (`rest_client.hpp:270-291`). `BookExact` and `PublishedExact` speak of the
  time before it.
* `KillAnywhere = TRUE`. `MCTradeFh` leaves out kills while a gap's record and
  the row after the gap disagree, in two ways. The record is with TP and the
  row is not: `MCTradeFhKill`. The row is with TP and the record still queued
  (the acknowledgement was lost, or TP was away): the queue dies with the
  handler, TP's last id is above the hole, and the hole is never recorded
  (`trade_gap.hpp:134`; `NoForgottenGap` fails with a message, a break and a
  kill).
* Events that wait for a connection with `LoggedOnce`, when more than three faults
  come together. A `detected` event that waits while its gap is already being
  backfilled (a loss, three breaks and a kill), or a `partial` event that waits
  while the next page is taken (a gap of two lost trades, an unreadable message,
  a lost acknowledgement and a kill), reaches TP after backfilled rows and sets
  the gap's progress back; a handler started then fetches them again. The
  unreadable message is needed in the second case: it runs the pump without a
  row and a flush before it (`trade_feed_handler.cpp:529-531`), so that the first
  row of the next page reopens the connection. Within one pump this cannot
  happen, since a page is never taken in the pump that asked for it:
  `trade_backfill.hpp:241` sets `progressed` to `inlineFetch`, which is FALSE
  outside the tests (`trade_backfill.hpp:160`), and ends the loop.
* A rejected gap event is dropped (`trade_gap.hpp:139`) and a handler that
  starts without a trade state knows neither the last ids nor the open gaps
  (`trade_feed_handler.cpp:111`): `NoForgottenGap` excuses the ids, `GapsClose`
  stops promising. Such gaps stay open until the next start.
* Rows a dead handler left in its socket are taken to be read before the next
  handler asks for the trade state; `OldSessionLingers` is the same question
  for sequence numbers.
* The header of `snapshot_scheduler.hpp` speaks of "one bucket of initial
  burst". The bucket fills again in any idle minute, so the burst can follow
  any of them; `BudgetKept` states it that way.

### Bounds

* `TpSeqNo`: four rows with a reservation of one ahead, so that a reservation
  is written several times; three days, so that a log can be missing between
  two others and the newest one can be empty.
* `TpSession`: a ring of two rows against three or four published, so that the
  ring drops rows; two kills or two drops, so that a resend is hit while an
  earlier one is still on its way.
* `Wdb`: two tables that are behind by different amounts, a buffer limit of
  one so that one more row causes a flush, two days so that a flush has two
  dates and a roll has something to move, four rows so that rows lie
  below, at and above the cutoff. One kill and one other fault (`MaxOther`) reach
  every point where two of them meet; the same properties but `WrittenOnce` were
  also checked once with one table, three rows and all six faults in one
  history (974,526 states), which takes longer than a run should.
* `QuoteFh`: snapshots of four levels, a low-water mark of two (half a snapshot,
  below the three configured), one published level and at most four stored; the books of the exchange are chosen so that
  a snapshot is truncated, the side runs down to the mark, runs out, and is
  pushed past the cap. Three updates are a sync, a fall to the mark and a
  refresh overtaken by the stream; four are needed for a valid row, a hole and
  a second valid row. A snapshot is truncated with and without the level that
  cannot be parsed. The delta buffer holds two events and the queues one entry, so that both overflow.
* `TradeFh`: five trades give a gap of two, which is fetched in one page or,
  when a page is short, in two, a gap of three, which is above the cap, and a
  gap found at a restart. Two failures give a gap up. Three faults of any kinds
  are a loss, a break and a kill, in any order. `MCTradeFhKill` has a cap of
  four, so that the larger gap is fetched too, and pages of one trade.
* `SnapshotScheduler`: a minute of four ticks, a bucket of one and a half
  requests, so that a refill leaves fractions and two symbols compete for a
  token; three failures reach the longest backoff; the pauses differ, so that a
  shorter one can be reported during a longer one. Time has no bound.

### Fairness

`MCQuoteFhSpot`: the loop turns (draining never blocks; reading a message
returns or throws), and a timeout that stays due is taken. The exchange is
assumed to keep sending messages for some symbol, or to end the connection. The
handler sets an idle timeout of 30 seconds (`quote_feed_handler.cpp:250-259`),
but Beast applies it to asynchronous operations and `ws.read()` is a synchronous
one, so a connection that is silent and not dead may hold the loop for good.
Nothing is assumed of the worker thread. TLC finds
`ENABLED` of the whole drain step too costly, so the fair actions name only the
variables they are about: they are steps that `Drain`, `DrainTimeout` and
`ReadOther` can take whenever the fair action is enabled. The bound on timeouts
equals the bound on requests, so it never keeps a due timeout from being taken.

`MCTradeFh`: a handler that ended is started again (by its operator), and its
loop turns; messages of other symbols keep coming, without which the pump does
not run at all (the idle timeout does not bound a synchronous read here either). The worker's request ends, since its socket has timeouts of ten
seconds for input and output. The scheduler grants again and again (strong
fairness), which is what `AskIsGranted` shows of it. Nothing makes a fault
happen or a start succeed in getting the trade state.

`MCSnapshotScheduler`: time passes, and a symbol that may have its request gets
it, since the handler asks at every turn of its loop.

## Proofs

Every theorem holds for all values of the constants that satisfy the modules'
`ASSUME`s: any number of rows, trades, updates, days, symbols and faults, any
ring, page, buffer and queue size. Where a theorem has a hypothesis, it is the
one under which the property holds; "What the passing runs leave out" says what
happens otherwise.

| module | theorems | hypotheses |
|---|---|---|
| `TpSeqNo_proofs` | `SeqNoSafe`, `NeverReused`, `AllocatorRefined` | the reservation file is kept (`FileFaults = {}`) |
| | `SeqNoTyped`, `RowsOfADaySafe` | none: the file may be lost or go back |
| `TpSession_proofs` | `SessionTyped` | none |
| | `SafeWhileUp`, `SafeForOneHandler`, and from both `ReplyExact`, `TwiceIsCounted`, `NothingLostSilently` | histories: TP has not ended, or one handler whose connections break only when TP ends; `OldSessionLingers` and `StartsNextDay` are FALSE |
| `SnapshotScheduler_proofs` | `SchedulerSafe`, `SchedulerTyped`, `WeightWithinBudget`, `RequestsWait` | none |
| `OrderBook_proofs` | lemmas on the book's operators | |
| `QuoteFh_proofs` | `QuoteChain`, `QuoteTyped`, `RequestsWatched`, `RefreshStaysOnChain`, `RowsContinue`, `QuotesExact`, `BookIsExact`, `RowsAreExact` | none (`BookExact` and `PublishedExact` themselves speak of the time before a level that cannot be parsed) |
| `TradeFh_proofs` | `TradeFhTyped`, `TradesTyped`, `AnswersFit`, `ProgressSafe`, `RecoveredSafe` | none: kills at any moment |
| | `AccountSafe`, `NothingForgotten` | no kill while a gap's record and the row after it disagree (`KillAnywhere = FALSE`) |
| | `NothingTwice` | the same, and no handler is killed (`MaxFaults["kill"] = 0`) or no connection breaks (`MaxFaults["break"] = 0`) |
| `Wdb_proofs` | `WdbTyped`, `CheckpointSafe` | none |
| | `FloorSafe`, `NoRowMissing`, `StoreRefined` | a table's rows have dates that never step back (`DatesInOrder`) and every table has a checkpoint at the start (`Seeded`) |
| | `NoRowTwice`, `RolledSafe` | the same, and no save of the checkpoint may fail (`MaxFaults["save"] = 0`); with one, `RolledIsCheckpointed` is violated (`MCWdbSaveFails`) |

`NatLemmas` holds what they share. The library's induction theorems take an
operator as a parameter, which the provers cannot instantiate, so it restates
induction for sets: `SetInduction` (a set of naturals with 0 and closed under
successor has every natural) and `SubsetInduction` (the same for the finite
subsets of a set). From these, `Iteration` builds the function that iterates
another one, which shows that a recursive function has the value its definition
says (`Delay` of the scheduler), and `FoldExists` and `RunOfFold` turn a fold
over a sequence (the rows TP logs, the levels of an event) into a run: a
function from positions to intermediate results that starts at the initial
value and takes one step per element. Everything said of a fold is then said of
every position of its run (`RunInvariant`); `StepsFold` does the same for a
fold whose step is given by what it does, as WDB's are.

### The counter (`TpSeqNo_proofs`)

`LogStrictlyIncreasing` is not inductive: after a kill the next start knows
only the file and the logs, so the invariant has to say how they relate while
TP is down. `SeqInv` adds that every logged number is at or below the file's
(`LoggedIsReserved`), that a running counter is at or above every logged
number and at or below the reservation, that the reservation in memory is the
one on disk, and that a missing file means empty logs (so that the migration
path of a first start is harmless). The argument per action: `Start` resumes
at the file (`LoadedAboveLog`, `ResumeAboveLog`), and raising the counter to
today's scanned maximum (`ScanMaxBounded`) does not pass it; `LogRow` appends
a number above the counter after covering it; the kills change no file but
the reservation, upwards; the rest leaves the numbers alone. The refinement
follows because a step either appends one larger number or leaves the logs as
they are.

Without the file only the scan of the open log is left. `DayInv` says that logs
are written in the order of their days and that a running counter is at or
above what a scan of the open log would find (`ScanMaxCovers`), which is enough
for the rows of one day. `SeqNoTyped` is part of the same induction.

### Sessions (`TpSession_proofs`)

Two histories, two invariants, both next to the types (`TypedInv`).

While TP stays up (`UpInv`), connections may break in the middle of a resend,
handlers may restart and rows of old connections may be read late. The last
number splits the rows of the session TP knows: none above it is logged, each
one up to it is logged, counted or refused (`LogSplit`), and the same for every
earlier logged row (`EarlierSettled`). Only rows of the known session are on
their way; a handler that TP does not know yet has published nothing. The count
of duplicates is an invariant by itself because it only grows with the log.

For one handler while TP is killed and restarted (`OneInv`), the log is what a
start reads, so the invariant is about order: the log is in the order of
numbers and of days, only the last connection holds rows, in order and all
above the number TP has accepted, and the number, in memory and in the session
file, is right about what it claims (`NumberRight`, `FileRight`; the file may
lag behind as long as the open day's log has rows, which `.tp.recoverFhSeq`
then takes instead). It follows that no row is logged twice at all.

### The scheduler (`SnapshotScheduler_proofs`)

`BudgetKept` compares what was granted in any stretch with the budget; the
bucket remembers no stretch. `Ledger` does: for each remembered grant, what was
granted since and what a refill would leave in the bucket come together to at
most one bucket and the refills since that grant. A grant moves weight from the
bucket to the sum, a tick raises both sides. `PauseCovers` and `BackoffRuns`
relate the countdowns to what the exchange asked for and to the doubled and
capped delay, whose closed form (`PowerOf2`) is proved equal to the recursion.

### The book and the quote handler (`OrderBook_proofs`, `QuoteFh_proofs`)

`OrderBook_proofs` shows of each operator what it does to a side that is exact
inside its horizon: cutting it off (`TrimExact`), one level (`UpdateExact`), the
levels of an event in any order (`ApplyLevelsExact`, over the fold), a snapshot
(`LoadExact`), its best levels (`TopExact`), and that an event passes
`CheckSequence` only if it bridges or continues (`CheckSequenceApplies`).

`ChainInv` is about ids only and needs no assumption on levels: the events on
their way and in the buffer are in order, the book is behind them, a refresh
and a held snapshot belong to a valid book, and the range of ids the book has
collected starts where the last valid row ended (`RowChain`). `ExactInv` adds
the levels: every event on its way or buffered takes the exchange's book from
any update it covers to its last one (`Genuine`), every side, held snapshot,
result and row is the exchange's at its id. The overlap of a snapshot with the
first event it is bridged by is the case the definition of `Genuine` is made
for.

### Trades (`TradeFh_proofs`)

`TypedInv` has the types, the order of the commands (a pump is the last one, a
row is followed by a flush or an event), that events wait for a flush or for a
connection, and that the answer in flight fits the gap at the head of the
queue, which only the pump changes.

`RecoveredIsLogged` is about TP, but what TP is told comes over the channel
from a queue of commands made from a list of jobs, and a kill can cut this line
anywhere. `ProgressInv` follows an id on this way: `LoggedIds`, then the
channel (`Delivered`), then the rows among the commands (`OnTheWay`). At each
place what is said of a gap is `Sound` for the ids before it: they include its
progress, and an id inside the gap comes after the ones before it or after one
beyond the gap. That is what makes TP's rule right, which moves a gap's
progress to the id of a backfilled row without looking at the ids before. A kill between
the record of a gap and the row after it leaves a gap that the next handler
finds again and larger, so gaps overlap; `Sound` therefore also says that what
an earlier gap has below a gap's first id is already there, and `TrackerGood`
that the tracker's id is on the way and no gap begins beyond it. The proof has
one lemma per action. Those for the pump go through the outcomes of a page
(given up, counted, moved on) and the jobs that need no request, and show that
the commands they produce fit behind one another (`ConcatGood`). TLC has checked
`ProgressInv` with kills at any moment before it was proved.

`NoForgottenGap` speaks of the log and of what the handler holds at one moment;
a hole is harmless only if its record comes before the row behind it, whatever
is lost in between. `AccountInv` says this along the same way: below any id
that is logged, on the channel or among the commands, every id comes before it
or is accounted for (`Follows`), and the same up to the tracker's id
(`TrackerCovers`). Accounted for are the gaps TP knows, the `detected` events
TP has not had yet (`News`), and what the property excuses. News die with the
handler. So the invariant also orders them: no id in or behind the gap of a
waiting event goes out before one behind all of it, and no such id is delivered
at all while the event is still among the commands. A kill that happens when
log and records agree then loses no news of a gap the log has come to
(`ForgetNews`), and every open gap ends before the last id the next handler is
seeded with. `NotLarger` keeps TP's record of a gap from being replaced by a
smaller one: TP knows a gap by its first id only. TLC has checked
`AccountInv` with `KillAnywhere = FALSE` on an instance of 2.4 million states
before it was proved. The hypothesis cannot be dropped: after a kill that finds
the row logged and the event still waiting, the property fails.

`LoggedOnce` needs the opposite of `ProgressInv`: that an id is *not* among the
ones before it. `OnceInv` says this along the same way. Every row in the log,
on the channel and among the commands is `Fresh`, and what a job still has to
fetch is `Untaken`: not logged and not on the way. Two jobs never want the same
id (`JobsApart`), and the open gaps TP knows when no handler runs are
`Resumable`: what the next handler will fetch is nowhere yet. Ids the exchange
delivered a second time (`again`) are left out. A kill is the step this does
not survive by itself, since the handler dies with jobs ahead of the records TP
has of them. `ReadyInv` adds what makes it harmless when no connection breaks:
events leave at once (`Attended`), the connection is closed only before the
first row (`Connected`), of an open gap nothing is logged or on the way beyond
its progress (`AllUntaken`), no live row lies inside a gap at work (`AllOut`),
and gaps at work are `Apart`. So what a killed handler leaves can be resumed
(`KilledReady`). With both breaks and kills the property fails, as said under
the bounds above; this is why the theorem asks for one of the two to be absent.
TLC has checked the two invariants first, on 1.1 million states (two kills, no
break) and 1.5 million states (three breaks, no kill).

### WDB (`Wdb_proofs`)

`NothingMissing` and `FloorIsTruth` follow from one invariant. For each table
(`TableGood`): what is buffered is logged and at or below the last buffered row;
what is at or below either checkpoint, the one in memory and the one in the
file, is on disk; what is at or below the last buffered row is on disk or
buffered; and the rows on disk have no hole. The last part is the one that
needs work and that neither property mentions. A start does not trust the file
alone: it raises the checkpoint to the highest row it finds in `tmp.*`
(`ReconciledIs`), and everything below that row must then be there. So a flush
may only ever write the first rows of a table, also when a write fails between
two dates or a kill comes between a write and its checkpoint. It writes the
rows of the first dates, which are the first rows (`FirstDatesLow`) because the
dates do not step back: that is where `DatesInOrder` is used, and why it cannot
be dropped. `Seeded` keeps a table from having a checkpoint of 0, which a replay
takes for a table that was never written.

Rows arrive in order (`ChanOrder`); a row that is accepted comes after all
refused ones (`GoodAccepted`), which is shown for a single row, then along the
run of the fold for the rows of a table (`GoodIngestSeq`) and for the tables
(`GoodIngestTables`). While a replay runs, every row above the cutoff is on the
channel; so the merge refuses or takes everything up to the cutoff
(`GoodMerge`), the drain takes what has arrived above it (`GoodDrain`), and what
TP has logged is from then on refused because it is there, or on its way
(`OnItsWay`).

`WrittenOnce` and `RolledIsCheckpointed` need the converse: a row on disk is
refused. `Checkpointed` says for a running WDB that the file agrees with memory
and no row on disk is above it; `DiskOnce` that each row on disk was written
once, that no buffer holds a row twice, and that the HDB's rows are below the
file's checkpoint. A kill may break `Checkpointed`, never `DiskOnce`, and the
next start restores it from `tmp.*`. A save that fails breaks both for a row
that a roll then moves away from where a start looks, so these parts are stated
under `SavesWork`. TLC has checked the whole invariant (`TypeInv` and
`FloorInv`) with a kill and a broken connection on two tables, and with a kill, a
stop and a failing write, save and move on one, before it was proved.

`CheckpointRises` and the refinement of `RowStore` are about steps. `Later`
relates two contents of WDB and its disk: the checkpoint in the file, the one in
memory and the set of rows on disk have only grown. It is shown for writing a
date, saving, flushing, moving a date and ingesting a row, and along the runs of
the folds for lists of them. A start is the step that could go back: it takes
what the file says and what `tmp.*` has, so the only fact needed of the states
is that the file of a running WDB is never ahead of its memory (`FileInv`);
then no hypothesis on dates, faults or first checkpoints is needed. A step of
WDB stores more rows or none by `Later`, and leaves no hole by the part of
`FloorInv` that says so, which is where `StoreRefined` takes its hypotheses
from.

### Only model-checked

* Liveness (`GapsClose`, `RequestEnds`, `AskIsGranted`): the prover has no
  rules for fairness.
* `LoggedOnce` for histories with both a break and a kill. It fails for a loss,
  three breaks and a kill, so no invariant covers them all; `MCTradeFh` checks
  every history with up to three faults.

## Not modelled yet, and the plan

Next modules, in order:

1. Log reader: a log as a sequence of entries with a torn end, appending after
   it, the seek index; composed with `Wdb` in place of its assumption on reads.
2. `TpSeqNo` and `Wdb` composed: a counter below a checkpoint and the halt.
3. `TradeFh` with a TP that restarts and rebuilds the trade state from today's
   log and the session file.
4. Log retention (`logmgr.q`) against what a replay can still need, and the
   staging of `rebuild_day.q`.
5. Row clock and the position arithmetic of the research framework as pure
   functions. (`row_clock.hpp:29-30` says that a bad event time affects
   its own row only; a row without an event time takes the latest event's, so
   it can be affected too.)
6. Liveness: a roll that was aborted, a book that gets valid again.

Left out for good: parsing, formatting, configuration, TLS and REST transport
(the models see an answer, an error or silence), logging and statistics,
`kdb/ml` (floating-point batch computations), the historical loaders, and the
operations scripts, which only start and stop what is modelled.
