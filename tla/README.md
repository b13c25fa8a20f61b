# Verification of the multi-instrument order book

TLA+ models of the matching engine, its concurrency and its gateway, with TLC
configurations and TLAPS proofs.  Paths below are relative to the repository
root.

## 1. The system

| part | code | state | operations |
| --- | --- | --- | --- |
| PriceLevel | `orderbook/orderbook.hpp` | head, tail, links inside the orders | push_back, pop_front, erase, iteration |
| OrderBook | `orderbook/orderbook.cpp` | bids_, asks_, order_map_ | add_resting, cancel_and_get, pop_top, clear_and_drain |
| Matcher | `matching/matcher.cpp` | its book, the pool | submit (match, fill-or-kill), cancel, cancel_all |
| Engine | `matching/engine.cpp` | matchers_ by instrument | submit, cancel, expire_instrument |
| Pool | `utils/pool.hpp` | storage, free list under a mutex | acquire, release |
| SpscRingBuffer | `utils/spsc_ring_buffer.hpp` | buffer_, head_, tail_ | push (one thread), pop (one thread) |
| ShardedMatcher | `matching/sharded_engine.cpp` | a queue, counters, a stop flag and a worker per shard | submit, cancel, wait_idle, destructor, run_shard |
| Codec | `protocol/codec.cpp` | - | encode, decode_header, decode_body |
| Framer, Session | `protocol/framer.cpp`, `session.cpp` | buffered bytes, error, state, outbound bytes | feed, next, emit, take_outbound |
| Dispatcher | `gateway/dispatcher.cpp` | - | pump and a handler per message |
| Client | `gateway/client.cpp` | its socket, its framer | send, recv |
| Server, tcp | `gateway/server.cpp`, `tcp.cpp` | running_, listener_, session_sockets_, threads | start, stop, accept_loop, session_loop |
| InstrumentRegistry, Chain | `instruments/` | instruments_, maps; levels_, by_id_, id_to_type_ | add, freeze; add, remove, lookups |
| Sweeper | `matching/sweeper.cpp` | by_expiry_, id_to_expiry_ | register_instrument, unregister, sweep |
| Contract | `instruments/contract.cpp` | - | occ_symbol, from_occ |
| LatencyTracker, main, benchmarks | | none that the rest decides on | not modelled (section 8) |

How they interact: a client thread acquires a pool slot, fills in an order and
pushes a command to the ring of the shard that owns the instrument.  The
shard's worker pops it and runs its engine; makers that are filled go back to
the pool all shards share.  The gateway takes another way: every connection
has a thread that frames bytes, dispatches messages and calls one engine
directly.  The sweeper names the instruments whose books an engine destroys.

What is hard here: the ring and the counters of `wait_idle` are lock-free; the
pool is shared in the middle of matches; `stop` and the destructor race the
threads they end; descriptors are closed twice; TCP cuts frames anywhere; the
links of an order outlive its place in a list; fill-or-kill looks before it
trades; fields are written and read back by two hand-kept lists; acks and fills
are all a client ever learns of the book.  `PROJECT.json` lists the hazards with
their lines and the properties that would show each of them going wrong.

## 2. Modules

| module | models |
| --- | --- |
| `PriceLevel`, `LevelQueue` | the list on its pointers; the queue with withdrawal it implements |
| `SpscRingBuffer`, `BoundedFifo` | push and pop, one step per shared access; the FIFO they implement |
| `Matching` | OrderBook, Matcher, Engine, Pool |
| `SequenceRemoval` | taking an element out of a sequence, by its place or by its value |
| `ShardedMatcher` | client, queues and workers, over `Matching` |
| `Codec`, `Framer` | the wire format, byte by byte; the framer on those bytes |
| `Gateway` | Client, Session, Dispatcher and the engine of `Matching`, from the bytes sent to the bytes that come back |
| `Session` | Framer, Session, Dispatcher on abstract frames, the engine an oracle |
| `Server` | accept thread, session threads, start and stop, over `Session` |
| `Contract` | contracts and their OCC symbols |
| `Instruments` | InstrumentRegistry, Chain, Sweeper, and the engine's set of books |
| `OccListing` | `Instruments` with options listed under the symbols of `Contract` |
| `DataStructureProofs`, `MatchingProofs`, `MatchingFills`, `ShardedMatcherProofs`, `ShardedCancels`, `SessionProofs`, `ServerProofs`, `InstrumentsProofs` | theorems and proofs (section 5) |
| `MC*` | the instances for TLC |

Composition. `ShardedMatcher` extends `Matching` and drives its actions: a
worker's pop starts `Submit` or `Cancel`. Each of its steps that touches the
engines is by its form a step of `Matching`, so what is proved there of engines
with a thread each holds of the shards (`ShardsMatchSoundly`); `OneOwner` is
also checked on two shards that match at the same time. Its queues are the FIFO
that `SpscRingBuffer` is proved to implement. The queue of a level in `Matching`
is the one `PriceLevel` is proved to implement, and `Expire` drains as
`PriceLevel` does. `Server` extends `Session`, where the engine is an oracle;
`Gateway` has the real engine and the real bytes but no threads, and
`ImplementsSession` says that its dispatcher does only what that of `Session`
may do. So the two views of the gateway meet: threads and sockets over an
abstract dispatcher, and the concrete dispatcher below it.

Comments starting `Mutant:` mark variants of the definition that follows, each
a plausible slip in the code.  With a variant in place of the definition TLC
reports the property named for it in `PROJECT.json` as violated, which shows
that the property depends on that code.

## 3. State and steps

**Matching.**  `ord` is the storage of the pool; a slot in the pool holds
`None`, so a use after release shows as a missing order.  `levels` is the set
of keys in the maps of a book, kept apart from `queue` (the orders at a key)
because the code removes an empty level by hand; `index` is `order_map_`.
`Submit` is the routing and validation; `Trade` is one iteration of
the match loop with the release of a filled maker, `StopMatching` its exit,
`Settle` the status and the resting, `Return` the caller's release of a
terminal order.  `before` is a history of arrival.  A market order carries
limit price 0.  Time stamps and latency records are left out; quantities are
natural numbers, and that the unsigned subtraction of `remaining` cannot wrap
is part of `TypeOK`.

**SpscRingBuffer.**  `pushed` and `popped` count the stores to `tail_` and
`head_`.  An acquire load picks any store not older than one already seen, so
stale views are explored.  Cells are accessed by plain reads and writes:
`NoCellRace` says that these never meet.

**ShardedMatcher.**  One step per atomic access: the push, the `fetch_add`
after it, the pop, the steps of the match, the `fetch_add` of `processed`, each
comparison of `wait_idle`, each store to a stop flag.  The two atomic loads of
one comparison are a single step.  This loses nothing: only the client changes
`submitted`, and the client is the one that compares.

**Session and Server.**  A byte is a frame and a position; a header is two
bytes and a body at most one, so that a chunk may end inside a header, before
a body, or between frames.  A frame is named for what the framer makes of it.
The client's bytes are on the wire at once and `Recv` takes any prefix; each
`send()` of `send_all` takes any part of what is left, or fails.
Descriptors are numbers; accept gives the lowest free one and sets it aside
when it is called (`AcceptCall`).  `accept` and `recv` block: a call that is
blocked when `stop` closes its descriptor keeps the socket, and still returns a
client that connects or bytes that come (`AcceptOne`, `Recv`).  The close may
also end it (`AcceptWoken`, `RecvWoken`); both happen, depending on the system.
A call made after the close fails at once.

**Codec, Framer and Gateway.**  A message is a record; `encode` lays its fields
out little-endian with their widths, order and padding, signed ones in two's
complement, and `decode_body` reads them back from offsets, so a slip in either
list shows.  A byte has `kByte` values (12 in the run: eight of them stay within
TLC's integers) and message codes are numbered through.  The dispatcher's casts
are there: a side byte that is not 0 is a sell, a type or tif byte out of
range names no enumerator, and such an order is matched as the code matches
it.  A `NewOrder` is the several steps of `Matching` between `acquire` and the
replies.  Sessions take turns at the engine, as its class comment requires;
`shared_engine` shows what happens when they do not.  `sent`, `handled`,
`replied`, `taken` and `received` are histories.  Both directions are cut: the
server's `recv` and the client's take a part of the bytes that have come
(`Chunks`), and each framer goes on from what it has buffered.

**Instruments.**  The maps of a chain are functions on the keys they hold, so
that a leftover key shows.  A date is the number yyyymmdd.  Lookups that throw
or return false change nothing and are no actions.  A symbol is a sequence of
character codes, printed and parsed as `occ_symbol` and `from_occ` do, with
their cuts.  `register_instrument` does what the code does with any instrument
and date; which calls the application makes is `Registers`.

## 4. Runs

`tlc -config X.cfg M` with the module and configuration named in
`PROJECT.json`.

| run | instance | shows |
| --- | --- | --- |
| `structures` | a level of 4 orders; a ring of capacity 4, 9 pushes, 2 values | the pointers spell a list (`WellLinked`) and behave as a queue with withdrawal (`IsLevelQueue`); the ring has no cell race, is a bounded FIFO, and every push is popped |
| `matching` | 1 instrument, 3 slots, 3 ids, prices 0-2, sizes 0-3, all types and times in force | ownership, books, index, fills, fill-or-kill, completeness, price-time priority |
| `sharded` | 2 shards, 2 slots, queues of 2, 3 commands for one shard and 1 for the other | one owner per slot while both shards match; counters; `wait_idle`, cancel order, destructor; both return, and a full queue has room again |
| `server` | 2 connections, 2 descriptors, 8 scripts | framing, session rules, replies, descriptor ownership, shutdown; `stop` returns where a close ends a blocked call (`StopReturnsIfWoken`) |
| `instruments` | 5 specifications with two clashes, 2 dates | symbols name one contract; chains and sweeper stay in step; sweeps end the right books |
| `gateway` | 2 clients, 10 scenarios, 3 slots, 2 instruments | the wire loses nothing (`WireIsTransparent`); acks and fills account for the book (`MessagesExplainBook`); reject reasons are true (`ReasonIsTrue`); the dispatcher is the one of `Session` (`ImplementsSession`) |

Six runs are expected to be violated; each states what the repository says of
itself:

| run | the code does | the repository says |
| --- | --- | --- |
| `price_level_drain` | `clear_and_drain` clears the link it is about to follow, so it visits the first order of each level only | `orderbook.hpp:121` "Visit every resting order, then empty the book." |
| `slot_lost` | a partly filled IOC or market order is neither resting nor terminal, and nobody releases its slot | `sharded_engine.hpp:22` "Terminal takers are released automatically by the worker." |
| `duplicate_ids` | a second order with a resting id is linked but not indexed | `tests/property/invariants_test.cpp:6` "Index count == sum of orders across all price levels." |
| `shared_engine` | all session threads call one engine without a lock: two of them inside `submit` each find nothing to match, both rest, and the book is crossed (`NotCrossed`) | `docs/architecture.md:16` "matching itself stays serial per instrument."; `tests/property/invariants_test.cpp:5` "Book is never crossed" |
| `server_drop` | the framer's error is tested before `pump`, which is what sets it | `docs/protocol.md:16` "Receivers MUST drop the connection ..." |
| `server_stop` | `stop` closes the socket a session is blocked on and joins its thread; `close` need not end the `recv`, and with a silent client `stop` never returns (`StopReturns`) | `server.cpp:32` "Close listener to unblock accept().", `server.cpp:38` "Close every live session socket to unblock recv() in worker threads." |

The passing `matching` run therefore assumes fresh ids (`FreshIds`) and one
thread per engine; its `Expire` and `Return` do what the code does, lost slots
included, and the properties hold nevertheless.  `shared_engine` looks at states
in which no slot in a match has been released yet (`NoneReleased`): what two
threads do after that is a use after release, and undefined.

### Bounds and why they are enough

* Four orders in a level give a first, a last and two inner ones to erase.
* Nine pushes take both indices of a ring of four twice around.
* Three slots allow two makers, at two prices or one behind the other, and a
  taker that meets both; sizes up to 3 make either side partly filled and a
  fill-or-kill one lot short.  `MaxHeld` is 1 there, because a slot that is
  merely held is seen by no action but its own submission; the sharded run has 2.
* A queue of two with three commands is full, drained and left with work when
  stop is set, while the other shard has a command of its own (`MaxCommands`);
  the IOC seller of two lots against a buyer of one gives
  the partly filled taker.
* Two descriptors and two connections let a number be reused while its first
  owner is still closing it, and make accept fail for want of a descriptor
  as well as on a closed listener.
* The scenarios of `gateway` make two resting orders meet a sweep, a
  fill-or-kill, a market order and cancels, by their owner and by the other
  client; give every reason to reject; break the framing in each way; and use
  integers of one byte, with a carry, and of all eight.  `recv` on either side
  takes 5, 8 or 20 bytes (`Cuts`), that is a part of a header, a header, or a
  header and a part of a body, or all there is.  On the way to the server the
  rest of a message that was cut comes with all that follows it; the clients
  read one after the other when the sessions have taken everything in, which
  only changes where the bytes are cut.  Any cut at all of the way to the server
  is explored by `server`, on its shorter frames.
* `Printed` writes at most ten digits; TLC's integers have no more.
* Symmetry is used for slots and ids where no property is a liveness property.
  No action orders slots, and ids are symmetric only where they are model values.

### Fairness

Weak fairness of each worker, each session thread, the accept thread, and of
the calls a client or the caller of `stop` has already begun: a thread that can
run eventually runs.  Nobody has to make another call.  `Gateway` assumes no
fairness and states no liveness.  In the ring a store
becomes visible in finite time: the consumer's load of the newest value is
fair.  In `Server` a blocked call returns when there is a client or bytes to
return, and a `send()` does not block for ever.  That a close ends a blocked
call is no part of `Fairness`, as POSIX does not promise it and Linux does not do
it: `StopReturns` fails without it (`server_stop`), and `StopReturnsIfWoken` takes
it as its premise.

Deadlock is checked in `matching` and `structures`.  It is not where
the system may stop: after a destructor, after a `stop`, with nothing left to
add and sweep, or when the clients have sent all they want.

## 5. Theorems

All proofs are checked by `tlapm` to the last leaf.  A step that names no prover is
meant for Zenon; the SMT solver is named where arithmetic, sequences or records
are needed.

**DataStructureProofs** has the two structures. `PriceLevel`, for any finite set
of orders. `LinkInv` says that outside a drain the pointers spell one sequence
of distinct orders, the listed ones: `next` leads along it from `head`, `prev`
back from `tail`. What each operation does to the pointers is shown to be what
`Append` and `Without` do to the sequence (`PushSpells`, `EraseSpells`). From
it: `ListIsWellLinked` (`WellLinked`), and `LevelIsQueue` (`IsLevelQueue`), the
refinement of `LevelQueue`: for a sequence the pointers spell is the only one
(`LinksOnce`), so the walk from `head` that `Contents` stands for is well
defined.

`SpscRingBuffer`, for every capacity of at least 2, every set of values
and every number of pushes.  `IInv` adds to the types that what each thread has
seen lies between what the other has done and what it was (`popped` at most
`pushes_seen` at most `pushed`, `pushed` less than `pops_seen + Capacity`), and
that a value in hand is the one in its cell.  It is needed because the tests
compare remainders: two counts less than `Capacity` apart are equal exactly when
their remainders are (`MaskUnique`).  From it: `TypeCorrect`, `NoDataRace`, and
`Refinement`, which maps the ring to the sequence of values between the counts
and every step to a step of the FIFO or to a stutter.

**MatchingProofs** (the invariant, what touching a book preserves of it, one
lemma per action, the theorems), for any finite pool, any instruments, shards,
threads and orders, under `SingleThreaded` (no two threads call one engine, the
assumption in Engine's class comment; `shared_engine` shows it is needed).
Fresh ids are assumed only where it says so.  `IInv` consists of

* `BookInv`: orders on a level are allocated, stand on their own level and only
  there (`LevelsOwn`); levels present are the non-empty ones; books are not
  crossed; locators name orders that rest where they say (`IndexSound`, the half
  of `IndexExact` that holds with duplicate ids); levels are in order of arrival;
* `CallInv`: what a caller holds or submits is allocated and in no other hand;
  a thread past validation is in the engine that owns the book; and once the
  loop has ended nothing on the other side is in reach of the remainder
  (`NothingLeft`).

`NothingLeft` is why a rested remainder does not cross the book, and it is
kept while other threads run because their engines own other books.  That
the top of a map is out of reach means that the whole side is (`NoTopNoMatch`)
rests on `TopExists`, for which prices are bounded.  Proved from `IInv`:
`TypeCorrect`, `PoolSafe` (`OneOwner`), `BooksSound` (`NotCrossed`),
`MapsAreExact` (`NoEmptyLevel`), `MatchIsComplete` (`RemainderHasNoMatch`) and
`Priority` (`PriceTimePriority`).

**MatchingFills**, under the same assumptions.  `FillInv` follows a call through
its match, on top of `IInv`: its trades explain the fill of its order and no
level left on the other side is better than the last of them; while a
fill-or-kill order is in the loop, what it can reach on the book still covers
what it has left; and what rests can trade.  The three belong together: that a
fill-or-kill order leaves the loop with nothing is why it never rests, and that
makers have something left is why no trade is empty.  A sum over makers
or trades is the fold of `SumFunction`; its law (one place more adds its value)
is proved by counting units, because the fold itself offers no induction.  From
it: `FillOrKillHolds` (`FillOrKill`), `TradesExplain` (`TradesExplainFill`) and
`RestersCanTrade` (`RestingCanTrade`).

**ShardedMatcherProofs**, for any number of shards, instruments, slots and
orders and any capacity of the queues.  `ShardInv` is `IInv` of Matching with

* `CountersMatchWork` itself, over types of queues and counters;
* `WorkerInv`: a worker without a command is in no call of its engine, leaves
  its first loop only when told to, exits only with an empty queue, and is told
  to stop only by the destructor;
* `ClientInv`: a shard that `wait_idle` has passed is still idle, because the
  client is the only one that sends.  This is the step that makes reading the
  shards one after the other sound.

From it: `CountersAreExact`, `WaitIdleIsSound` (`IdleMeansDone`),
`DestructorDrains` (`DestroyedIsDrained`).  Every step of the shards is one of
`Matching` or leaves its state alone (`ShardsAreEngines`, a lemma, for the model
is built that way), and workers satisfy `SingleThreaded`; so `ShardsMatchSoundly`
has one owner per slot (`OneOwner`), uncrossed books, complete matches and
priority for any number of shards on one pool.

Two results need fresh ids, which the code leaves to
its callers.  `IndexComplete` (`IndexExact`) is about Matching.  `IdInv` adds to
`IInv` that no two orders in use share id and instrument, and that what rests is
found under its id.  Uniqueness has to cover orders held and in a match, not
only those that rest: it is what makes the `emplace` of `add_resting` take, and
what makes a removal erase no other order's key.

`CancelsTakeEffect` (`CancelledIsGone`), in **ShardedCancels**, builds on it.
`CancelInv` says that commands are in the queue of the shard that owns their
instrument and no order in two of them, and that an order in use whose id was
last sent a cancel either has not been sent or has that cancel coming behind its
submit. When a shard gets to the cancel, `IndexExact` is what makes it find the
order.

**ServerProofs**, for any number of connections and descriptors and whatever
clients send.  `ServerInv` says that

* a connection with a live thread, or just accepted, has a descriptor that
  refers to it or to nothing, and to it until `stop` has closed sockets
  (`ConnInv`); an open descriptor belongs to such a connection (`FileInv`);
* when `stop` closes sockets the listener is no longer open, and a number set
  aside for a blocked accept is nobody's (`StopInv`), hence no closed number is
  handed out again before all sessions are joined;
* after `stop` has emptied the list at most one socket is listed again, the one
  that was being accepted, and its thread is still to come (`SocketsInv`).

From it: `DescriptorsAreOwn` (`SocketIsMine`) and `StopIsClean`
(`StopLeavesNothing`).

**SessionProofs** has the lemmas about one session, from which `ServerProofs`
also follows what a session says. `SessionInv` has for every connection: the
frames handled are the first of those the client sent, and their bytes, the
buffer and the wire are together its stream (`Framing`); every reply belongs to
a frame and is refused exactly outside a logged-on session, verdicts are in
order, and while the thread is up none is missing (`Talk`); messages wait only
where `session_loop` is about to write them (`Quiet`); the answer to a Logout is
on its way unless the connection was cut (`Farewell`). Framing rests on
`NextFrame`: whatever part of the stream is buffered, the frame its first bytes
name is the one the client sent next. From it: `FramingIsExact`
(`StreamIsKept`), `EngineIsGuarded` (`OrdersOnlyWhenActive`),
`VerdictsAreInOrder` (`OneVerdictEach`) and `LogoutsAreAnswered`
(`LogoutIsAnswered`), for any scripts, any cuts and any interleaving with
`stop`, failing writes and clients that leave.

**InstrumentsProofs**, for any set of instruments and dates; a contract is its
four fields, and an id is not the absent one.  `RegistryInv` has for every chain
`ChainInv`: an id that `by_id_` has is in the slot it names, the id in a slot is
one that `by_id_` has under that contract, and no empty slot and no date without
slots is kept.  The second half is what makes `remove` hit its own contract and
no other.  On top of it: ids in a chain of the registry are those of options
that were added, under their contracts (`ListedAs`).  This is why a contract
that is taken was taken by an instrument added earlier, and why a new
instrument's id is free in the chain.  From it: `ChainsAreExact` (`ChainExact`)
and `OptionsAreFound` (`FirstContractIsFound`).  `SweeperInv` is
`SweeperAgrees` with the types of the two maps; from it, under `Once` (section
7): `SweeperIsExact` (`SweeperAgrees`) and the action property
`TradingEndsOnTime` (`SweepTakesTheDue`), because what `sweep` finds in the
multimap is what is due in the other map (`SweepFinds`).

The constants' assumptions are named in the modules that declare them
(`CapacityAssumption`, `MatchingAssumption`, ...) and evaluated by the runs.

## 6. Only model-checked

* Liveness under fairness: `PushedIsPopped`, `WaitIdleReturns`,
  `DestructorReturns`, `FullQueueDrains`, `StopReturnsIfWoken`.
* Conversions: `WireIsTransparent` and `SymbolNamesContract` are about what
  folds over bytes and digits compute for every input, which is an induction
  over data.
* `MessagesExplainBook`, which compares sums over sets of messages and of orders:
  the fold behind them offers no induction either.
* `ReasonIsTrue` and `ImplementsSession` of `Gateway`.

## 7. Assumptions that limit the results

* `Instruments` registers an instrument with the sweeper once at a time
  (`Once`, part of `Registers`), after the engine was built and with options only;
  the code allows a second registration and then keeps an entry that `unregister`
  does not find.
* In `Gateway` one thread serves the sessions in turn.  The values in its
  scenarios are examples, chosen for the widths and edges of section 4.
* `SymbolNamesContract` is about contracts that fit the format: a root of six
  letters, this century, a strike below 100,000.00.  Others are cut.
* The proofs about `Matching` and `PriceLevel` take the pool's storage, hence the
  set of orders, to be finite, which it is in the code; those about `Server` take
  what a client sends to be a sequence of frames, malformed ones included.
* `IndexComplete` and `CancelsTakeEffect` need ids that are not used again while
  in use; nothing in the engine enforces it (`duplicate_ids`).
* In `can_fully_fill` and the removals, an order is found by its slot; a pool
  slot is chosen arbitrarily among the free ones.
* `acquire_order` fills in the order in the same step: no other thread can see
  the slot before it is submitted.
* In `Server` a `send()` ends between two messages, not inside one, and a send
  to a client that has left fails; the SIGPIPE it may raise is not modelled.
  Descriptors opened by the rest of the process are not modelled.
* `Expire` is one step.  Its callback releases a slot before the iterator reads
  the slot's link; another engine taking that slot in between is not modelled.

## 8. Not modelled

* `utils/latency.hpp`: statistics with relaxed atomics that no decision reads.
* `main.cpp` and the benchmarks: they print and measure.
* `Framer::reset`, which nothing under `src/` calls; `ExpiryDate::to_string` and
  the other printing; the Windows branch of `tcp.cpp`; time stamps.
* The drain of `clear_and_drain` is one step inside `Matching`; its walk is
  modelled pointer by pointer in `PriceLevel`.
