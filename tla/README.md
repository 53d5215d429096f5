# rmqcxx in TLA+

This directory specifies and verifies rabbitmq-cxx (`rmqcxx`), a header-only C++
layer over the AMQP client library rabbitmq-c. It contains TLA+ modules translated
from `src/include/rmqcxx`, TLC configurations that check them on small instances,
and TLAPS proofs that hold for every value of their constants.

    tlc -workers 2 -config MCConsume_calls.cfg MCConsume      # one run
    tlapm ConsumeProofs.tla                                   # one set of proofs

`PROJECT.json` lists runs, mutants, findings, hazards and theorems, and maps each
definition to the lines it translates.

## 1. The system

rmqcxx gives the connections, channels, queues and exchanges of AMQP a C++ face:
objects with destructors, exceptions instead of status codes, `std::chrono`
durations instead of `timeval`. It runs no thread of its own and keeps almost no
state. What makes it hard is what lies around it: a broker that may send any
frame at any time and close what it likes; a C library with one reply slot per
connection and memory pools whose contents die when they are released; a system
clock that can be set while a call waits; and exceptions that may leave any call
half way.

| component | state | operations | talks to |
|---|---|---|---|
| **Connection, consuming** (`Connection.hpp` 229-493, 611-713) | on the stack of one call: timeout left, `done`, `timeval`, a clock reading, the frame in hand | `consume`, `consumeEnvelope`, `consumeReturnedMessage`, `consumeAcknowledge`, each timed and blocking | rabbitmq-c (two waits, one read, one release), the clock, the caller's callbacks |
| **Connection, calling** (84-227, 495-609) | the library's connection object | constructors, destructor, `rpc`, `processReply`, `getRpcTimeout`, `setRpcTimeout`, move | rabbitmq-c: login, close, the reply slot, the pools |
| **Channel** | its number, `moved_`, a reference to the Connection | open (constructor), close (destructor), move, `ack`, `nack`, `publish`, `qos`, `flow`, `recover`, `rpc` | `Connection::rpc`, the pool of its number |
| **Queue**, **Exchange** | name, a reference to the Channel | `declare`, `bind`, `unbind`, `remove`, and `consume`, `purge` of Queue | `Channel::rpc` |
| **util** | none | `timeValue`, `durationValue`, `bytes`, `container`, `defer` | everybody |
| **AMQPStruct, Envelope, Message** | a C structure that owns buffers, `moved_` | move, move-assign, destroy | rabbitmq-c's `amqp_destroy_*` |
| **ReturnedMessage** | a Message and a copy of `basic.return` whose bytes lie in a pool | move, destroy | the pools |
| **FieldValue, Table, TableEntry** | views of the caller's memory | construct, copy, move, convert | the caller's objects |
| **Exceptions** | references to Connection and Channel | construct | handlers |
| **`examples/advconsumer.cpp`** | message queue, acknowledgement queue, two locks, `run_` | worker loop with reconnection, `receive`, `acknowledge`, `start`, `stop` | all of the above, and threads |

### Hard behaviours, and what makes each component correct

* *Consuming.* A wait that finds a frame it does not know reports an error and a
  second wait has to find the same frame again; a returned message needs a further
  read, without a timeout; the typed methods (all but `consume`) wrap this in loops
  that pass over frames of other kinds and must charge every wait to one timeout
  with a clock that can be set. Correct means: results tell the truth, frames are
  served, passed over or reported but never lost, the waits fit into the timeout
  and use it up, calls end, and the library's buffers are kept while the callback
  looks at them and released on every way out.
* *Calling.* The exception of a call is decided by whatever reply the library
  recorded last; releases are deferred past exceptions in one place and skipped by
  them in another; the right to close a channel moves with the object. Correct
  means: a call throws for its own failure, each open channel has one object
  that will close it, pools do not fill up, and failures reach the caller.
* *Memory* (AMQPStruct, ReturnedMessage, FieldValue, Table): buffers have one owner
  and views do not outlive what they look at.
* *advconsumer*: the queues are only touched under their locks, an acknowledgement
  goes to the connection that delivered the message, and none is lost.

`PROJECT.json` lists the hazards line by line, with the property that watches each,
or why none does.

## 2. The modules

| module | models | code |
|---|---|---|
| `TimeVal` | `timeValue`, `durationValue` as operators on clock ticks | `util.hpp` 58-80 |
| `Consume` | the consuming half of Connection, one step at a time | `Connection.hpp` 229-493, 636-713 |
| `ConsumePromise` | what a call of `consume*` promises, without loops, clocks or buffers | abstract |
| `MCConsume` | values for the constants of Consume | |
| `ConsumeProofs` | TLAPS proofs about TimeVal and Consume | |
| `Channels` | Connection's construction, destruction and `rpc`; Channel; the calls of Queue and Exchange | `Connection.hpp` 84-186, 540-609, `Channel.hpp`, `Queue.hpp`, `Exchange.hpp` |
| `ChannelPromise` | what Channel promises: openings that are passed on and closed by one object | abstract |
| `MCChannels` | values for the constants of Channels | |
| `ChannelsProofs` | TLAPS proofs about Channels | |
| `Lifetimes` | the library's pools and the pointers into them that are handed out | `Connection.hpp` 567-697, `Channel.hpp` 247-253, `Queue.hpp`, `ReturnedMessage.hpp` |
| `MCLifetimes`, `LifetimesProofs` | values for its constants; its proofs | |
| `Ownership` | the buffers behind Envelope and Message, and who destroys them | `AMQPStruct.hpp`, `Envelope.hpp`, `Message.hpp` |
| `UniqueOwner` | what AMQPStruct promises: a map from buffers to their owner | abstract |
| `MCOwnership`, `OwnershipProofs` | values for the constants of Ownership; its proofs | |
| `FieldTable` | values, entries and tables, and the memory they look at | `FieldValue.hpp`, `TableEntry.hpp`, `Table.hpp` |
| `MCFieldTable`, `FieldTableProofs` | values for its constants; its proofs | |
| `AdvConsumer` | the threaded example: worker, processing threads, locks, reconnection | `examples/advconsumer.cpp` |
| `MCAdvConsumer`, `AdvConsumerProofs` | values for its constants; its proofs | |

Definitions marked `faulty:` are plausible mistakes in the definition that follows
them. Nothing refers to them: exchanging one for its original must break
the property that watches for it, which shows that the property can fail.

### Consume

One call is in progress at a time, as a connection belongs to one thread. `pc` is
the place the call got to; each step runs from one interaction with the world to the next.

| `pc` | the code is | leaves by |
|---|---|---|
| `idle` | not in a call | `Begin` |
| `loop` | at the head of a typed loop (318-327) | `LoopHead` |
| `impl` | entering `consumeImpl` (637-645) | `EnterImpl` |
| `wait1` | in `amqp_consume_message` (645) | `ConsumeDelivery`, `ConsumeOther`, `ConsumeUnexpected`, `ConsumeTimeout`, `ConsumeError` |
| `readEnvelope` | still in it, reading the content of a delivery | `ReadEnvelope` |
| `retry` | after `AMQP_STATUS_UNEXPECTED_STATE` (654-666) | `Retry` |
| `wait2` | in `amqp_simple_wait_frame_noblock` (667) | `WaitFrame`, `WaitFrameTimeout`, `WaitFrameError` |
| `readReturn` | in `amqp_read_message` (685) | `ReadReturn` |
| `callback` | calling the caller's function, or a typed method's empty lambda | `Callback`, `PassOver` |
| `release` | unwinding: the `defer` of line 639, then the loop's condition, the caller or the exception | `Release` |

Between any two steps the broker may `Send` a frame, the link may `Fail`, time may
`Tick` and the clock may be set (`JumpClock`). `wire` holds the frames that have
arrived, `held` the frame the call took off, `pool` says that decoded frames
occupy the library's buffers, `outcome` is the value or exception on its way out. Frames are
abstracted to the eight kinds the code tells apart: a delivery, one on channel 0
(line 648), an acknowledgement, a returned message, the two closes, any other
method and any frame that is no method.

*Time.* `now` is real time and `clock` what `high_resolution_clock` shows, both since the
start of the call; only differences matter to the code. A tick is the clock's unit;
`TicksPerUsec` and `UsecPerSec` scale ticks to microseconds and seconds, so that TLC
meets the rounding of `timeval` with small numbers and the proofs cover the
real ones. `waited`, `hits` and `skipped` are history, used by properties only.

*rabbitmq-c* is not part of the repository. The model follows how `consumeImpl`
uses it: a wait ends with a frame, an error, or when its timeout is over.
`FramePutBack` chooses between a library that keeps the unexpected frame for the
second wait, as current versions do, and one that may leave the second wait
waiting, which the code is prepared for (line 671) and its unit test
`ConsumeFrameTimeout` plays through with a mock. A property that needs the former
names it in its theorem and is run with it. `amqp_maybe_release_buffers` frees nothing of
a channel that has queued frames; in Consume `pool` only says whether the frames decoded in the
call have been given to it, and Lifetimes models what it frees. The broker is taken to keep to
the protocol: the content follows its `basic.deliver`, so that the read within
`amqp_consume_message` does not fail with `AMQP_STATUS_UNEXPECTED_STATE`. Line 654 would take that for
a frame of another kind, and the delivery would be lost.

### ConsumePromise

Its state is the frames not settled yet, a phase, the kinds the caller wants and the
last result. A call goes through the frames in order of arrival, skips some, hands at
most one to the callback (`Serve`) or is ended by one (`Spoil`), and ends with a
result that fits. `Consume` implements it: `Promise == INSTANCE ConsumePromise WITH
...` at the end of Consume.tla maps a frame in hand back to the front of the queue until it is
settled, and `KeepsPromise` is checked by TLC and proved.

### Channels

A call is one step with everything it does: the library call, `processReply`, the
releases, the exception. That is sound as long as a connection stays in one
thread and the broker's moves are steps between calls: what the broker does during
a call is part of its answer.

* `conn` is the Connection object, `session`, `channel`, `closing` the broker's side:
  the channels it has open (`channel[id]` numbers the opening, so that a reopened
  number is a different channel) and the closes it sent that nobody has read.
* `last` is the library's reply slot, which `amqp_get_rpc_reply` reads at line 571.
  Calls that wait for an answer fill it; `ack`, `nack`, `publish`, `amqp_channel_close` and
  login do not. `pools` are the numbers with a decoded reply that the library has
  not been told to release.
* `handle` are the program's variables of type Channel. `Closers` are those whose
  destructor will close: constructed and not moved from.
* `call` records the last call: what became of it (`own`), what it threw.
* `reused`, history, are the numbers opened on this connection while an object that
  will close them was still there.
* `Open`, `Destroy`, `Move`, `Sync` (the waiting calls of Channel and Queue),
  `ExchangeCall`, `Async` (`ack`, `nack`, `publish`), `Consume` (the part of
  `consumeImpl` that reads a channel close), `Connect`, `Disconnect` are the
  program; `BrokerClosesChannel`, `SessionEnds`, `Answers` and `Answered` the broker.

A channel may be opened with any number, as the constructor (`CanOpen`) checks none: the
broker refuses a number it has open, and accepts one it has closed itself, whatever objects the program has left for it. Then
two objects will close the same number (section 4, item 9), and the properties say what
remains true. Two things are assumed of the program: it destroys channels
before their connection (`Disconnect`) and does not move from an object twice
(`Move`); each is a guard with a comment.

### ChannelPromise

Its state is the number of openings so far, the owners of each and the openings the broker has; it
knows nothing of channel numbers. An object gets the next opening (`Get`), passes it on (`Pass`) and closes it
(`Close`); the broker may take openings away under their owners (`Lose`), and the destructor of
an owner that lost its opening may close a later one (`CloseLater`), which is the code's
confusion of numbers seen from outside. `Promise` at the end of
Channels.tla maps an object that will close its channel to the owner of its opening (`OwnersOf`). Since `Lose` may
happen at any time, the promise alone does not say that a destructor leaves other
channels open; `DestructorsCloseNothingOlder` says which it leaves open.

### Lifetimes

rabbitmq-c decodes each method frame into the pool of its channel. Replies are numbered in order;
`home` is their channel, `live` those in the used part of a pool, `intact` those
whose bytes are unharmed, `queued` those in frames the library has put aside. A
release (`Release`) takes all replies of a channel out of use unless a frame of it is queued,
which is what `amqp_maybe_release_buffers` checks; the pages stay, and the next
decode on the channel may overwrite what was released. `Call`, `Publish`,
`ConnectionCall`, `ConsumeReturn`, `CallbackEnds` and `ConsumeOther` are the releases of
`Channel::rpc`, `Connection::rpc` and `consumeImpl` with what each hands out: `result` of
`Queue::declare`, `callback` of a returned message. Calls
may be made in a callback; a nested `consume` is left out.

### Ownership and UniqueOwner

`memory_` is reduced to the buffer it points to and `moved_` to membership in `moved`; moving copies
`memory_` and leaves the pointer in the source, as the code does. The program may do what the classes let
it do: construct objects empty (`Construct`) or from a structure the library has filled (`ConstructFrom`), move from
objects that were moved from, assign to objects that own a buffer and to themselves. It hands a filled structure to one object
only. `again` counts the moves from objects that were moved from (bound: `MaxAgain`); `owner` maps the
state to UniqueOwner's: the one object that would destroy the buffer. `Lose` of UniqueOwner is an assignment
to an owner, which leaves its buffer to nobody.

### FieldTable

Memory is a set of numbered blocks that are made and freed; a block whose contents change
becomes another block. `reach` is all that can be reached from a block, `Values` what a
FieldValue can point to. An entry owns its key, which lies in the object if it is short, so that a move
makes another block of it, or passes its block on. A table owns the block of `cache_` and keeps a
pointer to it in `value_.entries` (`array`), which every constructor and assignment
sets anew. `parts` remembers the keys and values the entries were made from. The vector
of a table that is moved to itself may come out empty or unchanged. A table moved from
still points to the block the other one has now, which is why `TablesFollowTheirParts` leaves it out.

### AdvConsumer

`worker` and `thread[t]` are the places the worker and each processing thread are at: waiting
for a lock, inside it, or outside. The broker numbers the deliveries of each connection from
one, hands unacknowledged messages out again when the connection ends, and closes the
channel for a tag it does not know. When the link is lost (`LinkLost`) neither side knows: the broker
may find out first (`BrokerNotices`), or the worker, which until then may poll without result and
send acks that reach nobody; the broker has the messages back when the worker hangs up at the latest. The code keeps a message as its tag and body; the model
also keeps the connection it came by (`conn`), for the properties. The callback of the
worker adds to `messages_` without its lock. Where another thread is inside at that moment
(`Racing`) the behaviour is undefined and the step may also lose the entry, give it
another id, or leave in the queue what was taken, and `raced` records it. `stop` may be called at any time; the last step
of the program is `Ended`. `start` is called once, as in `main`; a Consumer that is started again after
`stop` and `join` would keep the ids of its last connection in `ackQueue_`, as only the catch block empties it.

## 3. What is checked

Every passing run has a mutant for each of its properties. Each violation run is
about one sentence of the documentation which the code contradicts.

| run | question | bounds |
|---|---|---|
| `consume_calls` | Is the result true (`ResultIsTruthful`), does any frame vanish (`NoFrameSwallowed`), are the buffers kept and released (`BuffersHeldForCallback`), does the call keep the promise (`KeepsPromise`)? Do calls end: with the wanted frame there (`WantedFrameEndsCall`), a timed `consume` always (`TimedConsumeReturns`), every timed call once the broker is silent (`TimedReturnsWhenQuiet`)? | all eight frame kinds, two frames waiting, timeouts 0 and 1, no time outside waits, a second wait that may block |
| `consume_time` | Types (`TypeOK`), waits within the timeout (`WaitsAtMostTimeout`), no early end (`TimeoutNotEarly`), no time gained (`TimeoutShrinks`) | the three contents, one frame waiting, timeouts 0 and 3, 3 ticks outside waits, clock set by -2 or 2, 2 ticks a microsecond, 2 microseconds a second |
| `consume_early` | Is the timeout used up (`TimesOutAfterTimeout`)? It is not, see below | timeout 4, one frame waiting |
| `channels` | Types, and objects only for openings that succeeded (`TypeOK`), one closer per open channel (`OneCloserPerChannel`), no replies left on channels in use (`UsedChannelsHoldNoReplies`), openings with one object (`KeepsChannelPromise`), what destructors close (`DestructorsCloseNothingOlder`) | three variables, two numbers, three openings |
| `channels_stale_reply` | Do calls that only send throw for themselves (`AsyncThrowsForItself`)? They do not, see below | two openings |
| `adv_consumer` | Types (`TypeOK`), the two locks (`AckQueueExclusive`, `OnlyTheCallbackRaces`), one holder for each delivery (`DeliveriesHaveOneHolder`), ids left over (`StaleIdsAreFew`) and what they can lose (`LossesAreBounded`), what acks settle (`AcksSettleWhatWasProcessed`) | two threads, two messages, three connections |
| `adv_live` | Does an acknowledged message leave its connection (`AcknowledgedIsSettledOrReady`), does `stop` end the worker (`StopEndsWorker`)? | two threads, a message, two connections |
| `adv_stale` | Are invalid ids harmless (`InvalidIdsSettleNothing`)? They are not, see below | one thread, two messages, two connections |
| `ownership` | Types (`TypeOK`), how many owners (`OwnersAreFew`), which have their buffer (`OwnersHaveTheirBuffer`), what leaks (`LeaksAreOverwrites`), is it UniqueOwner (`ImplementsUniqueOwner`)? | four objects, three buffers, two moves from objects that were moved from |
| `field_table` | Does everything live have a holder (`TypeOK`), what do tables depend on (`TablesFollowTheirParts`)? | a string, two entries, two tables, five blocks |
| `lifetimes` | Does every queued frame keep its contents (`TypeOK`), and a callback its basic.return (`MethodSurvivesOtherChannels`)? | two channels, five frames |
| `lifetimes_declare` | Does the result of `declare` stay (`DeclareResultStays`)? It does not, see below | the same |

*Why the bounds are enough.* A consumeImpl looks at one frame; two in the queue give
loops that pass over one and serve the next while others arrive behind, and the queue
is refilled without end, so loops may go round any number of times. Timeouts up to
four ticks with seconds of two or four ticks exercise both fields of a timeval, the fractions it
drops, and loops that wait several times. `MaxTime` limits what a call spends outside
waits; time inside waits is limited by the timeouts (`consume_calls` is about what is done in which order and spends none outside
waits, `consume_time` is about durations). The clock is set at most once in
a call. Three variables and two numbers allow a move with both numbers in
use; three openings allow a number to be used again, by another object or while its first object lives.
Two channels and five frames let a frame be queued, its pool be released, reused and
overwritten while the other channel is in use. Five blocks allow two entries, a table of
both, its copy and one more key. Two connections make stale ids, three let the ids of two
of them meet, and a message that is given back can be delivered again on each. With two threads and two messages
`LossesAreBounded` forbids any loss on the first connection, and on the second that both messages are lost
while an id is left or one while two are; the proof is for all numbers. Four objects and three buffers
let a buffer have two and three owners while others are passed on. All
safety results of passing runs are proved without these bounds (section 5), but for one that is part of the
specification: the clock is set at most once during a call.

*Fairness.* `FairSpec` of Consume assumes that the calling thread is scheduled (weak
fairness of the steps of the call) and that time passes (of `Tick`). The reads of content,
`ReadEnvelope` and `ReadReturn`, have no timeout in the code; they are only bound to end once the
link is down. A broker that stops in the middle of a message can therefore hold up any
call, a timed one too, and the liveness properties say so: `ContentArrives`, that no
call stays in such a read for ever, is their hypothesis, and without it TLC refutes each of them.
Nothing else is assumed of the broker: it may send for ever or not at all, and the
link need not fail. Channels has no liveness property: each of its calls is one step.

AdvConsumer assumes that its threads are scheduled and that a thread waiting for a mutex
that becomes free again and again gets it in the end (strong fairness of `LockAcks`, `LockMessages` and
`LockAckQueue`). The C++ standard does not promise that much of `std::mutex`. The worker does I/O between two locks
and a thread that works sleeps, so that schedulers in use deliver it there; a thread whose queue is empty
(176-183) takes `messageMtx_` again at once, and what bounds that loop is `kMaxIdle`, after which it
gives up. The worker also finds out at some time that the link is lost (strong fairness of `ConsumeThrows`), as it connects with
a heartbeat of one second (line 91); without that TLC refutes `AcknowledgedIsSettledOrReady`. Nothing is assumed of the broker, the link, or `GiveUp` and `Stop`.

*Deadlock* is checked in every module but Channels, which runs with `CHECK_DEADLOCK FALSE`, as a
program whose Exchange call failed has called `std::terminate` and stops.

## 4. Where the code and its documentation differ

### Found by runs

TLC finds these runs violated; `PROJECT.json` quotes the sentence each contradicts.

1. `consume_early` - the typed loops subtract the time since the *start* from a
   timeout that earlier rounds have already reduced (`Connection.hpp:321`, and the same in the
   other typed methods). Two frames passed over, and the call returns false too early.
   If the loops subtracted from the caller's timeout the property would hold.
2. `channels_stale_reply` - `Connection::rpc` asks for the last recorded reply, also after a
   function that records none: once a call has failed, acks and publishes that were sent throw its
   failure again, on every channel, until another call that waits succeeds.
3. `adv_stale` - ids of threads that finish after a reconnection are sent on the new connection
   and settle messages nobody has processed. `adv_consumer` bounds the damage: one message for each thread and reconnection (`LossesAreBounded`).
4. `lifetimes_declare` - the result of `Queue::declare` lies in a pool that has been released
   and is overwritten by the next frame of the channel.

### Seen while modelling

These are plain from a few lines, or excluded by a constant or guard of a model. No run is
about them; the definition named shows the code's behaviour.

5. `SecondTv` (Consume): `Connection.hpp:663` computes the time spent as `start - now`, so the timeval of the
   second wait is what the first one had *plus* the time since. With a library that puts the
   unexpected frame back this does no harm. With `FramePutBack = FALSE` a call of `consume` may wait up to three
   times its timeout, all of it in the first wait and twice that in the second, and TLC refutes `WaitsAtMostTimeout`.
6. `LoopsAgain` (Consume): with nothing left of the timeout the typed loops still go round as long as there
   are frames, so frames of other kinds that keep arriving keep a timed call busy. This is why
   `TimedReturnsWhenQuiet` needs its second hypothesis.
7. `Remaining` (Consume): a clock set back by less than the time since the start goes unnoticed and the
   call waits longer; the note at 310 speaks of less only. `WaitsAtMostTimeout` excludes such a clock.
8. `ReadReturn` (Consume): content is read without a timeout (685, and the library's own read at 645); see
   *Fairness*.
9. `Destroy` (Channels): the destructor of a Channel closes its number, even if the channel was
   closed long ago and the number is a newer object's, as in `p.reset(new Channel(connection, id))`. Without
   its case for `reused` numbers TLC refutes `DestructorsCloseNothingOlder`.
10. `ThrownChannel` (Channels): `processReply` gives ChannelCloseException the number 0.
11. `ExchangeCall` (Channels): `Exchange::rpc` is `noexcept`, so its failures end the program.
12. `Connect` (Channels): exceptions of Connection's constructor refer to the object that is
    destroyed as they leave it.
13. `Call`, `CallbackEnds` (Lifetimes): the texts of `ReturnedMessage::method()` may be overwritten if the
    callback calls on the same channel; hence the hypothesis of `MethodSurvivesOtherChannels`. The method
    in the frame of a FrameException is released as it is thrown (`ConsumeOther`).
14. `MoveAssign` (Ownership): move assignment forgets the buffer of the object assigned to, and an object assigned
    to itself leaves its buffer without an owner. `LeaksAreOverwrites` says that nothing else leaks.
15. `MoveFrom` (Ownership): a second move from one object makes a second owner, and the buffer is
    destroyed twice. `again` counts these moves; without it TLC refutes `OwnersHaveTheirBuffer`.
16. `MakeEntryFromChars` (FieldTable): a FieldValue made from a C string points to a temporary; the
    example's `"x-queue-type"` entry does this.
17. `Emplace` (AdvConsumer): the worker of the example adds to `messages_` without its lock. It is the only place that does,
    and meets one thread at most (`OnlyTheCallbackRaces`).

## 5. What is proved

The theorems hold for every value of the constants allowed by `TicksAssumption`
(`TimeVal`: scales are positive) and the assumption of each module (types of
the constants; channel numbers are positive and exist; locks are held by someone or `Nobody`; there are
finitely many threads and messages). `tlapm` checks every leaf.

**`ConsumeProofs`**

* `TypeCorrect`: `TypeOK`. `timeValue` of a negative duration would break it; the clamp in
  `Remaining` and the test in `SecondTv` are why there is none.
* `CallInvariant`, `CallsAreTruthful`, `FramesAreNotSwallowed`, `BuffersAreHeld`: `ResultIsTruthful`, `NoFrameSwallowed`, `BuffersHeldForCallback`. None is
  inductive: each speaks of the end of a call and knows nothing about the way there. `CallInv` adds, for each place,
  what the call can have done by then (`CallProgress`), and what an outcome says
  about the frame and the callback (`OutcomeMatchesFrame`).
* `BudgetKept`, `WaitBound`: `WaitsAtMostTimeout`, if `FramePutBack`. `TimeBudget` follows the rest of the
  timeout through its forms - duration, timeval, expiry of the wait - and says that it fits into what
  the waits have left. Without `FramePutBack` item 5 of section 4 refutes it; with it, `pc \in {"retry", "wait2"}` implies that a frame is there.
  The loops stay within the budget because `now` counts all the time since the start,
  waits included, and the loop subtracts at least that.
* `TimeoutNeverGrows`: `TimeoutShrinks`, a step property, from the types alone.
* `TimeoutKept`, `NotEarly`: `TimeoutNotEarly`, from `WholeTimeout`, which is `TimeBudget` from below: a call that passed over
  nothing still has its timeout but for a microsecond. It rests on the lemmas `RoundTrip`
  and `WholeMicroseconds`: a timeval loses less than a microsecond, and only once.
* `PromiseKept`: `Spec => KeepsPromise`. Every action maps to a step of ConsumePromise or to a
  stutter, with `TypeOK` and `CallInv` as hypotheses.

**`ChannelsProofs`**

* `TypeCorrect`: `TypeOK`.
* `OwnershipInvariant`, `RepliesReleased`: `UsedChannelsHoldNoReplies` is not inductive: a
  destructor leaves a reply for a *number*, and that this is nobody else's follows only if objects
  that will close never share one, also while their channels are closed at the broker, but for
  numbers in `reused`. `OwnershipInv` adds that (`DistinctNumbers`) and that what is open has an object
  (`OpenChannelsHaveClosers`).
* `PromiseInvariant`, `OneCloser`, `PromiseOfChannels`: `OwnershipInv` is about numbers and does not say whether an
  opening is shared; `PromiseInv` adds that it is not (`DistinctOpenings`), that the channel
  the broker has open under a number is the latest of the openings that have an object for it (`LastIsOpen`), and that a new connection, which starts counting
  again, finds no objects (`ObjectsNeedConnection`). `OneCloserPerChannel` follows, and for `KeepsChannelPromise` one lemma for each
  kind of step maps it to its step of ChannelPromise.
* `DestructorsSpareOlder`: `DestructorsCloseNothingOlder`, from `LastIsOpen` and `DistinctNumbers`: what a destructor closes by its number
  (`DestroyCloses`) is an opening no older than its own, and one that is not its own has another object, so that the
  number is in `reused`.

**`LifetimesProofs`** - `TypeCorrect`: `TypeOK`, which says that queued frames are in use and what is in use
is intact. `MethodStaysReadable`: `MethodSurvivesOtherChannels` says nothing of replies that are
intact by luck; `CallbackInUse` strengthens it to *in use*, which only a call on the same channel or
one of `Connection::rpc` ends, and both are recorded in `called`.

**`OwnershipProofs`** - no theorem restricts what the program moves or assigns.

* `TypeCorrect`: `TypeOK`.
* `OwnersStayFew`: `OwnersAreFew`. A move takes the source's place among the owners of a buffer, and where the source was
  no owner any more the move is counted (`MoveOwners`, `MoveKeepsFew`).
* `BuffersOutliveOwners`: `OwnersHaveTheirBuffer` needs `OwnersAreFew`, as a buffer with two owners would be destroyed under
  one of them (`Owned`).
* `OnlyOverwritesLeak`: `LeaksAreOverwrites`, from what each operation does to the owners of a buffer.
* `OwnershipKept`: `ImplementsUniqueOwner`, a step at a time (`UniqueStep`): while `again` is zero, every action is a step of
  UniqueOwner or none.

**`FieldTableProofs`** - `TypeCorrect`, `TablesOnlyNeedTheirParts`, both from one invariant: strings, entries
and tables hold different blocks, and those are the live ones (`OwnInv`, over all holders at once),
and the block of a table not moved from is its own, with nothing behind it but its parts (`TableInv`).

**`AdvConsumerProofs`** - in the order they build on each other:

* `TypeCorrect`: `TypeOK`.
* `AcksAreExclusive`, `OthersTakeTurns`: `AckQueueExclusive` and `OnlyTheCallbackRaces`, from `LockInv` and `MessageLockInv`,
  which tie each mutex to the places of its holder.
* `AcksSettleTheirMessages`: `AcksSettleWhatWasProcessed`, from `TagsInv`: whatever item of the present connection is in a
  queue or in a hand is a delivery of that connection with its own tag (`Carried`), and the ids in the queue are
  of processed messages, as long as no race has happened.
* `DeliveriesStayWithOne`: `DeliveriesHaveOneHolder`, that an item is in one place only on its way from `messages` through a
  hand to `ackQueue` (`OneInQueues`, `OneInHands`). Alone it is not inductive: the item the callback adds must differ from all
  that are around. `AllCounted`, the other part of `OnceInv`, says so: the items of the present connection have tags
  up to `taken`, which the callback counts up and only a new connection sets back, and no item is of a later connection.
* `StaleIdsStayFew`: `StaleIdsAreFew` is not inductive: a connection that begins makes everything stale that is around.
  `FewInv` says that nothing is by then but ids the threads hold or have just passed on: when the worker
  comes to `connect`, it has emptied both queues, `ackQueue` after `messages`, so that what was put into the former
  since is of a message that was in a hand then (`Bounded(conn + 1)`). The
  counting is by injections and finite sets: what `Tail` and `Append` do to the number of stale ids (`StaleTail`, `StaleAppend`), and
  that an acknowledgement passes an id on (`AcknowledgeKeepsCount`).
* `LossesStayBounded`: `LossesAreBounded`. Within a connection a stale id that settles a message is used up by it
  (`LossOfStep`), and an id that is not stale loses nothing, by `TagsInv`; a reconnection adds
  one id for each thread at most, by `FewInv` (`LossAtConnect`). The sum over connections is a product because
  `conn` counts them.

*Only model-checked:* the liveness properties (of `consume_calls` and `adv_live`), as liveness under fairness
is out of this prover's reach, and the violation runs, which are counterexamples.

## 6. What is not modelled, and the plan

Not modelled by choice: the straight-line examples and performance programs, the unit
tests and their mock, the build files, texts of exceptions, SASL and connection
parameters that are passed through. rabbitmq-c itself is external.

Left out of the models, each with its reason:

* Connections that are moved, or destroyed before their channels: no code of the library deals with
  either, and a model would only restate that a reference dangles.
* `getRpcTimeout` and `setRpcTimeout`, which read and store one value in the library; integers of
  their width in the conversions; accessors that only read.
* The references to Connection and Channel that exceptions hold.
* Replies read by `consume`, `remove`, `purge` and `flow` after their release: read in the statement
  that made the call, with no step in between.
* The idle time of the example's threads: `GiveUp` may happen whenever a thread found nothing.
* A Consumer that is started again, which the example does not do.
* A broker that breaks the protocol between a delivery and its content.

Planned, in this order:

1. A callback that calls `consume` again (Lifetimes, and Consume with a stack of calls).
2. `getRpcTimeout` and `setRpcTimeout`, and TimeVal with integers of their width.
3. A program that keeps to the advice of section 4 (destroys before it reopens, moves once, reads
   results at once) as one composition of Channels, Lifetimes and Ownership.
