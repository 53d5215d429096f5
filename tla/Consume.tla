------------------------------ MODULE Consume ------------------------------
(***************************************************************************)
(* The consuming half of rmqcxx::Connection: consume, consumeEnvelope,     *)
(* consumeReturnedMessage and consumeAcknowledge, timed and blocking, all  *)
(* of which run consumeImpl, against a broker that sends frames, a link    *)
(* that may fail and a high_resolution_clock that may be changed.          *)
(*                                                                         *)
(* One thread uses a connection, so one call is in progress at a time and  *)
(* pc says how far it got.  Between any two of its steps frames arrive and *)
(* time passes.                                                            *)
(***************************************************************************)
EXTENDS TimeVal, Sequences

CONSTANTS Kinds,         \* the frames the broker sends, a subset of FrameKinds
          MaxQueue,      \* bound: frames that wait on the connection
          Timeouts,      \* timeouts a caller passes, in clock ticks
          MaxTime,       \* bound: ticks a call spends outside library waits
          Jumps,         \* changes made to the clock, in ticks
          FramePutBack   \* rabbitmq-c keeps an unexpected frame for the
                         \* second wait (FALSE: the second wait may block)

FrameKinds == {"deliver", "deliver0", "ack", "return", "channelClose",
               "connectionClose", "otherMethod", "nonMethod"}

ASSUME ConsumeAssumption ==
    /\ Kinds \subseteq FrameKinds
    /\ MaxQueue \in Nat \ {0}
    /\ Timeouts \subseteq Nat
    /\ MaxTime \in Nat
    /\ Jumps \subseteq Int
    /\ FramePutBack \in BOOLEAN

VARIABLES
    wire,             \* frames readable from the connection, oldest first
    link,             \* "up", "socketError" or "otherError"
    pc,               \* where the call in progress is
    call,             \* the method called and its timeout
    now,              \* real time since the call read its start
    clock,            \* what high_resolution_clock advanced since then
    adjusted,         \* directions the clock was changed in during the call
    internalTimeout,  \* of the typed loops
    done,             \* of the typed loops
    tv,               \* the timeval of consumeImpl (unused when blocking)
    implStart,        \* consumeImpl's start, a clock reading
    until,            \* real time at which the current library wait expires
    held,             \* the frame this consumeImpl took off the connection
    pool,             \* frames decoded since the last amqp_maybe_release_buffers
                      \* (of a channel with queued frames it frees nothing: Lifetimes)
    outcome,          \* what consumeImpl, and in the end the call, yields
    waited,           \* history: real time the call spent in library waits
    hits,             \* history: times the caller's callback was run
    skipped           \* history: the call passed over a frame

env  == <<wire, link>>
time == <<now, clock, adjusted>>
loop == <<call, internalTimeout, done>>
impl == <<tv, implStart, until>>
hist == <<waited, hits, skipped>>
vars == <<env, pc, loop, time, impl, held, pool, outcome, hist>>

-----------------------------------------------------------------------------
(* The methods *)

Methods == {"consume", "consumeEnvelope", "consumeReturnedMessage",
            "consumeAcknowledge"}

\* the frames a method hands to the caller's callback; for the others a typed
\* method passes an empty lambda
Want(method) == (IF method \in {"consume", "consumeEnvelope"} THEN {"deliver"} ELSE {})
    \cup (IF method \in {"consume", "consumeReturnedMessage"} THEN {"return"} ELSE {})
    \cup (IF method \in {"consume", "consumeAcknowledge"} THEN {"ack"} ELSE {})

\* a method and its timeout; a blocking one has none, and 0 stands for it
Calls == {c \in [method : Methods, timed : BOOLEAN, timeout : Timeouts \cup {0}] :
              IF c.timed THEN c.timeout \in Timeouts ELSE c.timeout = 0}

Typed == call.method # "consume"
Wanted == held \in Want(call.method)

\* the frames amqp_consume_message completes to an envelope
Deliveries == {"deliver", "deliver0"}

\* what amqp_read_message's reply makes processReply throw
ReplyExceptions == {"RPCException", "LibraryException",
                    "ConnectionCloseException", "ChannelCloseException"}

Exceptions == ReplyExceptions
                \cup {"SocketException", "FrameException", "FrameStatusException"}

PCs == {"idle", "loop", "impl", "wait1", "retry", "wait2", "readEnvelope",
        "readReturn", "callback", "release"}
Waits == {"wait1", "wait2"}

-----------------------------------------------------------------------------
Init ==
    /\ wire = <<>> /\ link = "up"
    /\ pc = "idle"
    /\ call = [method |-> "consume", timed |-> FALSE, timeout |-> 0]
    /\ now = 0 /\ clock = 0 /\ adjusted = {}
    /\ internalTimeout = 0 /\ done = FALSE
    /\ tv = ZeroTv /\ implStart = 0 /\ until = 0
    /\ held = "none" /\ pool = FALSE
    /\ outcome = "none"
    /\ waited = 0 /\ hits = 0 /\ skipped = FALSE

-----------------------------------------------------------------------------
(* The environment *)

\* a frame of the broker reaches the connection
Send == /\ link = "up"
        /\ Len(wire) < MaxQueue
        /\ \E kind \in Kinds : wire' = Append(wire, kind)
        /\ UNCHANGED <<link, pc, loop, time, impl, held, pool, outcome, hist>>

\* the link fails for good
Fail == /\ link = "up"
        /\ link' \in {"socketError", "otherError"}
        /\ UNCHANGED <<wire, pc, loop, time, impl, held, pool, outcome, hist>>

\* Time passes during a timed call.  The library's wait ends as soon as there
\* is something to report.
Tick == /\ pc # "idle" /\ call.timed
        /\ IF pc \in Waits
           THEN wire = <<>> /\ link = "up" /\ now < until
           ELSE now < MaxTime
        /\ now' = now + 1
        /\ clock' = clock + 1
        /\ waited' = IF pc \in Waits THEN waited + 1 ELSE waited
        /\ UNCHANGED <<env, pc, loop, adjusted, impl, held, pool, outcome,
                       hits, skipped>>

\* the system's time is set; bound: once in a call
JumpClock == /\ pc # "idle" /\ call.timed
             /\ adjusted = {}
             /\ \E d \in Jumps :
                  /\ clock' = clock + d
                  /\ adjusted' = {IF d < 0 THEN "back" ELSE "forward"}
             /\ UNCHANGED <<env, pc, loop, now, impl, held, pool, outcome, hist>>

-----------------------------------------------------------------------------
(* The public methods *)

\* A caller calls a method.  The generic consume converts its timeout and goes
\* straight to consumeImpl, a typed method reads the clock and enters its loop.
Begin == /\ pc = "idle"
         /\ call' \in Calls
         /\ internalTimeout' = call'.timeout
         /\ done' = FALSE
         /\ tv' = TimeValue(call'.timeout)
         /\ pc' = IF call'.method = "consume" THEN "impl" ELSE "loop"
         /\ now' = 0 /\ clock' = 0 /\ adjusted' = {}
         /\ outcome' = "pending"
         /\ held' = "none"
         /\ waited' = 0 /\ hits' = 0 /\ skipped' = FALSE
         /\ UNCHANGED <<env, implStart, until, pool>>

\* faulty: no std::max with zero
RemainingUnclamped(timeout, reading) == timeout - reading
\* faulty: trusts a clock that was set back
RemainingTrustsClock(timeout, reading) ==
    IF timeout < reading THEN 0 ELSE timeout - reading

\* what a typed loop leaves of its timeout at a reading of the clock; it was
\* entered at reading 0
Remaining(timeout, reading) ==
    IF reading < 0 \/ timeout < reading THEN 0 ELSE timeout - reading

\* faulty: every round starts with the whole timeout
LoopHeadKeepsTimeout ==
    /\ pc = "loop"
    /\ pc' = "impl"
    /\ tv' = TimeValue(internalTimeout)
    /\ UNCHANGED <<env, loop, time, implStart, until, held, pool, outcome, hist>>

\* the head of a typed loop: take the time since the start off the timeout and
\* call consume with what is left
LoopHead == /\ pc = "loop"
            /\ pc' = "impl"
            /\ internalTimeout' = Remaining(internalTimeout, clock)
            /\ tv' = TimeValue(internalTimeout')
            /\ UNCHANGED <<env, call, done, time, implStart, until, held, pool,
                           outcome, hist>>

\* faulty: while (r), or for ever
LoopsAgainIgnoringDone == Typed /\ (call.timed => outcome = "true")
\* faulty: while (!done) in the timed loops too
LoopsAgainAfterTimeout == Typed /\ ~done

\* while (r && !done) of the timed loops, while (!done) of the blocking ones
LoopsAgain == Typed /\ ~done /\ (call.timed => outcome = "true")

-----------------------------------------------------------------------------
(* consumeImpl *)

\* reads its start and enters amqp_consume_message
EnterImpl == /\ pc = "impl"
             /\ pc' = "wait1"
             /\ implStart' = clock
             /\ until' = now + DurationValue(tv)
             /\ held' = "none"
             /\ outcome' = "pending"
             /\ UNCHANGED <<env, loop, time, tv, pool, hist>>

\* leave the body of consumeImpl with this value or exception
Yield(value) == pc' = "release" /\ outcome' = value

\* amqp_consume_message meets a delivery, which it goes on to read
ConsumeDelivery == /\ pc = "wait1" /\ wire # <<>> /\ Head(wire) \in Deliveries
                   /\ held' = Head(wire)
                   /\ wire' = Tail(wire)
                   /\ pc' = "readEnvelope"
                   /\ pool' = TRUE
                   /\ UNCHANGED <<link, loop, time, impl, outcome, hist>>

\* it meets another frame, keeps it and reports AMQP_STATUS_UNEXPECTED_STATE
ConsumeOther == /\ pc = "wait1" /\ wire # <<>> /\ Head(wire) \notin Deliveries
                /\ pc' = "retry"
                /\ pool' = TRUE
                /\ UNCHANGED <<env, loop, time, impl, held, outcome, hist>>

\* it reports AMQP_STATUS_UNEXPECTED_STATE and keeps nothing for the next wait
ConsumeUnexpected == /\ pc = "wait1" /\ ~FramePutBack
                     /\ pc' = "retry"
                     /\ UNCHANGED <<env, loop, time, impl, held, pool, outcome, hist>>

\* a wait of the library is over without a frame
Expired == wire = <<>> /\ link = "up" /\ call.timed /\ now >= until

ConsumeTimeout == /\ pc = "wait1" /\ Expired
                  /\ Yield("false")
                  /\ UNCHANGED <<env, loop, time, impl, held, pool, hist>>

ConsumeError == /\ pc = "wait1" /\ wire = <<>> /\ link # "up"
                /\ Yield(IF link = "socketError" THEN "SocketException"
                                                 ELSE "RPCException")
                /\ UNCHANGED <<env, loop, time, impl, held, pool, hist>>

\* The envelope is complete, or reading it failed.  An envelope on channel 0
\* is none.  The broker sends the content after basic.deliver, so that the read
\* does not end in AMQP_STATUS_UNEXPECTED_STATE.
ReadEnvelope == /\ pc = "readEnvelope"
                /\ \/ held = "deliver0" /\ Yield("false")
                   \/ held = "deliver" /\ pc' = "callback" /\ UNCHANGED outcome
                   \/ Yield("SocketException")
                   \/ Yield("RPCException")
                /\ UNCHANGED <<env, loop, time, impl, held, pool, hist>>

\* the timeval of the second wait, `spent` being computed as start - now
SecondTv == IF clock < implStart
            THEN ZeroTv
            ELSE LET initial == DurationValue(tv)
                     spent   == implStart - clock
                 IN  IF spent > initial THEN ZeroTv ELSE TimeValue(initial - spent)

\* after AMQP_STATUS_UNEXPECTED_STATE: adjust tv and enter
\* amqp_simple_wait_frame_noblock
Retry == /\ pc = "retry"
         /\ pc' = "wait2"
         /\ tv' = IF call.timed THEN SecondTv ELSE tv
         /\ until' = now + DurationValue(tv')
         /\ UNCHANGED <<env, loop, time, implStart, held, pool, outcome, hist>>

\* faulty: the case of the channel close falls through
ThrownFallsThrough(kind) ==
    IF kind \in {"channelClose", "connectionClose"} THEN "ConnectionCloseException"
                                                    ELSE "FrameException"

\* what consumeImpl throws for a frame it has no callback for
Thrown(kind) == IF kind = "channelClose" THEN "ChannelCloseException"
                ELSE IF kind = "connectionClose" THEN "ConnectionCloseException"
                ELSE "FrameException"

\* the second wait yields a frame, which consumeImpl looks at
WaitFrame == /\ pc = "wait2" /\ wire # <<>>
             /\ held' = Head(wire)
             /\ wire' = Tail(wire)
             /\ pool' = TRUE
             /\ \/ held' = "ack" /\ pc' = "callback" /\ UNCHANGED outcome
                \/ held' = "return" /\ pc' = "readReturn" /\ UNCHANGED outcome
                \/ held' \notin {"ack", "return"} /\ Yield(Thrown(held'))
             /\ UNCHANGED <<link, loop, time, impl, hist>>

\* faulty: waits again instead of giving up
WaitFrameTimeoutRetries ==
    /\ pc = "wait2" /\ Expired
    /\ pc' = "retry"
    /\ UNCHANGED <<env, loop, time, impl, held, pool, outcome, hist>>

WaitFrameTimeout == /\ pc = "wait2" /\ Expired
                    /\ Yield("false")
                    /\ UNCHANGED <<env, loop, time, impl, held, pool, hist>>

WaitFrameError == /\ pc = "wait2" /\ wire = <<>> /\ link # "up"
                  /\ Yield("FrameStatusException")
                  /\ UNCHANGED <<env, loop, time, impl, held, pool, hist>>

\* faulty: the reply of amqp_read_message is not looked at
ReadReturnUnchecked ==
    /\ pc = "readReturn"
    /\ \/ pc' = "callback" /\ UNCHANGED outcome
       \/ Yield("true")
    /\ UNCHANGED <<env, loop, time, impl, held, pool, hist>>

\* amqp_read_message, without a timeout, and processReply on its reply
ReadReturn == /\ pc = "readReturn"
              /\ \/ pc' = "callback" /\ UNCHANGED outcome
                 \/ \E e \in ReplyExceptions : Yield(e)
              /\ UNCHANGED <<env, loop, time, impl, held, pool, hist>>

\* the caller's callback runs (the typed lambdas set done first) and may throw
Callback == /\ pc = "callback" /\ Wanted
            /\ hits' = hits + 1
            /\ done' = Typed
            /\ \E value \in {"true", "CallbackException"} : Yield(value)
            /\ UNCHANGED <<env, call, internalTimeout, time, impl, held, pool,
                           waited, skipped>>

\* the empty lambda of a typed method runs
PassOver == /\ pc = "callback" /\ ~Wanted
            /\ skipped' = TRUE
            /\ Yield("true")
            /\ UNCHANGED <<env, loop, time, impl, held, pool, waited, hits>>

\* faulty: the release is the last statement instead of a defer
ReleaseUnlessThrown ==
    /\ pc = "release"
    /\ pool' = (pool /\ outcome \in Exceptions)
    /\ tv' = ZeroTv /\ implStart' = 0 /\ until' = 0
    /\ pc' = IF outcome \in {"true", "false"} /\ LoopsAgain
             THEN "loop" ELSE "idle"
    /\ UNCHANGED <<env, loop, time, held, outcome, hist>>

\* faulty: a typed loop swallows the library's failures and tries again
ReleaseTriesAgain ==
    /\ pc = "release"
    /\ pool' = FALSE
    /\ tv' = ZeroTv /\ implStart' = 0 /\ until' = 0
    /\ pc' = IF outcome # "CallbackException" /\ LoopsAgain THEN "loop" ELSE "idle"
    /\ UNCHANGED <<env, loop, time, held, outcome, hist>>

\* consumeImpl's defer runs amqp_maybe_release_buffers on every way out and its
\* locals end; then an exception propagates, a typed loop goes round again or
\* the call returns
Release == /\ pc = "release"
           /\ pool' = FALSE
           /\ tv' = ZeroTv /\ implStart' = 0 /\ until' = 0
           /\ pc' = IF outcome \in {"true", "false"} /\ LoopsAgain
                    THEN "loop" ELSE "idle"
           /\ UNCHANGED <<env, loop, time, held, outcome, hist>>

OwnStep == \/ LoopHead \/ EnterImpl
           \/ ConsumeDelivery \/ ConsumeOther \/ ConsumeUnexpected
           \/ ConsumeTimeout \/ ConsumeError
           \/ Retry \/ WaitFrame \/ WaitFrameTimeout \/ WaitFrameError
           \/ Callback \/ PassOver
           \/ Release

ReadContent == ReadEnvelope \/ ReadReturn

CallStep == OwnStep \/ ReadContent

Next == Send \/ Fail \/ Tick \/ JumpClock \/ Begin \/ CallStep

Spec == Init /\ [][Next]_vars

(* The call's thread is scheduled and time passes.  The content of a delivery or a
   return is read without a timeout: such a read ends if the link goes down, but
   the broker may also stop within a message.  Nothing is assumed of it. *)
Fairness == WF_vars(OwnStep \/ (link # "up" /\ ReadContent)) /\ WF_vars(Tick)
FairSpec == Spec /\ Fairness

-----------------------------------------------------------------------------
(* Properties *)

\* The type invariant of the consuming half of Connection.
TypeOK ==
    /\ wire \in Seq(FrameKinds)
    /\ link \in {"up", "socketError", "otherError"}
    /\ pc \in PCs
    /\ call \in [method : Methods, timed : BOOLEAN, timeout : Nat]
    /\ now \in Nat /\ clock \in Int /\ adjusted \subseteq {"back", "forward"}
    /\ internalTimeout \in Nat /\ done \in BOOLEAN
    /\ tv \in TimeVals /\ implStart \in Int /\ until \in Nat
    /\ held \in FrameKinds \cup {"none"}
    /\ pool \in BOOLEAN
    /\ outcome \in Exceptions
                     \cup {"none", "pending", "true", "false", "CallbackException"}
    /\ waited \in Nat /\ hits \in Nat /\ skipped \in BOOLEAN

\* What a call yields says what it did with the caller's callback, through
\* every iteration of the loops and every exception: true means that the
\* callback ran, once, for a frame the method is for; false and the library's
\* exceptions mean that it did not run.
ResultIsTruthful ==
    pc = "idle" =>
        /\ outcome \in {"true", "CallbackException"} => hits = 1 /\ Wanted
        /\ outcome \in {"false"} \cup Exceptions => hits = 0
        /\ ~call.timed /\ Typed => outcome # "false"

\* No frame disappears: one that the last consumeImpl took off the connection
\* either reached the caller's callback or is why the call threw; a call that
\* timed out took none but an envelope on channel 0.  (The frames of earlier
\* iterations are the ones a typed method ignores.)
NoFrameSwallowed ==
    pc = "idle" =>
        /\ held = "channelClose" => outcome = "ChannelCloseException"
        /\ held = "connectionClose" => outcome = "ConnectionCloseException"
        /\ held \in {"otherMethod", "nonMethod"} => outcome = "FrameException"
        /\ held \in {"deliver", "return", "ack"} /\ outcome = "false" => FALSE
        /\ held \in {"deliver", "return", "ack"} /\ hits = 0
             => outcome \in Exceptions

\* The decoded frames occupy the library's buffers for exactly as long as
\* consumeImpl needs them: the arguments of the acknowledge and the returned
\* message callbacks lie there while the callback runs, and no way out of a
\* call, an exception included, leaves them occupied.
BuffersHeldForCallback ==
    /\ pc = "idle" => ~pool
    /\ pc \in {"readEnvelope", "readReturn", "callback"} => pool

\* A timed call waits in the library no longer than its timeout in all,
\* however many frames it passes over, unless the clock was set back.
WaitsAtMostTimeout ==
    call.timed /\ "back" \notin adjusted => waited <= call.timeout

\* a timed call, whose clock nobody changed, returned false for want of frames
GaveUp == /\ pc = "idle" /\ outcome = "false" /\ held # "deliver0"
          /\ call.timed /\ adjusted = {}

\* A timed call that gives up without having passed over a frame did so no
\* more than a microsecond early, the precision of its timeval, unless the
\* clock was changed.
TimeoutNotEarly ==
    GaveUp /\ ~skipped => now + TicksPerUsec > call.timeout

\* The timeout a typed loop has left only ever shrinks, whatever the clock
\* does: no reading of the clock gives time back that an earlier one took.
TimeoutShrinks ==
    [][pc # "idle" => internalTimeout' <= internalTimeout]_vars

\* The broker finishes the messages it begins, or the link goes down.
ContentArrives == []<>(pc \notin {"readEnvelope", "readReturn"})

\* A call that starts with the frame it is for already on the connection
\* comes to its end: it goes through the frames ahead of that one, and only
\* a message that stops half way can hold it up.
WantedFrameEndsCall ==
    ContentArrives =>
        ((pc # "idle" /\ \E i \in 1..Len(wire) : wire[i] \in Want(call.method))
            ~> pc = "idle")

\* A timed call of the generic consume always ends, whatever arrives and however
\* its waits are divided, but for a message that stops half way: amqp_read_message
\* has no timeout.
TimedConsumeReturns ==
    ContentArrives => ((pc # "idle" /\ call.timed /\ ~Typed) ~> pc = "idle")

\* A timed call of any method ends if the broker falls silent between messages.
TimedReturnsWhenQuiet ==
    ContentArrives /\ (<>[][Len(wire') <= Len(wire)]_vars)
        => ((pc # "idle" /\ call.timed) ~> pc = "idle")

-----------------------------------------------------------------------------
(* The inductive invariants behind the safety properties *)

\* the frames that have a callback
Contents == Want("consume")

\* How far a call got bounds what it can have done: only the last two places
\* come after the callback, and what the way out yields is settled there.
CallProgress ==
    /\ pc \in {"loop", "impl"} =>
         hits = 0 /\ outcome \in {"pending", "true", "false"}
    /\ pc \in {"wait1", "retry", "wait2"} =>
         hits = 0 /\ outcome = "pending" /\ held = "none"
    /\ pc = "readEnvelope" => hits = 0 /\ outcome = "pending" /\ held \in Deliveries
    /\ pc = "readReturn"   => hits = 0 /\ outcome = "pending" /\ held = "return"
    /\ pc = "callback"     => hits = 0 /\ outcome = "pending" /\ held \in Contents
    /\ pc = "release"      => outcome \notin {"none", "pending"}
    /\ pc = "loop"         => Typed
    /\ pc # "idle"         => (done <=> Typed /\ hits > 0)

\* What consumeImpl yields goes with the frame it took and the callback.
OutcomeMatchesFrame ==
    /\ outcome = "true" /\ pc \in {"release", "idle"} =>
         /\ held \in Contents
         /\ IF Wanted THEN hits = 1 ELSE hits = 0 /\ pc = "release"
    /\ outcome = "CallbackException" => Wanted /\ hits = 1 /\ held \in Contents
    /\ outcome = "false" /\ pc \in {"release", "idle"} =>
         /\ hits = 0 /\ held \in {"none", "deliver0"}
         /\ pc = "idle" /\ ~call.timed => ~Typed
    /\ outcome \in Exceptions =>
         /\ hits = 0 /\ pc \in {"release", "idle"}
         /\ held \in FrameKinds \ (Contents \cup Deliveries)
              => outcome = Thrown(held)
    /\ outcome = "none" => held = "none" /\ pc = "idle"
    /\ pc = "idle" => outcome # "pending"

CallInv == CallProgress /\ OutcomeMatchesFrame /\ BuffersHeldForCallback

\* What is left of the timeout, in every form the code gives it, fits into
\* what the waits so far have left of it.
TimeBudget ==
    /\ waited <= now
    /\ "back" \notin adjusted => now <= clock
    /\ internalTimeout <= call.timeout
    /\ pc \in {"retry", "wait2"} => wire # <<>>
    /\ call.timed /\ "back" \notin adjusted =>
         /\ waited <= call.timeout
         /\ pc = "impl"  => waited + DurationValue(tv) <= call.timeout
         /\ pc = "wait1" => waited + (until - now) <= call.timeout

\* A call that passed over nothing still has its whole timeout, up to a
\* microsecond, in whatever form the code keeps it.
WholeTimeout ==
    /\ outcome = "true" /\ pc = "release" /\ hits = 0 => skipped
    /\ adjusted = {} => clock = now
    /\ call.timed /\ ~skipped /\ adjusted = {} =>
         /\ pc = "loop" => internalTimeout = call.timeout
         /\ pc = "impl" => now + DurationValue(tv) + TicksPerUsec > call.timeout
         /\ pc \in {"wait1", "retry"} =>
              /\ implStart <= now
              /\ implStart + DurationValue(tv) + TicksPerUsec > call.timeout
         /\ pc \in Waits => until + TicksPerUsec > call.timeout
         /\ pc \in {"release", "idle"} /\ outcome = "false" /\ held # "deliver0"
              => now + TicksPerUsec > call.timeout

-----------------------------------------------------------------------------
(* What the documentation says and the code does not do *)

\* "Duration after which this client times out", with a note that the clock
\* may shorten it: a call that gives up without a change of the clock has
\* spent its timeout, up to the microsecond.
TimesOutAfterTimeout ==
    GaveUp => now + TicksPerUsec > call.timeout

-----------------------------------------------------------------------------
(* Refinement: a call does what ConsumePromise says *)

\* a frame taken but not settled yet is still the promise's next frame
promisedWire == IF pc \in {"readEnvelope", "readReturn", "callback"}
                THEN <<held>> \o wire ELSE wire
promisedPhase == IF pc = "idle" THEN "idle"
                 ELSE IF hits > 0 THEN "served"
                 ELSE IF outcome \in Exceptions /\ held # "none" THEN "spoiled"
                 ELSE "open"
promisedWant == IF outcome = "none" THEN {} ELSE Want(call.method)
promisedResult == IF pc = "idle" THEN outcome ELSE "pending"

Promise == INSTANCE ConsumePromise WITH
    Kinds       <- FrameKinds,
    Skippable   <- Contents \cup Deliveries,
    Failures    <- Exceptions,
    UserFailure <- "CallbackException",
    wire        <- promisedWire,
    phase       <- promisedPhase,
    want        <- promisedWant,
    result      <- promisedResult

\* Every behaviour of consume* is one the promise allows: frames in their
\* order, at most one of them to the callback, the others passed over or the
\* reason of an exception, and the result is the truth.
KeepsPromise == Promise!Spec
=============================================================================
