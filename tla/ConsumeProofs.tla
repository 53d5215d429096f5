--------------------------- MODULE ConsumeProofs ---------------------------
(***************************************************************************)
(* Proofs about Consume, for every set of timeouts, every resolution of    *)
(* the clock, every length of the queue and every change of the clock.     *)
(***************************************************************************)
EXTENDS Consume, SequenceTheorems, TLAPS

-----------------------------------------------------------------------------
(* Durations and timevals *)

\* a second has ticks
LEMMA TicksPerSecPositive == TicksPerSec \in Nat \ {0}
BY TicksAssumption, SMT DEF TicksPerSec

\* a quotient times its divisor leaves less than the divisor
LEMMA Quotient ==
    ASSUME NEW d \in Nat, NEW unit \in Nat \ {0}
    PROVE  /\ Cast(d, unit) \in Nat
           /\ Cast(d, unit) * unit <= d
           /\ d < Cast(d, unit) * unit + unit
BY SMT DEF Cast

\* timeValue (util.hpp) followed by durationValue gives back the duration but
\* for less than a microsecond
LEMMA RoundTrip ==
    ASSUME NEW d \in Nat
    PROVE  /\ TimeValue(d) \in TimeVals
           /\ DurationValue(TimeValue(d)) <= d
           /\ d < DurationValue(TimeValue(d)) + TicksPerUsec
<1> DEFINE s == Cast(d, TicksPerSec)
           u == Cast(d - s * TicksPerSec, TicksPerUsec)
<1>1. /\ s \in Nat
      /\ s * TicksPerSec <= d
  BY Quotient, TicksPerSecPositive
<1>2. s * TicksPerSec \in Nat
  BY <1>1, TicksPerSecPositive, SMT
<1>3. d - s * TicksPerSec \in Nat
  BY <1>1, <1>2, SMT
<1>4. /\ u \in Nat
      /\ u * TicksPerUsec <= d - s * TicksPerSec
      /\ d - s * TicksPerSec < u * TicksPerUsec + TicksPerUsec
  BY <1>3, Quotient, TicksAssumption
<1>5. u * TicksPerUsec \in Nat
  BY <1>4, TicksAssumption, SMT
<1>6. TimeValue(d) = [tv_sec |-> s, tv_usec |-> u]
  BY DEF TimeValue
<1>7. TimeValue(d) \in TimeVals
  BY <1>1, <1>4, <1>6 DEF TimeVals
<1>8. DurationValue(TimeValue(d)) = s * TicksPerSec + u * TicksPerUsec
  BY <1>6 DEF DurationValue
<1> HIDE DEF s, u
<1> QED BY <1>2, <1>3, <1>4, <1>5, <1>7, <1>8, TicksAssumption, SMT

\* a timeval the code builds stands for a duration that is not negative
LEMMA DurationType ==
    ASSUME NEW t \in TimeVals
    PROVE  DurationValue(t) \in Nat
BY TicksAssumption, TicksPerSecPositive, SMT DEF DurationValue, TimeVals

\* the library polls when it is given ZeroTv
LEMMA ZeroDuration == ZeroTv \in TimeVals /\ DurationValue(ZeroTv) = 0
BY TicksPerSecPositive, TicksAssumption, SMT DEF ZeroTv, TimeVals, DurationValue

\* the timeval of the second wait is one
LEMMA SecondTvType ==
    ASSUME TypeOK
    PROVE  SecondTv \in TimeVals
<1>1. DurationValue(tv) \in Nat
  BY DurationType DEF TypeOK
<1>2. CASE clock < implStart
  BY <1>2, ZeroDuration DEF SecondTv
<1>3. CASE ~(clock < implStart)
  <2>1. DurationValue(tv) - (implStart - clock) \in Nat
    BY <1>1, <1>3, SMT DEF TypeOK
  <2>2. TimeValue(DurationValue(tv) - (implStart - clock)) \in TimeVals
    BY <2>1, RoundTrip
  <2> QED BY <1>3, <2>2, ZeroDuration DEF SecondTv
<1> QED BY <1>2, <1>3

\* what a typed loop has left is never more than it had
LEMMA RemainingBound ==
    ASSUME NEW timeout \in Nat, NEW reading \in Int
    PROVE  /\ Remaining(timeout, reading) \in Nat
           /\ Remaining(timeout, reading) <= timeout
           /\ reading >= 0 /\ Remaining(timeout, reading) # 0
                => Remaining(timeout, reading) + reading <= timeout
BY SMT DEF Remaining

-----------------------------------------------------------------------------
(* Type correctness *)

\* Consume's variables keep their types, in every call, whatever the broker,
\* the link and the clock do.
THEOREM TypeCorrect == Spec => []TypeOK
<1>1. Init => TypeOK
  <2> SUFFICES ASSUME Init PROVE TypeOK
    OBVIOUS
  <2>1. done \in BOOLEAN /\ pool \in BOOLEAN /\ skipped \in BOOLEAN
    BY Zenon DEF Init
  <2> QED BY <2>1, ZeroDuration, SMT DEF Init, TypeOK, PCs, Methods
<1>2. TypeOK /\ [Next]_vars => TypeOK'
  <2> SUFFICES ASSUME TypeOK, [Next]_vars PROVE TypeOK'
    OBVIOUS
  <2> USE DEF env, time, loop, impl, hist
  <2>1. CASE Send
    BY <2>1, ConsumeAssumption DEF Send, TypeOK
  <2>2. CASE Fail
    BY <2>2 DEF Fail, TypeOK
  <2>3. CASE Tick
    BY <2>3, SMT DEF Tick, TypeOK
  <2>4. CASE JumpClock
    BY <2>4, ConsumeAssumption, SMT DEF JumpClock, TypeOK
  <2>5. CASE Begin
    <3>1. /\ call' \in [method : Methods, timed : BOOLEAN, timeout : Nat]
          /\ call'.timeout \in Nat
      BY <2>5, ConsumeAssumption, SMT DEF Begin, Calls
    <3>2. TimeValue(call'.timeout) \in TimeVals
      BY <3>1, RoundTrip
    <3>3. done' \in BOOLEAN /\ pool' \in BOOLEAN /\ skipped' \in BOOLEAN
      BY <2>5, Zenon DEF Begin, TypeOK
    <3> QED BY <2>5, <3>1, <3>2, <3>3, SMT DEF Begin, TypeOK, PCs
  <2>6. CASE LoopHead
    <3>1. Remaining(internalTimeout, clock) \in Nat
      BY RemainingBound DEF TypeOK
    <3>2. TimeValue(internalTimeout') \in TimeVals
      BY <2>6, <3>1, RoundTrip DEF LoopHead
    <3> QED BY <2>6, <3>1, <3>2 DEF LoopHead, TypeOK, PCs
  <2>7. CASE EnterImpl
    <3>1. now + DurationValue(tv) \in Nat
      BY DurationType, SMT DEF TypeOK
    <3> QED BY <2>7, <3>1 DEF EnterImpl, TypeOK, PCs
  <2>8. CASE ConsumeDelivery
    <3>1. Head(wire) \in FrameKinds /\ Tail(wire) \in Seq(FrameKinds)
      BY <2>8 DEF ConsumeDelivery, TypeOK
    <3> QED BY <2>8, <3>1 DEF ConsumeDelivery, TypeOK, PCs
  <2>9. CASE ConsumeOther \/ ConsumeUnexpected
    BY <2>9 DEF ConsumeOther, ConsumeUnexpected, TypeOK, PCs
  <2>10. CASE ConsumeTimeout \/ ConsumeError
    BY <2>10 DEF ConsumeTimeout, ConsumeError, Yield, TypeOK, PCs, Exceptions,
                 ReplyExceptions
  <2>11. CASE ReadEnvelope
    BY <2>11 DEF ReadEnvelope, Yield, TypeOK, PCs, Exceptions, ReplyExceptions
  <2>12. CASE Retry
    <3>1. tv' \in TimeVals
      BY <2>12, SecondTvType DEF Retry, TypeOK
    <3>2. now + DurationValue(tv') \in Nat
      BY <3>1, DurationType, SMT DEF TypeOK
    <3> QED BY <2>12, <3>1, <3>2 DEF Retry, TypeOK, PCs
  <2>13. CASE WaitFrame
    <3>1. Head(wire) \in FrameKinds /\ Tail(wire) \in Seq(FrameKinds)
      BY <2>13 DEF WaitFrame, TypeOK
    <3>2. pc' \in PCs /\ outcome' \in Exceptions \cup {outcome}
      BY <2>13 DEF WaitFrame, Yield, Thrown, PCs, Exceptions, ReplyExceptions
    <3> QED BY <2>13, <3>1, <3>2 DEF WaitFrame, TypeOK
  <2>14. CASE WaitFrameTimeout \/ WaitFrameError
    BY <2>14 DEF WaitFrameTimeout, WaitFrameError, Yield, TypeOK, PCs, Exceptions
  <2>15. CASE ReadReturn
    BY <2>15 DEF ReadReturn, Yield, TypeOK, PCs, Exceptions
  <2>16. CASE Callback
    BY <2>16, SMT DEF Callback, Yield, TypeOK, PCs, Typed
  <2>17. CASE PassOver
    BY <2>17 DEF PassOver, Yield, TypeOK, PCs
  <2>18. CASE Release
    <3>1. pool' \in BOOLEAN /\ done' \in BOOLEAN /\ skipped' \in BOOLEAN
      BY <2>18, Zenon DEF Release, TypeOK
    <3>2. pc' \in PCs
      BY <2>18, Zenon DEF Release, PCs
    <3> QED BY <2>18, <3>1, <3>2, ZeroDuration, SMT DEF Release, TypeOK
  <2>19. CASE UNCHANGED vars
    BY <2>19 DEF vars, TypeOK
  <2> QED BY <2>1, <2>2, <2>3, <2>4, <2>5, <2>6, <2>7, <2>8, <2>9, <2>10, <2>11,
             <2>12, <2>13, <2>14, <2>15, <2>16, <2>17, <2>18, <2>19
          DEF Next, CallStep, OwnStep, ReadContent
<1> QED BY <1>1, <1>2, PTL DEF Spec

-----------------------------------------------------------------------------
(* The waits of a timed call *)

\* A timed call gives its waits a budget that its timeout covers; this needs
\* the library to keep the unexpected frame, for otherwise the second wait,
\* whose timeval grows with the time spent, is a wait too.
THEOREM BudgetKept ==
    ASSUME FramePutBack
    PROVE  Spec => []TimeBudget
<1>1. Init => TimeBudget
  <2> SUFFICES ASSUME Init PROVE TimeBudget
    OBVIOUS
  <2> QED BY SMT DEF Init, TimeBudget
<1>2. TypeOK /\ TypeOK' /\ TimeBudget /\ [Next]_vars => TimeBudget'
  <2> SUFFICES ASSUME TypeOK, TypeOK', TimeBudget, [Next]_vars PROVE TimeBudget'
    OBVIOUS
  <2>t. /\ now \in Nat /\ clock \in Int /\ until \in Nat /\ waited \in Nat
        /\ call.timeout \in Nat /\ internalTimeout \in Nat
        /\ DurationValue(tv) \in Nat
    BY DurationType DEF TypeOK
  <2> USE DEF env, time, loop, impl, hist
  <2>1. CASE Send
    BY <2>1, <2>t DEF Send, TimeBudget, TypeOK
  <2>2. CASE Fail
    BY <2>2 DEF Fail, TimeBudget
  <2>3. CASE Tick
    BY <2>3, <2>t, SMT DEF Tick, TimeBudget, Waits
  <2>4. CASE JumpClock
    <3>1. PICK d \in Jumps : /\ clock' = clock + d
                             /\ adjusted' = {IF d < 0 THEN "back" ELSE "forward"}
      BY <2>4 DEF JumpClock
    <3>2. "back" \notin adjusted' => "back" \notin adjusted /\ d >= 0
      BY <2>4, <3>1, ConsumeAssumption, SMT DEF JumpClock
    <3> QED BY <2>4, <2>t, <3>1, <3>2, ConsumeAssumption, SMT
            DEF JumpClock, TimeBudget
  <2>5. CASE Begin
    <3>1. DurationValue(TimeValue(call'.timeout)) <= call'.timeout
      BY <2>5, ConsumeAssumption, RoundTrip DEF Begin, Calls, TypeOK
    <3>2. call'.timeout \in Nat /\ DurationValue(tv') \in Nat
      BY DurationType DEF TypeOK
    <3> QED BY <2>5, <3>1, <3>2, SMT DEF Begin, TimeBudget
  <2>6. CASE LoopHead
    <3> DEFINE left == Remaining(internalTimeout, clock)
    <3>1. /\ left \in Nat
          /\ left <= internalTimeout
          /\ clock >= 0 /\ left # 0 => left + clock <= internalTimeout
      BY <2>t, RemainingBound
    <3>2. DurationValue(TimeValue(left)) <= left
      BY <3>1, RoundTrip
    <3>3. internalTimeout' = left /\ tv' = TimeValue(left)
      BY <2>6 DEF LoopHead
    <3>4. DurationValue(tv') \in Nat
      BY DurationType DEF TypeOK
    <3> HIDE DEF left
    <3> QED BY <2>6, <2>t, <3>1, <3>2, <3>3, <3>4, SMT DEF LoopHead, TimeBudget
  <2>7. CASE EnterImpl
    BY <2>7, <2>t, SMT DEF EnterImpl, TimeBudget
  <2>8. CASE ConsumeDelivery
    BY <2>8, <2>t, SMT DEF ConsumeDelivery, TimeBudget
  <2>9. CASE ConsumeOther \/ ConsumeUnexpected
    BY <2>9, <2>t, FramePutBack DEF ConsumeOther, ConsumeUnexpected, TimeBudget
  <2>10. CASE ConsumeTimeout \/ ConsumeError
    BY <2>10 DEF ConsumeTimeout, ConsumeError, Yield, TimeBudget
  <2>11. CASE ReadEnvelope
    BY <2>11 DEF ReadEnvelope, Yield, TimeBudget
  <2>12. CASE Retry
    BY <2>12, <2>t, SMT DEF Retry, TimeBudget
  <2>13. CASE WaitFrame
    BY <2>13 DEF WaitFrame, Yield, TimeBudget
  <2>14. CASE WaitFrameTimeout \/ WaitFrameError
    BY <2>14 DEF WaitFrameTimeout, WaitFrameError, Yield, TimeBudget
  <2>15. CASE ReadReturn
    BY <2>15 DEF ReadReturn, Yield, TimeBudget
  <2>16. CASE Callback
    BY <2>16 DEF Callback, Yield, TimeBudget
  <2>17. CASE PassOver
    BY <2>17 DEF PassOver, Yield, TimeBudget
  <2>18. CASE Release
    BY <2>18 DEF Release, TimeBudget
  <2>19. CASE UNCHANGED vars
    BY <2>19 DEF vars, TimeBudget
  <2> QED BY <2>1, <2>2, <2>3, <2>4, <2>5, <2>6, <2>7, <2>8, <2>9, <2>10, <2>11,
             <2>12, <2>13, <2>14, <2>15, <2>16, <2>17, <2>18, <2>19
          DEF Next, CallStep, OwnStep, ReadContent
<1> QED BY <1>1, <1>2, TypeCorrect, PTL DEF Spec

\* consume(timeout, ...) and the typed methods: the time spent in the library
\* never exceeds the timeout, whatever it is and however often the loop goes
\* round, if the clock is not set back.
THEOREM WaitBound ==
    ASSUME FramePutBack
    PROVE  Spec => []WaitsAtMostTimeout
<1>1. TimeBudget => WaitsAtMostTimeout
  BY DEF TimeBudget, WaitsAtMostTimeout
<1> QED BY <1>1, BudgetKept, PTL

\* The head of a typed loop takes the time passed off the timeout it has left,
\* and no reading of the clock adds to it.
THEOREM TimeoutNeverGrows == Spec => TimeoutShrinks
<1>1. TypeOK /\ [Next]_vars
        => [pc # "idle" => internalTimeout' <= internalTimeout]_vars
  <2> SUFFICES ASSUME TypeOK, Next, pc # "idle"
               PROVE  internalTimeout' <= internalTimeout
    BY DEF vars
  <2>1. CASE LoopHead
    BY <2>1, RemainingBound DEF LoopHead, TypeOK
  <2>2. CASE ~LoopHead
    <3>1. internalTimeout' = internalTimeout
      BY <2>2 DEF Next, CallStep, OwnStep, ReadContent, Send, Fail, Tick, JumpClock,
                  Begin, EnterImpl, ConsumeDelivery, ConsumeOther, ConsumeUnexpected,
                  ConsumeTimeout, ConsumeError, ReadEnvelope, Retry, WaitFrame, WaitFrameTimeout,
                  WaitFrameError, ReadReturn, Callback, PassOver, Release, loop
    <3> QED BY <3>1, SMT DEF TypeOK
  <2> QED BY <2>1, <2>2
<1> QED BY <1>1, TypeCorrect, PTL DEF Spec, TimeoutShrinks

-----------------------------------------------------------------------------
(* What a call does with its frames *)

\* The control of a call and what it yields stay in step, through every loop
\* and every exception.
THEOREM CallInvariant == Spec => []CallInv
<1> USE DEF Contents, Want, Wanted, Typed, Deliveries, FrameKinds
<1>1. Init => CallInv
  BY DEF Init, CallInv, CallProgress, OutcomeMatchesFrame, BuffersHeldForCallback,
         Exceptions, ReplyExceptions
<1>2. TypeOK /\ TypeOK' /\ CallInv /\ [Next]_vars => CallInv'
  <2> SUFFICES ASSUME TypeOK, TypeOK', CallInv, [Next]_vars PROVE CallInv'
    OBVIOUS
  <2> USE DEF env, time, loop, impl, hist, CallInv, CallProgress,
              OutcomeMatchesFrame, BuffersHeldForCallback, Exceptions,
              ReplyExceptions
  <2>1. CASE Send \/ Fail
    BY <2>1 DEF Send, Fail
  <2>2. CASE Tick \/ JumpClock
    BY <2>2 DEF Tick, JumpClock
  <2>3. CASE Begin
    BY <2>3 DEF Begin
  <2>4. CASE LoopHead
    BY <2>4 DEF LoopHead
  <2>5. CASE EnterImpl
    BY <2>5 DEF EnterImpl
  <2>6. CASE ConsumeDelivery
    BY <2>6 DEF ConsumeDelivery
  <2>7. CASE ConsumeOther \/ ConsumeUnexpected
    BY <2>7 DEF ConsumeOther, ConsumeUnexpected
  <2>8. CASE ConsumeTimeout \/ ConsumeError
    BY <2>8 DEF ConsumeTimeout, ConsumeError, Yield
  <2>9. CASE ReadEnvelope
    <3>1. /\ hits = 0 /\ outcome = "pending" /\ held \in Deliveries
          /\ ~(Typed /\ hits > 0) /\ ~done /\ pool
          /\ UNCHANGED <<call, hits, done, held, pool>>
      BY <2>9, SMT DEF ReadEnvelope
    <3>2. CASE pc' = "callback" /\ held = "deliver" /\ UNCHANGED outcome
      BY <3>1, <3>2
    <3>3. CASE /\ pc' = "release"
               /\ \/ outcome' = "false" /\ held = "deliver0"
                  \/ outcome' \in {"SocketException", "RPCException"}
      BY <3>1, <3>3
    <3> QED BY <2>9, <3>2, <3>3 DEF ReadEnvelope, Yield
  <2>10. CASE Retry
    BY <2>10 DEF Retry
  <2>11. CASE WaitFrame
    <3>1. /\ pc = "wait2" /\ held' = Head(wire) /\ pool' = TRUE
          /\ held' \in FrameKinds
          /\ UNCHANGED <<call, hits, done>>
      BY <2>11 DEF WaitFrame, TypeOK
    <3>2. CASE held' = "ack" /\ pc' = "callback" /\ UNCHANGED outcome
      BY <3>1, <3>2
    <3>3. CASE held' = "return" /\ pc' = "readReturn" /\ UNCHANGED outcome
      BY <3>1, <3>3
    <3>4. CASE /\ held' \notin {"ack", "return"}
               /\ pc' = "release" /\ outcome' = Thrown(held')
      BY <3>1, <3>4 DEF Thrown
    <3> QED BY <2>11, <3>2, <3>3, <3>4 DEF WaitFrame, Yield
  <2>12. CASE WaitFrameTimeout \/ WaitFrameError
    BY <2>12 DEF WaitFrameTimeout, WaitFrameError, Yield
  <2>13. CASE ReadReturn
    BY <2>13 DEF ReadReturn, Yield
  <2>14. CASE Callback
    <3>1. hits = 0 /\ hits' = 1
      BY <2>14, SMT DEF Callback
    <3>2. done' <=> Typed
      BY <2>14, Zenon DEF Callback
    <3>3. /\ pc' = "release" /\ held' = held /\ call' = call /\ pool' = pool
          /\ outcome' \in {"true", "CallbackException"}
          /\ Wanted /\ held \in Contents
      BY <2>14 DEF Callback, Yield
    <3>4. Wanted' /\ held' \in Contents /\ (Typed' <=> Typed)
      BY <3>3
    <3> QED BY <3>1, <3>2, <3>3, <3>4
  <2>15. CASE PassOver
    BY <2>15 DEF PassOver, Yield
  <2>16. CASE Release
    BY <2>16 DEF Release, LoopsAgain
  <2>17. CASE UNCHANGED vars
    BY <2>17 DEF vars
  <2> QED BY <2>1, <2>2, <2>3, <2>4, <2>5, <2>6, <2>7, <2>8, <2>9, <2>10, <2>11,
             <2>12, <2>13, <2>14, <2>15, <2>16, <2>17
          DEF Next, CallStep, OwnStep, ReadContent
<1> QED BY <1>1, <1>2, TypeCorrect, PTL DEF Spec

\* consume* (Connection.hpp): the result of a call tells whether the caller's
\* callback ran, the frames it took off the connection are accounted for, and
\* the library's buffers are released on every way out, not before.
THEOREM CallsAreTruthful ==
    Spec => [](ResultIsTruthful /\ NoFrameSwallowed /\ BuffersHeldForCallback)
<1>1. TypeOK /\ CallInv => ResultIsTruthful
  <2> SUFFICES ASSUME TypeOK, CallInv, pc = "idle" PROVE ResultIsTruthful
    BY DEF ResultIsTruthful
  <2>1. outcome = "true" => hits = 1 /\ Wanted
    BY DEF CallInv, OutcomeMatchesFrame
  <2>2. outcome = "CallbackException" => hits = 1 /\ Wanted
    BY DEF CallInv, OutcomeMatchesFrame
  <2>3. outcome \in {"false"} \cup Exceptions => hits = 0
    BY DEF CallInv, OutcomeMatchesFrame
  <2>4. ~call.timed /\ Typed => outcome # "false"
    BY DEF CallInv, OutcomeMatchesFrame
  <2> QED BY <2>1, <2>2, <2>3, <2>4 DEF ResultIsTruthful
<1>2. TypeOK /\ CallInv => NoFrameSwallowed
  BY DEF TypeOK, CallInv, OutcomeMatchesFrame, NoFrameSwallowed, Exceptions,
         ReplyExceptions, Contents, Deliveries, FrameKinds, Thrown, Want
<1>3. CallInv => BuffersHeldForCallback
  BY DEF CallInv
<1> QED BY <1>1, <1>2, <1>3, TypeCorrect, CallInvariant, PTL

\* No frame is taken off the connection without its callback or an exception.
THEOREM FramesAreNotSwallowed == Spec => []NoFrameSwallowed
BY CallsAreTruthful, PTL

\* The buffers are held while a callback reads them and free after every call.
THEOREM BuffersAreHeld == Spec => []BuffersHeldForCallback
BY CallsAreTruthful, PTL

-----------------------------------------------------------------------------
(* A call that gives up waited long enough, unless it passed over a frame *)

\* timeValue takes a duration that is a timeval's and some more to a timeval
\* at least as long
LEMMA WholeMicroseconds ==
    ASSUME NEW t \in TimeVals, NEW more \in Nat
    PROVE  DurationValue(TimeValue(DurationValue(t) + more)) >= DurationValue(t)
<1> DEFINE d == DurationValue(t) + more
           v == TimeValue(d)
           k == t.tv_sec * UsecPerSec + t.tv_usec
           m == v.tv_sec * UsecPerSec + v.tv_usec
<1>1. DurationValue(t) \in Nat /\ d \in Nat
  BY DurationType
<1>2. v \in TimeVals /\ d < DurationValue(v) + TicksPerUsec
  BY <1>1, RoundTrip
<1>3. ASSUME NEW w \in TimeVals
      PROVE  /\ w.tv_sec * UsecPerSec + w.tv_usec \in Nat
             /\ DurationValue(w)
                  = TicksPerUsec * (w.tv_sec * UsecPerSec + w.tv_usec)
  BY TicksAssumption, SMT DEF DurationValue, TicksPerSec, TimeVals
<1>4. /\ k \in Nat /\ DurationValue(t) = TicksPerUsec * k
      /\ m \in Nat /\ DurationValue(v) = TicksPerUsec * m
  BY <1>2, <1>3
<1>5. TicksPerUsec * k < TicksPerUsec * m + TicksPerUsec
  <2>1. TicksPerUsec * k \in Nat /\ TicksPerUsec * m \in Nat
    BY <1>4, TicksAssumption, SMT
  <2> QED BY <1>2, <1>4, <2>1, TicksAssumption, SMT
<1> HIDE DEF d, v, k, m
<1>6. k <= m
  <2> SUFFICES ASSUME m + 1 <= k PROVE FALSE
    BY <1>4, SMT
  <2>1. TicksPerUsec * (m + 1) <= TicksPerUsec * k
    BY <1>4, TicksAssumption, SMT
  <2>2. TicksPerUsec * (m + 1) = TicksPerUsec * m + TicksPerUsec
    BY <1>4, TicksAssumption, SMT
  <2> QED BY <1>4, <1>5, <2>1, <2>2, TicksAssumption, SMT
<1>7. TicksPerUsec * k <= TicksPerUsec * m
  BY <1>4, <1>6, TicksAssumption, SMT
<1> QED BY <1>4, <1>7 DEF v, d

\* Up to its first frame a timed call has its timeout, up to a microsecond.
THEOREM TimeoutKept == Spec => []WholeTimeout
<1>1. Init => WholeTimeout
  BY SMT DEF Init, WholeTimeout, Waits
<1>2. TypeOK /\ TypeOK' /\ CallInv /\ WholeTimeout /\ [Next]_vars => WholeTimeout'
  <2> SUFFICES ASSUME TypeOK, TypeOK', CallInv, WholeTimeout, [Next]_vars
               PROVE  WholeTimeout'
    OBVIOUS
  <2>t. /\ now \in Nat /\ clock \in Int /\ until \in Nat /\ implStart \in Int
        /\ call.timeout \in Nat /\ internalTimeout \in Nat
        /\ tv \in TimeVals /\ DurationValue(tv) \in Nat /\ TicksPerUsec \in Nat
    BY DurationType, TicksAssumption DEF TypeOK
  <2>u. call'.timeout \in Nat /\ tv' \in TimeVals /\ DurationValue(tv') \in Nat
    BY DurationType DEF TypeOK
  <2> USE DEF env, time, loop, impl, hist
  <2>1. CASE Send \/ Fail
    BY <2>1 DEF Send, Fail, WholeTimeout
  <2>2. CASE Tick
    BY <2>2, <2>t, SMT DEF Tick, WholeTimeout, Waits
  <2>3. CASE JumpClock
    BY <2>3, <2>t, SMT DEF JumpClock, WholeTimeout, Waits
  <2>4. CASE Begin
    <3>1. call'.timeout < DurationValue(TimeValue(call'.timeout)) + TicksPerUsec
      BY <2>u, RoundTrip
    <3> QED BY <2>4, <2>u, <2>t, <3>1, SMT DEF Begin, WholeTimeout, Waits
  <2>5. CASE LoopHead
    <3> DEFINE left == Remaining(internalTimeout, clock)
    <3>1. /\ left \in Nat
          /\ clock \in Nat => left + clock >= internalTimeout
      BY <2>t, SMT DEF Remaining
    <3>2. left < DurationValue(TimeValue(left)) + TicksPerUsec
      BY <3>1, RoundTrip
    <3>3. tv' = TimeValue(left)
      BY <2>5 DEF LoopHead
    <3> HIDE DEF left
    <3> QED BY <2>5, <2>t, <2>u, <3>1, <3>2, <3>3, SMT
            DEF LoopHead, WholeTimeout, Waits
  <2>6. CASE EnterImpl
    BY <2>6, <2>t, SMT DEF EnterImpl, WholeTimeout, Waits
  <2>7. CASE ConsumeDelivery
    BY <2>7 DEF ConsumeDelivery, WholeTimeout, Waits
  <2>8. CASE ConsumeOther \/ ConsumeUnexpected
    BY <2>8 DEF ConsumeOther, ConsumeUnexpected, WholeTimeout, Waits
  <2>9. CASE ConsumeTimeout
    BY <2>9, <2>t, SMT DEF ConsumeTimeout, Expired, Yield, WholeTimeout, Waits
  <2>10. CASE ConsumeError
    BY <2>10 DEF ConsumeError, Yield, WholeTimeout, Waits
  <2>11. CASE ReadEnvelope
    BY <2>11 DEF ReadEnvelope, Yield, WholeTimeout, Waits
  <2>12. CASE Retry
    <3>1. SUFFICES ASSUME call.timed, ~skipped, adjusted = {}
                   PROVE  until' + TicksPerUsec > call.timeout
      BY <2>12, <2>t DEF Retry, WholeTimeout, Waits
    <3>2. /\ clock = now /\ implStart <= now
          /\ implStart + DurationValue(tv) + TicksPerUsec > call.timeout
      BY <2>12, <3>1 DEF Retry, WholeTimeout
    <3>3. /\ now - implStart \in Nat
          /\ DurationValue(tv) - (implStart - clock)
               = DurationValue(tv) + (now - implStart)
          /\ ~(implStart - clock > DurationValue(tv)) /\ ~(clock < implStart)
      BY <2>t, <3>2, SMT
    <3>4. tv' = TimeValue(DurationValue(tv) + (now - implStart))
      BY <2>12, <3>1, <3>3 DEF Retry, SecondTv
    <3>5. DurationValue(tv') >= DurationValue(tv)
      BY <2>t, <3>3, <3>4, WholeMicroseconds
    <3>6. until' = now + DurationValue(tv')
      BY <2>12 DEF Retry
    <3> QED BY <2>t, <2>u, <3>2, <3>5, <3>6, SMT
  <2>13. CASE WaitFrame
    BY <2>13 DEF WaitFrame, Yield, Thrown, WholeTimeout, Waits
  <2>14. CASE WaitFrameTimeout
    BY <2>14, <2>t, SMT DEF WaitFrameTimeout, Expired, Yield, WholeTimeout, Waits
  <2>15. CASE WaitFrameError
    BY <2>15 DEF WaitFrameError, Yield, WholeTimeout, Waits
  <2>16. CASE ReadReturn
    BY <2>16 DEF ReadReturn, Yield, WholeTimeout, Waits, ReplyExceptions
  <2>17. CASE Callback
    BY <2>17, SMT DEF Callback, Yield, WholeTimeout, Waits, TypeOK
  <2>18. CASE PassOver
    BY <2>18, Zenon DEF PassOver, Yield, WholeTimeout, Waits
  <2>19. CASE Release
    <3>1. LoopsAgain /\ call.timed => outcome = "true" /\ hits = 0
      BY <2>19, SMT DEF Release, LoopsAgain, CallInv, CallProgress, TypeOK
    <3> QED BY <2>19, <3>1 DEF Release, WholeTimeout, Waits
  <2>20. CASE UNCHANGED vars
    BY <2>20 DEF vars, WholeTimeout
  <2> QED BY <2>1, <2>2, <2>3, <2>4, <2>5, <2>6, <2>7, <2>8, <2>9, <2>10, <2>11,
             <2>12, <2>13, <2>14, <2>15, <2>16, <2>17, <2>18, <2>19, <2>20
          DEF Next, CallStep, OwnStep, ReadContent
<1> QED BY <1>1, <1>2, TypeCorrect, CallInvariant, PTL DEF Spec

\* A timed call that returns false before any frame it could pass over was at
\* most a microsecond early.
THEOREM NotEarly == Spec => []TimeoutNotEarly
<1>1. WholeTimeout => TimeoutNotEarly
  BY DEF WholeTimeout, TimeoutNotEarly, GaveUp
<1> QED BY <1>1, TimeoutKept, PTL

-----------------------------------------------------------------------------
(* Refinement *)

\* a frame put back in front of the queue can be taken off again, whatever
\* arrived behind it
LEMMA Prefixed ==
    ASSUME NEW s \in Seq(FrameKinds), NEW f \in FrameKinds
    PROVE  /\ <<f>> \o s # <<>>
           /\ Head(<<f>> \o s) = f
           /\ Tail(<<f>> \o s) = s
           /\ \A k \in FrameKinds : <<f>> \o Append(s, k) = Append(<<f>> \o s, k)
OBVIOUS

\* the first frame of a queue and the rest of it make up the queue
LEMMA Unprefixed ==
    ASSUME NEW s \in Seq(FrameKinds), s # <<>>
    PROVE  /\ <<Head(s)>> \o Tail(s) = s
           /\ Head(s) \in FrameKinds /\ Tail(s) \in Seq(FrameKinds)
OBVIOUS

\* Every step of a call, of the broker and of the clocks is a step of the
\* promise or none at all.
THEOREM PromiseKept == Spec => KeepsPromise
<1>1. Init => Promise!Init
  BY DEF Init, Promise!Init, promisedWire, promisedPhase, promisedWant,
         promisedResult
<1>2. TypeOK /\ TypeOK' /\ CallInv /\ CallInv' /\ [Next]_vars
        => [Promise!Next]_(Promise!vars)
  <2> SUFFICES ASSUME TypeOK, TypeOK', CallInv, CallInv', [Next]_vars
               PROVE  Promise!Next \/ UNCHANGED Promise!vars
    OBVIOUS
  <2> DEFINE promised == <<promisedWire, promisedPhase, promisedWant, promisedResult>>
             Settle(phase) == /\ promisedPhase = "open" /\ promisedPhase' = phase
                              /\ promisedWire # <<>>
                              /\ promisedWire' = Tail(promisedWire)
                              /\ UNCHANGED <<promisedWant, promisedResult>>
  <2>s. UNCHANGED promised => UNCHANGED Promise!vars
    BY DEF Promise!vars
  <2>spoil. Settle("spoiled") => Promise!Next
    BY DEF Promise!Next, Promise!Spoil
  <2>skip. Settle("open") /\ Head(promisedWire) \in Contents \cup Deliveries
             /\ Head(promisedWire) \notin promisedWant => Promise!Next
    BY DEF Promise!Next, Promise!Skip
  <2>serve. Settle("served") /\ Head(promisedWire) \in promisedWant => Promise!Next
    BY DEF Promise!Next, Promise!Serve
  <2>k. "none" \notin FrameKinds /\ Deliveries \subseteq FrameKinds
          /\ Contents \subseteq FrameKinds
    BY DEF FrameKinds, Deliveries, Contents, Want
  <2> USE DEF env, time, loop, impl, hist
  <2>1. CASE Send
    <3>1. PICK k \in Kinds : wire' = Append(wire, k)
      BY <2>1 DEF Send
    <3>2. k \in FrameKinds
      BY ConsumeAssumption
    <3>3. /\ UNCHANGED <<pc, call, held, outcome, hits>>
          /\ pc \in {"readEnvelope", "readReturn", "callback"} => held \in FrameKinds
      BY <2>1, <2>k DEF Send, CallInv, CallProgress, FrameKinds
    <3>4. promisedWire' = Append(promisedWire, k)
      BY <3>1, <3>2, <3>3, Prefixed DEF promisedWire, TypeOK
    <3>5. UNCHANGED <<promisedPhase, promisedWant, promisedResult>>
      BY <3>3 DEF promisedPhase, promisedWant, promisedResult
    <3> QED BY <3>2, <3>4, <3>5 DEF Promise!Next, Promise!Send
  <2>2. CASE Fail \/ Tick \/ JumpClock
    <3>1. UNCHANGED <<wire, pc, call, held, outcome, hits>>
      BY <2>2 DEF Fail, Tick, JumpClock
    <3> QED BY <2>s, <3>1 DEF promisedWire, promisedPhase, promisedWant, promisedResult
  <2>3. CASE Begin
    <3>1. /\ pc = "idle" /\ pc' \in {"impl", "loop"} /\ outcome' = "pending"
          /\ hits' = 0 /\ wire' = wire
      BY <2>3 DEF Begin
    <3>2. /\ promisedPhase = "idle" /\ promisedPhase' = "open"
          /\ promisedWire' = promisedWire /\ promisedResult' = "pending"
          /\ promisedWant' = Want(call'.method)
      BY <3>1 DEF promisedWire, promisedPhase, promisedWant, promisedResult,
                  Exceptions, ReplyExceptions
    <3>3. Want(call'.method) \in SUBSET FrameKinds
      BY DEF Want, FrameKinds
    <3> QED BY <3>2, <3>3 DEF Promise!Next, Promise!Begin
  <2>4. CASE LoopHead \/ EnterImpl \/ ConsumeOther \/ ConsumeUnexpected \/ Retry
    <3>1. /\ pc \in {"loop", "impl", "wait1", "retry"}
          /\ pc' \in {"impl", "wait1", "retry", "wait2"}
          /\ UNCHANGED <<wire, call, hits>>
      BY <2>4 DEF LoopHead, EnterImpl, ConsumeOther, ConsumeUnexpected, Retry
    <3>2. /\ hits = 0 /\ hits' = 0
          /\ outcome \in {"pending", "true", "false"}
          /\ outcome' \in {"pending", "true", "false"}
      BY <3>1 DEF CallInv, CallProgress
    <3> QED BY <2>s, <3>1, <3>2 DEF promisedWire, promisedPhase, promisedWant,
               promisedResult, Exceptions, ReplyExceptions
  <2>5. CASE ConsumeDelivery
    <3>1. /\ pc = "wait1" /\ pc' = "readEnvelope" /\ hits = 0
          /\ outcome = "pending" /\ wire # <<>>
          /\ held' = Head(wire) /\ wire' = Tail(wire)
          /\ UNCHANGED <<call, hits, outcome>>
      BY <2>5 DEF ConsumeDelivery, CallInv, CallProgress
    <3>2. promisedWire' = promisedWire
      BY <3>1, Unprefixed DEF promisedWire, TypeOK
    <3> QED BY <2>s, <3>1, <3>2 DEF promisedPhase, promisedWant, promisedResult,
               Exceptions, ReplyExceptions
  <2>6. CASE ConsumeTimeout \/ ConsumeError \/ WaitFrameTimeout \/ WaitFrameError
    <3>1. /\ pc \in {"wait1", "wait2"} /\ pc' = "release"
          /\ UNCHANGED <<wire, call, hits, held>>
          /\ outcome' \in {"false"} \cup Exceptions
      BY <2>6 DEF ConsumeTimeout, ConsumeError, WaitFrameTimeout, WaitFrameError,
                  Yield, Exceptions, ReplyExceptions
    <3>2. hits = 0 /\ held = "none" /\ outcome = "pending"
      BY <3>1 DEF CallInv, CallProgress
    <3> QED BY <2>s, <3>1, <3>2 DEF promisedWire, promisedPhase, promisedWant,
               promisedResult, Exceptions, ReplyExceptions
  <2>7. ASSUME pc \in {"readEnvelope", "readReturn", "callback"}
        PROVE  /\ hits = 0 /\ outcome = "pending" /\ held \in FrameKinds
               /\ promisedPhase = "open" /\ promisedResult = "pending"
               /\ promisedWant = Want(call.method)
               /\ promisedWire # <<>> /\ Head(promisedWire) = held
               /\ Tail(promisedWire) = wire
    <3>1. hits = 0 /\ outcome = "pending" /\ held \in FrameKinds
      BY <2>7, <2>k DEF CallInv, CallProgress, FrameKinds
    <3>2. promisedPhase = "open" /\ promisedResult = "pending"
      BY <2>7, <3>1 DEF promisedPhase, promisedResult, Exceptions, ReplyExceptions
    <3>3. promisedWant = Want(call.method)
      BY <3>1 DEF promisedWant
    <3>4. promisedWire # <<>> /\ Head(promisedWire) = held /\ Tail(promisedWire) = wire
      BY <2>7, <3>1, Prefixed DEF promisedWire, TypeOK
    <3> QED BY <3>1, <3>2, <3>3, <3>4
  <2>8. CASE ReadEnvelope \/ ReadReturn
    <3>1. /\ pc \in {"readEnvelope", "readReturn"}
          /\ UNCHANGED <<wire, call, hits, held>>
      BY <2>8 DEF ReadEnvelope, ReadReturn
    <3>2. CASE pc' = "callback" /\ UNCHANGED outcome
      BY <2>s, <2>7, <3>1, <3>2 DEF promisedWire, promisedPhase, promisedWant,
         promisedResult, Exceptions, ReplyExceptions
    <3>3. CASE pc' = "release" /\ outcome' \in Exceptions
      <4>1. Settle("spoiled")
        BY <2>7, <2>k, <3>1, <3>3 DEF promisedWire, promisedPhase, promisedWant,
           promisedResult, Exceptions, ReplyExceptions
      <4> QED BY <4>1, <2>spoil
    <3>4. CASE pc' = "release" /\ outcome' = "false" /\ held = "deliver0"
      <4>1. Settle("open")
        BY <2>7, <3>1, <3>4 DEF promisedWire, promisedPhase, promisedWant,
           promisedResult, Exceptions, ReplyExceptions
      <4>2. held \in Contents \cup Deliveries /\ held \notin Want(call.method)
        BY <3>4 DEF Deliveries, Want
      <4> QED BY <4>1, <4>2, <2>7, <3>1, <2>skip
    <3> QED BY <2>8, <3>2, <3>3, <3>4
            DEF ReadEnvelope, ReadReturn, Yield, Exceptions, ReplyExceptions
  <2>9. CASE WaitFrame
    <3>1. /\ pc = "wait2" /\ hits = 0 /\ outcome = "pending" /\ wire # <<>>
          /\ held' = Head(wire) /\ wire' = Tail(wire)
          /\ UNCHANGED <<call, hits>>
          /\ held' \in FrameKinds
      BY <2>9, Unprefixed DEF WaitFrame, CallInv, CallProgress, TypeOK
    <3>2. CASE pc' \in {"callback", "readReturn"} /\ UNCHANGED outcome
      <4>1. promisedWire' = promisedWire
        BY <3>1, <3>2, Unprefixed DEF promisedWire, TypeOK
      <4> QED BY <2>s, <3>1, <3>2, <4>1 DEF promisedPhase, promisedWant,
                 promisedResult, Exceptions, ReplyExceptions
    <3>3. CASE pc' = "release" /\ outcome' \in Exceptions
      <4>1. Settle("spoiled")
        BY <2>k, <3>1, <3>3 DEF promisedWire, promisedPhase, promisedWant,
           promisedResult, Exceptions, ReplyExceptions
      <4> QED BY <4>1, <2>spoil
    <3> QED BY <2>9, <3>2, <3>3 DEF WaitFrame, Yield, Thrown, Exceptions, ReplyExceptions
  <2>10. CASE Callback
    <3>1. /\ pc = "callback" /\ pc' = "release" /\ Wanted
          /\ outcome' \in {"true", "CallbackException"}
          /\ UNCHANGED <<wire, call, held>>
      BY <2>10 DEF Callback, Yield
    <3>2. hits' = 1
      BY <2>7, <2>10, <3>1, SMT DEF Callback
    <3>3. Settle("served")
      BY <2>7, <3>1, <3>2, SMT DEF promisedWire, promisedPhase, promisedWant,
         promisedResult
    <3> QED BY <2>7, <3>1, <3>3, <2>serve DEF Wanted
  <2>11. CASE PassOver
    <3>1. /\ pc = "callback" /\ pc' = "release" /\ ~Wanted /\ outcome' = "true"
          /\ UNCHANGED <<wire, call, held, hits>>
          /\ held \in Contents
      BY <2>11 DEF PassOver, Yield, CallInv, CallProgress
    <3>2. Settle("open")
      BY <2>7, <3>1 DEF promisedWire, promisedPhase, promisedWant, promisedResult,
         Exceptions, ReplyExceptions
    <3> QED BY <2>7, <3>1, <3>2, <2>skip DEF Wanted
  <2>12. CASE Release
    <3>1. /\ pc = "release" /\ outcome \notin {"none", "pending"}
          /\ UNCHANGED <<wire, call, held, outcome, hits>>
      BY <2>12 DEF Release, CallInv, CallProgress
    <3>2. CASE pc' = "loop"
      <4>1. hits = 0 /\ outcome \notin Exceptions
        BY <3>1, <3>2 DEF CallInv, CallProgress, Exceptions, ReplyExceptions
      <4> QED BY <2>s, <3>1, <3>2, <4>1
              DEF promisedWire, promisedPhase, promisedWant, promisedResult
    <3>3. CASE pc' = "idle"
      <4>1. promisedPhase # "idle" /\ promisedPhase' = "idle"
        BY <3>1, <3>3 DEF promisedPhase
      <4>2. promisedResult' = outcome
        BY <3>1, <3>3 DEF promisedResult
      <4>3. UNCHANGED <<promisedWire, promisedWant>>
        BY <3>1, <3>3 DEF promisedWire, promisedWant
      <4>4. \/ promisedPhase = "served" /\ outcome \in {"true", "CallbackException"}
            \/ promisedPhase = "spoiled" /\ outcome \in Exceptions
            \/ promisedPhase = "open" /\ outcome \in {"false"} \cup Exceptions
        <5>1. CASE outcome \in {"true", "CallbackException"}
          <6>1. hits' = 1
            BY <3>1, <3>3, <5>1 DEF CallInv, OutcomeMatchesFrame
          <6> QED BY <3>1, <5>1, <6>1, SMT DEF promisedPhase
        <5>2. CASE outcome \in {"false"} \cup Exceptions
          <6>1. hits = 0
            BY <3>1, <5>2 DEF CallInv, OutcomeMatchesFrame
          <6> QED BY <3>1, <5>2, <6>1, SMT DEF promisedPhase
        <5> QED BY <3>1, <5>1, <5>2 DEF TypeOK
      <4> QED BY <4>1, <4>2, <4>3, <4>4 DEF Promise!Next, Promise!End
    <3> QED BY <2>12, <3>2, <3>3 DEF Release
  <2>13. CASE UNCHANGED vars
    BY <2>s, <2>13 DEF vars, promisedWire, promisedPhase, promisedWant, promisedResult
  <2> QED BY <2>1, <2>2, <2>3, <2>4, <2>5, <2>6, <2>8, <2>9, <2>10, <2>11,
             <2>12, <2>13
          DEF Next, CallStep, OwnStep, ReadContent
<1> QED BY <1>1, <1>2, TypeCorrect, CallInvariant, PTL
        DEF Spec, KeepsPromise, Promise!Spec
=============================================================================
