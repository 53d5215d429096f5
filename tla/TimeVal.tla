------------------------------ MODULE TimeVal ------------------------------
(***************************************************************************)
(* The conversions of util.hpp between std::chrono durations and the       *)
(* ::timeval that rabbitmq-c takes.  A duration is an integer number of    *)
(* clock ticks (nanoseconds in the build, TicksPerUsec = 1000 and          *)
(* UsecPerSec = 1000000); std::chrono::duration_cast truncates toward      *)
(* zero, so a duration that is not a whole number of microseconds loses    *)
(* its rest on the way to a timeval.                                       *)
(***************************************************************************)
EXTENDS Integers

CONSTANTS TicksPerUsec, UsecPerSec

ASSUME TicksAssumption == /\ TicksPerUsec \in Nat \ {0}
                          /\ UsecPerSec \in Nat \ {0}

TicksPerSec == TicksPerUsec * UsecPerSec

\* std::chrono::duration_cast to a unit of `unit` ticks: the quotient of C++,
\* truncated toward zero
Cast(d, unit) == IF d >= 0 THEN d \div unit ELSE -((-d) \div unit)

\* faulty: forgets tv_usec
TimeValueWholeSeconds(d) == [tv_sec |-> Cast(d, TicksPerSec), tv_usec |-> 0]

\* util.hpp, timeValue
TimeValue(d) ==
    LET seconds == Cast(d, TicksPerSec)
    IN  [tv_sec  |-> seconds,
         tv_usec |-> Cast(d - seconds * TicksPerSec, TicksPerUsec)]

\* util.hpp, durationValue, for a Duration as fine as the timeval itself:
\* both casts are exact
DurationValue(tv) == tv.tv_sec * TicksPerSec + tv.tv_usec * TicksPerUsec

\* ::timeval{.tv_sec = 0, .tv_usec = 0}
ZeroTv == [tv_sec |-> 0, tv_usec |-> 0]

\* the timevals of durations that are not negative
TimeVals == [tv_sec : Nat, tv_usec : Nat]
=============================================================================
