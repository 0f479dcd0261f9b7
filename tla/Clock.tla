------------------------------- MODULE Clock -------------------------------
(***************************************************************************)
(* components/iotivity/adapter/src/clock.c.  Time is in milliseconds since  *)
(* boot, as gettimeofday gives it.                                          *)
(***************************************************************************)
EXTENDS Integers

CONSTANTS
  portTICK_RATE_MS,  \* milliseconds per FreeRTOS tick
  OC_CLOCK_SECOND,   \* OC_CLOCK_CONF_TICKS_PER_SECOND, that is CLOCKS_PER_SEC
  Step, LastMs       \* of the model: how far time moves in a step, and in all

VARIABLE now

Init == now = 0
Pass == now' = now + Step /\ now' <= LastMs
Spec == Init /\ [][Pass]_now

\* tv_sec and tv_usec of gettimeofday.
Sec(ms)  == ms \div 1000
Usec(ms) == (ms % 1000) * 1000

oc_clock_time(ms) ==
  Sec(ms) * portTICK_RATE_MS + Usec(ms) \div (1000000 \div portTICK_RATE_MS)

oc_clock_seconds(ms) == Sec(ms)

\* "Time resolution ... OC_CLOCK_CONF_TICKS_PER_SECOND" (config.h:4-8): the clock
\* counts OC_CLOCK_SECOND ticks in each second oc_clock_seconds counts.
TicksPerSecond ==
  oc_clock_time(now) \div OC_CLOCK_SECOND = oc_clock_seconds(now)
=============================================================================
