------------------------------ MODULE HsbToRgb ------------------------------
(***************************************************************************)
(* The colour conversion of main/esp32_lightbulb/lightbulb.c: hue (degrees),*)
(* saturation and brightness (percent) to the percent of each LED, and from *)
(* there to the PWM duty the LEDC driver is given.                          *)
(*                                                                          *)
(* A colour is a triple <<r, g, b>>, in the order of the LEDC channels 0-2. *)
(***************************************************************************)
EXTENDS Integers

Channels == 1..3

PWM_TARGET_DUTY == 8192

U8(x)  == x % 256
U16(x) == x % 65536

\* The three early returns on the range of an input.
InRange(h, s, v) == h <= 360 /\ s <= 100 /\ v <= 100

\* `hi`, `F`, `P`, `Q` and `T` of the code, held in uint16_t.  The numerators
\* the switch below selects are never negative (Q is not selected for h = 360),
\* so C's division is \div.
Sextant(h) == (h \div 60) % 6
FractionOfHue(h) == U16((100 * h) \div 60)  \* mutant: the sextant is not taken off
Fraction(h) == U16((100 * h) \div 60 - 100 * Sextant(h))
P(s, v)    == (v * (100 - s)) \div 100
Q(h, s, v) == (v * (10000 - Fraction(h) * s)) \div 10000
Falling(h, s, v) == (v * (10000 - s * Fraction(h))) \div 10000  \* mutant: T computed as Q is
T(h, s, v) == (v * (10000 - s * (100 - Fraction(h)))) \div 10000

\* The switch on `hi`.
Percent(h, s, v) ==
  CASE Sextant(h) = 0 -> <<v, T(h, s, v), P(s, v)>>
    [] Sextant(h) = 1 -> <<Q(h, s, v), v, P(s, v)>>
    [] Sextant(h) = 2 -> <<P(s, v), v, T(h, s, v)>>
    [] Sextant(h) = 3 -> <<P(s, v), Q(h, s, v), v>>
    [] Sextant(h) = 4 -> <<T(h, s, v), P(s, v), v>>
    [] Sextant(h) = 5 -> <<v, P(s, v), Q(h, s, v)>>

\* What the switch stores: rgb_t's members are uint8_t.
Rgb(h, s, v) == [c \in Channels |-> U8(U16(Percent(h, s, v)[c]))]

\* The duty lightbulb_set_aim_hsv hands to ledc_set_duty on each channel.
Duty(h, s, v) == [c \in Channels |-> (Rgb(h, s, v)[c] * PWM_TARGET_DUTY) \div 100]

Dark == [c \in Channels |-> 0]
=============================================================================
