--------------------------- MODULE HsbToRgb_proofs ---------------------------
(***************************************************************************)
(* What the colour conversion guarantees for every input.                   *)
(***************************************************************************)
EXTENDS MCHsbToRgb, TLAPS

Percents == 0..100

\* Products of naturals respect the order.
LEMMA ProductMonotone ==
  ASSUME NEW v \in Nat, NEW a \in Int, NEW b \in Int, a <= b
  PROVE  v * a <= v * b
<1>1. v * (b - a) = v * b - v * a
  OBVIOUS
<1>2. v * (b - a) >= 0
  OBVIOUS
<1> QED
  BY <1>1, <1>2

\* Below 360 degrees the sextant is the plain quotient and the fraction is a
\* percentage: no uint16_t of lightbulb_set_hsb2rgb wraps.
LEMMA HueSplit ==
  ASSUME NEW h \in 0..359
  PROVE  Sextant(h) \in 0..5 /\ Fraction(h) \in Percents
  BY DEF Sextant, Fraction, U16, Percents

\* A ramp P + (v - P) * x% lies between the white part P and the brightness v.
LEMMA RampRange ==
  ASSUME NEW s \in Percents, NEW v \in Percents, NEW x \in Int,
         0 <= x, x <= 100 * s
  PROVE  /\ (v * (10000 - x)) \div 10000 \in P(s, v)..v
         /\ P(s, v) \in 0..v
<1> DEFINE num == v * (10000 - x)
<1> DEFINE white == v * (100 - s)
<1>1. white \in Int /\ num \in Int /\ 0 <= white /\ white <= 100 * v
  <2>1. v * 0 <= v * (100 - s) /\ v * (100 - s) <= v * 100
    BY ProductMonotone DEF Percents
  <2> QED
    BY <2>1 DEF Percents
<1>2. 100 * white <= num
  <2>1. v * (100 * (100 - s)) <= v * (10000 - x)
    BY ProductMonotone DEF Percents
  <2>2. v * (100 * (100 - s)) = 100 * (v * (100 - s))
    BY DEF Percents
  <2> QED
    BY <2>1, <2>2
<1>3. num <= 10000 * v
  <2>1. v * (10000 - x) <= v * 10000
    BY ProductMonotone DEF Percents
  <2> QED
    BY <2>1 DEF Percents
<1>4. P(s, v) = white \div 100
  BY DEF P
<1> HIDE DEF num, white
<1>5. num \div 10000 \in (white \div 100)..v /\ white \div 100 \in 0..v
  BY <1>1, <1>2, <1>3 DEF Percents
<1> QED
  BY <1>4, <1>5 DEF num, white

\* Q and T are such ramps.
LEMMA QTRange ==
  ASSUME NEW h \in 0..359, NEW s \in Percents, NEW v \in Percents
  PROVE  /\ Q(h, s, v) \in P(s, v)..v
         /\ T(h, s, v) \in P(s, v)..v
         /\ P(s, v) \in 0..v
<1> DEFINE f == Fraction(h)
<1>1. f \in Percents
  BY HueSplit
<1> HIDE DEF f
<1>2. 0 <= f * s /\ f * s <= 100 * s /\ f * s \in Int
  <2>1. s * 0 <= s * f /\ s * f <= s * 100
    BY <1>1, ProductMonotone DEF Percents
  <2> QED
    BY <1>1, <2>1 DEF Percents
<1>3. 0 <= s * (100 - f) /\ s * (100 - f) <= 100 * s /\ s * (100 - f) \in Int
  <2>1. s * 0 <= s * (100 - f) /\ s * (100 - f) <= s * 100
    BY <1>1, ProductMonotone DEF Percents
  <2> QED
    BY <1>1, <2>1 DEF Percents
<1>4. (v * (10000 - f * s)) \div 10000 \in P(s, v)..v /\ P(s, v) \in 0..v
  BY <1>2, RampRange
<1>5. (v * (10000 - s * (100 - f))) \div 10000 \in P(s, v)..v
  BY <1>3, RampRange
<1> QED
  BY <1>4, <1>5 DEF Q, T, f

\* Below 360 degrees every LED gets at least the white part and at most the
\* brightness asked for, in every sextant: the uint8_t of rgb_t never wraps and
\* no LED outshines the request (lightbulb_set_hsb2rgb).
THEOREM RgbRange ==
  ASSUME NEW h \in 0..359, NEW s \in Percents, NEW v \in Percents
  PROVE  \A c \in Channels : Rgb(h, s, v)[c] \in P(s, v)..v
<1>1. Sextant(h) \in 0..5
  BY HueSplit
<1>2. /\ Q(h, s, v) \in P(s, v)..v
      /\ T(h, s, v) \in P(s, v)..v
      /\ P(s, v) \in 0..v
  BY QTRange
<1>3. ASSUME NEW c \in Channels PROVE Percent(h, s, v)[c] \in P(s, v)..v
  BY <1>1, <1>2 DEF Percent, Channels, Percents
<1>4. ASSUME NEW c \in Channels PROVE Rgb(h, s, v)[c] = Percent(h, s, v)[c]
  <2>1. Percent(h, s, v)[c] \in 0..100
    BY <1>2, <1>3 DEF Percents
  <2> QED
    BY <2>1 DEF Rgb, U8, U16
<1> QED
  BY <1>3, <1>4

LEMMA PercentOfDuty ==
  ASSUME NEW x \in 0..100
  PROVE  (x * PWM_TARGET_DUTY) \div 100 \in 0..PWM_TARGET_DUTY
  BY DEF PWM_TARGET_DUTY

\* Within the documented inputs below 360 degrees the duties are naturals of at
\* most 8192, 100 percent of PWM_TARGET_DUTY.
THEOREM DutyRange ==
  ASSUME NEW h \in 0..359, NEW s \in Percents, NEW v \in Percents
  PROVE  Duty(h, s, v) \in [Channels -> 0..PWM_TARGET_DUTY]
<1>1. ASSUME NEW c \in Channels PROVE Rgb(h, s, v)[c] \in 0..100
  <2>1. Rgb(h, s, v)[c] \in P(s, v)..v /\ P(s, v) \in 0..v
    BY RgbRange, QTRange
  <2> QED
    BY <2>1 DEF Percents
<1>2. ASSUME NEW c \in Channels
      PROVE  (Rgb(h, s, v)[c] * PWM_TARGET_DUTY) \div 100 \in 0..PWM_TARGET_DUTY
  BY <1>1, PercentOfDuty
<1> QED
  BY <1>2 DEF Duty

-----------------------------------------------------------------------------
(* Every channel is a ramp: `Dimming' says how far down it each one is.      *)

Ramp(s, v, x) == (v * (10000 - s * x)) \div 10000

Dimming(h) ==
  LET f == Fraction(h)
  IN  CASE Sextant(h) = 0 -> <<0, 100 - f, 100>>
        [] Sextant(h) = 1 -> <<f, 0, 100>>
        [] Sextant(h) = 2 -> <<100, 0, 100 - f>>
        [] Sextant(h) = 3 -> <<100, f, 0>>
        [] Sextant(h) = 4 -> <<100 - f, 100, 0>>
        [] Sextant(h) = 5 -> <<0, 100, f>>

LEMMA DimmingRange ==
  ASSUME NEW h \in 0..359, NEW c \in Channels
  PROVE  Dimming(h)[c] \in 0..100
<1> DEFINE f == Fraction(h)
<1>1. Sextant(h) \in 0..5 /\ f \in 0..100
  BY HueSplit DEF Percents
<1>2. 100 - f \in 0..100
  BY <1>1
<1>3. c \in {1, 2, 3}
  BY DEF Channels
<1> QED
  BY <1>1, <1>2, <1>3 DEF Dimming

LEMMA RampEnds ==
  ASSUME NEW s \in Percents, NEW v \in Percents
  PROVE  Ramp(s, v, 0) = v /\ Ramp(s, v, 100) = P(s, v)
<1>1. Ramp(s, v, 0) = v
  <2>1. v * (10000 - s * 0) = 10000 * v
    BY DEF Percents
  <2>2. (10000 * v) \div 10000 = v
    BY DEF Percents
  <2> QED
    BY <2>1, <2>2 DEF Ramp
<1>2. Ramp(s, v, 100) = P(s, v)
  <2> DEFINE white == v * (100 - s)
  <2>1. white \in Int
    BY DEF Percents
  <2>2. v * (10000 - s * 100) = 100 * white
    BY DEF Percents
  <2>3. P(s, v) = white \div 100
    BY DEF P
  <2> HIDE DEF white
  <2>4. (100 * white) \div 10000 = white \div 100
    BY <2>1
  <2> QED
    BY <2>2, <2>3, <2>4 DEF Ramp
<1> QED
  BY <1>1, <1>2

LEMMA LampIsRamp ==
  ASSUME NEW h \in 0..359, NEW s \in Percents, NEW v \in Percents,
         NEW c \in Channels
  PROVE  Rgb(h, s, v)[c] = Ramp(s, v, Dimming(h)[c])
<1>1. Sextant(h) \in 0..5 /\ Fraction(h) \in Percents
  BY HueSplit
<1>2. /\ Q(h, s, v) = Ramp(s, v, Fraction(h))
      /\ T(h, s, v) = Ramp(s, v, 100 - Fraction(h))
  <2> DEFINE f == Fraction(h)
  <2>1. f \in Int
    BY <1>1 DEF Percents
  <2> HIDE DEF f
  <2>2. f * s = s * f
    BY <2>1 DEF Percents
  <2> QED
    BY <2>2 DEF Q, T, Ramp, f
<1>3. Percent(h, s, v)[c] = Ramp(s, v, Dimming(h)[c])
  BY <1>1, <1>2, RampEnds DEF Percent, Dimming, Channels
<1>4. Percent(h, s, v)[c] \in 0..100
  <2>1. /\ Q(h, s, v) \in P(s, v)..v
        /\ T(h, s, v) \in P(s, v)..v
        /\ P(s, v) \in 0..v
    BY QTRange
  <2> QED
    BY <1>1, <2>1 DEF Percent, Channels, Percents
<1>5. Rgb(h, s, v)[c] = Percent(h, s, v)[c]
  BY <1>4 DEF Rgb, U8, U16
<1> QED
  BY <1>3, <1>5

-----------------------------------------------------------------------------
(* The sweep. *)

SweepType == hue \in 0..MaxHue /\ saturation \in Percents /\ brightness \in Percents

LEMMA SweepTypeCorrect == Spec => []SweepType
<1>1. Init => SweepType
  BY SweepAssumption DEF Init, SweepType, Percents
<1>2. SweepType /\ [Next]_vars => SweepType'
  BY SweepAssumption DEF SweepType, Next, vars
<1> QED
  BY <1>1, <1>2, PTL DEF Spec

\* Along every sweep below 360 degrees each LED stays between the white part and the
\* brightness asked for, in every sextant (lightbulb_set_hsb2rgb).
THEOREM SweepWithinBrightness ==
  ASSUME MaxHue < 360
  PROVE  Spec => []WithinBrightness
<1>1. SweepType => WithinBrightness
  <2> SUFFICES ASSUME SweepType PROVE WithinBrightness
    OBVIOUS
  <2>1. hue \in 0..359 /\ saturation \in Percents /\ brightness \in Percents
    BY SweepAssumption DEF SweepType
  <2> QED
    BY ONLY <2>1, RgbRange DEF WithinBrightness, Lamp
<1> QED
  BY <1>1, SweepTypeCorrect, PTL

-----------------------------------------------------------------------------
(* The distance to the hexcone. *)

\* The reference ramp, without Max and Min.
LEMMA HexRamp ==
  ASSUME NEW k \in 0..359
  PROVE  Max({0, Min({k, 240 - k, 60})}) =
           IF k <= 60 THEN k ELSE IF k <= 180 THEN 60 ELSE IF k <= 240 THEN 240 - k ELSE 0
<1> DEFINE least == IF k <= 60 /\ k <= 240 - k THEN k
                    ELSE IF 60 <= 240 - k THEN 60 ELSE 240 - k
<1>1. Min({k, 240 - k, 60}) = least
  <2>1. least \in {k, 240 - k, 60} /\ \A y \in {k, 240 - k, 60} : least <= y
    OBVIOUS
  <2>2. \A x \in {k, 240 - k, 60} : (\A y \in {k, 240 - k, 60} : x <= y) => x = least
    OBVIOUS
  <2> QED
    BY <2>1, <2>2 DEF Min
<1>2. least \in Int
  OBVIOUS
<1> HIDE DEF least
<1>3. Max({0, least}) = IF 0 <= least THEN least ELSE 0
  BY <1>2 DEF Max
<1>4. (IF 0 <= least THEN least ELSE 0) =
        IF k <= 60 THEN k ELSE IF k <= 180 THEN 60 ELSE IF k <= 240 THEN 240 - k ELSE 0
  BY DEF least
<1> QED
  BY <1>1, <1>3, <1>4

\* The percents of the code follow the 60 degrees of the reference: five of the
\* first for three of the second, but for the truncation of `F'.
LEMMA DimmingFollows ==
  ASSUME NEW h \in 0..359, NEW c \in Channels
  PROVE  /\ Distance(h, c) \in 0..60
         /\ 5 * Distance(h, c) - 2 <= 3 * Dimming(h)[c]
         /\ 3 * Dimming(h)[c] <= 5 * Distance(h, c) + 2
<1> DEFINE hi == Sextant(h)
           f == Fraction(h)
           d == h - 60 * hi
<1>1. hi \in 0..5 /\ d \in 0..59 /\ f \in 0..100
  <2>1. Sextant(h) \in 0..5 /\ Fraction(h) \in 0..100
    BY HueSplit DEF Percents
  <2>2. h - 60 * Sextant(h) \in 0..59
    BY DEF Sextant
  <2> QED
    BY <2>1, <2>2
<1>2. 5 * d - 2 <= 3 * f /\ 3 * f <= 5 * d
  BY DEF Fraction, Sextant, U16
<1>3. h = 60 * hi + d
  BY <1>1
<1>4. Dimming(h) = CASE hi = 0 -> <<0, 100 - f, 100>>
                     [] hi = 1 -> <<f, 0, 100>>
                     [] hi = 2 -> <<100, 0, 100 - f>>
                     [] hi = 3 -> <<100, f, 0>>
                     [] hi = 4 -> <<100 - f, 100, 0>>
                     [] hi = 5 -> <<0, 100, f>>
  BY DEF Dimming
<1> DEFINE ramp(k) == IF k <= 60 THEN k ELSE IF k <= 180 THEN 60
                      ELSE IF k <= 240 THEN 240 - k ELSE 0
<1>5. Distance(h, c) = ramp((h + Phase[c]) % 360)
  <2>1. (h + Phase[c]) % 360 \in 0..359
    BY DEF Channels, Phase
  <2> QED
    BY <2>1, HexRamp DEF Distance
<1>6. c \in {1, 2, 3} /\ Phase[1] = 300 /\ Phase[2] = 180 /\ Phase[3] = 60
  BY DEF Channels, Phase
<1> HIDE DEF hi, f, d
<1>7. CASE c = 1
  <2>1. Distance(h, c) = IF hi \in {0, 5} THEN 0 ELSE IF hi \in {2, 3} THEN 60
                         ELSE IF hi = 1 THEN d ELSE 60 - d
    BY <1>1, <1>3, <1>5, <1>6, <1>7
  <2>2. Dimming(h)[c] = IF hi \in {0, 5} THEN 0 ELSE IF hi \in {2, 3} THEN 100
                        ELSE IF hi = 1 THEN f ELSE 100 - f
    BY <1>1, <1>4, <1>7
  <2> QED
    BY ONLY <1>1, <1>2, <2>1, <2>2
<1>8. CASE c = 2
  <2>1. Distance(h, c) = IF hi \in {1, 2} THEN 0 ELSE IF hi \in {4, 5} THEN 60
                         ELSE IF hi = 3 THEN d ELSE 60 - d
    BY <1>1, <1>3, <1>5, <1>6, <1>8
  <2>2. Dimming(h)[c] = IF hi \in {1, 2} THEN 0 ELSE IF hi \in {4, 5} THEN 100
                        ELSE IF hi = 3 THEN f ELSE 100 - f
    BY <1>1, <1>4, <1>8
  <2> QED
    BY ONLY <1>1, <1>2, <2>1, <2>2
<1>9. CASE c = 3
  <2>1. Distance(h, c) = IF hi \in {3, 4} THEN 0 ELSE IF hi \in {0, 1} THEN 60
                         ELSE IF hi = 5 THEN d ELSE 60 - d
    BY <1>1, <1>3, <1>5, <1>6, <1>9
  <2>2. Dimming(h)[c] = IF hi \in {3, 4} THEN 0 ELSE IF hi \in {0, 1} THEN 100
                        ELSE IF hi = 5 THEN f ELSE 100 - f
    BY <1>1, <1>4, <1>9
  <2> QED
    BY ONLY <1>1, <1>2, <2>1, <2>2
<1> QED
  BY <1>6, <1>7, <1>8, <1>9

\* A ramp is off by less than its truncation and two thirds of a percent of dimming.
LEMMA RampError ==
  ASSUME NEW s \in Percents, NEW v \in Percents, NEW x \in 0..100, NEW y \in 0..60,
         5 * y - 2 <= 3 * x, 3 * x <= 5 * y + 2
  PROVE  LET error == 6000 * Ramp(s, v, x) - v * (6000 - s * y)
         IN -12000 < error /\ error < 6000
<1> DEFINE m == v * s
           mx == m * x
           my == m * y
           n == v * (10000 - s * x)
<1>1. m \in Int /\ 0 <= m /\ m <= 10000
  <2>1. v * 0 <= v * s /\ v * s <= v * 100
    BY ProductMonotone DEF Percents
  <2> QED
    BY <2>1 DEF Percents
<1>2. n = 10000 * v - mx /\ v * (6000 - s * y) = 6000 * v - my
  BY DEF Percents
<1> HIDE DEF m
<1>3. mx \in Int /\ my \in Int
  BY <1>1
<1>4. 5 * my - 2 * m <= 3 * mx /\ 3 * mx <= 5 * my + 2 * m
  <2>1. m * (5 * y - 2) <= m * (3 * x) /\ m * (3 * x) <= m * (5 * y + 2)
    BY <1>1, ProductMonotone
  <2>2. m * (5 * y - 2) = 5 * my - 2 * m
    BY <1>1
  <2>3. m * (3 * x) = 3 * mx
    BY <1>1
  <2>4. m * (5 * y + 2) = 5 * my + 2 * m
    BY <1>1
  <2> QED
    BY <2>1, <2>2, <2>3, <2>4
<1>5. Ramp(s, v, x) = n \div 10000
  BY DEF Ramp
<1> HIDE DEF mx, my, n
<1>6. v \in Int
  BY DEF Percents
<1>7. n \in Int
  BY <1>2, <1>3, <1>6
<1>8. /\ -12000 < 6000 * (n \div 10000) - (6000 * v - my)
      /\ 6000 * (n \div 10000) - (6000 * v - my) < 6000
  BY ONLY <1>1, <1>2, <1>3, <1>4, <1>6, <1>7
<1> QED
  BY <1>2, <1>5, <1>8

LEMMA CloseEverywhere ==
  ASSUME NEW h \in 0..359, NEW s \in Percents, NEW v \in Percents,
         NEW c \in Channels
  PROVE  Close(h, s, v, c)
<1> DEFINE dimming  == Dimming(h)[c]
           distance == Distance(h, c)
<1>1. Rgb(h, s, v)[c] = Ramp(s, v, dimming)
  BY LampIsRamp
<1>2. /\ dimming \in 0..100
      /\ distance \in 0..60
      /\ 5 * distance - 2 <= 3 * dimming
      /\ 3 * dimming <= 5 * distance + 2
  BY DimmingRange, DimmingFollows
<1>3. Exact6000(h, s, v, c) = v * (6000 - s * distance)
  BY Zenon DEF Exact6000
<1> HIDE DEF dimming, distance
<1>4. LET error == 6000 * Ramp(s, v, dimming) - v * (6000 - s * distance)
      IN  -12000 < error /\ error < 6000
  BY <1>2, RampError
<1> QED
  BY ONLY <1>1, <1>3, <1>4 DEF Close

\* Along every sweep below 360 degrees, at every saturation and brightness, the three
\* truncating divisions of lightbulb_set_hsb2rgb keep each LED within two percent
\* under and one percent over the exact colour.
THEOREM SweepCloseToHsv ==
  ASSUME MaxHue < 360
  PROVE  Spec => []CloseToHsv
<1>1. SweepType => CloseToHsv
  <2> SUFFICES ASSUME SweepType PROVE CloseToHsv
    OBVIOUS
  <2>1. hue \in 0..359 /\ saturation \in Percents /\ brightness \in Percents
    BY SweepAssumption DEF SweepType
  <2> QED
    BY ONLY <2>1, CloseEverywhere DEF CloseToHsv
<1> QED
  BY <1>1, SweepTypeCorrect, PTL

-----------------------------------------------------------------------------
(* The steps of a sweep over the whole circle. *)

LEMMA NextDegree ==
  ASSUME NEW h \in 0..358
  PROVE  (h + 1) % 360 = h + 1
  OBVIOUS

\* The cast of the fraction to uint16_t changes nothing.
LEMMA PlainFraction ==
  ASSUME NEW h \in 0..359
  PROVE  Fraction(h) = (100 * h) \div 60 - 100 * Sextant(h)
<1>1. (100 * h) \div 60 - 100 * Sextant(h) \in 0..100
  BY DEF Sextant
<1> DEFINE x == (100 * h) \div 60 - 100 * Sextant(h)
<1>2. x % 65536 = x
  <2> HIDE DEF x
  <2> QED
    BY <1>1 DEF x
<1> QED
  BY <1>2 DEF Fraction, U16

\* One degree dims by two percent at most, across a border of the switch too.
LEMMA DimmingStep ==
  ASSUME NEW h \in 0..359, NEW g \in 0..359, g = (h + 1) % 360, NEW c \in Channels
  PROVE  Dimming(g)[c] - Dimming(h)[c] \in -2..2
<1> DEFINE hi == Sextant(h)   f == Fraction(h)
           gi == Sextant(g)   e == Fraction(g)
<1>1. hi \in 0..5 /\ gi \in 0..5 /\ f \in 0..100 /\ e \in 0..100
  BY HueSplit DEF Percents
<1>2. \/ gi = hi /\ e - f \in 1..2
      \/ gi = (hi + 1) % 6 /\ e = 0 /\ f = 98
  <2> DEFINE d == h - 60 * hi
  <2>1. h = 60 * hi + d /\ d \in 0..59
    BY DEF Sextant
  <2>2. f = (100 * h) \div 60 - 100 * hi /\ e = (100 * g) \div 60 - 100 * gi
    BY PlainFraction
  <2>3. gi = (g \div 60) % 6
    BY DEF Sextant
  <2> HIDE DEF hi, f, gi, e, d
  <2>4. CASE d < 59
    <3>1. g = h + 1
      <4>1. h \in 0..358
        BY ONLY <1>1, <2>1, <2>4
      <4>2. (h + 1) % 360 = h + 1
        BY ONLY <4>1, NextDegree
      <4> QED
        BY <4>2
    <3>2. gi = hi
      BY ONLY <1>1, <2>1, <2>3, <2>4, <3>1
    <3> QED
      BY ONLY <1>1, <2>1, <2>2, <3>1, <3>2, h \in 0..359
  <2>5. CASE d = 59
    <3>1. g = IF hi = 5 THEN 0 ELSE 60 * (hi + 1)
      BY ONLY <1>1, <2>1, <2>5, g = (h + 1) % 360, h \in 0..359
    <3>2. gi = (hi + 1) % 6
      BY ONLY <1>1, <2>3, <3>1
    <3> QED
      BY ONLY <1>1, <2>1, <2>2, <2>5, <3>1, <3>2, h \in 0..359
  <2> QED
    BY <2>1, <2>4, <2>5
<1>3. /\ Dimming(h) = CASE hi = 0 -> <<0, 100 - f, 100>>
                        [] hi = 1 -> <<f, 0, 100>>
                        [] hi = 2 -> <<100, 0, 100 - f>>
                        [] hi = 3 -> <<100, f, 0>>
                        [] hi = 4 -> <<100 - f, 100, 0>>
                        [] hi = 5 -> <<0, 100, f>>
      /\ Dimming(g) = CASE gi = 0 -> <<0, 100 - e, 100>>
                        [] gi = 1 -> <<e, 0, 100>>
                        [] gi = 2 -> <<100, 0, 100 - e>>
                        [] gi = 3 -> <<100, e, 0>>
                        [] gi = 4 -> <<100 - e, 100, 0>>
                        [] gi = 5 -> <<0, 100, e>>
  BY DEF Dimming
<1>4. c \in {1, 2, 3}
  BY DEF Channels
<1> HIDE DEF hi, f, gi, e
<1>5. CASE gi = hi /\ e - f \in 1..2
  <2>1. CASE c = 1
    BY ONLY <1>1, <1>3, <1>5, <2>1
  <2>2. CASE c = 2
    BY ONLY <1>1, <1>3, <1>5, <2>2
  <2>3. CASE c = 3
    BY ONLY <1>1, <1>3, <1>5, <2>3
  <2> QED
    BY <1>4, <2>1, <2>2, <2>3
<1>6. CASE gi = (hi + 1) % 6 /\ e = 0 /\ f = 98
  BY <1>1, <1>3, <1>4, <1>6
<1> QED
  BY <1>2, <1>5, <1>6

LEMMA RampStep ==
  ASSUME NEW s \in Percents, NEW v \in Percents, NEW x \in 0..100, NEW y \in 0..100,
         y - x \in -2..2
  PROVE  Ramp(s, v, y) - Ramp(s, v, x) \in -2..2
<1> DEFINE m == v * s
           nx == v * (10000 - s * x)
           ny == v * (10000 - s * y)
<1>1. m \in Int /\ 0 <= m /\ m <= 10000
  <2>1. v * 0 <= v * s /\ v * s <= v * 100
    BY ProductMonotone DEF Percents
  <2> QED
    BY <2>1 DEF Percents
<1>2. nx - ny = m * (y - x)
  BY DEF Percents
<1> HIDE DEF m
<1>3. -20000 <= m * (y - x) /\ m * (y - x) <= 20000
  <2>1. m * (-2) <= m * (y - x) /\ m * (y - x) <= m * 2
    BY <1>1, ProductMonotone
  <2> QED
    BY <1>1, <2>1
<1>4. nx \in Int /\ ny \in Int
  BY DEF Percents
<1>5. Ramp(s, v, x) = nx \div 10000 /\ Ramp(s, v, y) = ny \div 10000
  BY DEF Ramp
<1> HIDE DEF nx, ny
<1>6. -20000 <= nx - ny /\ nx - ny <= 20000
  BY <1>2, <1>3
<1>7. (ny \div 10000) - (nx \div 10000) \in -2..2
  BY ONLY <1>4, <1>6
<1> QED
  BY <1>5, <1>7

\* A sweep over the whole circle moves no LED by more than two percent a degree, at
\* any saturation and brightness: the arms of the switch join (lightbulb_set_hsb2rgb).
THEOREM SweepIsSmooth ==
  ASSUME MaxHue = 359
  PROVE  Spec => SmoothSweep
<1>1. SweepType /\ SweepType' /\ [Next]_vars
      => [\A c \in Channels : Lamp'[c] - Lamp[c] \in -2..2]_vars
  <2> SUFFICES ASSUME SweepType, SweepType', Next, NEW c \in Channels
               PROVE  Lamp'[c] - Lamp[c] \in -2..2
    BY Zenon
  <2>1. /\ hue \in 0..359 /\ saturation \in Percents /\ brightness \in Percents
        /\ hue' \in 0..359
    BY DEF SweepType
  <2>2. hue' = (hue + 1) % 360 /\ saturation' = saturation /\ brightness' = brightness
    BY DEF Next
  <2>3. /\ Lamp[c] = Ramp(saturation, brightness, Dimming(hue)[c])
        /\ Lamp'[c] = Ramp(saturation, brightness, Dimming(hue')[c])
    <3>1. Lamp[c] = Rgb(hue, saturation, brightness)[c]
      BY DEF Lamp
    <3>2. Lamp'[c] = Rgb(hue', saturation, brightness)[c]
      BY <2>2 DEF Lamp
    <3> QED
      BY ONLY <2>1, <3>1, <3>2, LampIsRamp
  <2>4. Dimming(hue)[c] \in 0..100 /\ Dimming(hue')[c] \in 0..100
    BY <2>1, DimmingRange
  <2>5. Dimming(hue')[c] - Dimming(hue)[c] \in -2..2
    BY <2>1, <2>2, DimmingStep
  <2>6. Ramp(saturation, brightness, Dimming(hue')[c])
          - Ramp(saturation, brightness, Dimming(hue)[c]) \in -2..2
    BY ONLY <2>1, <2>4, <2>5, RampStep
  <2> QED
    BY <2>3, <2>6
<1> QED
  BY <1>1, SweepTypeCorrect, PTL DEF SmoothSweep, Spec
=============================================================================
