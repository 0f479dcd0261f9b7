----------------------------- MODULE MCHsbToRgb -----------------------------
(***************************************************************************)
(* A sweep of the hue over the conversion, at fixed saturation and          *)
(* brightness: every input is reached, and a step joins neighbouring hues.  *)
(***************************************************************************)
EXTENDS HsbToRgb, FiniteSetsExt

CONSTANTS MaxHue, Saturations, Brightnesses

ASSUME SweepAssumption ==
  /\ MaxHue \in 0..360
  /\ Saturations \subseteq 0..100
  /\ Brightnesses \subseteq 0..100

\* Values for the configurations.
AllPercents  == 0..100
SomePercents == {0, 1, 20, 33, 49, 50, 67, 99, 100}

VARIABLES hue, saturation, brightness
vars == <<hue, saturation, brightness>>

Init ==
  /\ hue = 0
  /\ saturation \in Saturations
  /\ brightness \in Brightnesses

Next ==
  /\ hue' = (hue + 1) % (MaxHue + 1)
  /\ UNCHANGED <<saturation, brightness>>

Spec == Init /\ [][Next]_vars

Lamp == Rgb(hue, saturation, brightness)

(***************************************************************************)
(* The reference: the HSV hexcone, 6000 times the percent of a channel.     *)
(* Over the hue circle a channel holds at its peak for 60 degrees either    *)
(* side of its own hue and ramps for 60 more; `distance' is the degrees     *)
(* left of that ramp.                                                       *)
(***************************************************************************)
Phase == <<300, 180, 60>>
Distance(h, c) ==
  LET k == (h + Phase[c]) % 360 IN Max({0, Min({k, 240 - k, 60})})
Exact6000(h, s, v, c) == v * (6000 - s * Distance(h, c))

Close(h, s, v, c) ==
  LET error == 6000 * Rgb(h, s, v)[c] - Exact6000(h, s, v, c)
  IN  -12000 < error /\ error < 6000

\* Three truncating divisions lose less than two percent and gain less than
\* one on any channel, over all sextants (lightbulb_set_hsb2rgb).
CloseToHsv == \A c \in Channels : Close(hue, saturation, brightness, c)

\* A sweep of the hue, the wrap from 359 back to 0 included, has no visible
\* jump: no channel moves by more than two percent in one degree
\* (the switch on `hi' in lightbulb_set_hsb2rgb joins up at its borders).
SmoothSweep ==
  [][\A c \in Channels : Lamp'[c] - Lamp[c] \in -2..2]_vars

\* The white part and the asked brightness bound every channel from below and
\* above (lightbulb_set_hsb2rgb, hue below 360).
WithinBrightness ==
  \A c \in Channels : Lamp[c] \in P(saturation, brightness)..brightness

\* "uint8_t r;  // 0-100 %", for every hue "0-360" (struct rgb, struct hsp).
RgbInPercent == \A c \in Channels : Lamp[c] \in 0..100
=============================================================================
