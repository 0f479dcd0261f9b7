---------------------------- MODULE MCLightbulb ----------------------------
EXTENDS Lightbulb

\* An application whose lamp flashes, at a brightness that is cut to 100, and one
\* that asks for a brightness the conversion refuses.
MCAppStates == {
  [set_on |-> TRUE, hue_value |-> 300, saturation_value |-> 40,
   brightness_value |-> 2^16 + 100, flash_interval |-> 7],
  [set_on |-> TRUE, hue_value |-> 60, saturation_value |-> 100,
   brightness_value |-> 2^16 + 101, flash_interval |-> 0] }
=============================================================================
