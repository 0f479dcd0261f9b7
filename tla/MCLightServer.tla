--------------------------- MODULE MCLightServer ---------------------------
EXTENDS LightServer

\* The client's payload is a boolean and colours; the others end in an entry
\* post_light refuses, contradict themselves, turn the lamp off or are empty.
MCPayloads == {
  <<>>,
  << <<"BOOL", 1>>, <<"INT", BULB_STATE_RED>>, <<"INT", BULB_STATE_BLUE>> >>,
  << <<"INT", BULB_STATE_OTHERS>>, <<"BOOL", 1>>, <<"OTHER", 0>> >>,
  << <<"BOOL", 1>>, <<"INT", BULB_STATE_OFF>>, <<"BOOL", 0>> >>,
  << <<"INT", UnknownColour>> >> }
=============================================================================
