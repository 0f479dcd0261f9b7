------------------------------ MODULE Lightbulb ------------------------------
(***************************************************************************)
(* The lamp: the low-level functions and the state record of                *)
(* main/esp32_lightbulb/lightbulb.c and the task of light_bulb_main.c that   *)
(* carries the record to the LEDs.                                           *)
(*                                                                           *)
(* Two tasks share s_bulb_state and nothing locks it.  The requesting task   *)
(* (the OCF server's handlers) stores it field by field; the stores are      *)
(* plain C, so the compiler may emit them in any order, and `target' is the  *)
(* record as the request leaves it.  Only stores that change their field are *)
(* steps.  (A double is stored as two words, but the low word of every small *)
(* integer is zero: half a store is no new value.)                           *)
(* The daemon task reads one field per call and                              *)
(* keeps everything else (s_hsb_val, s_brightness, s_on, the LEDC duties) to *)
(* itself, so one daemon step is one call.                                   *)
(***************************************************************************)
EXTENDS HsbToRgb

CONSTANTS
  RandHue, RandSaturation, RandBrightness,  \* what rand() % 360, % 50, % 50 may give
  FlashIntervals,  \* intervals passed to notify_lightbulb_state; {0} in the server
  AppStates,       \* records passed to set_current_bulb_state; {} in the server
  MaxRequests      \* bound of the model: the calls made by the requesting task

BulbState ==
  [set_on: BOOLEAN, hue_value: 0..360, saturation_value: 0..100,
   brightness_value: Int, flash_interval: Int]

\* Hue and saturation as struct hsp documents them ("0-360", "0-100"); the
\* brightness is any int.
ASSUME LightbulbAssumption ==
  /\ RandHue \subseteq 0..359 /\ RandHue # {}
  /\ RandSaturation \subseteq 0..49 /\ RandSaturation # {}
  /\ RandBrightness \subseteq 0..49 /\ RandBrightness # {}
  /\ FlashIntervals \subseteq Int
  /\ AppStates \subseteq BulbState
  /\ MaxRequests \in Nat

VARIABLES
  s_bulb_state,  \* the shared record
  target,        \* s_bulb_state as the current request will leave it
  requests,      \* calls made so far
  s_hsb_val,     \* the daemon's working colour
  s_brightness,  \* the brightness to come back to
  s_on,
  duty,          \* the duty of each LEDC channel
  pc,            \* the daemon's next call
  fresh          \* history: no store since the daemon's last loop top

requestVars == <<target, requests>>
daemonVars  == <<s_hsb_val, s_brightness, s_on, duty, pc>>
vars == <<s_bulb_state, requestVars, daemonVars, fresh>>

Off == [set_on |-> FALSE, hue_value |-> 0, saturation_value |-> 0,
        brightness_value |-> 0, flash_interval |-> 0]

Init ==
  /\ s_bulb_state = Off /\ target = Off
  /\ requests = 0
  /\ s_hsb_val = [h |-> 0, s |-> 0, b |-> 0]
  /\ s_brightness = 0 /\ s_on = FALSE
  /\ duty = Dark
  /\ pc = "init"
  /\ fresh = TRUE

-----------------------------------------------------------------------------
(* The requesting task. *)

BULB_STATE_OFF    == 0
BULB_STATE_RED    == 1
BULB_STATE_GREEN  == 2
BULB_STATE_BLUE   == 3
BULB_STATE_OTHERS == 4
UnknownColour     == 5  \* any other integer takes the switch's default

Lit(h, s, b, flash_interval) ==
  [set_on |-> TRUE, hue_value |-> h, saturation_value |-> s,
   brightness_value |-> b, flash_interval |-> flash_interval]

\* One requesting task: a call begins when the stores of the last are done.
BeginRequest(record) ==
  /\ target = s_bulb_state /\ requests < MaxRequests
  /\ target' = record
  /\ requests' = requests + 1
  /\ UNCHANGED <<s_bulb_state, daemonVars, fresh>>

notify_lightbulb_state(state, flash_interval) ==
  \/ /\ state = BULB_STATE_OFF
     /\ BeginRequest([s_bulb_state EXCEPT !.set_on = FALSE,
                                          !.flash_interval = flash_interval])
  \/ state = BULB_STATE_RED   /\ BeginRequest(Lit(0, 100, 20, flash_interval))
  \/ state = BULB_STATE_GREEN /\ BeginRequest(Lit(120, 100, 20, flash_interval))
  \/ state = BULB_STATE_BLUE  /\ BeginRequest(Lit(240, 100, 20, flash_interval))
  \/ /\ state = BULB_STATE_OTHERS
     /\ \E h \in RandHue, s \in RandSaturation, b \in RandBrightness :
          BeginRequest(Lit(h, s, b, flash_interval))
  \/ /\ state \notin BULB_STATE_OFF..BULB_STATE_OTHERS
     /\ BeginRequest([s_bulb_state EXCEPT !.flash_interval = flash_interval])

set_current_bulb_state(input) == BeginRequest(input)

Store ==
  \E field \in DOMAIN target :
    /\ target[field] # s_bulb_state[field]
    /\ s_bulb_state' = [s_bulb_state EXCEPT ![field] = target[field]]
    /\ fresh' = FALSE
    /\ UNCHANGED <<requestVars, daemonVars>>

Request ==
  \/ \E state \in BULB_STATE_OFF..UnknownColour, i \in FlashIntervals :
       notify_lightbulb_state(state, i)
  \/ \E input \in AppStates : set_current_bulb_state(input)

-----------------------------------------------------------------------------
(* The daemon task. *)

Call(from, to) == pc = from /\ pc' = to

\* lightbulb_update with the new working colour: an input out of range leaves
\* the LEDs as they are.
lightbulb_update(c) ==
  duty' = IF InRange(c.h, c.s, c.b) THEN Duty(c.h, c.s, c.b) ELSE duty

UpdateAlways(c) == lightbulb_update(c)  \* mutant: the setters do not look at s_on
UpdateIfOn(c) == IF s_on THEN lightbulb_update(c) ELSE UNCHANGED duty

\* The channels are set up with a duty of 100 of 8192 and get their zero from the
\* lightbulb_update at the call's end; within the call the model does not look.
lightbulb_init ==
  /\ Call("init", "hue")
  /\ s_hsb_val' = [h |-> 0, s |-> 0, b |-> 0]
  /\ lightbulb_update(s_hsb_val')
  /\ UNCHANGED <<s_bulb_state, requestVars, s_brightness, s_on, fresh>>

\* The loop top: the history of stores starts over.
lightbulb_set_hue ==
  /\ Call("hue", "saturation")
  /\ s_hsb_val' = [s_hsb_val EXCEPT !.h = U16(s_bulb_state.hue_value)]
  /\ UpdateIfOn(s_hsb_val')
  /\ fresh' = TRUE
  /\ UNCHANGED <<s_bulb_state, requestVars, s_brightness, s_on>>

SaturationFromHue ==  \* mutant: set_saturation is handed the wrong field
  /\ Call("saturation", "brightness")
  /\ s_hsb_val' = [s_hsb_val EXCEPT !.s = U16(s_bulb_state.hue_value)]
  /\ UpdateIfOn(s_hsb_val')
  /\ UNCHANGED <<s_bulb_state, requestVars, s_brightness, s_on, fresh>>

lightbulb_set_saturation ==
  /\ Call("saturation", "brightness")
  /\ s_hsb_val' = [s_hsb_val EXCEPT !.s = U16(s_bulb_state.saturation_value)]
  /\ UpdateIfOn(s_hsb_val')
  /\ UNCHANGED <<s_bulb_state, requestVars, s_brightness, s_on, fresh>>

BrightnessNotSaved ==  \* mutant
  /\ Call("brightness", "on")
  /\ s_hsb_val' = [s_hsb_val EXCEPT !.b = U16(s_bulb_state.brightness_value)]
  /\ UpdateIfOn(s_hsb_val')
  /\ UNCHANGED <<s_bulb_state, requestVars, s_brightness, s_on, fresh>>

lightbulb_set_brightness ==
  /\ Call("brightness", "on")
  /\ s_hsb_val' = [s_hsb_val EXCEPT !.b = U16(s_bulb_state.brightness_value)]
  /\ s_brightness' = s_hsb_val'.b
  /\ UpdateIfOn(s_hsb_val')
  /\ UNCHANGED <<s_bulb_state, requestVars, s_on, fresh>>

OffNotUpdated ==  \* mutant: set_on(false) returns before lightbulb_update
  /\ Call("on", "delay")
  /\ s_on' = s_bulb_state.set_on
  /\ s_brightness' = IF s_on' THEN s_brightness ELSE s_hsb_val.b
  /\ s_hsb_val' = [s_hsb_val EXCEPT !.b = IF s_on' THEN s_brightness ELSE 0]
  /\ IF s_on' THEN lightbulb_update(s_hsb_val') ELSE UNCHANGED duty
  /\ UNCHANGED <<s_bulb_state, requestVars, fresh>>

\* Off parks the brightness in s_brightness, on fetches it back.
lightbulb_set_on ==
  /\ Call("on", "delay")
  /\ s_on' = s_bulb_state.set_on
  /\ s_brightness' = IF s_on' THEN s_brightness ELSE s_hsb_val.b
  /\ s_hsb_val' = [s_hsb_val EXCEPT !.b = IF s_on' THEN s_brightness ELSE 0]
  /\ lightbulb_update(s_hsb_val')
  /\ UNCHANGED <<s_bulb_state, requestVars, fresh>>

FlashNotUpdated ==  \* mutant: lightbulb_set_off returns before lightbulb_update
  /\ s_bulb_state.flash_interval # 0
  /\ Call("delay", "flash_delay")
  /\ s_hsb_val' = [s_hsb_val EXCEPT !.b = 0]
  /\ s_on' = FALSE
  /\ UNCHANGED <<s_bulb_state, requestVars, s_brightness, duty, fresh>>

\* The 10 ms delay ends: `if (flash_interval != 0) lightbulb_set_off();'
lightbulb_set_off ==
  /\ s_bulb_state.flash_interval # 0
  /\ Call("delay", "flash_delay")
  /\ s_hsb_val' = [s_hsb_val EXCEPT !.b = 0]
  /\ s_on' = FALSE
  /\ lightbulb_update(s_hsb_val')
  /\ UNCHANGED <<s_bulb_state, requestVars, s_brightness, fresh>>

\* The interval is read once more, for the length of the second delay, which the
\* model leaves open.
LoopAgain ==
  /\ \/ Call("delay", "hue") /\ s_bulb_state.flash_interval = 0
     \/ Call("flash_delay", "hue")
  /\ UNCHANGED <<s_bulb_state, requestVars, s_hsb_val, s_brightness, s_on, duty, fresh>>

Daemon ==
  \/ lightbulb_init
  \/ lightbulb_set_hue
  \/ lightbulb_set_saturation
  \/ lightbulb_set_brightness
  \/ lightbulb_set_on
  \/ lightbulb_set_off
  \/ LoopAgain

-----------------------------------------------------------------------------

Next == Request \/ Store \/ Daemon

\* Both are FreeRTOS tasks of one priority that only ever block in vTaskDelay:
\* each is scheduled again and again.  Nothing makes a client send a request.
Fairness == WF_vars(Daemon) /\ WF_vars(Store)

Spec == Init /\ [][Next]_vars /\ Fairness

-----------------------------------------------------------------------------
(* Properties. *)

UInt16 == {n \in Nat : n < 65536}

\* The shape of the state; hue and saturation stay in their documented ranges.
TypeOK ==
  /\ s_bulb_state \in BulbState
  /\ target \in BulbState
  /\ requests \in 0..MaxRequests
  /\ s_hsb_val \in [h: 0..360, s: 0..100, b: UInt16]
  /\ s_brightness \in UInt16
  /\ s_on \in BOOLEAN
  /\ duty \in [Channels -> Nat]
  /\ pc \in {"init", "hue", "saturation", "brightness", "on", "delay", "flash_delay"}
  /\ fresh \in BOOLEAN

\* A lamp that is off is dark between any two calls of the daemon, though the
\* loop writes a lit colour into s_hsb_val before it looks at set_on, and
\* though flashing turns s_on off and on behind the record's back
\* (the s_on guards of the setters, lightbulb_set_on, lightbulb_set_off).
OffIsDark == ~s_on => duty = Dark

\* The colour a record asks for, its int brightness cut to uint16_t.
ColourOf(st) ==
  IF st.set_on THEN Duty(st.hue_value, st.saturation_value, U16(st.brightness_value))
               ELSE Dark

\* A record lightbulb_set_hsb2rgb does not refuse: dark, or of a brightness that is a
\* percentage once it is cut.
Showable(st) == st.set_on => U16(st.brightness_value) \in 0..100

\* The four unlocked reads of one loop give the record's colour, unless a store
\* fell between the loop top and its end: a torn colour is shown for that loop
\* and never for the next (light_bulb_main.c:26-38).  A brightness of 65636 is shown as
\* 100 percent, and one that is refused does not keep the lamp from going dark
\* (lightbulb.c:74, 310).
ShowsState ==
  pc = "delay" /\ fresh /\ Showable(s_bulb_state) => duty = ColourOf(s_bulb_state)

Quiet == <>[](target = s_bulb_state /\ Showable(s_bulb_state))

\* Once requests stop, a lamp that does not flash settles on the last record,
\* without a flicker, whatever tearing came before.
EventuallyShown ==
  Quiet => <>[](s_bulb_state.flash_interval = 0 => duty = ColourOf(s_bulb_state))

\* A lamp told to flash alternates for ever between the asked colour and dark:
\* lightbulb_set_off loses no brightness for the next round.
Flashes ==
  Quiet => \/ []<>(duty = ColourOf(s_bulb_state)) /\ []<>(duty = Dark)
           \/ <>[](s_bulb_state.flash_interval = 0)
=============================================================================
