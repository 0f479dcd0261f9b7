---------------------------- MODULE LightServer ----------------------------
(***************************************************************************)
(* The light resource of main/esp32_server/server_freertos.c: post_light    *)
(* (put_light is the same) walks the payload and drives the lamp of module  *)
(* Lightbulb, holding every colour for a while with vTaskDelay; get_light   *)
(* reads light_state.                                                        *)
(*                                                                          *)
(* Here the requesting task of Lightbulb is the server's main task, and     *)
(* time passes in FreeRTOS ticks.  The scheduler is external: the daemon    *)
(* gets to each of its calls within MaxLag ticks of being ready for it.     *)
(* How slow the main task is does not matter.                               *)
(***************************************************************************)
EXTENDS Lightbulb, Sequences

CONSTANTS
  Payloads,   \* request payloads: sequences of <<type, value>>
  HoldTicks,  \* the argument of vTaskDelay in post_light
  MaxLag

RepTypes == {"BOOL", "INT", "OTHER"}

\* A boolean has the value 0 or 1; an integer beyond the switch of
\* notify_lightbulb_state is UnknownColour.
Rep == RepTypes \X (BULB_STATE_OFF..UnknownColour)

ASSUME LightServerAssumption ==
  /\ Payloads \subseteq Seq(Rep)
  /\ HoldTicks \in Nat /\ MaxLag \in Nat

VARIABLES
  main,         \* where the main task is in post_light
  payload,      \* request->request_payload
  rep,          \* the entry of it post_light has come to
  state,        \* post_light's local variable
  light_state,
  hold,         \* ticks left of vTaskDelay(50)
  delay,        \* ticks left of the daemon's delay
  lag           \* ticks the daemon has been ready without running

handlerVars == <<main, payload, rep, state, light_state>>
timeVars    == <<hold, delay, lag>>
serverVars  == <<vars, handlerVars, timeVars>>

InitServer ==
  /\ Init
  /\ main = "idle" /\ payload = <<>> /\ rep = 1 /\ state = FALSE
  /\ light_state = FALSE
  /\ hold = 0 /\ delay = 0 /\ lag = 0

-----------------------------------------------------------------------------
(* post_light. *)

At(from, to) == main = from /\ main' = to

RepKept(p) ==  \* mutant: the walk starts where the last one ended
  /\ requests + Len(p) <= MaxRequests
  /\ At("idle", "loop")
  /\ payload' = p
  /\ state' = FALSE
  /\ UNCHANGED <<vars, rep, light_state, timeVars>>

\* A request is taken only while the bound lasts for all its colours.
Post(p) ==
  /\ requests + Len(p) <= MaxRequests
  /\ At("idle", "loop")
  /\ payload' = p /\ rep' = 1
  /\ state' = FALSE
  /\ UNCHANGED <<vars, light_state, timeVars>>

Entry(type) == rep <= Len(payload) /\ payload[rep][1] = type

RepBool ==
  /\ Entry("BOOL")
  /\ At("loop", "loop")
  /\ state' = (payload[rep][2] = 1)
  /\ rep' = rep + 1
  /\ UNCHANGED <<vars, payload, light_state, timeVars>>

RepInt ==
  /\ Entry("INT")
  /\ At("loop", "store")
  /\ notify_lightbulb_state(payload[rep][2], 0)
  /\ UNCHANGED <<payload, rep, state, light_state, timeVars>>

StoreField ==
  /\ main = "store" /\ Store
  /\ UNCHANGED <<handlerVars, timeVars>>

NoHold ==  \* mutant: no vTaskDelay after notify_lightbulb_state
  /\ target = s_bulb_state
  /\ At("store", "hold")
  /\ hold' = 0
  /\ UNCHANGED <<vars, payload, rep, state, light_state, delay, lag>>

StartHold ==
  /\ target = s_bulb_state
  /\ At("store", "hold")
  /\ hold' = HoldTicks
  /\ UNCHANGED <<vars, payload, rep, state, light_state, delay, lag>>

HoldEnds ==
  /\ hold = 0
  /\ At("hold", "loop")
  /\ rep' = rep + 1
  /\ UNCHANGED <<vars, payload, state, light_state, timeVars>>

BadRequestFallsOut ==  \* mutant: the state is stored before BAD_REQUEST is answered
  /\ Entry("OTHER")
  /\ At("loop", "idle")
  /\ light_state' = state
  /\ UNCHANGED <<vars, payload, rep, state, timeVars>>

\* BAD_REQUEST: the colours of the entries before this one stay.
RepOther ==
  /\ Entry("OTHER")
  /\ At("loop", "idle")
  /\ UNCHANGED <<vars, payload, rep, state, light_state, timeVars>>

Changed ==
  /\ rep > Len(payload)
  /\ At("loop", "idle")
  /\ light_state' = state
  /\ UNCHANGED <<vars, payload, rep, state, timeVars>>

post_light ==
  RepBool \/ RepInt \/ StoreField \/ StartHold \/ HoldEnds \/ RepOther \/ Changed

-----------------------------------------------------------------------------
(* Time. *)

\* The daemon's vTaskDelay(10 / portTICK_RATE_MS) is one tick at 100 Hz.
DaemonCall ==
  /\ Daemon /\ delay = 0
  /\ delay' = IF pc' = "delay" THEN 1 ELSE 0
  /\ lag' = 0
  /\ UNCHANGED <<handlerVars, hold>>

CountDown(n) == IF n > 0 THEN n - 1 ELSE 0

Tick ==
  /\ delay = 0 => lag < MaxLag
  /\ hold' = CountDown(hold)
  /\ delay' = CountDown(delay)
  /\ lag' = IF delay = 0 THEN lag + 1 ELSE 0
  /\ UNCHANGED <<vars, handlerVars>>

NextServer == (\E p \in Payloads : Post(p)) \/ post_light \/ DaemonCall \/ Tick

\* The tasks are scheduled and time passes; nothing makes a request arrive.
SpecServer ==
  /\ InitServer /\ [][NextServer]_serverVars
  /\ WF_serverVars(post_light) /\ WF_serverVars(DaemonCall) /\ WF_serverVars(Tick)

-----------------------------------------------------------------------------
(* Properties. *)

\* The shape of the state.
TypeOKServer ==
  /\ TypeOK
  /\ main \in {"idle", "loop", "store", "hold"}
  /\ payload \in Payloads \cup {<<>>}
  /\ rep \in 1..(Len(payload) + 1)
  /\ state \in BOOLEAN /\ light_state \in BOOLEAN
  /\ hold \in 0..HoldTicks /\ delay \in 0..1 /\ lag \in 0..MaxLag

\* "keep light state ticks" (server_freertos.c:108): every colour of a payload is on
\* the LEDs before post_light goes on to the next, however the stores fell between
\* the daemon's reads.  A field read before its store costs the daemon five calls
\* and its delay (the rest of that loop, and the next up to the field again), so
\* the hold must be longer than 5 * MaxLag + 1 ticks.
EachColourShown ==
  main = "hold" /\ hold = 0 => duty = ColourOf(s_bulb_state)

\* What the daemon has copied of the record.
HasHue        == s_hsb_val.h = s_bulb_state.hue_value
HasSaturation == s_hsb_val.s = s_bulb_state.saturation_value
HasBrightness == s_brightness = s_bulb_state.brightness_value
HasOn         == s_on = s_bulb_state.set_on

HasRecord == HasHue /\ HasSaturation /\ HasBrightness /\ HasOn

\* Once the daemon has the whole record, the LEDs do not change for the rest of the
\* hold: the loops that write the same hue, saturation, brightness and switch again
\* show nothing in between, not even a lamp that is off and has its brightness set.
\* (Before that, the asked colour may appear and go again: hsv(0, 6, 20) and
\* hsv(18, 10, 20) have the same duties, and hsv(18, 6, 20), on the way from the one
\* to the other, has not.)
NoFlicker ==
  [][main = "hold" /\ HasRecord => duty' = duty]_serverVars

Resource == INSTANCE LightResource WITH busy <- main # "idle", request <- payload

\* The handler keeps the resource's promise to its clients: every request is
\* answered, however long its colours hold up the main task, and nothing of a
\* refused one is reported by get_light, though its colours have reached the lamp
\* (server_freertos.c:97-120).
ImplementsResource == Resource!Spec
=============================================================================
