-------------------------- MODULE LightServer_proofs --------------------------
(***************************************************************************)
(* The lamp by itself, for every set of colours, flash intervals,           *)
(* application records and number of requests; then the light resource and  *)
(* the lamp together, for every payload, colour and scheduling: the hold of *)
(* post_light is long enough.                                                *)
(***************************************************************************)
EXTENDS LightServer, TLAPS

-----------------------------------------------------------------------------
(* The lamp: what a brightness of zero gives. *)

\* No brightness, no light: the duty of a zero brightness is zero on every
\* channel, whatever hue and saturation are (lightbulb_set_aim_hsv); this is
\* what lightbulb_set_off and lightbulb_set_on(false) rely on.
THEOREM ZeroIsDark ==
  ASSUME NEW h \in Nat, NEW s \in 0..100
  PROVE  Duty(h, s, 0) = Dark
<1>1. P(s, 0) = 0
  BY DEF P
<1>2. Sextant(h) \in 0..5 /\ Fraction(h) \in Int
  BY DEF Sextant, Fraction, U16
<1>3. Q(h, s, 0) = 0 /\ T(h, s, 0) = 0
  <2> DEFINE f == Fraction(h)
  <2>1. f \in Int
    BY <1>2
  <2> HIDE DEF f
  <2>2. (0 * (10000 - f * s)) \div 10000 = 0
    <3>1. 10000 - f * s \in Int
      BY <2>1
    <3> QED
      BY <3>1
  <2>3. (0 * (10000 - s * (100 - f))) \div 10000 = 0
    <3>1. 10000 - s * (100 - f) \in Int
      BY <2>1
    <3> QED
      BY <3>1
  <2> QED
    BY <2>2, <2>3 DEF Q, T, f
<1>4. ASSUME NEW c \in Channels PROVE Percent(h, s, 0)[c] = 0
  BY <1>1, <1>2, <1>3 DEF Percent, Channels
<1>5. ASSUME NEW c \in Channels PROVE Rgb(h, s, 0)[c] = 0
  BY <1>4 DEF Rgb, U8, U16
<1> QED
  BY <1>5 DEF Duty, Dark, PWM_TARGET_DUTY

-----------------------------------------------------------------------------
(* Types. *)

LEMMA U16Type ==
  ASSUME NEW x \in Int
  PROVE  U16(x) \in UInt16
  BY DEF U16, UInt16

LEMMA U16Small ==
  ASSUME NEW x \in 0..360
  PROVE  U16(x) = x
  BY DEF U16

LEMMA DutyType ==
  ASSUME NEW h \in 0..360, NEW s \in 0..100, NEW v \in 0..100
  PROVE  Duty(h, s, v) \in [Channels -> Nat]
<1>1. Sextant(h) \in 0..5 /\ Fraction(h) \in Int
  BY DEF Sextant, Fraction, U16
<1>2. P(s, v) \in Int
  BY DEF P
<1>3. Q(h, s, v) \in Int /\ T(h, s, v) \in Int
  <2> DEFINE f == Fraction(h)
  <2>1. f \in Int
    BY <1>1
  <2> HIDE DEF f
  <2>2. f * s \in Int /\ s * (100 - f) \in Int
    BY <2>1
  <2>3. v * (10000 - f * s) \in Int /\ v * (10000 - s * (100 - f)) \in Int
    BY <2>2
  <2>4. /\ (v * (10000 - f * s)) \div 10000 \in Int
        /\ (v * (10000 - s * (100 - f))) \div 10000 \in Int
    BY <2>3
  <2> QED
    BY <2>4 DEF Q, T, f
<1>4. ASSUME NEW c \in Channels PROVE Percent(h, s, v)[c] \in Int
  BY <1>1, <1>2, <1>3 DEF Percent, Channels
<1>5. ASSUME NEW c \in Channels PROVE Rgb(h, s, v)[c] \in Nat
  BY <1>4 DEF Rgb, U8, U16
<1>6. ASSUME NEW x \in Nat PROVE (x * PWM_TARGET_DUTY) \div 100 \in Nat
  BY DEF PWM_TARGET_DUTY
<1>7. ASSUME NEW c \in Channels
      PROVE  (Rgb(h, s, v)[c] * PWM_TARGET_DUTY) \div 100 \in Nat
  BY <1>5, <1>6
<1> QED
  BY <1>7 DEF Duty

LEMMA SetOnType ==
  ASSUME NEW r \in BulbState, NEW o, o \in BOOLEAN
  PROVE  [r EXCEPT !.set_on = o] \in BulbState
  BY DEF BulbState

LEMMA FlashIntervalType ==
  ASSUME NEW r \in BulbState, NEW i \in Int
  PROVE  [r EXCEPT !.flash_interval = i] \in BulbState
  BY DEF BulbState

LEMMA LitType ==
  ASSUME NEW h \in 0..360, NEW s \in 0..100, NEW b \in Int, NEW i \in Int
  PROVE  Lit(h, s, b, i) \in BulbState
  BY DEF Lit, BulbState

\* The switch of notify_lightbulb_state only asks for legal records.
LEMMA RequestRecord ==
  ASSUME TypeOK, Request
  PROVE  \E record \in BulbState : BeginRequest(record)
<1>0. s_bulb_state \in BulbState
  BY DEF TypeOK
<1>1. ASSUME NEW asked \in BULB_STATE_OFF..UnknownColour, NEW i \in FlashIntervals,
             notify_lightbulb_state(asked, i)
      PROVE  \E record \in BulbState : BeginRequest(record)
  <2>1. i \in Int
    BY LightbulbAssumption
  <2>2. {0, 120, 240} \subseteq 0..360 /\ 100 \in 0..100 /\ 20 \in Int
    OBVIOUS
  <2>3. CASE BeginRequest(Lit(0, 100, 20, i))
    <3>1. Lit(0, 100, 20, i) \in BulbState
      BY <2>1, <2>2, LitType
    <3> QED
      BY <2>3, <3>1
  <2>4. CASE BeginRequest(Lit(120, 100, 20, i))
    <3>1. Lit(120, 100, 20, i) \in BulbState
      BY <2>1, <2>2, LitType
    <3> QED
      BY <2>4, <3>1
  <2>5. CASE BeginRequest(Lit(240, 100, 20, i))
    <3>1. Lit(240, 100, 20, i) \in BulbState
      BY <2>1, <2>2, LitType
    <3> QED
      BY <2>5, <3>1
  <2>6. ASSUME NEW h \in RandHue, NEW s \in RandSaturation,
               NEW b \in RandBrightness, BeginRequest(Lit(h, s, b, i))
        PROVE  \E record \in BulbState : BeginRequest(record)
    <3>1. h \in 0..360 /\ s \in 0..100 /\ b \in Int
      BY LightbulbAssumption
    <3> QED
      BY <2>1, <2>6, <3>1, LitType
  <2>7. CASE BeginRequest([s_bulb_state EXCEPT !.set_on = FALSE, !.flash_interval = i])
    <3>1. [s_bulb_state EXCEPT !.set_on = FALSE] \in BulbState
      BY <1>0, SetOnType
    <3>2. [s_bulb_state EXCEPT !.set_on = FALSE, !.flash_interval = i] \in BulbState
      BY <2>1, <3>1, FlashIntervalType
    <3> QED
      BY <2>7, <3>2
  <2>8. CASE BeginRequest([s_bulb_state EXCEPT !.flash_interval = i])
    <3>1. [s_bulb_state EXCEPT !.flash_interval = i] \in BulbState
      BY <1>0, <2>1, FlashIntervalType
    <3> QED
      BY <2>8, <3>1
  <2> QED
    BY <1>1, <2>3, <2>4, <2>5, <2>6, <2>7, <2>8 DEF notify_lightbulb_state
<1>2. ASSUME NEW input \in AppStates, set_current_bulb_state(input)
      PROVE  \E record \in BulbState : BeginRequest(record)
  BY <1>2, LightbulbAssumption DEF set_current_bulb_state
<1> QED
  BY <1>1, <1>2 DEF Request

LEMMA RequestType ==
  ASSUME TypeOK, Request
  PROVE  TypeOK'
<1>1. PICK record \in BulbState : BeginRequest(record)
  BY RequestRecord
<1> QED
  BY <1>1, LightbulbAssumption DEF BeginRequest, TypeOK, daemonVars

LEMMA StoreType ==
  ASSUME TypeOK, Store
  PROVE  TypeOK'
<1>1. s_bulb_state' \in BulbState
  <2>1. PICK field \in DOMAIN target :
          s_bulb_state' = [s_bulb_state EXCEPT ![field] = target[field]]
    BY DEF Store
  <2>2. DOMAIN target = {"set_on", "hue_value", "saturation_value",
                         "brightness_value", "flash_interval"}
    BY DEF TypeOK, BulbState
  <2> QED
    BY <2>1, <2>2 DEF TypeOK, BulbState
<1> QED
  BY <1>1 DEF Store, TypeOK, daemonVars, requestVars

\* A legal working colour keeps the duties legal.
LEMMA ColourDuty ==
  ASSUME NEW c \in [h: 0..360, s: 0..100, b: UInt16], InRange(c.h, c.s, c.b)
  PROVE  Duty(c.h, c.s, c.b) \in [Channels -> Nat]
<1>1. c.h \in 0..360 /\ c.s \in 0..100 /\ c.b \in UInt16 /\ c.b <= 100
  BY DEF InRange
<1>2. \A x \in UInt16 : x <= 100 => x \in 0..100
  BY DEF UInt16
<1>3. c.b \in 0..100
  BY <1>1, <1>2
<1> QED
  BY ONLY <1>1, <1>3, DutyType

LEMMA UpdateType ==
  ASSUME NEW c \in [h: 0..360, s: 0..100, b: UInt16],
         duty \in [Channels -> Nat],
         \/ lightbulb_update(c)
         \/ UpdateIfOn(c)
  PROVE  duty' \in [Channels -> Nat]
<1>1. InRange(c.h, c.s, c.b) => Duty(c.h, c.s, c.b) \in [Channels -> Nat]
  BY ColourDuty
<1> QED
  BY <1>1 DEF lightbulb_update, UpdateIfOn

LEMMA DaemonType ==
  ASSUME TypeOK, Daemon
  PROVE  TypeOK'
<1> DEFINE Hsb == [h: 0..360, s: 0..100, b: UInt16]
<1>0. 0 \in UInt16
  BY DEF UInt16
<1> USE DEF TypeOK, Call, requestVars
<1>1. CASE lightbulb_init
  <2>1. s_hsb_val' \in Hsb
    BY <1>0, <1>1 DEF lightbulb_init
  <2> QED
    BY <1>1, <2>1, UpdateType DEF lightbulb_init
<1>2. CASE lightbulb_set_hue
  <2>1. s_hsb_val' \in Hsb
    BY <1>2, U16Small DEF lightbulb_set_hue, BulbState
  <2> QED
    BY <1>2, <2>1, UpdateType DEF lightbulb_set_hue
<1>3. CASE lightbulb_set_saturation
  <2>1. s_hsb_val' \in Hsb
    BY <1>3, U16Small DEF lightbulb_set_saturation, BulbState
  <2> QED
    BY <1>3, <2>1, UpdateType DEF lightbulb_set_saturation
<1>4. CASE lightbulb_set_brightness
  <2>1. s_hsb_val' \in Hsb
    BY <1>4, U16Type DEF lightbulb_set_brightness, BulbState
  <2> QED
    BY <1>4, <2>1, UpdateType DEF lightbulb_set_brightness
<1>5. CASE lightbulb_set_on
  <2>1. s_hsb_val' \in Hsb /\ s_brightness' \in UInt16
    BY <1>0, <1>5 DEF lightbulb_set_on
  <2>2. s_on' \in BOOLEAN
    BY <1>5 DEF lightbulb_set_on, BulbState
  <2> QED
    BY <1>5, <2>1, <2>2, UpdateType DEF lightbulb_set_on
<1>6. CASE lightbulb_set_off
  <2>1. s_hsb_val' \in Hsb
    BY <1>0, <1>6 DEF lightbulb_set_off
  <2> QED
    BY <1>6, <2>1, UpdateType DEF lightbulb_set_off
<1>7. CASE LoopAgain
  BY <1>7 DEF LoopAgain
<1> QED
  BY <1>1, <1>2, <1>3, <1>4, <1>5, <1>6, <1>7 DEF Daemon

LEMMA InitType == Init => TypeOK
<1> SUFFICES ASSUME Init PROVE TypeOK
  OBVIOUS
<1>1. Off \in BulbState
  BY DEF Off, BulbState
<1>2. 0 \in UInt16
  BY DEF UInt16
<1>3. Dark \in [Channels -> Nat]
  BY DEF Dark
<1>4. s_hsb_val \in [h: 0..360, s: 0..100, b: UInt16]
  BY <1>2 DEF Init
<1>5. requests \in 0..MaxRequests
  BY LightbulbAssumption DEF Init
<1> QED
  BY <1>1, <1>2, <1>3, <1>4, <1>5 DEF Init, TypeOK

LEMMA StutterType == TypeOK /\ UNCHANGED vars => TypeOK'
  BY DEF TypeOK, vars, requestVars, daemonVars

\* The state keeps its shape, and the hue and the saturation the daemon works
\* with never leave the ranges struct hsp documents, however the requesting task's
\* stores interleave with the daemon's calls.
THEOREM TypeCorrect == Spec => []TypeOK
<1>1. TypeOK /\ [Next]_vars => TypeOK'
  BY RequestType, StoreType, DaemonType, StutterType DEF Next
<1> QED
  BY InitType, <1>1, PTL DEF Spec

-----------------------------------------------------------------------------
(* A lamp that is off is dark. *)

\* Switching off works because the zero brightness goes through the conversion,
\* which refuses no working colour the daemon can hold.
LEMMA DarkUpdate ==
  ASSUME NEW c \in [h: 0..360, s: 0..100, b: UInt16], c.b = 0, lightbulb_update(c)
  PROVE  duty' = Dark
<1>1. InRange(c.h, c.s, c.b)
  BY DEF InRange
<1>2. Duty(c.h, c.s, 0) = Dark
  <2>1. c.h \in Nat /\ c.s \in 0..100
    OBVIOUS
  <2> QED
    BY <2>1, ZeroIsDark
<1> QED
  BY <1>1, <1>2 DEF lightbulb_update

LEMMA OffStep ==
  ASSUME TypeOK, TypeOK', OffIsDark, [Next]_vars
  PROVE  OffIsDark'
<1> USE DEF OffIsDark
<1>0. s_hsb_val' \in [h: 0..360, s: 0..100, b: UInt16]
  BY DEF TypeOK
<1>1. CASE Request
  <2>1. PICK record \in BulbState : BeginRequest(record)
    BY <1>1, RequestRecord
  <2> QED
    BY <2>1 DEF BeginRequest, daemonVars
<1>2. CASE Store
  BY <1>2 DEF Store, daemonVars
<1>3. CASE lightbulb_init
  <2>1. s_hsb_val'.b = 0 /\ lightbulb_update(s_hsb_val')
    BY <1>3 DEF lightbulb_init
  <2> QED
    BY <1>0, <2>1, DarkUpdate
<1>4. CASE lightbulb_set_hue \/ lightbulb_set_saturation \/ lightbulb_set_brightness
  <2>1. UpdateIfOn(s_hsb_val') /\ s_on' = s_on
    BY <1>4 DEF lightbulb_set_hue, lightbulb_set_saturation, lightbulb_set_brightness
  <2> QED
    BY <2>1 DEF UpdateIfOn
<1>5. CASE lightbulb_set_on
  <2>1. ASSUME ~s_on' PROVE s_hsb_val'.b = 0
    BY <1>5, <2>1 DEF lightbulb_set_on, TypeOK
  <2>2. lightbulb_update(s_hsb_val')
    BY <1>5 DEF lightbulb_set_on
  <2> QED
    BY <1>0, <2>1, <2>2, DarkUpdate
<1>6. CASE lightbulb_set_off
  <2>1. s_hsb_val'.b = 0 /\ lightbulb_update(s_hsb_val')
    BY <1>6 DEF lightbulb_set_off, TypeOK
  <2> QED
    BY <1>0, <2>1, DarkUpdate
<1>7. CASE LoopAgain
  BY <1>7 DEF LoopAgain
<1>8. CASE UNCHANGED vars
  BY <1>8 DEF vars, daemonVars
<1> QED
  BY <1>1, <1>2, <1>3, <1>4, <1>5, <1>6, <1>7, <1>8 DEF Next, Daemon

\* At no step of the daemon's loop does a lamp that is off shed light, whatever
\* the requests store meanwhile and whether or not the lamp flashes.
THEOREM OffStaysDark == Spec => []OffIsDark
<1>1. Init => OffIsDark
  BY DEF Init, OffIsDark
<1>2. TypeOK /\ TypeOK' /\ OffIsDark /\ [Next]_vars => OffIsDark'
  BY OffStep
<1> QED
  BY <1>1, <1>2, TypeCorrect, PTL DEF Spec

-----------------------------------------------------------------------------
(* One undisturbed loop shows the record. *)

\* What the calls made since the loop top have already copied from a record no
\* store has touched meanwhile.
Copied ==
  fresh =>
    /\ pc \in {"saturation", "brightness", "on"} =>
         s_hsb_val.h = s_bulb_state.hue_value
    /\ pc \in {"brightness", "on"} =>
         s_hsb_val.s = s_bulb_state.saturation_value
    /\ pc = "on" =>
         /\ s_hsb_val.b = U16(s_bulb_state.brightness_value)
         /\ s_brightness = s_hsb_val.b

ShowsInv == Copied /\ ShowsState

LEMMA CopiedStep ==
  ASSUME TypeOK, Copied, [Next]_vars
  PROVE  Copied'
<1> USE DEF Copied
<1>0. /\ s_bulb_state \in BulbState
      /\ s_hsb_val \in [h: 0..360, s: 0..100, b: UInt16]
  BY DEF TypeOK
<1>1. CASE Request
  <2>1. PICK record \in BulbState : BeginRequest(record)
    BY <1>1, RequestRecord
  <2> QED
    BY <2>1 DEF BeginRequest, daemonVars
<1>2. CASE Store
  BY <1>2 DEF Store
<1>3. CASE lightbulb_init
  BY <1>3 DEF lightbulb_init, Call
<1>4. CASE lightbulb_set_hue
  <2>1. s_hsb_val'.h = s_bulb_state.hue_value
    BY <1>0, <1>4, U16Small DEF lightbulb_set_hue, BulbState
  <2> QED
    BY <1>4, <2>1 DEF lightbulb_set_hue, Call
<1>5. CASE lightbulb_set_saturation
  <2>1. s_hsb_val'.s = s_bulb_state.saturation_value /\ s_hsb_val'.h = s_hsb_val.h
    BY <1>0, <1>5, U16Small DEF lightbulb_set_saturation, BulbState
  <2> QED
    BY <1>5, <2>1 DEF lightbulb_set_saturation, Call
<1>6. CASE lightbulb_set_brightness
  <2>1. /\ s_hsb_val'.b = U16(s_bulb_state.brightness_value)
        /\ s_brightness' = s_hsb_val'.b
        /\ s_hsb_val'.h = s_hsb_val.h
        /\ s_hsb_val'.s = s_hsb_val.s
    BY <1>0, <1>6 DEF lightbulb_set_brightness
  <2> QED
    BY <1>6, <2>1 DEF lightbulb_set_brightness, Call
<1>7. CASE lightbulb_set_on \/ lightbulb_set_off \/ LoopAgain
  BY <1>7 DEF lightbulb_set_on, lightbulb_set_off, LoopAgain, Call
<1>8. CASE UNCHANGED vars
  BY <1>8 DEF vars, daemonVars
<1> QED
  BY <1>1, <1>2, <1>3, <1>4, <1>5, <1>6, <1>7, <1>8 DEF Next, Daemon

LEMMA ShowsStep ==
  ASSUME TypeOK, TypeOK', Copied, OffIsDark', ShowsState, [Next]_vars
  PROVE  ShowsState'
<1> USE DEF ShowsState
<1>1. CASE Request
  <2>1. PICK record \in BulbState : BeginRequest(record)
    BY <1>1, RequestRecord
  <2> QED
    BY <2>1 DEF BeginRequest, daemonVars, Showable, ColourOf
<1>2. CASE Store
  BY <1>2 DEF Store
<1>3. CASE lightbulb_set_on
  <2> SUFFICES ASSUME fresh, Showable(s_bulb_state)
               PROVE  duty' = ColourOf(s_bulb_state)
    BY <1>3 DEF lightbulb_set_on, Call
  <2>1. CASE s_bulb_state.set_on = TRUE
    <3>1. /\ s_hsb_val.h = s_bulb_state.hue_value
          /\ s_hsb_val.s = s_bulb_state.saturation_value
          /\ s_brightness = U16(s_bulb_state.brightness_value)
      BY <1>3 DEF lightbulb_set_on, Call, Copied
    <3>2. s_brightness \in 0..100
      BY <2>1, <3>1 DEF Showable
    <3>3. /\ s_hsb_val'.h = s_bulb_state.hue_value
          /\ s_hsb_val'.s = s_bulb_state.saturation_value
          /\ s_hsb_val'.b = U16(s_bulb_state.brightness_value)
      BY <1>3, <2>1, <3>1, <3>2 DEF lightbulb_set_on, TypeOK
    <3>4. InRange(s_hsb_val'.h, s_hsb_val'.s, s_hsb_val'.b)
      BY <3>1, <3>2, <3>3 DEF TypeOK, BulbState, InRange
    <3> QED
      BY <1>3, <2>1, <3>3, <3>4 DEF lightbulb_set_on, lightbulb_update, ColourOf
  <2>2. CASE s_bulb_state.set_on = FALSE
    <3>1. duty' = Dark
      BY <1>3, <2>2 DEF lightbulb_set_on, OffIsDark
    <3> QED
      BY <2>2, <3>1 DEF ColourOf
  <2> QED
    BY <2>1, <2>2 DEF TypeOK, BulbState
<1>4. CASE \/ lightbulb_init \/ lightbulb_set_hue \/ lightbulb_set_saturation
           \/ lightbulb_set_brightness \/ lightbulb_set_off \/ LoopAgain
  BY <1>4 DEF lightbulb_init, lightbulb_set_hue, lightbulb_set_saturation,
              lightbulb_set_brightness, lightbulb_set_off, LoopAgain, Call
<1>5. CASE UNCHANGED vars
  BY <1>5 DEF vars, daemonVars, Showable, ColourOf
<1> QED
  BY <1>1, <1>2, <1>3, <1>4, <1>5 DEF Next, Daemon

\* One loop of the daemon without a store in it leaves the lamp showing the
\* record, whatever the loops before it showed: the tearing of an unlocked read
\* is never carried over (light_bulb_main.c:26-38).
THEOREM ShowsTheRecord == Spec => []ShowsState
<1>1. Init => ShowsInv
  BY DEF Init, ShowsInv, Copied, ShowsState
<1>2. /\ TypeOK /\ TypeOK' /\ OffIsDark /\ OffIsDark' /\ ShowsInv /\ [Next]_vars
      => ShowsInv'
  BY CopiedStep, ShowsStep DEF ShowsInv
<1>3. ShowsInv => ShowsState
  BY DEF ShowsInv
<1> QED
  BY <1>1, <1>2, <1>3, TypeCorrect, OffStaysDark, PTL DEF Spec
-----------------------------------------------------------------------------
(* The server. *)

\* Where the handler, its stores and the daemon's delay stand to each other.
Placed ==
  /\ main \in {"store", "hold"} => rep <= Len(payload)
  /\ main = "hold" => target = s_bulb_state
  /\ delay = 1 => pc = "delay" /\ lag = 0

\* The records the server asks for: they do not flash, and all can be shown.
Steady(st) == st.flash_interval = 0 /\ st.brightness_value \in 0..100

\* The LEDs show the daemon's working colour at every step while the lamp is on, and
\* the brightness is never lost while it is off.
Tracks ==
  /\ Steady(s_bulb_state) /\ Steady(target)
  /\ s_hsb_val.b \in 0..100 /\ s_brightness \in 0..100
  /\ pc # "flash_delay"
  /\ pc = "init" => ~s_on
  /\ pc = "on" \/ s_on => s_hsb_val.b = s_brightness
  /\ duty = IF s_on THEN Duty(s_hsb_val.h, s_hsb_val.s, s_hsb_val.b) ELSE Dark

SInv == TypeOKServer /\ Placed /\ Tracks

\* Time for that many calls and ticks of delay before the hold is over.
Within(calls, ticks) == calls * MaxLag + ticks - lag < hold

Copies(hue, saturation, brightness, on) ==
  /\ HasHue \/ hue
  /\ HasSaturation \/ saturation
  /\ HasBrightness \/ brightness
  /\ HasOn \/ on

\* While post_light holds a colour, each field is copied or its call comes in time.
InTime ==
  main = "hold" =>
    /\ pc = "init"       => Within(5, 0)
    /\ pc = "hue"        => Copies(Within(1, 0), Within(2, 0), Within(3, 0), Within(4, 0))
    /\ pc = "saturation" => Copies(Within(5, 1), Within(1, 0), Within(2, 0), Within(3, 0))
    /\ pc = "brightness" => Copies(Within(4, 1), Within(5, 1), Within(1, 0), Within(2, 0))
    /\ pc = "on"         => Copies(Within(3, 1), Within(4, 1), Within(5, 1), Within(1, 0))
    /\ pc = "delay"      => Copies(Within(2, delay), Within(3, delay),
                                   Within(4, delay), Within(5, delay))

\* The 50 ticks of post_light, seen from the scheduler's side.
LongHold == HoldTicks > 5 * MaxLag + 1

-----------------------------------------------------------------------------
(* The shape of the state, and that the LEDs track the working colour. *)

LEMMA PayloadSeq ==
  ASSUME TypeOKServer
  PROVE  Len(payload) \in Nat /\ payload \in Seq(Rep)
<1>1. <<>> \in Seq(Rep)
  OBVIOUS
<1>2. payload \in Seq(Rep)
  BY <1>1, LightServerAssumption DEF TypeOKServer
<1> QED
  BY <1>2

LEMMA InitSInv == InitServer => SInv
<1> SUFFICES ASSUME InitServer PROVE SInv
  OBVIOUS
<1>1. TypeOK
  BY InitType DEF InitServer
<1>2. rep \in 1..(Len(payload) + 1)
  BY DEF InitServer
<1>3. hold \in 0..HoldTicks /\ delay \in 0..1 /\ lag \in 0..MaxLag
  BY LightServerAssumption DEF InitServer
<1>4. TypeOKServer
  BY <1>1, <1>2, <1>3 DEF InitServer, TypeOKServer
<1>5. Placed
  BY DEF InitServer, Placed
<1>6. Tracks
  BY DEF InitServer, Init, Off, Steady, Tracks
<1> QED
  BY <1>4, <1>5, <1>6 DEF SInv

LEMMA SteadyLit ==
  ASSUME NEW h \in 0..360, NEW s \in 0..100, NEW b \in 0..100
  PROVE  Lit(h, s, b, 0) \in BulbState /\ Steady(Lit(h, s, b, 0))
<1>1. b \in Int /\ 0 \in Int
  OBVIOUS
<1>2. Lit(h, s, b, 0) \in BulbState
  BY <1>1, LitType
<1>3. Lit(h, s, b, 0).flash_interval = 0 /\ Lit(h, s, b, 0).brightness_value = b
  BY DEF Lit
<1> QED
  BY <1>2, <1>3 DEF Steady

\* notify_lightbulb_state as post_light calls it.
LEMMA SteadyRequest ==
  ASSUME SInv, NEW colour, notify_lightbulb_state(colour, 0)
  PROVE  \E record \in BulbState : Steady(record) /\ BeginRequest(record)
<1>1. s_bulb_state \in BulbState /\ Steady(s_bulb_state)
  BY DEF SInv, TypeOKServer, TypeOK, Tracks
<1>2. {0, 120, 240} \subseteq 0..360 /\ 100 \in 0..100 /\ 20 \in 0..100
  OBVIOUS
<1>3. ASSUME NEW r \in BulbState, Steady(r)
      PROVE  /\ [r EXCEPT !.flash_interval = 0] \in BulbState
             /\ Steady([r EXCEPT !.flash_interval = 0])
  BY <1>3 DEF BulbState, Steady
<1>4. [s_bulb_state EXCEPT !.set_on = FALSE] \in BulbState
      /\ Steady([s_bulb_state EXCEPT !.set_on = FALSE])
  <2>1. [s_bulb_state EXCEPT !.set_on = FALSE] \in BulbState
    BY <1>1, SetOnType
  <2>2. Steady([s_bulb_state EXCEPT !.set_on = FALSE])
    BY <1>1 DEF BulbState, Steady
  <2> QED
    BY <2>1, <2>2
<1>5. CASE BeginRequest([s_bulb_state EXCEPT !.set_on = FALSE, !.flash_interval = 0])
  BY <1>3, <1>4, <1>5
<1>6. CASE BeginRequest([s_bulb_state EXCEPT !.flash_interval = 0])
  BY <1>1, <1>3, <1>6
<1>7. CASE BeginRequest(Lit(0, 100, 20, 0))
  BY <1>2, <1>7, SteadyLit
<1>8. CASE BeginRequest(Lit(120, 100, 20, 0))
  BY <1>2, <1>8, SteadyLit
<1>10. CASE BeginRequest(Lit(240, 100, 20, 0))
  BY <1>2, <1>10, SteadyLit
<1>9. ASSUME NEW h \in RandHue, NEW s \in RandSaturation, NEW b \in RandBrightness,
             BeginRequest(Lit(h, s, b, 0))
      PROVE  \E record \in BulbState : Steady(record) /\ BeginRequest(record)
  <2>1. h \in 0..360 /\ s \in 0..100 /\ b \in 0..100
    BY LightbulbAssumption
  <2> QED
    BY <1>9, <2>1, SteadyLit
<1> QED
  BY <1>5, <1>6, <1>7, <1>8, <1>9, <1>10 DEF notify_lightbulb_state

\* A record stored half-way is steady, too.
LEMMA StoredField ==
  ASSUME NEW r \in BulbState, NEW t \in BulbState, NEW field \in DOMAIN t,
         Steady(r), Steady(t)
  PROVE  Steady([r EXCEPT ![field] = t[field]])
<1> DEFINE stored == [r EXCEPT ![field] = t[field]]
<1>1. /\ stored.flash_interval \in {r.flash_interval, t.flash_interval}
      /\ stored.brightness_value \in {r.brightness_value, t.brightness_value}
  <2>1. {"flash_interval", "brightness_value"} \subseteq DOMAIN r
    BY DEF BulbState
  <2> QED
    BY <2>1
<1> QED
  BY <1>1 DEF Steady

\* The handler's steps.
LEMMA HandlerSInv ==
  ASSUME SInv, (\E p \in Payloads : Post(p)) \/ post_light
  PROVE  SInv'
<1> USE DEF SInv, TypeOKServer, Placed
<1>1. CASE \E p \in Payloads : Post(p)
  <2>1. PICK p \in Payloads : Post(p)
    BY <1>1
  <2>2. p \in Seq(Rep)
    BY LightServerAssumption
  <2>3. Len(p) \in Nat
    BY <2>2
  <2>4. 1 \in 1..(Len(p) + 1)
    BY <2>3
  <2>5. UNCHANGED <<vars, timeVars>> /\ main' = "loop" /\ payload' = p /\ rep' = 1
        /\ state' = FALSE /\ light_state' = light_state
    BY <2>1 DEF Post, At
  <2> QED
    BY <2>4, <2>5, StutterType DEF vars, requestVars, daemonVars, timeVars, Tracks
<1>2. CASE RepBool \/ HoldEnds
  <2>1. rep <= Len(payload) /\ rep' = rep + 1 /\ payload' = payload /\ main' = "loop"
    BY <1>2 DEF RepBool, HoldEnds, Entry, At
  <2>2. rep' \in 1..(Len(payload') + 1)
    BY <2>1, PayloadSeq
  <2>3. UNCHANGED <<vars, timeVars, light_state>> /\ state' \in BOOLEAN
    BY <1>2 DEF RepBool, HoldEnds
  <2> QED
    BY <2>1, <2>2, <2>3, StutterType DEF vars, requestVars, daemonVars, timeVars, Tracks
<1>3. CASE RepOther \/ Changed
  <2>1. UNCHANGED <<vars, timeVars, payload, rep, state>> /\ main' = "idle"
        /\ light_state' \in BOOLEAN
    BY <1>3 DEF RepOther, Changed, At
  <2> QED
    BY <2>1, StutterType DEF vars, requestVars, daemonVars, timeVars, Tracks
<1>4. CASE RepInt
  <2>1. PICK record \in BulbState : Steady(record) /\ BeginRequest(record)
    BY <1>4, SteadyRequest DEF RepInt
  <2>2. TypeOK'
    BY <2>1, LightbulbAssumption DEF BeginRequest, TypeOK, daemonVars
  <2>3. rep <= Len(payload) /\ main' = "store"
        /\ UNCHANGED <<payload, rep, state, light_state, timeVars>>
    BY <1>4 DEF RepInt, Entry, At
  <2>4. UNCHANGED <<s_bulb_state, daemonVars>> /\ target' = record
    BY <2>1 DEF BeginRequest
  <2> QED
    BY <2>1, <2>2, <2>3, <2>4 DEF daemonVars, timeVars, Tracks, Steady
<1>5. CASE StoreField
  <2>1. TypeOK'
    BY <1>5, StoreType DEF StoreField
  <2>2. main = "store" /\ UNCHANGED <<handlerVars, timeVars, daemonVars, target>>
    BY <1>5 DEF StoreField, Store, requestVars
  <2>3. PICK field \in DOMAIN target :
          s_bulb_state' = [s_bulb_state EXCEPT ![field] = target[field]]
    BY <1>5 DEF StoreField, Store
  <2>4. Steady(s_bulb_state')
    BY <2>3, StoredField DEF Tracks, TypeOK
  <2> QED
    BY <2>1, <2>2, <2>4 DEF handlerVars, timeVars, daemonVars, Tracks, Steady
<1>6. CASE StartHold
  <2>1. /\ UNCHANGED <<vars, payload, rep, state, light_state, delay, lag>>
        /\ main = "store" /\ main' = "hold" /\ target = s_bulb_state /\ hold' = HoldTicks
    BY <1>6 DEF StartHold, At
  <2>2. hold' \in 0..HoldTicks
    BY <2>1, LightServerAssumption
  <2> QED
    BY <2>1, <2>2, StutterType DEF vars, requestVars, daemonVars, Tracks
<1> QED
  BY <1>1, <1>2, <1>3, <1>4, <1>5, <1>6 DEF post_light

LEMMA TickSInv ==
  ASSUME SInv, Tick
  PROVE  SInv'
<1>1. UNCHANGED <<vars, handlerVars>>
  BY DEF Tick
<1>2. TypeOK' /\ Tracks'
  BY <1>1, StutterType DEF vars, requestVars, daemonVars, SInv, TypeOKServer, Tracks
<1>3. hold \in Nat /\ hold <= HoldTicks /\ delay \in 0..1 /\ lag \in Nat /\ lag <= MaxLag
  BY DEF SInv, TypeOKServer
<1>4. hold' \in 0..HoldTicks /\ delay' = 0
  BY <1>3, LightServerAssumption DEF Tick, CountDown
<1>5. lag' \in 0..MaxLag
  BY <1>3, LightServerAssumption DEF Tick
<1> QED
  BY <1>1, <1>2, <1>4, <1>5 DEF handlerVars, vars, daemonVars, requestVars, SInv, TypeOKServer, Placed

\* A working colour the daemon can hold is shown as it is.
LEMMA Shown ==
  ASSUME NEW c \in [h: 0..360, s: 0..100, b: UInt16], c.b \in 0..100, lightbulb_update(c)
  PROVE  duty' = Duty(c.h, c.s, c.b)
<1>1. InRange(c.h, c.s, c.b)
  BY DEF InRange
<1> QED
  BY <1>1 DEF lightbulb_update

LEMMA CallTracks ==
  ASSUME SInv, TypeOK', Daemon
  PROVE  Tracks'
<1>0. /\ s_bulb_state \in BulbState /\ Steady(s_bulb_state)
      /\ s_hsb_val \in [h: 0..360, s: 0..100, b: UInt16]
      /\ s_hsb_val' \in [h: 0..360, s: 0..100, b: UInt16]
      /\ s_on \in BOOLEAN /\ s_on' \in BOOLEAN
  BY DEF SInv, TypeOKServer, TypeOK, Tracks
<1>1. UNCHANGED <<s_bulb_state, target>> /\ Steady(s_bulb_state)' /\ Steady(target)'
  BY DEF Daemon, lightbulb_init, lightbulb_set_hue, lightbulb_set_saturation,
         lightbulb_set_brightness, lightbulb_set_on, lightbulb_set_off, LoopAgain,
         requestVars, SInv, Tracks, Steady
<1>2. CASE lightbulb_init
  <2>1. s_hsb_val'.b = 0 /\ UNCHANGED <<s_on, s_brightness>> /\ pc' = "hue" /\ pc = "init"
        /\ lightbulb_update(s_hsb_val')
    BY <1>2 DEF lightbulb_init, Call
  <2>2. duty' = Dark /\ duty' = Duty(s_hsb_val'.h, s_hsb_val'.s, s_hsb_val'.b)
    BY <1>0, <2>1, DarkUpdate, Shown
  <2>3. ~s_on
    BY <2>1 DEF SInv, Tracks
  <2> QED
    BY <1>1, <2>1, <2>2, <2>3 DEF SInv, Tracks
<1>3. CASE lightbulb_set_hue \/ lightbulb_set_saturation
  <2>1. /\ s_hsb_val'.b = s_hsb_val.b /\ UNCHANGED <<s_on, s_brightness>>
        /\ pc' \in {"saturation", "brightness"} /\ UpdateIfOn(s_hsb_val')
    BY <1>0, <1>3 DEF lightbulb_set_hue, lightbulb_set_saturation, Call
  <2>2. s_hsb_val'.b \in 0..100
    BY <2>1 DEF SInv, Tracks
  <2>3. s_on => duty' = Duty(s_hsb_val'.h, s_hsb_val'.s, s_hsb_val'.b)
    BY <1>0, <2>1, <2>2, Shown DEF UpdateIfOn
  <2>4. ~s_on => duty' = Dark
    BY <2>1 DEF UpdateIfOn, SInv, Tracks
  <2> QED
    BY <1>1, <2>1, <2>2, <2>3, <2>4 DEF SInv, Tracks
<1>4. CASE lightbulb_set_brightness
  <2>1. /\ s_hsb_val'.b = s_bulb_state.brightness_value /\ s_brightness' = s_hsb_val'.b
        /\ s_on' = s_on /\ pc' = "on" /\ UpdateIfOn(s_hsb_val')
    BY <1>0, <1>4, U16Small DEF lightbulb_set_brightness, Call, Steady
  <2>2. s_hsb_val'.b \in 0..100
    BY <1>0, <2>1 DEF Steady
  <2>3. s_on => duty' = Duty(s_hsb_val'.h, s_hsb_val'.s, s_hsb_val'.b)
    BY <1>0, <2>1, <2>2, Shown DEF UpdateIfOn
  <2>4. ~s_on => duty' = Dark
    BY <2>1 DEF UpdateIfOn, SInv, Tracks
  <2> QED
    BY <1>1, <2>1, <2>2, <2>3, <2>4 DEF Tracks
<1>5. CASE lightbulb_set_on
  <2>1. /\ s_on' = s_bulb_state.set_on /\ s_brightness' = s_brightness /\ pc' = "delay"
        /\ s_hsb_val'.b = (IF s_on' THEN s_brightness ELSE 0)
        /\ lightbulb_update(s_hsb_val')
    BY <1>5 DEF lightbulb_set_on, Call, SInv, TypeOKServer, TypeOK, Tracks
  <2>2. s_hsb_val'.b \in 0..100
    BY <2>1 DEF SInv, Tracks
  <2>3. duty' = Duty(s_hsb_val'.h, s_hsb_val'.s, s_hsb_val'.b)
    BY <1>0, <2>1, <2>2, Shown
  <2>4. ~s_on' => duty' = Dark
    BY <1>0, <2>1, DarkUpdate
  <2> QED
    BY <1>0, <1>1, <2>1, <2>2, <2>3, <2>4 DEF SInv, Tracks
<1>6. CASE lightbulb_set_off
  BY <1>6 DEF lightbulb_set_off, SInv, Tracks, Steady
<1>7. CASE LoopAgain
  BY <1>1, <1>7 DEF LoopAgain, Call, SInv, Tracks
<1> QED
  BY <1>2, <1>3, <1>4, <1>5, <1>6, <1>7 DEF Daemon

LEMMA DaemonCallSInv ==
  ASSUME SInv, DaemonCall
  PROVE  SInv'
<1>1. TypeOK'
  BY DaemonType DEF DaemonCall, SInv, TypeOKServer
<1>2. Tracks'
  BY <1>1, CallTracks DEF DaemonCall
<1>3. UNCHANGED <<handlerVars, hold>> /\ lag' = 0 /\ delay' = IF pc' = "delay" THEN 1 ELSE 0
  BY DEF DaemonCall
<1>4. lag' \in 0..MaxLag /\ delay' \in 0..1
  BY <1>3, LightServerAssumption
<1>5. UNCHANGED <<s_bulb_state, target>>
  BY DEF DaemonCall, Daemon, lightbulb_init, lightbulb_set_hue, lightbulb_set_saturation,
         lightbulb_set_brightness, lightbulb_set_on, lightbulb_set_off, LoopAgain, requestVars
<1> QED
  BY <1>1, <1>2, <1>3, <1>4, <1>5 DEF handlerVars, SInv, TypeOKServer, Placed

LEMMA NextSInv == SInv /\ [NextServer]_serverVars => SInv'
<1> SUFFICES ASSUME SInv, [NextServer]_serverVars PROVE SInv'
  OBVIOUS
<1>1. CASE UNCHANGED serverVars
  BY <1>1, StutterType DEF serverVars, vars, requestVars, daemonVars, handlerVars, timeVars,
                           SInv, TypeOKServer, Placed, Tracks
<1> QED
  BY <1>1, HandlerSInv, DaemonCallSInv, TickSInv DEF NextServer

\* The state keeps its shape: post_light stays inside its payload, and the daemon's
\* lag and delay inside their bounds.
THEOREM ServerTypeCorrect == SpecServer => []TypeOKServer
<1>1. SInv => TypeOKServer
  BY DEF SInv
<1> QED
  BY InitSInv, NextSInv, <1>1, PTL DEF SpecServer

-----------------------------------------------------------------------------
(* Every colour in time. *)

LEMMA TimeTypes ==
  ASSUME SInv
  PROVE  /\ MaxLag \in Nat /\ HoldTicks \in Nat
         /\ hold \in Nat /\ lag \in Nat /\ lag <= MaxLag /\ delay \in {0, 1}
         /\ delay = 1 => pc = "delay" /\ lag = 0
BY LightServerAssumption DEF SInv, TypeOKServer, Placed

\* A hold that starts leaves time for a whole round of the daemon.
LEMMA AtStart ==
  ASSUME SInv, LongHold, hold' = HoldTicks, lag' = lag, delay' = delay
  PROVE  /\ \A w \in {0, 1} : Within(1, w)' /\ Within(2, w)' /\ Within(3, w)'
                              /\ Within(4, w)' /\ Within(5, w)'
         /\ Within(2, delay)' /\ Within(3, delay)' /\ Within(4, delay)' /\ Within(5, delay)'
<1>1. ASSUME NEW w \in {0, 1}
      PROVE  Within(1, w)' /\ Within(2, w)' /\ Within(3, w)' /\ Within(4, w)' /\ Within(5, w)'
  BY TimeTypes DEF LongHold, Within
<1>2. delay' \in {0, 1}
  BY TimeTypes
<1> QED
  BY <1>1, <1>2, TimeTypes DEF LongHold, Within

\* A call, made at most MaxLag ticks after it could be.
LEMMA AtCall ==
  ASSUME SInv, hold' = hold, lag' = 0
  PROVE  /\ Within(2, 0) => Within(1, 0)'
         /\ Within(3, 0) => Within(2, 0)'
         /\ Within(4, 0) => Within(3, 0)'
         /\ Within(5, 0) => Within(1, 0)' /\ Within(2, 0)' /\ Within(3, 0)' /\ Within(4, 0)'
         /\ Within(3, 1) => Within(2, 1)'
         /\ Within(4, 1) => Within(3, 1)'
         /\ Within(5, 1) => Within(4, 1)'
BY TimeTypes DEF Within

\* A tick brings the end of the hold and the latest moment of each call equally near.
LEMMA AtTick ==
  ASSUME SInv, Tick
  PROVE  /\ delay = 0 =>
              \A w \in {0, 1} :
                /\ Within(1, w) => Within(1, w)'
                /\ Within(2, w) => Within(2, w)'
                /\ Within(3, w) => Within(3, w)'
                /\ Within(4, w) => Within(4, w)'
                /\ Within(5, w) => Within(5, w)'
         /\ delay = 1 =>
              /\ Within(2, 1) => Within(2, 0)'
              /\ Within(3, 1) => Within(3, 0)'
              /\ Within(4, 1) => Within(4, 0)'
              /\ Within(5, 1) => Within(5, 0)'
         /\ delay' = 0
<1>1. /\ hold' = IF hold > 0 THEN hold - 1 ELSE 0
      /\ lag' = IF delay = 0 THEN lag + 1 ELSE 0
      /\ delay' = IF delay > 0 THEN delay - 1 ELSE 0
      /\ delay = 0 => lag < MaxLag
  BY DEF Tick, CountDown
<1>2. CASE delay = 0
  BY <1>1, <1>2, TimeTypes DEF Within
<1>3. CASE delay = 1
  BY <1>1, <1>3, TimeTypes DEF Within
<1> QED
  BY <1>2, <1>3, TimeTypes

\* Nothing is in time when the hold is over.
LEMMA AtEnd ==
  ASSUME SInv, hold = 0
  PROVE  /\ \A w \in {0, 1} : ~Within(1, w) /\ ~Within(2, w) /\ ~Within(3, w)
                              /\ ~Within(4, w) /\ ~Within(5, w)
         /\ ~Within(2, delay) /\ ~Within(3, delay) /\ ~Within(4, delay) /\ ~Within(5, delay)
BY TimeTypes DEF Within

LEMMA HoldStarts ==
  ASSUME SInv, LongHold, StartHold
  PROVE  InTime'
<1>1. hold' = HoldTicks /\ UNCHANGED <<lag, delay>>
  BY DEF StartHold
<1> QED
  BY <1>1, AtStart DEF InTime, Copies

LEMMA TickInTime ==
  ASSUME SInv, InTime, Tick
  PROVE  InTime'
<1>1. UNCHANGED <<main, pc, s_hsb_val, s_brightness, s_on, s_bulb_state>>
  BY DEF Tick, vars, daemonVars, handlerVars
<1>2. HasHue' = HasHue /\ HasSaturation' = HasSaturation
      /\ HasBrightness' = HasBrightness /\ HasOn' = HasOn
  BY <1>1 DEF HasHue, HasSaturation, HasBrightness, HasOn
<1>3. CASE delay = 0
  BY <1>1, <1>2, <1>3, AtTick DEF InTime, Copies
<1>4. CASE delay = 1
  <2>1. pc = "delay"
    BY <1>4, TimeTypes
  <2> QED
    BY <1>1, <1>2, <1>4, <2>1, AtTick DEF InTime, Copies
<1> QED
  BY <1>3, <1>4, TimeTypes

\* Each call copies its field for good and leaves the others as they are.
LEMMA CallCopies ==
  ASSUME SInv, Daemon
  PROVE  /\ pc = "init" => pc' = "hue"
         /\ pc = "hue" =>
              /\ pc' = "saturation" /\ HasHue'
              /\ UNCHANGED <<HasSaturation, HasBrightness, HasOn>>
         /\ pc = "saturation" =>
              /\ pc' = "brightness" /\ HasSaturation'
              /\ UNCHANGED <<HasHue, HasBrightness, HasOn>>
         /\ pc = "brightness" =>
              /\ pc' = "on" /\ HasBrightness'
              /\ UNCHANGED <<HasHue, HasSaturation, HasOn>>
         /\ pc = "on" =>
              /\ pc' = "delay" /\ HasOn'
              /\ UNCHANGED <<HasHue, HasSaturation, HasBrightness>>
         /\ pc = "delay" =>
              /\ pc' = "hue"
              /\ UNCHANGED <<HasHue, HasSaturation, HasBrightness, HasOn>>
<1>0. /\ s_bulb_state \in BulbState /\ Steady(s_bulb_state)
      /\ s_hsb_val \in [h: 0..360, s: 0..100, b: UInt16]
      /\ s_on \in BOOLEAN
  BY DEF SInv, TypeOKServer, TypeOK, Tracks
<1> USE DEF Call, HasHue, HasSaturation, HasBrightness, HasOn
<1>1. CASE lightbulb_init
  BY <1>1 DEF lightbulb_init
<1>2. CASE lightbulb_set_hue
  <2>1. s_hsb_val'.h = s_bulb_state.hue_value /\ s_hsb_val'.s = s_hsb_val.s
    BY <1>0, <1>2, U16Small DEF lightbulb_set_hue, BulbState
  <2> QED
    BY <1>2, <2>1 DEF lightbulb_set_hue
<1>3. CASE lightbulb_set_saturation
  <2>1. s_hsb_val'.s = s_bulb_state.saturation_value /\ s_hsb_val'.h = s_hsb_val.h
    BY <1>0, <1>3, U16Small DEF lightbulb_set_saturation, BulbState
  <2> QED
    BY <1>3, <2>1 DEF lightbulb_set_saturation
<1>4. CASE lightbulb_set_brightness
  <2>1. /\ s_brightness' = s_bulb_state.brightness_value
        /\ s_hsb_val'.h = s_hsb_val.h /\ s_hsb_val'.s = s_hsb_val.s
    BY <1>0, <1>4, U16Small DEF lightbulb_set_brightness, Steady
  <2> QED
    BY <1>4, <2>1 DEF lightbulb_set_brightness
<1>5. CASE lightbulb_set_on
  <2>1. s_hsb_val.b = s_brightness
    BY <1>5 DEF lightbulb_set_on, SInv, Tracks
  <2>2. /\ s_on' = s_bulb_state.set_on /\ s_brightness' = s_brightness
        /\ s_hsb_val'.h = s_hsb_val.h /\ s_hsb_val'.s = s_hsb_val.s
    BY <1>0, <1>5, <2>1 DEF lightbulb_set_on
  <2> QED
    BY <1>5, <2>2 DEF lightbulb_set_on
<1>6. CASE lightbulb_set_off
  BY <1>6 DEF lightbulb_set_off, SInv, Tracks, Steady
<1>7. CASE LoopAgain
  BY <1>7 DEF LoopAgain, SInv, Tracks
<1> QED
  BY <1>1, <1>2, <1>3, <1>4, <1>5, <1>6, <1>7 DEF Daemon

LEMMA CallInTime ==
  ASSUME SInv, InTime, DaemonCall
  PROVE  InTime'
<1>1. hold' = hold /\ lag' = 0 /\ main' = main /\ delay = 0
      /\ delay' = IF pc' = "delay" THEN 1 ELSE 0
  BY DEF DaemonCall, handlerVars
<1>2. pc \in {"init", "hue", "saturation", "brightness", "on", "delay"}
  BY DEF SInv, TypeOKServer, TypeOK, Tracks
<1>3. Daemon
  BY DEF DaemonCall
<1> SUFFICES ASSUME main = "hold" PROVE InTime'
  BY <1>1 DEF InTime
<1>4. CASE pc = "init"
  BY <1>1, <1>3, <1>4, CallCopies, AtCall DEF InTime, Copies
<1>5. CASE pc = "hue"
  BY <1>1, <1>3, <1>5, CallCopies, AtCall DEF InTime, Copies
<1>6. CASE pc = "saturation"
  BY <1>1, <1>3, <1>6, CallCopies, AtCall DEF InTime, Copies
<1>7. CASE pc = "brightness"
  BY <1>1, <1>3, <1>7, CallCopies, AtCall DEF InTime, Copies
<1>8. CASE pc = "on"
  BY <1>1, <1>3, <1>8, CallCopies, AtCall DEF InTime, Copies
<1>9. CASE pc = "delay"
  BY <1>1, <1>3, <1>9, CallCopies, AtCall DEF InTime, Copies
<1> QED
  BY <1>2, <1>4, <1>5, <1>6, <1>7, <1>8, <1>9

LEMMA NextInTime ==
  ASSUME LongHold, SInv, InTime, [NextServer]_serverVars
  PROVE  InTime'
<1>1. CASE StartHold
  BY <1>1, HoldStarts
<1>2. CASE (\E p \in Payloads : Post(p)) \/ RepBool \/ RepInt \/ StoreField
           \/ HoldEnds \/ RepOther \/ Changed
  <2>1. main' # "hold"
    BY <1>2 DEF Post, RepBool, RepInt, StoreField, HoldEnds, RepOther, Changed, At, handlerVars
  <2> QED
    BY <2>1 DEF InTime
<1>3. CASE Tick
  BY <1>3, TickInTime
<1>4. CASE DaemonCall
  BY <1>4, CallInTime
<1>5. CASE UNCHANGED serverVars
  BY <1>5 DEF serverVars, vars, daemonVars, handlerVars, timeVars, InTime, Copies, Within,
              HasHue, HasSaturation, HasBrightness, HasOn
<1> QED
  BY <1>1, <1>2, <1>3, <1>4, <1>5 DEF NextServer, post_light

\* What the LEDs show once every field is copied.
LEMMA AllCopied ==
  ASSUME SInv, HasHue, HasSaturation, HasBrightness, HasOn
  PROVE  duty = ColourOf(s_bulb_state)
<1>1. U16(s_bulb_state.brightness_value) = s_bulb_state.brightness_value
  BY U16Small DEF SInv, Tracks, Steady
<1> QED
  BY <1>1 DEF SInv, Tracks, HasHue, HasSaturation, HasBrightness, HasOn, ColourOf

LEMMA AllCopiedNext ==
  ASSUME SInv', HasHue', HasSaturation', HasBrightness', HasOn'
  PROVE  duty' = ColourOf(s_bulb_state)'
<1>1. U16(s_bulb_state.brightness_value)' = s_bulb_state.brightness_value'
  <2>1. s_bulb_state.brightness_value' \in 0..100
    BY DEF SInv, Tracks, Steady
  <2> QED
    BY <2>1, U16Small DEF U16
<1> QED
  BY <1>1 DEF SInv, Tracks, HasHue, HasSaturation, HasBrightness, HasOn, ColourOf

LEMMA HoldLongEnough ==
  ASSUME SInv, InTime
  PROVE  EachColourShown
<1> SUFFICES ASSUME main = "hold", hold = 0
             PROVE  duty = ColourOf(s_bulb_state)
  BY DEF EachColourShown
<1>1. pc \in {"init", "hue", "saturation", "brightness", "on", "delay"}
  BY DEF SInv, TypeOKServer, TypeOK, Tracks
<1>2. HasHue /\ HasSaturation /\ HasBrightness /\ HasOn
  BY <1>1, AtEnd DEF InTime, Copies
<1> QED
  BY <1>2, AllCopied

\* Every colour of a payload reaches the LEDs before post_light goes on to the next,
\* for any payloads, colours and scheduling, provided that the hold is longer than
\* five of the daemon's lags and its tick of delay (server_freertos.c:104-111).
THEOREM ColoursShown ==
  ASSUME HoldTicks > 5 * MaxLag + 1
  PROVE  SpecServer => []EachColourShown
<1>1. InitServer => InTime
  BY DEF InitServer, InTime
<1>2. SInv /\ InTime /\ [NextServer]_serverVars => InTime'
  BY NextInTime DEF LongHold
<1>3. SInv /\ InTime => EachColourShown
  BY HoldLongEnough
<1> QED
  BY InitSInv, NextSInv, <1>1, <1>2, <1>3, PTL DEF SpecServer

-----------------------------------------------------------------------------
(* ... and for good. *)

LEMMA HoldSteps ==
  ASSUME SInv, main = "hold", HasRecord, [NextServer]_serverVars
  PROVE  duty' = duty
<1>1. SInv'
  BY NextSInv
<1>2. CASE (\E p \in Payloads : Post(p)) \/ RepBool \/ RepInt \/ StoreField \/ StartHold
             \/ RepOther \/ Changed
  BY <1>2 DEF Post, RepBool, RepInt, StoreField, StartHold, RepOther, Changed, At
<1>3. CASE HoldEnds \/ Tick \/ UNCHANGED serverVars
  BY <1>3 DEF HoldEnds, Tick, serverVars, vars, daemonVars
<1>4. CASE DaemonCall
  <2>1. Daemon /\ s_bulb_state' = s_bulb_state
    BY <1>4 DEF DaemonCall, Daemon, lightbulb_init, lightbulb_set_hue, lightbulb_set_saturation,
                lightbulb_set_brightness, lightbulb_set_on, lightbulb_set_off, LoopAgain
  <2>2. CASE pc = "init"
    <3>1. s_on' = s_on /\ ~s_on
      BY <2>1, <2>2 DEF Daemon, lightbulb_init, lightbulb_set_hue, lightbulb_set_saturation,
                        lightbulb_set_brightness, lightbulb_set_on, lightbulb_set_off, LoopAgain,
                        Call, SInv, Tracks
    <3> QED
      BY <1>1, <3>1 DEF SInv, Tracks
  <2>3. CASE pc # "init"
    <3>1. pc \in {"hue", "saturation", "brightness", "on", "delay"}
      BY <2>3 DEF SInv, TypeOKServer, TypeOK, Tracks
    <3>2. HasHue' /\ HasSaturation' /\ HasBrightness' /\ HasOn'
      BY <2>1, <3>1, CallCopies DEF HasRecord
    <3>3. duty' = ColourOf(s_bulb_state)'
      BY <1>1, <3>2, AllCopiedNext
    <3>4. duty = ColourOf(s_bulb_state)
      BY AllCopied DEF HasRecord
    <3> QED
      BY <2>1, <3>3, <3>4 DEF ColourOf
  <2> QED
    BY <2>2, <2>3
<1> QED
  BY <1>2, <1>3, <1>4 DEF NextServer, post_light

\* Whatever the colours, the daemon's later loops are invisible during a hold: what
\* set_hue, set_saturation, set_brightness and set_on write again changes no LED
\* (lightbulb.c:231-316, light_bulb_main.c:26-45).
THEOREM HeldColourStays == SpecServer => NoFlicker
<1>1. SInv /\ [NextServer]_serverVars => (main = "hold" /\ HasRecord => duty' = duty)
  BY HoldSteps
<1>2. SInv /\ [NextServer]_serverVars => [main = "hold" /\ HasRecord => duty' = duty]_serverVars
  BY <1>1
<1> QED
  BY InitSInv, NextSInv, <1>2, PTL DEF SpecServer, NoFlicker

-----------------------------------------------------------------------------
(* The handler keeps the resource's promise, step by step. *)

\* The last boolean of the first n entries is a TRUE.
TrueIn(p, n) ==
  \E k \in 1..n :
    /\ p[k] = <<"BOOL", 1>>
    /\ \A j \in (k + 1)..n : p[j][1] # "BOOL"

\* Where post_light stands in its walk: what it has passed is accepted and counted, and
\* while it stores or holds a colour it stands at an integer.
Walked ==
  /\ main # "idle" =>
       /\ \A k \in 1..(rep - 1) : payload[k][1] \in {"BOOL", "INT"}
       /\ state <=> TrueIn(payload, rep - 1)
  /\ main \in {"store", "hold"} => Entry("INT")

LEMMA TrueInStep ==
  ASSUME NEW p \in Seq(Rep), NEW r \in 1..Len(p)
  PROVE  /\ ~TrueIn(p, 0)
         /\ p[r][1] = "BOOL" => (TrueIn(p, r) <=> p[r][2] = 1)
         /\ p[r][1] # "BOOL" => (TrueIn(p, r) <=> TrueIn(p, r - 1))
<1>1. r \in Nat /\ r > 0 /\ Len(p) \in Nat
  OBVIOUS
<1>2. p[r] \in Rep
  OBVIOUS
<1>3. p[r] = <<p[r][1], p[r][2]>>
  BY <1>2 DEF Rep
<1>4. ~TrueIn(p, 0)
  BY DEF TrueIn
<1>5. ASSUME p[r][1] = "BOOL", p[r][2] = 1
      PROVE  TrueIn(p, r)
  <2>1. p[r] = <<"BOOL", 1>> /\ r \in 1..r /\ (r + 1)..r = {}
    BY <1>1, <1>3, <1>5
  <2> QED
    BY <2>1 DEF TrueIn
<1>6. ASSUME p[r][1] = "BOOL", TrueIn(p, r)
      PROVE  p[r][2] = 1
  <2>1. PICK k \in 1..r : p[k] = <<"BOOL", 1>> /\ \A j \in (k + 1)..r : p[j][1] # "BOOL"
    BY <1>6 DEF TrueIn
  <2>2. k = r
    <3>1. k # r => r \in (k + 1)..r
      BY <1>1
    <3> QED
      BY <1>6, <2>1, <3>1
  <2> QED
    BY <2>1, <2>2
<1>7. ASSUME p[r][1] # "BOOL", TrueIn(p, r)
      PROVE  TrueIn(p, r - 1)
  <2>1. PICK k \in 1..r : p[k] = <<"BOOL", 1>> /\ \A j \in (k + 1)..r : p[j][1] # "BOOL"
    BY <1>7 DEF TrueIn
  <2>2. k # r
    BY <1>7, <2>1
  <2>3. k \in 1..(r - 1) /\ (k + 1)..(r - 1) \subseteq (k + 1)..r
    BY <1>1, <2>2
  <2> QED
    BY <2>1, <2>3 DEF TrueIn
<1>8. ASSUME p[r][1] # "BOOL", TrueIn(p, r - 1)
      PROVE  TrueIn(p, r)
  <2>1. PICK k \in 1..(r - 1) : p[k] = <<"BOOL", 1>> /\ \A j \in (k + 1)..(r - 1) : p[j][1] # "BOOL"
    BY <1>8 DEF TrueIn
  <2>2. k \in 1..r /\ \A j \in (k + 1)..r : j = r \/ j \in (k + 1)..(r - 1)
    BY <1>1
  <2>3. \A j \in (k + 1)..r : p[j][1] # "BOOL"
    BY <1>8, <2>1, <2>2
  <2> QED
    BY <2>1, <2>2, <2>3 DEF TrueIn
<1> QED
  BY <1>4, <1>5, <1>6, <1>7, <1>8

LEMMA InitWalked == InitServer => Walked
BY DEF InitServer, Walked

\* One entry further.
LEMMA OneEntry ==
  ASSUME TypeOKServer, Walked, main # "idle", rep <= Len(payload), rep' = rep + 1,
         payload' = payload, payload[rep][1] \in {"BOOL", "INT"},
         payload[rep][1] = "BOOL" => (state' <=> payload[rep][2] = 1),
         payload[rep][1] = "INT" => state' = state
  PROVE  /\ \A k \in 1..(rep' - 1) : payload'[k][1] \in {"BOOL", "INT"}
         /\ state' <=> TrueIn(payload', rep' - 1)
<1>1. payload \in Seq(Rep) /\ rep \in 1..Len(payload) /\ rep' - 1 = rep
  BY PayloadSeq DEF TypeOKServer
<1>2. \A k \in 1..rep : k = rep \/ k \in 1..(rep - 1)
  BY <1>1
<1>3. \A k \in 1..rep : payload[k][1] \in {"BOOL", "INT"}
  BY <1>2 DEF Walked
<1>4. state' <=> TrueIn(payload, rep)
  <2>1. CASE payload[rep][1] = "BOOL"
    BY <1>1, <2>1, TrueInStep
  <2>2. CASE payload[rep][1] = "INT"
    <3>1. TrueIn(payload, rep) <=> TrueIn(payload, rep - 1)
      BY <1>1, <2>2, TrueInStep
    <3> QED
      BY <2>2, <3>1 DEF Walked
  <2> QED
    BY <2>1, <2>2
<1> QED
  BY <1>1, <1>3, <1>4

LEMMA NextWalked ==
  ASSUME SInv, Walked, [NextServer]_serverVars
  PROVE  Walked'
<1>0. TypeOKServer
  BY DEF SInv
<1>1. CASE \E p \in Payloads : Post(p)
  <2>1. rep' = 1 /\ state' = FALSE /\ main' = "loop"
    BY <1>1 DEF Post, At
  <2>2. 1..(rep' - 1) = {}
    BY <2>1
  <2> QED
    BY <2>1, <2>2 DEF Walked, TrueIn
<1>2. CASE RepBool
  <2>1. /\ main = "loop" /\ main' = "loop" /\ payload' = payload /\ rep' = rep + 1
        /\ rep <= Len(payload) /\ payload[rep][1] = "BOOL"
        /\ state' = (payload[rep][2] = 1)
    BY <1>2 DEF RepBool, Entry, At
  <2> QED
    BY <1>0, <2>1, OneEntry DEF Walked
<1>3. CASE HoldEnds
  <2>1. /\ main = "hold" /\ main' = "loop" /\ payload' = payload /\ rep' = rep + 1
        /\ state' = state
    BY <1>3 DEF HoldEnds, At
  <2>2. rep <= Len(payload) /\ payload[rep][1] = "INT"
    BY <2>1 DEF Walked, Entry
  <2> QED
    BY <1>0, <2>1, <2>2, OneEntry DEF Walked
<1>4. CASE RepInt \/ StoreField \/ StartHold
  <2>1. /\ main \in {"loop", "store"} /\ main' \in {"store", "hold"}
        /\ UNCHANGED <<payload, rep, state>>
    BY <1>4 DEF RepInt, StoreField, StartHold, At, handlerVars
  <2>2. rep <= Len(payload) /\ payload[rep][1] = "INT"
    BY <1>4 DEF RepInt, StoreField, StartHold, At, Entry, Walked
  <2> QED
    BY <2>1, <2>2 DEF Walked, Entry
<1>5. CASE RepOther \/ Changed
  BY <1>5 DEF RepOther, Changed, At, Walked
<1>6. CASE DaemonCall \/ Tick \/ UNCHANGED serverVars
  BY <1>6 DEF DaemonCall, Tick, serverVars, handlerVars, Walked, Entry
<1> QED
  BY <1>1, <1>2, <1>3, <1>4, <1>5, <1>6 DEF NextServer, post_light

LEMMA AnswersStep ==
  ASSUME SInv, Walked, [NextServer]_serverVars
  PROVE  [Resource!Next]_(Resource!vars)
<1> USE DEF Resource!vars
<1>0. payload \in Seq(Rep) /\ Len(payload) \in Nat /\ rep \in 1..(Len(payload) + 1)
  BY PayloadSeq DEF SInv, TypeOKServer
<1>1. ASSUME NEW p \in Payloads, Post(p)
      PROVE  Resource!Request(p)
  BY <1>1 DEF Post, At, Resource!Request
<1>2. CASE RepOther
  <2>1. ~Resource!Accepted(payload)
    <3>1. rep \in DOMAIN payload /\ payload[rep][1] = "OTHER"
      BY <1>0, <1>2 DEF RepOther, Entry
    <3> QED
      BY <3>1 DEF Resource!Accepted
  <2> QED
    BY <1>2, <2>1 DEF RepOther, At, Resource!Next, Resource!Answer
<1>3. CASE Changed
  <2>1. main = "loop" /\ main' = "idle" /\ light_state' = state /\ payload' = payload
    BY <1>3 DEF Changed, At
  <2>2. rep - 1 = Len(payload)
    BY <1>0, <1>3 DEF Changed
  <2>3. DOMAIN payload = 1..Len(payload)
    BY <1>0
  <2>4. Resource!Accepted(payload)
    BY <2>1, <2>2, <2>3 DEF Walked, Resource!Accepted
  <2>5. state = Resource!LastBool(payload)
    <3>1. state <=> TrueIn(payload, Len(payload))
      BY <2>1, <2>2 DEF Walked
    <3>2. state \in BOOLEAN
      BY DEF SInv, TypeOKServer
    <3> QED
      BY <2>3, <3>1, <3>2 DEF TrueIn, Resource!LastBool
  <2> QED
    BY <2>1, <2>4, <2>5 DEF Resource!Next, Resource!Answer
<1>4. CASE RepBool \/ RepInt \/ StoreField \/ StartHold \/ HoldEnds
  BY <1>4 DEF RepBool, RepInt, StoreField, StartHold, HoldEnds, At, handlerVars
<1>5. CASE DaemonCall \/ Tick \/ UNCHANGED serverVars
  BY <1>5 DEF DaemonCall, Tick, serverVars, handlerVars
<1> QED
  BY <1>1, <1>2, <1>3, <1>4, <1>5 DEF NextServer, post_light, Resource!Next

\* For every payload, what post_light makes of it is one request and one answer of the
\* abstract resource: the last boolean of an accepted payload is reported, nothing of a
\* refused one (server_freertos.c:97-120).  The safety half of ImplementsResource.
THEOREM StepsOfResource == SpecServer => Resource!Init /\ [][Resource!Next]_(Resource!vars)
<1>1. InitServer => Resource!Init
  BY DEF InitServer, Resource!Init
<1>2. SInv /\ Walked /\ [NextServer]_serverVars => Walked'
  BY NextWalked
<1>3. SInv /\ Walked /\ [NextServer]_serverVars => [Resource!Next]_(Resource!vars)
  BY AnswersStep
<1> QED
  BY InitSInv, NextSInv, InitWalked, <1>1, <1>2, <1>3, PTL DEF SpecServer
=============================================================================
