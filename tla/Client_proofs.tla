---------------------------- MODULE Client_proofs ----------------------------
(***************************************************************************)
(* The client's safety properties, for every list of links and every        *)
(* length of the URI buffer.                                                 *)
(***************************************************************************)
EXTENDS Client, TLAPS

\* Only the discovery: no light has been chosen, and the server is untouched.
Undiscovered ==
  /\ light_server = NoLink /\ light_1 = 0
  /\ ~observing /\ stop = "unset"
  /\ net \subseteq {Plain("discover"), Plain("links")}
  /\ ~observer /\ ~busy /\ request = <<>> /\ ~lamp

\* The discovery goes from hand to hand and is never doubled.
Discovering ==
  /\ Undiscovered
  /\ \/ main = "start" /\ net = {} /\ links = {}
     \/ main # "start" /\ net = {} /\ links \subseteq Links
     \/ main # "start" /\ links = {} /\ \E type \in {"discover", "links"} : net = {Plain(type)}

Discovered ==
  /\ main # "start" /\ links = {} /\ stop # "unset"
  /\ light_server \in Links /\ light_server.light /\ light_1 = Cut(light_server.uri)
  /\ ~UnderWay({"discover", "links"})

\* A light whose URI does not fit the client's buffer: the client talks to a resource
\* the server does not have, so the server neither observes it nor switches its lamp.
CutLightUntouched ==
  ~Known => ~observer /\ ~UnderWay({"report", "stopped"}) /\ ~busy /\ ~lamp

-----------------------------------------------------------------------------
(* Messages. *)

LEMMA PlainKinds ==
  ASSUME NEW type \in {"discover", "links", "observe", "stop", "missing"}
  PROVE  Plain(type) \in Messages /\ Plain(type).type = type
  BY DEF Messages, Message, Plain

LEMMA ValueKinds ==
  ASSUME NEW type \in {"report", "stopped", "post"}, NEW v \in BOOLEAN
  PROVE  Message(type, v) \in Messages /\ Message(type, v).type = type
  BY DEF Messages, Message

LEMMA PostKind ==
  ASSUME NEW v \in BOOLEAN
  PROVE  Post(v) \in Messages /\ Post(v).type = "post"
  BY ValueKinds DEF Post

LEMMA MessageShape ==
  ASSUME NEW m \in Messages
  PROVE  /\ m.value \in BOOLEAN
         /\ m.type \in {"discover", "links", "observe", "stop", "missing",
                        "report", "stopped", "post"}
         /\ m.type \in {"discover", "links"} => m = Plain(m.type)
<1>1. CASE m \in [type: {"report", "stopped", "post"}, value: BOOLEAN]
  BY <1>1
<1>2. CASE m \in {Plain("discover"), Plain("links"), Plain("observe"), Plain("stop"),
                  Plain("missing")}
  <2>1. PICK type \in {"discover", "links", "observe", "stop", "missing"} : m = Plain(type)
    BY <1>2
  <2>2. m.type = type /\ m.value = FALSE
    BY <2>1 DEF Plain, Message
  <2> QED
    BY <2>1, <2>2
<1> QED
  BY <1>1, <1>2 DEF Messages

LEMMA CutRange ==
  ASSUME NEW uri \in Nat
  PROVE  Cut(uri) \in 0..(MAX_URI_LENGTH - 1)
  BY ClientAssumption DEF Cut

-----------------------------------------------------------------------------
(* The shape of the state. *)

LEMMA InitType == Init => TypeOK
<1> SUFFICES ASSUME Init PROVE TypeOK
  OBVIOUS
<1>1. light_1 \in 0..(MAX_URI_LENGTH - 1)
  BY ClientAssumption DEF Init
<1> QED
  BY <1>1 DEF Init, TypeOK, Resource!Init

LEMMA ClientTaskType ==
  ASSUME TypeOK, issue_requests \/ LinksArrive \/ discovery \/ stop_observe
  PROVE  TypeOK'
<1> USE DEF TypeOK, resourceVars, oc_send_buffer
<1>1. CASE issue_requests
  BY <1>1, PlainKinds DEF issue_requests, oc_send_discovery_request
<1>2. CASE LinksArrive
  BY <1>2 DEF LinksArrive
<1>3. CASE discovery
  <2>1. PICK l \in links : SkipLink(l) \/ TakeLight(l)
    BY <1>3 DEF discovery
  <2>2. CASE SkipLink(l)
    BY <1>3, <2>2 DEF discovery, SkipLink
  <2>3. CASE TakeLight(l)
    <3>1. l \in Links /\ Cut(l.uri) \in 0..(MAX_URI_LENGTH - 1)
      BY ClientAssumption, CutRange
    <3>2. net' \subseteq Messages /\ observing' \in BOOLEAN
      BY <2>3, PlainKinds DEF TakeLight
    <3> QED
      BY <1>3, <2>3, <3>1, <3>2 DEF discovery, TakeLight
  <2> QED
    BY <2>1, <2>2, <2>3
<1>4. CASE stop_observe
  <2>1. net' \subseteq Messages
    BY <1>4, PlainKinds DEF stop_observe
  <2> QED
    BY <1>4, <2>1 DEF stop_observe
<1> QED
  BY <1>1, <1>2, <1>3, <1>4

LEMMA MessageType ==
  ASSUME TypeOK, NEW m \in Messages, Receive(m) \/ Lose(m)
  PROVE  TypeOK'
<1> USE DEF TypeOK, resourceVars, clientVars, Reply
<1>1. CASE observe_light(m)
  <2>1. light_state' \in BOOLEAN /\ observing' \in BOOLEAN
    BY <1>1, MessageShape DEF observe_light
  <2>2. net' \subseteq Messages
    BY <1>1, <2>1, PostKind DEF observe_light
  <2> QED
    BY <1>1, <2>1, <2>2 DEF observe_light
<1>2. CASE NoCallback(m)
  BY <1>2 DEF NoCallback
<1>3. CASE TakeGet(m)
  <2>1. /\ Plain("links") \in Messages /\ Plain("missing") \in Messages
        /\ Message("report", lamp) \in Messages /\ Message("stopped", lamp) \in Messages
    BY PlainKinds, ValueKinds
  <2>2. net' \subseteq Messages
    BY <1>3, <2>1 DEF TakeGet
  <2>3. observer' \in BOOLEAN
    BY <1>3 DEF TakeGet
  <2> QED
    BY <1>3, <2>2, <2>3 DEF TakeGet
<1>4. CASE TakePost(m)
  <2>1. CASE Known
    <3>1. Payload(m.value) \in {Payload(v) : v \in BOOLEAN}
      BY MessageShape
    <3> QED
      BY <1>4, <2>1, <3>1 DEF TakePost, Resource!Request
  <2>2. CASE ~Known
    BY <1>4, <2>2 DEF TakePost
  <2> QED
    BY <2>1, <2>2
<1>5. CASE Lose(m)
  BY <1>5 DEF Lose
<1> QED
  BY <1>1, <1>2, <1>3, <1>4, <1>5 DEF Receive

LEMMA ServerType ==
  ASSUME TypeOK, Answer \/ Notify
  PROVE  TypeOK'
<1> USE DEF TypeOK, resourceVars, clientVars
<1>1. CASE Answer
  BY <1>1 DEF Answer, Resource!Answer, Resource!LastBool
<1>2. CASE Notify
  BY <1>2, ValueKinds DEF Notify
<1> QED
  BY <1>1, <1>2

LEMMA NextType == TypeOK /\ [Next]_vars => TypeOK'
<1>1. TypeOK /\ UNCHANGED vars => TypeOK'
  BY DEF TypeOK, vars, clientVars, resourceVars
<1> QED
  BY <1>1, ClientTaskType, MessageType, ServerType DEF Next

\* The state keeps its shape: whatever the server lists, the URI the client keeps
\* leaves room for its terminator in light_1[MAX_URI_LENGTH] (discovery).
THEOREM ClientTypeCorrect == Spec => []TypeOK
  BY InitType, NextType, PTL DEF Spec

-----------------------------------------------------------------------------
(* The discovery is never doubled, so the client chooses a light once. *)

Phase == Discovering \/ Discovered

LEMMA DiscoveringStep ==
  ASSUME TypeOK, Discovering, [Next]_vars
  PROVE  Phase'
<1> USE DEF Discovering, Undiscovered
<1>0. ASSUME NEW m \in Messages, m \in net
      PROVE  m.type \in {"discover", "links"} /\ m = Plain(m.type) /\ net = {m}
  BY <1>0, PlainKinds
<1>1. CASE issue_requests
  BY <1>1 DEF issue_requests, oc_send_discovery_request, oc_send_buffer, Phase, resourceVars
<1>2. CASE LinksArrive
  BY <1>2 DEF LinksArrive, Phase, resourceVars
<1>3. CASE discovery
  <2>1. PICK l \in links : SkipLink(l) \/ TakeLight(l)
    BY <1>3 DEF discovery
  <2>2. CASE SkipLink(l)
    BY <1>3, <2>1, <2>2 DEF discovery, SkipLink, Phase, resourceVars
  <2>3. CASE TakeLight(l)
    <3>1. net = {} /\ main # "start" /\ l \in Links
      BY <2>1, PlainKinds
    <3>2. net' \subseteq {Plain("observe")}
      BY <2>3, <3>1 DEF TakeLight, oc_send_buffer
    <3>3. ~UnderWay({"discover", "links"})'
      BY <3>2, PlainKinds DEF UnderWay
    <3> QED
      BY <2>3, <3>1, <3>3 DEF TakeLight, Phase, Discovered
  <2> QED
    BY <2>1, <2>2, <2>3
<1>4. CASE stop_observe \/ Answer \/ Notify
  BY <1>4 DEF stop_observe, Answer, Resource!Answer, Notify
<1>5. ASSUME NEW m \in Messages, Receive(m)
      PROVE  Phase'
  <2>1. m \in net
    BY <1>5 DEF Receive, observe_light, NoCallback, TakeGet, TakePost
  <2>2. TakeGet(m) /\ m.type = "discover"
    BY <1>0, <1>5, <2>1 DEF Receive, observe_light, NoCallback, TakeGet, TakePost
  <2>3. net' = {Plain("links")}
    BY <1>0, <2>1, <2>2 DEF TakeGet, Reply
  <2>4. main # "start" /\ links = {}
    BY <2>1
  <2> QED
    BY <2>2, <2>3, <2>4 DEF TakeGet, Phase, clientVars, resourceVars
<1>6. ASSUME NEW m \in Messages, Lose(m)
      PROVE  Phase'
  <2>1. net' = {} /\ main # "start"
    BY <1>0, <1>6 DEF Lose
  <2> QED
    BY <1>6, <2>1 DEF Lose, Phase, clientVars, resourceVars
<1>7. CASE UNCHANGED vars
  BY <1>7 DEF vars, clientVars, resourceVars, Phase
<1> QED
  BY <1>1, <1>2, <1>3, <1>4, <1>5, <1>6, <1>7 DEF Next

LEMMA DiscoveredStep ==
  ASSUME TypeOK, Discovered, [Next]_vars
  PROVE  Discovered'
<1> USE DEF Discovered, UnderWay, resourceVars, clientVars
<1>0. \A v \in BOOLEAN : /\ Message("report", v).type = "report"
                         /\ Message("stopped", v).type = "stopped"
                         /\ Post(v).type = "post"
  BY ValueKinds, PostKind
<1>1. CASE issue_requests
  BY <1>1 DEF issue_requests
<1>2. CASE LinksArrive
  BY <1>2, PlainKinds DEF LinksArrive
<1>3. CASE discovery
  BY <1>3 DEF discovery
<1>4. CASE stop_observe
  BY <1>4, PlainKinds DEF stop_observe, oc_send_buffer
<1>5. CASE Answer
  BY <1>5 DEF Answer
<1>6. CASE Notify
  <2>1. lamp \in BOOLEAN
    BY DEF TypeOK
  <2> QED
    BY <1>0, <1>6, <2>1 DEF Notify
<1>7. ASSUME NEW m \in Messages, Receive(m)
      PROVE  Discovered'
  <2>1. CASE observe_light(m)
    <3>1. light_state' \in BOOLEAN
      BY <2>1, MessageShape DEF observe_light, TypeOK
    <3> QED
      BY <1>0, <2>1, <3>1 DEF observe_light
  <2>2. CASE NoCallback(m)
    BY <2>2 DEF NoCallback
  <2>3. CASE TakeGet(m)
    <3>1. lamp \in BOOLEAN /\ m.type # "discover"
      BY <2>3 DEF TypeOK, TakeGet
    <3>2. \E answer \in {Message("report", lamp), Message("stopped", lamp), Plain("missing")} :
            Reply(m, answer)
      BY <2>3, <3>1 DEF TakeGet
    <3>3. ~UnderWay({"discover", "links"})'
      BY <1>0, <3>1, <3>2, PlainKinds DEF Reply
    <3> QED
      BY <2>3, <3>3 DEF TakeGet
  <2>4. CASE TakePost(m)
    BY <2>4 DEF TakePost
  <2> QED
    BY <1>7, <2>1, <2>2, <2>3, <2>4 DEF Receive
<1>8. ASSUME NEW m \in Messages, Lose(m)
      PROVE  Discovered'
  BY <1>8 DEF Lose
<1>9. CASE UNCHANGED vars
  BY <1>9 DEF vars
<1> QED
  BY <1>1, <1>2, <1>3, <1>4, <1>5, <1>6, <1>7, <1>8, <1>9 DEF Next

LEMMA InitPhase == Init => Phase
  BY DEF Init, Phase, Discovering, Undiscovered, Resource!Init

LEMMA NextPhase == TypeOK /\ Phase /\ [Next]_vars => Phase'
  BY DiscoveringStep, DiscoveredStep DEF Phase

-----------------------------------------------------------------------------
(* What the client keeps of the light decides the rest. *)

\* A light is chosen before anything else is under way.
LEMMA Choice ==
  ASSUME Phase, NEW l \in links, TakeLight(l)
  PROVE  Undiscovered /\ net = {}
<1>1. Discovering
  BY DEF Phase, Discovered
<1> QED
  BY <1>1, PlainKinds DEF Discovering

\* A step that chooses no light leaves what is known of it.
LEMMA KnownKept ==
  ASSUME [Next]_vars, ~(\E l \in links : TakeLight(l))
  PROVE  light_server' = light_server /\ light_1' = light_1
<1>1. ASSUME discovery PROVE light_server' = light_server /\ light_1' = light_1
  BY <1>1 DEF discovery, SkipLink
<1>2. ASSUME NEW m \in Messages, Receive(m) \/ Lose(m)
      PROVE  light_server' = light_server /\ light_1' = light_1
  BY <1>2 DEF Receive, Lose, observe_light, NoCallback, TakeGet, TakePost, clientVars
<1>3. ASSUME issue_requests \/ LinksArrive \/ stop_observe \/ Answer \/ Notify
      PROVE  light_server' = light_server /\ light_1' = light_1
  BY <1>3 DEF issue_requests, LinksArrive, stop_observe, Answer, Notify, clientVars
<1> QED
  BY <1>1, <1>2, <1>3 DEF Next, vars, clientVars

LEMMA CutStep ==
  ASSUME TypeOK, Phase, CutLightUntouched, [Next]_vars
  PROVE  CutLightUntouched'
<1> USE DEF CutLightUntouched, UnderWay, Known, resourceVars, clientVars
<1>1. CASE \E l \in links : TakeLight(l)
  <2>1. PICK l \in links : TakeLight(l)
    BY <1>1
  <2>2. Undiscovered /\ net = {}
    BY <2>1, Choice
  <2>3. net' \subseteq {Plain("observe")}
    BY <2>1, <2>2 DEF TakeLight, oc_send_buffer
  <2>4. discovery
    <3>1. net' \subseteq {Plain("observe")} /\ light_server' = l /\ stop' = "armed"
             /\ stop = "unset" /\ links # {}
      BY <2>1, <2>2, <2>3 DEF TakeLight, Undiscovered
    <3>2. ~issue_requests /\ ~LinksArrive /\ ~stop_observe /\ ~Answer /\ ~Notify
      BY <3>1 DEF issue_requests, LinksArrive, stop_observe, Answer, Notify
    <3>3. ASSUME NEW m \in Messages PROVE ~Receive(m) /\ ~Lose(m)
      BY <3>1 DEF Receive, Lose, observe_light, NoCallback, TakeGet, TakePost
    <3> QED
      BY <3>1, <3>2, <3>3 DEF Next, vars
  <2>5. observer' = observer /\ busy' = busy /\ lamp' = lamp
    BY <2>4 DEF discovery
  <2> QED
    BY <2>2, <2>3, <2>5, PlainKinds DEF Undiscovered
<1>2. CASE ~(\E l \in links : TakeLight(l))
  <2>0. light_server' = light_server /\ light_1' = light_1
    BY <1>2, KnownKept
  <2> SUFFICES ASSUME ~Known
               PROVE  ~observer' /\ ~UnderWay({"report", "stopped"})' /\ ~busy' /\ ~lamp'
    BY <2>0
  <2>1. ~observer /\ ~UnderWay({"report", "stopped"}) /\ ~busy /\ ~lamp
    OBVIOUS
  <2>2. CASE issue_requests \/ LinksArrive \/ stop_observe
    BY <2>1, <2>2, PlainKinds DEF issue_requests, oc_send_discovery_request, oc_send_buffer,
                                  LinksArrive, stop_observe
  <2>3. CASE discovery
    <3>1. PICK l \in links : SkipLink(l)
      BY <1>2, <2>3 DEF discovery
    <3> QED
      BY <2>1, <2>3, <3>1 DEF discovery, SkipLink
  <2>4. CASE Answer \/ Notify
    BY <2>1, <2>4 DEF Answer, Resource!Answer, Notify
  <2>5. ASSUME NEW m \in Messages, Receive(m)
        PROVE  ~observer' /\ ~UnderWay({"report", "stopped"})' /\ ~busy' /\ ~lamp'
    <3>1. CASE observe_light(m)
      <4>1. light_state' \in BOOLEAN
        BY <3>1, MessageShape DEF observe_light, TypeOK
      <4> QED
        BY <2>1, <3>1, <4>1, PostKind DEF observe_light
    <3>2. CASE NoCallback(m)
      BY <2>1, <3>2 DEF NoCallback
    <3>3. CASE TakeGet(m)
      <4>1. \E answer \in {Plain("links"), Plain("missing")} : Reply(m, answer)
        BY <3>3 DEF TakeGet
      <4>2. observer' = observer /\ busy' = busy /\ lamp' = lamp
        BY <3>3 DEF TakeGet
      <4> QED
        BY <2>1, <4>1, <4>2, PlainKinds DEF Reply
    <3>4. CASE TakePost(m)
      BY <2>1, <3>4 DEF TakePost
    <3> QED
      BY <2>5, <3>1, <3>2, <3>3, <3>4 DEF Receive
  <2>6. ASSUME NEW m \in Messages, Lose(m)
        PROVE  ~observer' /\ ~UnderWay({"report", "stopped"})' /\ ~busy' /\ ~lamp'
    BY <2>1, <2>6 DEF Lose
  <2>7. CASE UNCHANGED vars
    BY <2>1, <2>7 DEF vars
  <2> QED
    BY <2>2, <2>3, <2>4, <2>5, <2>6, <2>7 DEF Next
<1> QED
  BY <1>1, <1>2

\* Nothing the server or the network does gives up the stop, but its loss or the
\* client's callback being released.
LEMMA StopStep ==
  ASSUME TypeOK, StopUnderWay, [Next]_vars
  PROVE  StopUnderWay'
<1> USE DEF StopUnderWay, UnderWay, Known, resourceVars, clientVars
<1>0. Plain("stop").type = "stop" /\ \A v \in BOOLEAN : Message("stopped", v).type = "stopped"
  BY PlainKinds, ValueKinds
<1>1. CASE \E l \in links : TakeLight(l)
  BY <1>1 DEF TakeLight
<1>2. CASE ~(\E l \in links : TakeLight(l))
  <2>0. light_server' = light_server /\ light_1' = light_1
    BY <1>2, KnownKept
  <2>1. CASE issue_requests \/ LinksArrive
    BY <2>0, <2>1, PlainKinds DEF issue_requests, oc_send_discovery_request, oc_send_buffer,
                                  LinksArrive
  <2>2. CASE discovery
    <3>1. PICK l \in links : SkipLink(l)
      BY <1>2, <2>2 DEF discovery
    <3> QED
      BY <2>0, <2>2, <3>1 DEF discovery, SkipLink
  <2>3. CASE stop_observe
    BY <1>0, <2>0, <2>3 DEF stop_observe, oc_send_buffer
  <2>4. CASE Answer \/ Notify
    BY <2>0, <2>4 DEF Answer, Notify
  <2>5. ASSUME NEW m \in Messages, Receive(m)
        PROVE  StopUnderWay'
    <3>1. CASE observe_light(m)
      BY <2>0, <3>1 DEF observe_light
    <3>2. CASE NoCallback(m)
      BY <2>0, <3>2 DEF NoCallback
    <3>3. CASE TakeGet(m)
      <4>1. CASE m.type = "stop" /\ Known
        BY <1>0, <2>0, <3>3, <4>1 DEF TakeGet, Reply, TypeOK
      <4>2. CASE m.type # "stop" \/ ~Known
        <5>1. \E answer : Reply(m, answer)
          BY <3>3 DEF TakeGet
        <5> QED
          BY <2>0, <3>3, <4>2, <5>1 DEF TakeGet, Reply
      <4> QED
        BY <4>1, <4>2
    <3>4. CASE TakePost(m)
      BY <2>0, <3>4 DEF TakePost
    <3> QED
      BY <2>5, <3>1, <3>2, <3>3, <3>4 DEF Receive
  <2>6. ASSUME NEW m \in Messages, Lose(m)
        PROVE  StopUnderWay'
    BY <2>0, <2>6 DEF Lose
  <2>7. CASE UNCHANGED vars
    BY <2>7 DEF vars
  <2> QED
    BY <2>1, <2>2, <2>3, <2>4, <2>5, <2>6, <2>7 DEF Next
<1> QED
  BY <1>1, <1>2

\* A light whose URI was cut is left alone for ever: no state of it is reported to the
\* client and none of the client's posts switches it (discovery, client_freertos.c:138-146).
THEOREM CutLightStaysUntouched == Spec => []CutLightUntouched
<1>1. Init => CutLightUntouched
  BY DEF Init, CutLightUntouched, Known, NoLink
<1>2. TypeOK /\ Phase /\ CutLightUntouched /\ [Next]_vars => CutLightUntouched'
  BY CutStep
<1> QED
  BY <1>1, <1>2, InitPhase, NextPhase, ClientTypeCorrect, PTL DEF Spec

\* The safety half of the light's coming to rest: after the callback, what keeps the
\* client answering is a stop under way, whatever is lost, late or out of order.
THEOREM StopNotForgotten == Spec => []StopUnderWay
<1>1. Init => StopUnderWay
  BY DEF Init, StopUnderWay
<1>2. TypeOK /\ StopUnderWay /\ [Next]_vars => StopUnderWay'
  BY StopStep
<1> QED
  BY <1>1, <1>2, ClientTypeCorrect, PTL DEF Spec
=============================================================================
