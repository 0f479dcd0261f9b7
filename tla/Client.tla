------------------------------- MODULE Client -------------------------------
(***************************************************************************)
(* The client of main/esp32_client/client_freertos.c against a light        *)
(* server: it discovers a light, observes it, and answers every report with *)
(* a post of the opposite state, until a delayed callback stops the         *)
(* observation.  All requests are LOW_QOS: a datagram may be lost or        *)
(* overtaken, and nothing is sent twice.                                    *)
(*                                                                          *)
(* The server's resource is module LightResource, which LightServer          *)
(* implements.  External, as the client uses it: the stack keeps the         *)
(* observation's callback until a response without an observation comes (an *)
(* error, or the answer to oc_stop_observe) and passes it that response     *)
(* too; the server's stack reports a periodically observable resource again *)
(* and again while its main task is not in a handler.                       *)
(***************************************************************************)
EXTENDS Integers, Sequences

CONSTANTS
  Links,           \* what the server's /oic/res lists: [uri: its length, light: its type]
  MAX_URI_LENGTH

ASSUME ClientAssumption ==
  /\ Links \subseteq [uri: Nat, light: BOOLEAN]
  /\ MAX_URI_LENGTH \in Nat \ {0}

VARIABLES
  main,          \* where the client's main task is
  links,         \* links of the discovery response not yet looked at
  light_server,  \* the link discovery has chosen, if any
  light_1,       \* how much of its URI is kept
  light_state,   \* the client's copy
  observing,     \* the client's stack holds the callback observe_light
  stop,          \* the delayed callback stop_observe: "unset", "armed", "fired"
  net,           \* messages under way
  observer,      \* the server's stack has the client as an observer
  busy, request, lamp,  \* the resource; lamp is the server's light_state
  unstopped      \* history: the stop or its answer was lost

clientVars   == <<main, links, light_server, light_1, light_state, observing, stop>>
resourceVars == <<busy, request, lamp>>
vars == <<clientVars, net, observer, resourceVars, unstopped>>

NoLink == [uri |-> 0, light |-> FALSE]

Message(type, value) == [type |-> type, value |-> value]
Plain(type) == Message(type, FALSE)
Post(value) == Message("post", value)

Messages ==
  {Plain("discover"), Plain("links"), Plain("observe"), Plain("stop"), Plain("missing")}
    \cup [type: {"report", "stopped", "post"}, value: BOOLEAN]

Bit(b) == IF b THEN 1 ELSE 0

\* The boolean and the four colours of observe_light's post.
Payload(value) ==
  << <<"BOOL", Bit(value)>>, <<"INT", 1>>, <<"INT", 2>>, <<"INT", 3>>, <<"INT", 4>> >>

Resource == INSTANCE LightResource
  WITH Payloads <- {Payload(v) : v \in BOOLEAN}, light_state <- lamp

Init ==
  /\ main = "start"
  /\ links = {} /\ light_server = NoLink /\ light_1 = 0 /\ light_state = FALSE
  /\ observing = FALSE /\ stop = "unset"
  /\ net = {} /\ observer = FALSE /\ unstopped = FALSE
  /\ Resource!Init

-----------------------------------------------------------------------------
(* The client. *)

\* An error of sendto is only logged: to the callers, a message that never left
\* is one lost on the way (Lose).
oc_send_buffer(m) == net' = net \cup {m}

\* Without an address or a multicast interface, print_error never returns.
oc_send_discovery_request ==
  \/ main' = "polling" /\ oc_send_buffer(Plain("discover"))
  \/ main' = "print_error" /\ UNCHANGED net

issue_requests ==
  /\ main = "start"
  /\ oc_send_discovery_request
  /\ UNCHANGED <<links, light_server, light_1, light_state, observing, stop,
                 observer, resourceVars, unstopped>>

\* The discovery response is there for the stack to walk.
LinksArrive ==
  /\ Plain("links") \in net
  /\ net' = net \ {Plain("links")}
  /\ links' = Links
  /\ UNCHANGED <<main, light_server, light_1, light_state, observing, stop,
                 observer, resourceVars, unstopped>>

CutLate(uri) ==  \* mutant: `uri_len > MAX_URI_LENGTH', no room for the terminator
  IF uri > MAX_URI_LENGTH THEN MAX_URI_LENGTH - 1 ELSE uri

\* light_1 holds MAX_URI_LENGTH characters and the last is the terminator.
Cut(uri) == IF uri >= MAX_URI_LENGTH THEN MAX_URI_LENGTH - 1 ELSE uri

\* OC_CONTINUE_DISCOVERY
SkipLink(l) ==
  /\ ~l.light
  /\ links' = links \ {l}
  /\ UNCHANGED <<main, light_server, light_1, light_state, observing, stop, net>>

\* OC_STOP_DISCOVERY: the first light is taken.  The callback is armed whether or
\* not oc_do_observe had the memory for the observation.
TakeLight(l) ==
  /\ l.light
  /\ links' = {}
  /\ light_server' = l /\ light_1' = Cut(l.uri)
  /\ \/ observing' = TRUE /\ oc_send_buffer(Plain("observe"))
     \/ UNCHANGED <<observing, net>>
  /\ stop' = "armed"
  /\ UNCHANGED <<main, light_state>>

discovery ==
  /\ \E l \in links : SkipLink(l) \/ TakeLight(l)
  /\ UNCHANGED <<observer, resourceVars, unstopped>>

EchoState(m) ==  \* mutant: the state is posted back as it came
  /\ m.type \in {"report", "stopped", "missing"} /\ m \in net /\ observing
  /\ light_state' = IF m.type = "missing" THEN light_state ELSE m.value
  /\ net' = (net \ {m}) \cup {Post(light_state')}
  /\ observing' = (m.type = "report")
  /\ UNCHANGED <<main, links, light_server, light_1, stop, observer, resourceVars, unstopped>>

\* The callback does not look at the response's code: an error, which has no
\* payload, makes it post as well.  A post the stack refuses is one lost (Lose).
observe_light(m) ==
  /\ m.type \in {"report", "stopped", "missing"} /\ m \in net /\ observing
  /\ light_state' = IF m.type = "missing" THEN light_state ELSE m.value
  /\ net' = (net \ {m}) \cup {Post(~light_state')}
  /\ observing' = (m.type = "report")
  /\ UNCHANGED <<main, links, light_server, light_1, stop, observer, resourceVars, unstopped>>

\* A response nobody waits for any more is dropped by the stack.
NoCallback(m) ==
  /\ m.type \in {"report", "stopped", "missing"} /\ m \in net /\ ~observing
  /\ net' = net \ {m}
  /\ UNCHANGED <<clientVars, observer, resourceVars, unstopped>>

StopNotSent ==  \* mutant: the callback does not call oc_stop_observe
  /\ stop = "armed" /\ stop' = "fired"
  /\ UNCHANGED <<main, links, light_server, light_1, light_state, observing, net,
                 observer, resourceVars, unstopped>>

stop_observe ==
  /\ stop = "armed" /\ stop' = "fired"
  /\ IF observing THEN oc_send_buffer(Plain("stop")) ELSE UNCHANGED net
  /\ UNCHANGED <<main, links, light_server, light_1, light_state, observing,
                 observer, resourceVars, unstopped>>

-----------------------------------------------------------------------------
(* The server, and the network between the two. *)

Reply(m, answer) == net' = (net \ {m}) \cup {answer}

\* The URI the client kept is that of the server's light.
Known == light_1 = light_server.uri

TakeGet(m) ==
  /\ ~busy /\ m \in net
  /\ \/ m.type = "discover" /\ Reply(m, Plain("links")) /\ UNCHANGED observer
     \/ /\ m.type = "observe" /\ Known
        /\ observer' = TRUE /\ Reply(m, Message("report", lamp))
     \/ /\ m.type = "stop" /\ Known
        /\ observer' = FALSE /\ Reply(m, Message("stopped", lamp))
     \/ /\ m.type \in {"observe", "stop"} /\ ~Known
        /\ Reply(m, Plain("missing")) /\ UNCHANGED observer
  /\ UNCHANGED <<clientVars, resourceVars, unstopped>>

\* The answer to a post is only printed by the client (post_light) and left out.
TakePost(m) ==
  /\ m.type = "post" /\ m \in net /\ ~busy
  /\ net' = net \ {m}
  /\ IF Known THEN Resource!Request(Payload(m.value)) ELSE UNCHANGED resourceVars
  /\ UNCHANGED <<clientVars, observer, unstopped>>

Answer ==
  /\ Resource!Answer
  /\ UNCHANGED <<clientVars, net, observer, unstopped>>

Notify ==
  /\ observer /\ ~busy
  /\ net' = net \cup {Message("report", lamp)}
  /\ UNCHANGED <<clientVars, observer, resourceVars, unstopped>>

Lose(m) ==
  /\ m \in net
  /\ net' = net \ {m}
  /\ unstopped' = (unstopped \/ m.type \in {"stop", "stopped"})
  /\ UNCHANGED <<clientVars, observer, resourceVars>>

Receive(m) == observe_light(m) \/ NoCallback(m) \/ TakeGet(m) \/ TakePost(m)

-----------------------------------------------------------------------------

Next ==
  \/ issue_requests \/ LinksArrive \/ discovery \/ stop_observe
  \/ Answer \/ Notify
  \/ \E m \in Messages : Receive(m) \/ Lose(m)

\* Both main tasks run, and a message sent again and again gets through.  Whether
\* and when the delayed callback fires is left open: no time is modelled.
Spec ==
  /\ Init /\ [][Next]_vars
  /\ WF_vars(Answer) /\ WF_vars(Notify)
  /\ \A m \in Messages : SF_vars(Receive(m))

-----------------------------------------------------------------------------
(* Properties. *)

\* The shape of the state; the kept URI leaves room for its terminator.
TypeOK ==
  /\ main \in {"start", "polling", "print_error"}
  /\ links \subseteq Links /\ light_server \in Links \cup {NoLink}
  /\ light_1 \in 0..(MAX_URI_LENGTH - 1)
  /\ light_state \in BOOLEAN /\ observing \in BOOLEAN
  /\ stop \in {"unset", "armed", "fired"}
  /\ net \subseteq Messages /\ observer \in BOOLEAN /\ unstopped \in BOOLEAN
  /\ busy \in BOOLEAN /\ lamp \in BOOLEAN
  /\ request \in {<<>>} \cup {Payload(v) : v \in BOOLEAN}

UnderWay(types) == \E m \in net : m.type \in types

\* Once the callback has fired, the client goes on answering reports only as long as
\* its stop or the answer to it is under way, or one of them was lost: no order of
\* reports, posts and the registration itself leaves an observation nobody will end
\* (stop_observe and oc_stop_observe, client_freertos.c:64-71).
StopUnderWay ==
  stop = "fired" /\ observing /\ Known /\ ~unstopped => UnderWay({"stop", "stopped"})

Observed == observing /\ observer /\ stop # "fired"

\* As long as the observation lasts on both sides, the light goes on and off for
\* ever, though any notification or post may be lost, late or out of order: the
\* next notification repeats the one that was lost (observe_light posts the opposite
\* of every report, and the server takes what it posts).
Toggles ==
  \A v \in BOOLEAN : (lamp = v /\ Observed) ~> (lamp # v \/ ~Observed)

\* Once the callback has fired the light comes to rest, whatever was still under way,
\* the registration itself included, unless the stop or its answer was lost:
\* stop_observe tries once (OC_EVENT_DONE, client_freertos.c:69-70).
ComesToRest ==
  <>(stop = "fired") /\ []~unstopped => <>[](lamp = TRUE) \/ <>[](lamp = FALSE)
=============================================================================
