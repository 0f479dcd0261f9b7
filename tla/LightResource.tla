---------------------------- MODULE LightResource ----------------------------
(***************************************************************************)
(* What the light resource of main/esp32_server/server_freertos.c promises  *)
(* its clients: requests are worked off one at a time, each is answered in  *)
(* the end, and what a GET or a notification reports is the last boolean of *)
(* the last request accepted as a whole (FALSE if that had none).           *)
(***************************************************************************)
EXTENDS Sequences, Integers

CONSTANT Payloads  \* request payloads: sequences of <<type, value>>

VARIABLES
  busy,        \* a POST or PUT is being worked off
  request,     \* its payload
  light_state

vars == <<busy, request, light_state>>

Accepted(p) == \A k \in DOMAIN p : p[k][1] \in {"BOOL", "INT"}

LastBool(p) ==
  \E k \in DOMAIN p :
    /\ p[k] = <<"BOOL", 1>>
    /\ \A j \in (k + 1)..Len(p) : p[j][1] # "BOOL"

Init == busy = FALSE /\ request = <<>> /\ light_state = FALSE

Request(p) ==
  /\ ~busy /\ busy' = TRUE
  /\ request' = p
  /\ UNCHANGED light_state

\* CHANGED, or BAD_REQUEST: of a refused request nothing stays.
Answer ==
  /\ busy /\ busy' = FALSE
  /\ light_state' = IF Accepted(request) THEN LastBool(request) ELSE light_state
  /\ UNCHANGED request

Next == (\E p \in Payloads : Request(p)) \/ Answer

Spec == Init /\ [][Next]_vars /\ WF_vars(Answer)
=============================================================================
