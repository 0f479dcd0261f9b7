-------------------------------- MODULE Wifi --------------------------------
(***************************************************************************)
(* How main/esp32_server/server_freertos.c (and the client) gets on the     *)
(* network: event_handler, run by the system's event task, and the head of  *)
(* server_main, which waits for the addresses and then fetches them.        *)
(*                                                                          *)
(* External, as the source relies on it: the Wi-Fi driver and the TCP/IP    *)
(* adapter post system events to one queue; before it calls event_handler   *)
(* the event task runs the adapter's own handler, which takes the interface *)
(* up on STA_CONNECTED and drops both addresses on STA_DISCONNECTED.  The   *)
(* build is the default one: IPv6, no OC_IPV4.                              *)
(***************************************************************************)
EXTENDS Sequences, Integers

CONSTANT QueueSize  \* of the model: system events waiting

ASSUME WifiAssumption == QueueSize \in Nat \ {0}

VARIABLES
  link,     \* "down", "joining" or "up"
  netif,    \* the adapter takes the interface to be up
  address,  \* the addresses it holds, a subset of {4, 6}
  probing,  \* the link-local address has been created and is being probed
  queue,    \* system events not yet handled
  handler,  \* what event_handler has left to call
  bits,     \* wifi_event_group, a subset of {4, 6}
  main,     \* where the main task is
  lost      \* history: the link was lost or could not be had

driverVars  == <<link, netif, address, probing, queue, lost>>
vars == <<driverVars, handler, bits, main>>

\* initialise_wifi ends with esp_wifi_start, which posts STA_START.
Init ==
  /\ link = "down" /\ netif = FALSE /\ address = {} /\ probing = FALSE
  /\ queue = <<"STA_START">>
  /\ handler = <<>>
  /\ bits = {}
  /\ main = "wait"
  /\ lost = FALSE

-----------------------------------------------------------------------------
(* The driver and the adapter. *)

PostEvent(event) ==
  /\ Len(queue) < QueueSize
  /\ queue' = Append(queue, event)

Associate ==
  /\ link = "joining" /\ link' = "up"
  /\ PostEvent("STA_CONNECTED")
  /\ UNCHANGED <<netif, address, probing, lost, handler, bits, main>>

\* The access point goes away, or cannot be joined.
LinkLost ==
  /\ link # "down" /\ link' = "down"
  /\ PostEvent("STA_DISCONNECTED")
  /\ lost' = TRUE
  /\ UNCHANGED <<netif, address, probing, handler, bits, main>>

\* The adapter may yet learn of the lost link.
GotIp4 ==
  /\ netif /\ 4 \notin address
  /\ address' = address \cup {4}
  /\ PostEvent("STA_GOT_IP")
  /\ UNCHANGED <<link, netif, probing, lost, handler, bits, main>>

GotIp6 ==
  /\ probing /\ probing' = FALSE
  /\ address' = address \cup {6}
  /\ PostEvent("AP_STA_GOT_IP6")
  /\ UNCHANGED <<link, netif, lost, handler, bits, main>>

-----------------------------------------------------------------------------
(* The event task. *)

LinklocalAtStart(event) ==  \* mutant: the address is created before the connection
  CASE event = "STA_START"        -> <<"connect", "create_ip6_linklocal">>
    [] event = "STA_CONNECTED"    -> <<>>
    [] event = "STA_DISCONNECTED" -> <<"connect", "clear4", "clear6">>
    [] event = "STA_GOT_IP"       -> <<"set4">>
    [] event = "AP_STA_GOT_IP6"   -> <<"set6">>

NoReconnect(event) ==  \* mutant: the handler leaves reassociating to the driver
  CASE event = "STA_START"        -> <<"connect">>
    [] event = "STA_CONNECTED"    -> <<"create_ip6_linklocal">>
    [] event = "STA_DISCONNECTED" -> <<"clear4", "clear6">>
    [] event = "STA_GOT_IP"       -> <<"set4">>
    [] event = "AP_STA_GOT_IP6"   -> <<"set6">>

\* The calls event_handler makes, in their order.
event_handler(event) ==
  CASE event = "STA_START"        -> <<"connect">>
    [] event = "STA_CONNECTED"    -> <<"create_ip6_linklocal">>
    [] event = "STA_DISCONNECTED" -> <<"connect", "clear4", "clear6">>
    [] event = "STA_GOT_IP"       -> <<"set4">>
    [] event = "AP_STA_GOT_IP6"   -> <<"set6">>

Dispatch ==
  /\ handler = <<>> /\ queue # <<>>
  /\ LET event == Head(queue)
     IN /\ handler' = event_handler(event)
        /\ netif' = IF event = "STA_CONNECTED" THEN TRUE
                    ELSE netif /\ event # "STA_DISCONNECTED"
        /\ IF event = "STA_DISCONNECTED"
           THEN address' = {} /\ probing' = FALSE
           ELSE UNCHANGED <<address, probing>>
  /\ queue' = Tail(queue)
  /\ UNCHANGED <<link, lost, bits, main>>

Calls(call) == handler # <<>> /\ Head(handler) = call /\ handler' = Tail(handler)

esp_wifi_connect ==
  /\ Calls("connect")
  /\ link' = IF link = "down" THEN "joining" ELSE link
  /\ UNCHANGED <<netif, address, probing, queue, lost, bits, main>>

CreateIp6Linklocal ==
  /\ Calls("create_ip6_linklocal")
  /\ probing' = TRUE
  /\ UNCHANGED <<link, netif, address, queue, lost, bits, main>>

SetBits ==
  /\ \/ Calls("set4") /\ bits' = bits \cup {4}
     \/ Calls("set6") /\ bits' = bits \cup {6}
  /\ UNCHANGED <<driverVars, main>>

ClearBits ==
  /\ \/ Calls("clear4") /\ bits' = bits \ {4}
     \/ Calls("clear6") /\ bits' = bits \ {6}
  /\ UNCHANGED <<driverVars, main>>

EventTask == Dispatch \/ esp_wifi_connect \/ CreateIp6Linklocal \/ SetBits \/ ClearBits

-----------------------------------------------------------------------------
(* The main task. *)

WaitAnyBit ==  \* mutant: xWaitForAllBits is false
  /\ bits # {}
  /\ main = "wait" /\ main' = "fetch"
  /\ UNCHANGED <<driverVars, handler, bits>>

xEventGroupWaitBits ==
  /\ bits = {4, 6}
  /\ main = "wait" /\ main' = "fetch"
  /\ UNCHANGED <<driverVars, handler, bits>>

\* A missing address ends in print_error, which never returns; asking for the
\* IPv4 address does not fail for want of one.
Fetch ==
  /\ main = "fetch"
  /\ main' = IF 6 \in address THEN "running" ELSE "print_error"
  /\ UNCHANGED <<driverVars, handler, bits>>

MainTask == xEventGroupWaitBits \/ Fetch

-----------------------------------------------------------------------------

Next == Associate \/ LinkLost \/ GotIp4 \/ GotIp6 \/ EventTask \/ MainTask

\* Tasks are scheduled (a task blocked on the event group is made ready by the
\* bits, hence the strong fairness), and what the driver and the adapter are asked
\* for they do, unless the link is lost.
Fairness ==
  /\ WF_vars(EventTask) /\ SF_vars(xEventGroupWaitBits) /\ WF_vars(Fetch)
  /\ WF_vars(Associate) /\ WF_vars(GotIp4) /\ WF_vars(GotIp6)

Spec == Init /\ [][Next]_vars /\ Fairness

-----------------------------------------------------------------------------
(* Properties. *)

\* The shape of the state; the adapter probes and holds addresses only while it
\* takes the interface to be up.
TypeOK ==
  /\ link \in {"down", "joining", "up"}
  /\ netif \in BOOLEAN /\ probing \in BOOLEAN /\ lost \in BOOLEAN
  /\ address \subseteq {4, 6} /\ bits \subseteq {4, 6}
  /\ queue \in Seq({"STA_START", "STA_CONNECTED", "STA_DISCONNECTED",
                    "STA_GOT_IP", "AP_STA_GOT_IP6"})
  /\ Len(queue) <= QueueSize
  /\ handler \in Seq({"connect", "create_ip6_linklocal", "set4", "set6", "clear4", "clear6"})
  /\ main \in {"wait", "fetch", "running", "print_error"}
  /\ (probing \/ address # {}) => netif

\* "wait to fetch IPv4 && ipv6 address" (server_freertos.c:225): after the wait the
\* addresses are there to be fetched.
AddressesAreThere == main # "print_error"

\* As long as the link is never lost they are: the two bits, set by two events
\* that may come in either order, are waited for together.
AddressesThereUnlessLost == ~lost => main # "print_error"

\* The main task gets past the wait, however often the link was lost before,
\* unless it is lost for ever again (the "workaround" of the disconnected case).
GetsPastTheWait == []<><<LinkLost>>_vars \/ <>(main # "wait")
=============================================================================
