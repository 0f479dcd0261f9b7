----------------------------- MODULE Wifi_proofs -----------------------------
(***************************************************************************)
(* Proofs about module Wifi, for any length of the event queue: its type    *)
(* invariant, and that the main task finds its addresses unless the link    *)
(* was lost.                                                                *)
(***************************************************************************)
EXTENDS Wifi, TLAPS

Events == {"STA_START", "STA_CONNECTED", "STA_DISCONNECTED", "STA_GOT_IP", "AP_STA_GOT_IP6"}

HandlerCalls == {"connect", "create_ip6_linklocal", "set4", "set6", "clear4", "clear6"}

Has(s, x) == \E k \in DOMAIN s : s[k] = x

\* The event task creates the address only on an interface it has taken up.
CreatesOnNetif == Has(handler, "create_ip6_linklocal") => netif

\* Until the link is lost the IPv6 address, once had, stays; and whatever tells the
\* main task of it (event, call, bit) tells of an address that is there.
HeardIsHad ==
  ~lost =>
    /\ ~Has(queue, "STA_DISCONNECTED")
    /\ Has(queue, "AP_STA_GOT_IP6") \/ Has(handler, "set6") \/ 6 \in bits \/ main = "fetch"
         => 6 \in address
    /\ main # "print_error"

IInv == TypeOK /\ CreatesOnNetif /\ HeardIsHad

-----------------------------------------------------------------------------
(* What Append, Head and Tail do to the members of a sequence. *)

LEMMA AppendHas ==
  ASSUME NEW S, NEW s \in Seq(S), NEW e \in S, NEW x, Has(Append(s, e), x), e # x
  PROVE  Has(s, x)
<1>1. PICK k \in DOMAIN Append(s, e) : Append(s, e)[k] = x
  BY DEF Has
<1>2. k \in 1..(Len(s) + 1) /\ Append(s, e)[Len(s) + 1] = e
  OBVIOUS
<1>3. k \in 1..Len(s)
  BY <1>1, <1>2
<1> QED
  BY <1>1, <1>3 DEF Has

LEMMA TailHas ==
  ASSUME NEW S, NEW s \in Seq(S), s # <<>>, NEW x, Has(Tail(s), x)
  PROVE  Has(s, x)
<1>1. PICK k \in DOMAIN Tail(s) : Tail(s)[k] = x
  BY DEF Has
<1>2. k \in 1..(Len(s) - 1) /\ Tail(s)[k] = s[k + 1]
  BY <1>1
<1> QED
  BY <1>1, <1>2 DEF Has

LEMMA HeadHas ==
  ASSUME NEW S, NEW s \in Seq(S), s # <<>>
  PROVE  Has(s, Head(s)) /\ Head(s) \in S /\ Tail(s) \in Seq(S) /\ Len(Tail(s)) = Len(s) - 1
<1>1. 1 \in DOMAIN s /\ Head(s) = s[1]
  OBVIOUS
<1>2. Tail(s) \in Seq(S) /\ Len(Tail(s)) = Len(s) - 1
  OBVIOUS
<1> QED
  BY <1>1, <1>2 DEF Has

-----------------------------------------------------------------------------
(* The invariant. *)

LEMMA InitIInv == Init => IInv
<1> SUFFICES ASSUME Init
             PROVE  IInv
  OBVIOUS
<1>1. queue \in Seq(Events) /\ Len(queue) = 1 /\ queue[1] = "STA_START" /\ DOMAIN queue = {1}
  BY DEF Init, Events
<1>2. Len(queue) <= QueueSize
  BY <1>1, WifiAssumption
<1>3. handler \in Seq(HandlerCalls) /\ DOMAIN handler = {}
  BY DEF Init
<1>4. TypeOK
  BY <1>1, <1>2, <1>3 DEF Init, TypeOK, Events, HandlerCalls
<1>5. CreatesOnNetif
  BY <1>3 DEF CreatesOnNetif, Has
<1>6. HeardIsHad
  <2>1. \A x : ~Has(handler, x) /\ (Has(queue, x) => x = "STA_START")
    BY <1>1, <1>3 DEF Has
  <2> QED
    BY <2>1 DEF Init, HeardIsHad
<1> QED
  BY <1>4, <1>5, <1>6 DEF IInv

\* Queueing an event that does not report the lost link.
LEMMA Posting ==
  ASSUME IInv, NEW event \in Events, PostEvent(event)
  PROVE  /\ queue' \in Seq(Events) /\ Len(queue') <= QueueSize
         /\ \A x \in Events \ {event} : Has(queue', x) => Has(queue, x)
<1>1. queue \in Seq(Events) /\ Len(queue) \in Nat
  BY DEF IInv, TypeOK, Events
<1>2. queue' = Append(queue, event) /\ Len(queue) < QueueSize
  BY DEF PostEvent
<1>3. queue' \in Seq(Events) /\ Len(queue') = Len(queue) + 1
  BY <1>1, <1>2
<1>4. Len(queue') <= QueueSize
  BY ONLY <1>1, <1>2, <1>3, WifiAssumption
<1>5. \A x \in Events \ {event} : Has(queue', x) => Has(queue, x)
  BY <1>1, <1>2, AppendHas
<1> QED
  BY <1>3, <1>4, <1>5

LEMMA DriverIInv ==
  ASSUME IInv, Associate \/ LinkLost \/ GotIp4 \/ GotIp6
  PROVE  IInv'
<1>1. CASE Associate
  <2>1. PostEvent("STA_CONNECTED")
    BY <1>1 DEF Associate
  <2>2. /\ queue' \in Seq(Events) /\ Len(queue') <= QueueSize
        /\ \A x \in Events \ {"STA_CONNECTED"} : Has(queue', x) => Has(queue, x)
    BY <2>1, Posting DEF Events
  <2> QED
    BY <1>1, <2>2 DEF Associate, IInv, TypeOK, CreatesOnNetif, HeardIsHad, Events
<1>2. CASE LinkLost
  <2>1. PostEvent("STA_DISCONNECTED")
    BY <1>2 DEF LinkLost
  <2>2. queue' \in Seq(Events) /\ Len(queue') <= QueueSize
    BY <2>1, Posting DEF Events
  <2> QED
    BY <1>2, <2>2 DEF LinkLost, IInv, TypeOK, CreatesOnNetif, HeardIsHad, Events
<1>3. CASE GotIp4
  <2>1. PostEvent("STA_GOT_IP")
    BY <1>3 DEF GotIp4
  <2>2. /\ queue' \in Seq(Events) /\ Len(queue') <= QueueSize
        /\ \A x \in Events \ {"STA_GOT_IP"} : Has(queue', x) => Has(queue, x)
    BY <2>1, Posting DEF Events
  <2> QED
    BY <1>3, <2>2 DEF GotIp4, IInv, TypeOK, CreatesOnNetif, HeardIsHad, Events
<1>4. CASE GotIp6
  <2>1. PostEvent("AP_STA_GOT_IP6")
    BY <1>4 DEF GotIp6
  <2>2. /\ queue' \in Seq(Events) /\ Len(queue') <= QueueSize
        /\ \A x \in Events \ {"AP_STA_GOT_IP6"} : Has(queue', x) => Has(queue, x)
    BY <2>1, Posting DEF Events
  <2> QED
    BY <1>4, <2>2 DEF GotIp6, IInv, TypeOK, CreatesOnNetif, HeardIsHad, Events
<1> QED
  BY <1>1, <1>2, <1>3, <1>4

\* What event_handler has to call for an event.
LEMMA HandlerHas ==
  ASSUME NEW event \in Events
  PROVE  /\ event_handler(event) \in Seq(HandlerCalls)
         /\ Has(event_handler(event), "create_ip6_linklocal") => event = "STA_CONNECTED"
         /\ Has(event_handler(event), "set6") => event = "AP_STA_GOT_IP6"
<1>1. CASE event = "STA_DISCONNECTED"
  <2> DEFINE calls == <<"connect", "clear4", "clear6">>
  <2>1. event_handler(event) = calls
    BY <1>1 DEF event_handler
  <2>2. calls \in Seq(HandlerCalls)
    BY DEF HandlerCalls
  <2>3. DOMAIN calls = {1, 2, 3}
    OBVIOUS
  <2>4. calls[1] = "connect" /\ calls[2] = "clear4" /\ calls[3] = "clear6"
    OBVIOUS
  <2> QED
    BY <2>1, <2>2, <2>3, <2>4 DEF Has
<1>2. CASE event # "STA_DISCONNECTED"
  <2>1. PICK call \in HandlerCalls :
          /\ event_handler(event) = <<call>>
          /\ call = "create_ip6_linklocal" => event = "STA_CONNECTED"
          /\ call = "set6" => event = "AP_STA_GOT_IP6"
    BY <1>2 DEF event_handler, Events, HandlerCalls
  <2>2. <<call>> \in Seq(HandlerCalls) /\ DOMAIN <<call>> = {1} /\ <<call>>[1] = call
    OBVIOUS
  <2> QED
    BY <2>1, <2>2 DEF Has
<1> QED
  BY <1>1, <1>2

LEMMA DispatchIInv ==
  ASSUME IInv, Dispatch
  PROVE  IInv'
<1> DEFINE event == Head(queue)
<1>1. queue \in Seq(Events) /\ queue # <<>>
  BY DEF Dispatch, IInv, TypeOK, Events
<1>2. event \in Events /\ Has(queue, event) /\ queue' \in Seq(Events) /\ Len(queue') = Len(queue) - 1
  BY <1>1, HeadHas DEF Dispatch
<1>3. \A x : Has(queue', x) => Has(queue, x)
  BY <1>1, TailHas DEF Dispatch
<1>4. Len(queue') <= QueueSize
  <2>1. Len(queue) \in Nat /\ Len(queue) <= QueueSize
    BY DEF IInv, TypeOK
  <2> QED
    BY ONLY <2>1, <1>2, WifiAssumption
<1>5. /\ handler' = event_handler(event)
      /\ UNCHANGED <<link, lost, bits, main>>
  BY DEF Dispatch
<1>6. /\ handler' \in Seq(HandlerCalls)
      /\ Has(handler', "create_ip6_linklocal") => event = "STA_CONNECTED"
      /\ Has(handler', "set6") => event = "AP_STA_GOT_IP6"
  BY <1>2, <1>5, HandlerHas
<1> HIDE DEF event
<1>7. CASE event = "STA_DISCONNECTED"
  <2>1. lost
    BY <1>2, <1>7 DEF IInv, HeardIsHad, TypeOK
  <2>2. netif' = FALSE /\ address' = {} /\ probing' = FALSE
    BY <1>7 DEF Dispatch, event
  <2> QED
    BY <2>1, <2>2, <1>2, <1>4, <1>5, <1>6, <1>7
    DEF IInv, TypeOK, CreatesOnNetif, HeardIsHad, Events, HandlerCalls
<1>8. CASE event # "STA_DISCONNECTED"
  <2>1. address' = address /\ probing' = probing
    BY <1>8 DEF Dispatch, event
  <2>2. netif' \in BOOLEAN /\ (netif => netif') /\ (event = "STA_CONNECTED" => netif')
    BY <1>8 DEF Dispatch, event, IInv, TypeOK
  <2>3. TypeOK'
    BY <2>1, <2>2, <1>2, <1>4, <1>5, <1>6 DEF IInv, TypeOK, Events, HandlerCalls
  <2>4. CreatesOnNetif'
    BY <2>2, <1>6 DEF CreatesOnNetif
  <2>5. HeardIsHad'
    BY <2>1, <1>2, <1>3, <1>5, <1>6 DEF IInv, HeardIsHad
  <2> QED
    BY <2>3, <2>4, <2>5 DEF IInv
<1> QED
  BY <1>7, <1>8

\* A call made, and the calls that are left.
LEMMA Calling ==
  ASSUME IInv, NEW call, Calls(call)
  PROVE  /\ Has(handler, call)
         /\ handler' \in Seq(HandlerCalls)
         /\ \A x : Has(handler', x) => Has(handler, x)
<1>1. handler \in Seq(HandlerCalls) /\ handler # <<>> /\ call = Head(handler) /\ handler' = Tail(handler)
  BY DEF IInv, TypeOK, HandlerCalls, Calls
<1> QED
  BY <1>1, HeadHas, TailHas

LEMMA HandlerIInv ==
  ASSUME IInv, esp_wifi_connect \/ CreateIp6Linklocal \/ SetBits \/ ClearBits
  PROVE  IInv'
<1>1. PICK call \in HandlerCalls : Calls(call)
  BY DEF esp_wifi_connect, CreateIp6Linklocal, SetBits, ClearBits, HandlerCalls
<1>2. handler' \in Seq(HandlerCalls) /\ \A x : Has(handler', x) => Has(handler, x)
  BY <1>1, Calling
<1>3. CASE esp_wifi_connect
  BY <1>2, <1>3 DEF esp_wifi_connect, IInv, TypeOK, CreatesOnNetif, HeardIsHad, HandlerCalls
<1>4. CASE CreateIp6Linklocal
  <2>1. netif
    BY <1>4, Calling DEF CreateIp6Linklocal, IInv, CreatesOnNetif
  <2> QED
    BY <1>2, <1>4, <2>1
    DEF CreateIp6Linklocal, IInv, TypeOK, CreatesOnNetif, HeardIsHad, HandlerCalls
<1>5. CASE SetBits
  <2>1. bits' \subseteq {4, 6} /\ UNCHANGED <<driverVars, main>>
    BY <1>5 DEF SetBits, IInv, TypeOK
  <2>2. 6 \in bits' => 6 \in bits \/ Has(handler, "set6")
    BY <1>5, Calling DEF SetBits
  <2> QED
    BY <1>2, <2>1, <2>2
    DEF driverVars, IInv, TypeOK, CreatesOnNetif, HeardIsHad, HandlerCalls
<1>6. CASE ClearBits
  <2>1. bits' \subseteq bits /\ UNCHANGED <<driverVars, main>>
    BY <1>6 DEF ClearBits
  <2> QED
    BY <1>2, <2>1 DEF driverVars, IInv, TypeOK, CreatesOnNetif, HeardIsHad, HandlerCalls
<1> QED
  BY <1>3, <1>4, <1>5, <1>6

LEMMA MainIInv ==
  ASSUME IInv, MainTask
  PROVE  IInv'
<1>1. UNCHANGED <<driverVars, handler, bits>>
  BY DEF MainTask, xEventGroupWaitBits, Fetch
<1>2. CASE xEventGroupWaitBits
  BY <1>1, <1>2
  DEF xEventGroupWaitBits, driverVars, IInv, TypeOK, CreatesOnNetif, HeardIsHad
<1>3. CASE Fetch
  BY <1>1, <1>3 DEF Fetch, driverVars, IInv, TypeOK, CreatesOnNetif, HeardIsHad
<1> QED
  BY <1>2, <1>3 DEF MainTask

LEMMA NextIInv == IInv /\ [Next]_vars => IInv'
<1> SUFFICES ASSUME IInv, [Next]_vars
             PROVE  IInv'
  OBVIOUS
<1>1. CASE Associate \/ LinkLost \/ GotIp4 \/ GotIp6
  BY <1>1, DriverIInv
<1>2. CASE EventTask
  BY <1>2, DispatchIInv, HandlerIInv DEF EventTask
<1>3. CASE MainTask
  BY <1>3, MainIInv
<1>4. CASE UNCHANGED vars
  BY <1>4 DEF vars, driverVars, IInv, TypeOK, CreatesOnNetif, HeardIsHad
<1> QED
  BY <1>1, <1>2, <1>3, <1>4 DEF Next

-----------------------------------------------------------------------------

\* The inductive invariant of start-up (event_handler and the head of server_main).
THEOREM WifiInvariant == Spec => []IInv
BY InitIInv, NextIInv, PTL DEF Spec

\* The state has its type, and the adapter probes and holds addresses only while it
\* takes the interface to be up.
THEOREM TypeCorrect == Spec => []TypeOK
<1>1. IInv => TypeOK
  BY DEF IInv
<1> QED
  BY WifiInvariant, <1>1, PTL

\* Unless the link is lost, the main task never ends in print_error for want of
\* an address (server_freertos.c:225-244).
THEOREM AddressesFound == Spec => []AddressesThereUnlessLost
<1>1. IInv => AddressesThereUnlessLost
  BY DEF IInv, HeardIsHad, AddressesThereUnlessLost
<1> QED
  BY WifiInvariant, <1>1, PTL
=============================================================================
