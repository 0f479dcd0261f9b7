------------------------------- MODULE Inbound -------------------------------
(***************************************************************************)
(* What the receiving side of components/iotivity/adapter/src/ipadapter.c   *)
(* promises the stack: each socket is a first-in first-out pipe from the IP *)
(* stack to the handlers.  No datagram is duplicated, reordered or made up. *)
(* One may be lost at any time: a failing read may have taken it, and what   *)
(* reads fail is not for the stack to know.                                  *)
(***************************************************************************)
EXTENDS Integers, SequencesExt

CONSTANTS
  Sources,  \* the sockets
  Numbers   \* datagrams are numbered modulo this

VARIABLES
  sent,       \* the number of the last datagram each socket has accepted
  pipe,       \* the numbers still on their way, oldest first
  delivered   \* the last number handed to the handlers

vars == <<sent, pipe, delivered>>

Init ==
  /\ sent = [s \in Sources |-> 0]
  /\ pipe = [s \in Sources |-> <<>>]
  /\ delivered = [s \in Sources |-> 0]

Accept(s) ==
  /\ sent' = [sent EXCEPT ![s] = (@ + 1) % Numbers]
  /\ pipe' = [pipe EXCEPT ![s] = Append(@, sent'[s])]
  /\ UNCHANGED delivered

Lose(s) ==
  /\ \E k \in DOMAIN pipe[s] : pipe' = [pipe EXCEPT ![s] = RemoveAt(@, k)]
  /\ UNCHANGED <<sent, delivered>>

Deliver(s) ==
  /\ pipe[s] # <<>>
  /\ delivered' = [delivered EXCEPT ![s] = Head(pipe[s])]
  /\ pipe' = [pipe EXCEPT ![s] = Tail(@)]
  /\ UNCHANGED sent

Next == \E s \in Sources : Accept(s) \/ Lose(s) \/ Deliver(s)

Spec == Init /\ [][Next]_vars
=============================================================================
