---------------------------- MODULE NetworkThread ----------------------------
(***************************************************************************)
(* network_event_thread of components/iotivity/adapter/src/ipadapter.c: one *)
(* task that selects on the device's sockets, reads each ready one into a   *)
(* message of a fixed pool and hands it to the stack.                       *)
(*                                                                          *)
(* External, modelled from how the thread uses them: the IP stack's queue   *)
(* per socket (`inbox'), the message pool (`free'), the stack's list of     *)
(* events and the main task that empties it.                                *)
(***************************************************************************)
EXTENDS Integers, Sequences, FiniteSets

CONSTANTS
  Sockets,      \* the sockets in the order of the thread's if-chain
  PoolSize,     \* OC_MAX_NUM_CONCURRENT_REQUESTS
  QueueLength,  \* datagrams the IP stack keeps per socket
  Numbers       \* of the model: datagrams are numbered modulo this

Sources == {Sockets[k] : k \in DOMAIN Sockets}

ASSUME NetworkThreadAssumption ==
  /\ Sockets \in Seq(Sources)
  /\ \A j, k \in DOMAIN Sockets : j # k => Sockets[j] # Sockets[k]
  /\ PoolSize \in Nat \ {0} /\ QueueLength \in Nat \ {0}
  /\ Numbers \in Nat \ {0}

VARIABLES
  sent,       \* the number of the last datagram each socket has accepted
  inbox,      \* the numbers waiting in each socket
  events,     \* the stack's list: <<socket, number>>, oldest first
  delivered,  \* the last number of each socket the handlers have seen
  free,       \* messages left in the pool
  pc,         \* the thread's next step
  setfds,     \* sockets select found ready and not yet read
  left,       \* iterations left of `for (i = 0; i < n; i++)'
  message,    \* what was read into the allocated message
  failed      \* history: a read has failed since the last select

Empty == <<"nothing", 0>>

stackVars  == <<sent, inbox, delivered>>
threadVars == <<pc, setfds, left, message>>
vars == <<stackVars, events, free, threadVars, failed>>

Init ==
  /\ sent = [s \in Sources |-> 0]
  /\ inbox = [s \in Sources |-> <<>>]
  /\ events = <<>>
  /\ delivered = [s \in Sources |-> 0]
  /\ free = PoolSize
  /\ pc = "select" /\ setfds = {} /\ left = 0 /\ message = Empty
  /\ failed = FALSE

-----------------------------------------------------------------------------
(* The surroundings. *)

\* A datagram that finds the socket's queue full is dropped by the IP stack and
\* never gets a number.
Arrive(s) ==
  /\ Len(inbox[s]) < QueueLength
  /\ sent' = [sent EXCEPT ![s] = (@ + 1) % Numbers]
  /\ inbox' = [inbox EXCEPT ![s] = Append(@, sent'[s])]
  /\ UNCHANGED <<events, delivered, free, threadVars, failed>>

\* The main task processes an event; its message goes back to the pool.
Handle ==
  /\ events # <<>>
  /\ delivered' = [delivered EXCEPT ![Head(events)[1]] = Head(events)[2]]
  /\ events' = Tail(events)
  /\ free' = free + 1
  /\ UNCHANGED <<sent, inbox, threadVars, failed>>

-----------------------------------------------------------------------------
(* The thread. *)

Step(from, to) == pc = from /\ pc' = to

Ready == {s \in Sources : inbox[s] # <<>>}

OneReadTooMany ==  \* mutant: `i <= n'
  /\ Ready # {}
  /\ Step("select", "allocate")
  /\ setfds' = Ready /\ left' = Cardinality(Ready) + 1
  /\ failed' = FALSE
  /\ UNCHANGED <<stackVars, events, free, message>>

\* A select that fails (n < 0) goes round the loop and changes nothing: a stuttering
\* step, as long as it does not fail for ever.
Select ==
  /\ Ready # {}
  /\ Step("select", "allocate")
  /\ setfds' = Ready /\ left' = Cardinality(Ready)
  /\ failed' = FALSE
  /\ UNCHANGED <<stackVars, events, free, message>>

AllocateUnchecked ==  \* mutant: the pool is not asked whether it has a message
  /\ left > 0
  /\ Step("allocate", "read")
  /\ free' = free - 1
  /\ UNCHANGED <<stackVars, events, setfds, left, message, failed>>

Allocate ==
  /\ left > 0 /\ free > 0
  /\ Step("allocate", "read")
  /\ free' = free - 1
  /\ UNCHANGED <<stackVars, events, setfds, left, message, failed>>

\* The loop ends, or breaks off for want of a message: the sockets not yet read
\* are left to the next select.
BackToSelect ==
  /\ left = 0 \/ free = 0
  /\ Step("allocate", "select")
  /\ UNCHANGED <<stackVars, events, free, setfds, left, message, failed>>

LastChosen(s) ==  \* mutant: the if-chain in the opposite order
  \E k \in DOMAIN Sockets :
    /\ Sockets[k] = s /\ s \in setfds
    /\ \A j \in (k + 1)..Len(Sockets) : Sockets[j] \notin setfds

\* The first socket of the if-chain that is still in setfds.
Chosen(s) ==
  \E k \in DOMAIN Sockets :
    /\ Sockets[k] = s /\ s \in setfds
    /\ \A j \in 1..(k - 1) : Sockets[j] \notin setfds

NotCleared(s) ==  \* mutant: no FD_CLR after the read
  /\ Chosen(s) /\ inbox[s] # <<>>
  /\ Step("read", "event")
  /\ message' = <<s, Head(inbox[s])>>
  /\ inbox' = [inbox EXCEPT ![s] = Tail(@)]
  /\ UNCHANGED <<sent, delivered, events, free, setfds, left, failed>>

\* recvfrom blocks on an empty socket.
recvfrom(s) ==
  /\ Chosen(s) /\ inbox[s] # <<>>
  /\ Step("read", "event")
  /\ message' = <<s, Head(inbox[s])>>
  /\ inbox' = [inbox EXCEPT ![s] = Tail(@)]
  /\ setfds' = setfds \ {s}
  /\ UNCHANGED <<sent, delivered, events, free, left, failed>>

MessageKept(s) ==  \* mutant: no oc_message_unref before the continue
  /\ Chosen(s) /\ inbox[s] # <<>>
  /\ Step("read", "allocate")
  /\ inbox' = [inbox EXCEPT ![s] = Tail(@)] \/ UNCHANGED inbox
  /\ left' = left - 1
  /\ failed' = TRUE
  /\ UNCHANGED <<sent, delivered, events, free, setfds, message>>

\* A negative count: the message is given back and the loop goes on, with the
\* socket still in setfds.  The datagram may be gone or may still be there.
ReadFails(s) ==
  /\ Chosen(s) /\ inbox[s] # <<>>
  /\ Step("read", "allocate")
  /\ inbox' = [inbox EXCEPT ![s] = Tail(@)] \/ UNCHANGED inbox
  /\ free' = free + 1
  /\ left' = left - 1
  /\ failed' = TRUE
  /\ UNCHANGED <<sent, delivered, events, setfds, message>>

Pushed ==  \* mutant: the event is put at the front of the list
  /\ Step("event", "allocate")
  /\ events' = <<message>> \o events
  /\ message' = Empty
  /\ left' = left - 1
  /\ UNCHANGED <<stackVars, free, setfds, failed>>

oc_network_event ==
  /\ Step("event", "allocate")
  /\ events' = Append(events, message)
  /\ message' = Empty
  /\ left' = left - 1
  /\ UNCHANGED <<stackVars, free, setfds, failed>>

Thread ==
  \/ Select
  \/ Allocate
  \/ BackToSelect
  \/ \E s \in Sources : recvfrom(s)
  \/ oc_network_event

Failure == \E s \in Sources : ReadFails(s)

Next == (\E s \in Sources : Arrive(s)) \/ Handle \/ Thread \/ Failure

\* The thread and the main task are scheduled; datagrams and failed need not
\* come.
Spec == Init /\ [][Next]_vars /\ WF_vars(Thread) /\ WF_vars(Handle)

-----------------------------------------------------------------------------
(* Properties. *)

Number == 0..(Numbers - 1)

\* The shape of the state.
TypeOK ==
  /\ sent \in [Sources -> Number]
  /\ inbox \in [Sources -> Seq(Number)]
  /\ events \in Seq(Sources \X Number)
  /\ delivered \in [Sources -> Number]
  /\ free \in 0..PoolSize
  /\ pc \in {"select", "allocate", "read", "event"}
  /\ setfds \subseteq Sources
  /\ left \in 0..Cardinality(Sources)
  /\ message \in IF pc = "event" THEN Sources \X Number ELSE {Empty}
  /\ failed \in BOOLEAN

\* No path through the loop, the failing reads and the break included, leaks a
\* message or frees one twice (ipadapter.c:304-319, 396-418).
PoolConserved ==
  free + (IF pc \in {"read", "event"} THEN 1 ELSE 0) + Len(events) = PoolSize

\* Every allocated message is read into: the iterations never outlast the ready
\* sockets, so no stale message falls through the if-chain to oc_network_event
\* (ipadapter.c:302-336).
ReadsAReadySocket == pc = "read" => setfds # {}

\* The thread sits in recvfrom on an empty socket.
Blocked == pc = "read" /\ \E s \in Sources : Chosen(s) /\ inbox[s] = <<>>

\* The thread blocks in recvfrom instead of select only when a read has failed in
\* the same round: `continue' leaves the socket set (ipadapter.c:313-315).
BlocksOnlyAfterFailure == Blocked => failed

\* A socket with datagrams is read again and again, unless the thread is blocked
\* on another or reads keep failing.
Served(s) ==
  \/ []<>(inbox[s] = <<>>) \/ []<><<recvfrom(s)>>_vars
  \/ <>[]Blocked \/ []<><<Failure>>_vars

\* The first socket of the chain never starves; the others may, but only while
\* the pool keeps running out: the break at ipadapter.c:306-308 always sends the
\* thread back to the first.
SocketsServed ==
  /\ Served(Sockets[1])
  /\ \A s \in Sources : Served(s) \/ []<>(free = 0)

\* The numbers of the datagrams of socket s among the first n of a list.
UpTo(list, s) ==
  LET numbers[n \in 0..Len(list)] ==
        IF n = 0 THEN <<>>
        ELSE IF list[n][1] = s THEN Append(numbers[n - 1], list[n][2])
        ELSE numbers[n - 1]
  IN  numbers

Listed(list, s) == UpTo(list, s)[Len(list)]

Held(s) == IF pc = "event" /\ message[1] = s THEN <<message[2]>> ELSE <<>>

\* On its way from the socket to the handlers: read and listed, in the message
\* being handed over, still in the socket.
OnTheWay(s) == (Listed(events, s) \o Held(s)) \o inbox[s]

Pipes == INSTANCE Inbound WITH pipe <- [s \in Sources |-> OnTheWay(s)]

\* The thread implements the abstract pipes: per socket, what the handlers see is
\* what arrived, in order and at most once.
ImplementsPipes == Pipes!Spec
=============================================================================
