---------------------------- MODULE Connectivity ----------------------------
(***************************************************************************)
(* The life of a device's connectivity in ipadapter.c: oc_connectivity_init *)
(* creates and binds its two sockets and starts the network thread,         *)
(* oc_connectivity_shutdown closes the sockets under the thread, which      *)
(* tests `terminate' before each select, and joins it.                      *)
(*                                                                          *)
(* Builds: OC_IPV4 or IPv6, static or OC_DYNAMIC_ALLOCATION; no OC_SECURITY. *)
(* External: the caller, the stack's main task, sets a device up, polls     *)
(* while it is up, shuts it down after success and failure alike and may    *)
(* set it up again; what lwIP does to a task inside select or recvfrom on a *)
(* socket being closed (it may return at once or never); pthread_join of a  *)
(* thread that has deleted its task (vTaskDelete), which may not return.    *)
(***************************************************************************)
EXTENDS NetworkThread

CONSTANT MaxInits  \* of the model: set-ups of the device

ASSUME ConnectivityAssumption == Len(Sockets) = 2 /\ MaxInits \in Nat \ {0}

Server == Sockets[1]
Mcast  == Sockets[2]

VARIABLES
  family,         \* the build, which never changes: "IPv4" or "IPv6",
  memory,         \* "static" or "dynamic"
  main,           \* where the stack's main task is; "halted" in print_error or oc_abort
  done,           \* in "setup": how many of Calls are behind it
  inits,          \* set-ups begun
  context,        \* the device's ip_context_t: "none" or "there"
  terminate,
  sock,           \* each socket: "none", "open", "bound", "closed"
  thread,         \* "none", "running", "selecting" or "deleted"
  refused         \* history: the system call of this set-up that failed, or "none"

build == <<family, memory>>
mainVars == <<main, done, inits, context, terminate, sock, refused>>
connVars == <<build, mainVars, thread>>
allVars == <<vars, connVars>>

SetUp4 == <<"address", "socket", "bind server", "getsockname", "join", "reuse", "bind mcast">>

SetUp6 ==
  <<"address", "socket", "v6only", "bind server", "getsockname", "join", "reuse", "bind mcast">>

ipv4    == family = "IPv4"
dynamic == memory = "dynamic"

Calls == IF ipv4 THEN SetUp4 ELSE SetUp6

InitConnectivity ==
  /\ Init
  /\ family \in {"IPv4", "IPv6"} /\ memory \in {"static", "dynamic"}
  /\ main = "idle" /\ done = 0 /\ inits = 0
  /\ context = (IF dynamic THEN "none" ELSE "there") /\ terminate = 0
  /\ sock = [s \in Sources |-> "none"]
  /\ thread = "none" /\ refused = "none"

-----------------------------------------------------------------------------
(* oc_connectivity_init. *)

Halt ==
  /\ main' = "halted"
  /\ UNCHANGED <<done, refused>>

\* calloc clears the whole context, or oc_abort ends the program.  A static context
\* keeps its `terminate', and its old descriptors until `socket' sets them.
oc_connectivity_init ==
  /\ main = "idle" /\ inits < MaxInits
  /\ inits' = inits + 1
  /\ \/ /\ main' = "setup" /\ done' = 0
        /\ refused' = "none"
        /\ IF dynamic
             THEN context' = "there" /\ terminate' = 0 /\ sock' = [s \in Sources |-> "none"]
             ELSE UNCHANGED <<context, terminate, sock>>
     \/ dynamic /\ Halt /\ UNCHANGED <<context, terminate, sock>>
  /\ UNCHANGED <<vars, build, thread>>

Calling(call) == main = "setup" /\ done < Len(Calls) /\ Calls[done + 1] = call

Succeed(call) ==
  /\ Calling(call)
  /\ done' = done + 1
  /\ UNCHANGED <<main, refused>>

RefusalIgnored(call) ==  \* mutant: the call's return value is not looked at
  Succeed(call)

\* `return -1'.  That of connectivity_ipv4_init is only logged: the thread is
\* started all the same.
Refuse(call) ==
  /\ Calling(call)
  /\ done' = Len(Calls)
  /\ main' = IF ipv4 THEN "setup" ELSE "failed"
  /\ refused' = call

\* The interface's address, on which print_error insists.
GetAddress ==
  /\ Succeed("address") \/ (Calling("address") /\ Halt)
  /\ UNCHANGED sock

CreateSockets ==
  \E made \in SUBSET Sources :
    /\ sock' = [s \in Sources |-> IF s \in made THEN "open" ELSE "none"]
    /\ IF made = Sources THEN Succeed("socket") ELSE Refuse("socket")

Bind(s, call) ==
  \/ Succeed(call) /\ sock' = [sock EXCEPT ![s] = "bound"]
  \/ Refuse(call) /\ UNCHANGED sock

\* The source interface and the groups, on which print_error insists as well: the
\* function never returns a negative value.
configure_mcast_socket ==
  /\ Succeed("join") \/ (Calling("join") /\ Halt)
  /\ UNCHANGED sock

OtherCall ==
  /\ \E call \in {"v6only", "getsockname", "reuse"} : Succeed(call) \/ Refuse(call)
  /\ UNCHANGED sock

SetUpStep ==
  /\ \/ GetAddress \/ CreateSockets \/ configure_mcast_socket \/ OtherCall
     \/ Bind(Server, "bind server") \/ Bind(Mcast, "bind mcast")
  /\ UNCHANGED <<vars, build, inits, context, terminate, thread>>

pthread_create ==
  /\ main = "setup" /\ done = Len(Calls)
  /\ \/ main' = "up" /\ thread' = "running"
     \/ main' = "failed" /\ UNCHANGED thread
  /\ UNCHANGED <<vars, build, done, inits, context, terminate, sock, refused>>

-----------------------------------------------------------------------------
(* oc_connectivity_shutdown. *)

TerminateForgotten ==  \* mutant: the thread is only cancelled
  /\ main \in {"up", "failed"} /\ main' = "close server"
  /\ UNCHANGED <<vars, build, done, inits, context, terminate, sock, refused, thread>>

SetTerminate ==
  /\ main \in {"up", "failed"} /\ main' = "close server"
  /\ terminate' = 1
  /\ UNCHANGED <<vars, build, done, inits, context, sock, refused, thread>>

\* close drops what waits in the socket.
Close(s) ==
  /\ inbox' = [inbox EXCEPT ![s] = <<>>]
  /\ sock' = [sock EXCEPT ![s] = IF @ = "none" THEN @ ELSE "closed"]
  /\ UNCHANGED <<sent, delivered, events, free, threadVars, failed,
                 build, done, inits, context, terminate, refused, thread>>

CloseServer == main = "close server" /\ main' = "close mcast" /\ Close(Server)

CloseMcast == main = "close mcast" /\ main' = "join" /\ Close(Mcast)

ContextFreed ==
  /\ main' = "idle"
  /\ context' = IF dynamic THEN "none" ELSE "there"
  /\ UNCHANGED <<vars, build, done, inits, terminate, sock, refused>>

NotJoined ==  \* mutant: pthread_cancel is trusted to have ended the thread
  main = "join" /\ ContextFreed /\ UNCHANGED thread

\* pthread_cancel, which ESP-IDF does not implement, and pthread_join.
pthread_join ==
  /\ main = "join" /\ thread \in {"none", "deleted"} /\ thread' = "none"
  /\ ContextFreed

MainStep ==
  \/ SetUpStep \/ pthread_create \/ SetTerminate \/ CloseServer \/ CloseMcast \/ pthread_join

-----------------------------------------------------------------------------
(* The thread and its surroundings. *)

\* `while (dev->terminate != 1)', and past its end vTaskDelete.
TestTerminate ==
  /\ thread = "running" /\ pc = "select"
  /\ thread' = IF terminate = 1 THEN "deleted" ELSE "selecting"
  /\ UNCHANGED <<vars, build, mainVars>>

SelectReturns ==
  /\ thread = "selecting" /\ thread' = "running"
  /\ Select
  /\ UNCHANGED <<build, mainVars>>

ThreadRuns ==
  /\ thread = "running"
  /\ \/ Allocate \/ BackToSelect \/ oc_network_event
     \/ \E s \in Sources : recvfrom(s)
  /\ UNCHANGED connVars

ThreadStep == TestTerminate \/ SelectReturns \/ ThreadRuns

Closed == {s \in Sources : sock[s] = "closed"}

\* select on a closed socket: an error, or the socket counts as ready.
SelectOnClosed ==
  /\ thread = "selecting" /\ Closed # {} /\ thread' = "running"
  /\ \/ UNCHANGED <<pc, setfds, left>>
     \/ /\ Step("select", "allocate")
        /\ setfds' = Ready \cup Closed /\ left' = Cardinality(setfds')
  /\ failed' = FALSE
  /\ UNCHANGED <<stackVars, events, free, message, build, mainVars>>

ClosedMessageKept(s) ==  \* mutant: no oc_message_unref before the continue
  /\ thread = "running" /\ Chosen(s) /\ sock[s] = "closed"
  /\ Step("read", "allocate")
  /\ left' = left - 1 /\ failed' = TRUE
  /\ UNCHANGED <<stackVars, events, free, setfds, message, connVars>>

\* recvfrom on a closed socket: a negative count.
ReadClosed(s) ==
  /\ thread = "running" /\ Chosen(s) /\ sock[s] = "closed"
  /\ Step("read", "allocate")
  /\ free' = free + 1
  /\ left' = left - 1 /\ failed' = TRUE
  /\ UNCHANGED <<stackVars, events, setfds, message, connVars>>

ReadFailure == thread = "running" /\ Failure /\ UNCHANGED connVars

Arrival == \E s \in Sources : sock[s] = "bound" /\ Arrive(s) /\ UNCHANGED connVars

\* Events are handled by the task that sets up and shuts down.
Poll == main = "up" /\ Handle /\ UNCHANGED connVars

NextConnectivity ==
  \/ oc_connectivity_init \/ MainStep \/ ThreadStep
  \/ SelectOnClosed \/ (\E s \in Sources : ReadClosed(s)) \/ ReadFailure
  \/ Arrival \/ Poll

\* The thread is scheduled.  Nothing is assumed of the main task, of lwIP with a
\* closed socket, or of datagrams.
SpecConnectivity ==
  InitConnectivity /\ [][NextConnectivity]_allVars /\ WF_allVars(ThreadStep)

-----------------------------------------------------------------------------
(* Properties. *)

Closing == {"close server", "close mcast", "join"}
Alive   == thread \in {"running", "selecting"}

\* The shape of the state.
TypeOKConnectivity ==
  /\ TypeOK
  /\ family \in {"IPv4", "IPv6"} /\ memory \in {"static", "dynamic"}
  /\ main \in {"idle", "setup", "up", "failed", "halted"} \cup Closing
  /\ done \in 0..Len(Calls)
  /\ inits \in 0..MaxInits
  /\ context \in {"none", "there"} /\ terminate \in {0, 1}
  /\ refused \in {"none"} \cup {SetUp6[k] : k \in DOMAIN SetUp6}
  /\ sock \in [Sources -> {"none", "open", "bound", "closed"}]
  /\ thread \in {"none", "running", "selecting", "deleted"}

\* The network thread never runs on a freed context, nor while its device is being
\* set up anew; and a shutdown leaves no socket open, even one after a set-up that
\* failed half-way (ipadapter.c:716-765, 811-833).
CleanShutdown ==
  /\ Alive => context = "there" /\ main \in {"up"} \cup Closing
  /\ main = "idle" =>
       /\ dynamic => context = "none"
       /\ \A s \in Sources : sock[s] \in {"none", "closed"}

\* Set up again in the context of an earlier shutdown.
Reused == ~dynamic /\ inits > 1

\* oc_connectivity_init reports success for a deaf device in two cases only.  A socket
\* nothing reaches was left so by an IPv4 set-up that failed (ipadapter.c:790-794); a
\* thread that is gone met the `terminate' of an earlier shutdown (ipadapter.c:811),
\* and where there is such a one the thread never comes to its select.
DeafOnlyIf ==
  main = "up" =>
    /\ (\E s \in Sources : sock[s] # "bound") => ipv4 /\ refused # "none"
    /\ thread = "deleted" => Reused
    /\ thread = "selecting" => ~Reused

\* Once shutdown waits for the thread, the thread ends, whatever it was doing and
\* though nobody refills the pool any more.  Only lwIP can keep it: asleep in a
\* select that a close does not wake, or in a recvfrom it should not have been in.
ThreadEnds ==
  main = "join" ~> (~Alive \/ [](thread = "selecting") \/ []Blocked)
=============================================================================
