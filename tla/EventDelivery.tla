---------------------------- MODULE EventDelivery ----------------------------
(***************************************************************************)
(* From the socket to the handler: the network thread of ipadapter.c and    *)
(* the main loop of server_freertos.c together.  The thread's call of       *)
(* oc_network_event goes through signal_event_loop, the main task handles   *)
(* the listed events inside oc_main_poll, and the two share the message     *)
(* pool: the thread cannot announce a datagram it has no message for.       *)
(***************************************************************************)
EXTENDS NetworkThread

VARIABLES
  timer, loop, next_event, mutex, caller, quit, missed,  \* as in EventLoop
  lost  \* history: signals of this round that came between its poll and its lock

loopVars == <<timer, loop, next_event, mutex, caller, quit, missed, lost>>
allVars == <<vars, loopVars>>

Net == "net"

\* The main loop's pending work is the stack's list of network events; no
\* handler of signals is installed (handle_signal is never registered).
Main == INSTANCE EventLoop
  WITH work <- Len(events), Posters <- {Net}, Handlers <- {}, MaxWork <- PoolSize

InitAll == Init /\ Main!Init /\ lost = 0

\* The thread's other steps wait until signal_event_loop has returned.
ThreadAlone ==
  /\ caller[Net] = "idle"
  /\ \/ Select \/ Allocate \/ BackToSelect
     \/ \E s \in Sources : recvfrom(s)
  /\ UNCHANGED loopVars

ReadFailure == caller[Net] = "idle" /\ Failure /\ UNCHANGED loopVars

EventUnsignalled ==  \* mutant: oc_network_event returns without signal_event_loop
  oc_network_event /\ UNCHANGED loopVars

NetworkEvent == oc_network_event /\ Main!Post(Net) /\ UNCHANGED lost

SignalEventLoop ==
  /\ UNCHANGED vars
  /\ \/ (Main!SignalLock(Net) \/ Main!SignalUnlock(Net)) /\ UNCHANGED lost
     \/ Main!CondSignal(Net) /\ lost' = IF loop = "lock" THEN lost + 1 ELSE lost

ThreadStep == ThreadAlone \/ NetworkEvent \/ SignalEventLoop

\* One event of the list per step of oc_main_poll.
PollEvent == Handle /\ Main!Process /\ UNCHANGED lost

LoopAlone ==
  /\ UNCHANGED vars
  /\ \/ Main!Test /\ lost' = 0
     \/ /\ \/ Main!PollReturns \/ Main!Lock \/ Main!Wait
           \/ Main!Timeout \/ Main!Relock \/ Main!Unlock
        /\ UNCHANGED lost

MainStep == PollEvent \/ LoopAlone

Arrival == (\E s \in Sources : Arrive(s)) /\ UNCHANGED loopVars

SpuriousWakeup == UNCHANGED <<vars, lost>> /\ Main!Spurious

NextAll ==
  ThreadStep \/ ReadFailure \/ MainStep \/ Arrival \/ SpuriousWakeup

TakesMutex == UNCHANGED <<vars, lost>> /\ (Main!Lock \/ Main!Relock)

SpecAll ==
  /\ InitAll /\ [][NextAll]_allVars
  /\ WF_allVars(ThreadStep) /\ SF_allVars(UNCHANGED <<vars, lost>> /\ Main!SignalLock(Net))
  /\ WF_allVars(MainStep) /\ SF_allVars(TakesMutex)

-----------------------------------------------------------------------------
(* Properties. *)

\* Seen through its events, the whole behaves as the main loop by itself, fairness
\* included; what holds of the loop holds here.
ImplementsEventLoop == Main!Spec

Waiting == \E s \in Sources : inbox[s] # <<>>

\* A missed signal costs at most one datagram's delay while the pool lasts: with a
\* message free, a datagram waiting in a socket wakes the loop, unless its read
\* fails or the thread is blocked in another read.
NextDatagramWakes ==
  (loop = "waiting" /\ Waiting /\ free > 0) ~> (loop # "waiting" \/ Blocked \/ failed)

\* Every event the loop sleeps over has had a signal of its own lost in this
\* round, but for the one the thread is about to signal.  So the server goes deaf
\* (every message of the pool listed, nobody left to signal) only when PoolSize
\* signals fall into one window between oc_main_poll and the lock
\* (server_freertos.c:261-262, ipadapter.c:306-308).
SleepersWereSignalled ==
  loop = "waiting" =>
    Len(events) <= lost + (IF caller[Net] \in {"call", "signal"} THEN 1 ELSE 0)

\* What NetworkThread assumes of its surroundings, and SocketsServed needs: the
\* thread is never held up for good inside signal_event_loop, and, as long as a
\* timer is armed (the observable resource's period), listed events are handled
\* again and again, so that the pool refills.
FairUnderTimer == WF_vars(Thread) /\ (<>[]timer => WF_vars(Handle))
=============================================================================
