------------------------------ MODULE EventLoop ------------------------------
(***************************************************************************)
(* The main loop of main/esp32_server/server_freertos.c (the client's is    *)
(* the same) and signal_event_loop, by which other tasks wake it.           *)
(*                                                                          *)
(* The stack's oc_main_poll and the tasks that post events to it are        *)
(* external: what the adapter's oc_network_event does is to add the event   *)
(* to the stack's list, mark the stack's process for polling, and only then *)
(* call signal_event_loop.  The loop asks oc_main_poll for work without the *)
(* mutex and waits on `cv' without testing anything: a signal that finds    *)
(* nobody waiting is gone.                                                  *)
(***************************************************************************)
EXTENDS Integers, FiniteSets

CONSTANTS
  Posters,   \* tasks that post events and call signal_event_loop
  Handlers,  \* contexts that run handle_signal; {} as shipped: nothing installs it
  MaxWork    \* events the stack can hold

NoOwner == "nobody"
Main    == "main"
Callers == Posters \cup Handlers

ASSUME EventLoopAssumption ==
  /\ Posters \cap Handlers = {}
  /\ {NoOwner, Main} \cap Callers = {}
  /\ MaxWork \in Nat \ {0}

VARIABLES
  work,        \* events posted and not yet processed
  timer,       \* an event timer is armed in the stack
  loop,        \* where the loop is
  next_event,  \* oc_main_poll's last answer: TRUE for a deadline, FALSE for 0
  mutex,       \* the owner of `mutex'
  caller,      \* where each caller is in signal_event_loop
  quit,
  missed       \* history: a signal came after this round's poll and before its lock

mainVars   == <<loop, next_event>>
callerVars == <<caller, quit>>
vars == <<work, timer, mainVars, mutex, callerVars, missed>>

Init ==
  /\ work = 0 /\ timer \in BOOLEAN
  /\ loop = "test" /\ next_event = FALSE
  /\ mutex = NoOwner
  /\ caller = [c \in Callers |-> "idle"]
  /\ quit = FALSE
  /\ missed = FALSE

-----------------------------------------------------------------------------
(* The main task. *)

Goto(from, to) == loop = from /\ loop' = to

TestUntilIdle ==  \* mutant: `while (quit != 1 || next_event != 0)'
  /\ Goto("test", IF quit /\ ~next_event THEN "shutdown" ELSE "poll")
  /\ missed' = FALSE
  /\ UNCHANGED <<work, timer, next_event, mutex, callerVars>>

Test ==
  /\ Goto("test", IF quit THEN "shutdown" ELSE "poll")
  /\ missed' = FALSE
  /\ UNCHANGED <<work, timer, next_event, mutex, callerVars>>

\* oc_main_poll runs the stack's processes until none has anything to do.  An
\* event's handlers may arm and stop timers.
Process ==
  /\ loop = "poll" /\ work > 0
  /\ work' = work - 1
  /\ timer' \in BOOLEAN
  /\ UNCHANGED <<mainVars, mutex, callerVars, missed>>

StaleDeadline ==  \* mutant: the deadline of an earlier round is waited for
  /\ work = 0
  /\ Goto("poll", "lock")
  /\ UNCHANGED <<work, timer, next_event, mutex, callerVars, missed>>

PollReturns ==
  /\ work = 0
  /\ Goto("poll", "lock")
  /\ next_event' = timer
  /\ UNCHANGED <<work, timer, mutex, callerVars, missed>>

Lock ==
  /\ mutex = NoOwner
  /\ Goto("lock", "locked")
  /\ mutex' = Main
  /\ UNCHANGED <<work, timer, next_event, callerVars, missed>>

WaitHoldingMutex ==  \* mutant
  /\ Goto("locked", "waiting")
  /\ UNCHANGED <<work, timer, next_event, mutex, callerVars, missed>>

\* pthread_cond_wait and pthread_cond_timedwait enter the wait set and release
\* the mutex in one step.
Wait ==
  /\ Goto("locked", "waiting")
  /\ mutex' = NoOwner
  /\ UNCHANGED <<work, timer, next_event, callerVars, missed>>

\* The deadline passes, or the wait ends for no reason, as POSIX allows.
Timeout ==
  /\ next_event
  /\ Goto("waiting", "relock")
  /\ UNCHANGED <<work, timer, next_event, mutex, callerVars, missed>>

Spurious ==
  /\ Goto("waiting", "relock")
  /\ UNCHANGED <<work, timer, next_event, mutex, callerVars, missed>>

Relock ==
  /\ mutex = NoOwner
  /\ Goto("relock", "unlock")
  /\ mutex' = Main
  /\ UNCHANGED <<work, timer, next_event, callerVars, missed>>

Unlock ==
  /\ Goto("unlock", "test")
  /\ mutex' = NoOwner
  /\ UNCHANGED <<work, timer, next_event, callerVars, missed>>

MainTask ==
  Test \/ Process \/ PollReturns \/ Lock \/ Wait \/ Timeout \/ Relock \/ Unlock

-----------------------------------------------------------------------------
(* The callers. *)

Step(c, from, to) == caller[c] = from /\ caller' = [caller EXCEPT ![c] = to]

Post(p) ==
  /\ work < MaxWork
  /\ Step(p, "idle", "call")
  /\ work' = work + 1
  /\ UNCHANGED <<timer, mainVars, mutex, quit, missed>>

\* handle_signal calls signal_event_loop first.
SignalArrives(h) ==
  /\ Step(h, "idle", "call")
  /\ UNCHANGED <<work, timer, mainVars, mutex, quit, missed>>

SignalUnlocked(c) ==  \* mutant: signal_event_loop does not take the mutex
  /\ Step(c, "call", "signal")
  /\ UNCHANGED <<work, timer, mainVars, mutex, quit, missed>>

SignalLock(c) ==
  /\ mutex = NoOwner
  /\ Step(c, "call", "signal")
  /\ mutex' = c
  /\ UNCHANGED <<work, timer, mainVars, quit, missed>>

NoSignal(c) ==  \* mutant: signal_event_loop forgets pthread_cond_signal
  /\ Step(c, "signal", "unlock")
  /\ UNCHANGED <<work, timer, mainVars, mutex, quit, missed>>

CondSignal(c) ==
  /\ Step(c, "signal", "unlock")
  /\ loop' = IF loop = "waiting" THEN "relock" ELSE loop
  /\ missed' = (missed \/ loop = "lock")
  /\ UNCHANGED <<work, timer, next_event, mutex, quit>>

SignalUnlock(c) ==
  /\ Step(c, "unlock", IF c \in Handlers THEN "set_quit" ELSE "idle")
  /\ mutex' = NoOwner
  /\ UNCHANGED <<work, timer, mainVars, quit, missed>>

\* ... and sets `quit' afterwards.
SetQuit(h) ==
  /\ Step(h, "set_quit", "idle")
  /\ quit' = TRUE
  /\ UNCHANGED <<work, timer, mainVars, mutex, missed>>

signal_event_loop(c) == SignalLock(c) \/ CondSignal(c) \/ SignalUnlock(c)
handle_signal(h) == signal_event_loop(h) \/ SetQuit(h)

-----------------------------------------------------------------------------

Next ==
  \/ MainTask
  \/ Spurious
  \/ \E p \in Posters : Post(p) \/ signal_event_loop(p)
  \/ \E h \in Handlers : SignalArrives(h) \/ handle_signal(h)

\* Tasks run; a task queued on a FreeRTOS mutex gets it in its turn, hence the
\* strong fairness of the steps that take it.  Nothing makes an event arrive, or
\* a wait end without a signal or a deadline.
Fairness ==
  /\ WF_vars(MainTask) /\ SF_vars(Lock \/ Relock)
  /\ \A c \in Callers :
       /\ WF_vars(signal_event_loop(c) \/ SetQuit(c))
       /\ SF_vars(SignalLock(c))

Spec == Init /\ [][Next]_vars /\ Fairness

-----------------------------------------------------------------------------
(* Properties. *)

\* Who holds `mutex' follows from where the main task and the callers are, so that
\* no two of them are ever both between lock and unlock.
Holds ==
  /\ mutex = Main <=> loop \in {"locked", "unlock"}
  /\ \A c \in Callers : mutex = c <=> caller[c] \in {"signal", "unlock"}

\* The shape of the state, and the mutex's owner.
TypeOK ==
  /\ work \in 0..MaxWork
  /\ timer \in BOOLEAN /\ next_event \in BOOLEAN
  /\ quit \in BOOLEAN /\ missed \in BOOLEAN
  /\ loop \in {"test", "poll", "lock", "locked", "waiting", "relock", "unlock", "shutdown"}
  /\ mutex \in Callers \cup {NoOwner, Main}
  /\ caller \in [Callers -> {"idle", "call", "signal", "unlock", "set_quit"}]
  /\ Holds

\* The main task goes to sleep over an unprocessed event in one way only: the
\* event's signal came between the return of oc_main_poll and the lock
\* (server_freertos.c:261-262).  Otherwise its poster is still on its way to
\* pthread_cond_signal, which will find the task asleep.
AsleepOnlyIfMissed ==
  loop = "waiting" /\ work > 0 =>
    missed \/ \E p \in Posters : caller[p] \in {"call", "signal"}

Progress == []<>(work = 0 \/ loop = "shutdown") \/ []<><<Process>>_vars

\* A loop that misses no signal stops at no event.
NoMissNoHang == <>[]~missed => Progress

\* An armed timer makes up for every missed signal.
TimerRescues == <>[]timer => Progress

\* No caller of signal_event_loop is held up for good by the sleeping loop: the
\* network thread and the signal context return.
CallersReturn == \A c \in Callers : caller[c] = "call" ~> caller[c] = "unlock"

\* handle_signal sets `quit' after its signal, so the loop may see the old value and
\* sleep through it.  That, with no timer to end the sleep, is the only way not to shut
\* down, but for events that never cease: oc_main_poll does not return while there
\* are any.
QuitHeeded ==
  <>quit => \/ <>(loop = "shutdown")
            \/ []<><<Process>>_vars
            \/ <>[](loop = "waiting" /\ ~timer)
=============================================================================
