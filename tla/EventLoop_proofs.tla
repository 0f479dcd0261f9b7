--------------------------- MODULE EventLoop_proofs ---------------------------
(***************************************************************************)
(* The main loop's safety for any number of callers and pending events.     *)
(***************************************************************************)
EXTENDS EventLoop, TLAPS

\* From the return of oc_main_poll to the end of the wait, an unprocessed event
\* was missed or its poster has not signalled yet.
Announced ==
  loop \in {"lock", "locked", "waiting"} /\ work > 0 =>
    missed \/ \E p \in Posters : caller[p] \in {"call", "signal"}

Inv == TypeOK /\ Announced

LEMMA InitInv == Init => Inv
<1> SUFFICES ASSUME Init PROVE Inv
  OBVIOUS
<1>1. Holds
  <2>1. \A c \in Callers : mutex # c /\ caller[c] = "idle"
    BY EventLoopAssumption DEF Init
  <2>2. mutex # Main
    BY DEF Init, NoOwner, Main
  <2> QED
    BY <2>1, <2>2 DEF Init, Holds
<1>2. TypeOK
  <2>1. work \in 0..MaxWork
    BY EventLoopAssumption DEF Init
  <2>2. caller \in [Callers -> {"idle", "call", "signal", "unlock", "set_quit"}]
    BY DEF Init
  <2>3. {timer, next_event, quit, missed} \subseteq BOOLEAN
    BY DEF Init
  <2> QED
    BY <1>1, <2>1, <2>2, <2>3 DEF Init, TypeOK
<1>3. Announced
  BY DEF Init, Announced
<1> QED
  BY <1>1, <1>2, <1>3 DEF Inv

LEMMA MainStep ==
  ASSUME Inv, MainTask \/ Spurious
  PROVE  Inv'
<1> USE EventLoopAssumption
    DEF Inv, TypeOK, Holds, Announced, Callers, NoOwner, Main, Goto, mainVars, callerVars
<1>1. CASE Test
  BY <1>1 DEF Test
<1>2. CASE Process
  BY <1>2 DEF Process
<1>3. CASE PollReturns
  BY <1>3 DEF PollReturns
<1>4. CASE Lock
  BY <1>4 DEF Lock
<1>5. CASE Wait
  BY <1>5 DEF Wait
<1>6. CASE Timeout \/ Spurious
  BY <1>6 DEF Timeout, Spurious
<1>7. CASE Relock
  BY <1>7 DEF Relock
<1>8. CASE Unlock
  BY <1>8 DEF Unlock
<1> QED
  BY <1>1, <1>2, <1>3, <1>4, <1>5, <1>6, <1>7, <1>8 DEF MainTask

LEMMA CallerStep ==
  ASSUME Inv, NEW c \in Callers,
         \/ c \in Posters /\ Post(c)
         \/ c \in Handlers /\ SignalArrives(c)
         \/ signal_event_loop(c)
         \/ c \in Handlers /\ SetQuit(c)
  PROVE  Inv'
<1> USE EventLoopAssumption
    DEF Inv, TypeOK, Callers, NoOwner, Main, Step, mainVars
<1>1. CASE c \in Posters /\ Post(c)
  BY <1>1 DEF Post, Holds, Announced
<1>2. CASE c \in Handlers /\ SignalArrives(c)
  BY <1>2 DEF SignalArrives, Holds, Announced
<1>3. CASE SignalLock(c)
  BY <1>3 DEF SignalLock, Holds, Announced
<1>4. CASE CondSignal(c)
  <2>1. loop # "locked"
    BY <1>4 DEF CondSignal, Holds
  <2>2. TypeOK' /\ Holds'
    BY <1>4 DEF CondSignal, Holds
  <2>3. Announced'
    BY <1>4, <2>1 DEF CondSignal, Announced
  <2> QED
    BY <2>2, <2>3
<1>5. CASE SignalUnlock(c)
  BY <1>5 DEF SignalUnlock, Holds, Announced
<1>6. CASE c \in Handlers /\ SetQuit(c)
  BY <1>6 DEF SetQuit, Holds, Announced
<1> QED
  BY <1>1, <1>2, <1>3, <1>4, <1>5, <1>6 DEF signal_event_loop

LEMMA StepInv == Inv /\ [Next]_vars => Inv'
<1> SUFFICES ASSUME Inv, [Next]_vars PROVE Inv'
  OBVIOUS
<1>1. CASE MainTask \/ Spurious
  BY <1>1, MainStep
<1>2. ASSUME NEW p \in Posters, Post(p) \/ signal_event_loop(p) PROVE Inv'
  BY <1>2, CallerStep DEF Callers
<1>3. ASSUME NEW h \in Handlers, SignalArrives(h) \/ handle_signal(h) PROVE Inv'
  BY <1>3, CallerStep DEF Callers, handle_signal
<1>4. CASE UNCHANGED vars
  BY <1>4 DEF vars, mainVars, callerVars, Inv, TypeOK, Holds, Announced
<1> QED
  BY <1>1, <1>2, <1>3, <1>4 DEF Next

LEMMA Invariance == Spec => []Inv
  BY InitInv, StepInv, PTL DEF Spec

\* The state keeps its shape for any number of callers.
THEOREM TypeCorrect == Spec => []TypeOK
  BY Invariance, PTL DEF Inv

\* The stretch without the mutex between oc_main_poll's return and
\* pthread_mutex_lock is the only place where the server can lose a wake-up:
\* asleep over an event, the loop has missed a signal there, or the signal is
\* still to come.
THEOREM LostWakeupWindow == Spec => []AsleepOnlyIfMissed
<1>1. Inv => AsleepOnlyIfMissed
  BY DEF Inv, Announced, AsleepOnlyIfMissed
<1> QED
  BY <1>1, Invariance, PTL

\* `mutex' excludes: the main task and a caller of signal_event_loop are never
\* both between its lock and its unlock.
Excludes ==
  \A c \in Callers :
    caller[c] \in {"signal", "unlock"} => loop \notin {"locked", "unlock"}

THEOREM MutualExclusion == Spec => []Excludes
<1>1. Inv => Excludes
  BY EventLoopAssumption DEF Inv, TypeOK, Holds, Excludes, Callers, Main
<1> QED
  BY <1>1, Invariance, PTL
=============================================================================
