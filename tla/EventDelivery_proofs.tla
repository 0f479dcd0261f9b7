------------------------- MODULE EventDelivery_proofs -------------------------
(***************************************************************************)
(* The network thread and the main loop together, for any sockets, pool and *)
(* queues: a loop asleep over events had a signal lost for each.            *)
(***************************************************************************)
EXTENDS EventDelivery, NetworkThread_proofs

\* Who is where in signal_event_loop and the loop, and the mutex that keeps them
\* apart.
Turns ==
  /\ caller \in [{Net} -> {"idle", "call", "signal", "unlock"}]
  /\ loop \in {"test", "poll", "lock", "locked", "waiting", "relock", "unlock", "shutdown"}
  /\ mutex \in {"nobody", "main", Net}
  /\ caller[Net] \in {"signal", "unlock"} <=> mutex = Net
  /\ loop \in {"locked", "unlock"} <=> mutex = "main"

\* The signal that the thread still has to give.
Owed == IF caller[Net] \in {"call", "signal"} THEN 1 ELSE 0

Backlog == Len(events)

\* From the return of oc_main_poll on, what is listed was missed or is owed a signal.
Covered ==
  /\ lost \in Nat
  /\ loop \in {"lock", "locked", "waiting"} => Backlog <= lost + Owed

IInv == Inv /\ Turns /\ Covered

LEMMA OwedNat == Owed \in Nat /\ Owed' \in Nat
BY DEF Owed

LEMMA BacklogNat == Inv => Backlog \in Nat
BY DEF Inv, Core, TypeOK, Backlog

LEMMA InitIInv == InitAll => IInv
<1> SUFFICES ASSUME InitAll
             PROVE  IInv
  OBVIOUS
<1>1. Inv
  BY InitInv DEF InitAll
<1>2. /\ loop = "test" /\ mutex = "nobody" /\ lost = 0
      /\ caller = [c \in {Net} |-> "idle"]
  BY DEF InitAll, Main!Init, Main!Callers, Main!NoOwner
<1>3. Turns
  BY <1>2 DEF Turns, Net
<1>4. Covered
  BY <1>2 DEF Covered
<1> QED
  BY <1>1, <1>3, <1>4 DEF IInv

\* To the network thread every step is one of its own or none.
LEMMA ThreadsOwn == [NextAll]_allVars => [Next]_vars
BY DEF NextAll, ThreadStep, ThreadAlone, NetworkEvent, SignalEventLoop, ReadFailure,
       MainStep, PollEvent, LoopAlone, Arrival, SpuriousWakeup, allVars,
       Next, Thread

\* The thread's other steps list nothing and take nothing off the list.
LEMMA AloneIInv ==
  ASSUME IInv, ThreadAlone \/ ReadFailure \/ Arrival
  PROVE  Turns' /\ Covered'
<1>1. UNCHANGED loopVars
  BY DEF ThreadAlone, ReadFailure, Arrival
<1>2. events' = events
  BY DEF ThreadAlone, ReadFailure, Arrival, Select, Allocate, BackToSelect, recvfrom,
         Failure, ReadFails, Arrive, stackVars
<1> QED
  BY <1>1, <1>2 DEF loopVars, IInv, Turns, Covered, Backlog, Owed

\* One event more on the list, and one more signal owed.
LEMMA NetworkEventIInv ==
  ASSUME IInv, NetworkEvent
  PROVE  Turns' /\ Covered'
<1>1. /\ caller[Net] = "idle" /\ caller' = [caller EXCEPT ![Net] = "call"]
      /\ UNCHANGED <<loop, mutex, lost>>
  BY DEF NetworkEvent, Main!Post, Main!Step, Main!mainVars
<1>2. Turns'
  BY <1>1 DEF IInv, Turns
<1>3. Owed = 0 /\ Owed' = 1
  BY <1>1 DEF IInv, Turns, Owed
<1>4. events \in Seq(Sources \X Number) /\ message \in Sources \X Number
      /\ events' = Append(events, message)
  BY DEF NetworkEvent, oc_network_event, Step, IInv, Inv, Core, TypeOK
<1>5. Backlog \in Nat /\ Backlog' = Backlog + 1
  BY <1>4 DEF Backlog
<1>6. Covered'
  <2>1. lost' = lost /\ loop' = loop /\ lost \in Nat
    BY <1>1 DEF IInv, Covered
  <2>2. loop \in {"lock", "locked", "waiting"} => Backlog <= lost
    <3>1. loop \in {"lock", "locked", "waiting"} => Backlog <= lost + Owed
      BY DEF IInv, Covered
    <3> QED
      BY <3>1, <2>1, <1>3
  <2>3. Backlog <= lost => Backlog' <= lost' + Owed'
    BY ONLY <2>1, <1>3, <1>5
  <2> QED
    BY <2>1, <2>2, <2>3 DEF Covered
<1> QED
  BY <1>2, <1>6

LEMMA SignalIInv ==
  ASSUME IInv, SignalEventLoop
  PROVE  Turns' /\ Covered'
<1>1. Backlog' = Backlog /\ Backlog \in Nat
  BY BacklogNat DEF SignalEventLoop, vars, Backlog, IInv
<1>2. CASE Main!SignalLock(Net) /\ UNCHANGED lost
  <2>1. /\ caller[Net] = "call" /\ caller' = [caller EXCEPT ![Net] = "signal"]
        /\ mutex = "nobody" /\ mutex' = Net /\ loop' = loop
    BY <1>2 DEF Main!SignalLock, Main!Step, Main!mainVars, Main!NoOwner
  <2>2. Turns'
    BY <2>1 DEF IInv, Turns, Net
  <2>3. Owed' = Owed
    BY <2>1 DEF IInv, Turns, Owed
  <2> QED
    BY <1>1, <1>2, <2>1, <2>2, <2>3 DEF IInv, Covered
<1>3. CASE Main!SignalUnlock(Net) /\ UNCHANGED lost
  <2>1. /\ caller[Net] = "unlock" /\ caller' = [caller EXCEPT ![Net] = "idle"]
        /\ mutex' = "nobody" /\ loop' = loop
    BY <1>3 DEF Main!SignalUnlock, Main!Step, Main!mainVars, Main!NoOwner
  <2>2. Turns'
    BY <2>1 DEF IInv, Turns, Net
  <2>3. Owed' = Owed
    BY <2>1 DEF IInv, Turns, Owed
  <2> QED
    BY <1>1, <1>3, <2>1, <2>2, <2>3 DEF IInv, Covered
<1>4. CASE Main!CondSignal(Net) /\ lost' = IF loop = "lock" THEN lost + 1 ELSE lost
  <2>1. /\ caller[Net] = "signal" /\ caller' = [caller EXCEPT ![Net] = "unlock"]
        /\ loop' = IF loop = "waiting" THEN "relock" ELSE loop
        /\ mutex' = mutex
    BY <1>4 DEF Main!CondSignal, Main!Step
  <2>2. loop # "locked"
    BY <2>1 DEF IInv, Turns, Net
  <2>3. Turns'
    BY <2>1 DEF IInv, Turns
  <2>4. Owed = 1 /\ Owed' = 0
    BY <2>1 DEF IInv, Turns, Owed
  <2>5. lost \in Nat /\ lost' \in Nat
    BY <1>4 DEF IInv, Covered
  <2>6. loop' \in {"lock", "locked", "waiting"} => loop = "lock" /\ lost' = lost + 1
    BY <1>4, <2>1, <2>2
  <2>7. loop = "lock" => Backlog <= lost + Owed
    BY DEF IInv, Covered
  <2>8. lost' = lost + 1 /\ Backlog <= lost + Owed => Backlog' <= lost' + Owed'
    BY ONLY <1>1, <2>4, <2>5
  <2> QED
    BY <2>3, <2>5, <2>6, <2>7, <2>8 DEF Covered
<1> QED
  BY <1>2, <1>3, <1>4 DEF SignalEventLoop

LEMMA LoopIInv ==
  ASSUME IInv, MainStep \/ SpuriousWakeup
  PROVE  Turns' /\ Covered'
<1>1. lost \in Nat /\ Owed' \in Nat
  BY OwedNat DEF IInv, Covered
<1>2. CASE PollEvent
  <2>1. loop = "poll" /\ UNCHANGED <<loop, mutex, caller, lost>>
    BY <1>2 DEF PollEvent, Main!Process, Main!mainVars, Main!callerVars
  <2> QED
    BY <2>1 DEF IInv, Turns, Covered
<1>3. CASE UNCHANGED vars /\ Main!Test /\ lost' = 0
  <2>1. loop = "test" /\ loop' \in {"poll", "shutdown"} /\ UNCHANGED <<mutex, caller>>
    BY <1>3 DEF Main!Test, Main!Goto, Main!callerVars
  <2> QED
    BY <1>3, <2>1 DEF IInv, Turns, Covered
<1>4. CASE UNCHANGED <<vars, lost>> /\ Main!PollReturns
  <2>1. loop = "poll" /\ loop' = "lock" /\ UNCHANGED <<mutex, caller>> /\ Backlog = 0
    BY <1>4 DEF Main!PollReturns, Main!Goto, Main!callerVars, Backlog
  <2>2. Turns'
    BY <2>1 DEF IInv, Turns
  <2>3. Backlog' = 0 /\ lost' = lost
    BY <1>4, <2>1 DEF vars, Backlog
  <2>4. Backlog' <= lost' + Owed'
    <3>1. \A m, n \in Nat : 0 <= m + n
      OBVIOUS
    <3>2. 0 <= lost + Owed'
      BY ONLY <1>1, <3>1
    <3> QED
      BY <2>3, <3>2
  <2> QED
    BY <1>1, <2>2, <2>3, <2>4 DEF Covered
<1>5. CASE UNCHANGED <<vars, lost>> /\ (Main!Lock \/ Main!Wait)
  <2>1. /\ loop \in {"lock", "locked"} /\ caller' = caller
        /\ \/ loop = "lock" /\ mutex = "nobody" /\ loop' = "locked" /\ mutex' = "main"
           \/ loop = "locked" /\ loop' = "waiting" /\ mutex' = "nobody"
    BY <1>5 DEF Main!Lock, Main!Wait, Main!Goto, Main!callerVars, Main!NoOwner, Main!Main
  <2>2. Turns'
    BY <2>1 DEF IInv, Turns, Net
  <2>3. Backlog' = Backlog /\ Owed' = Owed /\ lost' = lost
    BY <1>5, <2>1 DEF vars, Backlog, Owed
  <2> QED
    BY <2>1, <2>2, <2>3 DEF IInv, Covered
<1>6. CASE UNCHANGED <<vars, lost>>
             /\ (Main!Timeout \/ Main!Spurious \/ Main!Relock \/ Main!Unlock)
  <2>1. /\ caller' = caller
        /\ \/ loop = "waiting" /\ loop' = "relock" /\ mutex' = mutex
           \/ loop = "relock" /\ mutex = "nobody" /\ loop' = "unlock" /\ mutex' = "main"
           \/ loop = "unlock" /\ loop' = "test" /\ mutex' = "nobody"
    BY <1>6 DEF Main!Timeout, Main!Spurious, Main!Relock, Main!Unlock, Main!Goto,
                Main!callerVars, Main!NoOwner, Main!Main
  <2>2. Turns'
    BY <2>1 DEF IInv, Turns, Net
  <2> QED
    BY <1>1, <1>6, <2>1, <2>2 DEF Covered
<1> QED
  BY <1>2, <1>3, <1>4, <1>5, <1>6 DEF MainStep, LoopAlone, SpuriousWakeup

LEMMA NextIInv == IInv /\ [NextAll]_allVars => IInv'
<1> SUFFICES ASSUME IInv, [NextAll]_allVars
             PROVE  IInv'
  OBVIOUS
<1>1. Inv'
  BY ThreadsOwn, NextInv DEF IInv
<1>2. Turns' /\ Covered'
  <2>1. CASE ThreadAlone \/ ReadFailure \/ Arrival
    BY <2>1, AloneIInv
  <2>2. CASE NetworkEvent
    BY <2>2, NetworkEventIInv
  <2>3. CASE SignalEventLoop
    BY <2>3, SignalIInv
  <2>4. CASE MainStep \/ SpuriousWakeup
    BY <2>4, LoopIInv
  <2>5. CASE UNCHANGED allVars
    BY <2>5 DEF allVars, vars, loopVars, IInv, Turns, Covered, Backlog, Owed
  <2> QED
    BY <2>1, <2>2, <2>3, <2>4, <2>5 DEF NextAll, ThreadStep
<1> QED
  BY <1>1, <1>2 DEF IInv

-----------------------------------------------------------------------------

\* The thread's own invariant, the turns at the mutex, and a lost or owed signal for
\* every listed event, together.
THEOREM DeliveryInvariant == SpecAll => []IInv
BY InitIInv, NextIInv, PTL DEF SpecAll

\* The loop sleeps over no more events than signals were lost in its round, but for
\* the one the thread is about to signal (server_freertos.c:261-262).
THEOREM SleptOverIsMissed == SpecAll => []SleepersWereSignalled
<1>1. IInv => SleepersWereSignalled
  BY DEF IInv, Covered, Backlog, Owed, SleepersWereSignalled
<1> QED
  BY DeliveryInvariant, <1>1, PTL

-----------------------------------------------------------------------------
(* The whole takes the main loop's steps and no others. *)

\* The stack has room for the event in hand: its message is one of the pool's.
LEMMA RoomForTheEvent ==
  ASSUME Inv, pc = "event"
  PROVE  Len(events) < PoolSize
<1>1. Len(events) \in Nat /\ free \in Nat /\ PoolSize \in Nat
  BY NetworkThreadAssumption DEF Inv, Core, TypeOK
<1>2. free + 1 + Len(events) = PoolSize
  BY DEF Inv, Core, PoolConserved
<1> QED
  BY ONLY <1>1, <1>2

\* So the loop's bound on its work, PoolSize here, never holds oc_network_event up.
THEOREM NetworkEventNotRefused ==
  SpecAll => [](pc = "event" => Len(events) < PoolSize)
<1>1. IInv => (pc = "event" => Len(events) < PoolSize)
  BY RoomForTheEvent DEF IInv
<1> QED
  BY DeliveryInvariant, <1>1, PTL

LEMMA ListUntouched ==
  ASSUME ThreadAlone \/ ReadFailure \/ Arrival
  PROVE  UNCHANGED Main!vars
<1>1. UNCHANGED loopVars
  BY DEF ThreadAlone, ReadFailure, Arrival
<1>2. events' = events
  BY DEF ThreadAlone, ReadFailure, Arrival, Select, Allocate, BackToSelect, recvfrom,
         Failure, ReadFails, Arrive, stackVars
<1> QED
  BY <1>1, <1>2 DEF loopVars, Main!vars, Main!mainVars, Main!callerVars

LEMMA LoopsOwn == [NextAll]_allVars => [Main!Next]_(Main!vars)
<1> SUFFICES ASSUME [NextAll]_allVars PROVE [Main!Next]_(Main!vars)
  OBVIOUS
<1>1. CASE ThreadAlone \/ ReadFailure \/ Arrival
  BY <1>1, ListUntouched
<1>2. CASE NetworkEvent
  BY <1>2 DEF NetworkEvent, Main!Next
<1>3. CASE SignalEventLoop
  BY <1>3 DEF SignalEventLoop, Main!Next, Main!signal_event_loop
<1>4. CASE MainStep
  BY <1>4 DEF MainStep, PollEvent, LoopAlone, Main!Next, Main!MainTask
<1>5. CASE SpuriousWakeup
  BY <1>5 DEF SpuriousWakeup, Main!Next
<1>6. CASE UNCHANGED allVars
  BY <1>6 DEF allVars, vars, loopVars, Main!vars, Main!mainVars, Main!callerVars
<1> QED
  BY <1>1, <1>2, <1>3, <1>4, <1>5, <1>6 DEF NextAll, ThreadStep

\* Thread and loop together only do what the loop by itself may do, the list of
\* network events being its work: the safety half of ImplementsEventLoop.
THEOREM StepsOfEventLoop == SpecAll => Main!Init /\ [][Main!Next]_(Main!vars)
<1>1. InitAll => Main!Init
  BY DEF InitAll
<1> QED
  BY <1>1, LoopsOwn, PTL DEF SpecAll

-----------------------------------------------------------------------------
(* What is proved of the loop by itself holds of it here. *)

\* `lost' counts what `missed' only notes.
Switches ==
  /\ timer \in BOOLEAN /\ next_event \in BOOLEAN /\ quit = FALSE
  /\ missed \in BOOLEAN
  /\ missed <=> lost # 0

LEMMA InitSwitches == InitAll => Switches
BY DEF InitAll, Main!Init, Switches

LEMMA NextSwitches ==
  ASSUME lost \in Nat, Switches, [NextAll]_allVars
  PROVE  Switches'
<1> USE DEF Switches
<1>1. lost + 1 # 0
  OBVIOUS
<1>2. CASE ThreadAlone \/ ReadFailure \/ Arrival \/ UNCHANGED allVars
  BY <1>2 DEF ThreadAlone, ReadFailure, Arrival, allVars, loopVars
<1>3. CASE NetworkEvent
  BY <1>3 DEF NetworkEvent, Main!Post, Main!mainVars
<1>4. CASE SignalEventLoop
  <2>1. CASE (Main!SignalLock(Net) \/ Main!SignalUnlock(Net)) /\ UNCHANGED lost
    BY <2>1 DEF Main!SignalLock, Main!SignalUnlock, Main!mainVars
  <2>2. CASE Main!CondSignal(Net) /\ lost' = IF loop = "lock" THEN lost + 1 ELSE lost
    <3>1. UNCHANGED <<timer, next_event, quit>> /\ missed' = (missed \/ loop = "lock")
      BY <2>2 DEF Main!CondSignal
    <3>2. CASE loop = "lock"
      <4>1. lost' # 0
        BY <1>1, <2>2, <3>2
      <4>2. missed' = TRUE
        BY <3>1, <3>2
      <4> QED
        BY <3>1, <4>1, <4>2
    <3>3. CASE loop # "lock"
      <4>1. lost' = lost /\ missed' = missed
        BY <2>2, <3>1, <3>3
      <4> QED
        BY <3>1, <4>1
    <3> QED
      BY <3>2, <3>3
  <2> QED
    BY <1>4, <2>1, <2>2 DEF SignalEventLoop
<1>5. CASE PollEvent
  BY <1>5 DEF PollEvent, Main!Process, Main!mainVars, Main!callerVars
<1>6. CASE LoopAlone
  <2>1. CASE Main!Test /\ lost' = 0
    BY <2>1 DEF Main!Test, Main!callerVars
  <2>2. CASE Main!PollReturns /\ UNCHANGED lost
    BY <2>2 DEF Main!PollReturns, Main!callerVars
  <2>3. CASE (Main!Lock \/ Main!Wait \/ Main!Timeout \/ Main!Relock \/ Main!Unlock) /\ UNCHANGED lost
    BY <2>3 DEF Main!Lock, Main!Wait, Main!Timeout, Main!Relock, Main!Unlock, Main!callerVars
  <2> QED
    BY <1>6, <2>1, <2>2, <2>3 DEF LoopAlone
<1>7. CASE SpuriousWakeup
  BY <1>7 DEF SpuriousWakeup, Main!Spurious, Main!callerVars
<1> QED
  BY <1>2, <1>3, <1>4, <1>5, <1>6, <1>7 DEF NextAll, ThreadStep, MainStep

\* With the network thread as its only caller and its events as the work, the loop
\* keeps its own type, its mutex excludes, and it sleeps over an event only if it
\* missed a signal between oc_main_poll and the lock, or one is still to come
\* (server_freertos.c:261-262).
THEOREM LoopAsByItself == SpecAll => [](Main!TypeOK /\ Main!AsleepOnlyIfMissed)
<1>1. SpecAll => []Switches
  <2>1. IInv => lost \in Nat
    BY DEF IInv, Covered
  <2> QED
    BY <2>1, InitSwitches, NextSwitches, DeliveryInvariant, PTL DEF SpecAll
<1>2. IInv /\ Switches => Main!TypeOK
  <2> SUFFICES ASSUME IInv, Switches PROVE Main!TypeOK
    OBVIOUS
  <2>1. Len(events) \in 0..PoolSize
    <3>1. Len(events) \in Nat /\ free \in Nat /\ PoolSize \in Nat
      BY NetworkThreadAssumption DEF IInv, Inv, Core, TypeOK
    <3>2. free + Len(events) = PoolSize \/ free + 1 + Len(events) = PoolSize
      BY <3>1 DEF IInv, Inv, Core, PoolConserved
    <3> QED
      BY ONLY <3>1, <3>2
  <2>2. Main!Callers = {Net}
    BY DEF Main!Callers
  <2>3. Main!Holds
    BY <2>2 DEF IInv, Turns, Main!Holds, Main!Main
  <2> QED
    BY <2>1, <2>2, <2>3 DEF IInv, Turns, Switches, Main!TypeOK, Main!NoOwner, Main!Main
<1>3. IInv /\ Switches => Main!AsleepOnlyIfMissed
  <2> SUFFICES ASSUME IInv, Switches, loop = "waiting", Len(events) > 0, ~missed
               PROVE  caller[Net] \in {"call", "signal"}
    BY DEF Main!AsleepOnlyIfMissed
  <2>1. lost = 0 /\ Backlog <= lost + Owed
    BY DEF IInv, Covered, Switches
  <2>2. Owed # 0
    BY <2>1 DEF Backlog
  <2> QED
    BY <2>2 DEF Owed
<1> QED
  BY <1>1, <1>2, <1>3, DeliveryInvariant, PTL

-----------------------------------------------------------------------------

\* With the main loop taking the events off the list, between its own waiting, locking
\* and waking, the handlers still see each socket's datagrams in the order of their
\* arrival and each at most once.
THEOREM DeliveredInOrder == SpecAll => ImplementsPipes
<1>1. InitAll => Pipes!Init
  BY InitPipes DEF InitAll
<1>2. IInv /\ [NextAll]_allVars => [Pipes!Next]_(Pipes!vars)
  BY ThreadsOwn, NextPipes DEF IInv, Inv, Core
<1> QED
  BY <1>1, <1>2, DeliveryInvariant, PTL DEF SpecAll, ImplementsPipes, Pipes!Spec
=============================================================================
