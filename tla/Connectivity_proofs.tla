------------------------- MODULE Connectivity_proofs -------------------------
(***************************************************************************)
(* Set-up and shutdown leave nothing behind, and a device that is up hears, *)
(* in every build, for any pool, any queues and any number of set-ups.      *)
(***************************************************************************)
EXTENDS Connectivity, NetworkThread_proofs

Shut == {"none", "closed"}

ConnType ==
  /\ family \in {"IPv4", "IPv6"} /\ memory \in {"static", "dynamic"}
  /\ main \in {"idle", "setup", "up", "failed", "halted"} \cup Closing
  /\ done \in 0..Len(Calls)
  /\ inits \in Nat
  /\ context \in {"none", "there"} /\ terminate \in {0, 1}
  /\ sock \in [Sources -> Shut \cup {"open", "bound"}]
  /\ thread \in {"none", "running", "selecting", "deleted"}

\* The thread exists from the end of a set-up to the join, its context longer.
Lifetimes ==
  /\ main \in {"idle", "setup", "failed", "halted"} => thread = "none"
  /\ dynamic /\ main = "idle" => context = "none"
  /\ ~dynamic => context = "there"
  /\ main \in {"setup", "up", "failed"} \cup Closing => context = "there" /\ inits > 0

\* A static context, and no other, carries `terminate' from a shutdown into every later
\* set-up; without it no thread ends, and with it none comes to its select.
FlagLeftOver ==
  /\ ~dynamic /\ main = "idle" => (terminate = 1 <=> inits > 0)
  /\ main \in {"setup", "up", "failed"} => (terminate = 1 <=> Reused)
  /\ main \in Closing => terminate = 1
  /\ thread = "deleted" => terminate = 1
  /\ main = "up" /\ thread = "selecting" => terminate = 0

\* The places in the set-up at which the sockets are bound.
ServerAt == IF ipv4 THEN 3 ELSE 4
McastAt  == IF ipv4 THEN 7 ELSE 8

\* How far each socket has come, as long as no call was refused.
Progress ==
  /\ main \in {"setup", "up"} /\ refused # "none" => ipv4
  /\ main = "setup" /\ refused = "none" =>
       /\ done >= ServerAt => sock[Server] = "bound"
       /\ done >= McastAt => sock[Mcast] = "bound"
  /\ main = "up" /\ refused = "none" => \A s \in Sources : sock[s] = "bound"

\* What shutdown has closed stays closed.
Cleared ==
  /\ main \in {"close mcast", "join", "idle"} => sock[Server] \in Shut
  /\ main \in {"join", "idle"} => sock[Mcast] \in Shut

IInv == ConnType /\ Lifetimes /\ FlagLeftOver /\ Progress /\ Cleared

LEMMA TwoSockets ==
  Sources = {Server, Mcast} /\ Server # Mcast
<1>1. DOMAIN Sockets = 1..2
  BY NetworkThreadAssumption, ConnectivityAssumption
<1> QED
  BY <1>1, NetworkThreadAssumption DEF Sources, Server, Mcast

LEMMA CallCount == Len(Calls) = IF ipv4 THEN 7 ELSE 8
  BY DEF Calls, SetUp4, SetUp6

LEMMA CallCountNat == Len(Calls) \in Nat
  BY CallCount

LEMMA Places ==
  ServerAt \in Nat /\ McastAt \in Nat /\ 2 < ServerAt /\ ServerAt < McastAt /\ McastAt = Len(Calls)
<1>1. CASE ipv4
  BY <1>1, CallCount DEF ServerAt, McastAt
<1>2. CASE ~ipv4
  BY <1>2, CallCount DEF ServerAt, McastAt
<1> QED
  BY <1>1, <1>2

LEMMA DoneNat == ASSUME ConnType PROVE done \in Nat
<1>1. done \in 0..Len(Calls)
  BY DEF ConnType
<1> QED
  BY <1>1, CallCountNat

LEMMA SocketsCreatedSecond ==
  /\ \A k \in 1..7 : SetUp4[k] = "socket" => k = 2
  /\ \A k \in 1..8 : SetUp6[k] = "socket" => k = 2
<1>1. ASSUME NEW k \in 1..7, SetUp4[k] = "socket", k # 2 PROVE FALSE
  <2>1. CASE k = 1 BY <1>1, <2>1 DEF SetUp4
  <2>2. CASE k = 3 BY <1>1, <2>2 DEF SetUp4
  <2>3. CASE k = 4 BY <1>1, <2>3 DEF SetUp4
  <2>4. CASE k = 5 BY <1>1, <2>4 DEF SetUp4
  <2>5. CASE k = 6 BY <1>1, <2>5 DEF SetUp4
  <2>6. CASE k = 7 BY <1>1, <2>6 DEF SetUp4
  <2> QED
    BY <1>1, <2>1, <2>2, <2>3, <2>4, <2>5, <2>6
<1>2. ASSUME NEW k \in 1..8, SetUp6[k] = "socket", k # 2 PROVE FALSE
  <2>1. CASE k = 1 BY <1>2, <2>1 DEF SetUp6
  <2>2. CASE k = 3 BY <1>2, <2>2 DEF SetUp6
  <2>3. CASE k = 4 BY <1>2, <2>3 DEF SetUp6
  <2>4. CASE k = 5 BY <1>2, <2>4 DEF SetUp6
  <2>5. CASE k = 6 BY <1>2, <2>5 DEF SetUp6
  <2>6. CASE k = 7 BY <1>2, <2>6 DEF SetUp6
  <2>7. CASE k = 8 BY <1>2, <2>7 DEF SetUp6
  <2> QED
    BY <1>2, <2>1, <2>2, <2>3, <2>4, <2>5, <2>6, <2>7
<1> QED
  BY <1>1, <1>2

\* How many calls are done tells which call is about to be made.
LEMMA Place ==
  ASSUME ConnType, NEW call, Calling(call)
  PROVE  /\ main = "setup" /\ done + 1 \in 1..Len(Calls)
         /\ call = "socket" => done = 1
         /\ done + 1 = ServerAt => call = "bind server"
         /\ done + 1 = McastAt => call = "bind mcast"
<1>1. done \in 0..Len(Calls) /\ done < Len(Calls)
  BY DEF ConnType, Calling
<1>2. Len(Calls) = IF ipv4 THEN 7 ELSE 8
  BY CallCount
<1>3. call = Calls[done + 1] /\ main = "setup"
  BY DEF Calling
<1>4. CASE ipv4
  <2>1. Calls = SetUp4
    BY <1>4 DEF Calls
  <2>5. Len(Calls) = 7
    BY <1>2, <1>4
  <2>6. done + 1 \in 1..7
    BY <1>1, <2>5
  <2>2. call = "socket" => done = 1
    BY <1>1, <1>3, <2>1, <2>6, SocketsCreatedSecond
  <2>3. done = 2 => call = "bind server"
    <3>1. SetUp4[3] = "bind server"
      BY DEF SetUp4
    <3>2. ASSUME done = 2 PROVE done + 1 = 3
      BY <3>2
    <3> QED
      BY <1>3, <2>1, <3>1, <3>2
  <2>4. done = 6 => call = "bind mcast"
    <3>1. SetUp4[7] = "bind mcast"
      BY DEF SetUp4
    <3>2. ASSUME done = 6 PROVE done + 1 = 7
      BY <3>2
    <3> QED
      BY <1>3, <2>1, <3>1, <3>2
  <2> QED
    <3>1. ServerAt = 3 /\ McastAt = 7 /\ done \in Nat
      BY <1>4, DoneNat DEF ServerAt, McastAt
    <3>2. ASSUME done + 1 = ServerAt PROVE call = "bind server"
      <4>1. done = 2
        BY ONLY <3>1, <3>2
      <4> QED
        BY <2>3, <4>1
    <3>3. ASSUME done + 1 = McastAt PROVE call = "bind mcast"
      <4>1. done = 6
        BY ONLY <3>1, <3>3
      <4> QED
        BY <2>4, <4>1
    <3> QED
      BY <1>3, <2>2, <2>5, <2>6, <3>2, <3>3
<1>5. CASE ~ipv4
  <2>1. Calls = SetUp6
    BY <1>5 DEF Calls
  <2>5. Len(Calls) = 8
    BY <1>2, <1>5
  <2>6. done + 1 \in 1..8
    BY <1>1, <2>5
  <2>2. call = "socket" => done = 1
    BY <1>1, <1>3, <2>1, <2>6, SocketsCreatedSecond
  <2>3. done = 3 => call = "bind server"
    <3>1. SetUp6[4] = "bind server"
      BY DEF SetUp6
    <3>2. ASSUME done = 3 PROVE done + 1 = 4
      BY <3>2
    <3> QED
      BY <1>3, <2>1, <3>1, <3>2
  <2>4. done = 7 => call = "bind mcast"
    <3>1. SetUp6[8] = "bind mcast"
      BY DEF SetUp6
    <3>2. ASSUME done = 7 PROVE done + 1 = 8
      BY <3>2
    <3> QED
      BY <1>3, <2>1, <3>1, <3>2
  <2> QED
    <3>1. ServerAt = 4 /\ McastAt = 8 /\ done \in Nat
      BY <1>5, DoneNat DEF ServerAt, McastAt
    <3>2. ASSUME done + 1 = ServerAt PROVE call = "bind server"
      <4>1. done = 3
        BY ONLY <3>1, <3>2
      <4> QED
        BY <2>3, <4>1
    <3>3. ASSUME done + 1 = McastAt PROVE call = "bind mcast"
      <4>1. done = 7
        BY ONLY <3>1, <3>3
      <4> QED
        BY <2>4, <4>1
    <3> QED
      BY <1>3, <2>2, <2>5, <2>6, <3>2, <3>3
<1> QED
  BY <1>4, <1>5

LEMMA InitIInv ==
  ASSUME InitConnectivity
  PROVE  IInv
<1>1. ConnType
  <2>1. Len(Calls) \in Nat
    BY CallCount
  <2> QED
    BY <2>1 DEF InitConnectivity, ConnType, Shut
<1>2. Lifetimes /\ FlagLeftOver /\ Progress
  BY DEF InitConnectivity, Lifetimes, FlagLeftOver, Reused, Progress, Closing
<1>3. Cleared
  BY TwoSockets DEF InitConnectivity, Cleared, Shut
<1> QED
  BY <1>1, <1>2, <1>3 DEF IInv

\* Whatever leaves the set-up's own state alone.
LEMMA Untouched ==
  ASSUME IInv, UNCHANGED <<build, mainVars>>, thread' \in {thread, "running", "selecting", "deleted"},
         thread' # thread => thread \in {"running", "selecting"},
         thread' = "deleted" => terminate = 1 \/ thread = "deleted",
         thread' = "selecting" => terminate = 0 \/ thread = "selecting"
  PROVE  IInv'
<1> USE DEF IInv, build, ipv4, dynamic, mainVars
<1>1. Calls' = Calls
  BY DEF Calls
<1>2. ConnType'
  BY <1>1 DEF ConnType
<1>3. Lifetimes'
  BY DEF Lifetimes
<1>4. FlagLeftOver'
  BY DEF FlagLeftOver, Reused
<1>5. Progress'
  <2>1. ServerAt' = ServerAt /\ McastAt' = McastAt /\ (ipv4 <=> ipv4')
    BY DEF ServerAt, McastAt, ipv4
  <2> QED
    BY <2>1 DEF Progress
<1>6. Cleared'
  BY DEF Cleared
<1> QED
  BY <1>2, <1>3, <1>4, <1>5, <1>6

LEMMA SetUpBegins ==
  ASSUME IInv, oc_connectivity_init
  PROVE  IInv'
<1> USE DEF IInv, build, ipv4, dynamic, oc_connectivity_init, Halt
<1>1. Calls' = Calls /\ Len(Calls) \in Nat
  BY CallCount DEF Calls, ipv4
<1>2. ConnType'
  BY <1>1 DEF ConnType, Shut
<1>3. Lifetimes'
  <2>1. inits' > 0 /\ thread' = "none" /\ dynamic' = dynamic /\ main' \in {"setup", "halted"}
    BY DEF Lifetimes, ConnType
  <2>2. CASE main' = "setup"
    BY <2>1, <2>2 DEF Lifetimes, Closing
  <2>3. CASE main' = "halted"
    BY <2>1, <2>3 DEF Lifetimes, Closing
  <2> QED
    BY <2>1, <2>2, <2>3
<1>4. FlagLeftOver'
  <2>1. thread' = "none" /\ dynamic' = dynamic /\ inits \in Nat /\ inits' = inits + 1
    BY DEF Lifetimes, ConnType
  <2>2. CASE main' = "setup"
    BY <2>1, <2>2 DEF FlagLeftOver, Reused, Closing
  <2>3. CASE main' = "halted"
    BY <2>1, <2>3 DEF FlagLeftOver, Closing
  <2> QED
    BY <2>2, <2>3
<1>5. Progress'
  <2>1. ServerAt' = ServerAt /\ McastAt' = McastAt /\ 0 < ServerAt /\ 0 < McastAt
    BY Places DEF ServerAt, McastAt
  <2>2. main' = "halted" \/ (main' = "setup" /\ done' = 0 /\ refused' = "none")
    OBVIOUS
  <2> QED
    BY <2>1, <2>2, Places DEF Progress
<1>6. Cleared'
  BY DEF Cleared
<1> QED
  BY <1>2, <1>3, <1>4, <1>5, <1>6

\* A set-up step that halts, or is refused, asks nothing of the sockets.
LEMMA CallFails ==
  ASSUME IInv, NEW call, Calling(call), Refuse(call) \/ Halt,
         UNCHANGED <<build, inits, context, terminate, thread>>,
         sock' \in [Sources -> Shut \cup {"open", "bound"}], call # "none"
  PROVE  IInv'
<1> USE DEF IInv, build, ipv4, dynamic, Refuse, Halt
<1>1. Calls' = Calls /\ Len(Calls) \in Nat /\ main = "setup"
  BY CallCount DEF Calls, Calling
<1>2. ConnType'
  BY <1>1 DEF ConnType
<1>3. Lifetimes'
  BY <1>1 DEF Lifetimes, Closing
<1>4. FlagLeftOver'
  BY <1>1 DEF FlagLeftOver, Reused, Closing, Lifetimes
<1>5. Progress'
  BY <1>1 DEF Progress, ConnType
<1>6. Cleared'
  BY <1>1 DEF Cleared
<1> QED
  BY <1>2, <1>3, <1>4, <1>5, <1>6

\* A call that succeeds keeps the account of the sockets, if it binds the one it
\* should and touches no other.
LEMMA CallSucceeds ==
  ASSUME IInv, NEW call, Succeed(call),
         UNCHANGED <<build, inits, context, terminate, thread>>,
         sock' \in [Sources -> Shut \cup {"open", "bound"}],
         call # "socket" => \A s \in Sources : sock[s] = "bound" => sock'[s] = "bound",
         call = "bind server" => sock'[Server] = "bound",
         call = "bind mcast" => sock'[Mcast] = "bound"
  PROVE  IInv'
<1> USE DEF IInv, build
<1>0. /\ main = "setup" /\ done + 1 \in 1..Len(Calls)
      /\ call = "socket" => done = 1
      /\ done + 1 = ServerAt => call = "bind server"
      /\ done + 1 = McastAt => call = "bind mcast"
  BY Place DEF Succeed
<1>1. Calls' = Calls /\ done \in Nat /\ done' = done + 1 /\ main' = "setup" /\ refused' = refused
  <2>1. Calls' = Calls
    BY DEF Calls, ipv4
  <2>2. done \in Nat
    BY DoneNat
  <2> QED
    BY <1>0, <2>1, <2>2 DEF Succeed
<1>2. ConnType'
  <2>1. done' \in 0..Len(Calls')
    <3>1. done + 1 \in 1..Len(Calls)
      BY <1>0
    <3>2. done' = done + 1 /\ Calls' = Calls
      BY <1>1
    <3> QED
      BY ONLY <3>1, <3>2, CallCountNat
  <2> QED
    BY <1>1, <2>1 DEF ConnType
<1>3. Lifetimes'
  BY <1>0, <1>1 DEF Lifetimes, dynamic
<1>4. FlagLeftOver'
  BY <1>0, <1>1 DEF FlagLeftOver, Reused, Closing, dynamic
<1>5. ASSUME refused = "none", done' >= ServerAt
      PROVE  sock'[Server] = "bound"
  <2>1. CASE done + 1 = ServerAt
    BY <1>0, <2>1
  <2>2. CASE done >= ServerAt
    <3>1. sock[Server] = "bound" /\ Server \in Sources
      BY <1>0, <1>5, <2>2, TwoSockets DEF Progress
    <3>2. done # 1
      BY ONLY <2>2, Places
    <3> QED
      BY <1>0, <3>1, <3>2
  <2>3. done + 1 = ServerAt \/ done >= ServerAt
    <3>1. done \in Nat /\ done' = done + 1
      BY <1>1
    <3>2. done' >= ServerAt
      BY <1>5
    <3> QED
      BY ONLY <3>1, <3>2, Places
  <2> QED
    BY <2>1, <2>2, <2>3
<1>6. ASSUME refused = "none", done' >= McastAt
      PROVE  sock'[Mcast] = "bound"
  <2>1. CASE done + 1 = McastAt
    BY <1>0, <2>1
  <2>2. CASE done >= McastAt
    <3>1. sock[Mcast] = "bound" /\ Mcast \in Sources
      BY <1>0, <1>6, <2>2, TwoSockets DEF Progress
    <3>2. done # 1
      BY ONLY <2>2, Places
    <3> QED
      BY <1>0, <3>1, <3>2
  <2>3. done + 1 = McastAt \/ done >= McastAt
    <3>1. done \in Nat /\ done' = done + 1
      BY <1>1
    <3>2. done' >= McastAt
      BY <1>6
    <3> QED
      BY ONLY <3>1, <3>2, Places
  <2> QED
    BY <2>1, <2>2, <2>3
<1>7. Progress'
  BY <1>0, <1>1, <1>5, <1>6 DEF Progress, ServerAt, McastAt, ipv4
<1>8. Cleared'
  BY <1>1 DEF Cleared
<1> QED
  BY <1>2, <1>3, <1>4, <1>7, <1>8

LEMMA SetUpStepIInv ==
  ASSUME IInv, SetUpStep
  PROVE  IInv'
<1> USE DEF SetUpStep
<1>1. sock \in [Sources -> Shut \cup {"open", "bound"}]
  BY DEF IInv, ConnType
<1>2. CASE GetAddress \/ configure_mcast_socket \/ OtherCall
  <2>1. UNCHANGED sock
    BY <1>2 DEF GetAddress, configure_mcast_socket, OtherCall
  <2>2. PICK call \in {"address", "join", "v6only", "getsockname", "reuse"} :
          Succeed(call) \/ Refuse(call) \/ (Calling(call) /\ Halt)
    BY <1>2 DEF GetAddress, configure_mcast_socket, OtherCall
  <2>3. CASE Succeed(call)
    BY <1>1, <2>1, <2>2, <2>3, CallSucceeds
  <2>4. CASE Refuse(call) \/ (Calling(call) /\ Halt)
    BY <1>1, <2>1, <2>2, <2>4, CallFails DEF Refuse
  <2> QED
    BY <2>2, <2>3, <2>4
<1>3. CASE CreateSockets
  <2>1. sock' \in [Sources -> Shut \cup {"open", "bound"}]
    BY <1>3 DEF CreateSockets, Shut
  <2>2. Succeed("socket") \/ Refuse("socket")
    BY <1>3 DEF CreateSockets
  <2>3. CASE Succeed("socket")
    BY <2>1, <2>3, CallSucceeds
  <2>4. CASE Refuse("socket")
    BY <2>1, <2>4, CallFails DEF Refuse
  <2> QED
    BY <2>2, <2>3, <2>4
<1>4. ASSUME NEW s \in Sources, NEW call, Bind(s, call), call # "socket", call # "none",
             call = "bind server" => s = Server, call = "bind mcast" => s = Mcast
      PROVE  IInv'
  <2>1. CASE Succeed(call) /\ sock' = [sock EXCEPT ![s] = "bound"]
    <3>1. sock' \in [Sources -> Shut \cup {"open", "bound"}] /\ sock'[s] = "bound"
          /\ \A t \in Sources : sock[t] = "bound" => sock'[t] = "bound"
      BY <1>1, <2>1
    <3> QED
      BY <1>4, <2>1, <3>1, CallSucceeds
  <2>2. CASE Refuse(call) /\ UNCHANGED sock
    BY <1>1, <1>4, <2>2, CallFails DEF Refuse
  <2> QED
    BY <1>4, <2>1, <2>2 DEF Bind
<1>5. Server \in Sources /\ Mcast \in Sources
  BY TwoSockets
<1>6. CASE Bind(Server, "bind server")
  BY <1>4, <1>5, <1>6
<1>7. CASE Bind(Mcast, "bind mcast")
  BY <1>4, <1>5, <1>7
<1> QED
  BY <1>2, <1>3, <1>6, <1>7

LEMMA ThreadCreated ==
  ASSUME IInv, pthread_create
  PROVE  IInv'
<1> USE DEF IInv, build, pthread_create
<1>1. Calls' = Calls
  BY DEF Calls, ipv4
<1>2. ConnType'
  BY <1>1 DEF ConnType
<1>3. Lifetimes'
  BY DEF Lifetimes, Closing, dynamic
<1>4. FlagLeftOver'
  BY DEF FlagLeftOver, Reused, Lifetimes, Closing, dynamic
<1>5. Progress'
  <2>1. done >= ServerAt /\ done >= McastAt
    <3>1. done = Len(Calls)
      OBVIOUS
    <3> QED
      BY ONLY <3>1, Places
  <2>2. refused = "none" => \A s \in Sources : sock[s] = "bound"
    BY <2>1, TwoSockets DEF Progress
  <2> QED
    BY <2>2 DEF Progress, ipv4
<1>6. Cleared'
  BY DEF Cleared
<1> QED
  BY <1>2, <1>3, <1>4, <1>5, <1>6

LEMMA ShutdownStep ==
  ASSUME IInv, SetTerminate \/ CloseServer \/ CloseMcast \/ pthread_join
  PROVE  IInv'
<1> USE DEF IInv, build
<1>1. Calls' = Calls
  BY DEF Calls, ipv4, SetTerminate, CloseServer, CloseMcast, pthread_join, Close, ContextFreed
<1>2. CASE SetTerminate
  <2> USE <1>2 DEF SetTerminate
  <2>1. ConnType'
    <3>1. main' \in Closing /\ terminate' \in {0, 1}
      BY DEF Closing
    <3>2. UNCHANGED <<family, memory, done, inits, context, sock, thread>>
      BY DEF build
    <3>3. ConnType
      OBVIOUS
    <3> QED
      BY ONLY <1>1, <3>1, <3>2, <3>3 DEF ConnType
  <2>2. Lifetimes' /\ FlagLeftOver'
    BY DEF ConnType, Lifetimes, FlagLeftOver, Reused, Closing, dynamic
  <2>3. Progress' /\ Cleared'
    BY DEF Progress, Cleared
  <2> QED
    BY <2>1, <2>2, <2>3
<1>3. ASSUME NEW s \in Sources, Close(s)
      PROVE  /\ sock' \in [Sources -> Shut \cup {"open", "bound"}] /\ sock'[s] \in Shut
             /\ \A t \in Sources \ {s} : sock'[t] = sock[t]
  BY <1>3 DEF Close, ConnType, Shut
<1>4. CASE CloseServer
  <2>1. sock' \in [Sources -> Shut \cup {"open", "bound"}] /\ sock'[Server] \in Shut
    BY <1>3, <1>4, TwoSockets DEF CloseServer
  <2> QED
    BY <1>1, <1>4, <2>1 DEF CloseServer, Close, ConnType, Lifetimes, FlagLeftOver, Reused, Progress, Cleared, Closing, dynamic
<1>5. CASE CloseMcast
  <2>1. /\ sock' \in [Sources -> Shut \cup {"open", "bound"}] /\ sock'[Mcast] \in Shut
        /\ sock'[Server] = sock[Server]
    BY <1>3, <1>5, TwoSockets DEF CloseMcast
  <2> QED
    BY <1>1, <1>5, <2>1 DEF CloseMcast, Close, ConnType, Lifetimes, FlagLeftOver, Reused, Progress, Cleared, Closing, dynamic
<1>6. CASE pthread_join
  BY <1>1, <1>6 DEF pthread_join, ContextFreed, ConnType, Lifetimes, FlagLeftOver, Reused, Progress, Cleared, Closing, dynamic
<1> QED
  BY <1>2, <1>4, <1>5, <1>6

LEMMA NextIInv ==
  ASSUME IInv, [NextConnectivity]_allVars
  PROVE  IInv'
<1>1. CASE oc_connectivity_init
  BY <1>1, SetUpBegins
<1>2. CASE MainStep
  BY <1>2, SetUpStepIInv, ThreadCreated, ShutdownStep DEF MainStep
<1>3. CASE TestTerminate
  <2>1. terminate \in {0, 1}
    BY DEF IInv, ConnType
  <2> QED
    BY <1>3, <2>1, Untouched DEF TestTerminate, build, mainVars
<1>4. CASE SelectReturns
  BY <1>4, Untouched DEF SelectReturns, build, mainVars
<1>5. CASE SelectOnClosed
  BY <1>5, Untouched DEF SelectOnClosed, build, mainVars
<1>6. CASE UNCHANGED connVars
  BY <1>6, Untouched DEF connVars, build, mainVars
<1>7. CASE ThreadRuns \/ (\E s \in Sources : ReadClosed(s)) \/ ReadFailure \/ Arrival \/ Poll
  BY <1>6, <1>7 DEF ThreadRuns, ReadClosed, ReadFailure, Arrival, Poll
<1>8. CASE UNCHANGED allVars
  BY <1>6, <1>8 DEF allVars
<1> QED
  BY <1>1, <1>2, <1>3, <1>4, <1>5, <1>7, <1>8 DEF NextConnectivity, ThreadStep

THEOREM ConnectivityInvariant == SpecConnectivity => []IInv
<1>1. InitConnectivity => IInv
  BY InitIInv
<1>2. IInv /\ [NextConnectivity]_allVars => IInv'
  BY NextIInv
<1> QED
  BY <1>1, <1>2, PTL DEF SpecConnectivity

\* The network thread never outlives its context and never meets a new set-up, and a
\* shutdown leaves no socket open (ipadapter.c:716-765, 811-833).
THEOREM NothingLeftBehind == SpecConnectivity => []CleanShutdown
<1>1. IInv => CleanShutdown
  <2>1. IInv => (Alive => context = "there" /\ main \in {"up"} \cup Closing)
    BY DEF IInv, ConnType, Lifetimes, Alive
  <2>2. IInv /\ main = "idle" => (dynamic => context = "none")
    BY DEF IInv, Lifetimes
  <2>3. IInv /\ main = "idle" => \A s \in Sources : sock[s] \in {"none", "closed"}
    BY TwoSockets DEF IInv, Cleared, Shut
  <2> QED
    BY <2>1, <2>2, <2>3 DEF CleanShutdown
<1> QED
  BY <1>1, ConnectivityInvariant, PTL

\* A device that is up and deaf was left so by an IPv4 error or a static context's
\* stale `terminate', and with the latter it never listens (ipadapter.c:790-794, 811).
THEOREM HearsUnless == SpecConnectivity => []DeafOnlyIf
<1>1. IInv => DeafOnlyIf
  <2>1. IInv /\ main = "up" /\ thread = "deleted" => Reused
    BY DEF IInv, FlagLeftOver
  <2>3. IInv /\ main = "up" /\ thread = "selecting" => ~Reused
    BY DEF IInv, FlagLeftOver
  <2>2. IInv /\ main = "up" /\ (\E s \in Sources : sock[s] # "bound") => ipv4 /\ refused # "none"
    BY DEF IInv, Progress
  <2> QED
    BY <2>1, <2>2, <2>3 DEF DeafOnlyIf
<1> QED
  BY <1>1, ConnectivityInvariant, PTL

-----------------------------------------------------------------------------
(* The thread's own account, with sockets closed under it. *)

\* close drops what the socket holds and touches nothing else of the thread's.
LEMMA CloseCore ==
  ASSUME Core, NEW s \in Sources, Close(s)
  PROVE  Core'
<1>1. inbox' \in [Sources -> Seq(Number)]
  BY DEF Close, Core, TypeOK
<1> QED
  BY <1>1 DEF Close, threadVars, Core, TypeOK, PoolConserved, LeftMatches

\* A select that counts closed sockets as ready still counts each socket once.
LEMMA SelectOnClosedCore ==
  ASSUME Core, SelectOnClosed
  PROVE  Core'
<1> USE DEF Core, TypeOK, SelectOnClosed, Step, stackVars
<1>1. CASE UNCHANGED <<pc, setfds, left>>
  BY <1>1 DEF PoolConserved, LeftMatches
<1>2. CASE pc = "select" /\ pc' = "allocate" /\ setfds' = Ready \cup Closed /\ left' = Cardinality(setfds')
  <2>1. setfds' \subseteq Sources
    BY <1>2 DEF Ready, Closed
  <2>2. left' \in 0..Cardinality(Sources) /\ left' <= Cardinality(setfds')
    BY <1>2, <2>1, Counts
  <2>3. TypeOK'
    BY <1>2, <2>1, <2>2
  <2>4. PoolConserved' /\ LeftMatches'
    BY <1>2, <2>2 DEF PoolConserved, LeftMatches
  <2> QED
    BY <2>3, <2>4
<1> QED
  BY <1>1, <1>2

\* The message of a read that fails at once goes back to the pool.
LEMMA ReadClosedCore ==
  ASSUME Core, NEW s \in Sources, ReadClosed(s)
  PROVE  Core'
<1> USE DEF Core, TypeOK, ReadClosed, Step, stackVars
<1>1. Len(events) \in Nat
  OBVIOUS
<1>2. free' \in 0..PoolSize /\ PoolConserved'
  BY <1>1, NetworkThreadAssumption DEF PoolConserved
<1>3. left' \in 0..Cardinality(Sources) /\ LeftMatches'
  <2>1. Cardinality(setfds) \in Nat /\ Cardinality(Sources) \in Nat
    BY Counts
  <2> QED
    BY <2>1 DEF LeftMatches
<1>4. TypeOK'
  BY <1>2, <1>3
<1> QED
  BY <1>2, <1>3, <1>4

LEMMA ThreadsOwnStep ==
  ASSUME oc_connectivity_init \/ SetUpStep \/ pthread_create \/ SetTerminate \/ pthread_join
           \/ ThreadStep \/ ReadFailure \/ Arrival \/ Poll
  PROVE  [Next]_vars
BY DEF oc_connectivity_init, SetUpStep, pthread_create, SetTerminate, pthread_join, ContextFreed,
       ThreadStep, TestTerminate, SelectReturns, ThreadRuns, ReadFailure, Arrival, Poll, Next, Thread

LEMMA NextConnectivityCore ==
  ASSUME Core, [NextConnectivity]_allVars
  PROVE  Core'
<1>1. CASE oc_connectivity_init \/ SetUpStep \/ pthread_create \/ SetTerminate \/ pthread_join
             \/ ThreadStep \/ ReadFailure \/ Arrival \/ Poll
  BY <1>1, ThreadsOwnStep, NextCore
<1>2. CASE CloseServer \/ CloseMcast
  BY <1>2, CloseCore, TwoSockets DEF CloseServer, CloseMcast
<1>3. CASE SelectOnClosed \/ \E s \in Sources : ReadClosed(s)
  BY <1>3, SelectOnClosedCore, ReadClosedCore
<1>4. CASE UNCHANGED allVars
  BY <1>4, NextCore DEF allVars
<1> QED
  BY <1>1, <1>2, <1>3, <1>4 DEF NextConnectivity, MainStep

\* What ConnType leaves open.
Bounds ==
  /\ inits <= MaxInits
  /\ refused \in {"none"} \cup {SetUp6[k] : k \in DOMAIN SetUp6}

\* IPv4 makes one call less than IPv6 and none of its own.
LEMMA CallsOfSetUp6 ==
  ASSUME NEW call, ConnType, Calling(call)
  PROVE  call \in {SetUp6[k] : k \in DOMAIN SetUp6}
<1>1. done \in Nat /\ done + 1 \in 1..Len(Calls) /\ Calls[done + 1] = call
  BY DoneNat, CallCountNat DEF Calling
<1>2. DOMAIN SetUp6 = 1..8
  BY DEF SetUp6
<1>3. CASE ~ipv4
  <2>1. Calls = SetUp6 /\ Len(Calls) = 8
    BY <1>3, CallCount DEF Calls
  <2> QED
    BY <1>1, <1>2, <2>1
<1>4. CASE ipv4
  <2>1. Calls = SetUp4 /\ Len(Calls) = 7
    BY <1>4, CallCount DEF Calls
  <2>2. \A k \in 1..7 : \E j \in 1..8 : SetUp4[k] = SetUp6[j]
    <3>1. /\ SetUp4[1] = SetUp6[1] /\ SetUp4[2] = SetUp6[2] /\ SetUp4[3] = SetUp6[4]
          /\ SetUp4[4] = SetUp6[5] /\ SetUp4[5] = SetUp6[6] /\ SetUp4[6] = SetUp6[7]
          /\ SetUp4[7] = SetUp6[8]
      BY DEF SetUp4, SetUp6
    <3> QED
      BY ONLY <3>1
  <2> QED
    BY <1>1, <1>2, <2>1, <2>2
<1> QED
  BY <1>3, <1>4

LEMMA NextBounds ==
  ASSUME ConnType, Bounds, [NextConnectivity]_allVars
  PROVE  Bounds'
<1> USE DEF Bounds
<1>1. CASE oc_connectivity_init
  BY <1>1, ConnectivityAssumption DEF oc_connectivity_init, ConnType, Halt
<1>2. CASE SetUpStep
  <2>1. inits' = inits
    BY <1>2 DEF SetUpStep
  <2>2. UNCHANGED refused \/ \E call : Calling(call) /\ refused' = call
    BY <1>2 DEF SetUpStep, GetAddress, CreateSockets, configure_mcast_socket, OtherCall, Bind,
                Succeed, Refuse, Halt
  <2> QED
    BY <2>1, <2>2, CallsOfSetUp6
<1>3. UNCHANGED <<inits, refused>> \/ oc_connectivity_init \/ SetUpStep
  BY DEF NextConnectivity, MainStep, pthread_create, SetTerminate, CloseServer, CloseMcast, Close,
         pthread_join, ContextFreed, ThreadStep, TestTerminate, SelectReturns, ThreadRuns,
         SelectOnClosed, ReadClosed, ReadFailure, Arrival, Poll, allVars, connVars, mainVars
<1> QED
  BY <1>1, <1>2, <1>3

LEMMA WholeInvariant == SpecConnectivity => [](Core /\ IInv /\ Bounds)
<1>1. InitConnectivity => Core /\ IInv /\ Bounds
  <2>1. InitConnectivity => Core
    BY InitInv DEF InitConnectivity, Inv
  <2>2. InitConnectivity => Bounds
    BY ConnectivityAssumption DEF InitConnectivity, Bounds
  <2> QED
    BY <2>1, <2>2, InitIInv
<1>2. Core /\ IInv /\ Bounds /\ [NextConnectivity]_allVars => (Core /\ IInv /\ Bounds)'
  BY NextConnectivityCore, NextIInv, NextBounds DEF IInv
<1> QED
  BY <1>1, <1>2, PTL DEF SpecConnectivity

\* The shape of the state: a set-up makes none but its own calls, and the thread's
\* loop keeps its bounds over closed sockets, too.
THEOREM ConnectivityTypeCorrect == SpecConnectivity => []TypeOKConnectivity
<1>1. Core /\ IInv /\ Bounds => TypeOKConnectivity
  <2>1. IInv /\ Bounds => inits \in 0..MaxInits
    BY ConnectivityAssumption DEF IInv, ConnType, Bounds
  <2> QED
    BY <2>1 DEF Core, IInv, ConnType, Bounds, Shut, TypeOKConnectivity
<1> QED
  BY WholeInvariant, <1>1, PTL

\* No message of the pool is lost, though shutdown closes the sockets while the
\* thread selects on them or reads them, and set-ups follow on shutdowns
\* (ipadapter.c:304-319, 396-418, 811-833).
THEOREM NoMessageLostByShutdown == SpecConnectivity => []PoolConserved
<1>1. Core => PoolConserved
  BY DEF Core
<1> QED
  BY WholeInvariant, <1>1, PTL

\* Closed sockets leave no iteration of the thread's loop without one to read.
THEOREM NoEmptyIterationOnClosed == SpecConnectivity => []ReadsAReadySocket
<1>1. Core => ReadsAReadySocket
  BY CoreReads
<1> QED
  BY WholeInvariant, <1>1, PTL
=============================================================================
