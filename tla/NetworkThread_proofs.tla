------------------------ MODULE NetworkThread_proofs ------------------------
(***************************************************************************)
(* The network thread's safety for any sockets, pool and queues.            *)
(***************************************************************************)
EXTENDS NetworkThread, FiniteSetTheorems, SequenceTheorems, WellFoundedInduction, TLAPS

\* `Sockets' lists the sources, so there are finitely many.
LEMMA SourcesFinite == IsFiniteSet(Sources)
<1>1. Len(Sockets) \in Nat /\ DOMAIN Sockets = 1..Len(Sockets)
  BY NetworkThreadAssumption
<1>2. IsFiniteSet(1..Len(Sockets))
  BY <1>1, FS_Interval
<1>3. Sources = {Sockets[k] : k \in 1..Len(Sockets)}
  BY <1>1 DEF Sources
<1>4. Sockets \in [1..Len(Sockets) -> Sources]
  BY NetworkThreadAssumption
<1>5. Sockets \in Surjection(1..Len(Sockets), Sources)
  BY <1>3, <1>4 DEF Surjection
<1> QED
  BY <1>2, <1>5, FS_Surjection

LEMMA Counts ==
  ASSUME NEW S, S \subseteq Sources
  PROVE  /\ IsFiniteSet(S) /\ Cardinality(S) \in Nat
         /\ Cardinality(S) <= Cardinality(Sources)
         /\ Cardinality(S) = 0 <=> S = {}
         /\ \A s \in S : Cardinality(S \ {s}) = Cardinality(S) - 1
<1>1. IsFiniteSet(S) /\ Cardinality(S) <= Cardinality(Sources)
  BY SourcesFinite, FS_Subset
<1>2. Cardinality(S) \in Nat
  BY <1>1, FS_CardinalityType
<1>3. Cardinality(S) = 0 <=> S = {}
  BY <1>1, FS_EmptySet
<1>4. \A s \in S : Cardinality(S \ {s}) = Cardinality(S) - 1
  BY <1>1, FS_RemoveElement
<1> QED
  BY <1>1, <1>2, <1>3, <1>4

LEMMA Numbering ==
  /\ 0 \in Number
  /\ \A n \in Number : (n + 1) % Numbers \in Number
  BY NetworkThreadAssumption DEF Number

\* The iterations left never outnumber the sockets left; while an event is being
\* handed over, its iteration is still counted and its socket no longer.
LeftMatches ==
  /\ pc = "allocate" => left <= Cardinality(setfds)
  /\ pc = "read"     => left > 0 /\ left <= Cardinality(setfds)
  /\ pc = "event"    => left > 0 /\ left - 1 <= Cardinality(setfds)

\* Before the first failed read of a round, what select found is still there.
StillReady == ~failed => \A s \in setfds : inbox[s] # <<>>

\* What every step keeps by itself, whatever becomes of the sockets meanwhile.
Core == TypeOK /\ PoolConserved /\ LeftMatches

Inv == Core /\ StillReady

LEMMA InitInv ==
  ASSUME Init
  PROVE  Inv
<1>1. TypeOK
  <2>1. sent \in [Sources -> Number] /\ delivered \in [Sources -> Number]
    BY Numbering DEF Init
  <2>2. inbox \in [Sources -> Seq(Number)] /\ events \in Seq(Sources \X Number)
    BY DEF Init
  <2>3. free \in 0..PoolSize
    BY NetworkThreadAssumption DEF Init
  <2>4. left \in 0..Cardinality(Sources)
    BY Counts DEF Init
  <2> QED
    BY <2>1, <2>2, <2>3, <2>4 DEF Init, TypeOK
<1>2. PoolConserved
  BY NetworkThreadAssumption DEF Init, PoolConserved
<1>3. LeftMatches /\ StillReady
  BY DEF Init, LeftMatches, StillReady
<1> QED
  BY <1>1, <1>2, <1>3 DEF Inv, Core

LEMMA ArriveCore ==
  ASSUME Core, NEW s \in Sources, Arrive(s)
  PROVE  Core'
<1> USE DEF Core, TypeOK, Arrive, threadVars
<1>1. sent' \in [Sources -> Number]
  BY Numbering
<1>2. inbox' \in [Sources -> Seq(Number)]
  BY <1>1
<1>4. TypeOK'
  BY <1>1, <1>2
<1>5. PoolConserved' /\ LeftMatches'
  BY DEF PoolConserved, LeftMatches
<1> QED
  BY <1>4, <1>5

LEMMA HandleCore ==
  ASSUME Core, Handle
  PROVE  Core'
<1> USE DEF Core, TypeOK, Handle, threadVars
<1>1. Head(events) \in Sources \X Number /\ events' \in Seq(Sources \X Number)
  OBVIOUS
<1>2. delivered' \in [Sources -> Number]
  BY <1>1
<1>3. Len(events) \in Nat /\ Len(events) > 0 /\ Len(events') = Len(events) - 1
  OBVIOUS
<1>4. free' \in 0..PoolSize /\ PoolConserved'
  BY <1>3, NetworkThreadAssumption DEF PoolConserved
<1>5. TypeOK'
  BY <1>1, <1>2, <1>4
<1>6. LeftMatches'
  BY DEF LeftMatches
<1> QED
  BY <1>4, <1>5, <1>6

LEMMA SelectCore ==
  ASSUME Core, Select
  PROVE  Core'
<1> USE DEF Core, TypeOK, Select, Step, stackVars
<1>1. Ready \subseteq Sources /\ \A s \in Ready : inbox[s] # <<>>
  BY DEF Ready
<1>2. Cardinality(Ready) \in 0..Cardinality(Sources)
  BY <1>1, Counts
<1>3. TypeOK'
  BY <1>1, <1>2
<1>4. PoolConserved'
  BY DEF PoolConserved
<1>5. LeftMatches'
  BY <1>1, <1>2 DEF LeftMatches
<1> QED
  BY <1>3, <1>4, <1>5

LEMMA AllocateCore ==
  ASSUME Core, Allocate \/ BackToSelect
  PROVE  Core'
<1> USE DEF Core, TypeOK, Step, stackVars
<1>1. CASE Allocate
  <2>1. free' \in 0..PoolSize
    BY <1>1, NetworkThreadAssumption DEF Allocate
  <2>2. TypeOK'
    BY <1>1, <2>1 DEF Allocate
  <2>3. PoolConserved'
    BY <1>1 DEF Allocate, PoolConserved
  <2>4. LeftMatches'
    BY <1>1 DEF Allocate, LeftMatches
  <2> QED
    BY <2>2, <2>3, <2>4
<1>2. CASE BackToSelect
  BY <1>2 DEF BackToSelect, PoolConserved, LeftMatches
<1> QED
  BY <1>1, <1>2

LEMMA ReadCore ==
  ASSUME Core, NEW s \in Sources, recvfrom(s)
  PROVE  Core'
<1> USE DEF Core, TypeOK, recvfrom, Step
<1>1. s \in setfds
  BY DEF Chosen
<1>2. inbox[s] \in Seq(Number) /\ inbox[s] # <<>>
  OBVIOUS
<1>3. Head(inbox[s]) \in Number /\ Tail(inbox[s]) \in Seq(Number)
  BY <1>2
<1>4. inbox' \in [Sources -> Seq(Number)] /\ message' \in Sources \X Number
  BY <1>3
<1>5. TypeOK'
  BY <1>4
<1>6. PoolConserved'
  BY DEF PoolConserved
<1>7. LeftMatches'
  <2>1. Cardinality(setfds') = Cardinality(setfds) - 1 /\ Cardinality(setfds) \in Nat
    BY <1>1, Counts
  <2> QED
    BY <2>1 DEF LeftMatches
<1> QED
  BY <1>5, <1>6, <1>7

LEMMA FailureCore ==
  ASSUME Core, NEW s \in Sources, ReadFails(s)
  PROVE  Core'
<1> USE DEF Core, TypeOK, ReadFails, Step
<1>1. inbox' \in [Sources -> Seq(Number)]
  <2>1. inbox[s] \in Seq(Number) /\ inbox[s] # <<>>
    OBVIOUS
  <2>2. Tail(inbox[s]) \in Seq(Number)
    BY <2>1
  <2> QED
    BY <2>2
<1>2. Len(events) \in Nat
  OBVIOUS
<1>3. free' \in 0..PoolSize /\ PoolConserved'
  BY <1>2, NetworkThreadAssumption DEF PoolConserved
<1>4. left' \in 0..Cardinality(Sources) /\ LeftMatches'
  <2>1. Cardinality(setfds) \in Nat /\ Cardinality(Sources) \in Nat
    BY Counts
  <2> QED
    BY <2>1 DEF LeftMatches
<1>5. TypeOK'
  BY <1>1, <1>3, <1>4
<1> QED
  BY <1>3, <1>4, <1>5

LEMMA EventCore ==
  ASSUME Core, oc_network_event
  PROVE  Core'
<1> USE DEF Core, TypeOK, oc_network_event, Step, stackVars
<1>1. message \in Sources \X Number
  OBVIOUS
<1>2. events' \in Seq(Sources \X Number) /\ Len(events') = Len(events) + 1
  BY <1>1
<1>3. left' \in 0..Cardinality(Sources) /\ LeftMatches'
  <2>1. Cardinality(setfds) \in Nat /\ Cardinality(Sources) \in Nat
    BY Counts
  <2> QED
    BY <2>1 DEF LeftMatches
<1>4. TypeOK'
  BY <1>2, <1>3
<1>5. PoolConserved'
  BY <1>2 DEF PoolConserved
<1> QED
  BY <1>3, <1>4, <1>5

\* Nothing but a read takes from a socket, and select looks first.
LEMMA StillReadyStep ==
  ASSUME TypeOK, StillReady, [Next]_vars
  PROVE  StillReady'
<1> USE DEF TypeOK, StillReady
<1>1. ASSUME NEW s \in Sources, Arrive(s)
      PROVE  StillReady'
  <2>1. inbox'[s] = Append(inbox[s], sent'[s]) /\ \A t \in Sources \ {s} : inbox'[t] = inbox[t]
    BY <1>1 DEF Arrive
  <2>2. inbox[s] \in Seq(Number)
    OBVIOUS
  <2>3. inbox'[s] # <<>>
    BY ONLY <2>1, <2>2
  <2>4. setfds' = setfds /\ failed' = failed
    BY <1>1 DEF Arrive, threadVars
  <2> QED
    BY <2>1, <2>3, <2>4
<1>2. CASE Select
  BY <1>2 DEF Select, Ready, stackVars
<1>3. CASE Handle \/ Allocate \/ BackToSelect \/ oc_network_event \/ UNCHANGED vars
  BY <1>3 DEF Handle, Allocate, BackToSelect, oc_network_event, vars, stackVars, threadVars
<1>4. ASSUME NEW s \in Sources, recvfrom(s)
      PROVE  StillReady'
  BY <1>4 DEF recvfrom
<1>5. ASSUME NEW s \in Sources, ReadFails(s)
      PROVE  StillReady'
  BY <1>5 DEF ReadFails
<1> QED
  BY <1>1, <1>2, <1>3, <1>4, <1>5 DEF Next, Thread, Failure

\* A step of the thread and its surroundings.
LEMMA NextCore ==
  ASSUME Core, [Next]_vars
  PROVE  Core'
<1>1. CASE \E s \in Sources : Arrive(s)
  BY <1>1, ArriveCore
<1>2. CASE Handle
  BY <1>2, HandleCore
<1>3. CASE Thread
  BY <1>3, SelectCore, AllocateCore, ReadCore, EventCore DEF Thread
<1>4. CASE Failure
  BY <1>4, FailureCore DEF Failure
<1>5. CASE UNCHANGED vars
  BY <1>5 DEF vars, stackVars, threadVars, Core, TypeOK, PoolConserved, LeftMatches
<1> QED
  BY <1>1, <1>2, <1>3, <1>4, <1>5 DEF Next

LEMMA NextInv == Inv /\ [Next]_vars => Inv'
BY NextCore, StillReadyStep DEF Inv, Core

\* There is a socket to read wherever the loop reads.
LEMMA CoreReads ==
  ASSUME Core
  PROVE  ReadsAReadySocket
<1> SUFFICES ASSUME pc = "read" PROVE setfds # {}
  BY DEF ReadsAReadySocket
<1>1. setfds \subseteq Sources /\ left \in Int /\ 0 < left /\ left <= Cardinality(setfds)
  BY Counts DEF Core, TypeOK, LeftMatches
<1>2. Cardinality(setfds) = 0 <=> setfds = {}
  BY <1>1, Counts
<1> QED
  BY <1>1, <1>2

LEMMA Invariance == Spec => []Inv
BY InitInv, NextInv, PTL DEF Spec

\* The shape of the thread's state holds for any number of sockets and messages.
THEOREM TypeCorrect == Spec => []TypeOK
  BY Invariance, PTL DEF Inv, Core

\* Every message is in the pool, with the thread or on the stack's list, whatever
\* path network_event_thread takes through its loop.
THEOREM NoMessageLost == Spec => []PoolConserved
  BY Invariance, PTL DEF Inv, Core

\* No iteration of `for (i = 0; i < n; i++)' is left without a socket to read, failed
\* reads and the break included.
THEOREM NoEmptyIteration == Spec => []ReadsAReadySocket
<1>1. Inv => ReadsAReadySocket
  BY CoreReads DEF Inv
<1> QED
  BY <1>1, Invariance, PTL

\* Only a failed read can leave the thread in a blocking recvfrom.
THEOREM SelectBeforeRead == Spec => []BlocksOnlyAfterFailure
<1>1. Inv => BlocksOnlyAfterFailure
  BY DEF Inv, Core, StillReady, BlocksOnlyAfterFailure, Blocked, Chosen
<1> QED
  BY <1>1, Invariance, PTL

-----------------------------------------------------------------------------
(* The numbers of one socket in a list of events: what one entry more or    *)
(* less does to them.                                                        *)

Event == Sources \X Number

\* What holds of 0 and passes from n to n + 1 holds up to any bound: the least
\* counterexample is none.
LEMMA UpTheList ==
  ASSUME NEW N \in Nat, NEW Holds, 0 \in Holds,
         \A n \in 0..(N - 1) : n \in Holds => n + 1 \in Holds
  PROVE  0..N \subseteq Holds
<1> DEFINE Fails == (0..N) \ Holds
<1> SUFFICES ASSUME Fails # {} PROVE FALSE
  OBVIOUS
<1>1. PICK m \in Fails : \A k \in Fails : <<k, m>> \notin OpToRel(<, Nat)
  <2>1. Fails \subseteq Nat
    OBVIOUS
  <2> HIDE DEF Fails
  <2> QED
    BY <2>1, WFMin, NatLessThanWellFounded, Zenon
<1>2. m # 0 /\ m - 1 \in 0..(N - 1)
  OBVIOUS
<1>3. m - 1 \notin Fails
  <2>1. <<m - 1, m>> \in OpToRel(<, Nat)
    BY <1>2 DEF OpToRel
  <2> QED
    BY <1>1, <2>1
<1>4. m - 1 \in Holds
  BY <1>2, <1>3
<1> QED
  BY <1>2, <1>4

\* f filters the first k entries of a list.
Filters(f, list, s, k) ==
  f = [n \in 0..k |->
         IF n = 0 THEN <<>>
         ELSE IF list[n][1] = s THEN Append(f[n - 1], list[n][2])
         ELSE f[n - 1]]

\* One more entry of the list.
LEMMA FilterOneMore ==
  ASSUME NEW list, NEW s, NEW k \in Nat, NEW f, Filters(f, list, s, k)
  PROVE  \E g : Filters(g, list, s, k + 1)
<1> DEFINE last == IF list[k + 1][1] = s THEN Append(f[k], list[k + 1][2]) ELSE f[k]
           g == [n \in 0..(k + 1) |-> IF n = k + 1 THEN last ELSE f[n]]
<1>1. \A n \in 0..k : f[n] = IF n = 0 THEN <<>>
                             ELSE IF list[n][1] = s THEN Append(f[n - 1], list[n][2])
                             ELSE f[n - 1]
  BY DEF Filters
<1>2. \A n \in 0..(k + 1) : n # 0 => g[n - 1] = f[n - 1]
  OBVIOUS
<1>3. \A n \in 0..(k + 1) : g[n] = IF n = 0 THEN <<>>
                             ELSE IF list[n][1] = s THEN Append(g[n - 1], list[n][2])
                             ELSE g[n - 1]
  <2> SUFFICES ASSUME NEW n \in 0..(k + 1)
               PROVE  g[n] = IF n = 0 THEN <<>>
                             ELSE IF list[n][1] = s THEN Append(g[n - 1], list[n][2])
                             ELSE g[n - 1]
    OBVIOUS
  <2>1. CASE n = k + 1
    BY <1>2, <2>1
  <2>2. CASE n # k + 1
    <3>1. n \in 0..k /\ g[n] = f[n]
      BY <2>2
    <3> QED
      BY <1>1, <1>2, <3>1
  <2> QED
    BY <2>1, <2>2
<1>4. Filters(g, list, s, k + 1)
  BY <1>3 DEF Filters
<1> QED
  BY <1>4

LEMMA FilterExists ==
  ASSUME NEW list, NEW s, NEW N \in Nat
  PROVE  \E f : Filters(f, list, s, N)
<1> DEFINE Holds == {k \in Nat : \E f : Filters(f, list, s, k)}
<1>1. 0 \in Holds
  <2>1. Filters([n \in 0..0 |-> <<>>], list, s, 0)
    BY DEF Filters
  <2> QED
    BY <2>1
<1>2. \A n \in 0..(N - 1) : n \in Holds => n + 1 \in Holds
  BY FilterOneMore
<1> HIDE DEF Holds
<1>3. 0..N \subseteq Holds
  BY <1>1, <1>2, UpTheList
<1> QED
  BY <1>3 DEF Holds

LEMMA UpToDef ==
  ASSUME NEW list \in Seq(Event), NEW s
  PROVE  /\ UpTo(list, s)[0] = <<>>
         /\ \A n \in 1..Len(list) :
              UpTo(list, s)[n] = IF list[n][1] = s
                                 THEN Append(UpTo(list, s)[n - 1], list[n][2])
                                 ELSE UpTo(list, s)[n - 1]
<1> DEFINE N == Len(list)
<1>1. N \in Nat
  OBVIOUS
<1> HIDE DEF N
<1>2. PICK f : Filters(f, list, s, N)
  BY <1>1, FilterExists
<1>3. UpTo(list, s) = CHOOSE g : Filters(g, list, s, N)
  BY DEF UpTo, Filters, N
<1>4. Filters(UpTo(list, s), list, s, N)
  BY <1>2, <1>3
<1>5. \A n \in 0..N : UpTo(list, s)[n] =
                        IF n = 0 THEN <<>>
                        ELSE IF list[n][1] = s THEN Append(UpTo(list, s)[n - 1], list[n][2])
                        ELSE UpTo(list, s)[n - 1]
  BY <1>4, Zenon DEF Filters
<1> QED
  BY <1>1, <1>5 DEF N

LEMMA UpToType ==
  ASSUME NEW list \in Seq(Event), NEW s
  PROVE  \A n \in 0..Len(list) : UpTo(list, s)[n] \in Seq(Number)
<1> DEFINE Holds == {n \in Nat : UpTo(list, s)[n] \in Seq(Number)}
<1>1. 0 \in Holds
  <2>1. UpTo(list, s)[0] = <<>>
    BY UpToDef
  <2>2. UpTo(list, s)[0] \in Seq(Number)
    BY ONLY <2>1
  <2> QED
    BY <2>2
<1>2. ASSUME NEW n \in 0..(Len(list) - 1), n \in Holds PROVE n + 1 \in Holds
  <2>1. n + 1 \in 1..Len(list) /\ list[n + 1][2] \in Number
    BY DEF Event
  <2>2. UpTo(list, s)[n] \in Seq(Number)
    BY <1>2
  <2>3. UpTo(list, s)[n + 1] = IF list[n + 1][1] = s
                               THEN Append(UpTo(list, s)[n], list[n + 1][2])
                               ELSE UpTo(list, s)[n]
    BY <2>1, UpToDef
  <2>4. UpTo(list, s)[n + 1] \in Seq(Number)
    BY <2>1, <2>2, <2>3
  <2> QED
    BY <2>4
<1> HIDE DEF Holds
<1>3. 0..Len(list) \subseteq Holds
  BY <1>1, <1>2, UpTheList
<1> QED
  BY <1>3 DEF Holds

\* What the entries of a list contribute.
One(e, s) == IF e[1] = s THEN <<e[2]>> ELSE <<>>

LEMMA OneType ==
  ASSUME NEW e \in Event, NEW s
  PROVE  One(e, s) \in Seq(Number)
  BY DEF One, Event

LEMMA UpToOneMore ==
  ASSUME NEW list \in Seq(Event), NEW s, NEW n \in 1..Len(list)
  PROVE  UpTo(list, s)[n] = UpTo(list, s)[n - 1] \o One(list[n], s)
<1>1. UpTo(list, s)[n] = IF list[n][1] = s
                         THEN Append(UpTo(list, s)[n - 1], list[n][2])
                         ELSE UpTo(list, s)[n - 1]
  BY UpToDef
<1>2. UpTo(list, s)[n - 1] \in Seq(Number)
  BY UpToType
<1>3. list[n][2] \in Number
  BY DEF Event
<1> HIDE DEF UpTo
<1> QED
  BY <1>1, <1>2, <1>3, AppendIsConcat, ConcatEmptySeq DEF One

LEMMA ListedType ==
  ASSUME NEW list \in Seq(Event), NEW s
  PROVE  Listed(list, s) \in Seq(Number)
<1>1. Len(list) \in 0..Len(list)
  OBVIOUS
<1> QED
  BY <1>1, UpToType DEF Listed

LEMMA NothingListed ==
  ASSUME NEW s
  PROVE  Listed(<<>>, s) = <<>>
<1>1. <<>> \in Seq(Event) /\ Len(<<>>) = 0
  OBVIOUS
<1>2. UpTo(<<>>, s)[0] = <<>>
  BY <1>1, UpToDef, Zenon
<1> QED
  BY <1>1, <1>2, Zenon DEF Listed

LEMMA Associative ==
  ASSUME NEW a \in Seq(Number), NEW b \in Seq(Number), NEW c \in Seq(Number)
  PROVE  (a \o b) \o c = a \o (b \o c)
  BY ConcatAssociative

\* What oc_network_event does to the numbers of a socket.
LEMMA ListedAppend ==
  ASSUME NEW list \in Seq(Event), NEW e \in Event, NEW s
  PROVE  Listed(Append(list, e), s) = Listed(list, s) \o One(e, s)
<1> DEFINE longer == Append(list, e)
           N == Len(list)
           Holds == {n \in Nat : UpTo(longer, s)[n] = UpTo(list, s)[n]}
<1>1. /\ N \in Nat /\ longer \in Seq(Event) /\ Len(longer) = N + 1
      /\ longer[N + 1] = e /\ \A n \in 1..N : longer[n] = list[n]
  OBVIOUS
<1>2. 0 \in Holds
  BY <1>1, UpToDef
<1>3. ASSUME NEW n \in 0..(N - 1), n \in Holds PROVE n + 1 \in Holds
  <2> HIDE DEF longer, N
  <2>0. n + 1 \in 1..N /\ n + 1 \in 1..(N + 1) /\ (n + 1) - 1 = n
    BY <1>1
  <2>1. UpTo(longer, s)[n + 1] = UpTo(longer, s)[n] \o One(longer[n + 1], s)
    BY <1>1, <2>0, UpToOneMore
  <2>2. UpTo(list, s)[n + 1] = UpTo(list, s)[n] \o One(list[n + 1], s)
    BY <2>0, UpToOneMore DEF N
  <2>3. longer[n + 1] = list[n + 1]
    BY <1>1, <2>0
  <2>4. UpTo(longer, s)[n] = UpTo(list, s)[n]
    BY <1>3
  <2>5. UpTo(longer, s)[n + 1] = UpTo(list, s)[n + 1]
    BY ONLY <2>1, <2>2, <2>3, <2>4
  <2>6. n + 1 \in Nat
    BY <1>1
  <2> QED
    BY <2>5, <2>6
<1> HIDE DEF Holds, longer
<1>4. 0..N \subseteq Holds
  BY <1>1, <1>2, <1>3, UpTheList
<1>5. UpTo(longer, s)[N] = UpTo(list, s)[N]
  BY <1>1, <1>4 DEF Holds
<1>6. UpTo(longer, s)[N + 1] = UpTo(longer, s)[N] \o One(e, s)
  <2>1. N + 1 \in 1..Len(longer) /\ (N + 1) - 1 = N
    BY <1>1
  <2> HIDE DEF N
  <2> QED
    BY <1>1, <2>1, UpToOneMore
<1>7. Listed(longer, s) = UpTo(longer, s)[N + 1] /\ Listed(list, s) = UpTo(list, s)[N]
  BY <1>1 DEF Listed
<1> QED
  BY <1>5, <1>6, <1>7 DEF longer

\* What the main task's taking of the first event does.
LEMMA ListedTail ==
  ASSUME NEW list \in Seq(Event), list # <<>>, NEW s
  PROVE  Listed(list, s) = One(Head(list), s) \o Listed(Tail(list), s)
<1> DEFINE rest == Tail(list)
           first == One(Head(list), s)
           N == Len(rest)
           Holds == {n \in Nat : UpTo(list, s)[n + 1] = first \o UpTo(rest, s)[n]}
<1>1. /\ N \in Nat /\ rest \in Seq(Event) /\ Len(list) = N + 1
      /\ Head(list) = list[1] /\ Head(list) \in Event
      /\ \A n \in 1..N : rest[n] = list[n + 1]
  OBVIOUS
<1>2. first \in Seq(Number)
  BY <1>1, OneType
<1>3. 0 \in Holds
  <2>1. UpTo(rest, s)[0] = <<>> /\ UpTo(list, s)[0] = <<>>
    BY <1>1, UpToDef
  <2>2. UpTo(list, s)[1] = UpTo(list, s)[0] \o first
    <3>1. 1 \in 1..Len(list) /\ 1 - 1 = 0
      BY <1>1
    <3> QED
      BY <1>1, <3>1, UpToOneMore
  <2>3. UpTo(list, s)[0 + 1] = first \o UpTo(rest, s)[0]
    <3> HIDE DEF first, rest
    <3> QED
      BY <1>2, <2>1, <2>2, ConcatEmptySeq
  <2> QED
    BY <2>3
<1>4. ASSUME NEW n \in 0..(N - 1), n \in Holds PROVE n + 1 \in Holds
  <2> HIDE DEF N, rest, first
  <2>0. /\ n + 1 \in 1..N /\ n \in 0..N /\ (n + 1) - 1 = n
        /\ n + 2 \in 1..Len(list) /\ (n + 2) - 1 = n + 1 /\ (n + 1) + 1 = n + 2
    BY <1>1
  <2>1. UpTo(list, s)[n + 2] = UpTo(list, s)[n + 1] \o One(list[n + 2], s)
    BY <2>0, UpToOneMore
  <2>2. UpTo(rest, s)[n + 1] = UpTo(rest, s)[n] \o One(rest[n + 1], s)
    BY <1>1, <2>0, UpToOneMore DEF N
  <2>3. rest[n + 1] = list[n + 2]
    BY <1>1, <2>0
  <2>4. UpTo(rest, s)[n] \in Seq(Number) /\ One(rest[n + 1], s) \in Seq(Number)
    <3>1. rest[n + 1] \in Event
      BY <1>1, <2>0 DEF N
    <3> QED
      BY <1>1, <2>0, <3>1, UpToType, OneType DEF N
  <2>5. UpTo(list, s)[n + 1] = first \o UpTo(rest, s)[n]
    BY <1>4
  <2>6. UpTo(list, s)[n + 2] = first \o UpTo(rest, s)[n + 1]
    <3>1. (first \o UpTo(rest, s)[n]) \o One(rest[n + 1], s)
            = first \o (UpTo(rest, s)[n] \o One(rest[n + 1], s))
      BY <1>2, <2>4, Associative
    <3> QED
      BY ONLY <2>1, <2>2, <2>3, <2>5, <3>1, Zenon
  <2> QED
    BY <2>0, <2>6
<1> HIDE DEF Holds, rest, first
<1>5. 0..N \subseteq Holds
  BY <1>1, <1>3, <1>4, UpTheList
<1>6. UpTo(list, s)[N + 1] = first \o UpTo(rest, s)[N]
  BY <1>1, <1>5 DEF Holds
<1>7. Listed(list, s) = UpTo(list, s)[N + 1] /\ Listed(rest, s) = UpTo(rest, s)[N]
  BY <1>1 DEF Listed
<1> QED
  BY <1>6, <1>7 DEF rest, first

-----------------------------------------------------------------------------
(* The steps of the thread as steps of the pipes. *)

LEMMA ConsParts ==
  ASSUME NEW x \in Number, NEW rest \in Seq(Number)
  PROVE  /\ <<x>> \o rest # <<>>
         /\ Head(<<x>> \o rest) = x
         /\ Tail(<<x>> \o rest) = rest
  OBVIOUS

LEMMA RemovedAt ==
  ASSUME NEW a \in Seq(Number), NEW b \in Seq(Number), b # <<>>
  PROVE  /\ Len(a) + 1 \in DOMAIN (a \o b)
         /\ Pipes!RemoveAt(a \o b, Len(a) + 1) = a \o Tail(b)
<1>1. /\ Len(a) \in Nat /\ Len(b) \in Nat /\ Len(b) > 0
      /\ a \o b \in Seq(Number) /\ Len(a \o b) = Len(a) + Len(b)
  OBVIOUS
<1>2. SubSeq(a \o b, 1, Len(a)) = a
  BY SubSeqOfConcat1, SubSeqFull
<1>3. SubSeq(a \o b, Len(a) + 2, Len(a) + Len(b)) = Tail(b)
  BY SubSeqOfConcat2, TailIsSubSeq
<1>4. Len(a) + 1 \in DOMAIN (a \o b)
  BY <1>1
<1>5. (Len(a) + 1) - 1 = Len(a) /\ (Len(a) + 1) + 1 = Len(a) + 2
  BY <1>1
<1>6. Pipes!RemoveAt(a \o b, Len(a) + 1)
        = SubSeq(a \o b, 1, Len(a)) \o SubSeq(a \o b, Len(a) + 2, Len(a) + Len(b))
  BY <1>1, <1>5 DEF Pipes!RemoveAt
<1> QED
  BY <1>2, <1>3, <1>4, <1>6

LEMMA PartTypes ==
  ASSUME TypeOK, NEW s \in Sources
  PROVE  /\ Listed(events, s) \in Seq(Number)
         /\ Held(s) \in Seq(Number)
         /\ inbox[s] \in Seq(Number)
         /\ OnTheWay(s) \in Seq(Number)
<1>1. Listed(events, s) \in Seq(Number)
  BY ListedType DEF TypeOK, Event
<1>2. Held(s) \in Seq(Number)
  <2>1. pc = "event" => message[2] \in Number
    BY DEF TypeOK
  <2> QED
    BY <2>1 DEF Held
<1>3. inbox[s] \in Seq(Number)
  BY DEF TypeOK
<1> QED
  BY <1>1, <1>2, <1>3 DEF OnTheWay

LEMMA ArrivePipes ==
  ASSUME TypeOK, NEW s \in Sources, Arrive(s)
  PROVE  Pipes!Accept(s)
<1>1. sent' = [sent EXCEPT ![s] = (@ + 1) % Numbers] /\ sent'[s] \in Number
  BY Numbering DEF Arrive, TypeOK
<1>2. /\ inbox'[s] = Append(inbox[s], sent'[s])
      /\ \A t \in Sources \ {s} : inbox'[t] = inbox[t]
      /\ \A t \in Sources : Held(t)' = Held(t)
      /\ events' = events /\ delivered' = delivered
  BY DEF Arrive, TypeOK, Held, threadVars
<1>3. OnTheWay(s)' = Append(OnTheWay(s), sent'[s])
  <2> DEFINE before == Listed(events, s) \o Held(s)
  <2>1. before \in Seq(Number) /\ inbox[s] \in Seq(Number)
    BY PartTypes
  <2>2. OnTheWay(s)' = before \o Append(inbox[s], sent'[s])
    BY <1>2 DEF OnTheWay
  <2>3. OnTheWay(s) = before \o inbox[s]
    BY DEF OnTheWay
  <2> HIDE DEF before
  <2>4. before \o Append(inbox[s], sent'[s]) = Append(before \o inbox[s], sent'[s])
    BY <1>1, <2>1
  <2> QED
    BY <2>2, <2>3, <2>4
<1>4. \A t \in Sources \ {s} : OnTheWay(t)' = OnTheWay(t)
  BY <1>2 DEF OnTheWay
<1> QED
  BY <1>1, <1>2, <1>3, <1>4 DEF Pipes!Accept

LEMMA HandlePipes ==
  ASSUME TypeOK, Handle
  PROVE  \E s \in Sources : Pipes!Deliver(s)
<1>0. PICK e \in Event : e = Head(events)
  BY DEF Handle, TypeOK, Event
<1>00. PICK s \in Sources : s = e[1]
  BY DEF Event
<1>1. /\ e = Head(events) /\ s = e[1] /\ e[2] \in Number
      /\ events \in Seq(Event) /\ events # <<>>
  BY <1>0, <1>00 DEF Handle, TypeOK, Event
<1>2. /\ delivered' = [delivered EXCEPT ![s] = e[2]]
      /\ events' = Tail(events)
      /\ sent' = sent /\ inbox' = inbox
      /\ \A t \in Sources : Held(t)' = Held(t)
  BY <1>1 DEF Handle, Held, threadVars
<1>3. ASSUME NEW t \in Sources
      PROVE  OnTheWay(t) = One(e, t) \o OnTheWay(t)'
  <2> DEFINE rest == Listed(Tail(events), t)
  <2>1. Listed(events, t) = One(e, t) \o rest
    BY <1>1, ListedTail
  <2>2. One(e, t) \in Seq(Number) /\ rest \in Seq(Number)
    <3>1. Tail(events) \in Seq(Event)
      BY <1>1
    <3> QED
      BY <1>1, <3>1, OneType, ListedType
  <2>3. Held(t) \in Seq(Number) /\ inbox[t] \in Seq(Number)
    BY PartTypes
  <2>4. OnTheWay(t)' = (rest \o Held(t)) \o inbox[t]
    BY <1>2 DEF OnTheWay
  <2>5. OnTheWay(t) = ((One(e, t) \o rest) \o Held(t)) \o inbox[t]
    BY <2>1 DEF OnTheWay
  <2> HIDE DEF rest
  <2>6. (One(e, t) \o rest) \o Held(t) = One(e, t) \o (rest \o Held(t))
    BY <2>2, <2>3, Associative
  <2>7. rest \o Held(t) \in Seq(Number)
    BY <2>2, <2>3
  <2>8. (One(e, t) \o (rest \o Held(t))) \o inbox[t]
          = One(e, t) \o ((rest \o Held(t)) \o inbox[t])
    BY <2>2, <2>3, <2>7, Associative
  <2> QED
    BY ONLY <2>4, <2>5, <2>6, <2>8, Zenon
<1>4. ASSUME NEW t \in Sources PROVE OnTheWay(t)' \in Seq(Number)
  <2>1. Listed(Tail(events), t) \in Seq(Number)
    <3>1. Tail(events) \in Seq(Event)
      BY <1>1
    <3> QED
      BY <3>1, ListedType
  <2> QED
    BY <1>2, <2>1, PartTypes DEF OnTheWay
<1>5. /\ OnTheWay(s) # <<>>
      /\ Head(OnTheWay(s)) = e[2]
      /\ OnTheWay(s)' = Tail(OnTheWay(s))
  <2>1. OnTheWay(s) = <<e[2]>> \o OnTheWay(s)'
    BY <1>1, <1>3 DEF One
  <2>2. OnTheWay(s)' \in Seq(Number)
    BY <1>1, <1>4
  <2> QED
    BY <1>1, <2>1, <2>2, ConsParts
<1>6. ASSUME NEW t \in Sources \ {s} PROVE OnTheWay(t)' = OnTheWay(t)
  <2>1. One(e, t) = <<>>
    BY <1>1, <1>6 DEF One
  <2> QED
    BY <1>3, <1>4, <2>1, ConcatEmptySeq
<1>7. Pipes!Deliver(s)
  BY <1>1, <1>2, <1>5, <1>6 DEF Pipes!Deliver
<1> QED
  BY <1>1, <1>7

\* Between two steps of the surroundings a datagram only changes hands.
LEMMA EventPipes ==
  ASSUME TypeOK, oc_network_event
  PROVE  UNCHANGED Pipes!vars
<1>1. /\ events' = Append(events, message) /\ message \in Event /\ events \in Seq(Event)
      /\ message[2] \in Number /\ pc = "event" /\ pc' # "event"
      /\ sent' = sent /\ inbox' = inbox /\ delivered' = delivered
  BY DEF oc_network_event, Step, stackVars, TypeOK, Event
<1>2. ASSUME NEW s \in Sources PROVE OnTheWay(s)' = OnTheWay(s)
  <2>1. Listed(events', s) = Listed(events, s) \o One(message, s)
    BY <1>1, ListedAppend
  <2>2. One(message, s) = Held(s)
    BY <1>1 DEF One, Held
  <2>3. Held(s)' = <<>>
    BY <1>1 DEF Held
  <2>4. Listed(events, s) \o Held(s) \in Seq(Number)
    BY PartTypes
  <2>5. (Listed(events, s) \o Held(s)) \o <<>> = Listed(events, s) \o Held(s)
    BY <2>4, ConcatEmptySeq
  <2> QED
    BY <1>1, <2>1, <2>2, <2>3, <2>5 DEF OnTheWay
<1> QED
  BY <1>1, <1>2 DEF Pipes!vars

LEMMA ReadPipes ==
  ASSUME TypeOK, NEW s \in Sources, recvfrom(s)
  PROVE  UNCHANGED Pipes!vars
<1>1. /\ inbox[s] # <<>> /\ inbox[s] \in Seq(Number)
      /\ pc = "read" /\ pc' = "event" /\ message' = <<s, Head(inbox[s])>>
      /\ inbox'[s] = Tail(inbox[s])
      /\ \A t \in Sources \ {s} : inbox'[t] = inbox[t]
      /\ events' = events /\ sent' = sent /\ delivered' = delivered
  BY DEF recvfrom, Step, TypeOK
<1>2. \A t \in Sources : /\ Held(t) = <<>>
                         /\ Held(t)' = IF t = s THEN <<Head(inbox[s])>> ELSE <<>>
  BY <1>1 DEF Held
<1>3. OnTheWay(s)' = OnTheWay(s)
  <2>1. /\ Listed(events, s) \in Seq(Number) /\ <<Head(inbox[s])>> \in Seq(Number)
        /\ Tail(inbox[s]) \in Seq(Number)
    BY <1>1, PartTypes
  <2>2. inbox[s] = <<Head(inbox[s])>> \o Tail(inbox[s])
    BY <1>1
  <2>3. OnTheWay(s)' = (Listed(events, s) \o <<Head(inbox[s])>>) \o Tail(inbox[s])
    BY <1>1, <1>2 DEF OnTheWay
  <2>4. OnTheWay(s) = Listed(events, s) \o inbox[s]
    BY <1>2, <2>1, ConcatEmptySeq DEF OnTheWay
  <2>5. (Listed(events, s) \o <<Head(inbox[s])>>) \o Tail(inbox[s])
          = Listed(events, s) \o (<<Head(inbox[s])>> \o Tail(inbox[s]))
    BY <2>1, Associative
  <2> QED
    BY ONLY <2>2, <2>3, <2>4, <2>5, Zenon
<1>4. \A t \in Sources \ {s} : OnTheWay(t)' = OnTheWay(t)
  BY <1>1, <1>2 DEF OnTheWay
<1> QED
  BY <1>1, <1>3, <1>4 DEF Pipes!vars

LEMMA FailurePipes ==
  ASSUME TypeOK, NEW s \in Sources, ReadFails(s)
  PROVE  Pipes!Lose(s) \/ UNCHANGED Pipes!vars
<1>1. /\ inbox[s] # <<>> /\ inbox[s] \in Seq(Number) /\ inbox \in [Sources -> Seq(Number)]
      /\ pc = "read" /\ pc' = "allocate"
      /\ inbox' = [inbox EXCEPT ![s] = Tail(@)] \/ inbox' = inbox
      /\ events' = events /\ sent' = sent /\ delivered' = delivered
  BY DEF ReadFails, Step, TypeOK
<1>2. \A t \in Sources : Held(t) = <<>> /\ Held(t)' = <<>>
  BY <1>1 DEF Held
<1>3. CASE inbox' = [inbox EXCEPT ![s] = Tail(@)]
  <2> DEFINE listed == Listed(events, s)
             k == Len(listed) + 1
  <2>1. listed \in Seq(Number) /\ listed \o <<>> = listed
    BY PartTypes, ConcatEmptySeq
  <2>2. OnTheWay(s) = listed \o inbox[s] /\ OnTheWay(s)' = listed \o Tail(inbox[s])
    BY <1>1, <1>2, <1>3, <2>1 DEF OnTheWay
  <2> HIDE DEF listed
  <2>3. k \in DOMAIN OnTheWay(s) /\ OnTheWay(s)' = Pipes!RemoveAt(OnTheWay(s), k)
    BY <1>1, <2>1, <2>2, RemovedAt
  <2> HIDE DEF k
  <2>4. \A t \in Sources \ {s} : OnTheWay(t)' = OnTheWay(t)
    BY <1>1, <1>2, <1>3 DEF OnTheWay
  <2> QED
    BY <1>1, <2>3, <2>4 DEF Pipes!Lose
<1>4. CASE inbox' = inbox
  BY <1>1, <1>2, <1>4 DEF OnTheWay, Pipes!vars
<1> QED
  BY <1>1, <1>3, <1>4

LEMMA OtherPipes ==
  ASSUME TypeOK, Select \/ Allocate \/ BackToSelect \/ UNCHANGED vars
  PROVE  UNCHANGED Pipes!vars
<1>1. /\ events' = events /\ sent' = sent /\ inbox' = inbox /\ delivered' = delivered
      /\ message' = message /\ (pc = "event" <=> pc' = "event")
  BY DEF Select, Allocate, BackToSelect, Step, stackVars, threadVars, vars
<1>2. \A t \in Sources : OnTheWay(t)' = OnTheWay(t)
  BY <1>1 DEF OnTheWay, Held
<1> QED
  BY <1>1, <1>2 DEF Pipes!vars

LEMMA NextPipes ==
  ASSUME TypeOK, [Next]_vars
  PROVE  [Pipes!Next]_(Pipes!vars)
  BY ArrivePipes, HandlePipes, EventPipes, ReadPipes, FailurePipes, OtherPipes
  DEF Next, Thread, Failure, Pipes!Next

LEMMA InitPipes == Init => Pipes!Init
<1> SUFFICES ASSUME Init PROVE Pipes!Init
  OBVIOUS
<1>1. ASSUME NEW s \in Sources PROVE OnTheWay(s) = <<>>
  <2>1. Listed(events, s) = <<>>
    BY NothingListed DEF Init
  <2>2. Held(s) = <<>> /\ inbox[s] = <<>>
    BY DEF Init, Held
  <2> QED
    BY <2>1, <2>2 DEF OnTheWay
<1> QED
  BY <1>1 DEF Init, Pipes!Init

\* The thread implements the pipes: whatever arrives, fails or finds the pool empty,
\* and however the main task keeps up, the handlers see each socket's datagrams in the
\* order of their arrival, each at most once (ipadapter.c:289-420).
THEOREM ThreadIsPipes == Spec => ImplementsPipes
<1>1. TypeOK /\ [Next]_vars => [Pipes!Next]_(Pipes!vars)
  BY NextPipes
<1> QED
  BY <1>1, InitPipes, TypeCorrect, PTL DEF Spec, ImplementsPipes, Pipes!Spec
=============================================================================
