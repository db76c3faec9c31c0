--------------------------- MODULE BenchRun_proof ---------------------------
(***************************************************************************)
(* Proofs about the benchmarks, for any number of clients.                 *)
(***************************************************************************)
EXTENDS BenchRun, FiniteSetTheorems, TLAPS

\* The type invariant of the run.
THEOREM TypeCorrect == Spec => []TypeOK
<1> USE RunAssumption
<1> USE DEF Client, Phase, Talking, Context, Role, RoleOf, Store
<1>1. Init => TypeOK
  <2> SUFFICES ASSUME Init PROVE TypeOK
    OBVIOUS
  <2>1. stat \in {"off", "listen", "exit"} /\ players \in 0 .. Clients
    BY DEF Init
  <2>2. lost \in BOOLEAN
    BY DEF Init
  <2>3. QED
    BY <2>1, <2>2 DEF Init, TypeOK
<1>2. TypeOK /\ [Next]_vars => TypeOK'
  <2> SUFFICES ASSUME TypeOK, [Next]_vars PROVE TypeOK'
    OBVIOUS
  <2> USE DEF TypeOK, contexts, launcher, clients, cancel
  <2>1. CASE Interrupt \/ LaunchEnds \/ Return
    BY <2>1 DEF Interrupt, LaunchEnds, Return
  <2>2. CASE LaunchLoad
    <3>1. RoleOf(next) \in Role
      OBVIOUS
    <3>2. QED
      BY <2>2, <3>1 DEF LaunchLoad, MayLaunch
  <2>8. CASE LaunchUncounted
    BY <2>8 DEF LaunchUncounted, MayLaunch
  <2>3. CASE Launch
    BY <2>3 DEF Launch
  <2>4. CASE StatOff \/ StatListens \/ StatFails \/ StatShutdown
    BY <2>4 DEF StatOff, StatListens, StatFails, StatShutdown
  <2>5. ASSUME NEW c \in Client, ClientStep(c) PROVE TypeOK'
    <3>1. CASE Advance(c)
      <4>1. Advances[phase[c]] \in Phase
        BY <3>1 DEF Advance, Advances
      <4>2. QED
        BY <3>1, <4>1 DEF Advance
    <3>2. CASE Linger(c) \/ Leave(c) \/ DoneUncounted(c)
      BY <3>2 DEF Linger, Leave, DoneUncounted
    <3>3. CASE AliveLoad(c)
      <4>1. alive[RoleOf(c)] \in Int
        OBVIOUS
      <4>2. QED
        BY <3>3, <4>1 DEF AliveLoad
    <3>4. CASE AliveStore(c)
      <4>1. phase' \in [Client -> Phase] /\ alive' \in [Role -> Int]
        BY <3>4 DEF AliveStore
      <4>2. QED
        BY <3>4, <4>1 DEF AliveStore
    <3>6. CASE Gate(c)
      BY <3>6 DEF Gate
    <3>5. QED
      BY <2>5, <3>1, <3>2, <3>3, <3>4, <3>6 DEF ClientStep
  <2>6. CASE UNCHANGED vars
    BY <2>6 DEF vars
  <2>7. QED
    BY <2>1, <2>2, <2>3, <2>4, <2>5, <2>6, <2>8 DEF Next
<1>3. QED
  BY <1>1, <1>2, PTL DEF Spec

\* Who can have canceled the contexts, and which clients exist.
RunInv ==
  /\ main \in {"launch", "bump"} /\ startedCtx = "done" => ctx = "done"
  /\ \A c \in Client : phase[c] = "none" <=> c >= next
  /\ LaunchNotCut

LEMMA RunInvStep == TypeOK /\ RunInv /\ [Next]_vars => RunInv'
<1> SUFFICES ASSUME TypeOK, RunInv, [Next]_vars PROVE RunInv'
  OBVIOUS
<1> USE RunAssumption
<1> USE DEF TypeOK, RunInv, LaunchNotCut, AllDone, contexts, launcher, clients,
        cancel, Client, Phase, Talking, Context, Role, RoleOf, Store
<1>1. CASE Interrupt \/ LaunchEnds \/ Return
  BY <1>1 DEF Interrupt, LaunchEnds, Return
<1>2. CASE LaunchLoad \/ Launch \/ LaunchUncounted
  BY <1>2 DEF LaunchLoad, Launch, LaunchUncounted, MayLaunch
<1>3. CASE StatOff \/ StatListens \/ StatFails \/ StatShutdown
  BY <1>3 DEF StatOff, StatListens, StatFails, StatShutdown
<1>4. ASSUME NEW c \in Client, ClientStep(c) PROVE RunInv'
  <2>1. CASE Advance(c)
    <3>1. Advances[phase[c]] \in Phase \ {"none"} /\ phase[c] \in Phase \ {"none", "done"}
      BY <2>1 DEF Advance, Advances
    <3>2. QED
      BY <2>1, <3>1 DEF Advance
  <2>2. CASE Linger(c) \/ Leave(c) \/ DoneUncounted(c)
    <3>1. phase[c] \in Phase \ {"none", "done"}
      BY <2>2 DEF Linger, Leave, DoneUncounted, Advances
    <3>2. QED
      BY <2>2, <3>1 DEF Linger, Leave, DoneUncounted
  <2>3. CASE AliveLoad(c) \/ AliveStore(c) \/ Gate(c)
    BY <2>3 DEF AliveLoad, AliveStore, Gate
  <2>4. QED
    BY <1>4, <2>1, <2>2, <2>3 DEF ClientStep
<1>5. CASE UNCHANGED vars
  BY <1>5 DEF vars
<1>6. QED
  BY <1>1, <1>2, <1>3, <1>4, <1>5 DEF Next

LEMMA RunInvariant == Spec => []RunInv
<1>1. Init => RunInv
  BY RunAssumption DEF Init, RunInv, LaunchNotCut, AllDone, Client
<1>2. QED
  BY <1>1, RunInvStep, TypeCorrect, PTL DEF Spec

\* An early end of a client never stops the launching of the others.
THEOREM LaunchNeverCut == Spec => []LaunchNotCut
<1>1. RunInv => LaunchNotCut
  BY DEF RunInv
<1>2. QED
  BY <1>1, RunInvariant, PTL

-----------------------------------------------------------------------------
(* What the counters say.                                                   *)

\* Which clients pass the gate, and behind what a run that goes on waits.
GateInv ==
  /\ Live => players = 0
  /\ \A c \in Client : phase[c] = "gate" => Live
  /\ \A c \in Client : phase[c] = "dec" => Counted
  /\ main = "bump" => Counted
  /\ main \in {"wait", "returned"} => next = Clients \/ ctx = "done"

\* The counter of a role is how many of its clients count.
CountInv == ~lost /\ Counted => \A r \in Role : alive[r] = Cardinality(Counting(r))

\* A run that is over, not by the user or the stat server, has no client left.
OverInv ==
  ~lost /\ ctx = "done" =>
    \/ parent = "done" \/ stat = "failed"
    \/ \A c \in Client : phase[c] \in {"gate", "done"}

LEMMA GateInvStep == TypeOK /\ GateInv /\ [Next]_vars => GateInv'
<1> SUFFICES ASSUME TypeOK, GateInv, [Next]_vars PROVE GateInv'
  OBVIOUS
<1> USE RunAssumption
<1> USE DEF TypeOK, GateInv, Live, Counted, contexts, launcher, clients, cancel,
        Client, Phase, Talking, Context
<1>1. CASE Interrupt \/ LaunchEnds \/ Return
  BY <1>1 DEF Interrupt, LaunchEnds, Return
<1>2. CASE LaunchLoad \/ Launch \/ LaunchUncounted
  BY <1>2 DEF LaunchLoad, Launch, LaunchUncounted, MayLaunch
<1>3. CASE StatOff \/ StatListens \/ StatFails \/ StatShutdown
  BY <1>3 DEF StatOff, StatListens, StatFails, StatShutdown
<1>4. ASSUME NEW c \in Client, ClientStep(c) PROVE GateInv'
  <2>1. CASE Advance(c)
    <3>1. Advances[phase[c]] \in Phase \ {"gate", "dec"}
      BY <2>1 DEF Advance, Advances
    <3>2. QED
      BY <2>1, <3>1 DEF Advance
  <2>2. CASE Linger(c) \/ Leave(c) \/ DoneUncounted(c)
    BY <2>2 DEF Linger, Leave, DoneUncounted
  <2>3. CASE AliveLoad(c) \/ AliveStore(c) \/ Gate(c)
    BY <2>3 DEF AliveLoad, AliveStore, Gate
  <2>4. QED
    BY <1>4, <2>1, <2>2, <2>3 DEF ClientStep
<1>5. CASE UNCHANGED vars
  BY <1>5 DEF vars
<1>6. QED
  BY <1>1, <1>2, <1>3, <1>4, <1>5 DEF Next

LEMMA CountingFinite ==
  ASSUME NEW r PROVE IsFiniteSet(Counting(r)) /\ Cardinality(Counting(r)) \in Nat
<1>1. IsFiniteSet(Client)
  BY FS_Interval, RunAssumption DEF Client
<1>2. Counting(r) \subseteq Client
  BY DEF Counting
<1>3. QED
  BY <1>1, <1>2, FS_Subset, FS_CardinalityType

\* A step that changes no counter: every client counts as before.
LEMMA CountStutter ==
  ASSUME CountInv, UNCHANGED <<alive, lost, program, players>>,
         \A c \in Client :
           phase'[c] \in {"none", "gate", "done"} <=> phase[c] \in {"none", "gate", "done"}
  PROVE  CountInv'
<1>1. \A r \in Role : Counting(r)' = Counting(r)
  BY DEF Counting, RoleOf
<1>2. QED
  BY <1>1 DEF CountInv, Counted

\* Alive++: a client that did not count does.
LEMMA CountLaunch ==
  ASSUME TypeOK, RunInv, CountInv, Launch PROVE CountInv'
<1> SUFFICES ASSUME ~lost', Counted', NEW r \in Role
             PROVE  alive'[r] = Cardinality(Counting(r)')
  BY DEF CountInv
<1>1. ~lost /\ Counted /\ alive[RoleOf(next)] = mainRead
  BY DEF Launch, Store, Counted
<1>2. next \in Client /\ phase[next] = "none" /\ RoleOf(next) \in Role
  BY RunAssumption DEF TypeOK, Launch, RunInv, Client, RoleOf, Role
<1>3. alive[r] = Cardinality(Counting(r)) /\ alive[r] \in Int
  BY <1>1 DEF CountInv, TypeOK
<1>4. alive' = [alive EXCEPT ![RoleOf(next)] = mainRead + 1]
  BY DEF Launch, Store
<1>5. phase' = [phase EXCEPT ![next] = "dial"] /\ phase \in [Client -> Phase] /\ players' = players
  BY DEF Launch, TypeOK
<1>6. CASE r = RoleOf(next)
  <2>1. Counting(r)' = Counting(r) \cup {next}
    BY <1>2, <1>5, <1>6 DEF Counting, RoleOf
  <2>2. next \notin Counting(r)
    BY <1>2 DEF Counting
  <2>3. Cardinality(Counting(r)') = Cardinality(Counting(r)) + 1
    BY <2>1, <2>2, CountingFinite, FS_AddElement
  <2>4. alive'[r] = mainRead + 1
    BY <1>4, <1>6 DEF TypeOK
  <2>5. QED
    BY <2>3, <2>4, <1>1, <1>3, <1>6
<1>7. CASE r # RoleOf(next)
  <2>1. Counting(r)' = Counting(r)
    BY <1>2, <1>5, <1>7 DEF Counting, RoleOf
  <2>2. alive'[r] = alive[r]
    BY <1>4, <1>7 DEF TypeOK
  <2>3. QED
    BY <2>1, <2>2, <1>3
<1>8. QED
  BY <1>6, <1>7

\* Alive--: a client that counted does not.
LEMMA CountLeave ==
  ASSUME TypeOK, CountInv, NEW c \in Client, AliveStore(c) PROVE CountInv'
<1> SUFFICES ASSUME ~lost', Counted', NEW r \in Role
             PROVE  alive'[r] = Cardinality(Counting(r)')
  BY DEF CountInv
<1>1. ~lost /\ Counted /\ alive[RoleOf(c)] = read[c]
  BY DEF AliveStore, Store, Counted, launcher
<1>2. phase[c] = "dec" /\ RoleOf(c) \in Role
  BY DEF AliveStore, RoleOf, Role
<1>3. alive[r] = Cardinality(Counting(r)) /\ alive[r] \in Int
  BY <1>1 DEF CountInv, TypeOK
<1>4. alive' = [alive EXCEPT ![RoleOf(c)] = read[c] - 1]
  BY DEF AliveStore, Store
<1>5. /\ phase \in [Client -> Phase] /\ players' = players
      /\ phase' = [phase EXCEPT ![c] = IF Live THEN "gate" ELSE "done"]
  BY DEF AliveStore, TypeOK, launcher
<1>6. CASE r = RoleOf(c)
  <2>1. Counting(r)' = Counting(r) \ {c}
    BY <1>2, <1>5, <1>6 DEF Counting, RoleOf
  <2>2. c \in Counting(r)
    BY <1>2, <1>6 DEF Counting
  <2>3. Cardinality(Counting(r)') = Cardinality(Counting(r)) - 1
    BY <2>1, <2>2, CountingFinite, FS_RemoveElement
  <2>4. alive'[r] = read[c] - 1
    BY <1>4, <1>6 DEF TypeOK
  <2>5. QED
    BY <2>3, <2>4, <1>1, <1>3, <1>6
<1>7. CASE r # RoleOf(c)
  <2>1. Counting(r)' = Counting(r)
    BY <1>2, <1>5, <1>7 DEF Counting, RoleOf
  <2>2. alive'[r] = alive[r]
    BY <1>4, <1>7 DEF TypeOK
  <2>3. QED
    BY <2>1, <2>2, <1>3
<1>8. QED
  BY <1>6, <1>7

LEMMA CountInvStep == TypeOK /\ RunInv /\ GateInv /\ CountInv /\ [Next]_vars => CountInv'
<1> SUFFICES ASSUME TypeOK, RunInv, GateInv, CountInv, [Next]_vars PROVE CountInv'
  OBVIOUS
<1> USE DEF contexts, launcher, clients
<1>1. CASE Launch
  BY <1>1, CountLaunch
<1>2. CASE LaunchUncounted
  BY <1>2 DEF LaunchUncounted, MayLaunch, CountInv, Counted
<1>3. CASE Interrupt \/ LaunchEnds \/ Return \/ LaunchLoad
  BY <1>3, CountStutter DEF Interrupt, LaunchEnds, Return, LaunchLoad
<1>4. CASE StatOff \/ StatListens \/ StatFails \/ StatShutdown
  BY <1>4, CountStutter DEF StatOff, StatListens, StatFails, StatShutdown
<1>5. ASSUME NEW c \in Client, ClientStep(c) PROVE CountInv'
  <2> USE DEF TypeOK
  <2>1. CASE Advance(c)
    <3>1. /\ phase[c] \notin {"none", "gate", "done"}
          /\ Advances[phase[c]] \notin {"none", "gate", "done"}
      BY <2>1 DEF Advance, Advances
    <3>2. QED
      BY <2>1, <3>1, CountStutter DEF Advance
  <2>2. CASE Linger(c)
    BY <2>2, CountStutter DEF Linger
  <2>3. CASE Leave(c)
    <3>1. phase[c] \notin {"none", "gate", "done"}
      BY <2>3 DEF Leave, Advances
    <3>2. QED
      BY <2>3, <3>1, CountStutter DEF Leave
  <2>4. CASE AliveLoad(c)
    BY <2>4, CountStutter DEF AliveLoad
  <2>5. CASE AliveStore(c)
    BY <2>5, CountLeave
  <2>6. CASE Gate(c)
    BY <2>6, CountStutter DEF Gate
  <2>7. CASE DoneUncounted(c)
    BY <2>7 DEF DoneUncounted, CountInv, Counted
  <2>8. QED
    BY <1>5, <2>1, <2>2, <2>3, <2>4, <2>5, <2>6, <2>7 DEF ClientStep
<1>6. CASE UNCHANGED vars
  BY <1>6, CountStutter DEF vars
<1>7. QED
  BY <1>1, <1>2, <1>3, <1>4, <1>5, <1>6 DEF Next

\* A publisher that finds the counter at zero is one of the last.
LEMMA GateIsLast ==
  ASSUME TypeOK, RunInv, GateInv, CountInv, ~lost, ctx = "live",
         NEW c \in Client, Gate(c), alive["publish"] = 0
  PROVE  \A d \in Client : phase[d] \in {"gate", "done"}
<1>1. Live /\ Counted /\ players = 0
  BY DEF Gate, GateInv, Live, Counted
<1>2. next = Clients
  BY DEF Gate, RunInv, GateInv, TypeOK
<1>3. Counting("publish") = {}
  BY <1>1, CountingFinite, FS_EmptySet DEF CountInv, Role
<1>4. \A d \in Client : RoleOf(d) = "publish" /\ phase[d] # "none"
  BY <1>1, <1>2, RunAssumption DEF RoleOf, Client, RunInv
<1>5. QED
  BY <1>3, <1>4 DEF Counting

LEMMA OverInvStep ==
  TypeOK /\ RunInv /\ GateInv /\ CountInv /\ OverInv /\ [Next]_vars => OverInv'
<1> SUFFICES ASSUME TypeOK, RunInv, GateInv, CountInv, OverInv, [Next]_vars, ~lost'
             PROVE  OverInv'
  BY DEF OverInv
<1> USE RunAssumption
<1> USE DEF TypeOK, OverInv, contexts, launcher, clients, cancel, Context
<1>1. CASE Interrupt
  BY <1>1 DEF Interrupt
<1>2. CASE LaunchEnds \/ LaunchLoad
  BY <1>2 DEF LaunchEnds, LaunchLoad
<1>3. CASE Launch
  BY <1>3 DEF Launch, Store, RunInv, LaunchNotCut
<1>4. CASE LaunchUncounted
  BY <1>4 DEF LaunchUncounted, MayLaunch
<1>5. CASE Return
  <2>1. CASE ctx = "done"
    BY <1>5, <2>1 DEF Return
  <2>2. CASE ctx = "live"
    <3>1. \A c \in Client : phase[c] = "done"
      BY <1>5, <2>2 DEF Return, AllDone, GateInv, RunInv, Client
    <3>2. QED
      BY <1>5, <3>1 DEF Return
  <2>3. QED
    BY <2>1, <2>2
<1>6. CASE StatOff \/ StatListens \/ StatFails \/ StatShutdown
  BY <1>6 DEF StatOff, StatListens, StatFails, StatShutdown
<1>7. ASSUME NEW c \in Client, ClientStep(c) PROVE OverInv'
  <2>1. CASE Advance(c) \/ Linger(c) \/ Leave(c) \/ AliveLoad(c) \/ DoneUncounted(c)
    <3>1. phase[c] \notin {"gate", "done"}
      BY <2>1 DEF Advance, Advances, Linger, Leave, AliveLoad, DoneUncounted
    <3>2. UNCHANGED <<contexts, stat, lost>>
      BY <2>1 DEF Advance, Linger, Leave, AliveLoad, DoneUncounted
    <3>3. QED
      BY <3>1, <3>2
  <2>2. CASE AliveStore(c)
    BY <2>2 DEF AliveStore, Store
  <2>3. CASE Gate(c)
    <3>1. phase' = [phase EXCEPT ![c] = "done"] /\ UNCHANGED <<parent, stat, lost>>
      BY <2>3 DEF Gate
    <3>2. CASE ctx' = "done" /\ ctx = "live"
      <4>1. alive["publish"] = 0 /\ ~lost
        BY <2>3, <3>1, <3>2 DEF Gate
      <4>2. \A d \in Client : phase[d] \in {"gate", "done"}
        BY <2>3, <3>2, <4>1, GateIsLast
      <4>3. QED
        BY <3>1, <4>2
    <3>3. CASE ctx' = ctx
      BY <3>1, <3>3
    <3>4. QED
      BY <2>3, <3>2, <3>3 DEF Gate
  <2>4. QED
    BY <1>7, <2>1, <2>2, <2>3 DEF ClientStep
<1>8. CASE UNCHANGED vars
  BY <1>8 DEF vars
<1>9. QED
  BY <1>1, <1>2, <1>3, <1>4, <1>5, <1>6, <1>7, <1>8 DEF Next

\* Unless an update of a counter was lost, the counters are how many clients
\* there are, and no client is cut off by the end of another: the look at the
\* counter behind publisherStartedCtx finds zero only when all have left.
THEOREM NobodyIsCutOff == Spec => []NobodyCutOff
<1>1. Init => GateInv /\ CountInv /\ OverInv
  <2> SUFFICES ASSUME Init PROVE GateInv /\ CountInv /\ OverInv
    OBVIOUS
  <2>1. GateInv
    BY DEF Init, GateInv, Live, Counted
  <2>2. CountInv
    <3>1. \A r \in Role : Counting(r) = {}
      BY DEF Init, Counting
    <3>2. QED
      BY <3>1, FS_EmptySet DEF CountInv, Init, Role
  <2>3. QED
    BY <2>1, <2>2 DEF Init, OverInv
<1>2. CountInv /\ OverInv => NobodyCutOff
  BY DEF CountInv, OverInv, NobodyCutOff
<1>3. QED
  BY <1>1, <1>2, TypeCorrect, RunInvariant, GateInvStep, CountInvStep, OverInvStep, PTL DEF Spec
=============================================================================
