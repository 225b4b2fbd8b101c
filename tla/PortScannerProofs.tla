-------------------------- MODULE PortScannerProofs --------------------------
(***************************************************************************)
(* Proofs about PortScanner.tla for every list length, concurrency and     *)
(* reporting interval: the worker pool never blocks on its own channel,    *)
(* respects its concurrency, and implements the safety part of PortSweep.  *)
(***************************************************************************)
EXTENDS PortScanner, FiniteSetTheorems, TLAPS

Live == {p \in Ports : worker[p] \in HoldsSlot \cup {"leave"}}

\* The semaphore counts the slot holders, and the wait group the live workers
\* plus the one that is being admitted.
Counted ==
  /\ sem = Cardinality(Holding)
  /\ sem <= Concurrency
  /\ wg = Cardinality(Live) + (IF pc = "acquire" THEN 1 ELSE 0)

\* Ports are dispatched in order, each once.
Dispatched ==
  /\ pc \in {"tick", "acquire"} => next <= N
  /\ pc \in {"wait", "returned"} => next = N + 1
  /\ \A p \in Ports : worker[p] = "none" <=> p >= next

\* A verdict is there once the probe is over, and an open port is in the
\* channel from the moment it was sent until the drain.
Delivered ==
  /\ \A p \in Ports : verdict[p] = "unknown" <=> worker[p] \in {"none", "dial"}
  /\ \A p \in Ports : worker[p] = "send" => verdict[p] = "open"
  /\ pc # "returned" =>
       channel = {p \in Ports : verdict[p] = "open" /\ worker[p] # "send"}
  /\ pc = "returned" => \A p \in Ports : worker[p] = "gone"

\* The inductive invariant.
IInv == TypeOK /\ Counted /\ Dispatched /\ Delivered

-----------------------------------------------------------------------------
\* The ports are a finite set of N.
LEMMA PortsFinite ==
  /\ IsFiniteSet(Ports)
  /\ Cardinality(Ports) = N
  /\ \A p \in Ports : p \in Nat
<1>1. Ports = 1..N
  BY DEF Ports, Sweep!Ports
<1> QED
  BY <1>1, FS_Interval, NAssumption

\* Every set of ports is finite and no larger than N.
LEMMA SubsetsFinite ==
  ASSUME NEW S \in SUBSET Ports
  PROVE  IsFiniteSet(S) /\ Cardinality(S) \in Nat /\ Cardinality(S) <= N
BY PortsFinite, FS_Subset, FS_CardinalityType

\* The ports are numbered from 1.
LEMMA PortsAre == Ports = 1..N
BY DEF Ports, Sweep!Ports

\* The invariant holds before the first tick.
LEMMA InitInvariant == Init => IInv
<1> SUFFICES ASSUME Init PROVE IInv
  OBVIOUS
<1>1. TypeOK
  <2>1. next \in 1..(N + 1)
    BY NAssumption DEF Init
  <2>2. /\ worker \in [Ports -> Steps]
        /\ verdict \in [Ports -> {"unknown", "open", "closed"}]
        /\ nth \in [Ports -> Nat]
    BY DEF Init, Steps
  <2>3. QED
    BY <2>1, <2>2 DEF Init, TypeOK
<1>2. Holding = {} /\ Live = {}
  BY DEF Init, Holding, Live, HoldsSlot
<1>3. Counted
  BY <1>2, FS_EmptySet, ConcurrencyAssumption DEF Init, Counted
<1>4. Dispatched
  BY NAssumption, PortsAre DEF Init, Dispatched
<1>5. Delivered
  BY DEF Init, Delivered
<1> QED
  BY <1>1, <1>3, <1>4, <1>5 DEF IInv

-----------------------------------------------------------------------------
(* What one goroutine's move does to the two counted sets.                  *)

\* A worker that moves changes the sets it is counted in by at most one.
LEMMA OneMoves ==
  ASSUME TypeOK, NEW p \in Ports, NEW s \in Steps,
         worker' = [worker EXCEPT ![p] = s]
  PROVE  /\ worker' \in [Ports -> Steps]
         /\ worker'[p] = s
         /\ \A q \in Ports : q # p => worker'[q] = worker[q]
         /\ Holding' = IF s \in HoldsSlot THEN Holding \cup {p} ELSE Holding \ {p}
         /\ Live' = IF s \in HoldsSlot \cup {"leave"} THEN Live \cup {p} ELSE Live \ {p}
BY DEF TypeOK, Holding, Live, Ports, Sweep!Ports

\* A move between two steps that hold the slot leaves both counts alone.
LEMMA HolderMoves ==
  ASSUME TypeOK, Counted, NEW p \in Ports, NEW s \in HoldsSlot,
         worker[p] \in HoldsSlot,
         worker' = [worker EXCEPT ![p] = s],
         UNCHANGED <<pc, wg, sem>>
  PROVE  Counted'
<1>1. s \in Steps
  BY DEF HoldsSlot, Steps
<1>2. Holding' = Holding /\ Live' = Live
  BY <1>1, OneMoves DEF Holding, Live
<1> QED
  BY <1>2 DEF Counted

\* A move that leaves the workers alone leaves the counts alone.
LEMMA NobodyMoves ==
  ASSUME Counted, UNCHANGED <<pc, wg, sem, worker>>
  PROVE  Counted'
BY DEF Counted, Holding, Live, Ports, Sweep!Ports

\* The counters are natural numbers.
LEMMA CountsTyped ==
  /\ IsFiniteSet(Holding) /\ Cardinality(Holding) \in Nat
  /\ IsFiniteSet(Live) /\ Cardinality(Live) \in Nat
BY SubsetsFinite DEF Holding, Live

-----------------------------------------------------------------------------
(* Every action keeps the invariant.                                        *)

\* A tick of the rate limiter preserves the invariant.
LEMMA TickKeeps == IInv /\ Tick => IInv'
<1> SUFFICES ASSUME IInv, Tick PROVE IInv'
  OBVIOUS
<1> USE DEF IInv, Tick, counters, probes
<1>1. TypeOK'
  BY DEF TypeOK, Ports, Sweep!Ports
<1>2. Counted'
  BY NobodyMoves
<1>3. Dispatched' /\ Delivered'
  BY DEF Dispatched, Delivered, Ports, Sweep!Ports
<1> QED
  BY <1>1, <1>2, <1>3

\* Joining the wait group preserves it: the dispatcher is counted from then on.
LEMMA TakeTickKeeps == IInv /\ TakeTick => IInv'
<1> SUFFICES ASSUME IInv, TakeTick PROVE IInv'
  OBVIOUS
<1> USE DEF IInv, TakeTick, counters, probes
<1>1. TypeOK'
  <2>1. wg' \in Nat /\ worker' = worker /\ verdict' = verdict /\ nth' = nth
    BY DEF TypeOK
  <2> QED
    BY <2>1 DEF TypeOK, Ports, Sweep!Ports
<1>2. Counted'
  <2>1. Holding' = Holding /\ Live' = Live
    BY DEF Holding, Live, Ports, Sweep!Ports
  <2> QED
    BY <2>1, CountsTyped DEF Counted, TypeOK
<1>3. Dispatched' /\ Delivered'
  BY DEF Dispatched, Delivered, Ports, Sweep!Ports
<1> QED
  BY <1>1, <1>2, <1>3

\* Taking a slot and spawning a worker preserves it.
LEMMA SpawnKeeps == IInv /\ Spawn => IInv'
<1> SUFFICES ASSUME IInv, Spawn PROVE IInv'
  OBVIOUS
<1> USE DEF IInv, Spawn, counters, probes
<1>1. /\ next \in Ports /\ next \in Nat
      /\ worker[next] = "none"
  BY PortsAre, NAssumption DEF Dispatched, TypeOK
<1>2. /\ worker' \in [Ports -> Steps]
      /\ worker'[next] = "dial"
      /\ \A q \in Ports : q # next => worker'[q] = worker[q]
      /\ Holding' = Holding \cup {next} /\ Live' = Live \cup {next}
  BY <1>1, OneMoves DEF Steps, HoldsSlot
<1>3. TypeOK'
  <2>1. next' \in 1..(N + 1)
    BY <1>1, PortsAre, NAssumption
  <2>2. sem' \in Nat
    BY DEF TypeOK
  <2> QED
    BY <1>2, <2>1, <2>2 DEF TypeOK, Ports, Sweep!Ports
<1>4. Counted'
  <2>1. next \notin Holding /\ next \notin Live
    BY <1>1 DEF Holding, Live, HoldsSlot
  <2>2. /\ Cardinality(Holding') = Cardinality(Holding) + 1
        /\ Cardinality(Live') = Cardinality(Live) + 1
    BY <1>2, <2>1, CountsTyped, FS_AddElement
  <2> QED
    BY <2>2, CountsTyped, ConcurrencyAssumption DEF Counted, TypeOK
<1>5. Dispatched'
  <2>1. next < N \/ next = N
    BY <1>1, NAssumption DEF Dispatched
  <2>2. \A p \in Ports : worker'[p] = "none" <=> p >= next + 1
    BY <1>1, <1>2, PortsFinite DEF Dispatched
  <2> QED
    BY <1>1, <2>1, <2>2, NAssumption DEF Dispatched, Ports, Sweep!Ports
<1>6. Delivered'
  <2>1. verdict[next] = "unknown"
    BY <1>1 DEF Delivered
  <2> QED
    BY <1>1, <1>2, <2>1 DEF Delivered, Ports, Sweep!Ports
<1> QED
  BY <1>3, <1>4, <1>5, <1>6

\* Returning once the wait group is empty preserves it.
LEMMA ReturnKeeps == IInv /\ Return => IInv'
<1> SUFFICES ASSUME IInv, Return PROVE IInv'
  OBVIOUS
<1> USE DEF IInv, Return, counters, probes
<1>1. Live = {}
  BY CountsTyped, FS_EmptySet DEF Counted
<1>2. \A p \in Ports : worker[p] = "gone"
  <2> TAKE p \in Ports
  <2>1. worker[p] # "none"
    BY PortsAre, NAssumption DEF Dispatched
  <2> QED
    BY <1>1, <2>1 DEF Live, HoldsSlot, TypeOK, Steps
<1>3. TypeOK'
  BY DEF TypeOK, Ports, Sweep!Ports
<1>4. Counted'
  <2>1. Holding' = Holding /\ Live' = Live
    BY DEF Holding, Live, Ports, Sweep!Ports
  <2> QED
    BY <2>1 DEF Counted
<1>5. Dispatched' /\ Delivered'
  BY <1>2 DEF Dispatched, Delivered, Ports, Sweep!Ports
<1> QED
  BY <1>3, <1>4, <1>5

\* A probe of either outcome preserves it.
LEMMA ProbeKeeps ==
  ASSUME NEW p \in Ports, NEW v \in {"open", "closed"}
  PROVE  IInv /\ Probe(p, v) => IInv'
<1> SUFFICES ASSUME IInv, Probe(p, v) PROVE IInv'
  OBVIOUS
<1> USE DEF IInv, Probe, counters
<1> DEFINE s == CASE v = "open" -> "send"
                  [] v = "closed" /\ (scanned + 1) % ReportEvery = 0 -> "report"
                  [] OTHER -> "release"
<1>1. s \in {"send", "report", "release"} /\ (s = "send" <=> v = "open")
  OBVIOUS
<1>2. s \in HoldsSlot /\ s \in Steps
  BY <1>1 DEF HoldsSlot, Steps
<1>3. worker' = [worker EXCEPT ![p] = s]
  OBVIOUS
<1> HIDE DEF s
<1>4. /\ worker' \in [Ports -> Steps] /\ worker'[p] = s
      /\ \A q \in Ports : q # p => worker'[q] = worker[q]
  BY <1>2, <1>3, OneMoves
<1>5. TypeOK'
  BY <1>4 DEF TypeOK, Ports, Sweep!Ports
<1>6. Counted'
  BY <1>2, <1>3, HolderMoves DEF HoldsSlot
<1>7. Dispatched'
  BY <1>1, <1>4 DEF Dispatched, Ports, Sweep!Ports
<1>8. Delivered'
  <2>1. verdict'[p] = v /\ \A q \in Ports : q # p => verdict'[q] = verdict[q]
    BY DEF TypeOK
  <2>2. worker[p] = "dial" /\ p \notin channel /\ pc' = pc /\ channel' = channel
    BY DEF Delivered
  <2>3. pc # "returned"
    BY <2>2 DEF Delivered
  <2>4. channel' = {q \in Ports : verdict'[q] = "open" /\ worker'[q] # "send"}
    BY <1>1, <1>4, <2>1, <2>2, <2>3 DEF Delivered, TypeOK
  <2> QED
    BY <1>1, <1>4, <2>1, <2>2, <2>3, <2>4 DEF Delivered, Ports, Sweep!Ports
<1> QED
  BY <1>5, <1>6, <1>7, <1>8

\* A send to resultsChan preserves it.
LEMMA SendKeeps ==
  ASSUME NEW p \in Ports
  PROVE  IInv /\ Send(p) => IInv'
<1> SUFFICES ASSUME IInv, Send(p) PROVE IInv'
  OBVIOUS
<1> USE DEF IInv, Send, counters, probes
<1>1. /\ worker' \in [Ports -> Steps] /\ worker'[p] = "report"
      /\ \A q \in Ports : q # p => worker'[q] = worker[q]
  BY OneMoves DEF Steps
<1>2. TypeOK'
  BY <1>1 DEF TypeOK, Ports, Sweep!Ports
<1>3. Counted'
  BY HolderMoves DEF HoldsSlot
<1>4. Dispatched'
  BY <1>1 DEF Dispatched, Ports, Sweep!Ports
<1>5. Delivered'
  <2>1. pc # "returned" /\ verdict[p] = "open"
    BY DEF Delivered
  <2>2. channel' = {q \in Ports : verdict[q] = "open" /\ worker'[q] # "send"}
    BY <1>1, <2>1 DEF Delivered
  <2> QED
    BY <1>1, <2>1, <2>2 DEF Delivered, Ports, Sweep!Ports
<1> QED
  BY <1>2, <1>3, <1>4, <1>5

\* A call of OnProgress preserves it.
LEMMA ReportKeeps ==
  ASSUME NEW p \in Ports
  PROVE  IInv /\ Report(p) => IInv'
<1> SUFFICES ASSUME IInv, Report(p) PROVE IInv'
  OBVIOUS
<1> USE DEF IInv, Report, counters, probes
<1>1. /\ worker' \in [Ports -> Steps] /\ worker'[p] = "release"
      /\ \A q \in Ports : q # p => worker'[q] = worker[q]
  BY OneMoves DEF Steps
<1>2. TypeOK'
  BY <1>1 DEF TypeOK, Ports, Sweep!Ports
<1>3. Counted'
  BY HolderMoves DEF HoldsSlot
<1>4. Dispatched'
  BY <1>1 DEF Dispatched, Ports, Sweep!Ports
<1>5. Delivered'
  <2>1. pc # "returned"
    BY DEF Delivered
  <2>2. channel' = {q \in Ports : verdict[q] = "open" /\ worker'[q] # "send"}
    BY <1>1, <2>1 DEF Delivered
  <2> QED
    BY <1>1, <2>1, <2>2 DEF Delivered, Ports, Sweep!Ports
<1> QED
  BY <1>2, <1>3, <1>4, <1>5

\* Giving the slot back preserves it.
LEMMA ReleaseKeeps ==
  ASSUME NEW p \in Ports
  PROVE  IInv /\ Release(p) => IInv'
<1> SUFFICES ASSUME IInv, Release(p) PROVE IInv'
  OBVIOUS
<1> USE DEF IInv, Release, counters, probes
<1>1. /\ worker' \in [Ports -> Steps] /\ worker'[p] = "leave"
      /\ \A q \in Ports : q # p => worker'[q] = worker[q]
  BY OneMoves DEF Steps
<1>2. pc # "returned"
  BY DEF Delivered
<1>3. Counted' /\ sem' \in Nat
  <2>1. p \in Holding /\ Holding' = Holding \ {p}
    BY OneMoves DEF Holding, HoldsSlot, Steps
  <2>2. Live' = Live
    BY <1>1 DEF Live, HoldsSlot, Ports, Sweep!Ports
  <2>3. Cardinality(Holding') = Cardinality(Holding) - 1 /\ Cardinality(Holding) # 0
    BY <2>1, CountsTyped, FS_RemoveElement, FS_EmptySet
  <2> QED
    BY <2>2, <2>3, CountsTyped, ConcurrencyAssumption DEF Counted
<1>4. TypeOK'
  BY <1>1, <1>3 DEF TypeOK, Ports, Sweep!Ports
<1>5. Dispatched'
  BY <1>1 DEF Dispatched, Ports, Sweep!Ports
<1>6. Delivered'
  <2>1. channel' = {q \in Ports : verdict[q] = "open" /\ worker'[q] # "send"}
    BY <1>1, <1>2 DEF Delivered
  <2> QED
    BY <1>1, <1>2, <2>1 DEF Delivered, Ports, Sweep!Ports
<1> QED
  BY <1>3, <1>4, <1>5, <1>6

\* Leaving the wait group preserves it.
LEMMA LeaveKeeps ==
  ASSUME NEW p \in Ports
  PROVE  IInv /\ Leave(p) => IInv'
<1> SUFFICES ASSUME IInv, Leave(p) PROVE IInv'
  OBVIOUS
<1> USE DEF IInv, Leave, counters, probes
<1>1. /\ worker' \in [Ports -> Steps] /\ worker'[p] = "gone"
      /\ \A q \in Ports : q # p => worker'[q] = worker[q]
  BY OneMoves DEF Steps
<1>2. pc # "returned"
  BY DEF Delivered
<1>3. Counted' /\ wg' \in Nat
  <2>1. p \in Live /\ Live' = Live \ {p}
    BY OneMoves DEF Live, HoldsSlot, Steps
  <2>2. Holding' = Holding
    BY <1>1 DEF Holding, HoldsSlot, Ports, Sweep!Ports
  <2>3. Cardinality(Live') = Cardinality(Live) - 1 /\ Cardinality(Live) # 0
    BY <2>1, CountsTyped, FS_RemoveElement, FS_EmptySet
  <2> QED
    BY <2>2, <2>3, CountsTyped DEF Counted
<1>4. TypeOK'
  BY <1>1, <1>3 DEF TypeOK, Ports, Sweep!Ports
<1>5. Dispatched'
  BY <1>1 DEF Dispatched, Ports, Sweep!Ports
<1>6. Delivered'
  <2>1. channel' = {q \in Ports : verdict[q] = "open" /\ worker'[q] # "send"}
    BY <1>1, <1>2 DEF Delivered
  <2> QED
    BY <1>1, <1>2, <2>1 DEF Delivered, Ports, Sweep!Ports
<1> QED
  BY <1>3, <1>4, <1>5, <1>6

\* Whatever the other holders of s.mu do preserves it.
LEMMA OthersKeep == IInv /\ (OtherLocks \/ OtherUnlocks \/ UNCHANGED vars) => IInv'
<1> SUFFICES ASSUME IInv,
                    /\ UNCHANGED <<pc, next, ticked, counters, worker, probes,
                                    channel, result, shown>>
                    /\ smu' \in {"free", "other"}
             PROVE  IInv'
  BY DEF IInv, TypeOK, OtherLocks, OtherUnlocks, vars, counters, probes
<1> USE DEF IInv, counters, probes
<1>1. TypeOK'
  BY DEF TypeOK, Ports, Sweep!Ports
<1>2. Counted'
  BY NobodyMoves
<1>3. Dispatched' /\ Delivered'
  BY DEF Dispatched, Delivered, Ports, Sweep!Ports
<1> QED
  BY <1>1, <1>2, <1>3

\* Every step preserves the invariant.
LEMMA StepKeeps == IInv /\ [Next]_vars => IInv'
BY TickKeeps, TakeTickKeeps, SpawnKeeps, ReturnKeeps, ProbeKeeps, SendKeeps,
   ReportKeeps, ReleaseKeeps, LeaveKeeps, OthersKeep
   DEF Next, Dispatcher, Worker

\* The invariant holds in every state a scan can reach.
LEMMA Invariance == Safety => []IInv
BY InitInvariant, StepKeeps, PTL DEF Safety

-----------------------------------------------------------------------------
\* Every variable of the worker pool keeps its type, the two counters included:
\* neither the semaphore nor the wait group ever goes below zero.
THEOREM TypeCorrect == Spec => []TypeOK
BY Invariance, PTL DEF IInv, Spec

\* ScanPorts never blocks on its own results channel, whatever the number of
\* ports, workers and open ports: an open port not yet sent is not in it.
THEOREM ChannelNeverFull == Spec => []SendNeverBlocks
<1>1. IInv => SendNeverBlocks
  <2> SUFFICES ASSUME IInv, NEW p \in Ports, worker[p] = "send"
               PROVE  Cardinality(channel) < ChanCap
    BY DEF SendNeverBlocks
  <2>1. channel \in SUBSET (Ports \ {p})
    BY DEF IInv, Delivered
  <2>2. /\ IsFiniteSet(Ports \ {p})
        /\ Cardinality(Ports \ {p}) = N - 1
    BY PortsFinite, FS_RemoveElement
  <2>3. Cardinality(channel) <= N - 1 /\ Cardinality(channel) \in Nat
    BY <2>1, <2>2, FS_Subset, FS_CardinalityType
  <2> QED
    BY <2>3, NAssumption DEF ChanCap
<1> QED
  BY <1>1, Invariance, PTL DEF Spec

\* Never more than Concurrency workers hold a slot, so never more than that
\* many sockets are being dialled.
THEOREM ConcurrencyRespected == Spec => []InFlightBounded
<1>1. IInv => InFlightBounded
  BY DEF IInv, Counted, InFlightBounded
<1> QED
  BY <1>1, Invariance, PTL DEF Spec

\* No worker reports progress once the call has returned: all of them are gone.
THEOREM NoStraggler == Spec => NoLateReport
<1>1. IInv /\ [Next]_vars => [pc = "returned" => shown' = shown]_vars
  <2> SUFFICES ASSUME IInv, Next, pc = "returned"
               PROVE  shown' = shown
    BY DEF vars
  <2>1. \A p \in Ports : worker[p] # "report"
    BY DEF IInv, Delivered
  <2> QED
    BY <2>1 DEF Next, Dispatcher, Worker, Tick, TakeTick, Spawn, Return, Probe,
                Send, Report, Release, Leave, OtherLocks, OtherUnlocks
<1> QED
  BY <1>1, Invariance, PTL DEF Spec, Safety, NoLateReport

\* The worker pool implements what ScanPorts promises: each port is judged once
\* and the call returns, once, exactly the ports found open, sorted.
THEOREM ImplementsSweep == Spec => SweepSafety
<1>1. Init => Sweep!Init
  BY DEF Init, Sweep!Init, Ports
<1>2. IInv /\ [Next]_vars => [Sweep!Next]_<<verdict, pc = "returned", result>>
  <2> SUFFICES ASSUME IInv, [Next]_vars
               PROVE  \/ Sweep!Next
                      \/ UNCHANGED <<verdict, pc = "returned", result>>
    OBVIOUS
  <2>1. CASE Return
    <3>1. Live = {} /\ \A p \in Ports : worker[p] = "gone"
      BY <2>1, CountsTyped, FS_EmptySet, ReturnKeeps
         DEF IInv, Counted, Delivered, Return, counters
    <3>2. /\ channel = Sweep!Open(verdict)
          /\ \A p \in Ports : verdict[p] # "unknown"
      BY <2>1, <3>1 DEF IInv, Delivered, Return, Sweep!Open, Ports
    <3> QED
      BY <2>1, <3>2 DEF Return, Sweep!Next, Sweep!Return, Ports, probes
  <2>2. ASSUME NEW p \in Ports, NEW v \in {"open", "closed"}, Probe(p, v)
        PROVE  Sweep!Next
    <3>1. verdict[p] = "unknown" /\ p \in Sweep!Ports
      BY <2>2 DEF IInv, Delivered, Probe, Ports
    <3>2. Sweep!Judge(p, v)
      BY <2>2, <3>1 DEF Probe, Sweep!Judge
    <3> QED
      BY <3>1, <3>2 DEF Sweep!Next
  <2>3. CASE \/ Tick \/ TakeTick \/ Spawn \/ OtherLocks \/ OtherUnlocks
             \/ \E p \in Ports : Send(p) \/ Report(p) \/ Release(p) \/ Leave(p)
             \/ UNCHANGED vars
    BY <2>3 DEF Tick, TakeTick, Spawn, OtherLocks, OtherUnlocks, Send, Report,
                Release, Leave, vars, probes
  <2> QED
    BY <2>1, <2>2, <2>3 DEF Next, Dispatcher, Worker
<1> QED
  BY <1>1, <1>2, Invariance, PTL
     DEF Spec, Safety, SweepSafety, Sweep!Safety, Sweep!sweepVars

==============================================================================
