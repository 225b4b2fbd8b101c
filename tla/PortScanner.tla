----------------------------- MODULE PortScanner -----------------------------
(***************************************************************************)
(* Scanner.ScanPorts (pkg/scan/portscan.go): one dispatcher that waits for *)
(* a rate-limiter tick per port, joins the wait group, takes a semaphore   *)
(* slot and spawns a worker; workers that probe, count, send open ports to *)
(* a buffered channel, call OnProgress and leave.  OnProgress is the       *)
(* server's callback (pkg/server/server.go): it takes s.mu, which a        *)
(* verification rescan may be holding.                                     *)
(***************************************************************************)
EXTENDS Naturals, FiniteSets

CONSTANTS N,            \* len(ports)
          Concurrency,  \* capacity of the semaphore
          ReportEvery   \* a closed port reports when its number divides by this (250)

ASSUME NAssumption == N \in Nat \ {0}   \* an empty list means the default ports
ASSUME ConcurrencyAssumption == Concurrency \in Nat \ {0}
ASSUME ReportEveryAssumption == ReportEvery \in Nat \ {0}

VARIABLES pc,        \* dispatcher: "tick", "acquire", "wait" or "returned"
          next,      \* the next port to dispatch
          ticked,    \* a tick is waiting in rateLimiter.C
          wg,        \* counter of the wait group
          sem,       \* slots taken in the semaphore
          worker,    \* port -> where its goroutine stands
          verdict,   \* port -> what the probe said
          scanned,   \* scannedCount
          nth,       \* port -> sc, the value of scannedCount its worker got
          channel,   \* ports buffered in resultsChan
          result,    \* what the call returned
          shown,     \* "scanned" as the last OnProgress call gave it
          smu        \* "free" or "other": s.mu held by another goroutine

counters == <<wg, sem>>
probes   == <<verdict, scanned, nth>>
vars == <<pc, next, ticked, wg, sem, worker, verdict, scanned, nth,
          channel, result, shown, smu>>

Sweep == INSTANCE PortSweep WITH returned <- (pc = "returned")
Ports == Sweep!Ports

\* Fault: a channel sized like the semaphore.
ChanCapPerSlot == Concurrency

\* make(chan PortResult, len(ports))
ChanCap == N

Steps == {"none", "dial", "send", "report", "release", "leave", "gone"}
HoldsSlot == {"dial", "send", "report", "release"}
Holding == {p \in Ports : worker[p] \in HoldsSlot}

TypeOK ==
  /\ pc \in {"tick", "acquire", "wait", "returned"}
  /\ next \in 1..(N + 1)
  /\ ticked \in BOOLEAN
  /\ wg \in Nat /\ sem \in Nat /\ scanned \in Nat
  /\ worker \in [Ports -> Steps]
  /\ verdict \in [Ports -> {"unknown", "open", "closed"}]
  /\ nth \in [Ports -> Nat]
  /\ channel \in SUBSET Ports
  /\ shown \in Nat
  /\ smu \in {"free", "other"}

Init ==
  /\ pc = "tick" /\ next = 1 /\ ticked = FALSE
  /\ wg = 0 /\ sem = 0 /\ scanned = 0
  /\ worker = [p \in Ports |-> "none"]
  /\ verdict = [p \in Ports |-> "unknown"]
  /\ nth = [p \in Ports |-> 0]
  /\ channel = {} /\ result = << >>
  /\ shown = 0
  /\ smu = "free"

-----------------------------------------------------------------------------
\* The dispatcher.  The select on ctx.Done() before each port only breaks out
\* of the select itself, so it changes nothing and has no action.

\* The ticker's channel buffers one tick; a tick that finds it full is dropped.
Tick == /\ pc # "returned" /\ ~ticked
        /\ ticked' = TRUE
        /\ UNCHANGED <<pc, next, counters, worker, probes, channel, result, shown, smu>>

\* Fault: wg.Add(1) forgotten.
TakeTickNoAdd == /\ pc = "tick" /\ ticked
                 /\ ticked' = FALSE
                 /\ pc' = "acquire"
                 /\ UNCHANGED <<next, counters, worker, probes, channel, result, shown, smu>>

\* <-rateLimiter.C, then wg.Add(1), before the semaphore is asked for.
TakeTick == /\ pc = "tick" /\ ticked
            /\ ticked' = FALSE
            /\ wg' = wg + 1
            /\ pc' = "acquire"
            /\ UNCHANGED <<next, sem, worker, probes, channel, result, shown, smu>>

\* Fault: the slot is counted but never waited for.
SpawnUnbounded == /\ pc = "acquire"
                  /\ sem' = sem + 1
                  /\ worker' = [worker EXCEPT ![next] = "dial"]
                  /\ next' = next + 1
                  /\ pc' = IF next = N THEN "wait" ELSE "tick"
                  /\ UNCHANGED <<ticked, wg, probes, channel, result, shown, smu>>

Spawn == /\ pc = "acquire" /\ sem < Concurrency
         /\ sem' = sem + 1
         /\ worker' = [worker EXCEPT ![next] = "dial"]
         /\ next' = next + 1
         /\ pc' = IF next = N THEN "wait" ELSE "tick"
         /\ UNCHANGED <<ticked, wg, probes, channel, result, shown, smu>>

\* Fault: returns without wg.Wait.
ReturnEarly == /\ pc = "wait"
               /\ pc' = "returned"
               /\ result' = Sweep!SortedPorts(channel)
               /\ channel' = {}
               /\ UNCHANGED <<next, ticked, counters, worker, probes, shown, smu>>

\* wg.Wait, close, drain, sort, return.
Return == /\ pc = "wait" /\ wg = 0
          /\ pc' = "returned"
          /\ result' = Sweep!SortedPorts(channel)
          /\ channel' = {}
          /\ UNCHANGED <<next, ticked, counters, worker, probes, shown, smu>>

-----------------------------------------------------------------------------
\* The goroutine of port p.  openCount only feeds an argument OnProgress
\* ignores and is left out.

\* probeTCPPort and AddInt64(&scannedCount, 1).  The guard is never changed
\* after Compile, so its preflight answer inside the worker is the one
\* ScanPorts already had; a dial ends, with a connection or an error.
Probe(p, v) ==
  /\ worker[p] = "dial"
  /\ verdict' = [verdict EXCEPT ![p] = v]
  /\ scanned' = scanned + 1
  /\ nth' = [nth EXCEPT ![p] = scanned + 1]
  /\ worker' = [worker EXCEPT ![p] =
                  CASE v = "open" -> "send"
                    [] v = "closed" /\ (scanned + 1) % ReportEvery = 0 -> "report"
                    [] OTHER -> "release"]
  /\ UNCHANGED <<pc, next, ticked, counters, channel, result, shown, smu>>

Send(p) ==
  /\ worker[p] = "send" /\ Cardinality(channel) < ChanCap
  /\ channel' = channel \cup {p}
  /\ worker' = [worker EXCEPT ![p] = "report"]
  /\ UNCHANGED <<pc, next, ticked, counters, probes, result, shown, smu>>

\* OnProgress: s.mu.Lock ... s.mu.Unlock.
Report(p) ==
  /\ worker[p] = "report" /\ smu = "free"
  /\ shown' = nth[p]
  /\ worker' = [worker EXCEPT ![p] = "release"]
  /\ UNCHANGED <<pc, next, ticked, counters, probes, channel, result, smu>>

\* Fault: the worker keeps its slot.
ReleaseNothing(p) ==
  /\ worker[p] = "release"
  /\ worker' = [worker EXCEPT ![p] = "leave"]
  /\ UNCHANGED <<pc, next, ticked, counters, probes, channel, result, shown, smu>>

\* Deferred calls run last in, first out: the slot is given back ...
Release(p) ==
  /\ worker[p] = "release"
  /\ sem' = sem - 1
  /\ worker' = [worker EXCEPT ![p] = "leave"]
  /\ UNCHANGED <<pc, next, ticked, wg, probes, channel, result, shown, smu>>

\* ... and then wg.Done is called.
Leave(p) ==
  /\ worker[p] = "leave"
  /\ wg' = wg - 1
  /\ worker' = [worker EXCEPT ![p] = "gone"]
  /\ UNCHANGED <<pc, next, ticked, sem, probes, channel, result, shown, smu>>

-----------------------------------------------------------------------------
\* Any other holder of s.mu: a handler, another scan, a verification rescan.
OtherLocks == /\ smu = "free" /\ smu' = "other"
              /\ UNCHANGED <<pc, next, ticked, counters, worker, probes, channel, result, shown>>

OtherUnlocks == /\ smu = "other" /\ smu' = "free"
                /\ UNCHANGED <<pc, next, ticked, counters, worker, probes, channel, result, shown>>

Dispatcher == TakeTick \/ Spawn \/ Return

Worker(p) == \/ \E v \in {"open", "closed"} : Probe(p, v)
             \/ Send(p) \/ Report(p) \/ Release(p) \/ Leave(p)

Next == \/ Tick \/ Dispatcher
        \/ \E p \in Ports : Worker(p)
        \/ OtherLocks \/ OtherUnlocks

\* The runtime schedules runnable goroutines, the ticker ticks, a dial ends by
\* its timeout, holders of s.mu give it back, and a Go mutex in starvation mode
\* is handed to the goroutine that has waited longest.
Fairness == /\ WF_vars(Tick) /\ WF_vars(Dispatcher) /\ WF_vars(OtherUnlocks)
            /\ \A p \in Ports : WF_vars(Worker(p)) /\ SF_vars(Report(p))

Safety == Init /\ [][Next]_vars
Spec == Safety /\ Fairness

-----------------------------------------------------------------------------
\* A worker with an open port never blocks on resultsChan while it holds its
\* slot: the channel is drained only after wg.Wait, so a full one would stop
\* the scan for good.
SendNeverBlocks == \A p \in Ports : worker[p] = "send" => Cardinality(channel) < ChanCap

\* At most Concurrency workers are between taking and giving back a slot, so
\* at most that many sockets are being dialled.
InFlightBounded == Cardinality(Holding) <= Concurrency

\* Once ScanPorts has returned no straggler touches the run: the server sets
\* ProgressPct to 55 next, and a late callback would pull it back to 50.
NoLateReport == [][pc = "returned" => shown' = shown]_vars

\* ScanPorts returns, and returns exactly the ports found open, in order.
SweepSafety == Sweep!Safety
SweepSpec == Sweep!Spec
==============================================================================
