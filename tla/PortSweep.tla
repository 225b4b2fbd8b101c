------------------------------ MODULE PortSweep ------------------------------
(***************************************************************************)
(* What Scanner.ScanPorts promises its caller: every requested port gets a *)
(* verdict exactly once, and the call returns, once, the ports found open  *)
(* in ascending order.  PortScanner.tla is the worker pool that keeps it.  *)
(***************************************************************************)
EXTENDS Naturals
LOCAL INSTANCE SequencesExt

CONSTANT N    \* how many ports the caller asked for: the entries 1..N of opts.Ports

VARIABLES verdict,   \* port -> "unknown", "open" or "closed"
          returned,  \* has the call returned?
          result     \* the list it returned

sweepVars == <<verdict, returned, result>>

Ports == 1..N

Open(v) == {p \in Ports : v[p] = "open"}

\* sort.Slice over the drained results: ports are distinct, so the list is a
\* function of the set.
SortedPorts(S) == SetToSortSeq(S, LAMBDA a, b : a < b)

Init == /\ verdict = [p \in Ports |-> "unknown"]
        /\ returned = FALSE
        /\ result = << >>

Judge(p, v) == /\ verdict[p] = "unknown"
               /\ verdict' = [verdict EXCEPT ![p] = v]
               /\ UNCHANGED <<returned, result>>

Return == /\ ~returned
          /\ \A p \in Ports : verdict[p] # "unknown"
          /\ returned' = TRUE
          /\ result' = SortedPorts(Open(verdict))
          /\ UNCHANGED verdict

Next == \/ \E p \in Ports, v \in {"open", "closed"} : Judge(p, v)
        \/ Return

Safety == Init /\ [][Next]_sweepVars
Spec == Safety /\ WF_sweepVars(Next)
==============================================================================
