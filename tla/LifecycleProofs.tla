--------------------------- MODULE LifecycleProofs ---------------------------
(***************************************************************************)
(* As long as the server is not restarted it implements FindingLifecycle,  *)
(* for any number of scans, verification rescans and findings: what a run  *)
(* counts is what it did to findings of its target, once each.             *)
(***************************************************************************)
EXTENDS ScanServerProofs

Columns == {"new", "fixed", "reopened", "unverified"}
InColumns(d) == d.new \cup d.fixed \cup d.reopened \cup d.unverified

Opening == {"idle", "scope", "probe", "inspect", "hung", "asset", "evaluate", "ingest"}
Closing == {"save", "rest", "truncate", "write", "done"}

\* Where a run's diff is kept, and what a scan still has to look at.
Books(s) ==
  /\ pc[s] \in Opening \cup Closing \cup {"seen", "missing", "record", "group", "publish", "finish"}
  /\ pc[s] \in Opening \cup {"seen", "missing", "record"} => runs[s].diff = NoDiff
  /\ pc[s] \in Opening \cup Closing => job[s].diff = NoDiff
  /\ pc[s] = "seen" => InColumns(job[s].diff) \subseteq job[s].detected \ job[s].todo
  /\ pc[s] = "missing" => /\ job[s].todo \subseteq KeysOf(job[s].target)
                          /\ InColumns(job[s].diff) \subseteq KeysOf(job[s].target) \ job[s].todo
  /\ pc[s] \in {"group", "publish", "finish"} => runs[s].diff = job[s].diff

\* A verification rescan writes to one finding at a time.
OneAtATime == \A v \in Verifiers : \A j, k \in check[v].key : j = k

LInv == IInv /\ crashes = 0 /\ OneAtATime /\ \A s \in Scans : Books(s)

StateOf == [k \in Keys |-> findings[k].state]

-----------------------------------------------------------------------------
(* Diffs as functions from columns to sets of findings.                     *)

\* A diff is a function from the four columns to sets of findings.
LEMMA DiffsAreFunctions == Diff = [Columns -> SUBSET Keys]
BY DEF Diff, Columns

\* The record with four empty columns is the function that is empty everywhere.
LEMMA NoDiffEmpty == NoDiff = [c \in Columns |-> {}]
<1> DEFINE F == [c \in Columns |-> {}]
<1>1. NoDiff \in [Columns -> SUBSET Keys]
  BY Blanks, DiffsAreFunctions
<1>2. F \in [Columns -> SUBSET Keys]
  OBVIOUS
<1>3. \A c \in Columns : NoDiff[c] = {}
  BY DEF NoDiff, Columns
<1>4. \A c \in Columns : F[c] = {}
  OBVIOUS
<1> HIDE DEF F
<1>5. \A f, g \in [Columns -> SUBSET Keys] : (\A c \in Columns : f[c] = g[c]) => f = g
  OBVIOUS
<1>6. NoDiff = F
  BY <1>1, <1>2, <1>3, <1>4, <1>5
<1> QED BY <1>6 DEF F

\* The findings a diff counts are those of its columns.
LEMMA ColumnsUnited ==
  ASSUME NEW d \in Diff
  PROVE  UNION {d[c] : c \in Columns} = InColumns(d)
BY DEF Columns, Diff, InColumns

\* What one iteration of either loop may do to the columns and to the finding.
Moves(d, e, f, g, k) ==
  \/ f.state = "absent" /\ g.state = "open" /\ g.reopened = 0 /\ e = [d EXCEPT !["new"] = @ \cup {k}]
  \/ /\ f.state \in {"fixed", "unverified_absent"} /\ g.state = "open"
     /\ g.reopened = f.reopened + 1 /\ e = [d EXCEPT !["reopened"] = @ \cup {k}]
  \/ /\ f.state = "open" /\ g.state = "fixed"
     /\ g.reopened = f.reopened /\ e = [d EXCEPT !["fixed"] = @ \cup {k}]
  \/ g = f /\ e = d

\* A detection moves the finding and counts it in the same column, or neither.
LEMMA DetectedMoves ==
  ASSUME NEW f \in Finding, NEW d \in Diff, NEW k \in Keys
  PROVE  Moves(d, DetectedColumn(d, k, f), f, Detected(f), k)
BY DEF Moves, Detected, DetectedColumn, Finding, Absent, Diff

\* So does a missed detection.
LEMMA MissedMoves ==
  ASSUME NEW f \in Finding, NEW d \in Diff, NEW k \in Keys
  PROVE  Moves(d, MissedColumn(d, k, f, TRUE), f, Missed(f, TRUE), k)
BY DEF Moves, Missed, MissedColumn, Finding, Diff

\* Another finding in a column is one more finding the diff counts.
LEMMA ColumnGrows ==
  ASSUME NEW d \in Diff, NEW k \in Keys, NEW c \in Columns
  PROVE  /\ [d EXCEPT ![c] = @ \cup {k}] \in Diff
         /\ InColumns([d EXCEPT ![c] = @ \cup {k}]) = InColumns(d) \cup {k}
         /\ [d EXCEPT ![c] = @ \cup {k}] # NoDiff
BY DEF Columns, Diff, InColumns, NoDiff

-----------------------------------------------------------------------------
(* Steps that the life cycle does not see.                                  *)

Unseen == /\ \A k \in Keys : findings'[k].state = findings[k].state
          /\ \A s \in Scans : Ledger'[s] = Ledger[s]

Simulated == LInv' /\ [Lifecycle!Next]_<<StateOf, Ledger>>

\* Where no state and no ledger changes the life cycle stutters.
LEMMA UnseenStutters ==
  ASSUME Unseen
  PROVE  UNCHANGED <<StateOf, Ledger>>
BY DEF Unseen, StateOf, Ledger

\* A step of one scan that keeps its books and its ledger.
LEMMA ScanFrame ==
  ASSUME LInv, IInv', NEW s \in Scans, Books(s)', Ledger'[s] = Ledger[s],
         \A t \in Scans : t # s => pc'[t] = pc[t] /\ job'[t] = job[t] /\ runs'[t] = runs[t],
         \A k \in Keys : findings'[k].state = findings[k].state,
         UNCHANGED <<check, crashes>>
  PROVE  Simulated
<1>1. LInv'
  BY DEF LInv, Books, OneAtATime
<1>2. Unseen
  BY DEF Unseen, Ledger
<1> QED BY <1>1, <1>2, UnseenStutters DEF Simulated

\* A step that no scan takes.
LEMMA OtherFrame ==
  ASSUME LInv, IInv', OneAtATime',
         \A t \in Scans : pc'[t] = pc[t] /\ job'[t] = job[t] /\ runs'[t] = runs[t],
         \A k \in Keys : findings'[k].state = findings[k].state,
         UNCHANGED crashes
  PROVE  Simulated
<1>1. LInv'
  BY DEF LInv, Books
<1>2. Unseen
  BY DEF Unseen, Ledger
<1> QED BY <1>1, <1>2, UnseenStutters DEF Simulated

\* The steps of a scan up to IngestScanFindings, and after it.
LEMMA QuietScanStep ==
  ASSUME LInv, IInv', NEW s \in Scans,
         \/ \E r \in Requests : Submit(s, r)
         \/ Authorize(s) \/ Reject(s) \/ Hang(s) \/ RecordAsset(s)
         \/ \E R \in SUBSET job[s].cover : ProbeTarget(s, R)
         \/ \E ok \in BOOLEAN : InspectHost(s, ok)
         \/ \E D \in SUBSET job[s].examined : Evaluate(s, D)
         \/ PublishItems(s)
  PROVE  Simulated
<1> USE DEF LInv, IInv, TypeOK, memory, disk, world, Goto, Goroutines
<1>1. ASSUME NEW r \in Requests, Submit(s, r) PROVE Simulated
  <2>1. /\ pc[s] = "idle" /\ pc'[s] = "scope" /\ job'[s].diff = NoDiff /\ runs'[s].diff = NoDiff
        /\ \A t \in Scans : t # s => pc'[t] = pc[t] /\ job'[t] = job[t] /\ runs'[t] = runs[t]
        /\ UNCHANGED <<findings, check, crashes>>
    BY <1>1 DEF Submit, NoRun, NoJob
  <2>2. Books(s)' /\ Ledger'[s] = Ledger[s]
    BY <2>1 DEF Books, Opening, Closing, Ledger
  <2> QED BY <2>1, <2>2, ScanFrame
<1>2. CASE Authorize(s) \/ Hang(s) \/ RecordAsset(s) \/ PublishItems(s)
  <2>1. /\ \/ pc[s] \in Opening /\ pc'[s] \in Opening
           \/ pc[s] = "publish" /\ pc'[s] = "finish"
        /\ job' = job /\ runs' = runs /\ findings' = findings
        /\ \A t \in Scans : t # s => pc'[t] = pc[t]
        /\ UNCHANGED <<check, crashes>>
    BY <1>2 DEF Authorize, Hang, RecordAsset, PublishItems, Opening
  <2>2. Books(s)' /\ Ledger'[s] = Ledger[s]
    BY <2>1 DEF Books, Opening, Closing, Ledger
  <2> QED BY <2>1, <2>2, ScanFrame
<1>3. CASE Reject(s)
  <2>1. /\ pc[s] = "scope" /\ pc'[s] = "finish"
        /\ job' = job /\ runs'[s].diff = runs[s].diff /\ findings' = findings
        /\ \A t \in Scans : t # s => pc'[t] = pc[t] /\ runs'[t] = runs[t]
        /\ UNCHANGED <<check, crashes>>
    BY <1>3 DEF Reject, Run
  <2>2. Books(s)' /\ Ledger'[s] = Ledger[s]
    BY <2>1 DEF Books, Opening, Closing, Ledger
  <2> QED BY <2>1, <2>2, ScanFrame
<1>4. ASSUME NEW R \in SUBSET job[s].cover, ProbeTarget(s, R) PROVE Simulated
  <2>1. /\ pc[s] \in Opening /\ pc'[s] \in Opening
        /\ job'[s].diff = job[s].diff /\ runs' = runs /\ findings' = findings
        /\ \A t \in Scans : t # s => pc'[t] = pc[t] /\ job'[t] = job[t]
        /\ UNCHANGED <<check, crashes>>
    BY <1>4 DEF ProbeTarget, Opening, Job
  <2>2. Books(s)' /\ Ledger'[s] = Ledger[s]
    BY <2>1 DEF Books, Opening, Closing, Ledger
  <2> QED BY <2>1, <2>2, ScanFrame
<1>5. ASSUME NEW ok \in BOOLEAN, InspectHost(s, ok) PROVE Simulated
  <2>1. /\ pc[s] \in Opening /\ pc'[s] \in Opening
        /\ job'[s].diff = job[s].diff /\ runs' = runs /\ findings' = findings
        /\ \A t \in Scans : t # s => pc'[t] = pc[t] /\ job'[t] = job[t]
        /\ UNCHANGED <<check, crashes>>
    BY <1>5 DEF InspectHost, Opening, Job
  <2>2. Books(s)' /\ Ledger'[s] = Ledger[s]
    BY <2>1 DEF Books, Opening, Closing, Ledger
  <2> QED BY <2>1, <2>2, ScanFrame
<1>6. ASSUME NEW D \in SUBSET job[s].examined, Evaluate(s, D) PROVE Simulated
  <2>1. /\ pc[s] \in Opening /\ pc'[s] \in Opening
        /\ job'[s].diff = job[s].diff /\ runs' = runs /\ findings' = findings
        /\ \A t \in Scans : t # s => pc'[t] = pc[t] /\ job'[t] = job[t]
        /\ UNCHANGED <<check, crashes>>
    BY <1>6 DEF Evaluate, Opening, Job
  <2>2. Books(s)' /\ Ledger'[s] = Ledger[s]
    BY <2>1 DEF Books, Opening, Closing, Ledger
  <2> QED BY <2>1, <2>2, ScanFrame
<1> QED BY <1>1, <1>2, <1>3, <1>4, <1>5, <1>6

\* The locks of IngestScanFindings, the copy of the diff to the run, the
\* remediation IDs and the end of the run.
LEMMA LedgerKeptStep ==
  ASSUME LInv, IInv', NEW s \in Scans,
         IngestLock(s) \/ IngestTurn(s) \/ IngestUnlock(s) \/ RecordDiff(s) \/ GroupFindings(s) \/ Finish(s)
  PROVE  Simulated
<1> USE DEF LInv, IInv, TypeOK, memory, disk, world, Goto, Goroutines
<1>1. CASE IngestLock(s)
  <2>1. /\ pc[s] = "ingest" /\ pc'[s] = "seen"
        /\ job'[s].diff = job[s].diff /\ runs' = runs /\ findings' = findings
        /\ \A t \in Scans : t # s => pc'[t] = pc[t] /\ job'[t] = job[t]
        /\ UNCHANGED <<check, crashes>>
    BY <1>1 DEF IngestLock, Job
  <2>2. Books(s)' /\ Ledger'[s] = Ledger[s]
    BY <2>1 DEF Books, Opening, Closing, Ledger, InColumns, NoDiff
  <2> QED BY <2>1, <2>2, ScanFrame
<1>2. CASE IngestTurn(s)
  <2>1. /\ pc[s] = "seen" /\ pc'[s] = "missing" /\ job[s].todo = {}
        /\ job'[s].diff = job[s].diff /\ runs' = runs /\ findings' = findings
        /\ job'[s].detected = job[s].detected /\ job'[s].target = job[s].target
        /\ job'[s].todo \subseteq KeysOf(job[s].target) \ job[s].detected
        /\ \A t \in Scans : t # s => pc'[t] = pc[t] /\ job'[t] = job[t]
        /\ UNCHANGED <<check, crashes>>
    BY <1>2 DEF IngestTurn, Job, KeysOf, Stored
  <2>2. Books(s)'
    BY <2>1 DEF Books, Opening, Closing, Targeted
  <2>3. Ledger'[s] = Ledger[s]
    BY <2>1 DEF Ledger
  <2> QED BY <2>1, <2>2, <2>3, ScanFrame
<1>3. CASE IngestUnlock(s)
  <2>1. /\ pc[s] = "missing" /\ pc'[s] = "record"
        /\ job'[s].diff = job[s].diff /\ runs' = runs /\ findings' = findings
        /\ \A t \in Scans : t # s => pc'[t] = pc[t] /\ job'[t] = job[t]
        /\ UNCHANGED <<check, crashes>>
    BY <1>3 DEF IngestUnlock, Job
  <2>2. Books(s)' /\ Ledger'[s] = Ledger[s]
    BY <2>1 DEF Books, Opening, Closing, Ledger
  <2> QED BY <2>1, <2>2, ScanFrame
<1>4. CASE RecordDiff(s)
  <2>1. /\ pc[s] = "record" /\ pc'[s] = "group"
        /\ job' = job /\ runs'[s].diff = job[s].diff /\ findings' = findings
        /\ \A t \in Scans : t # s => pc'[t] = pc[t] /\ runs'[t] = runs[t]
        /\ UNCHANGED <<check, crashes>>
    BY <1>4 DEF RecordDiff, Run
  <2>2. Books(s)' /\ Ledger'[s] = Ledger[s]
    BY <2>1 DEF Books, Opening, Closing, Ledger
  <2> QED BY <2>1, <2>2, ScanFrame
<1>5. CASE GroupFindings(s)
  <2>1. /\ pc[s] = "group" /\ pc'[s] = "publish"
        /\ job'[s].diff = job[s].diff /\ runs' = runs
        /\ \A t \in Scans : t # s => pc'[t] = pc[t] /\ job'[t] = job[t]
        /\ UNCHANGED <<check, crashes>>
    BY <1>5 DEF GroupFindings, Job
  <2>2. \A k \in Keys : findings'[k].state = findings[k].state
    BY <1>5 DEF GroupFindings, Finding
  <2>3. Books(s)' /\ Ledger'[s] = Ledger[s]
    BY <2>1 DEF Books, Opening, Closing, Ledger
  <2> QED BY <2>1, <2>2, <2>3, ScanFrame
<1>6. CASE Finish(s)
  <2>1. /\ pc[s] = "finish" /\ pc'[s] = "save"
        /\ job'[s].diff = NoDiff /\ runs'[s].diff = runs[s].diff /\ findings' = findings
        /\ \A t \in Scans : t # s => pc'[t] = pc[t] /\ job'[t] = job[t] /\ runs'[t] = runs[t]
        /\ UNCHANGED <<check, crashes>>
    BY <1>6 DEF Finish, NoJob, Run
  <2>2. Books(s)' /\ Ledger'[s] = Ledger[s]
    BY <2>1 DEF Books, Opening, Closing, Ledger
  <2> QED BY <2>1, <2>2, ScanFrame
<1> QED BY <1>1, <1>2, <1>3, <1>4, <1>5, <1>6

\* Save, whoever calls it.
LEMMA SaveSimulated ==
  ASSUME LInv, IInv', NEW g \in Goroutines, Save(g)
  PROVE  Simulated
<1> USE DEF LInv, IInv, TypeOK, memory, disk, world, Goto
<1>1. /\ pc[g] \in {"save", "rest", "truncate", "write"}
      /\ pc'[g] \in {"rest", "truncate", "write", AfterSave(g)}
      /\ \A h \in Goroutines : h # g => pc'[h] = pc[h]
      /\ UNCHANGED <<findings, job, runs, check, crashes>>
  BY DEF Save, SaveNothing, MarshalFindings, MarshalRest, Truncate, WriteFile, SaveFails
<1>2. CASE g \in Scans
  <2>1. pc[g] \in Closing /\ pc'[g] \in Closing
    BY <1>1, <1>2, ActorsAssumption DEF Closing, AfterSave
  <2>2. Books(g)' /\ Ledger'[g] = Ledger[g]
    BY <1>1, <1>2, <2>1 DEF Books, Opening, Closing, Ledger
  <2> QED BY <1>1, <1>2, <2>2, ScanFrame DEF Goroutines
<1>3. CASE g \notin Scans
  BY <1>1, <1>3, OtherFrame DEF OneAtATime, Goroutines
<1> QED BY <1>2, <1>3

\* The command line and the clock.
LEMMA OutsideSimulated ==
  ASSUME LInv, IInv', CommandLine \/ Tick
  PROVE  Simulated
<1>1. UNCHANGED <<findings, pc, job, runs, check, crashes>>
  BY DEF CommandLine, CliOpen, CliScan, CliQuit, CliTruncate, CliWrite, Tick, memory
<1> QED BY <1>1, OtherFrame DEF LInv, OneAtATime

-----------------------------------------------------------------------------
(* Steps of the life cycle.                                                 *)

\* A scan appends k to a column of its ledger and moves k.
LEMMA Accounting ==
  ASSUME LInv, IInv', NEW s \in Scans, NEW k \in Keys, NEW c \in Columns,
         runs[s].diff = NoDiff, job[s].diff \in Diff,
         k \notin InColumns(job[s].diff), InColumns(job[s].diff) \cup {k} \subseteq KeysOf(job[s].target),
         job'[s].diff = [job[s].diff EXCEPT ![c] = @ \cup {k}],
         runs' = runs, \A t \in Scans : t # s => job'[t] = job[t],
         \A j \in Keys : j # k => findings'[j] = findings[j]
  PROVE  Lifecycle!Account(s, k, c, findings'[k].state)
<1>1. Ledger[s] = job[s].diff /\ Ledger'[s] = [Ledger[s] EXCEPT ![c] = @ \cup {k}]
  BY ColumnGrows DEF Ledger
<1>2. \A t \in Scans : t # s => Ledger'[t] = Ledger[t]
  BY DEF Ledger
<1>3. Ledger' = [Ledger EXCEPT ![s][c] = @ \cup {k}]
  BY <1>1, <1>2 DEF Ledger
<1>4. Lifecycle!Claimed(s) = InColumns(job[s].diff)
  BY <1>1, ColumnsUnited DEF Lifecycle!Claimed, Lifecycle!Columns, Columns
<1>5. StateOf' = [StateOf EXCEPT ![k] = findings'[k].state]
  BY DEF StateOf
<1>6. \A j \in Lifecycle!Claimed(s) : AssetOf[j] = AssetOf[k]
  BY <1>4 DEF KeysOf
<1> QED BY <1>3, <1>4, <1>5, <1>6 DEF Lifecycle!Account, StateOf

\* One iteration: scan s, which has not counted k yet, moves k or leaves it alone.
Iteration(s, k) ==
  /\ Books(s)'
  /\ runs[s].diff = NoDiff /\ job[s].diff \in Diff
  /\ Moves(job[s].diff, job'[s].diff, findings[k], findings'[k], k)
  /\ k \notin InColumns(job[s].diff) /\ InColumns(job[s].diff) \cup {k} \subseteq KeysOf(job[s].target)
  /\ \A t \in Scans : t # s => job'[t] = job[t]
  /\ \A j \in Keys : j # k => findings'[j] = findings[j]
  /\ UNCHANGED <<runs, pc, check, crashes>>

\* An iteration takes a step of the life cycle, or none.
LEMMA MovesSimulated ==
  ASSUME LInv, IInv', NEW s \in Scans, NEW k \in Keys, Iteration(s, k)
  PROVE  Simulated
<1> USE DEF Iteration
<1>1. LInv'
  <2>1. \A t \in Scans : Books(t)'
    BY DEF LInv, Books
  <2> QED BY <2>1 DEF LInv, OneAtATime
<1>2. \A c \in {"new", "reopened", "fixed"} : c \in Columns
  BY DEF Columns
<1>3. ASSUME NEW c \in Columns, job'[s].diff = [job[s].diff EXCEPT ![c] = @ \cup {k}]
      PROVE  Lifecycle!Account(s, k, c, findings'[k].state)
  BY <1>3, Accounting DEF Moves
<1>4. CASE findings[k].state = "absent" /\ findings'[k].state = "open"
           /\ job'[s].diff = [job[s].diff EXCEPT !["new"] = @ \cup {k}]
  <2>1. Lifecycle!Account(s, k, "new", findings'[k].state)
    BY <1>2, <1>3, <1>4
  <2>2. Lifecycle!Account(s, k, "new", "open")
    BY <2>1, <1>4 DEF Lifecycle!Account
  <2>3. Lifecycle!Appear(s, k)
    BY <1>4, <2>2 DEF Lifecycle!Appear
  <2> QED BY <1>1, <2>3 DEF Simulated, Lifecycle!Next, Lifecycle!Scan
<1>5. CASE findings[k].state \in {"fixed", "unverified_absent"} /\ findings'[k].state = "open"
           /\ job'[s].diff = [job[s].diff EXCEPT !["reopened"] = @ \cup {k}]
  <2>1. Lifecycle!Account(s, k, "reopened", findings'[k].state)
    BY <1>2, <1>3, <1>5
  <2>2. Lifecycle!Account(s, k, "reopened", "open")
    BY <2>1, <1>5 DEF Lifecycle!Account
  <2>3. Lifecycle!Reopen(s, k)
    BY <1>5, <2>2 DEF Lifecycle!Reopen
  <2> QED BY <1>1, <2>3 DEF Simulated, Lifecycle!Next, Lifecycle!Scan
<1>6. CASE findings[k].state = "open" /\ findings'[k].state = "fixed"
           /\ job'[s].diff = [job[s].diff EXCEPT !["fixed"] = @ \cup {k}]
  <2>1. Lifecycle!Account(s, k, "fixed", findings'[k].state)
    BY <1>2, <1>3, <1>6
  <2>2. Lifecycle!Account(s, k, "fixed", "fixed")
    BY <2>1, <1>6 DEF Lifecycle!Account
  <2>3. Lifecycle!Close(s, k)
    BY <1>6, <2>2 DEF Lifecycle!Close
  <2> QED BY <1>1, <2>3 DEF Simulated, Lifecycle!Next, Lifecycle!Scan
<1>7. CASE findings'[k] = findings[k] /\ job'[s].diff = job[s].diff
  <2>1. Unseen
    BY <1>7 DEF Unseen, Ledger
  <2> QED BY <1>1, <2>1, UnseenStutters DEF Simulated
<1> QED BY <1>4, <1>5, <1>6, <1>7 DEF Moves

\* One iteration of the first loop of IngestScanFindings.
LEMMA SeenIterates ==
  ASSUME LInv, IInv', NEW s \in Scans, NEW k \in Keys, IngestSeen(s, k)
  PROVE  Iteration(s, k)
<1> DEFINE e == DetectedColumn(job[s].diff, k, findings[k])
<1>1. /\ job[s].diff \in Diff /\ findings[k] \in Finding /\ pc[s] = "seen" /\ k \in job[s].todo
      /\ job[s].todo \subseteq job[s].detected /\ job[s].detected \subseteq KeysOf(job[s].target)
      /\ runs[s].diff = NoDiff /\ InColumns(job[s].diff) \subseteq job[s].detected \ job[s].todo
  BY DEF IngestSeen, LInv, IInv, TypeOK, Job, Books, Ingested, Targeted
<1>2. /\ job'[s].diff = e /\ job'[s].todo = job[s].todo \ {k}
      /\ job'[s].detected = job[s].detected /\ job'[s].target = job[s].target
      /\ \A t \in Scans : t # s => job'[t] = job[t]
      /\ UNCHANGED <<runs, pc, check, crashes>>
      /\ findings'[k] = Detected(findings[k])
      /\ \A j \in Keys : j # k => findings'[j] = findings[j]
  BY DEF IngestSeen, LInv, IInv, TypeOK, Job, world
<1>3. Moves(job[s].diff, e, findings[k], findings'[k], k)
  BY <1>1, <1>2, DetectedMoves
<1> HIDE DEF e
<1>4. InColumns(e) \subseteq InColumns(job[s].diff) \cup {k}
  BY <1>1, <1>3, ColumnGrows DEF Moves, Columns
<1>5. Books(s)'
  BY <1>1, <1>2, <1>4 DEF Books, Opening, Closing
<1>6. k \notin InColumns(job[s].diff) /\ InColumns(job[s].diff) \cup {k} \subseteq KeysOf(job[s].target)
  BY <1>1
<1> QED BY <1>1, <1>2, <1>3, <1>5, <1>6 DEF Iteration

\* One iteration of the second.
LEMMA MissingIterates ==
  ASSUME LInv, IInv', NEW s \in Scans, NEW k \in Keys, IngestMissing(s, k)
  PROVE  Iteration(s, k)
<1> DEFINE e == MissedColumn(job[s].diff, k, findings[k], TRUE)
<1>1. /\ job[s].diff \in Diff /\ findings[k] \in Finding /\ pc[s] = "missing" /\ k \in job[s].todo
      /\ job[s].todo \subseteq KeysOf(job[s].target)
      /\ runs[s].diff = NoDiff /\ InColumns(job[s].diff) \subseteq KeysOf(job[s].target) \ job[s].todo
  BY DEF IngestMissing, LInv, IInv, TypeOK, Job, Books
<1>2. /\ job'[s].diff = e /\ job'[s].todo = job[s].todo \ {k}
      /\ job'[s].detected = job[s].detected /\ job'[s].target = job[s].target
      /\ \A t \in Scans : t # s => job'[t] = job[t]
      /\ UNCHANGED <<runs, pc, check, crashes>>
      /\ findings'[k] = Missed(findings[k], TRUE)
      /\ \A j \in Keys : j # k => findings'[j] = findings[j]
  BY DEF IngestMissing, LInv, IInv, TypeOK, Job, world
<1>3. Moves(job[s].diff, e, findings[k], findings'[k], k)
  BY <1>1, <1>2, MissedMoves
<1> HIDE DEF e
<1>4. InColumns(e) \subseteq InColumns(job[s].diff) \cup {k}
  BY <1>1, <1>3, ColumnGrows DEF Moves, Columns
<1>5. Books(s)'
  BY <1>1, <1>2, <1>4 DEF Books, Opening, Closing
<1>6. k \notin InColumns(job[s].diff) /\ InColumns(job[s].diff) \cup {k} \subseteq KeysOf(job[s].target)
  BY <1>1
<1> QED BY <1>1, <1>2, <1>3, <1>5, <1>6 DEF Iteration

\* A person moves a stored finding.
LEMMA TriageSimulated ==
  ASSUME LInv, IInv', NEW k \in Keys, NEW st \in TriageStates, Triage(k, st)
  PROVE  Simulated
<1>1. /\ findings[k].state # "absent" /\ findings' = [findings EXCEPT ![k].state = st]
      /\ UNCHANGED <<runs, pc, job, check, crashes>>
  BY DEF Triage, Stored, world
<1>2. LInv'
  BY <1>1 DEF LInv, Books, OneAtATime
<1>3. StateOf' = [StateOf EXCEPT ![k] = st] /\ UNCHANGED Ledger
  BY <1>1 DEF StateOf, Ledger, LInv, IInv, TypeOK, Finding
<1>4. Lifecycle!Triage(k, st)
  BY <1>1, <1>3 DEF Lifecycle!Triage, StateOf
<1> QED BY <1>2, <1>4 DEF Simulated, Lifecycle!Next

\* A verification rescan marks a stored finding fixed, or nothing.
LEMMA DialedSimulated ==
  ASSUME LInv, IInv', NEW v \in Verifiers, NEW answer, VerifyDialed(v, answer)
  PROVE  Simulated
<1> USE DEF LInv, IInv, TypeOK
<1>1. /\ \A s \in Scans : pc'[s] = pc[s]
      /\ \A w \in Verifiers : check'[w].key \subseteq check[w].key
      /\ UNCHANGED <<runs, job, crashes>>
  BY ActorsAssumption DEF VerifyDialed, Goto, world, Check, Goroutines
<1>2. LInv'
  BY <1>1 DEF Books, OneAtATime
<1>3. UNCHANGED Ledger
  BY <1>1 DEF Ledger
<1>4. CASE findings' = findings
  BY <1>2, <1>3, <1>4 DEF Simulated, StateOf
<1>5. ASSUME NEW k \in check[v].key, findings' # findings
      PROVE  Simulated
  <2>1. check[v].key = {k} /\ k \in Keys /\ findings[k].state # "absent"
    BY <1>5 DEF OneAtATime, Checked, Stored
  <2>2. findings' = [j \in Keys |-> IF j = k THEN [findings[j] EXCEPT !.state = "fixed"] ELSE findings[j]]
    BY <1>5, <2>1 DEF VerifyDialed
  <2>3. StateOf' = [StateOf EXCEPT ![k] = "fixed"]
    BY <2>1, <2>2 DEF StateOf, Finding
  <2>4. Lifecycle!VerifyFixed(k)
    BY <1>3, <2>1, <2>3 DEF Lifecycle!VerifyFixed, StateOf
  <2> QED BY <1>2, <2>1, <2>4 DEF Simulated, Lifecycle!Next
<1>6. CASE check[v].key = {}
  <2>1. findings' = findings
    BY <1>6 DEF VerifyDialed
  <2> QED BY <1>4, <2>1
<1> QED BY <1>4, <1>5, <1>6

\* The rest of a verification rescan.
LEMMA VerifySimulated ==
  ASSUME LInv, IInv', NEW v \in Verifiers,
         \/ AskVerify(v) \/ VerifyEnd(v) \/ VerifyReply(v)
         \/ \E k \in Keys : VerifyPick(v, k)
  PROVE  Simulated
<1> DEFINE to == pc'[v]
<1>1. /\ pc' = [pc EXCEPT ![v] = to]
      /\ UNCHANGED <<findings, runs, job, crashes>>
      /\ \E c \in Check : /\ check' = [check EXCEPT ![v] = c]
                          /\ \A j, k \in c.key : j = k
  <2> USE DEF LInv, IInv, TypeOK, Goto, memory, world, Goroutines
  <2>1. CASE AskVerify(v)
    <3>1. PICK i \in {NoItem} \cup {n.id : n \in items},
               K \in {Keys} \cup {{k} : k \in Stored(findings)} : VerifyBegin(v, i, K)
      BY <2>1 DEF AskVerify
    <3>2. [filter |-> [item |-> i, keys |-> K], key |-> {},
           todo |-> Stored(findings), known |-> Stored(findings)] \in Check
      BY <3>1 DEF Check, Stored, Item
    <3> QED BY <3>1, <3>2 DEF VerifyBegin
  <2>2. CASE VerifyEnd(v)
    BY <2>2 DEF VerifyEnd, OneAtATime
  <2>3. CASE VerifyReply(v)
    BY <2>3, Blanks DEF VerifyReply, NoCheck
  <2>4. CASE \E k \in Keys : VerifyPick(v, k)
    <3>1. PICK k \in Keys : VerifyPick(v, k)
      BY <2>4
    <3> DEFINE X == IF Matches(k, check[v].filter) THEN {k} ELSE {}
               c == [check[v] EXCEPT !.todo = @ \ {k}, !.known = @ \cup {k}, !.key = X]
    <3>2. X \in SUBSET Keys /\ \A i, j \in X : i = j
      OBVIOUS
    <3>3. check' = [check EXCEPT ![v] = c]
      BY <3>1 DEF VerifyPick
    <3>4. pc' = [pc EXCEPT ![v] = to] /\ UNCHANGED <<findings, runs, job, crashes>>
      BY <3>1 DEF VerifyPick
    <3> HIDE DEF X
    <3>5. c \in Check /\ c.key = X
      <4>1. \A b \in Check, Y \in SUBSET Keys :
              LET n == [b EXCEPT !.todo = @ \ {k}, !.known = @ \cup {k}, !.key = Y]
              IN  n \in Check /\ n.key = Y
        BY DEF Check
      <4>2. check[v] \in Check
        OBVIOUS
      <4> QED BY <3>2, <4>1, <4>2
    <3> HIDE DEF c
    <3> QED BY <3>2, <3>3, <3>4, <3>5
  <2> QED BY <2>1, <2>2, <2>3, <2>4
<1> HIDE DEF to
<1>2. OneAtATime'
  BY <1>1 DEF OneAtATime, LInv, IInv, TypeOK
<1>3. \A s \in Scans : pc'[s] = pc[s]
  BY <1>1, ActorsAssumption DEF LInv, IInv, TypeOK, Goroutines
<1> QED BY <1>1, <1>2, <1>3, OtherFrame

-----------------------------------------------------------------------------
\* An empty store is the start of the life cycle.
LEMMA LifecycleInit ==
  ASSUME Init
  PROVE  LInv /\ Lifecycle!Init
<1>1. IInv
  BY InitInvariant
<1>2. \A s \in Scans : Books(s)
  BY DEF Init, Books, Opening, Closing, NoRun, NoJob, Goroutines
<1>3. OneAtATime /\ crashes = 0
  BY DEF Init, OneAtATime, NoCheck
<1>4. \A s \in Scans : Ledger[s] = NoDiff
  BY DEF Init, Ledger, NoRun, NoJob
<1>5. Ledger = [s \in Scans |-> [c \in Columns |-> {}]]
  BY <1>4, NoDiffEmpty DEF Ledger
<1>6. StateOf = [k \in Keys |-> "absent"]
  BY DEF Init, StateOf, NoFindings, Absent
<1> QED BY <1>1, <1>2, <1>3, <1>5, <1>6 DEF LInv, Lifecycle!Init, Lifecycle!Columns, Columns, StateOf

\* Every step of the server but a restart is a step of the life cycle or a stutter.
LEMMA LifecycleStep ==
  ASSUME LInv, [Next]_vars, ~Restart
  PROVE  Simulated
<1>1. IInv'
  BY InvariantStep DEF LInv
<1>2. CASE UNCHANGED vars
  BY <1>1, <1>2, OtherFrame DEF vars, LInv, OneAtATime
<1>3. ASSUME NEW s \in Scans, Scan(s) \/ Hang(s) \/ \E r \in Requests : Submit(s, r)
      PROVE  Simulated
  BY <1>1, <1>3, QuietScanStep, LedgerKeptStep, SeenIterates, MissingIterates, MovesSimulated, SaveSimulated
     DEF Scan, Ingest, Goroutines
<1>4. ASSUME NEW v \in Verifiers, Verify(v) \/ AskVerify(v)
      PROVE  Simulated
  BY <1>1, <1>4, VerifySimulated, DialedSimulated, SaveSimulated DEF Verify, Goroutines
<1> QED BY <1>1, <1>2, <1>3, <1>4, TriageSimulated, OutsideSimulated DEF Next

\* IngestScanFindings under store.mu, verification rescans under s.mu and triage
\* under store.mu again, in any order: as long as the server is not restarted
\* each run's diff records exactly the moves that run made, and no scan moves a
\* disposition a person set.
THEOREM ImplementsLifecycle ==
  ASSUME MaxCrashes = 0
  PROVE  Safety => LifecycleSpec
<1>1. Init => LInv /\ Lifecycle!Init
  BY LifecycleInit
<1>2. LInv /\ [Next]_vars => LInv' /\ [Lifecycle!Next]_(Lifecycle!lifeVars)
  BY LifecycleStep DEF Simulated, Lifecycle!lifeVars, StateOf, LInv, Restart
<1> QED BY <1>1, <1>2, PTL DEF Safety, LifecycleSpec, Lifecycle!Spec
==============================================================================
