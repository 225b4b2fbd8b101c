-------------------------- MODULE RemediationProofs --------------------------
(***************************************************************************)
(* As long as the server is not restarted the remediation ID of a finding  *)
(* names an item in the store, for any number of scans in one second.      *)
(***************************************************************************)
EXTENDS ScanServerProofs

BeforeIngestion == {"idle", "scope", "probe", "inspect", "hung", "asset", "evaluate", "ingest"}

\* A scan reports as new only what it detected.
NewDetected(s) == /\ job[s].diff.new \subseteq job[s].detected
                  /\ pc[s] \in BeforeIngestion => job[s].diff.new = {}

\* The goroutine between GroupFindings and the store knows the ID it gave.
Promised(s, k) == /\ pc[s] = "publish" /\ k \in job[s].detected
                  /\ findings[k].item = <<GroupOf[k], job[s].stamp>>

Ids == {i.id : i \in items}
Pointed(k) == findings[k].item \in Ids \cup {NoItem} \/ \E s \in Scans : Promised(s, k)

RInv == /\ IInv /\ \A s \in Scans : NewDetected(s)
        /\ crashes = 0 => \A k \in Keys : Pointed(k)

-----------------------------------------------------------------------------
(* The steps.                                                               *)

\* A step that gives no finding an ID, takes no ID away and leaves the scans
\* between GroupFindings and the store alone.
LEMMA PointersKept ==
  ASSUME RInv, IInv', \A s \in Scans : NewDetected(s)',
         \A k \in Keys : findings'[k].item \in {findings[k].item, NoItem},
         \A s \in Scans : pc[s] = "publish" => pc'[s] = "publish" /\ job'[s] = job[s],
         UNCHANGED <<items, crashes>>
  PROVE  RInv'
<1>1. ASSUME NEW k \in Keys, Pointed(k) PROVE Pointed(k)'
  <2>1. CASE findings'[k].item = NoItem
    BY <2>1 DEF Pointed
  <2>2. CASE findings'[k].item = findings[k].item /\ findings[k].item \in Ids \cup {NoItem}
    BY <2>2 DEF Pointed, Ids
  <2>3. ASSUME findings'[k].item = findings[k].item, NEW s \in Scans, Promised(s, k)
        PROVE  Pointed(k)'
    BY <2>3 DEF Pointed, Promised
  <2> QED BY <1>1, <2>1, <2>2, <2>3 DEF Pointed
<1> QED BY <1>1 DEF RInv

\* The steps of a scan other than the loops, GroupFindings and the store.
LEMMA QuietStep ==
  ASSUME RInv, IInv', NEW s \in Scans,
         \/ \E r \in Requests : Submit(s, r)
         \/ Authorize(s) \/ Reject(s) \/ Hang(s) \/ RecordAsset(s)
         \/ \E R \in SUBSET job[s].cover : ProbeTarget(s, R)
         \/ \E ok \in BOOLEAN : InspectHost(s, ok)
         \/ \E D \in SUBSET job[s].examined : Evaluate(s, D)
         \/ IngestLock(s) \/ IngestTurn(s) \/ IngestUnlock(s) \/ RecordDiff(s) \/ Finish(s)
  PROVE  RInv'
<1> USE DEF RInv, IInv, TypeOK, memory, disk, world, Goto, Goroutines
<1>1. /\ pc[s] # "publish" /\ \A t \in Scans : t # s => pc'[t] = pc[t] /\ job'[t] = job[t]
      /\ UNCHANGED <<items, findings, crashes>>
  <2>1. CASE \E r \in Requests : Submit(s, r)
    BY <2>1 DEF Submit
  <2>2. CASE Authorize(s) \/ Reject(s) \/ Hang(s) \/ RecordAsset(s)
    BY <2>2 DEF Authorize, Reject, Hang, RecordAsset
  <2>3. CASE \/ \E R \in SUBSET job[s].cover : ProbeTarget(s, R)
             \/ \E ok \in BOOLEAN : InspectHost(s, ok)
             \/ \E D \in SUBSET job[s].examined : Evaluate(s, D)
    BY <2>3 DEF ProbeTarget, InspectHost, Evaluate
  <2>4. CASE IngestLock(s) \/ IngestTurn(s) \/ IngestUnlock(s)
    BY <2>4 DEF IngestLock, IngestTurn, IngestUnlock
  <2>5. CASE RecordDiff(s) \/ Finish(s)
    BY <2>5 DEF RecordDiff, Finish
  <2> QED BY <2>1, <2>2, <2>3, <2>4, <2>5
<1>2. NewDetected(s)'
  <2>1. CASE (\E r \in Requests : Submit(s, r)) \/ Finish(s)
    <3>1. NoJob.diff.new = {}
      BY DEF NoJob, NoDiff
    <3>2. ASSUME NEW r \in Requests, Submit(s, r) PROVE job'[s].diff = NoJob.diff
      BY <3>2, Blanks DEF Submit, Job
    <3>3. CASE Finish(s)
      BY <3>3, <3>1 DEF Finish, NewDetected
    <3>4. CASE \E r \in Requests : Submit(s, r)
      BY <3>1, <3>2, <3>4 DEF NewDetected
    <3> QED BY <2>1, <3>3, <3>4
  <2>2. CASE Authorize(s) \/ Reject(s) \/ Hang(s) \/ RecordAsset(s) \/ RecordDiff(s)
    <3>1. job' = job /\ (pc'[s] \in BeforeIngestion => pc[s] \in BeforeIngestion)
      BY <2>2 DEF Authorize, Reject, Hang, RecordAsset, RecordDiff, BeforeIngestion
    <3> QED BY <3>1 DEF NewDetected
  <2>3. ASSUME \/ \E R \in SUBSET job[s].cover : ProbeTarget(s, R)
               \/ \E ok \in BOOLEAN : InspectHost(s, ok)
               \/ \E D \in SUBSET job[s].examined : Evaluate(s, D)
        PROVE  NewDetected(s)'
    <3>1. pc[s] \in BeforeIngestion
      BY <2>3 DEF ProbeTarget, InspectHost, Evaluate, BeforeIngestion
    <3>2. ASSUME NEW R \in SUBSET job[s].cover, ProbeTarget(s, R)
          PROVE  job'[s].diff = job[s].diff
      <4>1. job' = [job EXCEPT ![s].examined = R, ![s].cover = {}]
        BY <3>2 DEF ProbeTarget
      <4> QED BY <4>1 DEF Job
    <3>3. ASSUME NEW ok \in BOOLEAN, InspectHost(s, ok) PROVE job'[s].diff = job[s].diff
      <4>1. PICK E : job' = [job EXCEPT ![s].examined = E, ![s].ssh = FALSE]
        BY <3>3 DEF InspectHost
      <4> QED BY <4>1 DEF Job
    <3>4. ASSUME NEW D \in SUBSET job[s].examined, Evaluate(s, D)
          PROVE  job'[s].diff = job[s].diff
      BY <3>4 DEF Evaluate, Job
    <3>5. job'[s].diff = job[s].diff
      BY <2>3, <3>2, <3>3, <3>4
    <3>6. job[s].diff.new = {}
      BY <3>1 DEF NewDetected
    <3> QED BY <3>5, <3>6 DEF NewDetected
  <2>4. CASE IngestLock(s) \/ IngestTurn(s) \/ IngestUnlock(s)
    <3>1. /\ job'[s].diff = job[s].diff /\ job'[s].detected = job[s].detected
          /\ pc'[s] \notin BeforeIngestion
      BY <2>4 DEF IngestLock, IngestTurn, IngestUnlock, BeforeIngestion, Job
    <3> QED BY <3>1 DEF NewDetected
  <2> QED BY <2>1, <2>2, <2>3, <2>4
<1>3. \A t \in Scans : NewDetected(t)'
  BY <1>1, <1>2 DEF NewDetected
<1> HIDE DEF IInv, TypeOK
<1> QED BY <1>1, <1>3, PointersKept DEF RInv

\* The two loops of IngestScanFindings give no finding an ID.
LEMMA LoopStep ==
  ASSUME RInv, IInv', NEW s \in Scans, NEW k \in Keys, IngestSeen(s, k) \/ IngestMissing(s, k)
  PROVE  RInv'
<1> USE DEF RInv, IInv, TypeOK, memory, disk, world, Goto, Goroutines
<1>1. /\ pc[s] \in {"seen", "missing"} /\ pc' = pc
      /\ \A t \in Scans : t # s => job'[t] = job[t]
      /\ \A j \in Keys : j # k => findings'[j] = findings[j]
      /\ job'[s].detected = job[s].detected
      /\ UNCHANGED <<items, crashes>>
  <2>1. CASE IngestSeen(s, k)
    BY <2>1 DEF IngestSeen, Job
  <2>2. CASE IngestMissing(s, k)
    BY <2>2 DEF IngestMissing, Job
  <2> QED BY <2>1, <2>2
<1>2. job[s] \in Job /\ findings[k] \in Finding /\ job[s].diff \in Diff
  BY DEF Job
<1>3. job'[s].diff.new \subseteq job[s].detected
  <2> DEFINE d == job[s].diff  f == findings[k]
  <2>0. d.new \subseteq job[s].detected
    BY DEF NewDetected
  <2>1. CASE IngestSeen(s, k)
    <3>1. job'[s].diff = DetectedColumn(job[s].diff, k, findings[k])
      BY <1>2, <2>1 DEF IngestSeen, Job
    <3>2. k \in job[s].detected
      BY <2>1 DEF IngestSeen, Ingested
    <3>3. d \in Diff /\ f \in Finding
      BY <1>2
    <3>4. job'[s].diff = DetectedColumn(d, k, f)
      BY <3>1
    <3> HIDE DEF d, f, RInv, IInv, TypeOK
    <3>5. DetectedColumn(d, k, f).new \subseteq d.new \cup {k}
      BY <3>3, ColumnTypes
    <3> QED BY <2>0, <3>2, <3>4, <3>5
  <2>2. CASE IngestMissing(s, k)
    <3>1. job'[s].diff = MissedColumn(job[s].diff, k, findings[k], TRUE)
      BY <1>2, <2>2 DEF IngestMissing, Job
    <3>2. d \in Diff /\ f \in Finding
      BY <1>2
    <3>3. job'[s].diff = MissedColumn(d, k, f, TRUE)
      BY <3>1
    <3> HIDE DEF d, f, RInv, IInv, TypeOK
    <3>4. MissedColumn(d, k, f, TRUE).new = d.new
      BY <3>2, ColumnTypes
    <3> QED BY <2>0, <3>3, <3>4
  <2> QED BY <2>1, <2>2
<1>4. \A t \in Scans : NewDetected(t)'
  BY <1>1, <1>3 DEF NewDetected, BeforeIngestion
<1>5. findings'[k].item \in {findings[k].item, NoItem}
  <2>1. findings'[k] \in {Detected(findings[k]), Missed(findings[k], TRUE)}
    BY DEF IngestSeen, IngestMissing
  <2>2. Detected(findings[k]).item \in {findings[k].item, NoItem}
    BY <1>2 DEF Detected, Absent, Finding
  <2>3. Missed(findings[k], TRUE).item = findings[k].item
    BY <1>2 DEF Missed, Finding
  <2> QED BY <2>1, <2>2, <2>3
<1>6. \A j \in Keys : findings'[j].item \in {findings[j].item, NoItem}
  BY <1>1, <1>5
<1>7. \A t \in Scans : pc[t] = "publish" => pc'[t] = "publish" /\ job'[t] = job[t]
  BY <1>1
<1> HIDE DEF IInv, TypeOK
<1> QED BY <1>1, <1>4, <1>6, <1>7, PointersKept DEF RInv

\* GroupFindings gives IDs to findings its goroutine detected.
LEMMA GroupStep ==
  ASSUME RInv, IInv', NEW s \in Scans, GroupFindings(s)
  PROVE  RInv'
<1> USE DEF RInv, IInv, TypeOK, memory, disk, world, Goto, Goroutines
<1>1. /\ pc[s] = "group" /\ pc'[s] = "publish"
      /\ \A t \in Scans : t # s => pc'[t] = pc[t] /\ job'[t] = job[t]
      /\ job'[s].detected = job[s].detected /\ job'[s].diff = job[s].diff /\ job'[s].stamp = clock
      /\ UNCHANGED <<items, crashes>>
  BY DEF GroupFindings, Job
<1>2. \A t \in Scans : NewDetected(t)'
  BY <1>1 DEF NewDetected, BeforeIngestion
<1>3. ASSUME NEW k \in Keys, Pointed(k) PROVE Pointed(k)'
  <2>1. CASE k \in job[s].diff.new
    <3>1. findings'[k].item = <<GroupOf[k], clock>>
      BY <2>1 DEF GroupFindings, Finding
    <3>2. k \in job[s].detected
      BY <2>1 DEF NewDetected
    <3>3. Promised(s, k)'
      BY <1>1, <3>1, <3>2 DEF Promised
    <3> QED BY <3>3 DEF Pointed
  <2>2. CASE k \notin job[s].diff.new
    <3>1. findings'[k] = findings[k]
      BY <2>2 DEF GroupFindings
    <3>2. CASE findings[k].item \in Ids \cup {NoItem}
      BY <1>1, <3>1, <3>2 DEF Pointed, Ids
    <3>3. ASSUME NEW t \in Scans, Promised(t, k) PROVE Pointed(k)'
      <4>1. t # s
        BY <1>1, <3>3 DEF Promised
      <4>2. Promised(t, k)'
        BY <1>1, <3>1, <3>3, <4>1 DEF Promised
      <4> QED BY <4>2 DEF Pointed
    <3> QED BY <1>3, <3>2, <3>3 DEF Pointed
  <2> QED BY <2>1, <2>2
<1> HIDE DEF IInv, TypeOK
<1> QED BY <1>1, <1>2, <1>3 DEF RInv

\* The items of a call have the IDs it gave, and take only places of their own.
LEMMA PublishStep ==
  ASSUME RInv, IInv', NEW s \in Scans, PublishItems(s)
  PROVE  RInv'
<1> USE DEF RInv, IInv, TypeOK, memory, disk, world, Goto, Goroutines
<1> DEFINE new == NewItems(job[s].detected, job[s].stamp)
<1>1. /\ pc[s] = "publish" /\ pc'[s] = "finish" /\ items' = Published(items, new)
      /\ \A t \in Scans : t # s => pc'[t] = pc[t]
      /\ UNCHANGED <<findings, job, crashes>>
  BY DEF PublishItems
<1>2. \A t \in Scans : NewDetected(t)'
  BY <1>1 DEF NewDetected, BeforeIngestion
<1>3. \A i \in items : \E j \in items' : j.id = i.id
  <2> HIDE DEF new
  <2> QED BY <1>1 DEF Published
<1>4. Ids \subseteq Ids'
  BY <1>3 DEF Ids
<1>5. ASSUME NEW k \in job[s].detected PROVE <<GroupOf[k], job[s].stamp>> \in Ids'
  <2>1. [id |-> <<GroupOf[k], job[s].stamp>>, keys |-> {j \in job[s].detected : GroupOf[j] = GroupOf[k]}]
          \in new
    BY DEF NewItems
  <2>2. new \subseteq items'
    BY <1>1 DEF Published
  <2> QED BY <2>1, <2>2 DEF Ids
<1>6. ASSUME NEW k \in Keys, Pointed(k) PROVE Pointed(k)'
  <2>1. CASE findings[k].item \in Ids \cup {NoItem}
    BY <1>1, <1>4, <2>1 DEF Pointed
  <2>2. ASSUME NEW t \in Scans, Promised(t, k) PROVE Pointed(k)'
    <3>1. CASE t = s
      BY <1>1, <1>5, <2>2, <3>1 DEF Promised, Pointed
    <3>2. CASE t # s
      <4>1. Promised(t, k)'
        BY <1>1, <2>2, <3>2 DEF Promised
      <4> QED BY <4>1 DEF Pointed
    <3> QED BY <3>1, <3>2
  <2> QED BY <1>6, <2>1, <2>2 DEF Pointed
<1> HIDE DEF IInv, TypeOK
<1> QED BY <1>1, <1>2, <1>6 DEF RInv

\* Steps that leave all scans alone, or end one that is saving.
LEMMA OtherStep ==
  ASSUME RInv, IInv',
         \/ \E g \in Goroutines : Save(g)
         \/ \E k \in Keys, st \in TriageStates : Triage(k, st)
         \/ \E v \in Verifiers : Verify(v) \/ AskVerify(v)
         \/ CommandLine \/ Tick
  PROVE  RInv'
<1> USE DEF RInv, IInv, TypeOK, memory, disk, world, Goto, Goroutines
<1>1. /\ job' = job /\ items' = items /\ crashes' = crashes
      /\ \A s \in Scans : \/ pc'[s] = pc[s]
                          \/ /\ pc[s] \in {"save", "rest", "truncate", "write"}
                             /\ pc'[s] \in {"rest", "truncate", "write", "done"}
  <2>1. ASSUME NEW g \in Goroutines, Save(g)
        PROVE  /\ job' = job /\ items' = items /\ crashes' = crashes
               /\ pc[g] \in {"save", "rest", "truncate", "write"}
               /\ pc'[g] \in {"rest", "truncate", "write", AfterSave(g)}
               /\ \A h \in Goroutines : h # g => pc'[h] = pc[h]
    BY <2>1 DEF Save, SaveNothing, MarshalFindings, MarshalRest, Truncate, WriteFile, SaveFails
  <2>2. \A s \in Scans : AfterSave(s) = "done"
    BY ActorsAssumption DEF AfterSave
  <2>3. CASE \E g \in Goroutines : Save(g)
    BY <2>1, <2>2, <2>3
  <2>4. ASSUME NEW v \in Verifiers, Verify(v) \/ AskVerify(v), ~Save(v)
        PROVE  /\ job' = job /\ items' = items /\ crashes' = crashes
               /\ \A h \in Goroutines : h # v => pc'[h] = pc[h]
    BY <2>4 DEF Verify, AskVerify, VerifyBegin, VerifyPick, VerifyDialed, VerifyEnd, VerifyReply
  <2>5. CASE \E v \in Verifiers : Verify(v) \/ AskVerify(v)
    BY <2>3, <2>4, <2>5, ActorsAssumption
  <2>6. CASE CommandLine \/ Tick \/ \E k \in Keys, st \in TriageStates : Triage(k, st)
    BY <2>6 DEF CommandLine, CliOpen, CliScan, CliQuit, CliTruncate, CliWrite, Tick, Triage
  <2> QED BY <2>3, <2>5, <2>6
<1>2. \A k \in Keys : findings'[k].item = findings[k].item
  <2>1. CASE \E g \in Goroutines : Save(g)
    BY <2>1 DEF Save, SaveNothing, MarshalFindings, MarshalRest, Truncate, WriteFile, SaveFails
  <2>2. CASE \E v \in Verifiers, answer \in DialOutcomes : VerifyDialed(v, answer)
    BY <2>2 DEF VerifyDialed, Finding
  <2>3. CASE \E k \in Keys, st \in TriageStates : Triage(k, st)
    BY <2>3 DEF Triage, Finding
  <2>4. CASE CommandLine \/ Tick
    BY <2>4 DEF CommandLine, CliOpen, CliScan, CliQuit, CliTruncate, CliWrite, Tick
  <2>5. CASE \E v \in Verifiers : Verify(v) \/ AskVerify(v)
    BY <2>1, <2>2, <2>5 DEF Verify, AskVerify, VerifyBegin, VerifyPick, VerifyEnd, VerifyReply
  <2> QED BY <2>1, <2>3, <2>4, <2>5
<1>3. \A t \in Scans : NewDetected(t)'
  BY <1>1 DEF NewDetected, BeforeIngestion
<1> HIDE DEF IInv, TypeOK
<1> QED BY <1>1, <1>2, <1>3, PointersKept DEF RInv

\* After a restart nothing is claimed, and no scan has reported anything.
LEMMA RestartsStep ==
  ASSUME RInv, IInv', Restart
  PROVE  RInv'
<1>1. crashes' # 0
  BY DEF Restart, RInv, IInv, TypeOK
<1>2. \A s \in Scans : job'[s].diff.new = {}
  BY DEF Restart, NoJob, NoDiff
<1> QED BY <1>1, <1>2 DEF RInv, NewDetected

\* The invariant holds in every state the server can reach.
LEMMA RemediationInvariant == Safety => []RInv
<1>1. Init => RInv
  <2> SUFFICES ASSUME Init PROVE RInv
    OBVIOUS
  <2>1. \A s \in Scans : NewDetected(s)
    BY DEF Init, NoJob, NoDiff, NewDetected
  <2>2. \A k \in Keys : Pointed(k)
    BY DEF Init, Pointed, NoFindings, Absent
  <2> QED BY <2>1, <2>2, InitInvariant DEF RInv
<1>2. RInv /\ [Next]_vars => RInv'
  <2> SUFFICES ASSUME RInv, [Next]_vars PROVE RInv'
    OBVIOUS
  <2>1. IInv'
    BY InvariantStep DEF RInv
  <2>2. CASE UNCHANGED vars
    BY <2>1, <2>2, PointersKept DEF vars, RInv, NewDetected
  <2>3. ASSUME NEW s \in Scans, Scan(s) \/ Hang(s) \/ \E r \in Requests : Submit(s, r)
        PROVE  RInv'
    BY <2>1, <2>3, QuietStep, LoopStep, GroupStep, PublishStep, OtherStep DEF Scan, Ingest, Goroutines
  <2> QED BY <2>1, <2>2, <2>3, OtherStep, RestartsStep DEF Next
<1> QED BY <1>1, <1>2, PTL DEF Safety

\* GroupFindings writes an ID into the findings before executeScan stores the
\* item, under no lock and beside other scans of the same second: the ID of a
\* finding always has an item, or one whose goroutine is about to store it.
THEOREM ItemsAreStored == Safety => []ItemsExist
<1>1. RInv => ItemsExist
  BY DEF RInv, ItemsExist, Pointed, Promised, Ids
<1> QED BY <1>1, RemediationInvariant, PTL
==============================================================================
