-------------------------- MODULE ScanServerProofs --------------------------
(***************************************************************************)
(* For any number of scans, verification rescans, findings, requests and   *)
(* restarts: the runs, the findings and the assets of ScanServer agree, in *)
(* memory and in the data file.                                            *)
(***************************************************************************)
EXTENDS ScanServer, TLAPS

KeysOf(a) == {k \in Keys : AssetOf[k] = a}

\* What run s has reported as NEW, or its goroutine is about to.
Claims(s) == runs[s].diff.new \cup job[s].diff.new

HaveAssets(f, A) == \A k \in Stored(f) : AssetOf[k] \in A

\* store.mu: Save and IngestScanFindings exclude each other.
Mutex == Writing = {} \/ Reading = {}

\* A scan deals in the findings of its target, and records the target first.
Targeted == \A s \in Scans :
  /\ job[s].cover \cup job[s].examined \cup job[s].detected \subseteq KeysOf(job[s].target)
  /\ pc[s] = "evaluate" \/ job[s].detected # {} => job[s].target \in assets

\* What it detected is stored by the time it records its diff.
Ingested == \A s \in Scans :
  /\ pc[s] = "seen" => /\ job[s].todo \subseteq job[s].detected
                       /\ job[s].detected \ job[s].todo \subseteq Stored(findings)
  /\ pc[s] \in {"missing", "record"} => job[s].detected \subseteq Stored(findings)

Backed == \A s \in Scans : Claims(s) \cup runs[s].found \subseteq Stored(findings)

ClaimedOnce == \A s, t \in Scans : s # t => Claims(s) \cap Claims(t) = {}

\* A verification rescan writes only to findings that are stored.
Checked == \A v \in Verifiers : check[v].todo \cup check[v].key \subseteq Stored(findings)

\* No finding appears while a Save marshals: the runs it reads after the
\* findings are backed by those.
Drafted == \A g \in Goroutines :
  /\ HaveAssets(draft[g].findings, draft[g].assets)
  /\ pc[g] = "rest" => Stored(findings) \subseteq Stored(draft[g].findings)
  /\ pc[g] \in {"truncate", "write"} => LedgerAgrees(draft[g].findings, draft[g].runs)

DocumentAgrees(d) == LedgerAgrees(d.findings, d.runs) /\ HaveAssets(d.findings, d.assets)

\* The data file agrees with itself, and so does the copy the command line has.
Filed == DocumentAgrees(file.snap) /\ DocumentAgrees(cli.doc)

Owned == HaveAssets(findings, assets)

IInv == /\ TypeOK /\ Mutex /\ Targeted /\ Ingested /\ Backed /\ ClaimedOnce
        /\ Checked /\ Drafted /\ Filed /\ Owned

-----------------------------------------------------------------------------
(* The records and the operators of FindingStore.                           *)

\* The initial value of every record has its type.
LEMMA Blanks ==
  /\ Absent \in Finding /\ NoFindings \in [Keys -> Finding] /\ Stored(NoFindings) = {}
  /\ NoDiff \in Diff /\ NoRun \in Run /\ NoJob \in Job /\ NoCheck \in Check
  /\ NoSnapshot \in Snapshot /\ NoCli \in Cli
<1>1. Absent \in Finding
  BY DEF Absent, Finding, FindingStates
<1>2. NoFindings \in [Keys -> Finding] /\ Stored(NoFindings) = {}
  BY <1>1 DEF NoFindings, Stored, Absent
<1>3. NoDiff \in Diff
  BY DEF NoDiff, Diff
<1>4. NoRun \in Run
  BY <1>3 DEF NoRun, Run
<1>5. NoJob \in Job
  <2>1. (CHOOSE a \in Assets : TRUE) \in Assets
    BY ActorsAssumption
  <2> QED BY <1>3, <2>1 DEF NoJob, Job
<1>6. NoCheck \in Check
  BY DEF NoCheck, Check, NoFilter
<1>7. NoSnapshot \in Snapshot
  BY <1>2, <1>4 DEF NoSnapshot, Snapshot
<1>8. NoCli \in Cli
  BY <1>7 DEF NoCli, Cli
<1> QED BY <1>1, <1>2, <1>3, <1>4, <1>5, <1>6, <1>7, <1>8

\* A detection leaves a stored finding, whatever was there.
LEMMA DetectedStored ==
  ASSUME NEW f \in Finding
  PROVE  Detected(f) \in Finding /\ Detected(f).state # "absent"
<1>1. [Absent EXCEPT !.state = "open"] \in Finding
  BY DEF Absent, Finding, FindingStates
<1>2. [f EXCEPT !.state = "open", !.reopened = @ + 1] \in Finding
  <2>1. f.reopened + 1 \in Nat
    BY DEF Finding
  <2>2. \A n \in Nat : [f EXCEPT !.state = "open", !.reopened = n] \in Finding
    BY DEF Finding, FindingStates
  <2> QED BY <2>1, <2>2
<1> QED BY <1>1, <1>2 DEF Detected, Absent, Finding, FindingStates

\* A missed detection neither stores nor removes a finding.
LEMMA MissedStored ==
  ASSUME NEW f \in Finding
  PROVE  Missed(f, TRUE) \in Finding /\ (Missed(f, TRUE).state = "absent" <=> f.state = "absent")
BY DEF Missed, Finding, FindingStates

\* The columns stay sets of keys; only a finding that was absent becomes new.
LEMMA ColumnTypes ==
  ASSUME NEW d \in Diff, NEW k \in Keys, NEW f \in Finding
  PROVE  /\ DetectedColumn(d, k, f) \in Diff
         /\ DetectedColumn(d, k, f).new = IF f.state = "absent" THEN d.new \cup {k} ELSE d.new
         /\ MissedColumn(d, k, f, TRUE) \in Diff
         /\ MissedColumn(d, k, f, TRUE).new = d.new
<1>1. [d EXCEPT !.new = @ \cup {k}] \in Diff /\ [d EXCEPT !.reopened = @ \cup {k}] \in Diff
  BY DEF Diff
<1>2. [d EXCEPT !.fixed = @ \cup {k}] \in Diff /\ [d EXCEPT !.unverified = @ \cup {k}] \in Diff
  BY DEF Diff
<1>3. DetectedColumn(d, k, f) \in Diff /\ MissedColumn(d, k, f, TRUE) \in Diff
  BY <1>1, <1>2 DEF DetectedColumn, MissedColumn
<1>4. DetectedColumn(d, k, f).new = IF f.state = "absent" THEN d.new \cup {k} ELSE d.new
  BY DEF DetectedColumn, Diff
<1>5. MissedColumn(d, k, f, TRUE).new = d.new
  BY DEF MissedColumn, Diff
<1> QED BY <1>3, <1>4, <1>5

\* A document with nothing in it agrees with itself.
LEMMA EmptyAgrees == DocumentAgrees(NoSnapshot)
<1>1. Stored(NoSnapshot.findings) = {}
  BY Blanks DEF NoSnapshot
<1>2. \A s \in Scans : NoSnapshot.runs[s].diff.new = {} /\ NoSnapshot.runs[s].found = {}
  BY DEF NoSnapshot, NoRun, NoDiff
<1> QED BY <1>1, <1>2 DEF DocumentAgrees, LedgerAgrees, HaveAssets

-----------------------------------------------------------------------------
(* Type correctness.                                                        *)

\* The command line stores what it detected, and removes nothing.
LEMMA CliFindingsTypes ==
  ASSUME NEW f \in [Keys -> Finding], NEW r \in CliRequests, NEW D \in SUBSET Keys,
         clock \in Nat
  PROVE  /\ CliFindings(f, r, D) \in [Keys -> Finding]
         /\ Stored(CliFindings(f, r, D)) = Stored(f) \cup D
<1> DEFINE F == CliFindings(f, r, D)
<1>1. ASSUME NEW k \in D
      PROVE  F[k] \in Finding /\ F[k].state # "absent"
  <2>1. Detected(f[k]) \in Finding /\ Detected(f[k]).state # "absent"
    BY DetectedStored
  <2>2. <<GroupOf[k], clock>> \in ItemIds
    BY GroupOfAssumption DEF ItemIds
  <2>3. \A g \in Finding, i \in ItemIds \cup {NoItem} :
          [g EXCEPT !.item = i] \in Finding /\ [g EXCEPT !.item = i].state = g.state
    BY DEF Finding
  <2>4. Detected(f[k]).item \in ItemIds \cup {NoItem}
    BY <2>1 DEF Finding
  <2> QED BY <2>1, <2>2, <2>3, <2>4 DEF CliFindings
<1>2. ASSUME NEW k \in Keys \ D
      PROVE  F[k] \in Finding /\ (F[k].state = "absent" <=> f[k].state = "absent")
  BY MissedStored DEF CliFindings
<1>3. F = [k \in Keys |-> F[k]]
  BY DEF CliFindings
<1> HIDE DEF F
<1>4. F \in [Keys -> Finding]
  <2>1. \A k \in Keys : F[k] \in Finding
    BY <1>1, <1>2
  <2> QED BY <2>1, <1>3
<1>5. Stored(F) = Stored(f) \cup D
  BY <1>1, <1>2 DEF Stored
<1> QED BY <1>4, <1>5 DEF F

\* What the steps of a scan do to its locals.
LEMMA JobUpdates ==
  ASSUME NEW j \in Job
  PROVE  /\ \A X \in SUBSET Keys :
              /\ [j EXCEPT !.todo = X] \in Job
              /\ [j EXCEPT !.detected = X] \in Job
              /\ [j EXCEPT !.examined = X] \in Job
              /\ [j EXCEPT !.examined = X, !.cover = {}] \in Job
              /\ [j EXCEPT !.examined = X, !.ssh = FALSE] \in Job
              /\ \A d \in Diff : [j EXCEPT !.todo = X, !.diff = d] \in Job
         /\ \A n \in Nat : [j EXCEPT !.stamp = n] \in Job
         /\ j.detected \in SUBSET Keys
BY DEF Job

\* What recording its diff does to a run, a dial to a finding and to the locals of
\* the verification, and a scan from the command line to its document.
LEMMA RecordUpdates ==
  /\ \A r \in Run, d \in Diff, F \in SUBSET Keys : [r EXCEPT !.diff = d, !.found = F] \in Run
  /\ \A f \in Finding : [f EXCEPT !.state = "fixed"] \in Finding
  /\ \A c \in Check : [c EXCEPT !.key = {}] \in Check
  /\ \A d \in Snapshot, A \in SUBSET Assets, I \in SUBSET Item, F \in [Keys -> Finding] :
       [d EXCEPT !.assets = A, !.items = I, !.findings = F] \in Snapshot
BY DEF Snapshot, Run, Check, Finding, FindingStates

\* The items of a grouping are items, beside the ones that were there.
LEMMA ItemTypes ==
  ASSUME NEW S \in SUBSET Item, NEW D \in SUBSET Keys, NEW n \in Nat
  PROVE  Published(S, NewItems(D, n)) \in SUBSET Item
<1>1. \A k \in Keys : <<GroupOf[k], n>> \in ItemIds
  BY GroupOfAssumption DEF ItemIds
<1>2. NewItems(D, n) \in SUBSET Item
  BY <1>1 DEF NewItems, Item
<1> QED BY <1>2 DEF Published

\* What a process loads is a document.
LEMMA LoadTypes ==
  ASSUME TypeOK
  PROVE  Load \in Snapshot /\ Unreadable \in BOOLEAN
BY Blanks DEF TypeOK, Load, Unreadable, File

\* Every step keeps every variable in its type.
LEMMA TypeStep ==
  ASSUME TypeOK, Next
  PROVE  TypeOK'
<1> USE DEF TypeOK, memory, disk, world, Goto
<1>1. ASSUME NEW s \in Scans, NEW r \in Requests, Submit(s, r) PROVE TypeOK'
  BY <1>1, Blanks, RequestsAssumption DEF Submit, Run, Job, Places, Goroutines
<1>2. ASSUME NEW s \in Scans, Authorize(s) PROVE TypeOK'
  BY <1>2, Blanks DEF Authorize, Places, Goroutines, Run, Job
<1>3. ASSUME NEW s \in Scans, Reject(s) PROVE TypeOK'
  BY <1>3, Blanks DEF Reject, Places, Goroutines, Run, Job
<1>4. ASSUME NEW s \in Scans, RecordAsset(s) PROVE TypeOK'
  BY <1>4, Blanks DEF RecordAsset, Places, Goroutines, Run, Job
<1>5. ASSUME NEW s \in Scans, IngestLock(s) PROVE TypeOK'
  <2>1. job[s] \in Job
    OBVIOUS
  <2>2. job' \in [Scans -> Job]
    BY <1>5, <2>1, JobUpdates DEF IngestLock
  <2> QED BY <1>5, <2>2 DEF IngestLock, Places, Goroutines
<1>6. ASSUME NEW s \in Scans, IngestTurn(s) PROVE TypeOK'
  <2>1. {k \in Stored(findings) : AssetOf[k] = job[s].target} \ job[s].detected \in SUBSET Keys
    BY DEF Stored
  <2>2. [job[s] EXCEPT !.todo = {k \in Stored(findings) : AssetOf[k] = job[s].target}
                                \ job[s].detected] \in Job
    BY <2>1, JobUpdates
  <2>3. job' \in [Scans -> Job]
    BY <1>6, <2>2 DEF IngestTurn
  <2> QED BY <1>6, <2>3 DEF IngestTurn, Places, Goroutines
<1>7. ASSUME NEW s \in Scans, IngestUnlock(s) PROVE TypeOK'
  <2>1. job' \in [Scans -> Job]
    BY <1>7, JobUpdates DEF IngestUnlock
  <2> QED BY <1>7, <2>1 DEF IngestUnlock, Places, Goroutines
<1>8. ASSUME NEW s \in Scans, RecordDiff(s) PROVE TypeOK'
  <2>1. job[s].diff \in Diff /\ job[s].detected \in SUBSET Keys /\ runs[s] \in Run
    BY DEF Job
  <2>2. runs' = [runs EXCEPT ![s] = [runs[s] EXCEPT !.diff = job[s].diff, !.found = job[s].detected]]
    BY <1>8 DEF RecordDiff
  <2>3. runs' \in [Scans -> Run]
    BY <2>1, <2>2, RecordUpdates
  <2> QED BY <1>8, <2>3 DEF RecordDiff, Places, Goroutines
<1>9. ASSUME NEW s \in Scans, GroupFindings(s) PROVE TypeOK'
  <2>1. \A k \in Keys : <<GroupOf[k], clock>> \in ItemIds
    BY GroupOfAssumption DEF ItemIds
  <2>2. \A f \in Finding, i \in ItemIds : [f EXCEPT !.item = i] \in Finding
    BY DEF Finding
  <2>3. findings' \in [Keys -> Finding]
    BY <1>9, <2>1, <2>2 DEF GroupFindings
  <2>4. [job[s] EXCEPT !.stamp = clock] \in Job
    BY JobUpdates
  <2>5. job' \in [Scans -> Job]
    BY <1>9, <2>4 DEF GroupFindings
  <2> QED BY <1>9, <2>3, <2>5 DEF GroupFindings, Places, Goroutines
<1>10. ASSUME NEW s \in Scans, PublishItems(s) PROVE TypeOK'
  <2>1. job[s].detected \in SUBSET Keys /\ job[s].stamp \in Nat
    BY DEF Job
  <2>2. items' \in SUBSET Item
    BY <1>10, <2>1, ItemTypes DEF PublishItems
  <2> QED BY <1>10, <2>2 DEF PublishItems, Places, Goroutines
<1>11. ASSUME NEW s \in Scans, Finish(s) PROVE TypeOK'
  BY <1>11, Blanks DEF Finish, Places, Goroutines, Run, Job
<1>12. ASSUME NEW s \in Scans, NEW R \in SUBSET job[s].cover, ProbeTarget(s, R) PROVE TypeOK'
  <2>1. R \in SUBSET Keys
    BY DEF Job
  <2>2. [job[s] EXCEPT !.examined = R, !.cover = {}] \in Job
    BY <2>1, JobUpdates
  <2>3. job' \in [Scans -> Job]
    BY <1>12, <2>2 DEF ProbeTarget
  <2> QED BY <1>12, <2>3 DEF ProbeTarget, Places, Goroutines
<1>13. ASSUME NEW s \in Scans, NEW ok \in BOOLEAN, InspectHost(s, ok) PROVE TypeOK'
  <2>1. (IF ok THEN job[s].examined ELSE job[s].examined \ CredKeys) \in SUBSET Keys
    BY DEF Job
  <2>2. [job[s] EXCEPT !.examined = IF ok THEN @ ELSE @ \ CredKeys, !.ssh = FALSE] \in Job
    BY <2>1, JobUpdates
  <2>3. job' \in [Scans -> Job]
    BY <1>13, <2>2 DEF InspectHost
  <2> QED BY <1>13, <2>3 DEF InspectHost, Places, Goroutines
<1>14. ASSUME NEW s \in Scans, NEW D \in SUBSET job[s].examined, Evaluate(s, D) PROVE TypeOK'
  <2>1. D \in SUBSET Keys
    BY DEF Job
  <2>2. [job[s] EXCEPT !.detected = D] \in Job
    BY <2>1, JobUpdates
  <2>3. job' \in [Scans -> Job]
    BY <1>14, <2>2 DEF Evaluate
  <2> QED BY <1>14, <2>3 DEF Evaluate, Places, Goroutines
<1>15. ASSUME NEW s \in Scans, NEW k \in Keys, IngestSeen(s, k) PROVE TypeOK'
  <2>1. /\ job[s].todo \ {k} \in SUBSET Keys
        /\ DetectedColumn(job[s].diff, k, findings[k]) \in Diff
    BY ColumnTypes DEF Job
  <2>2. job' \in [Scans -> Job]
    BY <1>15, <2>1, JobUpdates DEF IngestSeen
  <2> QED BY <1>15, <2>2, DetectedStored DEF IngestSeen
<1>16. ASSUME NEW s \in Scans, NEW k \in Keys, IngestMissing(s, k) PROVE TypeOK'
  <2>1. /\ job[s].todo \ {k} \in SUBSET Keys
        /\ MissedColumn(job[s].diff, k, findings[k], TRUE) \in Diff
    BY ColumnTypes DEF Job
  <2>2. job' \in [Scans -> Job]
    BY <1>16, <2>1, JobUpdates DEF IngestMissing
  <2> QED BY <1>16, <2>2, MissedStored DEF IngestMissing
<1>17. ASSUME NEW g \in Goroutines, SaveNothing(g) PROVE TypeOK'
  BY <1>17, Blanks DEF SaveNothing, AfterSave, Places, Goroutines, Snapshot, File
<1>18. ASSUME NEW g \in Goroutines, MarshalFindings(g) PROVE TypeOK'
  BY <1>18, Blanks DEF MarshalFindings, AfterSave, Places, Goroutines, Snapshot, File
<1>19. ASSUME NEW g \in Goroutines, MarshalRest(g) PROVE TypeOK'
  BY <1>19, Blanks DEF MarshalRest, AfterSave, Places, Goroutines, Snapshot, File
<1>20. ASSUME NEW g \in Goroutines, Truncate(g) PROVE TypeOK'
  BY <1>20, Blanks DEF Truncate, AfterSave, Places, Goroutines, Snapshot, File
<1>21. ASSUME NEW g \in Goroutines, WriteFile(g) PROVE TypeOK'
  BY <1>21, Blanks DEF WriteFile, AfterSave, Places, Goroutines, Snapshot, File
<1>22. ASSUME NEW k \in Keys, NEW st \in TriageStates, Triage(k, st) PROVE TypeOK'
  BY <1>22 DEF Triage, Finding, FindingStates
<1>23. ASSUME NEW v \in Verifiers, AskVerify(v) PROVE TypeOK'
  BY <1>23 DEF AskVerify, VerifyBegin, Places, Goroutines, Check, Stored, Item
<1>24. ASSUME NEW v \in Verifiers, NEW k \in Keys, VerifyPick(v, k) PROVE TypeOK'
  <2> DEFINE X == IF Matches(k, check[v].filter) THEN {k} ELSE {}
  <2>1. \A c \in Check, Y \in SUBSET Keys :
          [c EXCEPT !.todo = @ \ {k}, !.known = @ \cup {k}, !.key = Y] \in Check
    BY DEF Check
  <2>2. X \in SUBSET Keys
    OBVIOUS
  <2>3. check' = [check EXCEPT ![v] =
                    [check[v] EXCEPT !.todo = @ \ {k}, !.known = @ \cup {k}, !.key = X]]
    BY <1>24 DEF VerifyPick
  <2> HIDE DEF X
  <2>4. check' \in [Verifiers -> Check]
    BY <2>1, <2>2, <2>3
  <2> QED BY <1>24, <2>4 DEF VerifyPick, Places, Goroutines
<1>25. ASSUME NEW v \in Verifiers, NEW answer \in DialOutcomes,
              VerifyDialed(v, answer)
       PROVE  TypeOK'
  <2>1. findings' \in [Keys -> Finding]
    BY <1>25, RecordUpdates DEF VerifyDialed
  <2>2. check' \in [Verifiers -> Check]
    BY <1>25, RecordUpdates DEF VerifyDialed
  <2> QED BY <1>25, <2>1, <2>2 DEF VerifyDialed, Places, Goroutines
<1>26. ASSUME NEW v \in Verifiers, VerifyEnd(v) PROVE TypeOK'
  BY <1>26 DEF VerifyEnd, Places, Goroutines
<1>27. ASSUME NEW v \in Verifiers, VerifyReply(v) PROVE TypeOK'
  BY <1>27, Blanks DEF VerifyReply, Places, Goroutines
<1>28. ASSUME Tick PROVE TypeOK'
  BY <1>28, BoundsAssumption DEF Tick
<1>29. ASSUME Restart PROVE TypeOK'
  BY <1>29, Blanks, LoadTypes, BoundsAssumption DEF Restart, Places, Goroutines, Snapshot
<1>30. ASSUME NEW s \in Scans, Hang(s) PROVE TypeOK'
  BY <1>30 DEF Hang, Places, Goroutines
<1>31. ASSUME NEW g \in Goroutines, SaveFails(g) PROVE TypeOK'
  BY <1>31, Blanks DEF SaveFails, AfterSave, Places, Goroutines, File
<1>32. ASSUME CliOpen PROVE TypeOK'
  BY <1>32, LoadTypes DEF CliOpen, Cli
<1>33. ASSUME NEW r \in CliRequests, NEW D \in SUBSET Keys, CliScan(r, D) PROVE TypeOK'
  <2> DEFINE A == cli.doc.assets \cup {r.target}
             I == Published(cli.doc.items, NewItems(D, clock))
             F == CliFindings(cli.doc.findings, r, D)
  <2>1. cli.doc \in Snapshot /\ r.target \in Assets
    BY CliAssumption, RequestsAssumption DEF Cli
  <2>2. A \in SUBSET Assets
    BY <2>1 DEF Snapshot
  <2>3. I \in SUBSET Item
    BY <2>1, ItemTypes DEF Snapshot
  <2>4. F \in [Keys -> Finding]
    BY <2>1, CliFindingsTypes DEF Snapshot
  <2>5. /\ cli'.pc \in {"done", "truncate"} /\ cli' = [cli EXCEPT !.pc = cli'.pc, !.doc = cli'.doc]
        /\ cli'.doc = [cli.doc EXCEPT !.assets = A, !.items = I, !.findings = F]
    BY <1>33 DEF CliScan, Cli
  <2> HIDE DEF A, I, F
  <2>6. cli'.doc \in Snapshot
    <3>1. [cli.doc EXCEPT !.assets = A, !.items = I, !.findings = F] \in Snapshot
      BY <2>1, <2>2, <2>3, <2>4, RecordUpdates, Zenon
    <3> QED BY <2>5, <3>1
  <2>7. cli' \in Cli
    BY <2>5, <2>6 DEF Cli
  <2> QED BY <1>33, <2>7 DEF CliScan
<1>34. ASSUME CliQuit PROVE TypeOK'
  <2>1. cli' \in Cli
    BY <1>34, Blanks DEF CliQuit, Cli, NoCli
  <2>2. file' \in File
    BY <1>34, Blanks DEF CliQuit, File
  <2> QED BY <1>34, <2>1, <2>2 DEF CliQuit
<1>35. ASSUME CliTruncate PROVE TypeOK'
  BY <1>35, Blanks DEF CliTruncate, Cli, File
<1>36. ASSUME CliWrite PROVE TypeOK'
  <2>1. cli' \in Cli
    BY <1>36, Blanks DEF CliWrite, Cli, NoCli
  <2>2. cli.doc \in Snapshot
    BY DEF Cli
  <2>3. file' \in File
    BY <1>36, <2>2, Blanks DEF CliWrite, File
  <2> QED BY <1>36, <2>1, <2>3 DEF CliWrite
<1> QED
  BY <1>1, <1>2, <1>3, <1>4, <1>5, <1>6, <1>7, <1>8, <1>9, <1>10, <1>11, <1>12, <1>13,
      <1>14, <1>15, <1>16, <1>17, <1>18, <1>19, <1>20, <1>21, <1>22, <1>23, <1>24, <1>25,
      <1>26, <1>27, <1>28, <1>29, <1>30, <1>31, <1>32, <1>33, <1>34, <1>35, <1>36
  DEF Next, Scan, Ingest, Save, Verify, CommandLine, Goroutines

-----------------------------------------------------------------------------
(* The steps of a scan.                                                     *)

\* A new run claims nothing.
LEMMA SubmitStep ==
  ASSUME IInv, TypeOK', NEW s \in Scans, NEW r \in Requests, Submit(s, r)
  PROVE  IInv'
<1> USE DEF IInv, TypeOK, memory, disk, world, Goto
<1>1. /\ job'[s].cover \cup job'[s].examined \cup job'[s].detected \subseteq KeysOf(job'[s].target)
      /\ job'[s].detected = {} /\ job'[s].diff.new = {}
      /\ runs'[s].diff.new = {} /\ runs'[s].found = {}
      /\ pc'[s] = "scope"
      /\ \A t \in Scans : t # s => job'[t] = job[t] /\ runs'[t] = runs[t] /\ pc'[t] = pc[t]
  BY RequestsAssumption DEF Submit, NoRun, NoJob, NoDiff, KeysOf, Goroutines
<1>2. Targeted'
  BY <1>1 DEF Submit, Targeted
<1>3. Ingested'
  BY <1>1 DEF Submit, Ingested
<1>4. Backed'
  BY <1>1 DEF Submit, Backed, Claims
<1>5. ClaimedOnce'
  BY <1>1 DEF Submit, ClaimedOnce, Claims
<1>6. Mutex' /\ Checked' /\ Drafted' /\ Filed' /\ Owned'
  BY DEF Submit, Mutex, Writing, Reading, Goroutines, Checked, Drafted, Filed, Owned
<1> QED BY <1>1, <1>2, <1>3, <1>4, <1>5, <1>6

\* Nothing of the invariant moves.
LEMMA AuthorizeStep ==
  ASSUME IInv, TypeOK', NEW s \in Scans, Authorize(s)
  PROVE  IInv'
<1> USE DEF IInv, TypeOK, memory, disk, world, Goto
<1>1. Mutex' /\ Targeted' /\ Ingested' /\ Backed' /\ ClaimedOnce'
      /\ Checked' /\ Drafted' /\ Filed' /\ Owned'
  BY DEF Authorize, Mutex, Writing, Reading, Goroutines, Targeted, Ingested, Backed, Claims,
      ClaimedOnce, Checked, Drafted, Filed, Owned
<1> QED BY <1>1

\* Nothing of the invariant moves.
LEMMA RejectStep ==
  ASSUME IInv, TypeOK', NEW s \in Scans, Reject(s)
  PROVE  IInv'
<1> USE DEF IInv, TypeOK, memory, disk, world, Goto
<1>1. Mutex' /\ Targeted' /\ Ingested' /\ Backed' /\ ClaimedOnce'
      /\ Checked' /\ Drafted' /\ Filed' /\ Owned'
  BY DEF Reject, Mutex, Writing, Reading, Goroutines, Targeted, Ingested, Backed, Claims,
      ClaimedOnce, Checked, Drafted, Filed, Owned, Run
<1> QED BY <1>1

\* What answered is part of what was asked for.
LEMMA ProbeTargetStep ==
  ASSUME IInv, TypeOK', NEW s \in Scans, NEW R \in SUBSET job[s].cover, ProbeTarget(s, R)
  PROVE  IInv'
<1> USE DEF IInv, TypeOK, memory, disk, world, Goto
<1>1. Targeted'
  BY DEF ProbeTarget, Targeted, Job
<1>2. Mutex' /\ Ingested' /\ Backed' /\ ClaimedOnce' /\ Checked' /\ Drafted' /\ Filed' /\ Owned'
  BY DEF ProbeTarget, Mutex, Writing, Reading, Goroutines, Ingested, Backed, Claims,
      ClaimedOnce, Checked, Drafted, Filed, Owned, Job
<1> QED BY <1>1, <1>2

\* Collected facts only narrow what was examined.
LEMMA InspectHostStep ==
  ASSUME IInv, TypeOK', NEW s \in Scans, NEW ok \in BOOLEAN, InspectHost(s, ok)
  PROVE  IInv'
<1> USE DEF IInv, TypeOK, memory, disk, world, Goto
<1>1. Targeted'
  BY DEF InspectHost, Targeted, Job
<1>2. \A t \in Scans : /\ job'[t].diff = job[t].diff /\ job'[t].detected = job[t].detected
                       /\ job'[t].todo = job[t].todo
  BY DEF InspectHost, Job
<1>3. Backed' /\ ClaimedOnce'
  <2>1. \A t \in Scans : Claims(t)' = Claims(t)
    BY <1>2 DEF InspectHost, Claims
  <2> QED BY <2>1 DEF InspectHost, Backed, ClaimedOnce
<1>4. Ingested'
  BY <1>2 DEF InspectHost, Ingested
<1>5. Mutex' /\ Checked' /\ Drafted' /\ Filed' /\ Owned'
  BY DEF InspectHost, Mutex, Writing, Reading, Goroutines, Checked, Drafted, Filed, Owned
<1> QED BY <1>1, <1>3, <1>4, <1>5

\* A scan that hangs holds no lock and writes nothing.
LEMMA HangStep ==
  ASSUME IInv, TypeOK', NEW s \in Scans, Hang(s)
  PROVE  IInv'
<1> USE DEF IInv, TypeOK, memory, disk, world, Goto
<1>1. pc[s] \in {"probe", "inspect"} /\ pc' = [pc EXCEPT ![s] = "hung"]
      /\ UNCHANGED <<memory, job, check, draft, disk, world>>
  BY DEF Hang
<1>2. Mutex' /\ Targeted' /\ Ingested' /\ Backed' /\ ClaimedOnce'
      /\ Checked' /\ Drafted' /\ Filed' /\ Owned'
  BY <1>1 DEF Mutex, Writing, Reading, Goroutines, Targeted, Ingested, Backed, Claims,
      ClaimedOnce, Checked, Drafted, Filed, Owned
<1> QED BY <1>2

\* The target is an asset before its findings are.
LEMMA RecordAssetStep ==
  ASSUME IInv, TypeOK', NEW s \in Scans, RecordAsset(s)
  PROVE  IInv'
<1> USE DEF IInv, TypeOK, memory, disk, world, Goto
<1>1. Targeted'
  BY DEF RecordAsset, Targeted, Goroutines
<1>2. Owned'
  BY DEF RecordAsset, Owned, HaveAssets
<1>3. Mutex' /\ Ingested' /\ Backed' /\ ClaimedOnce' /\ Checked' /\ Drafted' /\ Filed'
  BY DEF RecordAsset, Mutex, Writing, Reading, Goroutines, Ingested, Backed, Claims,
      ClaimedOnce, Checked, Drafted, Filed
<1> QED BY <1>1, <1>2, <1>3

\* Only what was examined is detected.
LEMMA EvaluateStep ==
  ASSUME IInv, TypeOK', NEW s \in Scans, NEW D \in SUBSET job[s].examined, Evaluate(s, D)
  PROVE  IInv'
<1> USE DEF IInv, TypeOK, memory, disk, world, Goto
<1>1. Targeted'
  BY DEF Evaluate, Targeted, Job
<1>2. Mutex' /\ Ingested' /\ Backed' /\ ClaimedOnce' /\ Checked' /\ Drafted' /\ Filed' /\ Owned'
  BY DEF Evaluate, Mutex, Writing, Reading, Goroutines, Ingested, Backed, Claims,
      ClaimedOnce, Checked, Drafted, Filed, Owned, Job
<1> QED BY <1>1, <1>2

\* No Save is marshalling when store.mu is taken for writing.
LEMMA IngestLockStep ==
  ASSUME IInv, TypeOK', NEW s \in Scans, IngestLock(s)
  PROVE  IInv'
<1> USE DEF IInv, TypeOK, memory, disk, world, Goto
<1>1. Mutex'
  BY DEF IngestLock, Mutex, Reading, Goroutines
<1>2. Ingested'
  BY DEF IngestLock, Ingested, Job, Goroutines
<1>3. Targeted' /\ Backed' /\ ClaimedOnce' /\ Checked' /\ Drafted' /\ Filed' /\ Owned'
  BY DEF IngestLock, Targeted, Backed, Claims, ClaimedOnce, Checked, Drafted, Filed, Owned, Job
<1> QED BY <1>1, <1>2, <1>3

\* A finding that becomes stored belongs to the target, is claimed as new by the
\* scan that stores it alone, and no Save is marshalling.
LEMMA IngestSeenStep ==
  ASSUME IInv, TypeOK', NEW s \in Scans, NEW k \in Keys, IngestSeen(s, k)
  PROVE  IInv'
<1> USE DEF IInv, TypeOK, memory, disk, world, Goto
<1>1. /\ Stored(findings') = Stored(findings) \cup {k}
      /\ findings[k].state = "absent" <=> k \notin Stored(findings)
  BY DetectedStored DEF IngestSeen, Stored
<1>2. job[s].diff \in Diff /\ findings[k] \in Finding
  BY DEF Job
<1>3. /\ job'[s].cover = job[s].cover /\ job'[s].examined = job[s].examined
      /\ job'[s].detected = job[s].detected /\ job'[s].target = job[s].target
      /\ job'[s].todo = job[s].todo \ {k}
      /\ job'[s].diff.new = IF k \in Stored(findings) THEN job[s].diff.new
                            ELSE job[s].diff.new \cup {k}
      /\ \A t \in Scans : t # s => job'[t] = job[t]
  <2> DEFINE d == DetectedColumn(job[s].diff, k, findings[k])
  <2>1. /\ d \in Diff
        /\ d.new = IF findings[k].state = "absent" THEN job[s].diff.new \cup {k}
                   ELSE job[s].diff.new
    BY <1>2, ColumnTypes
  <2>2. job' = [job EXCEPT ![s] = [job[s] EXCEPT !.todo = @ \ {k}, !.diff = d]]
    BY DEF IngestSeen
  <2> HIDE DEF d
  <2> QED BY <1>1, <2>1, <2>2 DEF Job
<1>4. Targeted'
  BY <1>3 DEF IngestSeen, Targeted
<1>5. Ingested'
  BY <1>1, <1>3 DEF IngestSeen, Ingested
<1>6. Backed'
  <2>1. \A t \in Scans : Claims(t)' \subseteq Claims(t) \cup {k} /\ runs'[t] = runs[t]
    BY <1>3 DEF IngestSeen, Claims
  <2> QED BY <1>1, <2>1 DEF Backed
<1>7. ClaimedOnce'
  BY <1>1, <1>3 DEF IngestSeen, ClaimedOnce, Backed, Claims
<1>8. Drafted'
  <2>1. Reading = {}
    BY DEF IngestSeen, Mutex, Writing
  <2> QED BY <2>1 DEF IngestSeen, Drafted, Reading
<1>9. Owned'
  <2>1. k \in job[s].detected /\ AssetOf[k] \in assets
    BY DEF IngestSeen, Ingested, Targeted, KeysOf
  <2> QED BY <1>1, <2>1 DEF IngestSeen, Owned, HaveAssets
<1>10. Mutex' /\ Checked' /\ Filed'
  BY <1>1 DEF IngestSeen, Mutex, Writing, Reading, Goroutines, Checked, Filed
<1> QED BY <1>1, <1>2, <1>3, <1>4, <1>5, <1>6, <1>7, <1>8, <1>9, <1>10

\* By now everything detected is stored.
LEMMA IngestTurnStep ==
  ASSUME IInv, TypeOK', NEW s \in Scans, IngestTurn(s)
  PROVE  IInv'
<1> USE DEF IInv, TypeOK, memory, disk, world, Goto
<1>1. Ingested'
  BY DEF IngestTurn, Ingested, Job, Goroutines
<1>2. Mutex' /\ Targeted' /\ Backed' /\ ClaimedOnce' /\ Checked' /\ Drafted' /\ Filed' /\ Owned'
  BY DEF IngestTurn, Mutex, Writing, Reading, Goroutines, Targeted, Backed, Claims,
      ClaimedOnce, Checked, Drafted, Filed, Owned, Job
<1> QED BY <1>1, <1>2

\* Closing a finding neither stores nor removes one.
LEMMA IngestMissingStep ==
  ASSUME IInv, TypeOK', NEW s \in Scans, NEW k \in Keys, IngestMissing(s, k)
  PROVE  IInv'
<1> USE DEF IInv, TypeOK, memory, disk, world, Goto
<1>1. Stored(findings') = Stored(findings)
  BY MissedStored DEF IngestMissing, Stored
<1>2. job[s].diff \in Diff /\ findings[k] \in Finding
  BY DEF Job
<1>3. /\ job'[s].cover = job[s].cover /\ job'[s].examined = job[s].examined
      /\ job'[s].detected = job[s].detected /\ job'[s].target = job[s].target
      /\ job'[s].diff.new = job[s].diff.new
      /\ \A t \in Scans : t # s => job'[t] = job[t]
  <2> DEFINE d == MissedColumn(job[s].diff, k, findings[k], TRUE)
  <2>1. /\ d \in Diff
        /\ d.new = job[s].diff.new
    BY <1>2, ColumnTypes
  <2>2. job' = [job EXCEPT ![s] = [job[s] EXCEPT !.todo = @ \ {k}, !.diff = d]]
    BY DEF IngestMissing
  <2> HIDE DEF d
  <2> QED BY <2>1, <2>2 DEF Job
<1>4. ClaimedOnce' /\ Backed'
  <2>1. \A t \in Scans : Claims(t)' = Claims(t) /\ runs'[t] = runs[t]
    BY <1>3 DEF IngestMissing, Claims
  <2>2. ClaimedOnce'
    BY <2>1 DEF ClaimedOnce
  <2>3. Backed'
    BY <1>1, <2>1 DEF Backed
  <2> QED BY <2>2, <2>3
<1>5. Mutex'
  BY <1>1, <1>3 DEF IngestMissing, Mutex, Writing, Reading, Goroutines
<1>6. Targeted'
  BY <1>1, <1>3 DEF IngestMissing, Targeted
<1>7. Ingested'
  BY <1>1, <1>3 DEF IngestMissing, Ingested
<1>8. Checked'
  BY <1>1, <1>3 DEF IngestMissing, Checked
<1>9. Drafted'
  BY <1>1, <1>3 DEF IngestMissing, Drafted
<1>10. Filed'
  BY <1>1, <1>3 DEF IngestMissing, Filed
<1>11. Owned'
  BY <1>1, <1>3 DEF IngestMissing, Owned, HaveAssets
<1> QED BY <1>1, <1>2, <1>3, <1>4, <1>5, <1>6, <1>7, <1>8, <1>9, <1>10, <1>11

\* store.mu is given back.
LEMMA IngestUnlockStep ==
  ASSUME IInv, TypeOK', NEW s \in Scans, IngestUnlock(s)
  PROVE  IInv'
<1> USE DEF IInv, TypeOK, memory, disk, world, Goto
<1>1. Mutex' /\ Targeted' /\ Ingested' /\ Backed' /\ ClaimedOnce'
      /\ Checked' /\ Drafted' /\ Filed' /\ Owned'
  BY DEF IngestUnlock, Mutex, Writing, Reading, Goroutines, Targeted, Ingested, Backed,
      Claims, ClaimedOnce, Checked, Drafted, Filed, Owned, Job
<1> QED BY <1>1

\* The run reports what its goroutine claimed.
LEMMA RecordDiffStep ==
  ASSUME IInv, TypeOK', NEW s \in Scans, RecordDiff(s)
  PROVE  IInv'
<1> USE DEF IInv, TypeOK, memory, disk, world, Goto
<1>1. /\ runs'[s].diff.new = job[s].diff.new /\ runs'[s].found = job[s].detected
      /\ \A t \in Scans : t # s => runs'[t] = runs[t]
  BY DEF RecordDiff, Run
<1>2. Backed'
  BY <1>1 DEF RecordDiff, Backed, Claims, Ingested
<1>3. ClaimedOnce'
  BY <1>1 DEF RecordDiff, ClaimedOnce, Claims
<1>4. Mutex' /\ Targeted' /\ Ingested' /\ Checked' /\ Drafted' /\ Filed' /\ Owned'
  BY DEF RecordDiff, Mutex, Writing, Reading, Goroutines, Targeted, Ingested, Checked,
      Drafted, Filed, Owned
<1> QED BY <1>1, <1>2, <1>3, <1>4

\* The remediation ID is not part of what the invariant is about.
LEMMA GroupFindingsStep ==
  ASSUME IInv, TypeOK', NEW s \in Scans, GroupFindings(s)
  PROVE  IInv'
<1> USE DEF IInv, TypeOK, memory, disk, world, Goto
<1>1. Stored(findings') = Stored(findings)
  BY DEF GroupFindings, Stored, Finding
<1>2. /\ \A t \in Scans : /\ job'[t].cover = job[t].cover /\ job'[t].examined = job[t].examined
                           /\ job'[t].detected = job[t].detected /\ job'[t].target = job[t].target
                           /\ job'[t].todo = job[t].todo /\ job'[t].diff = job[t].diff
      /\ pc' = [pc EXCEPT ![s] = "publish"]
      /\ UNCHANGED <<assets, runs, check, draft, file, cli>>
  BY DEF GroupFindings, Job
<1>3. Mutex'
  BY <1>1, <1>2 DEF Mutex, Writing, Reading, Goroutines
<1>4. Targeted'
  BY <1>1, <1>2 DEF Targeted
<1>5. Ingested'
  BY <1>1, <1>2 DEF Ingested
<1>6. Backed'
  BY <1>1, <1>2 DEF Backed, Claims
<1>7. ClaimedOnce'
  BY <1>1, <1>2 DEF ClaimedOnce, Claims
<1>8. Checked'
  BY <1>1, <1>2 DEF Checked
<1>9. Drafted'
  BY <1>1, <1>2 DEF Drafted
<1>10. Filed'
  BY <1>1, <1>2 DEF Filed
<1>11. Owned'
  BY <1>1, <1>2 DEF Owned, HaveAssets
<1> QED BY <1>1, <1>2, <1>3, <1>4, <1>5, <1>6, <1>7, <1>8, <1>9, <1>10, <1>11

\* Nor are the remediation items.
LEMMA PublishItemsStep ==
  ASSUME IInv, TypeOK', NEW s \in Scans, PublishItems(s)
  PROVE  IInv'
<1> USE DEF IInv, TypeOK, memory, disk, world, Goto
<1>1. Mutex' /\ Targeted' /\ Ingested' /\ Backed' /\ ClaimedOnce'
      /\ Checked' /\ Drafted' /\ Filed' /\ Owned'
  BY DEF PublishItems, Mutex, Writing, Reading, Goroutines, Targeted, Ingested, Backed,
      Claims, ClaimedOnce, Checked, Drafted, Filed, Owned
<1> QED BY <1>1

\* The locals go; the run keeps what it reported.
LEMMA FinishStep ==
  ASSUME IInv, TypeOK', NEW s \in Scans, Finish(s)
  PROVE  IInv'
<1> USE DEF IInv, TypeOK, memory, disk, world, Goto
<1>1. /\ job'[s].cover = {} /\ job'[s].examined = {} /\ job'[s].detected = {}
      /\ job'[s].diff.new = {}
      /\ runs'[s].diff = runs[s].diff /\ runs'[s].found = runs[s].found
      /\ \A t \in Scans : t # s => job'[t] = job[t] /\ runs'[t] = runs[t]
  BY DEF Finish, NoJob, NoDiff, Run
<1>2. Targeted'
  BY <1>1 DEF Finish, Targeted
<1>3. Backed'
  BY <1>1 DEF Finish, Backed, Claims
<1>4. ClaimedOnce'
  BY <1>1 DEF Finish, ClaimedOnce, Claims
<1>5. Mutex' /\ Ingested' /\ Checked' /\ Drafted' /\ Filed' /\ Owned'
  BY DEF Finish, Mutex, Writing, Reading, Goroutines, Ingested, Checked, Drafted, Filed, Owned
<1> QED BY <1>1, <1>2, <1>3, <1>4, <1>5

-----------------------------------------------------------------------------
(* Save.                                                                    *)

\* A store without a file has nothing to save.
LEMMA SaveNothingStep ==
  ASSUME IInv, TypeOK', NEW g \in Goroutines, SaveNothing(g)
  PROVE  IInv'
<1> USE DEF IInv, TypeOK, memory, disk, world, Goto
<1>1. Mutex' /\ Targeted' /\ Ingested' /\ Backed' /\ ClaimedOnce'
      /\ Checked' /\ Drafted' /\ Filed' /\ Owned'
  BY DEF SaveNothing, Mutex, Writing, Reading, Goroutines, Targeted, Ingested, Backed,
      Claims, ClaimedOnce, Checked, Drafted, Filed, Owned, AfterSave
<1> QED BY <1>1

\* The findings are read while nobody can store another.
LEMMA MarshalFindingsStep ==
  ASSUME IInv, TypeOK', NEW g \in Goroutines, MarshalFindings(g)
  PROVE  IInv'
<1> USE DEF IInv, TypeOK, memory, disk, world, Goto
<1>1. Mutex'
  BY DEF MarshalFindings, Mutex, Writing, Goroutines
<1>2. Drafted'
  <2>1. /\ draft'[g].findings = findings /\ draft'[g].assets = assets
        /\ \A h \in Goroutines : h # g => draft'[h] = draft[h] /\ pc'[h] = pc[h]
    BY DEF MarshalFindings, Snapshot
  <2>2. HaveAssets(draft'[g].findings, draft'[g].assets)
    BY <2>1 DEF Owned
  <2>3. pc'[g] = "rest" /\ UNCHANGED findings
    BY DEF MarshalFindings
  <2> QED BY <2>1, <2>2, <2>3 DEF Drafted
<1>3. Targeted' /\ Ingested' /\ Backed' /\ ClaimedOnce' /\ Checked' /\ Filed' /\ Owned'
  BY DEF MarshalFindings, Targeted, Ingested, Backed, Claims, ClaimedOnce, Checked, Filed, Owned
<1> QED BY <1>1, <1>2, <1>3

\* The runs read now are backed by the findings read before.
LEMMA MarshalRestStep ==
  ASSUME IInv, TypeOK', NEW g \in Goroutines, MarshalRest(g)
  PROVE  IInv'
<1> USE DEF IInv, TypeOK, memory, disk, world, Goto
<1>1. Drafted'
  <2>1. /\ draft'[g].findings = draft[g].findings /\ draft'[g].assets = draft[g].assets
        /\ draft'[g].runs = [s \in Scans |-> IF s \in listed THEN runs[s] ELSE NoRun]
        /\ \A h \in Goroutines : h # g => draft'[h] = draft[h] /\ pc'[h] = pc[h]
        /\ pc[g] = "rest" /\ pc'[g] = "truncate" /\ UNCHANGED findings
    BY DEF MarshalRest, Snapshot
  <2>2. LedgerAgrees(findings, [s \in Scans |-> IF s \in listed THEN runs[s] ELSE NoRun])
    BY DEF LedgerAgrees, Backed, ClaimedOnce, Claims, NoRun, NoDiff
  <2>3. LedgerAgrees(draft'[g].findings, draft'[g].runs)
    BY <2>1, <2>2 DEF Drafted, LedgerAgrees
  <2> QED BY <2>1, <2>3 DEF Drafted
<1>2. Mutex' /\ Targeted' /\ Ingested' /\ Backed' /\ ClaimedOnce'
      /\ Checked' /\ Filed' /\ Owned'
  BY DEF MarshalRest, Mutex, Writing, Reading, Goroutines, Targeted, Ingested, Backed,
      Claims, ClaimedOnce, Checked, Filed, Owned
<1> QED BY <1>1, <1>2

\* An empty file agrees with itself.
LEMMA TruncateStep ==
  ASSUME IInv, TypeOK', NEW g \in Goroutines, Truncate(g)
  PROVE  IInv'
<1> USE DEF IInv, TypeOK, memory, disk, world, Goto
<1>1. Filed'
  BY EmptyAgrees DEF Truncate, Filed
<1>2. Mutex' /\ Targeted' /\ Ingested' /\ Backed' /\ ClaimedOnce'
      /\ Checked' /\ Drafted' /\ Owned'
  BY DEF Truncate, Mutex, Writing, Reading, Goroutines, Targeted, Ingested, Backed, Claims,
      ClaimedOnce, Checked, Drafted, Owned
<1> QED BY <1>1, <1>2

\* What is written was marshalled.
LEMMA WriteFileStep ==
  ASSUME IInv, TypeOK', NEW g \in Goroutines, WriteFile(g)
  PROVE  IInv'
<1> USE DEF IInv, TypeOK, memory, disk, world, Goto
<1>1. Drafted'
  <2>1. /\ draft'[g] = NoSnapshot
        /\ \A h \in Goroutines : h # g => draft'[h] = draft[h] /\ pc'[h] = pc[h]
        /\ pc'[g] \in {"reply", "done"} /\ UNCHANGED findings
    BY DEF WriteFile, AfterSave
  <2> QED BY <2>1, EmptyAgrees DEF Drafted, DocumentAgrees
<1>2. Filed'
  BY EmptyAgrees DEF WriteFile, Filed, Drafted, DocumentAgrees
<1>3. Mutex' /\ Targeted' /\ Ingested' /\ Backed' /\ ClaimedOnce' /\ Checked' /\ Owned'
  BY DEF WriteFile, Mutex, Writing, Reading, Goroutines, Targeted, Ingested, Backed, Claims,
      ClaimedOnce, Checked, Owned, AfterSave
<1> QED BY <1>1, <1>2, <1>3

\* A Save that fails leaves what was there, or nothing that can be read.
LEMMA SaveFailsStep ==
  ASSUME IInv, TypeOK', NEW g \in Goroutines, SaveFails(g)
  PROVE  IInv'
<1> USE DEF IInv, TypeOK, memory, disk, world, Goto
<1>1. /\ draft'[g] = NoSnapshot
      /\ \A h \in Goroutines : h # g => draft'[h] = draft[h] /\ pc'[h] = pc[h]
      /\ pc'[g] \in {"reply", "done"}
      /\ UNCHANGED <<assets, findings, runs, job, check, cli>>
  BY DEF SaveFails, AfterSave
<1>2. Drafted'
  BY <1>1, EmptyAgrees DEF Drafted, DocumentAgrees
<1>3. file' = file \/ file'.snap = NoSnapshot
  BY DEF SaveFails
<1>4. Filed'
  BY <1>1, <1>3, EmptyAgrees DEF Filed
<1>5. Mutex' /\ Targeted' /\ Ingested' /\ Backed' /\ ClaimedOnce' /\ Checked' /\ Owned'
  BY <1>1 DEF Mutex, Writing, Reading, Goroutines, Targeted, Ingested, Backed, Claims,
      ClaimedOnce, Checked, Owned
<1> QED BY <1>2, <1>4, <1>5

-----------------------------------------------------------------------------
(* The command line.                                                        *)

\* What a process loads agrees with itself.
LEMMA LoadAgrees ==
  ASSUME Filed
  PROVE  DocumentAgrees(Load)
BY EmptyAgrees DEF Filed, Load

\* A step that touches neither the server nor a lock keeps the rest.
LEMMA CliFrame ==
  ASSUME IInv, TypeOK', Filed',
         UNCHANGED <<memory, pc, job, check, draft>>
  PROVE  IInv'
BY DEF IInv, memory, Mutex, Writing, Reading, Targeted, Ingested, Backed, Claims,
   ClaimedOnce, Checked, Drafted, Owned

\* Its copy of the document is the file.
LEMMA CliOpenStep ==
  ASSUME IInv, TypeOK', CliOpen
  PROVE  IInv'
<1>1. Filed'
  BY LoadAgrees DEF IInv, CliOpen, Filed, disk
<1> QED BY <1>1, CliFrame DEF CliOpen

\* It stores findings of its target, and the target, and reports no run.
LEMMA CliScanStep ==
  ASSUME IInv, TypeOK', NEW r \in CliRequests, NEW D \in SUBSET Keys, CliScan(r, D)
  PROVE  IInv'
<1>1. /\ cli.doc \in Snapshot /\ cli.doc.findings \in [Keys -> Finding]
      /\ r.target \in Assets /\ D \subseteq KeysOf(r.target)
  BY CliAssumption, RequestsAssumption DEF IInv, TypeOK, Cli, Snapshot, CliScan, KeysOf
<1>2. /\ cli'.doc.findings = CliFindings(cli.doc.findings, r, D)
      /\ cli'.doc.assets = cli.doc.assets \cup {r.target}
      /\ cli'.doc.runs = cli.doc.runs
      /\ UNCHANGED file
  BY <1>1 DEF IInv, TypeOK, CliScan, Cli, Snapshot, disk
<1>3. Stored(cli'.doc.findings) = Stored(cli.doc.findings) \cup D
  BY <1>1, <1>2, CliFindingsTypes DEF IInv, TypeOK
<1>4. DocumentAgrees(cli'.doc)
  BY <1>1, <1>2, <1>3 DEF IInv, Filed, DocumentAgrees, LedgerAgrees, HaveAssets, KeysOf
<1>5. Filed'
  BY <1>2, <1>4 DEF IInv, Filed
<1> QED BY <1>5, CliFrame DEF CliScan

\* It ends; a write it gave up leaves nothing that can be read.
LEMMA CliQuitStep ==
  ASSUME IInv, TypeOK', CliQuit
  PROVE  IInv'
<1>1. (file' = file \/ file'.snap = NoSnapshot) /\ cli'.doc = NoSnapshot
  BY DEF CliQuit, NoCli
<1>2. Filed'
  BY <1>1, EmptyAgrees DEF IInv, Filed
<1> QED BY <1>2, CliFrame DEF CliQuit

\* An empty file agrees with itself.
LEMMA CliTruncateStep ==
  ASSUME IInv, TypeOK', CliTruncate
  PROVE  IInv'
<1>1. file'.snap = NoSnapshot /\ cli'.doc = cli.doc
  BY DEF CliTruncate, IInv, TypeOK, Cli
<1>2. Filed'
  BY <1>1, EmptyAgrees DEF IInv, Filed
<1> QED BY <1>2, CliFrame DEF CliTruncate

\* What it writes is its copy.
LEMMA CliWriteStep ==
  ASSUME IInv, TypeOK', CliWrite
  PROVE  IInv'
<1>1. (file'.snap = cli.doc \/ file'.snap = NoSnapshot) /\ cli'.doc = NoSnapshot
  BY DEF CliWrite, NoCli
<1>2. Filed'
  BY <1>1, EmptyAgrees DEF IInv, Filed
<1> QED BY <1>2, CliFrame DEF CliWrite

-----------------------------------------------------------------------------
(* Triage, verification rescans, time and restarts.                         *)

\* Triage moves a stored finding to another state of a stored finding.
LEMMA TriageStep ==
  ASSUME IInv, TypeOK', NEW k \in Keys, NEW st \in TriageStates, Triage(k, st)
  PROVE  IInv'
<1> USE DEF IInv, TypeOK, memory, disk, world, Goto
<1>1. Stored(findings') = Stored(findings)
  <2>1. st # "absent"
    BY TriageAssumption
  <2> QED BY <2>1 DEF Triage, Stored, Finding
<1>2. Mutex'
  BY <1>1 DEF Triage, Mutex, Writing, Reading, Goroutines
<1>3. Targeted'
  BY <1>1 DEF Triage, Targeted
<1>4. Ingested'
  BY <1>1 DEF Triage, Ingested
<1>5. Backed'
  BY <1>1 DEF Triage, Backed, Claims
<1>6. ClaimedOnce'
  BY <1>1 DEF Triage, ClaimedOnce, Claims
<1>7. Checked'
  BY <1>1 DEF Triage, Checked
<1>8. Drafted'
  BY <1>1 DEF Triage, Drafted
<1>9. Filed'
  BY <1>1 DEF Triage, Filed
<1>10. Owned'
  BY <1>1 DEF Triage, Owned, HaveAssets
<1> QED BY <1>1, <1>2, <1>3, <1>4, <1>5, <1>6, <1>7, <1>8, <1>9, <1>10

\* The iteration starts with what is stored.
LEMMA AskVerifyStep ==
  ASSUME IInv, TypeOK', NEW v \in Verifiers, AskVerify(v)
  PROVE  IInv'
<1> USE DEF IInv, TypeOK, memory, disk, world, Goto
<1>1. Checked'
  BY DEF AskVerify, VerifyBegin, Checked, Check
<1>2. Mutex' /\ Targeted' /\ Ingested' /\ Backed' /\ ClaimedOnce'
      /\ Drafted' /\ Filed' /\ Owned'
  BY DEF AskVerify, VerifyBegin, Mutex, Writing, Reading, Goroutines, Targeted, Ingested,
      Backed, Claims, ClaimedOnce, Drafted, Filed, Owned
<1> QED BY <1>1, <1>2

\* It meets stored findings only.
LEMMA VerifyPickStep ==
  ASSUME IInv, TypeOK', NEW v \in Verifiers, NEW k \in Keys, VerifyPick(v, k)
  PROVE  IInv'
<1> USE DEF IInv, TypeOK, memory, disk, world, Goto
<1>1. Checked'
  BY DEF VerifyPick, Checked, Check
<1>2. Mutex' /\ Targeted' /\ Ingested' /\ Backed' /\ ClaimedOnce'
      /\ Drafted' /\ Filed' /\ Owned'
  BY DEF VerifyPick, Mutex, Writing, Reading, Goroutines, Targeted, Ingested, Backed,
      Claims, ClaimedOnce, Drafted, Filed, Owned
<1> QED BY <1>1, <1>2

\* The finding written to is still stored, whatever was ingested meanwhile.
LEMMA VerifyDialedStep ==
  ASSUME IInv, TypeOK', NEW v \in Verifiers, NEW answer \in DialOutcomes,
         VerifyDialed(v, answer)
  PROVE  IInv'
<1> USE DEF IInv, TypeOK, memory, disk, world, Goto
<1>1. Stored(findings') = Stored(findings)
  BY DEF VerifyDialed, Checked, Stored, Finding
<1>2. /\ \A w \in Verifiers : /\ check'[w].todo = check[w].todo
                              /\ check'[w].key \subseteq check[w].key
      /\ pc' = [pc EXCEPT ![v] = "pick"]
      /\ UNCHANGED <<assets, runs, job, draft, file, cli>>
  BY DEF VerifyDialed, Check
<1>3. Mutex'
  BY <1>1, <1>2 DEF Mutex, Writing, Reading, Goroutines
<1>4. Targeted'
  BY <1>1, <1>2 DEF Targeted
<1>5. Ingested'
  BY <1>1, <1>2 DEF Ingested
<1>6. Backed'
  BY <1>1, <1>2 DEF Backed, Claims
<1>7. ClaimedOnce'
  BY <1>1, <1>2 DEF ClaimedOnce, Claims
<1>8. Checked'
  BY <1>1, <1>2 DEF Checked
<1>9. Drafted'
  BY <1>1, <1>2 DEF Drafted
<1>10. Filed'
  BY <1>1, <1>2 DEF Filed
<1>11. Owned'
  BY <1>1, <1>2 DEF Owned, HaveAssets
<1> QED BY <1>1, <1>2, <1>3, <1>4, <1>5, <1>6, <1>7, <1>8, <1>9, <1>10, <1>11

\* Nothing of the invariant moves.
LEMMA VerifyEndStep ==
  ASSUME IInv, TypeOK', NEW v \in Verifiers, VerifyEnd(v)
  PROVE  IInv'
<1> USE DEF IInv, TypeOK, memory, disk, world, Goto
<1>1. Mutex' /\ Targeted' /\ Ingested' /\ Backed' /\ ClaimedOnce'
      /\ Checked' /\ Drafted' /\ Filed' /\ Owned'
  BY DEF VerifyEnd, Mutex, Writing, Reading, Goroutines, Targeted, Ingested, Backed, Claims,
      ClaimedOnce, Checked, Drafted, Filed, Owned
<1> QED BY <1>1

\* The iteration is forgotten.
LEMMA VerifyReplyStep ==
  ASSUME IInv, TypeOK', NEW v \in Verifiers, VerifyReply(v)
  PROVE  IInv'
<1> USE DEF IInv, TypeOK, memory, disk, world, Goto
<1>1. Checked'
  BY DEF VerifyReply, Checked, NoCheck
<1>2. Mutex' /\ Targeted' /\ Ingested' /\ Backed' /\ ClaimedOnce'
      /\ Drafted' /\ Filed' /\ Owned'
  BY DEF VerifyReply, Mutex, Writing, Reading, Goroutines, Targeted, Ingested, Backed,
      Claims, ClaimedOnce, Drafted, Filed, Owned
<1> QED BY <1>1, <1>2

\* Everything is what a Save wrote, or nothing.
LEMMA RestartStep ==
  ASSUME IInv, TypeOK', Restart
  PROVE  IInv'
<1> USE DEF IInv, TypeOK, memory, disk, world, Goto
<1>1. /\ assets' = Load.assets /\ findings' = Load.findings /\ runs' = Load.runs
      /\ job' = [s \in Scans |-> NoJob] /\ check' = [v \in Verifiers |-> NoCheck]
      /\ draft' = [g \in Goroutines |-> NoSnapshot] /\ UNCHANGED <<file, cli>>
      /\ \A g \in Goroutines : pc'[g] \in {"idle", "done"}
  BY DEF Restart
<1>2. LedgerAgrees(Load.findings, Load.runs) /\ HaveAssets(Load.findings, Load.assets)
  BY LoadAgrees DEF DocumentAgrees
<1>3. Backed' /\ ClaimedOnce' /\ Owned' /\ Filed'
  <2>1. \A s \in Scans : Claims(s)' = Load.runs[s].diff.new /\ runs'[s] = Load.runs[s]
    BY <1>1 DEF Claims, NoJob, NoDiff
  <2>2. Backed' /\ ClaimedOnce'
    BY <1>1, <1>2, <2>1 DEF Backed, ClaimedOnce, LedgerAgrees
  <2> QED BY <1>1, <1>2, <2>2 DEF Owned, Filed
<1>4. Mutex' /\ Targeted' /\ Ingested' /\ Checked' /\ Drafted'
  <2>1. Mutex' /\ Targeted' /\ Ingested' /\ Checked'
    BY <1>1 DEF Mutex, Writing, Reading, Goroutines, Targeted, Ingested, Checked, NoJob, NoCheck
  <2> QED BY <1>1, <2>1, EmptyAgrees DEF Drafted, DocumentAgrees
<1> QED BY <1>1, <1>2, <1>3, <1>4

-----------------------------------------------------------------------------
(* The theorems.                                                            *)

\* An empty store satisfies the invariant, with or without a readable file.
LEMMA InitInvariant == Init => IInv
<1> SUFFICES ASSUME Init PROVE IInv
  OBVIOUS
<1>1. TypeOK
  BY Blanks, FileAssumption DEF Init, TypeOK, Places, Goroutines, File
<1>2. Mutex /\ Targeted /\ Ingested /\ Checked
  BY DEF Init, Mutex, Writing, Goroutines, Targeted, Ingested, Checked, NoJob, NoCheck
<1>3. Backed /\ ClaimedOnce /\ Owned
  BY Blanks DEF Init, Backed, ClaimedOnce, Claims, Owned, HaveAssets, NoJob, NoRun, NoDiff
<1>4. Drafted /\ Filed
  BY EmptyAgrees DEF Init, Drafted, Filed, DocumentAgrees, NoCli
<1> QED BY <1>1, <1>2, <1>3, <1>4 DEF IInv

\* Every step of every goroutine, and every restart, preserves it.
LEMMA InvariantStep == IInv /\ [Next]_vars => IInv'
<1> SUFFICES ASSUME IInv, [Next]_vars PROVE IInv'
  OBVIOUS
<1>1. CASE Next
  <2>1. TypeOK'
    BY <1>1, TypeStep DEF IInv
  <2>2. ASSUME NEW s \in Scans, NEW r \in Requests, Submit(s, r) PROVE IInv'
    BY <2>1, <2>2, SubmitStep
  <2>3. ASSUME NEW s \in Scans, Authorize(s) PROVE IInv'
    BY <2>1, <2>3, AuthorizeStep
  <2>4. ASSUME NEW s \in Scans, Reject(s) PROVE IInv'
    BY <2>1, <2>4, RejectStep
  <2>5. ASSUME NEW s \in Scans, RecordAsset(s) PROVE IInv'
    BY <2>1, <2>5, RecordAssetStep
  <2>6. ASSUME NEW s \in Scans, IngestLock(s) PROVE IInv'
    BY <2>1, <2>6, IngestLockStep
  <2>7. ASSUME NEW s \in Scans, IngestTurn(s) PROVE IInv'
    BY <2>1, <2>7, IngestTurnStep
  <2>8. ASSUME NEW s \in Scans, IngestUnlock(s) PROVE IInv'
    BY <2>1, <2>8, IngestUnlockStep
  <2>9. ASSUME NEW s \in Scans, RecordDiff(s) PROVE IInv'
    BY <2>1, <2>9, RecordDiffStep
  <2>10. ASSUME NEW s \in Scans, GroupFindings(s) PROVE IInv'
    BY <2>1, <2>10, GroupFindingsStep
  <2>11. ASSUME NEW s \in Scans, PublishItems(s) PROVE IInv'
    BY <2>1, <2>11, PublishItemsStep
  <2>12. ASSUME NEW s \in Scans, Finish(s) PROVE IInv'
    BY <2>1, <2>12, FinishStep
  <2>13. ASSUME NEW s \in Scans, NEW R \in SUBSET job[s].cover, ProbeTarget(s, R) PROVE IInv'
    BY <2>1, <2>13, ProbeTargetStep
  <2>14. ASSUME NEW s \in Scans, NEW ok \in BOOLEAN, InspectHost(s, ok) PROVE IInv'
    BY <2>1, <2>14, InspectHostStep
  <2>15. ASSUME NEW s \in Scans, NEW D \in SUBSET job[s].examined, Evaluate(s, D) PROVE IInv'
    BY <2>1, <2>15, EvaluateStep
  <2>16. ASSUME NEW s \in Scans, NEW k \in Keys, IngestSeen(s, k) PROVE IInv'
    BY <2>1, <2>16, IngestSeenStep
  <2>17. ASSUME NEW s \in Scans, NEW k \in Keys, IngestMissing(s, k) PROVE IInv'
    BY <2>1, <2>17, IngestMissingStep
  <2>18. ASSUME NEW g \in Goroutines, SaveNothing(g) PROVE IInv'
    BY <2>1, <2>18, SaveNothingStep
  <2>19. ASSUME NEW g \in Goroutines, MarshalFindings(g) PROVE IInv'
    BY <2>1, <2>19, MarshalFindingsStep
  <2>20. ASSUME NEW g \in Goroutines, MarshalRest(g) PROVE IInv'
    BY <2>1, <2>20, MarshalRestStep
  <2>21. ASSUME NEW g \in Goroutines, Truncate(g) PROVE IInv'
    BY <2>1, <2>21, TruncateStep
  <2>22. ASSUME NEW g \in Goroutines, WriteFile(g) PROVE IInv'
    BY <2>1, <2>22, WriteFileStep
  <2>23. ASSUME NEW k \in Keys, NEW st \in TriageStates, Triage(k, st) PROVE IInv'
    BY <2>1, <2>23, TriageStep
  <2>24. ASSUME NEW v \in Verifiers, AskVerify(v) PROVE IInv'
    BY <2>1, <2>24, AskVerifyStep
  <2>25. ASSUME NEW v \in Verifiers, NEW k \in Keys, VerifyPick(v, k) PROVE IInv'
    BY <2>1, <2>25, VerifyPickStep
  <2>26. ASSUME NEW v \in Verifiers, NEW answer \in DialOutcomes,
                VerifyDialed(v, answer)
         PROVE  IInv'
    BY <2>1, <2>26, VerifyDialedStep
  <2>27. ASSUME NEW v \in Verifiers, VerifyEnd(v) PROVE IInv'
    BY <2>1, <2>27, VerifyEndStep
  <2>28. ASSUME NEW v \in Verifiers, VerifyReply(v) PROVE IInv'
    BY <2>1, <2>28, VerifyReplyStep
  <2>29. ASSUME Tick PROVE IInv'
    BY <2>1, <2>29 DEF Tick, memory, disk, world, IInv, Mutex, Writing, Reading, Targeted,
        Ingested,
                     Backed, ClaimedOnce, Claims, Checked, Drafted, Filed, Owned
  <2>30. ASSUME Restart PROVE IInv'
    BY <2>1, <2>30, RestartStep
  <2>31. ASSUME NEW s \in Scans, Hang(s) PROVE IInv'
    BY <2>1, <2>31, HangStep
  <2>32. ASSUME NEW g \in Goroutines, SaveFails(g) PROVE IInv'
    BY <2>1, <2>32, SaveFailsStep
  <2>33. ASSUME CliOpen PROVE IInv'
    BY <2>1, <2>33, CliOpenStep
  <2>34. ASSUME NEW r \in CliRequests, NEW D \in SUBSET Keys, CliScan(r, D) PROVE IInv'
    BY <2>1, <2>34, CliScanStep
  <2>35. ASSUME CliQuit PROVE IInv'
    BY <2>1, <2>35, CliQuitStep
  <2>36. ASSUME CliTruncate PROVE IInv'
    BY <2>1, <2>36, CliTruncateStep
  <2>37. ASSUME CliWrite PROVE IInv'
    BY <2>1, <2>37, CliWriteStep
  <2> QED
    BY <1>1, <2>2, <2>3, <2>4, <2>5, <2>6, <2>7, <2>8, <2>9, <2>10, <2>11, <2>12, <2>13,
        <2>14, <2>15, <2>16, <2>17, <2>18, <2>19, <2>20, <2>21, <2>22, <2>23, <2>24, <2>25,
        <2>26, <2>27, <2>28, <2>29, <2>30, <2>31, <2>32, <2>33, <2>34, <2>35, <2>36, <2>37
    DEF Next, Scan, Ingest, Save, Verify, CommandLine, Goroutines
<1>2. CASE UNCHANGED vars
  BY <1>2 DEF IInv, vars, TypeOK, Mutex, Writing, Reading, Targeted, Ingested, Backed,
      ClaimedOnce,
              Claims, Checked, Drafted, Filed, Owned
<1> QED BY <1>1, <1>2

\* The invariant holds in every state the server can reach.
THEOREM Invariant == Safety => []IInv
BY InitInvariant, InvariantStep, PTL DEF Safety

\* Type correctness of the control plane: every handler, every step of a scan
\* and every restart keeps the store, the runs and the file well formed.
THEOREM TypeCorrect == Safety => []TypeOK
<1>1. IInv => TypeOK
  BY DEF IInv
<1> QED BY <1>1, Invariant, PTL

\* IngestScanFindings under store.mu and run.Diff under s.mu, verification
\* rescans, triage and restarts in any order: every finding a run reports is
\* stored, and no two runs report the same finding as NEW.
THEOREM MemoryAgreement == Safety => []MemoryAgrees
<1>1. IInv => MemoryAgrees
  BY DEF IInv, Backed, ClaimedOnce, Claims, MemoryAgrees, LedgerAgrees
<1> QED BY <1>1, Invariant, PTL

\* The same of every data file Save leaves, though it reads the runs without
\* the lock that guards them.
THEOREM FileAgreement == Safety => []FileAgrees
<1>1. IInv => FileAgrees
  BY DEF IInv, Filed, DocumentAgrees, FileAgrees
<1> QED BY <1>1, Invariant, PTL

\* UpsertAsset precedes IngestScanFindings: no finding is without its asset, in
\* memory, in any data file, or after any restart.
THEOREM FindingsOwned == Safety => []FindingsHaveAssets
<1>1. IInv => FindingsHaveAssets
  BY DEF IInv, Owned, Filed, DocumentAgrees, HaveAssets, FindingsHaveAssets
<1> QED BY <1>1, Invariant, PTL

-----------------------------------------------------------------------------
(* What the end of a run and the reply to a verification rest on, fairness  *)
(* apart: no step of a goroutine comes back to where it was, and nobody     *)
(* else's step sends it back.                                               *)

Stage == [idle |-> 0, scope |-> 1, probe |-> 2, inspect |-> 3, asset |-> 4, evaluate |-> 5,
          ingest |-> 6, seen |-> 7, missing |-> 8, record |-> 9, group |-> 10, publish |-> 11,
          dial |-> 11, pick |-> 12, finish |-> 12, save |-> 13, rest |-> 14, truncate |-> 15,
          write |-> 16, reply |-> 17, hung |-> 17, done |-> 18]

\* The scan enters a later stage, or takes a finding off the list of its loop.
Onward(s) ==
  \/ Stage[pc'[s]] > Stage[pc[s]]
  \/ pc'[s] = pc[s] /\ \E k \in job[s].todo : job'[s].todo = job[s].todo \ {k}

\* What the iteration of a verification may still meet: what it has on its list
\* and what may be inserted under it.
Left(v) == check[v].todo \cup (Keys \ check[v].known)

\* Each turn of the iteration has less before it; between two turns there is one
\* dial; after the last, the Save and the reply.
OnwardTo(v) ==
  \/ \E k \in Left(v) : Left(v)' = Left(v) \ {k}
  \/ Left(v)' = Left(v) /\ Stage[pc'[v]] > Stage[pc[v]]
  \/ pc[v] = "reply" /\ pc'[v] = "idle"

\* What is on the list of a verification is among what it has counted as known.
Known == \A v \in Verifiers : check[v].todo \subseteq check[v].known

\* The goroutine of a scan is over, or about to save, only when its run has ended.
Over == crashes = 0 =>
  \A s \in Scans : pc[s] \in {"save", "rest", "truncate", "write", "done"} => Ended(s)

\* No step adds to the list of a verification what it has met.
LEMMA KnownStep == IInv /\ Known /\ [Next]_vars => Known'
<1> SUFFICES ASSUME IInv, Known, [Next]_vars, NEW v \in Verifiers
             PROVE  check'[v].todo \subseteq check'[v].known
  BY DEF Known
<1>1. check \in [Verifiers -> Check]
  BY DEF IInv, TypeOK
<1>2. ASSUME NEW w \in Verifiers, AskVerify(w) PROVE check'[v].todo \subseteq check'[v].known
  BY <1>1, <1>2 DEF AskVerify, VerifyBegin, Known
<1>3. ASSUME NEW w \in Verifiers, NEW k \in Keys, VerifyPick(w, k)
      PROVE  check'[v].todo \subseteq check'[v].known
  BY <1>1, <1>3 DEF VerifyPick, Known, Check
<1>4. ASSUME NEW w \in Verifiers, NEW a, VerifyDialed(w, a)
      PROVE  check'[v].todo \subseteq check'[v].known
  BY <1>1, <1>4 DEF VerifyDialed, Known, Check
<1>5. ASSUME NEW w \in Verifiers, VerifyReply(w) PROVE check'[v].todo \subseteq check'[v].known
  BY <1>1, <1>5 DEF VerifyReply, Known, NoCheck
<1>6. CASE Restart
  BY <1>6 DEF Restart, NoCheck
<1>7. CASE UNCHANGED check
  BY <1>7 DEF Known
<1>8. ASSUME NEW g \in Goroutines, Save(g) PROVE UNCHANGED check
  BY <1>8 DEF Save, SaveNothing, MarshalFindings, MarshalRest, Truncate, WriteFile, SaveFails
<1>9. ASSUME NEW s \in Scans, Scan(s) \/ Hang(s) \/ \E r \in Requests : Submit(s, r)
      PROVE  UNCHANGED check
  BY <1>8, <1>9
  DEF Scan, Hang, Submit, Authorize, Reject, ProbeTarget, InspectHost, RecordAsset, Evaluate,
      Ingest, IngestLock, IngestSeen, IngestTurn, IngestMissing, IngestUnlock, RecordDiff,
      GroupFindings, PublishItems, Finish, Goroutines
<1>10. ASSUME NEW w \in Verifiers, Verify(w) PROVE check'[v].todo \subseteq check'[v].known
  BY <1>3, <1>4, <1>5, <1>7, <1>8, <1>10 DEF Verify, VerifyEnd, Goroutines
<1>11. CASE \/ \E k \in Keys, st \in TriageStates : Triage(k, st)
            \/ CommandLine \/ Tick \/ UNCHANGED vars
  BY <1>7, <1>11 DEF Triage, CommandLine, CliOpen, CliScan, CliQuit, CliTruncate, CliWrite, Tick, vars
<1> QED
  BY <1>2, <1>6, <1>7, <1>9, <1>10, <1>11 DEF Next

\* What a goroutine that goes on leaves and reaches, and that the others stay.
LEMMA Goes ==
  ASSUME IInv, NEW g \in Goroutines, NEW from, NEW to, Goto(g, from, to)
  PROVE  pc[g] = from /\ pc'[g] = to /\ \A h \in Goroutines : h # g => pc'[h] = pc[h]
BY DEF IInv, TypeOK, Goto

\* A step of Save is one stage further, whoever takes it, and what it iterates
\* over is not touched.
LEMMA SaveAdvances ==
  ASSUME IInv, NEW g \in Goroutines, Save(g)
  PROVE  /\ Stage[pc'[g]] > Stage[pc[g]] /\ pc[g] \in {"save", "rest", "truncate", "write"}
         /\ UNCHANGED <<job, check, runs, crashes>>
         /\ \A h \in Goroutines : h # g => pc'[h] = pc[h]
<1>1. AfterSave(g) \in {"reply", "done"}
  BY DEF AfterSave
<1>2. PICK from \in {"save", "rest", "truncate", "write"},
           to \in {"rest", "truncate", "write", "reply", "done"} :
             Goto(g, from, to) /\ Stage[to] > Stage[from]
  BY <1>1 DEF Save, SaveNothing, MarshalFindings, MarshalRest, Truncate, WriteFile, SaveFails, Stage
<1>3. UNCHANGED <<job, check, runs, crashes>>
  BY DEF Save, SaveNothing, MarshalFindings, MarshalRest, Truncate, WriteFile, SaveFails,
     memory, disk, world
<1> QED
  BY <1>2, <1>3, Goes

\* Every other step of a scan is a stage further or one finding of a loop.
LEMMA ScanAdvances == ASSUME IInv, NEW s \in Scans, Scan(s) PROVE Onward(s)
<1>1. s \in Goroutines /\ job \in [Scans -> Job]
  BY DEF Goroutines, IInv, TypeOK
<1>2. ASSUME NEW k \in Keys, IngestSeen(s, k) \/ IngestMissing(s, k) PROVE Onward(s)
  BY <1>1, <1>2 DEF IngestSeen, IngestMissing, Onward, Job
<1>3. ASSUME NEW from, NEW to, Goto(s, from, to), Stage[to] > Stage[from] PROVE Onward(s)
  BY <1>1, <1>3, Goes DEF Onward
<1>4. CASE Authorize(s) \/ Reject(s) \/ RecordAsset(s)
  BY <1>3, <1>4 DEF Authorize, Reject, RecordAsset, Stage
<1>5. ASSUME NEW x, ProbeTarget(s, x) \/ InspectHost(s, x) \/ Evaluate(s, x) PROVE Onward(s)
  BY <1>3, <1>5 DEF ProbeTarget, InspectHost, Evaluate, Stage
<1>6. CASE IngestLock(s) \/ IngestTurn(s) \/ IngestUnlock(s)
  BY <1>3, <1>6 DEF IngestLock, IngestTurn, IngestUnlock, Stage
<1>7. CASE RecordDiff(s) \/ GroupFindings(s) \/ PublishItems(s) \/ Finish(s)
  BY <1>3, <1>7 DEF RecordDiff, GroupFindings, PublishItems, Finish, Stage
<1>8. CASE Save(s)
  BY <1>1, <1>8, SaveAdvances DEF Onward
<1> QED
  BY <1>2, <1>4, <1>5, <1>6, <1>7, <1>8 DEF Scan, Ingest

\* Nor does a step of anybody else, a restart included, send a scan back.
LEMMA ScanStays ==
  ASSUME IInv, Next, NEW s \in Scans, ~Scan(s)
  PROVE  Onward(s) \/ (pc'[s] = pc[s] /\ job'[s].todo \subseteq job[s].todo)
<1>1. s \in Goroutines /\ job \in [Scans -> Job] /\ pc \in [Goroutines -> Places]
      /\ Scans \cap Verifiers = {}
  BY ActorsAssumption DEF Goroutines, IInv, TypeOK
<1>2. CASE Hang(s) \/ \E r \in Requests : Submit(s, r)
  <2>1. Goto(s, "probe", "hung") \/ Goto(s, "inspect", "hung") \/ Goto(s, "idle", "scope")
    BY <1>2 DEF Hang, Submit
  <2>2. /\ Stage["hung"] > Stage["probe"] /\ Stage["hung"] > Stage["inspect"]
        /\ Stage["scope"] > Stage["idle"]
    BY DEF Stage
  <2> QED
    BY <1>1, <2>1, <2>2, Goes DEF Onward
<1>3. CASE Restart
  <2>1. pc'[s] = IF pc[s] = "idle" THEN "idle" ELSE "done"
    BY <1>1, <1>3 DEF Restart
  <2>2. job'[s].todo = {}
    BY <1>3 DEF Restart, NoJob
  <2>3. \A p \in Places : p = "done" \/ Stage["done"] > Stage[p]
    BY DEF Places, Stage
  <2>4. pc[s] \in Places
    BY <1>1
  <2> QED
    BY <2>1, <2>2, <2>3, <2>4 DEF Onward
<1>4. ASSUME NEW t \in Scans, t # s, Hang(t) \/ \E r \in Requests : Submit(t, r)
      PROVE  pc'[s] = pc[s] /\ job'[s] = job[s]
  BY <1>1, <1>4 DEF Hang, Submit, Goto
<1>5. ASSUME NEW t \in Scans, t # s, Scan(t) PROVE pc'[s] = pc[s] /\ job'[s] = job[s]
  <2>1. CASE Save(t)
    BY <1>1, <1>5, <2>1, SaveAdvances DEF Goroutines
  <2> QED
    BY <1>1, <1>5, <2>1 DEF Scan, Authorize, Reject, ProbeTarget, InspectHost, RecordAsset, Evaluate,
       Ingest, IngestLock, IngestSeen, IngestTurn, IngestMissing, IngestUnlock, RecordDiff,
       GroupFindings, PublishItems, Finish, Goto
<1>6. ASSUME NEW v \in Verifiers, Verify(v) \/ AskVerify(v) PROVE pc'[s] = pc[s] /\ job' = job
  <2>1. CASE Save(v)
    BY <1>1, <1>6, <2>1, SaveAdvances DEF Goroutines
  <2> QED
    BY <1>1, <1>6, <2>1 DEF Verify, AskVerify, VerifyBegin, VerifyPick, VerifyDialed, VerifyEnd,
       VerifyReply, Goto
<1>7. CASE UNCHANGED <<pc, job>>
  BY <1>7
<1> QED
  BY <1>2, <1>3, <1>4, <1>5, <1>6, <1>7 DEF Next, Triage, CommandLine, CliOpen, CliScan, CliQuit,
     CliTruncate, CliWrite, Tick

\* Every step of a verification has less before it.
LEMMA VerifyAdvances == ASSUME IInv, Known, NEW v \in Verifiers, Verify(v) PROVE OnwardTo(v)
<1>1. /\ v \in Goroutines /\ check \in [Verifiers -> Check]
      /\ check[v].todo \subseteq Keys /\ check[v].known \subseteq Keys
  BY DEF Goroutines, IInv, TypeOK, Check
<1>2. ASSUME NEW k \in Keys, VerifyPick(v, k) PROVE OnwardTo(v)
  <2>1. k \in check[v].todo \cup (Stored(findings) \ check[v].known)
    BY <1>2 DEF VerifyPick
  <2>2. check'[v].todo = check[v].todo \ {k} /\ check'[v].known = check[v].known \cup {k}
    BY <1>1, <1>2 DEF VerifyPick, Check
  <2>3. k \in Left(v)
    BY <2>1 DEF Left
  <2>4. Left(v)' = Left(v) \ {k}
    BY <2>2 DEF Left
  <2> QED
    BY <2>3, <2>4 DEF OnwardTo
<1>3. ASSUME NEW from, NEW to, Goto(v, from, to), Stage[to] > Stage[from],
             check'[v].todo = check[v].todo, check'[v].known = check[v].known
      PROVE  OnwardTo(v)
  BY <1>1, <1>3, Goes DEF OnwardTo, Left
<1>4. ASSUME NEW a, VerifyDialed(v, a) PROVE OnwardTo(v)
  BY <1>1, <1>3, <1>4 DEF VerifyDialed, Check, Stage
<1>5. CASE VerifyEnd(v)
  BY <1>1, <1>3, <1>5 DEF VerifyEnd, Stage
<1>6. CASE VerifyReply(v)
  BY <1>1, <1>6, Goes DEF VerifyReply, OnwardTo
<1>7. CASE Save(v)
  BY <1>1, <1>7, SaveAdvances DEF OnwardTo, Left
<1> QED
  BY <1>2, <1>4, <1>5, <1>6, <1>7 DEF Verify

\* Nobody else moves a verification that is under way, but a restart that ends it.
LEMMA VerifyStays ==
  ASSUME IInv, Next, NEW v \in Verifiers, ~Verify(v), pc[v] # "idle"
  PROVE  pc'[v] = "idle" \/ (pc'[v] = pc[v] /\ check'[v] = check[v])
<1>1. /\ v \in Goroutines /\ v \notin Scans
      /\ check \in [Verifiers -> Check] /\ pc \in [Goroutines -> Places]
  BY ActorsAssumption DEF Goroutines, IInv, TypeOK
<1>2. CASE Restart
  BY <1>1, <1>2 DEF Restart
<1>3. ASSUME NEW g \in Goroutines, g # v, Save(g) PROVE pc'[v] = pc[v] /\ check'[v] = check[v]
  BY <1>1, <1>3, SaveAdvances
<1>4. ASSUME NEW s \in Scans, Scan(s) \/ Hang(s) \/ \E r \in Requests : Submit(s, r)
      PROVE  pc'[v] = pc[v] /\ check'[v] = check[v]
  <2>1. s \in Goroutines /\ s # v
    BY <1>1 DEF Goroutines
  <2>2. CASE Save(s)
    BY <1>3, <2>1, <2>2
  <2>3. CASE ~Save(s)
    BY <1>1, <1>4, <2>1, <2>3
    DEF Scan, Hang, Submit, Authorize, Reject, ProbeTarget, InspectHost, RecordAsset, Evaluate,
        Ingest, IngestLock, IngestSeen, IngestTurn, IngestMissing, IngestUnlock, RecordDiff,
        GroupFindings, PublishItems, Finish, Goto
  <2> QED
    BY <2>2, <2>3
<1>5. ASSUME NEW w \in Verifiers, w # v, Verify(w) PROVE pc'[v] = pc[v] /\ check'[v] = check[v]
  <2>1. w \in Goroutines
    BY DEF Goroutines
  <2>2. CASE Save(w)
    BY <1>3, <1>5, <2>1, <2>2
  <2>3. CASE ~Save(w)
    BY <1>1, <1>5, <2>1, <2>3 DEF Verify, VerifyPick, VerifyDialed, VerifyEnd, VerifyReply, Goto
  <2> QED
    BY <2>2, <2>3
<1>6. ASSUME NEW w \in Verifiers, AskVerify(w) PROVE pc'[v] = pc[v] /\ check'[v] = check[v]
  BY <1>1, <1>6 DEF AskVerify, VerifyBegin, Goto
<1>7. CASE UNCHANGED <<pc, check>>
  BY <1>7
<1> QED
  BY <1>2, <1>4, <1>5, <1>6, <1>7 DEF Next, Triage, CommandLine, CliOpen, CliScan, CliQuit,
     CliTruncate, CliWrite, Tick

\* Only the deferred function leads a scan to its Save, and it ends the run.
LEMMA OverStep == IInv /\ Over /\ [Next]_vars => Over'
<1> DEFINE Late == {"save", "rest", "truncate", "write", "done"}
<1> SUFFICES ASSUME IInv, Over, [Next]_vars, crashes' = 0, NEW s \in Scans, pc'[s] \in Late
             PROVE  Ended(s)'
  BY DEF Over
<1>1. s \in Goroutines /\ s \notin Verifiers /\ runs \in [Scans -> Run]
      /\ pc \in [Goroutines -> Places] /\ crashes \in Nat
  BY ActorsAssumption DEF Goroutines, IInv, TypeOK
<1>2. CASE Restart
  BY <1>1, <1>2 DEF Restart
<1>3. CASE crashes' = crashes /\ pc[s] \in Late /\ runs'[s] = runs[s]
  BY <1>3 DEF Over, Ended
<1>4. CASE Finish(s)
  <2>1. runs[s].status \in {"none", "running", "failed", "completed"}
    BY <1>1 DEF Run
  <2>2. runs'[s] = [runs[s] EXCEPT !.status = IF @ = "failed" THEN @ ELSE "completed"]
    BY <1>1, <1>4 DEF Finish
  <2>3. runs'[s].status \in {"failed", "completed"}
    BY <1>1, <2>1, <2>2 DEF Run
  <2> QED
    BY <2>3 DEF Ended
<1>5. ASSUME NEW from, NEW to, Goto(s, from, to), to \notin Late PROVE FALSE
  BY <1>1, <1>5, Goes
<1>6. ASSUME NEW k \in Keys, IngestSeen(s, k) \/ IngestMissing(s, k) PROVE FALSE
  BY <1>1, <1>6 DEF IngestSeen, IngestMissing
<1>7. CASE Scan(s) \/ Hang(s) \/ \E r \in Requests : Submit(s, r)
  <2>1. CASE Save(s)
    <3>1. runs' = runs /\ crashes' = crashes /\ pc[s] \in Late
      BY <1>1, <2>1, SaveAdvances
    <3> QED
      BY <1>3, <3>1
  <2>2. CASE ~Save(s) /\ ~Finish(s)
    BY <1>5, <1>6, <1>7, <2>2
    DEF Scan, Hang, Submit, Authorize, Reject, ProbeTarget, InspectHost, RecordAsset, Evaluate,
        Ingest, IngestLock, IngestTurn, IngestUnlock, RecordDiff, GroupFindings, PublishItems
  <2> QED
    BY <1>4, <2>1, <2>2
<1>8. ASSUME NEW g \in Goroutines, g # s, Save(g)
      PROVE  pc'[s] = pc[s] /\ runs' = runs /\ crashes' = crashes
  BY <1>1, <1>8, SaveAdvances
<1>9. ASSUME NEW t \in Scans, t # s, Scan(t) \/ Hang(t) \/ \E r \in Requests : Submit(t, r)
      PROVE  pc'[s] = pc[s] /\ runs'[s] = runs[s] /\ crashes' = crashes
  BY <1>1, <1>8, <1>9
  DEF Scan, Hang, Submit, Authorize, Reject, ProbeTarget, InspectHost, RecordAsset, Evaluate,
      Ingest, IngestLock, IngestSeen, IngestTurn, IngestMissing, IngestUnlock, RecordDiff,
      GroupFindings, PublishItems, Finish, Goroutines, Goto, memory, world
<1>10. ASSUME NEW v \in Verifiers, Verify(v) \/ AskVerify(v)
       PROVE  pc'[s] = pc[s] /\ runs' = runs /\ crashes' = crashes
  BY <1>1, <1>8, <1>10 DEF Verify, AskVerify, VerifyBegin, VerifyPick, VerifyDialed, VerifyEnd,
     VerifyReply, Goroutines, Goto, memory, world
<1>11. CASE \/ \E k \in Keys, st \in TriageStates : Triage(k, st)
            \/ CommandLine \/ Tick \/ UNCHANGED vars
  <2>1. UNCHANGED <<pc, runs, crashes>>
    BY <1>11 DEF Triage, CommandLine, CliOpen, CliScan, CliQuit, CliTruncate, CliWrite, Tick, vars,
       memory, world
  <2> QED
    BY <1>3, <2>1
<1> QED
  BY <1>2, <1>3, <1>7, <1>9, <1>10, <1>11 DEF Next

\* executeScan enters a later stage with every step, or has one finding less to
\* ingest; nobody else's step sends it back, and a restart ends it.  What
\* is left to the liveness of EveryRunEnds is that each scan can go on and does.
THEOREM ScansAdvance ==
  Safety => [][\A s \in Scans :
                 /\ Scan(s) => Onward(s)
                 /\ Onward(s) \/ (pc'[s] = pc[s] /\ job'[s].todo \subseteq job[s].todo)]_vars
<1>1. ASSUME IInv, Next, NEW s \in Scans
      PROVE  /\ Scan(s) => Onward(s)
             /\ Onward(s) \/ (pc'[s] = pc[s] /\ job'[s].todo \subseteq job[s].todo)
  BY <1>1, ScanAdvances, ScanStays
<1> DEFINE Advance == \A s \in Scans :
             /\ Scan(s) => Onward(s)
             /\ Onward(s) \/ (pc'[s] = pc[s] /\ job'[s].todo \subseteq job[s].todo)
<1>2. IInv /\ Next => Advance
  BY <1>1
<1>3. IInv /\ [Next]_vars => [Advance]_vars
  BY <1>2
<1> QED
  BY <1>3, Invariant, PTL DEF Safety

\* The map handleVerificationRescan iterates over grows under it, as scans insert
\* findings: still each turn leaves it less to meet, for every finding counts
\* once, and nobody else moves it but a restart that ends it.
THEOREM RescansAdvance ==
  Safety => [][\A v \in Verifiers :
                 /\ Verify(v) => OnwardTo(v)
                 /\ pc[v] # "idle" => \/ OnwardTo(v) \/ pc'[v] = "idle"
                                      \/ (pc'[v] = pc[v] /\ check'[v] = check[v])]_vars
<1> DEFINE Advance == \A v \in Verifiers :
             /\ Verify(v) => OnwardTo(v)
             /\ pc[v] # "idle" => \/ OnwardTo(v) \/ pc'[v] = "idle"
                                  \/ (pc'[v] = pc[v] /\ check'[v] = check[v])
<1>1. Init => Known
  BY DEF Init, Known, NoCheck
<1>2. IInv /\ Known /\ Next => Advance
  BY VerifyAdvances, VerifyStays
<1>3. IInv /\ Known /\ [Next]_vars => [Advance]_vars
  BY <1>2
<1> QED
  BY <1>1, <1>3, KnownStep, Invariant, PTL DEF Safety

\* Until a restart, no goroutine of a scan comes to its end, by whatever return
\* of executeScan, with its run still "running".
THEOREM NoRunIsLeftRunning == Safety => [](crashes = 0 => \A s \in Scans : pc[s] = "done" => Ended(s))
<1>1. Init => Over
  BY ActorsAssumption DEF Init, Over, Goroutines
<1>2. Over => (crashes = 0 => \A s \in Scans : pc[s] = "done" => Ended(s))
  BY DEF Over
<1> QED
  BY <1>1, <1>2, OverStep, Invariant, PTL DEF Safety
=============================================================================
