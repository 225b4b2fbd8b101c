----------------------------- MODULE ScanServer ------------------------------
(***************************************************************************)
(* The control plane (pkg/server/server.go) over its store                 *)
(* (pkg/storage/storage.go): one goroutine per accepted scan, verification *)
(* rescans, triage, and the JSON file the store saves to and is loaded     *)
(* from, which a scan from the command line (cmd/sieve/main.go) opens too. *)
(* Two locks: s.mu guards the scan runs, store.mu the findings, and no     *)
(* code path guards everything it touches with one of them.                *)
(*                                                                         *)
(* Where a goroutine stands says which locks it holds across steps:        *)
(* IngestScanFindings holds store.mu for writing ("seen", "missing"), Save *)
(* holds it for reading ("rest", "truncate", "write"), a verification      *)
(* rescan holds s.mu from its first line to its reply.                     *)
(***************************************************************************)
EXTENDS FindingStore, FiniteSets

CONSTANTS Scans,         \* goroutines running executeScan, one per accepted POST
          Verifiers,     \* goroutines running handleVerificationRescan
          Requests,      \* scan requests: target, keys the port list covers, SSH user given?
          CredKeys,      \* findings only a credentialed collection can detect
          CliRequests,   \* what `sieve scan` may be asked for; {} : it is not run
          DiskMayFail,   \* can a write to the data file fail?
          DialOutcomes,  \* what a verification's dial may meet
          FileAtStart,   \* "none", or "torn": a data file the first start cannot read
          MaxClock,      \* bound: seconds that pass
          MaxCrashes     \* bound: restarts of the process

ASSUME ActorsAssumption == Scans \cap Verifiers = {} /\ Assets # {}
ASSUME RequestsAssumption ==
  \A r \in Requests : /\ r.target \in Assets /\ r.ssh \in BOOLEAN
                      /\ r.cover \in SUBSET {k \in Keys : AssetOf[k] = r.target}
ASSUME CliAssumption == CliRequests \subseteq Requests /\ DiskMayFail \in BOOLEAN
ASSUME DialAssumption == DialOutcomes \subseteq {"accepted", "refused", "silent"}
ASSUME FileAssumption == FileAtStart \in {"none", "torn"}
ASSUME BoundsAssumption == MaxClock \in Nat /\ MaxCrashes \in Nat

VARIABLES assets, findings, items, runs,  \* the maps of the Store; runs: slot -> run object
          listed,      \* the slots whose run object is the one in Store.ScanRuns
          pc,          \* goroutine -> where it stands
          job,         \* scan -> locals of executeScan
          check,       \* verifier -> locals of handleVerificationRescan
          draft,       \* goroutine -> what its Save has marshalled so far
          file,        \* the data file
          memoryOnly,  \* the store was opened without a file
          cli,         \* the process of a command-line scan
          clock,       \* time.Now().Unix()
          crashes      \* restarts so far

memory == <<assets, findings, items, runs, listed>>
disk   == <<file, memoryOnly>>
world  == <<cli, clock, crashes>>
vars == <<assets, findings, items, runs, listed, pc, job, check, draft, file,
          memoryOnly, cli, clock, crashes>>

Places == {"idle", "scope", "probe", "inspect", "asset", "evaluate", "ingest", "seen",
           "missing", "record", "group", "publish", "finish", "pick", "dial",
           "save", "rest", "truncate", "write", "reply", "done", "hung"}

Goroutines == Scans \cup Verifiers

\* examined: the findings whose service answered and whose facts were collected.
Job == [target : Assets, cover : SUBSET Keys, ssh : BOOLEAN, examined : SUBSET Keys,
        detected : SUBSET Keys, todo : SUBSET Keys, diff : Diff, stamp : Nat]
NoJob == [target |-> CHOOSE a \in Assets : TRUE, cover |-> {}, ssh |-> FALSE,
          examined |-> {}, detected |-> {}, todo |-> {}, diff |-> NoDiff, stamp |-> 0]

Check == [filter : [item : ItemIds \cup {NoItem}, keys : SUBSET Keys],
          todo : SUBSET Keys, known : SUBSET Keys, key : SUBSET Keys]
NoFilter == [item |-> NoItem, keys |-> Keys]
NoCheck == [filter |-> NoFilter, todo |-> {}, known |-> {}, key |-> {}]

Snapshot == [assets : SUBSET Assets, findings : [Keys -> Finding], items : SUBSET Item,
             runs : [Scans -> Run]]
NoSnapshot == [assets |-> {}, findings |-> NoFindings, items |-> {},
               runs |-> [s \in Scans |-> NoRun]]

\* "none": no file; "whole": a document loadFromFile can read; "empty" and
\* "torn": what a truncation and overlapping writes leave, which it cannot.
File == [kind : {"none", "whole", "empty", "torn"}, snap : Snapshot]

\* A document loadFromFile cannot read leaves the process with an empty store
\* that has no file; so does a missing one, with a file.
Unreadable == file.kind \in {"empty", "torn"}
Load == IF file.kind = "whole" THEN file.snap ELSE NoSnapshot

\* The command line has the whole store to itself until it saves it.
Cli == [pc : {"idle", "scan", "truncate", "write", "done"}, doc : Snapshot, memoryOnly : BOOLEAN]
NoCli == [pc |-> "idle", doc |-> NoSnapshot, memoryOnly |-> FALSE]

SmuFree == \A v \in Verifiers : pc[v] = "idle"
Writing == {s \in Scans : pc[s] \in {"seen", "missing"}}

\* Fault: Save lets go of store.mu before it marshals.
ReadingNever == {}

Reading == {g \in Goroutines : pc[g] \in {"rest", "truncate", "write"}}

Init ==
  /\ assets = {} /\ findings = NoFindings /\ items = {}
  /\ runs = [s \in Scans |-> NoRun] /\ listed = {}
  /\ pc = [g \in Goroutines |-> "idle"]
  /\ job = [s \in Scans |-> NoJob]
  /\ check = [v \in Verifiers |-> NoCheck]
  /\ draft = [g \in Goroutines |-> NoSnapshot]
  /\ file = [kind |-> FileAtStart, snap |-> NoSnapshot] /\ memoryOnly = (FileAtStart = "torn")
  /\ cli = NoCli /\ clock = 0 /\ crashes = 0

Goto(g, from, to) == pc[g] = from /\ pc' = [pc EXCEPT ![g] = to]

-----------------------------------------------------------------------------
(* POST /api/v1/scans and the goroutine it starts.                          *)

\* The run is filed under its second: a run accepted in the same second as an
\* earlier one takes its entry.
Submit(s, r) ==
  /\ Goto(s, "idle", "scope") /\ SmuFree
  /\ runs' = [runs EXCEPT ![s] = [NoRun EXCEPT !.id = clock, !.status = "running"]]
  /\ listed' = {t \in listed : runs[t].id # clock} \cup {s}
  /\ job' = [job EXCEPT ![s] = [NoJob EXCEPT !.target = r.target, !.cover = r.cover,
                                             !.ssh = r.ssh]]
  /\ UNCHANGED <<assets, findings, items, check, draft, disk, world>>

\* Compile and ValidateAndResolve: the target is authorized ...
Authorize(s) ==
  /\ Goto(s, "scope", "probe") /\ SmuFree
  /\ UNCHANGED <<memory, job, check, draft, disk, world>>

\* ... or the run fails and goes straight to the deferred function.
Reject(s) ==
  /\ Goto(s, "scope", "finish") /\ SmuFree
  /\ runs' = [runs EXCEPT ![s].status = "failed"]
  /\ UNCHANGED <<assets, findings, items, listed, job, check, draft, disk, world>>

\* ScanPorts and Identify: the findings whose service answered.  A host that is
\* down answers for none.
ProbeTarget(s, R) ==
  /\ Goto(s, "probe", "inspect") /\ SmuFree
  /\ job' = [job EXCEPT ![s].examined = R, ![s].cover = {}]
  /\ UNCHANGED <<memory, check, draft, disk, world>>

\* NewSSHCollectorAuto and Collect, when an SSH user was given: without facts no
\* plugin that needs them can say anything.
InspectHost(s, ok) ==
  /\ Goto(s, "inspect", "asset") /\ SmuFree
  /\ ok => job[s].ssh
  /\ job' = [job EXCEPT ![s].examined = IF ok THEN @ ELSE @ \ CredKeys, ![s].ssh = FALSE]
  /\ UNCHANGED <<memory, check, draft, disk, world>>

\* The reads of the SSH, FTP, SMTP, MySQL and Redis probes have no deadline, nor
\* has an SSH session: a peer that accepts and stays silent keeps the goroutine.
Hang(s) ==
  /\ \/ Goto(s, "probe", "hung")
     \/ Goto(s, "inspect", "hung") /\ job[s].ssh
  /\ UNCHANGED <<memory, job, check, draft, disk, world>>

\* UpsertAsset.
RecordAsset(s) ==
  /\ Goto(s, "asset", "evaluate") /\ Writing = {} /\ Reading = {}
  /\ assets' = assets \cup {job[s].target}
  /\ UNCHANGED <<findings, items, runs, listed, job, check, draft, disk, world>>

\* EvaluateService over the services that answered.
Evaluate(s, D) ==
  /\ Goto(s, "evaluate", "ingest") /\ SmuFree
  /\ job' = [job EXCEPT ![s].detected = D]
  /\ UNCHANGED <<memory, check, draft, disk, world>>

\* IngestScanFindings(..., true): store.mu.Lock, ...
IngestLock(s) ==
  /\ Goto(s, "ingest", "seen") /\ Writing = {} /\ Reading = {}
  /\ job' = [job EXCEPT ![s].todo = job[s].detected]
  /\ UNCHANGED <<memory, check, draft, disk, world>>

\* ... one step per detected finding, ...
IngestSeen(s, k) ==
  /\ pc[s] = "seen" /\ k \in job[s].todo
  /\ findings' = [findings EXCEPT ![k] = Detected(@)]
  /\ job' = [job EXCEPT ![s].todo = @ \ {k}, ![s].diff = DetectedColumn(@, k, findings[k])]
  /\ UNCHANGED <<assets, items, runs, listed, pc, check, draft, disk, world>>

\* Fault: the findings of every asset are looked at.
IngestTurnEveryAsset(s) ==
  /\ Goto(s, "seen", "missing") /\ job[s].todo = {}
  /\ job' = [job EXCEPT ![s].todo = Stored(findings) \ job[s].detected]
  /\ UNCHANGED <<memory, check, draft, disk, world>>

IngestTurn(s) ==
  /\ Goto(s, "seen", "missing") /\ job[s].todo = {}
  /\ job' = [job EXCEPT ![s].todo = {k \in Stored(findings) : AssetOf[k] = job[s].target}
                                      \ job[s].detected]
  /\ UNCHANGED <<memory, check, draft, disk, world>>

\* ... one per stored finding of the asset it did not detect, ...
IngestMissing(s, k) ==
  /\ pc[s] = "missing" /\ k \in job[s].todo
  /\ findings' = [findings EXCEPT ![k] = Missed(@, TRUE)]
  /\ job' = [job EXCEPT ![s].todo = @ \ {k}, ![s].diff = MissedColumn(@, k, findings[k], TRUE)]
  /\ UNCHANGED <<assets, items, runs, listed, pc, check, draft, disk, world>>

\* ... store.mu.Unlock, and the diff is returned.
IngestUnlock(s) ==
  /\ Goto(s, "missing", "record") /\ job[s].todo = {}
  /\ job' = [job EXCEPT ![s].examined = {}]
  /\ UNCHANGED <<memory, check, draft, disk, world>>

RecordDiff(s) ==
  /\ Goto(s, "record", "group") /\ SmuFree
  /\ runs' = [runs EXCEPT ![s].diff = job[s].diff, ![s].found = job[s].detected]
  /\ UNCHANGED <<assets, findings, items, listed, job, check, draft, disk, world>>

\* GroupFindings writes the item's ID into this scan's own finding objects: the
\* stored ones only where this scan inserted them.
GroupFindings(s) ==
  /\ Goto(s, "group", "publish")
  /\ findings' = [k \in Keys |->
                    IF k \in job[s].diff.new
                    THEN [findings[k] EXCEPT !.item = <<GroupOf[k], clock>>]
                    ELSE findings[k]]
  /\ job' = [job EXCEPT ![s].stamp = clock]
  /\ UNCHANGED <<assets, items, runs, listed, check, draft, disk, world>>

\* One item per group of the findings D, stamped with the second.
NewItems(D, second) == {[id |-> <<g, second>>, keys |-> {k \in D : GroupOf[k] = g}] :
                          g \in {GroupOf[k] : k \in D}}

\* Fault: the items of a call replace the map instead of going into it.
PublishedAlone(stored, new) == new

\* An item replaces the one stored under its ID.
Published(stored, new) == {i \in stored : \A n \in new : n.id # i.id} \cup new

\* store.Remediations[r.ID] = r, under no lock.
PublishItems(s) ==
  /\ Goto(s, "publish", "finish")
  /\ items' = Published(items, NewItems(job[s].detected, job[s].stamp))
  /\ UNCHANGED <<assets, findings, runs, listed, job, check, draft, disk, world>>

\* Fault: the deferred function leaves the status to the code before it.
FinishKeepsStatus(s) ==
  /\ Goto(s, "finish", "save") /\ SmuFree
  /\ job' = [job EXCEPT ![s] = NoJob]
  /\ UNCHANGED <<memory, check, draft, disk, world>>

\* The deferred function: the run ends, whichever return was taken.
Finish(s) ==
  /\ Goto(s, "finish", "save") /\ SmuFree
  /\ runs' = [runs EXCEPT ![s].status = IF @ = "failed" THEN @ ELSE "completed"]
  /\ job' = [job EXCEPT ![s] = NoJob]
  /\ UNCHANGED <<assets, findings, items, listed, check, draft, disk, world>>

-----------------------------------------------------------------------------
(* Store.Save, by a finished scan or by a verification rescan.              *)

\* Fault: a verification rescan returns without giving s.mu back.
AfterSaveKeepsSmu(g) == "done"

AfterSave(g) == IF g \in Verifiers THEN "reply" ELSE "done"

SaveNothing(g) ==
  /\ memoryOnly /\ Goto(g, "save", AfterSave(g)) /\ Writing = {}
  /\ UNCHANGED <<memory, job, check, draft, disk, world>>

\* MarshalIndent under store.mu.RLock visits the maps in field order ...
MarshalFindings(g) ==
  /\ ~memoryOnly /\ Goto(g, "save", "rest") /\ Writing = {}
  /\ draft' = [draft EXCEPT ![g].assets = assets, ![g].findings = findings]
  /\ UNCHANGED <<memory, job, check, disk, world>>

\* ... while holders of s.mu, and of no lock, go on writing to them.
MarshalRest(g) ==
  /\ Goto(g, "rest", "truncate")
  /\ draft' = [draft EXCEPT ![g].items = items,
                 ![g].runs = [s \in Scans |-> IF s \in listed THEN runs[s] ELSE NoRun]]
  /\ UNCHANGED <<memory, job, check, disk, world>>

\* os.WriteFile opens with O_TRUNC ...
Truncate(g) ==
  /\ Goto(g, "truncate", "write")
  /\ file' = [kind |-> "empty", snap |-> NoSnapshot]
  /\ UNCHANGED <<memory, job, check, draft, memoryOnly, world>>

\* ... and writes from offset 0.  Where another Save wrote after our truncation
\* the tail of a longer document stays behind ours.
WriteFile(g) ==
  /\ Goto(g, "write", AfterSave(g))
  /\ \/ file' = [kind |-> "whole", snap |-> draft[g]]
     \/ /\ file.kind # "empty" /\ file.snap # draft[g]
        /\ file' = [kind |-> "torn", snap |-> NoSnapshot]
  /\ draft' = [draft EXCEPT ![g] = NoSnapshot]
  /\ UNCHANGED <<memory, job, check, memoryOnly, world>>

\* MkdirAll or the open fails, or the disk is full: the file stays as it is or
\* is left torn.  The caller drops the error.
SaveFails(g) ==
  /\ DiskMayFail
  /\ \/ Goto(g, "truncate", AfterSave(g)) /\ UNCHANGED file
     \/ /\ Goto(g, "write", AfterSave(g))
        /\ file' \in {file, [kind |-> "torn", snap |-> NoSnapshot]}
  /\ draft' = [draft EXCEPT ![g] = NoSnapshot]
  /\ UNCHANGED <<memory, job, check, memoryOnly, world>>

-----------------------------------------------------------------------------
(* `sieve scan`: another process, with its own copy of the document.        *)

CliOpen ==
  /\ CliRequests # {} /\ cli.pc = "idle"
  /\ cli' = [pc |-> "scan", doc |-> Load, memoryOnly |-> Unreadable]
  /\ UNCHANGED <<memory, pc, job, check, draft, disk, clock, crashes>>

\* IngestScanFindings after GroupFindings: the ID of the item stays on the findings
\* this scan inserts.
CliFindings(f, r, D) ==
  [k \in Keys |->
     IF k \in D
     THEN [Detected(f[k]) EXCEPT !.item = IF f[k].state = "absent" THEN <<GroupOf[k], clock>> ELSE @]
     ELSE IF AssetOf[k] = r.target THEN Missed(f[k], TRUE) ELSE f[k]]

\* UpsertAsset, GroupFindings and IngestScanFindings on the findings D.
CliScan(r, D) ==
  /\ cli.pc = "scan" /\ D \subseteq r.cover /\ (D \cap CredKeys # {} => r.ssh)
  /\ cli' = [cli EXCEPT !.pc = IF cli.memoryOnly THEN "done" ELSE "truncate",
                        !.doc.assets = @ \cup {r.target},
                        !.doc.items = Published(@, NewItems(D, clock)),
                        !.doc.findings = CliFindings(@, r, D)]
  /\ UNCHANGED <<memory, pc, job, check, draft, disk, clock, crashes>>

\* The scope guard, the port scan or the write gives up; the process ends.
CliQuit ==
  /\ cli.pc \in IF DiskMayFail THEN {"scan", "truncate", "write"} ELSE {"scan"}
  /\ file' \in IF cli.pc = "write" THEN {file, [kind |-> "torn", snap |-> NoSnapshot]} ELSE {file}
  /\ cli' = [NoCli EXCEPT !.pc = "done"]
  /\ UNCHANGED <<memory, pc, job, check, draft, memoryOnly, clock, crashes>>

CliTruncate ==
  /\ cli.pc = "truncate" /\ cli' = [cli EXCEPT !.pc = "write"]
  /\ file' = [kind |-> "empty", snap |-> NoSnapshot]
  /\ UNCHANGED <<memory, pc, job, check, draft, memoryOnly, clock, crashes>>

CliWrite ==
  /\ cli.pc = "write" /\ cli' = [NoCli EXCEPT !.pc = "done"]
  /\ \/ file' = [kind |-> "whole", snap |-> cli.doc]
     \/ /\ file.kind # "empty" /\ file.snap # cli.doc
        /\ file' = [kind |-> "torn", snap |-> NoSnapshot]
  /\ UNCHANGED <<memory, pc, job, check, draft, memoryOnly, clock, crashes>>

CommandLine == \/ CliOpen \/ CliQuit \/ CliTruncate \/ CliWrite
               \/ \E r \in CliRequests, D \in SUBSET Keys : CliScan(r, D)

-----------------------------------------------------------------------------
(* POST /api/v1/findings/state and POST /api/v1/verify.                     *)

\* UpdateFindingState: any stored finding, any word for a state, and no Save.
Triage(k, st) ==
  /\ k \in Stored(findings) /\ Writing = {} /\ Reading = {}
  /\ findings' = [findings EXCEPT ![k].state = st]
  /\ UNCHANGED <<assets, items, runs, listed, pc, job, check, draft, disk, world>>

\* s.mu.Lock, held until the reply; the range over Findings takes no store.mu.
VerifyBegin(v, i, K) ==
  /\ SmuFree /\ Goto(v, "idle", "pick")
  /\ check' = [check EXCEPT ![v] = [filter |-> [item |-> i, keys |-> K], key |-> {},
                                    todo |-> Stored(findings), known |-> Stored(findings)]]
  /\ UNCHANGED <<memory, job, draft, disk, world>>

Matches(k, filter) == /\ filter.item = NoItem \/ findings[k].item = filter.item
                      /\ k \in filter.keys

\* The next finding of the iteration.  One inserted since it began may be met.
VerifyPick(v, k) ==
  /\ Goto(v, "pick", IF Matches(k, check[v].filter) THEN "dial" ELSE "pick")
  /\ k \in check[v].todo \cup (Stored(findings) \ check[v].known)
  /\ check' = [check EXCEPT ![v].todo = @ \ {k}, ![v].known = @ \cup {k},
                 ![v].key = IF Matches(k, check[v].filter) THEN {k} ELSE {}]
  /\ UNCHANGED <<memory, job, draft, disk, world>>

\* Fault: a port that answers opens the finding again, behind the ledger's back.
VerifyDialedReopens(v, answer) ==
  /\ Goto(v, "dial", "pick")
  /\ findings' = [k \in Keys |->
                    IF k \in check[v].key
                    THEN [findings[k] EXCEPT !.state = IF answer = "accepted" THEN "open" ELSE "fixed"]
                    ELSE findings[k]]
  /\ check' = [check EXCEPT ![v].key = {}]
  /\ UNCHANGED <<assets, items, runs, listed, job, draft, disk, world>>

\* DialTimeout returned.  An error, be it a refusal or the timeout of a host that
\* is silent, marks the finding fixed whatever its state is by now.
VerifyDialed(v, answer) ==
  /\ Goto(v, "dial", "pick")
  /\ findings' = IF answer = "accepted" THEN findings
                 ELSE [k \in Keys |-> IF k \in check[v].key
                                      THEN [findings[k] EXCEPT !.state = "fixed"]
                                      ELSE findings[k]]
  /\ check' = [check EXCEPT ![v].key = {}]
  /\ UNCHANGED <<assets, items, runs, listed, job, draft, disk, world>>

VerifyEnd(v) ==
  /\ Goto(v, "pick", "save") /\ check[v].todo = {}
  /\ UNCHANGED <<memory, job, check, draft, disk, world>>

VerifyReply(v) ==
  /\ Goto(v, "reply", "idle")
  /\ check' = [check EXCEPT ![v] = NoCheck]
  /\ UNCHANGED <<memory, job, draft, disk, world>>

-----------------------------------------------------------------------------
(* Time and failure.                                                        *)

Tick == /\ clock < MaxClock /\ clock' = clock + 1
        /\ UNCHANGED <<memory, pc, job, check, draft, disk, cli, crashes>>

\* Fault: the loader forgets one of the maps.
RestartWithoutAssets ==
  /\ crashes < MaxCrashes /\ crashes' = crashes + 1
  /\ assets' = {} /\ findings' = Load.findings /\ items' = Load.items
  /\ runs' = Load.runs /\ listed' = {s \in Scans : Load.runs[s].status # "none"}
  /\ memoryOnly' = Unreadable
  /\ pc' = [g \in Goroutines |-> IF g \in Verifiers \/ pc[g] = "idle" THEN "idle" ELSE "done"]
  /\ job' = [s \in Scans |-> NoJob] /\ check' = [v \in Verifiers |-> NoCheck]
  /\ draft' = [g \in Goroutines |-> NoSnapshot]
  /\ UNCHANGED <<file, cli, clock>>

\* The process dies (a fatal concurrent map access included) and systemd
\* starts it again: NewStore loads the file, or, when it cannot, runServer
\* falls back to a store that has none.
Restart ==
  /\ crashes < MaxCrashes /\ crashes' = crashes + 1
  /\ assets' = Load.assets /\ findings' = Load.findings /\ items' = Load.items
  /\ runs' = Load.runs /\ listed' = {s \in Scans : Load.runs[s].status # "none"}
  /\ memoryOnly' = Unreadable
  /\ pc' = [g \in Goroutines |-> IF g \in Verifiers \/ pc[g] = "idle" THEN "idle" ELSE "done"]
  /\ job' = [s \in Scans |-> NoJob] /\ check' = [v \in Verifiers |-> NoCheck]
  /\ draft' = [g \in Goroutines |-> NoSnapshot]
  /\ UNCHANGED <<file, cli, clock>>

-----------------------------------------------------------------------------
Save(g) == \/ SaveNothing(g) \/ MarshalFindings(g) \/ MarshalRest(g) \/ Truncate(g)
           \/ WriteFile(g) \/ SaveFails(g)

Ingest(s) == \/ IngestLock(s) \/ IngestTurn(s) \/ IngestUnlock(s)
             \/ \E k \in Keys : IngestSeen(s, k) \/ IngestMissing(s, k)

Scan(s) ==
  \/ Authorize(s) \/ Reject(s)
  \/ \E R \in SUBSET job[s].cover : ProbeTarget(s, R)
  \/ \E ok \in BOOLEAN : InspectHost(s, ok)
  \/ RecordAsset(s)
  \/ \E D \in SUBSET job[s].examined : Evaluate(s, D)
  \/ Ingest(s) \/ RecordDiff(s) \/ GroupFindings(s) \/ PublishItems(s) \/ Finish(s) \/ Save(s)

Verify(v) == \/ \E k \in Keys : VerifyPick(v, k)
             \/ \E answer \in DialOutcomes : VerifyDialed(v, answer)
             \/ VerifyEnd(v) \/ Save(v) \/ VerifyReply(v)

\* The UI asks with the remediation ID and the dedup key it shows, or with one.
AskVerify(v) ==
  \E i \in {NoItem} \cup {n.id : n \in items}, K \in {Keys} \cup {{k} : k \in Stored(findings)} :
    VerifyBegin(v, i, K)

Next == \/ \E s \in Scans : Scan(s) \/ Hang(s) \/ \E r \in Requests : Submit(s, r)
        \/ \E v \in Verifiers : Verify(v) \/ AskVerify(v)
        \/ \E k \in Keys, st \in TriageStates : Triage(k, st)
        \/ CommandLine \/ Tick \/ Restart

Safety == Init /\ [][Next]_vars

\* Runnable goroutines are scheduled; dials end by their timeout, and so do reads
\* that have one (a read that has none may Hang); a goroutine waiting for s.mu or
\* store.mu gets it although others keep coming: a Go mutex in starvation mode
\* goes to the one that has waited longest, a waiting writer of an RWMutex holds
\* back later readers.
Spec == /\ Safety
        /\ \A s \in Scans : SF_vars(Scan(s))
        /\ \A v \in Verifiers : SF_vars(Verify(v))

-----------------------------------------------------------------------------
TypeOK ==
  /\ assets \in SUBSET Assets
  /\ findings \in [Keys -> Finding]
  /\ items \in SUBSET Item
  /\ runs \in [Scans -> Run]
  /\ listed \in SUBSET Scans
  /\ pc \in [Goroutines -> Places]
  /\ job \in [Scans -> Job]
  /\ check \in [Verifiers -> Check]
  /\ draft \in [Goroutines -> Snapshot]
  /\ file \in File
  /\ memoryOnly \in BOOLEAN /\ cli \in Cli /\ clock \in Nat /\ crashes \in Nat

-----------------------------------------------------------------------------
(* Properties.                                                              *)

\* A run that reports a finding as NEW or lists it is backed by the finding
\* itself, and no two runs report the same finding as NEW.
LedgerAgrees(f, r) ==
  /\ \A s \in Scans : r[s].diff.new \cup r[s].found \subseteq Stored(f)
  /\ \A s, t \in Scans : s # t => r[s].diff.new \cap r[t].diff.new = {}

\* The runs and the findings in memory agree, though they are under different
\* locks and a restart may have reloaded both from whatever was saved.
MemoryAgrees == LedgerAgrees(findings, runs)

\* So do those in a data file, whatever moved while it was being marshalled:
\* a server that loads it does not report a finding as new a second time.
FileAgrees == LedgerAgrees(file.snap.findings, file.snap.runs)

\* No finding without its asset, in memory or in a data file.
FindingsHaveAssets ==
  /\ \A k \in Stored(findings) : AssetOf[k] \in assets
  /\ \A k \in Stored(file.snap.findings) : AssetOf[k] \in file.snap.assets

\* The diff columns telescope: as long as only scans move findings, a finding
\* was reported new or reopened as often as confirmed fixed, plus once if it is
\* open now; and it was reopened as often as its ReopenedCount says.
Ledger == [s \in Scans |-> IF runs[s].diff = NoDiff THEN job[s].diff ELSE runs[s].diff]
Reports(k, column) == Cardinality({s \in Scans : k \in Ledger[s][column]})
OpenNow(k) == IF findings[k].state = "open" THEN 1 ELSE 0

DiffBalances ==
  crashes = 0 =>
    \A k \in Keys :
      /\ Reports(k, "new") + Reports(k, "reopened") =
           Reports(k, "fixed") + OpenNow(k)
      /\ Reports(k, "reopened") = findings[k].reopened

\* Verification rescans and triage move the same findings between two scans, and
\* no run reports a move of theirs as its own: a finding was reported new once, as
\* soon as it is stored, reopened as often as its ReopenedCount says, and, unless
\* a person opens findings again, confirmed fixed no more often than it was opened.
MovesAreReported ==
  crashes = 0 =>
    \A k \in Keys :
      /\ Reports(k, "new") = (IF findings[k].state = "absent" THEN 0 ELSE 1)
      /\ Reports(k, "reopened") = findings[k].reopened
      /\ "open" \notin TriageStates =>
           Reports(k, "fixed") + OpenNow(k) <= Reports(k, "new") + Reports(k, "reopened")

\* Between restarts the remediation ID of a finding names a stored item, or one
\* its scan is about to store, although items of other scans of the second may
\* take its place: a verification by that ID is about a plan there is.
ItemsExist ==
  crashes = 0 =>
    \A k \in Keys : findings[k].item # NoItem =>
      \/ \E i \in items : i.id = findings[k].item
      \/ \E s \in Scans : pc[s] = "publish" /\ k \in job[s].detected

\* The findings and the runs' diffs behave like the life cycle: what a run
\* reports is what it did, while verification rescans, which do not hold
\* store.mu, and triage move the same findings.  Whether a move to "fixed" was
\* earned is not its question but that of the two properties on fixing below.
Lifecycle == INSTANCE FindingLifecycle
               WITH Runs <- Scans, state <- [k \in Keys |-> findings[k].state], ledger <- Ledger
LifecycleSpec == Lifecycle!Spec

\* Every accepted run ends unless its own target falls silent: neither
\* verification rescans that keep taking s.mu for as long as they dial nor the
\* Saves that keep writers out of store.mu hold it up for ever.
Ended(s) == runs[s].status \in {"completed", "failed"}

EveryRunEnds == \A s \in Scans : (runs[s].status = "running") ~> (Ended(s) \/ pc[s] = "hung")

\* Every verification rescan is answered, and gives s.mu back.
EveryVerifyReplies == \A v \in Verifiers : (pc[v] = "pick") ~> (pc[v] = "idle")

-----------------------------------------------------------------------------
(* What the documentation or a comment says and the code does not do.       *)

\* "CONFIRMED FIXED: ... the service was successfully re-probed and verified
\* patched" (docs/architecture.md): a scan closes only what it examined.
ConfirmedFixedWasExamined ==
  [][\A s \in Scans, k \in Keys :
       (/\ k \in job[s].todo \ job'[s].todo
        /\ findings[k].state = "open" /\ findings'[k].state = "fixed")
       => k \in job[s].examined]_vars

\* "UNVERIFIED / VANISHED: ... disappeared because the target host timed out ...
\* marks these as `unverified_absent` rather than claiming a fix"
\* (docs/architecture.md): where no port refuses, and a dial is accepted or nobody
\* answers it, a verification makes no finding fixed, an accepted risk least of all.
SilenceFixesNothing ==
  [][\A v \in Verifiers, k \in Keys :
       /\ "refused" \notin DialOutcomes
       /\ pc[v] = "dial" /\ pc'[v] = "pick" /\ k \in check[v].key /\ findings[k].state # "fixed"
       => findings'[k].state # "fixed"]_vars

\* "ACID transactional JSON persistence store" (docs/deployment-and-testvm.md):
\* a disposition the API has acknowledged outlives a restart that the finding
\* itself outlives.
TriageSurvivesRestart ==
  [][crashes' # crashes =>
       \A k \in Stored(findings') : findings[k].state \in Dispositions =>
                                      findings'[k].state = findings[k].state]_vars

\* "Save persists the current state to disk if dataFile is set" (storage.go):
\* once no Save is under way, a run whose Save has returned is in the file.
SavedRunsAreOnDisk ==
  (~memoryOnly /\ \A g \in Goroutines : pc[g] \notin {"save", "rest", "truncate", "write"})
  => \A s \in listed : pc[s] = "done" => file.snap.runs[s] = runs[s]

\* "Attach this remediation ID to each finding" (remediation/engine.go): when no
\* scan is under way, the finding in the store points at no older item than the
\* ones that list it.
FindingsPointAtTheirItem ==
  (\A s \in Scans : pc[s] \in {"idle", "done"}) => \A i \in items : \A k \in i.keys :
    findings[k].item # NoItem /\ findings[k].item[2] >= i.id[2]
==============================================================================
