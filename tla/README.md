# Sieve: a TLA+ model of the scanner and its control plane

Sieve is a vulnerability scanner in one Go binary: an HTTP server (or a command
line) authorizes a target against a scope, port-scans it, fingerprints what
answers, collects facts over SSH, evaluates plugins, keeps the findings with
their life cycle in a JSON file, and groups them into remediation items. This
directory models a request from its target's authorization to the data file:
the parts that run concurrently, fail and restart, and the chain of contacts and
decisions that turns an open port into a finding. TLC model-checks them and TLAPS
proves the central invariants.

Paths below are relative to the repository; "`s.mu`" is `Server.mu`,
"`store.mu`" is `Store.mu`.

## 1. Inventory

| part | source | state | operations | talks to |
|---|---|---|---|---|
| Scan orchestration | `pkg/server/server.go` | the run objects, `s.mu`; one goroutine per accepted scan | `handleScans`, `executeScan`, `handleFindingState`, `handleVerificationRescan` | everything below, by calls; the store's maps also directly, under `s.mu` or no lock |
| Store | `pkg/storage/storage.go` | maps of assets, findings, runs, remediations; `store.mu`; the data file | `UpsertAsset`, `IngestScanFindings`, `UpdateFindingState`, `Save`, `NewStore` | file system |
| Port scanner | `pkg/scan/portscan.go` | semaphore, wait group, result channel, counters of one call | `ScanPorts` | scope guard, the `OnProgress` callback into the server |
| Scope guard | `pkg/scope/guard.go` | a compiled guard, never changed | `Compile`, `IsIPAllowed`, `ValidateAndResolve`, `PreFlightSocketCheck` | DNS |
| Remediation orchestrator | `pkg/remediation/engine.go` | none; writes into findings | `GroupFindings` | finding objects shared with the store |
| Plugin engine, DSL | `pkg/plugins/` | loaded plugins | `LoadFromDir`, `EvaluateService`, safety gate, `compareVersions` | services, facts |
| Fingerprinter | `pkg/fingerprint/` | the service being filled in | `Identify`: `TestTLS`, then the probe of the protocol | network, one or two contacts per port |
| SSH collector | `pkg/collector/` | a session | `Collect`: login, then three commands | network |
| Reachability | `pkg/reachability/` | none | `EvaluateReachability` | pure, over the collected sockets |
| Command line | `cmd/sieve/main.go` | its own store | `runScan`, `runServer` | the same packages, maybe the same file |
| Web UI, plugin YAML, SQL schema, deploy scripts | `web/`, `content/`, `storage/schema.sql`, `deploy/` | | | not modelled |

What is hard here:

* **Two locks and no rule.** Findings move under `store.mu` in
  `IngestScanFindings` and `UpdateFindingState`, under `s.mu` only in
  `handleVerificationRescan`, under no lock in `GroupFindings`. Runs are
  written under `s.mu` and marshalled under `store.mu`.
* **Non-atomic persistence.** `Save` marshals one map after the other, then
  truncates the only copy of the file and writes it; it takes the *read* lock,
  so several saves overlap. `handleFindingState` does not save.
* **Long critical sections.** A verification rescan holds `s.mu` over every
  dial and over `Save`.
* **A life cycle over many runs.** open, fixed, reopened, dispositions; each
  run reports its moves as a diff.
* **A worker pool** whose results are drained only after the wait, with a
  callback into a lock that others hold.
* **Second-resolution identifiers** of runs and remediation items.
* **Two processes, one file.** A command-line scan loads the server's file and
  writes its own copy back; both drop the error of `os.WriteFile`.
* **Many contacts with a host that does not hold still.** TLS test, probe, login
  and each command see the host at another moment, any of them may fail, and
  most reads have no deadline.
* **Text compared as numbers.** Versions, epochs and revisions become sequences
  of numbers; port specifications are cut at commas and dashes.
* **A network address is not the address that was tested** when a CIDR is the
  target.

What has to hold, per part: the orchestrator ends every run and reports what it
did; the store keeps findings, runs and assets in agreement, in memory and in
any file it may later load; the scanner judges each port once, returns exactly
the open ones, respects its concurrency and leaves nothing behind; the guard
never lets a socket be opened outside the scope; remediation items and the
findings they list point at each other; a finding rests on something the host
really showed at that port, a flaw that is shown and looked for is reported, and
no peer but a silent one keeps an assessment from ending.

`PROJECT.json` lists every component, and under "hazards" every such place with
its line and the property that watches it.

## 2. Modules

| module | models | role |
|---|---|---|
| `PortSweep` | what `ScanPorts` promises | abstract specification |
| `PortScanner` | the dispatcher, the workers and the callback of `ScanPorts` | implements `PortSweep` |
| `PortScannerProofs` | | theorems about `PortScanner` |
| `FindingStore` | records of the store; what ingestion does to one finding | operators used by `ScanServer` |
| `FindingLifecycle` | the life of a finding and the ledger of the scans | abstract specification |
| `ScanServer` | the control plane, the store, its file, restarts | implements `FindingLifecycle` between restarts |
| `ScanServerProofs` | | theorems about `ScanServer` |
| `LifecycleProofs` | | the refinement of `FindingLifecycle` by `ScanServer`, proved |
| `BalanceProofs` | | theorems about the sums over all diffs of `ScanServer` |
| `RemediationProofs` | | the theorem about remediation items of `ScanServer` |
| `PortSpec` | `ParsePortSpec` and the fallback to the default ports | operators used by `HostAssessment` |
| `ServiceProbe` | what one contact with a port tells of its service | operators used by `HostAssessment` |
| `HostFacts` | what the commands of `Collect` yield; `EvaluateReachability` | operators used by `HostAssessment` |
| `PluginEngine` | loading, gates, matchers, `compareVersions` | operators used by `HostAssessment` |
| `HostAssessment` | one scan between its port scan and the store | composes the four above |
| `HostAssessmentProofs` | | theorems about `HostAssessment` |
| `ScopeGuard` | the guard and the scan that uses it, from `Compile` to the sockets | |
| `ScopeGuardProofs` | | theorems about `ScopeGuard` |
| `EnumerationProofs` | | the theorem about the enumeration of networks in `ScopeGuard` |
| `MC*` | | values of the constants for TLC |

The modules meet where the code's calls do. `ScopeGuard` ends where sockets are
opened; `PortScanner` says which ports of the address are open; `HostAssessment`
says what those ports lead to; and `ScanServer` takes the detected findings
as any part of what a request covers, so it holds for whatever the first three
produce.

Operators under a comment "Fault:" are single plausible bugs. No specification
uses them; each replaces the definition that follows it to show that a property
does depend on that definition (`PROJECT.json`, "mutants").

### PortScanner

One action per blocking step. `pc` is the dispatcher: it waits for a ticker
tick, does `wg.Add(1)`, waits for a semaphore slot, spawns (`TakeTick`,
`Spawn`), and after the last port waits, drains, sorts and returns (`Return`).
`worker[p]` is the goroutine of port `p`: `Probe` (the dial and the atomic
increment of `scannedCount`, which gives the worker its number), `Send` to the
buffered channel, `Report` (the callback, which needs `s.mu`), then the deferred
calls in their order, `Release` before `Leave`. `OtherLocks`/`OtherUnlocks`
stand for every other holder of `s.mu`. The guard is constant after `Compile`, so the
preflight check inside a worker repeats the answer of the one before the loop.
`openCount` only feeds an argument the callback ignores and is left out; a
rate above 10^9 per second, for which `NewTicker` panics, is not modelled, nor
is the context, which the server never cancels.

`Sweep == INSTANCE PortSweep` maps `returned` to `pc = "returned"`; `verdict`
and `result` keep their names.

### FindingStore, ScanServer

The four maps of `Store` are `assets`, `findings`, `items`, `runs` (with
`listed`: which run objects are the ones in `ScanRuns`). A run object belongs to
the goroutine that holds a pointer to it, whether or not a later run of the same
second has taken its entry. A finding is its state, its reopen count and the
remediation ID it points at. A state is open, fixed, unverified_absent or any word a client has
sent: `handleFindingState` and `UpdateFindingState` validate nothing, so `TriageStates` is any set of
words ("absent", by which the model knows that a key is not in the map, is not one). `DiffSummary`'s counts are modelled as the sets of
keys they count: this is what lets a property say that a diff is *right*.

`pc[g]` says where a goroutine stands and thereby which lock it holds across
steps: `store.mu` for writing in `"seen"`/`"missing"`, for reading in
`"rest"`/`"truncate"`/`"write"`, and `s.mu` from a verification's first line to
its reply. A critical section without a call in it is one step.

* A scan: `Submit`, `Authorize`/`Reject`, `ProbeTarget`, `InspectHost`,
  `RecordAsset`, `Evaluate`, the two loops of `IngestScanFindings` one finding
  at a time (`IngestLock` ... `IngestUnlock`), `RecordDiff`, `GroupFindings`,
  `PublishItems`, `Finish` (the deferred function), `Save`.
  `Requests` gives the target, the findings the requested ports can show, and
  whether an SSH user was given; `ProbeTarget` lets any part of them answer,
  `InspectHost` loses those that need credentials when the login fails, and
  `Evaluate` detects any part of what is left. `job[s].examined` remembers what
  could have been seen; only properties read it. `Hang` keeps a scan for ever in a
  read that has no deadline (`HostAssessment` says in which).
* `Save`: `MarshalFindings` (assets and findings; `store.mu` keeps ingestion and triage out of it, a
  verification, which writes findings under `s.mu` alone, may still change one between two of
  them, and a document with half of its writes is not modelled),
  `MarshalRest` (runs and items, which others go on writing), `Truncate`,
  `WriteFile`. File lengths are abstract: when another save wrote in between,
  the outcome is either our document or a file that cannot be read ("torn"), so
  the model has at least the outcomes of the code. `SaveFails` is a directory, an
  open or a write that fails, whose error every caller drops.
* The command line: `CliOpen` loads the server's file into a copy of its own,
  `CliScan` is the whole of its single-threaded scan, `CliTruncate`/`CliWrite` put the
  copy back, `CliQuit` is any way it gives up. Its runs are not recorded, as in the code.
* `Triage`: `UpdateFindingState`, no save. `DialOutcomes` is what a verification's dial may meet;
  those dials are made at `server.go:518` without the scope guard. `VerifyBegin` ... `VerifyReply`: a
  verification rescan, one finding per step, iterating a map that may grow under it.
* `Restart`: the process dies at any step and `NewStore` loads the file. An
  unreadable file leaves the server with a store that never saves
  (`memoryOnly`). Go's fatal "concurrent map iteration and map write" is such a
  death.
* `Tick`: identifiers are clock seconds. `GroupFindings` stamps all items of a
  call with one second.

Left out: `FixedAt`, evidence, logs, phase, progress and the service lists of
assets; `State` and `FixedAt` are written as one.

`FindingLifecycle` says who moves a finding from which state to which, and in which column of
which run the move is counted. It does not say on what evidence: that a verification closes a
finding is a move of it, and what may be behind that move is the subject of `examined` and
`verify_silent`. It is mapped by `state[k] = findings[k].state` and `ledger`, a
run's recorded diff or, until it is recorded, the diff its goroutine is
accumulating.

### HostAssessment and the four modules under it

One assessment of one host, one contact per step. `phase` is where the goroutine
stands:

| phase | action | code |
|---|---|---|
| `tls` | `TestPort` | `Identify` up to its switch: list of TLS ports, or a handshake |
| `contact` | `Interrogate`, `InterrogationHangs` | the probe of the protocol the port number suggests |
| `tls`, no port left | `LogIn`, `NoCollection`, `CollectionHangs` | `NewSSHCollectorAuto`, `Dial` |
| `os`, `sockets`, `packages` | `ReadOS`, `ReadSockets`, `ReadPackages`, `CollectionHangs` | `Collect`, one command each; a failure leaves its facts empty |
| `evaluate` | `Evaluate`, `Finish` | `EvaluateService` and `EvaluateReachability`, service by service |
| `done`, `held` | | handed to the store; kept by a read without a deadline |

`HostChanges` makes `host` another of `Hosts` between any two contacts, at most
`MaxChanges` times; `was` remembers all it has been and only properties read it.

What is abstract: a banner is a value and a pattern the set of banners it matches; a
version is the sequence of numbers `compareVersions` reads, so that what that function
does with suffixes is in the sequence. `MatchVersion` tests whether there is a version *text*:
`{}` is none and `{<< >>}` one without a number (OpenSSH for Windows gives "for"), which counts
as version 0. ProFTPD and Apache are named by the expression that reads their version and are
nameless without one (`Names`), nginx and Postfix are not. `NoCollection` needs nothing of the
host: no usable key or password ends the collection before it contacts anyone. The TLS of a peer is one of none, old,
good, expired, self-signed or weak ciphers. `ServiceProbe.Interrogations` gives the services a contact
may leave: the answer, the service as it was filed before connecting, or both
where the code and the peer leave it open. `Identify`'s preflight check is left out, since
`ValidateAndResolve` has applied it to the same address.

A plugin directory is a sequence of files: plugins, files that do not parse (which
end the walk) and others (`LoadFromDir`). `ParsePortSpec` is the set of ports of its
parts, empty when one of them is malformed.

### ScopeGuard

One scope, one target, from `Compile` to the sockets. An entry is classified by
its value, as in the code, which never reads `Kind`. `ResolveIP`, `ResolveNet`
with `Enumerate`/`EnumerateEnd`, and `ResolveName` with `Record`/`RecordsEnd` are the three
branches of `ValidateAndResolve`, one turn of a loop per step; `StartScan`/`ScanBlocked` are the preflight check of
`ScanPorts` on `resolvedIPs[0]`, `Dial` any socket opened after it (probe,
fingerprint, SSH). Addresses are `W`-bit IPv4 addresses; IPv6 occurs only among
the records of a DNS answer, where the code skips it. `allowedHosts` and
`excludeHosts` are filled and never consulted, so names in a scope have no
effect in the model either. `InScope` says what a scope means without masks,
lists or order.

## 3. Runs

Every property has a mutant that TLC finds.

| run | instance | shows |
|---|---|---|
| `port_scanner` | 4 ports, 2 slots, report every 3rd result | `SendNeverBlocks`, `InFlightBounded`, `NoLateReport`, and that the pool implements `PortSweep` including its liveness: the call returns |
| `scans` | 3 scans, 2 assets with one key each, no file | `DiffBalances`: the diffs of all runs, however interleaved, add up to where each finding is; `ItemsExist`: remediation IDs name items, although the items of one second replace each other; `LifecycleSpec`: the store implements the life cycle |
| `restart` | 2 scans, triage, 1 command-line scan, 2 keys, saves that fail, 1 restart | `MemoryAgrees`, `FileAgrees`, `FindingsHaveAssets` with overlapping saves of two processes and a restart at every step; `MovesAreReported`: until then no run reports what triage did to a finding |
| `live` | 1 scan, 2 verifications, triage with the word "closed", saves | `LifecycleSpec` again, with the moves of people and verifications; `EveryRunEnds`, `EveryVerifyReplies` |
| `assessment` | 32 hosts, 3 requests, 16 plugin files, 1 change of the host | `FindingsHaveGrounds`, `ShownFlawsAreReported`, `ReachabilityHasGrounds`, `EndsUnlessHeld` |
| `scope` | 3-bit addresses, batch 4; all scopes of one inclusion and one exclusion out of 20, some with two, all targets, all answers of up to 2 records | `DialsInScope`, `NamesStayInScope`, `OnlyNetworksAreBlocked`, `EnumeratesTheNetwork` |
| `examined`, `triage_lost`, `overlap`, `rescan`, `verify_silent`, `epochs` | small | counterexamples, section 6 |

Why these bounds are enough to be interesting:

* Two slots and four ports: the dispatcher waits for a slot with ports left to
  do, and three workers are between their steps while the channel holds results;
  every third result reporting gives closed ports both ways through a worker.
* Three scans are needed for "fixed, then reopened, then found by a third" while
  they overlap; two keys on two assets show that a scan stays with its own. The
  scans are interchangeable in that run, hence the symmetry.
* Two saves are needed for every mix of documents; the restart may fall between
  truncation and write. A second restart adds no file that the first cannot leave.
  The command-line scan takes either of two positions against each: it loads what one
  leaves and overwrites what the other wrote. The clock stands still there, so both
  scans may have one run ID and one item ID.
* `live` has one scan: two verifications and triage contend with it for both locks. What
  scans do to one another is in `scans` and `restart`; that a scan held by a silent peer does not
  hold up another is not exercised (it holds no lock then).
* `memoryOnly` stores (`FileAtStart = "torn"`) drop the save steps where the
  question is not about the file. Such a store is one the program has: it is
  what `runServer` falls back to.
* The hosts combine two systems (one with dpkg and an epoch, one a derivative that is
  asked for rpm packages), four SSH servers (earlier than the fix, later, one whose version text
  has no number, silent) and four sets of services, so that a port of the TLS list has no TLS, old TLS,
  an expired certificate or a good one with an Apache that names no version, a probe without a deadline meets a silent peer, and the first socket
  of a port is on loopback where the second is not. The requests differ in the ceiling, in
  the SSH user, and in a range beyond the last port. Passive, active-safe and intrusive plugins and one of a
  class the table does not have, every type of matcher, both conditions and a negated matcher occur; one
  file replaces an earlier one, one does not parse, and a plugin stands behind it that is never reached. One change
  of the host separates any two contacts.
* Three address bits contain every relation of two prefixes, one-address
  networks, a network larger than the batch, and one that ends at the last
  address, where `incIP` wraps.

Distinct states: `port_scanner` below 10^5, `scans` 159 thousand, `restart` 1.6
million, `live` 66 thousand, `assessment` 298 thousand, `scope` 190 thousand.

`MaxClock`, `MaxCrashes` and `MaxChanges` bound the three counters; `Scans` is used up, each
scan goroutine running once. Runs in which all goroutines can be over, and `scope`,
whose request ends, say `CHECK_DEADLOCK FALSE`; in `live`, whose verifications come
again and again, and `port_scanner` deadlock is checked.

### Fairness

`PortScanner`: the ticker ticks, the dispatcher and the workers are scheduled, a
dial ends by its timeout, a holder of `s.mu` gives it back. `Report` is strongly
fair: a worker that waits for `s.mu` gets it although others keep taking it,
which is what the starvation mode of `sync.Mutex` provides.

`ScanServer`: each scan and each verification that can go on again and again
does. Every dial has a timeout, a waiting `RWMutex` writer
holds back later readers, and the mutex is as above. Nothing is assumed of
`Submit`, `AskVerify`, `Triage`, `Tick`, `Restart`, the command line, or `Hang`: a scan
may be kept for ever by a silent peer, and `EveryRunEnds` says so. It holds no lock there,
so everyone else still finishes.

`HostAssessment`: the goroutine goes on when it can. Which reads end is not assumed
but modelled: a read with a deadline returns, another may be the last thing the
scan does, and `EndsUnlessHeld` names the ports where that can happen.

## 4. Proofs

All for every value of the constants that satisfies the named ASSUMEs.

`PortScannerProofs` (assumes `N`, `Concurrency`, `ReportEvery` positive):
`TypeCorrect`, `ChannelNeverFull`, `ConcurrencyRespected`, `NoStraggler` and
`ImplementsSweep`, the safety half of the refinement. None of them is inductive
alone; the invariant adds `Counted` (the semaphore is the number of workers
holding a slot, the wait group the number alive plus the one being admitted),
`Dispatched` (ports are taken in order, each once) and `Delivered` (a port found
open is in the channel from its send to the drain). The channel then holds fewer
than `N` ports while some worker has yet to send, which is the deadlock argument;
and the wait group at zero means all workers are gone, which is why the result
is complete and no callback comes late.

`ScanServerProofs` (assumes only that scans and verifications are different
goroutines, that there is an asset, that a request covers findings of its
target, that the word for "not stored" is not one a client sends (`TriageAssumption`), and the
ranges of flags and bounds): `TypeCorrect`, which says of a state no more than the code does, any
word a client may send among them; `MemoryAgreement`, `FileAgreement`, `FindingsOwned`, for
any number of goroutines and restarts, and with saves that fail and a
command-line scan on the same file. The argument runs along the file: a
restart turns what was saved into what is in memory, so the document must
already be right when it is written, and so while it is being marshalled.
`IInv` has one conjunct per stage: `Mutex` (ingestion and marshalling exclude
each other), `Targeted` (a scan deals in its target's findings and has recorded
the target), `Ingested` and `Backed` (what it detected is stored before it says
so), `ClaimedOnce` (two scans cannot both find a key absent), `Checked` (a
verification only touches stored findings), `Drafted` (between the two halves of
`Save` no finding appears, so the runs read second are backed by the findings
read first), `Filed` (the file, and the copy of the command line) and `Owned`. It was
first checked as an invariant with TLC.

The same module proves what the liveness properties rest on, fairness apart. `ScansAdvance`: a step of
`executeScan` enters a later stage or takes a finding off the list of its loop, and
no one else's step sends a scan back. `RescansAdvance`: a verification ranges over a
map that grows under it, and still each turn has less before it (`Left`: what is on its
list and what it has not met), which needs `Known`, that the list holds nothing
it does not count as met. `NoRunIsLeftRunning`: until a restart, a goroutine that is over has ended its
run. What these leave to TLC is that each goroutine can go on and does.

`LifecycleProofs`: `ImplementsLifecycle`, that `ScanServer` refines `FindingLifecycle`
when `MaxCrashes = 0`. The invariant adds to `IInv` that a verification writes to one finding
at a time and, for each scan, `Books(s)`: where its diff is kept (with the goroutine until
`RecordDiff`, then with the run), and that its columns hold only findings its loops
have already visited, so that no finding is counted twice. Each action then maps to a move
of the abstract specification or to a stutter: only the two loops of `IngestScanFindings`,
triage and the verdict of a verification move a finding, and recording the diff moves nothing.
`MovesSimulated` says which move each iteration of the two loops is.

`BalanceProofs` (no further assumptions): `MovesReported` and `DiffsBalance`. Both are about sums over the runs, and
there is no need for an induction over the runs: each iteration of a loop puts one finding
into at most one column of one run, where it was not before (`Books`), so of all sums exactly that one grows, by one
(`OneMore`), or none does (`KeptSums`). The invariant adds to those above that the sums
are of finite sets (`Finite`), that what is not stored was never reopened (`Unborn`), and per finding what the
sums come to: `Counted` in general, `Telescoped`, the equality, only where neither verifications nor triage
move findings. `DiffBalances` needs that (the theorem assumes `Verifiers = {}` and
`TriageStates = {}`, as its run does): with a verification a finding is closed that
no diff reports closed, and what remains true then is `MovesAreReported`; `restart` checks that
beside triage, the theorem beside any number of verifications too. The invariant holds
while `crashes = 0`, and so does the refinement above: `LifecycleUntilRestart` says
for any `MaxCrashes` that each step up to the first restart is one of the life cycle.

`RemediationProofs`: `ItemsAreStored`, that between restarts every remediation ID on a finding
names an item. `GroupFindings` writes the IDs before the items are stored, and neither step holds a
lock, so the invariant adds to `IInv` what the goroutine between the two has `Promised`: the ID is the one
of its own second and of the group of a finding it detected. `NewDetected` says that it writes IDs to
no other findings; and an item only gives way to one of the same ID.

`HostAssessmentProofs` (assumes what the parsers ensure: plugin IDs are read per file, ports
are positive, the parts of a version are numbers without a sign, a ceiling is always set): `AssessmentIsTyped`, `FindingsAreGrounded`,
`ReachabilityIsGrounded`, `ShownFlawsReported`, for all hosts, plugins, requests and changes. The invariant says
of everything gathered so far that it is something the host was: `ServiceGrounded` and
`ServicesGrounded` of the services, `FactsGrounded` of the OS, packages and sockets,
`LoggedIn` of the phases in which facts may exist; `was` only grows, so what is grounded
stays so while the host changes. A finding names its plugin by ID, and the loader
keeps one plugin per ID, so the plugin a reader looks up is the one that was evaluated.
`WithinCeiling` compares places in the list of classes the plugin guide has, and says nothing of a
plugin of another class (`RankIsPlace` ties it to the code's ranks). Two exceptions are part of what is proved of
grounds: a version without a number and a package with an epoch. The code compares both wrongly, and of
them it is only said that the host had such a version or package. Of the first priority it is
proved that there was a socket of that port, with a process, bound to none of 127.0.0.1, ::1 and [::1].
`ShownFlawsReported` is the other direction, that nothing shown is missed, and has an invariant
of its own, `CInv`: while the host has not changed, every port of the request is either still to be
tested, under contact, or a service that tells what its peer shows whoever asks; in the
evaluation it is either still on the list or its findings are there; and a plugin the loader
has read before the first broken file is among those evaluated. The proof corrected the
property: nginx without a version in its banner gives no grounds for a version matcher, and a plugin may
name no ports. Only files *before* the plugin's own have to parse.
`OnlySilenceHolds` and `AssessmentAdvances` are the safety part of `EndsUnlessHeld`: an assessment that
is held is held by the peer it is in contact with (`Queueing` and `Collecting` say which that is), which
takes the connection and leaves it without an answer where no deadline is set, and every step
of any other enters a later phase, takes a port off its list or begins the contact of one.
`VersionsAreOrdered` says that `compareVersions`' answers are antisymmetric and that "earlier"
is transitive for sequences of any length.

`ScopeGuardProofs` (assumes that powers of two are positive, which the provers cannot derive):
`TypeCorrect`, `OnlyScopeIsDialled`, `NamesInScope`, `OnlyNetworksBlocked`. The code clears the host bits
of addresses and compares; a scope is meant as "the leading bits agree". `SamePrefix` shows, by
uniqueness of quotient and remainder, that these are one relation, and so
`AllowedMeansWithin` that `IsIPAllowed` on a compiled guard is membership in the scope. The
invariant then says for each branch of `ValidateAndResolve` what is kept and what of it was
tested: `Singles` the address itself, `Names` every record read so far, `Networks` only the address as
written, which need not be the one the scan goes on with; `Decided` is the preflight check.

`EnumerationProofs` (assumes also that the batch limit is below the number of addresses, as 256
is below 2^32, and that powers of two divide the number of addresses): `EnumeratesFromItsNetwork`.
`Room` shows that a network lies between zero and the last address, `NextAddress` that the loop
variable after `c` addresses is in the network iff `c` is below its size, the wrapped case
included; `Walked` then says that what has been kept are the first addresses in order, and how many:
all, or one more than the limit. The theorem claims the start, the order and at least a batch, and not the
one too many, which `guard.go:156` rules out. Without the limit on the batch it is false: a /0 has no address outside it at which the loop could end.

Every invariant the runs check is proved. Only model-checked: liveness (`EveryRunEnds`,
`EveryVerifyReplies`, `EndsUnlessHeld`, the liveness half of `PortSweep`), because fairness and
the question whether a step can be taken are out of the prover's reach.

## 5. Assumptions of the model

* A step is atomic where the code holds a lock or touches one word. The
  unsynchronized map accesses are interleaved as whole reads and writes, or kill
  the process (`Restart`); Go promises no more.
* The refinement of the life cycle is between restarts: a restart may
  take the store back to an older document.
* A marshal sees no half-written finding of a verification (section 2).
* A host shows the same to every contact until it changes; a peer speaks, closes or is silent.
* A read with a deadline returns.
* Equal requests cover equal findings: what a target shows is free in every scan.

## 6. Where the code and its documents differ

Each is a run that TLC answers with a counterexample, and a finding in
`PROJECT.json`.

* `examined`: scans close findings they could not have seen, because
  `IngestScanFindings` is always called with `probedSuccessfully = true`;
  `docs/architecture.md` reserves "confirmed fixed" for a successful re-probe.
* `triage_lost`: an acknowledged disposition is lost by a restart.
* `overlap`: two saves may leave the older document in the file.
* `rescan`: a rescan leaves the stored finding pointing at the item of an
  earlier scan, as `GroupFindings` writes to the objects of its own scan.
* `verify_silent`: a verification takes the timeout of a host that does not answer for a closed port
  and marks the finding fixed, an accepted risk too; `docs/architecture.md` has `unverified_absent`
  for a host that timed out, "rather than claiming a fix". In that run a dial is accepted or silent,
  so no refusal explains the step.
* `epochs`: a package with an epoch is compared as if the epoch were the first number
  of its version; `docs/plugin-guide.md` says epochs are understood.

Met on the way and modelled as the code has it, without a run of their own. The properties that
hold are worded so that they do not claim the contrary:

* A silent peer at one of seven ports, or a silent SSH server, keeps a scan "running" for ever
  (`EndsUnlessHeld` and `EveryRunEnds` except just that).
* On the ports of the TLS list `Identify` skips the handshake that would have filled in the TLS facts, so an
  expired certificate on 443 is never reported, by a plugin that is for those ports;
  `docs/scan-and-reachability.md:32` promises validity windows. `ShownFlawsAreReported` is about
  banners and versions.
* `listening_and_loaded` is given without a look at what is loaded, which `models.go:49` and
  `docs/scan-and-reachability.md:60` ask for, and to a socket on `[::ffff:127.0.0.1]`, which `isLocalhost`
  does not know; `docs/deployment-and-testvm.md:84` shows `listening_process` for a port where the
  code would say `listening_and_loaded`, had it the facts. `ReachabilityHasGrounds` says which socket there
  was. The first socket of a port decides, so a loopback one listed first hides a public one.
* A version text without a number counts as 0 and is earlier than every fix, so OpenSSH 9.5 for Windows and
  any later one is flagged (`FindingsHaveGrounds` excepts it).
* A plugin of a class that is not in the table runs under every ceiling.
* An enumeration returns 257 addresses where `guard.go:156` says "max 256 for batch safety", and tests one of
  them where `guard.go:127` says "verifies every resolved IP is within scope". What is dialled is in
  scope (`DialsInScope`), because only the first address is used, after a check of its own.
* A verification dials without the guard (`server.go:518`), against `docs/architecture.md:50`; `DialsInScope`
  is about scans.
* A command-line scan on the server's file takes back what the server saved meanwhile
  (`FileAgrees` still holds of it).
* The fatal concurrent access to the store's maps (`server.go:507`) is not modelled and no property is
  about it; a process that dies of it restarts like any other.

## 7. Plan

Done, in this order: `PortSweep`/`PortScanner` with proofs; `FindingStore`,
`FindingLifecycle`, `ScanServer` with proofs; `ScopeGuard`; the shared data file and
failing writes in `ScanServer`; the proof of the refinement of `FindingLifecycle`;
`PortSpec`, `ServiceProbe`, `HostFacts`, `PluginEngine`, `HostAssessment` with proofs; the
proofs about `ScopeGuard`, about remediation items and about the enumeration of networks; the
proofs about the sums over all diffs, about shown flaws and about the progress of goroutines.

Next: `FixedAt` and the service lists of assets in `FindingStore`, and invariants about them.

## 8. Not modelled

* `CheckHostLiveness` and `RegisterPlugin`: nothing in the program calls them.
  `checkPackageProcessState` is called for findings without a port, and there are none.
* The text of regular expressions, banners, CPEs and command output; the map gives each
  probe what its expressions pick out.
* Severity, risk score, evidence, logs, phase and progress of a run, remediation scripts and
  their wording: they are shown and decide nothing above.
* IPv6, apart from records of a DNS answer that the guard skips.
* The web page, the SQL schema (no code reads it) and deployment scripts (that
  systemd restarts the server is `Restart`). Of the plugin content, five plugins are
  instances in `MCHostAssessment`.
