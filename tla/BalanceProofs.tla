---------------------------- MODULE BalanceProofs ----------------------------
(***************************************************************************)
(* The sums over the diffs of all runs: for any number of scans, findings, *)
(* verification rescans and triages, as long as the server has not been    *)
(* restarted.                                                              *)
(***************************************************************************)
EXTENDS LifecycleProofs, FiniteSetTheorems

\* The runs that count k in column c.
Counting(k, c) == {s \in Scans : k \in Ledger[s][c]}

\* Every sum starts from nothing and grows by one run at a time.
Finite == \A k \in Keys, c \in Columns : IsFiniteSet(Counting(k, c))

\* A finding that is not stored was never reopened: Detected starts it from zero.
Unborn == \A k \in Keys : findings[k].state = "absent" => findings[k].reopened = 0

Counted(k) ==
  /\ Cardinality(Counting(k, "new")) = (IF findings[k].state = "absent" THEN 0 ELSE 1)
  /\ Cardinality(Counting(k, "reopened")) = findings[k].reopened
  /\ "open" \notin TriageStates =>
       Cardinality(Counting(k, "fixed")) + OpenNow(k)
         <= Cardinality(Counting(k, "new")) + Cardinality(Counting(k, "reopened"))

\* Only where nothing but a scan moves findings is the last one an equality.
ScansAlone == Verifiers = {} /\ TriageStates = {}

Telescoped(k) ==
  ScansAlone => Cardinality(Counting(k, "new")) + Cardinality(Counting(k, "reopened"))
                  = Cardinality(Counting(k, "fixed")) + OpenNow(k)

Sums == Finite /\ Unborn /\ \A k \in Keys : Counted(k) /\ Telescoped(k)

BInv == IInv /\ (crashes = 0 => LInv /\ Sums)

-----------------------------------------------------------------------------
\* A finding is in no column of a diff that does not count it.
LEMMA NotInColumns ==
  ASSUME NEW d \in Diff, NEW k, k \notin InColumns(d), NEW c \in Columns
  PROVE  k \notin d[c]
BY DEF Diff, InColumns, Columns

\* The columns other than the one a finding is put into, and the other findings
\* in that one, are as they were.
LEMMA ColumnUpdated ==
  ASSUME NEW d \in Diff, NEW k, NEW c \in Columns, NEW b \in Columns, NEW j
  PROVE  j \in [d EXCEPT ![c] = @ \cup {k}][b] <=> (j \in d[b] \/ (j = k /\ b = c))
<1>1. d \in [Columns -> SUBSET Keys]
  BY DiffsAreFunctions
<1> QED BY <1>1

\* What an iteration does to the ledger.
LEMMA IterationLedger ==
  ASSUME LInv, NEW s \in Scans, NEW k \in Keys, Iteration(s, k)
  PROVE  /\ Ledger[s] = job[s].diff
         /\ Ledger'[s] = job'[s].diff
         /\ \A t \in Scans : t # s => Ledger'[t] = Ledger[t]
BY DEF Iteration, Ledger

\* One more run counts k in column c; no other sum changes.
LEMMA OneMore ==
  ASSUME LInv, NEW s \in Scans, NEW k \in Keys, Iteration(s, k), Finite,
         NEW c \in Columns, job'[s].diff = [job[s].diff EXCEPT ![c] = @ \cup {k}]
  PROVE  /\ Finite'
         /\ \A j \in Keys, b \in Columns :
              Cardinality(Counting(j, b)') =
                IF j = k /\ b = c THEN Cardinality(Counting(j, b)) + 1 ELSE Cardinality(Counting(j, b))
<1>1. /\ Ledger[s] = job[s].diff /\ Ledger'[s] = job'[s].diff
      /\ \A t \in Scans : t # s => Ledger'[t] = Ledger[t]
  BY IterationLedger
<1>2. job[s].diff \in Diff /\ k \notin InColumns(job[s].diff)
  BY DEF Iteration
<1>3. ASSUME NEW j \in Keys, NEW b \in Columns
      PROVE  /\ IsFiniteSet(Counting(j, b)')
             /\ Cardinality(Counting(j, b)') =
                  IF j = k /\ b = c THEN Cardinality(Counting(j, b)) + 1 ELSE Cardinality(Counting(j, b))
  <2>1. j \in Ledger'[s][b] <=> (j \in Ledger[s][b] \/ (j = k /\ b = c))
    <3>1. j \in [Ledger[s] EXCEPT ![c] = @ \cup {k}][b] <=> (j \in Ledger[s][b] \/ (j = k /\ b = c))
      BY <1>1, <1>2, ColumnUpdated
    <3> QED BY <1>1, <3>1
  <2>2. IsFiniteSet(Counting(j, b))
    BY DEF Finite
  <2>3. CASE j = k /\ b = c
    <3>1. s \notin Counting(j, b)
      BY <1>1, <1>2, <2>3, NotInColumns DEF Counting
    <3>2. Counting(j, b)' = Counting(j, b) \cup {s}
      BY <1>1, <2>1, <2>3 DEF Counting
    <3> DEFINE C == Counting(j, b)
    <3>3. IsFiniteSet(C \cup {s}) /\ Cardinality(C \cup {s}) = Cardinality(C) + 1
      <4> HIDE DEF C
      <4> QED BY <2>2, <3>1, FS_AddElement DEF C
    <3> QED BY <2>3, <3>2, <3>3
  <2>4. CASE ~(j = k /\ b = c)
    <3>1. Counting(j, b)' = Counting(j, b)
      BY <1>1, <2>1, <2>4 DEF Counting
    <3> QED BY <2>2, <2>4, <3>1
  <2> QED BY <2>3, <2>4
<1> QED BY <1>3 DEF Finite

-----------------------------------------------------------------------------
\* Where the ledger and the findings' states and counts stay, so do the sums.
Kept == /\ \A k \in Keys : /\ findings'[k].state = findings[k].state
                           /\ findings'[k].reopened = findings[k].reopened

\* A ledger that does not change leaves every sum.
LEMMA SameCounting ==
  ASSUME \A s \in Scans : Ledger'[s] = Ledger[s]
  PROVE  \A k, c : Counting(k, c)' = Counting(k, c)
BY DEF Counting

\* A step that moves no finding and changes no ledger.
LEMMA KeptSums ==
  ASSUME Sums, Kept, \A s \in Scans : Ledger'[s] = Ledger[s]
  PROVE  Sums'
<1>1. \A k, c : Counting(k, c)' = Counting(k, c)
  BY SameCounting
<1> QED BY <1>1 DEF Sums, Finite, Unborn, Counted, Telescoped, ScansAlone, OpenNow, Kept

\* The life cycle charges every move of a finding that it does not put down to a
\* person or a verification to a run: without a move no ledger changes.
LEMMA LedgerNeedsMove ==
  ASSUME LInv, Simulated, \A k \in Keys : findings'[k].state = findings[k].state
  PROVE  \A s \in Scans : Ledger'[s] = Ledger[s]
<1>1. StateOf' = StateOf
  BY DEF StateOf
<1>2. ASSUME NEW s \in Scans, NEW k \in Keys, Lifecycle!Scan(s, k)
      PROVE  FALSE
  <2>1. PICK to : to # StateOf[k] /\ StateOf' = [StateOf EXCEPT ![k] = to]
    BY <1>2 DEF Lifecycle!Scan, Lifecycle!Appear, Lifecycle!Reopen, Lifecycle!Close,
                Lifecycle!Vanish, Lifecycle!Account, StateOf
  <2>2. StateOf'[k] = to
    BY <2>1 DEF StateOf
  <2> QED BY <1>1, <2>1, <2>2
<1>3. CASE Lifecycle!Next
  BY <1>2, <1>3 DEF Lifecycle!Next, Lifecycle!Triage, Lifecycle!VerifyFixed
<1> QED BY <1>3 DEF Simulated

\* A finding that a person or a verification has moved was stored and stays so; no
\* run counts the move.
LEMMA MovedSums ==
  ASSUME IInv, Sums, ~ScansAlone, \A s \in Scans : Ledger'[s] = Ledger[s],
         \A k \in Keys :
           /\ findings'[k].reopened = findings[k].reopened
           /\ \/ findings'[k].state = findings[k].state
              \/ /\ findings[k].state # "absent" /\ findings'[k].state # "absent"
                 /\ findings'[k].state = "open" => "open" \in TriageStates
  PROVE  Sums'
<1>1. \A k, c : Counting(k, c)' = Counting(k, c)
  BY SameCounting
<1>2. Finite' /\ Unborn'
  BY <1>1 DEF Sums, Finite, Unborn
<1>3. ASSUME NEW k \in Keys PROVE Counted(k)'
  <2>1. Cardinality(Counting(k, "fixed")) \in Nat
    BY FS_CardinalityType DEF Sums, Finite, Columns
  <2>2. /\ Cardinality(Counting(k, "new"))' = Cardinality(Counting(k, "new"))
        /\ Cardinality(Counting(k, "reopened"))' = Cardinality(Counting(k, "reopened"))
        /\ Cardinality(Counting(k, "fixed"))' = Cardinality(Counting(k, "fixed"))
    BY <1>1
  <2>3. Counted(k) /\ findings[k].reopened \in Nat
    BY DEF Sums, IInv, TypeOK, Finding
  <2> QED BY <2>1, <2>2, <2>3 DEF Counted, OpenNow
<1> QED BY <1>2, <1>3 DEF Sums, Telescoped, ScansAlone

\* An iteration moves the finding and adds the run to the sum the move belongs to.
LEMMA IterationSums ==
  ASSUME IInv, LInv, Sums, NEW s \in Scans, NEW k \in Keys, Iteration(s, k)
  PROVE  Sums'
<1> DEFINE n(j, b) == Cardinality(Counting(j, b))
           m(j, b) == Cardinality(Counting(j, b)')
<1>1. Finite /\ \A j \in Keys, b \in Columns : n(j, b) \in Nat
  BY FS_CardinalityType DEF Sums, Finite
<1>2. \A j \in Keys : j # k => findings'[j] = findings[j]
  BY DEF Iteration
<1>3. \A j \in Keys : findings[j].reopened \in Nat
  BY DEF IInv, TypeOK, Finding
<1>4. ASSUME NEW c \in {"new", "reopened", "fixed"},
             job'[s].diff = [job[s].diff EXCEPT ![c] = @ \cup {k}],
             findings'[k].reopened =
               (IF c = "new" THEN 0
                ELSE IF c = "reopened" THEN findings[k].reopened + 1 ELSE findings[k].reopened),
             c = "new" => findings[k].state = "absent" /\ findings'[k].state = "open",
             c = "reopened" => /\ findings[k].state \in {"fixed", "unverified_absent"}
                               /\ findings'[k].state = "open",
             c = "fixed" => findings[k].state = "open" /\ findings'[k].state = "fixed"
      PROVE  Sums'
  <2>1. c \in Columns /\ \A b \in {"new", "reopened", "fixed"} : b \in Columns
    BY DEF Columns
  <2>2. /\ Finite'
        /\ \A j \in Keys, b \in Columns :
             m(j, b) = IF j = k /\ b = c THEN n(j, b) + 1 ELSE n(j, b)
    BY <1>1, <1>4, <2>1, OneMore
  <2>3. Unborn'
    BY <1>2, <1>4 DEF Sums, Unborn
  <2>4. ASSUME NEW j \in Keys PROVE Counted(j)' /\ Telescoped(j)'
    <3>1. /\ \A b \in {"new", "reopened", "fixed"} : n(j, b) \in Nat
          /\ \A b \in {"new", "reopened", "fixed"} :
               m(j, b) = IF j = k /\ b = c THEN n(j, b) + 1 ELSE n(j, b)
      BY <1>1, <2>1, <2>2
    <3>2. /\ n(j, "new") = (IF findings[j].state = "absent" THEN 0 ELSE 1)
          /\ n(j, "reopened") = findings[j].reopened
          /\ "open" \notin TriageStates =>
               n(j, "fixed") + OpenNow(j) <= n(j, "new") + n(j, "reopened")
          /\ ScansAlone => n(j, "new") + n(j, "reopened") = n(j, "fixed") + OpenNow(j)
          /\ findings[j].state = "absent" => findings[j].reopened = 0
      BY DEF Sums, Counted, Telescoped, Unborn
    <3> HIDE DEF n, m
    <3>3. /\ m(j, "new") = (IF findings'[j].state = "absent" THEN 0 ELSE 1)
          /\ m(j, "reopened") = findings'[j].reopened
          /\ "open" \notin TriageStates =>
               m(j, "fixed") + OpenNow(j)' <= m(j, "new") + m(j, "reopened")
          /\ ScansAlone => m(j, "new") + m(j, "reopened") = m(j, "fixed") + OpenNow(j)'
      <4>1. CASE j # k
        BY <1>2, <3>1, <3>2, <4>1 DEF OpenNow
      <4>2. CASE j = k /\ c = "new"
        BY <1>4, <3>1, <3>2, <4>2 DEF OpenNow
      <4>3. CASE j = k /\ c = "reopened"
        BY <1>3, <1>4, <3>1, <3>2, <4>3 DEF OpenNow
      <4>4. CASE j = k /\ c = "fixed"
        BY <1>4, <3>1, <3>2, <4>4 DEF OpenNow
      <4> QED BY <4>1, <4>2, <4>3, <4>4
    <3> USE DEF n, m
    <3> QED BY <3>3 DEF Counted, Telescoped, ScansAlone
  <2> QED BY <2>2, <2>3, <2>4 DEF Sums
<1>5. CASE findings'[k] = findings[k] /\ job'[s].diff = job[s].diff
  <2>1. \A t \in Scans : Ledger'[t] = Ledger[t]
    BY <1>5, IterationLedger
  <2>2. Kept
    BY <1>2, <1>5 DEF Kept
  <2> QED BY <2>1, <2>2, KeptSums
<1>6. Moves(job[s].diff, job'[s].diff, findings[k], findings'[k], k)
  BY DEF Iteration
<1> QED BY <1>4, <1>5, <1>6 DEF Moves

-----------------------------------------------------------------------------
\* An empty store and no run: all sums are zero.
LEMMA SumsInit ==
  ASSUME Init
  PROVE  Sums
<1>1. \A s \in Scans : Ledger[s] = NoDiff
  BY DEF Init, Ledger, NoRun, NoJob
<1>2. ASSUME NEW k \in Keys, NEW c \in Columns
      PROVE  Counting(k, c) = {}
  BY <1>1, NoDiffEmpty DEF Counting
<1>3. \A k \in Keys : findings[k].state = "absent" /\ findings[k].reopened = 0
  BY DEF Init, NoFindings, Absent
<1>4. Finite /\ \A k \in Keys, c \in {"new", "fixed", "reopened"} : Cardinality(Counting(k, c)) = 0
  BY <1>2, FS_EmptySet DEF Finite, Columns
<1> QED BY <1>3, <1>4 DEF Sums, Unborn, Counted, Telescoped, OpenNow

\* A step of a scan outside the two loops moves no finding.
LEMMA ScanKeeps ==
  ASSUME IInv, NEW s \in Scans,
         Scan(s) \/ Hang(s) \/ \E r \in Requests : Submit(s, r),
         \A k \in Keys : ~IngestSeen(s, k) /\ ~IngestMissing(s, k)
  PROVE  Kept
<1>1. CASE GroupFindings(s)
  BY <1>1 DEF GroupFindings, Kept, IInv, TypeOK, Finding
<1>2. CASE ~GroupFindings(s)
  <2>1. findings' = findings
    BY <1>2 DEF Scan, Ingest, Save, Hang, Submit, Authorize, Reject, ProbeTarget, InspectHost,
       RecordAsset, Evaluate, IngestLock, IngestTurn, IngestUnlock, RecordDiff, PublishItems, Finish,
       SaveNothing, MarshalFindings, MarshalRest, Truncate, WriteFile, SaveFails, memory
  <2> QED BY <2>1 DEF Kept
<1> QED BY <1>1, <1>2

\* Every step but a restart.
LEMMA SumsStep ==
  ASSUME IInv, LInv, Sums, [Next]_vars, ~Restart
  PROVE  Sums'
<1>1. IInv' /\ Simulated
  BY InvariantStep, LifecycleStep
<1>2. ASSUME Kept PROVE Sums'
  BY <1>1, <1>2, LedgerNeedsMove, KeptSums DEF Kept
<1>3. CASE UNCHANGED vars
  BY <1>2, <1>3 DEF vars, Kept
<1>4. ASSUME NEW s \in Scans, Scan(s) \/ Hang(s) \/ \E r \in Requests : Submit(s, r)
      PROVE  Sums'
  <2>1. CASE \A k \in Keys : ~IngestSeen(s, k) /\ ~IngestMissing(s, k)
    BY <1>2, <1>4, <2>1, ScanKeeps
  <2>2. ASSUME NEW k \in Keys, IngestSeen(s, k) \/ IngestMissing(s, k)
        PROVE  Sums'
    BY <1>1, <2>2, SeenIterates, MissingIterates, IterationSums
  <2> QED BY <2>1, <2>2
<1>5. ASSUME NEW v \in Verifiers, Verify(v) \/ AskVerify(v)
      PROVE  Sums'
  <2>1. ASSUME NEW answer, VerifyDialed(v, answer) PROVE Sums'
    <3>1. \A s \in Scans : Ledger'[s] = Ledger[s]
      BY <2>1 DEF VerifyDialed, Ledger
    <3>2. \A k \in Keys : /\ findings'[k].reopened = findings[k].reopened
                         /\ \/ findings'[k].state = findings[k].state
                            \/ findings[k].state # "absent" /\ findings'[k].state = "fixed"
      BY <2>1 DEF VerifyDialed, IInv, TypeOK, Finding, Checked, Stored
    <3> QED BY <3>1, <3>2, MovedSums DEF ScansAlone
  <2>2. CASE \A answer : ~VerifyDialed(v, answer)
    <3>1. findings' = findings
      BY <1>5, <2>2 DEF Verify, AskVerify, VerifyBegin, VerifyPick, VerifyEnd, VerifyReply, Save,
         SaveNothing, MarshalFindings, MarshalRest, Truncate, WriteFile, SaveFails, memory
    <3> QED BY <1>2, <3>1 DEF Kept
  <2> QED BY <2>1, <2>2
<1>6. ASSUME NEW k \in Keys, NEW st \in TriageStates, Triage(k, st)
      PROVE  Sums'
  <2>1. \A s \in Scans : Ledger'[s] = Ledger[s]
    BY <1>6 DEF Triage, Ledger
  <2>2. \A j \in Keys : /\ findings'[j].reopened = findings[j].reopened
                       /\ \/ findings'[j].state = findings[j].state
                          \/ findings[j].state # "absent" /\ findings'[j].state = st
    BY <1>6 DEF Triage, Stored, IInv, TypeOK, Finding
  <2>3. st # "absent"
    BY TriageAssumption
  <2> QED BY <2>1, <2>2, <2>3, MovedSums DEF ScansAlone
<1>7. CASE CommandLine \/ Tick
  <2>1. findings' = findings
    BY <1>7 DEF CommandLine, CliOpen, CliScan, CliQuit, CliTruncate, CliWrite, Tick, memory
  <2> QED BY <1>2, <2>1 DEF Kept
<1> QED BY <1>3, <1>4, <1>5, <1>6, <1>7 DEF Next

\* Only a restart counts as one.
LEMMA CrashesStay ==
  ASSUME [Next]_vars, ~Restart
  PROVE  crashes' = crashes
<1>1. ASSUME NEW g, Save(g) PROVE crashes' = crashes
  BY <1>1 DEF Save, SaveNothing, MarshalFindings, MarshalRest, Truncate, WriteFile, SaveFails, world
<1>2. ASSUME NEW s \in Scans, Ingest(s) PROVE crashes' = crashes
  BY <1>2 DEF Ingest, IngestLock, IngestSeen, IngestTurn, IngestMissing, IngestUnlock, world
<1>3. ASSUME NEW s \in Scans, Scan(s) \/ Hang(s) \/ \E r \in Requests : Submit(s, r)
      PROVE  crashes' = crashes
  BY <1>1, <1>2, <1>3 DEF Scan, Hang, Submit, Authorize, Reject, ProbeTarget, InspectHost,
     RecordAsset, Evaluate, RecordDiff, GroupFindings, PublishItems, Finish, world
<1>4. ASSUME NEW v \in Verifiers, Verify(v) \/ AskVerify(v)
      PROVE  crashes' = crashes
  BY <1>1, <1>4 DEF Verify, AskVerify, VerifyBegin, VerifyPick, VerifyDialed, VerifyEnd, VerifyReply, world
<1>5. CASE CommandLine \/ Tick
  BY <1>5 DEF CommandLine, CliOpen, CliScan, CliQuit, CliTruncate, CliWrite, Tick
<1>6. ASSUME NEW k \in Keys, NEW st \in TriageStates, Triage(k, st)
      PROVE  crashes' = crashes
  BY <1>6 DEF Triage, world
<1>7. CASE UNCHANGED vars
  BY <1>7 DEF vars
<1> QED BY <1>3, <1>4, <1>5, <1>6, <1>7 DEF Next

\* A restart ends what the sums are about; nothing else disturbs them.
LEMMA BInvStep == BInv /\ [Next]_vars => BInv'
<1> SUFFICES ASSUME BInv, [Next]_vars PROVE BInv'
  OBVIOUS
<1>1. IInv'
  BY InvariantStep DEF BInv
<1>2. CASE Restart
  BY <1>1, <1>2 DEF BInv, Restart, IInv, TypeOK
<1>3. CASE ~Restart
  <2>1. ASSUME crashes' = 0 PROVE LInv' /\ Sums'
    <3>1. crashes = 0
      BY <1>3, <2>1, CrashesStay
    <3> QED BY <1>3, <3>1, LifecycleStep, SumsStep DEF BInv, Simulated
  <2> QED BY <1>1, <2>1 DEF BInv
<1> QED BY <1>2, <1>3

\* The invariant holds throughout.
LEMMA BInvAlways == Safety => []BInv
<1>1. Init => BInv
  BY LifecycleInit, SumsInit DEF BInv, LInv
<1>2. BInv /\ [Next]_vars => BInv'
  BY BInvStep
<1> QED BY <1>1, <1>2, PTL DEF Safety

\* Two goroutines may write the same finding between a scan's two loops, and the
\* diff is copied to the run under another lock than the one it was counted
\* under: still, until a restart, every stored finding is in the NEW column of
\* exactly one run, in the REOPENED column of as many as its ReopenedCount, and
\* confirmed fixed no more often than it was opened.
THEOREM MovesReported == Safety => []MovesAreReported
<1>1. BInv => MovesAreReported
  BY DEF BInv, Sums, Counted, Counting, Reports, MovesAreReported
<1> QED BY <1>1, BInvAlways, PTL

\* Where only scans move findings the diffs of all runs add up to where each
\* finding is now.
THEOREM DiffsBalance ==
  ASSUME Verifiers = {}, TriageStates = {}
  PROVE  Safety => []DiffBalances
<1>1. BInv => DiffBalances
  BY DEF BInv, Sums, Counted, Telescoped, ScansAlone, Counting, Reports, DiffBalances
<1> QED BY <1>1, BInvAlways, PTL

\* With restarts the server implements the life cycle up to the first of them.
THEOREM LifecycleUntilRestart ==
  Safety => [][crashes' = 0 => [Lifecycle!Next]_(Lifecycle!lifeVars)]_vars
<1>1. ASSUME BInv, [Next]_vars, crashes' = 0
      PROVE  [Lifecycle!Next]_(Lifecycle!lifeVars)
  <2>1. ~Restart
    BY <1>1 DEF Restart, BInv, IInv, TypeOK
  <2>2. LInv
    BY <1>1, <2>1, CrashesStay DEF BInv
  <2> QED BY <1>1, <2>1, <2>2, LifecycleStep DEF Simulated, Lifecycle!lifeVars, StateOf
<1>2. BInv /\ [Next]_vars => [crashes' = 0 => [Lifecycle!Next]_(Lifecycle!lifeVars)]_vars
  BY <1>1
<1> QED BY <1>2, BInvAlways, PTL DEF Safety
=============================================================================
