---------------------------- MODULE FindingStore -----------------------------
(***************************************************************************)
(* The records kept by pkg/storage and what its operations do to one       *)
(* finding.  ScanServer.tla runs these under the two locks of the server.  *)
(***************************************************************************)
EXTENDS Naturals

CONSTANTS Keys,      \* dedup keys: hash(asset, plugin, port, protocol, signature)
          Assets,    \* asset IDs, one per target IP
          AssetOf,   \* dedup key -> the asset it was found on
          Groups,    \* remediation groups: "pkg:nginx", "config:tls-hardening", ...
          GroupOf,   \* dedup key -> its group (deriveGroupKey of the plugin ID)
          NoItem,    \* the empty remediation ID
          TriageStates  \* words a client asks handleFindingState for; any will do

ASSUME AssetOfAssumption == AssetOf \in [Keys -> Assets]
ASSUME GroupOfAssumption == GroupOf \in [Keys -> Groups]

\* rem-<group>-<unix second>
ItemIds == Groups \X Nat

ASSUME NoItemAssumption == NoItem \notin ItemIds

\* "absent" is no word of the program: it marks a dedup key without an entry.
ASSUME TriageAssumption == "absent" \notin TriageStates

Dispositions == {"risk_accepted", "false_positive", "mitigated", "wont_fix"}
\* What scans and verifications write, and whatever word a client has sent.
FindingStates == {"open", "fixed", "unverified_absent"} \cup TriageStates

\* A dedup key with no entry in Store.Findings has state "absent".
Finding == [state : FindingStates \cup {"absent"}, reopened : Nat, item : ItemIds \cup {NoItem}]
Absent == [state |-> "absent", reopened |-> 0, item |-> NoItem]
NoFindings == [k \in Keys |-> Absent]
Stored(f) == {k \in Keys : f[k].state # "absent"}

\* The four columns of a scan diff.  The code counts; the sets say of what.
Diff == [new : SUBSET Keys, fixed : SUBSET Keys, reopened : SUBSET Keys,
         unverified : SUBSET Keys]
NoDiff == [new |-> {}, fixed |-> {}, reopened |-> {}, unverified |-> {}]

\* models.RemediationItem: its ID and the findings it lists.
Item == [id : ItemIds, keys : SUBSET Keys]

\* models.ScanRun: identified by the second it was accepted in.
Run == [id : Nat, status : {"none", "running", "failed", "completed"},
        diff : Diff, found : SUBSET Keys]
NoRun == [id |-> 0, status |-> "none", diff |-> NoDiff, found |-> {}]

-----------------------------------------------------------------------------
(* IngestScanFindings, one iteration of each of its two loops.              *)

\* Fault: only findings that are already stored are written.
DetectedNeverInserts(f) ==
  IF f.state \in {"fixed", "unverified_absent"}
  THEN [f EXCEPT !.state = "open", !.reopened = @ + 1]
  ELSE f

\* The first loop: this scan detected the finding.
Detected(f) ==
  IF f.state = "absent" THEN [Absent EXCEPT !.state = "open"]
  ELSE IF f.state \in {"fixed", "unverified_absent"}
       THEN [f EXCEPT !.state = "open", !.reopened = @ + 1]
       ELSE f

\* Fault: a regression is counted again as new.
DetectedColumnAsNew(d, k, f) ==
  IF f.state \in {"absent", "fixed", "unverified_absent"} THEN [d EXCEPT !.new = @ \cup {k}] ELSE d

\* Fault: whatever is not open counts as reopened, a disposition included.
DetectedColumnOfDisposition(d, k, f) ==
  IF f.state = "absent" THEN [d EXCEPT !.new = @ \cup {k}]
  ELSE IF f.state # "open" THEN [d EXCEPT !.reopened = @ \cup {k}]
  ELSE d

\* The column of the diff that counts it.
DetectedColumn(d, k, f) ==
  IF f.state = "absent" THEN [d EXCEPT !.new = @ \cup {k}]
  ELSE IF f.state \in {"fixed", "unverified_absent"} THEN [d EXCEPT !.reopened = @ \cup {k}]
  ELSE d

\* Fault: the word of another vocabulary.
MissedResolved(f, probed) == IF f.state = "open" THEN [f EXCEPT !.state = "resolved"] ELSE f

\* The second loop: a finding of the scanned asset this scan did not detect.
Missed(f, probed) ==
  IF f.state = "open"
  THEN [f EXCEPT !.state = IF probed THEN "fixed" ELSE "unverified_absent"]
  ELSE f

MissedColumn(d, k, f, probed) ==
  IF f.state # "open" THEN d
  ELSE IF probed THEN [d EXCEPT !.fixed = @ \cup {k}]
  ELSE [d EXCEPT !.unverified = @ \cup {k}]

==============================================================================
