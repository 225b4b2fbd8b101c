-------------------------- MODULE FindingLifecycle ---------------------------
(***************************************************************************)
(* The life of a finding and the ledger the scans keep of it: every run's  *)
(* four diff columns record exactly the moves that run made, each at the   *)
(* moment it made it, on findings of one asset and at most once each.  A   *)
(* state a person has set is moved by a person or by a verification,       *)
(* never by a scan.  ScanServer.tla implements it between two restarts.    *)
(* It says who may move a finding and who accounts for it, as the code has *)
(* it, and not on what evidence: the documents ask more of a move to       *)
(* "fixed" than any action here does.                                      *)
(***************************************************************************)
CONSTANTS Keys, AssetOf, Runs, TriageStates

VARIABLES state,   \* dedup key -> "absent" or the state of its finding
          ledger   \* run -> its diff, a set of dedup keys per column

lifeVars == <<state, ledger>>

Columns == {"new", "fixed", "reopened", "unverified"}

Init == /\ state = [k \in Keys |-> "absent"]
        /\ ledger = [r \in Runs |-> [c \in Columns |-> {}]]

Claimed(r) == UNION {ledger[r][c] : c \in Columns}

\* Run r moves finding k and accounts for it.
Account(r, k, column, to) ==
  /\ k \notin Claimed(r)
  /\ \A j \in Claimed(r) : AssetOf[j] = AssetOf[k]
  /\ state' = [state EXCEPT ![k] = to]
  /\ ledger' = [ledger EXCEPT ![r][column] = @ \cup {k}]

Appear(r, k) == state[k] = "absent" /\ Account(r, k, "new", "open")
Reopen(r, k) == state[k] \in {"fixed", "unverified_absent"} /\ Account(r, k, "reopened", "open")
Close(r, k)  == state[k] = "open" /\ Account(r, k, "fixed", "fixed")
Vanish(r, k) == state[k] = "open" /\ Account(r, k, "unverified", "unverified_absent")

Triage(k, to) == /\ state[k] # "absent" /\ to \in TriageStates
                 /\ state' = [state EXCEPT ![k] = to]
                 /\ UNCHANGED ledger

\* A verification fixes a finding, whatever state it was in.
VerifyFixed(k) == /\ state[k] # "absent"
                  /\ state' = [state EXCEPT ![k] = "fixed"]
                  /\ UNCHANGED ledger

Scan(r, k) == Appear(r, k) \/ Reopen(r, k) \/ Close(r, k) \/ Vanish(r, k)

Next == \E k \in Keys : \/ \E r \in Runs : Scan(r, k)
                        \/ \E to \in TriageStates : Triage(k, to)
                        \/ VerifyFixed(k)

Spec == Init /\ [][Next]_lifeVars
==============================================================================
