---------------------------- MODULE MCScanServer -----------------------------
(* ScanServer on two assets, three dedup keys (one needs credentials) and   *)
(* two remediation groups, one of which spans both assets.                  *)
EXTENDS ScanServer, TLC

MCAssets == {"a1", "a2"}
MCKeys == {"k1", "k2", "k3"}
MCAssetOf == [k \in MCKeys |-> IF k = "k3" THEN "a2" ELSE "a1"]
MCGroups == {"nginx", "tls"}
MCGroupOf == [k \in MCKeys |-> IF k = "k2" THEN "tls" ELSE "nginx"]
MCCredKeys == {"k2"}

\* All ports of a1 with credentials; one port of a1 without; all of a2.
MCRequests == {[target |-> "a1", cover |-> {"k1", "k2"}, ssh |-> TRUE],
               [target |-> "a1", cover |-> {"k1"}, ssh |-> FALSE],
               [target |-> "a2", cover |-> {"k3"}, ssh |-> FALSE]}

\* One dedup key on each asset.
TwoKeys == {"k1", "k3"}
TwoKeysAssetOf == [k \in TwoKeys |-> MCAssetOf[k]]
TwoKeysGroupOf == [k \in TwoKeys |-> MCGroupOf[k]]
TwoRequests == {[target |-> "a1", cover |-> {"k1"}, ssh |-> FALSE],
                [target |-> "a2", cover |-> {"k3"}, ssh |-> FALSE]}

\* One port of a1, with credentials.
LiveRequests == {[target |-> "a1", cover |-> {"k1"}, ssh |-> TRUE]}

\* One port of a1, without; from the command line too.
OneRequest == {[target |-> "a1", cover |-> {"k1"}, ssh |-> FALSE]}
OneCliRequest == OneRequest

ScanSymmetry == Permutations(Scans)

OneUIState == {"risk_accepted"}
\* A word the life cycle does not have: no one checks what a client sends.
OtherWord == {"closed"}
MCUIStates == {"risk_accepted", "false_positive"}
==============================================================================
