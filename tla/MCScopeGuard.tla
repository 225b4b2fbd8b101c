---------------------------- MODULE MCScopeGuard ----------------------------
(* Three-bit addresses: all networks, single addresses, a name, a bad CIDR. *)
EXTENDS ScopeGuard

Net(ip, len) == [form |-> "net", ip |-> ip, len |-> len]
Single(ip) == [form |-> "ip", ip |-> ip, len |-> W]
Name == [form |-> "name", ip |-> 0, len |-> W]
Bad == [form |-> "bad", ip |-> 0, len |-> W]

\* All networks by their own address, and one written with another.
ScopeNets == {n \in {Net(ip, len) : ip \in Address, len \in 0..W} :
                Masked(n.ip, n.len) = n.ip} \cup {Net(5, 1)}
ScopeEntries == ScopeNets \cup {Single(0), Single(3), Single(7), Name}

MCScopes ==
  [status : {"active"}, entries : {{e} : e \in ScopeEntries} \cup {{Net(0, 2), Single(6)}},
   exclusions : {{}} \cup {{e} : e \in ScopeEntries}]
  \cup [status : {"", "revoked"}, entries : {{Net(0, 0)}, {Net(0, 0), Bad}},
         exclusions : {{}, {Bad}}]

MCTargets == {Net(ip, len) : ip \in Address, len \in 0..W}
             \cup {Single(ip) : ip \in Address} \cup {Name, Bad}

\* Answers of up to two records.
MCAnswers == {<< >>} \cup {<<a>> : a \in Address \cup {V6}}
             \cup {<<a, b>> : a, b \in Address \cup {V6}}
==============================================================================
