------------------------------ MODULE HostFacts ------------------------------
(***************************************************************************)
(* What a credentialed collection reads (pkg/collector/collector.go) and   *)
(* what the reachability evaluator makes of it (pkg/reachability).         *)
(*                                                                         *)
(* A host is a record: peers (what answers at each of its open ports), os  *)
(* (the ID of /etc/os-release), packages (name -> [epoch, rel]), sockets   *)
(* (the lines of `ss -tulpn` in order: [proto, bind, port, attributed]),   *)
(* attributed when the line shows the account a process.                   *)
(***************************************************************************)
EXTENDS Naturals, Sequences

\* A *HostAuditFact that is nil. OSName, Kernel and Hostname are only logged or
\* shown, Processes is never filled.
NoFacts == [read |-> FALSE, os |-> "", packages |-> << >>, sockets |-> << >>]
HostAuditFact(os, packages, sockets) ==
  [read |-> TRUE, os |-> os, packages |-> packages, sockets |-> sockets]

\* Only a tcp or udp line with its users:(...) column matches reSSLine. The
\* sockets keep the numbers of their lines, which give their order.
ParseListeningSockets(lines) ==
  [i \in {j \in DOMAIN lines : lines[j].attributed} |-> lines[i]]

\* dpkg-query prints the epoch, the format asked of rpm does not.
UsesDpkg(os) == os \in {"ubuntu", "debian"}
WithEpoch(v) == IF v.epoch > 0 THEN <<v.epoch>> \o v.rel ELSE v.rel
Printed(os, v) == IF UsesDpkg(os) THEN WithEpoch(v) ELSE v.rel

\* The one package command that is run fails on a host of the other family: a
\* derivative of debian has an ID of its own and is asked for its rpm packages.
DpkgHosts == {"ubuntu", "debian", "linuxmint"}
PackageList(host, os) ==
  IF UsesDpkg(os) = (host.os \in DpkgHosts)
  THEN [n \in DOMAIN host.packages |-> Printed(os, host.packages[n])]
  ELSE << >>

-----------------------------------------------------------------------------
(* Reachability.                                                            *)

\* isLocalhost knows 127.*, for which 127.0.0.1 stands, ::1 and [::1], and does
\* not know [::ffff:127.0.0.1].
IsLocalhost(bind) == bind \in {"127.0.0.1", "::1", "[::1]"}

Sharing(facts, port) == {i \in DOMAIN facts.sockets : facts.sockets[i].port = port}

\* Fault: no socket of the port counts as a socket the network reaches.
ReachableByDefault(port, facts) ==
  IF \E i \in Sharing(facts, port) : IsLocalhost(facts.sockets[i].bind)
  THEN "listening_process" ELSE "listening_and_loaded"

\* Findings are about a service, so their port is positive: the branches for
\* a finding without a port are not reached. The first socket of the port
\* decides, whatever its protocol.
EvaluateReachability(port, facts) ==
  IF \E i \in Sharing(facts, port) : /\ \A j \in Sharing(facts, port) : i <= j
                                     /\ ~IsLocalhost(facts.sockets[i].bind)
  THEN "listening_and_loaded" ELSE "listening_process"
==============================================================================
