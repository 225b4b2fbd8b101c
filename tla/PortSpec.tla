------------------------------ MODULE PortSpec -------------------------------
(***************************************************************************)
(* ParsePortSpec (pkg/scan/portscan.go) and what the server does with its  *)
(* answer. A specification is the set of its parts, each [from, to] (a     *)
(* single port is both); one that is no number or no range is [0, 0]. {}   *)
(* is "", "default", "top1000" and a list with nothing between its commas; *)
(* {[1, 65535]} is "all" too.                                              *)
(***************************************************************************)
EXTENDS Naturals

DefaultTopPorts ==
  {21, 22, 23, 25, 53, 80, 110, 111, 135, 139, 143, 161, 389, 443, 445, 465, 514, 587, 623, 636,
   873, 902, 989, 990, 993, 995, 1099, 1433, 1521, 1723, 1883, 2049, 2181, 2375, 2376, 2379,
   3000, 3128, 3268, 3306, 3389, 4444, 4786, 5000, 5432, 5555, 5601, 5672, 5900, 5984, 5985,
   5986, 6081, 6379, 6443, 7001, 8000, 8006, 8009, 8080, 8081, 8088, 8089, 8443, 8500, 8888,
   9000, 9042, 9090, 9092, 9200, 9300, 9443, 10000, 11211, 27017, 33060, 50000}

ValidPart(part) == part.from >= 1 /\ part.to <= 65535 /\ part.from <= part.to

\* One part that does not parse is an error, and the scan is of the curated
\* ports then: not of the others that were asked for, and not refused.
PortsToScan(spec) == IF spec = {} \/ \E part \in spec : ~ValidPart(part) THEN DefaultTopPorts
                     ELSE UNION {part.from..part.to : part \in spec}
==============================================================================
