----------------------------- MODULE ScopeGuard -----------------------------
(***************************************************************************)
(* Compile, IsIPAllowed, ValidateAndResolve and PreFlightSocketCheck       *)
(* (pkg/scope/guard.go), and the scan that uses them: one scope, one       *)
(* target, from Compile to the sockets (pkg/server/server.go and           *)
(* cmd/sieve/main.go take the same way).                                   *)
(*                                                                         *)
(* Addresses are the IPv4 addresses, W bits wide; IPv6 records of a DNS    *)
(* answer are all V6.  An entry is told apart by its value alone, as in    *)
(* the code: ScopeEntry.Kind is never read.                                *)
(***************************************************************************)
EXTENDS Naturals, Sequences
Ext == INSTANCE SequencesExt

CONSTANTS W,        \* bits of an address (32)
          Batch,    \* addresses after which an enumeration is cut (256)
          Scopes,   \* the scopes given to Compile
          Targets,  \* the targets given to ValidateAndResolve
          Answers,  \* what a DNS lookup may return; << >> is no record or an error
          V6        \* any IPv6 record

Address == 0..(2^W - 1)
Form == {"net", "ip", "name", "bad"}   \* "bad" has a slash and is no CIDR
Entry == [form : Form, ip : Address, len : 0..W]

ASSUME WAssumption == W \in Nat
\* Arithmetic: the provers know nothing of ^.
ASSUME PowerAssumption == \A k \in 0..W : 2^k \in Nat \ {0}
ASSUME DivisorAssumption == \A k \in 0..W : \E q \in 1..2^W : 2^W = 2^k * q
\* A batch that held all addresses would go round twice: /0 has no end.
ASSUME BatchAssumption == Batch \in Nat \ {0} /\ Batch < 2^W
ASSUME ScopesAssumption ==
  \A s \in Scopes : /\ s.status \in {"active", "", "pending", "expired", "revoked"}
                    /\ s.entries \subseteq Entry /\ s.exclusions \subseteq Entry
ASSUME TargetsAssumption == Targets \subseteq Entry
ASSUME AnswersAssumption ==
  \A a \in Answers : a \in Seq(Address \cup {V6})

VARIABLES scope, target,  \* the inputs
          guard,          \* the compiled guard
          phase,          \* where the scan stands
          answer, read,   \* what the lookup returned, and the records the loop has read
          curr, ips,      \* the loop variable and the result of ValidateAndResolve
          dialed          \* addresses a socket was opened to

vars == <<scope, target, guard, phase, answer, read, curr, ips, dialed>>

\* ipNet.IP of a CIDR: the address with its host bits cleared.
Masked(ip, len) == ip - (ip % 2^(W - len))

Nets(es) == {[base |-> Masked(e.ip, e.len), len |-> e.len] : e \in {x \in es : x.form = "net"}}
Ips(es) == {e.ip : e \in {x \in es : x.form = "ip"}}
EmptyGuard == [allowedNets |-> {}, allowedIPs |-> {}, excludeNets |-> {}, excludeIPs |-> {}]

Phase == {"compile", "resolve", "enumerate", "records", "scan", "dial", "refused", "blocked", "done"}
Accepted == phase \in {"scan", "dial", "blocked", "done"}

\* Every variable has its type: what is kept of an answer are IPv4 addresses, and
\* the loop variable stays an address where the enumeration wraps.
TypeOK ==
  /\ scope \in Scopes /\ target \in Targets
  /\ phase \in Phase
  /\ answer \in Answers \cup {<< >>} /\ read \in 0..Len(answer)
  /\ curr \in Address
  /\ ips \in Seq(Address)
  /\ dialed \subseteq Address

Init ==
  /\ scope \in Scopes /\ target \in Targets
  /\ guard = EmptyGuard
  /\ phase = "compile"
  /\ answer = << >> /\ read = 0 /\ curr = 0 /\ ips = << >> /\ dialed = {}

-----------------------------------------------------------------------------
\* Compile.  A scope that is not active and any CIDR that does not parse, in
\* an inclusion or an exclusion, refuse the scan.  Names are only stored:
\* no later step reads allowedHosts or excludeHosts.
Compiles(s) == /\ s.status \in {"active", ""}
               /\ \A e \in s.entries \cup s.exclusions : e.form # "bad"

Compile ==
  /\ phase = "compile" /\ Compiles(scope)
  /\ guard' = [allowedNets |-> Nets(scope.entries), allowedIPs |-> Ips(scope.entries),
               excludeNets |-> Nets(scope.exclusions), excludeIPs |-> Ips(scope.exclusions)]
  /\ phase' = "resolve"
  /\ UNCHANGED <<scope, target, answer, read, curr, ips, dialed>>

CompileRefuses ==
  /\ phase = "compile" /\ ~Compiles(scope)
  /\ phase' = "refused"
  /\ UNCHANGED <<scope, target, guard, answer, read, curr, ips, dialed>>

Contains(net, ip) == Masked(ip, net.len) = net.base

Excluded(ip) == ip \in guard.excludeIPs \/ \E n \in guard.excludeNets : Contains(n, ip)

\* Exclusions first.  Active is set by NewScopeGuard and never cleared.
IsIPAllowed(ip) ==
  /\ ~Excluded(ip)
  /\ ip \in guard.allowedIPs \/ \E n \in guard.allowedNets : Contains(n, ip)

-----------------------------------------------------------------------------
\* ValidateAndResolve, by the form of the target.

ResolveIP ==
  /\ phase = "resolve" /\ target.form = "ip" /\ IsIPAllowed(target.ip)
  /\ ips' = <<target.ip>>
  /\ phase' = "scan"
  /\ UNCHANGED <<scope, target, guard, answer, read, curr, dialed>>

\* Fault: the loop starts at the address as written.
ResolveNetUnmasked ==
  /\ phase = "resolve" /\ target.form = "net" /\ IsIPAllowed(target.ip)
  /\ curr' = target.ip
  /\ phase' = "enumerate"
  /\ UNCHANGED <<scope, target, guard, answer, read, ips, dialed>>

\* Only the address as written is tested; the loop starts at the network's.
ResolveNet ==
  /\ phase = "resolve" /\ target.form = "net" /\ IsIPAllowed(target.ip)
  /\ curr' = Masked(target.ip, target.len)
  /\ phase' = "enumerate"
  /\ UNCHANGED <<scope, target, guard, answer, read, ips, dialed>>

\* An address or a network whose address is not allowed; a malformed CIDR or,
\* to the same effect, an empty target.
ResolveRefuses ==
  /\ phase = "resolve"
  /\ \/ target.form \in {"ip", "net"} /\ ~IsIPAllowed(target.ip)
     \/ target.form = "bad"
  /\ phase' = "refused"
  /\ UNCHANGED <<scope, target, guard, answer, read, curr, ips, dialed>>

\* Fault: the carry is lost above the last address.
IncIPNoWrap(ip) == ip + 1

\* incIP: the carry runs off the top, so the address wraps.
IncIP(ip) == (ip + 1) % 2^W

InTarget(ip) == Contains([base |-> Masked(target.ip, target.len), len |-> target.len], ip)

\* One turn of the loop; the limit is tested after the append.
Enumerate ==
  /\ phase = "enumerate" /\ InTarget(curr)
  /\ ips' = Append(ips, curr)
  /\ IF Len(ips') > Batch THEN phase' = "scan" /\ UNCHANGED curr
                          ELSE curr' = IncIP(curr) /\ UNCHANGED phase
  /\ UNCHANGED <<scope, target, guard, answer, read, dialed>>

EnumerateEnd ==
  /\ phase = "enumerate" /\ ~InTarget(curr)
  /\ phase' = "scan"
  /\ UNCHANGED <<scope, target, guard, answer, read, curr, ips, dialed>>

\* A name goes to the resolver; an error or an empty answer refuses it.
ResolveName(a) ==
  /\ phase = "resolve" /\ target.form = "name"
  /\ answer' = a
  /\ phase' = IF a = << >> THEN "refused" ELSE "records"
  /\ UNCHANGED <<scope, target, guard, read, curr, ips, dialed>>

\* Fault: only the record that will be dialled is tested.
RecordAllowedFirst(ip) == ips # << >> \/ IsIPAllowed(ip)

\* Fault: the records are taken as they come.
RecordAllowedUntested(ip) == TRUE

RecordAllowed(ip) == IsIPAllowed(ip)

\* One turn of the loop over the records: IPv6 is passed over, an IPv4 record
\* that is not allowed refuses the name, whatever else the answer holds.
Record ==
  /\ phase = "records" /\ read < Len(answer)
  /\ LET ip == answer[read + 1]
     IN  \/ ip = V6 /\ UNCHANGED <<ips, phase>>
         \/ ip # V6 /\ RecordAllowed(ip) /\ ips' = Append(ips, ip) /\ UNCHANGED phase
         \/ ip # V6 /\ ~RecordAllowed(ip) /\ phase' = "refused" /\ UNCHANGED ips
  /\ read' = read + 1
  /\ UNCHANGED <<scope, target, guard, answer, curr, dialed>>

RecordsEnd ==
  /\ phase = "records" /\ read = Len(answer)
  /\ phase' = IF ips = << >> THEN "refused" ELSE "scan"
  /\ UNCHANGED <<scope, target, guard, answer, read, curr, ips, dialed>>

-----------------------------------------------------------------------------
\* The scan: it goes on with the first address only.

\* Fault: the scan trusts ValidateAndResolve.
PreFlightTrusting(ip) == TRUE

PreFlightSocketCheck(ip) == IsIPAllowed(ip)

StartScan ==
  /\ phase = "scan" /\ PreFlightSocketCheck(ips[1])
  /\ phase' = "dial"
  /\ UNCHANGED <<scope, target, guard, answer, read, curr, ips, dialed>>

\* ScanPorts returns the error and the run fails.
ScanBlocked ==
  /\ phase = "scan" /\ ~PreFlightSocketCheck(ips[1])
  /\ phase' = "blocked"
  /\ UNCHANGED <<scope, target, guard, answer, read, curr, ips, dialed>>

\* A probe, a fingerprint or the SSH session.
Dial ==
  /\ phase = "dial"
  /\ dialed' = dialed \cup {ips[1]}
  /\ UNCHANGED <<scope, target, guard, phase, answer, read, curr, ips>>

ScanEnds ==
  /\ phase = "dial"
  /\ phase' = "done"
  /\ UNCHANGED <<scope, target, guard, answer, read, curr, ips, dialed>>

Next == \/ Compile \/ CompileRefuses
        \/ ResolveIP \/ ResolveNet \/ ResolveRefuses
        \/ Enumerate \/ EnumerateEnd
        \/ (\E a \in Answers : ResolveName(a)) \/ Record \/ RecordsEnd
        \/ StartScan \/ ScanBlocked \/ Dial \/ ScanEnds

Spec == Init /\ [][Next]_vars

-----------------------------------------------------------------------------
\* What a scope means, without the guard: an address is in scope if it shares
\* its leading bits with an inclusion and with no exclusion.
Covers(e, ip) == \/ e.form = "ip" /\ ip = e.ip
                 \/ e.form = "net" /\ ip \div 2^(W - e.len) = e.ip \div 2^(W - e.len)
InScope(ip) == /\ scope.status \in {"active", ""}
               /\ \E e \in scope.entries : Covers(e, ip)
               /\ \A e \in scope.exclusions : ~Covers(e, ip)

\* A socket is only opened to an address in scope.  ValidateAndResolve does
\* not ensure that by itself: it tests a CIDR's address as written and returns
\* the network's first, which may be excluded.
DialsInScope == \A ip \in dialed : InScope(ip)

\* A host name whose answer holds one IPv4 record out of scope is not scanned
\* at all, wherever in the answer the record stands.
NamesStayInScope ==
  Accepted /\ target.form = "name" =>
    /\ ips # << >>
    /\ \A i \in DOMAIN answer : answer[i] = V6 \/ InScope(answer[i])

\* A target that was accepted is turned away by the preflight check in one
\* case only: a CIDR written with an address in scope whose network address
\* is not.  Addresses and names are accepted for good.
OnlyNetworksAreBlocked ==
  phase = "blocked" =>
    /\ target.form = "net" /\ InScope(target.ip)
    /\ ~InScope(Masked(target.ip, target.len))

\* What is made of a CIDR are addresses of its network and no others, from
\* the lowest upwards, without a gap and none twice, the whole network or at least
\* a batch of it: also where the addresses wrap, which ipNet.Contains ends for
\* every network but /0, and the limit for that one. It says nothing against the
\* code on two points where the comments promise more: the limit is tested after
\* the append, so there may be Batch + 1 addresses ("max 256 for batch safety"),
\* and only the address as written is looked up in the scope ("verifies every
\* resolved IP is within scope").
Smaller(m, n) == IF m < n THEN m ELSE n
Network == [i \in 1..2^(W - target.len) |-> Masked(target.ip, target.len) + i - 1]
EnumeratesTheNetwork ==
  target.form = "net" =>
    /\ phase = "enumerate" \/ Accepted => Ext!IsPrefix(ips, Network)
    /\ Accepted => Len(ips) >= Smaller(2^(W - target.len), Batch)
==============================================================================
