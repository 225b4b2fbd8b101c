--------------------------- MODULE HostAssessment ----------------------------
(***************************************************************************)
(* What one scan does with the open ports of one host, between the port    *)
(* scan (PortScanner.tla) and the store (ScanServer.tla): executeScan in   *)
(* pkg/server/server.go, and the command line does the same. Every port is *)
(* interrogated, in order, then the host facts are collected over SSH, then*)
(* the plugins and the reachability evaluator work on what was gathered.   *)
(* The host is not frozen meanwhile: it may change between any two         *)
(* contacts, MaxChanges times.                                             *)
(*                                                                         *)
(* Identify's PreFlightSocketCheck is left out: ValidateAndResolve has     *)
(* applied the same check to the same address (ScopeGuard.tla).            *)
(***************************************************************************)
EXTENDS PortSpec, PluginEngine, HostFacts, ServiceProbe, FiniteSets

CONSTANTS Hosts,        \* what the scanned host may be at a moment
          Requests,     \* requests: port specification, ceiling, and is an SSH user given?
          PluginFiles,  \* the plugin directory in the order it is walked
          MaxChanges    \* bound: times the host changes under the scan

\* The server and the command line put "active-safe" for a ceiling not given. The
\* parts of a version are numbers without a sign.
ASSUME RequestsAssumption ==
  \A r \in Requests : /\ r.ceiling # ""
                      /\ \A part \in r.ports : part.from \in Int /\ part.to \in Int
ASSUME HostsAssumption ==
  \A h \in Hosts : /\ DOMAIN h.peers \subseteq Nat \ {0}
                   /\ \A port \in DOMAIN h.peers : h.peers[port].version \subseteq Seq(Nat)
ASSUME PluginAssumption ==
  /\ DOMAIN PluginFiles = 1..Len(PluginFiles) /\ Len(PluginFiles) \in Nat
  /\ \A i \in DOMAIN PluginFiles : /\ PluginFiles[i].kind \in {"plugin", "bad", "other"}
                                   /\ \A m \in PluginFiles[i].plugin.matchers :
                                        m.negative \in BOOLEAN
ASSUME ChangesAssumption == MaxChanges \in Nat

VARIABLES host,      \* what the host is now
          was,       \* what it has been since the assessment began
          request,   \* the request being served
          phase,     \* where the goroutine stands
          todo,      \* the ports the current loop has left
          service,   \* the service Identify is filling in
          services,  \* port -> service, for the ports that have been identified
          facts,     \* auditFacts
          findings   \* detectedFindings: plugin, port, reachability

vars == <<host, was, request, phase, todo, service, services, facts, findings>>

Phases == {"tls", "contact", "os", "sockets", "packages", "evaluate", "done", "held"}
Reachabilities == {"listening_process", "listening_and_loaded"}

\* The plugins in the engine.
Loaded == LoadFromDir(PluginFiles)
PluginWithId(id) == CHOOSE p \in Loaded : p.id = id

Closed == [talk |-> "closes", tls |-> "none", banner |-> "", product |-> "", version |-> {}]
PeerAt(port) == IF port \in DOMAIN host.peers THEN host.peers[port] ELSE Closed
SshPeer == PeerAt(22)

\* Both loops take the ports in ascending order.
Upcoming(port) == port \in todo /\ \A q \in todo : port <= q

Init ==
  /\ host \in Hosts /\ was = {host} /\ request \in Requests
  /\ phase = "tls" /\ todo = DOMAIN host.peers \cap PortsToScan(request.ports)
  /\ service = NewService(0, FALSE, "") /\ services = << >>
  /\ facts = NoFacts /\ findings = {}

\* The environment: a service is stopped, upgraded, moved, or stops answering.
HostChanges ==
  /\ Cardinality(was) <= MaxChanges /\ phase \notin {"done", "held"}
  /\ host' \in Hosts \ was /\ was' = was \cup {host'}
  /\ UNCHANGED <<request, phase, todo, service, services, facts, findings>>

-----------------------------------------------------------------------------
(* Identify, for each open port.                                            *)

TestPort ==
  /\ phase = "tls" /\ phase' = "contact"
  /\ \E port \in todo : Upcoming(port) /\ service' = TestTLS(port, PeerAt(port))
  /\ UNCHANGED <<host, was, request, todo, services, facts, findings>>

Interrogate ==
  /\ phase = "contact" /\ phase' = "tls"
  /\ service' \in Interrogations(service, PeerAt(service.port))
  /\ services' = [p \in DOMAIN services \cup {service.port} |->
                    IF p = service.port THEN service' ELSE services[p]]
  /\ todo' = todo \ {service.port}
  /\ UNCHANGED <<host, was, request, facts, findings>>

\* The goroutine stays in a read that has no deadline.
InterrogationHangs ==
  /\ phase = "contact" /\ Blocks(service, PeerAt(service.port)) /\ phase' = "held"
  /\ UNCHANGED <<host, was, request, todo, service, services, facts, findings>>

-----------------------------------------------------------------------------
(* The host facts.                                                          *)

StartEvaluation == phase' = "evaluate" /\ todo' = DOMAIN services

\* No SSH user, a Dial that fails, or, before any contact and so whatever the
\* host is, no usable key or password.
NoCollection ==
  /\ phase = "tls" /\ todo = {} /\ StartEvaluation
  /\ UNCHANGED <<host, was, request, service, services, facts, findings>>

\* Fault: the SSH user is not asked for.
LogInUnasked ==
  /\ phase = "tls" /\ todo = {} /\ SshPeer.talk = "speaks" /\ phase' = "os" /\ facts' = HostAuditFact("", << >>, << >>)
  /\ UNCHANGED <<host, was, request, todo, service, services, findings>>

LogIn ==
  /\ phase = "tls" /\ todo = {} /\ request.ssh
  /\ SshPeer.talk = "speaks" /\ SshPeer.tls = "none"
  /\ phase' = "os" /\ facts' = HostAuditFact("", << >>, << >>)
  /\ UNCHANGED <<host, was, request, todo, service, services, findings>>

\* Config.Timeout ends the TCP connect and not the handshake after it, and
\* session.Run has no deadline at all.
CollectionHangs ==
  /\ \/ phase = "tls" /\ todo = {} /\ request.ssh
     \/ phase \in {"os", "sockets", "packages"}
  /\ SshPeer.talk = "silent" /\ phase' = "held"
  /\ UNCHANGED <<host, was, request, todo, service, services, facts, findings>>

\* A command that fails leaves its facts as they are, and Collect goes on.
Command(read) == \/ SshPeer.talk # "silent" /\ UNCHANGED facts
                 \/ SshPeer.talk = "speaks" /\ facts' = read

ReadOS ==
  /\ phase = "os" /\ phase' = "sockets"
  /\ Command(HostAuditFact(host.os, facts.packages, facts.sockets))
  /\ UNCHANGED <<host, was, request, todo, service, services, findings>>

\* The output of netstat, which stands in for an ss that fails, does not parse.
ReadSockets ==
  /\ phase = "sockets" /\ phase' = "packages"
  /\ Command(HostAuditFact(facts.os, facts.packages, ParseListeningSockets(host.sockets)))
  /\ UNCHANGED <<host, was, request, todo, service, services, findings>>

ReadPackages ==
  /\ phase = "packages" /\ StartEvaluation
  /\ Command(HostAuditFact(facts.os, PackageList(host, facts.os), facts.sockets))
  /\ UNCHANGED <<host, was, request, service, services, findings>>

-----------------------------------------------------------------------------
(* The plugins and the reachability of what they find, for each service.    *)

EvaluatePort(port) ==
  LET reported == EvaluateService(Loaded, services[port], facts, request.ceiling)
  IN  /\ phase = "evaluate" /\ Upcoming(port) /\ todo' = todo \ {port}
      /\ findings' = findings \cup
           {[plugin |-> p.id, port |-> port,
             reachability |-> EvaluateReachability(port, facts)] : p \in reported}
      /\ UNCHANGED <<host, was, request, phase, service, services, facts>>

Evaluate == \E port \in todo : EvaluatePort(port)

Finish ==
  /\ phase = "evaluate" /\ todo = {} /\ phase' = "done"
  /\ UNCHANGED <<host, was, request, todo, service, services, facts, findings>>

Assess == \/ TestPort \/ Interrogate \/ InterrogationHangs
          \/ NoCollection \/ LogIn \/ CollectionHangs
          \/ ReadOS \/ ReadSockets \/ ReadPackages \/ Evaluate \/ Finish

Next == HostChanges \/ Assess

\* The goroutine goes on whenever it can.
Spec == Init /\ [][Next]_vars /\ WF_vars(Assess)
Safety == Init /\ [][Next]_vars

-----------------------------------------------------------------------------

\* Every variable has its type: a service is filed under its own port, and facts
\* exist only after a login the request asked for.
TypeOK ==
  /\ host \in Hosts /\ was \in SUBSET Hosts /\ host \in was
  /\ request \in Requests /\ phase \in Phases
  /\ \A p \in DOMAIN services : services[p].port = p
  /\ phase = "evaluate" => todo \subseteq DOMAIN services
  /\ facts.read => request.ssh
  /\ \A f \in findings : f.port \in DOMAIN services /\ f.reachability \in Reachabilities

-----------------------------------------------------------------------------
(* What a finding rests on.                                                 *)

\* No matcher is satisfied by a service about which nothing is known, nor by
\* the alert of a TLS peer.
Telling(p) == \A m \in p.matchers :
  ~m.negative /\ (OnBanner(m) => m.pattern \cap {"", "alert"} = {})

SpeaksAt(h, port) == port \in DOMAIN h.peers /\ h.peers[port].talk = "speaks"

\* The host h gives matcher m what it looks for at the port. Of a version without
\* a number, and of a package with an epoch, it is only asked that there is one:
\* the code takes the first for version 0 and the epoch for a first number.
GivesGrounds(h, m, port) ==
  \/ /\ m.type = "version" /\ SpeaksAt(h, port)
     /\ \E v \in h.peers[port].version, fix \in m.fixedIn : v # << >> => Earlier(v, fix)
  \/ /\ m.type = "tls" /\ SpeaksAt(h, port)
     /\ MatchTLS(h.peers[port].tls, m.pattern)
  \/ /\ m.type = "package" /\ m.var \in DOMAIN h.packages
     /\ LET v == h.packages[m.var]
        IN  \E fix \in m.fixedIn : v.epoch = 0 => Earlier(v.rel, fix)
  \/ /\ OnBanner(m) /\ SpeaksAt(h, port)
     /\ h.peers[port].banner \in m.pattern

\* The classes as docs/plugin-guide.md lists them; it has no others.
WithinCeiling(p) == \A i, j \in DOMAIN SafetyClasses :
  p.safety = SafetyClasses[i] /\ request.ceiling = SafetyClasses[j] => i <= j

\* No plugin of a class the guide lists above the ceiling of the request reports
\* a finding, and each thing a telling plugin asks for was true, at that port, of
\* the host at some moment of the assessment: nothing is taken over from another
\* port or made up by a failed contact, and no version that has a number, nor a
\* package without an epoch, is called earlier than the fix when it is not.
FindingsHaveGrounds ==
  \A f \in findings :
    LET p == PluginWithId(f.plugin)
        Given(m) == \E h \in was : GivesGrounds(h, m, f.port)
    IN  /\ WithinCeiling(p)
        /\ Telling(p) => \/ p.cond = "and" /\ \A m \in p.matchers : Given(m)
                         \/ p.cond = "or" /\ \E m \in p.matchers : Given(m)

-----------------------------------------------------------------------------
(* What a finished assessment may not have missed.                          *)

\* What the contact tells of a service that answers it.
Understood(port, peer) ==
  /\ peer.talk = "speaks"
  /\ \/ peer.tls = "none" /\ port \notin TlsPorts
     \/ peer.tls \notin {"none", "old"} /\ Protocol(port) = "http"
NamesOf(port, peer) ==
  {CASE Protocol(port) = "http" /\ peer.tls # "none" -> "https"
     [] Protocol(port) = "generic" -> DefaultName(port)
     [] OTHER -> Protocol(port)}
    \cup (IF Names(Protocol(port), peer) THEN {peer.product} ELSE {})

\* p looks for nothing but what the peer shows whoever talks to it: a banner, or
\* a version with a number.
Exhibits(p, port, peer) ==
  LET Shown(m) == /\ ~m.negative
                  /\ \/ m.type = "banner" /\ peer.banner \in m.pattern
                     \/ /\ m.type = "version" /\ peer.product \in Versioned(Protocol(port))
                        /\ \E v \in peer.version, fix \in m.fixedIn : v # << >> /\ Earlier(v, fix)
  IN  /\ Understood(port, peer) /\ p.os = {} /\ ~p.credentials
      /\ p.ports = {} \/ port \in p.ports
      /\ p.services = {} \/ p.services \cap NamesOf(port, peer) # {}
      /\ \/ p.cond = "and" /\ p.matchers # {} /\ \A m \in p.matchers : Shown(m)
         \/ p.cond = "or" /\ \E m \in p.matchers : Shown(m)

\* An assessment that ends, of a host that stayed the same, has reported every
\* flaw the host shows in a banner or a version, on a port the request asks
\* for, and a plugin of a permitted class in the directory looks for, whatever
\* the SSH collection came to.
ShownFlawsAreReported ==
  phase = "done" /\ was = {host} =>
    \A i \in DOMAIN PluginFiles, port \in DOMAIN host.peers :
      LET p == PluginFiles[i].plugin
      IN  /\ \A part \in request.ports : ValidPart(part)
          /\ \E part \in request.ports : part.from <= port /\ port <= part.to
          /\ PluginFiles[i].kind = "plugin"
          /\ \A j \in DOMAIN PluginFiles :
               /\ j < i => PluginFiles[j].kind # "bad"
               /\ j > i /\ PluginFiles[j].kind = "plugin" => PluginFiles[j].plugin.id # p.id
          /\ Rank(p.safety) <= Rank(request.ceiling)
          /\ Exhibits(p, port, host.peers[port])
          => \E f \in findings : f.plugin = p.id /\ f.port = port

\* What docs/architecture.md calls local, "127.0.0.1:*", and its IPv6 form.
Loopback == {"127.0.0.1", "::1", "[::1]"}

\* A finding of the first priority was found on a port at which the host itself
\* has shown a process on a socket other than those: neither a failed login, nor
\* a failed command, nor a missing line, nor a loopback line says so. It is no more
\* than that: loopback in the form [::ffff:127.0.0.1] gets the priority as
\* well, and that the component is "loaded in memory", which models.go and
\* docs/scan-and-reachability.md ask of this state, is looked up nowhere.
ReachabilityHasGrounds ==
  \A f \in findings : f.reachability = "listening_and_loaded" =>
    /\ facts.read
    /\ \E h \in was : \E i \in DOMAIN h.sockets :
         /\ h.sockets[i].port = f.port /\ h.sockets[i].attributed
         /\ h.sockets[i].bind \notin Loopback

-----------------------------------------------------------------------------

\* The ports whose probe reads without a deadline.
UnboundedPorts == {21, 22, 25, 587, 3306, 6379, 33060}

\* The port in contact: that of the probe, or SSH when all have been probed.
Contacted == IF todo = {} THEN 22 ELSE service.port

HeldByItsPeer ==
  /\ Contacted \in UnboundedPorts \cap DOMAIN host.peers
  /\ host.peers[Contacted].talk = "silent" \/ host.peers[Contacted].tls # "none"

\* An assessment ends, unless the peer it is in contact with, at one of the ports
\* above, takes the connection and leaves it without an answer: no other port of
\* the host, and no command that fails, can keep the scan from its end.
EndsUnlessHeld == <>(phase = "done" \/ (phase = "held" /\ HeldByItsPeer))

-----------------------------------------------------------------------------
(* What the documentation and the comments say, and the code does not do.   *)

\* docs/plugin-guide.md: "`dpkg`: Debian/Ubuntu package epochs and release
\* revisions". A package a finding names, and whose fix has no epoch, has none
\* either and is earlier. The epoch is compared as if it were the first number
\* of the version.
EpochsAreCompared ==
  \A f \in findings : \A m \in PluginWithId(f.plugin).matchers :
    m.type = "package" /\ ~m.negative =>
      \E h \in was, fix \in m.fixedIn :
        /\ m.var \in DOMAIN h.packages /\ h.packages[m.var].epoch = 0
        /\ Earlier(h.packages[m.var].rel, fix)
==============================================================================
