------------------------ MODULE HostAssessmentProofs -------------------------
(***************************************************************************)
(* For every host, request, plugin directory and number of changes of the  *)
(* host under the scan: what the findings of an assessment rest on, and    *)
(* that the comparison of versions they rest on is an order.               *)
(***************************************************************************)
EXTENDS HostAssessment, TLAPS

-----------------------------------------------------------------------------
(* Versions.                                                                *)

\* A part of a version is a number, and 0 beyond its end.
LEMMA PartsAreNumbers ==
  ASSUME NEW v \in Seq(Nat), NEW i \in Nat
  PROVE  Part(v, i) \in Nat /\ (Part(v, i) > 0 => i \in 1..Len(v))
BY DEF Part

\* compareVersions never calls two versions each the earlier one.
LEMMA EarlierIsAsymmetric ==
  ASSUME NEW u \in Seq(Nat), NEW v \in Seq(Nat), Earlier(u, v)
  PROVE  ~Earlier(v, u)
<1> SUFFICES ASSUME Earlier(v, u) PROVE FALSE
  OBVIOUS
<1>1. PICK i \in 1..Len(u) + Len(v) : /\ Part(u, i) < Part(v, i)
                                      /\ \A j \in 1..(i - 1) : Part(u, j) = Part(v, j)
  BY DEF Earlier
<1>2. PICK k \in 1..Len(v) + Len(u) : /\ Part(v, k) < Part(u, k)
                                      /\ \A j \in 1..(k - 1) : Part(v, j) = Part(u, j)
  BY DEF Earlier
<1>3. Part(u, i) \in Nat /\ Part(v, i) \in Nat /\ Part(u, k) \in Nat /\ Part(v, k) \in Nat
  BY PartsAreNumbers
<1>4. i \notin 1..(k - 1) /\ k \notin 1..(i - 1)
  BY <1>1, <1>2, <1>3
<1> QED
  BY <1>1, <1>2, <1>3, <1>4

\* ... and passes from one comparison to the next: a version before one that
\* is before the fix is before the fix.
LEMMA EarlierIsTransitive ==
  ASSUME NEW u \in Seq(Nat), NEW v \in Seq(Nat), NEW w \in Seq(Nat),
         Earlier(u, v), Earlier(v, w)
  PROVE  Earlier(u, w)
<1>1. PICK i \in 1..Len(u) + Len(v) : /\ Part(u, i) < Part(v, i)
                                      /\ \A j \in 1..(i - 1) : Part(u, j) = Part(v, j)
  BY DEF Earlier
<1>2. PICK k \in 1..Len(v) + Len(w) : /\ Part(v, k) < Part(w, k)
                                      /\ \A j \in 1..(k - 1) : Part(v, j) = Part(w, j)
  BY DEF Earlier
<1> DEFINE m == IF i <= k THEN i ELSE k
<1>3. i \in Nat /\ k \in Nat /\ i > 0 /\ k > 0 /\ m \in Nat /\ m > 0
  OBVIOUS
<1>4. /\ Part(u, m) \in Nat /\ Part(v, m) \in Nat /\ Part(w, m) \in Nat
      /\ Part(u, i) \in Nat /\ Part(v, i) \in Nat /\ Part(v, k) \in Nat /\ Part(w, k) \in Nat
  BY <1>3, PartsAreNumbers
<1>5. Part(u, m) < Part(w, m)
  <2>1. CASE i < k
    BY <1>1, <1>2, <1>3, <1>4, <2>1
  <2>2. CASE i = k
    BY <1>1, <1>2, <1>3, <1>4, <2>2
  <2>3. CASE k < i
    BY <1>1, <1>2, <1>3, <1>4, <2>3
  <2> QED
    BY <1>3, <2>1, <2>2, <2>3
<1>6. \A j \in 1..(m - 1) : Part(u, j) = Part(w, j)
  BY <1>1, <1>2, <1>3
<1>7. m \in 1..Len(w)
  <2>1. Part(w, m) > 0
    BY <1>4, <1>5
  <2> QED
    BY <1>3, <2>1, PartsAreNumbers
<1>8. m \in 1..Len(u) + Len(w)
  BY <1>7
<1> QED
  BY <1>5, <1>6, <1>8 DEF Earlier

\* compareVersions answers -1 for an earlier version only.
LEMMA LowerIsEarlier ==
  ASSUME NEW u, NEW v, CompareVersions(u, v) = -1
  PROVE  Earlier(u, v)
<1> SUFFICES ASSUME ~Earlier(u, v) PROVE FALSE
  OBVIOUS
<1>1. CompareVersions(u, v) \in {0, 1}
  BY DEF CompareVersions
<1> QED
  BY <1>1

\* compareVersions answers 1 exactly when it answers -1 with its arguments
\* exchanged, and "lower than" is transitive: raising a fix never takes a
\* version out of what is flagged.
THEOREM VersionsAreOrdered ==
  ASSUME NEW u \in Seq(Nat), NEW v \in Seq(Nat), NEW w \in Seq(Nat)
  PROVE  /\ CompareVersions(u, v) = 1 <=> CompareVersions(v, u) = -1
         /\ CompareVersions(u, v) = -1 /\ CompareVersions(v, w) = -1
              => CompareVersions(u, w) = -1
<1>1. \A x, y \in Seq(Nat) : CompareVersions(x, y) = -1 <=> Earlier(x, y)
  BY DEF CompareVersions
<1>2. \A x, y \in Seq(Nat) : CompareVersions(x, y) = 1 <=> Earlier(y, x)
  BY EarlierIsAsymmetric DEF CompareVersions
<1> QED
  BY <1>1, <1>2, EarlierIsTransitive

-----------------------------------------------------------------------------
(* The invariant: everything gathered so far is something the host was.     *)

Grounded(s) ==
  /\ s.banner \in {"", "alert"} \/ \E h \in was : SpeaksAt(h, s.port) /\ h.peers[s.port].banner = s.banner
  /\ s.version = {} \/ \E h \in was : SpeaksAt(h, s.port) /\ h.peers[s.port].version = s.version
  /\ s.tls = "" \/ \E h \in was : SpeaksAt(h, s.port) /\ h.peers[s.port].tls = s.tls

\* Between the two contacts only the TLS of the service is known.
ServiceGrounded ==
  phase = "contact" => Grounded(service) /\ service.banner = "" /\ service.version = {}
ServicesGrounded == \A p \in DOMAIN services : services[p].port = p /\ Grounded(services[p])

PackagesGrounded(f) == \A n \in DOMAIN f.packages : \E h \in was :
  n \in DOMAIN h.packages /\ f.packages[n] \in {WithEpoch(h.packages[n]), h.packages[n].rel}
SocketsGrounded(f) == \A i \in DOMAIN f.sockets : \E h \in was :
  i \in DOMAIN h.sockets /\ f.sockets[i] = h.sockets[i] /\ h.sockets[i].attributed
FactsGrounded == /\ PackagesGrounded(facts) /\ SocketsGrounded(facts)
                 /\ facts.read \/ DOMAIN facts.sockets = {}

\* The commands are run after a login.
LoggedIn == phase \in {"os", "sockets", "packages"} => facts.read

IInv == /\ TypeOK /\ LoggedIn /\ ServiceGrounded /\ ServicesGrounded /\ FactsGrounded
        /\ FindingsHaveGrounds /\ ReachabilityHasGrounds

-----------------------------------------------------------------------------
(* What the operators of the component modules keep.                        *)

\* The engine holds one plugin for each ID.
LEMMA UniqueIds ==
  ASSUME NEW p \in Loaded, NEW q \in Loaded, p.id = q.id
  PROVE  p = q
<1>1. PICK i \in 1..Len(PluginFiles) :
        /\ p = PluginFiles[i].plugin /\ PluginFiles[i].kind = "plugin"
        /\ \A j \in 1..i : PluginFiles[j].kind # "bad"
        /\ \A j \in (i + 1)..Len(PluginFiles) :
             /\ PluginFiles[j].kind = "plugin"
             /\ \A k \in 1..j : PluginFiles[k].kind # "bad"
             => PluginFiles[j].plugin.id # p.id
  BY DEF Loaded, LoadFromDir
<1>2. PICK i2 \in 1..Len(PluginFiles) :
        /\ q = PluginFiles[i2].plugin /\ PluginFiles[i2].kind = "plugin"
        /\ \A j \in 1..i2 : PluginFiles[j].kind # "bad"
        /\ \A j \in (i2 + 1)..Len(PluginFiles) :
             /\ PluginFiles[j].kind = "plugin"
             /\ \A k \in 1..j : PluginFiles[k].kind # "bad"
             => PluginFiles[j].plugin.id # q.id
  BY DEF Loaded, LoadFromDir
<1>3. Len(PluginFiles) \in Nat
  BY PluginAssumption
<1>4. ASSUME i < i2 PROVE FALSE
  <2>1. i2 \in (i + 1)..Len(PluginFiles)
    BY <1>3, <1>4
  <2> QED
    BY <1>1, <1>2, <2>1
<1>5. ASSUME i2 < i PROVE FALSE
  <2>1. i \in (i2 + 1)..Len(PluginFiles)
    BY <1>3, <1>5
  <2> QED
    BY <1>1, <1>2, <2>1
<1>6. i = i2
  BY <1>3, <1>4, <1>5
<1> QED
  BY <1>1, <1>2, <1>6

\* A matcher of a loaded plugin is negated or it is not.
LEMMA NegationIsBoolean == \A p \in Loaded : \A m \in p.matchers : m.negative \in BOOLEAN
BY PluginAssumption DEF Loaded, LoadFromDir

\* An interrogation knows nothing more, or what the peer has said.
LEMMA InterrogationTells ==
  ASSUME NEW svc, NEW peer, NEW s \in Interrogations(svc, peer)
  PROVE  /\ s.port = svc.port /\ s.tls = svc.tls
         /\ s.banner \in {"", "alert"} \/ (peer.talk = "speaks" /\ s.banner = peer.banner)
         /\ s.version = {} \/ (peer.talk = "speaks" /\ s.version = peer.version)
<1>1. ASSUME NEW b \in {"", "alert"}, s = Unanswered(svc, b)
      PROVE  s.port = svc.port /\ s.tls = svc.tls /\ s.banner = b /\ s.version = {}
  BY <1>1 DEF Unanswered, Interrogated
<1>2. CASE MayAnswer(svc, peer) /\ s = Answered(svc, peer)
  BY <1>2 DEF MayAnswer, Answered, Interrogated
<1> QED
  BY <1>1, <1>2 DEF Interrogations

\* Without an epoch dpkg-query prints the version alone.
LEMMA NoEpoch == ASSUME NEW v, v.epoch = 0 PROVE WithEpoch(v) = v.rel
BY DEF WithEpoch

\* A matcher that is not negated and matches grounded facts is one the host has
\* given grounds for.
LEMMA MatchesHaveGrounds ==
  ASSUME NEW m, m.negative = FALSE, OnBanner(m) => m.pattern \cap {"", "alert"} = {},
         NEW s, Grounded(s), PackagesGrounded(facts), Matches(m, s, facts)
  PROVE  \E h \in was : GivesGrounds(h, m, s.port)
<1>1. CASE m.type = "version" /\ MatchVersion(s.version, m.fixedIn)
  <2>1. \E v \in s.version, fix \in m.fixedIn : Earlier(v, fix)
    BY <1>1, LowerIsEarlier DEF MatchVersion
  <2> QED
    BY <1>1, <2>1 DEF Grounded, GivesGrounds
<1>2. CASE m.type = "tls" /\ MatchTLS(s.tls, m.pattern)
  <2>1. s.tls # ""
    BY <1>2 DEF MatchTLS
  <2> QED
    BY <1>2, <2>1 DEF Grounded, GivesGrounds
<1>3. CASE m.type = "package" /\ MatchPackage(facts.packages, m.var, m.fixedIn)
  <2>1. /\ m.var \in DOMAIN facts.packages
        /\ \E fix \in m.fixedIn : Earlier(facts.packages[m.var], fix)
    BY <1>3, LowerIsEarlier DEF MatchPackage
  <2>2. PICK h \in was : /\ m.var \in DOMAIN h.packages
                         /\ facts.packages[m.var] \in {WithEpoch(h.packages[m.var]),
                                                      h.packages[m.var].rel}
    BY <2>1 DEF PackagesGrounded
  <2>3. h.packages[m.var].epoch = 0 => facts.packages[m.var] = h.packages[m.var].rel
    BY <2>2, NoEpoch
  <2> QED
    BY <1>3, <2>1, <2>2, <2>3 DEF GivesGrounds
<1>4. CASE OnBanner(m) /\ s.banner \in m.pattern
  BY <1>4 DEF Grounded, GivesGrounds
<1> QED
  BY <1>1, <1>2, <1>3, <1>4 DEF Matches

\* The rank of a class the guide lists is its place in the list.
LEMMA RankIsPlace == \A i \in DOMAIN SafetyClasses : Rank(SafetyClasses[i]) = i
<1> SUFFICES ASSUME NEW i \in DOMAIN SafetyClasses PROVE Rank(SafetyClasses[i]) = i
  OBVIOUS
<1>1. DOMAIN SafetyClasses = 1..5
  BY DEF SafetyClasses
<1>2. \A j \in 1..5 : SafetyClasses[j] = SafetyClasses[i] => j = i
  BY <1>1 DEF SafetyClasses
<1> QED
  BY <1>1, <1>2 DEF Rank

\* What EvaluateService reports about a grounded service has grounds.
LEMMA ReportsHaveGrounds ==
  ASSUME TypeOK, PackagesGrounded(facts), NEW s, Grounded(s),
         NEW p \in EvaluateService(Loaded, s, facts, request.ceiling)
  PROVE  /\ p \in Loaded /\ WithinCeiling(p)
         /\ Telling(p) =>
              \/ p.cond = "and" /\ \A m \in p.matchers : \E h \in was : GivesGrounds(h, m, s.port)
              \/ p.cond = "or" /\ \E m \in p.matchers : \E h \in was : GivesGrounds(h, m, s.port)
<1>1. p \in Loaded /\ IsSafetyPermitted(p.safety, request.ceiling) /\ EvaluateMatchers(p, s, facts)
  BY DEF EvaluateService
<1>2. WithinCeiling(p)
  <2>1. Rank(p.safety) <= Rank(request.ceiling)
    BY <1>1, RequestsAssumption DEF IsSafetyPermitted, TypeOK
  <2> QED
    BY <2>1, RankIsPlace DEF WithinCeiling
<1>3. ASSUME Telling(p), NEW m \in p.matchers, Matches(m, s, facts)
      PROVE  \E h \in was : GivesGrounds(h, m, s.port)
  <2>1. m.negative = FALSE /\ (OnBanner(m) => m.pattern \cap {"", "alert"} = {})
    BY <1>1, <1>3, NegationIsBoolean DEF Telling
  <2> QED
    BY <1>3, <2>1, MatchesHaveGrounds
<1> QED
  BY <1>1, <1>2, <1>3 DEF EvaluateMatchers

-----------------------------------------------------------------------------
(* The invariant is inductive.                                              *)

LEMMA InitInv == Init => IInv
<1> SUFFICES ASSUME Init PROVE IInv
  OBVIOUS
<1>0. \A x : x \notin DOMAIN << >>
  OBVIOUS
<1>1. /\ DOMAIN services = {} /\ DOMAIN facts.packages = {} /\ DOMAIN facts.sockets = {}
      /\ findings = {} /\ phase = "tls" /\ facts.read = FALSE
  <2>1. services = << >> /\ findings = {} /\ phase = "tls" /\ facts = NoFacts
    BY DEF Init
  <2>2. facts.packages = << >> /\ facts.sockets = << >> /\ facts.read = FALSE
    BY <2>1 DEF NoFacts
  <2> QED
    BY <1>0, <2>1, <2>2
<1>2. TypeOK
  BY <1>1 DEF Init, TypeOK, Phases
<1>3. LoggedIn /\ ServiceGrounded /\ ServicesGrounded
  BY <1>1 DEF LoggedIn, ServiceGrounded, ServicesGrounded
<1>4. FactsGrounded
  BY <1>1 DEF FactsGrounded, PackagesGrounded, SocketsGrounded
<1>5. FindingsHaveGrounds /\ ReachabilityHasGrounds
  BY <1>1 DEF FindingsHaveGrounds, ReachabilityHasGrounds
<1> QED
  BY <1>2, <1>3, <1>4, <1>5 DEF IInv

\* What is not touched keeps its grounds: was only grows.
LEMMA GroundsLast ==
  ASSUME IInv, was \subseteq was', request' = request
  PROVE  /\ phase' # "contact" => ServiceGrounded'
         /\ phase' = phase /\ service' = service => ServiceGrounded'
         /\ services' = services => ServicesGrounded'
         /\ facts' = facts => FactsGrounded'
         /\ findings' = findings => FindingsHaveGrounds'
         /\ findings' = findings /\ (facts.read => facts'.read) => ReachabilityHasGrounds'
<1>1. phase' # "contact" => ServiceGrounded'
  BY DEF ServiceGrounded
<1>2. phase' = phase /\ service' = service => ServiceGrounded'
  BY DEF IInv, ServiceGrounded, Grounded
<1>3. services' = services => ServicesGrounded'
  <2>1. \A s : Grounded(s) => Grounded(s)'
    BY DEF Grounded
  <2>2. ASSUME services' = services, NEW p \in DOMAIN services'
        PROVE  services'[p].port = p /\ Grounded(services[p])'
    <3>1. PICK s : s = services[p]
      OBVIOUS
    <3>2. s.port = p /\ Grounded(s)
      BY <2>2, <3>1 DEF IInv, ServicesGrounded
    <3>3. Grounded(s)' /\ services'[p] = s
      BY <2>1, <2>2, <3>1, <3>2
    <3> QED
      BY <3>2, <3>3 DEF Grounded
  <2> QED
    BY <2>2 DEF ServicesGrounded
<1>4. facts' = facts => FactsGrounded'
  BY DEF IInv, FactsGrounded, PackagesGrounded, SocketsGrounded
<1>5. findings' = findings => FindingsHaveGrounds'
  BY DEF IInv, FindingsHaveGrounds, WithinCeiling
<1>6. findings' = findings /\ (facts.read => facts'.read) => ReachabilityHasGrounds'
  BY DEF IInv, ReachabilityHasGrounds
<1> QED
  BY <1>1, <1>2, <1>3, <1>4, <1>5, <1>6

\* A peer that speaks is the host's.
LEMMA SpeakersAreOpen ==
  ASSUME NEW port, PeerAt(port).talk = "speaks"
  PROVE  SpeaksAt(host, port) /\ PeerAt(port) = host.peers[port]
<1>1. Closed.talk = "closes"
  BY DEF Closed
<1>2. CASE port \in DOMAIN host.peers
  BY <1>2 DEF PeerAt, SpeaksAt
<1>3. CASE port \notin DOMAIN host.peers
  BY <1>1, <1>3 DEF PeerAt
<1> QED
  BY <1>2, <1>3

\* A change of the host.
LEMMA HostStep == ASSUME IInv, HostChanges PROVE IInv'
<1>1. /\ was' = was \cup {host'} /\ host' \in Hosts
      /\ UNCHANGED <<request, phase, todo, service, services, facts, findings>>
  BY DEF HostChanges
<1>2. TypeOK'
  BY <1>1 DEF IInv, TypeOK
<1>3. LoggedIn'
  BY <1>1 DEF IInv, LoggedIn
<1> QED
  BY <1>1, <1>2, <1>3, GroundsLast DEF IInv

\* The TLS test files the state of the peer's TLS, or nothing.
LEMMA TestStep == ASSUME IInv, TestPort PROVE IInv'
<1>1. /\ phase' = "contact"
      /\ UNCHANGED <<host, was, request, todo, services, facts, findings>>
  BY DEF TestPort
<1>2. PICK port : service' = TestTLS(port, PeerAt(port))
  BY DEF TestPort
<1> DEFINE peer == PeerAt(port)
<1>3. /\ service'.port = port /\ service'.banner = "" /\ service'.version = {}
      /\ service'.tls = "" \/ (peer.talk = "speaks" /\ service'.tls = peer.tls)
  <2> HIDE DEF peer
  <2>1. service' = TestTLS(port, peer)
    BY <1>2 DEF peer
  <2>2. PICK s : s = service'
    OBVIOUS
  <2>3. s = TestTLS(port, peer)
    BY <2>1, <2>2
  <2>4. /\ s.port = port /\ s.banner = "" /\ s.version = {}
        /\ s.tls = "" \/ (peer.talk = "speaks" /\ s.tls = peer.tls)
    BY <2>3 DEF TestTLS, NewService, Handshakes
  <2> QED
    BY <2>2, <2>4
<1>4. service'.tls = "" \/ (SpeaksAt(host, port) /\ service'.tls = host.peers[port].tls)
  BY <1>3, SpeakersAreOpen
<1>5. ServiceGrounded'
  BY <1>1, <1>3, <1>4 DEF IInv, TypeOK, ServiceGrounded, Grounded
<1>6. TypeOK' /\ LoggedIn'
  BY <1>1 DEF IInv, TypeOK, LoggedIn, Phases
<1> QED
  BY <1>1, <1>5, <1>6, GroundsLast DEF IInv

\* The contact files what the peer says now beside its TLS of before.
LEMMA InterrogateStep == ASSUME IInv, Interrogate PROVE IInv'
<1>1. /\ phase = "contact" /\ phase' = "tls"
      /\ services' = [p \in DOMAIN services \cup {service.port} |->
                        IF p = service.port THEN service' ELSE services[p]]
      /\ UNCHANGED <<host, was, request, facts, findings>>
  BY DEF Interrogate
<1> DEFINE peer == PeerAt(service.port)
<1>2. /\ service'.port = service.port /\ service'.tls = service.tls
      /\ service'.banner \in {"", "alert"} \/ (peer.talk = "speaks" /\ service'.banner = peer.banner)
      /\ service'.version = {} \/ (peer.talk = "speaks" /\ service'.version = peer.version)
  <2>1. service' \in Interrogations(service, peer)
    BY DEF Interrogate
  <2> HIDE DEF peer
  <2> QED
    BY <2>1, InterrogationTells
<1>3. peer.talk = "speaks" => SpeaksAt(host, service.port) /\ peer = host.peers[service.port]
  BY SpeakersAreOpen
<1> HIDE DEF peer
<1>4. host \in was /\ Grounded(service)
  BY <1>1 DEF IInv, TypeOK, ServiceGrounded
<1>5. PICK s : s = service'
  OBVIOUS
<1>6. Grounded(s)' /\ s.port = service.port
  BY <1>1, <1>2, <1>3, <1>4, <1>5 DEF Grounded
<1>7. ASSUME NEW p \in DOMAIN services'
      PROVE  services'[p].port = p /\ Grounded(services[p])'
  <2>1. CASE p = service.port
    <3>1. services'[p] = s
      BY <1>1, <1>5, <2>1
    <3> QED
      BY <1>6, <2>1, <3>1 DEF Grounded
  <2>2. CASE p # service.port
    <3>1. PICK t : t = services[p]
      OBVIOUS
    <3>2. p \in DOMAIN services /\ services'[p] = t
      BY <1>1, <2>2, <3>1
    <3>3. t.port = p /\ Grounded(t)
      BY <3>1, <3>2 DEF IInv, ServicesGrounded
    <3>4. Grounded(t)'
      BY <1>1, <3>3 DEF Grounded
    <3> QED
      BY <3>2, <3>3, <3>4 DEF Grounded
  <2> QED
    BY <2>1, <2>2
<1>8. ServicesGrounded'
  BY <1>7 DEF ServicesGrounded
<1>9. TypeOK' /\ LoggedIn'
  <2>1. DOMAIN services \subseteq DOMAIN services'
    BY <1>1
  <2>2. \A f \in findings' : f.port \in DOMAIN services' /\ f.reachability \in Reachabilities
    BY <1>1, <2>1 DEF IInv, TypeOK
  <2>3. \A p \in DOMAIN services' : services'[p].port = p
    BY <1>7
  <2> QED
    BY <1>1, <2>2, <2>3 DEF IInv, TypeOK, LoggedIn, Phases
<1> QED
  BY <1>1, <1>8, <1>9, GroundsLast DEF IInv

\* A goroutine that hangs learns nothing more.
LEMMA HeldStep == ASSUME IInv, InterrogationHangs \/ CollectionHangs PROVE IInv'
<1>1. /\ phase' = "held"
      /\ UNCHANGED <<host, was, request, todo, service, services, facts, findings>>
  BY DEF InterrogationHangs, CollectionHangs
<1>2. TypeOK' /\ LoggedIn'
  BY <1>1 DEF IInv, TypeOK, LoggedIn, Phases
<1> QED
  BY <1>1, <1>2, GroundsLast DEF IInv

\* Without a login there are no facts.
LEMMA NoCollectionStep == ASSUME IInv, NoCollection PROVE IInv'
<1>1. /\ phase' = "evaluate" /\ todo' = DOMAIN services
      /\ UNCHANGED <<host, was, request, service, services, facts, findings>>
  BY DEF NoCollection, StartEvaluation
<1>2. TypeOK' /\ LoggedIn'
  BY <1>1 DEF IInv, TypeOK, LoggedIn, Phases
<1> QED
  BY <1>1, <1>2, GroundsLast DEF IInv

\* The facts of a login hold nothing yet.
LEMMA LogInStep == ASSUME IInv, LogIn PROVE IInv'
<1>1. /\ request.ssh /\ phase' = "os" /\ facts' = HostAuditFact("", << >>, << >>)
      /\ UNCHANGED <<host, was, request, todo, service, services, findings>>
  BY DEF LogIn
<1>2. facts'.read = TRUE /\ facts'.packages = << >> /\ facts'.sockets = << >>
  BY <1>1 DEF HostAuditFact
<1>3. \A x : x \notin DOMAIN << >>
  OBVIOUS
<1>4. FactsGrounded'
  BY <1>2, <1>3 DEF FactsGrounded, PackagesGrounded, SocketsGrounded
<1>5. TypeOK' /\ LoggedIn'
  BY <1>1, <1>2 DEF IInv, TypeOK, LoggedIn, Phases
<1> QED
  BY <1>1, <1>2, <1>4, <1>5, GroundsLast DEF IInv

\* A command leaves the facts or files what the host is now.
LEMMA ReadStep == ASSUME IInv, ReadOS \/ ReadSockets \/ ReadPackages PROVE IInv'
<1>1. /\ phase \in {"os", "sockets", "packages"}
      /\ phase' \in {"sockets", "packages", "evaluate"}
      /\ phase' = "evaluate" => todo' = DOMAIN services
      /\ UNCHANGED <<host, was, request, service, services, findings>>
  BY DEF ReadOS, ReadSockets, ReadPackages, StartEvaluation
<1>2. facts.read /\ request.ssh /\ host \in was
  BY <1>1 DEF IInv, LoggedIn, TypeOK
<1>3. facts'.read /\ FactsGrounded'
  <2>1. CASE facts' = facts
    BY <1>1, <1>2, <2>1, GroundsLast
  <2>2. CASE ReadOS /\ facts' # facts
    <3>1. facts' = HostAuditFact(host.os, facts.packages, facts.sockets)
      BY <2>2 DEF ReadOS, Command
    <3>2. facts'.read = TRUE /\ facts'.packages = facts.packages /\ facts'.sockets = facts.sockets
      BY <3>1 DEF HostAuditFact
    <3> QED
      BY <1>1, <3>2 DEF IInv, FactsGrounded, PackagesGrounded, SocketsGrounded
  <2>3. CASE ReadSockets /\ facts' # facts
    <3>1. facts' = HostAuditFact(facts.os, facts.packages, ParseListeningSockets(host.sockets))
      BY <2>3 DEF ReadSockets, Command
    <3>2. /\ facts'.read = TRUE /\ facts'.packages = facts.packages
          /\ facts'.sockets = ParseListeningSockets(host.sockets)
      BY <3>1 DEF HostAuditFact
    <3>3. \A i \in DOMAIN facts'.sockets : i \in DOMAIN host.sockets /\ host.sockets[i].attributed
                                          /\ facts'.sockets[i] = host.sockets[i]
      BY <3>2 DEF ParseListeningSockets
    <3>4. PackagesGrounded(facts)'
      BY <1>1, <3>2 DEF IInv, FactsGrounded, PackagesGrounded
    <3>5. SocketsGrounded(facts)'
      BY <1>1, <1>2, <3>3 DEF SocketsGrounded
    <3> QED
      BY <3>2, <3>4, <3>5 DEF FactsGrounded
  <2>4. CASE ReadPackages /\ facts' # facts
    <3>1. facts' = HostAuditFact(facts.os, PackageList(host, facts.os), facts.sockets)
      BY <2>4 DEF ReadPackages, Command
    <3>2. /\ facts'.read = TRUE /\ facts'.packages = PackageList(host, facts.os)
          /\ facts'.sockets = facts.sockets
      BY <3>1 DEF HostAuditFact
    <3>3. ASSUME NEW n \in DOMAIN facts'.packages
          PROVE  /\ n \in DOMAIN host.packages
                 /\ facts'.packages[n] \in {WithEpoch(host.packages[n]), host.packages[n].rel}
      <4>1. CASE UsesDpkg(facts.os) = (host.os \in DpkgHosts)
        BY <3>2, <3>3, <4>1 DEF PackageList, Printed
      <4>2. CASE UsesDpkg(facts.os) # (host.os \in DpkgHosts)
        BY <3>2, <3>3, <4>2 DEF PackageList
      <4> QED
        BY <4>1, <4>2
    <3>4. PackagesGrounded(facts)'
      BY <1>1, <1>2, <3>3 DEF PackagesGrounded
    <3>5. SocketsGrounded(facts)'
      BY <1>1, <3>2 DEF IInv, FactsGrounded, SocketsGrounded
    <3> QED
      BY <3>2, <3>4, <3>5 DEF FactsGrounded
  <2> QED
    BY <2>1, <2>2, <2>3, <2>4
<1>4. TypeOK' /\ LoggedIn'
  BY <1>1, <1>2, <1>3 DEF IInv, TypeOK, LoggedIn, Phases
<1> QED
  BY <1>1, <1>3, <1>4, GroundsLast DEF IInv

\* An evaluated port adds the findings of its own service, under its own port.
LEMMA EvaluateStep == ASSUME IInv, NEW port \in todo, EvaluatePort(port) PROVE IInv'
<1> DEFINE reported == EvaluateService(Loaded, services[port], facts, request.ceiling)
           reach == EvaluateReachability(port, facts)
<1>1. /\ phase = "evaluate" /\ todo' = todo \ {port}
      /\ findings' = findings \cup
           {[plugin |-> p.id, port |-> port, reachability |-> reach] : p \in reported}
      /\ UNCHANGED <<host, was, request, phase, service, services, facts>>
  BY DEF EvaluatePort
<1>2. port \in DOMAIN services /\ services[port].port = port /\ Grounded(services[port])
  BY <1>1 DEF IInv, TypeOK, ServicesGrounded
<1>3. PICK s : s = services[port]
  OBVIOUS
<1>4. reach \in Reachabilities
  BY DEF EvaluateReachability, Reachabilities
<1>5. reach = "listening_and_loaded" =>
        /\ facts.read
        /\ \E h \in was : \E i \in DOMAIN h.sockets :
             /\ h.sockets[i].port = port /\ h.sockets[i].attributed
             /\ h.sockets[i].bind \notin Loopback
  <2> SUFFICES ASSUME reach = "listening_and_loaded" 
               PROVE  /\ facts.read
                      /\ \E h \in was : \E i \in DOMAIN h.sockets :
                           /\ h.sockets[i].port = port /\ h.sockets[i].attributed
                           /\ h.sockets[i].bind \notin Loopback
    OBVIOUS
  <2>1. PICK i \in Sharing(facts, port) : ~IsLocalhost(facts.sockets[i].bind)
    BY DEF EvaluateReachability
  <2>2. i \in DOMAIN facts.sockets /\ facts.sockets[i].port = port
    BY DEF Sharing
  <2>3. PICK h \in was : i \in DOMAIN h.sockets /\ facts.sockets[i] = h.sockets[i]
                         /\ h.sockets[i].attributed
    BY <2>2 DEF IInv, FactsGrounded, SocketsGrounded
  <2>4. facts.read
    BY <2>2 DEF IInv, FactsGrounded
  <2> QED
    BY <2>1, <2>2, <2>3, <2>4 DEF IsLocalhost, Loopback
<1>6. ASSUME NEW p \in reported
      PROVE  /\ PluginWithId(p.id) = p /\ WithinCeiling(p)
             /\ Telling(p) =>
                  \/ p.cond = "and" /\ \A m \in p.matchers : \E h \in was : GivesGrounds(h, m, port)
                  \/ p.cond = "or" /\ \E m \in p.matchers : \E h \in was : GivesGrounds(h, m, port)
  <2>1. s.port = port /\ Grounded(s)
    BY <1>2, <1>3
  <2>2. p \in EvaluateService(Loaded, s, facts, request.ceiling)
    BY <1>3, <1>6
  <2>3. TypeOK /\ PackagesGrounded(facts)
    BY DEF IInv, FactsGrounded
  <2>4. /\ p \in Loaded /\ WithinCeiling(p)
        /\ Telling(p) =>
             \/ p.cond = "and" /\ \A m \in p.matchers : \E h \in was : GivesGrounds(h, m, s.port)
             \/ p.cond = "or" /\ \E m \in p.matchers : \E h \in was : GivesGrounds(h, m, s.port)
    BY <2>1, <2>2, <2>3, ReportsHaveGrounds
  <2>5. PluginWithId(p.id) \in Loaded /\ PluginWithId(p.id).id = p.id
    BY <2>4 DEF PluginWithId
  <2>6. PluginWithId(p.id) = p
    BY <2>4, <2>5, UniqueIds
  <2> QED
    BY <2>1, <2>4, <2>6
<1> HIDE DEF reported, reach
<1>7. FindingsHaveGrounds'
  <2> SUFFICES ASSUME NEW f \in findings'
               PROVE  LET p == PluginWithId(f.plugin)
                          Given(m) == \E h \in was : GivesGrounds(h, m, f.port)
                      IN  /\ WithinCeiling(p)
                          /\ Telling(p) => \/ p.cond = "and" /\ \A m \in p.matchers : Given(m)
                                           \/ p.cond = "or" /\ \E m \in p.matchers : Given(m)
    BY <1>1 DEF FindingsHaveGrounds, WithinCeiling
  <2>1. CASE f \in findings
    BY <2>1 DEF IInv, FindingsHaveGrounds
  <2>2. CASE f \notin findings
    <3>1. PICK p \in reported : f = [plugin |-> p.id, port |-> port, reachability |-> reach]
      BY <1>1, <2>2
    <3>2. PluginWithId(f.plugin) = p /\ f.port = port
      BY <1>6, <3>1
    <3> QED
      BY <1>6, <3>2
  <2> QED
    BY <2>1, <2>2
<1>8. ReachabilityHasGrounds'
  <2> SUFFICES ASSUME NEW f \in findings', f.reachability = "listening_and_loaded"
               PROVE  /\ facts.read
                      /\ \E h \in was : \E i \in DOMAIN h.sockets :
                           /\ h.sockets[i].port = f.port /\ h.sockets[i].attributed
                           /\ h.sockets[i].bind \notin Loopback
    BY <1>1 DEF ReachabilityHasGrounds
  <2>1. CASE f \in findings
    BY <2>1 DEF IInv, ReachabilityHasGrounds
  <2>2. CASE f \notin findings
    <3>1. f.port = port /\ f.reachability = reach
      BY <1>1, <2>2
    <3> QED
      BY <1>5, <3>1
  <2> QED
    BY <2>1, <2>2
<1>9. TypeOK'
  <2>1. \A f \in findings' : f.port \in DOMAIN services' /\ f.reachability \in Reachabilities
    BY <1>1, <1>2, <1>4 DEF IInv, TypeOK
  <2> QED
    BY <1>1, <2>1 DEF IInv, TypeOK
<1>10. LoggedIn'
  BY <1>1 DEF LoggedIn
<1> QED
  BY <1>1, <1>7, <1>8, <1>9, <1>10, GroundsLast DEF IInv

\* The last step changes the phase alone.
LEMMA FinishStep == ASSUME IInv, Finish PROVE IInv'
<1>1. /\ phase' = "done"
      /\ UNCHANGED <<host, was, request, todo, service, services, facts, findings>>
  BY DEF Finish
<1>2. TypeOK' /\ LoggedIn'
  BY <1>1 DEF IInv, TypeOK, LoggedIn, Phases
<1> QED
  BY <1>1, <1>2, GroundsLast DEF IInv

\* Every step keeps the invariant.
LEMMA StepInv == IInv /\ [Next]_vars => IInv'
<1> SUFFICES ASSUME IInv, [Next]_vars PROVE IInv'
  OBVIOUS
<1>1. CASE HostChanges
  BY <1>1, HostStep
<1>2. CASE TestPort
  BY <1>2, TestStep
<1>3. CASE Interrogate
  BY <1>3, InterrogateStep
<1>4. CASE InterrogationHangs \/ CollectionHangs
  BY <1>4, HeldStep
<1>5. CASE NoCollection
  BY <1>5, NoCollectionStep
<1>6. CASE LogIn
  BY <1>6, LogInStep
<1>7. CASE ReadOS \/ ReadSockets \/ ReadPackages
  BY <1>7, ReadStep
<1>8. CASE Evaluate
  BY <1>8, EvaluateStep DEF Evaluate
<1>9. CASE Finish
  BY <1>9, FinishStep
<1>10. CASE UNCHANGED vars
  <2>1. UNCHANGED <<host, was, request, phase, todo, service, services, facts, findings>>
    BY <1>10 DEF vars
  <2>2. TypeOK' /\ LoggedIn'
    BY <2>1 DEF IInv, TypeOK, LoggedIn
  <2> QED
    BY <2>1, <2>2, GroundsLast DEF IInv
<1> QED
  BY <1>1, <1>2, <1>3, <1>4, <1>5, <1>6, <1>7, <1>8, <1>9, <1>10 DEF Next, Assess

\* The invariant holds of every behaviour.
LEMMA Invariant == Safety => []IInv
BY InitInv, StepInv, PTL DEF Safety

-----------------------------------------------------------------------------
(* The theorems.                                                            *)

\* Services are filed under their ports, and facts exist only after a login the
\* request asked for.
THEOREM AssessmentIsTyped == Safety => []TypeOK
<1>1. IInv => TypeOK
  BY DEF IInv
<1> QED
  BY <1>1, Invariant, PTL

\* Whatever the host, the plugins and the changes of the host under the scan, a
\* finding comes from no plugin of a listed class above the ceiling, and what a
\* telling plugin asks for was true of the host, at that port, at some moment of
\* the assessment: a version that has a number, and a package without an epoch, is
\* earlier than the fix.  Of the two exceptions it is proved only that there was
\* such a version or package.
THEOREM FindingsAreGrounded == Safety => []FindingsHaveGrounds
<1>1. IInv => FindingsHaveGrounds
  BY DEF IInv
<1> QED
  BY <1>1, Invariant, PTL

\* A finding has the first priority only where the host has shown a process on
\* a socket at that port that is bound to none of 127.0.0.1, ::1 and [::1]: no
\* login that failed, no missing line and no line without a process gives it.
THEOREM ReachabilityIsGrounded == Safety => []ReachabilityHasGrounds
<1>1. IInv => ReachabilityHasGrounds
  BY DEF IInv
<1> QED
  BY <1>1, Invariant, PTL

-----------------------------------------------------------------------------
(* Nothing is missed.  While the host stays the same, what was gathered of  *)
(* a port is one of the outcomes of its two contacts, and every port that   *)
(* was asked for has been contacted by the time the plugins are evaluated.  *)

Wanted == DOMAIN host.peers \cap PortsToScan(request.ports)

Outcome(port, s) == s \in Interrogations(TestTLS(port, PeerAt(port)), PeerAt(port))

Answers == \A p \in DOMAIN services : Outcome(p, services[p])
Tested == phase = "contact" => service = TestTLS(service.port, PeerAt(service.port))
Queued == /\ phase \in {"tls", "contact"} => Wanted \subseteq todo \cup DOMAIN services
          /\ phase \in {"os", "sockets", "packages", "evaluate", "done"} =>
               Wanted \subseteq DOMAIN services

\* Every service the evaluation is through with has its findings.
ReportedAt(port) ==
  \A p \in EvaluateService(Loaded, services[port], facts, request.ceiling) :
    \E f \in findings : f.plugin = p.id /\ f.port = port
Reported == phase \in {"evaluate", "done"} => \A port \in DOMAIN services \ todo : ReportedAt(port)
Over == phase = "done" => todo = {}

CInv == /\ IInv /\ Reported /\ Over
        /\ was = {host} => Answers /\ Tested /\ Queued

-----------------------------------------------------------------------------
(* What one contact leaves of a service that shows itself.                  *)

\* A peer that is understood has been understood: its answer is all the contact
\* can end with.
LEMMA UnderstoodIsAnswered ==
  ASSUME NEW port, NEW peer, Understood(port, peer),
         NEW s \in Interrogations(TestTLS(port, peer), peer)
  PROVE  /\ s = Answered(TestTLS(port, peer), peer)
         /\ TestTLS(port, peer).port = port
         /\ TestTLS(port, peer).tunnel = (peer.tls # "none")
<1> DEFINE svc == TestTLS(port, peer)
<1>1. svc.port = port /\ svc.tunnel = (peer.tls # "none")
  <2> HIDE DEF svc
  <2>1. CASE peer.tls = "none"
    <3>1. svc = NewService(port, FALSE, "")
      BY <2>1 DEF svc, TestTLS, Understood, Handshakes
    <3>2. svc.port = port /\ svc.tunnel = FALSE
      BY <3>1 DEF NewService
    <3> QED
      BY <2>1, <3>2
  <2>2. CASE peer.tls # "none"
    <3>1. svc = NewService(port, TRUE, "") \/ svc = NewService(port, TRUE, peer.tls)
      BY <2>2 DEF svc, TestTLS, Understood, Handshakes
    <3>2. \A tls : NewService(port, TRUE, tls).port = port /\ NewService(port, TRUE, tls).tunnel = TRUE
      BY DEF NewService
    <3>3. svc.port = port /\ svc.tunnel = TRUE
      BY <3>1, <3>2
    <3> QED
      BY <2>2, <3>3
  <2> QED
    BY <2>1, <2>2
<1> HIDE DEF svc
<1>2. MustAnswer(svc, peer)
  BY <1>1 DEF MustAnswer, MayAnswer, Understood, Handshakes
<1>3. ~(peer.talk = "speaks" /\ peer.tls # "none" /\ Protocol(svc.port) = "redis")
  BY <1>1 DEF Understood
<1>4. Interrogations(svc, peer) = {Answered(svc, peer)}
  BY <1>2, <1>3 DEF Interrogations, MustAnswer
<1> QED
  BY <1>1, <1>4 DEF svc

\* The answer carries the names, the banner and the version the peer shows.
LEMMA AnswerShows ==
  ASSUME NEW port, NEW peer, Understood(port, peer),
         NEW s \in Interrogations(TestTLS(port, peer), peer)
  PROVE  /\ s.port = port /\ s.banner = peer.banner
         /\ NamesOf(port, peer) \subseteq {s.name, s.product}
         /\ peer.product \in Versioned(Protocol(port)) => s.version = peer.version
<1> DEFINE svc == TestTLS(port, peer)
<1>1. s = Answered(svc, peer) /\ svc.port = port /\ svc.tunnel = (peer.tls # "none")
  BY UnderstoodIsAnswered
<1> HIDE DEF svc
<1>2. /\ s.port = port /\ s.banner = peer.banner /\ s.name = NameOf(svc)
      /\ Names(Protocol(port), peer) => s.product = peer.product
      /\ peer.product \in Versioned(Protocol(port)) => s.version = peer.version
  BY <1>1 DEF Answered, Interrogated
<1>3. Protocol(port) \in {"ftp", "ssh", "smtp", "http", "mysql", "redis", "generic"}
  BY DEF Protocol
<1>4. NameOf(svc) = (CASE Protocol(port) = "http" /\ peer.tls # "none" -> "https"
                       [] Protocol(port) = "generic" -> DefaultName(port)
                       [] OTHER -> Protocol(port))
  BY <1>1, <1>3 DEF NameOf
<1> QED
  BY <1>2, <1>4 DEF NamesOf

\* An earlier version is one the engine calls lower.
LEMMA EarlierIsLower ==
  ASSUME NEW installed, NEW fixedIn, NEW v \in installed, NEW fix \in fixedIn, Earlier(v, fix)
  PROVE  MatchVersion(installed, fixedIn)
BY DEF MatchVersion, CompareVersions

\* A plugin that looks for nothing but what the peer shows reports it, whatever
\* facts there are.
LEMMA ShownIsReported ==
  ASSUME TypeOK, NEW p \in Loaded, Rank(p.safety) <= Rank(request.ceiling),
         NEW port \in DOMAIN host.peers, Exhibits(p, port, host.peers[port]),
         NEW s \in Interrogations(TestTLS(port, host.peers[port]), host.peers[port])
  PROVE  p \in EvaluateService(Loaded, s, facts, request.ceiling)
<1> DEFINE peer == host.peers[port]
           Shown(m) == /\ ~m.negative
                       /\ \/ m.type = "banner" /\ peer.banner \in m.pattern
                          \/ /\ m.type = "version" /\ peer.product \in Versioned(Protocol(port))
                             /\ \E v \in peer.version, fix \in m.fixedIn :
                                  v # << >> /\ Earlier(v, fix)
<1>1. /\ Understood(port, peer) /\ p.os = {} /\ ~p.credentials
      /\ p.ports = {} \/ port \in p.ports
      /\ p.services = {} \/ p.services \cap NamesOf(port, peer) # {}
      /\ \/ p.cond = "and" /\ p.matchers # {} /\ \A m \in p.matchers : Shown(m)
         \/ p.cond = "or" /\ \E m \in p.matchers : Shown(m)
  BY DEF Exhibits
<1>2. /\ s.port = port /\ s.banner = peer.banner
      /\ NamesOf(port, peer) \subseteq {s.name, s.product}
      /\ peer.product \in Versioned(Protocol(port)) => s.version = peer.version
  BY <1>1, AnswerShows
<1>3. IsSafetyPermitted(p.safety, request.ceiling)
  BY RequestsAssumption DEF IsSafetyPermitted, TypeOK
<1>4. MatchesRequirements(p, s, facts)
  BY <1>1, <1>2 DEF MatchesRequirements
<1>5. ASSUME NEW m \in p.matchers, Shown(m) PROVE Matches(m, s, facts)
  <2>1. m.negative = FALSE
    BY <1>5, NegationIsBoolean
  <2>2. CASE m.type = "banner"
    <3>1. OnBanner(m) /\ s.banner \in m.pattern
      BY <1>2, <1>5, <2>2 DEF OnBanner
    <3> QED
      BY <2>1, <3>1 DEF Matches
  <2>3. CASE m.type = "version"
    <3>1. s.version = peer.version /\ \E v \in peer.version, fix \in m.fixedIn : Earlier(v, fix)
      BY <1>2, <1>5, <2>3
    <3>2. MatchVersion(s.version, m.fixedIn)
      BY <3>1, EarlierIsLower
    <3> QED
      BY <2>1, <2>3, <3>2 DEF Matches
  <2> QED
    BY <1>5, <2>2, <2>3
<1>6. EvaluateMatchers(p, s, facts)
  BY <1>1, <1>5 DEF EvaluateMatchers
<1> QED
  BY <1>3, <1>4, <1>6 DEF EvaluateService

\* A plugin file that is reached, and that no later file replaces, is loaded.
LEMMA LastIsLoaded ==
  ASSUME NEW i \in DOMAIN PluginFiles, PluginFiles[i].kind = "plugin",
         \A j \in DOMAIN PluginFiles :
           /\ j < i => PluginFiles[j].kind # "bad"
           /\ j > i /\ PluginFiles[j].kind = "plugin"
                => PluginFiles[j].plugin.id # PluginFiles[i].plugin.id
  PROVE  PluginFiles[i].plugin \in Loaded
<1>1. i \in 1..Len(PluginFiles) /\ DOMAIN PluginFiles = 1..Len(PluginFiles) /\ Len(PluginFiles) \in Nat
  BY PluginAssumption
<1>2. \A j \in 1..i : PluginFiles[j].kind # "bad"
  BY <1>1
<1>3. \A j \in (i + 1)..Len(PluginFiles) :
        PluginFiles[j].kind = "plugin" => PluginFiles[j].plugin.id # PluginFiles[i].plugin.id
  BY <1>1
<1> QED
  BY <1>1, <1>2, <1>3 DEF Loaded, LoadFromDir

\* A port in one of the parts of a specification that parses is scanned.
LEMMA AskedIsScanned ==
  ASSUME TypeOK, NEW port \in DOMAIN host.peers,
         \A part \in request.ports : ValidPart(part),
         \E part \in request.ports : part.from <= port /\ port <= part.to
  PROVE  port \in Wanted
<1>1. PICK part \in request.ports : part.from <= port /\ port <= part.to
  OBVIOUS
<1>2. port \in Nat /\ part.from \in Int /\ part.to \in Int
  BY HostsAssumption, RequestsAssumption DEF TypeOK
<1>3. port \in part.from..part.to
  BY <1>1, <1>2
<1>4. PortsToScan(request.ports) = UNION {q.from..q.to : q \in request.ports}
  BY <1>1 DEF PortsToScan
<1> QED
  BY <1>1, <1>3, <1>4 DEF Wanted

-----------------------------------------------------------------------------
(* ... and it is inductive.                                                 *)

\* At the start everything is still to be done.
LEMMA InitComplete == Init => CInv
<1> SUFFICES ASSUME Init PROVE CInv
  OBVIOUS
<1>1. DOMAIN services = {} /\ phase = "tls" /\ todo = Wanted
  <2>1. services = << >> /\ phase = "tls"
    BY DEF Init
  <2>2. \A x : x \notin DOMAIN << >>
    OBVIOUS
  <2> QED
    BY <2>1, <2>2 DEF Init, Wanted
<1>2. IInv
  BY InitInv
<1> QED
  BY <1>1, <1>2 DEF CInv, Reported, Over, Answers, Tested, Queued

\* What does not change stays complete.
LEMMA CompleteLasts ==
  ASSUME CInv, host' = host, was' = was, request' = request
  PROVE  /\ services' = services /\ was = {host} => Answers'
         /\ phase' # "contact" \/ (phase' = phase /\ service' = service) =>
              (was = {host} => Tested')
         /\ was = {host} =>
              /\ Wanted' = Wanted
              /\ phase \in {"tls", "contact"} => Wanted \subseteq todo \cup DOMAIN services
              /\ phase \notin {"tls", "contact", "held"} => Wanted \subseteq DOMAIN services
<1>1. \A port : PeerAt(port)' = PeerAt(port)
  BY DEF PeerAt
<1>2. services' = services /\ was = {host} => Answers'
  BY <1>1 DEF CInv, Answers, Outcome
<1>3. phase' # "contact" \/ (phase' = phase /\ service' = service) => (was = {host} => Tested')
  BY <1>1 DEF CInv, Tested
<1>4. was = {host} =>
        /\ Wanted' = Wanted
        /\ phase \in {"tls", "contact"} => Wanted \subseteq todo \cup DOMAIN services
        /\ phase \notin {"tls", "contact", "held"} => Wanted \subseteq DOMAIN services
  <2>1. Wanted' = Wanted /\ phase \in Phases
    BY DEF Wanted, CInv, IInv, TypeOK
  <2>2. was = {host} => Queued
    BY DEF CInv
  <2>3. phase \notin {"tls", "contact", "held"} =>
          phase \in {"os", "sockets", "packages", "evaluate", "done"}
    BY <2>1 DEF Phases
  <2> QED
    BY <2>1, <2>2, <2>3, Zenon DEF Queued
<1> QED
  BY <1>2, <1>3, <1>4

\* A host that has changed is no longer what it was.
LEMMA HostComplete == ASSUME CInv, IInv', HostChanges PROVE CInv'
<1>1. was' # {host'}
  BY DEF HostChanges, CInv, IInv, TypeOK
<1>2. UNCHANGED <<request, phase, todo, services, facts, findings>>
  BY DEF HostChanges
<1>3. Reported' /\ Over'
  BY <1>2 DEF CInv, Reported, Over, ReportedAt
<1> QED
  BY <1>1, <1>3 DEF CInv

\* The first contact of a port.
LEMMA TestComplete == ASSUME CInv, IInv', TestPort PROVE CInv'
<1>1. /\ phase = "tls" /\ phase' = "contact"
      /\ UNCHANGED <<host, was, request, todo, services, facts, findings>>
  BY DEF TestPort
<1>2. PICK port : service' = TestTLS(port, PeerAt(port))
  BY DEF TestPort
<1>3. Tested'
  <2>1. \A peer : TestTLS(port, peer).port = port
    BY DEF TestTLS, NewService
  <2>2. \A q : PeerAt(q)' = PeerAt(q)
    BY <1>1 DEF PeerAt
  <2>3. service'.port = port
    BY <1>2, <2>1
  <2> QED
    BY <1>2, <2>2, <2>3 DEF Tested
<1>4. was = {host} => Answers' /\ Queued'
  BY <1>1, CompleteLasts DEF Queued
<1> QED
  BY <1>1, <1>3, <1>4 DEF CInv, Reported, Over

\* The second contact leaves an outcome under the port and takes it off the list.
LEMMA InterrogateComplete == ASSUME CInv, IInv', Interrogate PROVE CInv'
<1>1. /\ phase = "contact" /\ phase' = "tls"
      /\ service' \in Interrogations(service, PeerAt(service.port))
      /\ services' = [p \in DOMAIN services \cup {service.port} |->
                        IF p = service.port THEN service' ELSE services[p]]
      /\ todo' = todo \ {service.port}
      /\ UNCHANGED <<host, was, request, facts, findings>>
  BY DEF Interrogate
<1>2. ASSUME was = {host} PROVE Answers'
  <2>1. Outcome(service.port, service')
    BY <1>1, <1>2 DEF CInv, Tested, Outcome
  <2>2. ASSUME NEW p \in DOMAIN services' PROVE Outcome(p, services'[p])
    BY <1>1, <1>2, <2>1, <2>2 DEF CInv, Answers
  <2>3. \A p, s : Outcome(p, s)' <=> Outcome(p, s)
    BY <1>1 DEF Outcome, PeerAt
  <2> QED
    BY <2>2, <2>3 DEF Answers
<1>3. ASSUME was = {host} PROVE Tested' /\ Queued'
  <2>1. DOMAIN services' = DOMAIN services \cup {service.port}
    BY <1>1
  <2> QED
    BY <1>1, <1>3, <2>1, CompleteLasts DEF Tested, Queued
<1> QED
  BY <1>1, <1>2, <1>3 DEF CInv, Reported, Over

\* From one loop to the next.
LEMMA MiddleComplete ==
  ASSUME CInv, IInv',
         \/ NoCollection \/ LogIn \/ InterrogationHangs \/ CollectionHangs
         \/ ReadOS \/ ReadSockets \/ ReadPackages
  PROVE  CInv'
<1>1. /\ \/ phase = "tls" /\ todo = {}
         \/ phase \in {"os", "sockets", "packages"}
         \/ phase' = "held"
      /\ phase' \in {"os", "sockets", "packages", "evaluate", "held"}
      /\ phase' = "evaluate" => todo' = DOMAIN services
      /\ UNCHANGED <<host, was, request, service, services, findings>>
  BY DEF NoCollection, LogIn, InterrogationHangs, CollectionHangs, ReadOS, ReadSockets, ReadPackages,
         StartEvaluation
<1>2. Reported' /\ Over'
  BY <1>1 DEF Reported, Over
<1>3. was = {host} => Answers' /\ Tested' /\ Queued'
  BY <1>1, CompleteLasts DEF Queued
<1> QED
  BY <1>1, <1>2, <1>3 DEF CInv

\* A port leaves the list of the last loop with everything the engine says of it.
LEMMA EvaluateComplete == ASSUME CInv, IInv', NEW port \in todo, EvaluatePort(port) PROVE CInv'
<1> DEFINE reported == EvaluateService(Loaded, services[port], facts, request.ceiling)
           reach == EvaluateReachability(port, facts)
<1>1. /\ phase = "evaluate" /\ todo' = todo \ {port}
      /\ findings' = findings \cup
           {[plugin |-> p.id, port |-> port, reachability |-> reach] : p \in reported}
      /\ UNCHANGED <<host, was, request, phase, service, services, facts>>
  BY DEF EvaluatePort
<1>2. \A p \in reported : \E f \in findings' : f.plugin = p.id /\ f.port = port
  <2> HIDE DEF reported, reach
  <2> SUFFICES ASSUME NEW p \in reported PROVE \E f \in findings' : f.plugin = p.id /\ f.port = port
    OBVIOUS
  <2> DEFINE f == [plugin |-> p.id, port |-> port, reachability |-> reach]
  <2>1. f \in findings' /\ f.plugin = p.id /\ f.port = port
    BY <1>1
  <2> QED
    BY <2>1
<1>3. ReportedAt(port)'
  BY <1>1, <1>2 DEF ReportedAt
<1>4. ASSUME NEW q, ReportedAt(q) PROVE ReportedAt(q)'
  BY <1>1, <1>4 DEF ReportedAt
<1>5. Reported' /\ Over'
  <2>1. ASSUME NEW q \in DOMAIN services' \ todo' PROVE ReportedAt(q)'
    <3>1. q = port \/ q \in DOMAIN services \ todo
      BY <1>1
    <3>2. CASE q = port
      BY <1>1, <1>2, <3>2 DEF ReportedAt
    <3>3. CASE q \in DOMAIN services \ todo
      BY <1>1, <1>4, <3>3 DEF CInv, Reported
    <3> QED
      BY <3>1, <3>2, <3>3
  <2> QED
    BY <1>1, <2>1 DEF Reported, Over
<1>6. was = {host} => Answers' /\ Tested' /\ Queued'
  BY <1>1, CompleteLasts DEF Queued
<1> QED
  BY <1>1, <1>5, <1>6 DEF CInv

\* The last loop ends with its list.
LEMMA FinishComplete == ASSUME CInv, IInv', Finish PROVE CInv'
<1>1. /\ phase = "evaluate" /\ todo = {} /\ phase' = "done"
      /\ UNCHANGED <<host, was, request, todo, service, services, facts, findings>>
  BY DEF Finish
<1>2. Reported' /\ Over'
  BY <1>1 DEF CInv, Reported, Over, ReportedAt
<1>3. was = {host} => Answers' /\ Tested' /\ Queued'
  BY <1>1, CompleteLasts DEF Queued
<1> QED
  BY <1>1, <1>2, <1>3 DEF CInv

\* Every step keeps the assessment complete.
LEMMA StepComplete == CInv /\ [Next]_vars => CInv'
<1> SUFFICES ASSUME CInv, [Next]_vars PROVE CInv'
  OBVIOUS
<1>1. IInv'
  BY StepInv DEF CInv
<1>2. CASE UNCHANGED vars
  <2>1. UNCHANGED <<host, was, request, phase, todo, service, services, facts, findings>>
    BY <1>2 DEF vars
  <2>2. Reported' /\ Over'
    BY <2>1 DEF CInv, Reported, Over, ReportedAt
  <2>3. was = {host} => Answers' /\ Tested' /\ Queued'
    BY <2>1, CompleteLasts DEF Queued
  <2> QED
    BY <1>1, <2>1, <2>2, <2>3 DEF CInv
<1>3. CASE Evaluate
  BY <1>1, <1>3, EvaluateComplete DEF Evaluate
<1> QED
  BY <1>1, <1>2, <1>3, HostComplete, TestComplete, InterrogateComplete, MiddleComplete, FinishComplete
     DEF Next, Assess

\* Whatever the host, the request, the plugins and the outcome of the SSH
\* collection: an assessment that ends, of a host that stayed the same, has
\* reported every flaw the host shows in a banner or a version, on every port
\* that was asked for, and a permitted plugin looks for.
THEOREM ShownFlawsReported == Safety => []ShownFlawsAreReported
<1>1. ASSUME CInv PROVE ShownFlawsAreReported
  <2> SUFFICES ASSUME phase = "done", was = {host},
                      NEW i \in DOMAIN PluginFiles, NEW port \in DOMAIN host.peers,
                      \A part \in request.ports : ValidPart(part),
                      \E part \in request.ports : part.from <= port /\ port <= part.to,
                      PluginFiles[i].kind = "plugin",
                      \A j \in DOMAIN PluginFiles :
                        /\ j < i => PluginFiles[j].kind # "bad"
                        /\ j > i /\ PluginFiles[j].kind = "plugin"
                             => PluginFiles[j].plugin.id # PluginFiles[i].plugin.id,
                      Rank(PluginFiles[i].plugin.safety) <= Rank(request.ceiling),
                      Exhibits(PluginFiles[i].plugin, port, host.peers[port])
               PROVE  \E f \in findings : f.plugin = PluginFiles[i].plugin.id /\ f.port = port
    BY DEF ShownFlawsAreReported
  <2>1. TypeOK /\ Queued /\ Answers /\ Reported /\ todo = {}
    BY <1>1 DEF CInv, IInv, Over
  <2>2. port \in DOMAIN services
    BY <2>1, AskedIsScanned DEF Queued
  <2>3. services[port] \in Interrogations(TestTLS(port, host.peers[port]), host.peers[port])
    BY <2>1, <2>2 DEF Answers, Outcome, PeerAt
  <2>4. PluginFiles[i].plugin \in Loaded
    BY LastIsLoaded
  <2>5. PluginFiles[i].plugin \in EvaluateService(Loaded, services[port], facts, request.ceiling)
    BY <2>1, <2>3, <2>4, ShownIsReported
  <2> QED
    BY <2>1, <2>2, <2>5 DEF Reported, ReportedAt
<1>2. Safety => []CInv
  BY InitComplete, StepComplete, PTL DEF Safety
<1> QED
  BY <1>1, <1>2, PTL

-----------------------------------------------------------------------------
(* What the end of an assessment rests on, fairness and enabledness apart.  *)

\* The ports whose probe reads without a deadline are those listed.
LEMMA DeadlinePorts ==
  ASSUME NEW port, ~HasDeadline(Protocol(port))
  PROVE  port \in UnboundedPorts
BY DEF HasDeadline, Protocol, UnboundedPorts, HttpPorts

\* A port that is not open closes the connection.
LEMMA WaitingIsOpen ==
  ASSUME NEW port, PeerAt(port).talk \in {"silent", "speaks"}
  PROVE  port \in DOMAIN host.peers /\ PeerAt(port) = host.peers[port]
BY DEF PeerAt, Closed

\* Which port is in contact can be told from the list.
Queueing == phase = "contact" => service.port \in todo

\* The port under contact is still on the list.
LEMMA QueueingStep == Queueing /\ [Next]_vars => Queueing'
<1> SUFFICES ASSUME Queueing, [Next]_vars, phase' = "contact" PROVE service'.port \in todo'
  BY DEF Queueing
<1>1. CASE TestPort
  <2>1. PICK port \in todo : service' = TestTLS(port, PeerAt(port))
    BY <1>1 DEF TestPort
  <2>2. \A peer : TestTLS(port, peer).port = port
    BY DEF TestTLS, NewService
  <2>3. service'.port = port
    BY <2>1, <2>2
  <2> QED
    BY <1>1, <2>3 DEF TestPort
<1>2. CASE ~TestPort
  BY <1>2 DEF Queueing, Next, Assess, HostChanges, Interrogate, InterrogationHangs, NoCollection, LogIn,
     CollectionHangs, ReadOS, ReadSockets, ReadPackages, StartEvaluation, Evaluate, EvaluatePort, Finish,
     vars
<1> QED
  BY <1>1, <1>2

\* The facts are collected when no port is left.
Collecting == phase \in {"os", "sockets", "packages"} => todo = {}

\* No step of the collection puts a port back.
LEMMA CollectingStep == Collecting /\ [Next]_vars => Collecting'
BY DEF Collecting, Next, Assess, HostChanges, TestPort, Interrogate, InterrogationHangs, NoCollection,
   LogIn, CollectionHangs, ReadOS, ReadSockets, ReadPackages, StartEvaluation, Evaluate, EvaluatePort,
   Finish, vars

HeldForAReason == phase = "held" => HeldByItsPeer

\* Only the peer an assessment is in contact with holds it for ever: at a port
\* whose probe has no deadline, silent or waiting for a handshake.
THEOREM OnlySilenceHolds == Safety => [](phase = "held" => HeldByItsPeer)
<1>1. Init => HeldForAReason /\ Queueing /\ Collecting
  BY DEF Init, HeldForAReason, Queueing, Collecting
<1>2. HeldForAReason /\ Queueing /\ Collecting /\ [Next]_vars => HeldForAReason'
  <2> SUFFICES ASSUME HeldForAReason, Queueing, Collecting, [Next]_vars, phase' = "held"
               PROVE  HeldByItsPeer'
    BY DEF HeldForAReason
  <2>1. ASSUME Contacted' \in UnboundedPorts, host' = host,
               PeerAt(Contacted').talk \in {"silent", "speaks"},
               PeerAt(Contacted').talk = "silent" \/ PeerAt(Contacted').tls # "none"
        PROVE  HeldByItsPeer'
    <3>1. /\ Contacted' \in DOMAIN host.peers
          /\ PeerAt(Contacted') = host.peers[Contacted']
      BY <2>1, WaitingIsOpen
    <3> QED
      BY <2>1, <3>1 DEF HeldByItsPeer
  <2>2. CASE InterrogationHangs
    <3>1. Waits(service, PeerAt(service.port)) /\ service.port \in UnboundedPorts /\ host' = host
      BY <2>2, DeadlinePorts DEF InterrogationHangs, Blocks
    <3>2. Contacted' = service.port
      BY <2>2 DEF InterrogationHangs, Queueing, Contacted
    <3> QED
      BY <2>1, <3>1, <3>2 DEF Waits
  <2>3. CASE CollectionHangs
    <3>1. Contacted' = 22 /\ host' = host /\ PeerAt(22).talk = "silent"
      BY <2>3 DEF CollectionHangs, SshPeer, Collecting, Contacted
    <3> QED
      BY <2>1, <3>1 DEF UnboundedPorts
  <2>4. CASE phase = "held" /\ UNCHANGED <<host, todo, service>>
    BY <2>4 DEF HeldForAReason, HeldByItsPeer, Contacted
  <2> QED
    BY <2>2, <2>3, <2>4 DEF Next, Assess, HostChanges, TestPort, Interrogate, NoCollection, LogIn,
       ReadOS, ReadSockets, ReadPackages, StartEvaluation, Evaluate, EvaluatePort, Finish, vars
<1> QED
  BY <1>1, <1>2, QueueingStep, CollectingStep, PTL DEF Safety, HeldForAReason

\* The order of the phases; the two of the first loop share a place.
Place == [tls |-> 1, contact |-> 1, os |-> 2, sockets |-> 3, packages |-> 4, evaluate |-> 5,
          done |-> 6, held |-> 6]

Advances ==
  \/ host' # host /\ UNCHANGED <<phase, todo>>
  \/ Place[phase'] > Place[phase]
  \/ Place[phase'] = Place[phase] /\ todo' \subseteq todo /\ todo' # todo
  \/ phase = "tls" /\ phase' = "contact" /\ todo' = todo

\* No step of an assessment comes back to where it was: a step is one of the
\* environment's, or enters a later phase, or takes a port off the list of its
\* loop, or begins the contact of one.  So every assessment that keeps stepping
\* ends, whatever its host does.
THEOREM AssessmentAdvances == Safety => [][Advances]_vars
<1>1. Init => Queueing
  BY DEF Init, Queueing
<1>2. ASSUME IInv, Queueing, Next PROVE Advances
  <2>1. CASE HostChanges
    BY <1>2, <2>1 DEF HostChanges, Advances, IInv, TypeOK
  <2>2. CASE TestPort
    BY <2>2 DEF TestPort, Advances
  <2>3. CASE Interrogate
    BY <1>2, <2>3 DEF Interrogate, Advances, Place, Queueing
  <2>4. CASE Evaluate
    BY <2>4 DEF Evaluate, EvaluatePort, Advances
  <2>5. CASE InterrogationHangs \/ NoCollection \/ LogIn \/ CollectionHangs \/ ReadOS \/ ReadSockets
             \/ ReadPackages \/ Finish
    <3>1. CASE InterrogationHangs \/ CollectionHangs
      <4>1. phase' = "held" /\ phase \in {"contact", "tls", "os", "sockets", "packages"}
        BY <3>1 DEF InterrogationHangs, CollectionHangs
      <4> QED
        BY <4>1 DEF Advances, Place
    <3>2. CASE NoCollection \/ LogIn
      <4>1. phase = "tls" /\ phase' \in {"os", "evaluate"}
        BY <3>2 DEF NoCollection, LogIn, StartEvaluation
      <4> QED
        BY <4>1 DEF Advances, Place
    <3>3. CASE ReadOS
      BY <3>3 DEF ReadOS, Advances, Place
    <3>4. CASE ReadSockets
      BY <3>4 DEF ReadSockets, Advances, Place
    <3>5. CASE ReadPackages
      BY <3>5 DEF ReadPackages, StartEvaluation, Advances, Place
    <3>6. CASE Finish
      BY <3>6 DEF Finish, Advances, Place
    <3> QED
      BY <2>5, <3>1, <3>2, <3>3, <3>4, <3>5, <3>6
  <2> QED
    BY <1>2, <2>1, <2>2, <2>3, <2>4, <2>5 DEF Next, Assess
<1>3. IInv /\ Queueing /\ [Next]_vars => [Advances]_vars
  BY <1>2
<1> QED
  BY <1>1, <1>3, QueueingStep, Invariant, PTL DEF Safety
=============================================================================
