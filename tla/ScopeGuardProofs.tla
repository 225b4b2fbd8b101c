-------------------------- MODULE ScopeGuardProofs ---------------------------
(***************************************************************************)
(* For any width of addresses, any scope, target and DNS answer: no socket *)
(* is opened out of scope, and what ValidateAndResolve accepts stays       *)
(* accepted except for a network whose own address is out of scope.        *)
(***************************************************************************)
EXTENDS ScopeGuard, TLAPS

-----------------------------------------------------------------------------
(* Prefixes: the code compares addresses with their host bits cleared, the   *)
(* meaning of a scope compares their leading bits.                          *)

\* Division with remainder.
LEMMA DivMod ==
  ASSUME NEW a \in Nat, NEW n \in Nat \ {0}
  PROVE  /\ a \div n \in Nat /\ a % n \in 0..(n - 1)
         /\ a = n * (a \div n) + (a % n)
OBVIOUS

\* A larger quotient makes a larger number, whatever the remainders.
LEMMA LargerQuotient ==
  ASSUME NEW n \in Nat \ {0}, NEW p \in Nat, NEW q \in Nat, p < q,
         NEW r \in 0..(n - 1), NEW s \in Nat
  PROVE  n * p + r < n * q + s
<1>1. PICK d \in Nat : q = p + 1 + d
  <2>1. q - p - 1 \in Nat /\ q = p + 1 + (q - p - 1)
    OBVIOUS
  <2> QED BY <2>1
<1>2. n * q = n * p + n + n * d
  BY <1>1
<1>3. n * d \in Nat /\ n * p \in Nat
  BY <1>1
<1> QED BY <1>2, <1>3

\* Quotient and remainder are determined.
LEMMA UniqueQuotient ==
  ASSUME NEW n \in Nat \ {0}, NEW p \in Nat, NEW q \in Nat,
         NEW r \in 0..(n - 1), NEW s \in 0..(n - 1), n * p + r = n * q + s
  PROVE  p = q /\ r = s
<1>0. n * p \in Nat /\ n * q \in Nat
  OBVIOUS
<1>1. ~(p < q)
  BY <1>0, LargerQuotient
<1>2. ~(q < p)
  BY <1>0, LargerQuotient
<1>3. p = q
  BY <1>1, <1>2
<1> QED BY <1>0, <1>3

\* The multiple of n at or below a number.
LEMMA MultipleBelow ==
  ASSUME NEW a \in Nat, NEW n \in Nat \ {0}
  PROVE  /\ a - (a % n) = n * (a \div n) /\ a - (a % n) \in 0..a
         /\ (a - (a % n)) % n = 0
<1> DEFINE q == a \div n
           r == a % n
<1>1. q \in Nat /\ r \in 0..(n - 1) /\ a = n * q + r
  BY DivMod
<1> HIDE DEF q, r
<1>2. n * q \in Nat
  BY <1>1
<1>3. a - r = n * q /\ a - r \in 0..a
  BY <1>1, <1>2
<1>4. (n * q) % n = 0
  <2> DEFINE x == n * q
             p == x \div n
             s == x % n
  <2>1. p \in Nat /\ s \in 0..(n - 1) /\ x = n * p + s
    BY <1>2, DivMod
  <2>2. n * p + s = n * q + 0 /\ 0 \in 0..(n - 1)
    BY <1>2, <2>1
  <2> HIDE DEF p, s
  <2>3. s = 0
    BY <1>1, <2>1, <2>2, UniqueQuotient
  <2> QED BY <2>3 DEF s
<1> QED BY <1>3, <1>4 DEF q, r

\* Two numbers have the same multiple of n below them iff they have the same
\* quotient.
LEMMA SameMultiple ==
  ASSUME NEW a \in Nat, NEW b \in Nat, NEW n \in Nat \ {0}
  PROVE  a - (a % n) = b - (b % n) <=> a \div n = b \div n
<1> DEFINE p == a \div n
           q == b \div n
<1>1. p \in Nat /\ q \in Nat /\ a - (a % n) = n * p /\ b - (b % n) = n * q
  BY DivMod, MultipleBelow
<1> HIDE DEF p, q
<1>2. ASSUME n * p = n * q PROVE p = q
  <2>1. 0 \in 0..(n - 1) /\ n * p + 0 = n * q + 0
    BY <1>2
  <2> QED BY <1>1, <2>1, UniqueQuotient
<1> QED BY <1>1, <1>2 DEF p, q

\* An address with its host bits cleared is an address, and stays what it is.
LEMMA MaskedAddress ==
  ASSUME NEW a \in Address, NEW len \in 0..W
  PROVE  Masked(a, len) \in Address /\ Masked(Masked(a, len), len) = Masked(a, len)
<1> DEFINE n == 2^(W - len)
           top == 2^W
           m == a - (a % n)
<1>1. n \in Nat \ {0} /\ top \in Nat \ {0} /\ Address = 0..(top - 1)
  BY PowerAssumption, WAssumption DEF Address
<1>2. Masked(a, len) = m /\ Masked(m, len) = m - (m % n)
  BY DEF Masked
<1> HIDE DEF n, top
<1>3. a \in Nat
  BY <1>1
<1>4. m \in 0..a /\ m % n = 0
  BY <1>1, <1>3, MultipleBelow
<1> HIDE DEF m
<1>5. m \in Address /\ m - (m % n) = m
  BY <1>1, <1>4
<1> QED BY <1>2, <1>5

\* Two addresses have the same network iff their leading bits agree.
LEMMA SamePrefix ==
  ASSUME NEW a \in Address, NEW b \in Address, NEW len \in 0..W
  PROVE  Masked(a, len) = Masked(b, len) <=> a \div 2^(W - len) = b \div 2^(W - len)
<1> DEFINE n == 2^(W - len)
           top == 2^W
<1>1. n \in Nat \ {0} /\ top \in Nat \ {0} /\ Address = 0..(top - 1)
  BY PowerAssumption, WAssumption DEF Address
<1>2. Masked(a, len) = a - (a % n) /\ Masked(b, len) = b - (b % n)
  BY DEF Masked
<1> HIDE DEF n, top
<1>3. a \in Nat /\ b \in Nat
  BY <1>1
<1>4. a - (a % n) = b - (b % n) <=> a \div n = b \div n
  BY <1>1, <1>3, SameMultiple
<1> QED BY <1>2, <1>4 DEF n

\* The loop variable of an enumeration stays an address.
LEMMA IncIPAddress ==
  ASSUME NEW a \in Address
  PROVE  IncIP(a) \in Address
<1> DEFINE n == 2^W
<1>1. n \in Nat \ {0} /\ IncIP(a) = (a + 1) % n /\ Address = 0..(n - 1)
  BY PowerAssumption, WAssumption DEF IncIP, Address
<1> HIDE DEF n
<1>2. a + 1 \in Nat
  BY <1>1
<1> QED BY <1>1, <1>2, DivMod

-----------------------------------------------------------------------------
(* The compiled guard means what the scope says.                            *)

\* InScope as a function of the scope.
Within(s, ip) == /\ s.status \in {"active", ""}
                 /\ \E e \in s.entries : Covers(e, ip)
                 /\ \A e \in s.exclusions : ~Covers(e, ip)

CompiledFrom(s) == [allowedNets |-> Nets(s.entries), allowedIPs |-> Ips(s.entries),
                    excludeNets |-> Nets(s.exclusions), excludeIPs |-> Ips(s.exclusions)]

Resolving == {"resolve", "enumerate", "records", "scan", "dial", "blocked", "done"}

GuardMeansScope == phase \in Resolving => /\ scope.status \in {"active", ""}
                                          /\ guard = CompiledFrom(scope)

\* An address matches the networks and addresses made of some entries iff one
\* of the entries covers it.
LEMMA ListsMeanEntries ==
  ASSUME NEW es \in SUBSET Entry, NEW ip \in Address
  PROVE  (ip \in Ips(es) \/ \E n \in Nets(es) : Contains(n, ip)) <=> \E e \in es : Covers(e, ip)
<1>1. \A e \in es : e.form = "net" =>
        (Contains([base |-> Masked(e.ip, e.len), len |-> e.len], ip) <=> Covers(e, ip))
  <2> TAKE e \in es
  <2> HAVE e.form = "net"
  <2>1. e.ip \in Address /\ e.len \in 0..W
    BY DEF Entry
  <2>2. Contains([base |-> Masked(e.ip, e.len), len |-> e.len], ip)
          <=> Masked(ip, e.len) = Masked(e.ip, e.len)
    BY DEF Contains
  <2>3. Masked(ip, e.len) = Masked(e.ip, e.len)
          <=> ip \div 2^(W - e.len) = e.ip \div 2^(W - e.len)
    BY <2>1, SamePrefix
  <2> QED BY <2>2, <2>3 DEF Covers
<1>2. ip \in Ips(es) <=> \E e \in es : e.form = "ip" /\ Covers(e, ip)
  BY DEF Ips, Covers
<1>3. (\E n \in Nets(es) : Contains(n, ip)) <=> \E e \in es : e.form = "net" /\ Covers(e, ip)
  <2> DEFINE net(e) == [base |-> Masked(e.ip, e.len), len |-> e.len]
  <2>1. \A n : n \in Nets(es) <=> \E e \in es : e.form = "net" /\ n = net(e)
    BY DEF Nets
  <2>2. \A e \in es : e.form = "net" => (Contains(net(e), ip) <=> Covers(e, ip))
    BY <1>1
  <2> HIDE DEF net
  <2> QED BY <2>1, <2>2
<1>4. \A e \in es : Covers(e, ip) => e.form \in {"net", "ip"}
  BY DEF Covers
<1> QED BY <1>2, <1>3, <1>4

\* IsIPAllowed, on a compiled guard, is membership in the scope.
LEMMA AllowedMeansWithin ==
  ASSUME scope \in Scopes, GuardMeansScope, phase \in Resolving, NEW ip \in Address
  PROVE  IsIPAllowed(ip) <=> Within(scope, ip)
<1>1. scope.entries \in SUBSET Entry /\ scope.exclusions \in SUBSET Entry
  BY ScopesAssumption
<1>2. /\ guard.allowedNets = Nets(scope.entries) /\ guard.allowedIPs = Ips(scope.entries)
      /\ guard.excludeNets = Nets(scope.exclusions) /\ guard.excludeIPs = Ips(scope.exclusions)
  <2>1. guard = CompiledFrom(scope)
    BY DEF GuardMeansScope
  <2> QED BY <2>1 DEF CompiledFrom
<1>3. Excluded(ip) <=> \E e \in scope.exclusions : Covers(e, ip)
  BY <1>1, <1>2, ListsMeanEntries DEF Excluded
<1>4. (ip \in guard.allowedIPs \/ \E n \in guard.allowedNets : Contains(n, ip))
        <=> \E e \in scope.entries : Covers(e, ip)
  BY <1>1, <1>2, ListsMeanEntries
<1> QED BY <1>3, <1>4 DEF IsIPAllowed, Within, GuardMeansScope

-----------------------------------------------------------------------------
(* The invariant.                                                           *)

NetworkOf(e) == Masked(e.ip, e.len)

\* Before the target is resolved nothing has been collected.
Fresh == phase \in {"compile", "resolve"} => ips = << >> /\ read = 0 /\ answer = << >>

\* Each branch of ValidateAndResolve has its own form of target.
Branches ==
  /\ phase = "enumerate" => target.form = "net"
  /\ phase = "records" => target.form = "name"
  /\ Accepted => target.form # "bad" /\ ips # << >>

\* An address is kept as it is.
Singles == target.form = "ip" /\ Accepted => ips = <<target.ip>> /\ Within(scope, target.ip)

\* A network is kept from its own address on; the address tested is another.
Networks ==
  target.form = "net" /\ (phase = "enumerate" \/ Accepted) =>
    /\ Within(scope, target.ip)
    /\ ips = << >> => curr = NetworkOf(target)
    /\ ips # << >> => ips[1] = NetworkOf(target)

\* Of an answer, everything read so far was allowed, and that is what is kept.
Names ==
  target.form = "name" /\ (phase = "records" \/ Accepted) =>
    /\ \A i \in 1..read : answer[i] = V6 \/ Within(scope, answer[i])
    /\ \A i \in DOMAIN ips : Within(scope, ips[i])
    /\ Accepted => read = Len(answer)

\* What the preflight check has decided.
Decided == /\ phase \in {"dial", "done"} => Within(scope, ips[1])
           /\ phase = "blocked" => ~Within(scope, ips[1])
           /\ \A ip \in dialed : Within(scope, ip)

IInv == /\ TypeOK /\ GuardMeansScope /\ Fresh /\ Branches /\ Singles /\ Networks /\ Names /\ Decided

-----------------------------------------------------------------------------
(* Every action keeps it.                                                   *)

\* The inputs are an entry and a scope made of entries.
LEMMA TargetTyped ==
  ASSUME TypeOK
  PROVE  /\ target.form \in Form /\ target.ip \in Address /\ target.len \in 0..W
         /\ NetworkOf(target) \in Address
         /\ Contains([base |-> NetworkOf(target), len |-> target.len], NetworkOf(target))
<1>1. target \in Entry
  BY TargetsAssumption DEF TypeOK
<1>2. target.form \in Form /\ target.ip \in Address /\ target.len \in 0..W
  BY <1>1 DEF Entry
<1> QED BY <1>2, MaskedAddress DEF NetworkOf, Contains

\* Zero is an address.
LEMMA ZeroIsAddress == 0 \in Address
<1> DEFINE n == 2^W
<1>1. n \in Nat \ {0} /\ Address = 0..(n - 1)
  BY PowerAssumption, WAssumption DEF Address
<1> HIDE DEF n
<1> QED BY <1>1

\* It holds at the start.
LEMMA InitInvariant ==
  ASSUME Init
  PROVE  IInv
<1>1. TypeOK
  BY ZeroIsAddress DEF Init, TypeOK, Phase
<1> QED BY <1>1 DEF Init, IInv, GuardMeansScope, Resolving, Fresh, Branches, Singles, Networks,
                   Names, Decided, Accepted

\* Compile fills the guard in from the scope, or refuses.
LEMMA CompileStep ==
  ASSUME IInv, Compile \/ CompileRefuses
  PROVE  IInv'
<1> USE DEF IInv
<1>1. TypeOK'
  BY DEF TypeOK, Compile, CompileRefuses, Phase
<1>2. GuardMeansScope'
  BY DEF GuardMeansScope, Resolving, CompiledFrom, Compile, CompileRefuses, Compiles
<1>3. (Fresh /\ Branches /\ Singles /\ Networks /\ Names)'
  BY DEF Compile, CompileRefuses, Fresh, Branches, Singles, Networks, Names, Accepted
<1>4. Decided'
  BY DEF Compile, CompileRefuses, Decided
<1> QED BY <1>1, <1>2, <1>3, <1>4

\* The first step of each branch of ValidateAndResolve, and its refusals.
LEMMA ResolveStep ==
  ASSUME IInv, ResolveIP \/ ResolveNet \/ ResolveRefuses \/ \E a \in Answers : ResolveName(a)
  PROVE  IInv'
<1> USE DEF IInv
<1>0. /\ phase = "resolve" /\ UNCHANGED <<scope, target, guard, dialed, read>>
      /\ phase' \in {"scan", "enumerate", "records", "refused"}
  BY DEF ResolveIP, ResolveNet, ResolveRefuses, ResolveName
<1>1. \A ip \in Address : IsIPAllowed(ip) => Within(scope, ip)
  BY <1>0, AllowedMeansWithin DEF TypeOK, Resolving
<1>2. TypeOK'
  <2>1. CASE ResolveIP \/ ResolveNet \/ ResolveRefuses
    <3>1. ips' \in Seq(Address)
      <4>1. \A x \in Address : <<x>> \in Seq(Address)
        OBVIOUS
      <4>2. <<target.ip>> \in Seq(Address)
        BY <4>1, TargetTyped
      <4> QED BY <2>1, <4>2 DEF TypeOK, ResolveIP, ResolveNet, ResolveRefuses
    <3>2. curr' \in Address
      BY <2>1, TargetTyped DEF TypeOK, ResolveIP, ResolveNet, ResolveRefuses, NetworkOf
    <3>3. answer' = answer
      BY <2>1 DEF ResolveIP, ResolveNet, ResolveRefuses
    <3> QED BY <1>0, <3>1, <3>2, <3>3 DEF TypeOK, Phase
  <2>2. ASSUME NEW a \in Answers, ResolveName(a) PROVE TypeOK'
    <3>1. Len(a) \in Nat
      BY AnswersAssumption
    <3> QED BY <1>0, <2>2, <3>1 DEF TypeOK, ResolveName, Phase, Fresh
  <2> QED BY <2>1, <2>2
<1>3. GuardMeansScope' /\ Fresh' /\ Decided'
  BY <1>0 DEF GuardMeansScope, Resolving, Fresh, Decided
<1>4. Branches'
  <2>1. <<target.ip>> # << >>
    OBVIOUS
  <2>2. CASE ResolveIP
    BY <1>0, <2>1, <2>2 DEF Branches, Accepted, ResolveIP
  <2>3. CASE ResolveNet \/ ResolveRefuses \/ \E a \in Answers : ResolveName(a)
    BY <1>0, <2>3 DEF Branches, Accepted, ResolveNet, ResolveRefuses, ResolveName
  <2> QED BY <2>2, <2>3
<1>5. Singles'
  BY <1>0, <1>1, TargetTyped
  DEF Singles, Accepted, ResolveIP, ResolveNet, ResolveRefuses, ResolveName
<1>6. Networks'
  BY <1>0, <1>1, TargetTyped
  DEF Networks, NetworkOf, Accepted, ResolveIP, ResolveNet, ResolveRefuses, ResolveName, Fresh
<1>7. Names'
  BY <1>0 DEF Names, Accepted, ResolveIP, ResolveNet, ResolveRefuses, ResolveName, Fresh
<1> QED BY <1>2, <1>3, <1>4, <1>5, <1>6, <1>7

\* The enumeration keeps the first address it collects.
LEMMA EnumerateStep ==
  ASSUME IInv, Enumerate \/ EnumerateEnd
  PROVE  IInv'
<1> USE DEF IInv
<1>0. /\ phase = "enumerate" /\ UNCHANGED <<scope, target, guard, dialed, read, answer>>
      /\ phase' \in {"scan", "enumerate"} /\ target.form = "net"
  BY DEF Enumerate, EnumerateEnd, Branches
<1>1. TypeOK'
  <2>1. IncIP(curr) \in Address
    BY IncIPAddress DEF TypeOK
  <2> QED BY <1>0, <2>1 DEF TypeOK, Enumerate, EnumerateEnd, Phase
<1>2. GuardMeansScope' /\ Fresh' /\ Decided' /\ Singles' /\ Names'
  BY <1>0 DEF GuardMeansScope, Resolving, Fresh, Decided, Singles, Names
<1>3. ips' # << >> /\ ips'[1] = NetworkOf(target)
  <2>1. CASE Enumerate
    <3>1. ips' = Append(ips, curr) /\ ips \in Seq(Address) /\ curr \in Address
      BY <2>1 DEF Enumerate, TypeOK
    <3>2. ips = << >> => curr = NetworkOf(target)
      BY <1>0 DEF Networks
    <3>3. ips # << >> => ips[1] = NetworkOf(target)
      BY <1>0 DEF Networks
    <3> QED BY <3>1, <3>2, <3>3
  <2>2. CASE EnumerateEnd
    <3>1. ~Contains([base |-> NetworkOf(target), len |-> target.len], curr)
      BY <2>2 DEF EnumerateEnd, InTarget, NetworkOf
    <3>2. curr # NetworkOf(target)
      BY <3>1, TargetTyped
    <3> QED BY <1>0, <2>2, <3>2 DEF EnumerateEnd, Networks
  <2> QED BY <2>1, <2>2
<1>4. Networks' /\ Branches'
  BY <1>0, <1>3 DEF Networks, Branches, Accepted, NetworkOf
<1> QED BY <1>1, <1>2, <1>4

\* The loop over the records keeps what it has tested.
LEMMA RecordStep ==
  ASSUME IInv, Record \/ RecordsEnd
  PROVE  IInv'
<1> USE DEF IInv
<1>0. /\ phase = "records" /\ UNCHANGED <<scope, target, guard, dialed, answer, curr>>
      /\ phase' \in {"records", "scan", "refused"} /\ target.form = "name"
  BY DEF Record, RecordsEnd, Branches
<1>1. answer \in Seq(Address \cup {V6}) /\ Len(answer) \in Nat
  <2>1. CASE answer \in Answers
    BY <2>1, AnswersAssumption
  <2>2. CASE answer = << >>
    BY <2>2
  <2> QED BY <2>1, <2>2 DEF TypeOK
<1>2. ASSUME read < Len(answer) PROVE answer[read + 1] \in Address \cup {V6}
  BY <1>1, <1>2 DEF TypeOK
<1>3. TypeOK'
  <2>1. CASE Record
    <3> DEFINE ip == answer[read + 1]
    <3>1. read' \in 0..Len(answer)
      BY <1>1, <2>1 DEF Record, TypeOK
    <3>2. ip = V6 \/ ip \in Address
      BY <1>2, <2>1 DEF Record
    <3>3. ips' = ips \/ (ips' = Append(ips, ip) /\ ip \in Address)
      BY <2>1, <3>2 DEF Record
    <3> HIDE DEF ip
    <3>4. ips' \in Seq(Address)
      BY <3>3 DEF TypeOK
    <3> QED BY <1>0, <3>1, <3>4 DEF TypeOK, Phase
  <2>2. CASE RecordsEnd
    BY <1>0, <2>2 DEF TypeOK, RecordsEnd, Phase
  <2> QED BY <2>1, <2>2
<1>4. GuardMeansScope' /\ Fresh' /\ Decided' /\ Singles' /\ Networks'
  BY <1>0 DEF GuardMeansScope, Resolving, Fresh, Decided, Singles, Networks, Accepted
<1>5. Branches'
  BY <1>0 DEF Branches, Accepted, Record, RecordsEnd
<1>6. Names'
  <2>1. CASE Record
    <3> DEFINE ip == answer[read + 1]
    <3>1. read \in Nat /\ read' = read + 1 /\ ips \in Seq(Address)
      BY <2>1 DEF Record, TypeOK
    <3>2. ASSUME phase' = "records"
          PROVE  \/ ip = V6 /\ ips' = ips
                 \/ ips' = Append(ips, ip) /\ ip \in Address /\ Within(scope, ip)
      <4>1. CASE ip = V6 /\ ips' = ips
        BY <4>1
      <4>2. CASE ip # V6 /\ IsIPAllowed(ip) /\ ips' = Append(ips, ip)
        <5>1. ip \in Address
          BY <1>2, <2>1, <4>2 DEF Record
        <5> QED BY <1>0, <4>2, <5>1, AllowedMeansWithin DEF TypeOK, Resolving
      <4> QED BY <2>1, <3>2, <4>1, <4>2 DEF Record, RecordAllowed
    <3>3. phase' # "records" => phase' = "refused"
      BY <1>0, <2>1 DEF Record
    <3>4. ASSUME phase' = "records"
          PROVE  /\ \A i \in 1..read' : answer[i] = V6 \/ Within(scope, answer[i])
                 /\ \A i \in DOMAIN ips' : Within(scope, ips'[i])
      <4>1. /\ \A i \in 1..read : answer[i] = V6 \/ Within(scope, answer[i])
            /\ \A i \in DOMAIN ips : Within(scope, ips[i])
        BY <1>0 DEF Names
      <4>2. ip = V6 \/ Within(scope, ip)
        BY <3>2, <3>4
      <4>3. \A i \in 1..read' : i \in 1..read \/ i = read + 1
        BY <3>1
      <4>4. \A i \in DOMAIN ips' : Within(scope, ips'[i])
        BY <3>1, <3>2, <3>4, <4>1
      <4> QED BY <4>1, <4>2, <4>3, <4>4
    <3> QED BY <1>0, <3>3, <3>4 DEF Names, Accepted
  <2>2. CASE RecordsEnd
    BY <1>0, <2>2 DEF RecordsEnd, Names
  <2> QED BY <2>1, <2>2
<1> QED BY <1>3, <1>4, <1>5, <1>6

\* The preflight check decides, and only what it lets through is dialled.
LEMMA ScanStep ==
  ASSUME IInv, StartScan \/ ScanBlocked \/ Dial \/ ScanEnds
  PROVE  IInv'
<1> USE DEF IInv
<1>0. /\ phase \in {"scan", "dial"} /\ phase' \in {"dial", "blocked", "done"}
      /\ UNCHANGED <<scope, target, guard, answer, read, curr, ips>>
  BY DEF StartScan, ScanBlocked, Dial, ScanEnds
<1>1. ips \in Seq(Address) /\ ips # << >> /\ ips[1] \in Address
  BY <1>0 DEF Branches, Accepted, TypeOK
<1>2. IsIPAllowed(ips[1]) <=> Within(scope, ips[1])
  BY <1>0, <1>1, AllowedMeansWithin DEF TypeOK, Resolving
<1>3. TypeOK'
  BY <1>0, <1>1 DEF TypeOK, StartScan, ScanBlocked, Dial, ScanEnds, Phase
<1>4. GuardMeansScope' /\ Fresh' /\ Branches' /\ Singles' /\ Networks' /\ Names'
  BY <1>0 DEF GuardMeansScope, Resolving, Fresh, Branches, Singles, Networks, Names, Accepted
<1>5. Decided'
  BY <1>0, <1>2 DEF Decided, StartScan, ScanBlocked, Dial, ScanEnds, PreFlightSocketCheck
<1> QED BY <1>3, <1>4, <1>5

\* The invariant holds of every request, from Compile to the sockets.
THEOREM Invariant == Spec => []IInv
<1>1. IInv /\ [Next]_vars => IInv'
  <2> SUFFICES ASSUME IInv, [Next]_vars PROVE IInv'
    OBVIOUS
  <2>1. CASE UNCHANGED vars
    BY <2>1 DEF vars, IInv, TypeOK, GuardMeansScope, Fresh, Branches, Singles, Networks, Names,
                Decided, Accepted
  <2> QED BY <2>1, CompileStep, ResolveStep, EnumerateStep, RecordStep, ScanStep DEF Next
<1> QED BY <1>1, InitInvariant, PTL DEF Spec

-----------------------------------------------------------------------------
(* The theorems.                                                            *)

\* The loop variable of an enumeration and all that is kept of a target or of an
\* answer are IPv4 addresses.
THEOREM TypeCorrect == Spec => []TypeOK
<1>1. IInv => TypeOK
  BY DEF IInv
<1> QED BY <1>1, Invariant, PTL

\* PreFlightSocketCheck stands before every socket, and a compiled guard means
\* what the scope says: no address out of scope is ever dialled.
THEOREM OnlyScopeIsDialled == Spec => []DialsInScope
<1>1. IInv => DialsInScope
  BY DEF IInv, Decided, DialsInScope, InScope, Within
<1> QED BY <1>1, Invariant, PTL

\* A name of which one IPv4 record is out of scope is refused, however many
\* records there are and wherever it stands.
THEOREM NamesInScope == Spec => []NamesStayInScope
<1>1. ASSUME IInv PROVE NamesStayInScope
  <2>1. SUFFICES ASSUME Accepted, target.form = "name"
                 PROVE  /\ ips # << >>
                        /\ \A i \in DOMAIN answer : answer[i] = V6 \/ InScope(answer[i])
    BY DEF NamesStayInScope
  <2>2. DOMAIN answer = 1..Len(answer)
    <3>1. answer \in Seq(Address \cup {V6})
      <4>1. CASE answer \in Answers
        BY <4>1, AnswersAssumption
      <4>2. CASE answer = << >>
        BY <4>2
      <4> QED BY <1>1, <4>1, <4>2 DEF IInv, TypeOK
    <3> QED BY <3>1
  <2> QED BY <1>1, <2>1, <2>2 DEF IInv, Branches, Names, InScope, Within
<1> QED BY <1>1, Invariant, PTL

\* What ValidateAndResolve accepts the preflight check accepts too, unless the
\* target is a network whose own address is out of scope.
THEOREM OnlyNetworksBlocked == Spec => []OnlyNetworksAreBlocked
<1>1. ASSUME IInv PROVE OnlyNetworksAreBlocked
  <2>1. SUFFICES ASSUME phase = "blocked"
                 PROVE  /\ target.form = "net" /\ InScope(target.ip)
                        /\ ~InScope(Masked(target.ip, target.len))
    BY DEF OnlyNetworksAreBlocked
  <2>2. ips # << >> /\ ips \in Seq(Address) /\ ~Within(scope, ips[1]) /\ target.form # "bad"
    BY <1>1, <2>1 DEF IInv, Branches, Accepted, Decided, TypeOK
  <2>3. target.form # "ip"
    BY <1>1, <2>1, <2>2 DEF IInv, Singles, Accepted
  <2>4. target.form # "name"
    <3>1. 1 \in DOMAIN ips
      BY <2>2
    <3> QED BY <1>1, <2>1, <2>2, <3>1 DEF IInv, Names, Accepted
  <2>5. target.form = "net"
    BY <1>1, <2>2, <2>3, <2>4, TargetTyped DEF IInv, Form
  <2>6. Within(scope, target.ip) /\ ips[1] = NetworkOf(target)
    BY <1>1, <2>1, <2>2, <2>5 DEF IInv, Networks, Accepted
  <2>7. \A ip : InScope(ip) <=> Within(scope, ip)
    BY DEF InScope, Within
  <2> QED BY <2>2, <2>5, <2>6, <2>7 DEF NetworkOf
<1> QED BY <1>1, Invariant, PTL
==============================================================================
