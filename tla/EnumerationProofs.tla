-------------------------- MODULE EnumerationProofs --------------------------
(***************************************************************************)
(* For any width of addresses and any batch limit: of a CIDR the first     *)
(* addresses of its network are kept, in order and without a gap, also     *)
(* where the addresses wrap. The invariant says how many: all, or one more *)
(* than the limit.                                                         *)
(***************************************************************************)
EXTENDS ScopeGuardProofs, SequenceTheorems

Top == 2^W
Size(e) == 2^(W - e.len)

\* The n-th address that has been kept is the n-th of the network.
Consecutive == \A i \in 1..Len(ips) : ips[i] = NetworkOf(target) + i - 1

\* The loop variable is the address after the last one kept, wrapped.
Walked ==
  target.form = "net" =>
    /\ phase = "enumerate" => /\ Consecutive
                              /\ Len(ips) <= Batch /\ Len(ips) <= Size(target)
                              /\ curr = (NetworkOf(target) + Len(ips)) % Top
    /\ Accepted => Consecutive /\ Len(ips) = Smaller(Size(target), Batch + 1)

EInv == IInv /\ Walked

-----------------------------------------------------------------------------
(* The addresses of a network.                                              *)

\* What is left of a multiple and a remainder is the remainder.
LEMMA Remainder ==
  ASSUME NEW n \in Nat \ {0}, NEW q \in Nat, NEW r \in 0..(n - 1)
  PROVE  (n * q + r) % n = r
<1> DEFINE x == n * q + r
           p == x \div n
           s == x % n
<1>1. x \in Nat
  OBVIOUS
<1>2. p \in Nat /\ s \in 0..(n - 1) /\ x = n * p + s
  BY <1>1, DivMod
<1>3. n * p + s = n * q + r
  BY <1>2
<1> HIDE DEF p, s
<1>4. s = r
  BY <1>2, <1>3, UniqueQuotient
<1> QED BY <1>4 DEF s

\* A network is a whole number of its sizes above zero, and ends within the
\* address space.
LEMMA Room ==
  ASSUME NEW e \in Entry
  PROVE  /\ Top \in Nat \ {0} /\ Size(e) \in Nat \ {0} /\ Address = 0..(Top - 1)
         /\ \E m \in Nat : NetworkOf(e) = Size(e) * m
         /\ NetworkOf(e) \in Address /\ NetworkOf(e) + Size(e) <= Top
<1> DEFINE n == Size(e)
           b == NetworkOf(e)
<1>1. e.ip \in Address /\ e.len \in 0..W
  BY DEF Entry
<1>2. Top \in Nat \ {0} /\ n \in Nat \ {0} /\ Address = 0..(Top - 1)
  BY <1>1, PowerAssumption, WAssumption DEF Top, Size, Address
<1>3. PICK q \in Nat : Top = n * q
  <2>1. W - e.len \in 0..W
    BY <1>1, WAssumption
  <2>2. \E q \in 1..2^W : 2^W = 2^(W - e.len) * q
    BY <2>1, DivisorAssumption
  <2> QED BY <2>2 DEF Top, Size
<1>4. b = e.ip - (e.ip % n)
  BY DEF NetworkOf, Masked, Size
<1>5. b \in Address
  BY <1>1, MaskedAddress DEF NetworkOf
<1> HIDE DEF n, b
<1>6. PICK m \in Nat : b = n * m
  <2>1. e.ip \in Nat
    BY <1>1, <1>2
  <2>2. e.ip \div n \in Nat /\ e.ip - (e.ip % n) = n * (e.ip \div n)
    BY <1>2, <2>1, MultipleBelow, DivMod
  <2> QED BY <1>4, <2>2
<1>7. b + n <= Top
  <2>1. m < q
    <3>1. ~(q < m)
      <4>1. ASSUME q < m PROVE FALSE
        <5>1. n * q + 0 < n * m + 0
          BY <1>2, <4>1, LargerQuotient
        <5> QED BY <1>2, <1>3, <1>5, <1>6, <5>1
      <4> QED BY <4>1
    <3>2. m # q
      BY <1>2, <1>3, <1>5, <1>6
    <3> QED BY <3>1, <3>2
  <2>2. n * m + (n - 1) < n * q + 0
    BY <1>2, <2>1, LargerQuotient
  <2>3. n * m \in Nat /\ n * q \in Nat
    BY <1>2
  <2> QED BY <1>2, <1>3, <1>6, <2>2, <2>3
<1> QED BY <1>2, <1>5, <1>6, <1>7 DEF n, b

\* The loop variable after c addresses is in the network iff some are left,
\* provided they are not all addresses there are.
LEMMA NextAddress ==
  ASSUME NEW e \in Entry, NEW c \in 0..Size(e), c < Top
  PROVE  LET a == (NetworkOf(e) + c) % Top
         IN  /\ c < Size(e) => a = NetworkOf(e) + c
             /\ Masked(a, e.len) = NetworkOf(e) <=> c < Size(e)
<1> DEFINE n == Size(e)
           b == NetworkOf(e)
           a == (b + c) % Top
<1>1. /\ Top \in Nat \ {0} /\ n \in Nat \ {0} /\ Address = 0..(Top - 1)
      /\ b \in Address /\ b + n <= Top
  BY Room
<1>2. PICK m \in Nat : b = n * m
  BY Room
<1>3. Masked(a, e.len) = a - (a % n)
  BY DEF Masked, Size
<1>4. c \in 0..n
  OBVIOUS
<1> HIDE DEF n, b, a
<1>5. ASSUME NEW x \in 0..(Top - 1) PROVE x % Top = x
  <2>1. (Top * 0 + x) % Top = x
    BY <1>1, Remainder
  <2>2. Top * 0 + x = x
    BY <1>1
  <2> QED BY <2>1, <2>2
<1>6. CASE c < n
  <2>1. b + c \in 0..(Top - 1)
    BY <1>1, <1>4, <1>6
  <2>2. a = b + c
    BY <1>5, <2>1 DEF a
  <2>3. (n * m + c) % n = c
    <3>1. c \in 0..(n - 1)
      BY <1>1, <1>4, <1>6
    <3> QED BY <1>1, <3>1, Remainder
  <2>4. a % n = c
    BY <1>2, <2>2, <2>3
  <2> QED BY <1>1, <1>3, <1>4, <1>6, <2>2, <2>4 DEF n, b, a
<1>7. CASE c = n /\ b + n < Top
  <2>1. a = b + n
    BY <1>1, <1>5, <1>7 DEF a
  <2>2. n * (m + 1) + 0 = b + n
    BY <1>1, <1>2
  <2>3. (n * (m + 1) + 0) % n = 0
    BY <1>1, Remainder
  <2>4. a - (a % n) # b
    <3>1. a % n = 0
      BY <2>1, <2>2, <2>3
    <3> QED BY <1>1, <2>1, <3>1
  <2> QED BY <1>1, <1>3, <1>7, <2>4 DEF n, b, a
<1>8. CASE c = n /\ b + n = Top
  <2>1. a = 0
    <3>1. (Top * 1 + 0) % Top = 0
      BY <1>1, Remainder
    <3>2. Top * 1 + 0 = b + c
      BY <1>1, <1>8
    <3> QED BY <3>1, <3>2 DEF a
  <2>2. a % n = 0
    <3>1. (n * 0 + 0) % n = 0
      BY <1>1, Remainder
    <3>2. n * 0 + 0 = 0
      BY <1>1
    <3> QED BY <2>1, <3>1, <3>2
  <2>3. b # 0
    BY <1>1, <1>8
  <2>4. Masked(a, e.len) # b /\ ~(c < n)
    BY <1>1, <1>3, <1>8, <2>1, <2>2, <2>3
  <2> QED BY <2>4 DEF n, b, a
<1>9. c < n \/ c = n
  BY <1>1, <1>4
<1>10. b + n < Top \/ b + n = Top
  BY <1>1
<1> QED BY <1>6, <1>7, <1>8, <1>9, <1>10 DEF n, b, a

-----------------------------------------------------------------------------
(* The loop.                                                                *)

\* The network address is where the loop starts.
LEMMA StartWalk ==
  ASSUME EInv, ResolveNet
  PROVE  Walked'
<1>1. target \in Entry
  BY TargetsAssumption DEF EInv, IInv, TypeOK
<1>2. ips = << >> /\ ips' = << >> /\ phase' = "enumerate" /\ target' = target
  BY DEF EInv, IInv, Fresh, ResolveNet
<1>3. curr' = NetworkOf(target)
  BY DEF ResolveNet, NetworkOf
<1>4. Top \in Nat \ {0} /\ Size(target) \in Nat \ {0} /\ NetworkOf(target) \in 0..(Top - 1)
  BY <1>1, Room
<1>5. (NetworkOf(target) + 0) % Top = NetworkOf(target)
  BY <1>1, <1>4, NextAddress
<1>6. NetworkOf(target) + 0 = NetworkOf(target)
  BY <1>4
<1>7. Len(ips') = 0
  BY <1>2
<1>8. Walked' = (target.form = "net" =>
                   /\ Consecutive' /\ 0 <= Batch /\ 0 <= Size(target)
                   /\ curr' = (NetworkOf(target) + 0) % Top)
  BY <1>2, <1>7 DEF Walked, Accepted, NetworkOf, Size, Top
<1>9. Consecutive'
  BY <1>7 DEF Consecutive
<1>10. 0 <= Batch /\ 0 <= Size(target)
  BY <1>4, BatchAssumption
<1>11. curr' = (NetworkOf(target) + 0) % Top
  BY <1>3, <1>5, <1>6
<1> QED BY <1>8, <1>9, <1>10, <1>11

\* One turn keeps the next address, and the last turn the last one.
LEMMA Walk ==
  ASSUME EInv, Enumerate \/ EnumerateEnd
  PROVE  Walked'
<1> DEFINE n == Size(target)
           b == NetworkOf(target)
           l == Len(ips)
<1>1. target \in Entry /\ curr \in Address /\ ips \in Seq(Address)
  BY TargetsAssumption DEF EInv, IInv, TypeOK
<1>2. phase = "enumerate" /\ target' = target /\ target.form = "net"
  BY DEF Enumerate, EnumerateEnd, EInv, IInv, Branches
<1>3. /\ Consecutive /\ l \in Nat /\ l <= Batch /\ l <= n /\ curr = (b + l) % Top
  BY <1>1, <1>2 DEF EInv, Walked
<1>4. Top \in Nat \ {0} /\ n \in Nat \ {0} /\ b \in Nat
  BY <1>1, Room
<1>5. InTarget(curr) <=> Masked(curr, target.len) = b
  BY DEF InTarget, Contains, NetworkOf
<1>6. l < n => curr = b + l
  BY <1>1, <1>3, <1>4, NextAddress, BatchAssumption DEF Top
<1>7. InTarget(curr) <=> l < n
  BY <1>1, <1>3, <1>4, <1>5, NextAddress, BatchAssumption DEF Top
<1>8. Batch \in Nat
  BY BatchAssumption
<1>9. CASE Enumerate
  <2>1. ips' = Append(ips, curr) /\ l < n
    BY <1>7, <1>9 DEF Enumerate
  <2>2. Len(ips') = l + 1
    BY <1>1, <2>1
  <2>3. Consecutive'
    <3>1. ASSUME NEW i \in 1..(l + 1) PROVE ips'[i] = b + i - 1
      <4>1. CASE i = l + 1
        BY <1>1, <1>3, <1>4, <1>6, <2>1, <4>1
      <4>2. CASE i \in 1..l
        BY <1>1, <1>3, <2>1, <4>2 DEF Consecutive
      <4> QED BY <1>3, <4>1, <4>2
    <3> QED BY <1>2, <2>2, <3>1 DEF Consecutive, NetworkOf
  <2>4. CASE l + 1 > Batch
    <3>1. phase' = "scan"
      BY <1>9, <2>1, <2>2, <2>4 DEF Enumerate
    <3>2. l + 1 = Smaller(n, Batch + 1)
      BY <1>3, <1>4, <1>8, <2>1, <2>4 DEF Smaller
    <3> QED BY <1>2, <2>2, <2>3, <3>1, <3>2 DEF Walked, Size
  <2>5. CASE ~(l + 1 > Batch)
    <3>1. phase' = "enumerate" /\ curr' = IncIP(curr)
      BY <1>2, <1>9, <2>1, <2>2, <2>5 DEF Enumerate
    <3>2. curr' = (b + (l + 1)) % Top
      BY <1>3, <1>4, <1>6, <2>1, <3>1 DEF IncIP, Top
    <3>3. l + 1 <= Batch /\ l + 1 <= n
      BY <1>3, <1>4, <1>8, <2>1, <2>5
    <3> QED BY <1>2, <2>2, <2>3, <3>1, <3>2, <3>3 DEF Walked, Size, NetworkOf, Accepted
  <2> QED BY <2>4, <2>5
<1>10. CASE EnumerateEnd
  <2>1. ips' = ips /\ phase' = "scan" /\ l = n
    BY <1>3, <1>4, <1>7, <1>10 DEF EnumerateEnd
  <2>2. l = Smaller(n, Batch + 1)
    BY <1>3, <1>4, <1>8, <2>1 DEF Smaller
  <2> QED BY <1>2, <1>3, <2>1, <2>2 DEF Walked, Consecutive, NetworkOf, Size
<1> QED BY <1>9, <1>10

\* The other steps take no part in an enumeration.
LEMMA OtherSteps ==
  ASSUME EInv,
         \/ Compile \/ CompileRefuses \/ ResolveIP \/ ResolveRefuses
         \/ (\E a \in Answers : ResolveName(a)) \/ Record \/ RecordsEnd
         \/ StartScan \/ ScanBlocked \/ Dial \/ ScanEnds \/ UNCHANGED vars
  PROVE  Walked'
<1>1. CASE Compile \/ CompileRefuses \/ ResolveRefuses
  BY <1>1 DEF Compile, CompileRefuses, ResolveRefuses, Walked, Accepted
<1>2. CASE ResolveIP \/ \E a \in Answers : ResolveName(a)
  BY <1>2 DEF ResolveIP, ResolveName, Walked, Accepted
<1>3. CASE Record \/ RecordsEnd
  BY <1>3 DEF Record, RecordsEnd, Walked, EInv, IInv, Branches
<1>4. CASE StartScan \/ ScanBlocked \/ Dial \/ ScanEnds
  <2>1. /\ phase \in {"scan", "dial"} /\ phase' \in {"dial", "blocked", "done"}
        /\ UNCHANGED <<target, curr, ips>>
    BY <1>4 DEF StartScan, ScanBlocked, Dial, ScanEnds
  <2> QED BY <2>1 DEF EInv, Walked, Accepted, Consecutive, NetworkOf, Size
<1>5. CASE UNCHANGED vars
  BY <1>5 DEF vars, EInv, Walked, Accepted, Consecutive, NetworkOf, Size
<1> QED BY <1>1, <1>2, <1>3, <1>4, <1>5

\* The invariant holds of every request.
LEMMA EnumerationInvariant == Spec => []EInv
<1>1. Init => Walked
  BY DEF Init, Walked, Accepted
<1>2. IInv /\ IInv' /\ Walked /\ [Next]_vars => Walked'
  <2> SUFFICES ASSUME EInv, [Next]_vars PROVE Walked'
    BY DEF EInv
  <2> QED BY StartWalk, Walk, OtherSteps DEF Next
<1>3. IInv /\ Walked <=> EInv
  BY DEF EInv
<1> QED BY <1>1, <1>2, <1>3, Invariant, PTL DEF Spec

-----------------------------------------------------------------------------
\* ValidateAndResolve returns of a CIDR the first addresses of its network and
\* nothing else, the whole network or at least a batch of it: incIP's carry, the
\* mask and the tests that end the loop fit together, for /0 too.  That the batch
\* is no larger than its limit, or that the scope has each address, is not claimed.
THEOREM EnumeratesFromItsNetwork == Spec => []EnumeratesTheNetwork
<1>1. ASSUME EInv PROVE EnumeratesTheNetwork
  <2> DEFINE n == Size(target)
             b == NetworkOf(target)
             l == Len(ips)
  <2>1. SUFFICES ASSUME target.form = "net", phase = "enumerate" \/ Accepted
                 PROVE  /\ Ext!IsPrefix(ips, Network)
                        /\ Accepted => Len(ips) >= Smaller(2^(W - target.len), Batch)
    BY DEF EnumeratesTheNetwork
  <2>2. target \in Entry /\ ips \in Seq(Address)
    BY <1>1, TargetsAssumption DEF EInv, IInv, TypeOK
  <2>3. n \in Nat \ {0} /\ b \in Nat /\ Batch \in Nat
    BY <2>2, Room, BatchAssumption
  <2>4. l \in Nat
    BY <2>2
  <2>5. /\ \A i \in 1..l : ips[i] = b + i - 1
        /\ phase = "enumerate" => l <= n
        /\ Accepted => l = Smaller(n, Batch + 1)
    BY <1>1, <2>1 DEF EInv, Walked, Consecutive
  <2>6. Network = [i \in 1..n |-> b + i - 1]
    BY DEF Network, NetworkOf, Size
  <2> HIDE DEF n, b, l
  <2>7. l <= n /\ (Accepted => l >= Smaller(n, Batch))
    BY <2>1, <2>3, <2>4, <2>5 DEF Smaller
  <2>8. Network \in Seq(Int) /\ Len(Network) = n /\ \A i \in 1..n : Network[i] = b + i - 1
    <3>1. \A i \in 1..n : b + i - 1 \in Int
      BY <2>3
    <3>2. [i \in 1..n |-> b + i - 1] \in Seq(Int)
      BY <2>3, <3>1
    <3> QED BY <2>3, <2>6, <3>1, <3>2
  <2>9. Ext!IsPrefix(ips, Network)
    <3>1. \A i \in 1..l : ips[i] \in Int /\ Network[i] \in Int /\ ips[i] = Network[i]
      BY <2>3, <2>4, <2>5, <2>7, <2>8
    <3>2. SubSeq(ips, 1, l) = SubSeq(Network, 1, l)
      BY <2>4, <3>1, SubSeqProperties, SeqEqual
    <3> QED BY <2>7, <2>8, <3>2 DEF Ext!IsPrefix, l
  <2> QED BY <2>7, <2>9 DEF n, l, Size
<1> QED BY <1>1, EnumerationInvariant, PTL
==============================================================================
