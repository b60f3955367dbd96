---------------------------- MODULE Ipam_proofs ----------------------------
(***************************************************************************)
(* Proofs about Ipam, for every width of an address, every set of inputs   *)
(* and any number of requests: the types, what the stored records promise, *)
(* the merged listing, the planned subnets and the release of an address.  *)
(***************************************************************************)
EXTENDS Ipam, FiniteSetTheorems, WellFoundedInduction, TLAPS

(***************************************************************************)
(* Induction.  A property of every number of 0..n fails, if at all, at a   *)
(* least number; what recursive functions and folds compute is proved from *)
(* that.                                                                   *)
(***************************************************************************)
LEMMA LeastExists ==
    ASSUME NEW T \in SUBSET Nat, T # {} PROVE \E n \in T : \A m \in T : n <= m
<1>1. IsWellFoundedOn(OpToRel(<, Nat), Nat)  BY NatLessThanWellFounded
<1>2. PICK x \in T : \A y \in T : ~(<<y, x>> \in OpToRel(<, Nat))  BY <1>1, WFMin
<1>3. \A y \in T : ~(y < x)
  <2> SUFFICES ASSUME NEW y \in T PROVE ~(y < x)  OBVIOUS
  <2>1. y \in Nat /\ x \in Nat  OBVIOUS
  <2> QED  BY <1>2, <2>1 DEF OpToRel
<1> QED  BY <1>3

\* The set of numbers at which a property holds is all of 0..n.
LEMMA Induct ==
    ASSUME NEW G \in SUBSET Nat, 0 \in G, \A n \in G : n + 1 \in G PROVE G = Nat
<1> SUFFICES ASSUME G # Nat PROVE FALSE  OBVIOUS
<1>1. Nat \ G \in SUBSET Nat /\ Nat \ G # {}  OBVIOUS
<1>2. PICK n \in Nat \ G : \A m \in Nat \ G : n <= m  BY <1>1, LeastExists
<1>3. n # 0  OBVIOUS
<1>4. n - 1 \in Nat /\ n - 1 \notin Nat \ G  BY <1>2, <1>3
<1>5. n - 1 \in G  BY <1>4
<1>6. (n - 1) + 1 \in G  BY <1>5
<1> QED  BY <1>6

\* A recursive function on the numbers exists.
PowTable(n) == {t \in [0..n -> Nat] : t[0] = 1 /\ \A k \in 1..n : t[k] = 2 * t[k - 1]}

LEMMA PowTables == \A n \in Nat : PowTable(n) # {}
<1> DEFINE G == {n \in Nat : PowTable(n) # {}}
<1>1. 0 \in G
  <2>1. [k \in 0..0 |-> 1] \in PowTable(0)  BY DEF PowTable
  <2> QED  BY <2>1
<1>2. ASSUME NEW n \in G PROVE n + 1 \in G
  <2>1. PICK t : t \in PowTable(n)  OBVIOUS
  <2>2. t \in [0..n -> Nat] /\ t[0] = 1 /\ \A k \in 1..n : t[k] = 2 * t[k - 1]  BY <2>1 DEF PowTable
  <2> DEFINE u == [k \in 0..(n + 1) |-> IF k <= n THEN t[k] ELSE 2 * t[n]]
  <2>3. u \in [0..(n + 1) -> Nat]  BY <2>2
  <2>4. \A k \in 1..(n + 1) : u[k] = 2 * u[k - 1]  BY <2>2
  <2>5. u[0] = 1  BY <2>2
  <2>6. u \in PowTable(n + 1)  BY <2>3, <2>4, <2>5 DEF PowTable
  <2> QED  BY <2>6
<1>3. G = Nat
  <2> HIDE DEF G
  <2>1. G \in SUBSET Nat  BY DEF G
  <2> QED  BY <1>1, <1>2, <2>1, Induct
<1> QED  BY <1>3

LEMMA PowTableUnique ==
    ASSUME NEW m \in Nat, NEW n \in Nat, NEW t \in PowTable(m), NEW u \in PowTable(n)
    PROVE  \A k \in Nat : k <= m /\ k <= n => t[k] = u[k]
<1> DEFINE G == {k \in Nat : k <= m /\ k <= n => t[k] = u[k]}
<1>1. 0 \in G  BY DEF PowTable
<1>2. ASSUME NEW k \in G PROVE k + 1 \in G
  <2> SUFFICES ASSUME k + 1 <= m, k + 1 <= n PROVE t[k + 1] = u[k + 1]  OBVIOUS
  <2>1. k + 1 \in 1..m /\ k + 1 \in 1..n /\ t[k] = u[k]  OBVIOUS
  <2>2. t[k + 1] = 2 * t[(k + 1) - 1] /\ u[k + 1] = 2 * u[(k + 1) - 1]  BY <2>1 DEF PowTable
  <2> QED  BY <2>1, <2>2
<1>3. G = Nat
  <2> HIDE DEF G
  <2>1. G \in SUBSET Nat  BY DEF G
  <2> QED  BY <1>1, <1>2, <2>1, Induct
<1> QED  BY <1>3

LEMMA Pow2Def == Pow2 = [n \in Nat |-> IF n = 0 THEN 1 ELSE 2 * Pow2[n - 1]]
<1> DEFINE Rec(f) == f = [n \in Nat |-> IF n = 0 THEN 1 ELSE 2 * f[n - 1]]
           tab(n) == CHOOSE t : t \in PowTable(n)
           g == [n \in Nat |-> tab(n)[n]]
<1>1. \A n \in Nat : tab(n) \in PowTable(n)  BY PowTables
<1>2. ASSUME NEW n \in Nat PROVE g[n] = IF n = 0 THEN 1 ELSE 2 * g[n - 1]
  <2>1. CASE n = 0  BY <1>1, <2>1 DEF PowTable
  <2>2. CASE n # 0
    <3>1. n - 1 \in Nat  BY <2>2
    <3>2. tab(n) \in PowTable(n) /\ tab(n - 1) \in PowTable(n - 1)  BY <1>1, <3>1
    <3>3. tab(n)[n] = 2 * tab(n)[n - 1]
      <4> HIDE DEF tab
      <4> QED  BY <2>2, <3>2 DEF PowTable
    <3>4. tab(n)[n - 1] = tab(n - 1)[n - 1]
      <4> HIDE DEF tab
      <4> QED  BY <3>1, <3>2, PowTableUnique
    <3> QED  BY <2>2, <3>1, <3>3, <3>4
  <2> QED  BY <2>1, <2>2
<1>3. Rec(g)
  <2>1. g = [n \in Nat |-> g[n]]  OBVIOUS
  <2> HIDE DEF g
  <2>2. [n \in Nat |-> g[n]] = [n \in Nat |-> IF n = 0 THEN 1 ELSE 2 * g[n - 1]]  BY <1>2
  <2> QED  BY <2>1, <2>2
<1>4. \E f : Rec(f)  BY <1>3
<1>5. Pow2 = CHOOSE f : Rec(f)  BY DEF Pow2
<1>6. Rec(CHOOSE f : Rec(f))
  <2> HIDE DEF Rec
  <2> QED  BY <1>4
<1> QED  BY <1>5, <1>6

LEMMA Pow2Base == Pow2[0] = 1
BY Pow2Def

LEMMA Pow2Step == \A n \in Nat : Pow2[n + 1] = 2 * Pow2[n]
<1> SUFFICES ASSUME NEW n \in Nat PROVE Pow2[n + 1] = 2 * Pow2[n]  OBVIOUS
<1>1. n + 1 \in Nat /\ n + 1 # 0 /\ (n + 1) - 1 = n  OBVIOUS
<1> QED  BY <1>1, Pow2Def

LEMMA Pow2Pos == \A n \in Nat : Pow2[n] \in Nat /\ Pow2[n] >= 1
<1> DEFINE G == {n \in Nat : Pow2[n] \in Nat /\ Pow2[n] >= 1}
<1>1. 0 \in G  BY Pow2Base
<1>2. ASSUME NEW n \in G PROVE n + 1 \in G  BY Pow2Step
<1>3. G = Nat
  <2> HIDE DEF G
  <2>1. G \in SUBSET Nat  BY DEF G
  <2> QED  BY <1>1, <1>2, <2>1, Induct
<1> QED  BY <1>3

\* A block of 2^(m + n) addresses is 2^n blocks of 2^m.
LEMMA Pow2Sum == \A m, n \in Nat : Pow2[m + n] = Pow2[m] * Pow2[n]
<1> SUFFICES ASSUME NEW m \in Nat PROVE \A n \in Nat : Pow2[m + n] = Pow2[m] * Pow2[n]  OBVIOUS
<1> DEFINE G == {n \in Nat : Pow2[m + n] = Pow2[m] * Pow2[n]}
<1>1. 0 \in G  BY Pow2Base, Pow2Pos
<1>2. ASSUME NEW n \in G PROVE n + 1 \in G
  <2>1. Pow2[m + (n + 1)] = 2 * Pow2[m + n]
    <3>1. m + n \in Nat /\ m + (n + 1) = (m + n) + 1  OBVIOUS
    <3> QED  BY <3>1, Pow2Step
  <2>2. Pow2[n + 1] = 2 * Pow2[n]  BY Pow2Step
  <2>3. Pow2[m] \in Nat /\ Pow2[n] \in Nat  BY Pow2Pos
  <2>4. Pow2[m] * (2 * Pow2[n]) = 2 * (Pow2[m] * Pow2[n])
    <3>1. \A a, b \in Nat : a * (2 * b) = 2 * (a * b)  OBVIOUS
    <3> QED  BY <2>3, <3>1
  <2> QED  BY <2>1, <2>2, <2>4
<1>3. G = Nat
  <2> HIDE DEF G
  <2>1. G \in SUBSET Nat  BY DEF G
  <2> QED  BY <1>1, <1>2, <2>1, Induct
<1> QED  BY <1>3

(***************************************************************************)
(* Prefixes.                                                               *)
(***************************************************************************)
LEMMA Division ==
    ASSUME NEW a \in Nat, NEW s \in Nat, s >= 1
    PROVE  a % s \in 0..(s - 1) /\ a \div s \in Nat /\ a = s * (a \div s) + (a % s)
OBVIOUS

LEMMA MultipleOf ==
    ASSUME NEW k \in Nat, NEW s \in Nat, s >= 1 PROVE (s * k) % s = 0 /\ s * k \in Nat
<1>1. s * k \in Nat  OBVIOUS
<1> PICK c \in Nat : c = s * k  BY <1>1
<1>2. c % s \in 0..(s - 1) /\ c \div s \in Nat /\ c = s * (c \div s) + (c % s)  BY Division
<1> PICK q \in Nat : q = c \div s  BY <1>2
<1> PICK m \in Nat : m = c % s  BY <1>2
<1>6. s * k = s * q + m /\ m < s  BY <1>2
<1>3. CASE q = k  BY <1>6, <1>3
<1>4. CASE q < k
  <2>1. PICK d \in Nat : k = q + 1 + d
    <3>1. k - q - 1 \in Nat /\ k = q + 1 + (k - q - 1)  BY <1>4
    <3> QED  BY <3>1
  <2>2. s * k = s * q + s + s * d /\ s * d \in Nat /\ s * q \in Nat BY <2>1
  <2> QED  BY <1>6, <2>2
<1>5. CASE q > k
  <2>1. PICK d \in Nat : q = k + 1 + d
    <3>1. q - k - 1 \in Nat /\ q = k + 1 + (q - k - 1)  BY <1>5
    <3> QED  BY <3>1
  <2>2. s * q = s * k + s + s * d /\ s * d \in Nat BY <2>1
  <2> QED  BY <1>6, <2>2
<1> QED  BY <1>1, <1>3, <1>4, <1>5

\* A CIDR of the address space.
Cidr(p) == p.addr \in Nat /\ p.bits \in 0..IpamBits

LEMMA CountPos == ASSUME NEW p, Cidr(p) PROVE AddressCount(p) \in Nat /\ AddressCount(p) >= 1
<1>1. IpamBits - p.bits \in Nat  BY IpamInputsAssumption DEF Cidr
<1> QED  BY <1>1, Pow2Pos DEF AddressCount

LEMMA MaskedIs ==
    ASSUME NEW p, Cidr(p)
    PROVE  /\ Masked(p).bits = p.bits /\ Masked(p).addr \in Nat /\ Masked(p).addr <= p.addr
           /\ p.addr < Masked(p).addr + AddressCount(p)
           /\ AddressCount(Masked(p)) = AddressCount(p) /\ Cidr(Masked(p))
           /\ Masked(p).addr % AddressCount(p) = 0
           /\ Masked(p).addr = AddressCount(p) * (p.addr \div AddressCount(p))
<1> PICK s \in Nat : s = AddressCount(p) /\ s >= 1  BY CountPos
<1>1. p.addr \in Nat /\ p.bits \in 0..IpamBits  BY DEF Cidr
<1>2. Masked(p) = [addr |-> p.addr - (p.addr % s), bits |-> p.bits]  BY DEF Masked
<1>3. p.addr % s \in 0..(s - 1) /\ p.addr \div s \in Nat /\ p.addr = s * (p.addr \div s) + (p.addr % s)
  BY <1>1, Division
<1>4. p.addr - (p.addr % s) = s * (p.addr \div s)  
  <2>1. \A q, m, a \in Nat : a = s * q + m => a - m = s * q  OBVIOUS
  <2> QED  BY <1>1, <1>3, <2>1
<1>5. Masked(p).addr = s * (p.addr \div s) /\ Masked(p).bits = p.bits  BY <1>2, <1>4
<1>6. (s * (p.addr \div s)) % s = 0 /\ s * (p.addr \div s) \in Nat  BY <1>3, MultipleOf
<1>7. p.addr < Masked(p).addr + s /\ Masked(p).addr <= p.addr
  <2>1. Masked(p).addr = p.addr - (p.addr % s)  BY <1>2
  <2>2. PICK a \in Nat : a = p.addr  BY <1>1
  <2>3. PICK m \in 0..(s - 1) : m = p.addr % s  BY <1>3
  <2>4. Masked(p).addr = a - m  BY <2>1, <2>2, <2>3
  <2>5. a < (a - m) + s /\ a - m <= a  OBVIOUS
  <2> QED  BY <2>2, <2>4, <2>5
<1>8. AddressCount(Masked(p)) = s  BY <1>5 DEF AddressCount
<1>9. Cidr(Masked(p))  BY <1>1, <1>5, <1>6 DEF Cidr
<1> QED  BY <1>5, <1>6, <1>7, <1>8, <1>9

LEMMA MaskedTwice == ASSUME NEW p, Cidr(p) PROVE Masked(Masked(p)) = Masked(p)
<1> PICK q : q = Masked(p)  OBVIOUS
<1>1. q = [addr |-> q.addr, bits |-> q.bits]  BY DEF Masked
<1>2. q.addr % AddressCount(q) = 0 /\ q.addr \in Nat  BY MaskedIs
<1>3. Masked(q) = [addr |-> q.addr - (q.addr % AddressCount(q)), bits |-> q.bits]  BY DEF Masked
<1>4. Masked(q) = q  BY <1>1, <1>2, <1>3
<1> QED  BY <1>4

\* An aligned block keeps its own first address.
LEMMA AlignedIsMasked ==
    ASSUME NEW p, Cidr(p), p = [addr |-> p.addr, bits |-> p.bits], NEW k \in Nat, p.addr = AddressCount(p) * k
    PROVE  Masked(p) = p
<1> PICK s \in Nat : s = AddressCount(p) /\ s >= 1  BY CountPos
<1>1. p.addr % s = 0 /\ p.addr \in Nat  BY MultipleOf
<1>2. Masked(p) = [addr |-> p.addr - (p.addr % s), bits |-> p.bits]  BY DEF Masked
<1> QED  BY <1>1, <1>2

\* Two prefixes that hold one address overlap.
LEMMA HoldBoth ==
    ASSUME NEW p, NEW q, Cidr(p), Cidr(q), NEW a \in Nat, PrefixContains(p, a), PrefixContains(q, a)
    PROVE  Overlaps(p, q)
<1> PICK s \in Nat, t \in Nat, m \in Nat, n \in Nat :
        s = AddressCount(p) /\ t = AddressCount(q) /\ m = Masked(p).addr /\ n = Masked(q).addr
  BY CountPos, MaskedIs
<1>1. m <= a /\ a < m + s /\ n <= a /\ a < n + t  BY DEF PrefixContains
<1>2. (m <= n /\ n < m + s) \/ (n <= m /\ m < n + t)  BY <1>1
<1> QED  BY <1>2, Zenon DEF Overlaps, PrefixContains

\* A set of numbers up to n has a largest element, and Max is that.
LEMMA MaxIs ==
    ASSUME NEW S \in SUBSET Nat, S # {}, NEW n \in Nat, \A x \in S : x <= n
    PROVE  Max(S) \in S /\ \A y \in S : y <= Max(S)
<1> DEFINE T == {b \in Nat : \A x \in S : x <= b}
<1>1. T \in SUBSET Nat /\ T # {}  OBVIOUS
<1>2. PICK b \in T : \A m \in T : b <= m  BY <1>1, LeastExists
<1>3. b \in S
  <2> SUFFICES ASSUME b \notin S PROVE FALSE  OBVIOUS
  <2>1. b # 0  
    <3>1. PICK x \in S : TRUE  OBVIOUS
    <3>2. x \in Nat /\ x <= b /\ x # b  BY <1>2
    <3> QED  BY <3>2
  <2>2. \A x \in S : x <= b - 1  BY <1>2
  <2>3. b - 1 \in T  BY <2>1, <2>2
  <2> QED  BY <1>2, <2>3
<1>4. \E x \in S : \A y \in S : x >= y  BY <1>2, <1>3
<1>5. Max(S) \in S /\ \A y \in S : Max(S) >= y  BY <1>4, Zenon DEF Max
<1> QED  BY <1>5

LEMMA MinIs ==
    ASSUME NEW S \in SUBSET Nat, S # {} PROVE Min(S) \in S /\ \A y \in S : Min(S) <= y
BY LeastExists DEF Min

(***************************************************************************)
(* Planned subnets.  A block of findCandidatePrefix is aligned, so it is   *)
(* its own masked prefix, and every address lies in one of the blocks.     *)
(***************************************************************************)
WholeSpace == [addr |-> 0, bits |-> 0]

\* The stored subnets are masked CIDRs of the address space.
NetsFine(nets) ==
    \A p \in nets : Cidr(p) /\ Masked(p) = p /\ p = [addr |-> p.addr, bits |-> p.bits]

LEMMA SpaceIs ==
    /\ Cidr(WholeSpace) /\ Masked(WholeSpace) = WholeSpace /\ AddressCount(WholeSpace) = Pow2[IpamBits]
    /\ \A a \in Addrs : PrefixContains(WholeSpace, a)
<1>1. Cidr(WholeSpace)  BY IpamInputsAssumption DEF Cidr, WholeSpace
<1>2. AddressCount(WholeSpace) = Pow2[IpamBits]
  <2>1. IpamBits - 0 = IpamBits  BY IpamInputsAssumption
  <2> QED  BY <2>1 DEF AddressCount, WholeSpace
<1>3. WholeSpace.addr = AddressCount(WholeSpace) * 0  BY <1>1, CountPos DEF WholeSpace
<1>4. WholeSpace = [addr |-> WholeSpace.addr, bits |-> WholeSpace.bits]  BY DEF WholeSpace
<1>5. Masked(WholeSpace) = WholeSpace  BY <1>1, <1>3, <1>4, AlignedIsMasked
<1>6. ASSUME NEW a \in Addrs PROVE PrefixContains(WholeSpace, a)
  <2>1. Pow2[IpamBits] \in Nat  BY Pow2Pos, IpamInputsAssumption
  <2>2. WholeSpace.addr = 0  BY DEF WholeSpace
  <2> QED  BY <1>2, <1>5, <2>1, <2>2 DEF PrefixContains, Addrs
<1> QED  BY <1>1, <1>2, <1>5, <1>6

\* The length smallestIPv4Prefix finds leaves at least two host bits.
LEMMA SmallestIs ==
    ASSUME NEW n \in Int
    PROVE  \/ SmallestPrefix(n) = -1
           \/ /\ SmallestPrefix(n) \in 1..(IpamBits - 2)
              /\ Pow2[IpamBits - SmallestPrefix(n)] \in Nat
              /\ Pow2[IpamBits - SmallestPrefix(n)] >= 4
<1> DEFINE fit == {b \in 1..(IpamBits - 2) : UsableHosts([addr |-> 0, bits |-> b]) >= n}
<1>1. CASE n <= 0 \/ fit = {}  BY <1>1 DEF SmallestPrefix
<1>2. CASE ~(n <= 0 \/ fit = {})
  <2>1. SmallestPrefix(n) = Max(fit)  BY <1>2 DEF SmallestPrefix
  <2>2. fit \in SUBSET Nat /\ \A x \in fit : x <= IpamBits  BY IpamInputsAssumption
  <2>3. Max(fit) \in fit
    <3> HIDE DEF fit
    <3> QED  BY <1>2, <2>2, MaxIs, IpamInputsAssumption
  <2>4. PICK b : b = SmallestPrefix(n)  OBVIOUS
  <2>5. b \in 1..(IpamBits - 2)  BY <2>1, <2>3, <2>4
  <2>6. PICK h \in Nat : IpamBits - b = (h + 1) + 1
    <3>1. IpamBits - b - 2 \in Nat /\ IpamBits - b = ((IpamBits - b - 2) + 1) + 1  BY <2>5, IpamInputsAssumption
    <3> QED  BY <3>1
  <2>7. Pow2[(h + 1) + 1] = 2 * (2 * Pow2[h])  
    <3>1. Pow2[(h + 1) + 1] = 2 * Pow2[h + 1]  BY Pow2Step
    <3> QED  BY <3>1, Pow2Step
  <2>8. Pow2[h] \in Nat /\ Pow2[h] >= 1  BY Pow2Pos
  <2> QED  BY <2>4, <2>5, <2>6, <2>7, <2>8
<1> QED  BY <1>1, <1>2

Blocks(bits) ==
    {[addr |-> NthAddress(WholeSpace, k * Pow2[IpamBits - bits]), bits |-> bits] :
        k \in 0..(AddressCount(WholeSpace) \div Pow2[IpamBits - bits] - 1)}

LEMMA Cancel == ASSUME NEW s \in Nat, s >= 1, NEW q \in Nat, NEW k \in Nat, s * q = s * k PROVE q = k
<1>1. CASE q < k
  <2>1. PICK d \in Nat : k = q + 1 + d
    <3>1. k - q - 1 \in Nat /\ k = q + 1 + (k - q - 1)  BY <1>1
    <3> QED  BY <3>1
  <2>2. s * k = s * q + s + s * d /\ s * d \in Nat /\ s * q \in Nat  BY <2>1
  <2> QED  BY <2>2
<1>2. CASE k < q
  <2>1. PICK d \in Nat : q = k + 1 + d
    <3>1. q - k - 1 \in Nat /\ q = k + 1 + (q - k - 1)  BY <1>2
    <3> QED  BY <3>1
  <2>2. s * q = s * k + s + s * d /\ s * d \in Nat /\ s * k \in Nat  BY <2>1
  <2> QED  BY <2>2
<1> QED  BY <1>1, <1>2

LEMMA BlockIs ==
    ASSUME NEW bits \in 0..IpamBits, NEW b \in Blocks(bits)
    PROVE  /\ b = [addr |-> b.addr, bits |-> bits] /\ Cidr(b) /\ Masked(b) = b
           /\ AddressCount(b) = Pow2[IpamBits - bits]
           /\ b.addr \in Addrs /\ b.addr + AddressCount(b) - 1 \in Addrs
<1>1. IpamBits - bits \in Nat /\ IpamBits \in Nat  BY IpamInputsAssumption
<1> PICK size \in Nat : size = Pow2[IpamBits - bits] /\ size >= 1  BY <1>1, Pow2Pos
<1> PICK all \in Nat : all = Pow2[IpamBits]  BY <1>1, Pow2Pos
<1> PICK parts \in Nat : parts = Pow2[bits]  BY Pow2Pos
<1>2. all = size * parts
  <2>1. (IpamBits - bits) + bits = IpamBits  BY <1>1
  <2> QED  BY <1>1, <2>1, Pow2Sum
<1>3. all \div size = parts
  <2>1. all \div size \in Nat /\ all = size * (all \div size) + (all % size)  BY Division
  <2>2. all % size = 0  BY <1>2, MultipleOf
  <2>3. PICK q \in Nat : q = all \div size  BY <2>1
  <2>4. size * q = size * parts  BY <1>2, <2>1, <2>2, <2>3
  <2>5. q = parts  BY <2>4, Cancel
  <2> QED  BY <2>3, <2>5
<1>4. PICK k \in 0..(parts - 1) : b = [addr |-> NthAddress(WholeSpace, k * size), bits |-> bits]
  BY <1>3, SpaceIs DEF Blocks
<1>5. k * size = size * k /\ size * k \in Nat /\ size * k + size <= all
  <2>1. PICK d \in Nat : parts = k + 1 + d
    <3>1. parts - 1 - k \in Nat /\ parts = k + 1 + (parts - 1 - k)  OBVIOUS
    <3> QED  BY <3>1
  <2>2. all = size * k + size + size * d /\ size * d \in Nat /\ size * k \in Nat  BY <1>2, <2>1
  <2> QED  BY <2>2
<1>6. NthAddress(WholeSpace, k * size) = size * k
  <2>1. Masked(WholeSpace).addr = 0  BY SpaceIs DEF WholeSpace
  <2>2. AddressCount(WholeSpace) = all  BY SpaceIs
  <2>3. size * k < all  BY <1>5
  <2>4. NthAddress(WholeSpace, k * size) = 0 + (size * k)  BY <1>5, <2>1, <2>2, <2>3 DEF NthAddress
  <2> QED  BY <1>5, <2>4
<1>7. b = [addr |-> size * k, bits |-> bits]  BY <1>4, <1>6
<1>8. Cidr(b)  BY <1>5, <1>7 DEF Cidr
<1>9. AddressCount(b) = size  BY <1>7 DEF AddressCount
<1>10. Masked(b) = b
  <2>1. b = [addr |-> b.addr, bits |-> b.bits] /\ b.addr = AddressCount(b) * k  BY <1>7, <1>9
  <2> QED  BY <1>8, <2>1, AlignedIsMasked
<1>11. b.addr = size * k  BY <1>7
<1>12. b.addr \in Addrs /\ b.addr + size - 1 \in Addrs  BY <1>5, <1>11 DEF Addrs
<1> QED  BY <1>7, <1>8, <1>9, <1>10, <1>12

LEMMA BlockOf ==
    ASSUME NEW bits \in 0..IpamBits, NEW a \in Addrs
    PROVE  Masked([addr |-> a, bits |-> bits]) \in Blocks(bits)
<1>1. IpamBits - bits \in Nat /\ IpamBits \in Nat  BY IpamInputsAssumption
<1> PICK size \in Nat : size = Pow2[IpamBits - bits] /\ size >= 1  BY <1>1, Pow2Pos
<1> PICK all \in Nat : all = Pow2[IpamBits] /\ all >= 1  BY <1>1, Pow2Pos
<1> PICK parts \in Nat : parts = Pow2[bits] /\ parts >= 1  BY Pow2Pos
<1> PICK p : p = [addr |-> a, bits |-> bits]  OBVIOUS
<1>2. all = size * parts
  <2>1. (IpamBits - bits) + bits = IpamBits  BY <1>1
  <2> QED  BY <1>1, <2>1, Pow2Sum
<1>3. all \div size = parts
  <2>1. all \div size \in Nat /\ all = size * (all \div size) + (all % size)  BY Division
  <2>2. all % size = 0  BY <1>2, MultipleOf
  <2>3. PICK q \in Nat : q = all \div size  BY <2>1
  <2>4. size * q = size * parts  BY <1>2, <2>1, <2>2, <2>3
  <2>5. q = parts  BY <2>4, Cancel
  <2> QED  BY <2>3, <2>5
<1>4. a \in Nat /\ a < all  BY DEF Addrs
<1>5. Cidr(p) /\ AddressCount(p) = size  BY <1>4 DEF Cidr, AddressCount
<1>6. PICK k \in Nat : k = a \div size  BY <1>4, Division
<1>7. Masked(p).addr = size * k /\ size * k <= a
  <2>1. Masked(p).addr = AddressCount(p) * (p.addr \div AddressCount(p)) /\ Masked(p).addr <= p.addr
    BY <1>5, MaskedIs, Zenon
  <2>2. p.addr = a  OBVIOUS
  <2> QED  BY <1>5, <1>6, <2>1, <2>2
<1>8. k < parts
  <2> SUFFICES ASSUME ~(k < parts) PROVE FALSE  OBVIOUS
  <2>1. PICK d \in Nat : k = parts + d
    <3>1. k - parts \in Nat /\ k = parts + (k - parts)  OBVIOUS
    <3> QED  BY <3>1
  <2>2. size * k = size * parts + size * d /\ size * d \in Nat  BY <2>1
  <2>3. size * k >= all  BY <1>2, <2>2
  <2> QED  BY <1>4, <1>7, <2>3
<1>9. size * k = k * size /\ size * k \in Nat  OBVIOUS
<1>10. NthAddress(WholeSpace, k * size) = size * k
  <2>1. Masked(WholeSpace).addr = 0  BY SpaceIs DEF WholeSpace
  <2>2. AddressCount(WholeSpace) = all  BY SpaceIs
  <2>3. size * k < all  BY <1>4, <1>7, <1>9
  <2>4. NthAddress(WholeSpace, k * size) = 0 + (size * k)  BY <1>9, <2>1, <2>2, <2>3 DEF NthAddress
  <2> QED  BY <1>9, <2>4
<1>11. Masked(p) = [addr |-> size * k, bits |-> bits]
  <2>1. Masked(p) = [addr |-> Masked(p).addr, bits |-> Masked(p).bits] /\ Masked(p).bits = bits  BY DEF Masked
  <2> QED  BY <1>7, <2>1
<1>12. Masked(p) = [addr |-> NthAddress(WholeSpace, k * size), bits |-> bits]  BY <1>10, <1>11
<1>13. k \in 0..(AddressCount(WholeSpace) \div size - 1)  BY <1>3, <1>8, SpaceIs
<1> QED  BY <1>12, <1>13 DEF Blocks

FreeBlocks(bits) == {b \in Blocks(bits) : ContainsPrefix(WholeSpace, b) /\ \A p \in Nets : ~Overlaps(b, p)}

LEMMA CandidateIs ==
    ASSUME NEW bits \in 0..IpamBits
    PROVE  IF FreeBlocks(bits) = {} THEN CandidatePrefix(WholeSpace, bits) = NoNet
           ELSE CandidatePrefix(WholeSpace, bits) \in FreeBlocks(bits) /\ CandidatePrefix(WholeSpace, bits) # NoNet
<1>1. CandidatePrefix(WholeSpace, bits) =
        IF FreeBlocks(bits) = {} THEN NoNet
        ELSE CHOOSE b \in FreeBlocks(bits) : \A c \in FreeBlocks(bits) : b.addr <= c.addr
  BY Zenon DEF CandidatePrefix, FreeBlocks, Blocks
<1>2. CASE FreeBlocks(bits) = {}  BY <1>1, <1>2
<1>3. CASE FreeBlocks(bits) # {}
  <2>1. \A b \in FreeBlocks(bits) : b.addr \in Nat
    <3>1. \A b \in FreeBlocks(bits) : b \in Blocks(bits)  BY DEF FreeBlocks
    <3> QED  BY <3>1, BlockIs DEF Cidr
  <2> DEFINE S == {b.addr : b \in FreeBlocks(bits)}
  <2>2. S \in SUBSET Nat /\ S # {}  BY <1>3, <2>1
  <2>3. PICK n \in S : \A m \in S : n <= m
    <3> HIDE DEF S
    <3> QED  BY <2>2, LeastExists
  <2>4. \E b \in FreeBlocks(bits) : \A c \in FreeBlocks(bits) : b.addr <= c.addr  BY <2>3
  <2>5. CandidatePrefix(WholeSpace, bits) \in FreeBlocks(bits)  BY <1>1, <1>3, <2>4, Zenon
  <2>6. NoNet.addr \notin Nat  BY DEF NoNet
  <2>7. CandidatePrefix(WholeSpace, bits) # NoNet  BY <2>1, <2>5, <2>6
  <2> QED  BY <1>3, <2>5, <2>7
<1> QED  BY <1>2, <1>3

\* The gateway and the pool proposed for a block of four or more addresses.
LEMMA PlannedAddresses ==
    ASSUME NEW b, Cidr(b), Masked(b) = b, AddressCount(b) >= 4, b.addr \in Addrs, b.addr + AddressCount(b) - 1 \in Addrs
    PROVE  LET a == PlanAddresses(b)
           IN  /\ PrefixContains(b, a.gw) /\ PrefixContains(b, a.start) /\ PrefixContains(b, a.end)
               /\ a.start \in Addrs /\ a.end \in Addrs /\ a.start <= a.end
               /\ a.gw \notin a.start..a.end
<1> PICK size \in Nat : size = AddressCount(b) /\ size >= 4  BY CountPos
<1> PICK base \in Nat : base = b.addr  BY DEF Cidr
<1>1. \A n \in Nat : NthAddress(b, n) = IF n < size THEN base + n ELSE -1  BY DEF NthAddress, NoAddr
<1>2. UsableHosts(b) = size - 2  BY DEF UsableHosts
<1>3. PICK off \in {2, 10} : off = IF UsableHosts(b) <= 20 THEN 2 ELSE 10  OBVIOUS
<1>4. off <= size - 2  BY <1>2, <1>3
<1>5. NthAddress(b, size - 2) = base + (size - 2) /\ NthAddress(b, 1) = base + 1 /\ NthAddress(b, off) = base + off
  BY <1>1, <1>4
<1>6. PlanAddresses(b) = [gw |-> base + 1, end |-> base + (size - 2), start |-> base + off]
  <2>1. base + off # NoAddr /\ ~(base + (size - 2) < base + off)  BY <1>4 DEF NoAddr
  <2>2. PlanAddresses(b) = [gw |-> base + 1, end |-> base + (size - 2),
            start |-> IF base + off = NoAddr \/ base + (size - 2) < base + off THEN (base + 1) + 1 ELSE base + off]
    BY <1>3, <1>5, Zenon DEF PlanAddresses
  <2> QED  BY <2>1, <2>2
<1>7. \A n \in 0..(size - 1) : PrefixContains(b, base + n)  BY DEF PrefixContains
<1>8. base + (size - 1) \in Addrs /\ \A n \in 0..(size - 1) : base + n \in Addrs
  <2>1. Pow2[IpamBits] \in Nat  BY Pow2Pos, IpamInputsAssumption
  <2> QED  BY <2>1 DEF Addrs
<1> PICK a : a = PlanAddresses(b)  OBVIOUS
<1>9. a.gw = base + 1 /\ a.end = base + (size - 2) /\ a.start = base + off  BY <1>6
<1>10. PrefixContains(b, a.gw) /\ PrefixContains(b, a.start) /\ PrefixContains(b, a.end)  BY <1>4, <1>7, <1>9
<1>11. a.start \in Addrs /\ a.end \in Addrs  BY <1>4, <1>8, <1>9
<1>12. a.start <= a.end /\ a.gw \notin a.start..a.end  BY <1>4, <1>9
<1> QED  BY <1>10, <1>11, <1>12

LEMMA OverlapsSym == ASSUME NEW p, NEW q PROVE Overlaps(p, q) <=> Overlaps(q, p)
BY Zenon DEF Overlaps

LEMMA OverlapsMasked ==
    ASSUME NEW p, Cidr(p), NEW q, Cidr(q) PROVE Overlaps(p, Masked(q)) <=> Overlaps(p, q)
<1>1. Masked(Masked(q)) = Masked(q) /\ AddressCount(Masked(q)) = AddressCount(q)  BY MaskedTwice, MaskedIs, Zenon
<1> QED  BY <1>1, Zenon DEF Overlaps, PrefixContains

LEMMA BodyFits ==
    ASSUME NEW i, i.vlan = 0, PrefixContains(i, i.gw), PrefixContains(i, i.start), PrefixContains(i, i.end),
           i.start \in Addrs, i.end \in Addrs, i.start <= i.end
    PROVE  SubnetBodyOK(i)
BY DEF SubnetBodyOK

\* What plan_subnet proposes, over stored subnets that are masked CIDRs.
LEMMA PlanFits ==
    ASSUME NetsFine(Nets), NEW n \in Int, NEW i \in PlanSubnet(WholeSpace, n)
    PROVE  /\ SubnetFits(i, Nets) /\ KeyOf(i) \notin Nets /\ i.gw \notin i.start..i.end
           /\ Cidr(i) /\ i.dhcp = TRUE
<1> PICK bits : bits = SmallestPrefix(n)  OBVIOUS
<1> PICK b : b = CandidatePrefix(WholeSpace, bits)  OBVIOUS
<1> PICK a : a = PlanAddresses(b)  OBVIOUS
<1>1. /\ ~(bits < WholeSpace.bits \/ b = NoNet)
      /\ i = [addr |-> b.addr, bits |-> b.bits, gw |-> a.gw, vlan |-> 0, dhcp |-> TRUE, start |-> a.start, end |-> a.end]
  BY Zenon DEF PlanSubnet
<1>2. bits \in 1..(IpamBits - 2) /\ Pow2[IpamBits - bits] >= 4 /\ bits \in 0..IpamBits
  <2>1. ~(bits < 0)  BY <1>1 DEF WholeSpace
  <2> QED  BY <2>1, SmallestIs, IpamInputsAssumption
<1>3. b \in FreeBlocks(bits)  BY <1>1, <1>2, CandidateIs
<1>4. b \in Blocks(bits) /\ \A p \in Nets : ~Overlaps(b, p)  BY <1>3 DEF FreeBlocks
<1>5. /\ b = [addr |-> b.addr, bits |-> bits] /\ Cidr(b) /\ Masked(b) = b /\ AddressCount(b) >= 4
      /\ b.addr \in Addrs /\ b.addr + AddressCount(b) - 1 \in Addrs
  BY <1>2, <1>4, BlockIs
<1>6. /\ PrefixContains(b, a.gw) /\ PrefixContains(b, a.start) /\ PrefixContains(b, a.end)
      /\ a.start \in Addrs /\ a.end \in Addrs /\ a.start <= a.end /\ a.gw \notin a.start..a.end
  BY <1>5, PlannedAddresses, Zenon
<1>7. i.addr = b.addr /\ i.bits = b.bits /\ i.gw = a.gw /\ i.start = a.start /\ i.end = a.end /\ i.vlan = 0
  BY <1>1
<1>8. Masked(i) = b /\ KeyOf(i) = b
  <2>1. AddressCount(i) = AddressCount(b)  BY <1>7 DEF AddressCount
  <2>2. Masked(i) = Masked(b)  BY <1>7, <2>1 DEF Masked
  <2>3. CidrOf(i) = b  BY <1>5, <1>7 DEF CidrOf
  <2> QED  BY <1>5, <2>2, <2>3 DEF KeyOf
<1>9. \A x : PrefixContains(i, x) <=> PrefixContains(b, x)
  <2>1. AddressCount(i) = AddressCount(b)  BY <1>7 DEF AddressCount
  <2> QED  BY <1>5, <1>8, <2>1, Zenon DEF PrefixContains
<1>10. SubnetBodyOK(i)
  <2>1. PrefixContains(i, i.gw) /\ PrefixContains(i, i.start) /\ PrefixContains(i, i.end)  BY <1>6, <1>7, <1>9
  <2>2. i.start \in Addrs /\ i.end \in Addrs /\ i.start <= i.end  BY <1>6, <1>7
  <2> QED  BY <1>7, <2>1, <2>2, BodyFits, Zenon
<1>11. \A p \in Nets : ~Overlaps(p, b)  BY <1>4, OverlapsSym, Zenon
<1>12. SubnetFits(i, Nets)  BY <1>8, <1>10, <1>11, Zenon DEF SubnetFits
<1>13. b \notin Nets
  <2> SUFFICES ASSUME b \in Nets PROVE FALSE  OBVIOUS
  <2>1. PrefixContains(b, b.addr)  
    <3>1. b.addr \in Nat /\ AddressCount(b) \in Nat  BY <1>5, CountPos DEF Cidr
    <3> QED  BY <1>5, <3>1 DEF PrefixContains
  <2>2. Overlaps(b, b)  BY <1>5, <2>1, Zenon DEF Overlaps
  <2> QED  BY <1>4, <2>2
<1>14. Cidr(i) /\ i.dhcp = TRUE  BY <1>1, <1>5, <1>7 DEF Cidr
<1> QED  BY <1>6, <1>7, <1>8, <1>12, <1>13, <1>14

\* A plan is refused only when every block of that size is taken.
LEMMA PlanRefused ==
    ASSUME NetsFine(Nets), NEW n \in Int, PlanSubnet(WholeSpace, n) = {}, SmallestPrefix(n) > 0, NEW a \in Addrs
    PROVE  \E p \in Nets : Overlaps(p, [addr |-> a, bits |-> SmallestPrefix(n)])
<1> PICK bits : bits = SmallestPrefix(n)  OBVIOUS
<1>1. bits \in 1..(IpamBits - 2) /\ bits \in 0..IpamBits  BY SmallestIs, IpamInputsAssumption
<1>2. CandidatePrefix(WholeSpace, bits) = NoNet
  <2>1. ~(bits < WholeSpace.bits)  BY <1>1 DEF WholeSpace
  <2> QED  BY <2>1 DEF PlanSubnet
<1>3. FreeBlocks(bits) = {}  BY <1>1, <1>2, CandidateIs
<1> PICK c : c = [addr |-> a, bits |-> bits]  OBVIOUS
<1>4. Masked(c) \in Blocks(bits)  BY <1>1, BlockOf
<1>5. Cidr(Masked(c)) /\ Masked(c).addr \in Addrs /\ Masked(Masked(c)) = Masked(c) /\ Masked(c).bits = bits
  BY <1>1, <1>4, BlockIs
<1>6. ContainsPrefix(WholeSpace, Masked(c))
  <2>1. WholeSpace.bits <= Masked(c).bits  BY <1>1, <1>5 DEF WholeSpace
  <2>2. PrefixContains(WholeSpace, Masked(Masked(c)).addr)  BY <1>5, SpaceIs
  <2> QED  BY <2>1, <2>2 DEF ContainsPrefix
<1>7. PICK p \in Nets : Overlaps(Masked(c), p)  BY <1>3, <1>4, <1>6 DEF FreeBlocks
<1>8. Cidr(p) /\ Cidr(c)  BY <1>1 DEF NetsFine, Cidr, Addrs
<1>9. Overlaps(p, Masked(c))  BY <1>7, OverlapsSym, Zenon
<1>10. Overlaps(p, c)  BY <1>8, <1>9, OverlapsMasked, Zenon
<1> QED  BY <1>10

LEMMA PlansAccepted == ASSUME NetsFine(Nets) PROVE PlanAccepted
<1>1. PlanSizes \subseteq Int  BY IpamInputsAssumption
<1> SUFFICES ASSUME NEW n \in PlanSizes
             PROVE  LET plan == PlanSubnet([addr |-> 0, bits |-> 0], n)
                        bits == SmallestPrefix(n)
                    IN  IF plan = {} THEN bits > 0 => \A a \in Addrs : \E p \in Nets : Overlaps(p, [addr |-> a, bits |-> bits])
                        ELSE \A i \in plan : SubnetFits(i, Nets) /\ KeyOf(i) \notin Nets /\ i.gw \notin i.start..i.end
  BY Zenon DEF PlanAccepted
<1>2. n \in Int  BY <1>1
<1>3. WholeSpace = [addr |-> 0, bits |-> 0]  BY DEF WholeSpace
<1>4. CASE PlanSubnet(WholeSpace, n) = {}  BY <1>2, <1>3, <1>4, PlanRefused, Zenon
<1>5. CASE PlanSubnet(WholeSpace, n) # {}  BY <1>2, <1>3, <1>5, PlanFits, Zenon
<1> QED  BY <1>4, <1>5

(***************************************************************************)
(* Merged records.  A fold over a sequence goes through the values h[0],   *)
(* h[1], ..., one element after the other.                                 *)
(***************************************************************************)
LEMMA MaxUpTo ==
    ASSUME NEW k \in Nat, NEW s \in SUBSET (1..k), s # {}
    PROVE  Max(s) \in s /\ Max(s) \in 1..k /\ \A y \in s : y <= Max(s)
<1>1. s \in SUBSET Nat /\ \A x \in s : x <= k  OBVIOUS
<1> QED  BY <1>1, MaxIs

LEMMA MaxOfNext ==
    ASSUME NEW k \in Nat, NEW s \in SUBSET (1..(k + 1))
    PROVE  /\ k + 1 \in s => Max(s) = k + 1 /\ s \ {Max(s)} \in SUBSET (1..k)
           /\ k + 1 \notin s => s \in SUBSET (1..k)
<1>1. ASSUME k + 1 \in s PROVE Max(s) = k + 1 /\ s \ {Max(s)} \in SUBSET (1..k)
  <2>1. s # {} /\ k + 1 \in Nat  BY <1>1
  <2>2. Max(s) \in 1..(k + 1) /\ \A y \in s : y <= Max(s)  BY <2>1, MaxUpTo
  <2>3. Max(s) = k + 1  BY <1>1, <2>2
  <2> QED  BY <2>3
<1> QED  BY <1>1

\* The step of both loops: all records are merged, or those of one subnet.
Step(which, net, cur, x) == IF which = "all" \/ x.net = net THEN MergeRecord(cur, x) ELSE cur

MergeFun(which, net, base, seq, D, i) ==
    i = [s \in SUBSET D |-> IF s = {} THEN base ELSE Step(which, net, i[s \ {Max(s)}], seq[Max(s)])]

LEMMA MergeTables ==
    ASSUME NEW which, NEW net, NEW base, NEW seq PROVE \A n \in Nat : \E i : MergeFun(which, net, base, seq, 1..n, i)
<1> DEFINE G == {n \in Nat : \E i : MergeFun(which, net, base, seq, 1..n, i)}
<1>1. 0 \in G
  <2>1. \A s \in SUBSET (1..0) : s = {}  OBVIOUS
  <2>2. PICK i : i = [s \in SUBSET (1..0) |-> base]  OBVIOUS
  <2>3. i = [s \in SUBSET (1..0) |-> IF s = {} THEN base ELSE Step(which, net, i[s \ {Max(s)}], seq[Max(s)])]
    BY <2>1, <2>2
  <2> QED  BY <2>3, Zenon DEF MergeFun
<1>2. ASSUME NEW n \in G PROVE n + 1 \in G
  <2>1. PICK i : MergeFun(which, net, base, seq, 1..n, i)  OBVIOUS
  <2>2. \A s \in SUBSET (1..n) : i[s] = IF s = {} THEN base ELSE Step(which, net, i[s \ {Max(s)}], seq[Max(s)])
    BY <2>1, Zenon DEF MergeFun
  <2> DEFINE j == [s \in SUBSET (1..(n + 1)) |->
                      IF n + 1 \in s THEN Step(which, net, i[s \ {n + 1}], seq[n + 1]) ELSE i[s]]
  <2>3. ASSUME NEW s \in SUBSET (1..(n + 1))
        PROVE  j[s] = IF s = {} THEN base ELSE Step(which, net, j[s \ {Max(s)}], seq[Max(s)])
    <3>1. CASE n + 1 \in s
      <4>1. Max(s) = n + 1 /\ s \ {Max(s)} \in SUBSET (1..n)  BY <3>1, MaxOfNext
      <4>2. j[s \ {n + 1}] = i[s \ {n + 1}]  BY <4>1
      <4>3. j[s] = Step(which, net, i[s \ {n + 1}], seq[n + 1])  BY <3>1
      <4>4. s # {}  BY <3>1
      <4> HIDE DEF j
      <4> QED  BY <4>1, <4>2, <4>3, <4>4, Zenon
    <3>2. CASE n + 1 \notin s
      <4>1. s \in SUBSET (1..n)  BY <3>2, MaxOfNext
      <4>2. j[s] = i[s]  BY <3>2
      <4>3. CASE s = {}
        <5> HIDE DEF j
        <5> QED  BY <2>2, <4>1, <4>2, <4>3
      <4>4. CASE s # {}
        <5>1. Max(s) \in s  BY <4>1, <4>4, MaxUpTo
        <5>2. n + 1 \notin s \ {Max(s)} /\ s \ {Max(s)} \in SUBSET (1..(n + 1))  BY <3>2
        <5>3. j[s \ {Max(s)}] = i[s \ {Max(s)}]  BY <5>2
        <5> HIDE DEF j
        <5> QED  BY <2>2, <4>1, <4>2, <4>4, <5>3, Zenon
      <4> QED  BY <4>3, <4>4
    <3> QED  BY <3>1, <3>2
  <2>4. j = [s \in SUBSET (1..(n + 1)) |-> j[s]]  OBVIOUS
  <2>5. MergeFun(which, net, base, seq, 1..(n + 1), j)
    <3> HIDE DEF j
    <3> QED  BY <2>3, <2>4, Zenon DEF MergeFun
  <2>6. n + 1 \in Nat  OBVIOUS
  <2> HIDE DEF j
  <2> QED  BY <2>5, <2>6
<1>3. G = Nat
  <2> HIDE DEF G
  <2>1. G \in SUBSET Nat  BY DEF G
  <2> QED  BY <1>1, <1>2, <2>1, Induct
<1> QED  BY <1>3

Runs(which, net, base, seq, n, h) == h[0] = base /\ \A k \in 1..n : h[k] = Step(which, net, h[k - 1], seq[k])

LEMMA TableRuns ==
    ASSUME NEW which, NEW net, NEW base, NEW n \in Nat, NEW seq, NEW i, MergeFun(which, net, base, seq, 1..n, i)
    PROVE  \E h : Runs(which, net, base, seq, n, h) /\ h[n] = i[1..n]
<1>5. \A s \in SUBSET (1..n) : i[s] = IF s = {} THEN base ELSE Step(which, net, i[s \ {Max(s)}], seq[Max(s)])
  BY Zenon DEF MergeFun
<1> DEFINE h == [k \in 0..n |-> i[1..k]]
<1>6. h[0] = base
  <2>1. 1..0 = {} /\ {} \in SUBSET (1..n)  OBVIOUS
  <2>2. i[{}] = base  BY <1>5, <2>1, Zenon
  <2>3. h[0] = i[1..0]  OBVIOUS
  <2> HIDE DEF h
  <2> QED  BY <2>1, <2>2, <2>3
<1>7. h[n] = i[1..n]  OBVIOUS
<1>8. ASSUME NEW k \in 1..n PROVE h[k] = Step(which, net, h[k - 1], seq[k])
  <2>0. k \in Nat /\ k >= 1 /\ k <= n  OBVIOUS
  <2>1. 1..k \in SUBSET (1..n) /\ k \in 1..k /\ 1..k # {} /\ k - 1 \in Nat /\ (k - 1) + 1 = k
    <3> HIDE DEF h
    <3>1. 1..k \subseteq 1..n  BY <2>0
    <3>2. k \in 1..k /\ k - 1 \in Nat /\ (k - 1) + 1 = k  BY <2>0
    <3> QED  BY <3>1, <3>2
  <2>2. Max(1..k) = k
    <3>1. 1..k \in SUBSET (1..((k - 1) + 1)) /\ (k - 1) + 1 \in 1..k  BY <2>1
    <3> QED  BY <2>1, <3>1, MaxOfNext
  <2>3. (1..k) \ {k} = 1..(k - 1)  OBVIOUS
  <2>4. i[1..k] = Step(which, net, i[(1..k) \ {Max(1..k)}], seq[Max(1..k)])  BY <1>5, <2>1, Zenon
  <2>5. i[1..k] = Step(which, net, i[1..(k - 1)], seq[k])  BY <2>2, <2>3, <2>4
  <2>6. h[k] = i[1..k] /\ h[k - 1] = i[1..(k - 1)]  OBVIOUS
  <2> QED  BY <2>5, <2>6
<1> HIDE DEF h
<1> QED  BY <1>6, <1>7, <1>8, Zenon DEF Runs

\* h are the records Merge goes through.
MergesThrough(base, seq, n, h) ==
    /\ h[0] = base /\ h[n] = Merge(base, seq)
    /\ \A k \in 1..n : h[k] = MergeRecord(h[k - 1], seq[k])

LEMMA MergeRuns ==
    ASSUME NEW base, NEW n \in Nat, NEW seq, DOMAIN seq = 1..n
    PROVE  \E h : MergesThrough(base, seq, n, h)
<1> DEFINE Is(i) == i = [s \in SUBSET (1..n) |-> IF s = {} THEN base ELSE MergeRecord(i[s \ {Max(s)}], seq[Max(s)])]
<1>1. \A c, x : Step("all", NoNet, c, x) = MergeRecord(c, x)  BY DEF Step
<1>2. \A i : MergeFun("all", NoNet, base, seq, 1..n, i) <=> Is(i)  BY <1>1 DEF MergeFun
<1>3. PICK i : i = CHOOSE j : Is(j)  OBVIOUS
<1>4. Is(i)
  <2>1. \E j : Is(j)  BY <1>2, MergeTables, Zenon
  <2> HIDE DEF Is
  <2> QED  BY <1>3, <2>1
<1>5. Merge(base, seq) = i[1..n]  BY <1>3, Zenon DEF Merge, FoldLeft, MapThenFoldSet
<1>6. PICK h : Runs("all", NoNet, base, seq, n, h) /\ h[n] = i[1..n]
  <2> HIDE DEF Is
  <2>1. MergeFun("all", NoNet, base, seq, 1..n, i)  BY <1>2, <1>4, Zenon
  <2> QED  BY <2>1, TableRuns
<1>7. h[0] = base /\ \A k \in 1..n : h[k] = Step("all", NoNet, h[k - 1], seq[k])  BY <1>6, Zenon DEF Runs
<1>8. \A k \in 1..n : h[k] = MergeRecord(h[k - 1], seq[k])  BY <1>1, <1>7
<1>9. h[n] = Merge(base, seq)  BY <1>5, <1>6
<1>10. MergesThrough(base, seq, n, h)  BY <1>7, <1>8, <1>9, Zenon DEF MergesThrough
<1> QED  BY <1>10

MergesOfThrough(net, seq, n, h) ==
    /\ h[0] = NoRec /\ h[n] = MergeOf(net, seq)
    /\ \A k \in 1..n : h[k] = IF seq[k].net = net THEN MergeRecord(h[k - 1], seq[k]) ELSE h[k - 1]

LEMMA MergeOfRuns ==
    ASSUME NEW net, NEW n \in Nat, NEW seq, DOMAIN seq = 1..n
    PROVE  \E h : MergesOfThrough(net, seq, n, h)
<1> DEFINE Is(i) == i = [s \in SUBSET (1..n) |-> IF s = {} THEN NoRec
                            ELSE IF seq[Max(s)].net = net THEN MergeRecord(i[s \ {Max(s)}], seq[Max(s)])
                                 ELSE i[s \ {Max(s)}]]
<1>1. \A c, x : Step("one", net, c, x) = IF x.net = net THEN MergeRecord(c, x) ELSE c  BY DEF Step
<1>2. ASSUME NEW i PROVE MergeFun("one", net, NoRec, seq, 1..n, i) <=> Is(i)
  <2>1. \A s : Step("one", net, i[s \ {Max(s)}], seq[Max(s)]) =
                  IF seq[Max(s)].net = net THEN MergeRecord(i[s \ {Max(s)}], seq[Max(s)]) ELSE i[s \ {Max(s)}]
    BY <1>1, Zenon
  <2>2. [s \in SUBSET (1..n) |-> IF s = {} THEN NoRec ELSE Step("one", net, i[s \ {Max(s)}], seq[Max(s)])] =
        [s \in SUBSET (1..n) |-> IF s = {} THEN NoRec
                                 ELSE IF seq[Max(s)].net = net THEN MergeRecord(i[s \ {Max(s)}], seq[Max(s)])
                                 ELSE i[s \ {Max(s)}]]
    BY <2>1, Zenon
  <2> QED  BY <2>2, Zenon DEF MergeFun
<1>3. PICK i : i = CHOOSE j : Is(j)  OBVIOUS
<1>4. Is(i)
  <2>1. \E j : Is(j)  BY <1>2, MergeTables, Zenon
  <2> HIDE DEF Is
  <2> QED  BY <1>3, <2>1
<1>5. MergeOf(net, seq) = i[1..n]  BY <1>3, Zenon DEF MergeOf, FoldLeft, MapThenFoldSet
<1>6. PICK h : Runs("one", net, NoRec, seq, n, h) /\ h[n] = i[1..n]
  <2> HIDE DEF Is
  <2>1. MergeFun("one", net, NoRec, seq, 1..n, i)  BY <1>2, <1>4, Zenon
  <2> QED  BY <2>1, TableRuns
<1>7. h[0] = NoRec /\ \A k \in 1..n : h[k] = Step("one", net, h[k - 1], seq[k])  BY <1>6, Zenon DEF Runs
<1>8. \A k \in 1..n : h[k] = IF seq[k].net = net THEN MergeRecord(h[k - 1], seq[k]) ELSE h[k - 1]  BY <1>1, <1>7
<1>9. h[n] = MergeOf(net, seq)  BY <1>5, <1>6
<1>10. MergesOfThrough(net, seq, n, h)  BY <1>7, <1>8, <1>9, Zenon DEF MergesOfThrough
<1> QED  BY <1>10

LEMMA Ranks ==
    /\ RankState("conflict") = 5 /\ RankState("available") = 1
    /\ \A s : RankState(s) \in 1..5
    /\ \A s \in IPStates : s # "available" => RankState(s) > 1
BY DEF RankState, IPStates

\* A record that names client m, or reports a conflict.
Names(c, m) == c.state = "conflict" \/ c.mac = m

LEMMA MergedState ==
    ASSUME NEW cur, NEW next, cur # NoRec
    PROVE  LET s == MergeRecord(cur, next).state
           IN  s = "conflict" \/ s = IF RankState(next.state) > RankState(cur.state) THEN next.state ELSE cur.state
BY DEF MergeRecord

LEMMA MergeNames ==
    ASSUME NEW cur, NEW next, NEW m, m # NoMac, Names(cur, m) \/ next.mac = m
    PROVE  Names(MergeRecord(cur, next), m)
<1>1. CASE cur = NoRec
  <2>1. MergeRecord(cur, next) = next /\ cur.state # "conflict" /\ cur.mac = NoMac  BY <1>1 DEF MergeRecord, NoRec
  <2> QED  BY <2>1 DEF Names
<1>2. CASE cur # NoRec
  <2>1. CASE cur.state = "conflict"
    <3>1. ~(RankState(next.state) > RankState(cur.state))  BY <2>1, Ranks
    <3> QED  BY <1>2, <2>1, <3>1, MergedState DEF Names
  <2>2. CASE cur.mac = m
    <3>1. MergeRecord(cur, next).mac = m  BY <1>2, <2>2 DEF MergeRecord
    <3> QED  BY <3>1 DEF Names
  <2>3. CASE next.mac = m /\ cur.mac # m
    <3>1. CASE cur.mac = NoMac
      <4>1. MergeRecord(cur, next).mac = m  BY <1>2, <2>3, <3>1 DEF MergeRecord
      <4> QED  BY <4>1 DEF Names
    <3>2. CASE cur.mac # NoMac
      <4>1. MergeRecord(cur, next).state = "conflict"  BY <1>2, <2>3, <3>2 DEF MergeRecord
      <4> QED  BY <4>1 DEF Names
    <3> QED  BY <3>1, <3>2
  <2> QED  BY <2>1, <2>2, <2>3 DEF Names
<1> QED  BY <1>1, <1>2

\* Whoever one of the records names is named by their merge, if that reports
\* no conflict.
LEMMA MergedNames ==
    ASSUME NEW base, NEW n \in Nat, NEW seq, DOMAIN seq = 1..n, NEW m, m # NoMac,
           Names(base, m) \/ \E k \in 1..n : seq[k].mac = m
    PROVE  Names(Merge(base, seq), m)
<1>0. PICK h : MergesThrough(base, seq, n, h)  BY MergeRuns
<1>1. /\ h[0] = base /\ h[n] = Merge(base, seq)
      /\ \A k \in 1..n : h[k] = MergeRecord(h[k - 1], seq[k])
  BY <1>0, Zenon DEF MergesThrough
<1> DEFINE G == {k \in Nat : k <= n /\ (Names(base, m) \/ \E j \in 1..k : seq[j].mac = m) => Names(h[k], m)}
<1>2. 0 \in G
  <2>1. ~(\E j \in 1..0 : seq[j].mac = m)  OBVIOUS
  <2> QED  BY <1>1, <2>1
<1>3. ASSUME NEW k \in G PROVE k + 1 \in G
  <2> SUFFICES ASSUME k + 1 <= n, Names(base, m) \/ \E j \in 1..(k + 1) : seq[j].mac = m
               PROVE  Names(h[k + 1], m)
    OBVIOUS
  <2>1. k \in Nat /\ k + 1 \in 1..n /\ (k + 1) - 1 = k  OBVIOUS
  <2>2. h[k + 1] = MergeRecord(h[k], seq[k + 1])  BY <1>1, <2>1
  <2>3. Names(h[k], m) \/ seq[k + 1].mac = m
    <3>1. (\E j \in 1..(k + 1) : seq[j].mac = m) => seq[k + 1].mac = m \/ \E j \in 1..k : seq[j].mac = m  BY <2>1
    <3> QED  BY <2>1, <3>1
  <2> QED  BY <2>2, <2>3, MergeNames
<1>4. G = Nat
  <2> HIDE DEF G
  <2>1. G \in SUBSET Nat  BY DEF G
  <2> QED  BY <1>2, <1>3, <2>1, Induct
<1>5. n \in G  BY <1>4
<1> QED  BY <1>1, <1>5

\* A record of the listing: none, or one with a state.
Shown(c) == c = NoRec \/ c.state \in IPStates

LEMMA MergeShown ==
    ASSUME NEW cur, NEW next, Shown(cur), next.state \in IPStates
    PROVE  LET c == MergeRecord(cur, next)
           IN  /\ c.state \in IPStates
               /\ c.state = "available" => next.state = "available" /\ (cur = NoRec \/ cur.state = "available")
<1> PICK c : c = MergeRecord(cur, next)  OBVIOUS
<1>1. CASE cur = NoRec
  <2>1. c = next  BY <1>1 DEF MergeRecord
  <2> QED  BY <1>1, <2>1
<1>2. CASE cur # NoRec
  <2>1. cur.state \in IPStates  BY <1>2 DEF Shown
  <2>2. CASE c.state = "conflict"  BY <2>2 DEF IPStates
  <2>3. CASE c.state # "conflict"
    <3>1. c.state = IF RankState(next.state) > RankState(cur.state) THEN next.state ELSE cur.state
      BY <1>2, <2>3, MergedState
    <3>2. c.state \in IPStates  BY <2>1, <3>1
    <3>3. ASSUME c.state = "available" PROVE next.state = "available" /\ cur.state = "available"
      <4>1. CASE RankState(next.state) > RankState(cur.state)
        <5>1. next.state = "available"  BY <3>1, <3>3, <4>1
        <5>2. RankState(cur.state) \in 1..5 /\ RankState(next.state) = 1  BY <5>1, Ranks
        <5> QED  BY <4>1, <5>2
      <4>2. CASE ~(RankState(next.state) > RankState(cur.state))
        <5>1. cur.state = "available"  BY <3>1, <3>3, <4>2
        <5>2. RankState(cur.state) = 1  BY <5>1, Ranks
        <5>3. RankState(next.state) \in 1..5  BY Ranks
        <5>4. ~(RankState(next.state) > 1)  BY <4>2, <5>2
        <5> QED  BY <5>1, <5>4, Ranks
      <4> QED  BY <4>1, <4>2
    <3> QED  BY <3>2, <3>3
  <2> QED  BY <2>2, <2>3
<1> QED  BY <1>1, <1>2

\* The listing of a subnet: an address with a record of the subnet is listed,
\* and as available only if all these records say so.
LEMMA MergedShown ==
    ASSUME NEW net, NEW n \in Nat, NEW seq, DOMAIN seq = 1..n, \A k \in 1..n : seq[k].state \in IPStates
    PROVE  LET c == MergeOf(net, seq)
           IN  /\ Shown(c)
               /\ \A k \in 1..n : seq[k].net = net => c # NoRec /\ (c.state = "available" => seq[k].state = "available")
               /\ c = NoRec \/ \E k \in 1..n : seq[k].net = net
<1>0. PICK h : MergesOfThrough(net, seq, n, h)  BY MergeOfRuns
<1>1. /\ h[0] = NoRec /\ h[n] = MergeOf(net, seq)
      /\ \A k \in 1..n : h[k] = IF seq[k].net = net THEN MergeRecord(h[k - 1], seq[k]) ELSE h[k - 1]
  BY <1>0, Zenon DEF MergesOfThrough
<1> DEFINE Good(c, k) ==
              /\ Shown(c)
              /\ \A j \in 1..k : seq[j].net = net => c # NoRec /\ (c.state = "available" => seq[j].state = "available")
              /\ c = NoRec \/ \E j \in 1..k : seq[j].net = net
           G == {k \in Nat : k <= n => Good(h[k], k)}
<1>2. 0 \in G
  <2>1. Good(NoRec, 0)  BY DEF Shown
  <2> HIDE DEF Good
  <2> QED  BY <1>1, <2>1
<1>3. ASSUME NEW k \in G PROVE k + 1 \in G
  <2> SUFFICES ASSUME k + 1 <= n PROVE Good(h[k + 1], k + 1)  OBVIOUS
  <2>1. k \in Nat /\ k + 1 \in 1..n /\ (k + 1) - 1 = k /\ Good(h[k], k)  OBVIOUS
  <2> PICK cur, next : cur = h[k] /\ next = seq[k + 1]  OBVIOUS
  <2>2. Shown(cur) /\ next.state \in IPStates  BY <2>1
  <2>3. CASE next.net = net
    <3> PICK c : c = MergeRecord(cur, next)  OBVIOUS
    <3>1. h[k + 1] = c  BY <1>1, <2>1, <2>3
    <3>2. c.state \in IPStates /\ (c.state = "available" => next.state = "available" /\ (cur = NoRec \/ cur.state = "available"))
      BY <2>2, MergeShown
    <3>3. c # NoRec /\ Shown(c)  BY <3>2 DEF NoRec, Shown, IPStates
    <3>4. ASSUME NEW j \in 1..(k + 1), seq[j].net = net, c.state = "available" PROVE seq[j].state = "available"
      <4>1. CASE j = k + 1  BY <3>2, <3>4, <4>1
      <4>2. CASE j # k + 1
        <5>1. j \in 1..k  BY <2>1, <4>2
        <5>2. cur # NoRec /\ (cur.state = "available" => seq[j].state = "available")  BY <2>1, <3>4, <5>1
        <5> QED  BY <3>2, <3>4, <5>2
      <4> QED  BY <4>1, <4>2
    <3>5. Good(c, k + 1)  BY <2>1, <2>3, <3>3, <3>4
    <3> HIDE DEF Good
    <3> QED  BY <3>1, <3>5
  <2>4. CASE next.net # net
    <3>1. h[k + 1] = cur  BY <1>1, <2>1, <2>4
    <3>2. \A j \in 1..(k + 1) : j = k + 1 \/ j \in 1..k  BY <2>1
    <3>3. Good(cur, k + 1)  BY <2>1, <2>4, <3>2
    <3> HIDE DEF Good
    <3> QED  BY <3>1, <3>3
  <2> QED  BY <2>3, <2>4
<1>4. G = Nat
  <2> HIDE DEF G
  <2>1. G \in SUBSET Nat  BY DEF G
  <2> QED  BY <1>2, <1>3, <2>1, Induct
<1>5. Good(h[n], n)  BY <1>4
<1> QED  BY <1>1, <1>5

LEMMA ConcatIs ==
    ASSUME NEW m \in Nat, NEW n \in Nat, NEW s, NEW t, s = [k \in 1..m |-> s[k]], t = [k \in 1..n |-> t[k]]
    PROVE  /\ s \o t = [k \in 1..(m + n) |-> (s \o t)[k]]
           /\ \A k \in 1..(m + n) : (s \o t)[k] = IF k <= m THEN s[k] ELSE t[k - m]
<1> DEFINE V == {s[k] : k \in 1..m} \cup {t[k] : k \in 1..n}
<1>1. s \in [1..m -> V] /\ t \in [1..n -> V]  OBVIOUS
<1> HIDE DEF V
<1>2. s \in Seq(V) /\ t \in Seq(V)  BY <1>1
<1>3. Len(s) = m /\ Len(t) = n  BY <1>1, <1>2
<1>4. s \o t \in Seq(V) /\ Len(s \o t) = m + n  BY <1>2, <1>3
<1> QED  BY <1>2, <1>3, <1>4

(***************************************************************************)
(* The records of an address.                                              *)
(***************************************************************************)
LEMMA InferIs ==
    ASSUME NEW nets, \A p \in nets : Cidr(p), NEW ip
    PROVE  \/ InferSubnet(ip, nets) = NoNet /\ \A p \in nets : ~PrefixContains(p, ip)
           \/ InferSubnet(ip, nets) \in nets /\ PrefixContains(InferSubnet(ip, nets), ip)
<1> DEFINE within == {p \in nets : PrefixContains(p, ip)}
           first(p) == \A q \in within : p.addr < q.addr \/ (p.addr = q.addr /\ p.bits <= q.bits)
<1>1. CASE within = {}  BY <1>1 DEF InferSubnet
<1>2. CASE within # {}
  <2>1. \A p \in within : p.addr \in Nat /\ p.bits \in Nat  BY DEF Cidr
  <2> DEFINE A == {p.addr : p \in within}
  <2>2. A \in SUBSET Nat /\ A # {}  BY <1>2, <2>1
  <2>3. PICK a \in A : \A b \in A : a <= b
    <3> HIDE DEF A
    <3> QED  BY <2>2, LeastExists
  <2> DEFINE B == {p.bits : p \in {q \in within : q.addr = a}}
  <2>4. B \in SUBSET Nat /\ B # {}  BY <2>1
  <2>5. PICK b \in B : \A c \in B : b <= c
    <3> HIDE DEF B
    <3> QED  BY <2>4, LeastExists
  <2>6. PICK p \in within : p.addr = a /\ p.bits = b  OBVIOUS
  <2>7. ASSUME NEW q \in within PROVE p.addr < q.addr \/ (p.addr = q.addr /\ p.bits <= q.bits)
    <3>1. a <= q.addr /\ q.addr \in Nat /\ a \in Nat  BY <2>1, <2>3
    <3>2. q.addr = a => b <= q.bits  BY <2>5
    <3> QED  BY <2>6, <3>1, <3>2
  <2>8. first(p)  BY <2>7
  <2>9. InferSubnet(ip, nets) = CHOOSE x \in within : first(x)  BY <1>2, Zenon DEF InferSubnet
  <2>10. InferSubnet(ip, nets) \in within
    <3> HIDE DEF within, first
    <3> QED  BY <2>8, <2>9
  <2> QED  BY <2>10
<1> QED  BY <1>1, <1>2

\* The subnet a request is filed under holds its address.
LEMMA ResolvedHolds ==
    ASSUME NEW nets, \A p \in nets : Cidr(p), NEW ip, NEW net, ResolveNet(ip, net, nets) # NoNet
    PROVE  ResolveNet(ip, net, nets) \in nets /\ PrefixContains(ResolveNet(ip, net, nets), ip)
<1>1. CASE net = NoNet
  <2>1. ResolveNet(ip, net, nets) = InferSubnet(ip, nets)  BY <1>1 DEF ResolveNet
  <2> QED  BY <2>1, InferIs
<1>2. CASE net # NoNet
  <2>1. ResolveNet(ip, net, nets) = net /\ net \in nets /\ PrefixContains(net, ip)  BY <1>2 DEF ResolveNet
  <2> QED  BY <2>1
<1> QED  BY <1>1, <1>2

LEMMA LargestExists ==
    ASSUME NEW S \in SUBSET Nat, IsFiniteSet(S), S # {} PROVE \E b \in S : \A x \in S : x <= b
<1> DEFINE bound(n) == \A T \in SUBSET S : Cardinality(T) = n /\ T # {} => \E b \in T : \A x \in T : x <= b
           G == {n \in Nat : bound(n)}
<1>1. 0 \in G
  <2>1. \A T \in SUBSET S : Cardinality(T) = 0 => T = {}  BY FS_EmptySet, FS_Subset
  <2> QED  BY <2>1
<1>2. ASSUME NEW n \in G PROVE n + 1 \in G
  <2> SUFFICES ASSUME NEW T \in SUBSET S, Cardinality(T) = n + 1, T # {}
               PROVE  \E b \in T : \A x \in T : x <= b
    OBVIOUS
  <2>1. PICK t \in T : TRUE  OBVIOUS
  <2>2. PICK U : U = T \ {t}  OBVIOUS
  <2>3. IsFiniteSet(T)  BY FS_Subset
  <2>4. Cardinality(U) = n /\ U \in SUBSET S
    <3>1. Cardinality(U) = Cardinality(T) - 1  BY <2>2, <2>3, FS_RemoveElement
    <3> QED  BY <2>2, <3>1
  <2>5. CASE U = {}
    <3>1. \A x \in T : x = t  BY <2>2, <2>5
    <3> QED  BY <3>1
  <2>6. CASE U # {}
    <3>1. PICK b \in U : \A x \in U : x <= b  BY <2>4, <2>6
    <3>2. \A x \in T : x = t \/ x \in U  BY <2>2
    <3>3. b \in T /\ b \in Nat /\ t \in Nat  BY <2>2
    <3>4. CASE t <= b  BY <3>1, <3>2, <3>3, <3>4
    <3>5. CASE ~(t <= b)
      <4>1. \A x \in T : x <= t
        <5> SUFFICES ASSUME NEW x \in T PROVE x <= t  OBVIOUS
        <5>1. x \in Nat  OBVIOUS
        <5>2. x = t \/ x <= b  BY <3>1, <3>2
        <5> QED  BY <3>3, <3>5, <5>1, <5>2
      <4> QED  BY <4>1
    <3> QED  BY <3>4, <3>5
  <2> QED  BY <2>5, <2>6
<1>3. G = Nat
  <2> HIDE DEF G
  <2>1. G \in SUBSET Nat  BY DEF G
  <2> QED  BY <1>1, <1>2, <2>1, Induct
<1>4. Cardinality(S) \in Nat  BY FS_CardinalityType
<1>5. bound(Cardinality(S))  BY <1>3, <1>4
<1> QED  BY <1>5

\* The k-th smallest element of a finite set of numbers exists.
LEMMA NthExists ==
    ASSUME NEW S \in SUBSET Nat, IsFiniteSet(S), NEW k \in 1..Cardinality(S)
    PROVE  \E m \in S : Cardinality({n \in S : n < m}) = k - 1
<1> DEFINE below(m) == {n \in S : n < m}
           upto(m) == {n \in S : n <= m}
           T == {m \in S : Cardinality(upto(m)) >= k}
<1>1. \A m \in S : /\ IsFiniteSet(below(m)) /\ IsFiniteSet(upto(m))
                   /\ Cardinality(below(m)) \in Nat /\ Cardinality(upto(m)) = Cardinality(below(m)) + 1
  <2> SUFFICES ASSUME NEW m \in S
               PROVE  /\ IsFiniteSet(below(m)) /\ IsFiniteSet(upto(m))
                      /\ Cardinality(below(m)) \in Nat /\ Cardinality(upto(m)) = Cardinality(below(m)) + 1
    OBVIOUS
  <2>1. below(m) \in SUBSET S /\ upto(m) \in SUBSET S /\ m \notin below(m) /\ upto(m) = below(m) \cup {m}
    <3>1. \A n \in S : n <= m <=> n < m \/ n = m  OBVIOUS
    <3>2. m \notin below(m)  OBVIOUS
    <3>3. upto(m) = below(m) \cup {m}  BY <3>1
    <3> QED  BY <3>2, <3>3
  <2>2. IsFiniteSet(below(m)) /\ IsFiniteSet(upto(m))  
    <3> HIDE DEF below, upto
    <3> QED  BY <2>1, FS_Subset
  <2>3. Cardinality(below(m)) \in Nat
    <3> HIDE DEF below
    <3> QED  BY <2>2, FS_CardinalityType
  <2>4. Cardinality(upto(m)) = Cardinality(below(m)) + 1
    <3> HIDE DEF below, upto
    <3> QED  BY <2>1, <2>2, FS_AddElement
  <2> QED  BY <2>2, <2>3, <2>4
<1>2. Cardinality(S) \in Nat  BY FS_CardinalityType
<1>3. S # {}
  <2> SUFFICES ASSUME S = {} PROVE FALSE  OBVIOUS
  <2>1. Cardinality(S) = 0  BY FS_EmptySet
  <2> QED  BY <2>1
<1>4. T # {}
  <2>1. PICK b \in S : \A x \in S : x <= b  BY <1>3, LargestExists
  <2>2. upto(b) = S  BY <2>1
  <2>3. Cardinality(upto(b)) >= k
    <3> HIDE DEF upto
    <3> QED  BY <1>2, <2>2
  <2> QED  BY <2>3
<1>5. PICK m \in T : \A x \in T : m <= x
  <2>1. T \in SUBSET Nat  OBVIOUS
  <2> HIDE DEF T
  <2> QED  BY <1>4, <2>1, LeastExists
<1>6. Cardinality(upto(m)) >= k /\ m \in S  OBVIOUS
<1>7. Cardinality(below(m)) = k - 1
  <2> SUFFICES ASSUME Cardinality(below(m)) # k - 1 PROVE FALSE  OBVIOUS
  <2>1. Cardinality(below(m)) >= k
    <3> HIDE DEF below, upto
    <3> QED  BY <1>1, <1>2, <1>6
  <2>2. below(m) # {}
    <3> SUFFICES ASSUME below(m) = {} PROVE FALSE  OBVIOUS
    <3> HIDE DEF below
    <3>1. Cardinality(below(m)) = 0  BY FS_EmptySet
    <3> QED  BY <1>2, <2>1, <3>1
  <2>3. below(m) \in SUBSET Nat /\ IsFiniteSet(below(m))  BY <1>1, <1>6
  <2>4. PICK b \in below(m) : \A x \in below(m) : x <= b
    <3> HIDE DEF below
    <3> QED  BY <2>2, <2>3, LargestExists
  <2>5. upto(b) = below(m)
    <3>1. \A x \in S : x <= b <=> x < m
      <4> SUFFICES ASSUME NEW x \in S PROVE x <= b <=> x < m  OBVIOUS
      <4>1. b \in Nat /\ x \in Nat /\ m \in Nat /\ b < m  OBVIOUS
      <4>2. x < m => x <= b  BY <2>4
      <4> QED  BY <4>1, <4>2
    <3> QED  BY <3>1
  <2>6. Cardinality(upto(b)) >= k
    <3> HIDE DEF below, upto
    <3> QED  BY <2>1, <2>5
  <2>7. b \in T /\ b < m  BY <2>6
  <2> QED  BY <1>5, <2>7
<1> QED  BY <1>6, <1>7

(***************************************************************************)
(* What the trees hold.                                                    *)
(***************************************************************************)
PoolFits(p, s) ==
    /\ s.dhcp \in BOOLEAN
    /\ s.dhcp = TRUE => s.start \in Addrs /\ s.end \in Addrs /\ s.start <= s.end
                        /\ PrefixContains(p, s.start) /\ PrefixContains(p, s.end)

SubnetsOK(subs) ==
    /\ NetsFine(DOMAIN subs)
    /\ \A p \in DOMAIN subs : DOMAIN subs[p] = {"dhcp", "start", "end"} /\ PoolFits(p, subs[p])

ResvOK(res) ==
    \A m \in DOMAIN res : m \in 1..NMacs /\ res[m].ip \in Addrs /\ PrefixContains(res[m].net, res[m].ip)

AddrsOK(recs) ==
    \A a \in DOMAIN recs : /\ a \in Addrs /\ recs[a].state \in IPStates /\ recs[a].mac \in 0..NMacs
                           /\ PrefixContains(recs[a].net, a)

LeasesOK(ls) == \A a \in DOMAIN ls : a \in Addrs /\ ls[a].mac \in 1..NMacs

StoresOK == SubnetsOK(subnets) /\ ResvOK(resv) /\ AddrsOK(addrs) /\ LeasesOK(leases)

\* A record of an address that the trees can hold.  One that says available
\* is no lease, and only leases are filed under any subnet.
RecordOK(x, ip) ==
    /\ x.state \in IPStates /\ x.mac \in 0..NMacs
    /\ x.state = "available" => PrefixContains(x.net, ip)

Records(seq, n, ip) == seq = [k \in 1..n |-> seq[k]] /\ \A k \in 1..n : RecordOK(seq[k], ip)

LEMMA StoredIs ==
    ASSUME StoresOK, NEW ip PROVE \E n \in Nat : Records(StoredRecords(ip), n, ip)
<1>1. CASE ip \in DOMAIN addrs
  <2>1. StoredRecords(ip) = <<addrs[ip]>>  BY <1>1 DEF StoredRecords
  <2>2. RecordOK(addrs[ip], ip)  BY <1>1 DEF StoresOK, AddrsOK, RecordOK
  <2>3. PICK seq : seq = <<addrs[ip]>>  OBVIOUS
  <2>4. seq = [k \in 1..1 |-> seq[k]] /\ \A k \in 1..1 : seq[k] = addrs[ip]  BY <2>3
  <2>5. Records(seq, 1, ip)  BY <2>2, <2>4 DEF Records
  <2> QED  BY <2>1, <2>3, <2>5
<1>2. CASE ip \notin DOMAIN addrs
  <2>1. StoredRecords(ip) = << >>  BY <1>2 DEF StoredRecords
  <2>2. PICK seq : seq = << >>  OBVIOUS
  <2>3. seq = [k \in 1..0 |-> seq[k]]  BY <2>2
  <2>4. Records(seq, 0, ip)  BY <2>3 DEF Records
  <2> QED  BY <2>1, <2>2, <2>4
<1> QED  BY <1>1, <1>2

Reserving(ip) == {m \in DOMAIN resv : resv[m].ip = ip}

LEMMA ReservingFinite ==
    ASSUME StoresOK, NEW ip
    PROVE  Reserving(ip) \in SUBSET Nat /\ IsFiniteSet(Reserving(ip)) /\ Cardinality(Reserving(ip)) \in Nat
<1>1. DOMAIN resv \in SUBSET (1..NMacs)  BY DEF StoresOK, ResvOK
<1>2. Reserving(ip) \in SUBSET (1..NMacs)  BY <1>1 DEF Reserving
<1>3. IsFiniteSet(1..NMacs)  BY FS_Interval, IpamInputsAssumption
<1>4. IsFiniteSet(Reserving(ip))  BY <1>2, <1>3, FS_Subset
<1>5. Cardinality(Reserving(ip)) \in Nat  BY <1>4, FS_CardinalityType
<1> QED  BY <1>2, <1>4, <1>5

\* Every client that reserves an address is named by one of its records.
LEMMA ReservedIs ==
    ASSUME StoresOK, NEW ip
    PROVE  \E n \in Nat : /\ Records(ReservedRecords(ip), n, ip)
                          /\ \A m \in Reserving(ip) : \E k \in 1..n :
                                ReservedRecords(ip)[k] = [net |-> resv[m].net, state |-> "reserved", mac |-> m]
<1> PICK n \in Nat : n = Cardinality(Reserving(ip))  BY ReservingFinite
<1> DEFINE below(m) == {j \in Reserving(ip) : j < m}
           nth(k) == CHOOSE m \in Reserving(ip) : Cardinality(below(m)) = k - 1
           seq == [k \in 1..n |-> [net |-> resv[nth(k)].net, state |-> "reserved", mac |-> nth(k)]]
<1>1. ReservedRecords(ip) = seq  BY Zenon DEF ReservedRecords, Reserving
<1>2. ASSUME NEW k \in 1..n PROVE nth(k) \in Reserving(ip) /\ Cardinality(below(nth(k))) = k - 1
  <2>1. \E m \in Reserving(ip) : Cardinality(below(m)) = k - 1  BY ReservingFinite, NthExists
  <2> HIDE DEF below
  <2> QED  BY <2>1
<1>3. ASSUME NEW k \in 1..n PROVE RecordOK(seq[k], ip)
  <2>1. nth(k) \in DOMAIN resv /\ resv[nth(k)].ip = ip  BY <1>2 DEF Reserving
  <2>2. PICK m : m = nth(k)  OBVIOUS
  <2>3. m \in 1..NMacs  BY <2>1, <2>2 DEF StoresOK, ResvOK
  <2>4. seq[k] = [net |-> resv[m].net, state |-> "reserved", mac |-> m]  BY <2>2
  <2>5. m \in 0..NMacs  BY <2>3
  <2>6. seq[k].state = "reserved" /\ seq[k].mac = m /\ seq[k].net = resv[m].net  BY <2>4
  <2> HIDE DEF seq
  <2> QED  BY <2>3, <2>5, <2>6 DEF RecordOK, IPStates
<1>4. ASSUME NEW m \in Reserving(ip)
      PROVE  \E k \in 1..n : seq[k] = [net |-> resv[m].net, state |-> "reserved", mac |-> m]
  <2>1. IsFiniteSet(below(m)) /\ below(m) \in SUBSET Reserving(ip) /\ m \notin below(m)
    <3>1. below(m) \in SUBSET Reserving(ip)  OBVIOUS
    <3>2. m \notin below(m)  BY ReservingFinite
    <3> QED  BY <3>1, <3>2, ReservingFinite, FS_Subset
  <2>2. Cardinality(below(m)) \in Nat /\ Cardinality(below(m)) <= n /\ Cardinality(below(m)) # n
    <3> HIDE DEF below
    <3> QED  BY <2>1, ReservingFinite, FS_Subset, FS_CardinalityType
  <2>3. PICK k \in 1..n : Cardinality(below(m)) = k - 1
    <3> PICK c \in Nat : c = Cardinality(below(m))  BY <2>2
    <3>1. c < n  BY <2>2
    <3>2. c + 1 \in 1..n /\ c = (c + 1) - 1  BY <3>1
    <3> QED  BY <3>2
  <2>4. PICK j : j = nth(k)  OBVIOUS
  <2>5. j \in Reserving(ip) /\ Cardinality(below(j)) = Cardinality(below(m))
    <3> HIDE DEF below, nth
    <3> QED  BY <1>2, <2>3, <2>4
  <2>6. j = m
    <3>1. j \in Nat /\ m \in Nat  BY <2>5, ReservingFinite
    <3>2. CASE j < m  
      <4>1. below(j) \in SUBSET below(m) /\ j \in below(m) /\ j \notin below(j)
        <5>1. \A x \in Reserving(ip) : x < j => x < m  BY <3>1, <3>2, ReservingFinite
        <5>2. below(j) \in SUBSET below(m)  BY <5>1
        <5>3. j \in Reserving(ip)  BY <2>5
        <5>4. j \in below(m)  BY <3>2, <5>3
        <5>5. ~(j < j)  BY <3>1
        <5>6. j \notin below(j)  BY <5>5
        <5> QED  BY <5>2, <5>4, <5>6
      <4> HIDE DEF below
      <4> QED  BY <2>1, <2>5, <4>1, FS_Subset
    <3>3. CASE m < j
      <4>1. below(m) \in SUBSET below(j) /\ m \in below(j) /\ m \notin below(m)
        <5>1. \A x \in Reserving(ip) : x < m => x < j  BY <3>1, <3>3, ReservingFinite
        <5>2. below(m) \in SUBSET below(j)  BY <5>1
        <5>3. m \in Reserving(ip)  BY <2>5
        <5>4. m \in below(j)  BY <3>3, <5>3
        <5>5. ~(m < m)  BY <3>1
        <5>6. m \notin below(m)  BY <5>5
        <5> QED  BY <5>2, <5>4, <5>6
      <4>2. below(j) \in SUBSET Reserving(ip)  OBVIOUS
      <4> HIDE DEF below
      <4> QED  BY <2>5, <4>1, <4>2, ReservingFinite, FS_Subset
    <3> QED  BY <3>1, <3>2, <3>3
  <2>7. seq[k] = [net |-> resv[nth(k)].net, state |-> "reserved", mac |-> nth(k)]  OBVIOUS
  <2> HIDE DEF seq, nth
  <2> QED  BY <2>4, <2>6, <2>7
<1>5. seq = [k \in 1..n |-> seq[k]]  OBVIOUS
<1>6. Records(seq, n, ip)
  <2> HIDE DEF seq
  <2> QED  BY <1>3, <1>5, Zenon DEF Records
<1> HIDE DEF seq
<1> QED  BY <1>1, <1>4, <1>6

LEMMA LeasedIs ==
    ASSUME StoresOK, NEW ip PROVE \E n \in Nat : Records(LeaseRecords(ip), n, ip)
<1>1. CASE ip \in DOMAIN leases
  <2>1. PICK x : x = [net |-> LeaseNet(ip), state |-> LeaseToIPState(leases[ip].state), mac |-> leases[ip].mac]
    OBVIOUS
  <2>2. LeaseRecords(ip) = <<x>>  BY <1>1, <2>1 DEF LeaseRecords
  <2>3. PICK l : l = leases[ip]  OBVIOUS
  <2>4. l.mac \in 0..NMacs  BY <1>1, <2>3 DEF StoresOK, LeasesOK
  <2>5. LeaseToIPState(l.state) \in IPStates /\ LeaseToIPState(l.state) # "available"  BY DEF LeaseToIPState, IPStates
  <2>8. x.state = LeaseToIPState(l.state) /\ x.mac = l.mac  BY <2>1, <2>3
  <2>9. RecordOK(x, ip)  BY <2>4, <2>5, <2>8 DEF RecordOK
  <2>10. PICK seq : seq = <<x>>  OBVIOUS
  <2>11. seq = [k \in 1..1 |-> seq[k]] /\ \A k \in 1..1 : seq[k] = x  BY <2>10
  <2>12. Records(seq, 1, ip)  BY <2>9, <2>11 DEF Records
  <2> QED  BY <2>2, <2>10, <2>12
<1>2. CASE ip \notin DOMAIN leases
  <2>1. LeaseRecords(ip) = << >>  BY <1>2 DEF LeaseRecords
  <2>2. PICK seq : seq = << >>  OBVIOUS
  <2>3. seq = [k \in 1..0 |-> seq[k]]  BY <2>2
  <2>4. Records(seq, 0, ip)  BY <2>3 DEF Records
  <2> QED  BY <2>1, <2>2, <2>4
<1> QED  BY <1>1, <1>2

\* One list of records after the other.
Cat(s, t) == s \o t
\* The m elements of s are elements of u, which has n.
Among(s, m, u, n) == \A k \in 1..m : \E j \in 1..n : u[j] = s[k]

LEMMA Joined ==
    ASSUME NEW ip, NEW m \in Nat, NEW n \in Nat, NEW s, NEW t, NEW u, Records(s, m, ip), Records(t, n, ip), u = Cat(s, t)
    PROVE  /\ Records(u, m + n, ip)
           /\ Among(s, m, u, m + n) /\ Among(t, n, u, m + n)
<1>1. s = [k \in 1..m |-> s[k]] /\ t = [k \in 1..n |-> t[k]]  BY DEF Records
<1>2. /\ s \o t = [k \in 1..(m + n) |-> (s \o t)[k]]
      /\ \A k \in 1..(m + n) : (s \o t)[k] = IF k <= m THEN s[k] ELSE t[k - m]
  BY <1>1, ConcatIs
<1>4. u = [k \in 1..(m + n) |-> u[k]] /\ \A k \in 1..(m + n) : u[k] = IF k <= m THEN s[k] ELSE t[k - m]
  BY <1>2, Zenon DEF Cat
<1>5. \A k \in 1..(m + n) : IF k <= m THEN k \in 1..m ELSE k - m \in 1..n  OBVIOUS
<1>6. \A k \in 1..(m + n) : RecordOK(u[k], ip)  BY <1>4, <1>5 DEF Records
<1>7. Records(u, m + n, ip)  BY <1>4, <1>6, Zenon DEF Records
<1>8. \A k \in 1..m : k \in 1..(m + n) /\ u[k] = s[k]  BY <1>4
<1>9. \A k \in 1..n : m + k \in 1..(m + n) /\ u[m + k] = t[k]
  <2> SUFFICES ASSUME NEW k \in 1..n PROVE m + k \in 1..(m + n) /\ u[m + k] = t[k]  OBVIOUS
  <2>1. m + k \in 1..(m + n) /\ ~(m + k <= m) /\ (m + k) - m = k  OBVIOUS
  <2> QED  BY <1>4, <2>1
<1>10. ASSUME NEW k \in 1..m PROVE \E j \in 1..(m + n) : u[j] = s[k]  BY <1>8
<1>11. ASSUME NEW k \in 1..n PROVE \E j \in 1..(m + n) : u[j] = t[k]  BY <1>9
<1>12. Among(s, m, u, m + n)  BY <1>10 DEF Among
<1>13. Among(t, n, u, m + n)  BY <1>11 DEF Among
<1> QED  BY <1>7, <1>12, <1>13

Length(w, n) == DOMAIN w = 1..n

\* Three lists one after the other.
LEMMA JoinedThree ==
    ASSUME NEW ip, NEW a \in Nat, NEW b \in Nat, NEW c \in Nat, NEW s, NEW t, NEW l, NEW w,
           Records(s, a, ip), Records(t, b, ip), Records(l, c, ip), w = Cat(Cat(s, t), l)
    PROVE  \E n \in Nat : /\ Length(w, n)
                          /\ Among(s, a, w, n) /\ Among(t, b, w, n) /\ Among(l, c, w, n)
<1>1. PICK u : u = Cat(s, t)  OBVIOUS
<1>2. PICK d \in Nat : d = a + b  OBVIOUS
<1>3. Records(u, d, ip) /\ Among(s, a, u, d) /\ Among(t, b, u, d)  BY <1>1, <1>2, Joined
<1>4. w = Cat(u, l)  BY <1>1
<1>5. PICK e \in Nat : e = d + c  OBVIOUS
<1>6. Records(w, e, ip) /\ Among(u, d, w, e) /\ Among(l, c, w, e)  BY <1>3, <1>4, <1>5, Joined
<1>7. DOMAIN w = 1..e
  <2>1. w = [k \in 1..e |-> w[k]]  BY <1>6 DEF Records
  <2> QED  BY <2>1
<1>8. \A f, m : Among(f, m, u, d) => Among(f, m, w, e)
  <2> SUFFICES ASSUME NEW f, NEW m, Among(f, m, u, d), NEW k \in 1..m PROVE \E j \in 1..e : w[j] = f[k]  BY DEF Among
  <2>1. PICK i \in 1..d : u[i] = f[k]  BY DEF Among
  <2>2. PICK j \in 1..e : w[j] = u[i]  BY <1>6 DEF Among
  <2> QED  BY <2>1, <2>2
<1>9. Length(w, e)  BY <1>7 DEF Length
<1> QED  BY <1>3, <1>6, <1>8, <1>9

LEMMA RecordsAre ==
    ASSUME StoresOK, NEW ip PROVE \E n \in Nat : Records(RecordsOf(ip), n, ip)
<1>1. PICK a \in Nat, b \in Nat, c \in Nat :
          Records(StoredRecords(ip), a, ip) /\ Records(ReservedRecords(ip), b, ip) /\ Records(LeaseRecords(ip), c, ip)
  BY StoredIs, ReservedIs, LeasedIs, Zenon
<1>2. Records(Cat(StoredRecords(ip), ReservedRecords(ip)), a + b, ip)  BY <1>1, Joined
<1>3. a + b \in Nat /\ (a + b) + c \in Nat  OBVIOUS
<1>4. Records(Cat(Cat(StoredRecords(ip), ReservedRecords(ip)), LeaseRecords(ip)), (a + b) + c, ip)
  BY <1>1, <1>2, <1>3, Joined
<1>5. RecordsOf(ip) = Cat(Cat(StoredRecords(ip), ReservedRecords(ip)), LeaseRecords(ip))  BY DEF RecordsOf, Cat
<1> QED  BY <1>3, <1>4, <1>5

LEMMA ListedIs ==
    ASSUME StoresOK, NEW net \in Nets, NEW ip \in Addrs
    PROVE  LET c == ListAddresses(net)[ip]
               kept == MergeOf(net, RecordsOf(ip))
           IN  /\ c = NoRec \/ c.state \in IPStates
               /\ ip \in PoolFill(net) => c.state \in IPStates
               /\ c.state = "available" => kept = NoRec \/ kept.state = "available"
               /\ c.state = "available" => ip \in PoolFill(net) \/ kept # NoRec
<1> PICK kept : kept = MergeOf(net, RecordsOf(ip))  OBVIOUS
<1> PICK c : c = ListAddresses(net)[ip]  OBVIOUS
<1>1. c = IF kept = NoRec /\ ip \in PoolFill(net) THEN [net |-> net, state |-> "available", mac |-> NoMac] ELSE kept
  BY DEF ListAddresses
<1>2. Shown(kept)
  <2>1. PICK n \in Nat : Records(RecordsOf(ip), n, ip)  BY RecordsAre
  <2>2. DOMAIN RecordsOf(ip) = 1..n /\ \A k \in 1..n : RecordsOf(ip)[k].state \in IPStates
    BY <2>1 DEF Records, RecordOK
  <2> QED  BY <2>2, MergedShown
<1>3. NoRec.state = "none"  BY DEF NoRec
<1>4. CASE kept = NoRec /\ ip \in PoolFill(net)
  <2>1. c.state = "available"  BY <1>1, <1>4
  <2> QED  BY <1>4, <2>1 DEF IPStates
<1>5. CASE ~(kept = NoRec /\ ip \in PoolFill(net))
  <2>1. c = kept  BY <1>1, <1>5
  <2> QED  BY <1>2, <1>3, <1>5, <2>1 DEF Shown
<1> QED  BY <1>4, <1>5

\* Every record of an address is among those that are merged.
LEMMA RecordsFound ==
    ASSUME StoresOK, NEW ip
    PROVE  /\ ip \in DOMAIN addrs => \E k \in DOMAIN RecordsOf(ip) : RecordsOf(ip)[k] = addrs[ip]
           /\ \A m \in Reserving(ip) : \E k \in DOMAIN RecordsOf(ip) :
                  RecordsOf(ip)[k].net = resv[m].net /\ RecordsOf(ip)[k].state = "reserved"
           /\ ip \in DOMAIN leases => \E k \in DOMAIN RecordsOf(ip) :
                  RecordsOf(ip)[k].net = LeaseNet(ip) /\ RecordsOf(ip)[k].state # "available"
<1> PICK s, t, l, w : /\ s = StoredRecords(ip) /\ t = ReservedRecords(ip) /\ l = LeaseRecords(ip)
                      /\ w = Cat(Cat(s, t), l)
  OBVIOUS
<1>1. PICK a \in Nat, c \in Nat : Records(s, a, ip) /\ Records(l, c, ip)  BY StoredIs, LeasedIs, Zenon
<1>2. PICK b \in Nat : /\ Records(t, b, ip)
                       /\ \A m \in Reserving(ip) : \E k \in 1..b :
                             t[k] = [net |-> resv[m].net, state |-> "reserved", mac |-> m]
  BY ReservedIs, ZenonT(40)
<1>7. RecordsOf(ip) = w  BY DEF RecordsOf, Cat
<1>10. PICK n \in Nat : /\ Length(w, n)
                        /\ Among(s, a, w, n) /\ Among(t, b, w, n) /\ Among(l, c, w, n)
  <2>1. Records(s, a, ip) /\ Records(t, b, ip) /\ Records(l, c, ip) /\ w = Cat(Cat(s, t), l)  BY <1>1, <1>2
  <2> QED  BY <2>1, JoinedThree
<1>11. ip \in DOMAIN addrs => \E k \in DOMAIN w : w[k] = addrs[ip]
  <2> SUFFICES ASSUME ip \in DOMAIN addrs PROVE \E k \in DOMAIN w : w[k] = addrs[ip]  OBVIOUS
  <2>1. s = <<addrs[ip]>>  BY DEF StoredRecords
  <2>2. DOMAIN s = 1..a
    <3>1. s = [k \in 1..a |-> s[k]]  BY <1>1 DEF Records
    <3> QED  BY <3>1
  <2>3. 1 \in 1..a /\ s[1] = addrs[ip]  BY <2>1, <2>2
  <2>4. PICK j \in DOMAIN w : w[j] = s[1]  BY <1>10, <2>3 DEF Among, Length
  <2> QED  BY <2>3, <2>4
<1>12. ASSUME NEW m \in Reserving(ip)
       PROVE  \E k \in DOMAIN w : w[k].net = resv[m].net /\ w[k].state = "reserved"
  <2>1. PICK k \in 1..b : t[k] = [net |-> resv[m].net, state |-> "reserved", mac |-> m]  BY <1>2
  <2>2. t[k].net = resv[m].net /\ t[k].state = "reserved"  BY <2>1
  <2>3. PICK j \in DOMAIN w : w[j] = t[k]  BY <1>10 DEF Among, Length
  <2> QED  BY <2>2, <2>3
<1>13. ip \in DOMAIN leases => \E k \in DOMAIN w : w[k].net = LeaseNet(ip) /\ w[k].state # "available"
  <2> SUFFICES ASSUME ip \in DOMAIN leases
               PROVE  \E k \in DOMAIN w : w[k].net = LeaseNet(ip) /\ w[k].state # "available"
    OBVIOUS
  <2>1. PICK x : x = [net |-> LeaseNet(ip), state |-> LeaseToIPState(leases[ip].state), mac |-> leases[ip].mac]
    OBVIOUS
  <2>2. l = <<x>>  BY <2>1 DEF LeaseRecords
  <2>3. DOMAIN l = 1..c
    <3>1. l = [k \in 1..c |-> l[k]]  BY <1>1 DEF Records
    <3> QED  BY <3>1
  <2>4. 1 \in 1..c /\ l[1] = x  BY <2>2, <2>3
  <2>5. PICK j \in DOMAIN w : w[j] = l[1]  BY <1>10, <2>4 DEF Among, Length
  <2>6. LeaseToIPState(leases[ip].state) # "available"  BY DEF LeaseToIPState
  <2>7. x.net = LeaseNet(ip) /\ x.state # "available"  BY <2>1, <2>6
  <2> QED  BY <2>4, <2>5, <2>7
<1> QED  BY <1>7, <1>11, <1>12, <1>13

\* An address that is listed as available lies in the subnet, and its records
\* that are filed under the subnet say so too.
LEMMA AvailableIsFree ==
    ASSUME StoresOK, NEW net \in Nets, NEW ip \in Addrs, ListAddresses(net)[ip].state = "available"
    PROVE  /\ PrefixContains(net, ip)
           /\ \A k \in DOMAIN RecordsOf(ip) : RecordsOf(ip)[k].net = net => RecordsOf(ip)[k].state = "available"
<1>1. PICK len \in Nat : Records(RecordsOf(ip), len, ip)  BY RecordsAre
<1>2. DOMAIN RecordsOf(ip) = 1..len /\ \A j \in 1..len : RecordOK(RecordsOf(ip)[j], ip)  BY <1>1 DEF Records
<1>3. \A j \in 1..len : RecordsOf(ip)[j].state \in IPStates  BY <1>2 DEF RecordOK
<1> PICK kept : kept = MergeOf(net, RecordsOf(ip))  OBVIOUS
<1>4. /\ \A j \in 1..len : RecordsOf(ip)[j].net = net =>
            kept # NoRec /\ (kept.state = "available" => RecordsOf(ip)[j].state = "available")
      /\ kept = NoRec \/ \E j \in 1..len : RecordsOf(ip)[j].net = net
  <2>1. PICK seq : seq = RecordsOf(ip)  OBVIOUS
  <2>2. DOMAIN seq = 1..len /\ \A j \in 1..len : seq[j].state \in IPStates  BY <1>2, <1>3, <2>1
  <2>3. kept = MergeOf(net, seq)  BY <2>1
  <2>4. /\ \A j \in 1..len : seq[j].net = net => kept # NoRec /\ (kept.state = "available" => seq[j].state = "available")
        /\ kept = NoRec \/ \E j \in 1..len : seq[j].net = net
    BY <2>2, <2>3, MergedShown
  <2> QED  BY <2>1, <2>4
<1>5. (kept = NoRec \/ kept.state = "available") /\ (ip \in PoolFill(net) \/ kept # NoRec)  BY ListedIs
<1>6. \A j \in 1..len : RecordsOf(ip)[j].net = net => RecordsOf(ip)[j].state = "available"  BY <1>4, <1>5
<1>7. Cidr(net)  BY DEF StoresOK, SubnetsOK, NetsFine, Nets
<1>8. PrefixContains(net, ip)
  <2>1. CASE kept # NoRec
    <3>1. PICK j \in 1..len : RecordsOf(ip)[j].net = net  BY <1>4, <2>1
    <3>2. RecordsOf(ip)[j].state = "available"  BY <1>6, <3>1
    <3> QED  BY <1>2, <3>1, <3>2 DEF RecordOK
  <2>2. CASE ip \in PoolFill(net)
    <3> PICK s : s = subnets[net]  OBVIOUS
    <3>1. PoolFits(net, s)  BY DEF StoresOK, SubnetsOK, Nets
    <3>2. s.dhcp = TRUE /\ s.start <= ip /\ ip <= s.end  BY <2>2, <3>1 DEF PoolFill, PoolFits
    <3>3. s.start \in Addrs /\ s.end \in Addrs /\ PrefixContains(net, s.start) /\ PrefixContains(net, s.end)
      BY <3>1, <3>2 DEF PoolFits
    <3>4. Masked(net).addr \in Nat /\ AddressCount(net) \in Nat  BY <1>7, MaskedIs, CountPos
    <3> QED  BY <3>2, <3>3, <3>4 DEF PrefixContains, Addrs
  <2> QED  BY <1>5, <2>1, <2>2
<1> QED  BY <1>2, <1>6, <1>8

\* Two stored subnets around one address have raced.
LEMMA AroundRaced ==
    ASSUME StoresOK, SubnetsDisjoint, NEW net \in Nets, NEW n \in Nets, n # net, NEW ip \in Addrs,
           PrefixContains(net, ip), PrefixContains(n, ip)
    PROVE  {n, net} \cap racedNets # {}
<1>1. Cidr(n) /\ Cidr(net)  BY DEF StoresOK, SubnetsOK, NetsFine, Nets
<1>2. ip \in Nat  BY DEF Addrs
<1>3. Overlaps(n, net)  BY <1>1, <1>2, HoldBoth
<1>4. n \in racedNets \/ net \in racedNets  BY <1>3, Zenon DEF SubnetsDisjoint
<1> QED  BY <1>4

\* The subnets that reservations, records and the requests at their put name
\* were stored when they were looked up: they are still, or were deleted.
Filed == Nets \cup dropped
ResFiled(res, F) == \A m \in DOMAIN res : res[m].net \in F
RecFiled(recs, F) == \A a \in DOMAIN recs : recs[a].net \in F
CallFiled(c, F) == c.pc \in {"taken", "putReservation"} => c.net \in F
CallsFiled(cs, F) == \A r \in IpamCallers : CallFiled(cs[r], F)

FiledInv == ResFiled(resv, Filed) /\ RecFiled(addrs, Filed) /\ CallsFiled(calls, Filed)

LEMMA ProposalsFree == ASSUME StoresOK, FiledInv, SubnetsDisjoint PROVE ProposesFree
<1> DEFINE Free(net, ip) ==
               /\ ip \in DOMAIN addrs /\ addrs[ip].state # "available" =>
                      addrs[ip].net \in dropped \/ {addrs[ip].net, net} \cap racedNets # {}
               /\ \A m \in DOMAIN resv : resv[m].ip = ip =>
                      resv[m].net \in dropped \/ {resv[m].net, net} \cap racedNets # {}
               /\ ip \in DOMAIN leases => Misfiled(ip) \/ {LeaseNet(ip), net} \cap racedNets # {}
<1>1. ASSUME NEW net \in Nets, NEW ip \in Addrs, ListAddresses(net)[ip].state = "available" PROVE Free(net, ip)
  <2>1. /\ PrefixContains(net, ip)
        /\ \A k \in DOMAIN RecordsOf(ip) : RecordsOf(ip)[k].net = net => RecordsOf(ip)[k].state = "available"
    BY <1>1, AvailableIsFree
  <2>2. \A n \in Nets : n # net /\ PrefixContains(n, ip) => {n, net} \cap racedNets # {}
    BY <2>1, AroundRaced
  <2>3. ASSUME ip \in DOMAIN addrs, addrs[ip].state # "available"
        PROVE  addrs[ip].net \in dropped \/ {addrs[ip].net, net} \cap racedNets # {}
    <3>1. PICK n : n = addrs[ip].net  OBVIOUS
    <3>2. n \in Nets \/ n \in dropped  BY <2>3, <3>1 DEF FiledInv, RecFiled, Filed
    <3>3. PrefixContains(n, ip)  BY <2>3, <3>1 DEF StoresOK, AddrsOK
    <3>4. n # net  BY <2>1, <2>3, <3>1, RecordsFound
    <3> QED  BY <2>2, <3>1, <3>2, <3>3, <3>4
  <2>4. ASSUME NEW m \in DOMAIN resv, resv[m].ip = ip
        PROVE  resv[m].net \in dropped \/ {resv[m].net, net} \cap racedNets # {}
    <3>1. PICK n : n = resv[m].net  OBVIOUS
    <3>2. n \in Nets \/ n \in dropped  BY <3>1 DEF FiledInv, ResFiled, Filed
    <3>3. PrefixContains(n, ip)  BY <2>4, <3>1 DEF StoresOK, ResvOK
    <3>4. n # net
      <4>1. m \in Reserving(ip)  BY <2>4 DEF Reserving
      <4>2. PICK k \in DOMAIN RecordsOf(ip) : RecordsOf(ip)[k].net = n /\ RecordsOf(ip)[k].state = "reserved"
        BY <3>1, <4>1, RecordsFound
      <4> QED  BY <2>1, <4>2
    <3> QED  BY <2>2, <3>1, <3>2, <3>3, <3>4
  <2>5. ASSUME ip \in DOMAIN leases, ~Misfiled(ip) PROVE {LeaseNet(ip), net} \cap racedNets # {}
    <3>1. PICK n : n = LeaseNet(ip)  OBVIOUS
    <3>2. n \in Nets /\ PrefixContains(n, ip)
      <4>1. CASE leases[ip].net = NoNet
        <5>1. n = InferSubnet(ip, Nets)  BY <3>1, <4>1 DEF LeaseNet
        <5>2. \A p \in Nets : Cidr(p)  BY DEF StoresOK, SubnetsOK, NetsFine, Nets
        <5> QED  BY <2>1, <5>1, <5>2, InferIs
      <4>2. CASE leases[ip].net # NoNet
        <5>1. n = leases[ip].net  BY <3>1, <4>2 DEF LeaseNet
        <5> QED  BY <2>5, <4>2, <5>1 DEF Misfiled
      <4> QED  BY <4>1, <4>2
    <3>3. n # net
      <4>1. PICK k \in DOMAIN RecordsOf(ip) : RecordsOf(ip)[k].net = n /\ RecordsOf(ip)[k].state # "available"
        BY <2>5, <3>1, RecordsFound
      <4> QED  BY <2>1, <4>1
    <3> QED  BY <2>2, <3>1, <3>2, <3>3
  <2> QED  BY <2>3, <2>4, <2>5
<1> SUFFICES ASSUME NEW net \in Nets, NextAvailable(ListAddresses(net)) # NoAddr
             PROVE  Free(net, NextAvailable(ListAddresses(net)))
  BY Zenon DEF ProposesFree
<1> PICK list : list = ListAddresses(net)  OBVIOUS
<1> PICK ip : ip = NextAvailable(list)  OBVIOUS
<1> DEFINE free == {a \in Addrs : list[a].state = "available"}
<1>2. free # {}  BY DEF NextAvailable
<1>3. ip = Min(free)  BY <1>2 DEF NextAvailable
<1>4. free \in SUBSET Nat  BY DEF Addrs
<1>5. ip \in free
  <2> HIDE DEF free
  <2> QED  BY <1>2, <1>3, <1>4, MinIs
<1>6. ip \in Addrs /\ ListAddresses(net)[ip].state = "available"  BY <1>5
<1> HIDE DEF Free
<1> QED  BY <1>1, <1>6

\* Two sets that split a finite one.
LEMMA SplitCount ==
    ASSUME NEW S, IsFiniteSet(S), NEW T, IsFiniteSet(T), T \in SUBSET S
    PROVE  /\ Cardinality(S) = Cardinality(T) + Cardinality(S \ T)
           /\ Cardinality(T) \in Nat /\ Cardinality(S \ T) \in Nat
<1>1. IsFiniteSet(S \ T)  BY FS_Subset
<1>2. T \cup (S \ T) = S /\ T \cap (S \ T) = {}  OBVIOUS
<1>3. Cardinality({}) = 0  BY FS_EmptySet
<1>4. Cardinality(T) \in Nat /\ Cardinality(S \ T) \in Nat  BY <1>1, FS_CardinalityType
<1> QED  BY <1>1, <1>2, <1>3, <1>4, FS_Union

LEMMA CapacityIsListed == ASSUME StoresOK PROVE AvailabilityAgrees
<1> SUFFICES ASSUME NEW net \in Nets
             PROVE  LET s == subnets[net]
                        list == ListAddresses(net)
                    IN  s.dhcp /\ s.end - s.start < IpamMaxFill =>
                            CapacityAvailable(s, list) = Cardinality({a \in s.start..s.end : list[a].state = "available"})
  BY Zenon DEF AvailabilityAgrees
<1> PICK s : s = subnets[net]  OBVIOUS
<1> PICK list : list = ListAddresses(net)  OBVIOUS
<1> SUFFICES ASSUME s.dhcp, s.end - s.start < IpamMaxFill
             PROVE  CapacityAvailable(s, list) = Cardinality({a \in s.start..s.end : list[a].state = "available"})
  OBVIOUS
<1>1. PoolFits(net, s)  BY DEF StoresOK, SubnetsOK, Nets
<1>2. s.dhcp = TRUE /\ s.start \in Addrs /\ s.end \in Addrs /\ s.start <= s.end  BY <1>1 DEF PoolFits
<1> PICK lo \in Nat, hi \in Nat : lo = s.start /\ hi = s.end  BY <1>2 DEF Addrs
<1>3. lo <= hi /\ lo..hi \in SUBSET Addrs
  <2>1. Pow2[IpamBits] \in Nat  BY Pow2Pos, IpamInputsAssumption
  <2>2. \A a \in lo..hi : a \in Addrs  BY <1>2, <2>1 DEF Addrs
  <2> QED  BY <1>2, <2>2
<1> DEFINE avail == {a \in lo..hi : list[a].state = "available"}
           used == {a \in lo..hi : list[a].state \notin {"none", "available"}}
<1>4. used = (lo..hi) \ avail
  <2>1. ASSUME NEW a \in lo..hi PROVE list[a].state \in IPStates
    <3>1. a \in PoolFill(net)  BY <1>2, <1>3, IpamInputsAssumption DEF PoolFill
    <3> QED  BY <1>3, <3>1, ListedIs
  <2>2. "none" \notin IPStates  BY DEF IPStates
  <2> QED  BY <2>1, <2>2
<1>5. IsFiniteSet(lo..hi) /\ Cardinality(lo..hi) = hi - lo + 1
  <2>1. lo \in Int /\ hi \in Int /\ ~(lo > hi)  BY <1>3
  <2>2. Cardinality(lo..hi) = IF lo > hi THEN 0 ELSE hi - lo + 1  BY <2>1, FS_Interval
  <2>3. IsFiniteSet(lo..hi)  BY <2>1, FS_Interval
  <2> QED  BY <2>1, <2>2, <2>3
<1>6. avail \in SUBSET (lo..hi)  OBVIOUS
<1>7. /\ Cardinality(lo..hi) = Cardinality(avail) + Cardinality(used)
      /\ Cardinality(avail) \in Nat /\ Cardinality(used) \in Nat
  <2> PICK S, T, D : S = lo..hi /\ T = avail /\ D = used  OBVIOUS
  <2> HIDE DEF avail, used
  <2>1. IsFiniteSet(S) /\ T \in SUBSET S /\ D = S \ T  BY <1>4, <1>5, <1>6
  <2>2. IsFiniteSet(T)  BY <2>1, FS_Subset
  <2>3. Cardinality(S) = Cardinality(T) + Cardinality(S \ T) /\ Cardinality(T) \in Nat /\ Cardinality(S \ T) \in Nat
    BY <2>1, <2>2, SplitCount
  <2> QED  BY <2>1, <2>3
<1>8. CapacityAvailable(s, list) = IF (hi - lo + 1) - Cardinality(used) < 0 THEN 0 ELSE (hi - lo + 1) - Cardinality(used)
  BY Zenon DEF CapacityAvailable
<1>9. CapacityAvailable(s, list) = Cardinality(avail)
  <2> HIDE DEF avail, used
  <2> QED  BY <1>5, <1>7, <1>8
<1> QED  BY <1>9

LEMMA Listings == ASSUME StoresOK, FiledInv, SubnetsDisjoint PROVE ListingRight
BY ProposalsFree, CapacityIsListed DEF ListingRight

(***************************************************************************)
(* Double bookings.  A request between its validation and its put that has *)
(* crossed no other put knows that its record still fits.                  *)
(***************************************************************************)
Clear(k, nets) == \A p \in nets : p # k => ~Overlaps(p, k)
Disjoint(nets, raced) == \A p, q \in nets : p # q /\ Overlaps(p, q) => p \in raced \/ q \in raced

TakenBy(mac, ip, res) == \E m \in DOMAIN res \ {mac} : res[m].ip = ip
OnceEach(res, raced) ==
    \A m, n \in DOMAIN res : m # n /\ res[m].ip = res[n].ip => m \in raced \/ n \in raced

CallOK(c, nets, res) ==
    /\ c.pc = "putSubnet" =>
          /\ {"pc", "in", "crossed"} \subseteq DOMAIN c /\ c.crossed \in BOOLEAN
          /\ (c.crossed = FALSE => Clear(KeyOf(c.in), nets))
    /\ c.pc = "putReservation" =>
          /\ {"pc", "mac", "ip", "crossed"} \subseteq DOMAIN c /\ c.crossed \in BOOLEAN
          /\ (c.crossed = FALSE => ~TakenBy(c.mac, c.ip, res))
    /\ c.pc \in Releasing => {"pc", "crossed"} \subseteq DOMAIN c

\* Imports run before the interfaces are there.
CallsOK(cs, nets, res, m) ==
    /\ \A r \in IpamCallers : CallOK(cs[r], nets, res)
    /\ m = "import" => \A r \in IpamCallers : cs[r] = Idle
    /\ cs = [r \in IpamCallers |-> cs[r]]

BookInv ==
    /\ CallsOK(calls, Nets, resv, mode)
    /\ Disjoint(Nets, racedNets)
    /\ OnceEach(resv, racedRes)

LEMMA ClearedJoins ==
    ASSUME NEW nets, NEW raced, NEW k, Disjoint(nets, raced), Clear(k, nets)
    PROVE  Disjoint(nets \cup {k}, raced \ {k}) /\ Disjoint(nets \cup {k}, raced)
  BY OverlapsSym, Zenon DEF Disjoint, Clear

LEMMA RacedJoins ==
    ASSUME NEW nets, NEW raced, NEW k, Disjoint(nets, raced)
    PROVE  Disjoint(nets \cup {k}, raced \cup {k})
  BY Zenon DEF Disjoint

LEMMA RemovedLeaves ==
    ASSUME NEW nets, NEW raced, NEW k, Disjoint(nets, raced)
    PROVE  Disjoint(nets \ {k}, raced \ {k})
  BY Zenon DEF Disjoint

LEMMA FitsIsClear ==
    ASSUME NEW i, NEW nets, SubnetFits(i, nets)
    PROVE  Clear(KeyOf(i), nets)
  <1>1. Masked(i) = KeyOf(i) BY DEF Masked, KeyOf, CidrOf, AddressCount
  <1> QED BY <1>1, Zenon DEF SubnetFits, Clear

LEMMA WithDomain == ASSUME NEW f, NEW x, NEW v PROVE DOMAIN With(f, x, v) = DOMAIN f \cup {x}
  BY DEF With
LEMMA WithoutDomain == ASSUME NEW f, NEW x PROVE DOMAIN Without(f, x) = DOMAIN f \ {x}
  BY DEF Without

LEMMA WithKeepsOnce ==
    ASSUME NEW f, NEW m, NEW ip, NEW v, NEW raced, OnceEach(f, raced), v.ip = ip
    PROVE  /\ OnceEach(With(f, m, v), raced \cup {m})
           /\ ~TakenBy(m, ip, f) => OnceEach(With(f, m, v), raced \ {m}) /\ OnceEach(With(f, m, v), raced)
  BY DEF With, OnceEach, TakenBy

LEMMA WithoutKeepsOnce ==
    ASSUME NEW f, NEW m, NEW raced, OnceEach(f, raced)
    PROVE  OnceEach(Without(f, m), raced \ {m})
  BY DEF Without, OnceEach
LEMMA WithoutFrees ==
    ASSUME NEW f, NEW m, NEW x, NEW ip, ~TakenBy(x, ip, f)
    PROVE  ~TakenBy(x, ip, Without(f, m))
  BY DEF Without, TakenBy

LEMMA Booked == ASSUME BookInv PROVE NoDoubleBooking
  BY Zenon DEF BookInv, NoDoubleBooking, SubnetsDisjoint, ReservedOnce, Disjoint, OnceEach

-----------------------------------------------------------------------------
(* Requests move.                                                          *)

LEMMA OneMoves ==
    ASSUME NEW nets, NEW res, NEW m, NEW cs, NEW cs2, NEW r \in IpamCallers, NEW n,
           CallsOK(cs, nets, res, m), m # "import", cs2 = [cs EXCEPT ![r] = n], CallOK(n, nets, res)
    PROVE  CallsOK(cs2, nets, res, m)
  <1>1. \A q \in IpamCallers : cs2[q] = n \/ cs2[q] = cs[q] BY DEF CallsOK
  <1>2. cs2 = [q \in IpamCallers |-> cs2[q]] BY DEF CallsOK
  <1>3. \A q \in IpamCallers : CallOK(cs[q], nets, res) BY Zenon DEF CallsOK
  <1>4. \A q \in IpamCallers : CallOK(cs2[q], nets, res) BY <1>1, <1>3, Zenon
  <1> QED BY <1>2, <1>4, Zenon DEF CallsOK

LEMMA CallMoves ==
    ASSUME BookInv, NEW r \in IpamCallers, NEW n, mode # "import", CallOK(n, Nets, resv),
           calls' = [calls EXCEPT ![r] = n], UNCHANGED <<subnets, resv, mode, racedNets, racedRes>>
    PROVE  BookInv'
  <1> DEFINE cs2 == calls'
  <1>1. PICK x : x = calls' OBVIOUS
  <1>2. CallsOK(x, Nets, resv, mode) BY <1>1, OneMoves, Zenon DEF BookInv
  <1>3. Nets' = Nets /\ resv' = resv /\ mode' = mode /\ racedNets' = racedNets /\ racedRes' = racedRes BY DEF Nets
  <1> QED BY <1>1, <1>2, <1>3 DEF BookInv

Harmless == {"idle", "audit", "taken"}
LEMMA HarmlessOK == ASSUME NEW c, c.pc \in Harmless, NEW nets, NEW res PROVE CallOK(c, nets, res)
  BY DEF CallOK, Harmless, Releasing

LEMMA AfterPutOK == ASSUME NEW via PROVE AfterPut(via).pc \in Harmless
  BY DEF AfterPut, Harmless, Idle

LEMMA Serving == ASSUME BookInv, NEW r \in IpamCallers, calls[r].pc # "idle" PROVE mode # "import"
  BY DEF BookInv, CallsOK, Idle

\* A request that misses a change needs no longer fit.
LEMMA CrossedOK ==
    ASSUME NEW c, NEW d, NEW nets, NEW res, CallOK(c, nets, res), c.pc \in Releasing \cup {"putSubnet", "putReservation"},
           d = [c EXCEPT !.crossed = TRUE]
    PROVE  /\ d.pc = c.pc
           /\ \A n, x : CallOK(d, n, x)
  <1>1. {"pc", "crossed"} \subseteq DOMAIN c BY DEF CallOK
  <1>2. d.pc = c.pc /\ d.crossed = TRUE /\ DOMAIN d = DOMAIN c BY <1>1
  <1> QED BY <1>2 DEF CallOK, Releasing

Warned(c, pcs) == IF c.pc \in pcs THEN [c EXCEPT !.crossed = TRUE] ELSE c

LEMMA CrossesWarns == ASSUME NEW pcs PROVE Crosses(pcs) = [q \in IpamCallers |-> Warned(calls[q], pcs)]
  BY DEF Crosses, Warned

\* More subnets: the requests at their put have crossed.
LEMMA NetsGrow ==
    ASSUME NEW c, NEW d, NEW nets, NEW nets2, NEW res, CallOK(c, nets, res),
           d = Warned(c, {"putSubnet"})
    PROVE  CallOK(d, nets2, res)
  <1>1. CASE c.pc = "putSubnet" BY <1>1, CrossedOK DEF Warned
  <1>2. CASE c.pc # "putSubnet" BY <1>2 DEF Warned, CallOK
  <1> QED BY <1>1, <1>2

LEMMA NetsShrink ==
    ASSUME NEW c, NEW nets, NEW nets2, NEW res, CallOK(c, nets, res), nets2 \subseteq nets
    PROVE  CallOK(c, nets2, res)
  <1>1. \A k : Clear(k, nets) => Clear(k, nets2) BY Zenon DEF Clear
  <1> QED BY <1>1, Zenon DEF CallOK

LEMMA ResGrow ==
    ASSUME NEW c, NEW d, NEW nets, NEW res, NEW res2, CallOK(c, nets, res),
           d = Warned(c, Releasing \cup {"putReservation"})
    PROVE  CallOK(d, nets, res2)
  <1>1. CASE c.pc \in Releasing \cup {"putReservation"} BY <1>1, CrossedOK DEF Warned
  <1>2. CASE c.pc \notin Releasing \cup {"putReservation"} BY <1>2 DEF Warned, CallOK
  <1> QED BY <1>1, <1>2

LEMMA ResShrink ==
    ASSUME NEW c, NEW d, NEW nets, NEW res, NEW m, CallOK(c, nets, res),
           d = Warned(c, Releasing)
    PROVE  CallOK(d, nets, Without(res, m))
  <1>1. CASE c.pc \in Releasing BY <1>1, CrossedOK DEF Warned
  <1>2. CASE c.pc \notin Releasing
    <2>1. c.pc = "putReservation" /\ ~TakenBy(c.mac, c.ip, res) => ~TakenBy(c.mac, c.ip, Without(res, m))
      BY WithoutFrees
    <2> QED BY <1>2, <2>1 DEF Warned, CallOK
  <1> QED BY <1>1, <1>2

\* All requests take note of a change, and the one that made it goes on.
LEMMA AllMove ==
    ASSUME NEW cs, NEW cs2, NEW pcs, NEW r \in IpamCallers, NEW n, NEW nets, NEW res, NEW m,
           m # "import", cs2 = [[q \in IpamCallers |-> Warned(cs[q], pcs)] EXCEPT ![r] = n],
           CallOK(n, nets, res), \A q \in IpamCallers : CallOK(Warned(cs[q], pcs), nets, res)
    PROVE  CallsOK(cs2, nets, res, m)
  <1>1. cs2 = [q \in IpamCallers |-> cs2[q]] OBVIOUS
  <1>2. \A q \in IpamCallers : cs2[q] = n \/ cs2[q] = Warned(cs[q], pcs) OBVIOUS
  <1>3. \A q \in IpamCallers : CallOK(cs2[q], nets, res) BY <1>2, Zenon
  <1> QED BY <1>1, <1>3, Zenon DEF CallsOK

LEMMA BookStart == IpamInit => BookInv
  <1> SUFFICES ASSUME IpamInit PROVE BookInv OBVIOUS
  <1>1. DOMAIN subnets = {} /\ DOMAIN resv = {} BY DEF IpamInit
  <1>2. Disjoint(Nets, racedNets) /\ OnceEach(resv, racedRes) BY <1>1 DEF Disjoint, OnceEach, Nets
  <1>3. calls = [r \in IpamCallers |-> calls[r]] /\ \A r \in IpamCallers : calls[r] = Idle BY DEF IpamInit
  <1>4. Idle.pc \in Harmless BY DEF Idle, Harmless
  <1>5. \A r \in IpamCallers : CallOK(calls[r], Nets, resv) BY <1>3, <1>4, HarmlessOK
  <1> QED BY <1>2, <1>3, <1>5, Zenon DEF BookInv, CallsOK

\* Requests that only validate, read or write their audit entry.
Validates(r) ==
    \/ \E i \in SubnetInputs : RestUpsertSubnet(r, i) \/ GrpcUpsertSubnet(r, i)
    \/ \E n \in PlanSizes : McpCreateSubnet(r, [addr |-> 0, bits |-> 0], n)
Reads(r) ==
    \/ \E i \in ReserveInputs : RestUpsertReservation(r, i) \/ GrpcReserveAddress(r, i)
    \/ \E ip \in DOMAIN leases : ReserveLease(r, ip)
    \/ ReservationCheck(r)
    \/ AuditEntry(r)
    \/ \E i \in ReserveInputs : ReleaseRead(r, i.ip)
    \/ ReleaseReadLease(r) \/ ReleaseRecord(r)

LEMMA ValidatedKeeps ==
    ASSUME BookInv, NEW r \in IpamCallers, NEW via, NEW i, Begins(r), SubnetFits(i, Nets),
           calls' = [calls EXCEPT ![r] = [pc |-> "putSubnet", via |-> via, in |-> i, crossed |-> FALSE]],
           UNCHANGED <<subnets, resv, addrs, leases, mode, starts, racedNets, racedRes, dropped>>
    PROVE  BookInv'
  <1>1. PICK n : n = [pc |-> "putSubnet", via |-> via, in |-> i, crossed |-> FALSE] OBVIOUS
  <1>2. CallOK(n, Nets, resv)
    <2>1. n.pc = "putSubnet" /\ {"pc", "in", "crossed"} \subseteq DOMAIN n /\ n.in = i /\ n.crossed \in BOOLEAN BY <1>1
    <2>2. Clear(KeyOf(n.in), Nets) BY <2>1, FitsIsClear
    <2> QED BY <2>1, <2>2 DEF CallOK, Releasing
  <1>3. mode # "import" BY DEF Begins
  <1> QED BY <1>1, <1>2, <1>3, CallMoves

LEMMA ValidatesKeeps == ASSUME BookInv, NEW r \in IpamCallers, Validates(r) PROVE BookInv'
  <1>1. CASE \E i \in SubnetInputs : RestUpsertSubnet(r, i)
    BY <1>1, ValidatedKeeps, Zenon DEF RestUpsertSubnet
  <1>2. CASE \E i \in SubnetInputs : GrpcUpsertSubnet(r, i)
    BY <1>2, ValidatedKeeps, Zenon DEF GrpcUpsertSubnet
  <1>3. CASE \E n \in PlanSizes : McpCreateSubnet(r, [addr |-> 0, bits |-> 0], n)
    BY <1>3, ValidatedKeeps, Zenon DEF McpCreateSubnet
  <1> QED BY <1>1, <1>2, <1>3, Zenon DEF Validates

LEMMA ReadsKeep == ASSUME BookInv, NEW r \in IpamCallers, Reads(r) PROVE BookInv'
  <1>1. PICK n : calls' = [calls EXCEPT ![r] = n] /\ CallOK(n, Nets, resv) /\ mode # "import"
    <2>1. ASSUME NEW via, NEW mac, NEW ip, NEW net, Begins(r),
                 calls' = [calls EXCEPT ![r] = [pc |-> "taken", via |-> via, mac |-> mac, ip |-> ip, net |-> net]]
          PROVE  \E n : calls' = [calls EXCEPT ![r] = n] /\ CallOK(n, Nets, resv) /\ mode # "import"
      <3>1. PICK n : n = [pc |-> "taken", via |-> via, mac |-> mac, ip |-> ip, net |-> net] OBVIOUS
      <3>2. n.pc \in Harmless BY <3>1 DEF Harmless
      <3> QED BY <2>1, <3>1, <3>2, HarmlessOK, Zenon DEF Begins
    <2>2. CASE \E i \in ReserveInputs : RestUpsertReservation(r, i)
      <3>1. PICK i \in ReserveInputs : RestUpsertReservation(r, i) BY <2>2
      <3>2. Begins(r) /\ calls' = [calls EXCEPT ![r] =
               [pc |-> "taken", via |-> "rest", mac |-> i.mac, ip |-> i.ip, net |-> ResolveNet(i.ip, i.net, Nets)]]
        BY <3>1 DEF RestUpsertReservation
      <3> QED BY <2>1, <3>2
    <2>3. CASE \E i \in ReserveInputs : GrpcReserveAddress(r, i)
      <3>1. PICK i \in ReserveInputs : GrpcReserveAddress(r, i) BY <2>3
      <3>2. Begins(r) /\ calls' = [calls EXCEPT ![r] =
               [pc |-> "taken", via |-> "grpc", mac |-> i.mac, ip |-> i.ip, net |-> ResolveNet(i.ip, i.net, Nets)]]
        BY <3>1 DEF GrpcReserveAddress
      <3> QED BY <2>1, <3>2
    <2>4. CASE \E ip \in DOMAIN leases : ReserveLease(r, ip)
      <3>1. PICK ip \in DOMAIN leases : ReserveLease(r, ip) BY <2>4
      <3>2. Begins(r) /\ calls' = [calls EXCEPT ![r] =
               [pc |-> "taken", via |-> "rest", mac |-> leases[ip].mac, ip |-> ip, net |-> ResolveNet(ip, leases[ip].net, Nets)]]
        BY <3>1 DEF ReserveLease
      <3> QED BY <2>1, <3>2
    <2>5. Idle.pc \in Harmless BY DEF Idle, Harmless
    <2>6. CASE ReservationCheck(r)
      <3>0. calls[r].pc = "taken" BY <2>6, Zenon DEF ReservationCheck
      <3>1. mode # "import" BY <3>0, Serving
      <3>2. CASE ReservedByOther(calls[r].mac, calls[r].ip)
        <4>1. calls' = [calls EXCEPT ![r] = Idle] BY <2>6, <3>2, Zenon DEF ReservationCheck
        <4> QED BY <4>1, <2>5, <3>1, HarmlessOK, Zenon
      <3>3. CASE ~ReservedByOther(calls[r].mac, calls[r].ip)
        <4>1. PICK c : c = calls[r] OBVIOUS
        <4>2. PICK n : n = [pc |-> "putReservation", via |-> c.via, mac |-> c.mac, ip |-> c.ip, net |-> c.net, crossed |-> FALSE]
          OBVIOUS
        <4>3. calls' = [calls EXCEPT ![r] = n] BY <2>6, <3>3, <4>1, <4>2, Zenon DEF ReservationCheck
        <4>4. ~TakenBy(c.mac, c.ip, resv) BY <3>3, <4>1, Zenon DEF ReservedByOther, TakenBy
        <4>5. n.pc = "putReservation" /\ {"pc", "mac", "ip", "crossed"} \subseteq DOMAIN n /\ n.mac = c.mac /\ n.ip = c.ip
                 /\ n.crossed \in BOOLEAN
          BY <4>2
        <4>6. CallOK(n, Nets, resv) BY <4>4, <4>5 DEF CallOK, Releasing
        <4> QED BY <3>1, <4>3, <4>6, Zenon
      <3> QED BY <3>2, <3>3, Zenon
    <2>7. CASE AuditEntry(r)
      <3>1. calls[r].pc = "audit" /\ calls' = [calls EXCEPT ![r] = Idle] BY <2>7, Zenon DEF AuditEntry
      <3>2. mode # "import" BY <3>1, Serving
      <3> QED BY <2>5, <3>1, <3>2, HarmlessOK, Zenon
    <2>8. ASSUME NEW pc \in Releasing, NEW ip, NEW found, NEW x,
                 calls' = [calls EXCEPT ![r] = [pc |-> pc, ip |-> ip, rec |-> found, crossed |-> x]], mode # "import"
          PROVE  \E n : calls' = [calls EXCEPT ![r] = n] /\ CallOK(n, Nets, resv) /\ mode # "import"
      <3>1. PICK n : n = [pc |-> pc, ip |-> ip, rec |-> found, crossed |-> x] OBVIOUS
      <3>2. CallOK(n, Nets, resv)
        <4>1. n.pc \in Releasing /\ {"pc", "crossed"} \subseteq DOMAIN n BY <3>1
        <4> QED BY <4>1 DEF CallOK, Releasing
      <3> QED BY <2>8, <3>1, <3>2, Zenon
    <2>9. CASE \E i \in ReserveInputs : ReleaseRead(r, i.ip)
      <3>1. "relLease" \in Releasing BY DEF Releasing
      <3> QED BY <2>8, <2>9, <3>1, Zenon DEF ReleaseRead, Begins
    <2>10. CASE ReleaseReadLease(r)
      <3>1. "relDelete" \in Releasing BY DEF Releasing
      <3>2. calls[r].pc = "relLease" BY <2>10, Zenon DEF ReleaseReadLease
      <3>3. mode # "import" BY <3>2, Serving
      <3>4. PICK found : calls' = [calls EXCEPT ![r] =
                         IF found = NoRec /\ InferSubnet(calls[r].ip, Nets) = NoNet THEN Idle
                         ELSE [pc |-> "relDelete", ip |-> calls[r].ip, rec |-> found, crossed |-> calls[r].crossed]]
        BY <2>10, Zenon DEF ReleaseReadLease
      <3>5. CASE found = NoRec /\ InferSubnet(calls[r].ip, Nets) = NoNet
        <4>1. calls' = [calls EXCEPT ![r] = Idle] BY <3>4, <3>5, Zenon
        <4> QED BY <4>1, <2>5, <3>3, HarmlessOK, Zenon
      <3>6. CASE ~(found = NoRec /\ InferSubnet(calls[r].ip, Nets) = NoNet)
        <4>1. calls' = [calls EXCEPT ![r] = [pc |-> "relDelete", ip |-> calls[r].ip, rec |-> found, crossed |-> calls[r].crossed]]
          BY <3>4, <3>6, Zenon
        <4> QED BY <4>1, <2>8, <3>1, <3>3, Zenon
      <3> QED BY <3>5, <3>6, Zenon
    <2>11. CASE ReleaseRecord(r)
      <3>1. calls[r].pc = "relRecord" /\ calls' = [calls EXCEPT ![r] = Idle] BY <2>11, Zenon DEF ReleaseRecord
      <3>2. mode # "import" BY <3>1, Serving
      <3> QED BY <2>5, <3>1, <3>2, HarmlessOK, Zenon
    <2> QED BY <2>2, <2>3, <2>4, <2>6, <2>7, <2>9, <2>10, <2>11, Zenon DEF Reads
  <1>2. UNCHANGED <<subnets, resv, mode, racedNets, racedRes>>
    BY DEF Reads, RestUpsertReservation, GrpcReserveAddress, ReserveLease, ReservationCheck, AuditEntry,
           ReleaseRead, ReleaseReadLease, ReleaseRecord
  <1> QED BY <1>1, <1>2, CallMoves

LEMMA SubnetPutKeeps == ASSUME BookInv, NEW r \in IpamCallers, SubnetPut(r) PROVE BookInv'
  <1>1. PICK c : c = calls[r] OBVIOUS
  <1>2. PICK p : p = KeyOf(c.in) OBVIOUS
  <1>3. /\ c.pc = "putSubnet" /\ subnets' = With(subnets, p, SubnetOf(c.in))
        /\ racedNets' = (IF c.crossed THEN racedNets \cup {p} ELSE racedNets \ {p})
        /\ calls' = [Crosses({"putSubnet"}) EXCEPT ![r] = AfterPut(c.via)]
        /\ UNCHANGED <<resv, mode, racedRes>>
    BY <1>1, <1>2 DEF SubnetPut
  <1>4. Nets' = Nets \cup {p} BY <1>3, WithDomain DEF Nets
  <1>5. CallOK(c, Nets, resv) BY <1>1, Zenon DEF BookInv, CallsOK
  <1>6. c.crossed \in BOOLEAN /\ (c.crossed = FALSE => Clear(p, Nets)) BY <1>2, <1>3, <1>5, Zenon DEF CallOK
  <1>7. Disjoint(Nets', racedNets')
    <2>1. CASE c.crossed = TRUE BY <2>1, <1>3, <1>4, RacedJoins DEF BookInv
    <2>2. CASE c.crossed = FALSE BY <2>2, <1>3, <1>4, <1>6, ClearedJoins DEF BookInv
    <2> QED BY <1>6, <2>1, <2>2
  <1>8. CallsOK(calls', Nets', resv', mode')
    <2>1. mode # "import" BY <1>1, <1>3, Serving
    <2>2. PICK n : n = AfterPut(c.via) OBVIOUS
    <2>3. CallOK(n, Nets', resv) BY <2>2, AfterPutOK, HarmlessOK
    <2>4. \A q \in IpamCallers : CallOK(calls[q], Nets, resv) BY Zenon DEF BookInv, CallsOK
    <2>5. \A q \in IpamCallers : CallOK(Warned(calls[q], {"putSubnet"}), Nets', resv)
      BY <2>4, NetsGrow, Zenon
    <2>7. PICK cs2, nets2 : cs2 = calls' /\ nets2 = Nets' OBVIOUS
    <2>8. cs2 = [[q \in IpamCallers |-> Warned(calls[q], {"putSubnet"})] EXCEPT ![r] = n]
      BY <1>3, <2>2, <2>7, CrossesWarns, Zenon
    <2>9. CallsOK(cs2, nets2, resv, mode) BY <2>1, <2>3, <2>5, <2>7, <2>8, AllMove, Zenon
    <2> QED BY <1>3, <2>7, <2>9
  <1>9. OnceEach(resv, racedRes)' BY <1>3 DEF BookInv
  <1> QED BY <1>7, <1>8, <1>9 DEF BookInv

\* A subnet is removed, by one request.
LEMMA DeleteSubnetKeeps ==
    ASSUME BookInv, NEW r \in IpamCallers, NEW via, NEW p, DeleteSubnet(r, via, p) PROVE BookInv'
  <1>1. /\ mode # "import" /\ Nets' = Nets \ {p} /\ racedNets' = racedNets \ {p}
        /\ calls' = [calls EXCEPT ![r] = AfterPut(via)] /\ UNCHANGED <<resv, mode, racedRes>>
    BY WithoutDomain DEF DeleteSubnet, Begins, Nets
  <1>2. Disjoint(Nets', racedNets') BY <1>1, RemovedLeaves DEF BookInv
  <1>3. PICK n, cs2, nets2 : n = AfterPut(via) /\ cs2 = calls' /\ nets2 = Nets' OBVIOUS
  <1>4. CallsOK(calls, nets2, resv, mode)
    <2>1. \A q \in IpamCallers : CallOK(calls[q], Nets, resv) BY Zenon DEF BookInv, CallsOK
    <2>2. nets2 \subseteq Nets BY <1>1, <1>3
    <2>3. \A q \in IpamCallers : CallOK(calls[q], nets2, resv) BY <2>1, <2>2, NetsShrink, Zenon
    <2> QED BY <2>3, Zenon DEF BookInv, CallsOK
  <1>5. CallOK(n, nets2, resv) BY <1>3, AfterPutOK, HarmlessOK
  <1>6. CallsOK(cs2, nets2, resv, mode) BY <1>1, <1>3, <1>4, <1>5, OneMoves, Zenon
  <1>7. CallsOK(calls', Nets', resv', mode') BY <1>1, <1>3, <1>6
  <1> QED BY <1>1, <1>2, <1>7 DEF BookInv

LEMMA ReservationPutKeeps == ASSUME BookInv, NEW r \in IpamCallers, ReservationPut(r) PROVE BookInv'
  <1>1. PICK c : c = calls[r] OBVIOUS
  <1>2. PICK v : v = [ip |-> c.ip, net |-> c.net] OBVIOUS
  <1>3. /\ c.pc = "putReservation" /\ resv' = With(resv, c.mac, v)
        /\ racedRes' = (IF c.crossed THEN racedRes \cup {c.mac} ELSE racedRes \ {c.mac})
        /\ calls' = [Crosses(Releasing \cup {"putReservation"}) EXCEPT ![r] = AfterPut(c.via)]
        /\ UNCHANGED <<subnets, mode, racedNets>>
    BY <1>1, <1>2 DEF ReservationPut
  <1>4. CallOK(c, Nets, resv) BY <1>1, Zenon DEF BookInv, CallsOK
  <1>5. c.crossed \in BOOLEAN /\ (c.crossed = FALSE => ~TakenBy(c.mac, c.ip, resv)) BY <1>3, <1>4, Zenon DEF CallOK
  <1>6. OnceEach(resv', racedRes')
    <2>1. v.ip = c.ip BY <1>2
    <2>2. CASE c.crossed = TRUE BY <2>1, <2>2, <1>3, WithKeepsOnce DEF BookInv
    <2>3. CASE c.crossed = FALSE BY <2>1, <2>3, <1>3, <1>5, WithKeepsOnce DEF BookInv
    <2> QED BY <1>5, <2>2, <2>3
  <1>7. CallsOK(calls', Nets', resv', mode')
    <2>1. mode # "import" BY <1>1, <1>3, Serving
    <2>2. PICK n, cs2, res2 : n = AfterPut(c.via) /\ cs2 = calls' /\ res2 = resv' OBVIOUS
    <2>3. CallOK(n, Nets, res2) BY <2>2, AfterPutOK, HarmlessOK
    <2>4. \A q \in IpamCallers : CallOK(calls[q], Nets, resv) BY Zenon DEF BookInv, CallsOK
    <2>5. PICK pcs : pcs = Releasing \cup {"putReservation"} OBVIOUS
    <2>6. \A q \in IpamCallers : CallOK(Warned(calls[q], pcs), Nets, res2)
      BY <2>4, <2>5, ResGrow, Zenon
    <2>8. cs2 = [[q \in IpamCallers |-> Warned(calls[q], pcs)] EXCEPT ![r] = n]
      BY <1>3, <2>2, <2>5, CrossesWarns, Zenon
    <2>9. CallsOK(cs2, Nets, res2, mode) BY <2>1, <2>3, <2>6, <2>8, AllMove, Zenon
    <2>10. Nets' = Nets BY <1>3 DEF Nets
    <2> QED BY <1>3, <2>2, <2>9, <2>10
  <1>8. Disjoint(Nets', racedNets') BY <1>3 DEF BookInv, Nets
  <1> QED BY <1>6, <1>7, <1>8 DEF BookInv

\* A reservation is removed, by a request that goes on to n.
LEMMA UnreservedKeeps ==
    ASSUME BookInv, NEW r \in IpamCallers, NEW m, NEW n, mode # "import", CallOK(n, Nets, Without(resv, m)),
           resv' = Without(resv, m), racedRes' = racedRes \ {m},
           calls' = [Crosses(Releasing) EXCEPT ![r] = n], UNCHANGED <<subnets, mode, racedNets>>
    PROVE  BookInv'
  <1>1. OnceEach(resv', racedRes') BY WithoutKeepsOnce DEF BookInv
  <1>2. PICK cs2, res2 : cs2 = calls' /\ res2 = resv' OBVIOUS
  <1>3. \A q \in IpamCallers : CallOK(calls[q], Nets, resv) BY Zenon DEF BookInv, CallsOK
  <1>4. \A q \in IpamCallers : CallOK(Warned(calls[q], Releasing), Nets, Without(resv, m))
    BY <1>3, ResShrink, Zenon
  <1>6. cs2 = [[q \in IpamCallers |-> Warned(calls[q], Releasing)] EXCEPT ![r] = n]
    BY <1>2, CrossesWarns, Zenon
  <1>7. CallsOK(cs2, Nets, res2, mode)
    BY <1>2, <1>4, <1>6, AllMove, Zenon
  <1>8. Nets' = Nets BY DEF Nets
  <1> QED BY <1>1, <1>2, <1>7, <1>8 DEF BookInv

LEMMA DeleteReservationKeeps ==
    ASSUME BookInv, NEW r \in IpamCallers, NEW m, DeleteReservation(r, m) PROVE BookInv'
  <1>1. CallOK(AfterPut("rest"), Nets, Without(resv, m)) BY AfterPutOK, HarmlessOK
  <1> QED BY <1>1, UnreservedKeeps DEF DeleteReservation, Begins

LEMMA ReleaseReservationKeeps ==
    ASSUME BookInv, NEW r \in IpamCallers, ReleaseReservation(r) PROVE BookInv'
  <1>1. PICK c : c = calls[r] OBVIOUS
  <1>2. c.pc = "relDelete" BY <1>1 DEF ReleaseReservation
  <1>3. mode # "import" BY <1>1, <1>2, Serving
  <1>4. {"pc", "crossed"} \subseteq DOMAIN c
    <2>1. CallOK(c, Nets, resv) BY <1>1, Zenon DEF BookInv, CallsOK
    <2> QED BY <1>2, <2>1 DEF CallOK, Releasing
  <1>5. PICK n : n = [c EXCEPT !.pc = "relRecord"] OBVIOUS
  <1>6. CallOK(n, Nets, Without(resv, c.rec.mac))
    <2>1. n.pc = "relRecord" /\ DOMAIN n = DOMAIN c BY <1>4, <1>5
    <2> QED BY <1>4, <2>1 DEF CallOK, Releasing
  <1> QED BY <1>1, <1>3, <1>5, <1>6, UnreservedKeeps DEF ReleaseReservation

-----------------------------------------------------------------------------
(* Leases, starts, imports.                                                *)

LEMMA LeaseChangesKeeps == ASSUME BookInv, NEW l, LeaseChanges(l) PROVE BookInv'
  <1>1. mode # "import" /\ calls' = Crosses(Releasing) /\ UNCHANGED <<subnets, resv, mode, racedNets, racedRes>>
    BY DEF LeaseChanges
  <1>2. PICK cs2 : cs2 = calls' OBVIOUS
  <1>3. cs2 = [q \in IpamCallers |-> Warned(calls[q], Releasing)] BY <1>1, <1>2, CrossesWarns
  <1>4. \A q \in IpamCallers : CallOK(calls[q], Nets, resv) BY Zenon DEF BookInv, CallsOK
  <1>5. \A q \in IpamCallers : CallOK(Warned(calls[q], Releasing), Nets, resv)
    <2> SUFFICES ASSUME NEW q \in IpamCallers PROVE CallOK(Warned(calls[q], Releasing), Nets, resv) OBVIOUS
    <2>1. PICK c : c = calls[q] OBVIOUS
    <2>2. CallOK(c, Nets, resv) BY <1>4, <2>1
    <2>3. CASE c.pc \in Releasing BY <2>1, <2>2, <2>3, CrossedOK DEF Warned
    <2>4. CASE c.pc \notin Releasing BY <2>1, <2>2, <2>4 DEF Warned
    <2> QED BY <2>3, <2>4
  <1>6. \A q \in IpamCallers : cs2[q] = Warned(calls[q], Releasing) BY <1>3
  <1>7. cs2 = [q \in IpamCallers |-> cs2[q]] BY <1>3
  <1>8. CallsOK(cs2, Nets, resv, mode) BY <1>1, <1>5, <1>6, <1>7, Zenon DEF CallsOK
  <1>9. Nets' = Nets BY <1>1 DEF Nets
  <1> QED BY <1>1, <1>2, <1>8, <1>9 DEF BookInv

LEMMA AllIdleOK ==
    ASSUME NEW cs, NEW nets, NEW res, NEW m, cs = [r \in IpamCallers |-> Idle]
    PROVE  CallsOK(cs, nets, res, m)
  <1>1. Idle.pc \in Harmless BY DEF Idle, Harmless
  <1>2. CallOK(Idle, nets, res) BY <1>1, HarmlessOK
  <1>3. PICK n : n = Idle OBVIOUS
  <1>4. cs = [r \in IpamCallers |-> n] BY <1>3
  <1>5. (\A r \in IpamCallers : cs[r] = n) /\ cs = [r \in IpamCallers |-> cs[r]] BY <1>4
  <1> QED BY <1>2, <1>3, <1>5, Zenon DEF CallsOK

LEMMA ImportingIdle == ASSUME BookInv, mode = "import" PROVE calls = [r \in IpamCallers |-> Idle]
  <1>1. PICK n : n = Idle OBVIOUS
  <1>2. (\A r \in IpamCallers : calls[r] = n) /\ calls = [r \in IpamCallers |-> calls[r]]
    BY <1>1, Zenon DEF BookInv, CallsOK
  <1>3. calls = [r \in IpamCallers |-> n] BY <1>2
  <1> QED BY <1>1, <1>3

LEMMA StartKeeps == ASSUME BookInv, NEW i, IpamStart(i) PROVE BookInv'
  <1>1. calls' = [r \in IpamCallers |-> Idle] /\ UNCHANGED <<resv, racedRes>> BY DEF IpamStart
  <1>2. CallsOK(calls', Nets', resv', mode')
    <2>1. PICK cs2, nets2, res2, m2 : cs2 = calls' /\ nets2 = Nets' /\ res2 = resv' /\ m2 = mode' OBVIOUS
    <2>2. CallsOK(cs2, nets2, res2, m2) BY <1>1, <2>1, AllIdleOK
    <2> QED BY <2>1, <2>2
  <1>3. Disjoint(Nets', racedNets')
    <2>1. PICK k : k = KeyOf(i) OBVIOUS
    <2>2. Disjoint(Nets, racedNets) BY DEF BookInv
    <2>3. CASE subnets' = subnets
      <3>1. racedNets' = racedNets BY <2>3 DEF IpamStart
      <3> QED BY <2>2, <2>3, <3>1 DEF Nets
    <2>4. CASE subnets' # subnets
      <3>1. CidrOf(i) \notin Nets BY <2>4 DEF IpamStart, SeedFromConfig
      <3>2. SubnetFits(i, Nets) /\ subnets' = With(subnets, k, SubnetOf(i)) /\ racedNets' = racedNets \ {k}
        BY <2>1, <2>4, <3>1 DEF IpamStart, SeedFromConfig
      <3>3. Clear(k, Nets) BY <2>1, <3>2, FitsIsClear
      <3>4. Nets' = Nets \cup {k} BY <3>2, WithDomain DEF Nets
      <3> QED BY <2>2, <3>2, <3>3, <3>4, ClearedJoins
    <2> QED BY <2>3, <2>4
  <1>4. OnceEach(resv, racedRes)' BY <1>1 DEF BookInv
  <1> QED BY <1>2, <1>3, <1>4 DEF BookInv

LEMMA ImportsKeep ==
    ASSUME BookInv, NEW skip,
           \/ \E i \in SubnetInputs : ImportSubnet(i, skip)
           \/ \E row \in AddressRows : ImportAddress(row, skip)
           \/ \E i \in ReserveInputs : ImportReservation(i, skip)
           \/ \E row \in LeaseRows : ImportLease(row, skip)
    PROVE  BookInv'
  <1>1. mode = "import" /\ UNCHANGED <<calls, mode, racedNets, racedRes>>
    BY DEF ImportSubnet, ImportAddress, ImportReservation, ImportLease
  <1>2. CallsOK(calls', Nets', resv', mode')
    <2>1. PICK cs2, nets2, res2, m2 : cs2 = calls' /\ nets2 = Nets' /\ res2 = resv' /\ m2 = mode' OBVIOUS
    <2>2. cs2 = [r \in IpamCallers |-> Idle] BY <1>1, <2>1, ImportingIdle
    <2>3. CallsOK(cs2, nets2, res2, m2) BY <2>2, AllIdleOK
    <2> QED BY <2>1, <2>3
  <1>3. Disjoint(Nets', racedNets') /\ OnceEach(resv', racedRes')
    <2>1. CASE \E i \in SubnetInputs : ImportSubnet(i, skip)
      <3>1. PICK i \in SubnetInputs : ImportSubnet(i, skip) BY <2>1
      <3>2. PICK k : k = KeyOf(i) OBVIOUS
      <3>3. SubnetFits(i, Nets) /\ subnets' = With(subnets, k, SubnetOf(i)) /\ resv' = resv
        BY <3>1, <3>2 DEF ImportSubnet
      <3>4. Clear(k, Nets) BY <3>2, <3>3, FitsIsClear
      <3>5. Nets' = Nets \cup {k} BY <3>3, WithDomain DEF Nets
      <3> QED BY <1>1, <3>3, <3>4, <3>5, ClearedJoins DEF BookInv
    <2>2. CASE \E row \in AddressRows : ImportAddress(row, skip)
      <3>1. UNCHANGED <<subnets, resv>> BY <2>2 DEF ImportAddress
      <3> QED BY <1>1, <3>1 DEF BookInv, Nets
    <2>3. CASE \E i \in ReserveInputs : ImportReservation(i, skip)
      <3>1. PICK i \in ReserveInputs : ImportReservation(i, skip) BY <2>3
      <3>2. PICK v : v = [ip |-> i.ip, net |-> ResolveNet(i.ip, i.net, Nets)] OBVIOUS
      <3>3. v.ip = i.ip BY <3>2
      <3>4. ~ReservedByOther(i.mac, i.ip) /\ resv' = With(resv, i.mac, v) /\ subnets' = subnets
        BY <3>1, <3>2 DEF ImportReservation
      <3>5. ~TakenBy(i.mac, i.ip, resv) BY <3>4, Zenon DEF ReservedByOther, TakenBy
      <3>6. OnceEach(resv', racedRes') BY <1>1, <3>3, <3>4, <3>5, WithKeepsOnce DEF BookInv
      <3> QED BY <1>1, <3>4, <3>6 DEF BookInv, Nets
    <2>4. CASE \E row \in LeaseRows : ImportLease(row, skip)
      <3>1. UNCHANGED <<subnets, resv>> BY <2>4 DEF ImportLease
      <3> QED BY <1>1, <3>1 DEF BookInv, Nets
    <2> QED BY <2>1, <2>2, <2>3, <2>4
  <1> QED BY <1>2, <1>3 DEF BookInv

LEMMA BookSteps == BookInv /\ [IpamNext]_ipamVars => BookInv'
  <1> SUFFICES ASSUME BookInv, [IpamNext]_ipamVars PROVE BookInv' OBVIOUS
  <1>1. ASSUME NEW r \in IpamCallers, Validates(r) \/ Reads(r) PROVE BookInv'
    BY <1>1, ValidatesKeeps, ReadsKeep, Zenon
  <1>2. ASSUME NEW r \in IpamCallers,
               \/ SubnetPut(r)
               \/ \E via \in {"rest", "grpc"}, p \in Nets : DeleteSubnet(r, via, p)
        PROVE  BookInv'
    BY <1>2, SubnetPutKeeps, DeleteSubnetKeeps, Zenon
  <1>3. ASSUME NEW r \in IpamCallers,
               \/ ReservationPut(r) \/ ReleaseReservation(r)
               \/ \E m \in DOMAIN resv : DeleteReservation(r, m)
        PROVE  BookInv'
    BY <1>3, ReservationPutKeeps, ReleaseReservationKeeps, DeleteReservationKeeps, Zenon
  <1>4. ASSUME \/ \E l \in LeaseInputs : LeaseChanges(l)
               \/ \E i \in SubnetInputs : IpamStart(i)
        PROVE  BookInv'
    BY <1>4, LeaseChangesKeeps, StartKeeps, Zenon
  <1>5. ASSUME NEW skip \in BOOLEAN,
               \/ \E i \in SubnetInputs : ImportSubnet(i, skip)
               \/ \E row \in AddressRows : ImportAddress(row, skip)
               \/ \E i \in ReserveInputs : ImportReservation(i, skip)
               \/ \E row \in LeaseRows : ImportLease(row, skip)
        PROVE  BookInv'
    BY <1>5, ImportsKeep, Zenon
  <1>6. CASE UNCHANGED ipamVars BY <1>6 DEF ipamVars, BookInv, Nets
  <1> QED BY <1>1, <1>2, <1>3, <1>4, <1>5, <1>6, Zenon DEF IpamNext, Validates, Reads

\* No two subnets overlap and no address is reserved twice, although requests
\* validate and put in separate transactions, unless two requests crossed:
\* UpsertSubnet, UpsertReservation, the imports and SeedFromConfig together.
THEOREM NothingBookedTwice == IpamSpec => []NoDoubleBooking
  BY BookStart, BookSteps, Booked, PTL DEF IpamSpec

(***************************************************************************)
(* What the requests hold, and with the trees the inductive invariant      *)
(* IpamInv.                                                                *)
(***************************************************************************)

InputOK(i) == Cidr(i) /\ i.dhcp \in BOOLEAN /\ SubnetBodyOK(i)
ReserveOK(c) == c.mac \in 1..NMacs /\ c.ip \in Addrs /\ PrefixContains(c.net, c.ip)

\* A release that nothing disturbed and that saw no conflict knows the one
\* client that reserves its address, and after the deletion there is none.
ReleaseOK(c, res) ==
    c.pc \in Releasing /\ c.crossed = FALSE /\ c.rec.state # "conflict" =>
        \A m \in DOMAIN res : res[m].ip = c.ip => c.pc # "relRecord" /\ c.rec.mac = m

CallFits(c, res) ==
    /\ c.pc = "putSubnet" => {"pc", "in", "crossed"} \subseteq DOMAIN c /\ InputOK(c.in)
    /\ c.pc = "taken" => ReserveOK(c)
    /\ c.pc = "putReservation" => {"pc", "mac", "ip", "net", "crossed"} \subseteq DOMAIN c /\ ReserveOK(c)
    /\ c.pc \in Releasing => {"pc", "ip", "rec", "crossed"} \subseteq DOMAIN c /\ c.crossed \in BOOLEAN
    /\ ReleaseOK(c, res)

CallsFit(cs, res) == \A r \in IpamCallers : CallFits(cs[r], res)

LEMMA IdleFits == ASSUME NEW c, c.pc \in {"idle", "audit"}, NEW res PROVE CallFits(c, res)
BY DEF CallFits, ReleaseOK, Releasing

LEMMA AfterPutFits == ASSUME NEW via, NEW res PROVE CallFits(AfterPut(via), res)
<1>1. AfterPut(via).pc \in {"idle", "audit"}  BY DEF AfterPut, Idle
<1> QED  BY <1>1, IdleFits

\* A request that is told of a change keeps its data, and a release that is
\* told promises nothing more.
LEMMA WarnedFits ==
    ASSUME NEW c, NEW pcs, pcs \subseteq Releasing \cup {"putSubnet", "putReservation"}, NEW res, NEW res2,
           CallFits(c, res), c.pc \in Releasing => c.pc \in pcs \/ res2 = res
    PROVE  CallFits(Warned(c, pcs), res2)
<1>1. CASE c.pc \notin pcs
  <2>1. Warned(c, pcs) = c  BY <1>1 DEF Warned
  <2>2. ReleaseOK(c, res2)  BY <1>1 DEF CallFits, ReleaseOK
  <2> QED  BY <2>1, <2>2, Zenon DEF CallFits
<1>2. CASE c.pc \in pcs
  <2>1. PICK d : d = [c EXCEPT !.crossed = TRUE]  OBVIOUS
  <2>2. Warned(c, pcs) = d  BY <1>2, <2>1 DEF Warned
  <2>3. c.pc = "putSubnet" \/ c.pc = "putReservation" \/ c.pc \in Releasing  BY <1>2
  <2>4. {"pc", "crossed"} \subseteq DOMAIN c  BY <2>3 DEF CallFits
  <2>5. d.pc = c.pc /\ d.crossed = TRUE /\ DOMAIN d = DOMAIN c /\ \A f \in DOMAIN c : f # "crossed" => d[f] = c[f]
    BY <2>1, <2>4
  <2>6. ReleaseOK(d, res2)  BY <2>5 DEF ReleaseOK
  <2>7. CASE c.pc = "putSubnet"
    <3>1. {"pc", "in", "crossed"} \subseteq DOMAIN c /\ InputOK(c.in)  BY <2>7, Zenon DEF CallFits
    <3>2. d.in = c.in  BY <2>5, <3>1
    <3> QED  BY <2>2, <2>5, <2>6, <2>7, <3>1, <3>2 DEF CallFits, Releasing
  <2>8. CASE c.pc = "putReservation"
    <3>1. {"pc", "mac", "ip", "net", "crossed"} \subseteq DOMAIN c /\ ReserveOK(c)  BY <2>8, Zenon DEF CallFits
    <3>2. d.mac = c.mac /\ d.ip = c.ip /\ d.net = c.net  BY <2>5, <3>1
    <3>3. ReserveOK(d)  BY <3>1, <3>2 DEF ReserveOK
    <3> QED  BY <2>2, <2>5, <2>6, <2>8, <3>1, <3>3 DEF CallFits, Releasing
  <2>9. CASE c.pc \in Releasing
    <3>1. {"pc", "ip", "rec", "crossed"} \subseteq DOMAIN c  BY <2>9, Zenon DEF CallFits
    <3> QED  BY <2>2, <2>5, <2>6, <2>9, <3>1 DEF CallFits, Releasing
  <2> QED  BY <2>3, <2>7, <2>8, <2>9
<1> QED  BY <1>1, <1>2

LEMMA AllFit ==
    ASSUME NEW cs, NEW cs2, NEW pcs, NEW r \in IpamCallers, NEW n, NEW res, NEW res2,
           pcs \subseteq Releasing \cup {"putSubnet", "putReservation"}, Releasing \subseteq pcs \/ res2 = res,
           cs2 = [[q \in IpamCallers |-> Warned(cs[q], pcs)] EXCEPT ![r] = n],
           CallFits(n, res2), CallsFit(cs, res)
    PROVE  CallsFit(cs2, res2)
<1>1. \A q \in IpamCallers : cs2[q] = n \/ cs2[q] = Warned(cs[q], pcs)  OBVIOUS
<1>2. ASSUME NEW q \in IpamCallers PROVE CallFits(Warned(cs[q], pcs), res2)
  <2>1. PICK c : c = cs[q]  OBVIOUS
  <2>2. CallFits(c, res) /\ (c.pc \in Releasing => c.pc \in pcs \/ res2 = res)  BY <2>1 DEF CallsFit
  <2> QED  BY <2>1, <2>2, WarnedFits
<1> QED  BY <1>1, <1>2, Zenon DEF CallsFit

LEMMA OneFits ==
    ASSUME NEW cs, NEW cs2, NEW r \in IpamCallers, NEW n, NEW res, CallsFit(cs, res), CallFits(n, res),
           cs = [q \in IpamCallers |-> cs[q]], cs2 = [cs EXCEPT ![r] = n]
    PROVE  CallsFit(cs2, res)
<1>1. \A q \in IpamCallers : cs2[q] = n \/ cs2[q] = cs[q]  OBVIOUS
<1> QED  BY <1>1, Zenon DEF CallsFit

-----------------------------------------------------------------------------
(* Subnets and reservations that are put.                                  *)

LEMMA KeyIs ==
    ASSUME NEW i, Cidr(i)
    PROVE  /\ Cidr(KeyOf(i)) /\ Masked(KeyOf(i)) = KeyOf(i) /\ KeyOf(i) = [addr |-> KeyOf(i).addr, bits |-> KeyOf(i).bits]
           /\ \A a : PrefixContains(KeyOf(i), a) <=> PrefixContains(i, a)
<1> PICK c : c = CidrOf(i)  OBVIOUS
<1>1. c.addr = i.addr /\ c.bits = i.bits /\ Cidr(c)  BY DEF CidrOf, Cidr
<1>2. KeyOf(i) = Masked(c)  BY DEF KeyOf
<1>3. Cidr(Masked(c)) /\ Masked(Masked(c)) = Masked(c) /\ AddressCount(Masked(c)) = AddressCount(c)
  BY <1>1, MaskedIs, MaskedTwice, Zenon
<1>4. AddressCount(c) = AddressCount(i) /\ Masked(c) = Masked(i)  BY <1>1 DEF AddressCount, Masked
<1>5. Masked(c) = [addr |-> Masked(c).addr, bits |-> Masked(c).bits]  BY DEF Masked
<1>6. \A a : PrefixContains(Masked(c), a) <=> PrefixContains(i, a)  BY <1>3, <1>4, Zenon DEF PrefixContains
<1> QED  BY <1>2, <1>3, <1>5, <1>6

LEMMA SubnetStored ==
    ASSUME NEW subs, SubnetsOK(subs), NEW i, InputOK(i)
    PROVE  SubnetsOK(With(subs, KeyOf(i), SubnetOf(i)))
<1> PICK p : p = KeyOf(i)  OBVIOUS
<1> PICK s : s = SubnetOf(i)  OBVIOUS
<1> PICK new : new = With(subs, p, s)  OBVIOUS
<1>1. DOMAIN new = DOMAIN subs \cup {p} /\ \A q \in DOMAIN new : new[q] = IF q = p THEN s ELSE subs[q]  BY DEF With
<1>2. Cidr(i) /\ i.dhcp \in BOOLEAN /\ SubnetBodyOK(i)  BY DEF InputOK
<1>3. Cidr(p) /\ Masked(p) = p /\ p = [addr |-> p.addr, bits |-> p.bits]  BY <1>2, KeyIs
<1>4. \A a : PrefixContains(p, a) <=> PrefixContains(i, a)  BY <1>2, KeyIs
<1>5. s.dhcp = i.dhcp /\ s.start = i.start /\ s.end = i.end /\ DOMAIN s = {"dhcp", "start", "end"}  BY DEF SubnetOf
<1>6. PoolFits(p, s)
  <2>1. i.dhcp = TRUE => /\ i.start \in Addrs /\ i.end \in Addrs /\ i.start <= i.end
                         /\ PrefixContains(i, i.start) /\ PrefixContains(i, i.end)
    BY <1>2 DEF SubnetBodyOK
  <2> QED  BY <1>2, <1>4, <1>5, <2>1 DEF PoolFits
<1>7. NetsFine(DOMAIN new)  BY <1>1, <1>3 DEF SubnetsOK, NetsFine
<1>8. \A q \in DOMAIN new : DOMAIN new[q] = {"dhcp", "start", "end"} /\ PoolFits(q, new[q])
  <2>1. \A q \in DOMAIN subs : DOMAIN subs[q] = {"dhcp", "start", "end"} /\ PoolFits(q, subs[q])  BY Zenon DEF SubnetsOK
  <2> QED  BY <1>1, <1>5, <1>6, <2>1
<1>9. SubnetsOK(new)  BY <1>7, <1>8, Zenon DEF SubnetsOK
<1> QED  BY <1>9

LEMMA SubnetRemoved == ASSUME NEW subs, SubnetsOK(subs), NEW p PROVE SubnetsOK(Without(subs, p))
<1> PICK new : new = Without(subs, p)  OBVIOUS
<1>1. DOMAIN new \subseteq DOMAIN subs /\ \A q \in DOMAIN new : new[q] = subs[q]  BY DEF Without
<1>2. NetsFine(DOMAIN new)  BY <1>1 DEF SubnetsOK, NetsFine
<1>3. \A q \in DOMAIN subs : DOMAIN subs[q] = {"dhcp", "start", "end"} /\ PoolFits(q, subs[q])  BY Zenon DEF SubnetsOK
<1>4. SubnetsOK(new)  BY <1>1, <1>2, <1>3 DEF SubnetsOK
<1> QED  BY <1>4

LEMMA ReservationStored ==
    ASSUME NEW res, ResvOK(res), NEW m \in 1..NMacs, NEW v, v.ip \in Addrs, PrefixContains(v.net, v.ip)
    PROVE  ResvOK(With(res, m, v))
BY DEF ResvOK, With

LEMMA ReservationRemoved == ASSUME NEW res, ResvOK(res), NEW m PROVE ResvOK(Without(res, m))
BY DEF ResvOK, Without

-----------------------------------------------------------------------------
(* The requests that change no tree.                                       *)

FitInv == StoresOK /\ CallsFit(calls, resv)

RestInv ==
    /\ mode \in {"import", "serve"} /\ starts \in 0..IpamStarts
    /\ racedNets \subseteq Nets /\ racedRes \subseteq DOMAIN resv /\ dropped \cap Nets = {}

LEMMA FitTyped == ASSUME BookInv, FitInv, RestInv PROVE IpamTypeOK
<1>1. \A p \in Nets : Masked(p) = p /\ DOMAIN subnets[p] = {"dhcp", "start", "end"}
  BY DEF FitInv, StoresOK, SubnetsOK, NetsFine, Nets
<1>2. DOMAIN resv \subseteq 1..NMacs /\ \A m \in DOMAIN resv : PrefixContains(resv[m].net, resv[m].ip)
  BY DEF FitInv, StoresOK, ResvOK
<1>3. DOMAIN addrs \subseteq Addrs /\ DOMAIN leases \subseteq Addrs  BY DEF FitInv, StoresOK, AddrsOK, LeasesOK
<1>4. DOMAIN calls = IpamCallers
  <2>1. calls = [r \in IpamCallers |-> calls[r]]  BY DEF BookInv, CallsOK
  <2> QED  BY <2>1
<1> QED  BY <1>1, <1>2, <1>3, <1>4, Zenon DEF IpamTypeOK, RestInv

LEMMA NetsAreFine == ASSUME StoresOK PROVE NetsFine(Nets) /\ \A p \in Nets : Cidr(p)
BY DEF StoresOK, SubnetsOK, NetsFine, Nets

LEMMA TreesKept ==
    ASSUME StoresOK, UNCHANGED <<subnets, resv, addrs, leases>> PROVE StoresOK'
BY DEF StoresOK

\* A request goes on to n, and no tree changes.
LEMMA GoesOn ==
    ASSUME BookInv, FitInv, NEW r \in IpamCallers, NEW n, CallFits(n, resv),
           calls' = [calls EXCEPT ![r] = n], UNCHANGED <<subnets, resv, addrs, leases>>
    PROVE  FitInv'
<1>1. PICK cs2 : cs2 = calls'  OBVIOUS
<1>2. calls = [q \in IpamCallers |-> calls[q]]  BY DEF BookInv, CallsOK
<1>3. CallsFit(cs2, resv)  BY <1>1, <1>2, OneFits, Zenon DEF FitInv
<1>4. StoresOK'  BY TreesKept DEF FitInv
<1> QED  BY <1>1, <1>3, <1>4 DEF FitInv

LEMMA InputIs == ASSUME NEW i \in SubnetInputs, SubnetBodyOK(i) PROVE InputOK(i)
<1>1. i.addr \in Addrs /\ i.bits \in 0..IpamBits /\ i.dhcp \in BOOLEAN  BY IpamInputsAssumption
<1>2. i.addr \in Nat  BY <1>1 DEF Addrs
<1> QED  BY <1>1, <1>2 DEF InputOK, Cidr

LEMMA ValidatedFits ==
    ASSUME BookInv, FitInv, NEW r \in IpamCallers, NEW via, NEW i, InputOK(i),
           calls' = [calls EXCEPT ![r] = [pc |-> "putSubnet", via |-> via, in |-> i, crossed |-> FALSE]],
           UNCHANGED <<subnets, resv, addrs, leases, mode, starts, racedNets, racedRes, dropped>>
    PROVE  FitInv'
<1>1. PICK n : n = [pc |-> "putSubnet", via |-> via, in |-> i, crossed |-> FALSE]  OBVIOUS
<1>2. n.pc = "putSubnet" /\ {"pc", "in", "crossed"} \subseteq DOMAIN n /\ n.in = i  BY <1>1
<1>3. CallFits(n, resv)  BY <1>2 DEF CallFits, ReleaseOK, Releasing
<1> QED  BY <1>1, <1>3, GoesOn

LEMMA ValidatesFits == ASSUME BookInv, FitInv, NEW r \in IpamCallers, Validates(r) PROVE FitInv'
<1>1. ASSUME NEW i \in SubnetInputs, RestUpsertSubnet(r, i) \/ GrpcUpsertSubnet(r, i) PROVE FitInv'
  <2>1. SubnetBodyOK(i)  BY <1>1, Zenon DEF RestUpsertSubnet, GrpcUpsertSubnet, SubnetFits
  <2>2. InputOK(i)  BY <2>1, InputIs
  <2> QED  BY <1>1, <2>2, ValidatedFits, Zenon DEF RestUpsertSubnet, GrpcUpsertSubnet
<1>2. ASSUME NEW n \in PlanSizes, McpCreateSubnet(r, [addr |-> 0, bits |-> 0], n) PROVE FitInv'
  <2>1. PICK i \in PlanSubnet(WholeSpace, n) :
            calls' = [calls EXCEPT ![r] = [pc |-> "putSubnet", via |-> "mcp", in |-> i, crossed |-> FALSE]]
    BY <1>2, Zenon DEF McpCreateSubnet, WholeSpace
  <2>2. n \in Int /\ NetsFine(Nets)  BY IpamInputsAssumption, NetsAreFine DEF FitInv
  <2>3. Cidr(i) /\ i.dhcp = TRUE /\ SubnetFits(i, Nets)  BY <2>1, <2>2, PlanFits
  <2>4. InputOK(i)  BY <2>3 DEF InputOK, SubnetFits
  <2>5. UNCHANGED <<subnets, resv, addrs, leases, mode, starts, racedNets, racedRes, dropped>>
    BY <1>2, Zenon DEF McpCreateSubnet
  <2> QED  BY <2>1, <2>4, <2>5, ValidatedFits
<1> QED  BY <1>1, <1>2, Zenon DEF Validates

LEMMA ResolvedFits ==
    ASSUME StoresOK, NEW via, NEW mac \in 1..NMacs, NEW ip \in Addrs, NEW net, ResolveNet(ip, net, Nets) # NoNet
    PROVE  CallFits([pc |-> "taken", via |-> via, mac |-> mac, ip |-> ip, net |-> ResolveNet(ip, net, Nets)], resv)
<1>1. PICK k : k = ResolveNet(ip, net, Nets)  OBVIOUS
<1>2. PrefixContains(k, ip)  BY <1>1, NetsAreFine, ResolvedHolds
<1>3. PICK n : n = [pc |-> "taken", via |-> via, mac |-> mac, ip |-> ip, net |-> k]  OBVIOUS
<1>4. n.pc = "taken" /\ n.mac = mac /\ n.ip = ip /\ n.net = k  BY <1>3
<1>5. ReserveOK(n)  BY <1>2, <1>4 DEF ReserveOK
<1>6. CallFits(n, resv)  BY <1>4, <1>5 DEF CallFits, ReleaseOK, Releasing
<1> QED  BY <1>1, <1>3, <1>6

LEMMA ReleaseReadFits ==
    ASSUME StoresOK, NEW ip
    PROVE  CallFits([pc |-> "relLease", ip |-> ip, rec |-> Merge(NoRec, StoredRecords(ip) \o ReservedRecords(ip)),
                     crossed |-> FALSE], resv)
<1>1. PICK found : found = Merge(NoRec, StoredRecords(ip) \o ReservedRecords(ip))  OBVIOUS
<1>2. PICK n : n = [pc |-> "relLease", ip |-> ip, rec |-> found, crossed |-> FALSE]  OBVIOUS
<1>3. n.pc = "relLease" /\ n.ip = ip /\ n.rec = found /\ n.crossed = FALSE /\ {"pc", "ip", "rec", "crossed"} \subseteq DOMAIN n
  BY <1>2
<1>4. ASSUME NEW m \in DOMAIN resv, resv[m].ip = ip PROVE Names(found, m)
  <2>1. PICK a \in Nat : Records(StoredRecords(ip), a, ip)  BY StoredIs
  <2>2. PICK b \in Nat : /\ Records(ReservedRecords(ip), b, ip)
                         /\ \A j \in Reserving(ip) : \E k \in 1..b :
                               ReservedRecords(ip)[k] = [net |-> resv[j].net, state |-> "reserved", mac |-> j]
    BY ReservedIs, ZenonT(40)
  <2>3. PICK s, t, u : s = StoredRecords(ip) /\ t = ReservedRecords(ip) /\ u = s \o t  OBVIOUS
  <2>4. m \in Reserving(ip)  BY <1>4 DEF Reserving
  <2>5. PICK k \in 1..b : t[k].mac = m
    <3>1. PICK k \in 1..b : t[k] = [net |-> resv[m].net, state |-> "reserved", mac |-> m]  BY <2>2, <2>3, <2>4
    <3> QED  BY <3>1
  <2>6. Records(u, a + b, ip) /\ Among(t, b, u, a + b)
    <3>1. Records(s, a, ip) /\ Records(t, b, ip) /\ u = Cat(s, t)  BY <2>1, <2>2, <2>3 DEF Cat
    <3> QED  BY <3>1, Joined
  <2>7. PICK l \in 1..(a + b) : u[l].mac = m
    <3>1. PICK l \in 1..(a + b) : u[l] = t[k]  BY <2>6 DEF Among
    <3> QED  BY <2>5, <3>1
  <2>8. DOMAIN u = 1..(a + b)
    <3>1. u = [j \in 1..(a + b) |-> u[j]]  BY <2>6 DEF Records
    <3> QED  BY <3>1
  <2>9. m # NoMac
    <3>1. m \in 1..NMacs  BY DEF StoresOK, ResvOK
    <3> QED  BY <3>1 DEF NoMac
  <2>10. a + b \in Nat  OBVIOUS
  <2>11. Names(Merge(NoRec, u), m)  BY <2>7, <2>8, <2>9, <2>10, MergedNames
  <2> QED  BY <1>1, <2>3, <2>11
<1>5. ReleaseOK(n, resv)  BY <1>3, <1>4 DEF ReleaseOK, Names
<1>6. CallFits(n, resv)  BY <1>3, <1>5 DEF CallFits, Releasing
<1> QED  BY <1>1, <1>2, <1>6

\* The lease that is merged last leaves the client it knows, or reports a conflict.
LEMMA ReleaseLeaseFits ==
    ASSUME StoresOK, NEW c, c.pc = "relLease", CallFits(c, resv)
    PROVE  CallFits([pc |-> "relDelete", ip |-> c.ip, rec |-> Merge(c.rec, LeaseRecords(c.ip)), crossed |-> c.crossed], resv)
<1>1. PICK found : found = Merge(c.rec, LeaseRecords(c.ip))  OBVIOUS
<1>2. PICK n : n = [pc |-> "relDelete", ip |-> c.ip, rec |-> found, crossed |-> c.crossed]  OBVIOUS
<1>3. n.pc = "relDelete" /\ n.ip = c.ip /\ n.rec = found /\ n.crossed = c.crossed /\ {"pc", "ip", "rec", "crossed"} \subseteq DOMAIN n
  BY <1>2
<1>4. ReleaseOK(c, resv) /\ c.crossed \in BOOLEAN  BY DEF CallFits, Releasing
<1>5. ASSUME c.crossed = FALSE, NEW m \in DOMAIN resv, resv[m].ip = c.ip PROVE Names(found, m)
  <2>1. Names(c.rec, m)  BY <1>4, <1>5 DEF ReleaseOK, Names, Releasing
  <2>2. PICK b \in Nat : Records(LeaseRecords(c.ip), b, c.ip)  BY LeasedIs
  <2>3. PICK u : u = LeaseRecords(c.ip)  OBVIOUS
  <2>4. DOMAIN u = 1..b
    <3>1. u = [j \in 1..b |-> u[j]]  BY <2>2, <2>3 DEF Records
    <3> QED  BY <3>1
  <2>5. m # NoMac
    <3>1. m \in 1..NMacs  BY DEF StoresOK, ResvOK
    <3> QED  BY <3>1 DEF NoMac
  <2>6. Names(Merge(c.rec, u), m)  BY <2>1, <2>4, <2>5, MergedNames
  <2> QED  BY <1>1, <2>3, <2>6
<1>6. ReleaseOK(n, resv)  BY <1>3, <1>5 DEF ReleaseOK, Names
<1>7. CallFits(n, resv)  BY <1>3, <1>4, <1>6 DEF CallFits, Releasing
<1> QED  BY <1>1, <1>2, <1>7

LEMMA ReadsFit == ASSUME BookInv, FitInv, NEW r \in IpamCallers, Reads(r) PROVE FitInv'
<1> PICK c : c = calls[r]  OBVIOUS
<1>0. StoresOK /\ CallFits(c, resv)  BY DEF FitInv, CallsFit
<1>1. CallFits(Idle, resv)
  <2>1. Idle.pc = "idle"  BY DEF Idle
  <2> QED  BY <2>1, IdleFits
<1>2. PICK n : calls' = [calls EXCEPT ![r] = n] /\ CallFits(n, resv)
  <2>1. CASE \E i \in ReserveInputs : RestUpsertReservation(r, i) \/ GrpcReserveAddress(r, i)
    <3>1. PICK i, via :
              /\ i \in ReserveInputs
              /\ ResolveNet(i.ip, i.net, Nets) # NoNet
              /\ calls' = [calls EXCEPT ![r] =
                    [pc |-> "taken", via |-> via, mac |-> i.mac, ip |-> i.ip, net |-> ResolveNet(i.ip, i.net, Nets)]]
      BY <2>1, Zenon DEF RestUpsertReservation, GrpcReserveAddress
    <3>2. i.mac \in 1..NMacs /\ i.ip \in Addrs  BY <3>1, IpamInputsAssumption
    <3>3. CallFits([pc |-> "taken", via |-> via, mac |-> i.mac, ip |-> i.ip, net |-> ResolveNet(i.ip, i.net, Nets)], resv)
      BY <1>0, <3>1, <3>2, ResolvedFits
    <3> QED  BY <3>1, <3>3, Zenon
  <2>2. CASE \E ip \in DOMAIN leases : ReserveLease(r, ip)
    <3>1. PICK ip \in DOMAIN leases :
              /\ ResolveNet(ip, leases[ip].net, Nets) # NoNet
              /\ calls' = [calls EXCEPT ![r] =
                    [pc |-> "taken", via |-> "rest", mac |-> leases[ip].mac, ip |-> ip,
                     net |-> ResolveNet(ip, leases[ip].net, Nets)]]
      BY <2>2, Zenon DEF ReserveLease
    <3>2. leases[ip].mac \in 1..NMacs /\ ip \in Addrs  BY <1>0 DEF StoresOK, LeasesOK
    <3>3. CallFits([pc |-> "taken", via |-> "rest", mac |-> leases[ip].mac, ip |-> ip,
                    net |-> ResolveNet(ip, leases[ip].net, Nets)], resv)
      BY <1>0, <3>1, <3>2, ResolvedFits
    <3> QED  BY <3>1, <3>3, Zenon
  <2>3. CASE ReservationCheck(r)
    <3>1. c.pc = "taken"  BY <2>3, Zenon DEF ReservationCheck
    <3>2. PICK d : d = [pc |-> "putReservation", via |-> c.via, mac |-> c.mac, ip |-> c.ip, net |-> c.net, crossed |-> FALSE]
      OBVIOUS
    <3>3. calls' = [calls EXCEPT ![r] = IF ReservedByOther(c.mac, c.ip) THEN Idle ELSE d]
      BY <2>3, <3>2, Zenon DEF ReservationCheck
    <3>4. CallFits(d, resv)
      <4>1. ReserveOK(c)  BY <1>0, <3>1, Zenon DEF CallFits
      <4>2. d.pc = "putReservation" /\ {"pc", "mac", "ip", "net", "crossed"} \subseteq DOMAIN d
            /\ d.mac = c.mac /\ d.ip = c.ip /\ d.net = c.net
        BY <3>2
      <4>3. ReserveOK(d)  BY <4>1, <4>2 DEF ReserveOK
      <4> QED  BY <4>2, <4>3 DEF CallFits, ReleaseOK, Releasing
    <3>5. CASE ReservedByOther(c.mac, c.ip)  BY <1>1, <3>3, <3>5, Zenon
    <3>6. CASE ~ReservedByOther(c.mac, c.ip)  BY <3>3, <3>4, <3>6, Zenon
    <3> QED  BY <3>5, <3>6, Zenon
  <2>4. CASE AuditEntry(r)  BY <1>1, <2>4, Zenon DEF AuditEntry
  <2>5. CASE \E i \in ReserveInputs : ReleaseRead(r, i.ip)
    <3>1. PICK ip : calls' = [calls EXCEPT ![r] =
              [pc |-> "relLease", ip |-> ip, rec |-> Merge(NoRec, StoredRecords(ip) \o ReservedRecords(ip)), crossed |-> FALSE]]
      BY <2>5, Zenon DEF ReleaseRead
    <3> QED  BY <1>0, <3>1, ReleaseReadFits, Zenon
  <2>6. CASE ReleaseReadLease(r)
    <3>1. PICK d : d = [pc |-> "relDelete", ip |-> c.ip, rec |-> Merge(c.rec, LeaseRecords(c.ip)), crossed |-> c.crossed]
      OBVIOUS
    <3>2. c.pc = "relLease"  BY <2>6, Zenon DEF ReleaseReadLease
    <3>3. CallFits(d, resv)  BY <1>0, <3>1, <3>2, ReleaseLeaseFits
    <3>4. calls' = [calls EXCEPT ![r] =
              IF Merge(c.rec, LeaseRecords(c.ip)) = NoRec /\ InferSubnet(c.ip, Nets) = NoNet THEN Idle ELSE d]
      BY <2>6, <3>1, Zenon DEF ReleaseReadLease
    <3>5. CASE Merge(c.rec, LeaseRecords(c.ip)) = NoRec /\ InferSubnet(c.ip, Nets) = NoNet
      BY <1>1, <3>4, <3>5, Zenon
    <3>6. CASE ~(Merge(c.rec, LeaseRecords(c.ip)) = NoRec /\ InferSubnet(c.ip, Nets) = NoNet)
      BY <3>3, <3>4, <3>6, Zenon
    <3> QED  BY <3>5, <3>6, Zenon
  <2>7. CASE ReleaseRecord(r)  BY <1>1, <2>7, Zenon DEF ReleaseRecord
  <2> QED  BY <2>1, <2>2, <2>3, <2>4, <2>5, <2>6, <2>7, Zenon DEF Reads
<1>3. CASE ~ReleaseRecord(r)
  <2>1. UNCHANGED <<subnets, resv, addrs, leases>>
    BY <1>3 DEF Reads, RestUpsertReservation, GrpcReserveAddress, ReserveLease, ReservationCheck, AuditEntry,
                ReleaseRead, ReleaseReadLease
  <2> QED  BY <1>2, <2>1, GoesOn
<1>4. CASE ReleaseRecord(r)
  <2>1. addrs' = Without(addrs, c.ip) /\ UNCHANGED <<subnets, resv, leases>>  BY <1>4 DEF ReleaseRecord
  <2>2. AddrsOK(addrs')  BY <1>0, <2>1 DEF StoresOK, AddrsOK, Without
  <2>3. PICK cs2 : cs2 = calls'  OBVIOUS
  <2>4. calls = [q \in IpamCallers |-> calls[q]]  BY DEF BookInv, CallsOK
  <2>5. CallsFit(cs2, resv)  BY <1>2, <2>3, <2>4, OneFits, Zenon DEF FitInv
  <2> QED  BY <1>0, <2>1, <2>2, <2>3, <2>5 DEF FitInv, StoresOK
<1> QED  BY <1>3, <1>4

-----------------------------------------------------------------------------
(* Puts, deletions, leases, starts and imports.                            *)

LEMMA SubnetPutFits == ASSUME BookInv, FitInv, NEW r \in IpamCallers, SubnetPut(r) PROVE FitInv'
<1> PICK c : c = calls[r]  OBVIOUS
<1> PICK n : n = AfterPut(c.via)  OBVIOUS
<1>1. /\ c.pc = "putSubnet" /\ subnets' = With(subnets, KeyOf(c.in), SubnetOf(c.in))
      /\ calls' = [Crosses({"putSubnet"}) EXCEPT ![r] = n]
      /\ UNCHANGED <<resv, addrs, leases>>
  BY Zenon DEF SubnetPut
<1>2. InputOK(c.in)
  <2>1. CallFits(c, resv)  BY DEF FitInv, CallsFit
  <2> QED  BY <1>1, <2>1, Zenon DEF CallFits
<1>3. PICK subs : subs = subnets'  OBVIOUS
<1>4. SubnetsOK(subs)  BY <1>1, <1>2, <1>3, SubnetStored DEF FitInv, StoresOK
<1>5. StoresOK'  BY <1>1, <1>3, <1>4 DEF FitInv, StoresOK
<1>6. PICK cs2, pcs : cs2 = calls' /\ pcs = {"putSubnet"}  OBVIOUS
<1>7. cs2 = [[q \in IpamCallers |-> Warned(calls[q], pcs)] EXCEPT ![r] = n]  BY <1>1, <1>6, CrossesWarns, Zenon
<1>8. CallFits(n, resv)  BY AfterPutFits
<1>9. pcs \subseteq Releasing \cup {"putSubnet", "putReservation"}  BY <1>6
<1>10. CallsFit(cs2, resv)  BY <1>7, <1>8, <1>9, AllFit DEF FitInv
<1> QED  BY <1>1, <1>5, <1>6, <1>10 DEF FitInv

LEMMA DeleteSubnetFits ==
    ASSUME BookInv, FitInv, NEW r \in IpamCallers, NEW via, NEW p, DeleteSubnet(r, via, p) PROVE FitInv'
<1> PICK n : n = AfterPut(via)  OBVIOUS
<1>1. /\ subnets' = Without(subnets, p) /\ calls' = [calls EXCEPT ![r] = n]
      /\ UNCHANGED <<resv, addrs, leases>>
  BY Zenon DEF DeleteSubnet
<1>2. PICK subs, cs2 : subs = subnets' /\ cs2 = calls'  OBVIOUS
<1>3. SubnetsOK(subs)  BY <1>1, <1>2, SubnetRemoved DEF FitInv, StoresOK
<1>4. StoresOK'  BY <1>1, <1>2, <1>3 DEF FitInv, StoresOK
<1>5. calls = [q \in IpamCallers |-> calls[q]]  BY DEF BookInv, CallsOK
<1>6. CallFits(n, resv)  BY AfterPutFits
<1>7. CallsFit(cs2, resv)  BY <1>1, <1>2, <1>5, <1>6, OneFits, Zenon DEF FitInv
<1> QED  BY <1>1, <1>2, <1>4, <1>7 DEF FitInv

LEMMA ReservationPutFits == ASSUME BookInv, FitInv, NEW r \in IpamCallers, ReservationPut(r) PROVE FitInv'
<1> PICK c : c = calls[r]  OBVIOUS
<1> PICK n : n = AfterPut(c.via)  OBVIOUS
<1> PICK v : v = [ip |-> c.ip, net |-> c.net]  OBVIOUS
<1> PICK pcs : pcs = Releasing \cup {"putReservation"}  OBVIOUS
<1>1. /\ c.pc = "putReservation" /\ resv' = With(resv, c.mac, v)
      /\ calls' = [Crosses(pcs) EXCEPT ![r] = n]
      /\ UNCHANGED <<subnets, addrs, leases>>
  BY Zenon DEF ReservationPut
<1>2. ReserveOK(c)
  <2>1. CallFits(c, resv)  BY DEF FitInv, CallsFit
  <2> QED  BY <1>1, <2>1, Zenon DEF CallFits
<1>3. PICK res : res = resv'  OBVIOUS
<1>4. ResvOK(res)
  <2>1. v.ip \in Addrs /\ PrefixContains(v.net, v.ip) /\ c.mac \in 1..NMacs  BY <1>2 DEF ReserveOK
  <2> QED  BY <1>1, <1>3, <2>1, ReservationStored DEF FitInv, StoresOK
<1>5. StoresOK'  BY <1>1, <1>3, <1>4 DEF FitInv, StoresOK
<1>6. PICK cs2 : cs2 = calls'  OBVIOUS
<1>7. cs2 = [[q \in IpamCallers |-> Warned(calls[q], pcs)] EXCEPT ![r] = n]  BY <1>1, <1>6, CrossesWarns, Zenon
<1>8. CallFits(n, res)  BY AfterPutFits
<1>9. pcs \subseteq Releasing \cup {"putSubnet", "putReservation"} /\ Releasing \subseteq pcs  OBVIOUS
<1>10. CallsFit(cs2, res)  BY <1>7, <1>8, <1>9, AllFit DEF FitInv
<1> QED  BY <1>3, <1>5, <1>6, <1>10 DEF FitInv

\* A reservation is removed, by a request that goes on to n.
LEMMA UnreservedFits ==
    ASSUME FitInv, NEW r \in IpamCallers, NEW m, NEW n, CallFits(n, Without(resv, m)), resv' = Without(resv, m),
           calls' = [Crosses(Releasing) EXCEPT ![r] = n], UNCHANGED <<subnets, addrs, leases>>
    PROVE  FitInv'
<1>1. PICK cs2, res, pcs : cs2 = calls' /\ res = resv' /\ pcs = Releasing  OBVIOUS
<1>2. ResvOK(res)  BY <1>1, ReservationRemoved DEF FitInv, StoresOK
<1>3. StoresOK'  BY <1>1, <1>2 DEF FitInv, StoresOK
<1>4. cs2 = [[q \in IpamCallers |-> Warned(calls[q], pcs)] EXCEPT ![r] = n]  BY <1>1, CrossesWarns, Zenon
<1>5. CallFits(n, res)  BY <1>1
<1>6. pcs \subseteq Releasing \cup {"putSubnet", "putReservation"} /\ Releasing \subseteq pcs  BY <1>1
<1>7. CallsFit(cs2, res)  BY <1>4, <1>5, <1>6, AllFit DEF FitInv
<1> QED  BY <1>1, <1>3, <1>7 DEF FitInv

LEMMA DeleteReservationFits ==
    ASSUME FitInv, NEW r \in IpamCallers, NEW m, DeleteReservation(r, m) PROVE FitInv'
<1>1. CallFits(AfterPut("rest"), Without(resv, m))  BY AfterPutFits
<1> QED  BY <1>1, UnreservedFits DEF DeleteReservation

LEMMA ReleaseReservationFits == ASSUME FitInv, NEW r \in IpamCallers, ReleaseReservation(r) PROVE FitInv'
<1> PICK c : c = calls[r]  OBVIOUS
<1> PICK n : n = [c EXCEPT !.pc = "relRecord"]  OBVIOUS
<1> PICK res : res = Without(resv, c.rec.mac)  OBVIOUS
<1>1. /\ c.pc = "relDelete" /\ resv' = res /\ calls' = [Crosses(Releasing) EXCEPT ![r] = n]
      /\ UNCHANGED <<subnets, addrs, leases>>
  BY Zenon DEF ReleaseReservation
<1>2. CallFits(c, resv)  BY DEF FitInv, CallsFit
<1>3. {"pc", "ip", "rec", "crossed"} \subseteq DOMAIN c /\ c.crossed \in BOOLEAN /\ ReleaseOK(c, resv)
  BY <1>1, <1>2, Zenon DEF CallFits, Releasing
<1>4. n.pc = "relRecord" /\ n.ip = c.ip /\ n.rec = c.rec /\ n.crossed = c.crossed /\ DOMAIN n = DOMAIN c  BY <1>3
<1>5. \A m \in DOMAIN res : m \in DOMAIN resv /\ m # c.rec.mac /\ res[m] = resv[m]  BY DEF Without
<1>6. ReleaseOK(n, res)  BY <1>1, <1>3, <1>4, <1>5 DEF ReleaseOK, Releasing
<1>7. CallFits(n, res)  BY <1>3, <1>4, <1>6 DEF CallFits, Releasing
<1> QED  BY <1>1, <1>7, UnreservedFits

LEMMA LeaseStored ==
    ASSUME NEW ls, LeasesOK(ls), NEW l \in LeaseInputs \cup LeaseRows, NEW new,
           new = With(ls, l.ip, [mac |-> l.mac, state |-> l.state, net |-> l.net])
    PROVE  LeasesOK(new)
<1> PICK v : v = [mac |-> l.mac, state |-> l.state, net |-> l.net]  OBVIOUS
<1>1. l.mac \in 1..NMacs /\ l.ip \in Addrs  BY IpamInputsAssumption
<1>2. v.mac = l.mac  OBVIOUS
<1>3. DOMAIN new = DOMAIN ls \cup {l.ip} /\ \A a \in DOMAIN new : new[a] = IF a = l.ip THEN v ELSE ls[a]  BY DEF With
<1> QED  BY <1>1, <1>2, <1>3 DEF LeasesOK

LEMMA LeaseChangesFits == ASSUME FitInv, NEW l \in LeaseInputs, LeaseChanges(l) PROVE FitInv'
<1>1. /\ leases' = With(leases, l.ip, [mac |-> l.mac, state |-> l.state, net |-> l.net])
      /\ calls' = Crosses(Releasing) /\ UNCHANGED <<subnets, resv, addrs>>
  BY Zenon DEF LeaseChanges
<1>4. PICK ls : ls = leases'  OBVIOUS
<1>5. LeasesOK(ls)
  <2>1. LeasesOK(leases)  BY DEF FitInv, StoresOK
  <2> QED  BY <1>1, <1>4, <2>1, LeaseStored
<1>6. StoresOK'  BY <1>1, <1>4, <1>5 DEF FitInv, StoresOK
<1>7. \A q \in IpamCallers : CallFits(Warned(calls[q], Releasing), resv)
  <2> SUFFICES ASSUME NEW q \in IpamCallers PROVE CallFits(Warned(calls[q], Releasing), resv)  OBVIOUS
  <2>1. PICK c, pcs : c = calls[q] /\ pcs = Releasing  OBVIOUS
  <2>2. CallFits(c, resv)  BY <2>1 DEF FitInv, CallsFit
  <2>3. pcs \subseteq Releasing \cup {"putSubnet", "putReservation"}  BY <2>1
  <2>4. CallFits(Warned(c, pcs), resv)  BY <2>1, <2>2, <2>3, WarnedFits
  <2> QED  BY <2>1, <2>4
<1>8. PICK cs2 : cs2 = calls'  OBVIOUS
<1>9. cs2 = [q \in IpamCallers |-> Warned(calls[q], Releasing)]  BY <1>1, <1>8, CrossesWarns
<1>10. \A q \in IpamCallers : cs2[q] = Warned(calls[q], Releasing)  BY <1>9
<1>11. CallsFit(cs2, resv)  BY <1>7, <1>10, Zenon DEF CallsFit
<1> QED  BY <1>1, <1>6, <1>8, <1>11 DEF FitInv

LEMMA AllIdleFit == ASSUME NEW cs, NEW res, cs = [r \in IpamCallers |-> Idle] PROVE CallsFit(cs, res)
<1>1. PICK n : n = Idle  OBVIOUS
<1>2. n.pc = "idle"  BY <1>1 DEF Idle
<1>3. CallFits(n, res)  BY <1>2, IdleFits
<1>4. \A r \in IpamCallers : cs[r] = n  BY <1>1
<1> QED  BY <1>3, <1>4 DEF CallsFit

LEMMA StartFits == ASSUME FitInv, NEW i \in SubnetInputs, IpamStart(i) PROVE FitInv'
<1> PICK cs2, subs, res : cs2 = calls' /\ subs = subnets' /\ res = resv'  OBVIOUS
<1>1. cs2 = [r \in IpamCallers |-> Idle] /\ UNCHANGED <<resv, addrs, leases>>  BY DEF IpamStart
<1>2. CallsFit(cs2, res)  BY <1>1, AllIdleFit
<1>3. SubnetsOK(subs)
  <2>1. CASE CidrOf(i) \in Nets
    <3>1. subs = subnets  BY <2>1 DEF IpamStart, SeedFromConfig
    <3> QED  BY <3>1 DEF FitInv, StoresOK
  <2>2. CASE CidrOf(i) \notin Nets
    <3>1. SubnetFits(i, Nets) /\ subs = With(subnets, KeyOf(i), SubnetOf(i))  BY <2>2 DEF IpamStart, SeedFromConfig
    <3>2. InputOK(i)  BY <3>1, InputIs DEF SubnetFits
    <3> QED  BY <3>1, <3>2, SubnetStored DEF FitInv, StoresOK
  <2> QED  BY <2>1, <2>2
<1> QED  BY <1>1, <1>2, <1>3 DEF FitInv, StoresOK

LEMMA ImportsFit ==
    ASSUME BookInv, FitInv, NEW skip,
           \/ \E i \in SubnetInputs : ImportSubnet(i, skip)
           \/ \E row \in AddressRows : ImportAddress(row, skip)
           \/ \E i \in ReserveInputs : ImportReservation(i, skip)
           \/ \E row \in LeaseRows : ImportLease(row, skip)
    PROVE  FitInv'
<1>1. mode = "import" /\ UNCHANGED calls  BY DEF ImportSubnet, ImportAddress, ImportReservation, ImportLease
<1>2. \A res : CallsFit(calls, res)
  <2>1. PICK cs2 : cs2 = calls  OBVIOUS
  <2>2. cs2 = [r \in IpamCallers |-> Idle]  BY <1>1, <2>1, ImportingIdle
  <2> QED  BY <2>1, <2>2, AllIdleFit
<1>3. CallsFit(calls', resv')
  <2>1. PICK res : res = resv'  OBVIOUS
  <2>2. CallsFit(calls, res)  BY <1>2
  <2> QED  BY <1>1, <2>1, <2>2
<1>4. CASE \E i \in SubnetInputs : ImportSubnet(i, skip)
  <2>1. PICK i \in SubnetInputs : ImportSubnet(i, skip)  BY <1>4
  <2>2. SubnetFits(i, Nets) /\ subnets' = With(subnets, KeyOf(i), SubnetOf(i)) /\ UNCHANGED <<resv, addrs, leases>>
    BY <2>1, Zenon DEF ImportSubnet
  <2>3. InputOK(i)  BY <2>2, InputIs DEF SubnetFits
  <2>4. PICK subs : subs = subnets'  OBVIOUS
  <2>5. SubnetsOK(subs)  BY <2>2, <2>3, <2>4, SubnetStored DEF FitInv, StoresOK
  <2> QED  BY <1>1, <1>3, <2>2, <2>4, <2>5 DEF FitInv, StoresOK
<1>5. CASE \E row \in AddressRows : ImportAddress(row, skip)
  <2>1. PICK row \in AddressRows : ImportAddress(row, skip)  BY <1>5
  <2>2. PICK net : net = ResolveNet(row.ip, row.net, Nets)  OBVIOUS
  <2>3. PICK v : v = [net |-> net, state |-> row.state, mac |-> row.mac]  OBVIOUS
  <2>4. net # NoNet /\ addrs' = With(addrs, row.ip, v) /\ UNCHANGED <<subnets, resv, leases>>
    BY <2>1, <2>2, <2>3, Zenon DEF ImportAddress
  <2>5. PrefixContains(net, row.ip)  BY <2>2, <2>4, NetsAreFine, ResolvedHolds DEF FitInv
  <2>6. row.ip \in Addrs /\ row.state \in IPStates /\ row.mac \in 0..NMacs  BY IpamInputsAssumption
  <2>7. PICK recs : recs = addrs'  OBVIOUS
  <2>8. AddrsOK(recs)
    <3>1. DOMAIN recs = DOMAIN addrs \cup {row.ip} /\ \A a \in DOMAIN recs : recs[a] = IF a = row.ip THEN v ELSE addrs[a]
      BY <2>4, <2>7 DEF With
    <3>2. v.net = net /\ v.state = row.state /\ v.mac = row.mac  BY <2>3
    <3>3. AddrsOK(addrs)  BY DEF FitInv, StoresOK
    <3> QED  BY <2>5, <2>6, <3>1, <3>2, <3>3 DEF AddrsOK
  <2> QED  BY <1>1, <1>3, <2>4, <2>7, <2>8 DEF FitInv, StoresOK
<1>6. CASE \E i \in ReserveInputs : ImportReservation(i, skip)
  <2>1. PICK i \in ReserveInputs : ImportReservation(i, skip)  BY <1>6
  <2>2. PICK net : net = ResolveNet(i.ip, i.net, Nets)  OBVIOUS
  <2>3. PICK v : v = [ip |-> i.ip, net |-> net]  OBVIOUS
  <2>4. net # NoNet /\ resv' = With(resv, i.mac, v) /\ UNCHANGED <<subnets, addrs, leases>>
    BY <2>1, <2>2, <2>3, Zenon DEF ImportReservation
  <2>5. PrefixContains(net, i.ip)  BY <2>2, <2>4, NetsAreFine, ResolvedHolds DEF FitInv
  <2>6. i.ip \in Addrs /\ i.mac \in 1..NMacs  BY IpamInputsAssumption
  <2>7. PICK res : res = resv'  OBVIOUS
  <2>8. v.ip \in Addrs /\ PrefixContains(v.net, v.ip)  BY <2>3, <2>5, <2>6
  <2>9. ResvOK(res)  BY <2>4, <2>6, <2>7, <2>8, ReservationStored DEF FitInv, StoresOK
  <2> QED  BY <1>1, <1>3, <2>4, <2>7, <2>9 DEF FitInv, StoresOK
<1>7. CASE \E row \in LeaseRows : ImportLease(row, skip)
  <2>1. PICK row \in LeaseRows : ImportLease(row, skip)  BY <1>7
  <2>2. /\ leases' = With(leases, row.ip, [mac |-> row.mac, state |-> row.state, net |-> row.net])
        /\ UNCHANGED <<subnets, resv, addrs>>
    BY <2>1, Zenon DEF ImportLease
  <2>3. PICK ls : ls = leases'  OBVIOUS
  <2>4. LeasesOK(ls)
    <3>1. LeasesOK(leases)  BY DEF FitInv, StoresOK
    <3> QED  BY <2>2, <2>3, <3>1, LeaseStored
  <2> QED  BY <1>3, <2>2, <2>3, <2>4 DEF FitInv, StoresOK
<1> QED  BY <1>4, <1>5, <1>6, <1>7

-----------------------------------------------------------------------------
(* What is filed is filed under a subnet that is stored or was deleted.    *)

LEMMA FiledGrows ==
    ASSUME FiledInv, NEW F, Filed \subseteq F
    PROVE  ResFiled(resv, F) /\ RecFiled(addrs, F) /\ CallsFiled(calls, F)
BY DEF FiledInv, ResFiled, RecFiled, CallsFiled, CallFiled

LEMMA IdleFiled == ASSUME NEW c, c.pc \notin {"taken", "putReservation"}, NEW F PROVE CallFiled(c, F)
BY DEF CallFiled

LEMMA AfterPutFiled == ASSUME NEW via, NEW F PROVE CallFiled(AfterPut(via), F)
<1>1. AfterPut(via).pc \in {"idle", "audit"}  BY DEF AfterPut, Idle
<1> QED  BY <1>1, IdleFiled

LEMMA OneFiled ==
    ASSUME NEW cs, NEW cs2, NEW r \in IpamCallers, NEW n, NEW F, CallsFiled(cs, F), CallFiled(n, F),
           cs = [q \in IpamCallers |-> cs[q]], cs2 = [cs EXCEPT ![r] = n]
    PROVE  CallsFiled(cs2, F)
<1>1. \A q \in IpamCallers : cs2[q] = n \/ cs2[q] = cs[q]  OBVIOUS
<1> QED  BY <1>1, Zenon DEF CallsFiled

\* A request that is told of a change keeps the subnet it resolved.
LEMMA WarnedFiled ==
    ASSUME NEW c, NEW pcs, pcs \subseteq Releasing \cup {"putSubnet", "putReservation"}, NEW res, CallFits(c, res),
           NEW F, CallFiled(c, F)
    PROVE  CallFiled(Warned(c, pcs), F)
<1>1. CASE c.pc \notin pcs
  <2>1. Warned(c, pcs) = c  BY <1>1 DEF Warned
  <2> QED  BY <2>1
<1>2. CASE c.pc \in pcs
  <2>1. PICK d : d = [c EXCEPT !.crossed = TRUE]  OBVIOUS
  <2>2. Warned(c, pcs) = d  BY <1>2, <2>1 DEF Warned
  <2>3. c.pc = "putSubnet" \/ c.pc = "putReservation" \/ c.pc \in Releasing  BY <1>2
  <2>4. {"pc", "crossed"} \subseteq DOMAIN c /\ (c.pc = "putReservation" => "net" \in DOMAIN c)
    BY <2>3 DEF CallFits
  <2>5. d.pc = c.pc /\ (c.pc = "putReservation" => d.net = c.net)  BY <2>1, <2>4
  <2> QED  BY <2>2, <2>3, <2>5 DEF CallFiled, Releasing
<1> QED  BY <1>1, <1>2

LEMMA AllFiled ==
    ASSUME NEW cs, NEW cs2, NEW pcs, NEW r \in IpamCallers, NEW n, NEW res, NEW F,
           pcs \subseteq Releasing \cup {"putSubnet", "putReservation"},
           cs2 = [[q \in IpamCallers |-> Warned(cs[q], pcs)] EXCEPT ![r] = n],
           CallFiled(n, F), CallsFit(cs, res), CallsFiled(cs, F)
    PROVE  CallsFiled(cs2, F)
<1>1. \A q \in IpamCallers : cs2[q] = n \/ cs2[q] = Warned(cs[q], pcs)  OBVIOUS
<1>2. ASSUME NEW q \in IpamCallers PROVE CallFiled(Warned(cs[q], pcs), F)
  <2>1. PICK c : c = cs[q]  OBVIOUS
  <2>2. CallFits(c, res) /\ CallFiled(c, F)  BY <2>1 DEF CallsFit, CallsFiled
  <2> QED  BY <2>1, <2>2, WarnedFiled
<1> QED  BY <1>1, <1>2, Zenon DEF CallsFiled

\* Requests that validate, read or resolve.
LEMMA MovesFiled ==
    ASSUME BookInv, FitInv, FiledInv, NEW r \in IpamCallers, Validates(r) \/ Reads(r) PROVE FiledInv'
<1> PICK c : c = calls[r]  OBVIOUS
<1>1. CallFiled(Idle, Filed)
  <2>1. Idle.pc \notin {"taken", "putReservation"}  BY DEF Idle
  <2> QED  BY <2>1, IdleFiled
<1>2. ASSUME NEW n, calls' = [calls EXCEPT ![r] = n], CallFiled(n, Filed),
             UNCHANGED <<subnets, resv, dropped>>, \A a \in DOMAIN addrs' : a \in DOMAIN addrs /\ addrs'[a] = addrs[a]
      PROVE  FiledInv'
  <2>1. PICK cs2, recs : cs2 = calls' /\ recs = addrs'  OBVIOUS
  <2>2. calls = [q \in IpamCallers |-> calls[q]]  BY DEF BookInv, CallsOK
  <2>3. CallsFiled(cs2, Filed)  BY <1>2, <2>1, <2>2, OneFiled, Zenon DEF FiledInv
  <2>4. RecFiled(recs, Filed)  BY <1>2, <2>1 DEF FiledInv, RecFiled
  <2>5. Filed' = Filed  BY <1>2 DEF Filed, Nets
  <2> QED  BY <1>2, <2>1, <2>3, <2>4, <2>5 DEF FiledInv
<1>3. ASSUME NEW via, NEW i, calls' = [calls EXCEPT ![r] = [pc |-> "putSubnet", via |-> via, in |-> i, crossed |-> FALSE]],
             UNCHANGED <<subnets, resv, addrs, leases, mode, starts, racedNets, racedRes, dropped>>
      PROVE  FiledInv'
  <2>1. PICK n : n = [pc |-> "putSubnet", via |-> via, in |-> i, crossed |-> FALSE]  OBVIOUS
  <2>2. n.pc = "putSubnet"  BY <2>1
  <2>3. CallFiled(n, Filed)  BY <2>2, IdleFiled
  <2> QED  BY <1>2, <1>3, <2>1, <2>3
<1>4. ASSUME NEW via, NEW mac, NEW ip, NEW net, ResolveNet(ip, net, Nets) # NoNet,
             calls' = [calls EXCEPT ![r] = [pc |-> "taken", via |-> via, mac |-> mac, ip |-> ip, net |-> ResolveNet(ip, net, Nets)]],
             UNCHANGED <<subnets, resv, addrs, leases, mode, starts, racedNets, racedRes, dropped>>
      PROVE  FiledInv'
  <2>1. PICK k : k = ResolveNet(ip, net, Nets)  OBVIOUS
  <2>2. k \in Nets  BY <1>4, <2>1, NetsAreFine, ResolvedHolds DEF FitInv
  <2>3. PICK n : n = [pc |-> "taken", via |-> via, mac |-> mac, ip |-> ip, net |-> k]  OBVIOUS
  <2>4. n.net = k  BY <2>3
  <2>5. CallFiled(n, Filed)  BY <2>2, <2>4 DEF CallFiled, Filed
  <2> QED  BY <1>2, <1>4, <2>1, <2>3, <2>5
<1>5. CASE \E i \in SubnetInputs : RestUpsertSubnet(r, i)  BY <1>3, <1>5, Zenon DEF RestUpsertSubnet
<1>6. CASE \E i \in SubnetInputs : GrpcUpsertSubnet(r, i)  BY <1>3, <1>6, Zenon DEF GrpcUpsertSubnet
<1>7. CASE \E n \in PlanSizes : McpCreateSubnet(r, [addr |-> 0, bits |-> 0], n)
  BY <1>3, <1>7, Zenon DEF McpCreateSubnet
<1>8. CASE \E i \in ReserveInputs : RestUpsertReservation(r, i)
  <2>1. PICK i \in ReserveInputs : RestUpsertReservation(r, i)  BY <1>8
  <2> PICK via, mac, ip, net : via = "rest" /\ mac = i.mac /\ ip = i.ip /\ net = i.net  OBVIOUS
  <2>2. /\ ResolveNet(ip, net, Nets) # NoNet
        /\ calls' = [calls EXCEPT ![r] = [pc |-> "taken", via |-> via, mac |-> mac, ip |-> ip, net |-> ResolveNet(ip, net, Nets)]]
    BY <2>1, Zenon DEF RestUpsertReservation
  <2>3. UNCHANGED <<subnets, resv, addrs, leases, mode, starts, racedNets, racedRes, dropped>>
    BY <2>1, Zenon DEF RestUpsertReservation
  <2> QED  BY <1>4, <2>2, <2>3
<1>9. CASE \E i \in ReserveInputs : GrpcReserveAddress(r, i)
  <2>1. PICK i \in ReserveInputs : GrpcReserveAddress(r, i)  BY <1>9
  <2> PICK via, mac, ip, net : via = "grpc" /\ mac = i.mac /\ ip = i.ip /\ net = i.net  OBVIOUS
  <2>2. /\ ResolveNet(ip, net, Nets) # NoNet
        /\ calls' = [calls EXCEPT ![r] = [pc |-> "taken", via |-> via, mac |-> mac, ip |-> ip, net |-> ResolveNet(ip, net, Nets)]]
    BY <2>1, Zenon DEF GrpcReserveAddress
  <2>3. UNCHANGED <<subnets, resv, addrs, leases, mode, starts, racedNets, racedRes, dropped>>
    BY <2>1, Zenon DEF GrpcReserveAddress
  <2> QED  BY <1>4, <2>2, <2>3
<1>10. CASE \E ip \in DOMAIN leases : ReserveLease(r, ip)
  <2>1. PICK ip \in DOMAIN leases : ReserveLease(r, ip)  BY <1>10
  <2> PICK via, mac, net : via = "rest" /\ mac = leases[ip].mac /\ net = leases[ip].net  OBVIOUS
  <2>2. /\ ResolveNet(ip, net, Nets) # NoNet
        /\ calls' = [calls EXCEPT ![r] = [pc |-> "taken", via |-> via, mac |-> mac, ip |-> ip, net |-> ResolveNet(ip, net, Nets)]]
    BY <2>1, Zenon DEF ReserveLease
  <2>3. UNCHANGED <<subnets, resv, addrs, leases, mode, starts, racedNets, racedRes, dropped>>
    BY <2>1, Zenon DEF ReserveLease
  <2> QED  BY <1>4, <2>2, <2>3
<1>11. CASE ReservationCheck(r)
  <2>1. c.pc = "taken"  BY <1>11, Zenon DEF ReservationCheck
  <2>2. PICK d : d = [pc |-> "putReservation", via |-> c.via, mac |-> c.mac, ip |-> c.ip, net |-> c.net, crossed |-> FALSE]
    OBVIOUS
  <2>3. calls' = [calls EXCEPT ![r] = IF ReservedByOther(c.mac, c.ip) THEN Idle ELSE d]
    BY <1>11, <2>2, Zenon DEF ReservationCheck
  <2>4. CallFiled(c, Filed)  BY DEF FiledInv, CallsFiled
  <2>5. d.net = c.net  BY <2>2
  <2>6. CallFiled(d, Filed)  BY <2>1, <2>4, <2>5 DEF CallFiled
  <2>7. PICK n : n = IF ReservedByOther(c.mac, c.ip) THEN Idle ELSE d  OBVIOUS
  <2>8. CallFiled(n, Filed)  BY <1>1, <2>6, <2>7
  <2>9. UNCHANGED <<subnets, resv, addrs, dropped>>  BY <1>11 DEF ReservationCheck
  <2> QED  BY <1>2, <2>3, <2>7, <2>8, <2>9
<1>12. CASE AuditEntry(r)
  <2>1. calls' = [calls EXCEPT ![r] = Idle] /\ UNCHANGED <<subnets, resv, addrs, dropped>>  BY <1>12 DEF AuditEntry
  <2> QED  BY <1>1, <1>2, <2>1
<1>13. ASSUME NEW pc \in Releasing, NEW ip, NEW found, NEW x,
              calls' = [calls EXCEPT ![r] = [pc |-> pc, ip |-> ip, rec |-> found, crossed |-> x]],
              UNCHANGED <<subnets, resv, addrs, dropped>>
       PROVE  FiledInv'
  <2>1. PICK n : n = [pc |-> pc, ip |-> ip, rec |-> found, crossed |-> x]  OBVIOUS
  <2>2. n.pc \notin {"taken", "putReservation"}  BY <2>1 DEF Releasing
  <2>3. CallFiled(n, Filed)  BY <2>2, IdleFiled
  <2> QED  BY <1>2, <1>13, <2>1, <2>3
<1>14. CASE \E i \in ReserveInputs : ReleaseRead(r, i.ip)
  <2>1. PICK ip, found : calls' = [calls EXCEPT ![r] = [pc |-> "relLease", ip |-> ip, rec |-> found, crossed |-> FALSE]]
    BY <1>14, Zenon DEF ReleaseRead
  <2>2. UNCHANGED <<subnets, resv, addrs, dropped>>  BY <1>14 DEF ReleaseRead
  <2>3. "relLease" \in Releasing  BY DEF Releasing
  <2> QED  BY <1>13, <2>1, <2>2, <2>3
<1>15. CASE ReleaseReadLease(r)
  <2>1. UNCHANGED <<subnets, resv, addrs, dropped>>  BY <1>15 DEF ReleaseReadLease
  <2>2. PICK found : calls' = [calls EXCEPT ![r] =
            IF found = NoRec /\ InferSubnet(c.ip, Nets) = NoNet THEN Idle
            ELSE [pc |-> "relDelete", ip |-> c.ip, rec |-> found, crossed |-> c.crossed]]
    BY <1>15, Zenon DEF ReleaseReadLease
  <2>3. "relDelete" \in Releasing  BY DEF Releasing
  <2>4. CASE found = NoRec /\ InferSubnet(c.ip, Nets) = NoNet
    <3>1. calls' = [calls EXCEPT ![r] = Idle]  BY <2>2, <2>4, Zenon
    <3> QED  BY <1>1, <1>2, <2>1, <3>1
  <2>5. CASE ~(found = NoRec /\ InferSubnet(c.ip, Nets) = NoNet)
    <3>1. calls' = [calls EXCEPT ![r] = [pc |-> "relDelete", ip |-> c.ip, rec |-> found, crossed |-> c.crossed]]
      BY <2>2, <2>5, Zenon
    <3> QED  BY <1>13, <2>1, <2>3, <3>1
  <2> QED  BY <2>4, <2>5
<1>16. CASE ReleaseRecord(r)
  <2>1. calls' = [calls EXCEPT ![r] = Idle] /\ UNCHANGED <<subnets, resv, dropped>> /\ addrs' = Without(addrs, c.ip)
    BY <1>16 DEF ReleaseRecord
  <2>2. \A a \in DOMAIN addrs' : a \in DOMAIN addrs /\ addrs'[a] = addrs[a]  BY <2>1 DEF Without
  <2> QED  BY <1>1, <1>2, <2>1, <2>2
<1> QED
  BY <1>5, <1>6, <1>7, <1>8, <1>9, <1>10, <1>11, <1>12, <1>14, <1>15, <1>16, Zenon DEF Validates, Reads

LEMMA SubnetsFiled ==
    ASSUME BookInv, FitInv, FiledInv, NEW r \in IpamCallers,
           SubnetPut(r) \/ \E via \in {"rest", "grpc"}, p \in Nets : DeleteSubnet(r, via, p)
    PROVE  FiledInv'
<1>0. ASSUME NEW F, NEW n, CallFiled(n, F), NEW pcs, pcs \subseteq Releasing \cup {"putSubnet", "putReservation"},
             NEW cs2, cs2 = [[q \in IpamCallers |-> Warned(calls[q], pcs)] EXCEPT ![r] = n], CallsFiled(calls, F)
      PROVE  CallsFiled(cs2, F)
  <2>1. CallsFit(calls, resv)  BY DEF FitInv
  <2> QED  BY <1>0, <2>1, AllFiled
<1> PICK F : F = Filed'  OBVIOUS
<1>1. CASE SubnetPut(r)
  <2> PICK c, p, n, pcs : c = calls[r] /\ p = KeyOf(c.in) /\ n = AfterPut(c.via) /\ pcs = {"putSubnet"}  OBVIOUS
  <2>1. /\ subnets' = With(subnets, p, SubnetOf(c.in)) /\ dropped' = dropped \ {p}
        /\ calls' = [Crosses({"putSubnet"}) EXCEPT ![r] = n] /\ UNCHANGED <<resv, addrs>>
    BY <1>1, Zenon DEF SubnetPut
  <2>2. Nets' = Nets \cup {p}  BY <2>1, WithDomain DEF Nets
  <2>3. Filed \subseteq F  BY <2>1, <2>2 DEF Filed
  <2>4. ResFiled(resv, F) /\ RecFiled(addrs, F) /\ CallsFiled(calls, F)  BY <2>3, FiledGrows
  <2>5. PICK cs2 : cs2 = calls'  OBVIOUS
  <2>6. cs2 = [[q \in IpamCallers |-> Warned(calls[q], pcs)] EXCEPT ![r] = n]  BY <2>1, <2>5, CrossesWarns, Zenon
  <2>7. pcs \subseteq Releasing \cup {"putSubnet", "putReservation"}  OBVIOUS
  <2>8. CallFiled(n, F)  BY AfterPutFiled
  <2>9. CallsFiled(cs2, F)  BY <1>0, <2>4, <2>6, <2>7, <2>8, Zenon
  <2> QED  BY <2>1, <2>4, <2>5, <2>9 DEF FiledInv
<1>2. CASE \E via \in {"rest", "grpc"}, p \in Nets : DeleteSubnet(r, via, p)
  <2>1. PICK via, p : p \in Nets /\ DeleteSubnet(r, via, p)  BY <1>2
  <2> PICK n : n = AfterPut(via)  OBVIOUS
  <2>2. /\ subnets' = Without(subnets, p) /\ dropped' = dropped \cup {p}
        /\ calls' = [calls EXCEPT ![r] = n] /\ UNCHANGED <<resv, addrs>>
    BY <2>1, Zenon DEF DeleteSubnet
  <2>3. Nets' = Nets \ {p}  BY <2>2, WithoutDomain DEF Nets
  <2>4. Filed \subseteq F  BY <2>2, <2>3 DEF Filed
  <2>5. ResFiled(resv, F) /\ RecFiled(addrs, F) /\ CallsFiled(calls, F)  BY <2>4, FiledGrows
  <2>6. PICK cs2 : cs2 = calls'  OBVIOUS
  <2>7. calls = [q \in IpamCallers |-> calls[q]] /\ CallFiled(n, F)  BY AfterPutFiled DEF BookInv, CallsOK
  <2>8. CallsFiled(cs2, F)  BY <2>2, <2>5, <2>6, <2>7, OneFiled, Zenon
  <2> QED  BY <2>2, <2>5, <2>6, <2>8 DEF FiledInv
<1> QED  BY <1>1, <1>2

LEMMA ReservationsFiled ==
    ASSUME FitInv, FiledInv, NEW r \in IpamCallers,
           \/ ReservationPut(r) \/ ReleaseReservation(r)
           \/ \E m \in DOMAIN resv : DeleteReservation(r, m)
    PROVE  FiledInv'
<1> PICK c : c = calls[r]  OBVIOUS
<1>1. CallFits(c, resv) /\ CallFiled(c, Filed)  BY DEF FitInv, CallsFit, FiledInv, CallsFiled
<1>2. UNCHANGED <<subnets, addrs, dropped>>  BY DEF ReservationPut, ReleaseReservation, DeleteReservation
<1>3. Filed' = Filed  BY <1>2 DEF Filed, Nets
<1>4. ASSUME NEW n, CallFiled(n, Filed), NEW pcs, pcs \subseteq Releasing \cup {"putSubnet", "putReservation"},
             calls' = [Crosses(pcs) EXCEPT ![r] = n], ResFiled(resv', Filed)
      PROVE  FiledInv'
  <2>1. PICK cs2 : cs2 = calls'  OBVIOUS
  <2>2. cs2 = [[q \in IpamCallers |-> Warned(calls[q], pcs)] EXCEPT ![r] = n]  BY <1>4, <2>1, CrossesWarns, Zenon
  <2>3. CallsFit(calls, resv) /\ CallsFiled(calls, Filed)  BY DEF FitInv, FiledInv
  <2>4. CallsFiled(cs2, Filed)  BY <1>4, <2>2, <2>3, AllFiled
  <2> QED  BY <1>2, <1>3, <1>4, <2>1, <2>4 DEF FiledInv
<1>5. \A m : ResFiled(Without(resv, m), Filed)  BY DEF FiledInv, ResFiled, Without
<1>6. CASE ReservationPut(r)
  <2> PICK v, n, pcs : v = [ip |-> c.ip, net |-> c.net] /\ n = AfterPut(c.via) /\ pcs = Releasing \cup {"putReservation"}
    OBVIOUS
  <2>1. c.pc = "putReservation" /\ resv' = With(resv, c.mac, v) /\ calls' = [Crosses(pcs) EXCEPT ![r] = n]
    BY <1>6, Zenon DEF ReservationPut
  <2>2. c.net \in Filed /\ v.net = c.net  BY <1>1, <2>1 DEF CallFiled
  <2>3. PICK res : res = resv'  OBVIOUS
  <2>4. DOMAIN res = DOMAIN resv \cup {c.mac} /\ \A m \in DOMAIN res : res[m] = IF m = c.mac THEN v ELSE resv[m]
    BY <2>1, <2>3 DEF With
  <2>5. ResFiled(res, Filed)  BY <2>2, <2>4 DEF FiledInv, ResFiled
  <2>6. CallFiled(n, Filed) /\ pcs \subseteq Releasing \cup {"putSubnet", "putReservation"}  BY AfterPutFiled
  <2> QED  BY <1>4, <2>1, <2>3, <2>5, <2>6
<1>7. CASE ReleaseReservation(r)
  <2> PICK n, pcs : n = [c EXCEPT !.pc = "relRecord"] /\ pcs = Releasing  OBVIOUS
  <2>1. c.pc = "relDelete" /\ resv' = Without(resv, c.rec.mac) /\ calls' = [Crosses(pcs) EXCEPT ![r] = n]
    BY <1>7, Zenon DEF ReleaseReservation
  <2>2. "pc" \in DOMAIN c  BY <1>1, <2>1 DEF CallFits, Releasing
  <2>3. n.pc = "relRecord"  BY <2>2
  <2>4. CallFiled(n, Filed) /\ pcs \subseteq Releasing \cup {"putSubnet", "putReservation"}  BY <2>3, IdleFiled
  <2>5. ResFiled(resv', Filed)  BY <1>5, <2>1
  <2> QED  BY <1>4, <2>1, <2>4, <2>5
<1>8. CASE \E m \in DOMAIN resv : DeleteReservation(r, m)
  <2> PICK n, pcs : n = AfterPut("rest") /\ pcs = Releasing  OBVIOUS
  <2>1. PICK m : resv' = Without(resv, m) /\ calls' = [Crosses(pcs) EXCEPT ![r] = n]
    BY <1>8, Zenon DEF DeleteReservation
  <2>2. CallFiled(n, Filed) /\ pcs \subseteq Releasing \cup {"putSubnet", "putReservation"}  BY AfterPutFiled
  <2>3. ResFiled(resv', Filed)  BY <1>5, <2>1
  <2> QED  BY <1>4, <2>1, <2>2, <2>3
<1> QED  BY <1>6, <1>7, <1>8

LEMMA LeaseChangesFiled ==
    ASSUME FitInv, FiledInv, NEW l, LeaseChanges(l) PROVE FiledInv'
<1>1. calls' = Crosses(Releasing) /\ UNCHANGED <<subnets, resv, addrs, dropped>>  BY DEF LeaseChanges
<1>2. PICK cs2, pcs : cs2 = calls' /\ pcs = Releasing  OBVIOUS
<1>3. cs2 = [q \in IpamCallers |-> Warned(calls[q], pcs)]  BY <1>1, <1>2, CrossesWarns
<1>4. ASSUME NEW q \in IpamCallers PROVE CallFiled(Warned(calls[q], pcs), Filed)
  <2>1. PICK c : c = calls[q]  OBVIOUS
  <2>2. CallFits(c, resv) /\ CallFiled(c, Filed)  BY <2>1 DEF FitInv, CallsFit, FiledInv, CallsFiled
  <2>3. pcs \subseteq Releasing \cup {"putSubnet", "putReservation"}  BY <1>2
  <2>4. CallFiled(Warned(c, pcs), Filed)  BY <2>2, <2>3, WarnedFiled
  <2> QED  BY <2>1, <2>4
<1>5. \A q \in IpamCallers : cs2[q] = Warned(calls[q], pcs)  BY <1>3
<1>6. CallsFiled(cs2, Filed)  BY <1>4, <1>5, Zenon DEF CallsFiled
<1>7. Filed' = Filed  BY <1>1 DEF Filed, Nets
<1> QED  BY <1>1, <1>2, <1>6, <1>7 DEF FiledInv

LEMMA StartFiled == ASSUME FiledInv, NEW i, IpamStart(i) PROVE FiledInv'
<1> PICK F, cs2, n : F = Filed' /\ cs2 = calls' /\ n = Idle  OBVIOUS
<1>1. cs2 = [r \in IpamCallers |-> n] /\ UNCHANGED <<resv, addrs>> /\ dropped' = dropped \ Nets'  BY DEF IpamStart, Nets
<1>2. Nets \subseteq Nets'
  <2>1. CASE CidrOf(i) \in Nets
    <3>1. subnets' = subnets  BY <2>1, Zenon DEF IpamStart, SeedFromConfig
    <3> QED  BY <3>1 DEF Nets
  <2>2. CASE CidrOf(i) \notin Nets
    <3> PICK p, v : p = KeyOf(i) /\ v = SubnetOf(i)  OBVIOUS
    <3>1. subnets' = With(subnets, p, v)  BY <2>2, Zenon DEF IpamStart, SeedFromConfig
    <3>2. Nets' = Nets \cup {p}  BY <3>1, WithDomain DEF Nets
    <3> QED  BY <3>2
  <2> QED  BY <2>1, <2>2
<1>3. Filed \subseteq F  BY <1>1, <1>2 DEF Filed
<1>4. ResFiled(resv, F) /\ RecFiled(addrs, F)  BY <1>3, FiledGrows
<1>5. n.pc \notin {"taken", "putReservation"}  BY DEF Idle
<1>6. CallFiled(n, F)  BY <1>5, IdleFiled
<1>7. \A r \in IpamCallers : cs2[r] = n  BY <1>1
<1>8. CallsFiled(cs2, F)  BY <1>6, <1>7 DEF CallsFiled
<1> QED  BY <1>1, <1>4, <1>8 DEF FiledInv

LEMMA ImportsFiled ==
    ASSUME FitInv, FiledInv, NEW skip,
           \/ \E i \in SubnetInputs : ImportSubnet(i, skip)
           \/ \E row \in AddressRows : ImportAddress(row, skip)
           \/ \E i \in ReserveInputs : ImportReservation(i, skip)
           \/ \E row \in LeaseRows : ImportLease(row, skip)
    PROVE  FiledInv'
<1> PICK F : F = Filed'  OBVIOUS
<1>1. UNCHANGED calls  BY DEF ImportSubnet, ImportAddress, ImportReservation, ImportLease
<1>2. CASE \E i \in SubnetInputs : ImportSubnet(i, skip)
  <2>1. PICK i : ImportSubnet(i, skip)  BY <1>2
  <2>2. PICK p : p = KeyOf(i)  OBVIOUS
  <2>3. subnets' = With(subnets, p, SubnetOf(i)) /\ dropped' = dropped \ {p} /\ UNCHANGED <<resv, addrs>>
    BY <2>1, <2>2 DEF ImportSubnet
  <2>4. Nets' = Nets \cup {p}  BY <2>3, WithDomain DEF Nets
  <2>5. Filed \subseteq F  BY <2>3, <2>4 DEF Filed
  <2>6. ResFiled(resv, F) /\ RecFiled(addrs, F) /\ CallsFiled(calls, F)  BY <2>5, FiledGrows
  <2> QED  BY <1>1, <2>3, <2>6 DEF FiledInv
<1>3. CASE \E row \in AddressRows : ImportAddress(row, skip)
  <2>1. PICK row : ImportAddress(row, skip)  BY <1>3
  <2>2. PICK net : net = ResolveNet(row.ip, row.net, Nets)  OBVIOUS
  <2>3. PICK v : v = [net |-> net, state |-> row.state, mac |-> row.mac]  OBVIOUS
  <2>4. net # NoNet /\ addrs' = With(addrs, row.ip, v) /\ UNCHANGED <<subnets, resv, dropped>>
    BY <2>1, <2>2, <2>3, Zenon DEF ImportAddress
  <2>5. net \in Nets  BY <2>2, <2>4, NetsAreFine, ResolvedHolds DEF FitInv
  <2>6. Filed' = Filed /\ v.net \in Filed  BY <2>3, <2>4, <2>5 DEF Filed, Nets
  <2>7. PICK recs : recs = addrs'  OBVIOUS
  <2>8. DOMAIN recs = DOMAIN addrs \cup {row.ip} /\ \A a \in DOMAIN recs : recs[a] = IF a = row.ip THEN v ELSE addrs[a]
    BY <2>4, <2>7 DEF With
  <2>9. RecFiled(recs, Filed)  BY <2>6, <2>8 DEF FiledInv, RecFiled
  <2> QED  BY <1>1, <2>4, <2>6, <2>7, <2>9 DEF FiledInv
<1>4. CASE \E i \in ReserveInputs : ImportReservation(i, skip)
  <2>1. PICK i : ImportReservation(i, skip)  BY <1>4
  <2>2. PICK net : net = ResolveNet(i.ip, i.net, Nets)  OBVIOUS
  <2>3. PICK v : v = [ip |-> i.ip, net |-> net]  OBVIOUS
  <2>4. net # NoNet /\ resv' = With(resv, i.mac, v) /\ UNCHANGED <<subnets, addrs, dropped>>
    BY <2>1, <2>2, <2>3, Zenon DEF ImportReservation
  <2>5. net \in Nets  BY <2>2, <2>4, NetsAreFine, ResolvedHolds DEF FitInv
  <2>6. Filed' = Filed /\ v.net \in Filed  BY <2>3, <2>4, <2>5 DEF Filed, Nets
  <2>7. PICK res : res = resv'  OBVIOUS
  <2>8. DOMAIN res = DOMAIN resv \cup {i.mac} /\ \A m \in DOMAIN res : res[m] = IF m = i.mac THEN v ELSE resv[m]
    BY <2>4, <2>7 DEF With
  <2>9. ResFiled(res, Filed)  BY <2>6, <2>8 DEF FiledInv, ResFiled
  <2> QED  BY <1>1, <2>4, <2>6, <2>7, <2>9 DEF FiledInv
<1>5. CASE \E row \in LeaseRows : ImportLease(row, skip)
  <2>1. UNCHANGED <<subnets, resv, addrs, dropped>>  BY <1>5 DEF ImportLease
  <2>2. Filed' = Filed  BY <2>1 DEF Filed, Nets
  <2> QED  BY <1>1, <2>1, <2>2 DEF FiledInv
<1> QED  BY <1>2, <1>3, <1>4, <1>5

LEMMA FiledSteps == ASSUME BookInv, FitInv, FiledInv, [IpamNext]_ipamVars PROVE FiledInv'
<1>1. ASSUME NEW r \in IpamCallers, Validates(r) \/ Reads(r) PROVE FiledInv'  BY <1>1, MovesFiled, Zenon
<1>2. ASSUME NEW r \in IpamCallers, SubnetPut(r) \/ \E via \in {"rest", "grpc"}, p \in Nets : DeleteSubnet(r, via, p)
      PROVE  FiledInv'
  BY <1>2, SubnetsFiled, Zenon
<1>3. ASSUME NEW r \in IpamCallers,
             \/ ReservationPut(r) \/ ReleaseReservation(r)
             \/ \E m \in DOMAIN resv : DeleteReservation(r, m)
      PROVE  FiledInv'
  BY <1>3, ReservationsFiled, Zenon
<1>4. ASSUME \/ \E l \in LeaseInputs : LeaseChanges(l)
             \/ \E i \in SubnetInputs : IpamStart(i)
      PROVE  FiledInv'
  BY <1>4, LeaseChangesFiled, StartFiled, Zenon
<1>5. ASSUME NEW skip \in BOOLEAN,
             \/ \E i \in SubnetInputs : ImportSubnet(i, skip)
             \/ \E row \in AddressRows : ImportAddress(row, skip)
             \/ \E i \in ReserveInputs : ImportReservation(i, skip)
             \/ \E row \in LeaseRows : ImportLease(row, skip)
      PROVE  FiledInv'
  BY <1>5, ImportsFiled, Zenon
<1>6. CASE UNCHANGED ipamVars
  BY <1>6 DEF ipamVars, FiledInv, ResFiled, RecFiled, CallsFiled, CallFiled, Filed, Nets
<1> QED  BY <1>1, <1>2, <1>3, <1>4, <1>5, <1>6, Zenon DEF IpamNext, Validates, Reads

-----------------------------------------------------------------------------
(* All steps, and the theorems.                                            *)

LEMMA FitSteps ==
    ASSUME BookInv, FitInv, [IpamNext]_ipamVars PROVE FitInv'
<1>1. ASSUME NEW r \in IpamCallers, Validates(r) \/ Reads(r) PROVE FitInv'
  BY <1>1, ValidatesFits, ReadsFit, Zenon
<1>2. ASSUME NEW r \in IpamCallers,
             \/ SubnetPut(r)
             \/ \E via \in {"rest", "grpc"}, p \in Nets : DeleteSubnet(r, via, p)
      PROVE  FitInv'
  BY <1>2, SubnetPutFits, DeleteSubnetFits, Zenon
<1>3. ASSUME NEW r \in IpamCallers,
             \/ ReservationPut(r) \/ ReleaseReservation(r)
             \/ \E m \in DOMAIN resv : DeleteReservation(r, m)
      PROVE  FitInv'
  BY <1>3, ReservationPutFits, ReleaseReservationFits, DeleteReservationFits, Zenon
<1>4. ASSUME \/ \E l \in LeaseInputs : LeaseChanges(l)
             \/ \E i \in SubnetInputs : IpamStart(i)
      PROVE  FitInv'
  BY <1>4, LeaseChangesFits, StartFits, Zenon
<1>5. ASSUME NEW skip \in BOOLEAN,
             \/ \E i \in SubnetInputs : ImportSubnet(i, skip)
             \/ \E row \in AddressRows : ImportAddress(row, skip)
             \/ \E i \in ReserveInputs : ImportReservation(i, skip)
             \/ \E row \in LeaseRows : ImportLease(row, skip)
      PROVE  FitInv'
  BY <1>5, ImportsFit, Zenon
<1>6. CASE UNCHANGED ipamVars  BY <1>6 DEF ipamVars, FitInv, StoresOK
<1> QED  BY <1>1, <1>2, <1>3, <1>4, <1>5, <1>6, Zenon DEF IpamNext, Validates, Reads

\* What is raced is stored; the mode and the starts.
LEMMA RestSteps == ASSUME RestInv, [IpamNext]_ipamVars PROVE RestInv'
<1> USE DEF RestInv
<1>1. ASSUME NEW r \in IpamCallers, Validates(r) \/ Reads(r) PROVE RestInv'
  <2>1. UNCHANGED <<subnets, resv, mode, starts, racedNets, racedRes, dropped>>
    BY <1>1 DEF Validates, Reads, RestUpsertSubnet, GrpcUpsertSubnet, McpCreateSubnet, RestUpsertReservation,
                GrpcReserveAddress, ReserveLease, ReservationCheck, AuditEntry, ReleaseRead, ReleaseReadLease, ReleaseRecord
  <2> QED  BY <2>1 DEF Nets
<1>2. ASSUME NEW r \in IpamCallers, SubnetPut(r) PROVE RestInv'
  <2> PICK p, v : p = KeyOf(calls[r].in) /\ v = SubnetOf(calls[r].in)  OBVIOUS
  <2>1. /\ subnets' = With(subnets, p, v) /\ (racedNets' = racedNets \cup {p} \/ racedNets' = racedNets \ {p})
        /\ dropped' = dropped \ {p} /\ UNCHANGED <<resv, mode, starts, racedRes>>
    BY <1>2 DEF SubnetPut
  <2>2. Nets' = Nets \cup {p}  BY <2>1, WithDomain DEF Nets
  <2> QED  BY <2>1, <2>2
<1>3. ASSUME NEW r \in IpamCallers, NEW via, NEW p, DeleteSubnet(r, via, p) PROVE RestInv'
  <2>1. /\ Nets' = Nets \ {p} /\ racedNets' = racedNets \ {p} /\ dropped' = dropped \cup {p}
        /\ UNCHANGED <<resv, mode, starts, racedRes>>
    BY <1>3, WithoutDomain DEF DeleteSubnet, Nets
  <2> QED  BY <2>1
<1>4. ASSUME NEW r \in IpamCallers, ReservationPut(r) PROVE RestInv'
  <2> PICK m, v : m = calls[r].mac /\ v = [ip |-> calls[r].ip, net |-> calls[r].net]  OBVIOUS
  <2>1. /\ resv' = With(resv, m, v) /\ (racedRes' = racedRes \cup {m} \/ racedRes' = racedRes \ {m})
        /\ UNCHANGED <<subnets, mode, starts, racedNets, dropped>>
    BY <1>4 DEF ReservationPut
  <2>2. DOMAIN resv' = DOMAIN resv \cup {m}  BY <2>1, WithDomain
  <2> QED  BY <2>1, <2>2 DEF Nets
<1>5. ASSUME NEW r \in IpamCallers, ReleaseReservation(r) \/ \E m \in DOMAIN resv : DeleteReservation(r, m) PROVE RestInv'
  <2>1. PICK m : /\ resv' = Without(resv, m) /\ racedRes' = racedRes \ {m}
                 /\ UNCHANGED <<subnets, mode, starts, racedNets, dropped>>
    BY <1>5, Zenon DEF ReleaseReservation, DeleteReservation
  <2>2. DOMAIN resv' = DOMAIN resv \ {m}  BY <2>1, WithoutDomain
  <2> QED  BY <2>1, <2>2 DEF Nets
<1>6. ASSUME NEW l, LeaseChanges(l) PROVE RestInv'  BY <1>6 DEF LeaseChanges, Nets
<1>7. ASSUME NEW i, IpamStart(i) PROVE RestInv'
  <2>1. /\ mode' \in {"import", "serve"} /\ starts' \in 0..IpamStarts /\ UNCHANGED <<resv, racedRes>>
        /\ dropped' = dropped \ Nets'
    BY <1>7, IpamInputsAssumption DEF IpamStart, Nets
  <2>2. racedNets' \subseteq Nets'
    <3>1. CASE subnets' = subnets  BY <1>7, <3>1 DEF IpamStart, Nets
    <3>2. CASE subnets' # subnets
      <4>1. subnets' = With(subnets, KeyOf(i), SubnetOf(i)) /\ racedNets' = racedNets \ {KeyOf(i)}
        BY <1>7, <3>2 DEF IpamStart, SeedFromConfig
      <4>2. PICK p : p = KeyOf(i)  OBVIOUS
      <4>3. Nets' = Nets \cup {p}  BY <4>1, <4>2, WithDomain DEF Nets
      <4> QED  BY <4>1, <4>2, <4>3
    <3> QED  BY <3>1, <3>2
  <2> QED  BY <2>1, <2>2
<1>8. ASSUME NEW i, NEW skip, ImportSubnet(i, skip) PROVE RestInv'
  <2>1. /\ Nets' = Nets \cup {KeyOf(i)} /\ dropped' = dropped \ {KeyOf(i)}
        /\ UNCHANGED <<resv, mode, starts, racedNets, racedRes>>
    BY <1>8, WithDomain DEF ImportSubnet, Nets
  <2> QED  BY <2>1
<1>9. ASSUME NEW row, NEW skip, ImportAddress(row, skip) PROVE RestInv'  BY <1>9 DEF ImportAddress, Nets
<1>10. ASSUME NEW i, NEW skip, ImportReservation(i, skip) PROVE RestInv'
  <2>1. DOMAIN resv' = DOMAIN resv \cup {i.mac} /\ UNCHANGED <<subnets, mode, starts, racedNets, racedRes, dropped>>
    BY <1>10, WithDomain DEF ImportReservation
  <2> QED  BY <2>1 DEF Nets
<1>11. ASSUME NEW row, NEW skip, ImportLease(row, skip) PROVE RestInv'  BY <1>11 DEF ImportLease, Nets
<1>12. CASE UNCHANGED ipamVars  BY <1>12 DEF ipamVars, Nets
<1> QED
  <2> USE DEF Validates, Reads
  <2> QED  BY <1>1, <1>2, <1>3, <1>4, <1>5, <1>6, <1>7, <1>8, <1>9, <1>10, <1>11, <1>12, Zenon DEF IpamNext

IpamInv == BookInv /\ FitInv /\ FiledInv /\ RestInv

LEMMA IpamStartsWell == IpamInit => IpamInv
<1> SUFFICES ASSUME IpamInit PROVE IpamInv  OBVIOUS
<1>1. BookInv  BY BookStart
<1>2. subnets = << >> /\ resv = << >> /\ addrs = << >> /\ leases = << >>  BY DEF IpamInit
<1>3. DOMAIN subnets = {} /\ DOMAIN resv = {} /\ DOMAIN addrs = {} /\ DOMAIN leases = {}  BY <1>2
<1>4. StoresOK  BY <1>3 DEF StoresOK, SubnetsOK, NetsFine, ResvOK, AddrsOK, LeasesOK
<1>5. CallsFit(calls, resv)
  <2>1. PICK cs : cs = calls  OBVIOUS
  <2>2. cs = [r \in IpamCallers |-> Idle]  BY <2>1 DEF IpamInit
  <2> QED  BY <2>1, <2>2, AllIdleFit
<1>6. RestInv  BY IpamInputsAssumption DEF IpamInit, RestInv
<1>7. FiledInv
  <2>1. PICK cs, n : cs = calls /\ n = Idle  OBVIOUS
  <2>2. cs = [r \in IpamCallers |-> n]  BY <2>1 DEF IpamInit
  <2>3. n.pc \notin {"taken", "putReservation"}  BY <2>1 DEF Idle
  <2>4. \A r \in IpamCallers : CallFiled(cs[r], Filed)  BY <2>2, <2>3, IdleFiled
  <2> QED  BY <1>3, <2>1, <2>4 DEF FiledInv, ResFiled, RecFiled, CallsFiled
<1> QED  BY <1>1, <1>4, <1>5, <1>6, <1>7 DEF IpamInv, FitInv

LEMMA IpamInvSteps == IpamInv /\ [IpamNext]_ipamVars => IpamInv'
BY BookSteps, FitSteps, FiledSteps, RestSteps DEF IpamInv

LEMMA IpamImplied == IpamInv => IpamTypeOK /\ PlanAccepted /\ ListingRight
<1> SUFFICES ASSUME IpamInv PROVE IpamTypeOK /\ PlanAccepted /\ ListingRight  OBVIOUS
<1>1. IpamTypeOK  BY FitTyped DEF IpamInv
<1>2. PlanAccepted  BY NetsAreFine, PlansAccepted DEF IpamInv, FitInv
<1>3. SubnetsDisjoint  BY Booked DEF IpamInv, NoDoubleBooking
<1>4. ListingRight  BY <1>3, Listings DEF IpamInv, FitInv
<1> QED  BY <1>1, <1>2, <1>4

LEMMA ReleaseStep ==
    ASSUME IpamInv, NEW r \in IpamCallers, ReleaseRecord(r), ~calls[r].crossed, calls[r].rec.state # "conflict",
           NEW m \in DOMAIN resv
    PROVE  resv[m].ip # calls[r].ip
<1> PICK c : c = calls[r]  OBVIOUS
<1>1. CallFits(c, resv)  BY DEF IpamInv, FitInv, CallsFit
<1>2. c.pc = "relRecord"  BY Zenon DEF ReleaseRecord
<1>3. c.crossed = FALSE  BY <1>1, <1>2 DEF CallFits, Releasing
<1> QED  BY <1>1, <1>2, <1>3 DEF CallFits, ReleaseOK, Releasing

LEMMA RestartStep ==
    ASSUME NEW i, IpamStart(i), NEW p \in Nets
    PROVE  subnets'[p] = subnets[p] \/ (p = KeyOf(i) /\ CidrOf(i) # p)
BY DEF IpamStart, SeedFromConfig, With, Nets

\* The stored subnets are masked CIDRs, whatever prefix a request, an import or
\* the configuration file writes; every reservation lies in its subnet; the
\* trees hold addresses and clients of the network.
THEOREM IpamTypeCorrect == IpamSpec => []IpamTypeOK
BY IpamStartsWell, IpamInvSteps, IpamImplied, PTL DEF IpamSpec

\* What plan_subnet proposes (smallestIPv4Prefix, findCandidatePrefix and
\* defaultPlanAddresses) passes the validation of create_subnet, for every width
\* of an address and every size asked, and it refuses only when no block is free.
THEOREM PlansAreAccepted == IpamSpec => []PlanAccepted
BY IpamStartsWell, IpamInvSteps, IpamImplied, PTL DEF IpamSpec

\* ListAddresses merges records, reservations and leases so that what
\* NextAvailable proposes is free and the capacity agrees with the listing.
THEOREM ListingsAreRight == IpamSpec => []ListingRight
BY IpamStartsWell, IpamInvSteps, IpamImplied, PTL DEF IpamSpec

\* ReleaseAddress, which reads and deletes in separate transactions, leaves its
\* address unreserved unless it was disturbed; SeedFromConfig keeps the edits.
THEOREM ReleasesAndRestarts == IpamSpec => IpamSteps
<1> DEFINE A == \A r \in IpamCallers :
                   ReleaseRecord(r) /\ ~calls[r].crossed /\ calls[r].rec.state # "conflict" =>
                       \A m \in DOMAIN resv : resv[m].ip # calls[r].ip
           B == \A i \in SubnetInputs : IpamStart(i) =>
                   \A p \in Nets : subnets'[p] = subnets[p] \/ (p = KeyOf(i) /\ CidrOf(i) # p)
<1>1. IpamInv => A  BY ReleaseStep, Zenon
<1>2. B  BY RestartStep, Zenon
<1>3. ReleaseFrees <=> [][A]_ipamVars  BY DEF ReleaseFrees
<1>4. RestartKeepsEdits <=> [][B]_ipamVars  BY DEF RestartKeepsEdits
<1> HIDE DEF A, B
<1> QED  BY <1>1, <1>2, <1>3, <1>4, IpamStartsWell, IpamInvSteps, PTL DEF IpamSpec, IpamSteps
=============================================================================
