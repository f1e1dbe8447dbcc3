----------------------------- MODULE PciBusProofs -----------------------------
(***************************************************************************)
(* Proofs about PciBus, for every set of devices, every number and size of *)
(* BARs and every address, when the guest moves a BAR only while the       *)
(* device does not decode memory (Disciplined).                            *)
(***************************************************************************)
EXTENDS PciBus, FiniteSetTheorems, TLAPS

----------------------------------------------------------------------------
(* Natural numbers and finite sets.                                        *)

(* A set of natural numbers that is not empty has a least element. *)
LEMMA LeastNat ==
  ASSUME NEW T \in SUBSET Nat, T # {}
  PROVE  \E x \in T : \A y \in T : x <= y
  <1> DEFINE R == OpToRel(<, Nat)
  <1>1. IsWellFoundedOn(R, Nat)
    BY NatLessThanWellFounded, Zenon
  <1>2. \A x, y \in Nat : x < y => <<x, y>> \in R
    BY Zenon DEF OpToRel
  <1> HIDE DEF R
  <1>3. PICK x \in T : \A y \in T : ~(<<y, x>> \in R)
    BY <1>1, WFMin, Zenon
  <1>4. ASSUME NEW y \in T PROVE x <= y
    <2>1. ~(y < x)
      BY <1>2, <1>3, Zenon
    <2> QED BY <2>1
  <1> QED BY <1>4, Zenon

LEMMA RegionsFinite == IsFiniteSet(Regions) /\ Cardinality(Regions) \in Nat
  <1>1. IsFiniteSet(BarNums)
    BY PciAssumption, FS_Interval DEF BarNums
  <1>2. IsFiniteSet(Devs)
    BY PciAssumption, Zenon
  <1>3. IsFiniteSet(Regions)
    BY <1>1, <1>2, FS_Product, Zenon DEF Regions
  <1> QED BY <1>3, FS_CardinalityType, Zenon

(* A region is not the NULL pointer. *)
LEMMA NullNotRegion == NULL \notin Regions
  BY DEF NULL, Regions

(* Different regions fill at most the whole set. *)
LEMMA ListFits ==
  ASSUME NEW n \in Nat, NEW s \in [1 .. n -> Regions],
         \A j, k \in 1 .. n : s[j] = s[k] => j = k
  PROVE  n <= Cardinality(Regions)
  <1>1. s \in Injection(1 .. n, Regions)
    BY Zenon DEF Injection, IsInjective
  <1>2. Cardinality(1 .. n) <= Cardinality(Regions)
    BY <1>1, RegionsFinite, FS_Injection, Zenon
  <1>3. Cardinality(1 .. n) = n
    BY FS_Interval
  <1> QED BY <1>2, <1>3, Zenon

----------------------------------------------------------------------------
(* Lists.                                                                  *)

(* Following the next pointers visits s[1], s[2], ... and then stays at    *)
(* NULL: the loops of iobus.c visit what the pointers chain.               *)
LEMMA WalkIs ==
  ASSUME NEW b, NEW n \in 0 .. Cardinality(Regions), NEW s \in [1 .. n -> Regions],
         Linked(b, n, s)
  PROVE  Walk(b) = [k \in 0 .. Cardinality(Regions) |-> IF k < n THEN s[k + 1] ELSE NULL]
  <1> DEFINE N == Cardinality(Regions)
             g == [k \in 0 .. N |-> IF k < n THEN s[k + 1] ELSE NULL]
             Rec(f) == f = [k \in 0 .. N |->
                              IF k = 0 THEN b.head
                              ELSE IF f[k - 1] = NULL THEN NULL ELSE b.next[f[k - 1]]]
  <1>1. N \in Nat
    BY RegionsFinite, Zenon
  <1> HIDE DEF N
  <1>2. Rec(g)
    <2> SUFFICES ASSUME NEW k \in 0 .. N
                 PROVE  g[k] = IF k = 0 THEN b.head
                               ELSE IF g[k - 1] = NULL THEN NULL ELSE b.next[g[k - 1]]
      OBVIOUS
    <2>1. CASE k = 0
      BY <1>1, <2>1 DEF Linked
    <2>2. CASE k # 0 /\ k - 1 < n
      <3>1. g[k - 1] = s[k] /\ s[k] \in Regions
        BY <1>1, <2>2
      <3>2. b.next[s[k]] = IF k = n THEN NULL ELSE s[k + 1]
        BY <1>1, <2>2 DEF Linked
      <3> QED BY <1>1, <2>2, <3>1, <3>2, NullNotRegion
    <2>3. CASE k # 0 /\ k - 1 >= n
      BY <1>1, <2>3
    <2> QED BY <1>1, <2>1, <2>2, <2>3
  <1>3. ASSUME NEW f, Rec(f) PROVE f = g
    <2> DEFINE T == {k \in 0 .. N : f[k] # g[k]}
    <2>1. CASE T = {}
      <3>1. DOMAIN f = 0 .. N /\ f = [k \in 0 .. N |-> f[k]]
        BY <1>3, Zenon
      <3>2. \A k \in 0 .. N : f[k] = g[k]
        BY <2>1, Zenon
      <3> HIDE DEF Rec
      <3> QED BY <3>1, <3>2, Zenon
    <2>2. CASE T # {}
      <3>1. T \in SUBSET Nat
        BY <1>1
      <3>2. PICK k \in T : \A j \in T : k <= j
        BY <2>2, <3>1, LeastNat, Zenon
      <3>3. k \in 0 .. N /\ f[k] # g[k]
        OBVIOUS
      <3>4. f[k] = IF k = 0 THEN b.head
                   ELSE IF f[k - 1] = NULL THEN NULL ELSE b.next[f[k - 1]]
        BY <1>3, <3>3, Zenon
      <3>5. g[k] = IF k = 0 THEN b.head
                   ELSE IF g[k - 1] = NULL THEN NULL ELSE b.next[g[k - 1]]
        BY <1>2, <3>3, Zenon
      <3>6. k # 0 => f[k - 1] = g[k - 1]
        <4>1. k # 0 => k - 1 \in 0 .. N /\ ~(k <= k - 1)
          BY <1>1, <3>3
        <4> HIDE DEF g
        <4> QED BY <3>2, <4>1, Zenon
      <3> HIDE DEF g, Rec, T
      <3> QED BY <3>3, <3>4, <3>5, <3>6, Zenon
    <2> QED BY <2>1, <2>2, Zenon
  <1>4. Walk(b) = CHOOSE f : Rec(f)
    BY Zenon DEF Walk, N
  <1>5. Rec(Walk(b))
    <2> HIDE DEF Rec, g
    <2> QED BY <1>2, <1>4, Zenon
  <1>6. Walk(b) = g
    <2> HIDE DEF Rec, g
    <2> QED BY <1>3, <1>5, Zenon
  <1> QED BY <1>6, Zenon DEF N

(* What is on the list. *)
LEMMA OnListIs ==
  ASSUME NEW b, NEW n \in 0 .. Cardinality(Regions), NEW s \in [1 .. n -> Regions],
         Linked(b, n, s)
  PROVE  OnList(b) = {s[k] : k \in 1 .. n}
  <1> DEFINE N == Cardinality(Regions)
             W == [k \in 0 .. N |-> IF k < n THEN s[k + 1] ELSE NULL]
  <1>1. Walk(b) = W
    BY WalkIs, Zenon
  <1>2. N \in Nat
    BY RegionsFinite, Zenon
  <1>3. OnList(b) = {W[k] : k \in 0 .. N} \ {NULL}
    BY <1>1, Zenon DEF OnList
  <1> HIDE DEF N
  <1>4. ASSUME NEW r \in OnList(b) PROVE \E k \in 1 .. n : r = s[k]
    <2>1. PICK k \in 0 .. N : r = W[k] /\ r # NULL
      BY <1>3, Zenon
    <2>2. k < n
      BY <2>1, Zenon
    <2> QED BY <1>2, <2>1, <2>2
  <1>5. ASSUME NEW k \in 1 .. n PROVE s[k] \in OnList(b)
    <2>1. k - 1 \in 0 .. N /\ W[k - 1] = s[k] /\ s[k] \in Regions
      BY <1>2 DEF N
    <2> QED BY <1>3, <2>1, NullNotRegion, Zenon
  <1> QED BY <1>4, <1>5, Zenon

(* iobus_register_region puts a region that is not on the list first. *)
LEMMA RegisterLinks ==
  ASSUME NEW b \in Buses,
         NEW n \in Nat, NEW s \in [1 .. n -> Regions], Linked(b, n, s),
         NEW r \in Regions, \A k \in 1 .. n : s[k] # r
  PROVE  Linked(Register(b, r), n + 1, [k \in 1 .. n + 1 |-> IF k = 1 THEN r ELSE s[k - 1]])
  <1> DEFINE t == [k \in 1 .. n + 1 |-> IF k = 1 THEN r ELSE s[k - 1]]
             c == Register(b, r)
  <1>1. c.head = t[1]
    BY DEF Register
  <1>2. \A x \in Regions : c.next[x] = IF x = r THEN b.head ELSE b.next[x]
    BY Zenon DEF Register, Buses
  <1>3. ASSUME NEW k \in 1 .. n + 1
        PROVE  c.next[t[k]] = IF k = n + 1 THEN NULL ELSE t[k + 1]
    <2>1. CASE k = 1
      <3>1. c.next[t[k]] = b.head
        BY <1>2, <2>1, Zenon
      <3> QED BY <2>1, <3>1 DEF Linked
    <2>2. CASE k > 1
      <3>1. k - 1 \in 1 .. n /\ t[k] = s[k - 1] /\ s[k - 1] \in Regions /\ s[k - 1] # r
        BY <2>2
      <3>2. c.next[t[k]] = b.next[s[k - 1]]
        BY <1>2, <3>1, Zenon
      <3>3. b.next[s[k - 1]] = IF k - 1 = n THEN NULL ELSE s[k]
        BY <3>1 DEF Linked
      <3> QED BY <2>2, <3>2, <3>3
    <2> QED BY <2>1, <2>2
  <1>4. ASSUME NEW j \in 1 .. n + 1, NEW k \in 1 .. n + 1, t[j] = t[k] PROVE j = k
    BY <1>4 DEF Linked
  <1> HIDE DEF c, t
  <1>5. Linked(c, n + 1, t)
    BY <1>1, <1>3, <1>4 DEF Linked
  <1> QED BY <1>5, Zenon DEF c, t

(* iobus_deregister_region takes a region off the list and closes the gap. *)
LEMMA DeregisterLinks ==
  ASSUME NEW b \in Buses,
         NEW n \in 0 .. Cardinality(Regions), NEW s \in [1 .. n -> Regions], Linked(b, n, s),
         NEW m \in 1 .. n, b.onBus[s[m]]
  PROVE  /\ Linked(Deregister(b, s[m]), n - 1,
                   [k \in 1 .. n - 1 |-> IF k < m THEN s[k] ELSE s[k + 1]])
         /\ Deregister(b, s[m]).onBus = b.onBus
         /\ Deregister(b, s[m]) \in Buses
  <1> DEFINE t == [k \in 1 .. n - 1 |-> IF k < m THEN s[k] ELSE s[k + 1]]
             c == Deregister(b, s[m])
  <1>0. n \in Nat /\ m \in Nat
    BY RegionsFinite
  <1>1. OnList(b) = {s[k] : k \in 1 .. n}
    BY OnListIs, Zenon
  <1>2. \A k \in 1 .. n : b.next[s[k]] = IF k = n THEN NULL ELSE s[k + 1]
    BY Zenon DEF Linked
  <1>3. \A j, k \in 1 .. n : s[j] = s[k] => j = k
    BY Zenon DEF Linked
  <1>4. CASE m = 1
    <2>1. b.head = s[m]
      BY <1>0, <1>4 DEF Linked
    <2>2. c = [b EXCEPT !.head = b.next[s[m]]]
      BY <1>1, <2>1, Zenon DEF Deregister
    <2> HIDE DEF c
    <2>3. c.head = b.next[s[m]] /\ c.next = b.next /\ c.onBus = b.onBus
      BY <2>2, Zenon DEF Buses
    <2>4. Linked(c, n - 1, t)
      <3>1. c.head = IF n - 1 = 0 THEN NULL ELSE t[1]
        BY <1>0, <1>2, <1>4, <2>3
      <3>2. \A k \in 1 .. n - 1 : c.next[t[k]] = IF k = n - 1 THEN NULL ELSE t[k + 1]
        BY <1>0, <1>2, <1>4, <2>3
      <3>3. \A j, k \in 1 .. n - 1 : t[j] = t[k] => j = k
        BY <1>0, <1>3, <1>4
      <3> QED BY <3>1, <3>2, <3>3, Zenon DEF Linked
    <2>5. c \in Buses
      BY <2>2, Zenon DEF Buses
    <2> QED BY <2>3, <2>4, <2>5, Zenon DEF c
  <1>5. CASE m > 1
    <2>1. b.head # s[m]
      <3>1. b.head = s[1]
        BY <1>0, <1>5 DEF Linked
      <3> QED BY <1>0, <1>3, <1>5, <3>1
    <2>2. (CHOOSE q \in OnList(b) : b.next[q] = s[m]) = s[m - 1]
      <3>1. s[m - 1] \in OnList(b) /\ b.next[s[m - 1]] = s[m]
        BY <1>0, <1>1, <1>2, <1>5
      <3>2. ASSUME NEW q \in OnList(b), b.next[q] = s[m] PROVE q = s[m - 1]
        <4>1. PICK k \in 1 .. n : q = s[k]
          BY <1>1, Zenon
        <4>2. s[m] # NULL
          BY <1>0, NullNotRegion, Zenon
        <4>3. k # n /\ s[k + 1] = s[m]
          BY <1>2, <3>2, <4>1, <4>2, Zenon
        <4>4. k + 1 = m
          BY <1>0, <1>3, <4>3
        <4> QED BY <1>0, <4>1, <4>4
      <3> QED BY <3>1, <3>2, Zenon
    <2>3. c = [b EXCEPT !.next[s[m - 1]] = b.next[s[m]]]
      BY <1>1, <2>1, <2>2, Zenon DEF Deregister
    <2> HIDE DEF c
    <2>4. m - 1 \in 1 .. n /\ s[m - 1] \in Regions /\ s[m] \in Regions
      BY <1>0, <1>5
    <2>5. /\ c.head = b.head /\ c.onBus = b.onBus
          /\ \A x \in Regions : c.next[x] = IF x = s[m - 1] THEN b.next[s[m]] ELSE b.next[x]
      BY <2>3, <2>4, Zenon DEF Buses
    <2>6. Linked(c, n - 1, t)
      <3>1. c.head = IF n - 1 = 0 THEN NULL ELSE t[1]
        BY <1>0, <1>5, <2>5 DEF Linked
      <3>2. ASSUME NEW k \in 1 .. n - 1
            PROVE  c.next[t[k]] = IF k = n - 1 THEN NULL ELSE t[k + 1]
        <4>1. CASE k < m - 1
          <5>1. t[k] = s[k] /\ s[k] \in Regions /\ s[k] # s[m - 1] /\ t[k + 1] = s[k + 1]
            BY <1>0, <1>3, <2>4, <4>1
          <5>2. c.next[t[k]] = b.next[s[k]]
            BY <2>5, <5>1, Zenon
          <5> QED BY <1>0, <1>2, <4>1, <5>1, <5>2
        <4>2. CASE k = m - 1
          <5>1. t[k] = s[m - 1]
            BY <1>0, <4>2
          <5>2. c.next[t[k]] = b.next[s[m]]
            BY <2>4, <2>5, <5>1, Zenon
          <5> QED BY <1>0, <1>2, <4>2, <5>2
        <4>3. CASE k > m - 1
          <5>1. t[k] = s[k + 1] /\ s[k + 1] \in Regions /\ s[k + 1] # s[m - 1]
            BY <1>0, <1>3, <2>4, <4>3
          <5>2. c.next[t[k]] = b.next[s[k + 1]]
            BY <2>5, <5>1, Zenon
          <5> QED BY <1>0, <1>2, <4>3, <5>2
        <4> QED BY <1>0, <4>1, <4>2, <4>3
      <3>3. \A j, k \in 1 .. n - 1 : t[j] = t[k] => j = k
        BY <1>0, <1>3
      <3> HIDE DEF t
      <3> QED BY <3>1, <3>2, <3>3, Zenon DEF Linked
    <2>7. c \in Buses
      BY <2>3, <2>4, Zenon DEF Buses
    <2> QED BY <2>5, <2>6, <2>7, Zenon DEF c
  <1> QED BY <1>0, <1>4, <1>5

----------------------------------------------------------------------------
(* Bases.                                                                  *)

(* Masking a value clears its low bits, once and for all. *)
LEMMA MaskedIs ==
  ASSUME NEW v \in Nat, NEW size \in Nat
  PROVE  /\ Masked(v, size) \in Nat /\ Masked(v, size) <= v
         /\ Masked(Masked(v, size), size) = Masked(v, size)
  <1>1. CASE size = 0
    BY <1>1 DEF Masked
  <1>2. CASE size > 0
    <2> DEFINE q == v \div size
    <2>1. q * size \in Nat /\ q * size <= v /\ (q * size) \div size = q
      BY <1>2
    <2> QED BY <1>2, <2>1 DEF Masked
  <1> QED BY <1>1, <1>2

(* A region is in the list's lookup as pci_bar_command saw it: its base is *)
(* still not 0 after masking.                                              *)
LEMMA DecodesIs ==
  ASSUME TypeOK, BarInv, NEW r \in Regions
  PROVE  Decodes(r, base[r]) <=> BarSize[r] > 0 /\ base[r] # 0
  <1>1. base[r] \in Nat /\ BarSize[r] \in Nat /\ base[r] = Masked(base[r], BarSize[r])
    BY PciAssumption DEF TypeOK, BarInv, Addrs
  <1>2. BarSize[r] = 0 => Masked(base[r], BarSize[r]) = 0
    BY Zenon DEF Masked
  <1> QED BY <1>1, <1>2 DEF Decodes

----------------------------------------------------------------------------
(* Steps.                                                                  *)

LEMMA PciInit == Init => TypeOK /\ PciInv
  <1> SUFFICES ASSUME Init PROVE TypeOK /\ PciInv
    OBVIOUS
  <1>1. TypeOK
    <2>1. 0 \in Addrs /\ NumBars \in 0 .. NumBars
      BY PciAssumption DEF Addrs
    <2>2. bus \in Buses
      BY Zenon DEF Init, Buses
    <2>3. pci_addr \in [enable : BOOLEAN, dev : Devs \cup {0}, reg : Registers]
      BY Zenon DEF Init, Registers
    <2> QED BY <2>1, <2>2, <2>3, Zenon DEF Init, TypeOK
  <1>2. BarInv
    <2>1. \A r \in Regions : r[1] \in Devs /\ BarSize[r] \in Nat
      BY PciAssumption, Zenon DEF Regions
    <2>2. \A r \in Regions : Masked(0, BarSize[r]) = 0
      <3>1. ASSUME NEW r \in Regions PROVE Masked(0, BarSize[r]) = 0
        <4>1. Masked(0, BarSize[r]) \in Nat /\ Masked(0, BarSize[r]) <= 0
          BY <2>1, MaskedIs, Zenon
        <4> QED BY <4>1
      <3> QED BY <3>1, Zenon
    <2> QED BY <2>1, <2>2, Zenon DEF Init, BarInv, Ready
  <1>3. ListInv
    <2> DEFINE s == [k \in 1 .. 0 |-> NULL]
    <2>1. 0 \in 0 .. Cardinality(Regions) /\ s \in [1 .. 0 -> Regions]
      BY RegionsFinite
    <2>2. Linked(bus, 0, s)
      BY DEF Init, Linked
    <2>3. {s[k] : k \in 1 .. 0} = {r \in Regions : Live(r)}
      BY DEF Init, Live
    <2>4. \A k \in 1 .. 0 : bus.onBus[s[k]]
      OBVIOUS
    <2> HIDE DEF s
    <2> QED BY <2>1, <2>2, <2>3, <2>4, Zenon DEF ListInv
  <1> QED BY <1>1, <1>2, <1>3, Zenon DEF PciInv

(* Steps that change neither the list nor what should be on it. *)
LEMMA SameList ==
  ASSUME ListInv, bus' = bus, \A r \in Regions : Live(r)' = Live(r)
  PROVE  ListInv'
  <1>1. {r \in Regions : Live(r)'} = {r \in Regions : Live(r)}
    OBVIOUS
  <1> QED BY <1>1, Zenon DEF ListInv, Linked

LEMMA WriteAddrStep ==
  ASSUME TypeOK, PciInv, NEW e \in BOOLEAN, NEW d \in Devs, NEW reg \in Registers,
         WriteAddr(e, d, reg)
  PROVE  TypeOK' /\ PciInv'
  <1>1. TypeOK'
    BY Zenon DEF TypeOK, WriteAddr
  <1>2. BarInv'
    <2>1. \A r \in Regions : r[2] < NumBars /\ r[2] \in Nat
      BY PciAssumption DEF Regions, BarNums
    <2> QED BY <2>1, PciAssumption DEF PciInv, BarInv, WriteAddr, Ready
  <1>3. ListInv'
    BY SameList, Zenon DEF PciInv, WriteAddr, Live
  <1> QED BY <1>1, <1>2, <1>3, Zenon DEF PciInv

LEMMA WriteCommandStep ==
  ASSUME TypeOK, PciInv, NEW d \in Devs, NEW m \in BOOLEAN, WriteCommand(d, m)
  PROVE  TypeOK' /\ PciInv'
  <1>1. TypeOK'
    BY PciAssumption DEF TypeOK, WriteCommand
  <1>2. BarInv'
    <2>1. \A r \in Regions : r[1] \in Devs /\ r[2] < NumBars /\ r[2] \in Nat
      BY PciAssumption DEF Regions, BarNums
    <2> QED BY <2>1, PciAssumption DEF TypeOK, PciInv, BarInv, WriteCommand, Selected, Ready
  <1>3. ListInv'
    BY SameList, Zenon DEF PciInv, WriteCommand, Live
  <1> QED BY <1>1, <1>2, <1>3, Zenon DEF PciInv

(* A BAR that is moved is not on the list: its device does not decode      *)
(* memory, and pci_bar_command has seen that.                              *)
LEMMA WriteBarStep ==
  ASSUME TypeOK, PciInv, Disciplined,
         NEW d \in Devs, NEW i \in BarNums, NEW v \in Addrs, WriteBar(d, i, v)
  PROVE  TypeOK' /\ PciInv'
  <1> DEFINE x == <<d, i>>
  <1>1. x \in Regions /\ x[1] = d /\ x[2] < NumBars /\ x[2] \in Nat
    BY PciAssumption DEF Regions, BarNums
  <1>2. base' = [base EXCEPT ![x] = Masked(v, BarSize[x])] /\ ~mem[d] /\ Ready
    BY Zenon DEF WriteBar
  <1> HIDE DEF x
  <1>3. /\ Masked(v, BarSize[x]) \in Addrs
        /\ Masked(Masked(v, BarSize[x]), BarSize[x]) = Masked(v, BarSize[x])
    <2>1. v \in Nat /\ v <= AddrMax /\ BarSize[x] \in Nat
      BY <1>1, PciAssumption DEF Addrs
    <2>2. /\ Masked(v, BarSize[x]) \in Nat /\ Masked(v, BarSize[x]) <= v
          /\ Masked(Masked(v, BarSize[x]), BarSize[x]) = Masked(v, BarSize[x])
      BY <2>1, MaskedIs, Zenon
    <2> QED BY <2>1, <2>2, PciAssumption DEF Addrs
  <1>4. TypeOK'
    BY <1>2, <1>3, Zenon DEF TypeOK, WriteBar
  <1>5. BarInv'
    <2>1. \A r \in Regions : base'[r] = Masked(base'[r], BarSize[r])
      BY <1>1, <1>2, <1>3, Zenon DEF TypeOK, PciInv, BarInv
    <2> QED BY <2>1, Zenon DEF PciInv, BarInv, WriteBar, Ready
  <1>6. ~active[x]
    BY <1>1, <1>2, PciAssumption DEF PciInv, BarInv, Ready
  <1>7. ListInv'
    <2>1. \A r \in Regions : Live(r)' = Live(r)
      BY <1>1, <1>2, <1>6, Zenon DEF TypeOK, WriteBar, Live
    <2> QED BY <2>1, SameList, Zenon DEF PciInv, WriteBar
  <1> QED BY <1>4, <1>5, <1>7, Zenon DEF PciInv

(* One turn of the loop of pci_bar_command. *)
LEMMA BarCommandStep ==
  ASSUME TypeOK, PciInv, BarCommand
  PROVE  TypeOK' /\ PciInv'
  <1> DEFINE d == pci_addr.dev
             x == <<d, bar>>
             enable == mem[d]
  <1>1. bar \in BarNums /\ bar + 1 \in 0 .. NumBars /\ d \in Devs
    BY PciAssumption DEF TypeOK, PciInv, BarInv, BarCommand, Ready, BarNums
  <1>2. x \in Regions /\ x[1] = d /\ x[2] = bar /\ enable \in BOOLEAN
    BY <1>1, Zenon DEF Regions, TypeOK
  <1>3. /\ active' = [active EXCEPT ![x] = enable] /\ bar' = bar + 1
        /\ UNCHANGED <<pci_addr, mem, base>>
    BY Zenon DEF BarCommand
  <1>4. bus' = IF active[x] = enable \/ ~Decodes(x, base[x]) THEN bus
               ELSE IF enable THEN Register(bus, x) ELSE Deregister(bus, x)
    BY Zenon DEF BarCommand
  <1>5. Decodes(x, base[x]) <=> BarSize[x] > 0 /\ base[x] # 0
    BY <1>2, DecodesIs, Zenon DEF PciInv
  <1>6. BarInv'
    <2>1. ASSUME NEW r \in Regions
          PROVE  active'[r] = mem[r[1]] \/ (r[1] = d /\ bar + 1 <= r[2])
      <3>1. CASE r = x
        BY <1>2, <1>3, <3>1, Zenon DEF TypeOK
      <3>2. CASE r # x
        <4>1. r[2] \in Nat /\ (r[1] = d => r[2] # bar)
          BY <3>2 DEF Regions, BarNums
        <4>2. active'[r] = active[r]
          BY <1>3, <3>2, Zenon DEF TypeOK
        <4>3. active[r] = mem[r[1]] \/ (r[1] = d /\ bar <= r[2])
          BY Zenon DEF PciInv, BarInv
        <4> QED BY <1>1, <4>1, <4>2, <4>3 DEF BarNums
      <3> QED BY <3>1, <3>2, Zenon
    <2> HIDE DEF x
    <2> QED BY <1>1, <1>3, <2>1, Zenon DEF PciInv, BarInv
  <1>7. PICK n \in 0 .. Cardinality(Regions) : \E s \in [1 .. n -> Regions] :
          /\ Linked(bus, n, s)
          /\ {s[k] : k \in 1 .. n} = {r \in Regions : Live(r)}
          /\ \A k \in 1 .. n : bus.onBus[s[k]]
    BY Zenon DEF PciInv, ListInv
  <1>8. PICK s \in [1 .. n -> Regions] :
          /\ Linked(bus, n, s)
          /\ {s[k] : k \in 1 .. n} = {r \in Regions : Live(r)}
          /\ \A k \in 1 .. n : bus.onBus[s[k]]
    BY <1>7, Zenon
  <1>9. n \in Nat /\ bus \in Buses
    BY RegionsFinite DEF TypeOK
  <1> DEFINE NowLive(r) == active'[r] /\ BarSize[r] > 0 /\ base'[r] # 0
  <1>10. /\ NowLive(x) <=> enable /\ BarSize[x] > 0 /\ base[x] # 0
         /\ \A r \in Regions \ {x} : NowLive(r) <=> Live(r)
    BY <1>2, <1>3, Zenon DEF TypeOK, Live
  <1>11. active[x] \in BOOLEAN /\ (Live(x) <=> active[x] /\ BarSize[x] > 0 /\ base[x] # 0)
    BY <1>2, Zenon DEF TypeOK, Live
  <1> HIDE DEF x, enable, NowLive
  <1>12. CASE active[x] = enable \/ ~Decodes(x, base[x])
    <2>1. bus' = bus
      BY <1>4, <1>12, Zenon
    <2>2. \A r \in Regions : NowLive(r) <=> Live(r)
      BY <1>5, <1>10, <1>11, <1>12, Zenon
    <2>3. ListInv'
      BY <2>1, <2>2, SameList, Zenon DEF PciInv, NowLive, Live
    <2>4. TypeOK'
      BY <1>1, <1>2, <1>3, <2>1, Zenon DEF TypeOK
    <2> QED BY <1>6, <2>3, <2>4, Zenon DEF PciInv
  <1>13. CASE ~active[x] /\ enable /\ Decodes(x, base[x])
    <2> DEFINE t == [k \in 1 .. n + 1 |-> IF k = 1 THEN x ELSE s[k - 1]]
    <2>1. bus' = Register(bus, x)
      BY <1>4, <1>13, Zenon
    <2>2. bus' \in Buses /\ \A r \in Regions : bus'.onBus[r] = (r = x \/ bus.onBus[r])
      BY <1>2, <1>9, <2>1, Zenon DEF Register, Buses
    <2>3. \A k \in 1 .. n : s[k] # x
      BY <1>8, <1>11, <1>13, Zenon
    <2>4. Linked(bus', n + 1, t) /\ t \in [1 .. n + 1 -> Regions]
      BY <1>2, <1>8, <1>9, <2>1, <2>3, RegisterLinks
    <2>5. n + 1 \in 0 .. Cardinality(Regions)
      <3>1. \A j, k \in 1 .. n + 1 : t[j] = t[k] => j = k
        BY <2>4, Zenon DEF Linked
      <3>2. n + 1 \in Nat /\ t \in [1 .. n + 1 -> Regions]
        BY <1>9, <2>4
      <3> HIDE DEF t
      <3>3. n + 1 <= Cardinality(Regions)
        BY <3>1, <3>2, ListFits, Zenon
      <3> QED BY <1>9, <3>3, RegionsFinite
    <2>6. {t[k] : k \in 1 .. n + 1} = {r \in Regions : NowLive(r)}
      <3>1. ASSUME NEW k \in 1 .. n + 1 PROVE t[k] \in Regions /\ NowLive(t[k])
        <4>1. CASE k = 1
          BY <1>2, <1>5, <1>10, <1>13, <4>1, Zenon
        <4>2. CASE k # 1
          <5>1. k - 1 \in 1 .. n /\ t[k] = s[k - 1]
            BY <1>9, <4>2
          <5>2. s[k - 1] \in Regions /\ Live(s[k - 1]) /\ s[k - 1] # x
            BY <1>8, <2>3, <5>1, Zenon
          <5> QED BY <1>10, <5>1, <5>2, Zenon
        <4> QED BY <4>1, <4>2, Zenon
      <3>2. ASSUME NEW r \in Regions, NowLive(r) PROVE \E k \in 1 .. n + 1 : r = t[k]
        <4>1. CASE r = x
          BY <1>9, <4>1
        <4>2. CASE r # x
          <5>1. PICK k \in 1 .. n : r = s[k]
            BY <1>8, <1>10, <3>2, <4>2, Zenon
          <5>2. k + 1 \in 1 .. n + 1 /\ t[k + 1] = r
            BY <1>9, <5>1
          <5> QED BY <5>2, Zenon
        <4> QED BY <4>1, <4>2, Zenon
      <3> DEFINE I == 1 .. n + 1
      <3>3. /\ \A k \in I : t[k] \in Regions /\ NowLive(t[k])
            /\ \A r \in Regions : NowLive(r) => \E k \in I : r = t[k]
        BY <3>1, <3>2, Zenon
      <3> HIDE DEF t, I
      <3>4. {t[k] : k \in I} = {r \in Regions : NowLive(r)}
        BY <3>3, Zenon
      <3> QED BY <3>4, Zenon DEF I
    <2>7. ASSUME NEW k \in 1 .. n + 1 PROVE bus'.onBus[t[k]]
      <3>1. t[k] = x \/ \E j \in 1 .. n : t[k] = s[j]
        BY <1>9
      <3>2. t[k] \in Regions /\ (t[k] = x \/ bus.onBus[t[k]])
        BY <1>2, <1>8, <3>1, Zenon
      <3> HIDE DEF t
      <3> QED BY <2>2, <3>2, Zenon
    <2> DEFINE q == n + 1
    <2> HIDE DEF t
    <2>8. /\ q \in 0 .. Cardinality(Regions) /\ t \in [1 .. q -> Regions]
          /\ Linked(bus', q, t)
          /\ {t[k] : k \in 1 .. q} = {r \in Regions : NowLive(r)}
          /\ \A k \in 1 .. q : bus'.onBus[t[k]]
      BY <2>4, <2>5, <2>6, <2>7, Zenon
    <2> HIDE DEF q
    <2>9. ListInv'
      BY <2>8, Zenon DEF ListInv, Live, NowLive
    <2>10. TypeOK'
      BY <1>1, <1>2, <1>3, <2>2, Zenon DEF TypeOK
    <2> QED BY <1>6, <2>9, <2>10, Zenon DEF PciInv
  <1>14. CASE active[x] /\ ~enable /\ Decodes(x, base[x])
    <2>1. bus' = Deregister(bus, x)
      BY <1>4, <1>14, Zenon
    <2>2. PICK m \in 1 .. n : x = s[m]
      BY <1>2, <1>5, <1>8, <1>11, <1>14, Zenon
    <2> DEFINE t == [k \in 1 .. n - 1 |-> IF k < m THEN s[k] ELSE s[k + 1]]
    <2>3. Linked(bus', n - 1, t) /\ bus'.onBus = bus.onBus /\ bus' \in Buses
      BY <1>8, <1>9, <2>1, <2>2, DeregisterLinks, Zenon
    <2>4. n - 1 \in 0 .. Cardinality(Regions) /\ t \in [1 .. n - 1 -> Regions]
      BY <1>9, RegionsFinite
    <2>5. {t[k] : k \in 1 .. n - 1} = {r \in Regions : NowLive(r)}
      <3>1. ASSUME NEW k \in 1 .. n - 1 PROVE t[k] \in Regions /\ NowLive(t[k])
        <4>1. PICK j \in 1 .. n : t[k] = s[j] /\ j # m
          <5>1. CASE k < m
            BY <1>9, <5>1
          <5>2. CASE k >= m
            BY <1>9, <5>2
          <5> QED BY <1>9, <5>1, <5>2
        <4>2. s[j] \in Regions /\ Live(s[j]) /\ s[j] # x
          BY <1>8, <2>2, <4>1 DEF Linked
        <4> QED BY <1>10, <4>1, <4>2, Zenon
      <3>2. ASSUME NEW r \in Regions, NowLive(r) PROVE \E k \in 1 .. n - 1 : r = t[k]
        <4>1. r # x /\ Live(r)
          BY <1>10, <1>14, <3>2, Zenon
        <4>2. PICK j \in 1 .. n : r = s[j] /\ j # m
          BY <1>8, <2>2, <4>1, Zenon
        <4>3. CASE j < m
          BY <1>9, <4>2, <4>3
        <4>4. CASE j > m
          <5>1. j - 1 \in 1 .. n - 1 /\ t[j - 1] = s[j]
            BY <1>9, <4>4
          <5> QED BY <4>2, <5>1, Zenon
        <4> QED BY <1>9, <4>2, <4>3, <4>4
      <3> HIDE DEF t
      <3> QED BY <3>1, <3>2, Zenon
    <2>6. \A k \in 1 .. n - 1 : bus'.onBus[t[k]]
      BY <1>8, <1>9, <2>3
    <2> HIDE DEF t
    <2>7. ListInv'
      BY <2>3, <2>4, <2>5, <2>6, Zenon DEF ListInv, Live, NowLive
    <2>8. TypeOK'
      BY <1>1, <1>2, <1>3, <2>3, Zenon DEF TypeOK
    <2> QED BY <1>6, <2>7, <2>8, Zenon DEF PciInv
  <1> QED BY <1>2, <1>11, <1>12, <1>13, <1>14, Zenon

----------------------------------------------------------------------------
(* The theorems.                                                           *)

(* Types, and the shape and content of the MMIO list, are invariant.       *)
THEOREM PciInvariant ==
  ASSUME Disciplined
  PROVE  Spec => [](TypeOK /\ PciInv)
  <1>1. ASSUME TypeOK, PciInv, [Next]_vars
        PROVE  TypeOK' /\ PciInv'
    <2>1. CASE Next
      BY <1>1, <2>1, WriteAddrStep, WriteCommandStep, BarCommandStep, WriteBarStep, Zenon DEF Next
    <2>2. CASE UNCHANGED vars
      <3>1. TypeOK' /\ BarInv'
        BY <1>1, <2>2, Zenon DEF TypeOK, PciInv, BarInv, vars, Ready
      <3>2. ListInv'
        BY <1>1, <2>2, SameList, Zenon DEF PciInv, vars, Live
      <3> QED BY <3>1, <3>2, Zenon DEF PciInv
    <2> QED BY <1>1, <2>1, <2>2, Zenon
  <1>2. TypeOK /\ PciInv /\ [Next]_vars => (TypeOK /\ PciInv)'
    BY <1>1, Zenon
  <1> QED BY PciInit, <1>2, PTL DEF Spec

(* The variables of the PCI bus and the MMIO list keep their types; in     *)
(* particular no BAR that pci_bar_config masks leaves the address range.   *)
THEOREM PciTypeTheorem ==
  ASSUME Disciplined
  PROVE  Spec => []TypeOK
  BY PciInvariant, PTL

(* The loops of iobus_find_region and iobus_deregister_region end. *)
THEOREM ListEndsTheorem ==
  ASSUME Disciplined
  PROVE  Spec => []ListEnds
  <1>1. ListInv => ListEnds
    <2> SUFFICES ASSUME ListInv PROVE ListEnds
      OBVIOUS
    <2>1. PICK n \in 0 .. Cardinality(Regions) : \E s \in [1 .. n -> Regions] :
            Linked(bus, n, s)
      BY Zenon DEF ListInv
    <2>2. PICK s \in [1 .. n -> Regions] : Linked(bus, n, s)
      BY <2>1, Zenon
    <2>3. Walk(bus) = [k \in 0 .. Cardinality(Regions) |-> IF k < n THEN s[k + 1] ELSE NULL]
      BY <2>2, WalkIs, Zenon
    <2> QED BY <2>3, RegionsFinite DEF ListEnds
  <1>2. PciInv => ListEnds
    BY <1>1, Zenon DEF PciInv
  <1> QED BY PciInvariant, <1>2, PTL

(* What the list holds between two exits. *)
LEMMA ReadyList ==
  ASSUME TypeOK, PciInv, Ready
  PROVE  \A r \in Regions : Live(r) <=> Decoding(r)
  <1>1. ASSUME NEW r \in Regions PROVE active[r] = mem[r[1]]
    <2>1. r[2] < NumBars /\ r[2] \in Nat
      BY PciAssumption DEF Regions, BarNums
    <2> QED BY <2>1, PciAssumption DEF PciInv, BarInv, Ready
  <1> QED BY <1>1, Zenon DEF Live, Decoding

(* Between two exits the MMIO list holds the BARs that decode, each once.  *)
THEOREM ListIsDecodingTheorem ==
  ASSUME Disciplined
  PROVE  Spec => []ListIsDecoding
  <1>1. TypeOK /\ PciInv => ListIsDecoding
    <2> SUFFICES ASSUME TypeOK, PciInv, Ready
                 PROVE  /\ OnList(bus) = {r \in Regions : Decoding(r)}
                        /\ \A j, k \in DOMAIN Walk(bus) :
                             Walk(bus)[j] = Walk(bus)[k] /\ Walk(bus)[j] # NULL => j = k
      BY Zenon DEF ListIsDecoding
    <2>1. PICK n \in 0 .. Cardinality(Regions) : \E s \in [1 .. n -> Regions] :
            Linked(bus, n, s) /\ {s[k] : k \in 1 .. n} = {r \in Regions : Live(r)}
      BY Zenon DEF PciInv, ListInv
    <2>2. PICK s \in [1 .. n -> Regions] :
            Linked(bus, n, s) /\ {s[k] : k \in 1 .. n} = {r \in Regions : Live(r)}
      BY <2>1, Zenon
    <2>3. Walk(bus) = [k \in 0 .. Cardinality(Regions) |-> IF k < n THEN s[k + 1] ELSE NULL]
      BY <2>2, WalkIs, Zenon
    <2>4. OnList(bus) = {r \in Regions : Decoding(r)}
      BY <2>2, OnListIs, ReadyList
    <2>5. ASSUME NEW j \in DOMAIN Walk(bus), NEW k \in DOMAIN Walk(bus),
                 Walk(bus)[j] = Walk(bus)[k], Walk(bus)[j] # NULL
          PROVE  j = k
      <3>1. j \in Nat /\ k \in Nat /\ j < n /\ k < n /\ s[j + 1] = s[k + 1]
        BY <2>3, <2>5, RegionsFinite
      <3>2. \A a, b \in 1 .. n : s[a] = s[b] => a = b
        BY <2>2, Zenon DEF Linked
      <3>3. j + 1 \in 1 .. n /\ k + 1 \in 1 .. n
        BY <3>1, RegionsFinite
      <3> QED BY <3>1, <3>2, <3>3
    <2> QED BY <2>4, <2>5, Zenon
  <1> QED BY PciInvariant, <1>1, PTL

(* An MMIO access between two exits goes to a BAR that decodes its         *)
(* address, if there is one, and otherwise nowhere.                        *)
THEOREM DispatchTheorem ==
  ASSUME Disciplined
  PROVE  Spec => []Dispatch
  <1>1. TypeOK /\ PciInv => Dispatch
    <2> SUFFICES ASSUME TypeOK, PciInv, Ready, NEW a \in Addrs
                 PROVE  LET decoders == {r \in Regions : Decoding(r) /\ Covers(r, a)}
                        IN  FindRegion(bus, a) \in IF decoders = {} THEN {NULL} ELSE decoders
      BY Zenon DEF Dispatch
    <2> DEFINE decoders == {r \in Regions : Decoding(r) /\ Covers(r, a)}
               W == Walk(bus)
               hits == {k \in DOMAIN W : W[k] # NULL /\ Covers(W[k], a)}
    <2>1. PICK n \in 0 .. Cardinality(Regions) : \E s \in [1 .. n -> Regions] :
            Linked(bus, n, s) /\ {s[k] : k \in 1 .. n} = {r \in Regions : Live(r)}
      BY Zenon DEF PciInv, ListInv
    <2>2. PICK s \in [1 .. n -> Regions] :
            Linked(bus, n, s) /\ {s[k] : k \in 1 .. n} = {r \in Regions : Live(r)}
      BY <2>1, Zenon
    <2>3. W = [k \in 0 .. Cardinality(Regions) |-> IF k < n THEN s[k + 1] ELSE NULL]
      BY <2>2, WalkIs, Zenon
    <2>4. DOMAIN W \in SUBSET Nat
      BY <2>3, RegionsFinite
    <2>5. OnList(bus) = {r \in Regions : Decoding(r)}
      BY <2>2, OnListIs, ReadyList
    <2>6. OnList(bus) = {W[k] : k \in DOMAIN W} \ {NULL}
      BY Zenon DEF OnList
    <2>7. FindRegion(bus, a) = IF hits = {} THEN NULL
                               ELSE W[CHOOSE k \in hits : \A j \in hits : k <= j]
      BY Zenon DEF FindRegion
    <2> HIDE DEF W
    <2>8. CASE hits = {}
      <3>1. decoders = {}
        BY <2>5, <2>6, <2>8
      <3> HIDE DEF hits, decoders
      <3> QED BY <2>7, <2>8, <3>1, Zenon DEF decoders
    <2>9. CASE hits # {}
      <3>1. hits \in SUBSET Nat
        BY <2>4, Zenon
      <3>2. \E k \in hits : \A j \in hits : k <= j
        BY <2>9, <3>1, LeastNat, Zenon
      <3> DEFINE c == CHOOSE k \in hits : \A j \in hits : k <= j
      <3>3. c \in hits
        BY <3>2, Zenon
      <3> HIDE DEF c
      <3>4. W[c] \in decoders
        BY <2>5, <2>6, <3>3, Zenon
      <3>5. FindRegion(bus, a) = W[c]
        BY <2>7, <2>9, Zenon DEF c
      <3> QED BY <3>4, <3>5, Zenon
    <2> QED BY <2>8, <2>9, Zenon
  <1> QED BY PciInvariant, <1>1, PTL
==============================================================================
