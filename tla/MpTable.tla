------------------------------ MODULE MpTable ------------------------------
(***************************************************************************)
(* The Intel MP table that setup_mptable (mptable.c) writes for num_cpus   *)
(* processors, byte by byte, since it carries checksums: a floating        *)
(* pointer, a header, and one entry for each processor, bus, I/O APIC and  *)
(* interrupt line.  The structures are those of mpspec_def.h.              *)
(*                                                                         *)
(* A definition X_Y next to definition X is X with a plausible slip in it: *)
(* no specification uses it; it shows that a property would notice.        *)
(***************************************************************************)
EXTENDS Integers, Sequences, FiniteSets

MPTABLE_START == \h9fc00

Types   == [cpu |-> 0, bus |-> 1, ioapic |-> 2, intsrc |-> 3, lintsrc |-> 4]
Sources == [INT |-> 0, NMI |-> 1, ExtINT |-> 3]

APIC_VERSION == 20

(* The n low bytes of x, and n bytes of 0. *)
Bytes(x, n) == [i \in 1 .. n |-> (x \div 256 ^ (i - 1)) % 256]

Zeros(n) == [i \in 1 .. n |-> 0]

(* A signature or a name of n letters.  Which ones they are matters only   *)
(* to the sum.                                                             *)
Letters(n) == [i \in 1 .. n |-> 64 + i]

(* mptable_checksum *)
Checksum(buf) ==
  LET sum[i \in 0 .. Len(buf)] == IF i = 0 THEN 0 ELSE (sum[i - 1] + buf[i]) % 256
  IN  sum[Len(buf)]

(* The byte that turns a sum of s into 0. *)
Complement(s) == (256 - s) % 256

MPF_SIZE == 16

(* The floating pointer "_MP_", whose physptr is behind it. *)
Mpf ==
  LET body == Letters(4) \o Bytes(MPTABLE_START + MPF_SIZE, 4) \o <<1, 4>>
  IN  body \o <<Complement(Checksum(body))>> \o Zeros(5)

(* The entries.  Addresses of the APICs are given as their bytes. *)
Cpu(i) ==
  <<Types.cpu, i % 256, APIC_VERSION, IF i = 0 THEN 3 ELSE 1>>
    \o Bytes(\h600, 4) \o Bytes(\h201, 4) \o Zeros(8)

Bus == <<Types.bus, 0>> \o Letters(6)

IoApic(num_cpus) ==
  <<Types.ioapic, (num_cpus + 1) % 256, APIC_VERSION, 1>> \o <<0, 0, \hc0, \hfe>>

IntSrc_NextId(num_cpus, i) ==
  <<Types.intsrc, Sources.INT>> \o Bytes(0, 2) \o <<0, i, num_cpus % 256, i>>

IntSrc(num_cpus, i) ==
  <<Types.intsrc, Sources.INT>> \o Bytes(0, 2) \o <<0, i, (num_cpus + 1) % 256, i>>

LintExt(num_cpus) ==
  <<Types.lintsrc, Sources.ExtINT>> \o Bytes(0, 2) \o <<0, 0, (num_cpus + 1) % 256, 0>>

LintNmi == <<Types.lintsrc, Sources.NMI>> \o Bytes(0, 2) \o <<0, 0, \hff, 1>>

Entries(num_cpus) ==
  [i \in 1 .. num_cpus |-> Cpu(i - 1)] \o <<Bus, IoApic(num_cpus)>>
    \o [i \in 1 .. 16 |-> IntSrc(num_cpus, i - 1)] \o <<LintExt(num_cpus), LintNmi>>

HEADER_SIZE == 44

(* The bytes of the header "PCMP", with its length and checksum. *)
Header(length, checksum) ==
  Letters(4) \o Bytes(length, 2) \o <<4, checksum>> \o Letters(8) \o Letters(12)
    \o Zeros(8) \o <<0, 0, \he0, \hfe>> \o Zeros(4)

(* The entries one behind the other, as they are written. *)
Written(entries) ==
  LET upto[i \in 0 .. Len(entries)] == IF i = 0 THEN <<>> ELSE upto[i - 1] \o entries[i]
  IN  upto[Len(entries)]

(* The sum of the entries is taken as each is written; the header is added *)
(* last, with its length in place and its checksum still 0.                *)
Table(num_cpus) ==
  LET entries == Entries(num_cpus)
      length  == HEADER_SIZE + Len(Written(entries))
      sum     == Checksum([i \in DOMAIN entries |-> Checksum(entries[i])])
                   + Checksum(Header(length, 0))
  IN  Header(length, Complement(sum % 256)) \o Written(entries)

(* Bytes of the whole: what offset is in the end. *)
MpSize(num_cpus) == MPF_SIZE + HEADER_SIZE + 20 * num_cpus + 8 * 20

----------------------------------------------------------------------------
(* The sum of bytes, bit by bit. *)
ByteSum(bytes) ==
  LET Ones(k) == Cardinality({i \in DOMAIN bytes : (bytes[i] \div 2 ^ k) % 2 = 1})
  IN  Ones(0) + 2 * Ones(1) + 4 * Ones(2) + 8 * Ones(3)
        + 16 * Ones(4) + 32 * Ones(5) + 64 * Ones(6) + 128 * Ones(7)

(* How far a reader goes on from the entry at p: by the length its type has. *)
EntrySize(table, p) == IF table[p + 1] = Types.cpu THEN 20 ELSE 8

(* The reader finds the structures it looks for: the checksums of the      *)
(* pointer and of the table are right over the lengths they state, the     *)
(* entries end where the table does, there is one for each processor, and  *)
(* the interrupt lines go to the I/O APIC, whose id no processor has.      *)
SoundTable(num_cpus) ==
  LET table  == Table(num_cpus)
      length == table[5] + 256 * table[6]
      num    == num_cpus + 20
      pos    == [k \in 1 .. num + 1 |->
                   HEADER_SIZE + IF k <= num_cpus THEN 20 * (k - 1)
                                 ELSE 20 * num_cpus + 8 * (k - 1 - num_cpus)]
      Of(t)  == {k \in 1 .. num : table[pos[k] + 1] = t}
      Id(k)  == table[pos[k] + 2]
  IN  /\ Len(Mpf) = MPF_SIZE /\ ByteSum(Mpf) % 256 = 0
      /\ length = Len(table) /\ MPF_SIZE + length = MpSize(num_cpus)
      /\ ByteSum(SubSeq(table, 1, length)) % 256 = 0
      /\ pos[1] = HEADER_SIZE /\ pos[num + 1] = length
      /\ \A k \in 1 .. num : pos[k + 1] = pos[k] + EntrySize(table, pos[k])
      /\ {Id(k) : k \in Of(Types.cpu)} = 0 .. num_cpus - 1
      /\ \E a \in Of(Types.ioapic) :
           /\ Id(a) \notin 0 .. num_cpus - 1
           /\ \A k \in Of(Types.intsrc) : table[pos[k] + 7] = Id(a)
      /\ {table[pos[k] + 6] : k \in Of(Types.intsrc)} = 0 .. 15
=============================================================================
