---------------------------- MODULE GuestMemory ----------------------------
(***************************************************************************)
(* Guest memory (memory.c): the slots the VM is given for a RAM size, and  *)
(* the translation of a guest address to the program's own memory, through *)
(* which every other file reaches guest memory.                            *)
(*                                                                         *)
(* A definition X_Y next to definition X is X with a plausible slip in it: *)
(* no specification uses it; it shows that a property would notice.        *)
(***************************************************************************)
EXTENDS Integers

CONSTANTS GapStart,  \* end of MemBelow4g, 0xC0000000 in the code
          GapEnd     \* start of MemAbove4g, 0x100000000 in the code

ASSUME GapAssumption ==
  /\ GapStart \in Nat /\ GapEnd \in Nat
  /\ \h38000000 <= GapStart /\ GapStart < GapEnd

(* A range of addresses; an entry of MemMapper, of the e820 map, or what   *)
(* the boot code writes.                                                   *)
At(start, size) == [start |-> start, size |-> size]

Unused == At(0, 0)

Within(a, r)   == r.start <= a /\ a < r.start + r.size
Inside(s, r)   == r.start <= s.start /\ s.start + s.size <= r.start + r.size
Disjoint(r, s) == r.start + r.size <= s.start \/ s.start + s.size <= r.start

(* get_ram_end *)
RamEnd(ram) == IF ram <= GapStart THEN ram ELSE GapEnd + (ram - GapStart)

(* The two ranges of RAM, rams in init_memory_map. *)
Rams(ram) ==
  IF ram <= GapStart THEN <<At(0, ram), Unused>>
                     ELSE <<At(0, GapStart), At(GapEnd, ram - GapStart)>>

Calls == {"mmap", "KVM_SET_USER_MEMORY_REGION"}

(* MemMapper after init_memory_map, which goes through the ranges that are *)
(* not empty and gives up at the first call that fails: at call for range  *)
(* k, or never (k = 3).  An entry is filled in between the two calls.      *)
InitMemoryMap(ram, k, call) ==
  [i \in 1 .. 2 |->
     IF i < k \/ (i = k /\ call # "mmap") THEN Rams(ram)[i] ELSE Unused]

(* find_mapper_index: the first slot with address a, or -1. *)
FindMapperIndex(mapper, a) ==
  IF Within(a, mapper[1]) THEN 1 ELSE IF Within(a, mapper[2]) THEN 2 ELSE -1

(* A write of r.size bytes to get_userspace_addr(r.start) stays in the     *)
(* memory of the slot.  With index -1 the address is made from what lies   *)
(* before MemMapper, and past the slot's end the program's memory goes on. *)
(* Reading an empty image writes nothing, whatever the address.            *)
Writable(mapper, r) ==
  LET i == FindMapperIndex(mapper, r.start)
  IN  r.size = 0 \/ (i # -1 /\ Inside(r, mapper[i]))
=============================================================================
