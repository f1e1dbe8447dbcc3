---------------------------- MODULE BootParams -----------------------------
(***************************************************************************)
(* What init_linux_boot (main.c) leaves in guest memory for the kernel: the *)
(* page tables, the MP table, the command line, the zero page with the     *)
(* e820 map, the two images (bootparams.c), and the descriptor tables      *)
(* (gdt.c); and what the loader of a vCPU's registers (vcpu.c) points at.  *)
(* c is a configuration: sizes of the RAM (ram), of the kernel and of the  *)
(* initrd (klen, ilen, below 2^31, what file_len's int can hold), and the  *)
(* number of processors (ncpu).                                            *)
(*                                                                         *)
(* A definition X_Y next to definition X is X with a plausible slip in it: *)
(* no specification uses it; it shows that a property would notice.        *)
(***************************************************************************)
EXTENDS GuestMemory, MpTable

INITRD_ADDR_MAX   == \h37ffffff
VMLINUX_START     == \h1000000
VMLINUX_RAM_START == \h100000
MB_BIOS_START     == \hf0000
VGA_RAM_START     == \ha0000
CMDLINE_START     == \h20000
PDE_START         == \hb000
PDPTE_START       == \ha000
PML4_START        == \h9000
BOOT_LOADER_SP    == \h8ff0
ZERO_PAGE_START   == \h7000
BOOT_IDT_START    == \h520
BOOT_GDT_START    == \h500

(* The address load_initrd picks, below 0 where the code's wraps around. *)
InitrdAddr_RoundUp(c) == ((RamEnd(c.ram) - c.ilen + 4095) \div 4096) * 4096

InitrdAddr_NoMax(c) == ((RamEnd(c.ram) - c.ilen) \div 4096) * 4096

InitrdAddr(c) ==
  LET max == IF INITRD_ADDR_MAX > RamEnd(c.ram) THEN RamEnd(c.ram) ELSE INITRD_ADDR_MAX
  IN  ((max - c.ilen) \div 4096) * 4096

(* The steps of init_linux_boot, in order, and the memory each writes.     *)
(* setup_boot_params clears the zero page, loads the images, and then      *)
(* fills in the page's e820 map and header.                                *)
BootSteps_ClearLate ==
  <<"pml4", "pdpte", "pde", "mptable", "cmdline", "kernel", "initrd", "params",
    "zeropage", "gdt", "idt">>

BootSteps ==
  <<"pml4", "pdpte", "pde", "mptable", "cmdline", "zeropage", "kernel", "initrd",
    "params", "gdt", "idt">>

BootArea(c, s) ==
  CASE s = "pml4"     -> At(PML4_START, 8)
    [] s = "pdpte"    -> At(PDPTE_START, 8)
    [] s = "pde"      -> At(PDE_START, 512 * 8)
    [] s = "mptable"  -> At(MPTABLE_START, MpSize(c.ncpu))
    [] s = "cmdline"  -> At(CMDLINE_START, 69)
    [] s = "zeropage" -> At(ZERO_PAGE_START, 4096)
    [] s = "kernel"   -> At(VMLINUX_START, c.klen)
    [] s = "initrd"   -> At(InitrdAddr(c), c.ilen)
    [] s = "params"   -> At(ZERO_PAGE_START + \h1e8, \h2d0 + 5 * 20 - \h1e8)
    [] s = "gdt"      -> At(BOOT_GDT_START, 4 * 8)
    [] s = "idt"      -> At(BOOT_IDT_START, 8)

(* The stack the kernel starts on: the page BOOT_LOADER_SP is in. *)
BootStack == At(BOOT_LOADER_SP - \hff0, \hff0)

(* setup_e820: the entries of the map. *)
Usable(start, end)   == [area |-> At(start, end - start), ram |-> TRUE]
Reserved(start, end) == [area |-> At(start, end - start), ram |-> FALSE]

E820_Whole(ram) ==
  <<Usable(0, MPTABLE_START), Reserved(MPTABLE_START, VGA_RAM_START),
    Reserved(MB_BIOS_START, MB_BIOS_START), Usable(VMLINUX_RAM_START, RamEnd(ram))>>

E820(ram) ==
  LET low  == Usable(0, MPTABLE_START)
      mp   == Reserved(MPTABLE_START, VGA_RAM_START)
      bios == Reserved(MB_BIOS_START, MB_BIOS_START)
  IN  IF RamEnd(ram) <= GapEnd
      THEN <<low, mp, bios, Usable(VMLINUX_RAM_START, RamEnd(ram))>>
      ELSE <<low, mp, bios, Usable(VMLINUX_RAM_START, GapStart), Usable(GapEnd, RamEnd(ram))>>

(* setup_header_ramdisk *)
HeaderRamdisk(c) ==
  [ramdisk_image |-> InitrdAddr(c), ramdisk_size |-> c.ilen,
   cmd_line_ptr |-> CMDLINE_START, cmdline_size |-> 69]

(* setup_pagetable: the word at a of the three tables, 0 where none is set.*)
(* Bit 0 says present, bit 1 writable, bit 7 a page of 2 MiB.              *)
PageWord(a) ==
  LET i == (a - PDE_START) \div 8
  IN  IF a = PML4_START THEN PDPTE_START + 3
      ELSE IF a = PDPTE_START THEN PDE_START + 3
      ELSE IF a % 8 = 0 /\ i \in 0 .. 511 THEN i * 2 ^ 21 + \h83
      ELSE 0

(* The physical address the processor finds for a, or -1. *)
Walk(cr3, a) ==
  LET Word(table, i) == PageWord((table \div 4096) * 4096 + 8 * i)
      pml4e == Word(cr3, (a \div 2 ^ 30) \div 512)
      pdpte == Word(pml4e, (a \div 2 ^ 30) % 512)
      pde   == Word(pdpte, (a \div 2 ^ 21) % 512)
  IN  IF \E e \in {pml4e, pdpte, pde} : e % 2 = 0 THEN -1
      ELSE (pde \div 2 ^ 21) * 2 ^ 21 + (a % 2 ^ 21)

(* Bits lo .. lo + n - 1 of x. *)
Field(x, lo, n) == (x \div 2 ^ lo) % 2 ^ n

(* GDT_ENTRY_INIT and STARTUP_GDT: a descriptor as its four 16 bit words,  *)
(* for a limit below 2^20 and flags laid out as in the descriptor.         *)
GDT_ENTRY_INIT(flags, base, limit) ==
  <<limit % 2 ^ 16, base % 2 ^ 16, Field(base, 16, 8) + 2 ^ 8 * Field(flags, 0, 8),
    Field(limit, 16, 4) + 2 ^ 4 * Field(flags, 12, 4) + 2 ^ 8 * Field(base, 24, 8)>>

STARTUP_GDT ==
  <<GDT_ENTRY_INIT(0, 0, 0), GDT_ENTRY_INIT(0, 0, 0),
    GDT_ENTRY_INIT(\ha09b, 0, \hfffff), GDT_ENTRY_INIT(\hc093, 0, \hfffff)>>

(* entry_to_kvm_seg.  It never sets selector and unusable: they are what   *)
(* was left where seg is.                                                  *)
entry_to_kvm_seg(flags, base, limit, left) ==
  [base |-> base, limit |-> limit, type |-> Field(flags, 0, 4),
   s |-> Field(flags, 4, 1), dpl |-> Field(flags, 5, 2),
   present |-> Field(flags, 7, 1), avl |-> Field(flags, 12, 1),
   l |-> Field(flags, 13, 1), db |-> Field(flags, 14, 1), g |-> Field(flags, 15, 1),
   selector |-> left.selector, unusable |-> left.unusable]

(* Both have flags of their own, which repeat those of STARTUP_GDT. *)
get_code_kvm_seg_Compat(left) == entry_to_kvm_seg(\hc09b, 0, \hfffff, left)

get_code_kvm_seg(left) == entry_to_kvm_seg(\ha09b, 0, \hfffff, left)

get_data_kvm_seg(left) == entry_to_kvm_seg(\hc093, 0, \hfffff, left)

(* What the processor would load from descriptor d, and that segment seg   *)
(* has it in every field a descriptor has.                                 *)
Loaded(d) ==
  [base |-> d[2] + 2 ^ 16 * Field(d[3], 0, 8) + 2 ^ 24 * Field(d[4], 8, 8),
   limit |-> d[1] + 2 ^ 16 * Field(d[4], 0, 4), type |-> Field(d[3], 8, 4),
   s |-> Field(d[3], 12, 1), dpl |-> Field(d[3], 13, 2), present |-> Field(d[3], 15, 1),
   avl |-> Field(d[4], 4, 1), l |-> Field(d[4], 5, 1), db |-> Field(d[4], 6, 1),
   g |-> Field(d[4], 7, 1)]

Agrees(seg, d) == \A field \in DOMAIN Loaded(d) : seg[field] = Loaded(d)[field]

----------------------------------------------------------------------------
(* The configurations the layout is made for: the MP table ends before the *)
(* VGA memory, and the kernel ends before the initrd starts.               *)
Fits(c) ==
  /\ MPTABLE_START + MpSize(c.ncpu) <= VGA_RAM_START
  /\ VMLINUX_START + c.klen <= InitrdAddr(c)
=============================================================================
