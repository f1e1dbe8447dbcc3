----------------------------- MODULE MCMachine -----------------------------
(* Constants for model checking Machine. *)
EXTENDS Machine

MiB == 2 ^ 20

(* The RAM size of microv, one below the place of the kernel, one at and   *)
(* two past the gap, with images that leave room, touch, or overlap.       *)
MCConfigs ==
  LET Config(args, ram, klen, ilen, ncpu) ==
        [args |-> args, ram |-> ram, klen |-> klen, ilen |-> ilen, ncpu |-> ncpu]
  IN  {Config({"k", "i", "d"}, 512 * MiB, 30 * MiB, 5001, 1),
       Config({"k", "i"}, 512 * MiB, 30 * MiB, 466 * MiB, 2),
       Config({"k", "i"}, 512 * MiB, 30 * MiB, 466 * MiB + 1, 1),
       Config({"k", "i"}, 512 * MiB, MiB, 0, 1),
       Config({"k", "i"}, 8 * MiB, MiB, 4096, 1),
       Config({"k", "i", "d"}, GapStart, 30 * MiB, 4096, 40),
       Config({"k", "i"}, GapStart + 1, MiB, 1, 3),
       Config({"k", "i"}, GapStart + 64 * MiB, 30 * MiB, 0, 27),
       Config({"k", "i", "h"}, 512 * MiB, MiB, 4096, 1),
       Config({"k", "d"}, 512 * MiB, MiB, 4096, 1)}

(* Nothing left, and leftovers that make a segment unusable. *)
MCUnset == {[selector |-> 0, unusable |-> 0], [selector |-> 24, unusable |-> 1]}

Entry(function, index, eax, ecx) ==
  [function |-> function, index |-> index, eax |-> eax, ebx |-> {}, ecx |-> ecx, edx |-> {}]

MCSupported ==
  {Entry("1", 0, {9}, {0, 3}), Entry("2", 0, {}, {}), Entry("4", 0, {}, {}),
   Entry("4", 3, {}, {}), Entry("6", 0, {2}, {0, 3}), Entry("10", 0, {0, 2, 11}, {}),
   Entry("11", 0, {}, {}), Entry("11", 1, {}, {}), Entry("11", 2, {}, {}),
   Entry("brand", 0, {}, {}), Entry("other", 0, {1}, {})}

(* A host with 16 cores, whose leaf 4 says so. *)
MCHost ==
  [f \in {e.function : e \in MCSupported} |->
     Entry(f, 0, IF f = "4" THEN {0, 5, 26, 27, 28, 29} ELSE {7}, {1})]
=============================================================================
