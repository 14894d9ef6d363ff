------------------------------- MODULE MCBoot -------------------------------
(* Boot for TLC: pages of four bytes, three levels of page tables of       *)
(* sixteen entries, and machines that differ in their longest region.      *)
EXTENDS Boot, TLC

Symmetry == Permutations(CPU)

SmallRequests == {[size |-> 1, align |-> 1], [size |-> 2, align |-> 2],
                  [size |-> 3, align |-> 4]}
ObservedMemory == 80 .. 180

Pages(first, count, type) == [base |-> 4 * first, length |-> 4 * count, type |-> type]

\* The modules are in pages 3 to 5, the frame buffer in page 60.
Common == <<Pages(60, 1, "other"), Pages(3, 3, "kernel_and_modules")>>
With(memmap, fb) == [memmap |-> memmap, begin |-> 16, size |-> 7, fb |-> fb]

\* Below "4 GiB", and the first of two that are equally long.
Low == <<Pages(1, 2, "usable"), Pages(6, 26, "usable"),
         Pages(32, 26, "bootloader_reclaimable")>> \o Common

\* Above, in memory that was the boot loader's, with an uneven other region.
High == <<[base |-> 2, length |-> 5, type |-> "other"], Pages(6, 8, "usable"),
          Pages(20, 26, "bootloader_reclaimable")>> \o Common

MCMachines == {With(Low, {60}), With(High, {60}), With(Low, {})}
MCVirtdbgEnds == 1 .. 400
=============================================================================
