---------------------------- MODULE MCMemoryMap ----------------------------
(***************************************************************************)
(* Four banks of eight bytes, RAM of two, mirrored four times; one address *)
(* per region, and all of the mapper registers.                            *)
(***************************************************************************)
EXTENDS MemoryMap

\* A game, the BIOS, both, and a machine with everything switched off.
AllMaps == [b \in 0..3 |-> CASE b = 0 -> {"bios"}
                             [] b = 1 -> {"cartridge"}
                             [] b = 2 -> {}
                             [] b = 3 -> Chips]

\* Fixed, slots 0 to 2, two cells of RAM, mapper registers over the same cells.
OneEach == {1, 2, 9, 23, 24, 28, 29, 30, 31}
=============================================================================
