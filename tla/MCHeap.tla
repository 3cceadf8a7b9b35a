-------------------------------- MODULE MCHeap --------------------------------
(***************************************************************************)
(* The heap with the sizes its callers ask for.                            *)
(***************************************************************************)
EXTENDS Heap

\* AHCI_Port (0x20 bytes), FAT16 (0x50) and AHCIDriver (0x120).
KernelSizes == {2, 5, 18}
===============================================================================
