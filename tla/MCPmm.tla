-------------------------------- MODULE MCPmm --------------------------------
(***************************************************************************)
(* Pmm for TLC: the memory maps.  In units of a byte with frames of two,   *)
(* RAM is 0 .. 23, the RAM disk 12 .. 15 and an address has 5 bits.        *)
(***************************************************************************)
EXTENDS Pmm

Entries == [base : {0, 9, 30, 40}, length : {4, 17, 28, 33}, type : {1, 2}]

\* Any map of up to two entries; one entry is the most that is believed.
AnyMap == UNION {[1 .. n -> Entries] : n \in 0 .. 2}
=============================================================================
