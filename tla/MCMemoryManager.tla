--------------------------- MODULE MCMemoryManager ---------------------------
(* A 64 byte pool holds up to four blocks; a 7 bit size_t (128) lets the    *)
(* product 20 * 8 and the rounding of 126 wrap.                             *)
EXTENDS MemoryManager

MCRequests == {0, 1, 8, 20, 44, 126}
==============================================================================
