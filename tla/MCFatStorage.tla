----------------------------- MODULE MCFatStorage -----------------------------
(* Two save slots, whose names fat_normalize cannot tell apart, and two     *)
(* other files: one more than the directory has room for next to KERNEL.BIN *)
EXTENDS FatStorage

SLOT0 == <<"SLO", "T0.SAV">>
SLOT1 == <<"SLO", "T1.SAV">>
MCNames == {SLOT0, SLOT1, <<"BAC", "KUP">>, <<"PAU", "SE.BIN">>}
===============================================================================
