------------------------------- MODULE MCAsmOS -------------------------------
(* One instance of every component, small enough to exhaust; two save slots *)
(* that fat_normalize cannot tell apart and a third name, a name longer     *)
(* than its field, and the lines of MCShell.                                *)
EXTENDS AsmOS, MCShell

SLOT0 == <<"SLO", "T0.SAV">>
SLOT1 == <<"SLO", "T1.SAV">>
MCNames == {SLOT0, SLOT1, <<"BAC", "KUP">>}
MCBackup == <<"image">>
MCSnapshot == <<"snap">>
MCProfileNames == {<<1>>, <<2>>, <<2, 3>>}
===============================================================================
