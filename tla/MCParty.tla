------------------------------- MODULE MCParty --------------------------------
(***************************************************************************)
(* Party with interchangeable consoles.                                    *)
(***************************************************************************)
EXTENDS Party, TLC

Consoles == Permutations(Console)
===============================================================================
