-------------------------- MODULE MCSharedCompare --------------------------
(***************************************************************************)
(* Two goroutines over versions whose keys are shorter than their arrays   *)
(* by none or two zeros, and one of which is longer than the array of      *)
(* another.                                                                *)
(***************************************************************************)
EXTENDS SharedCompare

CONSTANTS OneZeros, OneOne, Long

MCRelease ==
  [v \in Version |->
     CASE v = OneZeros -> <<1, 0, 0>> [] v = OneOne -> <<1, 1, 0>> [] v = Long -> <<1, 0, 1>>]
MCLength ==
  [v \in Version |-> CASE v = OneZeros -> 3 [] v = OneOne -> 2 [] v = Long -> 3]
MCKeyLen ==
  [v \in Version |-> CASE v = OneZeros -> 1 [] v = OneOne -> 2 [] v = Long -> 3]
=============================================================================
