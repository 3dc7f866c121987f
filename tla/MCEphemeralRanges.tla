------------------------- MODULE MCEphemeralRanges --------------------------
(***************************************************************************)
(* Small instances of the ranges for TLC: all tries over six keys.         *)
(***************************************************************************)
EXTENDS EphemeralRanges

MCKeys == {<<0, 0, 0>>, <<0, 0, 1>>, <<0, 1, 0>>, <<0, 1, 1>>,
           <<1, 0, 1>>, <<1, 1, 1>>}
=============================================================================
