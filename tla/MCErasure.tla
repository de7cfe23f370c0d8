----------------------------- MODULE MCErasure -----------------------------
(* Files of 4 full blocks, of 5, 6 and 8 with a short one, of 7 full ones,  *)
(* one whose last piece would have no bytes, and one of 49 blocks whose     *)
(* last is longer than the others, of which two chunks are lost at most.    *)
(* For the run that finds what the README promises and the code does not  *)
(* do: a file of 8 blocks.                                                *)
EXTENDS Erasure

MCLength == {8192, 8193, 10300, 14336, 16000, 163840, 13060720}
MCMaxLost == [L \in MCLength |-> IF BlockNum(L) <= 8 THEN 7 ELSE 2]

MCShort == {16000}
MCShortMaxLost == [L \in MCShort |-> 2]
=============================================================================
