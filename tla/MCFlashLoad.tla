---------------------------- MODULE MCFlashLoad -----------------------------
(* Two sectors of two cells, and two values besides the erased one: Zero,   *)
(* which overwrites the other, and one that overwrites nothing.             *)
EXTENDS FlashLoad

CONSTANT v1

MCData == {v1}
=============================================================================
