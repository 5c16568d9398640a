--------------------------- MODULE MCBreakpoints ---------------------------
(* Three words with both half-words of the first, and one address with two *)
(* types.                                                                   *)
EXTENDS Breakpoints, TLC

CONSTANTS w1, w2, w3

At(t, w, h) == [type |-> t, word |-> w, half |-> h]

MCWords == {w1, w2, w3}
MCBreakpointSet == {At("soft", w1, 1), At("hard", w1, 1), At("soft", w1, 2),
                    At("soft", w2, 1), At("soft", w3, 1)}

MCSoftBreakpoints == {b \in MCBreakpointSet : b.type = "soft"}
(* The words with one breakpoint each are alike. *)
MCSymmetry == Permutations({w2, w3})
=============================================================================
