------------------------------- MODULE MCSeqlock -------------------------------
(* A small instance of Seqlock for TLC. *)
EXTENDS Seqlock, TLC

CONSTANTS w1, w2, w3

MCWords == {w1, w2, w3}
WordSymmetry == Permutations(MCWords)
===============================================================================
