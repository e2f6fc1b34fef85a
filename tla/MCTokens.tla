------------------------------ MODULE MCTokens ------------------------------
(***************************************************************************)
(* Two holders and the article contract, one code in two precisions; the   *)
(* amounts are those of IQ, whose whole is 1000 and whose stake is 50.     *)
(***************************************************************************)
EXTENDS Tokens

CONSTANTS h1, h2
=============================================================================
