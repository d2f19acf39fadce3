------------------------------ MODULE MCRollup ------------------------------
(* rollup.cfg gives every constant a value of its own.                      *)
EXTENDS Rollup
=============================================================================
