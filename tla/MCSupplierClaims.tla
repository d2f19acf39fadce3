--------------------------- MODULE MCSupplierClaims ---------------------------
(* claims.cfg gives every constant a value of its own.                       *)
EXTENDS SupplierClaims
=============================================================================
