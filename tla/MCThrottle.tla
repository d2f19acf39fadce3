----------------------------- MODULE MCThrottle -----------------------------
(* throttle.cfg gives every constant a value of its own.                    *)
EXTENDS Throttle
=============================================================================
