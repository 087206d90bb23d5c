---------------------------- MODULE MCRunStream -----------------------------
(* Model checking of RunStream: a run and the browser that watches it.      *)
EXTENDS RunStream
=============================================================================
