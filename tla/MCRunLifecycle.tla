--------------------------- MODULE MCRunLifecycle ---------------------------
(* Model checking of RunLifecycle: every constant is a number or a Boolean, *)
(* given in the .cfg files.                                                 *)
EXTENDS RunLifecycle
=============================================================================
