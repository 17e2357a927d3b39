-------------------------- MODULE MCCredentialRotation -------------------------
(* Two devices, two requests, one inventory at a time, one restart. *)
EXTENDS CredentialRotation
================================================================================
