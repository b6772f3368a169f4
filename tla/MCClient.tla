------------------------------- MODULE MCClient -------------------------------
(* Instances of PanosClient.                                                *)
EXTENDS PanosClient
=============================================================================
