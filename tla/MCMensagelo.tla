----------------------------- MODULE MCMensagelo -----------------------------
(* A few keys, of which one may be used for two messages. *)
EXTENDS Mensagelo, TLC
=============================================================================
