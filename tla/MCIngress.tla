----------------------------- MODULE MCIngress -----------------------------
(* A small instance of Ingress for TLC. *)
EXTENDS Ingress
=============================================================================
