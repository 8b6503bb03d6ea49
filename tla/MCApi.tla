------------------------------- MODULE MCApi -------------------------------
(* A small instance of ApiClient. *)
EXTENDS ApiClient

CONSTANTS a1, a2, a3
=============================================================================
