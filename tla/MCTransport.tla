----------------------------- MODULE MCTransport -----------------------------
(* Transport for TLC; the cfg files give the constants. *)
EXTENDS Transport
=============================================================================
