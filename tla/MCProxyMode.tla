---------------------------- MODULE MCProxyMode -----------------------------
(* ProxyMode has no constants: its state space is finite and is explored   *)
(* in full.                                                                *)
EXTENDS ProxyMode
=============================================================================
