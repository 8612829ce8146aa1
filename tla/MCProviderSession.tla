------------------------- MODULE MCProviderSession -------------------------
(***************************************************************************)
(* ProviderSession for TLC: sessions that share a namespace with a process *)
(* that closes its browser.                                                *)
(***************************************************************************)
EXTENDS ProviderSession

=============================================================================
