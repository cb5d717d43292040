----------------------------- MODULE MCGateway -----------------------------
(***************************************************************************)
(* The instance of Gateway for TLC: a provider and the one behind it.       *)
(***************************************************************************)
EXTENDS Gateway

CONSTANTS primary, fallback

TwoProviders == <<primary, fallback>>

=============================================================================
