-------------------------- MODULE MC_AdminServices --------------------------
(***************************************************************************)
(* AdminServices for TLC.  One name is that of a middleware the gateway    *)
(* provides, and the other that of a route.                                *)
(***************************************************************************)
EXTENDS AdminServices

TwoNames == {"consul", "provider"}
=============================================================================
