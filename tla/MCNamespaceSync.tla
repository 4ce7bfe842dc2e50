--------------------------- MODULE MCNamespaceSync ---------------------------
(***************************************************************************)
(* NamespaceSync for TLC: two namespaces that follow each other under one  *)
(* name.                                                                   *)
(***************************************************************************)
EXTENDS NamespaceSync

CONSTANTS n1, n2
=============================================================================
