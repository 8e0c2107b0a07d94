---------------------------- MODULE MCToolCatalog ----------------------------
(* A small instance of ToolCatalog for TLC.                                  *)
EXTENDS ToolCatalog, TLC

CONSTANTS n1, n2, n3

OneStatic == <<n1>>
Names == {n1, n2, n3}
=============================================================================
