------------------------- MODULE MCPluginController -------------------------
(***************************************************************************)
(* The plugin controller for TLC: two definitions of one version.          *)
(***************************************************************************)
EXTENDS PluginController

CONSTANTS m1, m2

=============================================================================
