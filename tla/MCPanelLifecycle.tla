-------------------------- MODULE MCPanelLifecycle --------------------------
(* A small instance of PanelLifecycle for TLC.                               *)
EXTENDS PanelLifecycle

CONSTANTS h1, h2
=============================================================================
