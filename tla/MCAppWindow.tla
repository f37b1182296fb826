---------------------------- MODULE MCAppWindow ----------------------------
(* AppWindow with the bounds of its configurations. *)
EXTENDS AppWindow
=============================================================================
