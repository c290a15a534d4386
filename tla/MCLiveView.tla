----------------------------- MODULE MCLiveView -----------------------------
(***************************************************************************)
(* LiveView with two of the three scroll panels, the third being alike.    *)
(***************************************************************************)
EXTENDS LiveView

MCPanels == <<"heading", "roll">>
=============================================================================
