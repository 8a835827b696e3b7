---------------------------- MODULE MCRenderGate ----------------------------
(* Instances of RenderGate for TLC. *)
EXTENDS RenderGate

=============================================================================
