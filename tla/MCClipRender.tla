---------------------------- MODULE MCClipRender -----------------------------
(* A small instance of ClipRender for TLC; its constants are in clips.cfg. *)
EXTENDS ClipRender
==============================================================================
