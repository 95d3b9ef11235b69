----------------------------- MODULE MCMainLoop -----------------------------
(* The main loop with a few connections and a short queue. *)
EXTENDS MainLoop
=============================================================================
