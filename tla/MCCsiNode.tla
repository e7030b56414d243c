----------------------------- MODULE MCCsiNode -----------------------------
(* One volume and two worker goroutines. *)
EXTENDS CsiNode
=============================================================================
