---- MODULE MCAnchorLoop ----
(* Instances of AnchorLoop.                                                *)
EXTENDS AnchorLoop
====
