--------------------------- MODULE MCGuidedTask ---------------------------
(* One guided task, two decisions on its means and two launches. *)
EXTENDS GuidedTask

CONSTANTS k1, k2
=============================================================================
