----------------------------- MODULE MC_FairToken -----------------------------
(* Three threads over a bounded number of tickets. *)
EXTENDS FairToken
==============================================================================
