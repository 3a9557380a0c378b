--------------------------- MODULE MCRuntimeBundle ---------------------------
(* RuntimeBundle with the rule table of the code. *)
EXTENDS RuntimeBundle, BundleRules
=============================================================================
