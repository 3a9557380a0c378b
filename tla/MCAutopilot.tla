----------------------------- MODULE MCAutopilot -----------------------------
(* Instances of Autopilot for TLC.                                           *)
EXTENDS Autopilot

\* The first bundle cannot be put on main as it is after the authors' second
\* patch; on main after their third, and for every other bundle, a rebase works.
MCClashing == {<<2, 2>>}
=============================================================================
