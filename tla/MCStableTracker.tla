---------------------------- MODULE MCStableTracker ----------------------------
(* StableTracker with the weights, times and limits of a configuration.     *)
EXTENDS StableTracker
===============================================================================
