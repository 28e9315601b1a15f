---------------------------- MODULE MCScaleMonitor -----------------------------
(* ScaleMonitor with the clients, weights and limits of a configuration.    *)
EXTENDS ScaleMonitor
===============================================================================
