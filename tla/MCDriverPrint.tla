----------------------------- MODULE MCDriverPrint -----------------------------
(* DriverPrint with the requests and limits of a configuration file.         *)
EXTENDS DriverPrint
===============================================================================
