----------------------------- MODULE MCScaleStream -----------------------------
(* ScaleStream with the alphabet and the limits of a configuration file.    *)
EXTENDS ScaleStream
===============================================================================
