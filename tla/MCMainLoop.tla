------------------------------ MODULE MCMainLoop ------------------------------
(* Two shades; a cycle of polls as long as both of them take.                *)
EXTENDS MainLoop
CONSTANTS s1, s2
TwoShades == <<s1, s2>>
=============================================================================
