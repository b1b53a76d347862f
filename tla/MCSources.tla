------------------------------ MODULE MCSources ------------------------------
(* One shade; reports of two device types, of which one is supported.        *)
EXTENDS Sources
CONSTANTS single, other
BothTypes == {single, other}
OnlySingle == {single}
=============================================================================
