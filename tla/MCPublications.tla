---------------------------- MODULE MCPublications ----------------------------
(* Instances of Publications: one or two loop threads, two states of which  *)
(* one is the will's.                                                       *)
EXTENDS Publications

CONSTANTS w1, w2, m1, m2, m3, online, offline

OneWorker  == {w1}
TwoWorkers == {w1, w2}
TwoMids    == {m1, m2}
ThreeMids  == {m1, m2, m3}
OnlyNetwork == {Network}
Nobody      == {}
States     == {online, offline}
=============================================================================
