---------------------------- MODULE MCInstallation ----------------------------
(* Small instances of Installation.                                        *)
EXTENDS Installation, TLC

CONSTANTS r1, q1, q2, p1

OneRecording == {r1}
OneRequest == {q1}
TwoRequests == {q1, q2}
OnePurge == {p1}
RequestSymmetry == Permutations(TwoRequests)
=============================================================================
