------------------------------ MODULE MCPipeline ------------------------------
(* Small instances of Pipeline.                                            *)
EXTENDS Pipeline, TLC

CONSTANTS j1, j2

MCJobs == {j1, j2}
JobSymmetry == Permutations(MCJobs)

(* Every step served in the same way.                                      *)
Uniform(mode) == [transcription |-> mode, translation |-> mode, moderation |-> mode]
InProcess == {Uniform("provider")}
OutOfProcess == {Uniform("push"), Uniform("disabled")}
=============================================================================
