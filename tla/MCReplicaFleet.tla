---------------------------- MODULE MCReplicaFleet ----------------------------
(***************************************************************************)
(* Small instances of ReplicaFleet.                                        *)
(***************************************************************************)
EXTENDS ReplicaFleet, TLC

CONSTANTS a, b, v1, tts, asr, x1

MCRequest  == {a}
MCRequests == {a, b}
MCSymmetry == Permutations(MCRequests)
MCVoice    == {v1}
MCOnePool  == {tts}
MCPools    == {tts, asr}
MCTTS      == {tts}
MCNone     == {}
MCExternal == {x1}
=============================================================================
