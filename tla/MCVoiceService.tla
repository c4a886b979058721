---------------------------- MODULE MCVoiceService ----------------------------
(***************************************************************************)
(* Small instances of VoiceService: two voices of the home chat and, where *)
(* a run has a third voice, one of another chat of the allowlist.          *)
(***************************************************************************)
EXTENDS VoiceService, TLC

CONSTANTS c1, c2, c3, v1, v2, w1, home, other

MCCalls2  == {c1, c2}
MCCalls3  == {c1, c2, c3}
MCVoices2 == {v1, v2}
MCVoices3 == {v1, v2, w1}
MCChats   == {home, other}
MCChatOf  == [v \in Voices |-> IF v = w1 THEN other ELSE home]

\* Calls are alike, and so are the voices of the home chat.
MCSymmetry == Permutations(Calls) \cup Permutations({v1, v2})
=============================================================================
