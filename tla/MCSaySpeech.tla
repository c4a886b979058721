----------------------------- MODULE MCSaySpeech -----------------------------
(***************************************************************************)
(* Small instances of SaySpeech: all texts of up to three tokens, which    *)
(* are short or longer than the cap and may end a sentence, with a space,  *)
(* a newline or nothing after them.                                        *)
(***************************************************************************)
EXTENDS SaySpeech, TLC

MCTokens == {[size |-> 3, ends |-> FALSE, gap |-> "space"],
             [size |-> 3, ends |-> TRUE,  gap |-> "space"],
             [size |-> 2, ends |-> TRUE,  gap |-> "none"],
             [size |-> 1, ends |-> FALSE, gap |-> "newline"],
             [size |-> 9, ends |-> FALSE, gap |-> "space"]}
MCTexts  == UNION {[1..n -> MCTokens] : n \in 0..3}

\* splitText loses no word, for these texts: for every text it is SplitTextKeepsWords.
ASSUME SplitKeepsWords
=============================================================================
