------------------------------ MODULE GemmaAnswer ------------------------------
(***************************************************************************)
(* How the output of Gemma becomes the text an agent gets                  *)
(* (finalizeInterpret, stripMetaLine and extractGemmaFinal of              *)
(* internal/inference/local/local.go).                                     *)
(*                                                                         *)
(* An output is a sequence of lines and a line a sequence of pieces: some  *)
(* of the model's reasoning ("think"), the marker that ends the reasoning  *)
(* ("close"), what the user said ("words"), and metadata with a tone or an *)
(* urgency ("tag").  The marker that opens the reasoning is dropped        *)
(* wherever it matters and left out.  A line without a piece is blank.     *)
(***************************************************************************)
EXTENDS Integers, Sequences, SequencesExt

Piece  == {"think", "close", "words", "tag"}
Output == Seq(Seq(Piece))

Has(line, piece) == \E i \in 1..Len(line) : line[i] = piece

\* strings.TrimRight: blank lines at the end do not count.
TrimRight(raw) == SubSeq(raw, 1, SelectLastInSeq(raw, LAMBDA line : line # <<>>))

\* The metadata is looked for in the last two lines, the last one first, and its whole
\* line is removed.
StripMetaLine(raw) ==
    LET lines == TrimRight(raw)
        tagged == SelectLastInSubSeq(lines, IF Len(lines) > 1 THEN Len(lines) - 1 ELSE 1, Len(lines),
                                     LAMBDA line : Has(line, "tag"))
    IN  IF tagged = 0 THEN raw ELSE RemoveAt(lines, tagged)

\* What follows the last marker; without one, the last line that is not blank.
ExtractGemmaFinal(raw) ==
    LET pieces == FlattenSeq(raw)
        close  == SelectLastInSeq(pieces, LAMBDA p : p = "close")
    IN  IF close # 0 THEN SubSeq(pieces, close + 1, Len(pieces))
        ELSE IF pieces = <<>> THEN <<>> ELSE Last(TrimRight(raw))

\* Mutant of FinalizeInterpret: the answer is extracted first.
FinalizeLate(raw) == FlattenSeq(StripMetaLine(<<ExtractGemmaFinal(raw)>>))

\* The metadata goes first, then the reasoning; an answer without anything else is
\* what is left of the output.
FinalizeInterpret(raw) ==
    LET cleaned == StripMetaLine(raw)
        text    == ExtractGemmaFinal(cleaned)
    IN  IF text # <<>> THEN text ELSE FlattenSeq(cleaned)

-----------------------------------------------------------------------------
(***************************************************************************)
(* The form systemPrompt asks for: the complete text, over as many lines   *)
(* as it takes, and after it the metadata, on one line by itself, at the   *)
(* very end; a missing line of metadata is tolerated.  A model that        *)
(* reasons first ends every part of its reasoning with the marker, as      *)
(* extractGemmaFinal has it; one that answers at once emits no marker.     *)
(***************************************************************************)
WellFormed(raw) ==
    LET pieces == FlattenSeq(raw)
        at(p)  == {i \in 1..Len(pieces) : pieces[i] = p}
    IN  /\ at("words") # {}
        /\ at("tag") # {} => at("tag") = {Len(pieces)} /\ Last(TrimRight(raw)) = <<"tag">>
        /\ \A i \in at("think") : \E j \in at("close") : i < j
        /\ \A i \in at("words"), j \in at("close") : j < i

\* There is a marker that ends some reasoning.
Marked(raw) == Has(FlattenSeq(raw), "close")

\* What the user said.
Words(raw) ==
    FoldLeft(LAMBDA said, p : IF p = "words" THEN Append(said, p) ELSE said, <<>>, FlattenSeq(raw))

\* The last line in which the user says something.
LastWords(raw) == raw[SelectLastInSeq(raw, LAMBDA line : Has(line, "words"))]

=============================================================================
