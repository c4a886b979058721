---------------------------- MODULE MCNodeRequests ----------------------------
(***************************************************************************)
(* Small instances of NodeRequests.                                        *)
(***************************************************************************)
EXTENDS NodeRequests, TLC

CONSTANTS r1, r2, n1, n2

MCRequests == {r1, r2}
MCNames    == {n1, n2}

\* As asked, with and without reasoning (in one part or two) and metadata, on one line or
\* several, each with a marker and without; cut off in the reasoning; metadata alone; words
\* on the line of the metadata.
MCOutputs == {
    << <<"think">>, <<"think", "close", "words">>, <<"words">>, <<>>, <<"tag">> >>,
    << <<"think">>, <<"close", "think">>, <<"close", "words">>, <<>> >>,
    << <<"words">>, <<"tag">>, <<>> >>,
    << <<"words">> >>,
    << <<"words">>, <<>>, <<"words", "words">>, <<"tag">>, <<>> >>,
    << <<"think">>, <<"think">> >>,
    << <<"tag">> >>,
    << <<"words", "tag">> >> }
=============================================================================
