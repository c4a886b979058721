------------------------------ MODULE SaySpeech ------------------------------
(***************************************************************************)
(* How a text becomes one voice note: voice.Service.Say cuts it in chunks  *)
(* (internal/voice/segment.go), synthesizes them in concurrent goroutines  *)
(* with retries (synthesizeChunks), joins the WAV files and delivers the   *)
(* result (internal/voice/service.go).                                     *)
(*                                                                         *)
(* One call of Say is modelled: calls share nothing but sessions and the   *)
(* inference engine, whose answers are free here.  The HTTP request that   *)
(* Say serves may be cancelled at any time, and any step that touches the  *)
(* disk, ffmpeg or the network may fail.                                   *)
(***************************************************************************)
EXTENDS Integers, Sequences, SequencesExt

CONSTANTS
    Texts,           \* the texts an agent may ask for, see Token
    ChunkTarget,     \* chunkTarget
    ChunkHardCap,    \* chunkHardCap
    MaxConcurrency,  \* sayMaxConcurrency
    MaxAttempts      \* sayMaxAttempts

(***************************************************************************)
(* A text is a sequence of tokens.  A token is a run of runes that has no  *)
(* space in it and ends, if ends is TRUE, with terminators (. ! ? ; ...);  *)
(* gap is what follows it.  Only a terminator can be followed by a token   *)
(* without a space, as in "3.14".                                          *)
(***************************************************************************)
Token == [size : Nat \ {0}, ends : BOOLEAN, gap : {"none", "space", "newline"}]

ASSUME SayAssumption ==
    /\ Texts \subseteq Seq(Token)
    /\ ChunkTarget \in Nat /\ ChunkHardCap \in Nat /\ ChunkTarget <= ChunkHardCap
    /\ MaxConcurrency \in Nat \ {0} /\ MaxAttempts \in Nat \ {0}

-----------------------------------------------------------------------------
(***************************************************************************)
(* splitText.  A segment and a chunk are sequences of indices of tokens,   *)
(* which are joined by single spaces.                                      *)
(***************************************************************************)
Length(t, s) == FoldLeft(LAMBDA n, i : n + t[i].size, Len(s) - 1, s)

\* What is cut off so far, and what the builder holds (cur).
NothingCut == [done |-> <<>>, cur |-> <<>>]
Flush(p) == IF p.cur = <<>> THEN p ELSE [done |-> Append(p.done, p.cur), cur |-> <<>>]

\* splitSentences: cut after terminators and newlines.
Segments(t) ==
    LET scan(p, i) ==
          LET q == [p EXCEPT !.cur = Append(@, i)]
          IN  IF t[i].ends \/ t[i].gap = "newline" THEN Flush(q) ELSE q
    IN  Flush(FoldLeftDomain(scan, NothingCut, t)).done

\* Mutant of Pack: the separating space is forgotten, and the bound is the cap.
PackToCap(t, p, s) ==
    IF p.cur = <<>> THEN [p EXCEPT !.cur = s]
    ELSE IF Length(t, p.cur) + Length(t, s) <= ChunkHardCap THEN [p EXCEPT !.cur = @ \o s]
    ELSE [done |-> Append(p.done, p.cur), cur |-> s]

\* Add s to the chunk that is being packed if it fits, else begin another chunk.
Pack(t, p, s) ==
    IF p.cur = <<>> THEN [p EXCEPT !.cur = s]
    ELSE IF Length(t, p.cur) + 1 + Length(t, s) <= ChunkTarget THEN [p EXCEPT !.cur = @ \o s]
    ELSE [done |-> Append(p.done, p.cur), cur |-> s]

PackWords(t, s) == Flush(FoldLeft(LAMBDA p, i : Pack(t, p, <<i>>), NothingCut, s)).done

\* Sentences are packed whole; one that exceeds the cap is cut between words.
SplitText(t) ==
    LET add(p, s) ==
          IF Length(t, s) > ChunkHardCap
          THEN [done |-> Flush(p).done \o PackWords(t, s), cur |-> <<>>]
          ELSE Pack(t, p, s)
    IN  Flush(FoldLeft(add, NothingCut, Segments(t))).done

\* Say speaks a text without any word as one chunk.
Chunks(t) == IF SplitText(t) = <<>> THEN <<t>> ELSE SplitText(t)

\* The chunks of every text are its tokens, each once and in order.
SplitKeepsWords ==
    \A t \in Texts : /\ Chunks(t) \in Seq(Seq(1..Len(t)))
                     /\ FlattenSeq(Chunks(t)) = [i \in 1..Len(t) |-> i]

-----------------------------------------------------------------------------
VARIABLES
    text,       \* the text to speak
    chunks,     \* the chunks it is cut into
    pc,         \* the step of Say
    ended,      \* the context of the HTTP request is done
    cancelled,  \* synthesizeChunks cancelled the context of its goroutines
    failed,     \* firstErr is set
    g,          \* g[i]: the step of the goroutine of chunk i
    attempt,    \* attempt[i]: its loop variable
    wavs,       \* wavs[i]: the chunk whose WAV file wavs[i] names, or NoWav
    files,      \* the chunks whose WAV file is on the disk
    temp,       \* other files on the disk: an answer cut short, the joined WAV, the ogg
    note        \* the voice note the user got: the tokens it speaks, in order

vars == <<text, chunks, pc, ended, cancelled, failed, g, attempt, wavs, files, temp, note>>

NoWav  == 0
NoNote == <<0>>
Parts  == 1..Len(chunks)

TypeOK ==
    /\ text \in Texts /\ chunks \in Seq(Seq(1..Len(text)))
    /\ pc \in {"begin", "chunks", "join", "transcode", "deliver", "succeed", "fail", "spoken", "error"}
    /\ ended \in BOOLEAN /\ cancelled \in BOOLEAN /\ failed \in BOOLEAN
    /\ g \in [Parts -> {"queued", "attempt", "calling", "failing", "cancelling", "done"}]
    /\ attempt \in [Parts -> 1..MaxAttempts]
    /\ wavs \in [Parts -> Parts \cup {NoWav}]
    /\ files \in SUBSET Parts
    /\ temp \in SUBSET {"partial", "joined", "ogg"}
    /\ note \in Seq(0..Len(text))

Init ==
    /\ text \in Texts /\ chunks = Chunks(text)
    /\ pc = "begin"
    /\ ended = FALSE /\ cancelled = FALSE /\ failed = FALSE
    /\ g = [i \in Parts |-> "queued"]
    /\ attempt = [i \in Parts |-> 1]
    /\ wavs = [i \in Parts |-> NoWav]
    /\ files = {} /\ temp = {} /\ note = NoNote

-----------------------------------------------------------------------------
(***************************************************************************)
(* The goroutines of synthesizeChunks.                                     *)
(***************************************************************************)
ContextDone == ended \/ cancelled

Goto(i, step) == g' = [g EXCEPT ![i] = step]

\* The goroutines that have a place in sem.
Holders == {i \in Parts : g[i] \in {"attempt", "calling", "failing", "cancelling"}}

\* The first select: a place in sem, or the context.
Acquire(i) ==
    /\ pc = "chunks" /\ g[i] = "queued"
    /\ Cardinality(Holders) < MaxConcurrency
    /\ Goto(i, "attempt")
    /\ UNCHANGED <<text, chunks, pc, ended, cancelled, failed, attempt, wavs, files, temp, note>>

Abandon(i) ==
    /\ pc = "chunks" /\ g[i] = "queued" /\ ContextDone
    /\ Goto(i, "done")
    /\ UNCHANGED <<text, chunks, pc, ended, cancelled, failed, attempt, wavs, files, temp, note>>

\* An attempt looks at the context, and calls the engine.
Attempt(i) ==
    /\ g[i] = "attempt"
    /\ Goto(i, IF ContextDone THEN "done" ELSE "calling")
    /\ UNCHANGED <<text, chunks, pc, ended, cancelled, failed, attempt, wavs, files, temp, note>>

\* Mutant of Synthesized: the paths are kept in the order of completion.
SynthesizedNext(i) ==
    /\ g[i] = "calling"
    /\ files' = files \cup {i}
    /\ \E j \in Parts : /\ wavs[j] = NoWav /\ \A k \in 1..(j - 1) : wavs[k] # NoWav
                        /\ wavs' = [wavs EXCEPT ![j] = i]
    /\ Goto(i, "done")
    /\ UNCHANGED <<text, chunks, pc, ended, cancelled, failed, attempt, temp, note>>

\* The engine returned a WAV file.
Synthesized(i) ==
    /\ g[i] = "calling"
    /\ files' = files \cup {i}
    /\ wavs' = [wavs EXCEPT ![i] = i]
    /\ Goto(i, "done")
    /\ UNCHANGED <<text, chunks, pc, ended, cancelled, failed, attempt, temp, note>>

\* Mutant of NoAudio: a chunk is tried until it succeeds.
NoAudioRetried(i) ==
    /\ g[i] = "calling"
    /\ Goto(i, "attempt")
    /\ UNCHANGED <<text, chunks, pc, ended, cancelled, failed, attempt, wavs, files, temp, note>>

\* Mutant of NoAudio: one attempt more than the budget.
NoAudioOnceMore(i) ==
    /\ g[i] = "calling"
    /\ IF attempt[i] <= MaxAttempts
       THEN Goto(i, "attempt") /\ attempt' = [attempt EXCEPT ![i] = @ + 1]
       ELSE Goto(i, "failing") /\ UNCHANGED attempt
    /\ UNCHANGED <<text, chunks, pc, ended, cancelled, failed, wavs, files, temp, note>>

\* It returned an error, perhaps after it wrote a part of the file, or no audio.
NoAudio(i) ==
    /\ g[i] = "calling"
    /\ temp' \in {temp, temp \cup {"partial"}}
    /\ IF attempt[i] < MaxAttempts
       THEN Goto(i, "attempt") /\ attempt' = [attempt EXCEPT ![i] = @ + 1]
       ELSE Goto(i, "failing") /\ UNCHANGED attempt
    /\ UNCHANGED <<text, chunks, pc, ended, cancelled, failed, wavs, files, note>>

\* Mutant of Fail: the others are stopped, and the error is not kept.
FailSilently(i) ==
    /\ g[i] = "failing"
    /\ Goto(i, "cancelling")
    /\ UNCHANGED <<text, chunks, pc, ended, cancelled, failed, attempt, wavs, files, temp, note>>

\* fail: keep the first error, then stop the other goroutines.
Fail(i) ==
    /\ g[i] = "failing"
    /\ failed' = TRUE
    /\ Goto(i, "cancelling")
    /\ UNCHANGED <<text, chunks, pc, ended, cancelled, attempt, wavs, files, temp, note>>

Cancel(i) ==
    /\ g[i] = "cancelling"
    /\ cancelled' = TRUE
    /\ Goto(i, "done")
    /\ UNCHANGED <<text, chunks, pc, ended, failed, attempt, wavs, files, temp, note>>

Goroutine(i) ==
    \/ Acquire(i) \/ Abandon(i) \/ Attempt(i) \/ Synthesized(i) \/ NoAudio(i)
    \/ Fail(i) \/ Cancel(i)

-----------------------------------------------------------------------------
(***************************************************************************)
(* Say.                                                                    *)
(***************************************************************************)

\* Make the directory, have the node know the voice, cut the text.
Begin ==
    /\ pc = "begin"
    /\ pc' \in {"chunks", "error"}
    /\ UNCHANGED <<text, chunks, ended, cancelled, failed, g, attempt, wavs, files, temp, note>>

\* Mutant of Gather: it returns as soon as a chunk has failed.
GatherEarly ==
    /\ pc = "chunks"
    /\ failed \/ \A i \in Parts : g[i] = "done"
    /\ cancelled' = TRUE
    /\ pc' = IF failed THEN "fail" ELSE IF Len(chunks) > 1 THEN "join" ELSE "transcode"
    /\ UNCHANGED <<text, chunks, ended, failed, g, attempt, wavs, files, temp, note>>

\* wg.Wait, and synthesizeChunks returns; a single WAV needs no joining.
Gather ==
    /\ pc = "chunks"
    /\ \A i \in Parts : g[i] = "done"
    /\ cancelled' = TRUE
    /\ pc' = IF failed THEN "fail" ELSE IF Len(chunks) > 1 THEN "join" ELSE "transcode"
    /\ UNCHANGED <<text, chunks, ended, failed, g, attempt, wavs, files, temp, note>>

\* A file that wavs names can be opened, one it does not name cannot.
Readable == \A i \in Parts : wavs[i] \in files

\* ConcatWavs; a file it could not write whole stays.
Join ==
    /\ pc = "join"
    /\ \/ Readable /\ pc' = "transcode" /\ temp' = temp \cup {"joined"}
       \/ pc' = "fail" /\ temp' \in {temp, temp \cup {"joined"}}
    /\ UNCHANGED <<text, chunks, ended, cancelled, failed, g, attempt, wavs, files, note>>

\* ffmpeg, which the end of the request's context kills; its output stays then.
\* The joined WAV is removed on the way out.
Transcode ==
    /\ pc = "transcode"
    /\ \/ Readable /\ ~ended /\ pc' = "deliver" /\ temp' = temp \cup {"ogg"}
       \/ pc' = "fail" /\ temp' \in {temp \ {"joined"}, (temp \ {"joined"}) \cup {"ogg"}}
    /\ UNCHANGED <<text, chunks, ended, cancelled, failed, g, attempt, wavs, files, note>>

\* What the joined file plays: the chunks in the order of wavs.
Spoken == FlattenSeq([i \in Parts |-> IF wavs[i] = NoWav THEN <<>> ELSE chunks[wavs[i]]])

\* SendVoice, which may fail although the user got the note; both files are
\* removed on the way out.
Deliver ==
    /\ pc = "deliver"
    /\ \/ ~ended /\ note' = Spoken /\ pc' = "succeed"
       \/ note' \in {note, Spoken} /\ pc' = "fail"
    /\ temp' = temp \ {"joined", "ogg"}
    /\ UNCHANGED <<text, chunks, ended, cancelled, failed, g, attempt, wavs, files>>

\* The deferred cleanup of synthesizeChunks, and the return.
Cleanup ==
    /\ pc \in {"succeed", "fail"}
    /\ files' = files \ {wavs[i] : i \in Parts}
    /\ pc' = IF pc = "succeed" THEN "spoken" ELSE "error"
    /\ UNCHANGED <<text, chunks, ended, cancelled, failed, g, attempt, wavs, temp, note>>

\* The agent hangs up.
EndContext ==
    /\ ~ended /\ pc \notin {"spoken", "error"}
    /\ ended' = TRUE
    /\ UNCHANGED <<text, chunks, pc, cancelled, failed, g, attempt, wavs, files, temp, note>>

Say == Begin \/ Gather \/ Join \/ Transcode \/ Deliver \/ Cleanup

Next == Say \/ EndContext \/ \E i \in Parts : Goroutine(i)

\* Goroutines run; the engine and the Telegram API answer within the timeouts of
\* their HTTP clients, and ffmpeg ends.
Fairness == WF_vars(Say) /\ WF_vars(\E i \in Parts : Goroutine(i))

Spec == Init /\ [][Next]_vars /\ Fairness

-----------------------------------------------------------------------------
(***************************************************************************)
(* Properties.                                                             *)
(***************************************************************************)

\* The user hears every word of the text, once and in order, or nothing at all:
\* chunks that finish out of order, fail or are abandoned never give a note with
\* a gap ("a silent gap in the delivered speech is worse than a retry").
SpokenWhole == note # NoNote => note = [i \in 1..Len(text) |-> i]

\* Every chunk stays under the cap of the backend, unless it is one long word.
ChunksFit ==
    \A i \in Parts :
        Len(chunks[i]) > 1 => Length(text, chunks[i]) <= ChunkHardCap

\* A chunk that is missing was reported as an error, or the caller hung up: no
\* goroutine gives up without either.
NoSilentGap ==
    pc \in {"join", "transcode"} => ended \/ \A i \in Parts : wavs[i] # NoWav

\* "cleanup removes every produced WAV ... including on error", also those of
\* goroutines that finish after another one failed.
WavsRemoved == pc \in {"spoken", "error"} => files = {}

\* Every Say returns.
SayReturns == pc = "begin" ~> pc \in {"spoken", "error"}

=============================================================================
