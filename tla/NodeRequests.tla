----------------------------- MODULE NodeRequests -----------------------------
(***************************************************************************)
(* The requests of the inference node and their files: the handlers        *)
(* speech, transcriptions and interpret (cmd/inferenced/main.go) and the   *)
(* engine behind them, Synthesize, Transcribe and Interpret with the       *)
(* ensemble of recognizers (internal/inference/local/local.go).            *)
(*                                                                         *)
(* Handlers run in one goroutine per request, and so does every recognizer *)
(* of an ensemble.  An upload goes to a file that is named after the       *)
(* route, the second and the client's file name, so two requests may share *)
(* it: the file system is modelled with paths and inodes.  Files that the  *)
(* engine makes are named after the nanosecond and belong to their request.*)
(*                                                                         *)
(* A call of a pooled server or of a subprocess is one step that succeeds  *)
(* or fails: WorkerPool models the failover and shows that it returns.     *)
(* Pools come and go, so a request may find one or none whenever it looks. *)
(***************************************************************************)
EXTENDS GemmaAnswer, FiniteSets

CONSTANTS
    Requests,     \* the requests ever made; each is also the inode of its upload
    Names,        \* the names of uploaded files: a second and a client's file name
    Recognizers,  \* the number of configured recognizers, which are 1..Recognizers
    Outputs,      \* what Gemma may answer
    None,         \* no file, no transcript
    Empty,        \* an empty file, an empty transcript
    Torn          \* parts of several uploads, or a part of one

ASSUME NodeAssumption ==
    /\ Recognizers \in Nat /\ Outputs \subseteq Output
    /\ None \notin Requests /\ Empty \notin Requests /\ Torn \notin Requests
    /\ None # Empty /\ None # Torn /\ Empty # Torn

VARIABLES
    pc,      \* pc[r]: the step of the handler of r
    kind,    \* kind[r]: what r asks for
    name,    \* name[r]: the name of its upload
    path,    \* path[f]: the inode that file f names, or None
    fd,      \* fd[r]: the inode that r has open for writing, or None
    data,    \* data[i]: what inode i holds: the audio of a request, Empty or Torn
    clash,   \* clash[r]: another running request had the same name
    wav,     \* wav[r]: the file that the engine makes for r
    heard,   \* heard[r]: the audio that wav[r] was made from or a server was sent
    leg,     \* leg[r][i]: the goroutine of recognizer i
    text,    \* text[r][i]: the audio that its transcript is of, Empty, or None
    given,   \* given[r]: the recognizers whose transcripts Gemma or the client gets
    reply,   \* reply[r]: how r ended
    answer   \* answer[r]: Gemma's output; the agent gets FinalizeInterpret of it

fileVars == <<path, fd, data, clash>>
wavVars  == <<wav, heard>>
legVars  == <<leg, text, given>>
vars     == <<pc, kind, name, fileVars, wavVars, legVars, reply, answer>>

Ensemble == 1..Recognizers
Uploads  == {"transcribe", "literal", "assisted", "intent"}
Files    == {"asr_in", "in"} \X Names
Audio    == Requests \cup {Empty, Torn}

\* Steps between the creation of the upload and its removal.
Uploading == {"copy", "check", "direct", "transcode", "listen", "shape", "dropwav", "dropupload"}

TypeOK ==
    /\ pc \in [Requests -> Uploading \cup {"new", "synthesize", "serve", "create", "over"}]
    /\ kind \in [Requests -> Uploads \cup {"speech"}]
    /\ name \in [Requests -> Names]
    /\ path \in [Files -> Requests \cup {None}] /\ fd \in [Requests -> Requests \cup {None}]
    /\ data \in [Requests -> Audio]
    /\ clash \in [Requests -> BOOLEAN]
    /\ wav \in [Requests -> {"none", "partial", "whole"}]
    /\ heard \in [Requests -> Audio \cup {None}]
    /\ leg \in [Requests -> [Ensemble -> {"off", "run", "done"}]]
    /\ text \in [Requests -> [Ensemble -> Audio \cup {None}]]
    /\ given \in [Requests -> SUBSET Ensemble]
    /\ reply \in [Requests -> {"none", "ok", "error", "unreadable"}]
    /\ answer \in [Requests -> Output]

NoLegs  == [i \in Ensemble |-> "off"]
NoTexts == [i \in Ensemble |-> None]

\* Kind and name of a request are the client's choice and the clock's.
Init ==
    /\ pc = [r \in Requests |-> "new"]
    /\ kind \in [Requests -> Uploads \cup {"speech"}] /\ name \in [Requests -> Names]
    /\ path = [f \in Files |-> None] /\ fd = [r \in Requests |-> None]
    /\ data = [r \in Requests |-> Empty] /\ clash = [r \in Requests |-> FALSE]
    /\ wav = [r \in Requests |-> "none"] /\ heard = [r \in Requests |-> None]
    /\ leg = [r \in Requests |-> NoLegs] /\ text = [r \in Requests |-> NoTexts]
    /\ given = [r \in Requests |-> {}]
    /\ reply = [r \in Requests |-> "none"] /\ answer = [r \in Requests |-> <<>>]

Goto(r, step) == pc' = [pc EXCEPT ![r] = step]
Reply(r, how) == reply' = [reply EXCEPT ![r] = how]

\* The handler of an upload answers an error and its deferred removal comes next.
FailAt(r, step) == Goto(r, step) /\ Reply(r, "error")

File(r)    == <<IF kind[r] = "transcribe" THEN "asr_in" ELSE "in", name[r]>>
Sharing(r) == {s \in Requests \ {r} : pc[s] \in Uploading /\ File(s) = File(r)}

-----------------------------------------------------------------------------
(* A request arrives: a body that cannot be read ends it. *)

Accept(r) ==
    /\ pc[r] = "new"
    /\ Goto(r, IF kind[r] = "speech" THEN "synthesize" ELSE "create")
    /\ UNCHANGED <<kind, name, fileVars, wavVars, legVars, reply, answer>>

Refuse(r) ==
    /\ pc[r] = "new" /\ FailAt(r, "over")
    /\ UNCHANGED <<kind, name, fileVars, wavVars, legVars, answer>>

-----------------------------------------------------------------------------
(* speech: a server of the pool, or the command line, makes the file that  *)
(* the handler serves and removes.                                         *)

Synthesize(r) ==
    /\ pc[r] = "synthesize" /\ Goto(r, "serve")
    /\ wav' = [wav EXCEPT ![r] = "whole"]
    /\ UNCHANGED <<kind, name, fileVars, heard, legVars, reply, answer>>

\* A write that fails and a command that fails may leave part of the file.
SynthesizeFails(r) ==
    /\ pc[r] = "synthesize" /\ FailAt(r, "over")
    /\ \E left \in {"none", "partial"} : wav' = [wav EXCEPT ![r] = left]
    /\ UNCHANGED <<kind, name, fileVars, heard, legVars, answer>>

\* The removal is registered before the file is opened: it happens either way.
Serve(r) ==
    /\ pc[r] = "serve" /\ Goto(r, "over")
    /\ \E how \in {"ok", "error"} : Reply(r, how)
    /\ wav' = [wav EXCEPT ![r] = "none"]
    /\ UNCHANGED <<kind, name, fileVars, heard, legVars, answer>>

-----------------------------------------------------------------------------
(* transcriptions and interpret: the upload. *)

\* os.Create truncates a file of that name that is there already.
Create(r) ==
    LET inode == IF path[File(r)] = None THEN r ELSE path[File(r)]
    IN  /\ pc[r] = "create" /\ Goto(r, "copy")
        /\ path' = [path EXCEPT ![File(r)] = inode]
        /\ fd' = [fd EXCEPT ![r] = inode]
        /\ data' = [data EXCEPT ![inode] = Empty]
        /\ clash' = [s \in Requests |-> \/ clash[s] \/ s \in Sharing(r)
                                        \/ s = r /\ Sharing(r) # {}]
        /\ UNCHANGED <<kind, name, wavVars, legVars, reply, answer>>

CreateFails(r) ==
    /\ pc[r] = "create" /\ FailAt(r, "over")
    /\ UNCHANGED <<kind, name, fileVars, wavVars, legVars, answer>>

\* Another request wrote to the inode since it was truncated, or is about to.
Mixed(r) == \/ data[fd[r]] # Empty
            \/ \E s \in Requests \ {r} : pc[s] = "copy" /\ fd[s] = fd[r]

Copy(r) ==
    /\ pc[r] = "copy" /\ Goto(r, "check")
    /\ \E content \in {r} \cup (IF Mixed(r) THEN {Torn} ELSE {}) :
         data' = [data EXCEPT ![fd[r]] = content]
    /\ fd' = [fd EXCEPT ![r] = None]
    /\ UNCHANGED <<kind, name, path, clash, wavVars, legVars, reply, answer>>

\* Mutant of CopyFails: the removal is registered after the copy.
CopyFailsFirst(r) ==
    /\ pc[r] = "copy" /\ FailAt(r, "over")
    /\ data' = [data EXCEPT ![fd[r]] = Torn]
    /\ fd' = [fd EXCEPT ![r] = None]
    /\ UNCHANGED <<kind, name, path, clash, wavVars, legVars, answer>>

CopyFails(r) ==
    /\ pc[r] = "copy" /\ FailAt(r, "dropupload")
    /\ data' = [data EXCEPT ![fd[r]] = Torn]
    /\ fd' = [fd EXCEPT ![r] = None]
    /\ UNCHANGED <<kind, name, path, clash, wavVars, legVars, answer>>

-----------------------------------------------------------------------------
(* Interpret and Transcribe: the audio that the recognizers get. *)

Missing(r) == path[File(r)] = None

\* The recognizers a request starts: all at once, the one it names, or none.
Legs(r) == CASE kind[r] = "transcribe" -> {{i} : i \in Ensemble}
             [] kind[r] = "intent"     -> {{}}
             [] OTHER                  -> {Ensemble}

\* A transcription goes to a live server, if there is one, and its upload with it.
Check(r) ==
    /\ pc[r] = "check" /\ ~Missing(r)
    /\ \/ Legs(r) # {} /\ Goto(r, "transcode")
       \/ kind[r] = "transcribe" /\ Goto(r, "direct")
    /\ UNCHANGED <<kind, name, fileVars, wavVars, legVars, reply, answer>>

Unreadable(r) ==
    /\ pc[r] = "check" /\ Missing(r)
    /\ Goto(r, "dropupload") /\ Reply(r, "unreadable")
    /\ UNCHANGED <<kind, name, fileVars, wavVars, legVars, answer>>

\* No recognizer of that name.
NoRecognizer(r) ==
    /\ pc[r] = "check" /\ ~Missing(r) /\ kind[r] = "transcribe"
    /\ FailAt(r, "dropupload")
    /\ UNCHANGED <<kind, name, fileVars, wavVars, legVars, answer>>

\* What one gets from an upload, which others may be writing.
Readings(r) ==
    LET inode == path[File(r)]
    IN  {data[inode]} \cup (IF \E s \in Requests : pc[s] = "copy" /\ fd[s] = inode
                            THEN {Torn} ELSE {})

Direct(r) ==
    /\ pc[r] = "direct" /\ ~Missing(r)
    /\ \E audio \in Readings(r) : heard' = [heard EXCEPT ![r] = audio]
    /\ Goto(r, "dropupload") /\ Reply(r, "ok")
    /\ UNCHANGED <<kind, name, fileVars, wav, legVars, answer>>

DirectFails(r) ==
    /\ pc[r] = "direct" /\ FailAt(r, "dropupload")
    /\ UNCHANGED <<kind, name, fileVars, wavVars, legVars, answer>>

Transcode(r) ==
    /\ pc[r] = "transcode" /\ ~Missing(r)
    /\ \E audio \in Readings(r) \ {Empty} : heard' = [heard EXCEPT ![r] = audio]
    /\ wav' = [wav EXCEPT ![r] = "whole"]
    /\ \E started \in Legs(r) :
         leg' = [leg EXCEPT ![r] = [i \in Ensemble |-> IF i \in started THEN "run" ELSE "off"]]
    /\ Goto(r, IF kind[r] = "intent" THEN "shape" ELSE "listen")
    /\ UNCHANGED <<kind, name, fileVars, text, given, reply, answer>>

\* The removal is registered after ffmpeg ran, which may have created the file.
TranscodeFails(r) ==
    /\ pc[r] = "transcode" /\ FailAt(r, "dropupload")
    /\ \E left \in {"none", "partial"} : wav' = [wav EXCEPT ![r] = left]
    /\ UNCHANGED <<kind, name, fileVars, heard, legVars, answer>>

-----------------------------------------------------------------------------
(* runRecognizers: one goroutine per recognizer. *)

LegAnswers(r, i) ==
    /\ leg[r][i] = "run" /\ wav[r] = "whole"
    /\ \E transcript \in {heard[r], Empty} : text' = [text EXCEPT ![r][i] = transcript]
    /\ leg' = [leg EXCEPT ![r][i] = "done"]
    /\ UNCHANGED <<pc, kind, name, fileVars, wavVars, given, reply, answer>>

LegFails(r, i) ==
    /\ leg[r][i] = "run" /\ leg' = [leg EXCEPT ![r][i] = "done"]
    /\ UNCHANGED <<pc, kind, name, fileVars, wavVars, text, given, reply, answer>>

\* Mutant of Heard: recognizers are numbered from zero.
HeardFromZero(r) == {i - 1 : i \in {n \in Ensemble : text[r][n] \notin {None, Empty}}}

\* The recognizers with a transcript that is not empty.
Heard(r) == {i \in Ensemble : text[r][i] \notin {None, Empty}}

\* What the transcripts are for.  An empty one is an answer to a transcription.
AfterJoin(r) ==
    CASE kind[r] = "assisted" -> Goto(r, "shape") /\ UNCHANGED reply
      [] kind[r] = "literal"  -> /\ Goto(r, "dropwav")
                                 /\ Reply(r, IF Heard(r) # {} THEN "ok" ELSE "error")
      [] OTHER -> /\ Goto(r, "dropwav")
                  /\ Reply(r, IF \E i \in Ensemble : text[r][i] # None THEN "ok" ELSE "error")

\* Mutant of Join: the transcripts are collected as soon as there is one.
JoinFirst(r) ==
    /\ pc[r] = "listen" /\ \E i \in Ensemble : leg[r][i] = "done"
    /\ given' = [given EXCEPT ![r] = Heard(r)]
    /\ AfterJoin(r)
    /\ UNCHANGED <<kind, name, fileVars, wavVars, leg, text, answer>>

\* Mutant of Join: a result of every recognizer is awaited, one that failed sends none.
JoinResults(r) ==
    /\ pc[r] = "listen" /\ \A i \in Ensemble : leg[r][i] # "off" => text[r][i] # None
    /\ given' = [given EXCEPT ![r] = Heard(r)]
    /\ AfterJoin(r)
    /\ UNCHANGED <<kind, name, fileVars, wavVars, leg, text, answer>>

\* wg.Wait, then the transcripts, which are in the order of the configuration.
Join(r) ==
    /\ pc[r] = "listen" /\ \A i \in Ensemble : leg[r][i] # "run"
    /\ given' = [given EXCEPT ![r] = Heard(r)]
    /\ AfterJoin(r)
    /\ UNCHANGED <<kind, name, fileVars, wavVars, leg, text, answer>>

-----------------------------------------------------------------------------
(* interpretGemma and the removal of the files. *)

\* What a request heard matters until it has its reply.
Forget(r) == /\ heard' = [heard EXCEPT ![r] = None] /\ leg' = [leg EXCEPT ![r] = NoLegs]
                  /\ text' = [text EXCEPT ![r] = NoTexts] /\ given' = [given EXCEPT ![r] = {}]

\* A server's answer counts even when nothing is left of it.
Shape(r) ==
    /\ pc[r] = "shape" /\ wav[r] = "whole" /\ Goto(r, "dropwav") /\ Reply(r, "ok")
    /\ \E raw \in Outputs : answer' = [answer EXCEPT ![r] = raw]
    /\ Forget(r)
    /\ UNCHANGED <<kind, name, fileVars, wav>>

\* From the command line, nothing is an error.
ShapeFails(r) ==
    /\ pc[r] = "shape" /\ FailAt(r, "dropwav") /\ Forget(r)
    /\ UNCHANGED <<kind, name, fileVars, wav, answer>>

\* The engine's deferred removal.
DropWav(r) ==
    /\ pc[r] = "dropwav" /\ Goto(r, "dropupload") /\ Forget(r)
    /\ answer' = [answer EXCEPT ![r] = <<>>]
    /\ wav' = [wav EXCEPT ![r] = "none"]
    /\ UNCHANGED <<kind, name, fileVars, reply>>

\* Mutant of DropUpload: everything in the directory is removed.
DropUploads(r) ==
    /\ pc[r] = "dropupload" /\ Goto(r, "over")
    /\ path' = [f \in Files |-> None]
    /\ Forget(r)
    /\ UNCHANGED <<kind, name, fd, data, clash, wav, reply, answer>>

\* The handler's: whatever the name stands for now.
DropUpload(r) ==
    /\ pc[r] = "dropupload" /\ Goto(r, "over")
    /\ path' = [path EXCEPT ![File(r)] = None]
    /\ Forget(r)
    /\ UNCHANGED <<kind, name, fd, data, clash, wav, reply, answer>>

-----------------------------------------------------------------------------
Handler(r) ==
    \/ Synthesize(r) \/ SynthesizeFails(r) \/ Serve(r)
    \/ Create(r) \/ CreateFails(r) \/ Copy(r) \/ CopyFails(r)
    \/ Check(r) \/ Unreadable(r) \/ NoRecognizer(r)
    \/ Direct(r) \/ DirectFails(r) \/ Transcode(r) \/ TranscodeFails(r)
    \/ Join(r) \/ Shape(r) \/ ShapeFails(r) \/ DropWav(r) \/ DropUpload(r)

Recognizer(r, i) == LegAnswers(r, i) \/ LegFails(r, i)

Next == \E r \in Requests :
    Accept(r) \/ Refuse(r) \/ Handler(r) \/ \E i \in Ensemble : Recognizer(r, i)

\* Every call has the request's context, which ends with the client's timeout.
Fairness == \A r \in Requests : WF_vars(Handler(r) \/ \E i \in Ensemble : Recognizer(r, i))

Spec == Init /\ [][Next]_vars /\ Fairness

-----------------------------------------------------------------------------
(* A request that shares its file name with no other gets an answer about  *)
(* its own audio, and finds its upload: transcriptions and interpret write *)
(* it, close it, and hand its name to the engine, while other requests     *)
(* create and remove theirs.                                               *)
OwnAudio == \A r \in Requests : ~clash[r] =>
    /\ reply[r] # "unreadable"
    /\ heard[r] \in {r, None}
    /\ \A i \in Ensemble : text[r][i] \in {r, Empty, None}

(* No goroutine reads a file that is gone or not written, an upload that   *)
(* was aborted leaves no file ("registered before the copy so an aborted   *)
(* upload can't orphan the temp file", main.go), and neither does a        *)
(* request whose file was finished.                                        *)
FilesKept ==
    /\ \A r \in Requests : /\ pc[r] \in {"serve", "listen", "shape"} => wav[r] = "whole"
                           /\ (\E i \in Ensemble : leg[r][i] = "run") => wav[r] = "whole"
                           /\ pc[r] = "over" => wav[r] # "whole"
    /\ \A f \in Files : path[f] # None => \E r \in Requests : pc[r] \in Uploading /\ File(r) = f

(* Gemma is asked, and a client answered, when every recognizer is done,   *)
(* and gets all the transcripts that are not empty (runRecognizers); no    *)
(* recognizer runs on when its request goes on.                            *)
EnsembleFaithful == \A r \in Requests :
    pc[r] \in {"new", "shape", "dropwav", "dropupload", "over"} =>
    /\ \A i \in Ensemble : leg[r][i] # "run"
    /\ given[r] = Heard(r)

(* Of an output that has the form Gemma is asked for, the agent gets the   *)
(* words alone, without the reasoning and without the metadata             *)
(* (finalizeInterpret): all of them behind a marker, and without a marker  *)
(* those of the last line of words, the lines before it being lost.        *)
AnswerClean == \A r \in Requests : WellFormed(answer[r]) =>
    FinalizeInterpret(answer[r]) =
        IF Marked(answer[r]) THEN Words(answer[r]) ELSE LastWords(answer[r])

(* A request that was accepted ends, whatever fails on the way.            *)
RequestsEnd == \A r \in Requests : pc[r] \in {"synthesize", "create"} ~> pc[r] = "over"

=============================================================================
