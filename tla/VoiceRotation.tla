----------------------------- MODULE VoiceRotation -----------------------------
(***************************************************************************)
(* Sessions and their voices: ensureSession, chooseVoice and the cached    *)
(* voice pool of the voice service (internal/voice/service.go), the        *)
(* sessions in the store (internal/store/jsonstore.go), and the reference  *)
(* voice that the remote engine provides the inference node with           *)
(* (internal/inference/remote/remote.go).                                  *)
(*                                                                         *)
(* A call is Say, or the part of ListenVoice that touches its session.     *)
(* Several calls may name the same session, as it comes from a header of   *)
(* the HTTP request.  A step is one store call, one critical section of    *)
(* voicePoolMu or one request to the node.  A session is reduced to its    *)
(* Voice: its other fields are set anew by every call, and one that is not *)
(* in the store has no voice.                                              *)
(***************************************************************************)
EXTENDS Integers, Sequences, FiniteSets

CONSTANTS
    Calls, Sessions, Voices,
    NoVoice,       \* ""
    NoSession,     \* what a call that is not running names
    Configured,    \* VOICE_NAME, or NoVoice
    VoiceRotate,   \* VOICE_ROTATE
    Hash,          \* fnvHash of each session's id
    MaxFaults,     \* bound of the model: requests to the node and writes that fail
    MaxChanges     \* bound of the model: restarts, and changes to the node's voices

ASSUME RotationAssumption ==
    /\ NoSession \notin Sessions
    /\ NoVoice \notin Voices /\ Configured \in Voices \cup {NoVoice}
    /\ IsFiniteSet(Voices)
    /\ VoiceRotate \in BOOLEAN /\ Hash \in [Sessions -> Nat]
    /\ MaxFaults \in Nat /\ MaxChanges \in Nat

VARIABLES
    db,        \* db[s]: the voice of session s in the store's memory
    disk,      \* disk[s]: the same in its file
    voicePool, \* Service.voicePool
    files,     \* which of VOICE_WAV and VOICE_TXT its environment gives
    node,      \* the voices registered on the inference node
    pc,        \* pc[c]: the step of call c
    kind,      \* kind[c]: say or listen
    sess,      \* sess[c]: the session it names
    copy,      \* copy[c]: the Voice of its copy of that session
    view,      \* view[c]: the voices it chooses from
    voice,     \* voice[c]: the voice it speaks with, NoVoice for the engine's own
    spoken,    \* spoken[s]: the rotated voices the user heard in session s (history)
    mixed,     \* sessions whose calls overlapped or whose file lost a voice (history)
    moved,     \* the calls past EnsureVoice when the node was replaced (history)
    replaced,  \* the node was replaced (history)
    faults, changes

store   == <<db, disk>>
locals  == <<kind, sess, copy, view, voice>>
past    == <<mixed, moved, replaced>>
service == <<voicePool, files>>
vars    == <<store, service, node, pc, locals, spoken, past, faults, changes>>

Steps == {"idle", "touch", "hasVoice", "upload", "choose", "list", "cache", "assign",
          "synthesize"}

\* The steps after EnsureVoice.
Provided == {"choose", "list", "cache", "assign", "synthesize"}

\* A transcript is looked at only when there is a WAV.
Files == {{}, {"wav"}, {"wav", "txt"}}

TypeOK ==
    /\ db \in [Sessions -> Voices \cup {NoVoice}]
    /\ disk \in [Sessions -> Voices \cup {NoVoice}]
    /\ voicePool \in Seq(Voices) /\ files \in Files /\ node \in SUBSET Voices
    /\ pc \in [Calls -> Steps] /\ kind \in [Calls -> {"say", "listen"}]
    /\ sess \in [Calls -> Sessions \cup {NoSession}] /\ copy \in [Calls -> Voices \cup {NoVoice}]
    /\ view \in [Calls -> Seq(Voices)] /\ voice \in [Calls -> Voices \cup {NoVoice}]
    /\ \A c \in Calls : pc[c] \in {"cache", "assign"} => view[c] # <<>>
    /\ spoken \in [Sessions -> SUBSET Voices]
    /\ mixed \in SUBSET Sessions /\ moved \in SUBSET Calls /\ replaced \in BOOLEAN
    /\ faults \in 0..MaxFaults /\ changes \in 0..MaxChanges

Init ==
    /\ db = [s \in Sessions |-> NoVoice] /\ disk = db
    /\ voicePool = <<>> /\ files \in Files /\ node \in SUBSET Voices
    /\ pc = [c \in Calls |-> "idle"] /\ kind = [c \in Calls |-> "say"]
    /\ sess = [c \in Calls |-> NoSession] /\ copy = [c \in Calls |-> NoVoice]
    /\ view = [c \in Calls |-> <<>>] /\ voice = [c \in Calls |-> NoVoice]
    /\ spoken = [s \in Sessions |-> {}]
    /\ mixed = {} /\ moved = {} /\ replaced = FALSE
    /\ faults = 0 /\ changes = 0

-----------------------------------------------------------------------------
Goto(c, step) == pc' = [pc EXCEPT ![c] = step]

Fault == faults < MaxFaults /\ faults' = faults + 1

\* UpsertSession: the whole record, in memory and, unless the write fails, with
\* everything else in the file.  Both callers go on after a failed write.
UpsertSession(s, v) ==
    /\ db' = [db EXCEPT ![s] = v]
    /\ \/ disk' = db' /\ UNCHANGED faults
       \/ UNCHANGED disk /\ Fault

Return(c) ==
    /\ Goto(c, "idle")
    /\ kind' = [kind EXCEPT ![c] = "say"]
    /\ sess' = [sess EXCEPT ![c] = NoSession]
    /\ copy' = [copy EXCEPT ![c] = NoVoice]
    /\ view' = [view EXCEPT ![c] = <<>>]
    /\ voice' = [voice EXCEPT ![c] = NoVoice]
    /\ moved' = moved \ {c}

-----------------------------------------------------------------------------
(***************************************************************************)
(* ensureSession.                                                          *)
(***************************************************************************)
Open(s) == {c \in Calls : pc[c] # "idle" /\ sess[c] = s}

\* GetSession, or a new session.
GetSession(c, s, k) ==
    /\ pc[c] = "idle"
    /\ kind' = [kind EXCEPT ![c] = k]
    /\ sess' = [sess EXCEPT ![c] = s]
    /\ copy' = [copy EXCEPT ![c] = db[s]]
    /\ mixed' = IF Open(s) = {} THEN mixed ELSE mixed \cup {s}
    /\ Goto(c, "touch")
    /\ UNCHANGED <<store, service, node, view, voice, spoken, moved, replaced, faults, changes>>

\* EnsureVoice has something to do: a voice is configured, with its WAV.
Ensures == Configured # NoVoice /\ "wav" \in files

\* The copy is written back, as it was read.  Without its WAV the configured voice is
\* not looked for, but Synthesize asks the node for it all the same.
Touch(c) ==
    /\ pc[c] = "touch" /\ kind[c] = "say"
    /\ UpsertSession(sess[c], copy[c])
    /\ Goto(c, IF Ensures THEN "hasVoice" ELSE "choose")
    /\ UNCHANGED <<service, node, locals, spoken, past, changes>>

\* The rest of ListenVoice does not write the session again.
TouchListen(c) ==
    /\ pc[c] = "touch" /\ kind[c] = "listen"
    /\ UpsertSession(sess[c], copy[c])
    /\ Return(c)
    /\ UNCHANGED <<service, node, spoken, mixed, replaced, changes>>

-----------------------------------------------------------------------------
(***************************************************************************)
(* EnsureVoice: the configured voice is uploaded to a node that lacks it.  *)
(***************************************************************************)

\* The node lacks the configured voice, or does not say (an error counts as a no).
Lacking == (Configured \notin node /\ UNCHANGED faults) \/ Fault

\* Mutant of HasVoice: an error is taken for a yes.
HasVoiceOrError(c) ==
    /\ pc[c] = "hasVoice"
    /\ \/ Goto(c, "choose") /\ Configured \in node /\ UNCHANGED faults
       \/ Goto(c, "choose") /\ Fault
       \/ Goto(c, "upload") /\ Configured \notin node /\ UNCHANGED faults /\ "txt" \in files
    /\ UNCHANGED <<store, service, node, locals, spoken, past, changes>>

HasVoice(c) ==
    /\ pc[c] = "hasVoice"
    /\ \/ Goto(c, "choose") /\ Configured \in node /\ UNCHANGED faults
       \/ Goto(c, "upload") /\ Lacking /\ "txt" \in files
    /\ UNCHANGED <<store, service, node, locals, spoken, past, changes>>

\* A WAV is registered together with its transcript: without one Say fails.
NoTranscript(c) ==
    /\ pc[c] = "hasVoice" /\ Lacking /\ "txt" \notin files
    /\ Return(c)
    /\ UNCHANGED <<store, service, node, spoken, mixed, replaced, changes>>

Upload(c) ==
    /\ pc[c] = "upload"
    /\ node' = node \cup {Configured}
    /\ Goto(c, "choose")
    /\ UNCHANGED <<store, service, locals, spoken, past, faults, changes>>

\* Say fails; the node may have the voice all the same.
UploadFails(c) ==
    /\ pc[c] = "upload" /\ Fault
    /\ node' \in {node, node \cup {Configured}}
    /\ Return(c)
    /\ UNCHANGED <<store, service, spoken, mixed, replaced, changes>>

-----------------------------------------------------------------------------
(***************************************************************************)
(* chooseVoice.                                                            *)
(***************************************************************************)
Speak(c, v) ==
    /\ Goto(c, "synthesize")
    /\ voice' = [voice EXCEPT ![c] = v]

\* Rotation is off, or the copy of the session has a voice.
ChooseOld(c) ==
    /\ pc[c] = "choose" /\ (~VoiceRotate \/ copy[c] # NoVoice)
    /\ Speak(c, IF VoiceRotate THEN copy[c] ELSE NoVoice)
    /\ UNCHANGED <<store, service, node, kind, sess, copy, view, spoken, past, faults, changes>>

\* voicePoolSnapshot: what was fetched before, or a request to the node.
ChooseNew(c) ==
    /\ pc[c] = "choose" /\ VoiceRotate /\ copy[c] = NoVoice
    /\ view' = [view EXCEPT ![c] = voicePool]
    /\ Goto(c, IF voicePool = <<>> THEN "list" ELSE "assign")
    /\ UNCHANGED <<store, service, node, kind, sess, copy, voice, spoken, past, faults, changes>>

\* The node lists its voices in some order.
Listings ==
    {q \in [1..Cardinality(node) -> node] : \A i, j \in DOMAIN q : q[i] = q[j] => i = j}

\* Mutant of ListVoices: an empty list is used like any other.
ListVoicesEmpty(c) ==
    /\ pc[c] = "list"
    /\ \E q \in Listings : view' = [view EXCEPT ![c] = q]
    /\ Goto(c, "cache")
    /\ UNCHANGED <<store, service, node, kind, sess, copy, voice, spoken, past, faults, changes>>

ListVoices(c) ==
    /\ pc[c] = "list" /\ node # {}
    /\ \E q \in Listings : view' = [view EXCEPT ![c] = q]
    /\ Goto(c, "cache")
    /\ UNCHANGED <<store, service, node, kind, sess, copy, voice, spoken, past, faults, changes>>

\* No pool: the engine's own voice.
ListFails(c) ==
    /\ pc[c] = "list"
    /\ IF node = {} THEN UNCHANGED faults ELSE Fault
    /\ Speak(c, NoVoice)
    /\ UNCHANGED <<store, service, node, kind, sess, copy, view, spoken, past, changes>>

Cache(c) ==
    /\ pc[c] = "cache"
    /\ voicePool' = view[c]
    /\ Goto(c, "assign")
    /\ UNCHANGED <<store, files, node, locals, spoken, past, faults, changes>>

Chosen(c) == view[c][(Hash[sess[c]] % Len(view[c])) + 1]

\* Mutant of Assign: the choice is not stored.
AssignUnsaved(c) ==
    /\ pc[c] = "assign"
    /\ copy' = [copy EXCEPT ![c] = Chosen(c)]
    /\ view' = [view EXCEPT ![c] = <<>>]
    /\ Speak(c, Chosen(c))
    /\ UNCHANGED <<store, service, node, kind, sess, spoken, past, faults, changes>>

\* The voice is put in the copy, and the copy in the store.
Assign(c) ==
    /\ pc[c] = "assign"
    /\ copy' = [copy EXCEPT ![c] = Chosen(c)]
    /\ UpsertSession(sess[c], Chosen(c))
    /\ view' = [view EXCEPT ![c] = <<>>]
    /\ Speak(c, Chosen(c))
    /\ UNCHANGED <<service, node, kind, sess, spoken, past, changes>>

-----------------------------------------------------------------------------
\* The note is synthesized and delivered, or Say fails.
Synthesize(c) ==
    /\ pc[c] = "synthesize"
    /\ spoken' = IF voice[c] = NoVoice THEN spoken
                 ELSE [spoken EXCEPT ![sess[c]] = @ \cup {voice[c]}]
    /\ Return(c)
    /\ UNCHANGED <<store, service, node, mixed, replaced, faults, changes>>

SynthesizeFails(c) ==
    /\ pc[c] = "synthesize" /\ Fault
    /\ Return(c)
    /\ UNCHANGED <<store, service, node, spoken, mixed, replaced, changes>>

-----------------------------------------------------------------------------
(***************************************************************************)
(* The node and the process.                                               *)
(***************************************************************************)
Change == changes < MaxChanges /\ changes' = changes + 1

\* Somebody registers a voice on the node.
Register(v) ==
    /\ Change /\ v \notin node
    /\ node' = node \cup {v}
    /\ UNCHANGED <<store, service, pc, locals, spoken, past, faults>>

\* The node is started anew, or another one takes its place.
Replace(V) ==
    /\ Change
    /\ node' = V
    /\ replaced' = TRUE
    /\ moved' = {c \in Calls : pc[c] \in Provided}
    /\ UNCHANGED <<store, service, pc, locals, spoken, mixed, faults>>

\* The control plane crashes or is stopped, and opens its store again.
Restart ==
    /\ Change
    /\ db' = disk
    /\ voicePool' = <<>>
    /\ mixed' = mixed \cup {s \in Sessions : db[s] # disk[s]}
    /\ pc' = [c \in Calls |-> "idle"] /\ kind' = [c \in Calls |-> "say"]
    /\ sess' = [c \in Calls |-> NoSession] /\ copy' = [c \in Calls |-> NoVoice]
    /\ view' = [c \in Calls |-> <<>>] /\ voice' = [c \in Calls |-> NoVoice]
    /\ moved' = {}
    /\ UNCHANGED <<disk, files, node, spoken, replaced, faults>>

Call(c) ==
    \/ Touch(c) \/ TouchListen(c) \/ HasVoice(c) \/ NoTranscript(c)
    \/ Upload(c) \/ UploadFails(c)
    \/ ChooseOld(c) \/ ChooseNew(c) \/ ListVoices(c) \/ ListFails(c) \/ Cache(c) \/ Assign(c)
    \/ Synthesize(c) \/ SynthesizeFails(c)
    \/ \E s \in Sessions, k \in {"say", "listen"} : GetSession(c, s, k)

Next ==
    \/ \E c \in Calls : Call(c)
    \/ \E v \in Voices : Register(v)
    \/ \E V \in SUBSET Voices : Replace(V)
    \/ Restart

Spec == Init /\ [][Next]_vars

-----------------------------------------------------------------------------
(***************************************************************************)
(* Properties.                                                             *)
(***************************************************************************)

\* "A voice is only ever chosen once per session" (chooseVoice): as long as the
\* calls of a session do not overlap and no write of its voice was lost, the user
\* hears it with one rotated voice, whatever other sessions do, however the node's
\* voices change, and across restarts.
OneVoice == \A s \in Sessions \ mixed : Cardinality(spoken[s]) <= 1

\* The voice a call asks the node for.
Wanted(c) == IF voice[c] = NoVoice THEN Configured ELSE voice[c]

\* The node knows the voice it is asked for: the configured one, if EnsureVoice had its
\* WAV and the node was not replaced after it; a rotated one, unless the node was ever
\* replaced.  Nobody checks a voice that is configured by its name alone.
VoiceKnown ==
    \A c \in Calls :
        /\ pc[c] = "synthesize" /\ Wanted(c) # NoVoice
        /\ IF voice[c] = NoVoice THEN Ensures /\ c \notin moved ELSE ~replaced
        => Wanted(c) \in node

=============================================================================
