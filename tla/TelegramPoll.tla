----------------------------- MODULE TelegramPoll -----------------------------
(***************************************************************************)
(* The Telegram poller of the control plane: long polling with an offset,  *)
(* the dispatch of updates, the download of voice notes and their handing  *)
(* over to the voice service (internal/telegram/poll.go, bot.go,           *)
(* cmd/quietvoice/main.go).                                                *)
(*                                                                         *)
(* One goroutine polls; the offset lives in it only.  Telegram keeps an    *)
(* update until a later getUpdates asks for a higher one, and gives it     *)
(* again to a poller that starts over.  A step is one request to Telegram  *)
(* or one look at the context.  The service's handler is one step, see     *)
(* VoiceService.                                                           *)
(***************************************************************************)
EXTENDS Integers, Sequences, FiniteSets

CONSTANTS
    Users, Chats,                 \* who writes, and where
    AllowedUsers, AllowedChats,   \* the allowlists; an empty one allows everyone
    Incoming,                     \* the messages that may be sent to the bot
    Limit,                        \* how many updates Telegram gives at once
    MaxUpdates,                   \* bound of the model: updates ever sent
    MaxFaults,                    \* bound of the model: requests that fail
    MaxRestarts                   \* bound of the model: times the process starts again

Updates     == 1..MaxUpdates
NoUpdate    == 0
Attachments == {"voice", "audio", "audioDocument", "otherDocument", "none"}
Message     == [user : Users, chat : Chats, attached : Attachments]

ASSUME PollAssumption ==
    /\ AllowedUsers \subseteq Users /\ AllowedChats \subseteq Chats
    /\ Incoming \subseteq Message
    /\ Limit \in Nat \ {0}
    /\ MaxUpdates \in Nat /\ MaxFaults \in Nat /\ MaxRestarts \in Nat

VARIABLES
    inbox,     \* the messages sent to the bot; an update's id is its place
    acked,     \* the last update that Telegram has forgotten
    ctx,       \* the context that SIGTERM cancels
    pc,        \* where Poll stands
    offset,    \* Poll's offset
    batch,     \* the updates of the last answer that are still to be dispatched
    cur,       \* the update in dispatch
    files,     \* files[u]: the file that the note of update u is stored in
    handled,   \* the updates handed to the service since the process started
    recorded,  \* all updates ever handed to it (history)
    missed,    \* those whose download failed on its own (history)
    faults, restarts

locals == <<pc, offset, batch, cur>>
past   == <<handled, recorded, missed>>
bounds == <<faults, restarts>>
vars   == <<inbox, acked, ctx, locals, files, past, bounds>>

TypeOK ==
    /\ inbox \in Seq(Incoming) /\ Len(inbox) <= MaxUpdates
    /\ acked \in 0..MaxUpdates
    /\ ctx \in {"live", "cancelled"}
    /\ pc \in {"poll", "backoff", "loop", "getFile", "create", "fetch", "handle", "returned"}
    /\ offset \in 0..(MaxUpdates + 1)
    /\ batch \in Seq(1..Len(inbox)) /\ cur \in Updates \cup {NoUpdate}
    /\ files \in [Updates -> {"none", "part", "whole"}]
    /\ handled \in Seq(Updates)
    /\ recorded \in SUBSET Updates /\ missed \in SUBSET Updates
    /\ faults \in 0..MaxFaults /\ restarts \in 0..MaxRestarts

\* The process starts: Telegram knows what was acknowledged, the poller does not.
Fresh ==
    /\ ctx = "live" /\ pc = "poll" /\ offset = 0 /\ batch = <<>> /\ cur = NoUpdate
    /\ handled = <<>>

Init ==
    /\ inbox = <<>> /\ acked = 0 /\ Fresh
    /\ files = [u \in Updates |-> "none"]
    /\ recorded = {} /\ missed = {}
    /\ faults = 0 /\ restarts = 0

-----------------------------------------------------------------------------
(***************************************************************************)
(* Which updates are voice notes for the service.                          *)
(***************************************************************************)
allowed(list, id) == list = {} \/ id \in list

IsAllowed(m) == allowed(AllowedUsers, m.user) /\ allowed(AllowedChats, m.chat)

\* Audio sent as a document counts when its MIME type says so.
HasAudio(m) == m.attached \in {"voice", "audio", "audioDocument"}

IsNote(u) == IsAllowed(inbox[u]) /\ HasAudio(inbox[u])

-----------------------------------------------------------------------------
(***************************************************************************)
(* Polling.                                                                *)
(***************************************************************************)
Goto(step) == pc' = step

Fault ==
    /\ faults < MaxFaults
    /\ faults' = faults + 1
    /\ UNCHANGED restarts

Send(m) ==
    /\ Len(inbox) < MaxUpdates
    /\ inbox' = Append(inbox, m)
    /\ UNCHANGED <<acked, ctx, locals, files, past, bounds>>

\* What Telegram has forgotten after a getUpdates with this offset.
Confirmed == IF offset > acked THEN offset - 1 ELSE acked

\* Mutant of Answer: the loop does not look at the context, and the request does not
\* carry it.
AnswerAnyway ==
    /\ pc = "poll"
    /\ acked' = Confirmed
    /\ LET n == Len(inbox) - Confirmed
       IN  batch' = [i \in 1..(IF n < Limit THEN n ELSE Limit) |-> Confirmed + i]
    /\ Goto("loop")
    /\ UNCHANGED <<inbox, ctx, offset, cur, files, past, bounds>>

\* Mutant of Answer: the offset is taken for the last update seen.
AnswerAfter ==
    /\ pc = "poll" /\ ctx = "live"
    /\ acked' = Confirmed
    /\ LET n == Len(inbox) - Confirmed
       IN  batch' = [i \in 1..(IF n < Limit THEN n ELSE Limit) |-> Confirmed + i + 1]
    /\ Goto("loop")
    /\ UNCHANGED <<inbox, ctx, offset, cur, files, past, bounds>>

\* getUpdates: the earliest updates Telegram still has, none when there are none
\* for half a minute.
Answer ==
    /\ pc = "poll" /\ ctx = "live"
    /\ acked' = Confirmed
    /\ LET n == Len(inbox) - Confirmed
       IN  batch' = [i \in 1..(IF n < Limit THEN n ELSE Limit) |-> Confirmed + i]
    /\ Goto("loop")
    /\ UNCHANGED <<inbox, ctx, offset, cur, files, past, bounds>>

\* Mutant of PollFails: the loop ends.
PollGivesUp ==
    /\ pc = "poll" /\ ctx = "live" /\ Fault
    /\ acked' \in {acked, Confirmed}
    /\ Goto("returned")
    /\ UNCHANGED <<inbox, ctx, offset, batch, cur, files, past>>

\* The request fails, or its answer is lost: wait and try again.
PollFails ==
    /\ pc = "poll" /\ ctx = "live" /\ Fault
    /\ acked' \in {acked, Confirmed}
    /\ Goto("backoff")
    /\ UNCHANGED <<inbox, ctx, offset, batch, cur, files, past>>

Retry ==
    /\ pc = "backoff" /\ ctx = "live"
    /\ Goto("poll")
    /\ UNCHANGED <<inbox, acked, ctx, offset, batch, cur, files, past, bounds>>

\* Poll returns when the context is cancelled.
Return ==
    /\ pc \in {"poll", "backoff"} /\ ctx = "cancelled"
    /\ Goto("returned")
    /\ UNCHANGED <<inbox, acked, ctx, offset, batch, cur, files, past, bounds>>

\* The answer's updates are all dispatched.
Drained ==
    /\ pc = "loop" /\ batch = <<>>
    /\ Goto("poll")
    /\ UNCHANGED <<inbox, acked, ctx, offset, batch, cur, files, past, bounds>>

\* Mutant of Dispatch: the updates are taken from the end.
DispatchLast ==
    /\ pc = "loop" /\ batch # <<>>
    /\ LET last == batch[Len(batch)]
       IN  /\ offset' = last + 1
           /\ cur' = last /\ batch' = SubSeq(batch, 1, Len(batch) - 1)
           /\ Goto(IF IsNote(last) THEN "getFile" ELSE "loop")
    /\ UNCHANGED <<inbox, acked, ctx, files, past, bounds>>

\* The offset moves past an update before it is dispatched; what is no voice note
\* of an allowed sender ends here (a /start gets a reply).
Dispatch ==
    /\ pc = "loop" /\ batch # <<>>
    /\ offset' = Head(batch) + 1
    /\ cur' = Head(batch) /\ batch' = Tail(batch)
    /\ Goto(IF IsNote(Head(batch)) THEN "getFile" ELSE "loop")
    /\ UNCHANGED <<inbox, acked, ctx, files, past, bounds>>

-----------------------------------------------------------------------------
(***************************************************************************)
(* downloadFile and the handler.                                           *)
(***************************************************************************)

\* A request fails because of the shutdown, or on its own.
Fails ==
    \/ /\ ctx = "cancelled" /\ UNCHANGED <<missed, bounds>>
    \/ /\ Fault
       /\ missed' = missed \cup {cur}

\* getFile, and the answer to the request for the file.
GetFile ==
    /\ pc = "getFile" /\ ctx = "live"
    /\ Goto("create")
    /\ UNCHANGED <<inbox, acked, ctx, offset, batch, cur, files, past, bounds>>

GetFileFails ==
    /\ pc = "getFile" /\ Fails
    /\ Goto("loop")
    /\ UNCHANGED <<inbox, acked, ctx, offset, batch, cur, files, handled, recorded>>

\* The file's name depends on the message only: what was there is cut off.
Create ==
    /\ pc = "create"
    /\ files' = [files EXCEPT ![cur] = "part"]
    /\ Goto("fetch")
    /\ UNCHANGED <<inbox, acked, ctx, offset, batch, cur, past, bounds>>

Fetch ==
    /\ pc = "fetch"
    /\ files' = [files EXCEPT ![cur] = "whole"]
    /\ Goto("handle")
    /\ UNCHANGED <<inbox, acked, ctx, offset, batch, cur, past, bounds>>

\* Mutant of FetchFails: the error of the copy is dropped.
FetchFailsSilently ==
    /\ pc = "fetch" /\ Fails
    /\ Goto("handle")
    /\ UNCHANGED <<inbox, acked, ctx, offset, batch, cur, files, handled, recorded>>

\* The body breaks off; the file stays as it is, and the update is not retried.
FetchFails ==
    /\ pc = "fetch" /\ Fails
    /\ Goto("loop")
    /\ UNCHANGED <<inbox, acked, ctx, offset, batch, cur, files, handled, recorded>>

\* HandleIncomingVoice, which does not look at the context.
Handle ==
    /\ pc = "handle"
    /\ handled' = Append(handled, cur)
    /\ recorded' = recorded \cup {cur}
    /\ Goto("loop")
    /\ UNCHANGED <<inbox, acked, ctx, offset, batch, cur, files, missed, bounds>>

-----------------------------------------------------------------------------
\* SIGTERM.
Cancel ==
    /\ ctx = "live"
    /\ ctx' = "cancelled"
    /\ UNCHANGED <<inbox, acked, locals, files, past, bounds>>

\* The process crashes, or main returns (it does not wait for Poll), and starts again.
Restart ==
    /\ restarts < MaxRestarts
    /\ restarts' = restarts + 1
    /\ ctx' = "live" /\ pc' = "poll" /\ offset' = 0 /\ batch' = <<>> /\ cur' = NoUpdate
    /\ handled' = <<>>
    /\ UNCHANGED <<inbox, acked, files, recorded, missed, faults>>

Poll ==
    \/ Answer \/ PollFails \/ Retry \/ Return \/ Drained \/ Dispatch
    \/ GetFile \/ GetFileFails \/ Create \/ Fetch \/ FetchFails \/ Handle

Next ==
    \/ Poll \/ Cancel \/ Restart
    \/ \E m \in Incoming : Send(m)

\* The poller's goroutine goes on: each of its requests ends with the HTTP
\* client's timeout at the latest.
Spec == Init /\ [][Next]_vars /\ WF_vars(Poll)

-----------------------------------------------------------------------------
(***************************************************************************)
(* Properties.                                                             *)
(***************************************************************************)

\* While the process lives it handles each note at most once, in the order in
\* which they were sent, whatever answers are lost or repeated.
HandledInOrder ==
    \A i, j \in 1..Len(handled) : i < j => handled[i] < handled[j]

\* Telegram forgets a note only after the service has it, or after its download
\* failed on its own: neither a crash nor a shutdown loses one.
AckedIsSettled ==
    \A u \in 1..acked : IsNote(u) => u \in recorded \cup missed

\* The files of the notes that this process handed over are whole.
HandledWhole ==
    \A i \in 1..Len(handled) : files[handled[i]] = "whole"

\* Every note reaches the service, unless its download fails or the process is
\* told to stop.
NotesArrive ==
    \A u \in Updates :
        u <= Len(inbox) /\ IsNote(u) ~> u \in recorded \cup missed \/ ctx = "cancelled"

=============================================================================
