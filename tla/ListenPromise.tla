----------------------------- MODULE ListenPromise -----------------------------
(***************************************************************************)
(* What listen_voice keeps to, without store, channel or handler: a call   *)
(* that begins ends once, with a voice the user has recorded in the home   *)
(* chat, with an error, or because the process died; and of the two ways a *)
(* voice can reach a call, from the backlog of pending voices or live      *)
(* while the call waits, it goes each way once.  VoiceService implements   *)
(* it for one agent at a time.                                             *)
(***************************************************************************)
CONSTANTS Calls, HomeVoices, None

VARIABLES
    recorded,  \* the voices of the home chat recorded so far
    call,      \* call[c]: where call c stands
    answer     \* answer[c]: the voice c returned with, and which way it came

vars == <<recorded, call, answer>>

Answers == [voice : HomeVoices, live : BOOLEAN]

TypeOK ==
    /\ recorded \in SUBSET HomeVoices
    /\ call \in [Calls -> {"idle", "open", "answered", "error", "cut"}]
    /\ answer \in [Calls -> Answers \cup {None}]

Init ==
    /\ recorded = {}
    /\ call = [c \in Calls |-> "idle"]
    /\ answer = [c \in Calls |-> None]

Record(v) ==
    /\ recorded' = recorded \cup {v}
    /\ UNCHANGED <<call, answer>>

Begin(c) ==
    /\ call[c] = "idle"
    /\ call' = [call EXCEPT ![c] = "open"]
    /\ UNCHANGED <<recorded, answer>>

Answer(c, a) ==
    /\ call[c] = "open"
    /\ a.voice \in recorded
    /\ \A d \in Calls : answer[d] # a
    /\ call' = [call EXCEPT ![c] = "answered"]
    /\ answer' = [answer EXCEPT ![c] = a]
    /\ UNCHANGED recorded

Refuse(c) ==
    /\ call[c] = "open"
    /\ call' = [call EXCEPT ![c] = "error"]
    /\ UNCHANGED <<recorded, answer>>

Cut ==
    /\ call' = [c \in Calls |-> IF call[c] = "open" THEN "cut" ELSE call[c]]
    /\ UNCHANGED <<recorded, answer>>

Next ==
    \/ \E v \in HomeVoices : Record(v)
    \/ \E c \in Calls : Begin(c) \/ Refuse(c) \/ \E a \in Answers : Answer(c, a)
    \/ Cut

Spec == Init /\ [][Next]_vars
=============================================================================
