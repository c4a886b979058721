----------------------------- MODULE ReplicaFleet -----------------------------
(***************************************************************************)
(* The inference node's fleet of managed servers: the supervisor that      *)
(* launches and stops them, the admin requests that scale a pool           *)
(* (SetReplicas), the reference voices that a new server must be given,    *)
(* and the node's shutdown (internal/inference/local/supervisor.go,        *)
(* admin.go, voices.go, cmd/inferenced/main.go).                           *)
(*                                                                         *)
(* Every request is a goroutine of the HTTP server; the supervisor's and   *)
(* the pools' locks are held for one read or one update at a time, so the  *)
(* steps below are what happens between two lock acquisitions.  A managed  *)
(* server is named by its port, which is never reused.  Free VRAM is read  *)
(* from the GPU's driver: any answer is possible.                          *)
(***************************************************************************)
EXTENDS Integers, Sequences, FiniteSets

CONSTANTS
    Requests,     \* the goroutines that serve admin requests and voice uploads
    Pools,        \* the (role, model) keys
    TTS,          \* those of role tts
    External,     \* the urls from the configuration, all in tts pools
    Voices,       \* the names of reference voices
    MaxReplicas,  \* the admission cap, TTSMaxReplicas
    MaxPort       \* bound of the model: how many servers are ever launched

ASSUME FleetAssumption ==
    /\ IsFiniteSet(Requests) /\ IsFiniteSet(Voices) /\ Voices # {}
    /\ TTS \subseteq Pools /\ Pools # {}
    /\ MaxReplicas \in Nat /\ MaxPort \in Nat
    /\ External \cap (1..MaxPort) = {}

Ports   == 1..MaxPort
Servers == Ports \cup External

VARIABLES
    running,   \* the managed server processes that are alive
    replicas,  \* supervisor.replicas, in the order they were recorded
    nextPort,  \* supervisor.nextPort
    poolOf,    \* the pool a managed server was launched for
    members,   \* the members of all pools
    phase,     \* the node's process: up, in one of the two sweeps of its shutdown, or gone
    victims,   \* the replicas stopAll took and has still to kill
    pc,        \* pc[r]: the step of request r
    pool,      \* pool[r]: the pool it scales
    want,      \* want[r]: the count it asks for (n)
    at,        \* at[r]: the loop variable i
    srv,       \* srv[r]: the server it launches or stops
    ok,        \* ok[r]: whether it replies without an error
    replay,    \* replay[r]: the voices provisionVoices has still to upload
    fan,       \* fan[r]: the voice it uploads, the servers left, any success
    alone,     \* no two requests ever overlapped (history)
    voices,    \* Engine.voices, the remembered voices
    has,       \* has[s]: the voices that server process s has taken
    missed     \* missed[s]: the voices that s has not, because an upload to it failed or
               \* was under way when the remembered ones were read for it (history)

fleetVars  == <<running, replicas, nextPort, poolOf, members>>
exitVars   == <<phase, victims>>
adminVars  == <<pc, pool, want, at, srv, ok, replay, fan>>
cacheVars  == <<has, missed>>
voiceVars  == <<voices, cacheVars>>
vars       == <<fleetVars, exitVars, adminVars, voiceVars, alone>>

Managed   == {replicas[i] : i \in 1..Len(replicas)}
Total     == Len(replicas)
Count(k)  == Cardinality({i \in 1..Len(replicas) : poolOf[replicas[i]] = k})
NoServer  == 0
NoPool    == CHOOSE k \in Pools : TRUE
Steps     == {"idle", "count", "cap", "scale", "health", "add", "provision", "replay",
              "kill", "remove", "fan", "reply"}
NoFan     == [voice |-> CHOOSE v \in Voices : TRUE, left |-> {}, ok |-> FALSE]
Fan       == [voice : Voices, left : SUBSET Servers, ok : BOOLEAN]

TypeOK ==
    /\ running \in SUBSET Ports /\ replicas \in Seq(Ports)
    /\ nextPort \in 1..(MaxPort + 1) /\ poolOf \in [Ports -> Pools]
    /\ members \in SUBSET Servers
    /\ phase \in {"up", "stopping", "sweeping", "exited"} /\ victims \in SUBSET Ports
    /\ pc \in [Requests -> Steps] /\ pool \in [Requests -> Pools]
    /\ want \in [Requests -> Nat] /\ at \in [Requests -> Nat]
    /\ srv \in [Requests -> Ports \cup {NoServer}] /\ ok \in [Requests -> BOOLEAN]
    /\ replay \in [Requests -> SUBSET Voices] /\ fan \in [Requests -> Fan] /\ alone \in BOOLEAN
    /\ voices \in SUBSET Voices /\ has \in [Servers -> SUBSET Voices]
    /\ missed \in [Servers -> SUBSET Voices]

Init ==
    /\ running = {} /\ replicas = <<>> /\ nextPort = 1 /\ members = External
    /\ poolOf = [p \in Ports |-> NoPool]
    /\ phase = "up" /\ victims = {} /\ alone = TRUE
    /\ pc = [r \in Requests |-> "idle"]
    /\ pool = [r \in Requests |-> NoPool]
    /\ want = [r \in Requests |-> 0] /\ at = [r \in Requests |-> 0]
    /\ srv = [r \in Requests |-> NoServer] /\ ok = [r \in Requests |-> TRUE]
    /\ replay = [r \in Requests |-> {}] /\ fan = [r \in Requests |-> NoFan]
    /\ voices = {} /\ has = [s \in Servers |-> {}]
    /\ missed = [s \in Servers |-> {}]

\* A server process ends, and its cache of voices with it.
Die(s) ==
    /\ running' = running \ {s}
    /\ has' = [has EXCEPT ![s] = {}]
    /\ missed' = [missed EXCEPT ![s] = {}]

-----------------------------------------------------------------------------
(***************************************************************************)
(* The admin API.                                                          *)
(***************************************************************************)
Goto(r, step) == pc' = [pc EXCEPT ![r] = step]
Reply(r, fine) ==
    /\ Goto(r, "reply")
    /\ ok' = [ok EXCEPT ![r] = fine]

Quiet == \A r \in Requests : pc[r] = "idle"

\* What a client may ask for: less than nothing and more than the cap included.
Asked == -1..(MaxReplicas + 1)

\* Mutant of Arrive: a negative count is taken as it is.
ArriveBelow(r, k, n) ==
    /\ phase # "exited" /\ pc[r] = "idle"
    /\ pool' = [pool EXCEPT ![r] = k]
    /\ want' = [want EXCEPT ![r] = n]
    /\ alone' = (alone /\ Quiet)
    /\ Goto(r, "count")
    /\ UNCHANGED <<fleetVars, exitVars, at, srv, ok, replay, voiceVars, fan>>

\* A request for n replicas of pool k arrives: SetReplicas asks for none if n is
\* negative.  During the shutdown a connection that was accepted before it may still
\* bring its request.
Arrive(r, k, n) ==
    /\ phase # "exited" /\ pc[r] = "idle"
    /\ pool' = [pool EXCEPT ![r] = k]
    /\ want' = [want EXCEPT ![r] = IF n < 0 THEN 0 ELSE n]
    /\ alone' = (alone /\ Quiet)
    /\ Goto(r, "count")
    /\ UNCHANGED <<fleetVars, exitVars, at, srv, ok, replay, voiceVars, fan>>

\* POST /admin/replicas (one role of it).
AdminSet(r) == \E k \in Pools, n \in Asked : Arrive(r, k, n)

\* DELETE /admin/replicas/{role}?n=: so many less than there are now, none at least.  A
\* negative n asks for more.
AdminDelete(r) ==
    \E k \in Pools, n \in Asked :
        Arrive(r, k, IF Count(k) - n < 0 THEN 0 ELSE Count(k) - n)

\* Mutant of ReadCount: the replicas of all pools are counted.
ReadTotal(r) ==
    /\ pc[r] = "count"
    /\ at' = [at EXCEPT ![r] = Total]
    /\ Goto(r, "cap")
    /\ UNCHANGED <<fleetVars, exitVars, pool, want, srv, ok, replay, voiceVars, fan, alone>>

\* SetReplicas counts the pool's replicas ...
ReadCount(r) ==
    /\ pc[r] = "count"
    /\ at' = [at EXCEPT ![r] = Count(pool[r])]
    /\ Goto(r, "cap")
    /\ UNCHANGED <<fleetVars, exitVars, pool, want, srv, ok, replay, voiceVars, fan, alone>>

\* Mutant of CheckCap: the replicas to come are not counted.
CheckCapBefore(r) ==
    /\ pc[r] = "cap"
    /\ IF want[r] > at[r] /\ Total >= MaxReplicas
       THEN Reply(r, FALSE)
       ELSE Goto(r, "scale") /\ UNCHANGED ok
    /\ UNCHANGED <<fleetVars, exitVars, pool, want, at, srv, replay, voiceVars, fan, alone>>

\* ... and those of all pools, against the cap.
CheckCap(r) ==
    /\ pc[r] = "cap"
    /\ IF want[r] > at[r] /\ Total + (want[r] - at[r]) > MaxReplicas
       THEN Reply(r, FALSE)
       ELSE Goto(r, "scale") /\ UNCHANGED ok
    /\ UNCHANGED <<fleetVars, exitVars, pool, want, at, srv, replay, voiceVars, fan, alone>>

ScaleDone(r) ==
    /\ pc[r] = "scale" /\ at[r] = want[r]
    /\ Reply(r, TRUE)
    /\ UNCHANGED <<fleetVars, exitVars, pool, want, at, srv, replay, voiceVars, fan, alone>>

\* The GPU has no room for another server, or its process does not start (a port
\* it was given is not given again).
CannotLaunch(r) ==
    /\ pc[r] = "scale" /\ at[r] < want[r]
    /\ nextPort' \in {nextPort} \cup {p \in {nextPort + 1} : nextPort <= MaxPort}
    /\ Reply(r, FALSE)
    /\ UNCHANGED <<running, replicas, poolOf, members, exitVars, pool, want, at, srv, replay,
                   voiceVars, fan, alone>>

\* supervisor.launch starts a process on the next port; the process does not
\* depend on the request that started it.
Launch(r) ==
    /\ pc[r] = "scale" /\ at[r] < want[r] /\ nextPort <= MaxPort
    /\ nextPort' = nextPort + 1
    /\ poolOf' = [poolOf EXCEPT ![nextPort] = pool[r]]
    /\ running' = running \cup {nextPort}
    /\ srv' = [srv EXCEPT ![r] = nextPort]
    /\ Goto(r, "health")
    /\ UNCHANGED <<replicas, members, exitVars, pool, want, at, ok, replay, voiceVars,
                   fan, alone>>

\* The server answers its health probe: record it.
Healthy(r) ==
    /\ pc[r] = "health" /\ srv[r] \in running
    /\ replicas' = Append(replicas, srv[r])
    /\ Goto(r, "add")
    /\ UNCHANGED <<running, nextPort, poolOf, members, exitVars, pool, want, at, srv, ok, replay,
                   voiceVars, fan, alone>>

\* Mutant of Unhealthy: the server is not killed.
UnhealthyAlive(r) ==
    /\ pc[r] = "health"
    /\ Reply(r, FALSE)
    /\ UNCHANGED <<running, replicas, nextPort, poolOf, members, exitVars, pool, want, at, srv, replay,
                   voiceVars, fan, alone>>

\* It does not in time, or the request was cancelled: kill it.
Unhealthy(r) ==
    /\ pc[r] = "health"
    /\ Die(srv[r])
    /\ Reply(r, FALSE)
    /\ UNCHANGED <<replicas, nextPort, poolOf, members, exitVars, pool, want, at, srv, replay,
                   voices, fan, alone>>

\* The pool gets the new server, which callers may use from now on.
AddMember(r) ==
    /\ pc[r] = "add"
    /\ members' = members \cup {srv[r]}
    /\ IF pool[r] \in TTS
       THEN Goto(r, "provision") /\ UNCHANGED at
       ELSE Goto(r, "scale") /\ at' = [at EXCEPT ![r] = @ + 1]
    /\ UNCHANGED <<running, replicas, nextPort, poolOf, exitVars, pool, want, srv, ok, replay,
                   voiceVars, fan, alone>>

\* Server s, if it is alive, is without those of the voices vs that it has not.
Alive == running \cup External
Miss(s, vs) ==
    missed' = IF s \in Alive THEN [missed EXCEPT ![s] = (@ \cup vs) \ has[s]] ELSE missed

\* provisionVoices: read the remembered voices, then upload them one by one.
Provision(r) ==
    /\ pc[r] = "provision"
    /\ replay' = [replay EXCEPT ![r] = voices]
    /\ Miss(srv[r], {fan[q].voice : q \in {p \in Requests : pc[p] = "fan"}})
    /\ Goto(r, "replay")
    /\ UNCHANGED <<fleetVars, exitVars, pool, want, at, srv, ok, voices, has, fan, alone>>

\* An upload to server s ends.  The server took the voice, or has one of that name
\* (201 and 409); or it is dead, or refused it, or its answer is lost.
Post(s, v, taken) ==
    \/ /\ taken /\ s \in Alive
       /\ has' = [has EXCEPT ![s] = @ \cup {v}]
       /\ missed' = [missed EXCEPT ![s] = @ \ {v}]
    \/ /\ ~taken
       /\ Miss(s, {v})
       /\ UNCHANGED has

\* A failed upload is logged, and the launch goes on.
Replay(r, v) ==
    /\ pc[r] = "replay" /\ v \in replay[r]
    /\ \E taken \in BOOLEAN : Post(srv[r], v, taken)
    /\ replay' = [replay EXCEPT ![r] = @ \ {v}]
    /\ UNCHANGED <<fleetVars, exitVars, pc, pool, want, at, srv, ok, voices, fan, alone>>

Replayed(r) ==
    /\ pc[r] = "replay" /\ replay[r] = {}
    /\ at' = [at EXCEPT ![r] = @ + 1]
    /\ Goto(r, "scale")
    /\ UNCHANGED <<fleetVars, exitVars, pool, want, srv, ok, replay, voiceVars, fan, alone>>

\* stopLast takes the pool's newest replica off the supervisor's list, if it has
\* one still; the loop ends early when it does not.
OfPool(k) == {i \in 1..Len(replicas) : poolOf[replicas[i]] = k}

\* Mutant of StopLast: the replica stays on the list until it is dead.
StopLastKept(r) ==
    /\ pc[r] = "scale" /\ at[r] > want[r]
    /\ \/ /\ OfPool(pool[r]) = {}
          /\ Reply(r, TRUE)
          /\ UNCHANGED <<replicas, srv>>
       \/ \E i \in OfPool(pool[r]) :
          /\ \A j \in OfPool(pool[r]) : j <= i
          /\ srv' = [srv EXCEPT ![r] = replicas[i]]
          /\ UNCHANGED replicas
          /\ Goto(r, "kill")
          /\ UNCHANGED ok
    /\ UNCHANGED <<running, nextPort, poolOf, members, exitVars, pool, want, at, replay,
                   voiceVars, fan, alone>>

StopLast(r) ==
    /\ pc[r] = "scale" /\ at[r] > want[r]
    /\ \/ /\ OfPool(pool[r]) = {}
          /\ Reply(r, TRUE)
          /\ UNCHANGED <<replicas, srv>>
       \/ \E i \in OfPool(pool[r]) :
          /\ \A j \in OfPool(pool[r]) : j <= i
          /\ srv' = [srv EXCEPT ![r] = replicas[i]]
          /\ replicas' = [j \in 1..(Len(replicas) - 1) |-> replicas[IF j < i THEN j ELSE j + 1]]
          /\ Goto(r, "kill")
          /\ UNCHANGED ok
    /\ UNCHANGED <<running, nextPort, poolOf, members, exitVars, pool, want, at, replay,
                   voiceVars, fan, alone>>

Kill(r) ==
    /\ pc[r] = "kill"
    /\ Die(srv[r])
    /\ Goto(r, "remove")
    /\ UNCHANGED <<replicas, nextPort, poolOf, members, exitVars, pool, want, at, srv, ok, replay,
                   voices, fan, alone>>

\* Mutant of RemoveMember: the pool keeps the server.
KeepMember(r) ==
    /\ pc[r] = "remove"
    /\ UNCHANGED members
    /\ at' = [at EXCEPT ![r] = @ - 1]
    /\ Goto(r, "scale")
    /\ UNCHANGED <<running, replicas, nextPort, poolOf, exitVars, pool, want, srv, ok, replay,
                   voiceVars, fan, alone>>

\* The pool forgets it, if it knows it.
RemoveMember(r) ==
    /\ pc[r] = "remove"
    /\ members' = members \ {srv[r]}
    /\ at' = [at EXCEPT ![r] = @ - 1]
    /\ Goto(r, "scale")
    /\ UNCHANGED <<running, replicas, nextPort, poolOf, exitVars, pool, want, srv, ok, replay,
                   voiceVars, fan, alone>>

\* The reply is sent; the handler's variables end with it.
Done(r) ==
    /\ pc[r] = "reply"
    /\ Goto(r, "idle")
    /\ pool' = [pool EXCEPT ![r] = NoPool]
    /\ ok' = [ok EXCEPT ![r] = TRUE]
    /\ want' = [want EXCEPT ![r] = 0]
    /\ at' = [at EXCEPT ![r] = 0]
    /\ srv' = [srv EXCEPT ![r] = NoServer]
    /\ UNCHANGED <<fleetVars, exitVars, replay, voiceVars, fan, alone>>

-----------------------------------------------------------------------------
(***************************************************************************)
(* Voice uploads.                                                          *)
(***************************************************************************)
TTSMembers == {s \in members : s \in External \/ poolOf[s] \in TTS}

\* Mutant of UploadVoice: one server gets the voice, as if all shared their caches.
UploadVoiceToOne(r, v) ==
    /\ phase # "exited" /\ pc[r] = "idle" /\ TTSMembers # {}
    /\ fan' = [fan EXCEPT ![r] = [voice |-> v, left |-> {CHOOSE s \in TTSMembers : TRUE},
                                  ok |-> FALSE]]
    /\ alone' = (alone /\ Quiet)
    /\ Goto(r, "fan")
    /\ UNCHANGED <<fleetVars, exitVars, pool, want, at, srv, ok, replay, voiceVars>>

\* UploadVoice takes the servers that are members now; without one it fails.
UploadVoice(r, v) ==
    /\ phase # "exited" /\ pc[r] = "idle" /\ TTSMembers # {}
    /\ fan' = [fan EXCEPT ![r] = [voice |-> v, left |-> TTSMembers, ok |-> FALSE]]
    /\ alone' = (alone /\ Quiet)
    /\ Goto(r, "fan")
    /\ UNCHANGED <<fleetVars, exitVars, pool, want, at, srv, ok, replay, voiceVars>>

UploadTo(r, s, taken) ==
    /\ pc[r] = "fan" /\ s \in fan[r].left
    /\ Post(s, fan[r].voice, taken)
    /\ fan' = [fan EXCEPT ![r] = [voice |-> fan[r].voice, left |-> fan[r].left \ {s},
                                  ok |-> fan[r].ok \/ taken]]
    /\ UNCHANGED <<fleetVars, exitVars, pc, pool, want, at, srv, ok, replay, voices, alone>>

\* The voice is remembered when a server took it.
RememberVoice(r) ==
    /\ pc[r] = "fan" /\ fan[r].left = {}
    /\ voices' = IF fan[r].ok THEN voices \cup {fan[r].voice} ELSE voices
    /\ fan' = [fan EXCEPT ![r] = NoFan]
    /\ Goto(r, "idle")
    /\ UNCHANGED <<fleetVars, exitVars, pool, want, at, srv, ok, replay, cacheVars, alone>>

-----------------------------------------------------------------------------
(***************************************************************************)
(* What happens to the servers, and the end of the node.                   *)
(***************************************************************************)

\* A server process dies.
Crash(s) ==
    /\ s \in running
    /\ Die(s)
    /\ UNCHANGED <<replicas, nextPort, poolOf, members, exitVars, adminVars, voices, alone>>

\* A caller could not connect to a member and evicts it (WorkerPool!Evict).
Evict(s) ==
    /\ phase # "exited" /\ s \in members
    /\ members' = members \ {s}
    /\ UNCHANGED <<running, replicas, nextPort, poolOf, exitVars, adminVars, voiceVars, alone>>

\* stopAll takes the list of replicas ...
StopAll(next) ==
    /\ phase' = next
    /\ victims' = Managed
    /\ replicas' = <<>>
    /\ UNCHANGED <<running, nextPort, poolOf, members, adminVars, voiceVars, alone>>

\* SIGTERM: a goroutine sweeps the fleet, while requests are still served ...
Shutdown == phase = "up" /\ StopAll("stopping")

\* ... and kills the servers one by one.
KillVictim(s) ==
    /\ s \in victims
    /\ victims' = victims \ {s}
    /\ Die(s)
    /\ UNCHANGED <<replicas, nextPort, poolOf, members, phase, adminVars, voices, alone>>

\* Then it shuts the HTTP server down, ListenAndServe returns at once, and main sweeps
\* the fleet again.  It does not wait for the requests in progress, which go on beside it.
Sweep == phase = "stopping" /\ victims = {} /\ StopAll("sweeping")

\* main returns, and what is in progress ends.
Exit ==
    /\ phase = "sweeping" /\ victims = {}
    /\ phase' = "exited"
    /\ pc' = [r \in Requests |-> "idle"]
    /\ UNCHANGED <<fleetVars, victims, pool, want, at, srv, ok, replay, fan, voiceVars, alone>>

-----------------------------------------------------------------------------
AdminStep(r) ==
    \/ ReadCount(r) \/ CheckCap(r) \/ ScaleDone(r) \/ CannotLaunch(r) \/ Launch(r)
    \/ Healthy(r) \/ Unhealthy(r) \/ AddMember(r) \/ Provision(r) \/ Replayed(r)
    \/ StopLast(r) \/ Kill(r) \/ RemoveMember(r) \/ Done(r)
    \/ \E v \in Voices : Replay(r, v)

UploadStep(r) ==
    \/ RememberVoice(r)
    \/ \E s \in Servers, taken \in BOOLEAN : UploadTo(r, s, taken)

Next ==
    \/ \E r \in Requests : AdminSet(r) \/ AdminDelete(r) \/ AdminStep(r) \/ UploadStep(r)
    \/ \E r \in Requests, v \in Voices : UploadVoice(r, v)
    \/ \E s \in Servers : Crash(s) \/ Evict(s) \/ KillVictim(s)
    \/ Shutdown \/ Sweep \/ Exit

Spec == Init /\ [][Next]_vars

-----------------------------------------------------------------------------
(***************************************************************************)
(* Properties.                                                             *)
(***************************************************************************)

\* A server that request r is starting or stopping.
InHand(r) == IF pc[r] \in {"health", "kill"} THEN {srv[r]} ELSE {}

\* While the node runs no server process is forgotten: each one that is alive is
\* on the supervisor's list, or a request is about to record or to kill it, or
\* the shutdown is.
NoStray ==
    phase # "exited" =>
        running \subseteq Managed \cup victims \cup UNION {InHand(r) : r \in Requests}

\* No server is stopped by two requests, or stopped by one and shut down too, or
\* recorded by one request while another one stops it.
StoppedOnce ==
    /\ \A i, j \in 1..Len(replicas) : replicas[i] = replicas[j] => i = j
    /\ Managed \cap victims = {}
    /\ \A r \in Requests : InHand(r) \cap (Managed \cup victims) = {}
    /\ \A r, q \in Requests : r # q => InHand(r) \cap InHand(q) = {}

\* Requests that never overlap keep the cap on managed replicas, the "admission
\* cap on managed replicas" (config.go); two that overlap may exceed it, as each
\* compares with the cap long before it records a replica.
CapKeptAlone == alone => Total <= MaxReplicas

\* While none ever overlapped, a request that replies without an error leaves
\* exactly n managed replicas, whatever crashed or was evicted meanwhile.
ExactlyNAlone ==
    \A r \in Requests :
        alone /\ phase = "up" /\ pc[r] = "reply" /\ ok[r] => Count(pool[r]) = want[r]

\* Without overlapping requests, a pool hands out no managed server that the
\* supervisor has forgotten, except one that a request is just stopping.
MembersManagedAlone ==
    alone /\ phase = "up" =>
        members \cap Ports \subseteq
            Managed \cup {srv[r] : r \in {q \in Requests : pc[q] \in {"kill", "remove"}}}

\* A new tts replica gets "the same reference voices as its neighbors" (admin.go), also
\* those that were uploaded while it started: once the request that launched it has gone
\* through the remembered voices, a tts server in service lacks one of them only if an
\* upload of it to that server failed, or one was under way just then (it chose its
\* servers before this one was among them).
VoicesProvisioned ==
    phase # "exited" =>
        \A s \in TTSMembers \cap running :
            (\A r \in Requests : srv[r] = s => pc[r] \notin {"provision", "replay"}) =>
                voices \subseteq has[s] \cup missed[s]

\* Shutdown is called on exit "so we don't leak crispasr servers" (admin.go).
NoLeakedServer == phase = "exited" => running = {}

=============================================================================
