----------------------------- MODULE OmegaServing -----------------------------
(***************************************************************************)
(* Batched serving of the omega arms on RoboCerebra: the rollout clients   *)
(* of scripts/robocerebra/eval_robocerebra_openpi.py and, behind the       *)
(* gather, the OmegaPiInferWrapper of serve_pi05_libero_wsm.py, with one   *)
(* omega window and one encoder prefix per environment slot.               *)
(*                                                                         *)
(* A frame is the observation of one request; its omega and the policy's   *)
(* answer are left out.  A request is made every replan steps, so wsm_t    *)
(* and the stride count requests here.                                     *)
(***************************************************************************)
EXTENDS Integers, Sequences, FiniteSets

CONSTANTS
    Runners, Envs, Episodes,
    EnvOf,                  \* --wsm-env-id of each runner
    Plan,                   \* the episodes of each runner, in order
    Horizon,                \* the last request of an episode
    Boundaries,             \* the requests that follow a re-pin of the simulator
    Window, Stride,         \* of ServeWindow
    MaxEnvs, MaxBatch,      \* --max-envs, and the gather's window
    RepinResetsEncoder,     \* --repin-scope
    MaxLives,               \* bound: starts of each runner
    MaxMishaps,             \* bound: encoder and policy errors and killed clients
    NoSlot

Times == 0..Horizon

ASSUME ServingAssumption ==
    /\ EnvOf \in [Runners -> Envs] /\ IsFiniteSet(Envs)
    /\ Plan \in [Runners -> Seq(Episodes) \ {<<>>}]
    /\ Horizon \in Nat /\ Boundaries \subseteq Times \ {0}
    /\ Window \in Nat \ {0} /\ Stride \in Nat \ {0}
    /\ MaxEnvs \in Nat \ {0} /\ MaxBatch \in Nat \ {0}
    /\ MaxLives \in Nat \ {0} /\ MaxMishaps \in Nat
    /\ RepinResetsEncoder \in BOOLEAN

VARIABLES
    runner,     \* the clients
    queue,      \* requests on their way, in arrival order
    slots,      \* per environment: _states and the source's _prefix
    reoffer,    \* requests of a rejected window still to be offered singly
    twice,      \* the environments that window had more than once
    mishaps

vars == <<runner, queue, slots, reoffer, twice, mishaps>>

Requests == [run : Runners, life : 1..MaxLives, ep : Episodes, t : Times, repin : BOOLEAN]
Frames == [run : Runners, life : 1..MaxLives, ep : Episodes, t : Times]

\* newest is ServeWindow._last_encoded_step, -1 for None.
Slots == [ep : Episodes, last : -1..Horizon, buf : Seq(Frames), newest : -1..Horizon,
          prefix : Seq(Frames)]

ASSUME NoSlotAssumption == NoSlot \notin Slots

Fresh(life) == [pc |-> "ready", life |-> life, at |-> 1, t |-> 0, why |-> "none",
                buf |-> <<>>, prefix |-> <<>>]

Init ==
    /\ runner = [r \in Runners |-> Fresh(1)]
    /\ queue = <<>> /\ reoffer = <<>> /\ twice = {}
    /\ slots = [e \in Envs |-> NoSlot]
    /\ mishaps = 0

----------------------------------------------------------------------------
(* The clients: run_episode asks, waits, acts, and dies of any error. *)

Episode(r) == Plan[r][runner[r].at]

RequestOf(r) == [run |-> r, life |-> runner[r].life, ep |-> Episode(r), t |-> runner[r].t,
                 repin |-> runner[r].t \in Boundaries]

Ask(r) ==
    /\ runner[r].pc = "ready"
    /\ runner' = [runner EXCEPT ![r].pc = "waiting"]
    /\ queue' = Append(queue, RequestOf(r))
    /\ UNCHANGED <<slots, reoffer, twice, mishaps>>

\* The client acts on its answer: the next request, the next episode, or the end.
Acts(r, pc, at, t) ==
    /\ runner[r].pc = "answered"
    /\ runner' = [runner EXCEPT ![r] = [@ EXCEPT !.pc = pc, !.at = at, !.t = t,
                                                !.buf = <<>>, !.prefix = <<>>]]
    /\ UNCHANGED <<queue, slots, reoffer, twice, mishaps>>

NextRequest(r) == runner[r].t < Horizon /\ Acts(r, "ready", runner[r].at, runner[r].t + 1)

NextEpisode(r) == /\ runner[r].t = Horizon /\ runner[r].at < Len(Plan[r])
                  /\ Acts(r, "ready", runner[r].at + 1, 0)

Finish(r) == /\ runner[r].t = Horizon /\ runner[r].at = Len(Plan[r])
             /\ Acts(r, "done", runner[r].at, runner[r].t)

\* The client is killed; a request it has sent is served all the same.
Crash(r) ==
    /\ runner[r].pc \in {"ready", "waiting"} /\ mishaps < MaxMishaps
    /\ runner' = [runner EXCEPT ![r].pc = "dead", ![r].why = "killed"]
    /\ mishaps' = mishaps + 1
    /\ UNCHANGED <<queue, slots, reoffer, twice>>

\* The operator starts the same command again: the results file starts over.
Restart(r) ==
    /\ runner[r].pc = "dead" /\ runner[r].life < MaxLives
    /\ runner' = [runner EXCEPT ![r] = Fresh(@.life + 1)]
    /\ UNCHANGED <<queue, slots, reoffer, twice, mishaps>>

----------------------------------------------------------------------------
(* _validate_batch *)

Env(q) == EnvOf[q.run]
Resets(batch) == {Env(batch[i]) : i \in {j \in DOMAIN batch : batch[j].t = 0}}
Started == {e \in Envs : slots[e] /= NoSlot}

Distinct(batch) == \A i, j \in DOMAIN batch : Env(batch[i]) = Env(batch[j]) => i = j

SlotsLeft(batch) == Cardinality(Started \union Resets(batch)) <= MaxEnvs

\* (mutant) Only the slot's own environment is looked at.
EpisodesUnchecked(batch) == TRUE

\* No reset takes an episode that another slot keeps, or another reset takes.
EpisodesFree(batch) ==
    \A i \in DOMAIN batch : batch[i].t = 0 =>
        /\ \A e \in Started \ Resets(batch) : slots[e].ep /= batch[i].ep
        /\ \A j \in DOMAIN batch : batch[j].t = 0 /\ batch[j].ep = batch[i].ep => i = j

Continues(q) ==
    /\ slots[Env(q)] /= NoSlot
    /\ slots[Env(q)].ep = q.ep
    /\ q.t > slots[Env(q)].last

Valid(batch) ==
    /\ Distinct(batch)
    /\ SlotsLeft(batch)
    /\ EpisodesFree(batch)
    /\ \A i \in DOMAIN batch : batch[i].t > 0 => Continues(batch[i])

----------------------------------------------------------------------------
(* _prepare_batch: reset, re-pin, encode what is due, push. *)

Frame(q) == [run |-> q.run, life |-> q.life, ep |-> q.ep, t |-> q.t]

\* (mutant) A re-pin leaves the window as it is.
ReadiedStale(q) ==
    IF q.t = 0
    THEN [ep |-> q.ep, last |-> -1, buf |-> <<>>, newest |-> -1, prefix |-> <<>>]
    ELSE slots[Env(q)]

Readied(q) ==
    IF q.t = 0
    THEN [ep |-> q.ep, last |-> -1, buf |-> <<>>, newest |-> -1, prefix |-> <<>>]
    ELSE IF q.repin
    THEN [slots[Env(q)] EXCEPT !.buf = <<>>, !.newest = -1,
                               !.prefix = IF RepinResetsEncoder THEN <<>> ELSE @]
    ELSE slots[Env(q)]

Due(q) == LET s == Readied(q) IN s.newest = -1 \/ q.t - s.newest >= Stride

Encoded(q) == [Readied(q) EXCEPT !.prefix = Append(@, Frame(q))]

LastOf(s) == IF Len(s) > Window THEN SubSeq(s, Len(s) - Window + 1, Len(s)) ELSE s

Prepared(q) ==
    IF Due(q)
    THEN [Encoded(q) EXCEPT !.buf = LastOf(Append(@, Frame(q))), !.newest = q.t, !.last = q.t]
    ELSE [Readied(q) EXCEPT !.last = q.t]

\* The slots when each request of a valid batch has left its slot as taken says.
Written(batch, taken) ==
    [e \in Envs |-> IF \E i \in DOMAIN batch : Env(batch[i]) = e
                    THEN taken[CHOOSE i \in DOMAIN batch : Env(batch[i]) = e]
                    ELSE slots[e]]

\* The runners that wait for an answer to a request of the batch.
Awaits(r, batch) ==
    /\ runner[r].pc = "waiting"
    /\ \E i \in DOMAIN batch : batch[i].run = r /\ batch[i].life = runner[r].life

Die(batch, why) ==
    runner' = [r \in Runners |-> IF Awaits(r, batch)
                                 THEN [runner[r] EXCEPT !.pc = "dead", !.why = why]
                                 ELSE runner[r]]

Serve(batch) ==
    /\ Valid(batch)
    /\ slots' = Written(batch, [i \in DOMAIN batch |-> Prepared(batch[i])])
    /\ runner' = [r \in Runners |->
          IF Awaits(r, batch)
          THEN [runner[r] EXCEPT !.pc = "answered", !.buf = slots'[EnvOf[r]].buf,
                                 !.prefix = slots'[EnvOf[r]].prefix]
          ELSE runner[r]]
    /\ UNCHANGED mishaps

\* The tap fails, or an encoded omega is not finite: the frames encoded before
\* it stay in their prefixes, nothing is pushed, and the whole batch gets the error.
EncoderFails(batch) ==
    /\ Valid(batch) /\ mishaps < MaxMishaps
    /\ \E i \in DOMAIN batch : Due(batch[i])
    /\ \E n \in 0..Len(batch) :
          slots' = Written(batch, [i \in DOMAIN batch |->
              IF Due(batch[i]) /\ i <= n THEN Encoded(batch[i]) ELSE Readied(batch[i])])
    /\ Die(batch, "fault")
    /\ mishaps' = mishaps + 1

\* The policy fails after every window was pushed.
PolicyFails(batch) ==
    /\ Valid(batch) /\ mishaps < MaxMishaps
    /\ slots' = Written(batch, [i \in DOMAIN batch |-> Prepared(batch[i])])
    /\ Die(batch, "fault")
    /\ mishaps' = mishaps + 1

Offer(batch) == Serve(batch) \/ EncoderFails(batch) \/ PolicyFails(batch)

Reject(batch) == Die(batch, "rejected") /\ UNCHANGED <<slots, mishaps>>

----------------------------------------------------------------------------
(* infer_batch: a window is served whole, or its requests are offered one by one. *)

Gathered(batch) ==
    /\ reoffer = <<>>
    /\ \E n \in 1..Len(queue) : n <= MaxBatch /\ batch = SubSeq(queue, 1, n)
    /\ queue' = SubSeq(queue, Len(batch) + 1, Len(queue))

Windows == {SubSeq(queue, 1, n) : n \in 1..Len(queue)}

ServeWindow ==
    \E batch \in Windows :
        /\ Gathered(batch)
        /\ Offer(batch) \/ (Len(batch) = 1 /\ ~Valid(batch) /\ Reject(batch))
        /\ UNCHANGED <<reoffer, twice>>

\* (mutant) One malformed request kills its whole window.
KillWindow ==
    \E batch \in Windows :
        /\ Gathered(batch)
        /\ Len(batch) > 1 /\ ~Valid(batch)
        /\ Reject(batch)
        /\ UNCHANGED <<reoffer, twice>>

SplitWindow ==
    \E batch \in Windows :
        /\ Gathered(batch)
        /\ Len(batch) > 1 /\ ~Valid(batch)
        /\ reoffer' = batch
        /\ twice' = {Env(batch[i]) : i \in {j \in DOMAIN batch :
                        \E k \in DOMAIN batch : k /= j /\ Env(batch[k]) = Env(batch[j])}}
        /\ UNCHANGED <<runner, slots, mishaps>>

\* Every copy of a doubled environment is refused; the others stand on their own.
OfferOne ==
    /\ reoffer /= <<>>
    /\ LET single == <<Head(reoffer)>>
       IN  IF Env(Head(reoffer)) \in twice \/ ~Valid(single)
           THEN Reject(single)
           ELSE Offer(single)
    /\ reoffer' = Tail(reoffer)
    /\ twice' = IF Len(reoffer) = 1 THEN {} ELSE twice
    /\ UNCHANGED queue

ServerStep == ServeWindow \/ SplitWindow \/ OfferOne

Next ==
    \/ \E r \in Runners : Ask(r) \/ NextRequest(r) \/ NextEpisode(r) \/ Finish(r)
                         \/ Crash(r) \/ Restart(r)
    \/ ServerStep

Spec == Init /\ [][Next]_vars

----------------------------------------------------------------------------
ServingTypeOK ==
    /\ runner \in [Runners -> [pc : {"ready", "waiting", "answered", "dead", "done"},
                               life : 1..MaxLives, at : Nat \ {0}, t : Times,
                               why : {"none", "killed", "fault", "rejected"},
                               buf : Seq(Frames), prefix : Seq(Frames)]]
    /\ \A r \in Runners : runner[r].at <= Len(Plan[r])
    /\ queue \in Seq(Requests) /\ reoffer \in Seq(Requests)
    /\ twice \subseteq Envs
    /\ slots \in [Envs -> Slots \union {NoSlot}]
    /\ \A e \in Started : Len(slots[e].buf) <= Window
    /\ mishaps \in 0..MaxMishaps

\* No two slots ever keep the same active episode, whatever was served in one
\* batch, split, or left behind by a client that died (identity layer of
\* _validate_batch).
OneSlotPerEpisode ==
    \A d, e \in Started : slots[d].ep = slots[e].ep => d = e

\* What one environment served alone would have encoded: the step of the last
\* encode at t, the encoded steps, and the window at t.
LastEncode[t \in Times] ==
    IF t = 0 \/ t \in Boundaries \/ t - LastEncode[t - 1] >= Stride THEN t ELSE LastEncode[t - 1]

EncodedBy(t) == {u \in 0..t : LastEncode[u] = u}

SoloPrefix(t) == IF RepinResetsEncoder
                 THEN {u \in EncodedBy(t) : \A b \in Boundaries : b <= t => b <= u}
                 ELSE EncodedBy(t)

SoloWindow(t) == {u \in EncodedBy(t) :
                     /\ \A b \in Boundaries : b <= t => b <= u
                     /\ Cardinality({v \in EncodedBy(t) : v > u}) < Window}

\* A sequence of frames of runner r's present episode at exactly these steps.
IsGrid(s, r, steps) ==
    /\ Len(s) = Cardinality(steps)
    /\ {s[i].t : i \in DOMAIN s} = steps
    /\ \A i, j \in DOMAIN s : i < j => s[i].t < s[j].t
    /\ \A i \in DOMAIN s : s[i].run = r /\ s[i].life = runner[r].life /\ s[i].ep = Episode(r)

\* The window and the encoder prefix behind an answer are the ones the runner
\* would have had alone: no frame of another runner, of an earlier life or
\* episode, or from before a re-pin, none twice, none missing.  The docstring
\* of the server: the outcome is invariant to K, composition and ordering.
BatchingIsInvisible ==
    \A r \in Runners : runner[r].pc = "answered" =>
        /\ IsGrid(runner[r].buf, r, SoloWindow(runner[r].t))
        /\ IsGrid(runner[r].prefix, r, SoloPrefix(runner[r].t))

\* A request is only ever refused for a conflict of its own runner: a shared
\* environment, the leftovers of an earlier life, or, at a reset, an episode
\* of another runner's plan or too many environments.  A malformed neighbour
\* in the window never costs a healthy episode (fallback of infer_batch).
PlansEpisode(r, ep) == \E i \in DOMAIN Plan[r] : Plan[r][i] = ep

OnlyConflictsReject ==
    \A r \in Runners : runner[r].why = "rejected" =>
        \/ \E o \in Runners \ {r} : EnvOf[o] = EnvOf[r]
        \/ runner[r].life > 1
        \/ /\ runner[r].t = 0
           /\ \/ \E o \in Runners \ {r} : PlansEpisode(o, Episode(r))
              \/ Cardinality({EnvOf[o] : o \in Runners}) > MaxEnvs

\* What shards of one evaluation satisfy: runners that are given one
\* environment are given different episodes.
PlansApart ==
    \A r \in Runners : \A o \in Runners \ {r} :
        EnvOf[o] = EnvOf[r] => \A ep \in Episodes : ~(PlansEpisode(r, ep) /\ PlansEpisode(o, ep))
================================================================================
