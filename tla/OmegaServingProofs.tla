---------------------------- MODULE OmegaServingProofs ----------------------------
(***************************************************************************)
(* Proofs about OmegaServing for any runners, environments, plans and      *)
(* window sizes: types, that no two slots keep one episode, that a request *)
(* is refused for its own conflicts only, and that what an answer stands   *)
(* on is what its client would have had alone.                             *)
(***************************************************************************)
EXTENDS OmegaServing, SequenceTheorems, FiniteSetTheorems, WellFoundedInduction, TLAPS

-----------------------------------------------------------------------------
(* Slots                                                                   *)

SlotsTyped == slots \in [Envs -> Slots \union {NoSlot}]

\* The last Window frames of a sequence are at most Window frames.
LEMMA LastOfIsSeq ==
  ASSUME NEW s \in Seq(Frames)
  PROVE  LastOf(s) \in Seq(Frames) /\ Len(LastOf(s)) <= Window
<1>1. Window \in Nat \ {0}
    BY ServingAssumption DEF ServingAssumption
<1>2. CASE Len(s) > Window
    <2>1. Len(s) - Window + 1 \in 1..Len(s) + 1 /\ Len(s) \in 0..Len(s)
        BY <1>1, <1>2
    <2>2. /\ SubSeq(s, Len(s) - Window + 1, Len(s)) \in Seq(Frames)
          /\ Len(SubSeq(s, Len(s) - Window + 1, Len(s))) = Window
        BY <1>1, <1>2, <2>1
    <2> QED
        BY <1>1, <1>2, <2>2 DEF LastOf
<1>3. CASE ~(Len(s) > Window)
    BY <1>1, <1>3 DEF LastOf
<1> QED
    BY <1>2, <1>3

\* A request that resets or continues leaves a slot of its own episode,
\* however far it was taken.
LEMMA TakenIsSlot ==
  ASSUME SlotsTyped, NEW q \in Requests, q.t = 0 \/ Continues(q),
         \A e \in Started : Len(slots[e].buf) <= Window
  PROVE  /\ Readied(q) \in Slots /\ Readied(q).ep = q.ep /\ Len(Readied(q).buf) <= Window
         /\ Encoded(q) \in Slots /\ Encoded(q).ep = q.ep /\ Len(Encoded(q).buf) <= Window
         /\ Prepared(q) \in Slots /\ Prepared(q).ep = q.ep /\ Len(Prepared(q).buf) <= Window
<1>1. /\ Env(q) \in Envs /\ q.ep \in Episodes /\ q.t \in Times /\ Frame(q) \in Frames
      /\ Horizon \in Nat /\ Window \in Nat
    BY ServingAssumption DEF ServingAssumption, Env, Requests, Frame, Frames
<1>2. Readied(q) \in Slots /\ Readied(q).ep = q.ep /\ Len(Readied(q).buf) <= Window
    <2>1. CASE q.t = 0
        <3>1. Readied(q) = [ep |-> q.ep, last |-> -1, buf |-> <<>>, newest |-> -1, prefix |-> <<>>]
            BY <2>1 DEF Readied
        <3>2. <<>> \in Seq(Frames) /\ Len(<<>>) = 0
            OBVIOUS
        <3> QED
            BY <1>1, <3>1, <3>2 DEF Slots
    <2>2. CASE q.t # 0
        <3>1. slots[Env(q)] \in Slots /\ slots[Env(q)].ep = q.ep /\ Len(slots[Env(q)].buf) <= Window
            BY <1>1, <2>2 DEF SlotsTyped, Continues, Started
        <3>2. <<>> \in Seq(Frames) /\ Len(<<>>) = 0
            OBVIOUS
        <3>3. CASE q.repin
            <4> DEFINE prefix == IF RepinResetsEncoder THEN <<>> ELSE slots[Env(q)].prefix
            <4>1. prefix \in Seq(Frames)
                BY <3>1, <3>2 DEF Slots
            <4>2. Readied(q) = [slots[Env(q)] EXCEPT !.buf = <<>>, !.newest = -1, !.prefix = prefix]
                BY <2>2, <3>3 DEF Readied
            <4> HIDE DEF prefix
            <4>3. /\ Readied(q).ep = q.ep /\ Readied(q).buf = <<>>
                  /\ Readied(q) = [ep |-> slots[Env(q)].ep, last |-> slots[Env(q)].last, buf |-> <<>>,
                                   newest |-> -1, prefix |-> prefix]
                BY <3>1, <4>2 DEF Slots
            <4>4. -1 \in -1..Horizon
                BY <1>1
            <4> QED
                BY <1>1, <3>1, <3>2, <4>1, <4>3, <4>4 DEF Slots
        <3>4. CASE ~q.repin
            BY <2>2, <3>1, <3>4 DEF Readied
        <3> QED
            BY <3>3, <3>4
    <2> QED
        BY <2>1, <2>2
<1>3. Encoded(q) \in Slots /\ Encoded(q).ep = q.ep /\ Encoded(q).buf = Readied(q).buf
    <2>1. Append(Readied(q).prefix, Frame(q)) \in Seq(Frames)
        BY <1>1, <1>2 DEF Slots
    <2> QED
        BY <1>2, <2>1 DEF Encoded, Slots
<1>4. Prepared(q) \in Slots /\ Prepared(q).ep = q.ep /\ Len(Prepared(q).buf) <= Window
    <2>1. q.t \in -1..Horizon
        BY <1>1 DEF Times
    <2>2. CASE Due(q)
        <3>1. Append(Encoded(q).buf, Frame(q)) \in Seq(Frames)
            BY <1>1, <1>3 DEF Slots
        <3>2. /\ LastOf(Append(Encoded(q).buf, Frame(q))) \in Seq(Frames)
              /\ Len(LastOf(Append(Encoded(q).buf, Frame(q)))) <= Window
            BY <3>1, LastOfIsSeq
        <3>3. Prepared(q) = [Encoded(q) EXCEPT !.buf = LastOf(Append(@, Frame(q))), !.newest = q.t,
                                               !.last = q.t]
            BY <2>2 DEF Prepared
        <3>4. /\ Prepared(q) \in Slots /\ Prepared(q).ep = Encoded(q).ep
              /\ Prepared(q).buf = LastOf(Append(Encoded(q).buf, Frame(q)))
            BY <1>3, <2>1, <3>2, <3>3 DEF Slots
        <3> QED
            BY <1>3, <3>2, <3>4
    <2>3. CASE ~Due(q)
        <3>1. Prepared(q) = [Readied(q) EXCEPT !.last = q.t]
            BY <2>3 DEF Prepared
        <3> QED
            BY <1>2, <2>1, <3>1 DEF Slots
    <2> QED
        BY <2>2, <2>3
<1> QED
    BY <1>2, <1>3, <1>4

\* A valid batch leaves every slot in its type, and no two slots on one episode.
LEMMA WrittenKeepsSlots ==
  ASSUME SlotsTyped, OneSlotPerEpisode, \A e \in Started : Len(slots[e].buf) <= Window,
         NEW batch \in Seq(Requests), Valid(batch), NEW taken,
         \A i \in DOMAIN batch : /\ taken[i] \in Slots /\ taken[i].ep = batch[i].ep
                                 /\ Len(taken[i].buf) <= Window,
         slots' = Written(batch, taken)
  PROVE  /\ SlotsTyped' /\ OneSlotPerEpisode' /\ (\A e \in Started : Len(slots[e].buf) <= Window)'
         /\ \A i \in DOMAIN batch : slots'[Env(batch[i])] \in Slots
<1>1. ASSUME NEW i \in DOMAIN batch PROVE batch[i] \in Requests /\ Env(batch[i]) \in Envs
    <2>1. batch[i] \in Requests
        BY ElementOfSeq
    <2>2. batch[i].run \in Runners
        BY <2>1 DEF Requests
    <2> QED
        BY <2>1, <2>2, ServingAssumption DEF ServingAssumption, Env
<1>2. ASSUME NEW i \in DOMAIN batch PROVE slots'[Env(batch[i])] = taken[i]
    <2>1. (CHOOSE j \in DOMAIN batch : Env(batch[j]) = Env(batch[i])) = i
        BY DEF Valid, Distinct
    <2> QED
        BY <1>1, <2>1 DEF Written
<1>3. ASSUME NEW e \in Envs, \A i \in DOMAIN batch : Env(batch[i]) # e PROVE slots'[e] = slots[e]
    BY <1>3 DEF Written
<1>4. SlotsTyped'
    <2>1. slots' = [e \in Envs |-> slots'[e]]
        BY DEF Written
    <2>2. \A e \in Envs : slots'[e] \in Slots \union {NoSlot}
        BY <1>2, <1>3 DEF SlotsTyped
    <2> QED
        BY <2>1, <2>2 DEF SlotsTyped
<1>5. (\A e \in Started : Len(slots[e].buf) <= Window)'
    <2> SUFFICES ASSUME NEW e \in Envs, slots'[e] # NoSlot PROVE Len(slots'[e].buf) <= Window
        BY DEF Started
    <2>1. CASE \E i \in DOMAIN batch : Env(batch[i]) = e
        BY <1>2, <2>1
    <2>2. CASE \A i \in DOMAIN batch : Env(batch[i]) # e
        BY <1>3, <2>2 DEF Started
    <2> QED
        BY <2>1, <2>2
<1>6. OneSlotPerEpisode'
    \* The episode of a slot after the batch: of its reset, or as before.
    <2>1. ASSUME NEW e \in Envs, slots'[e] # NoSlot
          PROVE  \/ \E i \in DOMAIN batch : Env(batch[i]) = e /\ batch[i].t = 0 /\ slots'[e].ep = batch[i].ep
                 \/ e \in Started \ Resets(batch) /\ slots'[e].ep = slots[e].ep
        <3>1. ASSUME NEW i \in DOMAIN batch, Env(batch[i]) = e, batch[i].t # 0
              PROVE  e \in Started \ Resets(batch) /\ slots'[e].ep = slots[e].ep
            <4>1. batch[i].t > 0
                BY <1>1, <3>1, ServingAssumption DEF Requests, Times, ServingAssumption
            <4>2. Continues(batch[i])
                BY <4>1 DEF Valid
            <4>3. e \notin Resets(batch)
                BY <3>1 DEF Valid, Distinct, Resets
            <4> QED
                BY <1>2, <3>1, <4>2, <4>3 DEF Continues, Started
        <3>2. CASE \A i \in DOMAIN batch : Env(batch[i]) # e
            BY <1>3, <2>1, <3>2 DEF Started, Resets
        <3> QED
            BY <1>2, <3>1, <3>2
    <2> SUFFICES ASSUME NEW d \in Envs, NEW e \in Envs, slots'[d] # NoSlot, slots'[e] # NoSlot,
                        slots'[d].ep = slots'[e].ep
                 PROVE  d = e
        BY DEF OneSlotPerEpisode, Started
    <2>2. EpisodesFree(batch)
        BY DEF Valid
    <2>3. ASSUME NEW a \in Envs, NEW b \in Started \ Resets(batch), slots'[a].ep = slots[b].ep
          PROVE  ~ \E i \in DOMAIN batch : Env(batch[i]) = a /\ batch[i].t = 0 /\ slots'[a].ep = batch[i].ep
        BY <2>2, <2>3 DEF EpisodesFree
    <2>4. CASE d \in Started \ Resets(batch) /\ slots'[d].ep = slots[d].ep
        <3>1. e \in Started \ Resets(batch) /\ slots'[e].ep = slots[e].ep
            BY <2>1, <2>3, <2>4
        <3> QED
            BY <2>4, <3>1 DEF OneSlotPerEpisode
    <2>5. CASE e \in Started \ Resets(batch) /\ slots'[e].ep = slots[e].ep
        <3>1. d \in Started \ Resets(batch) /\ slots'[d].ep = slots[d].ep
            BY <2>1, <2>3, <2>5
        <3> QED
            BY <2>5, <3>1 DEF OneSlotPerEpisode
    <2>6. ASSUME NEW i \in DOMAIN batch, Env(batch[i]) = d, batch[i].t = 0, slots'[d].ep = batch[i].ep,
                 NEW j \in DOMAIN batch, Env(batch[j]) = e, batch[j].t = 0, slots'[e].ep = batch[j].ep
          PROVE  d = e
        BY <2>2, <2>6 DEF EpisodesFree
    <2> QED
        BY <2>1, <2>4, <2>5, <2>6
<1> QED
    BY <1>2, <1>4, <1>5, <1>6

-----------------------------------------------------------------------------
(* The inductive invariant and its steps                                   *)

ServingInv == ServingTypeOK /\ OneSlotPerEpisode

RunnerType == [pc : {"ready", "waiting", "answered", "dead", "done"},
               life : 1..MaxLives, at : Nat \ {0}, t : Times,
               why : {"none", "killed", "fault", "rejected"},
               buf : Seq(Frames), prefix : Seq(Frames)]

RunnersTyped == runner \in [Runners -> RunnerType] /\ \A r \in Runners : runner[r].at <= Len(Plan[r])
SlotsFine == /\ SlotsTyped /\ OneSlotPerEpisode
             /\ \A e \in Started : Len(slots[e].buf) <= Window

LEMMA ServingParts ==
  ServingInv <=> /\ RunnersTyped /\ SlotsFine
                 /\ queue \in Seq(Requests) /\ reoffer \in Seq(Requests)
                 /\ twice \subseteq Envs /\ mishaps \in 0..MaxMishaps
BY DEF ServingInv, ServingTypeOK, RunnersTyped, RunnerType, SlotsFine, SlotsTyped

LEMMA ServingPartsNext ==
  ASSUME RunnersTyped', SlotsFine', queue' \in Seq(Requests), reoffer' \in Seq(Requests),
         twice' \subseteq Envs, mishaps' \in 0..MaxMishaps
  PROVE  ServingInv'
BY DEF ServingInv, ServingTypeOK, RunnersTyped, RunnerType, SlotsFine, SlotsTyped

LEMMA PlanFacts ==
  ASSUME NEW r \in Runners
  PROVE  /\ Plan[r] \in Seq(Episodes) /\ Len(Plan[r]) \in Nat \ {0} /\ EnvOf[r] \in Envs
         /\ Horizon \in Nat /\ MaxLives \in Nat \ {0} /\ MaxMishaps \in Nat
<1>1. Plan[r] \in Seq(Episodes) \ {<<>>} /\ EnvOf[r] \in Envs
    BY ServingAssumption DEF ServingAssumption
<1>2. Len(Plan[r]) \in Nat \ {0}
    BY <1>1, EmptySeq
<1> QED
    BY <1>1, <1>2, ServingAssumption DEF ServingAssumption

LEMMA InitServing == Init => ServingInv
<1> SUFFICES ASSUME Init PROVE ServingInv
    OBVIOUS
<1>1. ASSUME NEW r \in Runners PROVE Fresh(1) \in RunnerType /\ 1 <= Len(Plan[r])
    BY PlanFacts, EmptySeq DEF Fresh, RunnerType, Times
<1>2. RunnersTyped
    BY <1>1 DEF Init, RunnersTyped, Fresh
<1>3. SlotsFine
    BY DEF Init, SlotsFine, SlotsTyped, OneSlotPerEpisode, Started
<1> QED
    BY <1>2, <1>3, ServingParts, EmptySeq, ServingAssumption DEF Init, ServingAssumption

\* What the clients do.
LEMMA ClientSteps ==
  ASSUME ServingInv, NEW r \in Runners,
         Ask(r) \/ NextRequest(r) \/ NextEpisode(r) \/ Finish(r) \/ Crash(r) \/ Restart(r)
  PROVE  ServingInv'
<1>1. /\ RunnersTyped /\ SlotsFine /\ queue \in Seq(Requests) /\ reoffer \in Seq(Requests)
      /\ twice \subseteq Envs /\ mishaps \in 0..MaxMishaps
    BY ServingParts
<1>2. /\ runner[r] \in RunnerType /\ runner[r].at \in 1..Len(Plan[r]) /\ runner[r].at <= Len(Plan[r])
    BY <1>1, PlanFacts DEF RunnersTyped, RunnerType
<1>3. UNCHANGED slots => SlotsFine'
    BY <1>1 DEF SlotsFine, SlotsTyped, OneSlotPerEpisode, Started
<1>4. ASSUME NEW next \in RunnerType, next.at <= Len(Plan[r]), runner' = [runner EXCEPT ![r] = next]
      PROVE  RunnersTyped'
    BY <1>1, <1>4 DEF RunnersTyped
<1>5. CASE Ask(r)
    <2>1. Episode(r) \in Episodes
        BY <1>2, PlanFacts, ElementOfSeq DEF Episode
    <2>2. RequestOf(r) \in Requests
        BY <1>2, <2>1 DEF RequestOf, Requests, RunnerType
    <2>3. queue' \in Seq(Requests)
        BY <1>1, <1>5, <2>2 DEF Ask
    <2> DEFINE next == [runner[r] EXCEPT !.pc = "waiting"]
    <2>4. next \in RunnerType /\ next.at = runner[r].at
        BY <1>2 DEF RunnerType
    <2>6. runner' = [runner EXCEPT ![r] = next]
        BY <1>5 DEF Ask
    <2> HIDE DEF next
    <2>5. RunnersTyped'
        BY <1>2, <1>4, <2>4, <2>6
    <2> QED
        BY <1>1, <1>3, <1>5, <2>3, <2>5, ServingPartsNext DEF Ask
<1>6. ASSUME NEW pc \in {"ready", "done"}, NEW at \in 1..Len(Plan[r]), NEW t \in Times, Acts(r, pc, at, t)
      PROVE  ServingInv'
    <2> DEFINE next == [runner[r] EXCEPT !.pc = pc, !.at = at, !.t = t, !.buf = <<>>, !.prefix = <<>>]
    <2>1. at \in Nat \ {0} /\ at <= Len(Plan[r]) /\ <<>> \in Seq(Frames)
        BY <1>6, PlanFacts
    <2>3. /\ [runner[r] EXCEPT !.pc = pc, !.at = at, !.t = t] \in RunnerType
          /\ [runner[r] EXCEPT !.pc = pc, !.at = at, !.t = t].at = at
        BY <1>2, <1>6, <2>1 DEF RunnerType
    <2>6. next = [[runner[r] EXCEPT !.pc = pc, !.at = at, !.t = t] EXCEPT !.buf = <<>>, !.prefix = <<>>]
        OBVIOUS
    <2>4. next \in RunnerType /\ next.at = at
        <3>1. ASSUME NEW x \in RunnerType, NEW none \in Seq(Frames)
              PROVE  /\ [x EXCEPT !.buf = none, !.prefix = none] \in RunnerType
                     /\ [x EXCEPT !.buf = none, !.prefix = none].at = x.at
            BY DEF RunnerType
        <3> QED
            BY <2>1, <2>3, <2>6, <3>1
    <2>5. runner' = [runner EXCEPT ![r] = next]
        BY <1>6 DEF Acts
    <2> HIDE DEF next
    <2>2. RunnersTyped'
        BY <1>4, <2>1, <2>4, <2>5
    <2> QED
        BY <1>1, <1>3, <1>6, <2>2, ServingPartsNext DEF Acts
<1>7. CASE NextRequest(r) \/ NextEpisode(r) \/ Finish(r)
    <2>1. /\ runner[r].at \in 1..Len(Plan[r]) /\ runner[r].t \in Times /\ 0 \in Times
          /\ runner[r].at < Len(Plan[r]) => runner[r].at + 1 \in 1..Len(Plan[r])
          /\ runner[r].t < Horizon => runner[r].t + 1 \in Times
        BY <1>2, PlanFacts DEF RunnerType, Times
    <2> QED
        BY <1>6, <1>7, <2>1 DEF NextRequest, NextEpisode, Finish
<1>8. CASE Crash(r)
    <2> DEFINE next == [runner[r] EXCEPT !.pc = "dead", !.why = "killed"]
    <2>1. next \in RunnerType /\ next.at = runner[r].at
        BY <1>2 DEF RunnerType
    <2>4. runner' = [runner EXCEPT ![r] = next]
        BY <1>8 DEF Crash
    <2> HIDE DEF next
    <2>2. RunnersTyped'
        BY <1>2, <1>4, <2>1, <2>4
    <2>3. mishaps' \in 0..MaxMishaps
        BY <1>1, <1>8, PlanFacts DEF Crash
    <2> QED
        BY <1>1, <1>3, <1>8, <2>2, <2>3, ServingPartsNext DEF Crash
<1>9. CASE Restart(r)
    <2>1. Fresh(runner[r].life + 1) \in RunnerType /\ Fresh(runner[r].life + 1).at <= Len(Plan[r])
        BY <1>2, <1>9, PlanFacts, EmptySeq DEF Restart, Fresh, RunnerType, Times
    <2>2. RunnersTyped'
        BY <1>4, <1>9, <2>1 DEF Restart
    <2> QED
        BY <1>1, <1>3, <1>9, <2>2, ServingPartsNext DEF Restart
<1> QED
    BY <1>5, <1>7, <1>8, <1>9

\* What a batch does to the slots and to the runners that wait for it.
LEMMA OfferStep ==
  ASSUME ServingInv, NEW batch \in Seq(Requests), Offer(batch) \/ Reject(batch)
  PROVE  RunnersTyped' /\ SlotsFine' /\ mishaps' \in 0..MaxMishaps
<1>1. RunnersTyped /\ SlotsFine /\ mishaps \in 0..MaxMishaps
    BY ServingParts
<1>2. MaxMishaps \in Nat /\ Horizon \in Nat
    BY ServingAssumption DEF ServingAssumption
<1>3. UNCHANGED slots => SlotsFine'
    BY <1>1 DEF SlotsFine, SlotsTyped, OneSlotPerEpisode, Started
<1>4. ASSUME NEW why \in {"fault", "rejected"}, Die(batch, why) PROVE RunnersTyped'
    <2>1. \A r \in Runners : [runner[r] EXCEPT !.pc = "dead", !.why = why] \in RunnerType
        BY <1>1, <1>4 DEF RunnersTyped, RunnerType
    <2> QED
        BY <1>1, <1>4, <2>1 DEF Die, RunnersTyped, RunnerType
<1>5. CASE Reject(batch)
    BY <1>1, <1>3, <1>4, <1>5 DEF Reject
<1>6. ASSUME Valid(batch), NEW i \in DOMAIN batch
      PROVE  batch[i] \in Requests /\ (batch[i].t = 0 \/ Continues(batch[i]))
    <2>1. batch[i] \in Requests
        BY ElementOfSeq
    <2> QED
        BY <1>2, <1>6, <2>1 DEF Valid, Requests, Times
<1>7. ASSUME Valid(batch), slots' = Written(batch, [i \in DOMAIN batch |-> Prepared(batch[i])])
      PROVE  SlotsFine' /\ \A i \in DOMAIN batch : slots'[Env(batch[i])] \in Slots
    <2> DEFINE taken == [i \in DOMAIN batch |-> Prepared(batch[i])]
    <2>1. \A i \in DOMAIN batch : /\ taken[i] \in Slots /\ taken[i].ep = batch[i].ep
                                  /\ Len(taken[i].buf) <= Window
        BY <1>1, <1>6, <1>7, TakenIsSlot DEF SlotsFine
    <2> HIDE DEF taken
    <2>2. slots' = Written(batch, taken)
        BY <1>7 DEF taken
    <2> QED
        BY <1>1, <1>7, <2>1, <2>2, WrittenKeepsSlots DEF SlotsFine
<1>8. CASE Serve(batch)
    <2>1. SlotsFine' /\ \A i \in DOMAIN batch : slots'[Env(batch[i])] \in Slots
        BY <1>7, <1>8 DEF Serve
    <2>2. ASSUME NEW r \in Runners, Awaits(r, batch)
          PROVE  [runner[r] EXCEPT !.pc = "answered", !.buf = slots'[EnvOf[r]].buf,
                                   !.prefix = slots'[EnvOf[r]].prefix] \in RunnerType
        <3>1. PICK i \in DOMAIN batch : batch[i].run = r
            BY <2>2 DEF Awaits
        <3>2. slots'[EnvOf[r]] \in Slots
            BY <2>1, <3>1 DEF Env
        <3>3. slots'[EnvOf[r]].buf \in Seq(Frames) /\ slots'[EnvOf[r]].prefix \in Seq(Frames)
            BY <3>2 DEF Slots
        <3> QED
            BY <1>1, <3>3 DEF RunnersTyped, RunnerType
    <2>3. RunnersTyped'
        BY <1>1, <1>8, <2>2 DEF Serve, RunnersTyped, RunnerType
    <2> QED
        BY <1>1, <1>8, <2>1, <2>3 DEF Serve
<1>9. CASE PolicyFails(batch)
    <2>1. SlotsFine' /\ RunnersTyped'
        BY <1>4, <1>7, <1>9 DEF PolicyFails
    <2> QED
        BY <1>1, <1>2, <1>9, <2>1 DEF PolicyFails
<1>10. CASE EncoderFails(batch)
    <2> PICK n \in 0..Len(batch) :
            slots' = Written(batch, [i \in DOMAIN batch |->
                        IF Due(batch[i]) /\ i <= n THEN Encoded(batch[i]) ELSE Readied(batch[i])])
        BY <1>10 DEF EncoderFails
    <2> DEFINE taken == [i \in DOMAIN batch |->
                        IF Due(batch[i]) /\ i <= n THEN Encoded(batch[i]) ELSE Readied(batch[i])]
    <2>1. Valid(batch)
        BY <1>10 DEF EncoderFails
    <2>2. ASSUME NEW i \in DOMAIN batch
          PROVE  taken[i] \in Slots /\ taken[i].ep = batch[i].ep /\ Len(taken[i].buf) <= Window
        BY <1>1, <1>6, <2>1, TakenIsSlot DEF SlotsFine
    <2>3. slots' = Written(batch, taken)
        OBVIOUS
    <2> HIDE DEF taken
    <2>4. SlotsFine'
        BY <1>1, <2>1, <2>2, <2>3, WrittenKeepsSlots DEF SlotsFine
    <2>5. RunnersTyped'
        BY <1>4, <1>10 DEF EncoderFails
    <2> QED
        BY <1>1, <1>2, <1>10, <2>4, <2>5 DEF EncoderFails
<1> QED
    BY <1>5, <1>8, <1>9, <1>10 DEF Offer

LEMMA ServerSteps ==
  ASSUME ServingInv, ServerStep
  PROVE  ServingInv'
<1>1. /\ RunnersTyped /\ SlotsFine /\ queue \in Seq(Requests) /\ reoffer \in Seq(Requests)
      /\ twice \subseteq Envs /\ mishaps \in 0..MaxMishaps
    BY ServingParts
<1>2. ASSUME NEW batch \in Windows, Gathered(batch)
      PROVE  batch \in Seq(Requests) /\ queue' \in Seq(Requests)
    <2>1. PICK n \in 1..Len(queue) : batch = SubSeq(queue, 1, n)
        BY DEF Windows
    <2>2. batch \in Seq(Requests) /\ Len(batch) = n
        BY <1>1, <2>1
    <2>3. SubSeq(queue, n + 1, Len(queue)) \in Seq(Requests)
        BY <1>1, <2>1
    <2> QED
        BY <1>2, <2>2, <2>3 DEF Gathered
<1>3. CASE ServeWindow
    <2> PICK batch \in Windows : /\ Gathered(batch) /\ (Offer(batch) \/ Reject(batch))
                                 /\ UNCHANGED <<reoffer, twice>>
        BY <1>3 DEF ServeWindow
    <2> QED
        BY <1>1, <1>2, OfferStep, ServingPartsNext
<1>4. CASE SplitWindow
    <2> PICK batch \in Windows :
            /\ Gathered(batch) /\ reoffer' = batch
            /\ twice' = {Env(batch[i]) : i \in {j \in DOMAIN batch :
                            \E k \in DOMAIN batch : k /= j /\ Env(batch[k]) = Env(batch[j])}}
            /\ UNCHANGED <<runner, slots, mishaps>>
        BY <1>4 DEF SplitWindow
    <2>1. batch \in Seq(Requests) /\ queue' \in Seq(Requests)
        BY <1>2
    <2>2. ASSUME NEW i \in DOMAIN batch PROVE Env(batch[i]) \in Envs
        <3>0. batch[i] \in Requests
            BY <2>1, ElementOfSeq
        <3>1. batch[i].run \in Runners
            BY <3>0 DEF Requests
        <3> QED
            BY <3>1, ServingAssumption DEF ServingAssumption, Env
    <2>3. twice' \subseteq Envs
        BY <2>2
    <2>4. RunnersTyped' /\ SlotsFine'
        BY <1>1 DEF RunnersTyped, SlotsFine, SlotsTyped, OneSlotPerEpisode, Started
    <2> QED
        BY <1>1, <2>1, <2>3, <2>4, ServingPartsNext
<1>5. CASE OfferOne
    <2>1. Head(reoffer) \in Requests /\ Tail(reoffer) \in Seq(Requests)
        BY <1>1, <1>5, HeadTailProperties DEF OfferOne
    <2>2. <<Head(reoffer)>> \in Seq(Requests)
        BY <2>1
    <2>3. /\ Offer(<<Head(reoffer)>>) \/ Reject(<<Head(reoffer)>>)
          /\ reoffer' = Tail(reoffer) /\ twice' \subseteq twice /\ UNCHANGED queue
        BY <1>5 DEF OfferOne
    <2>4. RunnersTyped' /\ SlotsFine' /\ mishaps' \in 0..MaxMishaps
        BY <2>2, <2>3, OfferStep
    <2> QED
        BY <1>1, <2>1, <2>3, <2>4, ServingPartsNext
<1> QED
    BY <1>3, <1>4, <1>5 DEF ServerStep

LEMMA ServingInvHolds == Spec => []ServingInv
<1>1. ServingInv /\ [Next]_vars => ServingInv'
    <2>1. ServingInv /\ Next => ServingInv'
        BY ClientSteps, ServerSteps DEF Next
    <2>2. ServingInv /\ UNCHANGED vars => ServingInv'
        BY DEF vars, ServingInv, ServingTypeOK, OneSlotPerEpisode, Started
    <2> QED
        BY <2>1, <2>2
<1> QED
    BY <1>1, InitServing, PTL DEF Spec

\* Every variable stays in its type, and no window is longer than its size, for
\* any runners, plans and batches.
THEOREM ServingTypeTheorem == Spec => []ServingTypeOK
<1>1. ServingInv => ServingTypeOK
    BY DEF ServingInv
<1> QED
    BY <1>1, ServingInvHolds, PTL

\* No two slots ever keep one episode, whatever is served in one batch, split,
\* failed or left behind by a client that died (_validate_batch).
THEOREM OneSlotTheorem == Spec => []OneSlotPerEpisode
<1>1. ServingInv => OneSlotPerEpisode
    BY DEF ServingInv
<1> QED
    BY <1>1, ServingInvHolds, PTL
-----------------------------------------------------------------------------
(* Who is refused                                                          *)

\* The requests that no batch has taken yet, in the order they are taken.
Line == reoffer \o queue

Sole(r) == \A o \in Runners \ {r} : EnvOf[o] # EnvOf[r]
FirstLife(r) == runner[r].life = 1 /\ runner[r].pc # "dead"

\* A runner in its first life has at most one request in the line: the one it waits for.
OneAsked(r) ==
    /\ \A i \in 1..Len(Line) : Line[i].run = r => runner[r].pc = "waiting" /\ Line[i] = RequestOf(r)
    /\ \A i, j \in 1..Len(Line) : Line[i].run = r /\ Line[j].run = r => i = j

\* The slot of a runner that shares its environment with nobody follows it.
SlotFollows(r) ==
    LET s == slots[EnvOf[r]]
    IN  /\ runner[r].pc \in {"ready", "waiting"} /\ runner[r].t > 0 =>
               s # NoSlot /\ s.ep = Episode(r) /\ s.last < runner[r].t
        /\ runner[r].pc = "answered" =>
               s # NoSlot /\ s.ep = Episode(r) /\ s.last <= runner[r].t

AloneInv ==
    \A r \in Runners : FirstLife(r) =>
        /\ OneAsked(r)
        /\ Sole(r) => SlotFollows(r) /\ EnvOf[r] \notin twice

\* Every request and every slot has an episode of the plan of a runner of its environment.
PlannedInv ==
    /\ \A i \in 1..Len(Line) : PlansEpisode(Line[i].run, Line[i].ep)
    /\ \A e \in Started : \E o \in Runners : EnvOf[o] = e /\ PlansEpisode(o, slots[e].ep)
    /\ Cardinality(Started) <= MaxEnvs

Conflict(r) ==
    \/ \E o \in Runners \ {r} : EnvOf[o] = EnvOf[r]
    \/ runner[r].life > 1
    \/ /\ runner[r].t = 0
       /\ \/ \E o \in Runners \ {r} : PlansEpisode(o, Episode(r))
          \/ Cardinality({EnvOf[o] : o \in Runners}) > MaxEnvs

Refused(r) == runner[r].why = "rejected" => runner[r].pc = "dead" /\ Conflict(r)

RefusalInv == AloneInv /\ PlannedInv /\ \A r \in Runners : Refused(r)

LEMMA RefusalInit == Init => RefusalInv
<1> SUFFICES ASSUME Init PROVE RefusalInv
    OBVIOUS
<1>1. Line = <<>> /\ Len(Line) = 0
    BY ConcatEmptySeq, EmptySeq DEF Init, Line
<1>2. Started = {} /\ Cardinality(Started) = 0
    BY FS_EmptySet DEF Init, Started
<1>3. \A r \in Runners : runner[r].pc = "ready" /\ runner[r].t = 0 /\ runner[r].why = "none"
    BY DEF Init, Fresh
<1>4. AloneInv
    BY <1>1, <1>3 DEF Init, AloneInv, OneAsked, SlotFollows
<1>5. PlannedInv
    BY <1>1, <1>2, ServingAssumption DEF PlannedInv, ServingAssumption
<1> QED
    BY <1>3, <1>4, <1>5 DEF RefusalInv, Refused

\* A runner that a step leaves alone is refused after it for the same reason.
LEMMA RefusedKept ==
  ASSUME NEW o \in Runners, Refused(o), runner'[o] = runner[o]
  PROVE  Refused(o)'
<1>1. Episode(o)' = Episode(o)
    BY DEF Episode
<1> QED
    BY <1>1 DEF Refused, Conflict, PlansEpisode

LEMMA LineTyped ==
  ASSUME ServingInv
  PROVE  /\ Line \in Seq(Requests) /\ Len(Line) \in Nat
         /\ \A i \in 1..Len(Line) : Line[i] \in Requests /\ Line[i].run \in Runners
<1>1. Line \in Seq(Requests)
    BY ConcatProperties DEF ServingInv, ServingTypeOK, Line
<1>2. ASSUME NEW i \in 1..Len(Line) PROVE Line[i] \in Requests
    BY <1>1, ElementOfSeq
<1> QED
    BY <1>1, <1>2, LenProperties DEF Requests

\* Asking puts a request at the end of the line.
LEMMA AskLine ==
  ASSUME ServingInv, NEW r \in Runners, Ask(r)
  PROVE  Len(Line') = Len(Line) + 1 /\ Line'[Len(Line) + 1] = RequestOf(r)
         /\ \A i \in 1..Len(Line) : Line'[i] = Line[i]
<1>1. reoffer \in Seq(Requests) /\ queue \in Seq(Requests)
    BY DEF ServingInv, ServingTypeOK
<1>2. RequestOf(r) \in Requests
    <2>1. runner[r] \in RunnerType /\ runner[r].at \in 1..Len(Plan[r])
        BY ServingParts, PlanFacts DEF RunnersTyped, RunnerType
    <2>2. Episode(r) \in Episodes
        BY <2>1, PlanFacts, ElementOfSeq DEF Episode
    <2> QED
        BY <2>1, <2>2 DEF RequestOf, Requests, RunnerType
<1>3. Line' = reoffer \o Append(queue, RequestOf(r))
    BY DEF Ask, Line
<1> QED
    BY <1>1, <1>2, <1>3, ConcatProperties, AppendProperties DEF Line

\* Taking the first n requests of the line.
Takes(n) == /\ Len(Line') = Len(Line) - n
            /\ \A i \in 1..(Len(Line) - n) : Line'[i] = Line[i + n]

\* The server takes a batch from the front of the line, serves, fails or
\* refuses it, or sets it aside where it stands in the line.
LEMMA ServerLine ==
  ASSUME ServingInv, ServerStep
  PROVE  \/ /\ SplitWindow /\ Line' = Line
            /\ \A e \in twice' : \E i, k \in 1..Len(Line) :
                  i # k /\ Env(Line[i]) = e /\ Env(Line[k]) = e
         \/ \E n \in 1..Len(Line) :
               \E batch \in Seq(Requests) :
                  /\ Len(batch) = n /\ \A i \in 1..n : batch[i] = Line[i]
                  /\ Takes(n) /\ twice' \subseteq twice
                  /\ \/ Offer(batch)
                     \/ n = 1 /\ Reject(batch) /\ (Env(Line[1]) \in twice \/ ~Valid(batch))
<1>1. reoffer \in Seq(Requests) /\ queue \in Seq(Requests)
    BY DEF ServingInv, ServingTypeOK
<1>2. ASSUME NEW batch \in Windows, Gathered(batch)
      PROVE  /\ batch \in Seq(Requests) /\ Len(batch) \in 1..Len(Line) /\ Line = queue
             /\ \A i \in 1..Len(batch) : batch[i] = Line[i]
             /\ queue' \in Seq(Requests) /\ Len(queue') = Len(queue) - Len(batch)
             /\ \A i \in 1..(Len(queue) - Len(batch)) : queue'[i] = queue[i + Len(batch)]
    <2>1. PICK n \in 1..Len(queue) : batch = SubSeq(queue, 1, n)
        BY DEF Windows
    <2>2. Len(queue) \in Nat
        BY <1>1, LenProperties
    <2>3. /\ batch \in Seq(Requests) /\ Len(batch) = n
          /\ \A i \in 1..n : batch[i] = queue[i]
        BY <1>1, <2>1, <2>2, SubSeqProperties, ElementOfSeq
    <2>4. Line = queue
        BY <1>1, <1>2, ConcatEmptySeq DEF Line, Gathered
    <2>5. queue' = SubSeq(queue, n + 1, Len(queue))
        BY <1>2, <2>3 DEF Gathered
    <2>6. \A i \in (n + 1)..Len(queue) : queue[i] \in Requests
        BY <1>1, <2>2, ElementOfSeq
    <2>7. /\ queue' \in Seq(Requests)
          /\ Len(queue') = IF n + 1 <= Len(queue) THEN Len(queue) - (n + 1) + 1 ELSE 0
          /\ \A i \in 1..(Len(queue) - (n + 1) + 1) : queue'[i] = queue[(n + 1) + i - 1]
        BY <2>2, <2>5, <2>6, SubSeqProperties
    <2>8. Len(queue') = Len(queue) - n
        BY <2>2, <2>7
    <2>9. \A i \in 1..(Len(queue) - n) : queue'[i] = queue[i + n]
        BY <2>2, <2>7
    <2> QED
        BY <2>2, <2>3, <2>4, <2>7, <2>8, <2>9
<1>3. CASE ServeWindow
    <2>1. PICK batch \in Windows :
            /\ Gathered(batch)
            /\ Offer(batch) \/ (Len(batch) = 1 /\ ~Valid(batch) /\ Reject(batch))
            /\ UNCHANGED <<reoffer, twice>>
        BY <1>3 DEF ServeWindow
    <2>2. Line' = queue'
        BY <1>2, <2>1, ConcatEmptySeq DEF Line, Gathered
    <2>3. Takes(Len(batch))
        BY <1>2, <2>1, <2>2 DEF Takes
    <2> QED
        BY <1>2, <2>1, <2>3
<1>4. CASE SplitWindow
    <2>1. PICK batch \in Windows :
            /\ Gathered(batch) /\ reoffer' = batch
            /\ twice' = {Env(batch[i]) : i \in {j \in DOMAIN batch :
                            \E k \in DOMAIN batch : k /= j /\ Env(batch[k]) = Env(batch[j])}}
        BY <1>4 DEF SplitWindow
    <2>2. /\ Line' = batch \o queue' /\ Len(queue) \in Nat
          /\ Line' \in Seq(Requests) /\ Len(Line') = Len(batch) + (Len(queue) - Len(batch))
          /\ \A i \in 1..(Len(batch) + (Len(queue) - Len(batch))) :
                Line'[i] = IF i <= Len(batch) THEN batch[i] ELSE queue'[i - Len(batch)]
        BY <1>1, <1>2, <2>1, ConcatProperties, LenProperties DEF Line
    <2>3. Len(Line') = Len(queue)
        BY <1>2, <2>1, <2>2
    <2>4. ASSUME NEW i \in 1..Len(queue) PROVE Line'[i] = queue[i]
        <3>1. CASE i <= Len(batch)
            BY <1>2, <2>1, <2>2, <3>1
        <3>2. CASE ~(i <= Len(batch))
            <4>1. i - Len(batch) \in 1..(Len(queue) - Len(batch)) /\ (i - Len(batch)) + Len(batch) = i
                BY <1>2, <2>1, <2>2, <3>2
            <4>2. queue'[i - Len(batch)] = queue[(i - Len(batch)) + Len(batch)]
                BY <1>2, <2>1, <4>1
            <4>3. Line'[i] = queue'[i - Len(batch)]
                BY <1>2, <2>1, <2>2, <3>2
            <4> QED
                BY <4>1, <4>2, <4>3
        <3> QED
            BY <3>1, <3>2
    <2>5. Line' = Line
        BY <1>1, <1>2, <2>1, <2>2, <2>3, <2>4, SeqEqual
    <2>6. DOMAIN batch = 1..Len(batch) /\ 1..Len(batch) \subseteq 1..Len(Line)
        BY <1>2, <2>1, <2>2, LenProperties
    <2>7. ASSUME NEW e \in twice'
          PROVE  \E i, k \in 1..Len(Line) : i # k /\ Env(Line[i]) = e /\ Env(Line[k]) = e
        <3>1. PICK i \in 1..Len(batch), k \in 1..Len(batch) :
                i # k /\ Env(batch[i]) = e /\ Env(batch[k]) = e
            BY <2>1, <2>6, <2>7
        <3> QED
            BY <1>2, <2>1, <2>6, <3>1
    <2> QED
        BY <1>4, <2>5, <2>7
<1>5. CASE OfferOne
    <2> DEFINE single == <<Head(reoffer)>>
    <2>1. /\ reoffer # <<>> /\ reoffer' = Tail(reoffer) /\ UNCHANGED queue /\ twice' \subseteq twice
          /\ \/ Offer(single)
             \/ Reject(single) /\ (Env(Head(reoffer)) \in twice \/ ~Valid(single))
        BY <1>5 DEF OfferOne
    <2>2. /\ Head(reoffer) \in Requests /\ Head(reoffer) = reoffer[1] /\ Tail(reoffer) \in Seq(Requests)
          /\ Len(Tail(reoffer)) = Len(reoffer) - 1 /\ Len(reoffer) \in Nat \ {0} /\ Len(queue) \in Nat
          /\ \A i \in 1..Len(Tail(reoffer)) : Tail(reoffer)[i] = reoffer[i + 1]
        BY <1>1, <2>1, HeadTailProperties, EmptySeq, LenProperties
    <2>3. single \in Seq(Requests) /\ Len(single) = 1 /\ single[1] = Head(reoffer)
        BY <2>2
    <2>4. /\ Len(Line) = Len(reoffer) + Len(queue)
          /\ \A i \in 1..Len(reoffer) + Len(queue) :
                Line[i] = IF i <= Len(reoffer) THEN reoffer[i] ELSE queue[i - Len(reoffer)]
        BY <1>1, ConcatProperties DEF Line
    <2>5. Line' = Tail(reoffer) \o queue
        BY <2>1 DEF Line
    <2>6. /\ Len(Line') = Len(Tail(reoffer)) + Len(queue)
          /\ \A i \in 1..Len(Tail(reoffer)) + Len(queue) :
                Line'[i] = IF i <= Len(Tail(reoffer)) THEN Tail(reoffer)[i]
                           ELSE queue[i - Len(Tail(reoffer))]
        BY <1>1, <2>2, <2>5, ConcatProperties
    <2>7. Len(Line') = Len(Line) - 1 /\ Len(Line) \in Nat \ {0}
        BY <2>2, <2>4, <2>6
    <2>8. ASSUME NEW i \in 1..(Len(Line) - 1) PROVE Line'[i] = Line[i + 1]
        <3>1. CASE i <= Len(Tail(reoffer))
            BY <2>2, <2>4, <2>6, <3>1
        <3>2. CASE ~(i <= Len(Tail(reoffer)))
            <4>1. i - Len(Tail(reoffer)) = (i + 1) - Len(reoffer)
                BY <2>2
            <4>2. Line'[i] = queue[i - Len(Tail(reoffer))]
                BY <2>2, <2>4, <2>6, <3>2
            <4>3. Line[i + 1] = queue[(i + 1) - Len(reoffer)]
                BY <2>2, <2>4, <3>2
            <4> QED
                BY <4>1, <4>2, <4>3
        <3> QED
            BY <3>1, <3>2
    <2>9. Takes(1)
        BY <2>7, <2>8 DEF Takes
    <2>10. Line[1] = Head(reoffer)
        BY <2>2, <2>4
    <2> HIDE DEF single
    <2>11. \A i \in 1..1 : single[i] = Line[i]
        BY <2>3, <2>10
    <2> QED
        <3>1. 1 \in 1..Len(Line)
            BY <2>7
        <3>2. Offer(single) \/ (1 = 1 /\ Reject(single) /\ (Env(Line[1]) \in twice \/ ~Valid(single)))
            BY <2>1, <2>10
        <3> QED
            BY <2>1, <2>3, <2>9, <2>11, <3>1, <3>2
<1> QED
    BY <1>3, <1>4, <1>5 DEF ServerStep

\* What a served or failed batch leaves in the slots.
LEMMA OfferSlots ==
  ASSUME ServingInv, NEW batch \in Seq(Requests), Offer(batch)
  PROVE  /\ Valid(batch)
         /\ \A e \in Envs : (\A i \in 1..Len(batch) : Env(batch[i]) # e) => slots'[e] = slots[e]
         /\ \A i \in 1..Len(batch) : slots'[Env(batch[i])].ep = batch[i].ep
         /\ \A e \in Envs : slots'[e] # NoSlot => e \in Started \union Resets(batch)
         /\ \/ Die(batch, "fault")
            \/ /\ Serve(batch)
               /\ \A i \in 1..Len(batch) : /\ slots'[Env(batch[i])] # NoSlot
                                           /\ slots'[Env(batch[i])].last = batch[i].t
<1>1. /\ Valid(batch) /\ DOMAIN batch = 1..Len(batch) /\ SlotsFine
      /\ \A i \in DOMAIN batch : batch[i] \in Requests
    BY ServingParts, LenProperties, ElementOfSeq DEF Offer, Serve, EncoderFails, PolicyFails
<1>2. ASSUME NEW i \in DOMAIN batch
      PROVE  Env(batch[i]) \in Envs /\ (batch[i].t = 0 \/ Continues(batch[i]))
    BY <1>1, ServingAssumption DEF ServingAssumption, Valid, Env, Requests, Times
<1>3. ASSUME NEW taken, slots' = Written(batch, taken)
      PROVE  /\ \A i \in DOMAIN batch : slots'[Env(batch[i])] = taken[i]
             /\ \A e \in Envs : (\A i \in DOMAIN batch : Env(batch[i]) # e) => slots'[e] = slots[e]
    <2>1. ASSUME NEW i \in DOMAIN batch PROVE slots'[Env(batch[i])] = taken[i]
        <3>1. (CHOOSE j \in DOMAIN batch : Env(batch[j]) = Env(batch[i])) = i
            BY <1>1 DEF Valid, Distinct
        <3> QED
            BY <1>2, <1>3, <3>1 DEF Written
    <2> QED
        BY <1>3, <2>1 DEF Written
<1>4. \A i \in DOMAIN batch : /\ Readied(batch[i]).ep = batch[i].ep /\ Encoded(batch[i]).ep = batch[i].ep
                              /\ Prepared(batch[i]).ep = batch[i].ep /\ Prepared(batch[i]) \in Slots
    BY <1>1, <1>2, TakenIsSlot DEF SlotsFine
<1>5. ASSUME NEW e \in Envs, slots'[e] # NoSlot,
             \A d \in Envs : (\A i \in DOMAIN batch : Env(batch[i]) # d) => slots'[d] = slots[d]
      PROVE  e \in Started \union Resets(batch)
    BY <1>2, <1>5 DEF Started, Resets, Continues
<1>6. CASE Serve(batch)
    <2> DEFINE taken == [i \in DOMAIN batch |-> Prepared(batch[i])]
    <2>1. slots' = Written(batch, taken)
        BY <1>6 DEF Serve
    <2>2. /\ \A i \in DOMAIN batch : slots'[Env(batch[i])] = Prepared(batch[i])
          /\ \A e \in Envs : (\A i \in DOMAIN batch : Env(batch[i]) # e) => slots'[e] = slots[e]
        BY <1>3, <2>1
    <2>3. \A i \in DOMAIN batch : Prepared(batch[i]).last = batch[i].t
        <3> TAKE i \in DOMAIN batch
        <3>1. Encoded(batch[i]) \in Slots /\ Readied(batch[i]) \in Slots
            BY <1>1, <1>2, TakenIsSlot DEF SlotsFine
        <3> QED
            BY <3>1 DEF Prepared, Slots
    <2> HIDE DEF taken
    <2> QED
        BY <1>1, <1>4, <1>5, <1>6, <2>2, <2>3, NoSlotAssumption DEF NoSlotAssumption
<1>7. CASE PolicyFails(batch)
    <2> DEFINE taken == [i \in DOMAIN batch |-> Prepared(batch[i])]
    <2>1. slots' = Written(batch, taken) /\ Die(batch, "fault")
        BY <1>7 DEF PolicyFails
    <2>2. /\ \A i \in DOMAIN batch : slots'[Env(batch[i])] = Prepared(batch[i])
          /\ \A e \in Envs : (\A i \in DOMAIN batch : Env(batch[i]) # e) => slots'[e] = slots[e]
        BY <1>3, <2>1
    <2> HIDE DEF taken
    <2> QED
        BY <1>1, <1>4, <1>5, <2>1, <2>2
<1>8. CASE EncoderFails(batch)
    <2>1. PICK n \in 0..Len(batch) :
            slots' = Written(batch, [i \in DOMAIN batch |->
                        IF Due(batch[i]) /\ i <= n THEN Encoded(batch[i]) ELSE Readied(batch[i])])
        BY <1>8 DEF EncoderFails
    <2> DEFINE taken == [i \in DOMAIN batch |->
                        IF Due(batch[i]) /\ i <= n THEN Encoded(batch[i]) ELSE Readied(batch[i])]
    <2>2. \A i \in DOMAIN batch : taken[i].ep = batch[i].ep
        BY <1>4
    <2>3. slots' = Written(batch, taken) /\ Die(batch, "fault")
        BY <1>8, <2>1 DEF EncoderFails
    <2> HIDE DEF taken
    <2>4. /\ \A i \in DOMAIN batch : slots'[Env(batch[i])].ep = batch[i].ep
          /\ \A e \in Envs : (\A i \in DOMAIN batch : Env(batch[i]) # e) => slots'[e] = slots[e]
        BY <1>3, <2>2, <2>3
    <2> QED
        BY <1>1, <1>5, <2>3, <2>4
<1> QED
    BY <1>6, <1>7, <1>8 DEF Offer

\* What becomes of the clients of a batch: the ones that wait for it are
\* answered from their slots, or die; nobody else is touched.
LEMMA BatchRunners ==
  ASSUME ServingInv, NEW batch \in Seq(Requests),
         Offer(batch) \/ Reject(batch), NEW o \in Runners
  PROVE  /\ ~Awaits(o, batch) => runner'[o] = runner[o]
         /\ Awaits(o, batch) =>
               /\ runner'[o].life = runner[o].life /\ runner'[o].t = runner[o].t
               /\ runner'[o].at = runner[o].at
               /\ \/ runner'[o].pc = "dead"
                  \/ /\ Serve(batch) /\ runner'[o].pc = "answered" /\ runner'[o].why = runner[o].why
                     /\ runner'[o].buf = slots'[EnvOf[o]].buf
                     /\ runner'[o].prefix = slots'[EnvOf[o]].prefix
<1>1. runner[o] \in RunnerType
    BY ServingParts DEF RunnersTyped
<1>2. CASE Serve(batch)
    BY <1>1, <1>2 DEF Serve, RunnerType
<1>3. ASSUME NEW why, Die(batch, why)
      PROVE  /\ ~Awaits(o, batch) => runner'[o] = runner[o]
             /\ Awaits(o, batch) =>
                   /\ runner'[o].life = runner[o].life /\ runner'[o].t = runner[o].t
                   /\ runner'[o].at = runner[o].at /\ runner'[o].pc = "dead"
    BY <1>1, <1>3 DEF Die, RunnerType
<1>4. Serve(batch) \/ Die(batch, "fault") \/ Die(batch, "rejected")
    BY DEF Offer, EncoderFails, PolicyFails, Reject
<1> QED
    BY <1>2, <1>3, <1>4

LEMMA ClientRefusal ==
  ASSUME ServingInv, RefusalInv, NEW r \in Runners,
         Ask(r) \/ NextRequest(r) \/ NextEpisode(r) \/ Finish(r) \/ Crash(r) \/ Restart(r)
  PROVE  RefusalInv'
<1>1. /\ AloneInv /\ PlannedInv /\ \A o \in Runners : Refused(o)
      /\ runner \in [Runners -> RunnerType] /\ Len(Line) \in Nat
      /\ \A i \in 1..Len(Line) : Line[i].run \in Runners
    BY ServingParts, LineTyped DEF RefusalInv, RunnersTyped
<1>2. /\ UNCHANGED <<slots, twice>> /\ Started' = Started
      /\ \A o \in Runners \ {r} : runner'[o] = runner[o]
      /\ \A o \in Runners \ {r} : RequestOf(o)' = RequestOf(o) /\ Episode(o)' = Episode(o)
    BY <1>1 DEF Ask, NextRequest, NextEpisode, Finish, Acts, Crash, Restart, Started, RequestOf, Episode
<1>3. CASE Ask(r)
    <2>1. /\ runner[r].pc = "ready" /\ runner'[r] = [runner[r] EXCEPT !.pc = "waiting"]
        BY <1>1, <1>3 DEF Ask
    <2>2. /\ runner'[r].pc = "waiting" /\ runner'[r].life = runner[r].life /\ runner'[r].t = runner[r].t
          /\ runner'[r].at = runner[r].at /\ runner'[r].why = runner[r].why
        BY <1>1, <2>1 DEF RunnerType
    <2>3. RequestOf(r)' = RequestOf(r) /\ Episode(r)' = Episode(r)
        BY <2>2 DEF RequestOf, Episode
    <2>4. /\ Len(Line') = Len(Line) + 1 /\ Line'[Len(Line) + 1] = RequestOf(r)
          /\ \A i \in 1..Len(Line) : Line'[i] = Line[i]
        BY <1>3, AskLine
    <2>5. RequestOf(r).run = r /\ RequestOf(r).ep = Episode(r) /\ PlansEpisode(r, Episode(r))
        <3>1. runner[r].at \in 1..Len(Plan[r]) /\ DOMAIN Plan[r] = 1..Len(Plan[r])
            BY ServingParts, PlanFacts, LenProperties DEF RunnersTyped, RunnerType
        <3> QED
            BY <3>1 DEF RequestOf, PlansEpisode, Episode
    <2>6. \A o \in Runners : FirstLife(o)' => FirstLife(o)
        BY <1>2, <2>1, <2>2 DEF FirstLife
    <2>7. ASSUME NEW o \in Runners, FirstLife(o)' PROVE OneAsked(o)'
        <3>1. OneAsked(o)
            BY <1>1, <2>6, <2>7 DEF AloneInv
        <3>2. CASE o = r
            <4>1. \A i \in 1..Len(Line) : Line[i].run # r
                BY <2>1, <3>1, <3>2 DEF OneAsked
            <4> QED
                BY <1>1, <2>2, <2>3, <2>4, <3>2, <4>1 DEF OneAsked
        <3>3. CASE o # r
            <4>1. Line'[Len(Line) + 1].run # o
                BY <2>4, <2>5, <3>3
            <4> QED
                BY <1>1, <1>2, <2>4, <3>1, <3>3, <4>1 DEF OneAsked
        <3> QED
            BY <3>2, <3>3
    <2>8. ASSUME NEW o \in Runners, FirstLife(o)', Sole(o) PROVE SlotFollows(o)' /\ EnvOf[o] \notin twice'
        <3>1. SlotFollows(o) /\ EnvOf[o] \notin twice
            BY <1>1, <2>6, <2>8 DEF AloneInv
        <3>2. CASE o = r
            BY <1>2, <2>1, <2>2, <2>3, <3>1, <3>2 DEF SlotFollows
        <3>3. CASE o # r
            BY <1>2, <3>1, <3>3 DEF SlotFollows
        <3> QED
            BY <3>2, <3>3
    <2>9. AloneInv'
        BY <2>7, <2>8 DEF AloneInv, Sole
    <2>10. PlannedInv'
        <3>1. \A i \in 1..Len(Line') : PlansEpisode(Line'[i].run, Line'[i].ep)
            BY <1>1, <2>4, <2>5 DEF PlannedInv
        <3> QED
            BY <1>1, <1>2, <3>1 DEF PlannedInv, PlansEpisode
    <2>11. ASSUME NEW o \in Runners PROVE Refused(o)'
        <3>1. runner'[r].why # "rejected"
            BY <1>1, <2>1, <2>2 DEF Refused
        <3>2. Refused(r)'
            BY <3>1 DEF Refused
        <3> QED
            BY <1>1, <1>2, <3>2, RefusedKept
    <2> QED
        BY <2>9, <2>10, <2>11 DEF RefusalInv
<1>4. ASSUME Line' = Line,
             FirstLife(r)' => OneAsked(r)' /\ (Sole(r) => SlotFollows(r)' /\ EnvOf[r] \notin twice),
             runner'[r].why # "rejected"
      PROVE  RefusalInv'
    <2>1. ASSUME NEW o \in Runners \ {r}, FirstLife(o)'
          PROVE  OneAsked(o)' /\ (Sole(o) => SlotFollows(o)' /\ EnvOf[o] \notin twice')
        <3>1. FirstLife(o) /\ OneAsked(o) /\ (Sole(o) => SlotFollows(o) /\ EnvOf[o] \notin twice)
            BY <1>1, <1>2, <2>1 DEF AloneInv, FirstLife
        <3> QED
            BY <1>2, <1>4, <3>1 DEF OneAsked, SlotFollows
    <2>2. AloneInv'
        BY <1>2, <1>4, <2>1 DEF AloneInv, Sole
    <2>3. PlannedInv'
        BY <1>1, <1>2, <1>4 DEF PlannedInv, PlansEpisode
    <2>4. ASSUME NEW o \in Runners PROVE Refused(o)'
        <3>1. Refused(r)'
            BY <1>4 DEF Refused
        <3> QED
            BY <1>1, <1>2, <3>1, RefusedKept
    <2> QED
        BY <2>2, <2>3, <2>4 DEF RefusalInv
<1>5. CASE Crash(r)
    <2>1. runner'[r].pc = "dead" /\ runner'[r].why = "killed"
        BY <1>1, <1>5 DEF Crash, RunnerType
    <2>2. Line' = Line
        BY <1>5 DEF Crash, Line
    <2> QED
        BY <1>4, <2>1, <2>2 DEF FirstLife
<1>7. CASE Restart(r)
    <2>1. runner'[r] = Fresh(runner[r].life + 1) /\ runner[r].life \in 1..MaxLives
        BY <1>1, <1>7 DEF Restart, RunnerType
    <2>2. runner'[r].life # 1 /\ runner'[r].why = "none"
        BY <2>1, PlanFacts DEF Fresh
    <2>3. Line' = Line
        BY <1>7 DEF Restart, Line
    <2> QED
        BY <1>4, <2>2, <2>3 DEF FirstLife
<1>8. ASSUME NEW pc \in {"ready", "done"}, NEW at, NEW t, Acts(r, pc, at, t),
             \/ pc = "done" \/ t = 0
             \/ at = runner[r].at /\ t = runner[r].t + 1
      PROVE  RefusalInv'
    <2>1. runner[r].pc = "answered" /\ Line' = Line
        BY <1>8 DEF Acts, Line
    <2>2. /\ runner'[r].pc = pc /\ runner'[r].life = runner[r].life /\ runner'[r].at = at
          /\ runner'[r].t = t /\ runner'[r].why = runner[r].why
        BY <1>1, <1>8 DEF Acts, RunnerType
    <2>3. runner'[r].why # "rejected"
        BY <1>1, <2>1, <2>2 DEF Refused
    <2>4. ASSUME FirstLife(r)' PROVE OneAsked(r)' /\ (Sole(r) => SlotFollows(r)' /\ EnvOf[r] \notin twice)
        <3>1. FirstLife(r) /\ OneAsked(r) /\ (Sole(r) => SlotFollows(r) /\ EnvOf[r] \notin twice)
            BY <1>1, <2>1, <2>2, <2>4 DEF AloneInv, FirstLife
        <3>2. \A i \in 1..Len(Line) : Line[i].run # r
            BY <2>1, <3>1 DEF OneAsked
        <3>3. OneAsked(r)'
            BY <2>1, <3>2 DEF OneAsked
        <3>4. ASSUME Sole(r) PROVE SlotFollows(r)'
            <4>1. /\ slots[EnvOf[r]] # NoSlot /\ slots[EnvOf[r]].ep = Episode(r)
                  /\ slots[EnvOf[r]].last <= runner[r].t
                BY <2>1, <3>1, <3>4 DEF SlotFollows
            <4>2. slots[EnvOf[r]].last \in -1..Horizon /\ runner[r].t \in 0..Horizon /\ Horizon \in Nat
                BY <1>1, <4>1, ServingParts, PlanFacts DEF SlotsFine, SlotsTyped, Slots, RunnerType, Times
            <4>3. CASE pc = "done"
                BY <2>2, <4>3 DEF SlotFollows
            <4>4. CASE pc = "ready" /\ t = 0
                BY <2>2, <4>4 DEF SlotFollows
            <4>5. CASE pc = "ready" /\ at = runner[r].at /\ t = runner[r].t + 1
                <5>1. Episode(r)' = Episode(r)
                    BY <2>2, <4>5 DEF Episode
                <5> QED
                    BY <1>2, <2>2, <4>1, <4>2, <4>5, <5>1 DEF SlotFollows
            <4> QED
                BY <1>8, <4>3, <4>4, <4>5
        <3> QED
            BY <3>1, <3>3, <3>4
    <2> QED
        BY <1>4, <2>1, <2>3, <2>4
<1>9. CASE NextRequest(r) \/ NextEpisode(r) \/ Finish(r)
    BY <1>8, <1>9 DEF NextRequest, NextEpisode, Finish
<1> QED
    BY <1>3, <1>5, <1>7, <1>9

\* A runner in its first life that shares its environment with nobody is in a
\* batch only with the request it waits for.
LEMMA InBatch ==
  ASSUME ServingInv, RefusalInv, NEW r \in Runners, FirstLife(r),
         NEW n \in 1..Len(Line), NEW batch \in Seq(Requests), Len(batch) = n,
         \A i \in 1..n : batch[i] = Line[i]
  PROVE  /\ Awaits(r, batch) => \E i \in 1..n : batch[i] = RequestOf(r) /\ Line[i].run = r
         /\ \A i \in 1..n : Sole(r) /\ Env(batch[i]) = EnvOf[r] => Awaits(r, batch)
<1>1. /\ OneAsked(r) /\ DOMAIN batch = 1..n /\ 1..n \subseteq 1..Len(Line)
      /\ \A i \in 1..Len(Line) : Line[i].run \in Runners
    BY LineTyped, LenProperties DEF RefusalInv, AloneInv
<1>2. \A i \in 1..n : batch[i].run = r => runner[r].pc = "waiting" /\ batch[i] = RequestOf(r)
    BY <1>1 DEF OneAsked
<1>3. RequestOf(r).life = runner[r].life
    BY DEF RequestOf
<1>4. \A i \in 1..n : Sole(r) /\ Env(batch[i]) = EnvOf[r] => batch[i].run = r
    BY <1>1 DEF Sole, Env
<1> QED
    BY <1>1, <1>2, <1>3, <1>4 DEF Awaits

\* A single request of a runner in its first life is refused for a conflict only.
LEMMA RefusalIsConflict ==
  ASSUME ServingInv, RefusalInv, NEW r \in Runners, Len(Line) # 0,
         NEW batch \in Seq(Requests), Len(batch) = 1, batch[1] = Line[1],
         Awaits(r, batch), Env(Line[1]) \in twice \/ ~Valid(batch)
  PROVE  Conflict(r)
<1>1. /\ DOMAIN batch = {1} /\ 1 \in 1..Len(Line) /\ Len(Line) \in Nat
      /\ runner[r].pc = "waiting" /\ runner[r].life \in Nat \ {0} /\ runner[r].t \in Nat
      /\ batch[1].run = r
    <2>1. runner[r] \in RunnerType
        BY ServingParts DEF RunnersTyped
    <2> QED
        BY <2>1, LineTyped, LenProperties, PlanFacts DEF RunnerType, Times, Awaits
<1> SUFFICES ASSUME Sole(r), runner[r].life = 1 PROVE Conflict(r)
    BY <1>1 DEF Conflict, Sole
<1>2. FirstLife(r) /\ OneAsked(r) /\ SlotFollows(r) /\ EnvOf[r] \notin twice
    BY <1>1 DEF FirstLife, RefusalInv, AloneInv
<1>3. batch[1] = RequestOf(r)
    BY <1>1, <1>2 DEF OneAsked
<1>4. /\ Env(batch[1]) = EnvOf[r] /\ batch[1].t = runner[r].t /\ batch[1].ep = Episode(r)
      /\ EnvOf[r] \in Envs
    BY <1>3, PlanFacts DEF Env, RequestOf
<1>5. ~Valid(batch)
    BY <1>1, <1>2, <1>4
<1>6. /\ MaxEnvs \in Nat /\ IsFiniteSet(Envs) /\ Started \subseteq Envs
      /\ Cardinality(Started) <= MaxEnvs
    BY ServingAssumption DEF ServingAssumption, Started, RefusalInv, PlannedInv
<1>7. CASE runner[r].t > 0
    <2>1. Resets(batch) = {}
        BY <1>1, <1>4, <1>7 DEF Resets
    <2>2. Distinct(batch) /\ SlotsLeft(batch) /\ EpisodesFree(batch)
        BY <1>1, <1>4, <1>6, <1>7, <2>1 DEF Distinct, SlotsLeft, EpisodesFree
    <2>3. Continues(batch[1])
        BY <1>1, <1>2, <1>4, <1>7 DEF SlotFollows, Continues
    <2> QED
        BY <1>1, <1>5, <2>2, <2>3 DEF Valid
<1>8. CASE runner[r].t = 0
    <2>1. Resets(batch) = {EnvOf[r]}
        BY <1>1, <1>4, <1>8 DEF Resets
    <2>2. ~SlotsLeft(batch) \/ ~EpisodesFree(batch)
        BY <1>1, <1>4, <1>5, <1>8 DEF Valid, Distinct
    <2>3. CASE ~SlotsLeft(batch)
        <3> DEFINE used == {EnvOf[o] : o \in Runners}
        <3>1. used \subseteq Envs /\ Started \union Resets(batch) \subseteq used
            BY <2>1, PlanFacts DEF RefusalInv, PlannedInv
        <3>2. IsFiniteSet(used) /\ Cardinality(Started \union Resets(batch)) <= Cardinality(used)
            BY <1>6, <3>1, FS_Subset
        <3>3. Cardinality(used) \in Nat /\ Cardinality(Started \union Resets(batch)) \in Nat
            BY <1>6, <3>1, <3>2, FS_Subset, FS_CardinalityType
        <3>4. Cardinality(used) > MaxEnvs
            BY <1>6, <2>3, <3>2, <3>3 DEF SlotsLeft
        <3> QED
            BY <1>8, <3>4 DEF Conflict
    <2>4. CASE ~EpisodesFree(batch)
        <3>1. PICK e \in Started \ {EnvOf[r]} : slots[e].ep = Episode(r)
            BY <1>1, <1>4, <2>1, <2>4 DEF EpisodesFree
        <3>2. PICK o \in Runners : EnvOf[o] = e /\ PlansEpisode(o, slots[e].ep)
            BY <3>1 DEF RefusalInv, PlannedInv
        <3> QED
            BY <1>8, <3>1, <3>2 DEF Conflict
    <2> QED
        BY <2>2, <2>3, <2>4
<1> QED
    BY <1>1, <1>7, <1>8

LEMMA ServerRefusal ==
  ASSUME ServingInv, RefusalInv, ServerStep
  PROVE  RefusalInv'
<1>1. /\ AloneInv /\ PlannedInv /\ \A o \in Runners : Refused(o)
      /\ runner \in [Runners -> RunnerType] /\ Line \in Seq(Requests) /\ Len(Line) \in Nat
      /\ \A i \in 1..Len(Line) : Line[i].run \in Runners
    BY ServingParts, LineTyped DEF RefusalInv, RunnersTyped
<1>2. ASSUME SplitWindow, Line' = Line,
             \A e \in twice' : \E i, k \in 1..Len(Line) : i # k /\ Env(Line[i]) = e /\ Env(Line[k]) = e
      PROVE  RefusalInv'
    <2>1. UNCHANGED <<runner, slots>> /\ Started' = Started
        BY <1>2 DEF SplitWindow, Started
    <2>2. ASSUME NEW o \in Runners, FirstLife(o)'
          PROVE  OneAsked(o)' /\ (Sole(o) => SlotFollows(o)' /\ EnvOf[o] \notin twice')
        <3>1. OneAsked(o) /\ (Sole(o) => SlotFollows(o))
            BY <1>1, <2>1, <2>2 DEF AloneInv, FirstLife
        <3>2. OneAsked(o)' /\ (Sole(o) => SlotFollows(o)')
            BY <1>2, <2>1, <3>1 DEF OneAsked, SlotFollows, RequestOf, Episode
        <3>3. ASSUME Sole(o), EnvOf[o] \in twice' PROVE FALSE
            <4>1. PICK i \in 1..Len(Line), k \in 1..Len(Line) :
                    i # k /\ Env(Line[i]) = EnvOf[o] /\ Env(Line[k]) = EnvOf[o]
                BY <1>2, <3>3
            <4>2. Line[i].run = o /\ Line[k].run = o
                BY <1>1, <3>3, <4>1 DEF Sole, Env
            <4> QED
                BY <3>1, <4>1, <4>2 DEF OneAsked
        <3> QED
            BY <3>2, <3>3
    <2>3. AloneInv'
        BY <2>2 DEF AloneInv, Sole
    <2>4. PlannedInv'
        BY <1>1, <1>2, <2>1 DEF PlannedInv, PlansEpisode
    <2>5. \A o \in Runners : Refused(o)'
        BY <1>1, <2>1, RefusedKept
    <2> QED
        BY <2>3, <2>4, <2>5 DEF RefusalInv
<1>3. ASSUME NEW n \in 1..Len(Line), NEW batch \in Seq(Requests),
             Len(batch) = n, \A i \in 1..n : batch[i] = Line[i],
             Takes(n), twice' \subseteq twice,
             \/ Offer(batch)
             \/ n = 1 /\ Reject(batch) /\ (Env(Line[1]) \in twice \/ ~Valid(batch))
      PROVE  RefusalInv'
    <2>1. /\ DOMAIN batch = 1..n /\ 1..n \subseteq 1..Len(Line) /\ n \in Nat \ {0}
          /\ \A i \in 1..Len(Line') : i + n \in 1..Len(Line) /\ Line'[i] = Line[i + n]
        BY <1>1, <1>3, LenProperties DEF Takes
    <2>2. /\ \A o \in Runners : ~Awaits(o, batch) => runner'[o] = runner[o]
          /\ \A o \in Runners : Awaits(o, batch) /\ runner'[o].pc # "dead" =>
                /\ Serve(batch) /\ runner'[o].pc = "answered" /\ runner'[o].life = runner[o].life
                /\ runner'[o].t = runner[o].t /\ runner'[o].at = runner[o].at
                /\ runner'[o].why = runner[o].why /\ runner[o].pc = "waiting"
        BY <1>3, BatchRunners DEF Awaits
    <2>3. ASSUME NEW o \in Runners, FirstLife(o)'
          PROVE  OneAsked(o)' /\ (Sole(o) => SlotFollows(o)' /\ EnvOf[o] \notin twice')
        <3>1. FirstLife(o)
            BY <2>2, <2>3 DEF FirstLife
        <3>2. OneAsked(o) /\ (Sole(o) => SlotFollows(o) /\ EnvOf[o] \notin twice)
            BY <1>1, <3>1 DEF AloneInv
        <3>3. /\ Awaits(o, batch) => \E i \in 1..n : batch[i] = RequestOf(o) /\ Line[i].run = o
              /\ \A i \in 1..n : Sole(o) /\ Env(batch[i]) = EnvOf[o] => Awaits(o, batch)
            BY <1>3, <3>1, InBatch
        <3>4. CASE ~Awaits(o, batch)
            <4>1. runner'[o] = runner[o] /\ RequestOf(o)' = RequestOf(o) /\ Episode(o)' = Episode(o)
                BY <2>2, <3>4 DEF RequestOf, Episode
            <4>2. OneAsked(o)'
                <5>1. ASSUME NEW i \in 1..Len(Line'), Line'[i].run = o
                      PROVE  runner'[o].pc = "waiting" /\ Line'[i] = RequestOf(o)'
                    BY <2>1, <3>2, <4>1, <5>1 DEF OneAsked
                <5>2. ASSUME NEW i \in 1..Len(Line'), NEW j \in 1..Len(Line'),
                             Line'[i].run = o, Line'[j].run = o
                      PROVE  i = j
                    <6>1. i + n = j + n
                        BY <2>1, <3>2, <5>2 DEF OneAsked
                    <6> QED
                        BY <2>1, <6>1
                <5> QED
                    BY <5>1, <5>2 DEF OneAsked
            <4>3. ASSUME Sole(o) PROVE slots'[EnvOf[o]] = slots[EnvOf[o]]
                <5>1. \A i \in 1..Len(batch) : Env(batch[i]) # EnvOf[o]
                    BY <1>3, <3>3, <3>4, <4>3
                <5>2. EnvOf[o] \in Envs
                    BY PlanFacts
                <5> QED
                    BY <1>3, <5>1, <5>2, OfferSlots DEF Reject
            <4>4. Sole(o) => SlotFollows(o)'
                BY <3>2, <4>1, <4>3 DEF SlotFollows
            <4> QED
                BY <1>3, <3>2, <4>2, <4>4
        <3>5. CASE Awaits(o, batch)
            <4>1. /\ Serve(batch) /\ runner'[o].pc = "answered" /\ runner'[o].t = runner[o].t
                  /\ Episode(o)' = Episode(o)
                BY <2>2, <2>3, <3>5 DEF FirstLife, Episode
            <4>2. PICK i \in 1..n : batch[i] = RequestOf(o) /\ Line[i].run = o
                BY <3>3, <3>5
            <4>3. ASSUME NEW j \in 1..Len(Line') PROVE Line'[j].run # o
                <5>1. j + n # i
                    BY <2>1, <4>2
                <5> QED
                    BY <2>1, <3>2, <4>2, <5>1 DEF OneAsked
            <4>4. OneAsked(o)'
                BY <4>3 DEF OneAsked
            <4>5. /\ Env(batch[i]) = EnvOf[o] /\ batch[i].t = runner[o].t /\ batch[i].ep = Episode(o)
                BY <4>2 DEF Env, RequestOf
            <4>6. ~Die(batch, "fault")
                BY <1>1, <3>5, <4>1 DEF Die, RunnerType
            <4>7. /\ slots'[Env(batch[i])] # NoSlot /\ slots'[Env(batch[i])].last = batch[i].t
                  /\ slots'[Env(batch[i])].ep = batch[i].ep
                BY <1>3, <4>1, <4>2, <4>6, OfferSlots DEF Offer
            <4>8. runner[o].t \in Nat
                BY <1>1, PlanFacts DEF RunnerType, Times
            <4>9. SlotFollows(o)'
                BY <4>1, <4>5, <4>7, <4>8 DEF SlotFollows
            <4> QED
                BY <1>3, <3>2, <4>4, <4>9
        <3> QED
            BY <3>4, <3>5
    <2>4. AloneInv'
        BY <2>3 DEF AloneInv, Sole
    <2>5. \A i \in 1..Len(Line') : PlansEpisode(Line'[i].run, Line'[i].ep)
        BY <1>1, <2>1 DEF PlannedInv
    <2>6. ASSUME Reject(batch) PROVE PlannedInv'
        <3>1. Started' = Started /\ slots' = slots
            BY <2>6 DEF Reject, Started
        <3> QED
            BY <1>1, <2>5, <3>1 DEF PlannedInv, PlansEpisode
    <2>7. ASSUME Offer(batch) PROVE PlannedInv'
        <3>1. /\ Valid(batch)
              /\ \A e \in Envs : (\A i \in 1..n : Env(batch[i]) # e) => slots'[e] = slots[e]
              /\ \A i \in 1..n : slots'[Env(batch[i])].ep = batch[i].ep
              /\ Started' \subseteq Started \union Resets(batch)
            BY <1>3, <2>7, OfferSlots DEF Started
        <3>2. ASSUME NEW e \in Started'
              PROVE  \E o \in Runners : EnvOf[o] = e /\ PlansEpisode(o, slots'[e].ep)
            <4>1. CASE \E i \in 1..n : Env(batch[i]) = e
                <5>1. PICK i \in 1..n : Env(batch[i]) = e
                    BY <4>1
                <5>2. /\ Line[i].run \in Runners /\ EnvOf[Line[i].run] = e
                      /\ PlansEpisode(Line[i].run, Line[i].ep) /\ slots'[e].ep = Line[i].ep
                    BY <1>1, <1>3, <2>1, <3>1, <5>1 DEF PlannedInv, Env
                <5> QED
                    BY <5>2
            <4>2. CASE \A i \in 1..n : Env(batch[i]) # e
                <5>1. e \in Started /\ slots'[e] = slots[e]
                    BY <3>1, <3>2, <4>2 DEF Started
                <5> QED
                    BY <1>1, <5>1 DEF PlannedInv
            <4> QED
                BY <4>1, <4>2
        <3>3. Cardinality(Started') <= MaxEnvs
            <4>1. /\ Started \union Resets(batch) \subseteq Envs /\ IsFiniteSet(Envs) /\ MaxEnvs \in Nat
                <5>1. \A i \in 1..n : Env(batch[i]) \in Envs
                    BY <1>1, <1>3, <2>1, PlanFacts DEF Env
                <5> QED
                    BY <2>1, <5>1, ServingAssumption DEF ServingAssumption, Started, Resets
            <4>2. IsFiniteSet(Started \union Resets(batch)) /\ IsFiniteSet(Started')
                BY <3>1, <4>1, FS_Subset
            <4>3. Cardinality(Started') <= Cardinality(Started \union Resets(batch))
                BY <3>1, <4>2, FS_Subset
            <4>4. Cardinality(Started \union Resets(batch)) <= MaxEnvs
                BY <3>1 DEF Valid, SlotsLeft
            <4> QED
                BY <4>1, <4>2, <4>3, <4>4, FS_CardinalityType
        <3> QED
            BY <2>5, <3>2, <3>3 DEF PlannedInv, PlansEpisode
    <2>8. ASSUME NEW o \in Runners PROVE Refused(o)'
        <3>1. CASE runner'[o] = runner[o]
            BY <1>1, <3>1, RefusedKept
        <3>2. CASE Awaits(o, batch) /\ Serve(batch)
            <4>1. runner'[o].why = runner[o].why /\ runner[o].pc = "waiting"
                BY <1>1, <3>2 DEF Serve, Awaits, RunnerType
            <4> QED
                BY <1>1, <4>1 DEF Refused
        <3>3. CASE Awaits(o, batch) /\ Die(batch, "fault")
            BY <1>1, <3>3 DEF Die, RunnerType, Refused
        <3>4. CASE Awaits(o, batch) /\ Reject(batch) /\ n = 1 /\ (Env(Line[1]) \in twice \/ ~Valid(batch))
            <4>2. Conflict(o)
                BY <1>1, <1>3, <3>4, RefusalIsConflict
            <4>3. /\ runner'[o].pc = "dead" /\ runner'[o].life = runner[o].life
                  /\ runner'[o].t = runner[o].t /\ runner'[o].at = runner[o].at
                BY <1>1, <3>4 DEF Reject, Die, RunnerType
            <4>4. Episode(o)' = Episode(o)
                BY <4>3 DEF Episode
            <4> QED
                BY <4>2, <4>3, <4>4 DEF Refused, Conflict, PlansEpisode
        <3> QED
            BY <1>3, <2>2, <3>1, <3>2, <3>3, <3>4 DEF Offer, EncoderFails, PolicyFails
    <2> QED
        BY <1>3, <2>4, <2>6, <2>7, <2>8 DEF RefusalInv
<1> QED
    BY <1>2, <1>3, ServerLine

LEMMA RefusalInvHolds == Spec => []RefusalInv
<1>1. ServingInv /\ RefusalInv /\ [Next]_vars => RefusalInv'
    <2>1. ServingInv /\ RefusalInv /\ Next => RefusalInv'
        BY ClientRefusal, ServerRefusal DEF Next
    <2>2. ASSUME ServingInv, RefusalInv, UNCHANGED vars PROVE RefusalInv'
        <3>1. /\ \A o \in Runners : Refused(o)
              /\ UNCHANGED <<runner, slots, twice>> /\ Line' = Line /\ Started' = Started
            BY <2>2 DEF vars, RefusalInv, Line, Started
        <3>2. AloneInv' /\ PlannedInv'
            BY <2>2, <3>1 DEF RefusalInv, AloneInv, PlannedInv, FirstLife, OneAsked, Sole, SlotFollows,
                RequestOf, Episode, PlansEpisode
        <3>3. ASSUME NEW o \in Runners PROVE Refused(o)'
            BY <3>1, RefusedKept
        <3> QED
            BY <3>2, <3>3 DEF RefusalInv
    <2> QED
        BY <2>1, <2>2
<1> QED
    BY <1>1, RefusalInit, ServingInvHolds, PTL DEF Spec

\* A request is only ever refused for a conflict of its own runner, and never
\* for a malformed neighbour in its window, for any runners, plans and batches.
THEOREM RefusalTheorem == Spec => []OnlyConflictsReject
<1>1. RefusalInv => OnlyConflictsReject
    BY DEF RefusalInv, Refused, Conflict, OnlyConflictsReject
<1> QED
    BY <1>1, RefusalInvHolds, PTL

-----------------------------------------------------------------------------
(* What the windows hold                                                   *)

\* A set of naturals with a member has a least one.
LEMMA LeastMember ==
  ASSUME NEW S \in SUBSET Nat, S # {}
  PROVE  \E m \in S : \A k \in S : m <= k
<1>1. PICK m \in S : \A k \in S : <<k, m>> \notin OpToRel(<, Nat)
    BY NatLessThanWellFounded, WFMin
<1>2. \A k \in S : ~(k < m)
    BY <1>1 DEF OpToRel
<1> QED
    BY <1>2

\* The recursion of LastEncode up to n.
EncodesTo(n, f) ==
    f = [t \in 0..n |-> IF t = 0 \/ t \in Boundaries \/ t - f[t - 1] >= Stride THEN t ELSE f[t - 1]]

LEMMA EncodesExtends ==
  ASSUME NEW n \in Nat, NEW f, EncodesTo(n, f)
  PROVE  \E g : EncodesTo(n + 1, g)
<1> DEFINE top == IF n + 1 \in Boundaries \/ (n + 1) - f[n] >= Stride THEN n + 1 ELSE f[n]
           g == [t \in 0..(n + 1) |-> IF t <= n THEN f[t] ELSE top]
<1>1. \A t \in 0..n : g[t] = f[t]
    OBVIOUS
<1>2. g[n + 1] = top
    OBVIOUS
<1>3. ASSUME NEW t \in 0..(n + 1)
      PROVE  g[t] = IF t = 0 \/ t \in Boundaries \/ t - g[t - 1] >= Stride THEN t ELSE g[t - 1]
    <2>1. CASE t <= n
        <3>1. f[t] = IF t = 0 \/ t \in Boundaries \/ t - f[t - 1] >= Stride THEN t ELSE f[t - 1]
            BY <2>1 DEF EncodesTo
        <3>2. t # 0 => t - 1 \in 0..n
            BY <2>1
        <3> HIDE DEF g
        <3> QED
            BY <1>1, <2>1, <3>1, <3>2
    <2>2. CASE t = n + 1
        <3>1. t # 0 /\ t - 1 = n /\ n \in 0..n
            BY <2>2
        <3> HIDE DEF g
        <3> QED
            BY <1>1, <1>2, <2>2, <3>1
    <2> QED
        BY <2>1, <2>2
<1>4. g = [t \in 0..(n + 1) |-> g[t]]
    OBVIOUS
<1> HIDE DEF g
<1>5. EncodesTo(n + 1, g)
    BY <1>3, <1>4 DEF EncodesTo
<1> QED
    BY <1>5

LEMMA EncodesExists == \A n \in Nat : \E f : EncodesTo(n, f)
<1> DEFINE Bad == {n \in Nat : ~ \E f : EncodesTo(n, f)}
<1> SUFFICES ASSUME Bad # {} PROVE FALSE
    OBVIOUS
<1>1. PICK m \in Bad : \A k \in Bad : m <= k
    BY LeastMember
<1>2. CASE m = 0
    <2>1. EncodesTo(0, [t \in 0..0 |-> 0])
        BY DEF EncodesTo
    <2> QED
        BY <1>2, <2>1
<1>3. CASE m # 0
    <2>1. m - 1 \in Nat /\ m - 1 \notin Bad /\ (m - 1) + 1 = m
        BY <1>1, <1>3
    <2>2. PICK f : EncodesTo(m - 1, f)
        BY <2>1
    <2>3. \E g : EncodesTo(m, g)
        BY <2>1, <2>2, EncodesExtends
    <2> QED
        BY <2>3
<1> QED
    BY <1>2, <1>3

\* The reference satisfies its recursion.
LEMMA LastEncodeIs ==
  ASSUME NEW t \in Times
  PROVE  LastEncode[t] = IF t = 0 \/ t \in Boundaries \/ t - LastEncode[t - 1] >= Stride
                         THEN t ELSE LastEncode[t - 1]
<1>1. \E f : EncodesTo(Horizon, f)
    BY EncodesExists, ServingAssumption DEF ServingAssumption
<1>2. LastEncode = CHOOSE f : EncodesTo(Horizon, f)
    BY Zenon DEF LastEncode, EncodesTo, Times
<1>3. EncodesTo(Horizon, LastEncode)
    BY <1>1, <1>2, Zenon
<1> QED
    BY <1>3 DEF EncodesTo, Times

\* A strictly increasing function has as many values as places.
LEMMA IncreasingCount ==
  ASSUME NEW n \in Nat, NEW f, \A i \in 1..n : f[i] \in Nat, \A i, j \in 1..n : i < j => f[i] < f[j],
         NEW m \in 0..n
  PROVE  /\ IsFiniteSet({f[j] : j \in (m + 1)..n})
         /\ Cardinality({f[j] : j \in (m + 1)..n}) = n - m
<1> DEFINE S == {f[j] : j \in (m + 1)..n}
           g == [k \in 1..(n - m) |-> f[m + k]]
<1>1. \A k \in 1..(n - m) : m + k \in (m + 1)..n /\ m + k \in 1..n
    OBVIOUS
<1>2. g \in [1..(n - m) -> S]
    BY <1>1
<1>3. \A a, b \in 1..(n - m) : g[a] = g[b] => a = b
    <2> TAKE a, b \in 1..(n - m)
    <2>1. a < b => g[a] < g[b]
        BY <1>1
    <2>2. b < a => g[b] < g[a]
        BY <1>1
    <2>3. g[a] \in Nat /\ g[b] \in Nat
        BY <1>1
    <2> QED
        BY <2>1, <2>2, <2>3
<1>4. \A x \in S : \E k \in 1..(n - m) : g[k] = x
    <2> TAKE x \in S
    <2>1. PICK j \in (m + 1)..n : x = f[j]
        OBVIOUS
    <2>2. j - m \in 1..(n - m) /\ m + (j - m) = j
        OBVIOUS
    <2> QED
        BY <2>1, <2>2
<1>5. n - m \in Nat
    OBVIOUS
<1> HIDE DEF S, g
<1>6. g \in Bijection(1..(n - m), S)
    BY <1>2, <1>3, <1>4 DEF Bijection, Injection, Surjection, IsInjective
<1>7. ExistsBijection(1..(n - m), S)
    BY <1>6 DEF ExistsBijection
<1> QED
    BY <1>5, <1>7, FS_CountingElements, FS_NatBijection DEF S

\* The frames of one episode of one life at exactly these steps, in order.
Grid(s, run, life, ep, steps) ==
    /\ Len(s) = Cardinality(steps)
    /\ {s[i].t : i \in DOMAIN s} = steps
    /\ \A i, j \in DOMAIN s : i < j => s[i].t < s[j].t
    /\ \A i \in DOMAIN s : s[i].run = run /\ s[i].life = life /\ s[i].ep = ep

LEMMA GridFacts ==
  ASSUME NEW s \in Seq(Frames)
  PROVE  /\ DOMAIN s = 1..Len(s) /\ Len(s) \in Nat
         /\ \A i \in 1..Len(s) : s[i].t \in Nat /\ s[i].t \in Times
<1>1. \A i \in 1..Len(s) : s[i] \in Frames
    BY ElementOfSeq
<1> QED
    BY <1>1, LenProperties DEF Frames, Times

\* In a grid the length follows from the rest.
LEMMA GridLength ==
  ASSUME NEW s \in Seq(Frames), \A i, j \in DOMAIN s : i < j => s[i].t < s[j].t
  PROVE  Len(s) = Cardinality({s[i].t : i \in DOMAIN s}) /\ IsFiniteSet({s[i].t : i \in DOMAIN s})
<1> DEFINE f == [i \in 1..Len(s) |-> s[i].t]
<1>1. /\ DOMAIN s = 1..Len(s) /\ Len(s) \in Nat /\ 0 \in 0..Len(s) /\ Len(s) - 0 = Len(s)
      /\ 0 + 1 = 1
    BY GridFacts
<1>2. \A i \in 1..Len(s) : f[i] \in Nat
    BY GridFacts
<1>3. \A i, j \in 1..Len(s) : i < j => f[i] < f[j]
    BY <1>1
<1>4. {f[j] : j \in 1..Len(s)} = {s[i].t : i \in DOMAIN s}
    BY <1>1
<1> HIDE DEF f
<1>5. /\ IsFiniteSet({f[j] : j \in (0 + 1)..Len(s)})
      /\ Cardinality({f[j] : j \in (0 + 1)..Len(s)}) = Len(s) - 0
    BY <1>1, <1>2, <1>3, IncreasingCount
<1> QED
    BY <1>1, <1>4, <1>5

\* A later frame put at the end of a grid.
LEMMA GridAppend ==
  ASSUME NEW s \in Seq(Frames), NEW f \in Frames, NEW steps, Grid(s, f.run, f.life, f.ep, steps),
         \A u \in steps : u < f.t
  PROVE  /\ Append(s, f) \in Seq(Frames)
         /\ Grid(Append(s, f), f.run, f.life, f.ep, steps \union {f.t})
<1> DEFINE a == Append(s, f)
<1>1. /\ a \in Seq(Frames) /\ DOMAIN a = 1..(Len(s) + 1) /\ Len(s) \in Nat
      /\ \A i \in 1..Len(s) : a[i] = s[i]
      /\ a[Len(s) + 1] = f /\ DOMAIN s = 1..Len(s)
    BY GridFacts, AppendProperties, LenProperties
<1> HIDE DEF a
<1>2. {a[i].t : i \in DOMAIN a} = steps \union {f.t}
    <2>1. 1..(Len(s) + 1) = 1..Len(s) \union {Len(s) + 1}
        BY <1>1
    <2>2. {s[i].t : i \in 1..Len(s)} = steps
        BY <1>1 DEF Grid
    <2> QED
        BY <1>1, <2>1, <2>2
<1>3. ASSUME NEW i \in DOMAIN a, NEW j \in DOMAIN a, i < j PROVE a[i].t < a[j].t
    <2>1. i \in 1..Len(s)
        BY <1>1, <1>3
    <2>2. s[i].t \in steps
        BY <1>1, <2>1 DEF Grid
    <2>3. CASE j = Len(s) + 1
        BY <1>1, <2>1, <2>2, <2>3
    <2>4. CASE j # Len(s) + 1
        <3>1. j \in 1..Len(s)
            BY <1>1, <2>4
        <3> QED
            BY <1>1, <1>3, <2>1, <3>1 DEF Grid
    <2> QED
        BY <2>3, <2>4
<1>4. ASSUME NEW i \in DOMAIN a PROVE a[i].run = f.run /\ a[i].life = f.life /\ a[i].ep = f.ep
    <2>1. CASE i \in 1..Len(s)
        BY <1>1, <2>1 DEF Grid
    <2>2. CASE i = Len(s) + 1
        BY <1>1, <2>2
    <2> QED
        BY <1>1, <2>1, <2>2
<1>5. Len(a) = Cardinality(steps \union {f.t})
    BY <1>1, <1>2, <1>3, GridLength
<1> QED
    BY <1>1, <1>2, <1>3, <1>4, <1>5 DEF Grid, a

\* The encoded steps up to the next request.
LEMMA EncodedNext ==
  ASSUME NEW t \in Times, t > 0
  PROVE  /\ t - 1 \in Times /\ EncodedBy(t - 1) \subseteq 0..(t - 1)
         /\ LastEncode[t] = t => EncodedBy(t) = EncodedBy(t - 1) \union {t}
         /\ LastEncode[t] # t => EncodedBy(t) = EncodedBy(t - 1)
<1>1. /\ t \in Nat /\ 0..t = 0..(t - 1) \union {t} /\ t - 1 \in Times
    BY ServingAssumption DEF ServingAssumption, Times
<1> QED
    BY <1>1 DEF EncodedBy

SincePin(t, u) == \A b \in Boundaries : b <= t => b <= u

\* How many encoded steps up to t lie behind u.
Behind(t, u) == {v \in EncodedBy(t) : v > u}

LEMMA SoloWindowIs ==
  \A t : SoloWindow(t) = {u \in EncodedBy(t) : SincePin(t, u) /\ Cardinality(Behind(t, u)) < Window}
BY DEF SoloWindow, SincePin, Behind

\* In a window the i-th frame has exactly the later ones behind it.
LEMMA WindowBehind ==
  ASSUME NEW t \in Times, NEW s \in Seq(Frames), NEW run, NEW life, NEW ep,
         Grid(s, run, life, ep, SoloWindow(t)), NEW i \in 1..Len(s)
  PROVE  Cardinality(Behind(t, s[i].t)) = Len(s) - i
<1> DEFINE f == [j \in 1..Len(s) |-> s[j].t]
           later == {f[j] : j \in (i + 1)..Len(s)}
<1>1. /\ DOMAIN s = 1..Len(s) /\ Len(s) \in Nat /\ i \in 0..Len(s)
      /\ \A j \in 1..Len(s) : f[j] \in Nat /\ f[j] = s[j].t
    BY GridFacts
<1>2. /\ \A j, k \in 1..Len(s) : j < k => f[j] < f[k]
      /\ {f[j] : j \in 1..Len(s)} = SoloWindow(t)
    BY <1>1 DEF Grid
<1>0. EncodedBy(t) \subseteq Nat /\ IsFiniteSet(EncodedBy(t)) /\ t \in Nat /\ Window \in Nat
    <2>1. t \in Nat /\ Window \in Nat
        BY ServingAssumption DEF ServingAssumption, Times
    <2>2. EncodedBy(t) \subseteq 0..t /\ IsFiniteSet(0..t)
        BY <2>1, FS_Interval DEF EncodedBy
    <2> QED
        BY <2>1, <2>2, FS_Subset
<1> HIDE DEF f
<1>3. f[i] \in EncodedBy(t) /\ SincePin(t, f[i]) /\ Cardinality(Behind(t, f[i])) < Window
    BY <1>2, SoloWindowIs
<1>4. ASSUME NEW v \in Behind(t, f[i]) PROVE v \in later
    <2>1. v \in EncodedBy(t) /\ v > f[i] /\ v \in Nat /\ f[i] \in Nat
        BY <1>0, <1>1, <1>4 DEF Behind
    <2>2. SincePin(t, v)
        <3>1. \A b \in Boundaries : b \in Nat
            BY ServingAssumption DEF ServingAssumption, Times
        <3> QED
            BY <1>3, <2>1, <3>1 DEF SincePin
    <2>3. Behind(t, v) \subseteq Behind(t, f[i])
        BY <1>0, <2>1 DEF Behind
    <2>4. IsFiniteSet(Behind(t, f[i]))
        BY <1>0, FS_Subset DEF Behind
    <2>5. Cardinality(Behind(t, v)) < Window
        <3>1. /\ IsFiniteSet(Behind(t, v))
              /\ Cardinality(Behind(t, v)) <= Cardinality(Behind(t, f[i]))
            BY <2>3, <2>4, FS_Subset
        <3>2. Cardinality(Behind(t, v)) \in Nat /\ Cardinality(Behind(t, f[i])) \in Nat
            BY <2>4, <3>1, FS_CardinalityType
        <3> QED
            BY <1>0, <1>3, <3>1, <3>2
    <2>6. v \in SoloWindow(t)
        BY <2>1, <2>2, <2>5, SoloWindowIs
    <2>7. PICK j \in 1..Len(s) : v = f[j]
        BY <1>2, <2>6
    <2>8. i < j
        BY <1>1, <1>2, <2>1, <2>7
    <2> QED
        BY <1>1, <2>7, <2>8
<1>5. ASSUME NEW v \in later PROVE v \in Behind(t, f[i])
    <2>1. PICK j \in (i + 1)..Len(s) : v = f[j]
        BY <1>5
    <2>2. j \in 1..Len(s) /\ i < j
        BY <1>1, <2>1
    <2> QED
        BY <1>1, <1>2, <2>1, <2>2, SoloWindowIs DEF Behind
<1>6. Behind(t, f[i]) = later
    BY <1>4, <1>5
<1>7. Cardinality(later) = Len(s) - i
    BY <1>1, <1>2, IncreasingCount
<1> QED
    BY <1>1, <1>6, <1>7

\* A window after the encode at t is the last Window of the one before it and t.
LEMMA WindowNext ==
  ASSUME NEW t \in Times, t > 0, t \notin Boundaries, LastEncode[t] = t,
         NEW s \in Seq(Frames), NEW f \in Frames, f.t = t,
         Grid(s, f.run, f.life, f.ep, SoloWindow(t - 1))
  PROVE  Grid(LastOf(Append(s, f)), f.run, f.life, f.ep, SoloWindow(t))
<1> DEFINE L == Len(s)
           a == Append(s, f)
<1>1. /\ t - 1 \in Times /\ EncodedBy(t - 1) \subseteq 0..(t - 1)
      /\ EncodedBy(t) = EncodedBy(t - 1) \union {t}
      /\ t \in Nat /\ Window \in Nat \ {0} /\ Boundaries \subseteq Nat
    BY EncodedNext, ServingAssumption DEF ServingAssumption, Times
<1>2. /\ L \in Nat /\ DOMAIN s = 1..L /\ a \in Seq(Frames) /\ Len(a) = L + 1 /\ DOMAIN a = 1..(L + 1)
      /\ a[L + 1] = f /\ \A i \in 1..L : a[i] = s[i]
      /\ \A i \in 1..L : s[i].t \in SoloWindow(t - 1) /\ s[i].t \in Nat
    <2>1. L \in Nat /\ DOMAIN s = 1..L /\ \A i \in 1..L : s[i].t \in Nat
        BY GridFacts
    <2>2. /\ a \in Seq(Frames) /\ Len(a) = L + 1 /\ a[L + 1] = f
          /\ \A i \in 1..L : a[i] = s[i]
        BY AppendProperties
    <2>3. DOMAIN a = 1..(L + 1)
        BY <2>2, LenProperties
    <2>4. \A i \in 1..L : s[i].t \in SoloWindow(t - 1)
        BY <2>1 DEF Grid
    <2> QED
        BY <2>1, <2>2, <2>3, <2>4
<1>3. /\ SoloWindow(t - 1) \subseteq 0..(t - 1)
      /\ Grid(a, f.run, f.life, f.ep, SoloWindow(t - 1) \union {t})
    <2>1. SoloWindow(t - 1) \subseteq 0..(t - 1)
        BY <1>1 DEF SoloWindow
    <2>2. \A u \in SoloWindow(t - 1) : u < f.t
        BY <1>1, <2>1
    <2> QED
        BY <2>1, <2>2, GridAppend
<1>4. ASSUME NEW u \in EncodedBy(t - 1)
      PROVE  /\ Cardinality(Behind(t, u)) = Cardinality(Behind(t - 1, u)) + 1
             /\ Cardinality(Behind(t - 1, u)) \in Nat
             /\ SincePin(t, u) <=> SincePin(t - 1, u)
    <2>1. Behind(t, u) = Behind(t - 1, u) \union {t} /\ t \notin Behind(t - 1, u)
        BY <1>1 DEF Behind
    <2>2. IsFiniteSet(Behind(t - 1, u))
        <3>1. Behind(t - 1, u) \subseteq 0..(t - 1) /\ IsFiniteSet(0..(t - 1))
            BY <1>1, FS_Interval DEF Behind
        <3> QED
            BY <3>1, FS_Subset
    <2>3. \A b \in Boundaries : b <= t <=> b <= t - 1
        <3> TAKE b \in Boundaries
        <3>1. b \in Nat /\ b # t
            BY <1>1
        <3> QED
            BY <1>1, <3>1
    <2> QED
        BY <2>1, <2>2, <2>3, FS_AddElement, FS_CardinalityType DEF SincePin
<1>5. t \in SoloWindow(t)
    <2>1. Behind(t, t) = {} /\ SincePin(t, t)
        BY <1>1 DEF Behind, SincePin
    <2>2. Cardinality(Behind(t, t)) = 0
        BY <2>1, FS_EmptySet
    <2>3. t \in EncodedBy(t) /\ 0 < Window
        BY <1>1
    <2> QED
        BY <2>1, <2>2, <2>3, SoloWindowIs
<1>6. \A i \in 1..L : Cardinality(Behind(t - 1, s[i].t)) = L - i
    BY <1>1, WindowBehind
<1>7. L <= Window
    <2>1. CASE L = 0
        BY <1>1, <2>1
    <2>2. CASE L # 0
        <3>1. 1 \in 1..L /\ s[1].t \in SoloWindow(t - 1)
            BY <1>2, <2>2
        <3>2. L - 1 < Window
            BY <1>6, <3>1, SoloWindowIs
        <3> QED
            BY <1>1, <1>2, <3>2
    <2> QED
        BY <2>1, <2>2
\* Which frames of the old window are still in the new one.
<1>8. ASSUME NEW i \in 1..L PROVE s[i].t \in SoloWindow(t) <=> L - i + 1 < Window
    <2>1. s[i].t \in EncodedBy(t - 1) /\ SincePin(t - 1, s[i].t)
        BY <1>2, SoloWindowIs
    <2>2. Cardinality(Behind(t, s[i].t)) = (L - i) + 1 /\ SincePin(t, s[i].t)
        BY <1>4, <1>6, <2>1
    <2>3. s[i].t \in EncodedBy(t)
        BY <1>1, <2>1
    <2> QED
        BY <2>2, <2>3, SoloWindowIs
<1>9. SoloWindow(t) \subseteq SoloWindow(t - 1) \union {t}
    <2> SUFFICES ASSUME NEW u \in SoloWindow(t), u # t PROVE u \in SoloWindow(t - 1)
        OBVIOUS
    <2>0. u \in EncodedBy(t) /\ SincePin(t, u) /\ Cardinality(Behind(t, u)) < Window
        BY SoloWindowIs
    <2>1. u \in EncodedBy(t - 1) /\ SincePin(t, u) /\ Cardinality(Behind(t, u)) < Window
        BY <1>1, <2>0
    <2>2. SincePin(t - 1, u) /\ Cardinality(Behind(t - 1, u)) < Window
        BY <1>1, <1>4, <2>1
    <2> QED
        BY <2>1, <2>2, SoloWindowIs
<1>10. {s[i].t : i \in 1..L} = SoloWindow(t - 1)
    BY <1>2 DEF Grid
<1> HIDE DEF L, a
<1>11. CASE L + 1 <= Window
    <2>1. LastOf(a) = a
        BY <1>1, <1>2, <1>11 DEF LastOf
    <2>2. \A i \in 1..L : L - i + 1 < Window
        BY <1>1, <1>2, <1>11
    <2>3. SoloWindow(t) = SoloWindow(t - 1) \union {t}
        BY <1>5, <1>8, <1>9, <1>10, <2>2
    <2> QED
        BY <1>3, <2>1, <2>3 DEF a
<1>12. CASE L + 1 > Window
    <2>1. L = Window /\ L >= 1
        BY <1>1, <1>2, <1>7, <1>12
    <2> DEFINE b == SubSeq(a, 2, L + 1)
    <2>2. LastOf(a) = b
        BY <1>2, <2>1 DEF LastOf
    <2>3. b \in Seq(Frames) /\ DOMAIN b = 1..L /\ \A i \in 1..L : b[i] = a[i + 1]
        <3>1. \A i \in 2..(L + 1) : a[i] \in Frames
            BY <1>2, ElementOfSeq
        <3>2. /\ b \in Seq(Frames)
              /\ Len(b) = IF 2 <= L + 1 THEN (L + 1) - 2 + 1 ELSE 0
              /\ \A i \in 1..((L + 1) - 2 + 1) : b[i] = a[2 + i - 1]
            BY <1>2, <3>1, SubSeqProperties
        <3> QED
            BY <1>2, <2>1, <3>2, LenProperties
    <2> HIDE DEF b
    <2>4. \A i, j \in DOMAIN b : i < j => b[i].t < b[j].t
        <3>1. \A i, j \in 1..(L + 1) : i < j => a[i].t < a[j].t
            BY <1>2, <1>3 DEF Grid
        <3>2. \A i, j \in 1..L : i < j => a[i + 1].t < a[j + 1].t
            BY <1>2, <3>1
        <3> QED
            BY <2>3, <3>2
    <2>5. \A i \in DOMAIN b : b[i].run = f.run /\ b[i].life = f.life /\ b[i].ep = f.ep
        <3>1. \A i \in 1..(L + 1) : a[i].run = f.run /\ a[i].life = f.life /\ a[i].ep = f.ep
            BY <1>2, <1>3 DEF Grid
        <3>2. \A i \in 1..L : i + 1 \in 1..(L + 1)
            BY <1>2
        <3> QED
            BY <2>3, <3>1, <3>2
    <2>6. {b[i].t : i \in DOMAIN b} = SoloWindow(t)
        <3>1. ASSUME NEW i \in 1..L PROVE b[i].t \in SoloWindow(t)
            <4>1. CASE i = L
                BY <1>2, <1>5, <2>3, <4>1
            <4>2. CASE i # L
                <5>1. i + 1 \in 1..L /\ b[i] = s[i + 1] /\ L - (i + 1) + 1 < Window
                    BY <1>2, <2>1, <2>3, <4>2
                <5> QED
                    BY <1>8, <5>1
            <4> QED
                BY <4>1, <4>2
        <3>2. ASSUME NEW u \in SoloWindow(t) PROVE \E i \in 1..L : b[i].t = u
            <4>1. CASE u = t
                BY <1>2, <2>1, <2>3, <4>1
            <4>2. CASE u # t
                <5>1. PICK i \in 1..L : s[i].t = u
                    BY <1>9, <1>10, <3>2, <4>2
                <5>2. L - i + 1 < Window
                    BY <1>8, <3>2, <5>1
                <5>3. i - 1 \in 1..L /\ b[i - 1] = s[i]
                    <6>1. i # 1
                        BY <1>2, <2>1, <5>2
                    <6>2. i - 1 \in 1..L /\ (i - 1) + 1 = i
                        BY <1>2, <6>1
                    <6> QED
                        BY <1>2, <2>3, <6>2
                <5> QED
                    BY <5>1, <5>3
            <4> QED
                BY <4>1, <4>2
        <3> QED
            BY <2>3, <3>1, <3>2
    <2>7. Len(b) = Cardinality(SoloWindow(t))
        BY <2>3, <2>4, <2>6, GridLength
    <2> QED
        BY <2>2, <2>4, <2>5, <2>6, <2>7 DEF Grid, a
<1> QED
    BY <1>1, <1>2, <1>11, <1>12

\* The windows of one environment served alone, from one request to the next.
LEMMA SoloFirst ==
  ASSUME NEW t \in Times, t = 0 \/ t \in Boundaries
  PROVE  /\ LastEncode[t] = t /\ SoloWindow(t) = {t}
         /\ t = 0 \/ RepinResetsEncoder => SoloPrefix(t) = {t}
<1>1. /\ LastEncode[t] = t /\ t \in Nat /\ Window \in Nat \ {0} /\ Boundaries \subseteq Nat \ {0}
      /\ EncodedBy(t) \subseteq 0..t /\ t \in EncodedBy(t) /\ IsFiniteSet({}) /\ Cardinality({}) = 0
    BY LastEncodeIs, FS_EmptySet, ServingAssumption DEF ServingAssumption, Times, EncodedBy
<1>2. ASSUME NEW u \in EncodedBy(t), SincePin(t, u) PROVE u = t
    BY <1>1, <1>2 DEF SincePin
<1>3. SincePin(t, t) /\ Behind(t, t) = {}
    BY <1>1 DEF SincePin, Behind
<1>4. SoloWindow(t) = {t}
    <2>1. t \in SoloWindow(t)
        BY <1>1, <1>3, SoloWindowIs
    <2>2. \A u \in SoloWindow(t) : u = t
        BY <1>2, SoloWindowIs
    <2> QED
        BY <2>1, <2>2
<1>5. ASSUME t = 0 \/ RepinResetsEncoder PROVE SoloPrefix(t) = {t}
    <2>1. CASE RepinResetsEncoder
        <3>1. SoloPrefix(t) = {u \in EncodedBy(t) : SincePin(t, u)}
            BY <2>1 DEF SoloPrefix, SincePin
        <3> QED
            BY <1>1, <1>2, <1>3, <3>1
    <2>2. CASE t = 0
        <3>1. EncodedBy(t) = {t}
            BY <1>1, <2>2
        <3>2. SoloPrefix(t) = EncodedBy(t)
            BY <1>3, <3>1 DEF SoloPrefix, SincePin
        <3> QED
            BY <3>1, <3>2
    <2> QED
        BY <1>5, <2>1, <2>2
<1> QED
    BY <1>1, <1>4, <1>5

LEMMA SoloNext ==
  ASSUME NEW t \in Times, t > 0, t \notin Boundaries
  PROVE  /\ LastEncode[t] = IF t - LastEncode[t - 1] >= Stride THEN t ELSE LastEncode[t - 1]
         /\ LastEncode[t] = t => SoloPrefix(t) = SoloPrefix(t - 1) \union {t}
         /\ LastEncode[t] # t => /\ SoloPrefix(t) = SoloPrefix(t - 1)
                                 /\ SoloWindow(t) = SoloWindow(t - 1)
<1>1. /\ t - 1 \in Times /\ EncodedBy(t - 1) \subseteq 0..(t - 1) /\ t \in Nat /\ Boundaries \subseteq Nat
      /\ LastEncode[t] = t => EncodedBy(t) = EncodedBy(t - 1) \union {t}
      /\ LastEncode[t] # t => EncodedBy(t) = EncodedBy(t - 1)
    BY EncodedNext, ServingAssumption DEF ServingAssumption, Times
<1>2. LastEncode[t] = IF t - LastEncode[t - 1] >= Stride THEN t ELSE LastEncode[t - 1]
    BY LastEncodeIs, <1>1
<1>3. \A u : SincePin(t, u) <=> SincePin(t - 1, u)
    <2>1. \A b \in Boundaries : b <= t <=> b <= t - 1
        <3> TAKE b \in Boundaries
        <3>1. b \in Nat /\ b # t
            BY <1>1
        <3> QED
            BY <1>1, <3>1
    <2> QED
        BY <2>1 DEF SincePin
<1>4. \A x : SoloPrefix(x) = IF RepinResetsEncoder THEN {u \in EncodedBy(x) : SincePin(x, u)}
                             ELSE EncodedBy(x)
    BY DEF SoloPrefix, SincePin
<1>5. SincePin(t, t)
    BY DEF SincePin
<1>6. ASSUME LastEncode[t] = t PROVE SoloPrefix(t) = SoloPrefix(t - 1) \union {t}
    <2>1. CASE RepinResetsEncoder
        BY <1>1, <1>3, <1>4, <1>5, <1>6, <2>1
    <2>2. CASE ~RepinResetsEncoder
        BY <1>1, <1>4, <1>6, <2>2
    <2> QED
        BY <2>1, <2>2
<1>7. ASSUME LastEncode[t] # t PROVE SoloPrefix(t) = SoloPrefix(t - 1) /\ SoloWindow(t) = SoloWindow(t - 1)
    <2>1. SoloPrefix(t) = SoloPrefix(t - 1)
        BY <1>1, <1>3, <1>4, <1>7
    <2>2. \A u : Behind(t, u) = Behind(t - 1, u)
        BY <1>1, <1>7 DEF Behind
    <2>3. SoloWindow(t) = SoloWindow(t - 1)
        <3>1. \A u : u \in SoloWindow(t) <=> u \in SoloWindow(t - 1)
            <4> TAKE u
            <4>1. /\ u \in SoloWindow(t) <=> /\ u \in EncodedBy(t) /\ SincePin(t, u)
                                             /\ Cardinality(Behind(t, u)) < Window
                  /\ u \in SoloWindow(t - 1) <=> /\ u \in EncodedBy(t - 1) /\ SincePin(t - 1, u)
                                                 /\ Cardinality(Behind(t - 1, u)) < Window
                BY SoloWindowIs
            <4> QED
                BY <1>1, <1>3, <1>7, <2>2, <4>1
        <3> QED
            BY <3>1
    <2> QED
        BY <2>1, <2>3
<1> QED
    BY <1>2, <1>6, <1>7

LEMMA GridFirst ==
  ASSUME NEW f \in Frames
  PROVE  /\ Grid(Append(<<>>, f), f.run, f.life, f.ep, {f.t})
         /\ LastOf(Append(<<>>, f)) = Append(<<>>, f)
<1>1. <<>> \in Seq(Frames) /\ Grid(<<>>, f.run, f.life, f.ep, {})
    BY EmptySeq, FS_EmptySet DEF Grid
<1>2. Grid(Append(<<>>, f), f.run, f.life, f.ep, {} \union {f.t})
    BY <1>1, GridAppend
<1>3. Len(Append(<<>>, f)) = 1 /\ Window \in Nat \ {0}
    BY <1>1, AppendProperties, EmptySeq, ServingAssumption DEF ServingAssumption
<1>4. LastOf(Append(<<>>, f)) = Append(<<>>, f)
    BY <1>3 DEF LastOf
<1> QED
    BY <1>2, <1>4

\* A slot whose window and prefix are those of a life of a runner, alone, at step u.
Follows(s, run, life, ep, u) ==
    /\ s.last = u /\ s.newest = LastEncode[u] /\ s.newest \in 0..u
    /\ Grid(s.buf, run, life, ep, SoloWindow(u))
    /\ Grid(s.prefix, run, life, ep, SoloPrefix(u))

\* The next request of the same life keeps its slot so, and a reset starts it so.
LEMMA PreparedFollows ==
  ASSUME SlotsTyped, \A e \in Started : Len(slots[e].buf) <= Window,
         NEW q \in Requests, q.repin = (q.t \in Boundaries),
         q.t = 0 \/ (Continues(q) /\ Follows(slots[Env(q)], q.run, q.life, q.ep, q.t - 1))
  PROVE  Follows(Prepared(q), q.run, q.life, q.ep, q.t)
<1> DEFINE f == Frame(q)
           s == Readied(q)
           p == Prepared(q)
<1>1. /\ f \in Frames /\ f.run = q.run /\ f.life = q.life /\ f.ep = q.ep /\ f.t = q.t
      /\ q.t \in Times /\ q.t \in Nat /\ Stride \in Nat \ {0} /\ Horizon \in Nat
    BY ServingAssumption DEF ServingAssumption, Frame, Frames, Requests, Times
<1>2. s \in Slots /\ Encoded(q) \in Slots /\ p \in Slots
    BY TakenIsSlot
<1>3. CASE Due(q)
    <2>1. p.newest = q.t /\ p.last = q.t /\ p.buf = LastOf(Append(s.buf, f)) /\ p.prefix = Append(s.prefix, f)
        BY <1>2, <1>3 DEF Prepared, Encoded, Slots
    <2>2. p.newest \in 0..q.t
        BY <1>1, <2>1
    <2> SUFFICES /\ LastEncode[q.t] = q.t
                 /\ Grid(LastOf(Append(s.buf, f)), q.run, q.life, q.ep, SoloWindow(q.t))
                 /\ Grid(Append(s.prefix, f), q.run, q.life, q.ep, SoloPrefix(q.t))
        BY <2>1, <2>2 DEF Follows
    <2>3. CASE q.t = 0
        <3>1. s.buf = <<>> /\ s.prefix = <<>>
            BY <2>3 DEF Readied
        <3> QED
            BY <1>1, <2>3, <3>1, GridFirst, SoloFirst
    <2>4. CASE q.t # 0 /\ q.t \in Boundaries
        <3>1. /\ slots[Env(q)] \in Slots /\ Follows(slots[Env(q)], q.run, q.life, q.ep, q.t - 1)
              /\ slots[Env(q)].prefix \in Seq(Frames)
            <4>1. Env(q) \in Envs
                BY ServingAssumption DEF ServingAssumption, Env, Requests
            <4> QED
                BY <2>4, <4>1 DEF Continues, SlotsTyped, Slots
        <3>2. /\ s.buf = <<>>
              /\ s.prefix = IF RepinResetsEncoder THEN <<>> ELSE slots[Env(q)].prefix
            BY <2>4, <3>1 DEF Readied, Slots
        <3>3. LastEncode[q.t] = q.t /\ SoloWindow(q.t) = {q.t}
            BY <1>1, <2>4, SoloFirst
        <3>4. CASE RepinResetsEncoder
            BY <1>1, <2>4, <3>2, <3>3, <3>4, GridFirst, SoloFirst
        <3>5. CASE ~RepinResetsEncoder
            <4>1. /\ EncodedBy(q.t) = EncodedBy(q.t - 1) \union {q.t}
                  /\ EncodedBy(q.t - 1) \subseteq 0..(q.t - 1)
                BY <1>1, <2>4, <3>3, EncodedNext
            <4>2. SoloPrefix(q.t) = EncodedBy(q.t) /\ SoloPrefix(q.t - 1) = EncodedBy(q.t - 1)
                BY <3>5 DEF SoloPrefix
            <4>3. \A u \in SoloPrefix(q.t - 1) : u < q.t
                BY <1>1, <4>1, <4>2
            <4>4. Grid(Append(slots[Env(q)].prefix, f), q.run, q.life, q.ep, SoloPrefix(q.t - 1) \union {q.t})
                BY <1>1, <3>1, <4>3, GridAppend DEF Follows
            <4> QED
                BY <1>1, <3>2, <3>3, <3>5, <4>1, <4>2, <4>4, GridFirst
        <3> QED
            BY <3>4, <3>5
    <2>5. CASE q.t # 0 /\ q.t \notin Boundaries
        <3>0. ~q.repin
            BY <2>5
        <3>9. s = slots[Env(q)]
            BY <2>5, <3>0 DEF Readied
        <3>1. /\ s = slots[Env(q)] /\ Follows(s, q.run, q.life, q.ep, q.t - 1) /\ q.t > 0
            BY <1>1, <2>5, <3>9
        <3>2. q.t - s.newest >= Stride
            BY <1>1, <1>3, <3>1 DEF Due, Follows
        <3>3. LastEncode[q.t] = q.t
            BY <1>1, <2>5, <3>1, <3>2, SoloNext DEF Follows
        <3>4. SoloPrefix(q.t) = SoloPrefix(q.t - 1) \union {q.t} /\ SoloPrefix(q.t - 1) \subseteq 0..(q.t - 1)
            BY <1>1, <2>5, <3>1, <3>3, SoloNext, EncodedNext DEF SoloPrefix
        <3>5. s.buf \in Seq(Frames) /\ s.prefix \in Seq(Frames)
            BY <1>2 DEF Slots
        <3>6. Grid(LastOf(Append(s.buf, f)), q.run, q.life, q.ep, SoloWindow(q.t))
            BY <1>1, <2>5, <3>1, <3>3, <3>5, WindowNext DEF Follows
        <3>7. \A u \in SoloPrefix(q.t - 1) : u < q.t
            BY <1>1, <3>4
        <3>8. Grid(Append(s.prefix, f), q.run, q.life, q.ep, SoloPrefix(q.t))
            <4>1. Grid(s.prefix, q.run, q.life, q.ep, SoloPrefix(q.t - 1))
                BY <3>1 DEF Follows
            <4> HIDE DEF f, s
            <4>2. Grid(Append(s.prefix, f), f.run, f.life, f.ep, SoloPrefix(q.t - 1) \union {f.t})
                BY <1>1, <3>5, <3>7, <4>1, GridAppend
            <4> QED
                BY <1>1, <3>4, <4>2
        <3> QED
            BY <3>3, <3>6, <3>8
    <2> QED
        BY <2>3, <2>4, <2>5
<1>4. CASE ~Due(q)
    <2>1. q.t # 0 /\ q.t \notin Boundaries
        <3>1. q.t = 0 => Readied(q).newest = -1
            BY DEF Readied
        <3>2. q.t # 0 /\ q.repin => Readied(q).newest = -1
            <4>1. Env(q) \in Envs
                BY ServingAssumption DEF ServingAssumption, Env, Requests
            <4> QED
                BY <4>1 DEF Readied, Continues, SlotsTyped, Slots
        <3> QED
            BY <1>4, <3>1, <3>2 DEF Due
    <2>0. ~q.repin
        BY <2>1
    <2>9. s = slots[Env(q)]
        BY <2>0, <2>1 DEF Readied
    <2>2. s = slots[Env(q)] /\ Follows(s, q.run, q.life, q.ep, q.t - 1) /\ q.t > 0
        BY <1>1, <2>1, <2>9
    <2>3. p.newest = s.newest /\ p.last = q.t /\ p.buf = s.buf /\ p.prefix = s.prefix
        BY <1>2, <1>4 DEF Prepared, Slots
    <2>4. ~(q.t - s.newest >= Stride)
        BY <1>4 DEF Due
    <2>5. /\ LastEncode[q.t] = LastEncode[q.t - 1] /\ s.newest = LastEncode[q.t - 1]
          /\ s.newest \in 0..(q.t - 1)
        BY <1>1, <2>1, <2>2, <2>4, SoloNext DEF Follows
    <2>6. LastEncode[q.t] # q.t /\ s.newest \in 0..q.t
        BY <1>1, <2>5
    <2>7. SoloPrefix(q.t) = SoloPrefix(q.t - 1) /\ SoloWindow(q.t) = SoloWindow(q.t - 1)
        BY <1>1, <2>1, <2>2, <2>6, SoloNext
    <2> QED
        BY <2>2, <2>3, <2>5, <2>6, <2>7 DEF Follows
<1> QED
    BY <1>3, <1>4

Alive(x) == x.pc \in {"ready", "waiting", "answered"}

\* The client x has had an answer in its present life, and in its present episode.
Served(x) == x.pc = "answered" \/ x.t > 0 \/ x.at > 1
Underway(x) == Alive(x) /\ (x.pc = "answered" \/ x.t > 0)

\* The step that was last served to it.
Reached(x) == IF x.pc = "answered" THEN x.t ELSE x.t - 1

\* A request q of client x is of its present life or an earlier one; of the
\* present life it is the one, own, that x waits for, and once one of the
\* present life was answered there is none of an earlier life.
LifeOk(q, x, own) ==
    /\ q.life <= x.life
    /\ q.life = x.life /\ x.pc # "dead" => x.pc = "waiting" /\ q = own
    /\ Alive(x) /\ Served(x) => q.life = x.life

LivesInv ==
    /\ \A r \in Runners : \A i \in 1..Len(Line) :
           Line[i].run = r => LifeOk(Line[i], runner[r], RequestOf(r))
    /\ \A i, j \in 1..Len(Line) : i < j /\ Line[i].run = Line[j].run => Line[i].life < Line[j].life

\* A slot that still keeps the episode of a client in the middle of it holds
\* what that client would have had alone.
SlotOk(s, r, x, ep) ==
    Underway(x) /\ s # NoSlot /\ s.ep = ep => Follows(s, r, x.life, ep, Reached(x))

SoloSlots == \A r \in Runners : SlotOk(slots[EnvOf[r]], r, runner[r], Episode(r))

SoloInv == LivesInv /\ SoloSlots /\ BatchingIsInvisible

LEMMA SoloInit == Init => SoloInv
<1> SUFFICES ASSUME Init PROVE SoloInv
    OBVIOUS
<1>1. Line = <<>> /\ Len(Line) = 0
    BY ConcatEmptySeq, EmptySeq DEF Init, Line
<1>2. \A r \in Runners : runner[r].pc = "ready" /\ runner[r].t = 0
    BY DEF Init, Fresh
<1> QED
    BY <1>1, <1>2 DEF SoloInv, LivesInv, SoloSlots, SlotOk, Underway, BatchingIsInvisible

\* A runner that a step leaves alone keeps its answer.
LEMMA AnswerKept ==
  ASSUME BatchingIsInvisible, NEW o \in Runners, runner'[o] = runner[o], runner'[o].pc = "answered"
  PROVE  /\ IsGrid(runner[o].buf, o, SoloWindow(runner[o].t))'
         /\ IsGrid(runner[o].prefix, o, SoloPrefix(runner[o].t))'
<1>1. Episode(o)' = Episode(o)
    BY DEF Episode
<1>2. /\ IsGrid(runner[o].buf, o, SoloWindow(runner[o].t))
      /\ IsGrid(runner[o].prefix, o, SoloPrefix(runner[o].t))
    BY DEF BatchingIsInvisible
<1> QED
    BY <1>1, <1>2 DEF IsGrid

LEMMA SoloClient ==
  ASSUME ServingInv, SoloInv, NEW r \in Runners,
         Ask(r) \/ NextRequest(r) \/ NextEpisode(r) \/ Finish(r) \/ Crash(r) \/ Restart(r)
  PROVE  SoloInv'
<1>1. /\ LivesInv /\ SoloSlots /\ BatchingIsInvisible
      /\ runner \in [Runners -> RunnerType] /\ runner[r] \in RunnerType /\ Len(Line) \in Nat
      /\ \A i \in 1..Len(Line) : Line[i] \in Requests /\ Line[i].run \in Runners
    BY ServingParts, LineTyped DEF SoloInv, RunnersTyped
<1>2. /\ UNCHANGED slots
      /\ \A o \in Runners \ {r} : runner'[o] = runner[o]
      /\ \A o \in Runners \ {r} : RequestOf(o)' = RequestOf(o) /\ Episode(o)' = Episode(o)
    BY <1>1 DEF Ask, NextRequest, NextEpisode, Finish, Acts, Crash, Restart, RequestOf, Episode
\* Enough to look at r itself: its requests, and its slot.
<1>3. ASSUME LivesInv', SlotOk(slots[EnvOf[r]], r, runner'[r], Episode(r)'), runner'[r].pc # "answered"
      PROVE  SoloInv'
    <2>1. SoloSlots'
        BY <1>1, <1>2, <1>3 DEF SoloSlots
    <2>2. ASSUME NEW o \in Runners, runner'[o].pc = "answered"
          PROVE  /\ IsGrid(runner[o].buf, o, SoloWindow(runner[o].t))'
                 /\ IsGrid(runner[o].prefix, o, SoloPrefix(runner[o].t))'
        <3>1. o # r /\ runner'[o] = runner[o]
            BY <1>2, <1>3, <2>2
        <3> QED
            BY <1>1, <2>2, <3>1, AnswerKept
    <2> QED
        BY <1>3, <2>1, <2>2 DEF SoloInv, BatchingIsInvisible
<1>4. ASSUME UNCHANGED Line,
             \A i \in 1..Len(Line) : Line[i].run = r => LifeOk(Line[i], runner'[r], RequestOf(r)')
      PROVE  LivesInv'
    <2>1. ASSUME NEW o \in Runners, NEW i \in 1..Len(Line), Line[i].run = o
          PROVE  LifeOk(Line[i], runner'[o], RequestOf(o)')
        <3>1. CASE o = r
            BY <1>4, <2>1, <3>1
        <3>2. CASE o # r
            <4>1. LifeOk(Line[i], runner[o], RequestOf(o))
                BY <1>1, <2>1 DEF LivesInv
            <4>2. runner'[o] = runner[o] /\ RequestOf(o)' = RequestOf(o)
                BY <1>2, <3>2
            <4> QED
                BY <4>1, <4>2
        <3> QED
            BY <3>1, <3>2
    <2> QED
        BY <1>1, <1>4, <2>1 DEF LivesInv
<1>5. CASE Ask(r)
    <2>1. /\ runner[r].pc = "ready" /\ runner'[r].pc = "waiting" /\ runner'[r].life = runner[r].life
          /\ runner'[r].t = runner[r].t /\ runner'[r].at = runner[r].at
        BY <1>1, <1>5 DEF Ask, RunnerType
    <2>2. RequestOf(r)' = RequestOf(r) /\ Episode(r)' = Episode(r)
        BY <2>1 DEF RequestOf, Episode
    <2>3. /\ Len(Line') = Len(Line) + 1 /\ Line'[Len(Line) + 1] = RequestOf(r)
          /\ \A i \in 1..Len(Line) : Line'[i] = Line[i]
        BY <1>5, AskLine
    <2>4. ASSUME NEW i \in 1..Len(Line), Line[i].run = r
          PROVE  Line[i].life < runner[r].life /\ LifeOk(Line[i], runner'[r], RequestOf(r)')
        <3>1. LifeOk(Line[i], runner[r], RequestOf(r))
            BY <1>1, <2>4 DEF LivesInv
        <3>2. Line[i].life \in Int /\ runner[r].life \in Int
            BY <1>1, PlanFacts DEF Requests, RunnerType
        <3> QED
            BY <2>1, <3>1, <3>2 DEF LifeOk, Alive, Served
    <2>5. ASSUME NEW o \in Runners, NEW i \in 1..Len(Line'), Line'[i].run = o
          PROVE  LifeOk(Line'[i], runner'[o], RequestOf(o)')
        <3>1. CASE i = Len(Line) + 1
            <4>1. Line'[i] = RequestOf(r) /\ Line'[i].run = r /\ Line'[i].life = runner[r].life
                BY <2>3, <3>1 DEF RequestOf
            <4>2. LifeOk(RequestOf(r), runner'[r], RequestOf(r)')
                <5>1. RequestOf(r).life = runner'[r].life /\ runner[r].life \in Int
                    BY <1>1, <2>1, PlanFacts DEF RequestOf, RunnerType
                <5> QED
                    BY <2>1, <2>2, <5>1 DEF LifeOk
            <4>3. o = r
                BY <2>5, <4>1
            <4> QED
                BY <4>1, <4>2, <4>3
        <3>2. CASE i # Len(Line) + 1
            <4>1. i \in 1..Len(Line) /\ Line'[i] = Line[i]
                BY <1>1, <2>3, <3>2
            <4>2. CASE o = r
                BY <2>4, <2>5, <4>1, <4>2
            <4>3. CASE o # r
                <5>1. LifeOk(Line[i], runner[o], RequestOf(o))
                    BY <1>1, <2>5, <4>1 DEF LivesInv
                <5>2. runner'[o] = runner[o] /\ RequestOf(o)' = RequestOf(o)
                    BY <1>2, <4>3
                <5> QED
                    BY <4>1, <5>1, <5>2
            <4> QED
                BY <4>2, <4>3
        <3> QED
            BY <3>1, <3>2
    <2>6. \A i, j \in 1..Len(Line') :
              i < j /\ Line'[i].run = Line'[j].run => Line'[i].life < Line'[j].life
        <3>1. RequestOf(r).run = r /\ RequestOf(r).life = runner[r].life
            BY DEF RequestOf
        <3> QED
            BY <1>1, <2>3, <2>4, <3>1 DEF LivesInv
    <2>7. LivesInv'
        BY <2>5, <2>6 DEF LivesInv
    <2>8. SlotOk(slots[EnvOf[r]], r, runner'[r], Episode(r)')
        <3>1. SlotOk(slots[EnvOf[r]], r, runner[r], Episode(r))
            BY <1>1 DEF SoloSlots
        <3> QED
            BY <2>1, <2>2, <3>1 DEF SlotOk, Underway, Alive, Reached
    <2> QED
        BY <1>3, <2>1, <2>7, <2>8
<1>6. CASE Crash(r)
    <2>1. /\ runner'[r].pc = "dead" /\ runner'[r].life = runner[r].life /\ UNCHANGED Line
        BY <1>1, <1>6 DEF Crash, RunnerType, Line
    <2>2. LivesInv'
        BY <1>1, <1>4, <2>1 DEF LivesInv, LifeOk, Alive
    <2>3. SlotOk(slots[EnvOf[r]], r, runner'[r], Episode(r)')
        BY <2>1 DEF SlotOk, Underway, Alive
    <2> QED
        BY <1>3, <2>1, <2>2, <2>3
<1>7. CASE Restart(r)
    <2>1. /\ runner'[r].pc = "ready" /\ runner'[r].life = runner[r].life + 1 /\ UNCHANGED Line
          /\ runner'[r].t = 0 /\ runner'[r].at = 1
        BY <1>1, <1>7 DEF Restart, Fresh, Line
    <2>2. ASSUME NEW i \in 1..Len(Line), Line[i].run = r PROVE LifeOk(Line[i], runner'[r], RequestOf(r)')
        <3>1. Line[i].life <= runner[r].life
            BY <1>1, <2>2 DEF LivesInv, LifeOk
        <3>2. Line[i].life \in Int /\ runner[r].life \in Int
            BY <1>1, PlanFacts DEF Requests, RunnerType
        <3> QED
            BY <2>1, <3>1, <3>2 DEF LifeOk, Served
    <2>3. SlotOk(slots[EnvOf[r]], r, runner'[r], Episode(r)')
        BY <2>1 DEF SlotOk, Underway
    <2> QED
        BY <1>3, <1>4, <2>1, <2>2, <2>3
<1>8. ASSUME NEW pc \in {"ready", "done"}, NEW at, NEW t, Acts(r, pc, at, t),
             \/ pc = "done" \/ t = 0
             \/ at = runner[r].at /\ t = runner[r].t + 1
      PROVE  SoloInv'
    <2>1. runner[r].pc = "answered" /\ UNCHANGED Line
        BY <1>8 DEF Acts, Line
    <2>2. /\ runner'[r].pc = pc /\ runner'[r].life = runner[r].life /\ runner'[r].at = at
          /\ runner'[r].t = t
        BY <1>1, <1>8 DEF Acts, RunnerType
    <2>3. ASSUME NEW i \in 1..Len(Line), Line[i].run = r PROVE FALSE
        <3>1. LifeOk(Line[i], runner[r], RequestOf(r))
            BY <1>1, <2>3 DEF LivesInv
        <3> QED
            BY <2>1, <3>1 DEF LifeOk, Alive, Served
    <2>4. LivesInv'
        BY <1>4, <2>1, <2>3
    <2>5. SlotOk(slots[EnvOf[r]], r, runner'[r], Episode(r)')
        <3>1. CASE pc = "done" \/ t = 0
            BY <1>8, <2>2, <3>1 DEF SlotOk, Underway, Alive
        <3>2. CASE pc = "ready" /\ at = runner[r].at /\ t = runner[r].t + 1
            <4>1. Episode(r)' = Episode(r)
                BY <2>2, <3>2 DEF Episode
            <4>2. SlotOk(slots[EnvOf[r]], r, runner[r], Episode(r))
                BY <1>1 DEF SoloSlots
            <4>3. Underway(runner[r]) /\ Reached(runner'[r]) = Reached(runner[r])
                <5>1. runner[r].t \in Int
                    BY <1>1 DEF RunnerType, Times
                <5> QED
                    BY <2>1, <2>2, <3>2, <5>1 DEF Underway, Alive, Reached
            <4> QED
                BY <2>2, <4>1, <4>2, <4>3 DEF SlotOk
        <3> QED
            BY <1>8, <3>1, <3>2
    <2> QED
        BY <1>3, <1>8, <2>2, <2>4, <2>5
<1>9. CASE NextRequest(r) \/ NextEpisode(r) \/ Finish(r)
    BY <1>8, <1>9 DEF NextRequest, NextEpisode, Finish
<1> QED
    BY <1>5, <1>6, <1>7, <1>9

LEMMA ServedSlots ==
  ASSUME ServingInv, NEW batch \in Seq(Requests), Serve(batch), NEW i \in 1..Len(batch)
  PROVE  slots'[Env(batch[i])] = Prepared(batch[i])
<1> DEFINE taken == [j \in DOMAIN batch |-> Prepared(batch[j])]
<1>1. /\ Valid(batch) /\ i \in DOMAIN batch /\ batch[i] \in Requests
      /\ slots' = Written(batch, taken)
    BY LenProperties, ElementOfSeq DEF Serve
<1>2. Env(batch[i]) \in Envs
    BY <1>1, ServingAssumption DEF ServingAssumption, Env, Requests
<1>3. (CHOOSE j \in DOMAIN batch : Env(batch[j]) = Env(batch[i])) = i
    BY <1>1 DEF Valid, Distinct
<1>4. taken[i] = Prepared(batch[i])
    BY <1>1
<1> HIDE DEF taken
<1> QED
    BY <1>1, <1>2, <1>3, <1>4 DEF Written

LEMMA SoloServer ==
  ASSUME ServingInv, RefusalInv, PlansApart, SoloInv, ServerStep
  PROVE  SoloInv'
<1>1. /\ LivesInv /\ SoloSlots /\ BatchingIsInvisible /\ PlannedInv /\ SlotsFine
      /\ runner \in [Runners -> RunnerType] /\ Len(Line) \in Nat
      /\ \A i \in 1..Len(Line) : Line[i] \in Requests /\ Line[i].run \in Runners
    BY ServingParts, LineTyped DEF SoloInv, RunnersTyped, RefusalInv
<1>2. ASSUME SplitWindow, Line' = Line PROVE SoloInv'
    <2>1. UNCHANGED <<runner, slots>>
        BY <1>2 DEF SplitWindow
    <2>2. LivesInv' /\ SoloSlots'
        BY <1>1, <1>2, <2>1 DEF LivesInv, SoloSlots, RequestOf, Episode
    <2> QED
        BY <1>1, <2>1, <2>2, AnswerKept DEF SoloInv, BatchingIsInvisible
<1>3. ASSUME NEW n \in 1..Len(Line), NEW batch \in Seq(Requests),
             Len(batch) = n, \A i \in 1..n : batch[i] = Line[i], Takes(n),
             Offer(batch) \/ Reject(batch)
      PROVE  SoloInv'
    <2>1. /\ DOMAIN batch = 1..n /\ 1..n \subseteq 1..Len(Line) /\ n \in Nat \ {0}
          /\ \A i \in 1..Len(Line') : i + n \in 1..Len(Line) /\ Line'[i] = Line[i + n]
          /\ \A i, j \in 1..Len(Line') : i < j => i + n < j + n
        BY <1>1, <1>3, LenProperties DEF Takes
\* The request that a client waits for is the one the batch has of it.
    <2>2. ASSUME NEW o \in Runners, Awaits(o, batch)
          PROVE  \E k \in 1..n : Line[k] = RequestOf(o) /\ Line[k].run = o /\ Line[k].life = runner[o].life
        <3>1. PICK k \in 1..n : batch[k].run = o /\ batch[k].life = runner[o].life
            BY <2>1, <2>2 DEF Awaits
        <3>2. LifeOk(Line[k], runner[o], RequestOf(o)) /\ runner[o].pc = "waiting"
            BY <1>1, <1>3, <2>1, <2>2, <3>1 DEF LivesInv, Awaits
        <3> QED
            BY <1>3, <3>1, <3>2 DEF LifeOk
    <2>3. LivesInv'
        <3>1. ASSUME NEW o \in Runners, NEW i \in 1..Len(Line'), Line'[i].run = o
              PROVE  LifeOk(Line'[i], runner'[o], RequestOf(o)')
            <4>1. i + n \in 1..Len(Line) /\ Line'[i] = Line[i + n] /\ Line[i + n].run = o
                BY <2>1, <3>1
            <4>2. LifeOk(Line[i + n], runner[o], RequestOf(o))
                BY <1>1, <4>1 DEF LivesInv
            <4>3. CASE ~Awaits(o, batch)
                <5>1. runner'[o] = runner[o]
                    BY <1>3, <4>3, BatchRunners
                <5>2. RequestOf(o)' = RequestOf(o)
                    BY <5>1 DEF RequestOf, Episode
                <5> QED
                    BY <4>1, <4>2, <5>1, <5>2
            <4>4. CASE Awaits(o, batch)
                <5>1. PICK k \in 1..n : Line[k].run = o /\ Line[k].life = runner[o].life
                    BY <2>2, <4>4
                <5>2. k \in 1..Len(Line) /\ k < i + n
                    BY <2>1, <3>1
                <5>3. Line[k].life < Line[i + n].life
                    BY <1>1, <4>1, <5>1, <5>2 DEF LivesInv
                <5>4. Line[i + n].life \in Int /\ Line[k].life \in Int
                    BY <1>1, <4>1, <5>2, PlanFacts DEF Requests
                <5> QED
                    BY <4>2, <5>1, <5>3, <5>4 DEF LifeOk
            <4> QED
                BY <4>3, <4>4
        <3>2. ASSUME NEW i \in 1..Len(Line'), NEW j \in 1..Len(Line'), i < j, Line'[i].run = Line'[j].run
              PROVE  Line'[i].life < Line'[j].life
            BY <1>1, <2>1, <3>2 DEF LivesInv
        <3> QED
            BY <3>1, <3>2 DEF LivesInv
\* The client that is answered: its slot was its own, one step behind.
    <2>4. ASSUME NEW o \in Runners, Awaits(o, batch), runner'[o].pc = "answered"
          PROVE  /\ Follows(slots'[EnvOf[o]], o, runner[o].life, Episode(o), runner[o].t)
                 /\ runner'[o].buf = slots'[EnvOf[o]].buf /\ runner'[o].prefix = slots'[EnvOf[o]].prefix
        <3>1. PICK k \in 1..n : Line[k] = RequestOf(o) /\ Line[k].run = o
            BY <2>2, <2>4
        <3> DEFINE q == batch[k]
        <3>2. q = RequestOf(o) /\ q \in Requests /\ k \in 1..Len(batch)
            BY <1>1, <1>3, <2>1, <3>1
        <3>3. /\ q.run = o /\ q.life = runner[o].life /\ q.ep = Episode(o) /\ q.t = runner[o].t
              /\ q.repin = (q.t \in Boundaries) /\ Env(q) = EnvOf[o] /\ q.t \in Nat
            BY <3>2, PlanFacts DEF RequestOf, Env, Requests, Times
        <3>4. /\ Serve(batch)
              /\ runner'[o].buf = slots'[EnvOf[o]].buf /\ runner'[o].prefix = slots'[EnvOf[o]].prefix
            BY <1>3, <2>4, BatchRunners
        <3>5. slots'[EnvOf[o]] = Prepared(q)
            BY <3>2, <3>3, <3>4, ServedSlots
        <3>6. q.t = 0 \/ (Continues(q) /\ Follows(slots[Env(q)], q.run, q.life, q.ep, q.t - 1))
            <4>1. ASSUME q.t > 0
                  PROVE  Continues(q) /\ Follows(slots[Env(q)], q.run, q.life, q.ep, q.t - 1)
                <5>1. Continues(q)
                    BY <2>1, <3>4, <4>1 DEF Serve, Valid
                <5>2. SlotOk(slots[EnvOf[o]], o, runner[o], Episode(o))
                    BY <1>1 DEF SoloSlots
                <5>3. Underway(runner[o]) /\ Reached(runner[o]) = q.t - 1
                    BY <2>4, <3>3, <4>1 DEF Awaits, Underway, Alive, Reached
                <5> HIDE DEF q
                <5> QED
                    BY <3>3, <5>1, <5>2, <5>3 DEF SlotOk, Continues
            <4> QED
                BY <3>3, <4>1
        <3> HIDE DEF q
        <3>7. Follows(Prepared(q), q.run, q.life, q.ep, q.t)
            BY <1>1, <3>2, <3>3, <3>6, PreparedFollows DEF SlotsFine
        <3> QED
            BY <3>3, <3>4, <3>5, <3>7
    <2>5. ASSUME NEW o \in Runners PROVE SlotOk(slots'[EnvOf[o]], o, runner'[o], Episode(o)')
        <3>1. CASE Awaits(o, batch)
            <4>1. /\ runner'[o].life = runner[o].life /\ runner'[o].t = runner[o].t
                  /\ runner'[o].at = runner[o].at /\ runner'[o].pc \in {"dead", "answered"}
                BY <1>3, <3>1, BatchRunners
            <4>2. Episode(o)' = Episode(o)
                BY <4>1 DEF Episode
            <4> QED
                BY <2>4, <3>1, <4>1, <4>2 DEF SlotOk, Underway, Alive, Reached
        <3>2. CASE ~Awaits(o, batch)
            <4>1. runner'[o] = runner[o] /\ Episode(o)' = Episode(o)
                BY <1>3, <3>2, BatchRunners DEF Episode
            <4>2. SlotOk(slots[EnvOf[o]], o, runner[o], Episode(o))
                BY <1>1 DEF SoloSlots
            <4>3. CASE slots'[EnvOf[o]] = slots[EnvOf[o]]
                BY <4>1, <4>2, <4>3
            <4>4. CASE slots'[EnvOf[o]] # slots[EnvOf[o]]
                <5> SUFFICES ASSUME Underway(runner[o]), slots'[EnvOf[o]].ep = Episode(o) PROVE FALSE
                    BY <4>1 DEF SlotOk
                <5>1. Offer(batch)
                    BY <1>3, <4>4 DEF Reject
                <5>2. PICK k \in 1..n : Env(batch[k]) = EnvOf[o]
                    BY <1>3, <4>4, <5>1, OfferSlots, PlanFacts
                <5>3. slots'[EnvOf[o]].ep = Line[k].ep /\ k \in 1..Len(Line) /\ batch[k] = Line[k]
                    BY <1>3, <2>1, <5>1, <5>2, OfferSlots
                <5>4. CASE Line[k].run = o
                    <6>1. LifeOk(Line[k], runner[o], RequestOf(o))
                        BY <1>1, <5>3, <5>4 DEF LivesInv
                    <6>2. runner[o].pc = "waiting" /\ Line[k].life = runner[o].life
                        BY <6>1 DEF LifeOk, Underway, Alive, Served
                    <6> QED
                        BY <2>1, <3>2, <5>3, <5>4, <6>2 DEF Awaits
                <5>5. CASE Line[k].run # o
                    <6>1. PlansEpisode(Line[k].run, Line[k].ep) /\ Line[k].ep = Episode(o)
                        BY <1>1, <5>3 DEF PlannedInv
                    <6>2. runner[o].at \in DOMAIN Plan[o] /\ Episode(o) \in Episodes
                        <7>1. runner[o].at \in 1..Len(Plan[o])
                            BY <1>1, ServingParts, PlanFacts DEF RunnersTyped, RunnerType
                        <7> QED
                            BY <7>1, PlanFacts, ElementOfSeq, LenProperties DEF Episode
                    <6>3. PlansEpisode(o, Episode(o))
                        BY <6>2 DEF PlansEpisode, Episode
                    <6>4. EnvOf[Line[k].run] = EnvOf[o] /\ Line[k].run \in Runners
                        BY <1>1, <5>2, <5>3 DEF Env
                    <6> QED
                        BY <5>5, <6>1, <6>2, <6>3, <6>4 DEF PlansApart
                <5> QED
                    BY <5>4, <5>5
            <4> QED
                BY <4>3, <4>4
        <3> QED
            BY <3>1, <3>2
    <2>6. ASSUME NEW o \in Runners, runner'[o].pc = "answered"
          PROVE  /\ IsGrid(runner[o].buf, o, SoloWindow(runner[o].t))'
                 /\ IsGrid(runner[o].prefix, o, SoloPrefix(runner[o].t))'
        <3>1. CASE Awaits(o, batch)
            <4>1. /\ runner'[o].life = runner[o].life /\ runner'[o].t = runner[o].t
                  /\ runner'[o].at = runner[o].at
                BY <1>3, <3>1, BatchRunners
            <4>2. Episode(o)' = Episode(o)
                BY <4>1 DEF Episode
            <4>3. /\ Grid(runner'[o].buf, o, runner[o].life, Episode(o), SoloWindow(runner[o].t))
                  /\ Grid(runner'[o].prefix, o, runner[o].life, Episode(o), SoloPrefix(runner[o].t))
                BY <2>4, <2>6, <3>1 DEF Follows
            <4> QED
                BY <4>1, <4>2, <4>3 DEF IsGrid, Grid
        <3>2. CASE ~Awaits(o, batch)
            <4>1. runner'[o] = runner[o]
                BY <1>3, <3>2, BatchRunners
            <4> QED
                BY <1>1, <2>6, <4>1, AnswerKept
        <3> QED
            BY <3>1, <3>2
    <2>7. SoloSlots' /\ BatchingIsInvisible'
        BY <2>5, <2>6 DEF SoloSlots, BatchingIsInvisible
    <2> QED
        BY <2>3, <2>7 DEF SoloInv
<1> QED
    BY <1>2, <1>3, ServerLine

\* Batching is invisible: for any runners, environments, plans, batch sizes,
\* boundaries and window sizes, any order of arrival, any failures and any
\* restarts, the window and the prefix behind an answer of the server are the
\* ones its client would have had alone, if runners that are given one
\* environment are given different episodes.
THEOREM InvisibleTheorem == ASSUME PlansApart PROVE Spec => []BatchingIsInvisible
<1>1. ServingInv /\ RefusalInv /\ SoloInv /\ [Next]_vars => SoloInv'
    <2>1. ServingInv /\ RefusalInv /\ SoloInv /\ Next => SoloInv'
        BY PlansApart, SoloClient, SoloServer DEF Next
    <2>2. ASSUME SoloInv, UNCHANGED vars PROVE SoloInv'
        <3>1. UNCHANGED <<runner, slots>> /\ Line' = Line
            BY <2>2 DEF vars, Line
        <3>2. LivesInv' /\ SoloSlots'
            BY <2>2, <3>1 DEF SoloInv, LivesInv, SoloSlots, RequestOf, Episode
        <3>3. BatchingIsInvisible'
            BY <2>2, <3>1, AnswerKept DEF SoloInv, BatchingIsInvisible
        <3> QED
            BY <3>2, <3>3 DEF SoloInv
    <2> QED
        BY <2>1, <2>2
<1>2. SoloInv => BatchingIsInvisible
    BY DEF SoloInv
<1> QED
    BY <1>1, <1>2, SoloInit, RefusalInvHolds, ServingInvHolds, PTL DEF Spec
=============================================================================
