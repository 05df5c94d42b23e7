---------------------------- MODULE BatchGatherProofs ----------------------------
(***************************************************************************)
(* Proofs about BatchGather for any callers, closers, batch size and       *)
(* buckets: every row comes back to its request, no request is lost or     *)
(* settled twice, and a caller that waits gets its turn.                   *)
(***************************************************************************)
EXTENDS BatchGather, SequenceTheorems, WellFoundedInduction, TLAPS

-----------------------------------------------------------------------------
(* Chunks and padding                                                      *)

LEMMA BucketsFacts ==
  /\ Widest \in Nat \ {0} /\ Widest \in Buckets
  /\ \A n \in 0..Widest : BucketSize(n) \in Nat /\ n <= BucketSize(n)
<1>1. Buckets \subseteq Nat \ {0}
    BY GatherAssumption DEF GatherAssumption
<1>2. PICK widest \in Buckets : \A k \in Buckets : k <= widest
    BY GatherAssumption DEF GatherAssumption
<1>3. Widest \in Buckets /\ \A j \in Buckets : j <= Widest
    BY <1>2 DEF Widest
<1>4. ASSUME NEW n \in 0..Widest PROVE BucketSize(n) \in Nat /\ n <= BucketSize(n)
    <2> DEFINE wide == {k \in Buckets : k >= n}
    <2>0. Widest \in Nat /\ n \in Nat /\ Widest >= n
        BY <1>1, <1>3
    <2>1. wide \subseteq Nat /\ Widest \in wide
        BY <1>1, <1>3, <2>0
    <2>2. PICK k \in wide : \A j \in wide : ~ (<<j, k>> \in OpToRel(<, Nat))
        BY <2>1, WFMin, NatLessThanWellFounded
    <2>3. \A j \in wide : ~ (j < k)
        BY <2>1, <2>2 DEF OpToRel
    <2>4. k \in Buckets /\ k >= n /\ \A j \in Buckets : j >= n => k <= j
        BY <1>1, <2>3
    <2>5. BucketSize(n) \in Buckets /\ BucketSize(n) >= n
        BY <2>4 DEF BucketSize
    <2> QED
        BY <1>1, <2>5
<1> QED
    BY <1>1, <1>3, <1>4

\* Every request of a batch comes back in its own place.
LEMMA RowsAreOwn ==
  ASSUME NEW S, NEW batch \in Seq(S), NEW i \in DOMAIN batch
  PROVE  Rows(batch)[i] = batch[i]
<1> DEFINE start == ChunkStart(i)
           last == IF start + Widest - 1 < Len(batch) THEN start + Widest - 1 ELSE Len(batch)
           chunk == ChunkAt(batch, start)
<1>1. Widest \in Nat \ {0} /\ i \in 1..Len(batch) /\ Len(batch) \in Nat
    BY BucketsFacts
<1>2. (i - 1) % Widest \in 0..(Widest - 1) /\ (i - 1) % Widest <= i - 1
    BY <1>1
<1>3. start \in 1..i /\ i - start + 1 \in 1..Widest
    BY <1>1, <1>2 DEF ChunkStart
<1>4. last \in i..Len(batch) /\ last - start + 1 \in 1..Widest
    BY <1>1, <1>3
<1>5. chunk = SubSeq(batch, start, last)
    BY DEF ChunkAt
<1>6. Len(chunk) = last - start + 1 /\ chunk[i - start + 1] = batch[i]
    <2>1. start \in 1..Len(batch) + 1 /\ last \in start - 1..Len(batch)
        BY <1>1, <1>3, <1>4
    <2> HIDE DEF start, last, chunk
    <2>2. /\ Len(chunk) = IF start <= last THEN last - start + 1 ELSE 0
          /\ \A j \in 1..(last - start + 1) : chunk[j] = batch[start + j - 1]
        BY <1>1, <1>5, <2>1, SubSeqProperties
    <2>3. start <= last /\ i - start + 1 \in 1..(last - start + 1) /\ start + (i - start + 1) - 1 = i
        BY <1>1, <1>3, <1>4
    <2> QED
        BY <2>2, <2>3
<1>7. BucketSize(Len(chunk)) \in Nat /\ Len(chunk) <= BucketSize(Len(chunk))
    BY <1>1, <1>4, <1>6, BucketsFacts
<1>8. Padded(chunk)[i - start + 1] = chunk[i - start + 1]
    BY <1>1, <1>3, <1>4, <1>6, <1>7 DEF Padded
<1> QED
    BY <1>6, <1>8 DEF Rows

-----------------------------------------------------------------------------
(* The inductive invariant                                                 *)

Pending(c) == call[c].pc = "waiting" /\ call[c].future = None
Open(request) == \E c \in Callers : request = Request(c) /\ Pending(c)

\* What stands in the queue and in the batch is of callers that wait for it, and
\* of each exactly once.
PlacesInv ==
    /\ \A i \in 1..Len(queue) : queue[i] # Sentinel => Open(queue[i])
    /\ \A i, j \in 1..Len(queue) : queue[i] = queue[j] /\ queue[i] # Sentinel => i = j
    /\ \A i \in 1..Len(worker.batch) : Open(worker.batch[i])
    /\ \A i, j \in 1..Len(worker.batch) : worker.batch[i] = worker.batch[j] => i = j
    /\ \A i \in 1..Len(queue), j \in 1..Len(worker.batch) : queue[i] # worker.batch[j]
    /\ \A c \in Callers : Pending(c) =>
          \/ \E i \in 1..Len(queue) : queue[i] = Request(c)
          \/ \E i \in 1..Len(worker.batch) : worker.batch[i] = Request(c)

\* A batch is held only while it is gathered and dispatched; a caller that does
\* not wait has no future, and one that is in a call has counted it.
RestInv ==
    /\ worker.pc \in {"take", "drain", "stopped"} => worker.batch = <<>>
    /\ \A c \in Callers : call[c].pc # "waiting" => call[c].future = None
    /\ \A c \in Callers : call[c].pc # "idle" => call[c].n > 0

GatherInv == GatherTypeOK /\ OwnRow /\ PlacesInv /\ RestInv

CallType == [pc : {"idle", "checked", "waiting"}, n : 0..MaxCalls, future : Futures]

LEMMA Distinctions ==
  /\ Sentinel \notin Requests /\ None \notin Requests /\ Error \notin Requests /\ Error # None
  /\ MaxCalls \in Nat
  /\ \A c \in Callers, n \in 0..MaxCalls : <<c, n>> # Sentinel
BY GatherAssumption DEF GatherAssumption, Requests

\* The places depend on the calls, the queue and the batch alone.
LEMMA SamePlaces ==
  ASSUME GatherInv, UNCHANGED <<call, queue>>, worker'.batch = worker.batch
  PROVE  PlacesInv' /\ OwnRow'
<1>1. \A c \in Callers : Request(c)' = Request(c) /\ (Pending(c)' <=> Pending(c))
    BY DEF Request, Pending
<1>2. \A q : Open(q)' <=> Open(q)
    BY <1>1 DEF Open
<1>3. PlacesInv'
    <2>1. PlacesInv
        BY DEF GatherInv
    <2> QED
        BY <1>1, <1>2, <2>1 DEF PlacesInv
<1>4. OwnRow'
    <2>1. OwnRow
        BY DEF GatherInv
    <2> QED
        BY <1>1, <2>1 DEF OwnRow
<1> QED
    BY <1>3, <1>4

LEMMA RequestFacts ==
  ASSUME GatherTypeOK, RestInv, NEW c \in Callers, call[c].pc # "idle"
  PROVE  Request(c) \in Requests
BY Distinctions DEF Request, Requests, GatherTypeOK, RestInv

\* Futures are set, for the requests in value and for no others.
LEMMA SettleEffect ==
  ASSUME GatherTypeOK, OwnRow, RestInv, NEW value, Settle(value),
         \A q \in DOMAIN value : q \in Requests /\ value[q] \in {Error, q}
  PROVE  /\ call' \in [Callers -> CallType] /\ OwnRow'
         /\ \A c \in Callers : /\ Request(c)' = Request(c)
                               /\ Pending(c)' <=> Pending(c) /\ Request(c) \notin DOMAIN value
                               /\ (call[c].pc # "waiting" => call[c].future = None)'
                               /\ (call[c].pc # "idle" => call[c].n > 0)'
<1>1. call \in [Callers -> CallType]
    BY DEF GatherTypeOK, CallType
<1>2. ASSUME NEW c \in Callers
      PROVE  /\ call'[c] \in CallType /\ call'[c].n = call[c].n /\ call'[c].pc = call[c].pc
             /\ call'[c].future = IF Request(c) \in DOMAIN value /\ call[c].pc = "waiting"
                                  THEN value[Request(c)] ELSE call[c].future
    <2>1. CASE Request(c) \in DOMAIN value /\ call[c].pc = "waiting"
        <3>1. value[Request(c)] \in Futures
            BY <2>1 DEF Futures
        <3>2. call'[c] = [call[c] EXCEPT !.future = value[Request(c)]]
            BY <2>1 DEF Settle
        <3> QED
            BY <1>1, <2>1, <3>1, <3>2 DEF CallType
    <2>2. CASE ~(Request(c) \in DOMAIN value /\ call[c].pc = "waiting")
        <3>1. call'[c] = call[c]
            BY <2>2 DEF Settle
        <3> QED
            BY <1>1, <2>2, <3>1
    <2> QED
        BY <2>1, <2>2
<1>3. call' \in [Callers -> CallType]
    <2>1. call' = [c \in Callers |-> call'[c]]
        BY DEF Settle
    <2> QED
        BY <1>2, <2>1
<1>4. \A c \in Callers : Request(c)' = Request(c)
    BY <1>2 DEF Request
<1>5. OwnRow'
    BY <1>2, <1>4 DEF OwnRow
<1>6. ASSUME NEW c \in Callers
      PROVE  /\ Pending(c)' <=> Pending(c) /\ Request(c) \notin DOMAIN value
             /\ (call[c].pc # "waiting" => call[c].future = None)'
             /\ (call[c].pc # "idle" => call[c].n > 0)'
    <2>1. Request(c) \in DOMAIN value => value[Request(c)] # None
        BY Distinctions
    <2> QED
        BY <1>2, <2>1 DEF Pending, RestInv
<1> QED
    BY <1>3, <1>4, <1>5, <1>6

\* The head of the queue and what follows it.
LEMMA HeadFacts ==
  ASSUME GatherTypeOK, queue # <<>>
  PROVE  /\ Len(queue) \in Nat \ {0} /\ queue[1] = Head(queue)
         /\ Head(queue) \in Requests \union {Sentinel}
         /\ Tail(queue) \in Seq(Requests \union {Sentinel}) /\ Len(Tail(queue)) = Len(queue) - 1
         /\ \A i \in 1..Len(queue) - 1 : Tail(queue)[i] = queue[i + 1]
<1>1. queue \in Seq(Requests \union {Sentinel})
    BY DEF GatherTypeOK
<1>2. Len(queue) \in Nat \ {0} /\ queue[1] = Head(queue)
    BY <1>1, EmptySeq
<1> QED
    BY <1>1, <1>2, HeadTailProperties

\* Whoever drains the queue: its first request goes, with an error for its caller.
LEMMA PopStep ==
  ASSUME GatherInv, Pop, worker'.batch = worker.batch
  PROVE  /\ PlacesInv' /\ OwnRow' /\ call' \in [Callers -> CallType]
         /\ queue' \in Seq(Requests \union {Sentinel})
         /\ \A c \in Callers : /\ (call[c].pc # "waiting" => call[c].future = None)'
                               /\ (call[c].pc # "idle" => call[c].n > 0)'
<1> DEFINE value == Failed({Head(queue)} \ {Sentinel})
<1>1. GatherTypeOK /\ OwnRow /\ RestInv /\ PlacesInv /\ queue # <<>> /\ queue' = Tail(queue) /\ Settle(value)
    BY DEF GatherInv, Pop
<1>2. /\ Len(queue) \in Nat \ {0} /\ queue[1] = Head(queue)
      /\ Head(queue) \in Requests \union {Sentinel}
      /\ Tail(queue) \in Seq(Requests \union {Sentinel}) /\ Len(Tail(queue)) = Len(queue) - 1
      /\ \A i \in 1..Len(queue) - 1 : Tail(queue)[i] = queue[i + 1]
    BY <1>1, HeadFacts
<1>3. /\ DOMAIN value = {Head(queue)} \ {Sentinel}
      /\ \A q \in DOMAIN value : q \in Requests /\ value[q] \in {Error, q}
    BY <1>2 DEF Failed
<1> HIDE DEF value
<1>4. /\ call' \in [Callers -> CallType] /\ OwnRow'
      /\ \A c \in Callers : /\ Request(c)' = Request(c)
                            /\ Pending(c)' <=> Pending(c) /\ Request(c) \notin DOMAIN value
                            /\ (call[c].pc # "waiting" => call[c].future = None)'
                            /\ (call[c].pc # "idle" => call[c].n > 0)'
    BY <1>1, <1>3, SettleEffect
<1>5. ASSUME NEW q, Open(q), q # queue[1]
      PROVE  \E c \in Callers : q = Request(c) /\ Pending(c)'
    BY <1>2, <1>3, <1>4, <1>5 DEF Open
<1>6. Len(queue') = Len(queue) - 1 /\ \A i \in 1..Len(queue') : i + 1 \in 1..Len(queue) /\ queue'[i] = queue[i + 1]
    BY <1>1, <1>2
<1>7. ASSUME NEW i \in 1..Len(queue'), queue'[i] # Sentinel
      PROVE  \E c \in Callers : queue'[i] = Request(c) /\ Pending(c)'
    <2>1. i + 1 \in 1..Len(queue) /\ queue'[i] = queue[i + 1] /\ 1 \in 1..Len(queue) /\ i + 1 # 1
        BY <1>2, <1>6
    <2>2. Open(queue[i + 1]) /\ queue[i + 1] # queue[1]
        BY <1>1, <1>7, <2>1 DEF PlacesInv
    <2> QED
        BY <1>5, <2>1, <2>2
<1>8. ASSUME NEW i \in 1..Len(worker.batch)
      PROVE  \E c \in Callers : worker.batch[i] = Request(c) /\ Pending(c)'
    <2>1. Open(worker.batch[i]) /\ worker.batch[i] # queue[1]
        BY <1>1, <1>2 DEF PlacesInv
    <2> QED
        BY <1>5, <2>1
<1>9. \A i, j \in 1..Len(queue') : queue'[i] = queue'[j] /\ queue'[i] # Sentinel => i = j
    <2> SUFFICES ASSUME NEW i \in 1..Len(queue'), NEW j \in 1..Len(queue'), queue'[i] = queue'[j],
                        queue'[i] # Sentinel
                 PROVE  i = j
        OBVIOUS
    <2>1. i + 1 = j + 1
        BY <1>1, <1>6 DEF PlacesInv
    <2> QED
        BY <2>1
<1>10. \A i \in 1..Len(queue'), j \in 1..Len(worker.batch) : queue'[i] # worker.batch[j]
    BY <1>1, <1>6 DEF PlacesInv
<1>11. ASSUME NEW c \in Callers, Pending(c)'
       PROVE  \/ \E i \in 1..Len(queue') : queue'[i] = Request(c)
              \/ \E i \in 1..Len(worker.batch) : worker.batch[i] = Request(c)
    <2>1. Pending(c) /\ (Request(c) = queue[1] => queue[1] = Sentinel)
        BY <1>2, <1>3, <1>4, <1>11
    <2>2. Request(c) # queue[1]
        BY <1>1, <2>1, RequestFacts, Distinctions DEF Pending
    <2>3. ASSUME NEW i \in 1..Len(queue), queue[i] = Request(c)
          PROVE  \E k \in 1..Len(queue') : queue'[k] = Request(c)
        <3>1. i - 1 \in 1..Len(queue') /\ (i - 1) + 1 = i
            BY <1>2, <1>6, <2>2, <2>3
        <3> QED
            BY <1>6, <2>3, <3>1
    <2> QED
        BY <1>1, <2>1, <2>3 DEF PlacesInv
<1>12. PlacesInv'
    <2>1. (\A i \in 1..Len(queue) : queue[i] # Sentinel => Open(queue[i]))'
        BY <1>4, <1>7 DEF Open
    <2>2. (\A i \in 1..Len(worker.batch) : Open(worker.batch[i]))'
        BY <1>4, <1>8 DEF Open
    <2> QED
        BY <1>1, <1>4, <1>9, <1>10, <1>11, <2>1, <2>2 DEF PlacesInv
<1> QED
    BY <1>1, <1>2, <1>4, <1>12

\* The worker moves the first item of the queue into its batch, or drops the
\* sentinel.
LEMMA MoveStep ==
  ASSUME GatherInv, queue # <<>>, queue' = Tail(queue), UNCHANGED call,
         \/ Head(queue) = Sentinel /\ worker'.batch = worker.batch
         \/ Head(queue) # Sentinel /\ worker'.batch = Append(worker.batch, Head(queue))
  PROVE  /\ PlacesInv' /\ queue' \in Seq(Requests \union {Sentinel})
         /\ worker'.batch \in Seq(Requests)
<1>1. GatherTypeOK /\ PlacesInv /\ worker.batch \in Seq(Requests) /\ Len(worker.batch) \in Nat
    BY DEF GatherInv, GatherTypeOK
<1>2. /\ Len(queue) \in Nat \ {0} /\ queue[1] = Head(queue)
      /\ Head(queue) \in Requests \union {Sentinel}
      /\ Tail(queue) \in Seq(Requests \union {Sentinel}) /\ Len(Tail(queue)) = Len(queue) - 1
      /\ \A i \in 1..Len(queue) - 1 : Tail(queue)[i] = queue[i + 1]
    BY <1>1, HeadFacts
<1>3. Len(queue') = Len(queue) - 1 /\ \A i \in 1..Len(queue') : i + 1 \in 1..Len(queue) /\ queue'[i] = queue[i + 1]
    BY <1>2
<1>4. \A q : Open(q)' <=> Open(q)
    BY DEF Open, Pending, Request
<1>5. \A c \in Callers : Request(c)' = Request(c) /\ (Pending(c)' <=> Pending(c))
    BY DEF Pending, Request
<1>6. 1 \in 1..Len(queue)
    BY <1>2
<1>7. \A i \in 1..Len(queue') : queue'[i] # Sentinel => Open(queue'[i]) /\ queue'[i] # queue[1]
    <2> SUFFICES ASSUME NEW i \in 1..Len(queue'), queue'[i] # Sentinel
                 PROVE  Open(queue'[i]) /\ queue'[i] # queue[1]
        OBVIOUS
    <2>1. i + 1 \in 1..Len(queue) /\ queue'[i] = queue[i + 1] /\ i + 1 # 1
        BY <1>2, <1>3
    <2> QED
        BY <1>1, <1>6, <2>1 DEF PlacesInv
<1>8. \A i, j \in 1..Len(queue') : queue'[i] = queue'[j] /\ queue'[i] # Sentinel => i = j
    <2> SUFFICES ASSUME NEW i \in 1..Len(queue'), NEW j \in 1..Len(queue'), queue'[i] = queue'[j],
                        queue'[i] # Sentinel
                 PROVE  i = j
        OBVIOUS
    <2>1. i + 1 = j + 1
        BY <1>1, <1>3 DEF PlacesInv
    <2> QED
        BY <2>1
<1>9. \A q : \A i \in 1..Len(queue) : queue[i] = q /\ q # queue[1] =>
          \E k \in 1..Len(queue') : queue'[k] = q
    <2> SUFFICES ASSUME NEW i \in 1..Len(queue), queue[i] # queue[1]
                 PROVE  \E k \in 1..Len(queue') : queue'[k] = queue[i]
        OBVIOUS
    <2>1. i - 1 \in 1..Len(queue') /\ (i - 1) + 1 = i
        BY <1>2, <1>3
    <2> QED
        BY <1>3, <2>1
<1>10. CASE Head(queue) = Sentinel /\ worker'.batch = worker.batch
    <2>1. \A c \in Callers : Pending(c) => Request(c) # queue[1]
        BY <1>1, <1>2, <1>10, RequestFacts, Distinctions DEF Pending, GatherInv
    <2>2. \A i \in 1..Len(queue'), j \in 1..Len(worker.batch) : queue'[i] # worker.batch[j]
        BY <1>1, <1>3 DEF PlacesInv
    <2>3. \A i, j \in 1..Len(worker.batch) : worker.batch[i] = worker.batch[j] => i = j
        BY <1>1 DEF PlacesInv
    <2>4. \A i \in 1..Len(worker.batch) : Open(worker.batch[i])
        BY <1>1 DEF PlacesInv
    <2>5. ASSUME NEW c \in Callers, Pending(c)
          PROVE  \/ \E i \in 1..Len(queue') : queue'[i] = Request(c)
                 \/ \E i \in 1..Len(worker.batch) : worker.batch[i] = Request(c)
        <3>1. CASE \E i \in 1..Len(queue) : queue[i] = Request(c)
            BY <1>9, <2>1, <2>5, <3>1
        <3> QED
            BY <1>1, <2>5, <3>1 DEF PlacesInv
    <2>6. PlacesInv'
        BY <1>4, <1>5, <1>7, <1>8, <1>10, <2>2, <2>3, <2>4, <2>5 DEF PlacesInv
    <2> QED
        BY <1>1, <1>2, <1>10, <2>6
<1>11. CASE Head(queue) # Sentinel /\ worker'.batch = Append(worker.batch, Head(queue))
    <2>1. Head(queue) \in Requests /\ Open(Head(queue))
        BY <1>1, <1>2, <1>6, <1>11 DEF PlacesInv
    <2> DEFINE n == Len(worker.batch)
    <2>2. /\ worker'.batch \in Seq(Requests) /\ Len(worker'.batch) = n + 1
          /\ \A i \in 1..n : worker'.batch[i] = worker.batch[i]
          /\ worker'.batch[n + 1] = queue[1]
        BY <1>1, <1>2, <1>11, <2>1, AppendProperties
    <2>3. \A i \in 1..n + 1 : i \in 1..n \/ i = n + 1
        BY <1>1
    <2> HIDE DEF n
    <2>4. \A i \in 1..Len(worker'.batch) : Open(worker'.batch[i])
        BY <1>1, <1>2, <2>1, <2>2, <2>3 DEF PlacesInv, n
    <2>5. \A i \in 1..n : worker.batch[i] # queue[1]
        BY <1>1, <1>6 DEF PlacesInv, n
    <2>6. \A i, j \in 1..Len(worker'.batch) : worker'.batch[i] = worker'.batch[j] => i = j
        BY <1>1, <2>2, <2>3, <2>5 DEF PlacesInv, n
    <2>7. \A i \in 1..n : worker'.batch[i] # Sentinel
        BY <1>1, <2>2, Distinctions, ElementOfSeq DEF n
    <2>8. \A i \in 1..Len(queue'), j \in 1..Len(worker'.batch) : queue'[i] # worker'.batch[j]
        <3> SUFFICES ASSUME NEW i \in 1..Len(queue'), NEW j \in 1..Len(worker'.batch)
                     PROVE  queue'[i] # worker'.batch[j]
            OBVIOUS
        <3>1. CASE j = n + 1
            BY <1>2, <1>7, <1>11, <2>2, <3>1
        <3>2. CASE j \in 1..n
            BY <1>1, <1>3, <2>2, <3>2 DEF PlacesInv, n
        <3> QED
            BY <2>2, <2>3, <3>1, <3>2
    <2>9. ASSUME NEW c \in Callers, Pending(c)
          PROVE  \/ \E i \in 1..Len(queue') : queue'[i] = Request(c)
                 \/ \E i \in 1..Len(worker'.batch) : worker'.batch[i] = Request(c)
        <3>1. CASE Request(c) = queue[1]
            <4>1. n + 1 \in 1..Len(worker'.batch)
                BY <1>1, <2>2 DEF n
            <4> QED
                BY <2>2, <3>1, <4>1
        <3>2. CASE Request(c) # queue[1]
            <4>1. CASE \E i \in 1..Len(queue) : queue[i] = Request(c)
                BY <1>9, <3>2, <4>1
            <4>2. CASE \E i \in 1..Len(worker.batch) : worker.batch[i] = Request(c)
                <5>1. \A i \in 1..n : i \in 1..Len(worker'.batch)
                    BY <1>1, <2>2 DEF n
                <5> QED
                    BY <2>2, <4>2, <5>1 DEF n
            <4> QED
                BY <1>1, <2>9, <4>1, <4>2 DEF PlacesInv
        <3> QED
            BY <3>1, <3>2
    <2>10. PlacesInv'
        BY <1>4, <1>5, <1>7, <1>8, <2>4, <2>6, <2>8, <2>9 DEF PlacesInv
    <2> QED
        BY <1>2, <2>2, <2>10
<1> QED
    BY <1>10, <1>11

\* A dispatched batch is settled whole: with its own rows or with errors.
LEMMA DispatchStep ==
  ASSUME GatherInv, NEW value, DOMAIN value = Members(worker.batch), Settle(value),
         \A q \in DOMAIN value : value[q] \in {Error, q}, UNCHANGED queue, worker'.batch = <<>>
  PROVE  /\ PlacesInv' /\ OwnRow' /\ call' \in [Callers -> CallType]
         /\ \A c \in Callers : /\ (call[c].pc # "waiting" => call[c].future = None)'
                               /\ (call[c].pc # "idle" => call[c].n > 0)'
<1>1. GatherTypeOK /\ OwnRow /\ RestInv /\ PlacesInv /\ worker.batch \in Seq(Requests)
    BY DEF GatherInv, GatherTypeOK
<1>2. \A q \in DOMAIN value : q \in Requests /\ \E i \in 1..Len(worker.batch) : worker.batch[i] = q
    BY <1>1, ElementOfSeq DEF Members
<1>3. /\ call' \in [Callers -> CallType] /\ OwnRow'
      /\ \A c \in Callers : /\ Request(c)' = Request(c)
                            /\ Pending(c)' <=> Pending(c) /\ Request(c) \notin DOMAIN value
                            /\ (call[c].pc # "waiting" => call[c].future = None)'
                            /\ (call[c].pc # "idle" => call[c].n > 0)'
    BY <1>1, <1>2, SettleEffect
<1>4. ASSUME NEW i \in 1..Len(queue), queue[i] # Sentinel
      PROVE  \E c \in Callers : queue[i] = Request(c) /\ Pending(c)'
    <2>1. queue[i] \notin DOMAIN value
        BY <1>1, <1>2 DEF PlacesInv
    <2> QED
        BY <1>1, <1>3, <1>4, <2>1 DEF PlacesInv, Open
<1>5. ASSUME NEW c \in Callers, Pending(c)' PROVE \E i \in 1..Len(queue) : queue[i] = Request(c)
    <2>1. Pending(c) /\ Request(c) \notin DOMAIN value
        BY <1>3, <1>5
    <2>2. ~ \E i \in 1..Len(worker.batch) : worker.batch[i] = Request(c)
        BY <1>1, <2>1 DEF Members
    <2> QED
        BY <1>1, <2>1, <2>2 DEF PlacesInv
<1>6. PlacesInv'
    <2>1. 1..Len(<<>>) = {}
        BY EmptySeq
    <2>2. (\A i \in 1..Len(queue) : queue[i] # Sentinel => Open(queue[i]))'
        BY <1>3, <1>4 DEF Open
    <2> QED
        BY <1>1, <1>3, <1>5, <2>1, <2>2 DEF PlacesInv
<1> QED
    BY <1>3, <1>6

\* A caller that is not pending moves on: no place of the queue is concerned.
LEMMA CallStep ==
  ASSUME GatherInv, NEW c \in Callers, ~Pending(c), NEW next \in CallType,
         call' = [call EXCEPT ![c] = next], next.future = None, next.pc # "waiting",
         next.pc # "idle" => next.n > 0, UNCHANGED <<queue, worker, closed, closer>>
  PROVE  GatherInv'
<1>1. GatherTypeOK /\ OwnRow /\ RestInv /\ PlacesInv
    BY DEF GatherInv
<1>2. call \in [Callers -> CallType]
    BY <1>1 DEF GatherTypeOK, CallType
<1>3. /\ call'[c] = next /\ \A d \in Callers : d # c => call'[d] = call[d]
      /\ call' \in [Callers -> CallType]
    BY <1>2
<1>4. /\ ~Pending(c)' /\ \A d \in Callers : d # c => Request(d)' = Request(d) /\ (Pending(d)' <=> Pending(d))
    BY <1>3 DEF Pending, Request
<1>5. OwnRow' /\ RestInv'
    BY <1>1, <1>3 DEF OwnRow, RestInv, Request
<1>6. \A q : Open(q)' <=> Open(q)
    BY <1>4 DEF Open
<1>7. PlacesInv'
    BY <1>1, <1>4, <1>6 DEF PlacesInv
<1> QED
    BY <1>1, <1>3, <1>5, <1>7 DEF GatherInv, GatherTypeOK, CallType

LEMMA EnqueueStep ==
  ASSUME GatherInv, NEW c \in Callers, Enqueue(c)
  PROVE  GatherInv'
<1>1. GatherTypeOK /\ OwnRow /\ RestInv /\ PlacesInv
    BY DEF GatherInv
<1>2. call \in [Callers -> CallType] /\ queue \in Seq(Requests \union {Sentinel}) /\ Len(queue) \in Nat
    BY <1>1 DEF GatherTypeOK, CallType
<1>3. call[c].pc = "checked" /\ call[c].future = None /\ Request(c) \in Requests /\ UNCHANGED worker
    BY <1>1, RequestFacts DEF Enqueue, RestInv
<1>4. /\ call'[c].pc = "waiting" /\ call'[c].future = None /\ call'[c].n = call[c].n
      /\ \A d \in Callers : d # c => call'[d] = call[d]
      /\ call' \in [Callers -> CallType]
    <2>1. [call[c] EXCEPT !.pc = "waiting"] \in CallType
        BY <1>2 DEF CallType
    <2> QED
        BY <1>2, <1>3, <2>1 DEF Enqueue, CallType
<1>5. /\ \A d \in Callers : Request(d)' = Request(d)
      /\ Pending(c)' /\ ~Pending(c)
      /\ \A d \in Callers : d # c => (Pending(d)' <=> Pending(d))
    BY <1>3, <1>4 DEF Request, Pending
<1> DEFINE n == Len(queue)
<1>6. /\ queue' \in Seq(Requests \union {Sentinel}) /\ Len(queue') = n + 1
      /\ \A i \in 1..n : queue'[i] = queue[i]
      /\ queue'[n + 1] = Request(c)
      /\ \A i \in 1..n + 1 : i \in 1..n \/ i = n + 1
      /\ 1..n \subseteq 1..n + 1 /\ n + 1 \in 1..n + 1
    <2>1. queue' = Append(queue, Request(c)) /\ Request(c) \in Requests \union {Sentinel}
        BY <1>3 DEF Enqueue
    <2> QED
        BY <1>2, <2>1, AppendProperties
<1> HIDE DEF n
<1>7. \A q : Open(q) => q # Request(c)
    <2>1. ASSUME NEW d \in Callers, Request(d) = Request(c) PROVE d = c
        BY <2>1 DEF Request
    <2> QED
        BY <1>5, <2>1 DEF Open
<1>8. \A q : Open(q)' <=> Open(q) \/ q = Request(c)
    BY <1>5 DEF Open
<1>9. OwnRow' /\ RestInv'
    BY <1>1, <1>3, <1>4, <1>5 DEF OwnRow, RestInv
<1>10. (\A i \in 1..Len(queue) : queue[i] # Sentinel => Open(queue[i]))'
    BY <1>1, <1>6, <1>8 DEF PlacesInv, n
<1>11. \A i \in 1..n : queue[i] # Request(c)
    BY <1>1, <1>3, <1>7, Distinctions DEF PlacesInv, n
<1>12. (\A i, j \in 1..Len(queue) : queue[i] = queue[j] /\ queue[i] # Sentinel => i = j)'
    BY <1>1, <1>6, <1>11 DEF PlacesInv, n
<1>13. (\A i \in 1..Len(queue), j \in 1..Len(worker.batch) : queue[i] # worker.batch[j])'
    BY <1>1, <1>3, <1>6, <1>7 DEF PlacesInv, n
<1>14. (\A d \in Callers : Pending(d) =>
          \/ \E i \in 1..Len(queue) : queue[i] = Request(d)
          \/ \E i \in 1..Len(worker.batch) : worker.batch[i] = Request(d))'
    <2> SUFFICES ASSUME NEW d \in Callers, Pending(d)'
                 PROVE  \/ \E i \in 1..Len(queue') : queue'[i] = Request(d)
                        \/ \E i \in 1..Len(worker.batch) : worker.batch[i] = Request(d)
        BY <1>3, <1>5
    <2>1. CASE d = c
        BY <1>6, <2>1
    <2>2. CASE d # c
        BY <1>1, <1>5, <1>6, <2>2 DEF PlacesInv, n
    <2> QED
        BY <2>1, <2>2
<1>15. PlacesInv'
    BY <1>1, <1>3, <1>8, <1>10, <1>12, <1>13, <1>14 DEF PlacesInv
<1> QED
    BY <1>1, <1>3, <1>4, <1>6, <1>9, <1>15 DEF GatherInv, GatherTypeOK, CallType, Enqueue

LEMMA PutStep ==
  ASSUME GatherInv, NEW k \in Closers, ClosePuts(k)
  PROVE  GatherInv'
<1>1. GatherTypeOK /\ OwnRow /\ RestInv /\ PlacesInv
    BY DEF GatherInv
<1>2. queue \in Seq(Requests \union {Sentinel}) /\ Len(queue) \in Nat /\ UNCHANGED <<call, worker, closed>>
    BY <1>1 DEF GatherTypeOK, ClosePuts
<1> DEFINE n == Len(queue)
<1>3. /\ queue' \in Seq(Requests \union {Sentinel}) /\ Len(queue') = n + 1
      /\ \A i \in 1..n : queue'[i] = queue[i]
      /\ queue'[n + 1] = Sentinel
      /\ \A i \in 1..n + 1 : i \in 1..n \/ i = n + 1
      /\ 1..n \subseteq 1..n + 1
    <2>1. queue' = Append(queue, Sentinel) /\ Sentinel \in Requests \union {Sentinel}
        BY DEF ClosePuts
    <2> QED
        BY <1>2, <2>1, AppendProperties
<1> HIDE DEF n
<1>4. /\ \A q : Open(q)' <=> Open(q)
      /\ \A d \in Callers : Request(d)' = Request(d) /\ (Pending(d)' <=> Pending(d))
    BY <1>2 DEF Open, Pending, Request
<1>5. \A j \in 1..Len(worker.batch) : worker.batch[j] # Sentinel
    BY <1>1, Distinctions, ElementOfSeq DEF GatherTypeOK
<1>6. (\A i \in 1..Len(queue) : queue[i] # Sentinel => Open(queue[i]))'
    BY <1>1, <1>3, <1>4 DEF PlacesInv, n
<1>7. (\A i, j \in 1..Len(queue) : queue[i] = queue[j] /\ queue[i] # Sentinel => i = j)'
    BY <1>1, <1>3 DEF PlacesInv, n
<1>8. (\A i \in 1..Len(queue), j \in 1..Len(worker.batch) : queue[i] # worker.batch[j])'
    BY <1>1, <1>2, <1>3, <1>5 DEF PlacesInv, n
<1>9. (\A d \in Callers : Pending(d) =>
          \/ \E i \in 1..Len(queue) : queue[i] = Request(d)
          \/ \E i \in 1..Len(worker.batch) : worker.batch[i] = Request(d))'
    BY <1>1, <1>2, <1>3, <1>4 DEF PlacesInv, n
<1>10. PlacesInv'
    BY <1>1, <1>2, <1>4, <1>6, <1>7, <1>8, <1>9 DEF PlacesInv
<1>11. OwnRow' /\ RestInv'
    BY <1>1, <1>2 DEF OwnRow, RestInv, Request
<1> QED
    BY <1>1, <1>2, <1>3, <1>10, <1>11 DEF GatherInv, GatherTypeOK, ClosePuts

LEMMA CallerSteps ==
  ASSUME GatherInv, NEW c \in Callers, CheckOpen(c) \/ Enqueue(c) \/ Wake(c)
  PROVE  GatherInv'
<1>1. call[c] \in CallType /\ MaxCalls \in Nat /\ None \in Futures
    BY Distinctions DEF GatherInv, GatherTypeOK, CallType, Futures
<1>2. CASE CheckOpen(c)
    <2> DEFINE next == [pc |-> IF closed \/ worker.pc = "stopped" THEN "idle" ELSE "checked",
                        n |-> call[c].n + 1, future |-> None]
    <2>1. call[c].n + 1 \in 0..MaxCalls /\ call[c].n + 1 > 0
        BY <1>1, <1>2 DEF CheckOpen, CallType
    <2>2. next \in CallType /\ next.future = None /\ next.pc # "waiting" /\ next.n > 0
        BY <1>1, <2>1 DEF CallType
    <2>3. call' = [call EXCEPT ![c] = next] /\ ~Pending(c) /\ UNCHANGED <<queue, worker, closed, closer>>
        BY <1>2 DEF CheckOpen, Pending
    <2> HIDE DEF next
    <2> QED
        BY <2>2, <2>3, CallStep
<1>3. CASE Wake(c)
    <2> DEFINE next == [call[c] EXCEPT !.pc = "idle", !.future = None]
    <2>1. next \in CallType /\ next.future = None /\ next.pc = "idle"
        BY <1>1 DEF CallType
    <2>2. call' = [call EXCEPT ![c] = next] /\ ~Pending(c) /\ UNCHANGED <<queue, worker, closed, closer>>
        BY <1>3 DEF Wake, Pending
    <2> HIDE DEF next
    <2> QED
        BY <2>1, <2>2, CallStep
<1> QED
    BY <1>2, <1>3, EnqueueStep

LEMMA WorkerSteps ==
  ASSUME GatherInv, WorkerStep
  PROVE  GatherInv'
<1>1. /\ GatherTypeOK /\ OwnRow /\ RestInv /\ PlacesInv /\ worker.batch \in Seq(Requests)
      /\ worker \in [pc : {"take", "gather", "dispatch", "drain", "stopped"},
                     batch : Seq(Requests), stop : BOOLEAN]
    BY DEF GatherInv, GatherTypeOK
<1>2. UNCHANGED call => OwnRow' /\ call' \in [Callers -> CallType]
    BY <1>1 DEF OwnRow, Request, GatherTypeOK, CallType
<1>3. ASSUME call' \in [Callers -> CallType], OwnRow', PlacesInv',
             queue' \in Seq(Requests \union {Sentinel}), UNCHANGED <<closed, closer>>,
             worker' \in [pc : {"take", "gather", "dispatch", "drain", "stopped"},
                          batch : Seq(Requests), stop : BOOLEAN],
             worker'.pc \in {"take", "drain", "stopped"} => worker'.batch = <<>>,
             \A c \in Callers : /\ (call[c].pc # "waiting" => call[c].future = None)'
                                /\ (call[c].pc # "idle" => call[c].n > 0)'
      PROVE  GatherInv'
    BY <1>1, <1>3 DEF GatherInv, GatherTypeOK, RestInv, CallType
<1>4. UNCHANGED call => \A c \in Callers : /\ (call[c].pc # "waiting" => call[c].future = None)'
                                           /\ (call[c].pc # "idle" => call[c].n > 0)'
    BY <1>1 DEF RestInv
<1>5. CASE Take \/ Collect
    <2>1. /\ queue # <<>> /\ queue' = Tail(queue) /\ UNCHANGED <<call, closed, closer>>
          /\ Head(queue) \in Requests \union {Sentinel}
        BY <1>1, <1>5, HeadFacts DEF Take, Collect
    <2>2. /\ \/ Head(queue) = Sentinel /\ worker'.batch = worker.batch
             \/ Head(queue) # Sentinel /\ worker'.batch = Append(worker.batch, Head(queue))
          /\ worker'.stop \in BOOLEAN /\ worker'.pc \in {"gather", "dispatch", "drain"}
          /\ worker'.pc = "drain" => worker'.batch = <<>>
          /\ worker' = [pc |-> worker'.pc, batch |-> worker'.batch, stop |-> worker'.stop]
        <3>1. CASE Take
            <4>1. worker.batch = <<>> /\ (Head(queue) # Sentinel => Append(<<>>, Head(queue)) = <<Head(queue)>>)
                BY <1>1, <3>1 DEF Take, RestInv
            <4>2. CASE Head(queue) = Sentinel
                BY <1>1, <3>1, <4>1, <4>2 DEF Take
            <4>3. CASE Head(queue) # Sentinel
                BY <1>1, <3>1, <4>1, <4>3 DEF Take
            <4> QED
                BY <4>2, <4>3
        <3>2. CASE Collect
            <4>1. CASE Head(queue) = Sentinel
                BY <1>1, <3>2, <4>1 DEF Collect
            <4>2. CASE Head(queue) # Sentinel
                BY <1>1, <3>2, <4>2 DEF Collect
            <4> QED
                BY <4>1, <4>2
        <3> QED
            BY <1>5, <3>1, <3>2
    <2>3. PlacesInv' /\ queue' \in Seq(Requests \union {Sentinel}) /\ worker'.batch \in Seq(Requests)
        BY <2>1, <2>2, MoveStep
    <2>4. worker' \in [pc : {"take", "gather", "dispatch", "drain", "stopped"},
                       batch : Seq(Requests), stop : BOOLEAN]
        BY <2>2, <2>3
    <2> QED
        BY <1>2, <1>3, <1>4, <2>1, <2>2, <2>3, <2>4
<1>6. CASE WindowEnds
    <2>1. /\ worker'.batch = worker.batch /\ worker'.pc = "dispatch" /\ UNCHANGED <<call, queue, closed, closer>>
          /\ worker' \in [pc : {"take", "gather", "dispatch", "drain", "stopped"},
                          batch : Seq(Requests), stop : BOOLEAN]
        BY <1>1, <1>6 DEF WindowEnds
    <2>2. PlacesInv'
        BY <2>1, SamePlaces
    <2> QED
        BY <1>1, <1>2, <1>3, <1>4, <2>1, <2>2 DEF GatherTypeOK
<1>7. CASE Dispatch \/ DispatchRaises
    <2>1. /\ UNCHANGED <<queue, closed, closer>> /\ worker'.batch = <<>>
          /\ worker' \in [pc : {"take", "gather", "dispatch", "drain", "stopped"},
                          batch : Seq(Requests), stop : BOOLEAN]
        <3>1. UNCHANGED <<queue, closed, closer>> /\ worker' = AfterDispatch
            BY <1>7 DEF Dispatch, DispatchRaises
        <3>2. worker.stop \in BOOLEAN /\ <<>> \in Seq(Requests)
            BY <1>1
        <3>3. worker' = [pc |-> IF worker.stop THEN "drain" ELSE "take", batch |-> <<>>, stop |-> worker.stop]
            BY <3>1 DEF AfterDispatch
        <3>4. (IF worker.stop THEN "drain" ELSE "take") \in {"take", "drain"}
            OBVIOUS
        <3> DEFINE next == IF worker.stop THEN "drain" ELSE "take"
        <3>5. next \in {"take", "drain"} /\ worker' = [pc |-> next, batch |-> <<>>, stop |-> worker.stop]
            BY <3>3, <3>4
        <3> HIDE DEF next
        <3> QED
            BY <3>1, <3>2, <3>5
    <2>2. ASSUME NEW value, DOMAIN value = Members(worker.batch), Settle(value),
                 \A q \in DOMAIN value : value[q] \in {Error, q}
          PROVE  GatherInv'
        <3>1. /\ PlacesInv' /\ OwnRow' /\ call' \in [Callers -> CallType]
              /\ \A c \in Callers : /\ (call[c].pc # "waiting" => call[c].future = None)'
                                    /\ (call[c].pc # "idle" => call[c].n > 0)'
            BY <2>1, <2>2, DispatchStep
        <3> QED
            BY <1>1, <1>3, <2>1, <3>1 DEF GatherTypeOK
    <2>3. CASE DispatchRaises
        <3> DEFINE value == Failed(Members(worker.batch))
        <3>1. DOMAIN value = Members(worker.batch) /\ Settle(value) /\ \A q \in DOMAIN value : value[q] = Error
            BY <2>3 DEF DispatchRaises, Failed
        <3> HIDE DEF value
        <3> QED
            BY <2>2, <3>1
    <2>4. CASE Dispatch
        <3> DEFINE batch == worker.batch
                   value == [request \in Members(batch) |->
                                Rows(batch)[CHOOSE i \in DOMAIN batch : batch[i] = request]]
        <3>1. DOMAIN value = Members(worker.batch) /\ Settle(value)
            BY <2>4 DEF Dispatch
        <3>2. ASSUME NEW q \in Members(batch) PROVE value[q] = q
            <4> DEFINE i == CHOOSE j \in DOMAIN batch : batch[j] = q
            <4>1. i \in DOMAIN batch /\ batch[i] = q
                BY DEF Members
            <4>2. Rows(batch)[i] = batch[i]
                BY <1>1, <4>1, RowsAreOwn
            <4> QED
                BY <4>1, <4>2
        <3> HIDE DEF value
        <3> QED
            BY <2>2, <3>1, <3>2
    <2> QED
        BY <1>7, <2>3, <2>4
<1>8. CASE WorkerDrains
    <2>1. CASE Pop /\ UNCHANGED worker
        BY <1>1, <1>3, <1>8, <2>1, PopStep DEF WorkerDrains, RestInv
    <2>2. CASE queue = <<>> /\ worker' = [worker EXCEPT !.pc = "stopped"] /\ UNCHANGED <<call, queue>>
        <3>1. worker'.batch = worker.batch /\ worker.batch = <<>>
            BY <1>1, <1>8, <2>2 DEF WorkerDrains, RestInv
        <3>2. PlacesInv'
            BY <2>2, <3>1, SamePlaces
        <3> QED
            BY <1>1, <1>2, <1>3, <1>4, <1>8, <2>2, <3>1, <3>2 DEF GatherTypeOK, WorkerDrains
    <2> QED
        BY <1>8, <2>1, <2>2 DEF WorkerDrains
<1> QED
    BY <1>5, <1>6, <1>7, <1>8 DEF WorkerStep

LEMMA CloserSteps ==
  ASSUME GatherInv, NEW k \in Closers, CloseChecks(k) \/ CloseStep(k)
  PROVE  GatherInv'
<1>1. GatherTypeOK /\ OwnRow /\ RestInv /\ PlacesInv
    BY DEF GatherInv
<1>2. ASSUME UNCHANGED <<call, queue, worker>>, closed' \in BOOLEAN,
             closer' \in [Closers -> {"idle", "closing", "putting", "joining", "draining", "done"}]
      PROVE  GatherInv'
    <2>1. PlacesInv' /\ OwnRow'
        BY <1>2, SamePlaces
    <2>2. GatherTypeOK'
        BY <1>1, <1>2 DEF GatherTypeOK
    <2>3. RestInv'
        BY <1>1, <1>2 DEF RestInv
    <2> QED
        BY <2>1, <2>2, <2>3 DEF GatherInv
<1>3. CASE CloseChecks(k) \/ CloseSets(k) \/ CloseJoins(k)
    BY <1>1, <1>2, <1>3 DEF CloseChecks, CloseSets, CloseJoins, GatherTypeOK
<1>4. CASE CloseDrains(k)
    <2>1. CASE Pop
        <3>1. UNCHANGED <<worker, closed, closer>>
            BY <1>4, <2>1 DEF CloseDrains, Pop
        <3> QED
            BY <1>1, <2>1, <3>1, PopStep DEF GatherInv, GatherTypeOK, RestInv, CallType
    <2>2. CASE ~Pop
        BY <1>1, <1>2, <1>4, <2>2 DEF CloseDrains, GatherTypeOK
    <2> QED
        BY <2>1, <2>2
<1> QED
    BY <1>3, <1>4, PutStep DEF CloseStep

LEMMA GatherInvHolds == Spec => []GatherInv
<1>1. Init => GatherInv
    <2> SUFFICES ASSUME Init PROVE GatherInv
        OBVIOUS
    <2>1. /\ Len(queue) = 0 /\ Len(worker.batch) = 0 /\ worker.batch = <<>> /\ queue = <<>>
          /\ \A c \in Callers : call[c].pc = "idle" /\ call[c].n = 0 /\ call[c].future = None
        BY DEF Init
    <2>2. 0 \in 0..MaxCalls /\ None \in Futures
        BY Distinctions DEF Futures
    <2>3. GatherTypeOK
        <3>1. call \in [Callers -> CallType]
            BY <2>2 DEF Init, CallType
        <3>2. queue \in Seq(Requests \union {Sentinel}) /\ worker.batch \in Seq(Requests)
            BY <2>1, EmptySeq
        <3>3. worker \in [pc : {"take", "gather", "dispatch", "drain", "stopped"},
                          batch : Seq(Requests), stop : BOOLEAN]
            BY <3>2 DEF Init
        <3> QED
            BY <3>1, <3>2, <3>3 DEF Init, GatherTypeOK, CallType
    <2>4. OwnRow
        BY <2>1 DEF OwnRow
    <2>5. PlacesInv
        <3>1. \A i \in 1..Len(queue) : FALSE
            BY <2>1
        <3>2. \A i \in 1..Len(worker.batch) : FALSE
            BY <2>1
        <3>3. \A c \in Callers : ~Pending(c)
            BY <2>1 DEF Pending
        <3> QED
            BY <3>1, <3>2, <3>3 DEF PlacesInv
    <2>6. RestInv
        BY <2>1 DEF RestInv
    <2> QED
        BY <2>3, <2>4, <2>5, <2>6 DEF GatherInv
<1>2. GatherInv /\ [Next]_vars => GatherInv'
    <2>1. GatherInv /\ Next => GatherInv'
        BY CallerSteps, WorkerSteps, CloserSteps DEF Next
    <2>2. GatherInv /\ UNCHANGED vars => GatherInv'
        <3> SUFFICES ASSUME GatherInv, UNCHANGED vars PROVE GatherInv'
            OBVIOUS
        <3>1. PlacesInv' /\ OwnRow'
            BY SamePlaces DEF vars
        <3>2. GatherTypeOK' /\ RestInv'
            BY DEF vars, GatherInv, GatherTypeOK, RestInv
        <3> QED
            BY <3>1, <3>2 DEF GatherInv
    <2> QED
        BY <2>1, <2>2
<1> QED
    BY <1>1, <1>2, PTL DEF Spec

-----------------------------------------------------------------------------
(* The theorems                                                            *)

\* Every variable stays in its type, for any callers, closers and buckets.
THEOREM GatherTypeTheorem == Spec => []GatherTypeOK
<1>1. GatherInv => GatherTypeOK
    BY DEF GatherInv
<1> QED
    BY <1>1, GatherInvHolds, PTL

\* A caller gets its own row or an exception, for any batch size and any set of
\* buckets (plan_buckets, the padding, the routing in _dispatch).
THEOREM OwnRowTheorem == Spec => []OwnRow
<1>1. GatherInv => OwnRow
    BY DEF GatherInv
<1> QED
    BY <1>1, GatherInvHolds, PTL

\* A waiting request is in one place until it is settled, and then in none,
\* with any number of threads that drain the queue (_run, _drain_closed).
THEOREM HeldOnceTheorem == Spec => []HeldOnce
<1>1. GatherInv => HeldOnce
    <2> SUFFICES ASSUME GatherInv, NEW c \in Callers
                 PROVE  LET places == (Held(queue, Request(c)) \X {"queue"})
                                        \union (Held(worker.batch, Request(c)) \X {"batch"})
                        IN  IF call[c].pc = "waiting" /\ call[c].future = None
                            THEN \E p \in places : places = {p}
                            ELSE places = {}
        BY DEF HeldOnce
    <2> DEFINE inQueue == Held(queue, Request(c))
               inBatch == Held(worker.batch, Request(c))
    <2>1. /\ GatherTypeOK /\ PlacesInv
          /\ DOMAIN queue = 1..Len(queue) /\ DOMAIN worker.batch = 1..Len(worker.batch)
        BY DEF GatherInv, GatherTypeOK
    <2>2. inQueue = {i \in 1..Len(queue) : queue[i] = Request(c)}
        BY <2>1 DEF Held
    <2>3. inBatch = {i \in 1..Len(worker.batch) : worker.batch[i] = Request(c)}
        BY <2>1 DEF Held
    <2> HIDE DEF inQueue, inBatch
    <2>4. CASE Pending(c)
        <3>1. Request(c) # Sentinel
            BY <2>4, RequestFacts, Distinctions DEF GatherInv, Pending
        <3>2. CASE \E i \in inQueue : TRUE
            <4>1. PICK i \in inQueue : TRUE
                BY <3>2
            <4>2. inQueue = {i}
                BY <2>1, <2>2, <3>1, <4>1 DEF PlacesInv
            <4>3. inBatch = {}
                BY <2>1, <2>2, <2>3, <4>1 DEF PlacesInv
            <4>4. (inQueue \X {"queue"}) \union (inBatch \X {"batch"}) = {<<i, "queue">>}
                BY <4>2, <4>3
            <4> QED
                BY <2>4, <4>4 DEF Pending, inQueue, inBatch
        <3>3. CASE inQueue = {}
            <4>1. PICK i \in inBatch : TRUE
                BY <2>1, <2>2, <2>3, <2>4, <3>3 DEF PlacesInv
            <4>2. inBatch = {i}
                BY <2>1, <2>3, <4>1 DEF PlacesInv
            <4>3. (inQueue \X {"queue"}) \union (inBatch \X {"batch"}) = {<<i, "batch">>}
                BY <3>3, <4>2
            <4> QED
                BY <2>4, <4>3 DEF Pending, inQueue, inBatch
        <3> QED
            BY <3>2, <3>3
    <2>5. CASE ~Pending(c)
        <3>1. ASSUME NEW d \in Callers, Request(c) = Request(d) PROVE c = d
            BY <3>1 DEF Request
        <3>2. ~Open(Request(c))
            BY <2>5, <3>1 DEF Open
        <3>3. Request(c) # Sentinel
            BY <2>1, Distinctions DEF Request, GatherTypeOK
        <3>4. inQueue = {} /\ inBatch = {}
            BY <2>1, <2>2, <2>3, <3>2, <3>3 DEF PlacesInv
        <3> QED
            BY <2>5, <3>4 DEF Pending, inQueue, inBatch
    <2> QED
        BY <2>4, <2>5
<1> QED
    BY <1>1, GatherInvHolds, PTL

-----------------------------------------------------------------------------
(* Why a waiting caller gets its turn                                      *)

\* Until close is called the worker runs and no sentinel is on its way; a batch
\* is never longer than max_batch.
OpenInv ==
    /\ ~closed => /\ worker.pc \notin {"drain", "stopped"} /\ ~worker.stop
                  /\ \A i \in 1..Len(queue) : queue[i] # Sentinel
    /\ \A k \in Closers : closer[k] \in {"putting", "joining", "draining"} => closed
    /\ Len(worker.batch) <= MaxBatch

\* Where the request of a caller stands in the queue, and how far the worker is
\* from taking the next batch.
Place(c) == {i \in 1..Len(queue) : queue[i] = Request(c)}
WindowLeft ==
    IF worker.pc = "gather" THEN 2 + MaxBatch - Len(worker.batch)
    ELSE IF worker.pc = "dispatch" THEN 1 ELSE 0

\* Nobody gets in front of a waiting caller: it keeps its place, moves up by one
\* or leaves the queue.
KeepsTurn(c) == Place(c)' = Place(c) \/ \A i \in Place(c)' : i + 1 \in Place(c)

\* A step of the worker brings its turn nearer.
TurnNears(c) ==
    \/ Place(c) # {} /\ \A i \in Place(c)' : i + 1 \in Place(c)
    \/ Place(c)' = Place(c) /\ WindowLeft' < WindowLeft

LEMMA WindowBounds == GatherTypeOK /\ OpenInv => WindowLeft \in 0..MaxBatch + 2
<1> SUFFICES ASSUME GatherTypeOK, OpenInv PROVE WindowLeft \in 0..MaxBatch + 2
    OBVIOUS
<1> DEFINE n == Len(worker.batch)
<1>1. MaxBatch \in Nat /\ n \in Nat /\ n <= MaxBatch
    BY GatherAssumption DEF GatherTypeOK, OpenInv, GatherAssumption
<1> HIDE DEF n
<1>2. 2 + MaxBatch - n \in 0..MaxBatch + 2
    BY <1>1
<1>3. 0 \in 0..MaxBatch + 2 /\ 1 \in 0..MaxBatch + 2
    BY <1>1
<1> QED
    BY <1>2, <1>3 DEF WindowLeft, n

LEMMA StepOpen == GatherInv /\ OpenInv /\ [Next]_vars => OpenInv'
<1> SUFFICES ASSUME GatherInv, OpenInv, [Next]_vars PROVE OpenInv'
    OBVIOUS
<1>0. /\ GatherTypeOK /\ RestInv /\ MaxBatch \in Nat \ {0}
      /\ queue \in Seq(Requests \union {Sentinel}) /\ Len(queue) \in Nat
      /\ worker \in [pc : {"take", "gather", "dispatch", "drain", "stopped"},
                     batch : Seq(Requests), stop : BOOLEAN]
      /\ Len(worker.batch) \in Nat
      /\ closer \in [Closers -> {"idle", "closing", "putting", "joining", "draining", "done"}]
    BY GatherAssumption DEF GatherInv, GatherTypeOK, GatherAssumption
<1>1. CASE UNCHANGED <<queue, worker, closed, closer>>
    BY <1>1 DEF OpenInv
<1>2. ASSUME NEW c \in Callers, Enqueue(c) PROVE OpenInv'
    <2>1. Request(c) \in Requests /\ Request(c) # Sentinel
        BY <1>0, <1>2, RequestFacts, Distinctions DEF Enqueue
    <2>2. \A i \in 1..Len(queue') : (i \in 1..Len(queue) /\ queue'[i] = queue[i]) \/ queue'[i] = Request(c)
        <3>1. queue' = Append(queue, Request(c))
            BY <1>2 DEF Enqueue
        <3> QED
            BY <1>0, <2>1, <3>1, AppendProperties
    <2> QED
        BY <1>2, <2>1, <2>2 DEF OpenInv, Enqueue
<1>3. \A i \in 1..Len(queue) : queue # <<>> /\ queue' = Tail(queue) =>
        queue[1] = Head(queue) /\ \A j \in 1..Len(queue') : j + 1 \in 1..Len(queue) /\ queue'[j] = queue[j + 1]
    BY <1>0, HeadFacts
<1>4. CASE Take \/ Collect
    <2>1. queue # <<>> /\ queue' = Tail(queue) /\ UNCHANGED <<closed, closer>>
        BY <1>4 DEF Take, Collect
    <2>2. 1 \in 1..Len(queue) /\ queue[1] = Head(queue)
        BY <1>0, <2>1, HeadFacts
    <2>3. /\ worker.batch # <<>> => Take \/ Len(worker.batch) < MaxBatch
          /\ Take => worker.batch = <<>>
        BY <1>0, <1>4 DEF Take, Collect, RestInv
    <2>4. Len(worker'.batch) <= MaxBatch
        <3>1. CASE Head(queue) = Sentinel
            BY <1>0, <1>4, <3>1 DEF Take, Collect, OpenInv
        <3>2. CASE Head(queue) # Sentinel /\ Take
            <4>1. worker'.batch = <<Head(queue)>>
                BY <1>0, <3>2 DEF Take
            <4> QED
                BY <1>0, <4>1
        <3>3. CASE Head(queue) # Sentinel /\ Collect
            <4>1. worker'.batch = Append(worker.batch, Head(queue)) /\ Len(worker.batch) < MaxBatch
                BY <1>0, <3>3 DEF Collect
            <4>2. Head(queue) \in Requests
                BY <1>0, <2>1, <3>3, HeadFacts
            <4> QED
                BY <1>0, <4>1, <4>2, AppendProperties
        <3> QED
            BY <1>4, <3>1, <3>2, <3>3
    <2>5. ~closed => worker'.pc \in {"gather"} /\ ~worker'.stop
        <3> SUFFICES ASSUME ~closed PROVE worker'.pc = "gather" /\ ~worker'.stop
            OBVIOUS
        <3>1. Head(queue) # Sentinel /\ ~worker.stop
            BY <2>2 DEF OpenInv
        <3>2. CASE Take
            BY <1>0, <3>1, <3>2 DEF Take
        <3>3. CASE Collect
            BY <1>0, <3>1, <3>3 DEF Collect
        <3> QED
            BY <1>4, <3>2, <3>3
    <2> QED
        BY <1>3, <2>1, <2>2, <2>4, <2>5 DEF OpenInv
<1>5. CASE WindowEnds \/ Dispatch \/ DispatchRaises
    <2>1. /\ UNCHANGED <<queue, closed, closer>> /\ worker'.stop = worker.stop
          /\ worker'.pc \in {"dispatch", "take"} \/ worker.stop
          /\ worker'.batch \in {worker.batch, <<>>}
        <3>1. CASE WindowEnds
            BY <1>0, <3>1 DEF WindowEnds
        <3>2. CASE Dispatch \/ DispatchRaises
            <4>1. worker' = AfterDispatch /\ UNCHANGED <<queue, closed, closer>>
                BY <3>2 DEF Dispatch, DispatchRaises
            <4> QED
                BY <1>0, <4>1 DEF AfterDispatch
        <3> QED
            BY <1>5, <3>1, <3>2
    <2>2. Len(worker'.batch) <= MaxBatch
        BY <1>0, <2>1, EmptySeq DEF OpenInv
    <2> QED
        BY <2>1, <2>2 DEF OpenInv
<1>6. CASE WorkerDrains
    <2>1. closed /\ closed' = closed /\ closer' = closer
        BY <1>6 DEF WorkerDrains, OpenInv
    <2>2. worker'.batch = worker.batch
        BY <1>0, <1>6 DEF WorkerDrains, Pop
    <2> QED
        BY <2>1, <2>2 DEF OpenInv
<1>7. ASSUME NEW k \in Closers, CloseChecks(k) \/ CloseStep(k) PROVE OpenInv'
    <2>1. CASE CloseChecks(k)
        BY <1>0, <1>7, <2>1 DEF CloseChecks, OpenInv
    <2>2. CASE CloseSets(k)
        BY <1>0, <1>7, <2>2 DEF CloseSets, OpenInv
    <2>3. CASE ClosePuts(k) \/ CloseJoins(k) \/ CloseDrains(k)
        <3>1. closed /\ closed' = closed /\ worker' = worker
            BY <2>3 DEF ClosePuts, CloseJoins, CloseDrains, OpenInv
        <3> QED
            BY <3>1 DEF OpenInv
    <2> QED
        BY <1>7, <2>1, <2>2, <2>3 DEF CloseStep
<1> QED
    BY <1>1, <1>2, <1>4, <1>5, <1>6, <1>7 DEF Next, WorkerStep, CheckOpen, Wake, vars

\* What a step does to the queue, and to the place of a caller that waits on.
LEMMA QueueMoves ==
  ASSUME GatherInv, Next, NEW c \in Callers, Pending(c)
  PROVE  /\ Request(c)' = Request(c)
         /\ \/ UNCHANGED queue
            \/ queue # <<>> /\ queue' = Tail(queue)
            \/ \E q : q # Request(c) /\ queue' = Append(queue, q)
<1>0. GatherTypeOK /\ RestInv /\ call \in [Callers -> CallType] /\ call[c].pc = "waiting"
    BY DEF GatherInv, GatherTypeOK, CallType, Pending
<1>1. Request(c) # Sentinel
    BY <1>0, RequestFacts, Distinctions
<1>2. ASSUME NEW value, Settle(value) PROVE Request(c)' = Request(c)
    <2>1. call'[c].n = call[c].n
        BY <1>0, <1>2 DEF Settle, CallType
    <2> QED
        BY <2>1 DEF Request
<1>3. ASSUME NEW d \in Callers, CheckOpen(d) \/ Enqueue(d) \/ Wake(d)
      PROVE  /\ call'[c].n = call[c].n
             /\ UNCHANGED queue \/ (queue' = Append(queue, Request(d)) /\ d # c)
    <2>1. CASE CheckOpen(d)
        BY <1>0, <2>1 DEF CheckOpen
    <2>2. CASE Enqueue(d)
        BY <1>0, <2>2 DEF Enqueue
    <2>3. CASE Wake(d)
        <3>1. call' = [call EXCEPT ![d] = [@ EXCEPT !.pc = "idle", !.future = None]]
            BY <1>0, <2>3 DEF Wake, CallType
        <3> QED
            BY <1>0, <2>3, <3>1 DEF Wake, CallType
    <2> QED
        BY <1>3, <2>1, <2>2, <2>3
<1>4. CASE \E d \in Callers : CheckOpen(d) \/ Enqueue(d) \/ Wake(d)
    <2>1. PICK d \in Callers : CheckOpen(d) \/ Enqueue(d) \/ Wake(d)
        BY <1>4
    <2>2. d # c => Request(d) # Request(c)
        BY DEF Request
    <2> QED
        BY <1>3, <2>1, <2>2 DEF Request
<1>5. CASE Pop
    BY <1>2, <1>5 DEF Pop
<1>6. CASE WorkerStep
    <2>1. CASE Take \/ Collect \/ WindowEnds
        BY <2>1 DEF Take, Collect, WindowEnds, Request
    <2>2. CASE Dispatch \/ DispatchRaises
        BY <1>2, <2>2 DEF Dispatch, DispatchRaises
    <2>3. CASE WorkerDrains
        BY <1>5, <2>3 DEF WorkerDrains, Request
    <2> QED
        BY <1>6, <2>1, <2>2, <2>3 DEF WorkerStep
<1>7. ASSUME NEW k \in Closers, CloseChecks(k) \/ CloseStep(k)
      PROVE  Pop \/ UNCHANGED <<call, queue>> \/ (UNCHANGED call /\ queue' = Append(queue, Sentinel))
    BY <1>7 DEF CloseChecks, CloseStep, CloseSets, ClosePuts, CloseJoins, CloseDrains
<1> QED
    BY <1>1, <1>4, <1>5, <1>6, <1>7 DEF Next, Request

LEMMA PlaceMoves ==
  ASSUME GatherInv, NEW c \in Callers, Pending(c), Request(c)' = Request(c)
  PROVE  /\ UNCHANGED queue => Place(c)' = Place(c)
         /\ queue # <<>> /\ queue' = Tail(queue) => \A i \in Place(c)' : i + 1 \in Place(c)
         /\ \A q : q # Request(c) /\ queue' = Append(queue, q) => Place(c)' = Place(c)
<1>0. /\ GatherTypeOK /\ PlacesInv /\ queue \in Seq(Requests \union {Sentinel}) /\ Len(queue) \in Nat
    BY DEF GatherInv, GatherTypeOK
<1>1. ASSUME queue # <<>>, queue' = Tail(queue), NEW i \in Place(c)' PROVE i + 1 \in Place(c)
    <2>1. i \in 1..Len(queue') /\ queue'[i] = Request(c)
        BY <1>1 DEF Place
    <2>2. i + 1 \in 1..Len(queue) /\ queue'[i] = queue[i + 1]
        BY <1>0, <1>1, <2>1, HeadFacts
    <2> QED
        BY <2>1, <2>2 DEF Place
<1>2. ASSUME NEW q, q # Request(c), queue' = Append(queue, q) PROVE Place(c)' = Place(c)
    <2>1. /\ Len(queue') = Len(queue) + 1 /\ queue'[Len(queue) + 1] = q
          /\ \A i \in 1..Len(queue) : queue'[i] = queue[i]
        <3>1. queue \in Seq(Requests \union {Sentinel, q})
            BY <1>0
        <3> QED
            BY <1>2, <3>1, AppendProperties
    <2> QED
        BY <1>0, <1>2, <2>1 DEF Place
<1> QED
    BY <1>1, <1>2 DEF Place

LEMMA WorkerNears ==
  ASSUME GatherInv, OpenInv, OpenInv', GatherInv', WorkerStep, NEW c \in Callers, Pending(c), Pending(c)'
  PROVE  TurnNears(c)
<1>0. /\ GatherTypeOK /\ RestInv /\ PlacesInv /\ MaxBatch \in Nat \ {0}
      /\ worker \in [pc : {"take", "gather", "dispatch", "drain", "stopped"},
                     batch : Seq(Requests), stop : BOOLEAN]
      /\ Len(worker.batch) \in 0..MaxBatch
    <2>1. MaxBatch \in Nat \ {0}
        BY GatherAssumption DEF GatherAssumption
    <2> QED
        BY <2>1 DEF GatherInv, GatherTypeOK, OpenInv
<1>1. Request(c)' = Request(c)
    BY QueueMoves DEF Next
<1>2. CASE queue # <<>> /\ queue' = Tail(queue) /\ Place(c) # {}
    BY <1>1, <1>2, PlaceMoves DEF TurnNears
<1>3. CASE UNCHANGED queue /\ WindowLeft' < WindowLeft
    BY <1>1, <1>3, PlaceMoves DEF TurnNears
<1>4. Place(c) = {} => worker.batch # <<>>
    <2>1. Place(c) = {} => \E i \in 1..Len(worker.batch) : worker.batch[i] = Request(c)
        BY <1>0 DEF PlacesInv, Place
    <2>2. worker.batch = <<>> => 1..Len(worker.batch) = {}
        BY <1>0, EmptySeq
    <2> QED
        BY <2>1, <2>2
<1>5. CASE Take
    BY <1>0, <1>2, <1>4, <1>5 DEF Take, RestInv
<1>6. CASE Collect /\ Place(c) = {}
    <2>1. /\ worker.pc = "gather" /\ Len(worker.batch) < MaxBatch /\ queue # <<>> /\ queue' = Tail(queue)
          /\ worker' = IF Head(queue) = Sentinel
                       THEN [worker EXCEPT !.pc = "dispatch", !.stop = TRUE]
                       ELSE [worker EXCEPT !.batch = Append(@, Head(queue))]
        BY <1>6 DEF Collect
    <2>2. WindowLeft' < WindowLeft
        <3>1. CASE Head(queue) = Sentinel
            <4>1. worker'.pc = "dispatch"
                BY <1>0, <2>1, <3>1
            <4> QED
                BY <1>0, <2>1, <4>1 DEF WindowLeft
        <3>2. CASE Head(queue) # Sentinel
            <4>1. worker'.pc = "gather" /\ worker'.batch = Append(worker.batch, Head(queue))
                BY <1>0, <2>1, <3>2
            <4>2. Head(queue) \in Requests
                BY <1>0, <2>1, <3>2, HeadFacts
            <4>3. Len(worker'.batch) = Len(worker.batch) + 1
                BY <1>0, <4>1, <4>2, AppendProperties
            <4> QED
                BY <1>0, <2>1, <4>1, <4>3 DEF WindowLeft
        <3> QED
            BY <3>1, <3>2
    <2>3. Place(c)' = {}
        BY <1>1, <1>6, <2>1, PlaceMoves
    <2> QED
        BY <1>6, <2>2, <2>3 DEF TurnNears
<1>7. CASE Collect /\ Place(c) # {}
    BY <1>2, <1>7 DEF Collect
<1>8. CASE WindowEnds
    <2>1. worker.pc = "gather" /\ worker'.pc = "dispatch" /\ UNCHANGED queue
        BY <1>0, <1>8 DEF WindowEnds
    <2> QED
        BY <1>0, <1>3, <2>1 DEF WindowLeft
<1>9. CASE Dispatch \/ DispatchRaises
    <2>1. worker.pc = "dispatch" /\ worker' = AfterDispatch /\ UNCHANGED queue
        BY <1>9 DEF Dispatch, DispatchRaises
    <2>2. worker'.pc \in {"take", "drain"}
        BY <2>1 DEF AfterDispatch
    <2> QED
        BY <1>3, <2>1, <2>2 DEF WindowLeft
<1>10. CASE WorkerDrains
    <2>1. Place(c) # {}
        BY <1>0, <1>4, <1>10 DEF WorkerDrains, RestInv
    <2>2. queue # <<>>
        BY <2>1, EmptySeq DEF Place
    <2> QED
        BY <1>2, <1>10, <2>1, <2>2 DEF WorkerDrains, Pop
<1> QED
    BY <1>5, <1>6, <1>7, <1>8, <1>9, <1>10 DEF WorkerStep

\* While the gather is open the worker runs, and it never stops while somebody
\* waits.  A waiting caller is overtaken by nobody, and every step of the worker
\* brings its turn nearer: the queue and the window are finite, so a caller that
\* waits is answered within a bounded number of the worker's steps (_run, the
\* drain after the sentinel).
THEOREM TurnTheorem ==
  Spec => /\ [](~closed => worker.pc \notin {"drain", "stopped"})
          /\ [](WindowLeft \in 0..MaxBatch + 2)
          /\ [][\A c \in Callers : Pending(c) =>
                  /\ worker'.pc = "stopped" => worker.pc = "stopped"
                  /\ Pending(c)' => KeepsTurn(c) /\ (WorkerStep => TurnNears(c))]_vars
<1>1. GatherInv /\ OpenInv => (~closed => worker.pc \notin {"drain", "stopped"}) /\ WindowLeft \in 0..MaxBatch + 2
    BY WindowBounds DEF OpenInv, GatherInv
<1>2. Init => OpenInv
    <2> SUFFICES ASSUME Init PROVE OpenInv
        OBVIOUS
    <2>1. Len(queue) = 0 /\ Len(worker.batch) = 0 /\ MaxBatch \in Nat
        BY GatherAssumption DEF Init, GatherAssumption
    <2>2. 1..Len(queue) = {}
        BY <2>1
    <2> QED
        BY <2>1, <2>2 DEF Init, OpenInv
<1>3. GatherInv /\ OpenInv /\ GatherInv' /\ OpenInv' /\ [Next]_vars =>
        [\A c \in Callers : Pending(c) =>
            /\ worker'.pc = "stopped" => worker.pc = "stopped"
            /\ Pending(c)' => KeepsTurn(c) /\ (WorkerStep => TurnNears(c))]_vars
    <2> SUFFICES ASSUME GatherInv, OpenInv, GatherInv', OpenInv', Next, NEW c \in Callers, Pending(c)
                 PROVE  /\ worker'.pc = "stopped" => worker.pc = "stopped"
                        /\ Pending(c)' => KeepsTurn(c) /\ (WorkerStep => TurnNears(c))
        OBVIOUS
    <2>1. Pending(c)' => KeepsTurn(c)
        BY QueueMoves, PlaceMoves DEF KeepsTurn
    <2>2. ASSUME worker'.pc = "stopped", worker.pc # "stopped" PROVE FALSE
        <3>0. /\ worker \in [pc : {"take", "gather", "dispatch", "drain", "stopped"},
                             batch : Seq(Requests), stop : BOOLEAN]
              /\ PlacesInv /\ RestInv
            BY DEF GatherInv, GatherTypeOK
        <3>1. ~UNCHANGED worker
            BY <2>2
        <3>2. WorkerStep
            BY <3>1 DEF Next, CheckOpen, Enqueue, Wake, CloseChecks, CloseStep, CloseSets, ClosePuts,
                        CloseJoins, CloseDrains
        <3>3. ~Take /\ ~Collect /\ ~WindowEnds
            BY <2>2, <3>0 DEF Take, Collect, WindowEnds
        <3>4. ~Dispatch /\ ~DispatchRaises
            BY <2>2 DEF Dispatch, DispatchRaises, AfterDispatch
        <3>5. WorkerDrains /\ queue = <<>> /\ worker.batch = <<>>
            BY <3>0, <3>1, <3>2, <3>3, <3>4 DEF WorkerStep, WorkerDrains, RestInv
        <3>6. 1..Len(queue) = {} /\ 1..Len(worker.batch) = {}
            BY <3>5, EmptySeq
        <3> QED
            BY <3>0, <3>6 DEF PlacesInv
    <2> QED
        BY <2>1, <2>2, WorkerNears
<1> QED
    BY <1>1, <1>2, <1>3, StepOpen, GatherInvHolds, PTL DEF Spec
=============================================================================
