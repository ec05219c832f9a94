------------------------ MODULE IngesterOrderProofs ------------------------
(***************************************************************************)
(* Requests are settled in the order of their acknowledgement, a returned  *)
(* Flush leaves nothing in the buffers, and the counters account for every *)
(* acknowledged point, for all requests, callers and configurations.       *)
(***************************************************************************)
EXTENDS IngesterDeliveryProofs

-----------------------------------------------------------------------------
(***************************************************************************)
(* The channel is a queue of the latest acknowledgements, but for requests *)
(* without points, which never enter it; and what the batch holds is older *)
(* than all that the channel holds, and complete from its oldest request   *)
(* on.                                                                     *)
(***************************************************************************)
OrderInv ==
    /\ IsInjective(ackOrder)
    /\ \A c \in Range(ackOrder) : call[c] = "acked"
    /\ Range(queue) \subseteq Range(ackOrder)
    /\ \A c, d \in Range(queue) : Precedes(ackOrder, c, d) => Precedes(queue, c, d)
    /\ \A c \in Range(queue), d \in Calls :
          Precedes(ackOrder, c, d) => d \in Range(queue) \/ Range(PointsOf[d]) = {}
    /\ \A c, d \in Calls :
          Precedes(ackOrder, c, d) /\ Range(PointsOf[c]) \cap Range(pendingPoints) # {}
              => d \in Range(queue) \/ Range(PointsOf[d]) \subseteq Range(pendingPoints)

\* An acknowledgement adds a call that was not acknowledged before.
LEMMA Acknowledged ==
    ASSUME ackOrder \in Seq(Calls), OrderInv, NEW c \in Calls, call[c] # "acked",
           ackOrder' = Append(ackOrder, c)
    PROVE  /\ c \notin Range(ackOrder) /\ IsInjective(ackOrder')
           /\ Range(ackOrder') = Range(ackOrder) \cup {c}
           /\ \A x, y : Precedes(ackOrder', x, y)
                         <=> Precedes(ackOrder, x, y) \/ (x \in Range(ackOrder) /\ y = c)
<1>1. c \notin Range(ackOrder)
  BY DEF OrderInv
<1>2. IsInjective(ackOrder')
  BY <1>1, InjectiveAppend DEF OrderInv
<1>3. Range(ackOrder') = Range(ackOrder) \cup {c}
  BY RangeOfAppend
<1>4. \A x, y : Precedes(ackOrder', x, y)
                <=> Precedes(ackOrder, x, y) \/ (x \in Range(ackOrder) /\ y = c)
  BY PrecedesInAppend
<1> QED
  BY <1>1, <1>2, <1>3, <1>4

LEMMA OrderInvariant == Spec => []OrderInv
<1> USE DEF channel, batch, callers, history, results, records, tables
<1>1. Init => OrderInv
  <2> SUFFICES ASSUME Init PROVE OrderInv
    OBVIOUS
  <2>1. queue = << >> /\ ackOrder = << >> /\ Range(queue) = {} /\ Range(ackOrder) = {}
    BY RangeOfEmpty DEF Init, NewIngester
  <2>2. IsInjective(ackOrder) /\ \A x, y : ~ Precedes(ackOrder, x, y)
    BY <2>1 DEF IsInjective, Precedes
  <2> QED
    BY <2>1, <2>2 DEF OrderInv
<1>2. TypeOK /\ OwnershipInv /\ OrderInv /\ [Next]_vars => OrderInv'
  <2> SUFFICES ASSUME TypeOK, OwnershipInv, OrderInv, [Next]_vars
               PROVE  OrderInv'
    OBVIOUS
  <2>0. /\ queue \in Seq(Calls) /\ pendingPoints \in Seq(Points) /\ ackOrder \in Seq(Calls)
        /\ Range(queue) \subseteq Calls
        /\ call \in [Calls -> {"idle", "enqueue", "acked", "cancelled", "failed", "panicked"}]
    BY RangeOfSeq DEF TypeOK
  <2>1. ASSUME UNCHANGED << queue, pendingPoints, ackOrder >>,
               \A c \in Calls : call[c] = "acked" => call'[c] = "acked"
        PROVE  OrderInv'
    <3>1. Range(ackOrder) \subseteq Calls
      BY <2>0, RangeOfSeq
    <3> QED
      BY <2>1, <3>1 DEF OrderInv
  <2>2. ASSUME NEW c \in Calls, Export(c)
        PROVE  OrderInv'
    <3>1. CASE ~ IsEmptyRequest(c)
      BY <2>0, <2>1, <2>2, <3>1 DEF Export
    <3>2. CASE IsEmptyRequest(c)
      <4>1. /\ call[c] # "acked" /\ call' = [call EXCEPT ![c] = "acked"]
            /\ ackOrder' = Append(ackOrder, c) /\ UNCHANGED << queue, pendingPoints >>
        BY <2>2, <3>2 DEF Export
      <4>2. Range(PointsOf[c]) = {}
        BY <3>2, RangeOfEmpty DEF IsEmptyRequest
      <4>3. /\ c \notin Range(ackOrder) /\ IsInjective(ackOrder')
            /\ Range(ackOrder') = Range(ackOrder) \cup {c}
            /\ \A x, y : Precedes(ackOrder', x, y)
                          <=> Precedes(ackOrder, x, y) \/ (x \in Range(ackOrder) /\ y = c)
        BY <2>0, <4>1, Acknowledged
      <4>4. \A d \in Range(ackOrder') : call'[d] = "acked"
        BY <2>0, <4>1, <4>3 DEF OrderInv
      <4>5. c \notin Range(queue)
        BY <4>3 DEF OrderInv
      <4> QED
        BY <4>1, <4>2, <4>3, <4>4, <4>5 DEF OrderInv
    <3> QED
      BY <3>1, <3>2
  <2>3. ASSUME NEW c \in Calls, Enqueue(c)
        PROVE  OrderInv'
    <3>1. /\ call[c] # "acked" /\ call' = [call EXCEPT ![c] = "acked"]
          /\ ackOrder' = Append(ackOrder, c) /\ queue' = Append(queue, c)
          /\ UNCHANGED pendingPoints
      BY <2>3 DEF Enqueue, Send, Queued
    <3>2. /\ c \notin Range(ackOrder) /\ IsInjective(ackOrder')
          /\ Range(ackOrder') = Range(ackOrder) \cup {c}
          /\ \A x, y : Precedes(ackOrder', x, y)
                        <=> Precedes(ackOrder, x, y) \/ (x \in Range(ackOrder) /\ y = c)
      BY <2>0, <3>1, Acknowledged
    <3>3. /\ Range(queue') = Range(queue) \cup {c}
          /\ \A x, y : Precedes(queue', x, y)
                        <=> Precedes(queue, x, y) \/ (x \in Range(queue) /\ y = c)
      BY <2>0, <3>1, RangeOfAppend, PrecedesInAppend
    <3>4. \A d \in Range(ackOrder') : call'[d] = "acked"
      BY <2>0, <3>1, <3>2 DEF OrderInv
    <3>5. \A x, y : Precedes(ackOrder, x, y) => x # c /\ y # c
      BY <2>0, <3>2, PrecedesIsOrder DEF OrderInv
    <3>6. Range(queue') \subseteq Range(ackOrder')
      BY <3>2, <3>3 DEF OrderInv
    <3>7. \A d, e \in Range(queue') : Precedes(ackOrder', d, e) => Precedes(queue', d, e)
      BY <3>2, <3>3, <3>5 DEF OrderInv
    <3>8. \A d \in Range(queue'), e \in Calls :
             Precedes(ackOrder', d, e) => e \in Range(queue') \/ Range(PointsOf[e]) = {}
      BY <3>2, <3>3, <3>5 DEF OrderInv
    <3>9. \A d, e \in Calls :
             Precedes(ackOrder', d, e) /\ Range(PointsOf[d]) \cap Range(pendingPoints) # {}
                 => e \in Range(queue') \/ Range(PointsOf[e]) \subseteq Range(pendingPoints)
      BY <3>2, <3>3 DEF OrderInv
    <3> QED
      BY <3>1, <3>2, <3>4, <3>6, <3>7, <3>8, <3>9 DEF OrderInv
  <2>4. CASE Receive
    <3>1. PICK c \in Calls : c = Head(queue)
      BY <2>0, <2>4, HeadTailProperties DEF Receive
    <3>2. /\ queue # << >> /\ queue' = Tail(queue)
          /\ pendingPoints' = pendingPoints \o PointsOf[c]
          /\ UNCHANGED << call, ackOrder >>
      BY <2>4, <3>1 DEF Receive, Accumulated
    <3>3. Range(queue) = {c} \cup Range(queue') /\ c \notin Range(queue')
      BY <2>0, <3>1, <3>2, RangeOfTail, InjectiveTail DEF OwnershipInv
    <3>4. Range(pendingPoints') = Range(pendingPoints) \cup Range(PointsOf[c])
      BY <2>0, <3>2, RequestTypes, RangeConcatenation
    <3>5. \A d, e \in Range(queue) : Precedes(ackOrder, d, e) =>
              e # c /\ (d # c => Precedes(queue', d, e))
      BY <2>0, <3>1, <3>2, PrecedesInTail DEF OrderInv, OwnershipInv
    <3>6. \A d \in Range(queue'), e \in Calls :
             Precedes(ackOrder, d, e) => e \in Range(queue') \/ Range(PointsOf[e]) = {}
      BY <3>3, <3>5 DEF OrderInv
    <3>7. ASSUME NEW d \in Calls, NEW e \in Calls, Precedes(ackOrder, d, e),
                 Range(PointsOf[d]) \cap Range(pendingPoints') # {}
          PROVE  e \in Range(queue') \/ Range(PointsOf[e]) \subseteq Range(pendingPoints')
      <4>1. CASE Range(PointsOf[d]) \cap Range(pendingPoints) # {}
        BY <3>3, <3>4, <3>7, <4>1 DEF OrderInv
      <4>2. CASE Range(PointsOf[d]) \cap Range(PointsOf[c]) # {}
        <5>1. d = c
          BY <4>2, PointsAreDistinct
        <5>2. e # d
          BY <2>0, <3>7, PrecedesIsOrder DEF OrderInv
        <5>3. e \in Range(queue) \/ Range(PointsOf[e]) = {}
          BY <3>3, <3>7, <5>1 DEF OrderInv
        <5> QED
          BY <3>3, <5>1, <5>2, <5>3
      <4> QED
        BY <3>4, <3>7, <4>1, <4>2
    <3>8. \A d, e \in Range(queue') : Precedes(ackOrder, d, e) => Precedes(queue', d, e)
      BY <3>3, <3>5
    <3>9. Range(queue') \subseteq Range(ackOrder)
      BY <3>3 DEF OrderInv
    <3> QED
      BY <3>2, <3>6, <3>7, <3>8, <3>9 DEF OrderInv
  <2>5. CASE InsertMetadata
    <3>1. pendingPoints' = << >> /\ UNCHANGED << call, queue, ackOrder >>
      BY <2>5 DEF InsertMetadata, EmptyBuffers
    <3>2. Range(pendingPoints') = {}
      BY <3>1, RangeOfEmpty
    <3> QED
      BY <3>1, <3>2 DEF OrderInv
  <2>6. ASSUME Die, \A c \in Calls : call[c] = "acked" => call'[c] = "acked"
        PROVE  OrderInv'
    <3>1. queue' = << >> /\ pendingPoints' = << >> /\ UNCHANGED ackOrder
      BY <2>6 DEF Die
    <3>2. Range(queue') = {} /\ Range(pendingPoints') = {}
      BY <3>1, RangeOfEmpty
    <3>3. Range(ackOrder) \subseteq Calls
      BY <2>0, RangeOfSeq
    <3> QED
      BY <2>6, <3>1, <3>2, <3>3 DEF OrderInv
  <2>7. CASE Crash
    BY <2>0, <2>6, <2>7 DEF Crash
  <2>8. ASSUME NEW c \in Calls, EnqueueOnClosed(c)
        PROVE  OrderInv'
    BY <2>0, <2>6, <2>8 DEF EnqueueOnClosed
  <2>9. ASSUME NEW c \in Calls, EnqueueCancelled(c)
        PROVE  OrderInv'
    BY <2>0, <2>1, <2>9 DEF EnqueueCancelled
  <2>10. ASSUME \/ \E f \in Flushers : Flush(f) \/ FlushCancelled(f) \/ FlushRequest(f)
                \/ \E k \in Closers : Close(k) \/ CloseReturns(k) \/ CloseCancelled(k)
                \/ Tick \/ ReceiveClosed \/ AccumulateSeries \/ AccumulateDone
                \/ FlushNothing \/ InsertPoints \/ Restart \/ ClickHouse \/ UNCHANGED vars
         PROVE  OrderInv'
    <3>1. UNCHANGED << call, queue, pendingPoints, ackOrder >>
      BY <2>10 DEF Flush, FlushCancelled, FlushRequest, Close, CallClose, CloseReturns,
                   CloseCancelled, Tick, ReceiveClosed, StopReceiving, AccumulateSeries,
                   AccumulateDone, FlushNothing, InsertPoints, Restart, ClickHouse,
                   PointLands, MetaLands, Merge, vars
    <3> QED
      BY <2>1, <3>1
  <2> QED
    BY <2>2, <2>3, <2>4, <2>5, <2>7, <2>8, <2>9, <2>10 DEF Next, Caller, Flusher
<1> QED
  BY <1>1, <1>2, TypeCorrect, OwnershipInvariant, PTL DEF Spec

\* As long as a point of a request is in memory, so are all points of the requests that
\* were acknowledged later: one channel, one flusher, whole items (ingester.go:54-63,
\* 143-163, 167-169).
THEOREM AckOrderIsKept == Spec => []SettledInAckOrder
<1>1. TypeOK /\ OrderInv => SettledInAckOrder
  <2> SUFFICES ASSUME TypeOK, OrderInv, NEW i \in DOMAIN ackOrder, NEW j \in DOMAIN ackOrder,
                      i < j, Range(PointsOf[ackOrder[i]]) \cap InFlightPoints # {}
               PROVE  Range(PointsOf[ackOrder[j]]) \subseteq InFlightPoints
    BY DEF SettledInAckOrder
  <2> DEFINE c == ackOrder[i]
             d == ackOrder[j]
  <2>1. c \in Calls /\ d \in Calls /\ Precedes(ackOrder, c, d)
    BY ElementOfSeq, LenProperties DEF TypeOK, Precedes
  <2> HIDE DEF c, d
  <2>2. Range(queue) \subseteq Calls
    BY RangeOfSeq DEF TypeOK
  <2>3. CASE Range(PointsOf[c]) \cap QueuedPoints # {}
    <3>1. c \in Range(queue)
      BY <2>1, <2>2, <2>3, PointsAreDistinct DEF QueuedPoints
    <3>2. d \in Range(queue) \/ Range(PointsOf[d]) = {}
      BY <2>1, <3>1 DEF OrderInv
    <3> QED
      BY <3>2 DEF d, InFlightPoints, QueuedPoints
  <2>4. CASE Range(PointsOf[c]) \cap QueuedPoints = {}
    <3>1. pc # "insertMeta" /\ Range(PointsOf[c]) \cap Range(pendingPoints) # {}
      BY <2>4 DEF c, InFlightPoints
    <3>2. d \in Range(queue) \/ Range(PointsOf[d]) \subseteq Range(pendingPoints)
      BY <2>1, <3>1 DEF OrderInv
    <3> QED
      BY <3>1, <3>2 DEF d, InFlightPoints, QueuedPoints
  <2> QED
    BY <2>3, <2>4
<1> QED
  BY <1>1, OrderInvariant, TypeCorrect, PTL

-----------------------------------------------------------------------------
\* A Flush call returns nil only at the end of a flush, which leaves nothing but the
\* channel in memory (Flush, 113-128; flush, 183-211).
THEOREM FlushLeavesQueueOnly == Spec => FlushDrainsBuffers
<1>1. TypeOK /\ ControlInv /\ [Next]_vars
        => \A f \in Flushers : flushCall[f] # "done" /\ flushCall'[f] = "done"
              => InFlightPoints' = QueuedPoints' /\ todo' = << >> /\ pendingMeta' = << >>
  <2> SUFFICES ASSUME TypeOK, ControlInv, [Next]_vars, NEW f \in Flushers,
                      flushCall[f] # "done", flushCall'[f] = "done"
               PROVE  InFlightPoints' = QueuedPoints' /\ todo' = << >> /\ pendingMeta' = << >>
    OBVIOUS
  <2>1. FlushNothing \/ InsertMetadata
    <3> USE DEF channel, batch, callers, history, results, records, tables
    <3>1. flushCall \in [Flushers -> {"idle", "requesting", "waiting", "done", "cancelled"}]
      BY DEF TypeOK
    <3>2. ASSUME NEW g \in Flushers, Flush(g) \/ FlushCancelled(g) \/ FlushRequest(g)
          PROVE  FALSE
      BY <3>1, <3>2 DEF Flush, FlushCancelled, FlushRequest, Taken
    <3>3. ASSUME NEW c \in Calls, Export(c) \/ Enqueue(c) \/ EnqueueCancelled(c)
          PROVE  FALSE
      BY <3>3 DEF Export, Enqueue, Send, EnqueueCancelled
    <3>4. ASSUME NEW k \in Closers, Close(k) \/ CloseReturns(k) \/ CloseCancelled(k)
          PROVE  FALSE
      BY <3>4 DEF Close, CallClose, CloseReturns, CloseCancelled
    <3>5. CASE Die
      BY <3>5 DEF Die
    <3>6. CASE Receive \/ AccumulateSeries \/ AccumulateDone \/ Tick \/ ReceiveClosed
               \/ InsertPoints \/ Restart \/ ClickHouse \/ UNCHANGED vars
      BY <3>6 DEF Receive, AccumulateSeries, AccumulateDone, Tick, ReceiveClosed,
                  StopReceiving, InsertPoints, Restart, ClickHouse, PointLands, MetaLands,
                  Merge, vars
    <3> QED
      BY <3>2, <3>3, <3>4, <3>5, <3>6 DEF Next, Caller, Flusher, Crash, EnqueueOnClosed
  <2>2. todo = << >> /\ UNCHANGED todo
    BY <2>1 DEF ControlInv, FlushNothing, InsertMetadata, batch
  <2>3. pendingPoints' = << >> /\ pendingMeta' = << >>
    BY <2>1 DEF FlushNothing, NothingPending, InsertMetadata, EmptyBuffers, batch
  <2>4. InFlightPoints' = QueuedPoints'
    BY <2>3, RangeOfEmpty DEF InFlightPoints
  <2> QED
    BY <2>2, <2>3, <2>4
<1> QED
  BY <1>1, TypeCorrect, ControlInvariant, PTL DEF Spec, FlushDrainsBuffers

-----------------------------------------------------------------------------
(***************************************************************************)
(* What was acknowledged is finite; a point is not both in memory and in a *)
(* batch that failed.  A process that was started again counts from zero,  *)
(* so the sum is stated for the first.                                     *)
(***************************************************************************)
CountInv ==
    /\ IsFiniteSet(AckedPoints)
    /\ failedPoints \subseteq AckedPoints \ InFlightPoints
    /\ CountersAddUp

\* The steps that move no counter and settle nothing.
LEMMA CountersKept ==
    ASSUME [Next]_vars
    PROVE  \/ InsertPoints \/ Die
           \/ /\ UNCHANGED << flushedPoints, failedPoints, crashes >>
              /\ \/ UNCHANGED << flushErrors, failedMeta >>
                 \/ flushErrors' = flushErrors + 1
<1> USE DEF channel, batch, callers, history, results, records, tables
<1>1. CASE CallerStep
  BY <1>1 DEF CallerStep
<1>2. CASE Receive \/ AccumulateSeries \/ AccumulateDone \/ FlushNothing \/ Restart
  BY <1>2 DEF Receive, AccumulateSeries, AccumulateDone, FlushNothing, Restart
<1>3. CASE BeginFlush
  BY <1>3 DEF BeginFlush
<1>4. CASE InsertMetadata
  BY <1>4 DEF InsertMetadata, InsertMetadataSucceeds, InsertMetadataFails, ErrorCounted
<1>5. CASE ClickHouse
  BY <1>5 DEF ClickHouse, PointLands, MetaLands, Merge
<1> QED
  BY <1>1, <1>2, <1>3, <1>4, <1>5, StepCases

LEMMA CountInvariant == Spec => []CountInv
<1>1. Init => CountInv
  <2> SUFFICES ASSUME Init PROVE CountInv
    OBVIOUS
  <2>1. /\ queue = << >> /\ pendingPoints = << >> /\ failedPoints = {} /\ failedMeta = {}
        /\ flushedPoints = 0
    BY DEF Init, NewIngester
  <2>2. AckedPoints = {}
    BY DEF Init, AckedPoints
  <2>3. InFlightPoints = {}
    BY <2>1, RangeOfEmpty DEF InFlightPoints, QueuedPoints
  <2> QED
    BY <2>1, <2>2, <2>3, FS_EmptySet DEF CountInv, CountersAddUp
<1>2. TypeOK /\ ControlInv /\ OwnershipInv /\ CountInv /\ [Next]_vars => CountInv'
  <2> SUFFICES ASSUME TypeOK, ControlInv, OwnershipInv, CountInv, [Next]_vars
               PROVE  CountInv'
    OBVIOUS
  <2>0. /\ flushErrors \in Nat /\ crashes \in Nat /\ flushedPoints \in Nat
        /\ queue \in Seq(Calls) /\ pendingPoints \in Seq(Points)
    BY DEF TypeOK
  <2>1. InFlightPoints \subseteq AckedPoints
    <3>1. Range(queue) \subseteq Calls
      BY <2>0, RangeOfSeq
    <3> QED
      BY <3>1 DEF OwnershipInv, InFlightPoints, QueuedPoints, AckedPoints
  <2>2. /\ IsFiniteSet(AckedPoints) /\ IsFiniteSet(InFlightPoints) /\ IsFiniteSet(failedPoints)
        /\ Cardinality(AckedPoints) \in Nat /\ Cardinality(InFlightPoints) \in Nat
        /\ Cardinality(failedPoints) \in Nat
    <3>1. IsFiniteSet(AckedPoints) /\ failedPoints \subseteq AckedPoints
      BY DEF CountInv
    <3> QED
      BY <2>1, <3>1, FS_Subset, FS_CardinalityType
  <2>3. CASE InsertPoints
    <3> DEFINE P == Range(pendingPoints)
    <3>1. /\ P \subseteq InFlightPoints /\ AckedPoints' = AckedPoints
          /\ InFlightPoints' = InFlightPoints \ P
      BY <2>3, InsertPointsSettles DEF Settles
    <3>2. IsFiniteSet(P) /\ Cardinality(P) = Len(pendingPoints) /\ Len(pendingPoints) \in Nat
      BY <2>0, CardinalityOfRange, LenProperties DEF OwnershipInv
    <3>3. Cardinality(InFlightPoints') = Cardinality(InFlightPoints) - Cardinality(P)
      <4>1. InFlightPoints \cap P = P
        BY <3>1
      <4> QED
        BY <2>2, <3>1, <4>1, FS_Difference
    <3>4. failedPoints \cap P = {}
      BY <3>1 DEF CountInv
    <3>5. UNCHANGED << crashes, failedMeta >>
      BY <2>3 DEF InsertPoints
    <3>6. CASE InsertPointsSucceeds
      <4>1. /\ flushedPoints' = flushedPoints + Len(pendingPoints)
            /\ UNCHANGED << flushErrors, failedPoints >>
        BY <3>6 DEF InsertPointsSucceeds
      <4> QED
        BY <2>0, <2>2, <3>1, <3>2, <3>3, <3>5, <4>1 DEF CountInv, CountersAddUp
    <3>7. CASE InsertPointsFails
      <4>1. /\ failedPoints' = failedPoints \cup P /\ flushedPoints' = flushedPoints
            /\ flushErrors' = flushErrors + 1
        BY <3>7 DEF InsertPointsFails, ErrorCounted
      <4>2. Cardinality(failedPoints') = Cardinality(failedPoints) + Cardinality(P)
        BY <2>2, <3>2, <3>4, <4>1, DisjointUnion
      <4>3. failedPoints' \subseteq AckedPoints \ InFlightPoints'
        BY <2>1, <3>1, <4>1 DEF CountInv
      <4>4. flushErrors' # 0
        BY <2>0, <4>1
      <4> QED
        BY <2>0, <2>2, <3>1, <3>2, <3>3, <3>5, <4>1, <4>2, <4>3, <4>4 DEF CountInv, CountersAddUp
    <3> QED
      BY <2>3, <3>6, <3>7 DEF InsertPoints
  <2>4. \/ AckedPoints' = AckedPoints
        \/ \E c \in Calls : AckedPoints' = AckedPoints \cup Range(PointsOf[c])
    BY DeliverySteps DEF Stutter, Accepts, Settles, Lands
  <2>5. IsFiniteSet(AckedPoints')
    <3>1. \A c \in Calls : IsFiniteSet(Range(PointsOf[c]))
      BY RequestTypes, CardinalityOfRange
    <3> QED
      BY <2>2, <2>4, <3>1, FS_Union
  <2>6. CASE Die
    <3>1. crashes' = crashes + 1 /\ failedPoints' = {} /\ failedMeta' = {}
      BY <2>6 DEF Die
    <3>2. crashes' # 0
      BY <2>0, <3>1
    <3> QED
      BY <2>5, <3>1, <3>2 DEF CountInv, CountersAddUp
  <2>7. CASE ~ InsertPoints /\ ~ Die
    <3>1. /\ UNCHANGED << flushedPoints, failedPoints, crashes >>
          /\ flushErrors' = 0 => flushErrors = 0 /\ failedMeta' = failedMeta
      BY <2>0, <2>7, CountersKept
    <3>2. CASE UNCHANGED << AckedPoints, InFlightPoints >>
      BY <2>5, <3>1, <3>2 DEF CountInv, CountersAddUp
    <3>3. ASSUME NEW c \in Calls, Accepts(Range(PointsOf[c]))
          PROVE  CountInv'
      <4> DEFINE P == Range(PointsOf[c])
      <4>1. /\ P \cap AckedPoints = {} /\ AckedPoints' = AckedPoints \cup P
            /\ InFlightPoints' = InFlightPoints \cup P
        BY <3>3 DEF Accepts
      <4>2. IsFiniteSet(P)
        BY RequestTypes, CardinalityOfRange
      <4> HIDE DEF P
      <4>3. Cardinality(AckedPoints') = Cardinality(AckedPoints) + Cardinality(P)
        BY <2>2, <4>1, <4>2, DisjointUnion
      <4>4. Cardinality(InFlightPoints') = Cardinality(InFlightPoints) + Cardinality(P)
        BY <2>1, <2>2, <4>1, <4>2, DisjointUnion
      <4>5. Cardinality(P) \in Nat
        BY <4>2, FS_CardinalityType
      <4>6. failedPoints' \subseteq AckedPoints' \ InFlightPoints'
        BY <3>1, <4>1 DEF CountInv
      <4> QED
        BY <2>0, <2>2, <2>5, <3>1, <4>3, <4>4, <4>5, <4>6 DEF CountInv, CountersAddUp
    <3> QED
      BY <2>7, <3>2, <3>3, DeliverySteps DEF Stutter, Lands
  <2> QED
    BY <2>3, <2>6, <2>7
<1> QED
  BY <1>1, <1>2, TypeCorrect, ControlInvariant, OwnershipInvariant, PTL DEF Spec

\* The counters account for every acknowledged point, and no failure is uncounted
\* (flush, 190-207; accumulate, 167-169).
THEOREM CountersAreComplete == Spec => []CountersAddUp
<1>1. CountInv => CountersAddUp
  BY DEF CountInv
<1> QED
  BY <1>1, CountInvariant, PTL
=============================================================================
