----------------------- MODULE IngesterDeliveryProofs -----------------------
(***************************************************************************)
(* Ingester implements AckedDelivery: every acknowledged point is stored   *)
(* at most once, and its fate is decided once, for all requests, callers   *)
(* and configurations.                                                     *)
(***************************************************************************)
EXTENDS IngesterProofs

-----------------------------------------------------------------------------
(***************************************************************************)
(* Points of different requests differ, those of one request too.          *)
(***************************************************************************)
LEMMA PointsAreDistinct ==
    /\ \A c \in Calls : IsInjective(PointsOf[c])
    /\ \A c, d \in Calls : c # d => Range(PointsOf[c]) \cap Range(PointsOf[d]) = {}
<1>1. \A c \in Calls : IsInjective(PointsOf[c])
  BY DistinctPointsAssumption DEF IsInjective
<1>2. ASSUME NEW c \in Calls, NEW d \in Calls, NEW x \in Range(PointsOf[c]),
             x \in Range(PointsOf[d])
      PROVE  c = d
  <2>1. PICK i \in DOMAIN PointsOf[c] : x = PointsOf[c][i]
    BY <1>2 DEF Range
  <2>2. PICK j \in DOMAIN PointsOf[d] : x = PointsOf[d][j]
    BY <1>2 DEF Range
  <2>3. PointsOf[c][i] = PointsOf[d][j] => c = d /\ i = j
    BY <2>1, <2>2, DistinctPointsAssumption
  <2> QED
    BY <2>1, <2>2, <2>3
<1> QED
  BY <1>1, <1>2

(***************************************************************************)
(* What is in memory was acknowledged, is there once, and has no row yet   *)
(* and none in doubt; a point has one row or is in doubt once, never both. *)
(* That the queue and the buffer hold different points is what makes the   *)
(* theorems below inductive.                                               *)
(***************************************************************************)
Unsent(p) == pointRows[p] = 0 /\ pointsInDoubt[p] = 0
SentOnce(p) == \/ pointRows[p] = 1 /\ pointsInDoubt[p] = 0
               \/ pointRows[p] = 0 /\ pointsInDoubt[p] = 1

OwnershipInv ==
    /\ \A c \in Range(queue) : call[c] = "acked"
    /\ IsInjective(queue)
    /\ IsInjective(pendingPoints)
    /\ Range(pendingPoints) \subseteq AckedPoints
    /\ QueuedPoints \cap Range(pendingPoints) = {}
    /\ \A p \in InFlightPoints : Unsent(p)
    /\ \A p \in Points : Unsent(p) \/ (SentOnce(p) /\ p \in AckedPoints)

(***************************************************************************)
(* The effect of a step on what AckedDelivery sees.                        *)
(***************************************************************************)
Stutter == UNCHANGED << AckedPoints, InFlightPoints, pointRows, pointsInDoubt >>

Accepts(P) ==
    /\ P \cap AckedPoints = {}
    /\ AckedPoints' = AckedPoints \cup P
    /\ InFlightPoints' = InFlightPoints \cup P
    /\ UNCHANGED << pointRows, pointsInDoubt >>

Settles(P) ==
    /\ P \subseteq InFlightPoints
    /\ UNCHANGED AckedPoints
    /\ InFlightPoints' = InFlightPoints \ P
    /\ \A p \in Points \ P : pointRows'[p] = pointRows[p] /\ pointsInDoubt'[p] = pointsInDoubt[p]
    /\ \A p \in P : Unsent(p) /\ (Unsent(p)' \/ SentOnce(p)')
    /\ \A p \in P : pointRows'[p] > 0 \/ p \in failedPoints' \cup lostPoints'

Lands(p) ==
    /\ pointsInDoubt[p] = 1 /\ pointRows[p] = 0
    /\ pointRows' = [pointRows EXCEPT ![p] = 1]
    /\ pointsInDoubt' = [pointsInDoubt EXCEPT ![p] = 0]
    /\ UNCHANGED << AckedPoints, InFlightPoints >>

\* AckedPoints depends on call alone, and grows with it.
LEMMA AckedUnchanged ==
    ASSUME \A c \in Calls : call'[c] = "acked" <=> call[c] = "acked"
    PROVE  AckedPoints' = AckedPoints
BY DEF AckedPoints

\* The steps that change none of the variables OwnershipInv is about but call, and
\* call only where nothing was or becomes acknowledged.
LEMMA NoDeliveryStep ==
    ASSUME OwnershipInv,
           UNCHANGED << queue, pendingPoints, pointRows, pointsInDoubt >>,
           InFlightPoints' = InFlightPoints,
           AckedPoints' = AckedPoints,
           \A c \in Calls : call[c] = "acked" => call'[c] = "acked",
           Range(queue) \subseteq Calls
    PROVE  OwnershipInv' /\ Stutter
<1>1. QueuedPoints' = QueuedPoints
  BY DEF QueuedPoints
<1> QED
  BY <1>1 DEF OwnershipInv, Stutter, Unsent, SentOnce

\* A batch without repetition adds exactly one row of each of its unwritten items.
LEMMA BatchIsSent ==
    ASSUME NEW rows \in [Points -> Nat], NEW items \in Seq(Points), IsInjective(items)
    PROVE  /\ \A p \in Points \ Range(items) : Written(rows, items)[p] = rows[p]
           /\ \A p \in Points : p \in Range(items) /\ rows[p] = 0 => Written(rows, items)[p] = 1
<1>1. \A p \in Points : p \notin Range(items) => Written(rows, items)[p] = rows[p]
  BY WrittenGrows
<1>2. \A p \in Points : p \in Range(items) /\ rows[p] = 0 => Written(rows, items)[p] = 1
  BY WrittenGrows
<1> QED
  BY <1>1, <1>2

\* A step that settles acknowledged points and keeps the queue or empties it.
LEMMA SettledOwnership ==
    ASSUME OwnershipInv, NEW P \in SUBSET Points, Settles(P), P \subseteq AckedPoints,
           InFlightPoints \subseteq Points,
           \A c \in Range(queue') : call'[c] = "acked",
           IsInjective(queue'), IsInjective(pendingPoints'),
           Range(pendingPoints') \subseteq AckedPoints,
           QueuedPoints' \cap Range(pendingPoints') = {}
    PROVE  OwnershipInv'
<1>1. \A p \in InFlightPoints' : Unsent(p)'
  BY DEF OwnershipInv, Settles, Unsent
<1>2. \A p \in Points : Unsent(p)' \/ (SentOnce(p)' /\ p \in AckedPoints')
  BY DEF OwnershipInv, Settles, Unsent, SentOnce
<1>3. AckedPoints' = AckedPoints
  BY DEF Settles
<1> QED
  BY <1>1, <1>2, <1>3 DEF OwnershipInv

\* The return of the points' insert, whatever it is, settles the points of the buffer.
LEMMA InsertPointsSettles ==
    ASSUME TypeOK, OwnershipInv, InsertPoints
    PROVE  OwnershipInv' /\ Settles(Range(pendingPoints)) /\ Range(pendingPoints) \subseteq Points
<1> USE DEF channel, batch, callers, history, results, records, tables
<1>0. /\ queue \in Seq(Calls) /\ pendingPoints \in Seq(Points)
      /\ pointRows \in [Points -> Nat] /\ pointsInDoubt \in [Points -> Nat]
      /\ Range(queue) \subseteq Calls
      /\ Range(pendingPoints) \subseteq Points /\ InFlightPoints \subseteq Points
  BY RangeOfSeq, InFlightTypes DEF TypeOK
<1> DEFINE P == Range(pendingPoints)
<1>1. /\ pc = "flush" /\ pc' = "insertMeta"
      /\ UNCHANGED << call, queue, pendingPoints, lostPoints >>
  BY DEF InsertPoints
<1>2. AckedPoints' = AckedPoints /\ QueuedPoints' = QueuedPoints
  BY <1>1 DEF AckedPoints, QueuedPoints
<1>3. InFlightPoints = QueuedPoints \cup P /\ InFlightPoints' = QueuedPoints
  BY <1>1, <1>2 DEF InFlightPoints
<1>4. InFlightPoints' = InFlightPoints \ P
  BY <1>3 DEF OwnershipInv
<1>5. \A p \in P : p \in Points /\ Unsent(p)
  BY <1>0, <1>3 DEF OwnershipInv
<1>6. /\ \A p \in Points \ P : pointRows'[p] = pointRows[p] /\ pointsInDoubt'[p] = pointsInDoubt[p]
      /\ \A p \in P : SentOnce(p)' /\ (pointRows'[p] > 0 \/ p \in failedPoints')
  <2>1. CASE InsertPointsSucceeds
    <3>1. pointRows' = Written(pointRows, pendingPoints) /\ pointsInDoubt' = pointsInDoubt
      BY <2>1 DEF InsertPointsSucceeds
    <3>2. \A p \in Points \ P : pointRows'[p] = pointRows[p]
      BY <1>0, <3>1, BatchIsSent DEF OwnershipInv
    <3>3. \A p \in P : pointRows'[p] = 1 /\ pointsInDoubt'[p] = 0
      BY <1>0, <1>5, <3>1, BatchIsSent DEF OwnershipInv, Unsent
    <3> QED
      BY <3>1, <3>2, <3>3 DEF SentOnce
  <2>2. CASE InsertPointsFails
    <3>1. /\ pointsInDoubt' = Written(pointsInDoubt, pendingPoints) /\ pointRows' = pointRows
          /\ P \subseteq failedPoints'
      BY <2>2 DEF InsertPointsFails
    <3>2. \A p \in Points \ P : pointsInDoubt'[p] = pointsInDoubt[p]
      BY <1>0, <3>1, BatchIsSent DEF OwnershipInv
    <3>3. \A p \in P : pointsInDoubt'[p] = 1 /\ pointRows'[p] = 0
      BY <1>0, <1>5, <3>1, BatchIsSent DEF OwnershipInv, Unsent
    <3> QED
      BY <3>1, <3>2, <3>3 DEF SentOnce
  <2> QED
    BY <2>1, <2>2 DEF InsertPoints
<1>7. Settles(P)
  BY <1>2, <1>3, <1>4, <1>5, <1>6 DEF Settles
<1>8. P \subseteq AckedPoints
  BY DEF OwnershipInv
<1>9. OwnershipInv'
  BY <1>0, <1>7, <1>8, <1>1, <1>2, SettledOwnership DEF OwnershipInv
<1> QED
  BY <1>0, <1>7, <1>9

LEMMA DeliverySteps ==
    ASSUME TypeOK, ControlInv, OwnershipInv, [Next]_vars
    PROVE  /\ OwnershipInv'
           /\ \/ Stutter
              \/ \E c \in Calls : Accepts(Range(PointsOf[c]))
              \/ \E P \in SUBSET Points : Settles(P) /\ (InsertPoints \/ Die)
              \/ \E p \in Points : Lands(p)
<1> USE DEF channel, batch, callers, history, results, records, tables
<1> DEFINE Result == /\ OwnershipInv'
                     /\ \/ Stutter
                        \/ \E c \in Calls : Accepts(Range(PointsOf[c]))
                        \/ \E P \in SUBSET Points : Settles(P) /\ (InsertPoints \/ Die)
                        \/ \E p \in Points : Lands(p)
<1>1. /\ queue \in Seq(Calls) /\ pendingPoints \in Seq(Points)
      /\ pointRows \in [Points -> Nat] /\ pointsInDoubt \in [Points -> Nat]
      /\ Range(queue) \subseteq Calls
      /\ call \in [Calls -> {"idle", "enqueue", "acked", "cancelled", "failed", "panicked"}]
      /\ Range(pendingPoints) \subseteq Points /\ InFlightPoints \subseteq Points
  BY RangeOfSeq, InFlightTypes DEF TypeOK
<1>2. ASSUME NEW c \in Calls, Export(c)
      PROVE  Result
  <2>1. AckedPoints' = AckedPoints
    <3>1. CASE IsEmptyRequest(c)
      <4>1. Range(PointsOf[c]) = {}
        BY <3>1, RangeOfEmpty DEF IsEmptyRequest
      <4>2. \A d \in Calls : d # c => call'[d] = call[d]
        BY <1>1, <1>2 DEF Export
      <4> QED
        BY <4>1, <4>2 DEF AckedPoints
    <3>2. CASE ~ IsEmptyRequest(c)
      <4>1. \A d \in Calls : call'[d] = "acked" <=> call[d] = "acked"
        BY <1>1, <1>2, <3>2 DEF Export
      <4> QED
        BY <4>1, AckedUnchanged
    <3> QED
      BY <3>1, <3>2
  <2>2. \A d \in Calls : call[d] = "acked" => call'[d] = "acked"
    BY <1>1, <1>2 DEF Export
  <2>3. /\ UNCHANGED << queue, pendingPoints, pointRows, pointsInDoubt >>
        /\ InFlightPoints' = InFlightPoints
    BY <1>2 DEF Export, InFlightPoints, QueuedPoints
  <2> QED
    BY <1>1, <2>1, <2>2, <2>3, NoDeliveryStep
<1>3. ASSUME NEW c \in Calls, EnqueueCancelled(c)
      PROVE  Result
  <2>1. \A d \in Calls : call'[d] = "acked" <=> call[d] = "acked"
    BY <1>1, <1>3 DEF EnqueueCancelled
  <2>2. /\ UNCHANGED << queue, pendingPoints, pointRows, pointsInDoubt >>
        /\ InFlightPoints' = InFlightPoints
    BY <1>3 DEF EnqueueCancelled, InFlightPoints, QueuedPoints
  <2> QED
    BY <1>1, <2>1, <2>2, AckedUnchanged, NoDeliveryStep
<1>4. ASSUME \/ \E f \in Flushers : Flush(f) \/ FlushCancelled(f) \/ FlushRequest(f)
             \/ \E k \in Closers : Close(k) \/ CloseReturns(k) \/ CloseCancelled(k)
             \/ Tick \/ ReceiveClosed \/ AccumulateSeries \/ AccumulateDone
             \/ FlushNothing \/ Restart \/ UNCHANGED vars
             \/ \E f \in Fingerprints : MetaLands(f) \/ Merge(f)
      PROVE  Result
  <2>1. UNCHANGED << call, queue, pendingPoints, pointRows, pointsInDoubt >>
    BY <1>4 DEF Flush, FlushCancelled, FlushRequest, Close, CallClose, CloseReturns,
                CloseCancelled, Tick, ReceiveClosed, StopReceiving, AccumulateSeries,
                AccumulateDone, FlushNothing, Restart, MetaLands, Merge, vars
  <2>2. (pc # "insertMeta" /\ pc' # "insertMeta") \/ pc' = pc
    BY <1>4 DEF Flush, FlushCancelled, FlushRequest, Close, CallClose, CloseReturns,
                CloseCancelled, Tick, ReceiveClosed, StopReceiving, AccumulateSeries,
                AccumulateDone, FlushNothing, FlushReturns, Restart, MetaLands, Merge, vars
  <2>3. InFlightPoints' = InFlightPoints
    BY <2>1, <2>2 DEF InFlightPoints, QueuedPoints
  <2> QED
    BY <1>1, <2>1, <2>3, AckedUnchanged, NoDeliveryStep
<1>5. ASSUME NEW c \in Calls, Enqueue(c)
      PROVE  Result
  <2> DEFINE P == Range(PointsOf[c])
  <2>1. /\ call[c] = "enqueue" /\ queue' = Append(queue, c) /\ call' = [call EXCEPT ![c] = "acked"]
        /\ UNCHANGED << pc, pendingPoints, pointRows, pointsInDoubt >>
    BY <1>5 DEF Enqueue, Send, Queued
  <2>2. c \notin Range(queue)
    BY <2>1 DEF OwnershipInv
  <2>3. Range(queue') = Range(queue) \cup {c} /\ IsInjective(queue')
    BY <1>1, <2>1, <2>2, RangeOfAppend, InjectiveAppend DEF OwnershipInv
  <2>4. QueuedPoints' = QueuedPoints \cup P
    BY <2>3 DEF QueuedPoints
  <2>5. InFlightPoints' = InFlightPoints \cup P
    BY <2>1, <2>4 DEF InFlightPoints
  <2>6. \A d \in Calls : call'[d] = "acked" <=> call[d] = "acked" \/ d = c
    BY <1>1, <2>1
  <2>7. AckedPoints' = AckedPoints \cup P
    BY <2>6 DEF AckedPoints
  <2>8. P \cap AckedPoints = {}
    BY <2>1, PointsAreDistinct DEF AckedPoints
  <2>9. Accepts(P)
    BY <2>1, <2>5, <2>7, <2>8 DEF Accepts
  <2>10. \A p \in P : p \in Points /\ Unsent(p)
    <3>1. P \subseteq Points
      BY RequestTypes, RangeOfSeq
    <3> QED
      BY <2>8, <3>1 DEF OwnershipInv
  <2>11. OwnershipInv'
    <3>1. \A d \in Range(queue') : call'[d] = "acked"
      BY <1>1, <2>3, <2>6 DEF OwnershipInv
    <3>2. /\ Range(pendingPoints) \subseteq AckedPoints'
          /\ QueuedPoints' \cap Range(pendingPoints) = {}
      BY <2>4, <2>7, <2>8 DEF OwnershipInv
    <3>3. \A p \in InFlightPoints' : Unsent(p)
      BY <2>5, <2>10 DEF OwnershipInv
    <3>4. \A p \in Points : Unsent(p) \/ (SentOnce(p) /\ p \in AckedPoints')
      BY <2>7 DEF OwnershipInv
    <3> QED
      BY <2>1, <2>3, <3>1, <3>2, <3>3, <3>4 DEF OwnershipInv, Unsent, SentOnce
  <2> QED
    BY <2>9, <2>11
<1>6. CASE Receive
  <2>1. PICK c \in Calls : c = Head(queue)
    BY <1>1, <1>6, HeadTailProperties DEF Receive
  <2> DEFINE P == Range(PointsOf[c])
  <2>2. /\ queue # << >> /\ queue' = Tail(queue) /\ pc = "select" /\ pc' = "accumulate"
        /\ pendingPoints' = pendingPoints \o PointsOf[c]
        /\ UNCHANGED << call, pointRows, pointsInDoubt >>
    BY <1>6, <2>1 DEF Receive, Accumulated
  <2>3. /\ Range(queue) = {c} \cup Range(queue') /\ c \notin Range(queue')
        /\ IsInjective(queue')
    BY <1>1, <2>1, <2>2, RangeOfTail, InjectiveTail DEF OwnershipInv
  <2>4. QueuedPoints = P \cup QueuedPoints'
    BY <2>3 DEF QueuedPoints
  <2>5. P \cap QueuedPoints' = {}
    <3>1. \A d \in Range(queue') : d \in Calls /\ d # c
      BY <1>1, <2>3
    <3> QED
      BY <3>1, PointsAreDistinct DEF QueuedPoints
  <2>6. Range(pendingPoints') = Range(pendingPoints) \cup P
    BY <1>1, <2>2, RequestTypes, RangeConcatenation
  <2>7. P \cap Range(pendingPoints) = {}
    BY <2>4 DEF OwnershipInv
  <2>8. IsInjective(pendingPoints')
    BY <1>1, <2>2, <2>7, RequestTypes, PointsAreDistinct, InjectiveConcat DEF OwnershipInv
  <2>9. InFlightPoints' = InFlightPoints
    BY <2>2, <2>4, <2>6 DEF InFlightPoints
  <2>10. AckedPoints' = AckedPoints
    BY <2>2 DEF AckedPoints
  <2>11. P \subseteq AckedPoints
    BY <2>3 DEF OwnershipInv, AckedPoints
  <2>12. QueuedPoints' \cap Range(pendingPoints') = {}
    BY <2>4, <2>5, <2>6 DEF OwnershipInv
  <2>13. OwnershipInv'
    BY <2>2, <2>3, <2>6, <2>8, <2>9, <2>10, <2>11, <2>12
    DEF OwnershipInv, Unsent, SentOnce
  <2> QED
    BY <2>2, <2>9, <2>10, <2>13 DEF Stutter
<1>7. CASE InsertPoints
  BY <1>1, <1>7, InsertPointsSettles
<1>8. CASE InsertMetadata
  <2>1. /\ pc = "insertMeta" /\ pc' # "insertMeta" /\ pendingPoints' = << >>
        /\ UNCHANGED << call, queue, pointRows, pointsInDoubt >>
    BY <1>8 DEF InsertMetadata, EmptyBuffers, FlushReturns
  <2>2. AckedPoints' = AckedPoints /\ QueuedPoints' = QueuedPoints
    BY <2>1 DEF AckedPoints, QueuedPoints
  <2>3. Range(pendingPoints') = {} /\ IsInjective(pendingPoints')
    BY <2>1, RangeOfEmpty DEF IsInjective
  <2>4. InFlightPoints' = InFlightPoints
    BY <2>1, <2>2, <2>3 DEF InFlightPoints
  <2> QED
    BY <2>1, <2>2, <2>3, <2>4 DEF OwnershipInv, Stutter, Unsent, SentOnce
<1>9. ASSUME Die, \A c \in Calls : call'[c] = "acked" <=> call[c] = "acked"
      PROVE  Result
  <2> DEFINE P == InFlightPoints
  <2>1. queue' = << >> /\ pendingPoints' = << >> /\ pc' = "down" /\ pointRows' = pointRows
    BY <1>9 DEF Die
  <2>2. /\ Range(queue') = {} /\ Range(pendingPoints') = {}
        /\ IsInjective(queue') /\ IsInjective(pendingPoints')
    BY <2>1, RangeOfEmpty DEF IsInjective
  <2>3. InFlightPoints' = {} /\ QueuedPoints' = {}
    BY <2>1, <2>2 DEF InFlightPoints, QueuedPoints
  <2>4. AckedPoints' = AckedPoints
    BY <1>9, AckedUnchanged
  <2>5. \A p \in P : p \in Points /\ Unsent(p)
    BY <1>1 DEF OwnershipInv
  <2>6. /\ \A p \in Points \ P : pointsInDoubt'[p] = pointsInDoubt[p]
        /\ \A p \in P : Unsent(p)' \/ SentOnce(p)'
    <3>1. CASE pc = "flush"
      <4>1. pointsInDoubt' = Written(pointsInDoubt, pendingPoints)
        BY <1>9, <3>1 DEF Die
      <4>2. Range(pendingPoints) \subseteq P
        BY <3>1 DEF InFlightPoints
      <4>3. \A p \in Points \ Range(pendingPoints) : pointsInDoubt'[p] = pointsInDoubt[p]
        BY <1>1, <4>1, BatchIsSent DEF OwnershipInv
      <4>4. \A p \in Range(pendingPoints) : pointsInDoubt'[p] = 1
        BY <1>1, <2>5, <4>1, <4>2, BatchIsSent DEF OwnershipInv, Unsent
      <4> QED
        BY <2>1, <2>5, <4>2, <4>3, <4>4 DEF Unsent, SentOnce
    <3>2. CASE pc # "flush"
      <4>1. pointsInDoubt' = pointsInDoubt
        BY <1>9, <3>2 DEF Die
      <4> QED
        BY <2>1, <2>5, <4>1 DEF Unsent
    <3> QED
      BY <3>1, <3>2
  <2>7. P \subseteq lostPoints'
    BY <1>9 DEF Die
  <2>8. Settles(P)
    BY <2>1, <2>3, <2>4, <2>5, <2>6, <2>7 DEF Settles
  <2>9. P \subseteq AckedPoints
    BY <1>1 DEF OwnershipInv, InFlightPoints, QueuedPoints, AckedPoints
  <2>10. OwnershipInv'
    BY <1>1, <2>2, <2>3, <2>4, <2>8, <2>9, SettledOwnership DEF OwnershipInv
  <2> QED
    BY <1>1, <1>9, <2>8, <2>10
<1>10. CASE Crash
  BY <1>1, <1>9, <1>10 DEF Crash
<1>11. ASSUME NEW c \in Calls, EnqueueOnClosed(c)
       PROVE  Result
  BY <1>1, <1>9, <1>11 DEF EnqueueOnClosed
<1>12. ASSUME NEW p \in Points, PointLands(p)
       PROVE  Result
  <2>1. /\ pointsInDoubt[p] > 0
        /\ pointsInDoubt' = [pointsInDoubt EXCEPT ![p] = pointsInDoubt[p] - 1]
        /\ pointRows' = [pointRows EXCEPT ![p] = pointRows[p] + 1]
        /\ UNCHANGED << call, queue, pendingPoints, pc >>
    BY <1>12 DEF PointLands
  <2>2. ~ Unsent(p) /\ p \in AckedPoints /\ pointsInDoubt[p] = 1 /\ pointRows[p] = 0
    BY <2>1 DEF OwnershipInv, Unsent, SentOnce
  <2>3. /\ AckedPoints' = AckedPoints /\ QueuedPoints' = QueuedPoints
        /\ InFlightPoints' = InFlightPoints
    BY <2>1 DEF AckedPoints, QueuedPoints, InFlightPoints
  <2>4. Lands(p)
    BY <2>1, <2>2, <2>3 DEF Lands
  <2>5. /\ pointRows'[p] = 1 /\ pointsInDoubt'[p] = 0
        /\ \A q \in Points \ {p} : /\ pointRows'[q] = pointRows[q]
                                  /\ pointsInDoubt'[q] = pointsInDoubt[q]
    BY <1>1, <2>4 DEF Lands
  <2>6. \A q \in InFlightPoints' : Unsent(q)'
    <3>1. p \notin InFlightPoints
      BY <2>2 DEF OwnershipInv
    <3> QED
      BY <1>1, <2>3, <2>5, <3>1 DEF OwnershipInv, Unsent
  <2>7. \A q \in Points : Unsent(q)' \/ (SentOnce(q)' /\ q \in AckedPoints')
    BY <2>2, <2>3, <2>5 DEF OwnershipInv, Unsent, SentOnce
  <2>8. OwnershipInv'
    BY <2>1, <2>3, <2>6, <2>7 DEF OwnershipInv
  <2> QED
    BY <2>4, <2>8
<1> QED
  BY <1>2, <1>3, <1>4, <1>5, <1>6, <1>7, <1>8, <1>10, <1>11, <1>12
  DEF Next, Caller, Flusher, ClickHouse

LEMMA OwnershipInvariant == Spec => []OwnershipInv
<1>1. Init => OwnershipInv
  <2> SUFFICES ASSUME Init
               PROVE  OwnershipInv
    OBVIOUS
  <2>1. queue = << >> /\ pendingPoints = << >> /\ \A p \in Points : Unsent(p)
    BY DEF Init, NewIngester, Unsent
  <2>2. Range(queue) = {} /\ Range(pendingPoints) = {}
    BY <2>1, RangeOfEmpty
  <2>3. IsInjective(queue) /\ IsInjective(pendingPoints)
    BY <2>1 DEF IsInjective
  <2>4. QueuedPoints = {} /\ InFlightPoints = {}
    BY <2>2 DEF QueuedPoints, InFlightPoints
  <2> QED
    BY <2>1, <2>2, <2>3, <2>4 DEF OwnershipInv
<1>2. TypeOK /\ ControlInv /\ OwnershipInv /\ [Next]_vars => OwnershipInv'
  BY DeliverySteps
<1> QED
  BY <1>1, <1>2, TypeCorrect, ControlInvariant, PTL DEF Spec

\* No point is stored twice, and none that was not acknowledged: flush empties its
\* buffer whatever came of its inserts, and no buffer holds a point twice (183-211).
THEOREM StoredOnce == Spec => []StoredAtMostOnce
<1>1. TypeOK /\ OwnershipInv => StoredAtMostOnce
  <2> SUFFICES ASSUME TypeOK, OwnershipInv, NEW p \in Points
               PROVE  pointRows[p] <= 1 /\ (pointRows[p] = 1 => p \in AckedPoints)
    BY DEF StoredAtMostOnce
  <2>1. pointRows[p] \in Nat
    BY DEF TypeOK
  <2> QED
    BY <2>1 DEF OwnershipInv, Unsent, SentOnce
<1> QED
  BY <1>1, OwnershipInvariant, TypeCorrect, PTL

-----------------------------------------------------------------------------
\* A batch logged as failed stays on record, with the process or after it.
LEMMA RecordsGrow ==
    ASSUME [Next]_vars
    PROVE  failedPoints \cup lostPoints \subseteq failedPoints' \cup lostPoints'
<1> USE DEF results, records
<1>1. CASE CallerStep
  BY <1>1 DEF CallerStep
<1>2. CASE Receive \/ AccumulateSeries \/ AccumulateDone \/ FlushNothing \/ Restart
  BY <1>2 DEF Receive, AccumulateSeries, AccumulateDone, FlushNothing, Restart
<1>3. CASE BeginFlush
  BY <1>3 DEF BeginFlush
<1>4. CASE InsertPoints
  BY <1>4 DEF InsertPoints, InsertPointsSucceeds, InsertPointsFails
<1>5. CASE InsertMetadata
  BY <1>5 DEF InsertMetadata
<1>6. CASE Die
  BY <1>6 DEF Die
<1>7. CASE ClickHouse
  BY <1>7 DEF ClickHouse, PointLands, MetaLands, Merge
<1> QED
  BY <1>1, <1>2, <1>3, <1>4, <1>5, <1>6, <1>7, StepCases

\* An acknowledged point never disappears without a trace: a step either leaves it in
\* memory, or settles it and then it has a row or is on record (ingester.go:143-211).
THEOREM NothingLostSilently == Spec => []NoSilentLoss
<1>1. Init => NoSilentLoss
  BY DEF Init, NoSilentLoss, AckedPoints
<1>2. TypeOK /\ ControlInv /\ OwnershipInv /\ NoSilentLoss /\ [Next]_vars => NoSilentLoss'
  <2> SUFFICES ASSUME TypeOK, ControlInv, OwnershipInv, NoSilentLoss, [Next]_vars,
                      NEW p \in AckedPoints'
               PROVE  (p \in InFlightPoints \cup failedPoints \cup lostPoints \/ pointRows[p] > 0)'
    BY DEF NoSilentLoss
  <2>1. p \in failedPoints \cup lostPoints => p \in failedPoints' \cup lostPoints'
    BY RecordsGrow
  <2>2. CASE Stutter
    BY <2>1, <2>2 DEF Stutter, NoSilentLoss
  <2>3. ASSUME NEW P, Accepts(P)
        PROVE  (p \in InFlightPoints \cup failedPoints \cup lostPoints \/ pointRows[p] > 0)'
    BY <2>1, <2>3 DEF Accepts, NoSilentLoss
  <2>4. ASSUME NEW P \in SUBSET Points, Settles(P)
        PROVE  (p \in InFlightPoints \cup failedPoints \cup lostPoints \/ pointRows[p] > 0)'
    <3>1. CASE p \in P
      BY <2>4, <3>1 DEF Settles
    <3>2. CASE p \notin P
      <4>1. p \in Points
        BY <2>4, RequestTypes, RangeOfSeq DEF Settles, AckedPoints
      <4> QED
        BY <2>1, <2>4, <3>2, <4>1 DEF Settles, NoSilentLoss
    <3> QED
      BY <3>1, <3>2
  <2>5. ASSUME NEW q \in Points, Lands(q)
        PROVE  (p \in InFlightPoints \cup failedPoints \cup lostPoints \/ pointRows[p] > 0)'
    <3>1. pointRows \in [Points -> Nat]
      BY DEF TypeOK
    <3>2. pointRows[p] > 0 => pointRows'[p] > 0
      BY <2>5, <3>1 DEF Lands
    <3> QED
      BY <2>1, <2>5, <3>2 DEF Lands, NoSilentLoss
  <2> QED
    BY <2>2, <2>3, <2>4, <2>5, DeliverySteps
<1> QED
  BY <1>1, <1>2, TypeCorrect, ControlInvariant, OwnershipInvariant, PTL DEF Spec

-----------------------------------------------------------------------------
\* The ingester implements AckedDelivery: an acknowledgement accepts the points of its
\* request, the return of an insert or the end of the process settles them, ClickHouse
\* may carry out what was given up, and no other step is seen (ingester.go:54-63, 99-111, 183-211).
THEOREM Implements == Spec => DeliverySpec
<1>1. Init => Delivery!Init
  BY DEF Init, Delivery!Init, AckedPoints
<1>2. TypeOK /\ TypeOK' /\ ControlInv /\ OwnershipInv /\ [Next]_vars
        => [Delivery!Next]_(Delivery!vars)
  <2> SUFFICES ASSUME TypeOK, TypeOK', ControlInv, OwnershipInv, [Next]_vars
               PROVE  [Delivery!Next]_(Delivery!vars)
    OBVIOUS
  <2>1. CASE Stutter
    BY <2>1 DEF Stutter, Delivery!vars
  <2>2. ASSUME NEW c \in Calls, Accepts(Range(PointsOf[c]))
        PROVE  Delivery!Next
    <3> DEFINE P == Range(PointsOf[c])
    <3>1. P \in SUBSET Points
      BY RequestTypes, RangeOfSeq
    <3>2. AckedPoints' \ InFlightPoints' = AckedPoints \ InFlightPoints
      BY <2>2 DEF Accepts
    <3>3. Delivery!Accept(P)
      BY <2>2, <3>2 DEF Accepts, Delivery!Accept
    <3> QED
      BY <3>1, <3>3 DEF Delivery!Next
  <2>3. ASSUME NEW P \in SUBSET Points, Settles(P)
        PROVE  Delivery!Next
    <3>0. PICK S \in SUBSET P, D \in SUBSET P :
              S = {p \in P : pointRows'[p] = 1} /\ D = {p \in P : pointsInDoubt'[p] = 1}
      OBVIOUS
    <3>1. InFlightPoints \subseteq AckedPoints
      <4>1. Range(queue) \subseteq Calls
        BY RangeOfSeq DEF TypeOK
      <4> QED
        BY <4>1 DEF OwnershipInv, InFlightPoints, QueuedPoints, AckedPoints
    <3>2. /\ P \cap (AckedPoints \ InFlightPoints) = {}
          /\ AckedPoints' \ InFlightPoints' = (AckedPoints \ InFlightPoints) \cup P
      <4>1. /\ P \subseteq InFlightPoints /\ AckedPoints' = AckedPoints
            /\ InFlightPoints' = InFlightPoints \ P
        BY <2>3 DEF Settles
      <4> QED
        BY <3>1, <4>1
    <3>3. /\ pointRows \in [Points -> Nat] /\ pointRows' \in [Points -> Nat]
          /\ pointsInDoubt \in [Points -> Nat] /\ pointsInDoubt' \in [Points -> Nat]
      BY DEF TypeOK
    <3>4. \A p \in P : (pointRows[p] = 0 /\ pointsInDoubt[p] = 0)
      BY <2>3 DEF Settles, Unsent
    <3>5. \A p \in P : \/ pointRows'[p] = 0 /\ pointsInDoubt'[p] = 0
                       \/ pointRows'[p] = 1 /\ pointsInDoubt'[p] = 0
                       \/ pointRows'[p] = 0 /\ pointsInDoubt'[p] = 1
      BY <2>3 DEF Settles, Unsent, SentOnce
    <3>6. \A p \in Points \ P : pointRows'[p] = pointRows[p] /\ pointsInDoubt'[p] = pointsInDoubt[p]
      BY <2>3 DEF Settles
    <3>7. pointRows' = [p \in Points |-> IF p \in S THEN 1 ELSE pointRows[p]]
      BY <3>0, <3>3, <3>4, <3>5, <3>6
    <3>8. {p \in Points : pointsInDoubt'[p] > 0} = {p \in Points : pointsInDoubt[p] > 0} \cup D
      BY <3>0, <3>3, <3>4, <3>5, <3>6
    <3>9. S \cap D = {} /\ S \in SUBSET P /\ D \in SUBSET P
      BY <3>0, <3>5
    <3>10. P \in SUBSET AckedPoints
      BY <2>3, <3>1 DEF Settles
    <3>11. Delivery!Settle(P, S, D)
      <4>1. AckedPoints' = AckedPoints
        BY <2>3 DEF Settles
      <4> QED
        BY <3>2, <3>7, <3>8, <3>9, <4>1 DEF Delivery!Settle, Delivery!Stored
    <3> QED
      BY <3>9, <3>10, <3>11 DEF Delivery!Next
  <2>4. ASSUME NEW p \in Points, Lands(p)
        PROVE  Delivery!Next
    <3>1. /\ pointRows \in [Points -> Nat] /\ pointsInDoubt \in [Points -> Nat]
      BY DEF TypeOK
    <3>2. pointRows' = [q \in Points |-> IF q \in {p} THEN 1 ELSE pointRows[q]]
      BY <2>4, <3>1 DEF Lands
    <3>3. {q \in Points : pointsInDoubt'[q] > 0} = {q \in Points : pointsInDoubt[q] > 0} \ {p}
      BY <2>4, <3>1 DEF Lands
    <3>4. Delivery!Land(p)
      BY <2>4, <3>2, <3>3 DEF Lands, Delivery!Land, Delivery!Stored
    <3>5. p \in {q \in Points : pointsInDoubt[q] > 0}
      BY <2>4 DEF Lands
    <3> QED
      BY <3>4, <3>5 DEF Delivery!Next
  <2> QED
    BY <2>1, <2>2, <2>3, <2>4, DeliverySteps
<1> QED
  BY <1>1, <1>2, TypeCorrect, ControlInvariant, OwnershipInvariant, PTL
  DEF Spec, DeliverySpec, Delivery!Spec
=============================================================================
