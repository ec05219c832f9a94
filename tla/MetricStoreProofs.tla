-------------------------- MODULE MetricStoreProofs --------------------------
(***************************************************************************)
(* The read paths of the store, for every number of readers, queries,      *)
(* requests, crashes and late rows.  The argument is that the tables only  *)
(* grow as far as a reader can tell: no row of a point is taken away, and  *)
(* a merge leaves one metadata row of a series.                            *)
(***************************************************************************)
EXTENDS MetricStore, IngesterDeliveryProofs

\* What has a row in a table keeps one.
TablesKeep ==
    /\ \A p \in Points : pointRows[p] > 0 => pointRows'[p] > 0
    /\ \A f \in Fingerprints : metaRows[f] > 0 => metaRows'[f] > 0

LEMMA TablesAreKept ==
    ASSUME TypeOK, TypeOK', [Next]_vars
    PROVE  TablesKeep
<1> USE DEF channel, batch, callers, history, results, records, tables
<1>1. /\ pointRows \in [Points -> Nat] /\ metaRows \in [Fingerprints -> Nat]
      /\ pendingPoints \in Seq(Points) /\ pendingMeta \in Seq(Fingerprints)
  BY DEF TypeOK
<1>2. CASE UNCHANGED << pointRows, metaRows >>
  BY <1>2 DEF TablesKeep
<1>3. CASE CallerStep \/ BeginFlush \/ Receive \/ AccumulateSeries \/ AccumulateDone
           \/ FlushNothing \/ Die \/ Restart
  BY <1>2, <1>3 DEF CallerStep, BeginFlush, Receive, AccumulateSeries, AccumulateDone,
                    FlushNothing, Die, Restart
<1>4. CASE InsertPoints
  <2>1. CASE InsertPointsSucceeds
    <3>1. pointRows' = Written(pointRows, pendingPoints) /\ metaRows' = metaRows
      BY <1>4, <2>1 DEF InsertPoints, InsertPointsSucceeds
    <3>2. \A p \in Points : Written(pointRows, pendingPoints)[p] \in Nat
                            /\ Written(pointRows, pendingPoints)[p] >= pointRows[p]
      BY <1>1, WrittenGrows
    <3> QED
      BY <1>1, <3>1, <3>2 DEF TablesKeep
  <2>2. CASE InsertPointsFails
    <3>1. UNCHANGED << pointRows, metaRows >>
      BY <1>4, <2>2 DEF InsertPoints, InsertPointsFails
    <3> QED
      BY <1>2, <3>1
  <2> QED
    BY <1>4, <2>1, <2>2 DEF InsertPoints
<1>5. CASE InsertMetadata
  <2>1. CASE InsertMetadataSucceeds
    <3>1. metaRows' = Written(metaRows, pendingMeta) /\ pointRows' = pointRows
      BY <1>5, <2>1 DEF InsertMetadata, InsertMetadataSucceeds
    <3>2. \A f \in Fingerprints : Written(metaRows, pendingMeta)[f] \in Nat
                                  /\ Written(metaRows, pendingMeta)[f] >= metaRows[f]
      BY <1>1, WrittenGrows
    <3> QED
      BY <1>1, <3>1, <3>2 DEF TablesKeep
  <2>2. CASE InsertMetadataFails
    <3>1. UNCHANGED << pointRows, metaRows >>
      BY <1>5, <2>2 DEF InsertMetadata, InsertMetadataFails
    <3> QED
      BY <1>2, <3>1
  <2> QED
    BY <1>5, <2>1, <2>2 DEF InsertMetadata
<1>6. CASE ClickHouse
  <2>1. ASSUME NEW p \in Points, PointLands(p)
        PROVE  TablesKeep
    BY <1>1, <2>1 DEF PointLands, TablesKeep
  <2>2. ASSUME NEW f \in Fingerprints, MetaLands(f)
        PROVE  TablesKeep
    BY <1>1, <2>2 DEF MetaLands, TablesKeep
  <2>3. ASSUME NEW f \in Fingerprints, Merge(f)
        PROVE  TablesKeep
    BY <1>1, <2>3 DEF Merge, MergedTo, ReplacedBy, TablesKeep
  <2> QED
    BY <1>6, <2>1, <2>2, <2>3 DEF ClickHouse
<1> QED
  BY <1>3, <1>4, <1>5, <1>6, StepCases

-----------------------------------------------------------------------------
\* Readers leave the ingester and the tables alone, so what holds of Spec holds of
\* StoreSpec.
Reads == \E r \in Readers : QueryRange(r) \/ Resolve(r) \/ Scan(r) \/ ReadFails(r)

LEMMA ReadsChangeNothing ==
    ASSUME Reads
    PROVE  UNCHANGED vars
BY DEF Reads, QueryRange, Resolve, Scan, ReadFails

LEMMA StoreImplementsSpec == StoreSpec => Spec
<1>1. StoreInit => Init
  BY DEF StoreInit
<1>2. [StoreNext]_storeVars => [Next]_vars
  BY ReadsChangeNothing DEF StoreNext, Reads, storeVars
<1> QED
  BY <1>1, <1>2, PTL DEF StoreSpec, Spec

\* A point is visible when the view shows it.
Visible(p) == pointRows[p] > 0 /\ metaRows[SeriesOf[p]] > 0

LEMMA ViewIsVisible ==
    ASSUME TypeOK, NEW p \in Points
    PROVE  /\ ViewRows(p) > 0 <=> Visible(p)
           /\ Visible(p) => ViewRows(p) = pointRows[p]
           /\ ~ Visible(p) => ViewRows(p) = 0
<1>1. pointRows[p] \in Nat /\ SeriesOf[p] \in Fingerprints
  BY RequestAssumption DEF TypeOK
<1>2. metaRows[SeriesOf[p]] \in Nat
  BY <1>1 DEF TypeOK
<1>3. CASE metaRows[SeriesOf[p]] > 0
  BY <1>1, <1>3 DEF ViewRows, LimitOneBy, Visible
<1>4. CASE ~ metaRows[SeriesOf[p]] > 0
  BY <1>1, <1>4 DEF ViewRows, LimitOneBy, Visible
<1> QED
  BY <1>3, <1>4

LEMMA VisibleIsKept ==
    ASSUME TablesKeep, NEW p \in Points, Visible(p)
    PROVE  Visible(p)'
<1>1. SeriesOf[p] \in Fingerprints
  BY RequestAssumption
<1> QED
  BY <1>1 DEF TablesKeep, Visible

-----------------------------------------------------------------------------
\* A point that the view shows is shown ever after (clickhouse_schema.go:5-15, 68-69).
THEOREM ReadablePointsStay == StoreSpec => ViewKeepsPoints
<1>1. TypeOK /\ TypeOK' /\ [Next]_vars
        => [\A p \in Points : ViewRows(p) > 0 => ViewRows(p)' > 0]_storeVars
  <2> SUFFICES ASSUME TypeOK, TypeOK', [Next]_vars, NEW p \in Points, ViewRows(p) > 0
               PROVE  ViewRows(p)' > 0
    OBVIOUS
  <2>1. Visible(p)
    BY ViewIsVisible
  <2>2. Visible(p)'
    BY <2>1, TablesAreKept, VisibleIsKept
  <2>3. pointRows'[p] \in Nat /\ metaRows'[SeriesOf[p]] > 0 /\ pointRows'[p] > 0
    BY <2>2 DEF TypeOK, Visible
  <2> QED
    BY <2>3 DEF ViewRows, LimitOneBy
<1> QED
  BY <1>1, StoreImplementsSpec, TypeCorrect, PTL DEF Spec, ViewKeepsPoints

-----------------------------------------------------------------------------
(***************************************************************************)
(* What a reader owes and what it has returned is visible.  That a read is *)
(* complete needs more while it runs: the series of every point due to it  *)
(* are among those it resolved.                                            *)
(***************************************************************************)
DueInv(r) ==
    /\ \A p \in due[r] : p \in Asked(QueryOf[r]) /\ Visible(p)
    /\ reading[r] = "scan" => \A p \in due[r] : SeriesOf[p] \in fingerprints[r]
    /\ reading[r] = "done" => \A p \in due[r] : returned[r][p] > 0

ResolvedInv(r) ==
    \A f \in fingerprints[r] :
        f \in Fingerprints /\ metaRows[f] > 0 /\ MetricOf[f] = QueryOf[r].metric

ReturnedInv(r) ==
    \A p \in Points : returned[r][p] > 0 =>
        p \in Asked(QueryOf[r]) /\ Visible(p) /\ returned[r][p] = 1

ReadTypes(r) ==
    /\ reading[r] \in {"idle", "resolve", "scan", "done", "failed"}
    /\ returned[r] \in [Points -> Nat]

ReadInv ==
    /\ reading = [r \in Readers |-> reading[r]]
    /\ fingerprints = [r \in Readers |-> fingerprints[r]]
    /\ returned = [r \in Readers |-> returned[r]]
    /\ due = [r \in Readers |-> due[r]]
    /\ \A r \in Readers : ReadTypes(r) /\ DueInv(r) /\ ResolvedInv(r) /\ ReturnedInv(r)

\* A step that keeps what is visible leaves a reader as right as it was.
LEMMA ReaderIsKept ==
    ASSUME TablesKeep, NEW r \in Readers,
           reading'[r] = reading[r], fingerprints'[r] = fingerprints[r],
           returned'[r] = returned[r], due'[r] = due[r],
           ReadTypes(r), DueInv(r), ResolvedInv(r), ReturnedInv(r)
    PROVE  ReadTypes(r)' /\ DueInv(r)' /\ ResolvedInv(r)' /\ ReturnedInv(r)'
<1>1. \A p \in due[r] : p \in Points
  BY DEF DueInv, Asked
<1>2. \A p \in Points : Visible(p) => Visible(p)'
  BY VisibleIsKept
<1>3. Asked(QueryOf[r])' = Asked(QueryOf[r])
  BY DEF Asked
<1>4. ReadTypes(r)'
  BY DEF ReadTypes
<1>5. DueInv(r)'
  BY <1>1, <1>2, <1>3 DEF DueInv
<1>6. ResolvedInv(r)'
  BY DEF ResolvedInv, TablesKeep
<1>7. ReturnedInv(r)'
  BY <1>2, <1>3 DEF ReturnedInv
<1> QED
  BY <1>4, <1>5, <1>6, <1>7

\* What the second query gives is visible, and once.
LEMMA ScannedRows ==
    ASSUME TypeOK, StoredAtMostOnce, NEW r \in Readers, ResolvedInv(r), NEW p \in Points
    PROVE  /\ RowsOf(r)[p] \in Nat
           /\ RowsOf(r)[p] > 0
                => p \in Asked(QueryOf[r]) /\ Visible(p) /\ RowsOf(r)[p] = 1
           /\ p \in Asked(QueryOf[r]) /\ Visible(p) /\ SeriesOf[p] \in fingerprints[r]
                => RowsOf(r)[p] > 0
<1>1. pointRows[p] \in Nat /\ pointRows[p] <= 1
  BY DEF TypeOK, StoredAtMostOnce
<1>2. /\ TimeOf[p] \in Int /\ QueryOf[r].start \in Int /\ QueryOf[r].end \in Int
  BY QueryAssumption
<1>3. Between(p, QueryOf[r]) <=> TimeOf[p] \in QueryOf[r].start..QueryOf[r].end
  BY <1>2 DEF Between
<1> QED
  BY <1>1, <1>3 DEF RowsOf, ResolvedInv, Asked, Visible

-----------------------------------------------------------------------------
LEMMA ReadInvariant == StoreSpec => []ReadInv
<1>1. ASSUME StoreInit
      PROVE  ReadInv
  <2>1. /\ reading = [r \in Readers |-> "idle"]
        /\ fingerprints = [r \in Readers |-> {}]
        /\ returned = [r \in Readers |-> [p \in Points |-> 0]]
        /\ due = [r \in Readers |-> {}]
    BY <1>1 DEF StoreInit
  <2>2. ASSUME NEW r \in Readers
        PROVE  ReadTypes(r) /\ DueInv(r) /\ ResolvedInv(r) /\ ReturnedInv(r)
    <3>1. /\ reading[r] = "idle" /\ fingerprints[r] = {} /\ due[r] = {}
          /\ returned[r] = [p \in Points |-> 0]
      BY <2>1
    <3> QED
      BY <3>1 DEF ReadTypes, DueInv, ResolvedInv, ReturnedInv
  <2> QED
    BY <2>1, <2>2 DEF ReadInv
<1>2. ASSUME TypeOK, TypeOK', StoredAtMostOnce, ReadInv, [StoreNext]_storeVars
      PROVE  ReadInv'
  <2>1. \A r \in Readers : ReadTypes(r) /\ DueInv(r) /\ ResolvedInv(r) /\ ReturnedInv(r)
    BY <1>2 DEF ReadInv
  <2>2. TablesKeep
    <3>1. [Next]_vars
      BY <1>2, ReadsChangeNothing DEF StoreNext, Reads, storeVars
    <3> QED
      BY <1>2, <3>1, TablesAreKept
  <2>3. CASE UNCHANGED reads
    <3>1. /\ reading' = reading /\ fingerprints' = fingerprints
          /\ returned' = returned /\ due' = due
      BY <2>3 DEF reads
    <3>2. ASSUME NEW r \in Readers
          PROVE  ReadTypes(r)' /\ DueInv(r)' /\ ResolvedInv(r)' /\ ReturnedInv(r)'
      BY <2>1, <2>2, <3>1, ReaderIsKept
    <3> QED
      BY <1>2, <3>1, <3>2 DEF ReadInv
  <2>4. ASSUME NEW r \in Readers,
               reading' = [reading EXCEPT ![r] = reading'[r]],
               fingerprints' = [fingerprints EXCEPT ![r] = fingerprints'[r]],
               returned' = [returned EXCEPT ![r] = returned'[r]],
               due' = [due EXCEPT ![r] = due'[r]],
               ReadTypes(r)', DueInv(r)', ResolvedInv(r)', ReturnedInv(r)'
        PROVE  ReadInv'
    <3>0. /\ reading = [q \in Readers |-> reading[q]]
          /\ fingerprints = [q \in Readers |-> fingerprints[q]]
          /\ returned = [q \in Readers |-> returned[q]]
          /\ due = [q \in Readers |-> due[q]]
      BY <1>2 DEF ReadInv
    <3>1. ASSUME NEW q \in Readers, q # r
          PROVE  /\ reading'[q] = reading[q] /\ fingerprints'[q] = fingerprints[q]
                 /\ returned'[q] = returned[q] /\ due'[q] = due[q]
      BY <2>4, <3>0, <3>1
    <3>2. ASSUME NEW q \in Readers
          PROVE  ReadTypes(q)' /\ DueInv(q)' /\ ResolvedInv(q)' /\ ReturnedInv(q)'
      <4>1. CASE q = r
        BY <2>4, <4>1
      <4>2. CASE q # r
        BY <2>1, <2>2, <3>1, <4>2, ReaderIsKept
      <4> QED
        BY <4>1, <4>2
    <3>3. /\ reading' = [q \in Readers |-> reading'[q]]
          /\ fingerprints' = [q \in Readers |-> fingerprints'[q]]
          /\ returned' = [q \in Readers |-> returned'[q]]
          /\ due' = [q \in Readers |-> due'[q]]
      BY <2>4, <3>0
    <3> QED
      BY <3>2, <3>3 DEF ReadInv
  <2>5. ASSUME NEW r \in Readers, QueryRange(r) \/ Resolve(r) \/ Scan(r) \/ ReadFails(r)
        PROVE  ReadInv'
    <3>0. /\ reading = [q \in Readers |-> reading[q]]
          /\ fingerprints = [q \in Readers |-> fingerprints[q]]
          /\ returned = [q \in Readers |-> returned[q]]
          /\ due = [q \in Readers |-> due[q]]
          /\ ReadTypes(r) /\ DueInv(r) /\ ResolvedInv(r) /\ ReturnedInv(r)
      BY <1>2 DEF ReadInv
    <3>u. UNCHANGED << pointRows, metaRows >>
      BY <2>5, ReadsChangeNothing DEF Reads, vars, results, tables
    <3>v. \A p \in Points : Visible(p)' <=> Visible(p)
      BY <3>u DEF Visible
    <3>a. \A p : p \in Asked(QueryOf[r]) => p \in Points
      BY DEF Asked
    <3>1. CASE QueryRange(r)
      <4>1. /\ reading'[r] = "resolve"
            /\ due'[r] = {p \in Asked(QueryOf[r]) : ViewRows(p) > 0 \/ p \in Known}
            /\ UNCHANGED << fingerprints, returned >>
            /\ reading' = [reading EXCEPT ![r] = reading'[r]]
            /\ due' = [due EXCEPT ![r] = due'[r]]
        BY <3>0, <3>1 DEF QueryRange
      <4>2. \A p \in Points : p \in Known => Visible(p)
        BY <2>1 DEF Known, ReturnedInv
      <4>3. \A p \in due'[r] : p \in Asked(QueryOf[r]) /\ Visible(p)'
        BY <1>2, <3>v, <3>a, <4>1, <4>2, ViewIsVisible
      <4>4. DueInv(r)'
        BY <4>1, <4>3 DEF DueInv, Asked
      <4>5. ReadTypes(r)' /\ ResolvedInv(r)' /\ ReturnedInv(r)'
        BY <3>0, <3>u, <3>v, <4>1 DEF ReadTypes, ResolvedInv, ReturnedInv, Asked
      <4>6. /\ fingerprints' = [fingerprints EXCEPT ![r] = fingerprints'[r]]
            /\ returned' = [returned EXCEPT ![r] = returned'[r]]
        BY <3>0, <4>1
      <4> QED
        BY <2>4, <4>1, <4>4, <4>5, <4>6
    <3>2. CASE Resolve(r)
      <4>1. /\ reading'[r] = IF Resolved(QueryOf[r]) = {} THEN "done" ELSE "scan"
            /\ fingerprints'[r] = Resolved(QueryOf[r])
            /\ UNCHANGED << due, returned >>
            /\ reading' = [reading EXCEPT ![r] = reading'[r]]
            /\ fingerprints' = [fingerprints EXCEPT ![r] = fingerprints'[r]]
        BY <3>0, <3>2 DEF Resolve
      <4>2. \A p \in due[r] : SeriesOf[p] \in Resolved(QueryOf[r])
        BY <3>0, <3>a, RequestAssumption DEF DueInv, Asked, Visible, Resolved
      <4>3. \A p \in due[r] : p \in Asked(QueryOf[r]) /\ Visible(p)'
        BY <3>0, <3>v, <3>a DEF DueInv
      <4>4. reading'[r] = "done" => due[r] = {}
        BY <4>1, <4>2
      <4>5. DueInv(r)'
        BY <4>1, <4>2, <4>3, <4>4 DEF DueInv, Asked
      <4>6. ReadTypes(r)' /\ ReturnedInv(r)'
        BY <3>0, <3>v, <4>1 DEF ReadTypes, ReturnedInv, Asked
      <4>7. ResolvedInv(r)'
        BY <3>u, <4>1 DEF ResolvedInv, Resolved
      <4>8. /\ due' = [due EXCEPT ![r] = due'[r]]
            /\ returned' = [returned EXCEPT ![r] = returned'[r]]
        BY <3>0, <4>1
      <4> QED
        BY <2>4, <4>1, <4>5, <4>6, <4>7, <4>8
    <3>3. ASSUME UNCHANGED << fingerprints, due >>,
                 NEW arrived \in SUBSET Points,
                 returned'[r] = [p \in Points |-> IF p \in arrived THEN RowsOf(r)[p] ELSE 0],
                 returned' = [returned EXCEPT ![r] = returned'[r]],
                 reading' = [reading EXCEPT ![r] = reading'[r]],
                 \/ reading'[r] = "failed"
                 \/ reading[r] = "scan" /\ reading'[r] = "done" /\ arrived = Points
          PROVE  ReadInv'
      <4>1. \A p \in Points :
                /\ RowsOf(r)[p] \in Nat
                /\ RowsOf(r)[p] > 0
                     => p \in Asked(QueryOf[r]) /\ Visible(p) /\ RowsOf(r)[p] = 1
                /\ p \in Asked(QueryOf[r]) /\ Visible(p) /\ SeriesOf[p] \in fingerprints[r]
                     => RowsOf(r)[p] > 0
        BY <1>2, <3>0, ScannedRows
      <4>2. ReadTypes(r)'
        BY <3>3, <4>1 DEF ReadTypes
      <4>3. \A p \in due[r] : p \in Asked(QueryOf[r]) /\ Visible(p)'
        BY <3>0, <3>v, <3>a DEF DueInv
      <4>4. ASSUME reading'[r] = "done", NEW p \in due[r]
            PROVE  returned'[r][p] > 0
        <5>1. /\ p \in Asked(QueryOf[r]) /\ Visible(p) /\ SeriesOf[p] \in fingerprints[r]
              /\ p \in Points /\ p \in arrived
          BY <3>0, <3>3, <3>a, <4>4 DEF DueInv
        <5> QED
          BY <3>3, <4>1, <5>1
      <4>5. DueInv(r)'
        BY <3>3, <4>3, <4>4 DEF DueInv, Asked
      <4>6. ReturnedInv(r)'
        <5>1. ASSUME NEW p \in Points, returned'[r][p] > 0
              PROVE  p \in Asked(QueryOf[r]) /\ Visible(p)' /\ returned'[r][p] = 1
          BY <3>3, <3>v, <4>1, <5>1
        <5> QED
          BY <5>1 DEF ReturnedInv, Asked
      <4>7. ResolvedInv(r)'
        BY <3>0, <3>3, <3>u DEF ResolvedInv
      <4>8. /\ due' = [due EXCEPT ![r] = due'[r]]
            /\ fingerprints' = [fingerprints EXCEPT ![r] = fingerprints'[r]]
        BY <3>0, <3>3
      <4> QED
        BY <2>4, <3>3, <4>2, <4>5, <4>6, <4>7, <4>8
    <3>4. CASE Scan(r)
      <4>1. /\ reading[r] = "scan" /\ reading'[r] = "done"
            /\ UNCHANGED << fingerprints, due >>
            /\ returned'[r] = RowsOf(r)
            /\ returned' = [returned EXCEPT ![r] = returned'[r]]
            /\ reading' = [reading EXCEPT ![r] = reading'[r]]
        BY <3>0, <3>4 DEF Scan
      <4>2. RowsOf(r) = [p \in Points |-> IF p \in Points THEN RowsOf(r)[p] ELSE 0]
        BY DEF RowsOf
      <4> QED
        BY <3>3, <4>1, <4>2
    <3>5. CASE ReadFails(r)
      <4>1. PICK arrived \in SUBSET Points :
                returned' = [returned EXCEPT ![r] =
                                [p \in Points |-> IF p \in arrived THEN RowsOf(r)[p] ELSE 0]]
        BY <3>5 DEF ReadFails
      <4>2. /\ reading'[r] = "failed"
            /\ UNCHANGED << fingerprints, due >>
            /\ reading' = [reading EXCEPT ![r] = reading'[r]]
        BY <3>0, <3>5 DEF ReadFails
      <4>3. /\ returned'[r] = [p \in Points |-> IF p \in arrived THEN RowsOf(r)[p] ELSE 0]
            /\ returned' = [returned EXCEPT ![r] = returned'[r]]
        BY <3>0, <4>1
      <4> QED
        BY <3>3, <4>2, <4>3
    <3> QED
      BY <2>5, <3>1, <3>2, <3>4, <3>5
  <2> QED
    BY <1>2, <2>3, <2>5 DEF StoreNext, storeVars
<1> QED
  BY <1>1, <1>2, StoreImplementsSpec, TypeCorrect, StoredOnce, PTL DEF StoreSpec

\* A read misses nothing that was visible, or had been read, when it began (157-200).
THEOREM ReadsAreComplete == StoreSpec => []ReadIsComplete
<1>1. ReadInv => ReadIsComplete
  BY DEF ReadInv, DueInv, ReadIsComplete
<1> QED
  BY <1>1, ReadInvariant, PTL

\* Both read paths give a point equally often, and none that was not acknowledged
\* (clickhouse_client.go:175-199, clickhouse_schema.go:65-95).
THEOREM ReadsAgreeWithView == StoreSpec => []ReadAgreesWithView
<1>1. TypeOK /\ StoredAtMostOnce /\ ReadInv => ReadAgreesWithView
  <2> SUFFICES ASSUME TypeOK, StoredAtMostOnce, ReadInv,
                      NEW r \in Readers, NEW p \in Points, returned[r][p] > 0
               PROVE  /\ p \in Asked(QueryOf[r]) \cap AckedPoints
                      /\ returned[r][p] = ViewRows(p)
    BY DEF ReadAgreesWithView
  <2>1. p \in Asked(QueryOf[r]) /\ Visible(p) /\ returned[r][p] = 1
    BY DEF ReadInv, ReturnedInv
  <2>2. pointRows[p] \in Nat /\ pointRows[p] > 0
    BY <2>1 DEF TypeOK, Visible
  <2>3. pointRows[p] = 1 /\ p \in AckedPoints
    BY <2>2 DEF StoredAtMostOnce
  <2> QED
    BY <2>1, <2>3, ViewIsVisible
<1> QED
  BY <1>1, ReadInvariant, StoreImplementsSpec, TypeCorrect, StoredOnce, PTL
=============================================================================
