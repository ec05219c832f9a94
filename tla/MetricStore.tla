----------------------------- MODULE MetricStore -----------------------------
(***************************************************************************)
(* ClickHouseMetricsStore as a whole: the two tables that the ingester     *)
(* writes, the view over them (clickhouse_schema.go) and the two-step      *)
(* range query (clickhouse_client.go) that runs while points and metadata  *)
(* are inserted, land late and are merged.                                 *)
(*                                                                         *)
(* A reader stands for one call of QueryRange, of any process connected to *)
(* the same ClickHouse: the end of the ingester's process does not end it. *)
(***************************************************************************)
EXTENDS Ingester

CONSTANTS
    Readers,        \* calls of QueryRange
    Metrics,        \* names, each of a service and a metric
    MetricOf,       \* series -> its name
    TimeOf,         \* point  -> its TimeUnix
    QueryOf         \* reader -> the name and the time window it asks for

ASSUME QueryAssumption ==
    /\ MetricOf \in [Fingerprints -> Metrics]
    /\ TimeOf \in [Points -> Int]
    /\ QueryOf \in [Readers -> [metric : Metrics, start : Int, end : Int]]

VARIABLES
    reading,        \* where each reader is
    fingerprints,   \* the series it has resolved
    returned,       \* how many rows of each point it returned
    due             \* history: the points it must not miss

reads     == << reading, fingerprints, returned, due >>
storeVars == << vars, reads >>

-----------------------------------------------------------------------------
\* The view joins a point with one metadata row of its series: LIMIT 1 BY.
LimitOneBy(f) == IF metaRows[f] > 0 THEN 1 ELSE 0

ViewRows(p) == pointRows[p] * LimitOneBy(SeriesOf[p])

\* The points a query asks for.
Asked(q) == {p \in Points : MetricOf[SeriesOf[p]] = q.metric /\ TimeOf[p] \in q.start..q.end}

\* What some reader has been given so far.
Known == {p \in Points : \E r \in Readers : returned[r][p] > 0}

StoreInit ==
    /\ Init
    /\ reading = [r \in Readers |-> "idle"]
    /\ fingerprints = [r \in Readers |-> {}]
    /\ returned = [r \in Readers |-> [p \in Points |-> 0]]
    /\ due = [r \in Readers |-> {}]

\* QueryRange is called.  What the view shows now, or a reader was given before, is
\* due to it.
QueryRange(r) ==
    /\ reading[r] = "idle"
    /\ reading' = [reading EXCEPT ![r] = "resolve"]
    /\ due' = [due EXCEPT ![r] = {p \in Asked(QueryOf[r]) : ViewRows(p) > 0 \/ p \in Known}]
    /\ UNCHANGED << vars, fingerprints, returned >>

\* First query: the series of that name.  With none there is no second query.
Resolved(q) == {f \in Fingerprints : metaRows[f] > 0 /\ MetricOf[f] = q.metric}

Resolve(r) ==
    /\ reading[r] = "resolve"
    /\ fingerprints' = [fingerprints EXCEPT ![r] = Resolved(QueryOf[r])]
    /\ reading' = [reading EXCEPT ![r] = IF Resolved(QueryOf[r]) = {} THEN "done" ELSE "scan"]
    /\ UNCHANGED << vars, returned, due >>

Before(p, q)  == q.start <= TimeOf[p] /\ TimeOf[p] < q.end      \* slip: the end is left out
Between(p, q) == q.start <= TimeOf[p] /\ TimeOf[p] <= q.end

\* Slip: one query that joins the tables.
RowsJoined(r) == [p \in Points |-> IF SeriesOf[p] \in fingerprints[r] /\ Between(p, QueryOf[r])
                                   THEN pointRows[p] * metaRows[SeriesOf[p]] ELSE 0]

\* Second query: the rows of those series in the window, by a scan without a join.
RowsOf(r) == [p \in Points |-> IF SeriesOf[p] \in fingerprints[r] /\ Between(p, QueryOf[r])
                               THEN pointRows[p] ELSE 0]

Scan(r) ==
    /\ reading[r] = "scan"
    /\ returned' = [returned EXCEPT ![r] = RowsOf(r)]
    /\ reading' = [reading EXCEPT ![r] = "done"]
    /\ UNCHANGED << vars, fingerprints, due >>

\* Either query fails.  With the error of the second the caller also gets the rows
\* that had arrived.
ReadFails(r) ==
    /\ reading[r] \in {"resolve", "scan"}
    /\ \E arrived \in SUBSET Points :
          returned' = [returned EXCEPT ![r] =
                          [p \in Points |-> IF p \in arrived THEN RowsOf(r)[p] ELSE 0]]
    /\ reading' = [reading EXCEPT ![r] = "failed"]
    /\ UNCHANGED << vars, fingerprints, due >>

StoreNext ==
    \/ Next /\ UNCHANGED reads
    \/ \E r \in Readers : QueryRange(r) \/ Resolve(r) \/ Scan(r) \/ ReadFails(r)

StoreSpec == StoreInit /\ [][StoreNext]_storeVars

-----------------------------------------------------------------------------
\* QueryRange returns every point that the view showed when it was called and every
\* point that an earlier read returned: nothing that inserts, late rows, merges and
\* restarts do between its two queries takes one away (QueryRange, 157-200).
ReadIsComplete ==
    \A r \in Readers : reading[r] = "done" => \A p \in due[r] : returned[r][p] > 0

\* What QueryRange returns, with an error or without, was asked for, acknowledged, and
\* is shown by the view as often: both read paths agree, although one is a join and
\* the other scans the points alone (client 175-199, schema 65-95).
ReadAgreesWithView ==
    \A r \in Readers, p \in Points : returned[r][p] > 0 =>
        p \in Asked(QueryOf[r]) \cap AckedPoints /\ returned[r][p] = ViewRows(p)

\* A point that the view shows is shown ever after: an orphan can become readable, but
\* no flush, merge or crash makes a readable point an orphan (schema 5-15, 68-69).
ViewKeepsPoints == [][\A p \in Points : ViewRows(p) > 0 => ViewRows(p)' > 0]_storeVars
=============================================================================
