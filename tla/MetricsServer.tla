---------------------------- MODULE MetricsServer ----------------------------
(***************************************************************************)
(* The life of the process (server.go, otel.go, clickhouse_client.go): run *)
(* acquires telemetry providers, the store, the ingester and the listener  *)
(* one after the other, any of which may fail; it serves, with a goroutine *)
(* for each Export; and when Serve fails it undoes what it deferred, last  *)
(* first, while connections stay open and handlers go on.  What the        *)
(* ingester does with the requests is Ingester's matter; here it matters   *)
(* what is still counted and logged on the way out, and who exports it.    *)
(***************************************************************************)
EXTENDS Naturals, Sequences, FiniteSets, Functions

CONSTANTS Handlers      \* Export requests

\* The order in which setupOTelSDK starts them.
Providers == << "trace", "meter", "logger" >>
\* The statements of CreateTables.
Tables == << "meta", "point", "view" >>

VARIABLES
    pc,         \* where run is; "killed": ended without returning
    storage,    \* -clickhouseAddr is set
    shutdownFuncs,
    created,    \* schema objects created by this process
    deferred,   \* the deferred calls of run, the latest last
    open,       \* what has been acquired and not released
    handler,    \* state of each Export request
    telemetry,  \* what has become of each count and log line
    err,        \* run's result, the set of the joined errors
    \* History:
    failures    \* every operation that failed

resources == << shutdownFuncs, deferred, open >>
requests  == << handler, telemetry >>
outcome   == << err, failures >>

vars == << pc, storage, created, resources, requests, outcome >>

\* What is recorded, with which provider: the count of each request, the log line of a
\* failed last flush, and main's of run's error.
Counted(h) == << "meter", h >>
FlushLog   == << "logger", "flush" >>
ErrorLog   == << "logger", "error" >>
Events     == {Counted(h) : h \in Handlers} \cup {FlushLog, ErrorLog}

Init ==
    /\ pc = "otel"
    /\ storage \in BOOLEAN
    /\ shutdownFuncs = << >> /\ created = << >> /\ deferred = << >>
    /\ open = {}
    /\ handler = [h \in Handlers |-> "idle"]
    /\ telemetry = [x \in Events |-> "none"]
    /\ err = {} /\ failures = {}

-----------------------------------------------------------------------------
\* A provider holds what it is given until it exports it; one that is not started, or
\* shut down, takes nothing, and what it is given is lost.
RecordedAs(x) == IF x[1] \in open THEN "held" ELSE "lost"
Record(xs)    == telemetry' = [x \in Events |-> IF x \in xs THEN RecordedAs(x) ELSE telemetry[x]]

\* What these providers hold meets that end.
Settle(providers, end) ==
    telemetry' = [x \in Events |-> IF telemetry[x] = "held" /\ x[1] \in providers THEN end
                                   ELSE telemetry[x]]

\* shutdown: every registered function once, whichever of them fail, and the list is
\* emptied; joined are the errors that err starts with.  A provider that shuts down
\* exports what it holds.
Shutdown(joined) ==
    \E failing \in SUBSET Range(shutdownFuncs) :
        /\ open' = open \ Range(shutdownFuncs)
        /\ shutdownFuncs' = << >>
        /\ Settle(Range(shutdownFuncs) \ failing, "exported")
        /\ err' = joined \cup failing
        /\ failures' = failures \cup joined \cup failing

\* The next provider starts; after the last, run defers the shutdown.
StartProvider ==
    /\ pc = "otel"
    /\ LET p == Providers[Len(shutdownFuncs) + 1]
       IN  shutdownFuncs' = Append(shutdownFuncs, p) /\ open' = open \cup {p}
    /\ IF Len(shutdownFuncs') < Len(Providers) THEN UNCHANGED << pc, deferred >>
       ELSE /\ deferred' = Append(deferred, "otelShutdown")
            /\ pc' = IF storage THEN "open" ELSE "listen"
    /\ UNCHANGED << storage, created, requests, outcome >>

\* Slip: setupOTelSDK returns without handleErr.
StartProviderFailsBare ==
    /\ pc = "otel"
    /\ err' = {Providers[Len(shutdownFuncs) + 1]}
    /\ failures' = failures \cup err'
    /\ pc' = "return"
    /\ UNCHANGED << storage, created, resources, requests >>

\* handleErr undoes the ones before it; run returns before it defers anything.
StartProviderFails ==
    /\ pc = "otel"
    /\ Shutdown({Providers[Len(shutdownFuncs) + 1]})
    /\ pc' = "return"
    /\ UNCHANGED << storage, created, deferred, handler >>

\* NewClickHouseMetricsStore; a connection that cannot be pinged is closed in it.
OpenStore ==
    /\ pc = "open"
    /\ open' = open \cup {"store"}
    /\ pc' = "tables"
    /\ UNCHANGED << storage, shutdownFuncs, created, deferred, requests, outcome >>

\* run returns the error of a step; the deferred calls follow.
Fails(step) ==
    /\ err' = {step} /\ failures' = failures \cup {step}
    /\ pc' = "return"
    /\ UNCHANGED << storage, created, resources, requests >>

OpenStoreFails == pc = "open" /\ Fails("open")

StoreAndIngesterDeferred == Append(Append(deferred, "storeClose"), "ingesterClose")
\* Slips: registered in the order in which they should run; registered before the
\* shutdown of the providers is.
IngesterAndStoreDeferred == Append(Append(deferred, "ingesterClose"), "storeClose")
DeferredBeforeOtel       == << "storeClose", "ingesterClose" >> \o deferred
Deferred == StoreAndIngesterDeferred

\* One statement of CreateTables; after the last, the ingester starts and both are
\* deferred.
CreateTable ==
    /\ pc = "tables"
    /\ created' = Append(created, Tables[Len(created) + 1])
    /\ IF Len(created') < Len(Tables) THEN UNCHANGED << pc, deferred, open >>
       ELSE /\ open' = open \cup {"queue", "ingester"}
            /\ deferred' = Deferred
            /\ pc' = "listen"
    /\ UNCHANGED << storage, shutdownFuncs, requests, outcome >>

CreateTableFails == pc = "tables" /\ Fails("tables")

Listen ==
    /\ pc = "listen"
    /\ open' = open \cup {"listener"}
    /\ pc' = "serve"
    /\ UNCHANGED << storage, shutdownFuncs, created, deferred, requests, outcome >>

ListenFails == pc = "listen" /\ Fails("listen")

\* Serve gives up on an error of Accept and closes the listener; it neither waits for
\* the handlers nor closes the connections.
ServeFails ==
    /\ pc = "serve"
    /\ err' = {"serve"} /\ failures' = failures \cup {"serve"}
    /\ open' = open \ {"listener"}
    /\ pc' = "return"
    /\ UNCHANGED << storage, shutdownFuncs, created, deferred, requests >>

-----------------------------------------------------------------------------
\* The deferred calls run last first.
Return(call) ==
    /\ pc = "return"
    /\ deferred # << >> /\ deferred[Len(deferred)] = call
    /\ deferred' = SubSeq(deferred, 1, Len(deferred) - 1)
    /\ UNCHANGED << pc, storage, created, handler >>

\* ingester.Close: the channel is closed; what is queued is flushed; only then, its
\* context being context.Background(), it returns.
CloseQueue ==
    /\ pc = "return"
    /\ deferred # << >> /\ deferred[Len(deferred)] = "ingesterClose"
    /\ "queue" \in open
    /\ open' = open \ {"queue"}
    /\ UNCHANGED << pc, storage, shutdownFuncs, created, deferred, requests, outcome >>

\* It returns no error when the last flush failed: that is only logged.
IngesterClose ==
    /\ "queue" \notin open
    /\ Return("ingesterClose")
    /\ open' = open \ {"ingester"}
    /\ \E failing \in SUBSET {FlushLog} : Record(failing)
    /\ UNCHANGED << shutdownFuncs, outcome >>

ForgetErr(failing)  == err' = failing           \* slip: = for errors.Join
JoinErr(failing)    == err' = err \cup failing
ReportErr(failing)  == JoinErr(failing)

StoreClose ==
    /\ Return("storeClose")
    /\ open' = open \ {"store"}
    /\ \E failing \in SUBSET {"storeClose"} :
          ReportErr(failing) /\ failures' = failures \cup failing
    /\ UNCHANGED << shutdownFuncs, telemetry >>

OtelShutdown == Return("otelShutdown") /\ Shutdown(err)

\* run returns, and main logs its error and ends the process.  log.Fatalln writes to
\* slog's default handler (slog.SetDefault, server.go:55), that is, to the logger
\* provider.
Exit ==
    /\ pc = "return"
    /\ deferred = << >>
    /\ pc' = "exited"
    /\ Record(IF err = {} THEN {} ELSE {ErrorLog})
    /\ UNCHANGED << storage, created, resources, handler, outcome >>

-----------------------------------------------------------------------------
\* While run serves, connections are accepted.
Connect(h) ==
    /\ pc = "serve"
    /\ handler[h] = "idle"
    /\ handler' = [handler EXCEPT ![h] = "connected"]
    /\ UNCHANGED << pc, storage, created, resources, telemetry, outcome >>

ProcessRuns == pc \notin {"exited", "killed"}

\* A request comes in on its connection and is counted, whatever run does by then.
Export(h) ==
    /\ ProcessRuns
    /\ handler[h] = "connected"
    /\ handler' = [handler EXCEPT ![h] = "running"]
    /\ Record({Counted(h)})
    /\ UNCHANGED << pc, storage, created, resources, outcome >>

Running(h) == ProcessRuns /\ handler[h] = "running"

\* It is answered with nothing enqueued: no store, no points, or its context ended.
ExportReturns(h) ==
    /\ Running(h)
    /\ handler' = [handler EXCEPT ![h] = "returned"]
    /\ UNCHANGED << pc, storage, created, resources, telemetry, outcome >>

\* The ingester takes its points, and it is acknowledged.
ExportEnqueued(h) ==
    /\ Running(h)
    /\ storage /\ "queue" \in open
    /\ handler' = [handler EXCEPT ![h] = "enqueued"]
    /\ UNCHANGED << pc, storage, created, resources, telemetry, outcome >>

\* A send on the closed channel: the panic ends the process, and with it whatever
\* run still had to undo.
ExportPanics(h) ==
    /\ Running(h)
    /\ storage /\ "queue" \notin open
    /\ handler' = [handler EXCEPT ![h] = "panicked"]
    /\ pc' = "killed"
    /\ UNCHANGED << storage, created, resources, telemetry, outcome >>

\* No signal is handled: SIGTERM or SIGINT ends the process where it stands.
Killed ==
    /\ ProcessRuns
    /\ pc' = "killed"
    /\ UNCHANGED << storage, created, resources, requests, outcome >>

\* A provider's batcher or periodic reader exports what it holds.
ExportTelemetry(p) ==
    /\ ProcessRuns
    /\ p \in open
    /\ Settle({p}, "exported")
    /\ UNCHANGED << pc, storage, created, resources, handler, outcome >>

\* Its exporter fails, of which only the SDK's error handler hears.  A batch of log lines
\* is dropped; a count is a running total, and the next export has it too.
ExportTelemetryFails(p) ==
    /\ ProcessRuns
    /\ p \in open
    /\ Settle({p} \ {"meter"}, "dropped")
    /\ UNCHANGED << pc, storage, created, resources, handler, outcome >>

-----------------------------------------------------------------------------
Run == \/ StartProvider \/ StartProviderFails
       \/ OpenStore \/ OpenStoreFails \/ CreateTable \/ CreateTableFails
       \/ Listen \/ ListenFails \/ ServeFails
       \/ CloseQueue \/ IngesterClose \/ StoreClose \/ OtelShutdown \/ Exit

Next == \/ Run
        \/ \E h \in Handlers : \/ Connect(h) \/ Export(h)
                               \/ ExportReturns(h) \/ ExportEnqueued(h) \/ ExportPanics(h)
        \/ (\E p \in Range(Providers) : ExportTelemetry(p) \/ ExportTelemetryFails(p))
        \/ Killed

Spec == Init /\ [][Next]_vars

-----------------------------------------------------------------------------
\* The connection outlives the ingester, whose last flush needs it, on every path out
\* of run ("LIFO: ingester first", server.go:83).
StoreOutlivesIngester == "ingester" \in open => "store" \in open

\* When run has returned, nothing it acquired is left open, whatever failed on the way,
\* except the connection if a table could not be created: its Close is deferred only
\* after CreateTables (server.go:64, 75-85; otel.go:45-48).
NothingLeaks ==
    pc = "exited" => open = IF "tables" \in failures THEN {"store"} ELSE {}

\* run's error names every failure of a statement of run and of its cleanup (errors.Join,
\* server.go:66, 84, 85; otel.go:39, 47), the last flush being no such failure.
ErrorsAreReported == pc = "exited" => err = failures

\* When run has returned, no provider holds anything, unless its shutdown reported an
\* error; the failure of the last flush was logged while the logger could still take it;
\* and every request that was enqueued had been counted while the meter could: whoever is
\* counted after the shutdown of the providers finds the queue closed (server.go:63-85,
\* ingester.go:134, metrics_service.go:23-29).
TelemetryIsExported ==
    pc = "exited" =>
        /\ \A x \in Events : telemetry[x] = "held" => x[1] \in failures
        /\ telemetry[FlushLog] # "lost"
        /\ \A h \in Handlers :
              handler[h] = "enqueued" => telemetry[Counted(h)] \notin {"none", "lost"}

=============================================================================
