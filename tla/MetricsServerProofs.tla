------------------------ MODULE MetricsServerProofs ------------------------
(***************************************************************************)
(* Startup, shutdown and their failures, for any number of Export          *)
(* handlers.  Everything rests on one relation: between two steps of run,  *)
(* what is open and not yet in run's error can be read off the stack of    *)
(* deferred calls.                                                         *)
(***************************************************************************)
EXTENDS MetricsServer, SequenceLemmas

\* The values that run gives its lists.
Started == {<< >>, << "trace" >>, << "trace", "meter" >>, << "trace", "meter", "logger" >>}
Made    == {<< >>, << "meta" >>, << "meta", "point" >>, << "meta", "point", "view" >>}

AllStarted == << "trace", "meter", "logger" >>
AllMade    == << "meta", "point", "view" >>

OtelOnly   == << "otelShutdown" >>
OtelStore  == << "otelShutdown", "storeClose" >>
AllOfThem  == << "otelShutdown", "storeClose", "ingesterClose" >>

ServerTypes ==
    /\ pc \in {"otel", "open", "tables", "listen", "serve", "return", "exited", "killed"}
    /\ storage \in BOOLEAN
    /\ shutdownFuncs \in Started
    /\ created \in Made
    /\ deferred \in {<< >>, OtelOnly, OtelStore, AllOfThem}
    /\ handler \in [Handlers -> {"idle", "connected", "running", "returned", "enqueued",
                               "panicked"}]

\* What is deferred at each statement of run.
DeferredInv ==
    /\ pc = "otel" => deferred = << >> /\ shutdownFuncs # AllStarted
    /\ pc \in {"open", "tables"} => storage /\ deferred = OtelOnly
    /\ pc \in {"otel", "open", "tables"} => created # AllMade
    /\ pc \in {"listen", "serve"} => deferred = IF storage THEN AllOfThem ELSE OtelOnly
    /\ pc = "exited" => deferred = << >>
    /\ pc \notin {"otel", "killed"} =>
          shutdownFuncs = IF deferred = << >> THEN << >> ELSE AllStarted

\* There are no connections before run serves.
HandlersInv ==
    pc \in {"otel", "open", "tables", "listen"} => \A h \in Handlers : handler[h] = "idle"

\* What is open: what some deferred call will release, and the listener while run
\* serves, and the store between its opening and the deferral of its Close.
OpenInv ==
    pc # "killed" =>
        /\ open \subseteq {"trace", "meter", "logger", "store", "queue", "ingester", "listener"}
        /\ open \cap {"trace", "meter", "logger"} = Range(shutdownFuncs)
        /\ "store" \in open <=>
              \/ deferred \in {OtelStore, AllOfThem}
              \/ pc = "tables" \/ "tables" \in failures
        /\ "ingester" \in open <=> deferred = AllOfThem
        /\ "queue" \in open => deferred = AllOfThem
        /\ "listener" \in open <=> pc = "serve"

\* Errors are collected from the first failure on, which makes run return.
ErrorInv ==
    pc # "killed" =>
        /\ err = failures
        /\ pc \notin {"return", "exited"} => failures = {}
        /\ "tables" \in failures => deferred \in {<< >>, OtelOnly}

ControlInv ==
    /\ ServerTypes /\ DeferredInv /\ HandlersInv /\ OpenInv /\ ErrorInv
    /\ StoreOutlivesIngester

\* What a provider holds waits for its shutdown, unless that has failed.
HeldInv ==
    pc # "killed" => \A x \in Events : telemetry[x] = "held" =>
                        x[1] \in Range(shutdownFuncs) \/ x[1] \in failures

\* A request that is enqueued was counted in time, and so was one that still can be.
CountInv ==
    pc # "killed" => \A h \in Handlers :
        handler[h] = "enqueued" \/ (handler[h] = "running" /\ "queue" \in open)
            => telemetry[Counted(h)] \notin {"none", "lost"}

FlushLogInv == pc # "killed" => telemetry[FlushLog] # "lost"

TelemetryInv ==
    /\ telemetry \in [Events -> {"none", "held", "exported", "dropped", "lost"}]
    /\ HeldInv /\ CountInv /\ FlushLogInv

ServerInv == ControlInv /\ TelemetryInv

-----------------------------------------------------------------------------
\* The providers in each list of them.
LEMMA RangesOfStarted ==
    /\ Range(<< >>) = {}
    /\ Range(<< "trace" >>) = {"trace"}
    /\ Range(<< "trace", "meter" >>) = {"trace", "meter"}
    /\ Range(<< "trace", "meter", "logger" >>) = {"trace", "meter", "logger"}
BY DEF Range

\* The next provider, and the list with it.
LEMMA NextProvider ==
    ASSUME shutdownFuncs \in Started, shutdownFuncs # AllStarted
    PROVE  LET p == Providers[Len(shutdownFuncs) + 1]
           IN  /\ p \in {"trace", "meter", "logger"}
               /\ Append(shutdownFuncs, p) \in Started
               /\ Range(Append(shutdownFuncs, p)) = Range(shutdownFuncs) \cup {p}
               /\ Len(Append(shutdownFuncs, p)) < Len(Providers)
                    <=> Append(shutdownFuncs, p) # AllStarted
<1> USE DEF AllStarted
<1>0. Len(Providers) = 3
  BY DEF Providers
<1>1. CASE shutdownFuncs = << >>
  <2>1. Providers[Len(shutdownFuncs) + 1] = "trace"
    BY <1>1 DEF Providers
  <2>2. Append(shutdownFuncs, "trace") = << "trace" >>
    BY <1>1
  <2> QED
    BY <1>0, <1>1, <2>1, <2>2, RangesOfStarted DEF Started
<1>2. CASE shutdownFuncs = << "trace" >>
  <2>1. Providers[Len(shutdownFuncs) + 1] = "meter"
    BY <1>2 DEF Providers
  <2>2. Append(shutdownFuncs, "meter") = << "trace", "meter" >>
    BY <1>2, Tuples, Zenon
  <2>3. Range(Append(shutdownFuncs, "meter")) = Range(shutdownFuncs) \cup {"meter"}
    <3>1. Range(shutdownFuncs) = {"trace"}
      BY <1>2, RangesOfStarted, Zenon
    <3>2. Range(Append(shutdownFuncs, "meter")) = {"trace", "meter"}
      BY <2>2, RangesOfStarted, Zenon
    <3> QED
      BY <3>1, <3>2
  <2>4. Append(shutdownFuncs, "meter") \in Started
    BY <2>2, Zenon DEF Started
  <2>5. /\ Len(Append(shutdownFuncs, "meter")) = 2
        /\ Append(shutdownFuncs, "meter") # << "trace", "meter", "logger" >>
    BY <2>2
  <2>6. Len(Append(shutdownFuncs, "meter")) < Len(Providers)
    BY <1>0, <2>5
  <2> QED
    BY <2>1, <2>3, <2>4, <2>5, <2>6, Zenon
<1>3. CASE shutdownFuncs = << "trace", "meter" >>
  <2>1. Providers[Len(shutdownFuncs) + 1] = "logger"
    BY <1>3 DEF Providers
  <2>2. Append(shutdownFuncs, "logger") = << "trace", "meter", "logger" >>
    BY <1>3, Tuples, Zenon
  <2>3. Range(Append(shutdownFuncs, "logger")) = Range(shutdownFuncs) \cup {"logger"}
    <3>1. Range(shutdownFuncs) = {"trace", "meter"}
      BY <1>3, RangesOfStarted, Zenon
    <3>2. Range(Append(shutdownFuncs, "logger")) = {"trace", "meter", "logger"}
      BY <2>2, RangesOfStarted, Zenon
    <3> QED
      BY <3>1, <3>2
  <2>4. Append(shutdownFuncs, "logger") \in Started
    BY <2>2, Zenon DEF Started
  <2>5. Len(Append(shutdownFuncs, "logger")) = 3
    BY <2>2
  <2>6. ~(Len(Append(shutdownFuncs, "logger")) < Len(Providers))
    BY <1>0, <2>5
  <2> QED
    BY <2>1, <2>2, <2>3, <2>4, <2>6, Zenon
<1> QED
  BY <1>1, <1>2, <1>3 DEF Started

\* The next statement of CreateTables.
LEMMA NextTable ==
    ASSUME created \in Made, created # AllMade
    PROVE  LET more == Append(created, Tables[Len(created) + 1])
           IN  /\ more \in Made
               /\ Len(more) < Len(Tables) <=> more # AllMade
<1> USE DEF AllMade
<1>0. Len(Tables) = 3
  BY DEF Tables
<1>1. CASE created = << >>
  <2>1. Tables[Len(created) + 1] = "meta"
    BY <1>1 DEF Tables
  <2>2. Append(created, "meta") = << "meta" >>
    BY <1>1
  <2> QED
    BY <1>0, <2>1, <2>2 DEF Made
<1>2. CASE created = << "meta" >>
  <2>1. Tables[Len(created) + 1] = "point"
    BY <1>2 DEF Tables
  <2>2. Append(created, "point") = << "meta", "point" >>
    BY <1>2, Tuples, Zenon
  <2> QED
    BY <1>0, <2>1, <2>2 DEF Made
<1>3. CASE created = << "meta", "point" >>
  <2>1. Tables[Len(created) + 1] = "view"
    BY <1>3 DEF Tables
  <2>2. Append(created, "view") = << "meta", "point", "view" >>
    BY <1>3, Tuples, Zenon
  <2> QED
    BY <1>0, <2>1, <2>2 DEF Made
<1> QED
  BY <1>1, <1>2, <1>3 DEF Made

\* The stack of deferred calls loses its last.
LEMMA Popped ==
    ASSUME deferred \in {<< >>, OtelOnly, OtelStore, AllOfThem}, deferred # << >>
    PROVE  LET top == deferred[Len(deferred)]
               rest == SubSeq(deferred, 1, Len(deferred) - 1)
           IN  \/ deferred = OtelOnly /\ top = "otelShutdown" /\ rest = << >>
               \/ deferred = OtelStore /\ top = "storeClose" /\ rest = OtelOnly
               \/ deferred = AllOfThem /\ top = "ingesterClose" /\ rest = OtelStore
<1>1. CASE deferred = OtelOnly
  BY <1>1 DEF OtelOnly
<1>2. CASE deferred = OtelStore
  <2>1. Len(deferred) = 2 /\ deferred[2] = "storeClose" /\ Len(deferred) - 1 = 1
    BY <1>2 DEF OtelStore
  <2>2. SubSeq(deferred, 1, 1) = OtelOnly
    BY <1>2, Tuples, Zenon DEF OtelStore, OtelOnly
  <2>3. deferred[Len(deferred)] = "storeClose"
    BY <2>1, Zenon
  <2>4. SubSeq(deferred, 1, Len(deferred) - 1) = OtelOnly
    BY <2>1, <2>2, Zenon
  <2> QED
    BY <1>2, <2>3, <2>4, Zenon
<1>3. CASE deferred = AllOfThem
  <2>1. Len(deferred) = 3 /\ deferred[3] = "ingesterClose" /\ Len(deferred) - 1 = 2
    BY <1>3 DEF AllOfThem
  <2>2. SubSeq(deferred, 1, 2) = OtelStore
    BY <1>3, Tuples, Zenon DEF AllOfThem, OtelStore
  <2>3. deferred[Len(deferred)] = "ingesterClose"
    BY <2>1, Zenon
  <2>4. SubSeq(deferred, 1, Len(deferred) - 1) = OtelStore
    BY <2>1, <2>2, Zenon
  <2> QED
    BY <1>3, <2>3, <2>4, Zenon
<1> QED
  BY <1>1, <1>2, <1>3

\* The stacks differ, and what the full list of providers holds.
LEMMA Stacks ==
    /\ << >> # OtelOnly /\ << >> # OtelStore /\ << >> # AllOfThem
    /\ OtelOnly # OtelStore /\ OtelOnly # AllOfThem /\ OtelStore # AllOfThem
    /\ << >> # AllStarted /\ AllStarted \in Started /\ << >> \in Started
    /\ << >> # AllMade /\ << >> \in Made
    /\ Range(<< >>) = {} /\ Range(AllStarted) = {"trace", "meter", "logger"}
<1>1. << >> # OtelOnly /\ << >> # OtelStore /\ << >> # AllOfThem
  BY DEF OtelOnly, OtelStore, AllOfThem
<1>2. OtelOnly # OtelStore /\ OtelOnly # AllOfThem /\ OtelStore # AllOfThem
  BY DEF OtelOnly, OtelStore, AllOfThem
<1>3. << >> # AllStarted /\ << >> # AllMade
  BY DEF AllStarted, AllMade
<1>4. AllStarted \in Started /\ << >> \in Started /\ << >> \in Made
  BY Zenon DEF AllStarted, Started, Made
<1>5. Range(<< >>) = {} /\ Range(AllStarted) = {"trace", "meter", "logger"}
  BY RangesOfStarted, Zenon DEF AllStarted
<1> QED
  BY <1>1, <1>2, <1>3, <1>4, <1>5

\* What run adds to the stack.
LEMMA DeferredLists ==
    ASSUME deferred = << >> \/ deferred = OtelOnly
    PROVE  /\ deferred = << >> => Append(deferred, "otelShutdown") = OtelOnly
           /\ deferred = OtelOnly => Deferred = AllOfThem
<1>1. deferred = << >> => Append(deferred, "otelShutdown") = OtelOnly
  BY Tuples, Zenon DEF OtelOnly
<1>2. deferred = OtelOnly => Deferred = AllOfThem
  <2> SUFFICES ASSUME deferred = << "otelShutdown" >>
               PROVE  Append(Append(deferred, "storeClose"), "ingesterClose") = AllOfThem
    BY Zenon DEF OtelOnly, Deferred, StoreAndIngesterDeferred
  <2>1. Append(deferred, "storeClose") = << "otelShutdown", "storeClose" >>
    BY Tuples, Zenon
  <2>2. Append(<< "otelShutdown", "storeClose" >>, "ingesterClose")
           = << "otelShutdown", "storeClose", "ingesterClose" >>
    BY Tuples, Zenon
  <2> QED
    BY <2>1, <2>2, Zenon DEF AllOfThem
<1> QED
  BY <1>1, <1>2

\* One step of run, of a handler or of a provider.
LEMMA ControlInvStep == ControlInv /\ [Next]_vars => ControlInv'
<1> SUFFICES ASSUME ControlInv, [Next]_vars PROVE ControlInv'
  OBVIOUS
<1> USE DEF ControlInv, ServerTypes, DeferredInv, HandlersInv, OpenInv, ErrorInv,
        StoreOutlivesIngester, resources, requests, outcome, vars
<1>1. CASE UNCHANGED vars
  BY <1>1
<1>2. CASE StartProvider
  BY <1>2, NextProvider, DeferredLists, Stacks DEF StartProvider
<1>3. CASE StartProviderFails
  BY <1>3, NextProvider, Stacks DEF StartProviderFails, Shutdown
<1>4. CASE OpenStore
  BY <1>4, Stacks DEF OpenStore
<1>5. CASE OpenStoreFails
  BY <1>5, Stacks DEF OpenStoreFails, Fails
<1>6. CASE CreateTable
  <2>1. pc = "tables" /\ deferred = OtelOnly /\ created' \in Made /\ err' = err
        /\ failures' = failures /\ UNCHANGED << storage, shutdownFuncs, requests >>
    BY <1>6, NextTable DEF CreateTable, ServerTypes, DeferredInv
  <2>2. CASE Len(created') < Len(Tables)
    <3>1. created' # AllMade /\ UNCHANGED << pc, deferred, open >>
      BY <1>6, <2>2, NextTable DEF CreateTable, ServerTypes, DeferredInv
    <3> QED
      BY <2>1, <3>1, Stacks
  <2>3. CASE ~(Len(created') < Len(Tables))
    <3>1. open' = open \cup {"queue", "ingester"} /\ deferred' = AllOfThem /\ pc' = "listen"
      BY <1>6, <2>1, <2>3, DeferredLists DEF CreateTable
    <3>2. storage
      BY <2>1
    <3> QED
      BY <2>1, <3>1, Stacks
  <2> QED
    BY <2>2, <2>3
<1>7. CASE CreateTableFails
  BY <1>7, Stacks DEF CreateTableFails, Fails
<1>8. CASE Listen
  BY <1>8, Stacks DEF Listen
<1>9. CASE ListenFails
  BY <1>9, Stacks DEF ListenFails, Fails
<1>10. CASE ServeFails
  BY <1>10, Stacks DEF ServeFails
<1>11. CASE CloseQueue
  BY <1>11, Popped, Stacks DEF CloseQueue
<1>12. CASE IngesterClose
  <2>1. /\ pc = "return" /\ deferred = AllOfThem /\ deferred' = OtelStore
        /\ "queue" \notin open /\ open' = open \ {"ingester"}
        /\ UNCHANGED << pc, storage, created, handler, shutdownFuncs, outcome >>
    BY <1>12, Popped, Stacks DEF IngesterClose, Return, ServerTypes
  <2>2. ServerTypes' /\ DeferredInv' /\ HandlersInv' /\ ErrorInv' /\ StoreOutlivesIngester'
    BY <2>1, Stacks
  <2>3. OpenInv'
    BY <2>1, Stacks
  <2> QED
    BY <2>2, <2>3
<1>13. CASE StoreClose
  BY <1>13, Popped, Stacks DEF StoreClose, Return, ReportErr, JoinErr
<1>14. CASE OtelShutdown
  BY <1>14, Popped, Stacks DEF OtelShutdown, Return, Shutdown
<1>15. CASE Exit
  BY <1>15, Stacks DEF Exit
<1>16. ASSUME NEW h \in Handlers, Connect(h) PROVE ControlInv'
  BY <1>16 DEF Connect
<1>17. ASSUME NEW h \in Handlers, Export(h) PROVE ControlInv'
  BY <1>17 DEF Export, ProcessRuns
<1>18. ASSUME NEW h \in Handlers, ExportReturns(h) PROVE ControlInv'
  BY <1>18 DEF ExportReturns, Running, ProcessRuns
<1>19. ASSUME NEW h \in Handlers, ExportEnqueued(h) PROVE ControlInv'
  BY <1>19 DEF ExportEnqueued, Running, ProcessRuns
<1>20. ASSUME NEW h \in Handlers, ExportPanics(h) PROVE ControlInv'
  BY <1>20 DEF ExportPanics, Running, ProcessRuns
<1>21. CASE Killed
  BY <1>21 DEF Killed
<1>22. ASSUME NEW p \in Range(Providers), ExportTelemetry(p) \/ ExportTelemetryFails(p)
       PROVE ControlInv'
  BY <1>22 DEF ExportTelemetry, ExportTelemetryFails, ProcessRuns
<1> QED
  BY <1>1, <1>2, <1>3, <1>4, <1>5, <1>6, <1>7, <1>8, <1>9, <1>10, <1>11, <1>12, <1>13,
     <1>14, <1>15, <1>16, <1>17, <1>18, <1>19, <1>20, <1>21, <1>22 DEF Next, Run

-----------------------------------------------------------------------------
(***************************************************************************)
(* Telemetry.  A provider is open as long as the channel of the ingester   *)
(* is, so what is recorded until then is held; what is held is never lost. *)
(***************************************************************************)
LEMMA EventsAreApart ==
    /\ FlushLog \in Events /\ ErrorLog \in Events /\ FlushLog # ErrorLog
    /\ FlushLog[1] = "logger" /\ ErrorLog[1] = "logger"
    /\ \A h \in Handlers : /\ Counted(h) \in Events /\ Counted(h)[1] = "meter"
                           /\ Counted(h) # FlushLog /\ Counted(h) # ErrorLog
BY DEF Events, FlushLog, ErrorLog, Counted

\* While the ingester has its channel, or is being closed, all providers are open.
LEMMA ProvidersAreOpen ==
    ASSUME ControlInv, pc # "killed", "queue" \in open \/ deferred = AllOfThem
    PROVE  shutdownFuncs = AllStarted /\ {"trace", "meter", "logger"} \subseteq open
<1>1. deferred = AllOfThem
  BY DEF ControlInv, OpenInv
<1>2. pc # "otel" /\ deferred # << >>
  BY <1>1, Stacks DEF ControlInv, DeferredInv
<1>3. shutdownFuncs = AllStarted
  BY <1>2 DEF ControlInv, DeferredInv
<1> QED
  BY <1>3, Stacks DEF ControlInv, OpenInv

\* What is recorded is held by an open provider or lost, and nothing else changes.
LEMMA RecordKeepsHeld ==
    ASSUME ControlInv, TelemetryInv, pc # "killed", NEW xs \in SUBSET Events, Record(xs),
           UNCHANGED << shutdownFuncs, failures >>
    PROVE  /\ telemetry' \in [Events -> {"none", "held", "exported", "dropped", "lost"}]
           /\ HeldInv'
           /\ \A x \in Events : x \notin xs => telemetry'[x] = telemetry[x]
           /\ \A x \in xs : x[1] \in open => telemetry'[x] = "held"
<1>1. \A x \in Events :
         telemetry'[x] = IF x \in xs THEN IF x[1] \in open THEN "held" ELSE "lost"
                                     ELSE telemetry[x]
  BY DEF Record, RecordedAs
<1>2. telemetry' \in [Events -> {"none", "held", "exported", "dropped", "lost"}]
  BY DEF Record, RecordedAs, TelemetryInv
<1>3. \A x \in Events : x[1] \in {"meter", "logger"}
  BY DEF Events, FlushLog, ErrorLog, Counted
<1>4. ASSUME NEW x \in Events, telemetry'[x] = "held"
      PROVE  x[1] \in Range(shutdownFuncs)' \/ x[1] \in failures'
  <2>1. CASE x \in xs
    BY <1>1, <1>3, <1>4, <2>1 DEF ControlInv, OpenInv
  <2>2. CASE x \notin xs
    BY <1>1, <1>4, <2>2 DEF TelemetryInv, HeldInv
  <2> QED
    BY <2>1, <2>2
<1> QED
  BY <1>1, <1>2, <1>4 DEF HeldInv

\* What is settled was held, and was not lost.
LEMMA SettleKeeps ==
    ASSUME TelemetryInv, NEW providers, NEW end \in {"exported", "dropped"},
           Settle(providers, end)
    PROVE  /\ telemetry' \in [Events -> {"none", "held", "exported", "dropped", "lost"}]
           /\ \A x \in Events :
                 /\ telemetry'[x] = "held" => telemetry[x] = "held" /\ x[1] \notin providers
                 /\ telemetry'[x] \in {"none", "lost"} => telemetry'[x] = telemetry[x]
BY DEF Settle, TelemetryInv

\* A step that leaves telemetry and its surroundings alone.
LEMMA TelemetryUntouched ==
    ASSUME TelemetryInv, pc # "killed", UNCHANGED telemetry,
           Range(shutdownFuncs) \subseteq Range(shutdownFuncs)',
           failures \subseteq failures',
           \A h \in Handlers : handler'[h] \in {"running", "enqueued"}
                                  => handler'[h] = handler[h],
           "queue" \in open' => "queue" \in open \/ \A h \in Handlers : handler[h] # "running"
    PROVE  TelemetryInv'
BY DEF TelemetryInv, HeldInv, CountInv, FlushLogInv

\* What is settled has been recorded in time.
LEMMA SettledKeepsCounts ==
    ASSUME TelemetryInv, pc # "killed", handler' = handler, open' \subseteq open,
           \A x \in Events : telemetry'[x] \in {"none", "lost"} => telemetry'[x] = telemetry[x]
    PROVE  CountInv' /\ FlushLogInv'
BY EventsAreApart DEF TelemetryInv, CountInv, FlushLogInv

\* The providers shut down: each exports what it holds, or its failure is in the error.
LEMMA ShutdownKeeps ==
    ASSUME TelemetryInv, pc # "killed", handler' = handler,
           NEW joined, Shutdown(joined)
    PROVE  TelemetryInv'
<1>1. PICK failing \in SUBSET Range(shutdownFuncs) :
         /\ open' = open \ Range(shutdownFuncs)
         /\ Settle(Range(shutdownFuncs) \ failing, "exported")
         /\ failures' = failures \cup joined \cup failing
  BY DEF Shutdown
<1>2. /\ telemetry' \in [Events -> {"none", "held", "exported", "dropped", "lost"}]
      /\ \A x \in Events :
            /\ telemetry'[x] = "held"
                  => telemetry[x] = "held" /\ x[1] \notin Range(shutdownFuncs) \ failing
            /\ telemetry'[x] \in {"none", "lost"} => telemetry'[x] = telemetry[x]
  BY <1>1, SettleKeeps
<1>3. HeldInv'
  BY <1>1, <1>2 DEF TelemetryInv, HeldInv
<1>4. CountInv' /\ FlushLogInv'
  BY <1>1, <1>2, SettledKeepsCounts
<1> QED
  BY <1>2, <1>3, <1>4 DEF TelemetryInv

\* What a provider holds, and what was counted before it was enqueued, at each step.
LEMMA TelemetryInvStep == ControlInv /\ TelemetryInv /\ [Next]_vars => TelemetryInv'
<1> SUFFICES ASSUME ControlInv, TelemetryInv, [Next]_vars PROVE TelemetryInv'
  OBVIOUS
<1> USE DEF resources, requests, outcome
<1>1. CASE UNCHANGED vars
  BY <1>1 DEF vars, TelemetryInv, HeldInv, CountInv, FlushLogInv
<1>2. CASE StartProvider
  <2>1. shutdownFuncs \in Started /\ shutdownFuncs # AllStarted
    BY <1>2 DEF StartProvider, ControlInv, ServerTypes, DeferredInv
  <2>2. PICK p \in {"trace", "meter", "logger"} :
           /\ open' = open \cup {p}
           /\ Range(shutdownFuncs)' = Range(shutdownFuncs) \cup {p}
    BY <1>2, <2>1, NextProvider DEF StartProvider
  <2>3. pc # "killed" /\ UNCHANGED << telemetry, failures, handler >>
    BY <1>2 DEF StartProvider
  <2>4. "queue" \in open' => "queue" \in open
    BY <2>2
  <2> QED
    BY <2>2, <2>3, <2>4, TelemetryUntouched
<1>3. CASE StartProviderFails
  BY <1>3, ShutdownKeeps, Stacks DEF StartProviderFails, ControlInv, DeferredInv
<1>4. CASE OpenStore \/ OpenStoreFails \/ CreateTableFails \/ Listen \/ ListenFails \/ ServeFails
  <2>1. /\ pc # "killed" /\ UNCHANGED << telemetry, shutdownFuncs, handler >>
        /\ failures \subseteq failures'
        /\ "queue" \in open' => "queue" \in open
    BY <1>4 DEF OpenStore, OpenStoreFails, CreateTableFails, Listen, ListenFails, ServeFails,
                Fails
  <2> QED
    BY <2>1, TelemetryUntouched
<1>5. CASE CreateTable
  <2>1. /\ pc = "tables" /\ UNCHANGED << telemetry, shutdownFuncs, handler, failures >>
    BY <1>5 DEF CreateTable
  <2>2. \A h \in Handlers : handler[h] # "running"
    BY <2>1 DEF ControlInv, HandlersInv
  <2> QED
    BY <2>1, <2>2, TelemetryUntouched
<1>6. CASE CloseQueue
  <2>1. /\ pc = "return" /\ UNCHANGED << telemetry, shutdownFuncs, handler, failures >>
        /\ open' = open \ {"queue"}
    BY <1>6 DEF CloseQueue
  <2> QED
    BY <2>1, TelemetryUntouched
<1>7. CASE IngesterClose
  <2>1. /\ pc = "return" /\ deferred = AllOfThem /\ open' = open \ {"ingester"}
        /\ UNCHANGED << pc, shutdownFuncs, handler, failures >>
    BY <1>7, Popped, Stacks DEF IngesterClose, Return, ControlInv, ServerTypes
  <2>2. PICK xs \in SUBSET {FlushLog} : Record(xs)
    BY <1>7 DEF IngesterClose
  <2>3. xs \in SUBSET Events
    BY EventsAreApart
  <2>4. /\ telemetry' \in [Events -> {"none", "held", "exported", "dropped", "lost"}]
        /\ HeldInv'
        /\ \A x \in Events : x \notin xs => telemetry'[x] = telemetry[x]
        /\ \A x \in xs : x[1] \in open => telemetry'[x] = "held"
    BY <2>1, <2>2, <2>3, RecordKeepsHeld
  <2>5. "logger" \in open
    BY <2>1, ProvidersAreOpen
  <2>6. FlushLogInv'
    BY <2>1, <2>2, <2>4, <2>5, EventsAreApart DEF FlushLogInv, TelemetryInv
  <2>7. CountInv'
    BY <2>1, <2>2, <2>4, EventsAreApart DEF CountInv, TelemetryInv
  <2> QED
    BY <2>4, <2>6, <2>7 DEF TelemetryInv
<1>8. CASE StoreClose
  <2>1. /\ pc = "return" /\ UNCHANGED << telemetry, shutdownFuncs, handler >>
        /\ open' = open \ {"store"} /\ failures \subseteq failures'
    BY <1>8 DEF StoreClose, Return
  <2> QED
    BY <2>1, TelemetryUntouched
<1>9. CASE OtelShutdown
  BY <1>9, ShutdownKeeps DEF OtelShutdown, Return
<1>10. CASE Exit
  <2>1. /\ pc = "return" /\ UNCHANGED << shutdownFuncs, handler, failures, open >>
    BY <1>10 DEF Exit
  <2>2. PICK xs \in SUBSET {ErrorLog} : Record(xs)
    BY <1>10 DEF Exit
  <2>3. xs \in SUBSET Events
    BY EventsAreApart
  <2>4. /\ telemetry' \in [Events -> {"none", "held", "exported", "dropped", "lost"}]
        /\ HeldInv'
        /\ \A x \in Events : x \notin xs => telemetry'[x] = telemetry[x]
    BY <2>1, <2>2, <2>3, RecordKeepsHeld
  <2> QED
    BY <2>1, <2>2, <2>4, EventsAreApart DEF TelemetryInv, CountInv, FlushLogInv
<1>11. ASSUME NEW h \in Handlers, Connect(h) \/ ExportReturns(h) PROVE TelemetryInv'
  <2>1. PICK s \in {"connected", "returned"} : handler' = [handler EXCEPT ![h] = s]
    BY <1>11 DEF Connect, ExportReturns
  <2>2. pc # "killed" /\ UNCHANGED << telemetry, shutdownFuncs, open, failures >>
    BY <1>11 DEF Connect, ExportReturns, Running, ProcessRuns
  <2>3. \A g \in Handlers : handler'[g] \in {"running", "enqueued"} => handler'[g] = handler[g]
    BY <2>1 DEF ControlInv, ServerTypes
  <2> QED
    BY <2>2, <2>3, TelemetryUntouched
<1>12. ASSUME NEW h \in Handlers, Export(h) PROVE TelemetryInv'
  <2>1. /\ pc # "killed" /\ Record({Counted(h)})
        /\ handler' = [handler EXCEPT ![h] = "running"]
        /\ UNCHANGED << pc, shutdownFuncs, open, failures >>
    BY <1>12 DEF Export, ProcessRuns
  <2>2. {Counted(h)} \in SUBSET Events
    BY EventsAreApart
  <2>3. /\ telemetry' \in [Events -> {"none", "held", "exported", "dropped", "lost"}]
        /\ HeldInv'
        /\ \A x \in Events : x # Counted(h) => telemetry'[x] = telemetry[x]
        /\ "meter" \in open => telemetry'[Counted(h)] = "held"
    BY <2>1, <2>2, RecordKeepsHeld, EventsAreApart
  <2>4. FlushLogInv'
    BY <2>1, <2>3, EventsAreApart DEF FlushLogInv, TelemetryInv
  <2>5. ASSUME NEW g \in Handlers,
               handler'[g] = "enqueued" \/ (handler'[g] = "running" /\ "queue" \in open')
        PROVE  telemetry'[Counted(g)] \notin {"none", "lost"}
    <3>1. CASE g = h
      <4>1. "queue" \in open
        BY <2>1, <2>5, <3>1 DEF ControlInv, ServerTypes
      <4>2. "meter" \in open
        BY <2>1, <4>1, ProvidersAreOpen
      <4> QED
        BY <2>3, <3>1, <4>2
    <3>2. CASE g # h
      <4>1. Counted(g) # Counted(h) /\ Counted(g) \in Events
        BY <3>2, EventsAreApart DEF Counted
      <4>2. handler'[g] = handler[g]
        BY <2>1, <3>2 DEF ControlInv, ServerTypes
      <4> QED
        BY <2>1, <2>3, <2>5, <4>1, <4>2 DEF TelemetryInv, CountInv
    <3> QED
      BY <3>1, <3>2
  <2> QED
    BY <2>3, <2>4, <2>5 DEF TelemetryInv, CountInv
<1>13. ASSUME NEW h \in Handlers, ExportEnqueued(h) PROVE TelemetryInv'
  <2>1. /\ pc # "killed" /\ handler[h] = "running" /\ "queue" \in open
        /\ handler' = [handler EXCEPT ![h] = "enqueued"]
        /\ UNCHANGED << pc, telemetry, shutdownFuncs, open, failures >>
    BY <1>13 DEF ExportEnqueued, Running, ProcessRuns
  <2>2. \A g \in Handlers : g # h => handler'[g] = handler[g]
    BY <2>1 DEF ControlInv, ServerTypes
  <2>3. CountInv'
    BY <2>1, <2>2 DEF CountInv, TelemetryInv
  <2> QED
    BY <2>1, <2>3 DEF TelemetryInv, HeldInv, FlushLogInv
<1>14. ASSUME Killed \/ \E h \in Handlers : ExportPanics(h) PROVE TelemetryInv'
  <2>1. pc' = "killed" /\ UNCHANGED telemetry
    BY <1>14 DEF Killed, ExportPanics
  <2> QED
    BY <2>1 DEF TelemetryInv, HeldInv, CountInv, FlushLogInv
<1>15. ASSUME NEW p \in Range(Providers), ExportTelemetry(p) \/ ExportTelemetryFails(p)
       PROVE  TelemetryInv'
  <2>1. /\ pc # "killed" /\ UNCHANGED << pc, shutdownFuncs, open, handler, failures >>
        /\ Settle({p}, "exported") \/ Settle({p} \ {"meter"}, "dropped")
    BY <1>15 DEF ExportTelemetry, ExportTelemetryFails, ProcessRuns
  <2>2. /\ telemetry' \in [Events -> {"none", "held", "exported", "dropped", "lost"}]
        /\ \A x \in Events :
              /\ telemetry'[x] = "held" => telemetry[x] = "held"
              /\ telemetry'[x] \in {"none", "lost"} => telemetry'[x] = telemetry[x]
    BY <2>1, SettleKeeps
  <2> QED
    BY <2>1, <2>2, SettledKeepsCounts DEF TelemetryInv, HeldInv
<1> QED
  BY <1>1, <1>2, <1>3, <1>4, <1>5, <1>6, <1>7, <1>8, <1>9, <1>10, <1>11, <1>12, <1>13,
     <1>14, <1>15 DEF Next, Run

-----------------------------------------------------------------------------
\* At every statement of run, the stack of deferred calls, what is open, run's error and
\* what has been recorded agree (server.go:49-120, otel.go:25-87).
THEOREM ServerInvariant == Spec => []ServerInv
<1>1. Init => ServerInv
  <2> SUFFICES ASSUME Init PROVE ServerInv
    OBVIOUS
  <2>1. ControlInv
    BY Stacks DEF Init, ControlInv, ServerTypes, DeferredInv, HandlersInv, OpenInv, ErrorInv,
       StoreOutlivesIngester
  <2>2. TelemetryInv
    BY EventsAreApart DEF Init, TelemetryInv, HeldInv, CountInv, FlushLogInv
  <2> QED
    BY <2>1, <2>2 DEF ServerInv
<1>2. ServerInv /\ [Next]_vars => ServerInv'
  BY ControlInvStep, TelemetryInvStep DEF ServerInv
<1> QED
  BY <1>1, <1>2, PTL DEF Spec

\* While the ingester may still flush, its connection is open (server.go:83).
THEOREM StoreStaysOpen == Spec => []StoreOutlivesIngester
<1>1. ServerInv => StoreOutlivesIngester
  BY DEF ServerInv, ControlInv
<1> QED
  BY <1>1, ServerInvariant, PTL

\* However run returns, all it acquired is released, but for the connection that a
\* failed CreateTables leaves behind (server.go:64, 75-85).
THEOREM NothingIsLeaked == Spec => []NothingLeaks
<1>1. ServerInv => NothingLeaks
  <2> SUFFICES ASSUME ControlInv, pc = "exited"
               PROVE  open = IF "tables" \in failures THEN {"store"} ELSE {}
    BY DEF NothingLeaks, ServerInv
  <2>1. deferred = << >> /\ shutdownFuncs = << >>
    BY DEF ControlInv, DeferredInv
  <2> QED
    BY <2>1, Stacks DEF ControlInv, OpenInv
<1> QED
  BY <1>1, ServerInvariant, PTL

\* run's error is all that failed, in its steps and in its cleanup (server.go:66, 84, 85).
THEOREM AllErrorsAreReported == Spec => []ErrorsAreReported
<1>1. ServerInv => ErrorsAreReported
  BY DEF ServerInv, ControlInv, ErrorInv, ErrorsAreReported
<1> QED
  BY <1>1, ServerInvariant, PTL

\* When run has returned, nothing waits in a provider whose shutdown did not fail, and the
\* failure of the last flush and every request that was enqueued have been recorded
\* before the shutdown (server.go:63-85, metrics_service.go:23-29).
THEOREM AllTelemetryIsExported == Spec => []TelemetryIsExported
<1>1. ServerInv => TelemetryIsExported
  <2> SUFFICES ASSUME ControlInv, TelemetryInv, pc = "exited"
               PROVE  TelemetryIsExported
    BY DEF TelemetryIsExported, ServerInv
  <2>1. Range(shutdownFuncs) = {}
    BY Stacks DEF ControlInv, DeferredInv
  <2>2. \A x \in Events : telemetry[x] = "held" => x[1] \in failures
    BY <2>1 DEF TelemetryInv, HeldInv
  <2>3. telemetry[FlushLog] # "lost"
    BY DEF TelemetryInv, FlushLogInv
  <2>4. \A h \in Handlers :
           handler[h] = "enqueued" => telemetry[Counted(h)] \notin {"none", "lost"}
    BY DEF TelemetryInv, CountInv
  <2> QED
    BY <2>2, <2>3, <2>4 DEF TelemetryIsExported
<1> QED
  BY <1>1, ServerInvariant, PTL
=============================================================================
