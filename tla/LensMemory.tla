----------------------------- MODULE LensMemory -----------------------------
(***************************************************************************)
(* The "Memory View" of ResLens: the disk charts, each with a fetch of its *)
(* own, the storage engine panel, and the P99 gauge inside that panel.     *)
(* The page unmounts when the mode turns offline, because the dashboard    *)
(* then moves to the CPU tab, but it may be opened again in offline mode.  *)
(***************************************************************************)
EXTENDS Naturals, FiniteSets

CONSTANTS
    Charts,      \* I/O time, R/W data, IOPS, wait time
    MaxReqs      \* bound: requests of one kind in flight

LensMemoryAssumption == MaxReqs \in Nat \ {0}

VARIABLES
    mode, open,   \* the mode; the memory tab is the active one
    chart,        \* [Charts -> "empty" | "sample" | "live"]
    chartReqs,    \* [Charts -> Nat]: fetches in flight
    store,        \* StorageEngineMetrics: mounted, loading, error, data
    storeReqs,    \* its fetches in flight
    gauge,        \* CacheHitGauge: isCalculating and whether p99Value is set
    tests,        \* P99 tests in flight for the gauge on screen
    orphans       \* P99 tests in flight whose gauge was unmounted

vars == <<mode, open, chart, chartReqs, store, storeReqs, gauge, tests, orphans>>

NoStore == [on |-> FALSE, loading |-> FALSE, error |-> FALSE, data |-> FALSE]
NewGauge == [calc |-> FALSE, value |-> FALSE]
NoCharts == chart' = [c \in Charts |-> "empty"] /\ chartReqs' = [c \in Charts |-> 0]

Init ==
    /\ mode = "offline" /\ open = FALSE
    /\ chart = [c \in Charts |-> "empty"] /\ chartReqs = [c \in Charts |-> 0]
    /\ store = NoStore /\ storeReqs = 0
    /\ gauge = NewGauge /\ tests = 0 /\ orphans = 0

\* The gauge is mounted while the panel is not loading; an unmounted gauge
\* loses its state and its running test goes on in the middleware.
dropGauge == gauge' = NewGauge /\ tests' = 0 /\ orphans' = orphans + tests

\* The four fetches of MemoryMetricsGrid, at mount and when the mode changes.
fetchCharts(m, reqs) ==
    IF m = "offline" THEN chart' = [c \in Charts |-> "sample"] /\ chartReqs' = reqs
    ELSE /\ \A c \in Charts : reqs[c] < MaxReqs
         /\ chartReqs' = [c \in Charts |-> reqs[c] + 1]

\* fetchTransactionData: the panel loads, so the gauge is unmounted.
fetchTransactionData(s, n) ==
    /\ n < MaxReqs
    /\ store' = [s EXCEPT !.on = TRUE, !.loading = TRUE]
    /\ storeReqs' = n + 1

\* The page without the storage panel.
unmountStore == store' = NoStore /\ storeReqs' = 0

-----------------------------------------------------------------------------
\* The memory tab is opened: MemoryTrackerPage mounts.
openPage ==
    /\ ~open
    /\ open' = TRUE
    /\ fetchCharts(mode, [c \in Charts |-> 0])
    /\ IF mode = "live"
       THEN fetchTransactionData(NoStore, 0) /\ UNCHANGED chart
       ELSE unmountStore
    /\ dropGauge
    /\ UNCHANGED mode

leavePage ==
    /\ open
    /\ open' = FALSE
    /\ NoCharts /\ unmountStore /\ dropGauge
    /\ UNCHANGED mode

\* The mode becomes live; an open page mounts the storage panel.
goLive ==
    /\ mode = "offline"
    /\ mode' = "live"
    /\ IF open
       THEN fetchCharts("live", chartReqs) /\ fetchTransactionData(NoStore, 0)
       ELSE UNCHANGED <<chartReqs, store, storeReqs>>
    /\ UNCHANGED <<open, chart, gauge, tests, orphans>>

\* The mode becomes offline; the dashboard moves to the CPU tab.
goOffline ==
    /\ mode = "live"
    /\ mode' = "offline" /\ open' = FALSE
    /\ NoCharts /\ unmountStore /\ dropGauge

-----------------------------------------------------------------------------
onCharts == UNCHANGED <<mode, open, store, storeReqs, gauge, tests, orphans>>

\* onRefresh of one chart.
refreshChart(c) ==
    /\ open
    /\ IF mode = "offline"
       THEN chart' = [chart EXCEPT ![c] = "sample"] /\ UNCHANGED chartReqs
       ELSE /\ chartReqs[c] < MaxReqs
            /\ chartReqs' = [chartReqs EXCEPT ![c] = @ + 1]
            /\ UNCHANGED chart
    /\ onCharts

\* Its fetch is answered, or fails: an error is logged and the chart stays.
chartAnswer(c) ==
    /\ chartReqs[c] > 0
    /\ chartReqs' = [chartReqs EXCEPT ![c] = @ - 1]
    /\ chart' \in {chart, [chart EXCEPT ![c] = "live"]}
    /\ onCharts

onStore == UNCHANGED <<mode, open, chart, chartReqs>>

refreshStore ==
    /\ store.on
    /\ fetchTransactionData(store, storeReqs)
    /\ dropGauge
    /\ onStore

storeAnswer ==
    /\ storeReqs > 0
    /\ storeReqs' = storeReqs - 1
    /\ store' \in {[store EXCEPT !.loading = FALSE, !.data = TRUE],
                   [store EXCEPT !.loading = FALSE, !.error = TRUE]}
    /\ UNCHANGED <<gauge, tests, orphans>>
    /\ onStore

onGauge == UNCHANGED <<mode, open, chart, chartReqs, store, storeReqs>>
GaugeOnScreen == store.on /\ ~store.loading

\* "GO" or "Recalculate": neither is offered while a test runs.
calculateP99 ==
    /\ GaugeOnScreen /\ ~gauge.calc /\ orphans < MaxReqs
    /\ gauge' = [calc |-> TRUE, value |-> FALSE]
    /\ tests' = tests + 1
    /\ UNCHANGED orphans
    /\ onGauge

p99Answer ==
    /\ tests > 0
    /\ tests' = tests - 1
    /\ gauge' \in {[calc |-> FALSE, value |-> TRUE], [gauge EXCEPT !.calc = FALSE]}
    /\ UNCHANGED orphans
    /\ onGauge

\* A test of a gauge that is gone ends; nobody sees its result.
orphanEnds ==
    /\ orphans > 0
    /\ orphans' = orphans - 1
    /\ UNCHANGED <<gauge, tests>>
    /\ onGauge

-----------------------------------------------------------------------------
Next ==
    \/ openPage \/ leavePage \/ goLive \/ goOffline
    \/ \E c \in Charts : refreshChart(c) \/ chartAnswer(c)
    \/ refreshStore \/ storeAnswer \/ calculateP99 \/ p99Answer \/ orphanEnds

Spec == Init /\ [][Next]_vars

-----------------------------------------------------------------------------
(* Properties *)

\* Types; the storage panel is mounted exactly on the open page in live mode.
TypeOK ==
    /\ mode \in {"offline", "live"} /\ open \in BOOLEAN
    /\ chart \in [Charts -> {"empty", "sample", "live"}]
    /\ chartReqs \in [Charts -> 0 .. MaxReqs]
    /\ store \in [on : BOOLEAN, loading : BOOLEAN, error : BOOLEAN, data : BOOLEAN]
    /\ store.on <=> (open /\ mode = "live")
    /\ storeReqs \in 0 .. MaxReqs
    /\ gauge \in [calc : BOOLEAN, value : BOOLEAN]
    /\ tests \in Nat /\ orphans \in 0 .. MaxReqs

\* In offline mode every chart shows its sample data, also when live fetches
\* were in flight as the mode changed: no answer of theirs can arrive on the
\* page that shows the samples (memoryMetricsGrid.tsx:132-141, dashboard.tsx:117-121).
OfflineCharts == open /\ mode = "offline" => \A c \in Charts : chart[c] = "sample"

\* The gauge has one running test exactly while it is calculating, and never two
\* (storageEngineMetrics.tsx:96-114, 125-165).
OneTest == tests = IF gauge.calc THEN 1 ELSE 0

=============================================================================
