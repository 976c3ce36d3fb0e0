------------------------------- MODULE LensCpu -------------------------------
(***************************************************************************)
(* The ResLens dashboard and its "Execution View": the mode (offline or    *)
(* live), the tab, the CPU line graph and the flamegraph.  The two graphs  *)
(* fetch on their own and share only the mode and the date range that a    *)
(* zoom of the line graph hands to the flamegraph.                         *)
(*                                                                         *)
(* One action is one event with the React effects it triggers.  Answers    *)
(* of the middleware come in any order; no fetch is ever cancelled.  An    *)
(* answer for an unmounted component changes nothing, so unmounting drops  *)
(* the pending requests.                                                   *)
(***************************************************************************)
EXTENDS Naturals, Sequences, SequencesExt

CONSTANTS Clients, FirstClient,      \* clientName and its initial value
          Intervals, FirstInterval,  \* flamegraphInterval
          Hours,                     \* hour of the line graph, initially 1
          MaxReqs                    \* bound: requests of a graph in flight

LensCpuAssumption ==
    /\ FirstClient \in Clients /\ FirstInterval \in Intervals
    /\ 1 \in Hours /\ Hours \subseteq Nat \ {0}
    /\ MaxReqs \in Nat \ {0}

VARIABLES
    mode,       \* mode of DashboardComponent
    health,     \* the health check has not been answered
    tab,        \* activeTab: the CPU page or another one
    date,       \* date of CpuPage: Unset, a zoomed range, or Out
    line,       \* state of CpuLineGraphFunc
    lineReqs,   \* the hours it has asked for and not been answered
    flame,      \* state of Flamegraph
    flameReqs,  \* the queries it has not been answered
    late        \* history: a pending answer is older than what was shown last

vars == <<mode, health, tab, date, line, lineReqs, flame, flameReqs, late>>

\* The points of the line graph for the last h hours, and what a zoom selects.
Labels(h) == 1 .. (h + 1)
AllLabels == UNION {Labels(h) : h \in Hours}
Ranges == {r \in AllLabels \X AllLabels : r[1] < r[2]}
Unset == <<0, 0>>    \* no range: {from: 0, until: 0}, or the whole line graph
Out == <<1, 0>>      \* {from: "now-5m", until: "now"}, the date after zoomOut
Dates == {Unset, Out} \cup Ranges

\* What Flamegraph asks for: the props' range when there is one, else the interval.
Query(f, d) == [client |-> f.client, range |-> d,
                interval |-> IF d = Unset THEN f.interval ELSE "none"]
Queries == [client : Clients, range : Dates, interval : Intervals \cup {"none"}]
Sample == [client |-> "none", range |-> Unset, interval |-> "none"]  \* ProfileData1

NoLine == [on |-> FALSE, loading |-> FALSE, error |-> FALSE, data |-> 0,
           hour |-> 1, view |-> Unset, left |-> 0, right |-> 0]
NewLine == [NoLine EXCEPT !.on = TRUE, !.loading = TRUE]
NewFlame == [client |-> FirstClient, interval |-> FirstInterval,
             data |-> Sample, error |-> FALSE, loading |-> FALSE]

Init ==
    /\ mode = "offline" /\ health = TRUE /\ tab = "cpu" /\ date = Unset
    /\ line = NoLine /\ lineReqs = <<>>
    /\ flame = NewFlame /\ flameReqs = <<>>
    /\ late = FALSE

-----------------------------------------------------------------------------
(* The effects *)

\* The effect of Flamegraph on [clientName, refresh, from, until, mode, interval].
flamegraphEffect(f, pending, m, d) ==
    IF m = "offline"
    THEN /\ flame' = [f EXCEPT !.data = Sample]
         /\ flameReqs' = pending
         /\ late' = (pending # <<>>)
    ELSE /\ Len(pending) < MaxReqs
         /\ flame' = [f EXCEPT !.loading = TRUE]
         /\ flameReqs' = Append(pending, Query(f, d))
         /\ late' = (late /\ pending # <<>>)

\* The effect of CpuLineGraphFunc on [refresh, hour, mode]; it is mounted only
\* in live mode, so its offline branch is never taken.
lineGraphEffect(l, pending) ==
    /\ Len(pending) < MaxReqs
    /\ line' = l
    /\ lineReqs' = Append(pending, l.hour)

\* The page without the line graph (cpuCard.tsx renders it in live mode only).
unmountLine == line' = NoLine /\ lineReqs' = <<>>

\* CpuPage as it mounts in mode m.
mountCpuPage(m) ==
    /\ date' = Unset
    /\ flamegraphEffect(NewFlame, <<>>, m, Unset)
    /\ IF m = "live" THEN lineGraphEffect(NewLine, <<>>) ELSE unmountLine

-----------------------------------------------------------------------------
(* DashboardComponent *)

\* setMode and the effects that depend on the mode.
setMode(m) ==
    /\ mode' = m
    /\ tab' = IF m = "offline" /\ m # mode THEN "cpu" ELSE tab
    /\ IF m = mode \/ (tab # "cpu" /\ m = "live")
       THEN UNCHANGED <<date, line, lineReqs, flame, flameReqs, late>>
       ELSE IF tab # "cpu" THEN mountCpuPage(m)
       ELSE /\ flamegraphEffect(flame, flameReqs, m, date)
            /\ IF m = "live" THEN lineGraphEffect(NewLine, <<>>) ELSE unmountLine
            /\ UNCHANGED date

\* getMode: the health check is answered with 200, or not.
getMode(m) ==
    /\ health
    /\ health' = FALSE
    /\ setMode(m)

\* An item of the ToggleState menu is clicked.
ToggleState(m) ==
    /\ setMode(m)
    /\ UNCHANGED health

\* A tab is chosen; the page of the tab that is left unmounts.
setActiveTab(t) ==
    /\ t # tab
    /\ tab' = t
    /\ IF t = "cpu" THEN mountCpuPage(mode)
       ELSE /\ unmountLine
            /\ flame' = NewFlame /\ flameReqs' = <<>> /\ date' = Unset /\ late' = FALSE
    /\ UNCHANGED <<mode, health>>

-----------------------------------------------------------------------------
(* Flamegraph *)

onFlame == UNCHANGED <<mode, health, tab, date, line, lineReqs>>

\* The controls other than "Refresh" are hidden by an error.
handleClientNameChange(c) ==
    /\ tab = "cpu" /\ ~flame.error /\ c # flame.client
    /\ flamegraphEffect([flame EXCEPT !.client = c], flameReqs, mode, date)
    /\ onFlame

handleFlamegraphIntervalChange(v) ==
    /\ tab = "cpu" /\ ~flame.error /\ v # flame.interval
    /\ flamegraphEffect([flame EXCEPT !.interval = v], flameReqs, mode, date)
    /\ onFlame

refreshFlamegraph ==
    /\ tab = "cpu"
    /\ flamegraphEffect(flame, flameReqs, mode, date)
    /\ onFlame

\* The i-th pending request is answered with a profile.
profileFetched(i) ==
    /\ flame' = [flame EXCEPT !.data = flameReqs[i], !.loading = FALSE]
    /\ flameReqs' = RemoveAt(flameReqs, i)
    /\ late' = (late \/ i > 1)
    /\ onFlame

\* It is answered with an error, or fails.  Nothing ever clears the error.
profileFails(i) ==
    /\ flame' = [flame EXCEPT !.error = TRUE, !.loading = FALSE]
    /\ flameReqs' = RemoveAt(flameReqs, i)
    /\ onFlame
    /\ UNCHANGED late

-----------------------------------------------------------------------------
(* CpuLineGraphFunc.  While it loads it shows no controls. *)

onLine == UNCHANGED <<mode, health, tab, date, flame, flameReqs, late>>

setHour(h) ==
    /\ line.on /\ ~line.loading /\ h # line.hour
    /\ lineGraphEffect([line EXCEPT !.hour = h], lineReqs)
    /\ onLine

refreshLineGraph ==
    /\ line.on /\ ~line.loading
    /\ lineGraphEffect(line, lineReqs)
    /\ onLine

usageFetched(i) ==
    /\ line' = [line EXCEPT !.data = lineReqs[i], !.view = Unset, !.loading = FALSE]
    /\ lineReqs' = RemoveAt(lineReqs, i)
    /\ onLine

\* The answer is empty or an error, or the request fails.
usageFails(i) ==
    /\ line' = [line EXCEPT !.error = TRUE, !.loading = FALSE]
    /\ lineReqs' = RemoveAt(lineReqs, i)
    /\ onLine

Drawn == line.on /\ ~line.loading /\ ~line.error

onMouseDown(p) ==
    /\ Drawn /\ p \in Labels(line.data)
    /\ line' = [line EXCEPT !.left = p]
    /\ UNCHANGED lineReqs
    /\ onLine

onMouseMove(p) ==
    /\ Drawn /\ p \in Labels(line.data) /\ line.left # 0
    /\ line' = [line EXCEPT !.right = p]
    /\ UNCHANGED lineReqs
    /\ onLine

\* setDate(d) and the flamegraph's effect when the date differs.
setDate(d) ==
    /\ date' = d
    /\ IF d = date THEN UNCHANGED <<flame, flameReqs, late>>
       ELSE flamegraphEffect(flame, flameReqs, mode, d)

\* onMouseUp: a drag between two points zooms, any other is forgotten.
zoom ==
    LET l == line.left
        r == line.right
        range == IF l < r THEN <<l, r>> ELSE <<r, l>>
        released == [line EXCEPT !.left = 0, !.right = 0]
    IN  /\ Drawn
        /\ IF l = 0 \/ r = 0 \/ l = r
           THEN line' = released /\ UNCHANGED <<date, flame, flameReqs, late>>
           ELSE line' = [released EXCEPT !.view = range] /\ setDate(range)
        /\ UNCHANGED <<mode, health, tab, lineReqs>>

zoomOut ==
    /\ Drawn
    /\ line' = [line EXCEPT !.view = Unset, !.left = 0, !.right = 0]
    /\ setDate(Out)
    /\ UNCHANGED <<mode, health, tab, lineReqs>>

-----------------------------------------------------------------------------
flameAnswer == \E i \in DOMAIN flameReqs : profileFetched(i) \/ profileFails(i)
lineAnswer == \E i \in DOMAIN lineReqs : usageFetched(i) \/ usageFails(i)

Next ==
    \/ \E m \in {"offline", "live"} : getMode(m) \/ ToggleState(m)
    \/ \E t \in {"cpu", "other"} : setActiveTab(t)
    \/ \E c \in Clients : handleClientNameChange(c)
    \/ \E v \in Intervals : handleFlamegraphIntervalChange(v)
    \/ refreshFlamegraph \/ refreshLineGraph \/ zoom \/ zoomOut
    \/ \E h \in Hours : setHour(h)
    \/ \E p \in AllLabels : onMouseDown(p) \/ onMouseMove(p)
    \/ flameAnswer \/ lineAnswer

Spec == Init /\ [][Next]_vars

-----------------------------------------------------------------------------
(* Properties *)

\* Types; the line graph is mounted exactly on the CPU page in live mode.
TypeOK ==
    /\ mode \in {"offline", "live"} /\ tab \in {"cpu", "other"}
    /\ health \in BOOLEAN /\ late \in BOOLEAN /\ date \in Dates
    /\ line \in [on : BOOLEAN, loading : BOOLEAN, error : BOOLEAN,
                 data : Hours \cup {0}, hour : Hours, view : {Unset} \cup Ranges,
                 left : AllLabels \cup {0}, right : AllLabels \cup {0}]
    /\ line.on <=> (tab = "cpu" /\ mode = "live")
    /\ lineReqs \in BoundedSeq(Hours, MaxReqs)
    /\ flame \in [client : Clients, interval : Intervals,
                  data : {Sample} \cup Queries, error : BOOLEAN, loading : BOOLEAN]
    /\ \A i \in DOMAIN flameReqs : flameReqs[i] \in Queries

\* Once every request is answered, and unless an older answer came last, the
\* flamegraph shows the client and range that are selected, whichever of the
\* two graphs, the mode menu or the tabs the last change came from
\* (flamegraph.tsx:159-213).
FlameShowsSelection ==
    tab = "cpu" /\ flameReqs = <<>> /\ ~late /\ ~flame.error
        => flame.data = IF mode = "offline" THEN Sample ELSE Query(flame, date)

\* While the line graph shows a zoomed range, the flamegraph is asked for that
\* same range (lineGraph.tsx:219-247).
ZoomedTogether == line.on /\ line.view # Unset => date = line.view

\* The chart, with its "Zoom Out" button that reads data[0], is only drawn when
\* there is data (lineGraph.tsx:249-263).
ChartHasData == Drawn => line.data # 0

=============================================================================
