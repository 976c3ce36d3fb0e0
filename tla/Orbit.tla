-------------------------------- MODULE Orbit --------------------------------
(***************************************************************************)
(* The Orbit launcher: the Svelte page with its three status badges and    *)
(* the Tauri commands it invokes, which run docker and systemctl.          *)
(*                                                                         *)
(* The commands are not async, so the runtime executes them one at a time, *)
(* in the order they were invoked.  Their results resolve promises of the  *)
(* page later, in the same order, and the user may click before they do.   *)
(* docker run -d returns before anything runs in the container: its        *)
(* startup.sh starts the units one by one, beside the commands.            *)
(***************************************************************************)
EXTENDS Naturals, Sequences

CONSTANTS
    DbServices,   \* the services of start_resilientdb, as a sequence
    MaxCalls      \* bound: invocations that have not been resolved

OrbitAssumption == MaxCalls \in Nat \ {0} /\ Len(DbServices) > 0

Db == {DbServices[i] : i \in DOMAIN DbServices}
Services == Db \cup {"crow-http", "graphql"}

\* The order of startup.sh: the client before the replicas.
StartupServices ==
    <<"crow-http", "graphql">> \o SelectSeq(DbServices, LAMBDA s : s = "resilientdb-client")
        \o SelectSeq(DbServices, LAMBDA s : s # "resilientdb-client")

VARIABLES
    loading,      \* the page shows only the spinner of the set-up
    badge,        \* resilientdbRunning, crowRunning, graphqlRunning
    started,      \* startTimestamp is set
    calls,        \* the invoked commands that have not run to their end
    step,         \* services the first of them has already gone through
    results,      \* [cmd, ok]: finished commands whose promise is pending
    container,    \* resilientdb-container is running
    running,      \* [Services -> BOOLEAN]: the units active in the container
    boot,         \* services startup.sh has gone through in the container
    partial       \* history: "starting" while startup.sh alone acts on the
                  \* database, "yes" once a command or startup.sh failed on a
                  \* unit of it or startup.sh acted after a command began
                  \* ("no": until then, and from the next command on)

vars == <<loading, badge, started, calls, step, results, container, running, boot, partial>>

page == <<loading, badge, started>>

Badges == {"resilientdb", "crow", "graphql"}
Commands == {"run_docker_container", "stop_docker_container", "start_resilientdb",
             "stop_resilientdb", "start_crow", "stop_crow", "start_graphql", "stop_graphql"}
AllBadges(b) == [x \in Badges |-> b]
AllServices(b) == [s \in Services |-> b]

\* onMount invokes run_docker_container; an earlier session's container may be
\* up, with any of its units stopped and startup.sh not at its end.
Init ==
    /\ loading = TRUE
    /\ badge = AllBadges(FALSE) /\ started = FALSE
    /\ calls = <<"run_docker_container">> /\ step = 0 /\ results = <<>>
    /\ container \in BOOLEAN
    /\ running \in IF container THEN [Services -> BOOLEAN] ELSE {AllServices(FALSE)}
    /\ boot \in IF container THEN 0 .. Len(StartupServices) ELSE {0}
    /\ partial = "no"

-----------------------------------------------------------------------------
(* The buttons; a badge shows "Start" when it is off and "Stop" when it is on *)

invoke(cmd) ==
    /\ ~loading
    /\ Len(calls) + Len(results) < MaxCalls
    /\ calls' = Append(calls, cmd)
    /\ UNCHANGED page /\ UNCHANGED <<step, results, container, running, boot, partial>>

handleStopAllServices == invoke("stop_docker_container")
ClickResilientDB == invoke(IF badge["resilientdb"] THEN "stop_resilientdb" ELSE "start_resilientdb")
ClickCrow == invoke(IF badge["crow"] THEN "stop_crow" ELSE "start_crow")
ClickGraphQL == invoke(IF badge["graphql"] THEN "stop_graphql" ELSE "start_graphql")

-----------------------------------------------------------------------------
(* The commands of main.rs *)

\* The services a command restarts or stops, one docker exec each, in order.
UnitsOf(cmd) ==
    CASE cmd \in {"start_resilientdb", "stop_resilientdb"} -> DbServices
      [] cmd \in {"start_crow", "stop_crow"} -> <<"crow-http">>
      [] cmd \in {"start_graphql", "stop_graphql"} -> <<"graphql">>
      [] OTHER -> <<>>

Starts(cmd) == cmd \in {"start_resilientdb", "start_crow", "start_graphql"}
OnDb(cmd) == cmd \in {"start_resilientdb", "stop_resilientdb"}

Finish(cmd, ok) ==
    /\ calls' = Tail(calls)
    /\ step' = 0
    /\ results' = Append(results, [cmd |-> cmd, ok |-> ok])

\* An existing container is removed; then docker run succeeds, or not.
run_docker_container ==
    /\ calls # <<>> /\ Head(calls) = "run_docker_container"
    /\ \E ok \in BOOLEAN :
          /\ Finish(Head(calls), ok)
          /\ container' = ok
          /\ partial' = IF ok THEN "starting" ELSE "no"
    /\ running' = AllServices(FALSE) /\ boot' = 0
    /\ UNCHANGED page

\* The image is missing and cannot be built: the command returns before it
\* touches the container.
imageBuildFails ==
    /\ calls # <<>> /\ Head(calls) = "run_docker_container"
    /\ Finish(Head(calls), FALSE)
    /\ partial' = "yes"
    /\ UNCHANGED page /\ UNCHANGED <<container, running, boot>>

stop_docker_container ==
    /\ calls # <<>> /\ Head(calls) = "stop_docker_container"
    /\ \E ok \in BOOLEAN :
          /\ Finish(Head(calls), ok)
          /\ container' = (container /\ ~ok)
          /\ running' = IF ok THEN AllServices(FALSE) ELSE running
          /\ partial' = IF ok THEN "no" ELSE partial
    /\ UNCHANGED page /\ UNCHANGED <<boot>>

\* One systemctl of the command at the head succeeds; the last one ends it.
execUnit ==
    /\ calls # <<>> /\ UnitsOf(Head(calls)) # <<>> /\ container
    /\ LET cmd == Head(calls)
           units == UnitsOf(cmd)
       IN  /\ running' = [running EXCEPT ![units[step + 1]] = Starts(cmd)]
           /\ partial' = IF OnDb(cmd) /\ step = 0 THEN "no" ELSE partial
           /\ IF step + 1 = Len(units)
              THEN Finish(cmd, TRUE)
              ELSE step' = step + 1 /\ UNCHANGED <<calls, results>>
    /\ UNCHANGED page /\ UNCHANGED <<container, boot>>

\* It fails, always so without a container; the units after it are left alone.
execUnitFails ==
    /\ calls # <<>> /\ UnitsOf(Head(calls)) # <<>>
    /\ LET cmd == Head(calls)
       IN  /\ Finish(cmd, FALSE)
           /\ running' \in {running} \cup
                 IF Starts(cmd) THEN {[running EXCEPT ![UnitsOf(cmd)[step + 1]] = FALSE]} ELSE {}
           /\ partial' = IF OnDb(cmd) /\ container THEN "yes" ELSE partial
    /\ UNCHANGED page /\ UNCHANGED <<container, boot>>

-----------------------------------------------------------------------------
(* The container boots *)

\* startup.sh, after its sleep, enables and starts the next service; a failure
\* does not stop it, and a service that already runs is left alone.
startup ==
    /\ container /\ boot < Len(StartupServices)
    /\ boot' = boot + 1
    /\ \E ok \in BOOLEAN :
          LET s == StartupServices[boot + 1]
          IN  /\ running' = [running EXCEPT ![s] = @ \/ ok]
              /\ partial' = IF partial = "starting" /\ ok
                            THEN IF boot' = Len(StartupServices) THEN "no" ELSE "starting"
                            ELSE IF s \in Db THEN "yes" ELSE partial
    /\ UNCHANGED page /\ UNCHANGED <<calls, step, results, container>>

-----------------------------------------------------------------------------
(* The page goes on after its await *)

\* The badges after the command has succeeded.
Shown(cmd) ==
    CASE cmd \in {"run_docker_container", "start_resilientdb"} -> AllBadges(TRUE)
      [] cmd \in {"stop_docker_container", "stop_resilientdb"} -> AllBadges(FALSE)
      [] cmd \in {"start_crow", "stop_crow"} -> [badge EXCEPT !["crow"] = Starts(cmd)]
      [] OTHER -> [badge EXCEPT !["graphql"] = Starts(cmd)]

\* The commands after which the page starts or resets the uptime clock.
SetsClock(cmd) == UnitsOf(cmd) \in {<<>>, DbServices}

\* A rejected promise leaves the badges alone; setupContainer's finally ends the spinner.
resolved ==
    /\ results # <<>>
    /\ LET r == Head(results)
       IN  /\ badge' = IF r.ok THEN Shown(r.cmd) ELSE badge
           /\ started' = IF r.ok /\ SetsClock(r.cmd) THEN badge'["resilientdb"] ELSE started
           /\ loading' = (loading /\ r.cmd # "run_docker_container")
    /\ results' = Tail(results)
    /\ UNCHANGED <<calls, step, container, running, boot, partial>>

-----------------------------------------------------------------------------
Runs == run_docker_container \/ imageBuildFails \/ stop_docker_container
            \/ execUnit \/ execUnitFails

Next == \/ handleStopAllServices \/ ClickResilientDB \/ ClickCrow \/ ClickGraphQL
        \/ Runs \/ startup \/ resolved

Spec == Init /\ [][Next]_vars

-----------------------------------------------------------------------------
(* Properties *)

Quiet == calls = <<>> /\ results = <<>>

\* Types; a unit runs only in a running container, and the uptime is counted
\* while ResilientDB is shown as running.
TypeOK ==
    /\ loading \in BOOLEAN /\ container \in BOOLEAN
    /\ boot \in 0 .. Len(StartupServices) /\ partial \in {"no", "starting", "yes"}
    /\ badge \in [Badges -> BOOLEAN]
    /\ started = badge["resilientdb"]
    /\ running \in [Services -> BOOLEAN]
    /\ Len(calls) + Len(results) <= MaxCalls
    /\ \A i \in DOMAIN calls : calls[i] \in Commands
    /\ \A i \in DOMAIN results : results[i].cmd \in Commands
    /\ step \in 0 .. Len(DbServices) - 1
    /\ (\E s \in Services : running[s]) => container

\* Once every click has been answered, the "Running" badge of ResilientDB means
\* that all its units run and "Stopped" that none does, however the clicks
\* overlapped: after startup.sh started them all, and after a command that did
\* not fail part-way and that startup.sh did not run into
\* (+page.svelte:82-94, 126-138, main.rs:120-168, startup.sh:28-35).
DbBadgeReal ==
    Quiet /\ partial = "no" => \A s \in Db : running[s] = badge["resilientdb"]

\* Nothing is shown as running once the container is stopped: a start that was
\* clicked meanwhile cannot turn a badge back on (+page.svelte:96-103).
StoppedShowsStopped == Quiet /\ ~container => badge = AllBadges(FALSE)

=============================================================================
