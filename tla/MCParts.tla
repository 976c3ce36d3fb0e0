------------------------------ MODULE MCParts -------------------------------
(***************************************************************************)
(* The safety of the parts around the consensus: the link between two      *)
(* replicas, the path of transactions, the node cache, the history of      *)
(* ResLens (this module extends HistorySync, whose names have no prefix),  *)
(* the sites, contract deployment, the pages of ResVault and of ResLens,   *)
(* ResilientDB Orbit.  The modules LinkPart to VaultPart name the state,   *)
(* the constants and the property of the parts with proofs.  The parts     *)
(* share no state, so what holds of each alone holds of all together: a    *)
(* behaviour takes the steps of one of them, its subject.                  *)
(***************************************************************************)
EXTENDS HistorySync, LinkPart, FlowPart, CachePart, SitePart, DeployPart,
        VaultPart

VARIABLES
    subject,
    keys_stored, store, localPassword, localIndex, keyPairs, selected,
    publicKey, owner, authenticated, storedPassword, page, calls, generated,
    kept, keys_overlapped,
    nets_stored, activeNetUrl, serviceMode, open, nets, nets_selectedNet,
    completeUrl, customUrl, protocol, effects, edited,
    mode, health, tab, date, line, lineReqs, flame, flameReqs, late,
    config, total, pageIndex, pageSize, blocks_loading, data, reqs,
    blocks_late, shrunk,
    memory_mode, memory_open, chart, chartReqs, memory_store, storeReqs,
    gauge, tests, orphans,
    orbit_loading, badge, started, orbit_calls, orbit_step, results,
    container, running, boot, partial,
    count, toasts, toastTimeouts, listeners, toast_shown, changed,
    toast_waiting, missed,
    delta_data

linkVars == <<pushed, queue, in_process, caller, link_chain, pending, status,
              idx, conns, session, received>>
flowVars == <<txns, view, slot, step, hand, tries, flow_pending, log,
              committed, disordered, numbered, seq, execute_q, executed, replaced>>
cacheVars == <<cache_chain, stored, current, scan, cache_phase, periodic, ws,
               closeOnOpen, timer, isClosing, cache_failures, restarts, clean,
               interrupted>>
siteVars == <<connected, isAuthenticated, loading, site_stored, timers,
              loginModal, txModal, checks, requests, posts, sessionBy, shown,
              asked, crossed, twice, dropped>>
deployVars == <<file, deploy_connected, waiting, pc, source, loaded, accounts,
                compiled, temps, registry, deployed, deploy_executed, mixed,
                deploy_overlapped, forgotten, deploy_replaced>>
keysVars == <<keys_stored, store, localPassword, localIndex, keyPairs,
              selected, publicKey, owner, authenticated, storedPassword, page,
              calls, generated, kept, keys_overlapped>>
sitesVars == <<local, connections, activeNet, domain, selectedNet,
               isConnected, storing, sites_calls, replies, gets, unstored,
               disturbed, keysChanged>>
netsVars == <<nets_stored, activeNetUrl, serviceMode, open, nets,
              nets_selectedNet, completeUrl, customUrl, protocol, effects,
              edited>>
cpuVars == <<mode, health, tab, date, line, lineReqs, flame, flameReqs, late>>
blocksVars == <<config, total, pageIndex, pageSize, blocks_loading, data,
                reqs, blocks_late, shrunk>>
memoryVars == <<memory_mode, memory_open, chart, chartReqs, memory_store,
                storeReqs, gauge, tests, orphans>>
orbitVars == <<orbit_loading, badge, started, orbit_calls,
               orbit_step, results, container, running, boot, partial>>
toastVars == <<count, toasts, toastTimeouts, listeners, toast_shown, changed,
               toast_waiting, missed>>
deltaVars == <<delta_data>>

\* Link: three messages of different sizes; one connection may break.
MCSize == <<1, 2, 1>>

\* Flow: two replicas that lead in turn; the warm-up lasts one view.
MCVRFLeader == <<1, 2, 1>>

\* Site has the Vue template; the React templates keep the session in another
\* way.
React == INSTANCE SiteApp WITH
    Template <- "react", stored <- site_stored

\* A file to upload that holds the first pair and, twice, one of another wallet.
Keys == INSTANCE ResVaultKeys WITH
    Passwords <- {"p", "q"}, Uploads <- {<<1, 101, 101>>}, MaxKeys <- 2,
    MaxCalls <- 2, stored <- keys_stored, overlapped <- keys_overlapped

\* Two names and one host of added nets: two URLs that differ in the protocol.
Nets == INSTANCE VaultNets WITH
    Name <- {"a", "b"}, Host <- {"u"}, MaxNets <- 2, MaxEffects <- 2,
    stored <- nets_stored, selectedNet <- nets_selectedNet

\* The flamegraph: two intervals, requests that overtake each other.
Flame == INSTANCE LensCpu WITH
    Clients <- {"cpp_client_1"}, FirstClient <- "cpp_client_1",
    Intervals <- {"now-5m", "now-30m"}, FirstInterval <- "now-5m",
    Hours <- {1}, MaxReqs <- 2

\* The line graph: two spans of hours and the ranges to zoom to in them.
Line == INSTANCE LensCpu WITH
    Clients <- {"cpp_client_1"}, FirstClient <- "cpp_client_1",
    Intervals <- {"now-5m"}, FirstInterval <- "now-5m", Hours <- {1, 2},
    MaxReqs <- 1

\* Two clients to choose from.
Picker == INSTANCE LensCpu WITH
    Clients <- {"cpp_client_1", "cpp_client_2"},
    FirstClient <- "cpp_client_1", Intervals <- {"now-5m"},
    FirstInterval <- "now-5m", Hours <- {1}, MaxReqs <- 1

\* Totals from one to nine blocks, on both sides of the default and of a page.
Blocks == INSTANCE LensBlocks WITH
    DefaultTotal <- 7, BlockNums <- {0, 1, 2, 4, 6, 9},
    PageSizes <- {1, 2, 3}, FirstSize <- 2, visiblePages <- 3, MaxReqs <- 3,
    loading <- blocks_loading, late <- blocks_late

\* Two charts; up to two fetches of each kind under way.
Memory == INSTANCE LensMemory WITH
    Charts <- {"IOPS", "RW"}, MaxReqs <- 2, mode <- memory_mode,
    open <- memory_open, store <- memory_store

\* Two of the five database units; two commands at a time.
Launcher == INSTANCE Orbit WITH
    DbServices <- <<"resilientdb-kv@1", "resilientdb-client">>, MaxCalls <- 2,
    loading <- orbit_loading, calls <- orbit_calls, step <- orbit_step

\* Two components and three toasts, of which two are kept.
Toast == INSTANCE Toasts WITH
    Components <- {"Toaster", "Flamegraph"}, TOAST_LIMIT <- 2, MaxToasts <- 3,
    shown <- toast_shown, waiting <- toast_waiting

\* Times and volumes that rise, stay and fall.
Delta == INSTANCE DeltaEncoding WITH
    TIME_MULTIPLIER <- 10, Seconds <- {1, 2, 5}, Volumes <- {0, 1, 3},
    MaxPoints <- 4, data <- delta_data

allVars == <<subject, vars, linkVars, flowVars, cacheVars, siteVars,
             deployVars, keysVars, sitesVars, netsVars, cpuVars, blocksVars,
             memoryVars, orbitVars, toastVars, deltaVars>>

ASSUME /\ Link!SenderAssumption /\ Flow!FlowAssumption
       /\ Cache!BoundsAssumption
       /\ Site!TemplateAssumption /\ React!TemplateAssumption
       /\ Deploy!JobsAssumption
       /\ Flame!LensCpuAssumption /\ Line!LensCpuAssumption
       /\ Picker!LensCpuAssumption
       /\ Blocks!LensBlocksAssumption /\ Memory!LensMemoryAssumption
       /\ Launcher!OrbitAssumption /\ Delta!DeltaAssumption
       /\ Toast!ToastsAssumption

\* What the initial states leave open matters only to the subject.
PartsInit ==
    /\ subject \in
        {"history", "link", "flow", "cache", "vue", "react", "deploy",
         "paths", "keys", "connections", "nets", "flame", "line",
         "picker", "blocks", "memory", "orbit", "toast", "delta"}
    /\ Init /\ Link!Init /\ Flow!Init /\ Cache!Init
    /\ Site!Init /\ Deploy!Init /\ Keys!Init /\ Vault!Init /\ Nets!Init
    /\ Flame!Init /\ Blocks!Init /\ Memory!Init /\ Launcher!Init
    /\ Toast!Init /\ Delta!Init
    /\ subject # "history" => chain = 0
    /\ subject # "cache" => cache_chain = 0
    /\ subject \notin {"vue", "react"} => ~connected
    /\ subject \notin {"deploy", "paths"} => ~deploy_connected
    /\ subject # "connections" => activeNet = "Mainnet"
    /\ subject # "orbit" => ~container

HistoryStep ==
    /\ subject = "history"
    /\ UNCHANGED <<linkVars, flowVars, cacheVars, siteVars, deployVars,
                   keysVars, sitesVars, netsVars, cpuVars, blocksVars,
                   memoryVars, orbitVars, toastVars, deltaVars>>
    /\ Next
LinkStep ==
    /\ subject = "link"
    /\ UNCHANGED <<vars, flowVars, cacheVars, siteVars, deployVars, keysVars,
                   sitesVars, netsVars, cpuVars, blocksVars, memoryVars,
                   orbitVars, toastVars, deltaVars>>
    /\ Link!Next
FlowStep ==
    /\ subject = "flow"
    /\ UNCHANGED <<vars, linkVars, cacheVars, siteVars, deployVars, keysVars,
                   sitesVars, netsVars, cpuVars, blocksVars, memoryVars,
                   orbitVars, toastVars, deltaVars>>
    /\ Flow!Next
CacheStep ==
    /\ subject = "cache"
    /\ UNCHANGED <<vars, linkVars, flowVars, siteVars, deployVars, keysVars,
                   sitesVars, netsVars, cpuVars, blocksVars, memoryVars,
                   orbitVars, toastVars, deltaVars>>
    /\ Cache!Next
SiteStep ==
    /\ subject \in {"vue", "react"}
    /\ UNCHANGED <<vars, linkVars, flowVars, cacheVars, deployVars, keysVars,
                   sitesVars, netsVars, cpuVars, blocksVars, memoryVars,
                   orbitVars, toastVars, deltaVars>>
    /\ \/ subject = "vue" /\ Site!Next
       \/ subject = "react" /\ React!Next
\* The jobs that start: one of the wallet and one of another client, or two
\* clients on one .sol path, whose compiled file and keys collide.
DeployStep ==
    /\ subject \in {"deploy", "paths"}
    /\ UNCHANGED <<vars, linkVars, flowVars, cacheVars, siteVars, keysVars,
                   sitesVars, netsVars, cpuVars, blocksVars, memoryVars,
                   orbitVars, toastVars, deltaVars>>
    /\ Deploy!Next
    /\ \A j \in IF subject = "deploy" THEN PathClient ELSE Wallet \cup DataClient :
        pc'[j] = "idle"
KeysStep ==
    /\ subject = "keys"
    /\ UNCHANGED <<vars, linkVars, flowVars, cacheVars, siteVars, deployVars,
                   sitesVars, netsVars, cpuVars, blocksVars, memoryVars,
                   orbitVars, toastVars, deltaVars>>
    /\ Keys!Next
SitesStep ==
    /\ subject = "connections"
    /\ UNCHANGED <<vars, linkVars, flowVars, cacheVars, siteVars, deployVars,
                   keysVars, netsVars, cpuVars, blocksVars, memoryVars,
                   orbitVars, toastVars, deltaVars>>
    /\ Vault!Next
NetsStep ==
    /\ subject = "nets"
    /\ UNCHANGED <<vars, linkVars, flowVars, cacheVars, siteVars, deployVars,
                   keysVars, sitesVars, cpuVars, blocksVars, memoryVars,
                   orbitVars, toastVars, deltaVars>>
    /\ Nets!Next
CpuStep ==
    /\ subject \in {"flame", "line", "picker"}
    /\ UNCHANGED <<vars, linkVars, flowVars, cacheVars, siteVars, deployVars,
                   keysVars, sitesVars, netsVars, blocksVars, memoryVars,
                   orbitVars, toastVars, deltaVars>>
    /\ \/ subject = "flame" /\ Flame!Next
       \/ subject = "line" /\ Line!Next
       \/ subject = "picker" /\ Picker!Next
BlocksStep ==
    /\ subject = "blocks"
    /\ UNCHANGED <<vars, linkVars, flowVars, cacheVars, siteVars, deployVars,
                   keysVars, sitesVars, netsVars, cpuVars, memoryVars,
                   orbitVars, toastVars, deltaVars>>
    /\ Blocks!Next
MemoryStep ==
    /\ subject = "memory"
    /\ UNCHANGED <<vars, linkVars, flowVars, cacheVars, siteVars, deployVars,
                   keysVars, sitesVars, netsVars, cpuVars, blocksVars,
                   orbitVars, toastVars, deltaVars>>
    /\ Memory!Next
OrbitStep ==
    /\ subject = "orbit"
    /\ UNCHANGED <<vars, linkVars, flowVars, cacheVars, siteVars, deployVars,
                   keysVars, sitesVars, netsVars, cpuVars, blocksVars,
                   memoryVars, toastVars, deltaVars>>
    /\ Launcher!Next
ToastStep ==
    /\ subject = "toast"
    /\ UNCHANGED <<vars, linkVars, flowVars, cacheVars, siteVars, deployVars,
                   keysVars, sitesVars, netsVars, cpuVars, blocksVars,
                   memoryVars, orbitVars, deltaVars>>
    /\ Toast!Next
DeltaStep ==
    /\ subject = "delta"
    /\ UNCHANGED <<vars, linkVars, flowVars, cacheVars, siteVars, deployVars,
                   keysVars, sitesVars, netsVars, cpuVars, blocksVars,
                   memoryVars, orbitVars, toastVars>>
    /\ Delta!AddPoint

PartsNext ==
    /\ UNCHANGED subject
    /\ \/ HistoryStep \/ LinkStep \/ FlowStep \/ CacheStep \/ SiteStep
       \/ DeployStep \/ KeysStep \/ SitesStep \/ NetsStep \/ CpuStep
       \/ BlocksStep \/ MemoryStep \/ OrbitStep \/ ToastStep \/ DeltaStep

PartsSpec == PartsInit /\ [][PartsNext]_allVars

-----------------------------------------------------------------------------
(* Properties; the modules of the parts explain the conjuncts.             *)
(* BlocksOnce is that of HistorySync; LinkSafe, OneSerialOrder, NoGap,     *)
(* SessionsHonest, DeploysSound and ConnectionsSafe are in the modules     *)
(* LinkPart to VaultPart.                                                  *)

\* The state of every part has its types, with what they relate (TypeOK of
\* the parts).
PartsTypeOK ==
    CASE subject = "link" -> Link!TypeOK
      [] subject = "flow" -> Flow!TypeOK
      [] subject = "cache" -> Cache!TypeOK
      [] subject \in {"vue", "react"} -> Site!TypeOK
      [] subject \in {"deploy", "paths"} -> Deploy!TypeOK
      [] subject = "keys" -> Keys!TypeOK
      [] subject = "connections" -> Vault!TypeOK
      [] subject = "nets" -> Nets!TypeOK
      [] subject = "flame" -> Flame!TypeOK
      [] subject = "line" -> Line!TypeOK
      [] subject = "picker" -> Picker!TypeOK
      [] subject = "blocks" -> Blocks!TypeOK
      [] subject = "memory" -> Memory!TypeOK
      [] subject = "orbit" -> Launcher!TypeOK
      [] subject = "toast" -> Toast!TypeOK
      [] OTHER -> TypeOK

\* Wherever callbacks overlap and the popup of ResVault is closed, it shows
\* the stored pairs, the stored index denotes one of them, the account stays
\* accessible and no pair is lost unless two changes overlapped.
KeysSafe ==
    /\ Keys!ContextIsStored /\ Keys!IndexInRange /\ Keys!CanLogin
    /\ Keys!NoKeyLost

\* Whoever gets into the wallet sees the selected pair, and the Contract page
\* clears its files for a deployment made from them only.
WalletSteps == Keys!EntersConsistent /\ Deploy!ClearedIsDeployed

\* The flamegraph shows the client and range that are selected, also those of
\* a zoomed line graph, which is drawn only with data; the table holds the
\* blocks of its page, which exists and is in the bar; the memory page shows
\* samples offline and runs one test per gauge; the chart decodes the series
\* that the middleware encoded; every component that the last dispatch reached
\* shows the current toasts; the badges of Orbit say what runs, unless a unit
\* failed or startup.sh ran into a command; the URL ResVault uses is one of the
\* net that is selected, or has the host that was typed.
PagesCurrent ==
    /\ subject = "flame" => Flame!FlameShowsSelection
    /\ subject = "picker" => Picker!FlameShowsSelection
    /\ subject = "line" => Line!ZoomedTogether /\ Line!ChartHasData
    /\ Blocks!PageShown /\ Blocks!PageHasBlocks /\ Blocks!BarHasPage
    /\ Memory!OfflineCharts /\ Memory!OneTest
    /\ Delta!RoundTrip
    /\ Toast!AllShowLatest
    /\ Nets!UrlIsOfNet /\ Nets!CustomUrlIsShown
    /\ Launcher!DbBadgeReal /\ Launcher!StoppedShowsStopped
=============================================================================
