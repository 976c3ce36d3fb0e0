----------------------------- MODULE MCProgress -----------------------------
(***************************************************************************)
(* Progress of the parts, one at a time: the link between two replicas,    *)
(* the path of transactions, the node cache, the history of ResLens, a     *)
(* site, a deployment, toasts.  The parts share no state, so what holds of *)
(* each alone holds of all together; a behaviour takes the steps of one of *)
(* them, its subject, and only that one has to make progress.              *)
(***************************************************************************)
EXTENDS Naturals

VARIABLES
    subject,
    pushed, queue, in_process, caller, chain, pending, status, idx, conns,
    session, received,
    txns, view, slot, step, hand, tries, flow_pending, log, committed,
    disordered, numbered, seq, execute_q, executed, replaced,
    cache_chain, stored, current, scan, phase, periodic, ws, closeOnOpen,
    timer, isClosing, failures, restarts, clean, interrupted,
    history_chain, rows, sync, history_phase, history_failures, crashes,
    short, overlapped,
    connected, isAuthenticated, loading, site_stored, timers, loginModal,
    txModal, checks, requests, posts, sessionBy, shown, asked, crossed, twice,
    dropped,
    file, deploy_connected, waiting, pc, source, loaded, accounts, compiled,
    temps, registry, deployed, deploy_executed, mixed, deploy_overlapped,
    forgotten, deploy_replaced,
    count, toasts, toastTimeouts, listeners, toast_shown, changed,
    toast_waiting, missed

linkVars == <<pushed, queue, in_process, caller, chain, pending, status, idx,
              conns, session, received>>
flowVars == <<txns, view, slot, step, hand, tries, flow_pending, log,
              committed, disordered, numbered, seq, execute_q, executed, replaced>>
cacheVars == <<cache_chain, stored, current, scan, phase, periodic, ws,
               closeOnOpen, timer, isClosing, failures, restarts, clean,
               interrupted>>
historyVars == <<history_chain, rows, sync, history_phase, history_failures,
                 crashes, short, overlapped>>
siteVars == <<connected, isAuthenticated, loading, site_stored, timers,
              loginModal, txModal, checks, requests, posts, sessionBy, shown,
              asked, crossed, twice, dropped>>
deployVars == <<file, deploy_connected, waiting, pc, source, loaded, accounts,
                compiled, temps, registry, deployed, deploy_executed, mixed,
                deploy_overlapped, forgotten, deploy_replaced>>
toastVars == <<count, toasts, toastTimeouts, listeners, toast_shown, changed,
               toast_waiting, missed>>

\* Three messages; one connection may break.
Link == INSTANCE AsyncSender WITH
    Size <- <<1, 1, 1>>, HeaderSize <- 1, MaxConnections <- 2

\* Two replicas, two views, of which the first is the warm-up.
Flow == INSTANCE TxnFlow WITH
    Replica <- {1, 2}, MaxTxns <- 3, VRFLeader <- <<1, 2>>, total_num <- 1,
    batch_size <- 2, pending <- flow_pending

\* Two blocks in batches of one; scans overlap.
Cache == INSTANCE NodeCache WITH
    MaxBlock <- 2, batchSize <- 1, Workers <- 1, Scans <- {1, 2},
    MaxFailures <- 0, MaxRestarts <- 0, chain <- cache_chain

\* Two blocks in batches of one; a sync may fail, short answers and a crash.
History == INSTANCE HistorySync WITH
    MaxBlock <- 2, BATCH_SIZE <- 1, Syncs <- {1, 2}, MaxRows <- 3,
    MaxFailures <- 1, MaxCrashes <- 1, chain <- history_chain,
    phase <- history_phase, failures <- history_failures

\* Two requests, answers or timers under way: two logins, or one and a commit.
Site == INSTANCE SiteApp WITH
    Template <- "vue", MaxOut <- 2, stored <- site_stored

\* A job of the wallet.
Deploy == INSTANCE ContractDeploy WITH
    Wallet <- {"w"}, DataClient <- {}, PathClient <- {}, Source <- {"s"},
    None <- "none", connected <- deploy_connected,
    executed <- deploy_executed, overlapped <- deploy_overlapped,
    replaced <- deploy_replaced

\* Three toasts, of which two are kept.
Toast == INSTANCE Toasts WITH
    Components <- {"Toaster"}, TOAST_LIMIT <- 2, MaxToasts <- 3,
    shown <- toast_shown, waiting <- toast_waiting

allVars == <<subject, linkVars, flowVars, cacheVars, historyVars, siteVars,
             deployVars, toastVars>>

ASSUME /\ Link!SenderAssumption /\ Flow!FlowAssumption
       /\ Cache!BoundsAssumption /\ Site!TemplateAssumption
       /\ Deploy!JobsAssumption /\ Toast!ToastsAssumption

\* What the initial states leave open matters only to the subject.
ProgressInit ==
    /\ subject \in
        {"link", "flow", "cache", "history", "site", "deploy", "toast"}
    /\ Link!Init /\ Flow!Init /\ Cache!Init /\ History!Init
    /\ Site!Init /\ Deploy!Init /\ Toast!Init
    /\ subject # "cache" => cache_chain = 0
    /\ subject # "history" => history_chain = 0
    /\ subject # "site" => ~connected
    /\ subject # "deploy" => ~deploy_connected

LinkStep ==
    /\ subject = "link" /\ Link!Next
    /\ UNCHANGED <<flowVars, cacheVars, historyVars, siteVars, deployVars,
                   toastVars>>
FlowStep ==
    /\ subject = "flow" /\ Flow!Next
    /\ UNCHANGED <<linkVars, cacheVars, historyVars, siteVars, deployVars,
                   toastVars>>
CacheStep ==
    /\ subject = "cache" /\ Cache!Next
    /\ UNCHANGED <<linkVars, flowVars, historyVars, siteVars, deployVars,
                   toastVars>>
HistoryStep ==
    /\ subject = "history" /\ History!Next
    /\ UNCHANGED <<linkVars, flowVars, cacheVars, siteVars, deployVars,
                   toastVars>>
SiteStep ==
    /\ subject = "site" /\ Site!Next
    /\ UNCHANGED <<linkVars, flowVars, cacheVars, historyVars, deployVars,
                   toastVars>>
DeployStep ==
    /\ subject = "deploy" /\ Deploy!Next
    /\ UNCHANGED <<linkVars, flowVars, cacheVars, historyVars, siteVars,
                   toastVars>>
ToastStep ==
    /\ subject = "toast" /\ Toast!Next
    /\ UNCHANGED <<linkVars, flowVars, cacheVars, historyVars, siteVars,
                   deployVars>>

ProgressNext ==
    /\ UNCHANGED subject
    /\ \/ LinkStep \/ FlowStep \/ CacheStep \/ HistoryStep \/ SiteStep
       \/ DeployStep \/ ToastStep

\* The fairness of each part:
\* the threads of the sender run, and an attempt to connect succeeds after
\* finitely many failures;
LinkFairness ==
    /\ WF_linkVars(subject = "link" /\ Link!Send)
    /\ WF_linkVars(subject = "link" /\ Link!Handle)
    /\ \A c \in 1..2 : WF_linkVars(subject = "link" /\ Link!Read(c))
\* the loops of a replica do not block for good, but a leader need not end
\* its view;
FlowFairness ==
    /\ WF_flowVars(subject = "flow" /\ Flow!Send)
    /\ WF_flowVars(
        subject = "flow" /\ \E is_final \in BOOLEAN :
                              Flow!BuildProposal(is_final))
    /\ \A r \in {1, 2} : WF_flowVars(subject = "flow" /\ Flow!Replicate(r))
\* requests are answered (with an error once the client is closed), the
\* interval and the timer fire, and a socket opens in the end; new blocks,
\* messages, failures, close and restarts are not fair;
CacheFairness ==
    /\ \A s \in {1, 2} :
        WF_cacheVars(/\ subject = "cache"
                     /\ Cache!Answered(s) \/ (isClosing /\ Cache!BatchFails(s)))
    /\ WF_cacheVars(subject = "cache" /\ Cache!fetchInterval)
    /\ WF_cacheVars(subject = "cache" /\ Cache!attemptReconnection)
    /\ SF_cacheVars(subject = "cache" /\ Cache!wsOpen)
\* requests are answered, cron ticks, and a service that ended is started;
HistoryFairness ==
    /\ \A s \in {1, 2} : WF_historyVars(subject = "history" /\ History!Step(s))
    /\ WF_historyVars(subject = "history" /\ History!initSyncService)
    /\ WF_historyVars(subject = "history" /\ History!cronTick)
\* timers fire, messages are delivered, storage callbacks run and fetches end
\* (the browser ends one with an exception if nothing answers), but no user
\* has to act;
SiteFairness ==
    /\ WF_siteVars(subject = "site" /\ Site!loginTimer)
    /\ WF_siteVars(subject = "site" /\ Site!handleMessage)
    /\ WF_siteVars(subject = "site" /\ Site!checkConnectionStatus)
    /\ WF_siteVars(subject = "site" /\ Site!submitTransaction)
    /\ WF_siteVars(subject = "site" /\ Site!submitLoginTransaction)
\* processes end and fetches are answered, users and clients may stop;
DeployFairness == WF_deployVars(subject = "deploy" /\ Deploy!Scripts)
\* a timer that was set fires.
ToastFairness ==
    \A id \in 1..3 : WF_toastVars(subject = "toast" /\ Toast!REMOVE_TOAST(id))

ProgressSpec ==
    /\ ProgressInit /\ [][ProgressNext]_allVars
    /\ LinkFairness /\ FlowFairness /\ CacheFairness /\ HistoryFairness
    /\ SiteFairness /\ DeployFairness /\ ToastFairness

-----------------------------------------------------------------------------
(* Properties; the modules of the parts explain the conjuncts.             *)

\* A chain of handlers that SendMessage starts empties queue_; what waits at
\* the last leader is executed by every replica, was replaced by AsyncSend, or
\* stays in the last proposal.
TransactionsMove == Link!StartedChainDrains /\ Flow!LeaderServes

\* Every block reaches the node cache, unless close() or a failure is named,
\* and gets its row in the history of ResLens; the cache makes a lost
\* WebSocket connection again, and after close() its socket ends closed and no
\* scan runs.
BlocksArrive ==
    /\ Cache!BlocksReachCache /\ Cache!Reconnects /\ Cache!CloseEnds
    /\ History!HistoryCatchesUp

\* A token that handleLogin stored leads to the form, a click on Authenticate
\* is answered, every deployment request of the wallet is answered, and a
\* closed toast is removed, alone, by its timer.
UsersAreServed ==
    /\ Site!SessionOpens /\ Site!LoginAnswered
    /\ Deploy!RequestsEnd
    /\ Toast!ClosedGoes /\ Toast!OpenIsKept
=============================================================================
