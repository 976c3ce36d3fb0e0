# TD-HotStuff and its ecosystem: specifications, model checking and proofs

This directory holds TLA+ specifications of this repository, a fork of ResilientDB:
the TD-HotStuff protocol (`src/platform/consensus/ordering/td_hotstuff`), its trust
weights, leader election and client, the path of transactions and the network sender
beside it, and the stateful tools of `src/ecosystem` (wallet, site templates, contract
deployment, caches, monitoring, launcher). TLC checks them on small instances. TLAPS
proves, for every value of the constants, the safety of the protocol and its refinement
of a replicated log, the weights and the election, the client's window, the link, the
path of transactions, both copies of the chain, and the sites, connections and
deployments of the wallet.

## The system

A replica runs `TdHotstuff` (`algorithm/td_hotstuff.cpp`) on top of a
`ProposalManager` (`algorithm/proposal_manager.cpp`). The leader of a view proposes
a chain of slots. Every replica votes for a proposal it accepts; the leader counts
the *weight* of the votes and forms a quorum certificate (QC) at `floor(2W/3)+1`.
A proposal carries the QC of the one before, and receiving it commits that one (one
phase). When the leader's timer has run out it marks a slot final; the votes for it
go to the next leader, which forms the QC and starts the next view. Leaders come
from a hash of the view, in proportion to the weights (`VRFLeader`). The client
(`TdHotstuffPerformanceManager`) keeps a window of requests at the leader it knows
and learns of a new one from the responses.

Threads of a replica: `AsyncSend` (proposes), worker threads (run
`ReceiveProposal` and `ReceiveCertificate`), `AsyncCommit`. Locks: `mutex_`,
`txn_mutex_`, `rec_mutex_`, `rec_mutex2_`, `n_mutex_`. Threads of the client: one
sender and workers that handle responses, with `response_lock_` and `vrf_mutex_`.

Around the protocol:

* `AsyncReplicaClient` sends messages from a queue with a chain of asio handlers and
  reconnects after an error; `AsyncAcceptor::Session` reads frames on the other side.
* `AsyncSend` takes transactions from `txns_`, `AsyncCommit` numbers the committed
  ones, `TransactionExecutor` executes them.
* ResVault is a browser extension: a React popup, a background script and a content
  script that share `chrome.storage` through callbacks. Sites made from the templates
  talk to it with `window.postMessage` through the SDK. It deploys contracts through a
  GraphQL service that runs `rescontract`, whose files all requests share.
* `resilient-node-cache` copies blocks into MongoDB. The middleware of ResLens copies
  them into a table for its history chart; the ResLens dashboard shows them, profiles
  and memory metrics in React components whose fetches overlap.
* Orbit is a desktop launcher that starts and stops the services in a container.

These parts share no state in memory; they meet only at ResilientDB's interfaces.

### Inventory

| Part | Sources | Here |
|---|---|---|
| Protocol: proposing, voting, counting, committing | `td_hotstuff/algorithm` | `TdHotstuff` |
| Quorum arithmetic: threshold, signature count | constructor, `VerifyQC` | `WeightedQuorum` |
| Weights, self-check, election (three copies) | `BuildWeights`, `VRFLeader`, client constructor | `LeaderElection` |
| Client window and leader tracking | `td_hotstuff/framework/performance_manager.cpp` and its base class | `ClientFlow` |
| Pacemaker timeout | `GetDynamicTimeout` | its effect (`is_final` is left open) |
| Transaction queue, `AsyncCommit`, executor | `td_hotstuff.cpp`, `lock_free_queue.h`, `execution/` | `TxnFlow` |
| Sender and sessions of the network layer | `platform/networkstrate` | `AsyncSender` |
| ResVault: accounts and key pairs | `resvault/src/context`, `SignUp`, `Login`, `Dashboard` | `ResVaultKeys` |
| ResVault: connections of sites, nets and modes | `background.js`, `Dashboard.jsx` | `VaultConnections`, `VaultNets` |
| Sites: login, logout, transactions | templates of `create-resilient-app`, SDK, `content.js` | `SiteApp` |
| Contract deployment | `Contract.jsx`, `background.js`, `cli-functions.js`, `rescontract` | `ContractDeploy` |
| Node cache | `resilient-node-cache/src/index.ts` | `NodeCache` |
| History of ResLens, encoding of its series | `syncTransactionHistory.js`, `encoding.js`, `encoding.ts` | `HistorySync`, `DeltaEncoding` |
| ResLens dashboard | `flamegraph.tsx`, `lineGraph.tsx`, `table.tsx`, memory page, `use-toast.ts` | `LensCpu`, `LensBlocks`, `LensMemory`, `Toasts` |
| Orbit | `+page.svelte`, `main.rs`, `startup.sh` | `Orbit` |
| HotStuff, HotStuff-1, HotStuff-2, slotted HotStuff-1 | `ordering/hs`, `hs1`, `hs2`, `slot_hs1` | not modelled |
| PBFT, view change, checkpoints, recovery | `ordering/pbft`, `recovery` | not modelled |
| PoE, Zyzzyva, Geo-PBFT | `ordering/poe`, `zzy`, `geo_pbft` | not modelled |
| Storage, executors, services, Python, Rust and ORM SDKs | `chain`, `executor`, `service`, `ecosystem` | not modelled |

`PROJECT.json` lists the same parts with the reason for each that is left out, and
the hazards of the code at the lines where they bite.

## The modules

**`WeightedQuorum`** The weight of a set of replicas, the threshold and the number
of signatures `VerifyQC` asks for. A weight is counted as the cardinality of a set
of units, which needs no recursion; `MCLeaderElection` has TLC compare it with the
sum the code computes.

**`TdHotstuff`** One variable per field of the code (names without the trailing
underscore), plus the messages under way and the histories `proposals`, `certified` and
`bypassed`. The hash of a proposal is its index in `proposals`.

| Action | Code |
|---|---|
| `WaitReady`, `BuildProposal`, `SendProposal` | `AsyncSend`, cut where it releases `n_mutex_` and `mutex_`; `ready_` is cleared in the third step, as in the code |
| `ReceiveProposal` | the whole handler: `Verify`, `AddProposal`, `CommitProposal`, the vote; any proposal received, in any order |
| `CheckCertificate` | `ReceiveCertificate` up to the release of `rec_mutex2_` (the fast path) |
| `CollectCertificate` | the rest under `rec_mutex_`: second check, counting, QC, `AddQC`, garbage collection, wake-up |
| `Crash` | a replica stops for good; nothing is persisted |

`AddQC` writes `round_` and `generic_qc_` before `ready_` is set and nobody proposes
until then, so the section is one step. `Verify` reads only `lock_qc_`, which only
`AddProposal` writes under the same `mutex_`, so `ReceiveProposal` is one step.
Several worker threads pop one queue (`service_network.cpp:83-96`), so a replica may
handle a proposal before an older one it already has. `bypassed` records, per replica,
the proposals that were overtaken in this way; no guard reads it.
`ForkTail` models the experiment switch `fork_tail_num_`. The switch
`rollback_num_` has no effect on the chain: with `fork_tail_num_` = 0 the first
assignment of `AddQC` sets `generic_qc_` in every case, and the second proposal has
the same header, transactions and hash as the first.

**`TdHotstuffInv`** The inductive invariant. **`TdHotstuffSteps_proofs`** Quorums, and one
lemma per action: the sender's steps, `Crash`, the fast path and the counting of
`ReceiveCertificate`. **`TdHotstuff_proofs`** adds `ReceiveProposal`, puts them together
and holds the theorems, the refinement included.

**`LeaderElection`** `BuildWeights` with its startup check, and the three copies of
the election, each with its cache. What SHA256 yields for a view is any number up to
`MaxHash`.

**`ClientFlow`** The sender (`DoBatch`, `SendMessage`) and the response threads,
which interleave between `response_lock_` (`AddResponseMsg`), `vrf_mutex_`
(`ChangePrimary`) and the decrement of `send_num_` (`SendResponseToClient`).
`Execute` stands for the replicas: a request commits at most once and names the same
next primary at all replicas, which is `SameNextPrimary` of `TdHotstuff`.

**`ReplicatedLog`**, **`TdHotstuffLog`** The abstract log: one sequence of decided
proposals. A replica commits decided entries, each at most once; until it is
`disordered` it commits them in order and without a gap, afterwards in any order and
with gaps. `TdHotstuffLog` gives the mapping: a proposal is decided when its successor
is built on it, what a replica committed is what it pushed on `commit_q_`, each entry
with the next primary it names, and a replica is disordered once a proposal was
overtaken there.

**`AsyncSender`** `SendMessage` is cut at its accesses to `queue_` and `in_process_`;
the chain of handlers at every handler. A connection carries chunks and may break
after any prefix; `Session` reads size and body. TCP is marked external.

**`TxnFlow`** `AsyncSend` per pop from `txns_` (the first transaction, its fresher
replacement, the rest of the batch, the proposal), `AsyncCommit` and `ExecuteMessage`
per replica. The protocol in between is the log of `ReplicatedLog`: `CommitProposal` takes
the next decided proposal or, in a replica that is or thereby becomes `disordered`, any
other; `Bypass` is an overtaking that commits nothing.

**`ResVaultKeys`** One action per handler and one per storage callback. React state,
`chrome.storage.sync` and `local` are separate variables, and the popup may be closed
between any two callbacks. **`VaultConnections`** The same for `storeKeys`,
`disconnectKeys` and the popup's own `connections`; encrypting may fail, which
`storeKeys` answers like a success. **`VaultNets`** Nets, URLs (a host and the protocol
the lock icon chooses) and the effects of the dashboard.

**`SiteApp`** A page, the SDK, the content script and the background script with the
messages between them; `Template` chooses React or Vue. **`ContractDeploy`** Jobs of
the wallet and of other GraphQL clients as program counters through `addAddress`,
`compileContract` and `deployContract`, with the shared files; every step may fail.

**`NodeCache`** Scans (first, periodic, on a message) with their workers, MongoDB, the
WebSocket and its timer, `close` and restarts. **`HistorySync`** Syncs started at the
start and by cron, insertion row by row, errors, short answers, crashes.
**`DeltaEncoding`** Encoder and decoder of the series as operators.

**`LensCpu`**, **`LensBlocks`**, **`LensMemory`**, **`Toasts`** React state, effects and
the requests in flight, answered in any order. In `Toasts` a component renders, and its
effect registers it as a listener in a later step. **`Orbit`** Clicks, commands in the
order of their invocation, one step per systemd unit, the badges set at the answers, and
`startup.sh`, which starts the units of a new container one by one while commands run.

**`MCParts`**, **`MCProgress`** compose the parts outside the protocol. They share no state, so
the composition is a sum: `subject` names the part whose steps a behaviour takes, and
all others stay in their initial state. A property of one part holds in the sum
exactly if it holds of that part alone, and one run covers all of them without the
product of their states. The proofs are about the parts themselves, not the sum.
Fairness is stated for the subject. Instances of one module (the Vue and React
templates, three of `LensCpu`) share variables and are told apart by the subject, and
so are the two sets of deployment jobs that start in a behaviour.

**`LinkPart`**, **`FlowPart`**, **`CachePart`**, **`SitePart`**, **`DeployPart`**,
**`VaultPart`** Each names the state and the constants of one part (`AsyncSender`,
`TxnFlow`, `NodeCache`, `SiteApp`, `ContractDeploy`, `VaultConnections`) for the
composition, instantiates its module and states its safety property. `MCParts` and the
module with the proofs extend them, so that the run and the theorem are about the same
definition: the cfg of `parts` fixes the constants, the theorem does not.

**`LeaderElection_proofs`**, **`ClientFlow_proofs`**, **`TxnFlow_proofs`**,
**`AsyncSender_proofs`** hold the theorems about these modules, **`Ecosystem_proofs`** those
about `HistorySync` and `NodeCache`, **`Wallet_proofs`** those about `SiteApp`,
`ContractDeploy` and `VaultConnections`.

## The runs

| Run | Shows |
|---|---|
| `td_reordered` | the inductive invariant and all safety properties with proposals handled in any order: equal commit queues of the replicas that keep the order, what the others lose, and that the protocol implements `ReplicatedLog` |
| `td_forktail` | a tail-forking leader that leads several views: no position is doubled, no commit is uncertified, and no proposal is certified twice although counts of `view - 2` are erased |
| `td_live` | the chain grows although a light replica that never leads may stop |
| `weights` | election and weights for 1 to 7 replicas |
| `parts` | the safety of links, transactions, caches, sites, deployments, wallet, dashboard and launcher |
| `progress` | what these must eventually do |
| `client` | the client's window while leaders change and responses come late |
| `td_leader_crash` | (violated) a leader that stops is not replaced |
| `weights_four` | (violated) the weights of 4 replicas do not tolerate one fault |
| `client_three` | (violated) below 4 replicas no request is reported as done |
| `link_burst` | (violated) a message of a burst can stay in the sender's queue |
| `vault_keys` | (violated) a key file that lists a pair twice stores it twice |

The properties of `parts` and `progress` are conjunctions; each conjunct is stated and
explained in the module of its part:

| Property | Conjuncts |
|---|---|
| `LinkSafe` | frames stay whole, none is doubled or, on one connection, reordered |
| `OneSerialOrder` | a transaction is in one place, at most one per view is given up, no replica executes one twice, all replicas that are not disordered execute one numbered order |
| `BlocksOnce`, `NoGap` | no gap in the history table and no doubled row without overlapping syncs; no gap in the node cache |
| `SessionsHonest` | logins open sessions, the form reports commits, a logout sticks |
| `DeploysSound` | own artifact, registered, once per key, no temporary file left |
| `KeysSafe`, `WalletSteps` | context, list and index of key pairs agree, the account stays accessible, no pair is lost; who enters sees the selected pair; the Contract page clears only what was deployed |
| `ConnectionsSafe` | a connected site has keys, connections are the keys and what `storeKeys` failed to store, a pair is not used further once another one is selected |
| `PagesCurrent` | graphs, table, samples, toasts and badges show what is selected or running; the series survives its encoding; the URL the wallet uses is of the selected net or the one typed |
| `TransactionsMove` | a started chain of handlers empties the queue; what waits at the last leader is executed |
| `BlocksArrive` | blocks reach cache and history; the socket comes back, and ends after `close` |
| `UsersAreServed` | logins and deployments are answered; closed toasts go, open ones stay |

Several hold only under a condition that a history variable of the module names
(`bypassed`, `disordered`, `overlapped`, `crossed`, `twice`, `disturbed`, `unstored`,
`partial`, `missed`, `edited`, `late`, `short`, ...). The variable says exactly which
earlier event made the code give up the property; it is set only by the action that is
that event. What the code does in the states so excluded is listed under Deviations.

**Bounds.** `MaxProposals` = 3 allows three views, the least that makes the garbage
collection of `view - 2` happen, as well as several slots of one view. The weights are those
of 4 replicas, and the leaders those SHA256 elects for them; `td_forktail` uses a
sequence in which one replica collects three times. Three proposals are also the least
with which a replica that overtakes one commits another. Replicas 2 and 3 weigh the same
and lead none of these views, so `td_reordered` and `td_forktail` may exchange
them. The two fair runs use
2 proposals. `weights` covers every branch of `BuildWeights` (n < 4, 4 to 6, 7), and
hashes up to W wrap around. `client` has a window of 2 and 4 requests, so that a
request of an old leader, one of the new leader and late responses overlap.
The instances of `parts` allow two of everything that can overlap (scans, syncs,
logins, jobs, storage callbacks, fetches, commands, connections), which is the least
that makes two of them race, and one failure or crash; batches are smaller than the
chain, so that a loop has a next round. `VaultNets` has one host and two protocols,
which gives two URLs. `progress` uses smaller instances of the same modules: two blocks,
three transactions (one ends the first view, two follow in the next, of which the second
decides the first), one wallet job, one component with toasts, the Vue templates.

**Deadlock** is not checked: every instance ends when its bound is reached, and the
pages wait for a user who may do nothing.

**Fairness.** `FairSpec` has weak fairness of every step of a replica: its
loops never block for good (`wait_for` and `Pop` return after a timeout) and
links deliver. Building a proposal is fair only if transactions keep coming,
which the closed-loop client provides. The steps of a stopped replica are disabled.
In `progress` threads, timers and storage callbacks run, requests are answered or end
with an error (the browser and the HTTP clients give up in the end), processes end, and
connecting succeeds after finitely many failures (strong fairness of the WebSocket's
open event). Users, new blocks, failures, crashes and `close` are never fair.

## Findings

* `td_leader_crash`: comments on `GetDynamicTimeout` (`td_hotstuff.cpp:164-166`)
  speak of detecting a faulty leader and declaring a view change. The timeout is
  read in one place, by the leader when it proposes. No other replica has a timer.
* `weights_four`: `consensus.cpp:62` says one of 4 to 6 replicas may safely have
  weight 3. For 4 the total is 9 and the threshold 7; without replica 1 only 6 remain.
  The startup check reports it (`[BFT-UNSAFE!]`) and the node goes on.
* `client_three`: with f = 0 one response is enough, and `AddResponseMsg` reports it
  as `FIRST_RESPONSE`; the slot in the window is never given back.
* `link_burst`: `OnSendNewMessage` resets `in_process_` after it found the queue empty
  (`async_replica_client.cpp:53-57`). A message pushed in between is neither sent by the
  old chain nor does it start one; it waits for the next `SendMessage`. The test expects
  every message of a burst (`async_replica_client_test.cpp:107-111`).
* `vault_keys`: `appendKeyPairs` compares the pairs of a file with the stored ones, not
  with each other (`GlobalContext.js:136`), so that a file with a pair in it twice stores
  it twice; the comment above it says "preventing duplicates" (`GlobalContext.js:89`).

### Deviations the models contain

The models follow the code where a comment, a README or a message of the program says
something else, or where it gives up what one would expect. These have no run of their
own; each can be read off the module.

* `TdHotstuff`: commit queues of replicas can differ. With three proposals, replica 4
  handles the second before the first: `CommitProposal` does not find the first in
  `local_block_` and commits nothing. It then stores the first, and the third makes it
  commit the second, as the first entry of its queue; replica 1, which kept the order,
  has the first proposal there. Nothing commits the first at replica 4 any more. No
  comment or document speaks of this order, so it is no finding; `PrefixAgreement`,
  `OnlyBypassedLost` and `ImplementsLog` say exactly what is left. `TxnFlow`:
  `AsyncCommit` numbers transactions by their position in the queue, so that from there
  on such a replica executes other transactions under the same numbers.
* `ResVaultKeys`: after the first pair is deleted the callback of the dashboard puts the
  deleted pair back into use (`Dashboard.jsx:376`; "Reset to the first key pair after
  deletion"); after a generation the last old pair is selected (`Dashboard.jsx:632`);
  a login does not set `ownerAddress`, which `Contract.jsx:645` sends.
* `VaultConnections`: a site connected to a second net is shown as connected to both,
  though requests use the last one (`Dashboard.jsx:268`); changing the service mode
  removes only the popup's record (`GlobalContext.js:396`, "Clear connections when mode
  changes"); deleting the pair in use or uploading others disconnects no site, which goes
  on signing with the old pair, and the popup shows a site as connected although
  `storeKeys` failed.
* `VaultNets`: the URL of a built-in net stays that of the old mode
  (`Dashboard.jsx:187`); the lock icon changes the URL in use whatever net is shown, as
  typing a host does, and under "Custom URL" it may reach that of a stored net.
* `ContractDeploy`: `executeContract` runs a command that `rescontract` does not have
  (`cli-functions.js:217`), so it always answers with an error.
* `NodeCache`: the timer and `initialize` open a socket after `close()` (`index.ts:366`,
  `118-120`); blocks of a batch that failed are never asked for again (`index.ts:222`,
  "Continuously sync new blocks").
* `LensCpu`: a live answer replaces the sample profile in offline mode, and a refresh
  that succeeds does not clear an error (both `flamegraph.tsx:193`).
* `Toasts`: a toast added between the render of a component and its effect is not shown
  there until the next change (`missed`).
* `Orbit`: a start of the database turns on the badges of all three services
  (`+page.svelte:129`); a stop while `startup.sh` still runs leaves "Stopped" on the page
  and units running in the container (`partial`).

## What is proved

Constants are arbitrary; each module names what is assumed of them, and TLC evaluates
the same assumptions on every run. A theorem about a part (`Link!Spec =>
[]LinkSafe` and the like) has the assumption of its module as a hypothesis.

### The protocol

For a finite set of replicas, positive weights, any leader sequence, any
`MaxProposals`, any order of delivery and any tail-forking leaders
(`WeightsAssumption`, `ProtocolAssumption`):

* `QuorumIntersection`: two quorums share a replica. `QuorumHasEnoughSignatures`:
  a quorum by weight has the number of signatures `VerifyQC` asks for.
* `Invariance`: `Spec => []IndInv`. From it: `TypeCorrect`, `AtMostOneProposer`,
  `NeverForks`, `OneChain`, `CommitSafety`, `NextPrimaryAgreement`,
  `NewestIsAccepted`, `Agreement`, `LossIsLocal`, and the action properties
  `NoSecondCertificate`, `NoRegress` and `FastPathDropsNothingNeeded`. The last one
  assumes at most 100000 proposals, because the key `view * 100000 + slot` is not
  injective beyond.
* `Agreement`: any two replicas that handled their proposals in order commit the same
  sequence, whatever the others do. `LossIsLocal`: a replica that did not still commits
  every father of a proposal it handled, unless one of the two was overtaken, and
  commits an entry after a later one only if the child of that entry was overtaken.
* `RefinesLog`: without tail forks, `Spec` implements `ReplicatedLog`: initial states map
  to initial states, and every step of a replica decides an entry, commits a decided one
  (the next, if the replica is not disordered), makes the replica disordered, or
  stutters.

None of the properties is inductive. The right to propose is a
token: it is held either by one ready replica or by the last proposal, which is not
yet certified (`TokenInv`). The token returns only when the QC of the last proposal
forms, and that happens once. For that, `VoteInv` says that a vote still under way
was never counted, and `CountInv` that a count erased after its QC shares no
signer with it, so that by quorum intersection the votes left cannot reach the
threshold again. `ChainInv` relates every QC to the proposal it certifies,
`CommitInv` what is committed to what is still stored or to come. `OrderInv` says what a
replica has of the proposals it handled: an older one still to come is in `bypassed`, one
not in `bypassed` is stored or committed, and with `bypassed` empty the entries of
`commit_q_` are 1, 2, 3 and so on. `DoneInv` is the addition the fast path needs. The refinement rests on the same
invariant: building a proposal decides the one before it (`BuildDecides`, by `ChainInv`),
and handling one commits a decided entry or nothing, the next one if none was overtaken
(`ReceiveCommits`, by `OrderInv`).

### Weights, election and client

* `WeightsTolerateFaults`: for every n but 4 the weights tolerate f faults.
  `CheckIsExact`: the start-up check, which adds the f largest weights, gives the
  verdict of the constraint over all sets of f replicas; both fail for 4 replicas only.
  `StartedSafe`, `StartupCheckExact`, `ElectionProportional`, `ElectionAgreement` and
  `ElectionTypes` carry this and the election into the module (`ElectionAssumption`).
  The weights have two values only, and the larger one at most once, so sorted list,
  prefix sums and positions have closed forms; no induction over the recursive
  functions is needed.
* `ClientInvariant` and from it `ClientTypes`, `SlotsStayAccounted`,
  `WindowStaysBounded`, `SlotsAreHeld` and, for 4 or more replicas, `ReportedOnce`
  (`ClientAssumption`). The invariant follows each request from `SendMessage` over its
  responses to the callback and the decrement of `send_num_`; the slots of a leader
  are counted as a set of requests, so that moving one to the next leader or taking
  several at once are facts about cardinalities.

### Transactions and links

* `OneOrderForAll` (`FlowAssumption`): queues, hand, batch and log never share a
  transaction; what a replica executed is a prefix of what it numbered, and that of what
  it committed, which has no transaction twice and, for a replica that is not disordered,
  is a prefix of the log.
* `LinkDelivers` (`SenderAssumption`): a connection is read up to one place of the
  stream of chunks and carries those from there to another, and a later connection
  starts at or after the message in which an earlier one ends. Reconnecting starts
  again with a whole message, of which the receiver has not got the last chunk.

### Copies of the chain

* `SyncsInOrder`, `HistoryOnce` and from them `NoGapInHistory` and `HistoryRight`
  (`HistoryAssumption`): for every batch size, number of overlapping syncs, failures
  and crashes the table has no gap before its last row unless an answer lacked blocks,
  and one row per block unless syncs overlapped. Each sync under way, the stale ones
  included, has read a position at or before the first missing block, and inserts from
  there in order, so a stale one can double a row but never skip one.
* `CacheHasNoGap` (`BoundsAssumption`): for any number of overlapping scans and workers
  and any batch size, a block up to `currentBlockNumber` is stored or some scan still
  has its batch in hand, unless a request failed or the client was closed or restarted
  during a scan. The batches of a scan start at or before the block after
  `currentBlockNumber`, so that advancing it passes only batches some worker owes.

### The wallet

* `SitesHonest`: for both templates and any number of requests. Without two clicks
  (`twice`) or answers that cross (`crossed`), one login passes from the click over
  check, request and answer to the timer, with the token stored exactly from the answer
  on, and a commit is under way only while the form is mounted.
* `DeploymentsSound` and the action property `ClearsWhatItDeployed`
  (`JobsAssumption`): for any number of jobs of the wallet and of other clients. The
  invariant ties each program counter to the files: what a job compiled is what it
  will deploy unless another replaced it, and the run of `rescontract` that will write
  the registry has loaded what the registry holds unless two overlapped.
* `ConnectionsStaySafe`: for any sites, nets and number of requests. Whatever is
  written to `keys` and `connectedNets` is consistent, however old it is; undisturbed,
  one change passes through six phases (idle, encrypting, called, replied, setting,
  reading), and in each it is known which of the two records is ahead and by what; a
  failed `storeKeys` leaves its pair in `unstored`, by which they differ until the next
  change of that pair.

## What is only model-checked

* Liveness: `ChainGrows` and all of `progress`; the prover has no fairness.
* `KeysSafe` and the wallet's half of `WalletSteps`: the uploaded pairs are filtered with
  `SelectSeq`, whose result would need an induction over the list. For the same reason
  the URL conjunct of `PagesCurrent` (`nets.find`) and its round trip of the encoding.
* The rest of `PagesCurrent` (dashboard, toasts, launcher), and `PartsTypeOK`. The
  theorems of a part contain the types its argument needs.

## What is not modelled

In the protocol: signatures and hashes (unforgeable, free of collisions); replicas that
deviate from the protocol other than by the switches of the code; loss of messages
(nothing repeats one; what a broken link loses is in `AsyncSender`); the race on the
`std::map` behind `leader_cache_`; the content of transactions; the clock of the
pacemaker, whose effect, `is_final`, is left open.

The other ordering protocols (the HotStuff family, PBFT with view change and recovery,
PoE, Zyzzyva, Geo-PBFT) are separate implementations that TD-HotStuff does not use.
Slotted HotStuff-1, HotStuff, HotStuff-1 and HotStuff-2 against the same `ReplicatedLog`
would be the next step, then the transaction collector of PBFT.

In the ecosystem: about 17 000 lines of constant sample data; presentational
components, layout, tours and notifications, which have no state of their own;
stateless proxies, request builders and forwarders (ResLens controllers, contract kit,
Python, Rust and ORM SDKs, GraphQL service); command-line programs that run alone
(`create-resilient-app`, the other `rescontract` commands); the Python cache, which
does the task of the node cache in asyncio.
