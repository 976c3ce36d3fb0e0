----------------------------- MODULE NodeCache -----------------------------
(***************************************************************************)
(* WebSocketMongoSync of resilient-node-cache: blocks of ResilientDB are   *)
(* copied to a MongoDB collection.  A scan asks the HTTP endpoint for one  *)
(* batch of block numbers after another, advancing currentBlockNumber,     *)
(* until a batch is empty; then workers fetch the batches found once more  *)
(* and write them.  One scan runs when the object is initialised, one at   *)
(* every tick of an interval and one for every "Update blocks" message of  *)
(* the WebSocket, each beside those that still run.                        *)
(*                                                                         *)
(* JavaScript runs from one await to the next without interruption, so an  *)
(* action is what follows the answer to one request, up to the next        *)
(* await.  The HTTP endpoint, the WebSocket and MongoDB are external.      *)
(***************************************************************************)
EXTENDS Integers, Sequences, FiniteSets, FiniteSetsExt, Functions

CONSTANTS
    MaxBlock,      \* bound: blocks that ResilientDB ever has
    batchSize,     \* 100 in the code
    Workers,       \* concurrencyLimit, 5 in the code
    Scans,         \* bound: scans that run at a time, a set of numbers
    MaxFailures,   \* bound: requests and writes that fail
    MaxRestarts    \* bound: restarts of the process

BoundsAssumption ==
    /\ batchSize \in Nat \ {0} /\ Workers \in Nat \ {0}
    /\ MaxBlock \in Nat /\ MaxFailures \in Nat /\ MaxRestarts \in Nat

VARIABLES
    chain,      \* the number of blocks ResilientDB has
    stored,     \* ids of the blocks in the collection
    current,    \* currentBlockNumber
    scan,       \* the scans: what they await and their batches
    phase,      \* initialize(): "new", "initial", "running", "failed"
    periodic,   \* the interval is set
    ws,         \* the WebSocket: "none", "connecting", "open", "closed"
    closeOnOpen,\* close() registered a handler that closes it once open
    timer,      \* a reconnection timer is set
    isClosing,  \* close() was called
    failures,   \* requests and writes that failed
    restarts,   \* restarts of the process
    clean,      \* history: close() was called with no timer, not in initialize()
    interrupted \* history: a restart or close() while a scan was under way

socket == <<ws, closeOnOpen, timer>>
counts == <<failures, restarts, clean, interrupted>>
vars == <<chain, stored, current, scan, phase, periodic, socket, isClosing,
          counts>>

Idle == [state |-> "idle", initial |-> FALSE, min |-> 0,
         ranges |-> <<>>, busy |-> {}]

\* The block numbers of the batch that starts at min, and those of them
\* ResilientDB has: what the endpoint answers.
BatchRange(min) == min .. min + batchSize - 1
Blocks(min) == BatchRange(min) \cap 1 .. chain

Init ==
    /\ chain \in 0 .. MaxBlock
    /\ stored = {}
    /\ current = 0
    /\ scan = [s \in Scans |-> Idle]
    /\ phase = "new"
    /\ periodic = FALSE
    /\ ws = "none"
    /\ closeOnOpen = FALSE
    /\ timer = FALSE
    /\ isClosing = FALSE
    /\ failures = 0
    /\ restarts = 0
    /\ clean = FALSE
    /\ interrupted = FALSE

\* ResilientDB commits a block (external).
NewBlock ==
    /\ chain < MaxBlock
    /\ chain' = chain + 1
    /\ UNCHANGED <<stored, current, scan, phase, periodic, socket, isClosing,
                   counts>>

-----------------------------------------------------------------------------
(* Scans.                                                                  *)

\* A scan starts and asks for the batch that follows from.
StartScan(from, initial) ==
    \E s \in Scans :
        /\ scan[s].state = "idle"
        /\ scan' = [scan EXCEPT ![s] =
                [Idle EXCEPT !.state = "probe", !.initial = initial,
                             !.min = from + 1]]

\* initialize(): the last block of the collection, or 0, is the start.
initialize ==
    /\ phase = "new"
    /\ phase' = "initial"
    /\ current' = IF stored = {} THEN 0 ELSE Max(stored)
    /\ StartScan(current', TRUE)
    /\ UNCHANGED <<chain, stored, periodic, socket, isClosing, counts>>

\* A scan has ended.  After the initial one initialize() goes on to set the
\* interval and to open the WebSocket.
EndOf(s) ==
    /\ scan' = [scan EXCEPT ![s] = Idle]
    /\ IF scan[s].initial
       THEN /\ phase' = "running"
            /\ periodic' = TRUE
            /\ ws' = "connecting"
            /\ UNCHANGED <<closeOnOpen, timer>>
       ELSE UNCHANGED <<phase, periodic, socket>>

\* Mutant: the batches are dropped that were found before the empty one.
ProbeEmptyDrops(s) ==
    /\ scan[s].state = "probe"
    /\ Blocks(scan[s].min) = {}
    /\ EndOf(s)
    /\ UNCHANGED <<chain, stored, current, isClosing, counts>>

\* The answer to a request of the loop that looks for batches is empty: the
\* workers take the first batches.
ProbeEmpty(s) ==
    /\ scan[s].state = "probe"
    /\ Blocks(scan[s].min) = {}
    /\ IF scan[s].ranges = <<>>
       THEN EndOf(s)
       ELSE /\ scan' = [scan EXCEPT
                ![s].state = "fetch",
                ![s].busy = {scan[s].ranges[i] : i \in
                    1 .. Min({Workers, Len(scan[s].ranges)})},
                ![s].ranges = SubSeq(@, Workers + 1, Len(@))]
            /\ UNCHANGED <<phase, periodic, socket>>
    /\ UNCHANGED <<chain, stored, current, isClosing, counts>>

\* The answer has blocks: currentBlockNumber moves to the last of them, the
\* batch is noted and the next one asked for.
ProbeFound(s) ==
    /\ scan[s].state = "probe"
    /\ Blocks(scan[s].min) # {}
    /\ current' = Max({current} \cup Blocks(scan[s].min))
    /\ scan' = [scan EXCEPT ![s].ranges = Append(@, scan[s].min),
                            ![s].min = current' + 1]
    /\ UNCHANGED <<chain, stored, phase, periodic, socket, isClosing, counts>>

\* The request fails: the scan ends with what it found so far, and makes
\* initialize() throw if it is the initial one.
ProbeFails ==
    /\ failures < MaxFailures
    /\ failures' = failures + 1
    /\ \E s \in Scans :
        /\ scan[s].state = "probe"
        /\ scan' = [scan EXCEPT ![s] = Idle]
        /\ phase' = IF scan[s].initial THEN "failed" ELSE phase
    /\ UNCHANGED <<chain, stored, current, periodic, socket, isClosing,
                   restarts, clean, interrupted>>

\* A worker is done with the batch of min and takes the next; the scan ends
\* with its last worker.
WorkerNext(s, min) ==
    LET rest == scan[s].ranges IN
    IF rest = <<>> /\ scan[s].busy = {min}
    THEN EndOf(s)
    ELSE /\ scan' = [scan EXCEPT
                ![s].busy = (@ \ {min}) \cup
                    (IF rest = <<>> THEN {} ELSE {Head(rest)}),
                ![s].ranges = IF rest = <<>> THEN rest ELSE Tail(rest)]
         /\ UNCHANGED <<phase, periodic, socket>>

\* fetchAndSyncBatch: the batch is fetched and upserted.
BatchStored(s) ==
    /\ \E min \in scan[s].busy :
        /\ ~isClosing
        /\ stored' = stored \cup Blocks(min)
        /\ WorkerNext(s, min)
    /\ UNCHANGED <<chain, current, isClosing, counts>>

\* The request or the write fails; the error is logged and the worker goes
\* on.  An ordered bulkWrite may have written some blocks first.  After
\* close() every write fails.
BatchFails(s) ==
    /\ isClosing \/ failures < MaxFailures
    /\ failures' = IF isClosing THEN failures ELSE failures + 1
    /\ \E min \in scan[s].busy : \E last \in BatchRange(min) :
        /\ stored' = IF isClosing THEN stored
                     ELSE stored \cup (Blocks(min) \cap 1 .. last - 1)
        /\ WorkerNext(s, min)
    /\ UNCHANGED <<chain, current, isClosing, restarts, clean, interrupted>>

\* The interval's callback; an earlier one may still be under way.
fetchInterval ==
    /\ periodic
    /\ StartScan(current, FALSE)
    /\ UNCHANGED <<chain, stored, current, phase, periodic, socket, isClosing,
                   counts>>

-----------------------------------------------------------------------------
(* The WebSocket and close().                                              *)

wsMessage ==
    /\ ws = "open"
    /\ StartScan(current, FALSE)
    /\ UNCHANGED <<chain, stored, current, phase, periodic, socket, isClosing,
                   counts>>

\* The handlers of 'open': that of connectWebSocket, and that of close().
wsOpen ==
    /\ ws = "connecting"
    /\ ws' = IF closeOnOpen THEN "closed" ELSE "open"
    /\ closeOnOpen' = FALSE
    /\ UNCHANGED <<chain, stored, current, scan, phase, periodic, timer,
                   isClosing, counts>>

\* The connection fails or is lost: 'close'.
wsClose ==
    /\ ws \in {"connecting", "open"}
    /\ ws' = "closed"
    /\ closeOnOpen' = FALSE
    /\ timer' = ~isClosing
    /\ UNCHANGED <<chain, stored, current, scan, phase, periodic, isClosing,
                   counts>>

\* The timer of attemptReconnection; it does not look at isClosing.
attemptReconnection ==
    /\ timer
    /\ timer' = FALSE
    /\ ws' = "connecting"
    /\ UNCHANGED <<chain, stored, current, scan, phase, periodic, closeOnOpen,
                   isClosing, counts>>

\* close(): the socket is closed, now or once it is open, the interval and
\* the MongoDB client are stopped.
close ==
    /\ ~isClosing
    /\ phase # "new"
    /\ isClosing' = TRUE
    /\ ws' = IF ws = "open" THEN "closed" ELSE ws
    /\ closeOnOpen' = (ws = "connecting")
    /\ periodic' = FALSE
    /\ clean' = (phase = "running" /\ ~timer)
    /\ interrupted' = (interrupted \/ \E s \in Scans : scan[s] # Idle)
    /\ UNCHANGED <<chain, stored, current, scan, phase, timer,
                   failures, restarts>>

\* The process ends and is started again: the collection stays.
Restart ==
    /\ restarts < MaxRestarts
    /\ phase # "new"
    /\ restarts' = restarts + 1
    /\ interrupted' = (interrupted \/ \E s \in Scans : scan[s] # Idle)
    /\ current' = 0
    /\ scan' = [s \in Scans |-> Idle]
    /\ phase' = "new"
    /\ periodic' = FALSE
    /\ ws' = "none"
    /\ closeOnOpen' = FALSE
    /\ timer' = FALSE
    /\ isClosing' = FALSE
    /\ clean' = FALSE
    /\ UNCHANGED <<chain, stored, failures>>

-----------------------------------------------------------------------------
Answered(s) ==
    \/ ProbeEmpty(s)
    \/ ProbeFound(s)
    \/ BatchStored(s)

Next ==
    \/ NewBlock
    \/ initialize
    \/ \E s \in Scans : Answered(s)
    \/ ProbeFails
    \/ \E s \in Scans : BatchFails(s)
    \/ fetchInterval
    \/ wsMessage
    \/ wsOpen
    \/ wsClose
    \/ attemptReconnection
    \/ close
    \/ Restart

Spec == Init /\ [][Next]_vars

-----------------------------------------------------------------------------
\* The blocks of the batches that some scan still has to write.
Pending == UNION {UNION {BatchRange(min) : min \in
                      scan[s].busy \cup Range(scan[s].ranges)} : s \in Scans}

\* The state has its types; only blocks that exist are stored.
TypeOK ==
    /\ chain \in 0 .. MaxBlock
    /\ stored \subseteq 1 .. chain
    /\ current \in 0 .. chain
    /\ \A s \in Scans :
        /\ scan[s].state \in {"idle", "probe", "fetch"}
        /\ scan[s].min \in 0 .. MaxBlock + 1
        /\ Cardinality(scan[s].busy) <= Workers
    /\ phase \in {"new", "initial", "running", "failed"}
    /\ ws \in {"none", "connecting", "open", "closed"}
    /\ {periodic, closeOnOpen, timer, isClosing, clean, interrupted}
        \subseteq BOOLEAN
    /\ failures \in 0 .. MaxFailures /\ restarts \in 0 .. MaxRestarts

\* Every block up to currentBlockNumber, which no later scan asks for, is in
\* the collection or in a batch that is still to be written, however many
\* scans overlap; unless a request or a write failed, the client is closed,
\* or was closed or restarted while a scan was under way (workers write
\* batches in any order, and initialize() starts after the last block
\* written).
NoGap ==
    failures = 0 /\ ~isClosing /\ ~interrupted /\ phase # "new" =>
        1 .. current \subseteq stored \cup Pending

\* Every block reaches the collection, through the initial scan, a tick or a
\* message, whatever is lost on the WebSocket, under the same exceptions.
BlocksReachCache ==
    \A b \in 1 .. MaxBlock :
        chain >= b /\ phase # "new" ~>
            \/ b \in stored
            \/ failures > 0 \/ isClosing \/ interrupted \/ phase = "new"

\* After close() the WebSocket ends closed and nothing is scanned any more,
\* unless a reconnection timer was set, or initialize() was still under way,
\* when close() was called; or the process is restarted.
CloseEnds ==
    clean ~> \/ ~clean
             \/ ws = "closed" /\ \A s \in Scans : scan[s] = Idle

\* The socket comes back: after a connection is lost a new one is made, as
\* long as the client is not closed.
Reconnects == ws = "closed" ~> (ws # "closed" \/ isClosing)

=============================================================================
