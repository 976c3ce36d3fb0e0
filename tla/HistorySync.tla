---------------------------- MODULE HistorySync ----------------------------
(***************************************************************************)
(* The transaction history of the ResLens middleware: the service of       *)
(* syncTransactionHistory.js copies one row per block from the explorer to *)
(* an SQLite table, once when it starts and then at every tick of a cron   *)
(* schedule, and by hand with run-once.  The table has an index on         *)
(* block_id, and no key on it.  A sync starts after the greatest block of  *)
(* the table, and fetches and stores one batch after the other.            *)
(*                                                                         *)
(* An action is what follows one await; the explorer, SQLite and cron are  *)
(* external.                                                               *)
(***************************************************************************)
EXTENDS Naturals, Sequences, FiniteSetsExt, Functions

CONSTANTS
    MaxBlock,     \* bound: blocks the explorer ever has
    BATCH_SIZE,   \* 1000 in the code
    Syncs,        \* bound: syncs that run at a time
    MaxRows,      \* bound: rows of the table
    MaxFailures,  \* bound: requests, answers and inserts that fail
    MaxCrashes    \* bound: ends of the service's process

ASSUME HistoryAssumption ==
    /\ BATCH_SIZE \in Nat \ {0}
    /\ {MaxBlock, MaxRows, MaxFailures, MaxCrashes} \subseteq Nat

VARIABLES
    chain,      \* blocks the explorer has
    rows,       \* the table: the block_id of each row
    sync,       \* the syncs that run
    phase,      \* initSyncService: "off", "initial" or "scheduled"
    failures,
    crashes,
    short,      \* history: an answer lacked blocks of the range asked for
    overlapped  \* history: a sync started while another ran

vars == <<chain, rows, sync, phase, failures, crashes, short, overlapped>>

Idle == [pc |-> "idle", initial |-> FALSE, last |-> 0, total |-> 0,
         start |-> 0, batch |-> <<>>]

Init ==
    /\ chain \in 0 .. MaxBlock
    /\ rows = <<>>
    /\ sync = [s \in Syncs |-> Idle]
    /\ phase = "off"
    /\ failures = 0
    /\ crashes = 0
    /\ short = FALSE
    /\ overlapped = FALSE

\* A block is committed (external).
NewBlock ==
    /\ chain < MaxBlock
    /\ chain' = chain + 1
    /\ UNCHANGED <<rows, sync, phase, failures, crashes, short, overlapped>>

\* MAX(block_id), or 0.
getLastProcessedBlockId == Max(Range(rows) \cup {0})

\* A sync reads the last block of the table and asks for the number of
\* blocks.  The bound on rows leaves room for what it may insert.
StartSync(s, initial) ==
    /\ sync[s].pc = "idle"
    /\ Len(rows) < MaxRows
    /\ sync' = [sync EXCEPT ![s] = [Idle EXCEPT
            !.pc = "total", !.initial = initial,
            !.last = getLastProcessedBlockId]]
    /\ overlapped' = (overlapped \/ \E t \in Syncs : sync[t].pc # "idle")

\* The table is made if need be, and the first sync runs.
initSyncService ==
    /\ phase = "off"
    /\ phase' = "initial"
    /\ \E s \in Syncs : StartSync(s, TRUE)
    /\ UNCHANGED <<chain, rows, failures, crashes, short>>

\* The cron callback; nothing keeps it from starting beside a sync that
\* runs longer than the schedule's interval.
cronTick ==
    /\ phase = "scheduled"
    /\ \E s \in Syncs : StartSync(s, FALSE)
    /\ UNCHANGED <<chain, rows, phase, failures, crashes, short>>

\* The command run-once, from another process on the same database.
runOnce ==
    /\ \E s \in Syncs : StartSync(s, FALSE)
    /\ UNCHANGED <<chain, rows, phase, failures, crashes, short>>

\* A sync ends, well or with an error that is only logged; after the first
\* one the cron job is scheduled.
EndOf(s) ==
    /\ sync' = [sync EXCEPT ![s] = Idle]
    /\ phase' = IF sync[s].initial THEN "scheduled" ELSE phase

\* The number of blocks has come: up to date, or the first batch.
getTotalBlocks(s) ==
    /\ sync[s].pc = "total"
    /\ IF sync[s].last < chain
       THEN /\ sync' = [sync EXCEPT ![s].pc = "fetch", ![s].total = chain,
                                    ![s].start = sync[s].last + 1]
            /\ UNCHANGED phase
       ELSE EndOf(s)
    /\ UNCHANGED <<chain, rows, failures, crashes, short, overlapped>>

currentEnd(s) == Min({sync[s].start + BATCH_SIZE - 1, sync[s].total})

\* The blocks of a batch have come.  The explorer may answer with fewer than
\* asked for (external); the code does not look.
fetchBlockRange(s) ==
    /\ sync[s].pc = "fetch"
    /\ \E last \in sync[s].start - 1 .. currentEnd(s) :
        /\ last < currentEnd(s) => failures < MaxFailures
        /\ failures' = IF last < currentEnd(s) THEN failures + 1 ELSE failures
        /\ short' = (short \/ last < currentEnd(s))
        /\ sync' = [sync EXCEPT ![s].pc = "store",
                ![s].batch = [i \in 1 .. last - sync[s].start + 1 |->
                                sync[s].start + i - 1]]
    /\ UNCHANGED <<chain, rows, phase, crashes, overlapped>>

\* storeTransactions inserts a row for the next block of the batch.
insertRow(s) ==
    /\ sync[s].pc = "store"
    /\ sync[s].batch # <<>>
    /\ Len(rows) < MaxRows
    /\ rows' = Append(rows, Head(sync[s].batch))
    /\ sync' = [sync EXCEPT ![s].batch = Tail(@)]
    /\ UNCHANGED <<chain, phase, failures, crashes, short, overlapped>>

\* Mutant: the next batch leaves a block out.
nextBatchSkips(s) ==
    /\ sync[s].pc = "store"
    /\ sync[s].batch = <<>>
    /\ IF currentEnd(s) + 1 < sync[s].total
       THEN /\ sync' = [sync EXCEPT ![s].pc = "fetch",
                                    ![s].start = currentEnd(s) + 2]
            /\ UNCHANGED phase
       ELSE EndOf(s)
    /\ UNCHANGED <<chain, rows, failures, crashes, short, overlapped>>

\* The statement is finalized and the pause over: the next batch, or the end.
nextBatch(s) ==
    /\ sync[s].pc = "store"
    /\ sync[s].batch = <<>>
    /\ IF currentEnd(s) < sync[s].total
       THEN /\ sync' = [sync EXCEPT ![s].pc = "fetch",
                                    ![s].start = currentEnd(s) + 1]
            /\ UNCHANGED phase
       ELSE EndOf(s)
    /\ UNCHANGED <<chain, rows, failures, crashes, short, overlapped>>

\* Mutant: an error of the first sync leaves the job unscheduled.
syncFailsUnscheduled ==
    /\ failures < MaxFailures
    /\ failures' = failures + 1
    /\ \E s \in Syncs :
        /\ sync[s].pc # "idle"
        /\ sync' = [sync EXCEPT ![s] = Idle]
    /\ UNCHANGED <<chain, rows, phase, crashes, short, overlapped>>

\* A request or the table fails: syncTransactionHistory logs the error.
syncFails ==
    /\ failures < MaxFailures
    /\ failures' = failures + 1
    /\ \E s \in Syncs : sync[s].pc # "idle" /\ EndOf(s)
    /\ UNCHANGED <<chain, rows, crashes, short, overlapped>>

\* The process ends, in the middle of a batch or not; the table stays.
Crash ==
    /\ crashes < MaxCrashes
    /\ phase # "off"
    /\ crashes' = crashes + 1
    /\ phase' = "off"
    /\ sync' = [s \in Syncs |-> Idle]
    /\ UNCHANGED <<chain, rows, failures, short, overlapped>>

-----------------------------------------------------------------------------
Step(s) ==
    \/ getTotalBlocks(s)
    \/ fetchBlockRange(s)
    \/ insertRow(s)
    \/ nextBatch(s)

Next ==
    \/ NewBlock
    \/ initSyncService
    \/ cronTick
    \/ runOnce
    \/ \E s \in Syncs : Step(s)
    \/ syncFails
    \/ Crash

Spec == Init /\ [][Next]_vars

-----------------------------------------------------------------------------
\* The state has its types; a sync that runs is within its range.
TypeOK ==
    /\ chain \in 0 .. MaxBlock
    /\ rows \in Seq(1 .. chain)
    /\ \A s \in Syncs :
        /\ sync[s].pc \in {"idle", "total", "fetch", "store"}
        /\ sync[s].last <= chain /\ sync[s].total <= chain
        /\ sync[s].pc = "fetch" => sync[s].start <= sync[s].total
    /\ phase \in {"off", "initial", "scheduled"}
    /\ failures \in 0 .. MaxFailures /\ crashes \in 0 .. MaxCrashes
    /\ {short, overlapped} \subseteq BOOLEAN

Sync == [pc : {"idle", "total", "fetch", "store"}, initial : BOOLEAN,
         last : Nat, total : Nat, start : Nat, batch : Seq(Nat)]

\* The block that a sync in its batch stores next.
nextBlock(s) == currentEnd(s) + 1 - Len(sync[s].batch)

\* What is left of the batch of a sync are the blocks up to the end of the
\* batch, in order, and with k blocks stored it continues at k + 1 or before.
InStep(s, k) ==
    /\ sync[s].last <= k
    /\ sync[s].pc \in {"fetch", "store"} => sync[s].start \in 1 .. sync[s].total
    /\ sync[s].pc = "fetch" => sync[s].start <= k + 1
    /\ sync[s].pc = "store" =>
        /\ nextBlock(s) \in 1 .. k + 1
        /\ \A i \in 1 .. Len(sync[s].batch) :
            sync[s].batch[i] = nextBlock(s) + i - 1

\* The inductive invariant behind NoMissingBlock: every sync that runs, the
\* overlapping ones included, continues where the table of
\* syncTransactionHistory ends or before.
RowsInOrder ==
    ~short =>
        /\ chain \in Nat
        /\ rows \in Seq(Nat)
        /\ sync \in [Syncs -> Sync]
        /\ getLastProcessedBlockId \in Nat
        /\ Range(rows) = 1 .. getLastProcessedBlockId
        /\ \A s \in Syncs : InStep(s, getLastProcessedBlockId)

\* No block before the last one of the table is missing, though nothing
\* would ever fetch it again, whatever fails, ends early or overlaps: rows
\* are inserted in the order of the blocks.  Only an answer that lacks blocks
\* leaves a gap.
NoMissingBlock == ~short => Range(rows) = 1 .. getLastProcessedBlockId

\* The chart counts a block once: no two rows are of the same block, also
\* after failures and crashes in the middle of a batch, as long as no sync
\* starts while another runs.
OneRowPerBlock == ~overlapped => IsInjective(rows)

\* The history is right: what RowsInOrder says of every sync, no gap in the
\* table, and one row per block.
BlocksOnce == RowsInOrder /\ NoMissingBlock /\ OneRowPerBlock

\* The table catches up with the chain: every block gets its row, unless an
\* answer lacked blocks or the bound on rows is met.
HistoryCatchesUp ==
    \A b \in 1 .. MaxBlock :
        chain >= b ~> b \in Range(rows) \/ short \/ Len(rows) = MaxRows

=============================================================================
