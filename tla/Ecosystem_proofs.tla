-------------------------- MODULE Ecosystem_proofs --------------------------
(***************************************************************************)
(* Theorems about the programs around ResilientDB that copy its blocks,    *)
(* for every value of their constants.                                     *)
(*                                                                         *)
(* The history table (HistorySync): no gap and one row per block, for any  *)
(* number of blocks, syncs, failures and crashes and any batch size.       *)
(*                                                                         *)
(* The node cache (NodeCache): no gap below the blocks that the scans      *)
(* still have in hand, for any number of scans, workers, failures and      *)
(* restarts.                                                               *)
(***************************************************************************)
EXTENDS Integers, HistorySync, CachePart, WellFoundedInduction, TLAPS

-----------------------------------------------------------------------------
(* No gap in the history table *)

\* The end of a batch is a number of the loop: Math.min of its two bounds.
LEMMA EndOfBatch ==
  ASSUME NEW a \in Int, NEW b \in Int
  PROVE  Min({a, b}) = IF a <= b THEN a ELSE b
<1> DEFINE m == IF a <= b THEN a ELSE b
<1>1. m \in {a, b} /\ \A y \in {a, b} : m =< y OBVIOUS
<1>2. \A x \in {a, b} : (\A y \in {a, b} : x =< y) => x = m OBVIOUS
<1> QED BY Zenon, <1>1, <1>2 DEF Min

\* MAX(block_id) of a table without gaps is the number of its blocks.
LEMMA MaxOfRows ==
  ASSUME NEW k \in Nat
  PROVE  Max((1 .. k) \cup {0}) = k
<1> DEFINE S == (1 .. k) \cup {0}
<1>1. k \in S /\ \A y \in S : k >= y OBVIOUS
<1>2. \A x \in S : (\A y \in S : x >= y) => x = k OBVIOUS
<1> QED BY Zenon, <1>1, <1>2 DEF Max

\* The service starts with an empty table and no sync.
LEMMA InitInOrder == Init => RowsInOrder
<1> SUFFICES ASSUME Init PROVE RowsInOrder BY Zenon
<1>1. Range(rows) = 1 .. 0 BY DEF Init, Range
<1>2. getLastProcessedBlockId = 0 BY Zenon, <1>1, MaxOfRows DEF getLastProcessedBlockId
<1>3. sync \in [Syncs -> Sync] BY DEF Init, Idle, Sync
<1>4. \A s \in Syncs : InStep(s, 0) BY DEF Init, Idle, InStep
<1>5. chain \in Nat BY HistoryAssumption DEF Init
<1>6. rows \in Seq(Nat) BY DEF Init
<1> QED BY Zenon, <1>1, <1>2, <1>3, <1>4, <1>5, <1>6 DEF RowsInOrder

\* The end of a batch and the block stored next are numbers.
LEMMA BatchTypes ==
  ASSUME RowsInOrder, ~short, NEW s \in Syncs
  PROVE  /\ currentEnd(s) = IF sync[s].start + BATCH_SIZE - 1 <= sync[s].total
                             THEN sync[s].start + BATCH_SIZE - 1 ELSE sync[s].total
         /\ currentEnd(s) \in Int /\ nextBlock(s) \in Int
         /\ sync[s] \in Sync
<1>1. sync[s] \in Sync BY Zenon DEF RowsInOrder
<1>2. sync[s].start + BATCH_SIZE - 1 \in Int /\ sync[s].total \in Int
      /\ Len(sync[s].batch) \in Nat
  BY <1>1, HistoryAssumption DEF Sync
<1> QED BY <1>1, <1>2, EndOfBatch DEF currentEnd, nextBlock

\* Setting a field of a sync to a value of its type leaves it a sync.
LEMMA SetField ==
  ASSUME NEW r \in Sync, NEW n \in Nat
  PROVE  /\ \A p \in {"idle", "total", "fetch", "store"} : [r EXCEPT !.pc = p] \in Sync
         /\ \A b \in BOOLEAN : [r EXCEPT !.initial = b] \in Sync
         /\ [r EXCEPT !.last = n] \in Sync
         /\ [r EXCEPT !.total = n] \in Sync
         /\ [r EXCEPT !.start = n] \in Sync
         /\ \A b \in Seq(Nat) : [r EXCEPT !.batch = b] \in Sync
BY Zenon DEF Sync

\* A step of one sync that leaves the table alone keeps the invariant if it
\* keeps that sync in step.
LEMMA OwnStep ==
  ASSUME RowsInOrder, ~short, chain' \in Nat, UNCHANGED rows,
         NEW s \in Syncs, NEW r \in Sync, sync' = [sync EXCEPT ![s] = r],
         InStep(s, getLastProcessedBlockId)'
  PROVE  RowsInOrder'
<1> DEFINE k == getLastProcessedBlockId
<1>1. k' = k /\ k \in Nat /\ Range(rows)' = 1 .. k
  BY Zenon DEF RowsInOrder, getLastProcessedBlockId
<1>2. sync' \in [Syncs -> Sync] BY Zenon DEF RowsInOrder
<1>3. ASSUME NEW t \in Syncs PROVE InStep(t, k)'
  <2>1. CASE t = s BY Zenon, <2>1
  <2>2. CASE t # s
    <3>1. sync'[t] = sync[t] BY Zenon, <2>2 DEF RowsInOrder
    <3>2. InStep(t, k) BY Zenon DEF RowsInOrder
    <3>3. k' = k BY Zenon, <1>1
    <3> QED BY Zenon, <3>1, <3>2, <3>3 DEF InStep, nextBlock, currentEnd
  <2> QED BY Zenon, <2>1, <2>2
<1> QED BY Zenon, <1>1, <1>2, <1>3 DEF RowsInOrder

\* A sync that ends is in step.
LEMMA EndInOrder ==
  ASSUME RowsInOrder, ~short, NEW s \in Syncs, EndOf(s), UNCHANGED <<chain, rows>>
  PROVE  RowsInOrder'
<1>1. sync' = [sync EXCEPT ![s] = Idle] BY Zenon DEF EndOf
<1>2. Idle \in Sync BY DEF Idle, Sync
<1>3. sync'[s] = Idle BY Zenon, <1>1 DEF RowsInOrder
<1>4. getLastProcessedBlockId' \in Nat BY Zenon DEF RowsInOrder, getLastProcessedBlockId
<1>5. InStep(s, getLastProcessedBlockId)' BY <1>3, <1>4 DEF InStep, Idle
<1>6. chain' \in Nat BY Zenon DEF RowsInOrder
<1> QED BY Zenon, <1>1, <1>2, <1>5, <1>6, OwnStep

\* A sync that starts continues after the greatest block of the table.
LEMMA StartInOrder ==
  ASSUME RowsInOrder, ~short, NEW s \in Syncs, NEW initial \in BOOLEAN,
         StartSync(s, initial), UNCHANGED <<chain, rows>>
  PROVE  RowsInOrder'
<1> DEFINE k == getLastProcessedBlockId
           r == [Idle EXCEPT !.pc = "total", !.initial = initial, !.last = k]
<1>1. sync' = [sync EXCEPT ![s] = r] BY Zenon DEF StartSync
<1>2. k \in Nat /\ k' = k BY Zenon DEF RowsInOrder, getLastProcessedBlockId
<1>3. r \in Sync
  <2>1. Idle \in Sync BY DEF Idle, Sync
  <2>2. [Idle EXCEPT !.pc = "total"] \in Sync BY Zenon, <2>1, SetField
  <2>3. [Idle EXCEPT !.pc = "total", !.initial = initial] \in Sync BY Zenon, <2>2, SetField
  <2> QED BY Zenon, <1>2, <2>3, SetField
<1>4. sync'[s] = r BY Zenon, <1>1 DEF RowsInOrder
<1>5. r.pc = "total" /\ r.last = k BY Zenon DEF Idle
<1>6. InStep(s, k)'
  <2>1. sync'[s].pc = "total" /\ sync'[s].last = k /\ k' = k /\ k \in Nat
    BY Zenon, <1>2, <1>4, <1>5
  <2> HIDE DEF k, r
  <2> QED BY <2>1 DEF InStep
<1>7. chain' \in Nat BY Zenon DEF RowsInOrder
<1> QED BY Zenon, <1>1, <1>3, <1>6, <1>7, OwnStep

\* The number of blocks starts the batches after the last block.
LEMMA TotalInOrder ==
  ASSUME RowsInOrder, ~short, NEW s \in Syncs, getTotalBlocks(s)
  PROVE  RowsInOrder'
<1> DEFINE k == getLastProcessedBlockId
<1>1. CASE sync[s].last < chain
  <2> DEFINE r == [sync[s] EXCEPT !.pc = "fetch", !.total = chain,
                                  !.start = sync[s].last + 1]
  <2>1. sync' = [sync EXCEPT ![s] = r] BY Zenon, <1>1 DEF getTotalBlocks, RowsInOrder
  <2>2. sync[s] \in Sync /\ chain \in Nat /\ sync[s].last <= k /\ k \in Nat
    BY Zenon DEF RowsInOrder, InStep
  <2>3. r \in Sync
    <3>1. [sync[s] EXCEPT !.pc = "fetch"] \in Sync BY Zenon, <2>2, SetField
    <3>2. [sync[s] EXCEPT !.pc = "fetch", !.total = chain] \in Sync BY Zenon, <2>2, <3>1, SetField
    <3>3. sync[s].last + 1 \in Nat BY <2>2 DEF Sync
    <3> QED BY Zenon, <3>2, <3>3, SetField
  <2>4. sync'[s] = r BY Zenon, <2>1 DEF RowsInOrder
  <2>5. rows' = rows /\ chain' = chain BY Zenon DEF getTotalBlocks
  <2>6. k' = k BY Zenon, <2>5 DEF getLastProcessedBlockId
  <2>7. /\ sync'[s].pc = "fetch" /\ sync'[s].total = chain
        /\ sync'[s].start = sync[s].last + 1 /\ sync'[s].last = sync[s].last
        /\ sync[s].last \in Nat
    BY Zenon, <2>2, <2>4 DEF Sync
  <2>8. InStep(s, k)'
    <3> HIDE DEF k, r
    <3> QED BY <1>1, <2>2, <2>6, <2>7 DEF InStep
  <2> QED BY Zenon, <2>1, <2>2, <2>3, <2>5, <2>8, OwnStep
<1>2. CASE ~(sync[s].last < chain)
  BY Zenon, <1>2, EndInOrder DEF getTotalBlocks
<1> QED BY Zenon, <1>1, <1>2

\* Without a short answer the batch is the blocks of its range.
LEMMA FetchInOrder ==
  ASSUME RowsInOrder, ~short, ~short', NEW s \in Syncs, fetchBlockRange(s)
  PROVE  RowsInOrder'
<1> DEFINE k == getLastProcessedBlockId
           e == currentEnd(s)
           n == e - sync[s].start + 1
           batch == [i \in 1 .. n |-> sync[s].start + i - 1]
           r == [sync[s] EXCEPT !.pc = "store", !.batch = batch]
<1>1. sync[s] \in Sync /\ k \in Nat /\ InStep(s, k) /\ sync[s].pc = "fetch"
  BY Zenon DEF RowsInOrder, fetchBlockRange
<1>2. sync[s].start \in 1 .. sync[s].total /\ sync[s].start <= k + 1
      /\ sync[s].start \in Nat /\ sync[s].total \in Nat
  BY Zenon, <1>1 DEF InStep, Sync
<1>3. e \in Int /\ e >= sync[s].start
  BY <1>2, BatchTypes, HistoryAssumption
<1>4. PICK last \in sync[s].start - 1 .. e :
        /\ short' = (short \/ last < e)
        /\ sync' = [sync EXCEPT ![s].pc = "store",
                ![s].batch = [i \in 1 .. last - sync[s].start + 1 |->
                                sync[s].start + i - 1]]
  BY Zenon DEF fetchBlockRange
<1>5. last = e
  <2>1. ~(last < e) BY Zenon, <1>4
  <2> HIDE DEF e
  <2> QED BY <1>2, <1>3, <2>1
<1>6. sync' = [sync EXCEPT ![s] = r] BY Zenon, <1>4, <1>5 DEF RowsInOrder
<1>7. n \in Nat /\ batch \in Seq(Nat) /\ Len(batch) = n
  <2>1. n \in Nat BY <1>2, <1>3
  <2>2. \A i \in 1 .. n : sync[s].start + i - 1 \in Nat BY <1>2, <2>1
  <2> HIDE DEF n
  <2>3. batch \in [1 .. n -> Nat] BY Zenon, <2>2
  <2> QED BY <2>1, <2>3
<1>8. r \in Sync BY Zenon, <1>1, <1>7 DEF Sync
<1>9. sync'[s] = r BY Zenon, <1>6 DEF RowsInOrder
<1>10. rows' = rows /\ chain' = chain /\ chain \in Nat BY Zenon DEF fetchBlockRange, RowsInOrder
<1>11. k' = k BY Zenon, <1>10 DEF getLastProcessedBlockId
<1>12. InStep(s, k)'
  <2>1. /\ sync'[s].pc = "store" /\ sync'[s].batch = batch
        /\ sync'[s].start = sync[s].start /\ sync'[s].total = sync[s].total
        /\ sync'[s].last = sync[s].last
    BY Zenon, <1>1, <1>9 DEF Sync
  <2>2. currentEnd(s)' = e BY Zenon, <2>1 DEF currentEnd
  <2>3. nextBlock(s)' = sync[s].start
    <3> HIDE DEF e, batch
    <3> QED BY <1>2, <1>3, <1>7, <2>1, <2>2 DEF nextBlock
  <2>4. \A i \in 1 .. n : batch[i] = sync[s].start + i - 1 BY Zenon
  <2>5. sync[s].last <= k BY Zenon, <1>1 DEF InStep
  <2> HIDE DEF k, e, n, batch, r
  <2> QED BY <1>1, <1>2, <1>7, <1>11, <2>1, <2>3, <2>4, <2>5 DEF InStep
<1> QED BY Zenon, <1>6, <1>8, <1>10, <1>12, OwnStep

\* The next batch starts one block after the batch that is stored.
LEMMA NextBatchInOrder ==
  ASSUME RowsInOrder, ~short, NEW s \in Syncs, nextBatch(s)
  PROVE  RowsInOrder'
<1> DEFINE k == getLastProcessedBlockId
           e == currentEnd(s)
<1>1. CASE e < sync[s].total
  <2> DEFINE r == [sync[s] EXCEPT !.pc = "fetch", !.start = e + 1]
  <2>1. sync' = [sync EXCEPT ![s] = r] BY Zenon, <1>1 DEF nextBatch, RowsInOrder
  <2>2. sync[s] \in Sync /\ k \in Nat /\ InStep(s, k) /\ sync[s].pc = "store"
        /\ sync[s].batch = <<>> /\ chain \in Nat
    BY Zenon DEF RowsInOrder, nextBatch
  <2>3. e \in Int /\ nextBlock(s) = e + 1 BY <2>2, BatchTypes DEF nextBlock
  <2>4. nextBlock(s) \in 1 .. k + 1 /\ sync[s].last <= k BY Zenon, <2>2 DEF InStep
  <2>5. e + 1 \in 1 .. k + 1 /\ e + 1 \in Nat /\ e + 1 <= sync[s].total
    <3>1. sync[s].total \in Nat BY Zenon, <2>2 DEF Sync
    <3> HIDE DEF e, k
    <3> QED BY <1>1, <2>2, <2>3, <2>4, <3>1
  <2>6. r \in Sync
    <3>1. [sync[s] EXCEPT !.pc = "fetch"] \in Sync BY Zenon, <2>2, SetField
    <3> QED BY Zenon, <2>5, <3>1, SetField
  <2>7. sync'[s] = r BY Zenon, <2>1 DEF RowsInOrder
  <2>8. rows' = rows /\ chain' = chain BY Zenon DEF nextBatch
  <2>9. k' = k BY Zenon, <2>8 DEF getLastProcessedBlockId
  <2>10. InStep(s, k)'
    <3>1. /\ sync'[s].pc = "fetch" /\ sync'[s].start = e + 1
          /\ sync'[s].total = sync[s].total /\ sync'[s].last = sync[s].last
          /\ sync[s].total \in Nat
      BY Zenon, <2>2, <2>7 DEF Sync
    <3> HIDE DEF k, e, r
    <3> QED BY <2>2, <2>4, <2>5, <2>9, <3>1 DEF InStep
  <2> QED BY Zenon, <2>1, <2>2, <2>6, <2>8, <2>10, OwnStep
<1>2. CASE ~(e < sync[s].total)
  BY Zenon, <1>2, EndInOrder DEF nextBatch
<1> QED BY Zenon, <1>1, <1>2

\* A row is of the block after the last one of the table, or of one that is
\* there: with overlapping syncs a block may get a second row, and no block
\* is passed over.
LEMMA InsertInOrder ==
  ASSUME RowsInOrder, ~short, NEW s \in Syncs, insertRow(s)
  PROVE  RowsInOrder'
<1> DEFINE k == getLastProcessedBlockId
           batch == sync[s].batch
           b == nextBlock(s)
           j == IF b = k + 1 THEN k + 1 ELSE k
           r == [sync[s] EXCEPT !.batch = Tail(batch)]
<1>1. /\ sync[s] \in Sync /\ k \in Nat /\ InStep(s, k) /\ sync[s].pc = "store"
      /\ batch # <<>> /\ chain \in Nat /\ chain' = chain
      /\ rows \in Seq(Nat) /\ Range(rows) = 1 .. k
  BY Zenon DEF RowsInOrder, insertRow
<1>2. batch \in Seq(Nat) /\ Len(batch) \in Nat /\ Len(batch) > 0
  BY <1>1 DEF Sync
<1>3. b \in 1 .. k + 1 /\ \A i \in 1 .. Len(batch) : batch[i] = b + i - 1
  BY Zenon, <1>1 DEF InStep
<1>4. Head(batch) = b /\ b \in Nat
  <2> HIDE DEF b, k, batch
  <2> QED BY <1>1, <1>2, <1>3
<1>5. rows' = Append(rows, b) BY Zenon, <1>4 DEF insertRow
<1>6. j \in Nat /\ k <= j /\ b <= j BY <1>1, <1>3
<1>7. Range(rows)' = 1 .. j
  <2>1. Range(rows)' = Range(rows) \cup {b}
    <3>1. DOMAIN rows = 1 .. Len(rows) /\ DOMAIN rows' = 1 .. Len(rows) + 1
          /\ Len(rows) \in Nat
      BY <1>1, <1>4, <1>5
    <3>2. rows'[Len(rows) + 1] = b /\ \A i \in 1 .. Len(rows) : rows'[i] = rows[i]
      BY <1>1, <1>4, <1>5
    <3> HIDE DEF b
    <3> QED BY <3>1, <3>2 DEF Range
  <2> HIDE DEF b, k
  <2> QED BY <1>1, <1>3, <1>4, <2>1
<1>8. k' = j
  <2>1. Max((1 .. j) \cup {0}) = j BY Zenon, <1>6, MaxOfRows
  <2>2. k' = Max(Range(rows)' \cup {0}) BY Zenon DEF getLastProcessedBlockId
  <2> HIDE DEF j, k
  <2> QED BY Zenon, <1>7, <2>1, <2>2
<1>9. rows' \in Seq(Nat) BY <1>1, <1>4, <1>5
<1>10. Tail(batch) \in Seq(Nat) /\ Len(Tail(batch)) = Len(batch) - 1
       /\ \A i \in 1 .. Len(batch) - 1 : Tail(batch)[i] = batch[i + 1]
  <2> HIDE DEF batch
  <2> QED BY <1>1, <1>2
<1>11. sync' = [sync EXCEPT ![s] = r] BY Zenon DEF insertRow, RowsInOrder
<1>12. r \in Sync BY Zenon, <1>1, <1>10, SetField
<1>13. sync' \in [Syncs -> Sync] BY Zenon, <1>11, <1>12 DEF RowsInOrder
<1>14. PICK m \in Nat : m = j BY Zenon, <1>6
<1>15. k' = m /\ k <= m /\ b <= m BY Zenon, <1>6, <1>8, <1>14
<1>16. ASSUME NEW t \in Syncs PROVE InStep(t, m)'
  <2>1. CASE t = s
    <3>1. sync'[s] = r BY Zenon, <1>11 DEF RowsInOrder
    <3>2. /\ sync'[s].pc = "store" /\ sync'[s].batch = Tail(batch)
          /\ sync'[s].start = sync[s].start /\ sync'[s].total = sync[s].total
          /\ sync'[s].last = sync[s].last
      BY Zenon, <1>1, <3>1 DEF Sync
    <3>3. currentEnd(s)' = currentEnd(s) BY Zenon, <3>2 DEF currentEnd
    <3>4. currentEnd(s) \in Int BY Zenon, BatchTypes
    <3>5. nextBlock(s)' = b + 1
      BY <1>2, <1>10, <3>2, <3>3, <3>4 DEF nextBlock
    <3>6. \A i \in 1 .. Len(Tail(batch)) : Tail(batch)[i] = (b + 1) + i - 1
      <4> HIDE DEF b, batch
      <4> QED BY <1>2, <1>3, <1>4, <1>10
    <3>7. sync[s].last <= k /\ sync[s].start \in 1 .. sync[s].total /\ sync[s].last \in Nat
      BY Zenon, <1>1 DEF InStep, Sync
    <3>8. b + 1 \in 1 .. m + 1 /\ sync[s].last <= m
      <4> HIDE DEF b, k
      <4> QED BY <1>1, <1>4, <1>15, <3>7
    <3> HIDE DEF b, k, j, r, batch
    <3> QED BY Zenon, <2>1, <3>2, <3>5, <3>6, <3>7, <3>8 DEF InStep
  <2>2. CASE t # s
    <3>1. sync'[t] = sync[t] BY Zenon, <1>11, <2>2 DEF RowsInOrder
    <3>2. InStep(t, k) /\ sync[t] \in Sync BY Zenon DEF RowsInOrder
    <3>3. nextBlock(t)' = nextBlock(t) /\ nextBlock(t) \in Int
      BY Zenon, <3>1, BatchTypes DEF nextBlock, currentEnd
    <3> HIDE DEF k
    <3>4. sync[t].last \in Nat /\ sync[t].start \in Nat BY Zenon, <3>2 DEF Sync
    <3>5. sync[t].last <= m BY <1>1, <1>15, <3>2, <3>4 DEF InStep
    <3>6. sync[t].pc = "fetch" => sync[t].start <= m + 1
      BY <1>1, <1>15, <3>2, <3>4 DEF InStep
    <3>7. sync[t].pc = "store" => nextBlock(t) \in 1 .. m + 1
      BY <1>1, <1>15, <3>2, <3>3 DEF InStep
    <3>8. /\ sync[t].pc \in {"fetch", "store"} => sync[t].start \in 1 .. sync[t].total
          /\ sync[t].pc = "store" => \A i \in 1 .. Len(sync[t].batch) :
                sync[t].batch[i] = nextBlock(t) + i - 1
      BY Zenon, <3>2 DEF InStep
    <3> QED BY Zenon, <3>1, <3>3, <3>5, <3>6, <3>7, <3>8 DEF InStep
  <2> QED BY Zenon, <2>1, <2>2
<1>17. Range(rows)' = 1 .. m BY Zenon, <1>7, <1>14
<1> HIDE DEF b, k, j, r, batch
<1> QED BY Zenon, <1>1, <1>9, <1>13, <1>15, <1>16, <1>17 DEF RowsInOrder, k

\* Every step of the service keeps the syncs in step with the table.
LEMMA NextInOrder ==
  ASSUME RowsInOrder, [Next]_vars
  PROVE  RowsInOrder'
<1> SUFFICES ASSUME ~short' PROVE RowsInOrder' BY Zenon DEF RowsInOrder
<1>1. ~short
  BY Zenon DEF Next, vars, NewBlock, initSyncService, cronTick, runOnce, Step, StartSync,
         getTotalBlocks, fetchBlockRange, insertRow, nextBatch, syncFails, Crash
<1>2. CASE NewBlock
  <2>1. chain' \in Nat /\ UNCHANGED <<rows, sync>> BY <1>1, <1>2 DEF NewBlock, RowsInOrder
  <2> QED BY Zenon, <1>1, <2>1
      DEF RowsInOrder, InStep, nextBlock, currentEnd, getLastProcessedBlockId
<1>3. CASE initSyncService BY Zenon, <1>1, <1>3, StartInOrder DEF initSyncService
<1>4. CASE cronTick BY Zenon, <1>1, <1>4, StartInOrder DEF cronTick
<1>5. CASE runOnce BY Zenon, <1>1, <1>5, StartInOrder DEF runOnce
<1>6. ASSUME NEW s \in Syncs, Step(s) PROVE RowsInOrder'
  BY Zenon, <1>1, <1>6, TotalInOrder, FetchInOrder, InsertInOrder, NextBatchInOrder DEF Step
<1>7. CASE syncFails BY Zenon, <1>1, <1>7, EndInOrder DEF syncFails
<1>8. CASE Crash
  <2>1. sync' = [s \in Syncs |-> Idle] /\ UNCHANGED <<chain, rows>> BY Zenon, <1>8 DEF Crash
  <2>2. Idle \in Sync BY DEF Idle, Sync
  <2>3. sync' \in [Syncs -> Sync] BY Zenon, <2>1, <2>2
  <2>4. getLastProcessedBlockId' = getLastProcessedBlockId
        /\ getLastProcessedBlockId \in Nat
    BY Zenon, <1>1, <2>1 DEF getLastProcessedBlockId, RowsInOrder
  <2>5. \A s \in Syncs : InStep(s, getLastProcessedBlockId)'
    BY <2>1, <2>4 DEF InStep, Idle
  <2> QED BY Zenon, <1>1, <2>1, <2>3, <2>4, <2>5 DEF RowsInOrder
<1>9. CASE UNCHANGED vars
  BY Zenon, <1>9 DEF vars, RowsInOrder, InStep, nextBlock, currentEnd, getLastProcessedBlockId
<1> QED BY Zenon, <1>2, <1>3, <1>4, <1>5, <1>6, <1>7, <1>8, <1>9 DEF Next

\* The invariant that every sync continues where the table ends or before
\* holds throughout, with any number of syncs of syncTransactionHistory at
\* once, failures and ends of the process.
THEOREM SyncsInOrder == Spec => []RowsInOrder
<1>1. Init => RowsInOrder BY Zenon, InitInOrder
<1>2. RowsInOrder /\ [Next]_vars => RowsInOrder' BY Zenon, NextInOrder
<1> QED BY <1>1, <1>2, PTL DEF Spec

\* The history table has no gap: as long as the explorer answers with the
\* blocks asked for, every block up to the greatest one of the table has a
\* row, so starting after MAX(block_id) never passes over a block.
THEOREM NoGapInHistory == Spec => []NoMissingBlock
<1>1. RowsInOrder => NoMissingBlock BY Zenon DEF RowsInOrder, NoMissingBlock
<1> QED BY <1>1, SyncsInOrder, PTL

-----------------------------------------------------------------------------
(* One row per block *)

\* A set of naturals has a smallest element.
LEMMA Smallest ==
  ASSUME NEW S \in SUBSET Nat, S # {}
  PROVE  \E m \in S : \A k \in S : m <= k
<1>1. PICK x \in S : \A y \in S : ~(<<y, x>> \in OpToRel(<, Nat))
  BY WFMin, NatLessThanWellFounded, Zenon
<1>2. \A y \in S : ~(y < x) BY <1>1, Zenon DEF OpToRel
<1> QED BY <1>2

\* A bounded set of naturals has a greatest element: MAX(block_id).
LEMMA MaxOfBounded ==
  ASSUME NEW c \in Nat, NEW S \in SUBSET (0 .. c), S # {}
  PROVE  Max(S) \in S /\ \A y \in S : Max(S) >= y
<1> DEFINE B == {m \in Nat : \A y \in S : y <= m}
<1>1. c \in B OBVIOUS
<1>2. B \in SUBSET Nat /\ B # {} BY Zenon, <1>1
<1>3. PICK m \in B : \A k \in B : m <= k BY Zenon, <1>2, Smallest
<1>4. m \in Nat /\ \A y \in S : y \in Nat /\ y <= m BY <1>3
<1>5. m \in S
  <2> SUFFICES ASSUME m \notin S PROVE FALSE BY Zenon
  <2>1. \A y \in S : y < m BY <1>4
  <2>2. m - 1 \in Nat
    <3>1. PICK y \in S : TRUE BY Zenon
    <3>2. y \in Nat /\ y < m /\ m \in Nat BY Zenon, <1>4, <2>1, <3>1
    <3> HIDE DEF B
    <3> QED BY <3>2
  <2>3. m - 1 \in B BY <1>4, <2>1, <2>2
  <2> QED BY <1>3, <1>4, <2>2, <2>3
<1>6. \E x \in S : \A y \in S : x >= y BY Zenon, <1>4, <1>5
<1> HIDE DEF B
<1> QED BY Zenon, <1>6 DEF Max

\* A sync stays within the range it asked for, and its batch is in order.
Within(s) ==
  /\ sync[s].last <= chain /\ sync[s].total <= chain
  /\ sync[s].pc \in {"fetch", "store"} => sync[s].start \in 1 .. sync[s].total
  /\ sync[s].pc = "store" =>
       /\ \A i \in 1 .. Len(sync[s].batch) : sync[s].batch[i] \in 1 .. currentEnd(s)
       /\ \A i, j \in 1 .. Len(sync[s].batch) : i < j => sync[s].batch[i] < sync[s].batch[j]

\* What a sync is to store comes after every row of the table.
Ahead(s) ==
  \A n \in 1 .. Len(rows) :
    /\ sync[s].pc = "total" => rows[n] <= sync[s].last
    /\ sync[s].pc = "fetch" => rows[n] < sync[s].start
    /\ sync[s].pc = "store" =>
         /\ rows[n] <= currentEnd(s)
         /\ \A i \in 1 .. Len(sync[s].batch) : rows[n] < sync[s].batch[i]

\* The types, and that syncs stay within their ranges, whatever fails.
RangeInv ==
  /\ chain \in 0 .. MaxBlock
  /\ rows \in Seq(1 .. chain)
  /\ sync \in [Syncs -> Sync]
  /\ phase \in {"off", "initial", "scheduled"}
  /\ failures \in 0 .. MaxFailures /\ crashes \in 0 .. MaxCrashes
  /\ short \in BOOLEAN /\ overlapped \in BOOLEAN
  /\ \A s \in Syncs : Within(s)

\* While no two syncs overlapped, one runs at most, and it is ahead of the
\* table, short answers or not.
SingleInv ==
  ~overlapped =>
    /\ \A m, n \in 1 .. Len(rows) : rows[m] = rows[n] => m = n
    /\ \A s, t \in Syncs : sync[s].pc # "idle" /\ sync[t].pc # "idle" => s = t
    /\ \A s \in Syncs : Ahead(s)

OnceInv == RangeInv /\ SingleInv

\* The end of a batch is within the range of the sync.
LEMMA EndInRange ==
  ASSUME RangeInv, NEW s \in Syncs
  PROVE  /\ currentEnd(s) = IF sync[s].start + BATCH_SIZE - 1 <= sync[s].total
                             THEN sync[s].start + BATCH_SIZE - 1 ELSE sync[s].total
         /\ currentEnd(s) \in Int /\ currentEnd(s) <= sync[s].total
         /\ sync[s] \in Sync /\ sync[s].total \in Nat /\ sync[s].start \in Nat
         /\ sync[s].last \in Nat /\ chain \in Nat /\ Len(sync[s].batch) \in Nat
         /\ sync[s].start \in 1 .. sync[s].total => currentEnd(s) >= sync[s].start
<1>1. sync[s] \in Sync /\ chain \in Nat BY HistoryAssumption DEF RangeInv
<1>2. /\ sync[s].start \in Nat /\ sync[s].total \in Nat /\ sync[s].last \in Nat
      /\ Len(sync[s].batch) \in Nat
  BY <1>1 DEF Sync
<1>3. sync[s].start + BATCH_SIZE - 1 \in Int /\ sync[s].total \in Int
  BY <1>2, HistoryAssumption
<1>4. currentEnd(s) = IF sync[s].start + BATCH_SIZE - 1 <= sync[s].total
                      THEN sync[s].start + BATCH_SIZE - 1 ELSE sync[s].total
  BY Zenon, <1>3, EndOfBatch DEF currentEnd
<1> QED BY <1>1, <1>2, <1>3, <1>4, HistoryAssumption

\* MAX(block_id) is a block of the chain, or 0, and no row is of a later one.
LEMMA LastProcessed ==
  ASSUME RangeInv
  PROVE  /\ getLastProcessedBlockId \in 0 .. chain
         /\ \A n \in 1 .. Len(rows) : rows[n] <= getLastProcessedBlockId
<1> DEFINE S == Range(rows) \cup {0}
<1>1. chain \in Nat /\ rows \in Seq(1 .. chain) BY HistoryAssumption DEF RangeInv
<1>2. \A n \in 1 .. Len(rows) : rows[n] \in 1 .. chain /\ rows[n] \in S
  BY <1>1 DEF Range
<1>3. S \in SUBSET (0 .. chain) /\ S # {} BY <1>1, <1>2 DEF Range
<1>4. Max(S) \in S /\ \A y \in S : Max(S) >= y BY Zenon, <1>1, <1>3, MaxOfBounded
<1>5. getLastProcessedBlockId = Max(S) BY Zenon DEF getLastProcessedBlockId
<1>6. Max(S) \in 0 .. chain BY Zenon, <1>3, <1>4
<1> HIDE DEF S
<1> QED BY Zenon, <1>1, <1>2, <1>4, <1>5, <1>6

\* A step of one sync that leaves the table and the chain alone keeps the
\* invariant if that sync stays within its range and ahead of the table.
LEMMA OwnRange ==
  ASSUME OnceInv, UNCHANGED <<chain, rows>>,
         NEW s \in Syncs, NEW r \in Sync, sync' = [sync EXCEPT ![s] = r],
         phase' \in {"off", "initial", "scheduled"},
         failures' \in 0 .. MaxFailures, crashes' \in 0 .. MaxCrashes,
         short' \in BOOLEAN, overlapped' \in BOOLEAN,
         overlapped => overlapped',
         r.pc # "idle" /\ ~overlapped' =>
            \A t \in Syncs : t # s => sync[t].pc = "idle",
         Within(s)', ~overlapped' => Ahead(s)'
  PROVE  OnceInv'
<1>1. sync \in [Syncs -> Sync] /\ sync' \in [Syncs -> Sync] BY Zenon DEF OnceInv, RangeInv
<1>2. sync'[s] = r BY Zenon, <1>1
<1>3. \A t \in Syncs : t # s => sync'[t] = sync[t] BY Zenon, <1>1
<1>4. ASSUME NEW t \in Syncs, t # s PROVE Within(t)' /\ (~overlapped' => Ahead(t)')
  <2>1. sync'[t] = sync[t] /\ chain' = chain /\ rows' = rows BY Zenon, <1>3, <1>4
  <2>2. Within(t) /\ (~overlapped => Ahead(t)) BY Zenon DEF OnceInv, RangeInv, SingleInv
  <2>3. currentEnd(t)' = currentEnd(t) BY Zenon, <2>1 DEF currentEnd
  <2>4. Within(t)' BY Zenon, <2>1, <2>2, <2>3 DEF Within
  <2>5. ~overlapped' => Ahead(t)' BY Zenon, <2>1, <2>2, <2>3 DEF Ahead
  <2> QED BY Zenon, <2>4, <2>5
<1>5. \A t \in Syncs : Within(t)' /\ (~overlapped' => Ahead(t)') BY Zenon, <1>4
<1>6. RangeInv' BY Zenon, <1>1, <1>5 DEF OnceInv, RangeInv
<1>7. ASSUME ~overlapped', NEW t \in Syncs, NEW u \in Syncs,
             sync'[t].pc # "idle", sync'[u].pc # "idle"
      PROVE  t = u
  <2>1. \A x, y \in Syncs : sync[x].pc # "idle" /\ sync[y].pc # "idle" => x = y
    BY Zenon, <1>7 DEF OnceInv, SingleInv
  <2> QED BY Zenon, <1>2, <1>3, <1>7, <2>1
<1>8. SingleInv' BY Zenon, <1>5, <1>7 DEF OnceInv, SingleInv
<1> QED BY Zenon, <1>6, <1>8 DEF OnceInv

\* A sync that ends is within every range, and ahead of every table.
LEMMA EndOnce ==
  ASSUME OnceInv, NEW s \in Syncs, EndOf(s),
         UNCHANGED <<chain, rows, crashes, short, overlapped>>,
         failures' \in 0 .. MaxFailures
  PROVE  OnceInv'
<1>1. sync' = [sync EXCEPT ![s] = Idle] BY Zenon DEF EndOf
<1>2. Idle \in Sync /\ Idle.pc = "idle" /\ Idle.last = 0 /\ Idle.total = 0 BY DEF Idle, Sync
<1>3. sync'[s] = Idle /\ chain' = chain /\ chain \in Nat
  BY <1>1, HistoryAssumption DEF OnceInv, RangeInv
<1>4. Within(s)' BY <1>2, <1>3 DEF Within
<1>5. Ahead(s)' BY Zenon, <1>2, <1>3 DEF Ahead
<1>6. phase' \in {"off", "initial", "scheduled"} BY Zenon DEF EndOf, OnceInv, RangeInv
<1>7. crashes' \in 0 .. MaxCrashes /\ short' \in BOOLEAN /\ overlapped' \in BOOLEAN
  BY Zenon DEF OnceInv, RangeInv
<1> QED BY Zenon, <1>1, <1>2, <1>4, <1>5, <1>6, <1>7, OwnRange

\* A sync that starts while none runs has every row behind it.
LEMMA StartOnce ==
  ASSUME OnceInv, NEW s \in Syncs, NEW initial \in BOOLEAN,
         StartSync(s, initial), UNCHANGED <<chain, rows, failures, crashes, short>>,
         phase' \in {"off", "initial", "scheduled"}
  PROVE  OnceInv'
<1> DEFINE k == getLastProcessedBlockId
           r == [Idle EXCEPT !.pc = "total", !.initial = initial, !.last = k]
<1>1. sync' = [sync EXCEPT ![s] = r] BY Zenon DEF StartSync
<1>2. k \in 0 .. chain /\ (\A n \in 1 .. Len(rows) : rows[n] <= k) /\ chain \in Nat
  BY LastProcessed, HistoryAssumption DEF OnceInv, RangeInv
<1>3. r \in Sync
  <2>1. Idle \in Sync BY DEF Idle, Sync
  <2>2. [Idle EXCEPT !.pc = "total"] \in Sync BY Zenon, <2>1, SetField
  <2>3. [Idle EXCEPT !.pc = "total", !.initial = initial] \in Sync BY Zenon, <2>2, SetField
  <2>4. k \in Nat BY <1>2
  <2> QED BY Zenon, <2>3, <2>4, SetField
<1>4. sync'[s] = r BY Zenon, <1>1 DEF OnceInv, RangeInv
<1>5. r.pc = "total" /\ r.last = k /\ r.total = 0 BY Zenon DEF Idle
<1> HIDE DEF k, r
<1>6. Within(s)' BY <1>2, <1>4, <1>5 DEF Within
<1>7. Ahead(s)' BY Zenon, <1>2, <1>4, <1>5 DEF Ahead
<1>8. overlapped' = (overlapped \/ \E t \in Syncs : sync[t].pc # "idle")
  BY Zenon DEF StartSync
<1>9. overlapped' \in BOOLEAN BY Zenon, <1>8 DEF OnceInv, RangeInv
<1>10. failures' \in 0 .. MaxFailures /\ crashes' \in 0 .. MaxCrashes /\ short' \in BOOLEAN
  BY Zenon DEF OnceInv, RangeInv
<1> QED BY Zenon, <1>1, <1>3, <1>6, <1>7, <1>8, <1>9, <1>10, OwnRange

\* A sync that runs is the only one, while none overlapped.
LEMMA OnlyOne ==
  ASSUME OnceInv, ~overlapped, NEW s \in Syncs, sync[s].pc # "idle"
  PROVE  \A t \in Syncs : t # s => sync[t].pc = "idle"
BY Zenon DEF OnceInv, SingleInv

\* The number of blocks starts the batches after the last row.
LEMMA TotalOnce ==
  ASSUME OnceInv, NEW s \in Syncs, getTotalBlocks(s)
  PROVE  OnceInv'
<1>1. CASE sync[s].last < chain
  <2> DEFINE r == [sync[s] EXCEPT !.pc = "fetch", !.total = chain,
                                  !.start = sync[s].last + 1]
  <2>1. sync' = [sync EXCEPT ![s] = r] BY Zenon, <1>1 DEF getTotalBlocks, OnceInv, RangeInv
  <2>2. /\ sync[s] \in Sync /\ chain \in Nat /\ sync[s].last \in Nat
        /\ sync[s].pc = "total" /\ Within(s)
    BY Zenon, EndInRange DEF OnceInv, RangeInv, getTotalBlocks
  <2>3. r \in Sync
    <3>1. [sync[s] EXCEPT !.pc = "fetch"] \in Sync BY Zenon, <2>2, SetField
    <3>2. [sync[s] EXCEPT !.pc = "fetch", !.total = chain] \in Sync BY Zenon, <2>2, <3>1, SetField
    <3>3. sync[s].last + 1 \in Nat BY <2>2
    <3> QED BY Zenon, <3>2, <3>3, SetField
  <2>4. sync'[s] = r BY Zenon, <2>1 DEF OnceInv, RangeInv
  <2>5. /\ sync'[s].pc = "fetch" /\ sync'[s].total = chain
        /\ sync'[s].start = sync[s].last + 1 /\ sync'[s].last = sync[s].last
    BY Zenon, <2>2, <2>4 DEF Sync
  <2>6. UNCHANGED <<chain, rows, phase, failures, crashes, short, overlapped>>
    BY Zenon, <1>1 DEF getTotalBlocks
  <2> HIDE DEF r
  <2>7. Within(s)' BY SMTT(30), <1>1, <2>2, <2>5, <2>6 DEF Within
  <2>8. ASSUME ~overlapped PROVE Ahead(s)'
    <3>1. Ahead(s) BY Zenon, <2>8 DEF OnceInv, SingleInv
    <3>2. \A n \in 1 .. Len(rows) : rows[n] <= sync[s].last BY Zenon, <2>2, <3>1 DEF Ahead
    <3>3. \A n \in 1 .. Len(rows) : rows[n] \in Nat BY <2>2 DEF OnceInv, RangeInv
    <3> QED BY <2>2, <2>5, <2>6, <3>2, <3>3 DEF Ahead
  <2>9. /\ phase' \in {"off", "initial", "scheduled"} /\ failures' \in 0 .. MaxFailures
        /\ crashes' \in 0 .. MaxCrashes /\ short' \in BOOLEAN /\ overlapped' \in BOOLEAN
    BY Zenon, <2>6 DEF OnceInv, RangeInv
  <2> QED BY Zenon, <2>1, <2>2, <2>3, <2>6, <2>7, <2>8, <2>9, OnlyOne, OwnRange
<1>2. CASE ~(sync[s].last < chain)
  BY Zenon, <1>2, EndOnce DEF getTotalBlocks, OnceInv, RangeInv
<1> QED BY Zenon, <1>1, <1>2

\* The blocks of a batch are those from its start on, in order.
LEMMA FetchOnce ==
  ASSUME OnceInv, NEW s \in Syncs, fetchBlockRange(s)
  PROVE  OnceInv'
<1> DEFINE e == currentEnd(s)
<1>1. /\ sync[s] \in Sync /\ sync[s].pc = "fetch" /\ Within(s) /\ sync[s].start \in Nat
      /\ sync[s].total \in Nat /\ e \in Int /\ e <= sync[s].total /\ e >= sync[s].start
      /\ chain \in Nat
  BY Zenon, EndInRange DEF OnceInv, RangeInv, fetchBlockRange, Within
<1>2. PICK last \in sync[s].start - 1 .. e :
        /\ last < e => failures < MaxFailures
        /\ failures' = IF last < e THEN failures + 1 ELSE failures
        /\ short' = (short \/ last < e)
        /\ sync' = [sync EXCEPT ![s].pc = "store",
                ![s].batch = [i \in 1 .. last - sync[s].start + 1 |->
                                sync[s].start + i - 1]]
  BY Zenon DEF fetchBlockRange
<1> DEFINE n == last - sync[s].start + 1
           batch == [i \in 1 .. n |-> sync[s].start + i - 1]
           r == [sync[s] EXCEPT !.pc = "store", !.batch = batch]
<1>3. n \in Nat /\ last \in Int BY <1>1, <1>2
<1>4. \A i \in 1 .. n : sync[s].start + i - 1 \in 1 .. e
  <2>1. \A a \in Nat : \A l, f \in Int :
          a >= 1 /\ l <= f => \A i \in 1 .. l - a + 1 : a + i - 1 \in 1 .. f
    OBVIOUS
  <2> HIDE DEF e
  <2>2. sync[s].start >= 1 BY <1>1 DEF Within
  <2>3. last <= e BY <1>1, <1>2
  <2> QED BY Zenon, <1>1, <1>3, <2>1, <2>2, <2>3
<1>5. batch \in Seq(Nat) /\ Len(batch) = n /\ \A i \in 1 .. n : batch[i] = sync[s].start + i - 1
  <2>1. \A i \in 1 .. n : sync[s].start + i - 1 \in Nat BY <1>1, <1>3
  <2> HIDE DEF n
  <2>2. batch \in [1 .. n -> Nat] BY Zenon, <2>1
  <2> QED BY <1>3, <2>2
<1>6. sync' = [sync EXCEPT ![s] = r] BY Zenon, <1>2 DEF OnceInv, RangeInv
<1>7. r \in Sync BY Zenon, <1>1, <1>5 DEF Sync
<1>8. sync'[s] = r BY Zenon, <1>6 DEF OnceInv, RangeInv
<1>9. /\ sync'[s].pc = "store" /\ sync'[s].batch = batch /\ sync'[s].start = sync[s].start
      /\ sync'[s].total = sync[s].total /\ sync'[s].last = sync[s].last
  BY Zenon, <1>1, <1>8 DEF Sync
<1>10. UNCHANGED <<chain, rows, phase, crashes, overlapped>> BY Zenon DEF fetchBlockRange
<1>11. currentEnd(s)' = e BY Zenon, <1>9 DEF currentEnd
<1>12. Within(s)'
  <2> HIDE DEF e, batch, n
  <2> QED BY SMTT(30), <1>1, <1>3, <1>4, <1>5, <1>9, <1>10, <1>11 DEF Within
<1>13. ASSUME ~overlapped PROVE Ahead(s)'
  <2>1. Ahead(s) BY Zenon, <1>13 DEF OnceInv, SingleInv
  <2>2. \A m \in 1 .. Len(rows) : rows[m] < sync[s].start BY Zenon, <1>1, <2>1 DEF Ahead
  <2>3. \A m \in 1 .. Len(rows) : rows[m] \in Nat BY <1>1 DEF OnceInv, RangeInv
  <2>4. \A a \in Nat, b \in Nat, f \in Int : a < b /\ f >= b => a <= f OBVIOUS
  <2>5. \A a \in Nat, b \in Nat : a < b => \A i \in Nat \ {0} : a < b + i - 1 OBVIOUS
  <2>6. \A i \in 1 .. n : i \in Nat \ {0} BY <1>3
  <2> HIDE DEF e, batch, n
  <2>7. \A m \in 1 .. Len(rows) : rows[m] <= e BY <1>1, <2>2, <2>3, <2>4, Zenon
  <2>8. \A m \in 1 .. Len(rows) : \A i \in 1 .. n : rows[m] < batch[i]
    BY Zenon, <1>1, <1>5, <2>2, <2>3, <2>5, <2>6
  <2> QED BY Zenon, <1>5, <1>9, <1>10, <1>11, <2>7, <2>8 DEF Ahead
<1>14. /\ phase' \in {"off", "initial", "scheduled"} /\ failures' \in 0 .. MaxFailures
       /\ crashes' \in 0 .. MaxCrashes /\ short' \in BOOLEAN /\ overlapped' \in BOOLEAN
  <2>1. failures' \in 0 .. MaxFailures
    <3> HIDE DEF e
    <3> QED BY <1>2, HistoryAssumption DEF OnceInv, RangeInv
  <2> QED BY Zenon, <1>2, <1>10, <2>1 DEF OnceInv, RangeInv
<1> HIDE DEF r
<1>15. r.pc # "idle" BY Zenon, <1>8, <1>9
<1> QED BY Zenon, <1>1, <1>6, <1>7, <1>10, <1>12, <1>13, <1>14, OnlyOne, OwnRange

\* A row is inserted for the next block of the batch, which comes after the
\* rows before it.
LEMMA InsertOnce ==
  ASSUME OnceInv, NEW s \in Syncs, insertRow(s)
  PROVE  OnceInv'
<1> DEFINE b == sync[s].batch
           r == [sync[s] EXCEPT !.batch = Tail(b)]
<1>1. /\ sync[s] \in Sync /\ sync[s].pc = "store" /\ Within(s) /\ sync[s].start \in Nat
      /\ sync[s].total \in Nat /\ currentEnd(s) \in Int /\ currentEnd(s) <= sync[s].total
      /\ chain \in Nat
  BY Zenon, EndInRange DEF OnceInv, RangeInv, insertRow
<1>2. b \in Seq(Nat) /\ b # <<>> BY Zenon, <1>1 DEF insertRow, Sync
<1>3. /\ Len(b) \in Nat /\ Len(b) >= 1 /\ Head(b) = b[1] /\ Tail(b) \in Seq(Nat)
      /\ Len(Tail(b)) = Len(b) - 1
      /\ \A i \in 1 .. Len(b) - 1 : Tail(b)[i] = b[i + 1]
  BY <1>2
<1>4. /\ \A i \in 1 .. Len(b) : b[i] \in 1 .. currentEnd(s)
      /\ \A i, j \in 1 .. Len(b) : i < j => b[i] < b[j]
  BY Zenon, <1>1 DEF Within
<1>5. sync' = [sync EXCEPT ![s] = r] BY Zenon DEF insertRow, OnceInv, RangeInv
<1>6. r \in Sync BY Zenon, <1>1, <1>3 DEF Sync
<1>7. sync \in [Syncs -> Sync] /\ sync' \in [Syncs -> Sync]
      /\ \A t \in Syncs : sync'[t] = IF t = s THEN r ELSE sync[t]
  BY Zenon, <1>5, <1>6 DEF OnceInv, RangeInv
<1>8. /\ sync'[s].pc = "store" /\ sync'[s].batch = Tail(b) /\ sync'[s].start = sync[s].start
      /\ sync'[s].total = sync[s].total /\ sync'[s].last = sync[s].last
  BY Zenon, <1>1, <1>7 DEF Sync
<1>9. UNCHANGED <<chain, phase, failures, crashes, short, overlapped>> BY Zenon DEF insertRow
<1>10. \A t \in Syncs : currentEnd(t)' = currentEnd(t)
  BY Zenon, <1>7, <1>8 DEF currentEnd
<1>11. rows \in Seq(1 .. chain) /\ rows' = Append(rows, b[1]) /\ b[1] \in 1 .. chain
  <2>1. b[1] \in 1 .. currentEnd(s) BY <1>3, <1>4
  <2>2. sync[s].total <= chain BY Zenon, <1>1 DEF Within
  <2>3. b[1] \in 1 .. chain BY <1>1, <2>1, <2>2
  <2> QED BY Zenon, <1>3, <2>3 DEF insertRow, OnceInv, RangeInv
<1>12. /\ Len(rows) \in Nat /\ Len(rows') = Len(rows) + 1 /\ rows' \in Seq(1 .. chain)
       /\ \A m \in 1 .. Len(rows) : rows'[m] = rows[m] /\ rows[m] \in Nat
       /\ rows'[Len(rows) + 1] = b[1]
  <2>1. /\ Len(rows) \in Nat /\ Len(rows') = Len(rows) + 1
        /\ \A m \in 1 .. Len(rows) : rows'[m] = rows[m]
        /\ rows'[Len(rows) + 1] = b[1]
    BY <1>11
  <2>2. \A m \in 1 .. Len(rows) : rows[m] \in Nat BY <1>1, <1>11
  <2>3. rows' \in Seq(1 .. chain) BY <1>11
  <2> QED BY Zenon, <2>1, <2>2, <2>3
<1> HIDE DEF b, r
<1>13. ASSUME NEW t \in Syncs PROVE Within(t)'
  <2>1. CASE t = s
    <3>1. \A i \in 1 .. Len(Tail(b)) : Tail(b)[i] \in 1 .. currentEnd(s)
      BY <1>3, <1>4
    <3>2. \A i, j \in 1 .. Len(Tail(b)) : i < j => Tail(b)[i] < Tail(b)[j]
      BY <1>3, <1>4
    <3> QED BY Zenon, <1>1, <1>8, <1>9, <1>10, <2>1, <3>1, <3>2 DEF Within
  <2>2. CASE t # s
    <3>1. Within(t) /\ sync'[t] = sync[t] BY Zenon, <1>7, <2>2 DEF OnceInv, RangeInv
    <3> QED BY Zenon, <1>9, <1>10, <3>1 DEF Within
  <2> QED BY Zenon, <2>1, <2>2
<1>14. RangeInv' BY Zenon, <1>7, <1>9, <1>12, <1>13 DEF OnceInv, RangeInv
<1>15. ASSUME ~overlapped PROVE SingleInv'
  <2>1. \A m \in 1 .. Len(rows) : rows[m] < b[1] /\ rows[m] <= currentEnd(s)
    <3>1. Ahead(s) BY Zenon, <1>15 DEF OnceInv, SingleInv
    <3> QED BY <1>1, <1>3, <3>1 DEF Ahead, b
  <2>2. \A m, n \in 1 .. Len(rows') : rows'[m] = rows'[n] => m = n
    <3> SUFFICES ASSUME NEW m \in 1 .. Len(rows'), NEW n \in 1 .. Len(rows'),
                        rows'[m] = rows'[n]
                 PROVE  m = n BY Zenon
    <3>1. CASE m \in 1 .. Len(rows) /\ n \in 1 .. Len(rows)
      BY Zenon, <1>12, <1>15, <3>1 DEF OnceInv, SingleInv
    <3>2. CASE m = Len(rows) + 1 /\ n \in 1 .. Len(rows)
      BY <1>11, <1>12, <2>1, <3>2
    <3>3. CASE n = Len(rows) + 1 /\ m \in 1 .. Len(rows)
      BY <1>11, <1>12, <2>1, <3>3
    <3>4. CASE m = Len(rows) + 1 /\ n = Len(rows) + 1
      BY Zenon, <3>4
    <3> QED BY <1>12, <3>1, <3>2, <3>3, <3>4
  <2>3. \A t \in Syncs : t # s => sync'[t] = sync[t] /\ sync[t].pc = "idle"
    BY Zenon, <1>1, <1>7, <1>15, OnlyOne
  <2>4. ASSUME NEW t \in Syncs PROVE Ahead(t)'
    <3>1. CASE t # s BY Zenon, <2>3, <3>1 DEF Ahead
    <3>2. CASE t = s
      <4>1. ASSUME NEW m \in 1 .. Len(rows')
            PROVE  /\ rows'[m] <= currentEnd(s)
                   /\ \A i \in 1 .. Len(Tail(b)) : rows'[m] < Tail(b)[i]
        <5>1. rows'[m] \in Nat /\ rows'[m] <= b[1] BY <1>11, <1>12, <2>1
        <5>2. b[1] \in Nat /\ b[1] <= currentEnd(s)
              /\ \A i \in 1 .. Len(Tail(b)) : b[1] < Tail(b)[i] /\ Tail(b)[i] \in Nat
          BY <1>1, <1>3, <1>4
        <5> QED BY <1>1, <5>1, <5>2
      <4> QED BY Zenon, <1>8, <1>10, <3>2, <4>1 DEF Ahead
    <3> QED BY Zenon, <3>1, <3>2
  <2>5. \A t, u \in Syncs : sync'[t].pc # "idle" /\ sync'[u].pc # "idle" => t = u
    BY Zenon, <2>3
  <2> QED BY Zenon, <2>2, <2>4, <2>5 DEF SingleInv
<1>16. SingleInv' BY Zenon, <1>9, <1>15 DEF SingleInv
<1> QED BY Zenon, <1>14, <1>16 DEF OnceInv

\* The next batch starts after the end of the last one.
LEMMA NextBatchOnce ==
  ASSUME OnceInv, NEW s \in Syncs, nextBatch(s)
  PROVE  OnceInv'
<1>1. CASE currentEnd(s) < sync[s].total
  <2> DEFINE r == [sync[s] EXCEPT !.pc = "fetch", !.start = currentEnd(s) + 1]
  <2>1. sync' = [sync EXCEPT ![s] = r] BY Zenon, <1>1 DEF nextBatch, OnceInv, RangeInv
  <2>2. /\ sync[s] \in Sync /\ sync[s].pc = "store" /\ Within(s) /\ sync[s].start \in Nat
        /\ sync[s].total \in Nat /\ currentEnd(s) \in Int /\ chain \in Nat
        /\ currentEnd(s) >= sync[s].start
    BY Zenon, EndInRange DEF OnceInv, RangeInv, nextBatch, Within
  <2>3. currentEnd(s) + 1 \in Nat BY <2>2
  <2>4. r \in Sync
    <3>1. [sync[s] EXCEPT !.pc = "fetch"] \in Sync BY Zenon, <2>2, <2>3, SetField
    <3> QED BY Zenon, <2>3, <3>1, SetField
  <2>5. sync'[s] = r BY Zenon, <2>1 DEF OnceInv, RangeInv
  <2>6. /\ sync'[s].pc = "fetch" /\ sync'[s].total = sync[s].total
        /\ sync'[s].start = currentEnd(s) + 1 /\ sync'[s].last = sync[s].last
    BY Zenon, <2>2, <2>5 DEF Sync
  <2>7. UNCHANGED <<chain, rows, phase, failures, crashes, short, overlapped>>
    BY Zenon, <1>1 DEF nextBatch
  <2> HIDE DEF r
  <2>8. Within(s)' BY SMTT(30), <1>1, <2>2, <2>3, <2>6, <2>7 DEF Within
  <2>9. ASSUME ~overlapped PROVE Ahead(s)'
    <3>1. Ahead(s) BY Zenon, <2>9 DEF OnceInv, SingleInv
    <3>2. \A n \in 1 .. Len(rows) : rows[n] <= currentEnd(s) BY Zenon, <2>2, <3>1 DEF Ahead
    <3>3. \A n \in 1 .. Len(rows) : rows[n] \in Nat BY <2>2 DEF OnceInv, RangeInv
    <3> QED BY <2>2, <2>6, <2>7, <3>2, <3>3 DEF Ahead
  <2>10. /\ phase' \in {"off", "initial", "scheduled"} /\ failures' \in 0 .. MaxFailures
         /\ crashes' \in 0 .. MaxCrashes /\ short' \in BOOLEAN /\ overlapped' \in BOOLEAN
    BY Zenon, <2>7 DEF OnceInv, RangeInv
  <2> QED BY Zenon, <2>1, <2>2, <2>4, <2>7, <2>8, <2>9, <2>10, OnlyOne, OwnRange
<1>2. CASE ~(currentEnd(s) < sync[s].total)
  BY Zenon, <1>2, EndOnce DEF nextBatch, OnceInv, RangeInv
<1> QED BY Zenon, <1>1, <1>2

\* An empty table and no sync.
LEMMA InitOnce == Init => OnceInv
<1> SUFFICES ASSUME Init PROVE OnceInv BY Zenon
<1>1. chain \in Nat /\ rows = <<>> /\ Len(rows) = 0 BY HistoryAssumption DEF Init
<1>2. sync \in [Syncs -> Sync] BY DEF Init, Idle, Sync
<1>3. \A s \in Syncs : sync[s].pc = "idle" /\ sync[s].last = 0 /\ sync[s].total = 0
  BY Zenon DEF Init, Idle
<1>4. \A s \in Syncs : Within(s) /\ Ahead(s) BY <1>1, <1>3 DEF Within, Ahead
<1>5. rows \in Seq(1 .. chain) BY <1>1
<1>6. RangeInv
  <2>1. failures \in 0 .. MaxFailures /\ crashes \in 0 .. MaxCrashes
    BY HistoryAssumption DEF Init
  <2> QED BY Zenon, <1>2, <1>4, <1>5, <2>1 DEF Init, RangeInv
<1>7. SingleInv BY <1>1, <1>3, <1>4 DEF SingleInv
<1> QED BY Zenon, <1>6, <1>7 DEF OnceInv

\* Every step of the service keeps the syncs within their ranges and, while
\* none overlap, ahead of the table.
LEMMA NextOnce ==
  ASSUME OnceInv, [Next]_vars
  PROVE  OnceInv'
<1>1. /\ failures \in 0 .. MaxFailures /\ crashes \in 0 .. MaxCrashes
      /\ phase \in {"off", "initial", "scheduled"}
  BY Zenon DEF OnceInv, RangeInv
<1>2. CASE NewBlock
  <2>1. chain' = chain + 1 /\ chain' \in 0 .. MaxBlock /\ chain \in Nat
        /\ UNCHANGED <<rows, sync, phase, failures, crashes, short, overlapped>>
    BY <1>2, HistoryAssumption DEF NewBlock, OnceInv, RangeInv
  <2>2. rows \in Seq(1 .. chain')
    <3>1. rows \in Seq(1 .. chain) BY Zenon DEF OnceInv, RangeInv
    <3>2. 1 .. chain \subseteq 1 .. chain' BY <2>1
    <3>3. PICK A, B : A = 1 .. chain /\ B = 1 .. chain' BY Zenon
    <3>4. rows \in Seq(A) /\ A \subseteq B BY Zenon, <3>1, <3>2, <3>3
    <3>5. rows \in Seq(B) BY <3>4
    <3> QED BY Zenon, <3>3, <3>5
  <2>3. ASSUME NEW s \in Syncs PROVE Within(s)' /\ (~overlapped => Ahead(s)')
    <3>1. Within(s) /\ (~overlapped => Ahead(s)) BY Zenon DEF OnceInv, RangeInv, SingleInv
    <3>2. sync[s].last \in Nat /\ sync[s].total \in Nat BY Zenon, EndInRange DEF OnceInv
    <3>3. currentEnd(s)' = currentEnd(s) BY Zenon, <2>1 DEF currentEnd
    <3>4. Within(s)' BY SMTT(30), <2>1, <3>1, <3>2, <3>3 DEF Within
    <3>5. ~overlapped => Ahead(s)' BY Zenon, <2>1, <3>1, <3>3 DEF Ahead
    <3> QED BY Zenon, <3>4, <3>5
  <2>4. RangeInv' BY Zenon, <2>1, <2>2, <2>3 DEF OnceInv, RangeInv
  <2>5. SingleInv' BY Zenon, <2>1, <2>3 DEF OnceInv, SingleInv
  <2> QED BY Zenon, <2>4, <2>5 DEF OnceInv
<1>3. CASE initSyncService BY Zenon, <1>3, StartOnce DEF initSyncService
<1>4. CASE cronTick BY Zenon, <1>1, <1>4, StartOnce DEF cronTick
<1>5. CASE runOnce BY Zenon, <1>1, <1>5, StartOnce DEF runOnce
<1>6. ASSUME NEW s \in Syncs, Step(s) PROVE OnceInv'
  BY Zenon, <1>6, TotalOnce, FetchOnce, InsertOnce, NextBatchOnce DEF Step
<1>7. CASE syncFails
  <2>1. failures' \in 0 .. MaxFailures BY <1>1, <1>7, HistoryAssumption DEF syncFails
  <2> QED BY Zenon, <1>7, <2>1, EndOnce DEF syncFails
<1>8. CASE Crash
  <2>1. /\ sync' = [s \in Syncs |-> Idle] /\ phase' = "off"
        /\ UNCHANGED <<chain, rows, failures, short, overlapped>>
    BY Zenon, <1>8 DEF Crash
  <2>2. crashes' \in 0 .. MaxCrashes BY <1>1, <1>8, HistoryAssumption DEF Crash
  <2>3. Idle \in Sync /\ Idle.pc = "idle" /\ Idle.last = 0 /\ Idle.total = 0
    BY DEF Idle, Sync
  <2>4. sync' \in [Syncs -> Sync] /\ \A s \in Syncs : sync'[s] = Idle BY Zenon, <2>1, <2>3
  <2>5. chain \in Nat BY HistoryAssumption DEF OnceInv, RangeInv
  <2>6. \A s \in Syncs : Within(s)' BY <2>1, <2>3, <2>4, <2>5 DEF Within
  <2>7. \A s \in Syncs : Ahead(s)' BY Zenon, <2>1, <2>3, <2>4 DEF Ahead
  <2>8. RangeInv' BY Zenon, <2>1, <2>2, <2>4, <2>6 DEF OnceInv, RangeInv
  <2>9. SingleInv' BY Zenon, <2>1, <2>3, <2>4, <2>7 DEF OnceInv, SingleInv
  <2> QED BY Zenon, <2>8, <2>9 DEF OnceInv
<1>9. CASE UNCHANGED vars
  BY Zenon, <1>9 DEF vars, OnceInv, RangeInv, SingleInv, Within, Ahead, currentEnd
<1> QED BY Zenon, <1>2, <1>3, <1>4, <1>5, <1>6, <1>7, <1>8, <1>9 DEF Next

\* The inductive invariant of one row per block.
THEOREM HistoryOnce == Spec => []OnceInv
<1>1. Init => OnceInv BY Zenon, InitOnce
<1>2. OnceInv /\ [Next]_vars => OnceInv' BY Zenon, NextOnce
<1> QED BY <1>1, <1>2, PTL DEF Spec

\* The history is right for any number of blocks, syncs, failures and ends of
\* the process and any BATCH_SIZE: no gap while the explorer answers with the
\* blocks asked for, and one row per block while no sync starts beside another.
THEOREM HistoryRight == Spec => []BlocksOnce
<1>1. OnceInv => OneRowPerBlock
  BY DEF OnceInv, RangeInv, SingleInv, OneRowPerBlock, IsInjective
<1>2. RowsInOrder /\ NoMissingBlock /\ OneRowPerBlock => BlocksOnce BY Zenon DEF BlocksOnce
<1> QED BY <1>1, <1>2, HistoryOnce, SyncsInOrder, NoGapInHistory, PTL

-----------------------------------------------------------------------------
(* The node cache *)

\* A bounded set of naturals has a greatest element, the last block of the
\* collection or of an answer.
LEMMA CacheMaxOfBounded ==
  ASSUME NEW c \in Nat, NEW S \in SUBSET (0 .. c), S # {}
  PROVE  Cache!Max(S) \in S /\ \A y \in S : Cache!Max(S) >= y
<1> DEFINE B == {m \in Nat : \A y \in S : y <= m}
<1>1. c \in B OBVIOUS
<1>2. B \in SUBSET Nat /\ B # {} BY Zenon, <1>1
<1>3. PICK m \in B : \A k \in B : m <= k BY Zenon, <1>2, Smallest
<1>4. m \in Nat /\ \A y \in S : y \in Nat /\ y <= m BY <1>3
<1>5. m \in S
  <2> SUFFICES ASSUME m \notin S PROVE FALSE BY Zenon
  <2>1. \A y \in S : y < m BY <1>4
  <2>2. m - 1 \in Nat
    <3>1. PICK y \in S : TRUE BY Zenon
    <3>2. y \in Nat /\ y < m /\ m \in Nat BY Zenon, <1>4, <2>1, <3>1
    <3> HIDE DEF B
    <3> QED BY <3>2
  <2>3. m - 1 \in B BY <1>4, <2>1, <2>2
  <2> QED BY <1>3, <1>4, <2>2, <2>3
<1>6. \E x \in S : \A y \in S : x >= y BY Zenon, <1>4, <1>5
<1> HIDE DEF B
<1> QED BY Zenon, <1>6 DEF Cache!Max

CacheScan == [state : {"idle", "probe", "fetch"}, initial : BOOLEAN, min : Nat,
              ranges : Seq(Nat), busy : SUBSET Nat]

\* The batches a scan found and did not write yet.
Owed(r) == r.busy \cup Cache!Range(r.ranges)

\* A scan that looks for batches has none in hand, and no batch starts
\* beyond the block after currentBlockNumber.
Fits(r, c) ==
  /\ r.state = "idle" => r = Cache!Idle
  /\ r.state = "probe" => r.busy = {} /\ r.min \in 1 .. c + 1
  /\ \A m \in Owed(r) : m \in 1 .. c + 1

CacheTypes ==
  /\ cache_chain \in Nat /\ stored \subseteq 1 .. cache_chain /\ current \in 0 .. cache_chain
  /\ scan \in [Scans -> CacheScan]
  /\ cache_failures \in Nat /\ isClosing \in BOOLEAN /\ interrupted \in BOOLEAN

ScansFit == \A s \in Scans : Fits(scan[s], current)

\* Before initialize() nothing runs.
NewQuiet ==
  cache_phase = "new" =>
    /\ current = 0 /\ \A s \in Scans : scan[s] = Cache!Idle
    /\ ~periodic /\ ws = "none" /\ ~timer /\ ~isClosing

\* Below a stored block, and up to currentBlockNumber, blocks are stored or
\* in a batch to be written; after a close() that interrupted nothing, those
\* below a stored block are stored.
Covered ==
  cache_failures = 0 /\ ~interrupted =>
    IF isClosing THEN \A b \in stored : 1 .. b \subseteq stored
    ELSE \A b \in stored \cup {current} : 1 .. b \subseteq stored \cup Cache!Pending

CacheInv == CacheTypes /\ ScansFit /\ NewQuiet /\ Covered

\* What Pending is made of.
LEMMA PendingIs ==
  \A b : b \in Cache!Pending <=>
           \E s \in Scans : \E m \in Owed(scan[s]) : b \in Cache!BatchRange(m)
BY DEF Cache!Pending, Owed

\* An idle scan owes nothing.
LEMMA IdleFits ==
  /\ Cache!Idle \in CacheScan /\ Owed(Cache!Idle) = {}
  /\ \A c \in Nat : Fits(Cache!Idle, c)
<1>1. Cache!Idle \in CacheScan BY DEF Cache!Idle, CacheScan
<1>2. Cache!Range(<<>>) = {} BY DEF Cache!Range
<1>3. Owed(Cache!Idle) = {} BY Zenon, <1>2 DEF Cache!Idle, Owed
<1> QED BY Zenon, <1>1, <1>3 DEF Cache!Idle, Fits

\* A batch that fits still does when currentBlockNumber has advanced.
LEMMA FitsGrow ==
  ASSUME NEW a \in Nat, NEW b \in Nat, b >= a
  PROVE  \A m \in 1 .. a + 1 : m \in 1 .. b + 1
OBVIOUS

\* The block after currentBlockNumber.
LEMMA BlockAfter == \A a \in Nat : a + 1 \in Nat /\ a + 1 \in 1 .. a + 1
OBVIOUS

\* A step of one scan, during which currentBlockNumber may advance, loses
\* only the batches of D.
LEMMA ScanStep ==
  ASSUME CacheTypes, ScansFit, NEW s \in Scans, NEW r \in CacheScan,
         scan' = [scan EXCEPT ![s] = r], current' \in Nat, current' >= current,
         Fits(r, current'), NEW D, Owed(scan[s]) \subseteq Owed(r) \cup D
  PROVE  /\ scan' \in [Scans -> CacheScan] /\ ScansFit'
         /\ \A b \in Cache!Pending :
              b \in Cache!Pending' \/ \E m \in D : b \in Cache!BatchRange(m)
<1>0. current' \in Nat /\ current' >= current BY Zenon
<1>1. scan' \in [Scans -> CacheScan] BY Zenon DEF CacheTypes
<1>2. \A t \in Scans : scan'[t] = IF t = s THEN r ELSE scan[t] BY Zenon DEF CacheTypes
<1>3. ASSUME NEW t \in Scans PROVE Fits(scan'[t], current')
  <2>1. CASE t = s BY Zenon, <1>2, <2>1
  <2>2. CASE t # s
    <3>1. scan'[t] = scan[t] /\ Fits(scan[t], current) BY Zenon, <1>2, <2>2 DEF ScansFit
    <3>2. current \in Nat BY DEF CacheTypes
    <3>3. \A m \in 1 .. current + 1 : m \in 1 .. current' + 1 BY ONLY Zenon, <3>2, <1>0, FitsGrow
    <3> QED BY Zenon, <3>1, <3>3 DEF Fits
  <2> QED BY Zenon, <2>1, <2>2
<1>4. ASSUME NEW b \in Cache!Pending
      PROVE  b \in Cache!Pending' \/ \E m \in D : b \in Cache!BatchRange(m)
  <2>1. PICK t \in Scans : \E m \in Owed(scan[t]) : b \in Cache!BatchRange(m)
    BY Zenon, PendingIs
  <2>2. PICK m \in Owed(scan[t]) : b \in Cache!BatchRange(m) BY Zenon, <2>1
  <2>3. m \in Owed(scan'[t]) \/ m \in D BY Zenon, <1>2, <2>2
  <2>4. b \in Cache!Pending' <=>
          \E u \in Scans : \E n \in Owed(scan'[u]) : b \in Cache!BatchRange(n)
    BY DEF Cache!Pending, Owed
  <2> QED BY Zenon, <2>2, <2>3, <2>4
<1>5. ScansFit' BY Zenon, <1>3 DEF ScansFit
<1> QED BY Zenon, <1>1, <1>4, <1>5

\* The same for a step that loses none.
LEMMA ScanKeeps ==
  ASSUME CacheTypes, ScansFit, NEW s \in Scans, NEW r \in CacheScan,
         scan' = [scan EXCEPT ![s] = r], current' \in Nat, current' >= current,
         Fits(r, current'), Owed(scan[s]) \subseteq Owed(r)
  PROVE  /\ scan' \in [Scans -> CacheScan] /\ ScansFit'
         /\ Cache!Pending \subseteq Cache!Pending'
<1>1. PICK D : D = {} BY Zenon
<1>2. Owed(scan[s]) \subseteq Owed(r) \cup D BY Zenon
<1>3. /\ scan' \in [Scans -> CacheScan] /\ ScansFit'
      /\ \A b \in Cache!Pending :
           b \in Cache!Pending' \/ \E m \in D : b \in Cache!BatchRange(m)
  BY Zenon, <1>2, ScanStep
<1> QED BY Zenon, <1>1, <1>3

\* A step that loses no batch, stores nothing and moves nothing keeps what is
\* covered.
LEMMA StillCovered ==
  ASSUME Covered, UNCHANGED <<stored, current, isClosing, interrupted>>,
         cache_failures' = 0 => cache_failures = 0, Cache!Pending \subseteq Cache!Pending'
  PROVE  Covered'
BY Zenon DEF Covered

\* The batches found, with one more, without the first, and cut after the
\* first ones.
LEMMA SetOfAppend ==
  ASSUME NEW q \in Seq(Nat), NEW x \in Nat
  PROVE  Cache!Range(Append(q, x)) = Cache!Range(q) \cup {x}
<1>1. /\ Len(q) \in Nat /\ DOMAIN q = 1 .. Len(q)
      /\ DOMAIN Append(q, x) = 1 .. Len(q) + 1
      /\ \A i \in 1 .. Len(q) : Append(q, x)[i] = q[i]
      /\ Append(q, x)[Len(q) + 1] = x
  OBVIOUS
<1> QED BY <1>1 DEF Cache!Range

LEMMA SetOfTail ==
  ASSUME NEW q \in Seq(Nat), q # <<>>
  PROVE  Cache!Range(q) = {Head(q)} \cup Cache!Range(Tail(q))
<1>1. /\ Len(q) \in Nat /\ Len(q) >= 1 /\ DOMAIN q = 1 .. Len(q) /\ Head(q) = q[1]
      /\ DOMAIN Tail(q) = 1 .. Len(q) - 1
      /\ \A i \in 1 .. Len(q) - 1 : Tail(q)[i] = q[i + 1]
  OBVIOUS
<1>3. \A i \in 1 .. Len(q) - 1 : i + 1 \in 1 .. Len(q) BY <1>1
<1>4. 1 \in 1 .. Len(q) BY <1>1
<1>5. Cache!Range(q) = {q[i] : i \in 1 .. Len(q)} BY Zenon, <1>1 DEF Cache!Range
<1>6. Cache!Range(Tail(q)) = {q[i + 1] : i \in 1 .. Len(q) - 1} BY Zenon, <1>1 DEF Cache!Range
<1>7. \A i \in 1 .. Len(q) : i = 1 \/ (i - 1 \in 1 .. Len(q) - 1 /\ (i - 1) + 1 = i)
  BY <1>1
<1>8. {q[i] : i \in 1 .. Len(q)} = {q[1]} \cup {q[i + 1] : i \in 1 .. Len(q) - 1}
  BY Zenon, <1>3, <1>4, <1>7
<1> QED BY Zenon, <1>1, <1>5, <1>6, <1>8

LEMMA SetOfRest ==
  ASSUME NEW q \in Seq(Nat), NEW w \in Nat
  PROVE  /\ SubSeq(q, w + 1, Len(q)) \in Seq(Nat)
         /\ Cache!Range(q) = {q[i] : i \in 1 .. Cache!Min({w, Len(q)})}
                               \cup Cache!Range(SubSeq(q, w + 1, Len(q)))
<1> DEFINE n == Len(q)
           p == SubSeq(q, w + 1, n)
           k == Cache!Min({w, n})
<1>1. n \in Nat /\ DOMAIN q = 1 .. n /\ \A i \in 1 .. n : q[i] \in Nat OBVIOUS
<1>2. k = IF w <= n THEN w ELSE n
  <2> DEFINE m == IF w <= n THEN w ELSE n
  <2>1. m \in {w, n} /\ \A y \in {w, n} : m =< y BY <1>1
  <2>2. \A x \in {w, n} : (\A y \in {w, n} : x =< y) => x = m
    <3> HIDE DEF n
    <3> QED BY <1>1
  <2> QED BY Zenon, <2>1, <2>2 DEF Cache!Min
<1>3. p = [i \in 1 .. n - w |-> q[i + w]]
  <2>1. p = [i \in 1 .. (1 + n - (w + 1)) |-> q[i + (w + 1) - 1]] BY <1>1
  <2>2. 1 + n - (w + 1) = n - w BY <1>1
  <2>3. \A i \in 1 .. n - w : i + (w + 1) - 1 = i + w BY <1>1
  <2> QED BY Zenon, <2>1, <2>2, <2>3
<1>4. \A i \in 1 .. n - w : i + w \in 1 .. n BY <1>1
<1>5. p \in Seq(Nat)
  <2>1. CASE w <= n
    <3>1. n - w \in Nat BY <1>1, <2>1
    <3>2. p \in [1 .. n - w -> Nat] BY Zenon, <1>1, <1>3, <1>4
    <3> HIDE DEF n, p
    <3> QED BY <3>1, <3>2
  <2>2. CASE ~(w <= n)
    <3>1. 1 .. n - w = {} BY <1>1, <2>2
    <3>2. p = <<>> BY <1>3, <3>1
    <3> QED BY <3>2
  <2> QED BY Zenon, <2>1, <2>2
<1>6. Cache!Range(p) = {q[i + w] : i \in 1 .. n - w} BY Zenon, <1>3 DEF Cache!Range
<1>7. Cache!Range(q) = {q[i] : i \in 1 .. n} BY Zenon, <1>1 DEF Cache!Range
<1>8. \A i \in 1 .. n : i \in 1 .. k \/ (i - w \in 1 .. n - w /\ (i - w) + w = i)
  BY <1>1, <1>2
<1>9. \A i \in 1 .. k : i \in 1 .. n BY <1>1, <1>2
<1> HIDE DEF n, p, k
<1>10. Cache!Range(q) = {q[i] : i \in 1 .. k} \cup Cache!Range(p)
  BY Zenon, <1>4, <1>6, <1>7, <1>8, <1>9
<1> QED BY Zenon, <1>5, <1>10 DEF n, p, k


\* A scan that does something is not idle, so initialize() was called.
LEMMA NotNew ==
  ASSUME CacheInv, NEW s \in Scans, scan[s] # Cache!Idle
  PROVE  cache_phase # "new"
BY Zenon DEF CacheInv, NewQuiet

\* A scan that ends owing nothing loses no batch.
LEMMA EndCovers ==
  ASSUME CacheInv, NEW s \in Scans, scan[s] # Cache!Idle, Cache!EndOf(s),
         NEW D, Owed(scan[s]) \subseteq D, current' = current
  PROVE  /\ scan' \in [Scans -> CacheScan] /\ ScansFit' /\ NewQuiet'
         /\ \A b \in Cache!Pending :
              b \in Cache!Pending' \/ \E m \in D : b \in Cache!BatchRange(m)
<1>1. scan' = [scan EXCEPT ![s] = Cache!Idle] BY Zenon DEF Cache!EndOf
<1>2. current \in Nat BY DEF CacheInv, CacheTypes
<1>3. CacheTypes /\ ScansFit /\ current' \in Nat /\ current' >= current
  BY <1>2 DEF CacheInv
<1>4. Cache!Idle \in CacheScan /\ Fits(Cache!Idle, current') BY Zenon, <1>3, IdleFits
<1>5. /\ scan' \in [Scans -> CacheScan] /\ ScansFit'
      /\ \A b \in Cache!Pending :
              b \in Cache!Pending' \/ \E m \in D : b \in Cache!BatchRange(m)
  BY Zenon, <1>1, <1>3, <1>4, ScanStep
<1>6. cache_phase # "new" BY Zenon, NotNew
<1>7. cache_phase' # "new" BY Zenon, <1>6 DEF Cache!EndOf
<1>8. NewQuiet' BY Zenon, <1>7 DEF NewQuiet
<1> QED BY Zenon, <1>5, <1>8

\* The empty answer: the batches found go to the workers, or none was found.
LEMMA EmptyCovered ==
  ASSUME CacheInv, Cache!BoundsAssumption, NEW s \in Scans, Cache!ProbeEmpty(s)
  PROVE  CacheInv'
<1>1. /\ scan[s] \in CacheScan /\ scan[s].state = "probe" /\ scan[s].busy = {}
      /\ current \in Nat /\ Fits(scan[s], current)
  <2>1. scan[s] \in CacheScan /\ current \in Nat /\ Fits(scan[s], current)
    BY DEF CacheInv, CacheTypes, ScansFit
  <2>2. scan[s].state = "probe" BY Zenon DEF Cache!ProbeEmpty
  <2> QED BY Zenon, <2>1, <2>2 DEF Fits
<1>2. scan[s] # Cache!Idle /\ cache_phase # "new" BY <1>1, NotNew DEF Cache!Idle
<1>3. UNCHANGED <<cache_chain, stored, current, isClosing, cache_failures, interrupted>>
  BY Zenon DEF Cache!ProbeEmpty, Cache!counts
<1>4. CASE scan[s].ranges = <<>>
  <2>1. Cache!EndOf(s) BY Zenon, <1>4 DEF Cache!ProbeEmpty
  <2>2. Cache!Range(<<>>) = {} BY DEF Cache!Range
  <2>3. Owed(scan[s]) \subseteq {} BY Zenon, <1>1, <1>4, <2>2 DEF Owed
  <2>4. scan' \in [Scans -> CacheScan] /\ ScansFit' /\ NewQuiet'
        /\ \A b \in Cache!Pending :
             b \in Cache!Pending' \/ \E m \in {} : b \in Cache!BatchRange(m)
    BY Zenon, <1>2, <1>3, <2>1, <2>3, EndCovers
  <2>5. Covered' BY Zenon, <1>3, <2>4, StillCovered DEF CacheInv
  <2>6. CacheTypes' BY Zenon, <1>3, <2>4 DEF CacheInv, CacheTypes
  <2> QED BY Zenon, <2>4, <2>5, <2>6 DEF CacheInv
<1>5. CASE scan[s].ranges # <<>>
  <2> DEFINE q == scan[s].ranges
             f == {q[i] : i \in 1 .. Cache!Min({Workers, Len(q)})}
             p == SubSeq(q, Workers + 1, Len(q))
             r == [scan[s] EXCEPT !.state = "fetch", !.busy = f, !.ranges = p]
  <2>1. scan' = [scan EXCEPT ![s] = r] /\ UNCHANGED cache_phase
    BY Zenon, <1>5 DEF Cache!ProbeEmpty, CacheInv, CacheTypes
  <2>2. q \in Seq(Nat) BY Zenon, <1>1 DEF CacheScan
  <2>3. p \in Seq(Nat) /\ Cache!Range(q) = f \cup Cache!Range(p)
    BY Zenon, <2>2, SetOfRest DEF Cache!BoundsAssumption
  <2>4. f \subseteq Nat
    <3>1. Cache!Range(q) \subseteq Nat BY <2>2 DEF Cache!Range
    <3> HIDE DEF f, q, p
    <3> QED BY Zenon, <2>3, <3>1
  <2> HIDE DEF f, q, p
  <2>5. r \in CacheScan BY Zenon, <1>1, <2>3, <2>4 DEF CacheScan
  <2>6. r.state = "fetch" /\ r.busy = f /\ r.ranges = p BY Zenon, <1>1 DEF CacheScan
  <2>7. Owed(r) = Owed(scan[s]) BY Zenon, <1>1, <2>3, <2>6 DEF Owed, q
  <2>8. Fits(r, current') BY Zenon, <1>1, <1>3, <2>6, <2>7 DEF Fits
  <2>9. CacheTypes /\ ScansFit /\ current' \in Nat /\ current' >= current
    BY <1>1, <1>3 DEF CacheInv
  <2>10. /\ scan' \in [Scans -> CacheScan] /\ ScansFit'
         /\ Cache!Pending \subseteq Cache!Pending'
    BY Zenon, <2>1, <2>5, <2>7, <2>8, <2>9, ScanKeeps
  <2>11. Covered' BY Zenon, <1>3, <2>10, StillCovered DEF CacheInv
  <2>12. CacheTypes' BY Zenon, <1>3, <2>10 DEF CacheInv, CacheTypes
  <2>13. NewQuiet' BY Zenon, <1>2, <2>1 DEF NewQuiet
  <2> QED BY Zenon, <2>10, <2>11, <2>12, <2>13 DEF CacheInv
<1> QED BY Zenon, <1>4, <1>5

\* An answer with blocks: they start at or before the block after
\* currentBlockNumber, so the position moves over no block outside the batch.
LEMMA FoundCovered ==
  ASSUME CacheInv, Cache!BoundsAssumption, NEW s \in Scans, Cache!ProbeFound(s)
  PROVE  CacheInv'
<1> DEFINE m == scan[s].min
           B == {current} \cup Cache!Blocks(m)
           r == [scan[s] EXCEPT !.ranges = Append(scan[s].ranges, m), !.min = current' + 1]
<1>1. /\ scan[s] \in CacheScan /\ scan[s].state = "probe" /\ scan[s].busy = {}
      /\ current \in Nat /\ Fits(scan[s], current) /\ m \in 1 .. current + 1
      /\ cache_chain \in Nat /\ current \in 0 .. cache_chain
  BY SMTT(30) DEF CacheInv, CacheTypes, ScansFit, Fits, Cache!ProbeFound
<1>2. scan[s] # Cache!Idle /\ cache_phase # "new" BY <1>1, NotNew DEF Cache!Idle
<1>3. UNCHANGED <<cache_chain, stored, cache_phase, isClosing, cache_failures, interrupted>>
  BY Zenon DEF Cache!ProbeFound, Cache!counts
<1>4. current' = Cache!Max(B) BY Zenon DEF Cache!ProbeFound
<1>5. \A x \in Cache!Blocks(m) : x \in Cache!BatchRange(m) /\ x \in 1 .. cache_chain
  BY Zenon DEF Cache!Blocks
<1>6. B \in SUBSET (0 .. cache_chain) /\ B # {} BY SMTT(30), <1>1, <1>5
<1>7. current' \in B /\ \A y \in B : current' >= y BY Zenon, <1>1, <1>4, <1>6, CacheMaxOfBounded
<1>8. current' \in 0 .. cache_chain /\ current' \in Nat /\ current' >= current
  BY SMTT(30), <1>1, <1>6, <1>7
<1>9. current' = current \/ current' \in Cache!BatchRange(m) BY Zenon, <1>5, <1>7
<1>10. \A x \in 1 .. current' : x \in 1 .. current \/ x \in Cache!BatchRange(m)
  <2> SUFFICES ASSUME NEW x \in 1 .. current', ~(x \in 1 .. current)
               PROVE  x \in Cache!BatchRange(m) BY Zenon
  <2>1. x \in Nat /\ x > current /\ x <= current' BY <1>1, <1>8
  <2>2. current' \in m .. m + batchSize - 1 BY Zenon, <1>1, <1>8, <1>9, <2>1 DEF Cache!BatchRange
  <2>3. m \in Nat /\ m <= current + 1 /\ batchSize \in Nat
    BY <1>1 DEF Cache!BoundsAssumption
  <2> HIDE DEF m, B, r
  <2>4. x \in m .. m + batchSize - 1 BY <1>1, <1>8, <2>1, <2>2, <2>3
  <2> QED BY Zenon, <2>4 DEF Cache!BatchRange
<1>11. scan' = [scan EXCEPT ![s] = r]
  BY Zenon DEF Cache!ProbeFound, CacheInv, CacheTypes
<1>12. m \in Nat /\ current' + 1 \in Nat /\ scan[s].ranges \in Seq(Nat)
  <2>1. current' + 1 \in Nat BY <1>8, BlockAfter, Zenon
  <2>2. m \in Nat /\ scan[s].ranges \in Seq(Nat) BY Zenon, <1>1 DEF CacheScan
  <2> QED BY Zenon, <2>1, <2>2
<1>13. Append(scan[s].ranges, m) \in Seq(Nat) BY <1>12
<1>14. r \in CacheScan BY Zenon, <1>1, <1>12, <1>13 DEF CacheScan
<1>15. r.state = "probe" /\ r.busy = {} /\ r.min = current' + 1
       /\ r.ranges = Append(scan[s].ranges, m)
  BY Zenon, <1>1 DEF CacheScan
<1>16. Owed(r) = Owed(scan[s]) \cup {m}
  BY SMTT(30), <1>1, <1>12, <1>15, SetOfAppend DEF Owed
<1> HIDE DEF r, B
<1>17. Fits(r, current')
  <2>1. \A x \in Owed(scan[s]) : x \in 1 .. current + 1 BY Zenon, <1>1 DEF Fits
  <2>2. \A x \in 1 .. current + 1 : x \in 1 .. current' + 1
    BY ONLY Zenon, <1>1, <1>8, FitsGrow
  <2>3. current' + 1 \in 1 .. current' + 1 BY <1>8, BlockAfter, Zenon
  <2> HIDE DEF m
  <2> QED BY Zenon, <1>1, <1>15, <1>16, <2>1, <2>2, <2>3 DEF Fits
<1>18. /\ scan' \in [Scans -> CacheScan] /\ ScansFit'
       /\ Cache!Pending \subseteq Cache!Pending'
  <2>1. CacheTypes /\ ScansFit /\ Owed(scan[s]) \subseteq Owed(r)
    BY Zenon, <1>16 DEF CacheInv
  <2> QED BY Zenon, <1>8, <1>11, <1>14, <1>17, <2>1, ScanKeeps
<1>19. \A b \in Cache!BatchRange(m) : b \in Cache!Pending'
  <2>1. scan'[s] = r BY Zenon, <1>11 DEF CacheInv, CacheTypes
  <2>2. m \in Owed(scan'[s]) BY Zenon, <1>16, <2>1
  <2>3. \A b : b \in Cache!Pending' <=>
          \E u \in Scans : \E n \in Owed(scan'[u]) : b \in Cache!BatchRange(n)
    BY DEF Cache!Pending, Owed
  <2> QED BY Zenon, <2>2, <2>3
<1> HIDE DEF m
<1>20. Covered'
  <2> SUFFICES ASSUME cache_failures' = 0, ~interrupted', ~isClosing',
                      NEW b \in stored' \cup {current'}, NEW x \in 1 .. b
               PROVE  x \in stored' \/ x \in Cache!Pending'
    BY Zenon, <1>3 DEF Covered, CacheInv
  <2>1. \A c \in stored \cup {current} : 1 .. c \subseteq stored \cup Cache!Pending
    BY Zenon, <1>3 DEF Covered, CacheInv
  <2>2. CASE b \in stored BY Zenon, <1>3, <1>18, <2>1, <2>2
  <2>3. CASE b = current'
    <3>1. x \in 1 .. current \/ x \in Cache!BatchRange(m) BY Zenon, <1>10, <2>3
    <3> QED BY Zenon, <1>3, <1>18, <1>19, <2>1, <3>1
  <2> QED BY Zenon, <1>3, <2>2, <2>3
<1>21. CacheTypes' BY Zenon, <1>3, <1>8, <1>18 DEF CacheInv, CacheTypes
<1>22. NewQuiet' BY Zenon, <1>2, <1>3 DEF NewQuiet
<1> QED BY Zenon, <1>18, <1>20, <1>21, <1>22 DEF CacheInv

\* A worker that is done with a batch leaves the others owed.
LEMMA WorkerKeeps ==
  ASSUME CacheInv, NEW s \in Scans, NEW m \in scan[s].busy, Cache!WorkerNext(s, m),
         current' = current
  PROVE  /\ scan' \in [Scans -> CacheScan] /\ ScansFit' /\ NewQuiet'
         /\ m \in 1 .. current + 1
         /\ \A b \in Cache!Pending : b \in Cache!Pending' \/ b \in Cache!BatchRange(m)
<1> DEFINE q == scan[s].ranges
           B == scan[s].busy
<1>1. /\ scan[s] \in CacheScan /\ current \in Nat /\ Fits(scan[s], current)
      /\ q \in Seq(Nat) /\ B \in SUBSET Nat
  BY DEF CacheInv, CacheTypes, ScansFit, CacheScan
<1>2. scan[s] # Cache!Idle /\ cache_phase # "new"
  <2>1. scan[s] # Cache!Idle BY DEF Cache!Idle
  <2> QED BY Zenon, <2>1, NotNew
<1>3. scan[s].state = "fetch" BY Zenon, <1>1, <1>2 DEF Fits, CacheScan
<1>4. m \in 1 .. current + 1 BY Zenon, <1>1 DEF Fits, Owed
<1>5. PICK D : D = {m} BY Zenon
<1>6. CASE q = <<>> /\ B = {m}
  <2>1. Cache!EndOf(s) BY Zenon, <1>6 DEF Cache!WorkerNext
  <2>2. Cache!Range(<<>>) = {} BY DEF Cache!Range
  <2>3. Owed(scan[s]) \subseteq D BY Zenon, <1>5, <1>6, <2>2 DEF Owed
  <2> QED BY Zenon, <1>2, <1>4, <1>5, <2>1, <2>3, EndCovers
<1>7. CASE ~(q = <<>> /\ B = {m})
  <2> DEFINE p == IF q = <<>> THEN q ELSE Tail(q)
             f == (B \ {m}) \cup (IF q = <<>> THEN {} ELSE {Head(q)})
             r == [scan[s] EXCEPT !.busy = f, !.ranges = p]
  <2>1. scan' = [scan EXCEPT ![s] = r] /\ UNCHANGED cache_phase
    BY Zenon, <1>7 DEF Cache!WorkerNext, CacheInv, CacheTypes
  <2>2. p \in Seq(Nat) /\ f \in SUBSET Nat
    <3>1. CASE q = <<>> BY Zenon, <1>1, <3>1
    <3>2. CASE q # <<>>
      <4>1. Head(q) \in Nat /\ Tail(q) \in Seq(Nat) BY SMTT(30), <1>1, <3>2
      <4> QED BY Zenon, <1>1, <3>2, <4>1
    <3> QED BY Zenon, <3>1, <3>2
  <2>3. f \cup Cache!Range(p) = (B \ {m}) \cup Cache!Range(q)
    <3>1. CASE q = <<>> BY Zenon, <3>1
    <3>2. CASE q # <<>>
      <4>1. Cache!Range(q) = {Head(q)} \cup Cache!Range(Tail(q)) BY Zenon, <1>1, <3>2, SetOfTail
      <4> QED BY Zenon, <3>2, <4>1
    <3> QED BY Zenon, <3>1, <3>2
  <2> HIDE DEF p, f
  <2>4. r \in CacheScan BY Zenon, <1>1, <2>2 DEF CacheScan
  <2>5. r.state = "fetch" /\ r.busy = f /\ r.ranges = p BY Zenon, <1>1, <1>3 DEF CacheScan
  <2> HIDE DEF r
  <2>6. Owed(r) = (B \ {m}) \cup Cache!Range(q) BY Zenon, <2>3, <2>5 DEF Owed
  <2>7. Owed(scan[s]) = B \cup Cache!Range(q) BY Zenon DEF Owed
  <2> HIDE DEF B, q
  <2>8. Owed(r) \subseteq Owed(scan[s]) /\ Owed(scan[s]) \subseteq Owed(r) \cup D
    BY Zenon, <1>5, <2>6, <2>7
  <2>9. Fits(r, current') BY Zenon, <1>1, <2>5, <2>8 DEF Fits
  <2>10. CacheTypes /\ ScansFit /\ current' \in Nat /\ current' >= current
    BY <1>1 DEF CacheInv
  <2>11. /\ scan' \in [Scans -> CacheScan] /\ ScansFit'
         /\ \A b \in Cache!Pending :
              b \in Cache!Pending' \/ \E x \in D : b \in Cache!BatchRange(x)
    BY Zenon, <2>1, <2>4, <2>8, <2>9, <2>10, ScanStep
  <2>12. NewQuiet' BY Zenon, <1>2, <2>1 DEF NewQuiet
  <2> QED BY Zenon, <1>4, <1>5, <2>11, <2>12
<1> QED BY Zenon, <1>6, <1>7

\* A batch is written: the blocks before it are those up to
\* currentBlockNumber.
LEMMA StoredCovered ==
  ASSUME CacheInv, Cache!BoundsAssumption, NEW s \in Scans, Cache!BatchStored(s)
  PROVE  CacheInv'
<1>1. PICK m \in scan[s].busy : /\ ~isClosing /\ stored' = stored \cup Cache!Blocks(m)
                                /\ Cache!WorkerNext(s, m)
  BY Zenon DEF Cache!BatchStored
<1>2. UNCHANGED <<cache_chain, current, isClosing, cache_failures, interrupted>>
  BY Zenon DEF Cache!BatchStored, Cache!counts
<1>3. /\ scan' \in [Scans -> CacheScan] /\ ScansFit' /\ NewQuiet'
      /\ m \in 1 .. current + 1
      /\ \A b \in Cache!Pending : b \in Cache!Pending' \/ b \in Cache!BatchRange(m)
  BY Zenon, <1>1, <1>2, WorkerKeeps
<1>4. cache_chain \in Nat /\ current \in 0 .. cache_chain /\ stored \subseteq 1 .. cache_chain /\ batchSize \in Nat
  BY Zenon DEF CacheInv, CacheTypes, Cache!BoundsAssumption
<1>5. \A b : b \in Cache!Blocks(m) <=> b \in Cache!BatchRange(m) /\ b \in 1 .. cache_chain
  BY Zenon DEF Cache!Blocks
<1>6. CacheTypes' BY Zenon, <1>1, <1>2, <1>3, <1>4, <1>5 DEF CacheInv, CacheTypes
<1>7. ASSUME cache_failures = 0, ~interrupted
      PROVE  \A b \in stored' \cup {current} : 1 .. b \subseteq stored' \cup Cache!Pending'
  <2>1. \A b \in stored \cup {current} : 1 .. b \subseteq stored \cup Cache!Pending
    BY Zenon, <1>1, <1>7 DEF CacheInv, Covered
  <2>2. ASSUME NEW b \in stored \cup {current}, NEW x \in 1 .. b
        PROVE  x \in stored' \cup Cache!Pending'
    <3>1. x \in 1 .. cache_chain BY <1>4
    <3>2. x \in stored \cup Cache!Pending BY Zenon, <2>1
    <3> QED BY Zenon, <1>1, <1>3, <1>5, <3>1, <3>2
  <2>3. ASSUME NEW b \in Cache!Blocks(m), NEW x \in 1 .. b
        PROVE  x \in stored' \cup Cache!Pending'
    <3>1. b \in m .. m + batchSize - 1 /\ b \in 1 .. cache_chain BY Zenon, <1>5 DEF Cache!BatchRange
    <3>2. x \in 1 .. current \/ (x \in m .. m + batchSize - 1 /\ x \in 1 .. cache_chain)
      BY <1>3, <1>4, <3>1
    <3>3. CASE x \in 1 .. current BY Zenon, <2>2, <3>3
    <3>4. CASE x \in m .. m + batchSize - 1 /\ x \in 1 .. cache_chain
      BY Zenon, <1>1, <1>5, <3>4 DEF Cache!BatchRange
    <3> QED BY Zenon, <3>2, <3>3, <3>4
  <2> QED BY Zenon, <1>1, <2>2, <2>3
<1>8. Covered' BY Zenon, <1>1, <1>2, <1>7 DEF Covered
<1> QED BY Zenon, <1>3, <1>6, <1>8 DEF CacheInv

\* A batch that fails is a failure; after close() nothing is written.
LEMMA FailsCovered ==
  ASSUME CacheInv, Cache!BoundsAssumption, NEW s \in Scans, Cache!BatchFails(s)
  PROVE  CacheInv'
<1>1. PICK m \in scan[s].busy : \E last \in Cache!BatchRange(m) :
        /\ stored' = IF isClosing THEN stored
                     ELSE stored \cup (Cache!Blocks(m) \cap 1 .. last - 1)
        /\ Cache!WorkerNext(s, m)
  BY Zenon DEF Cache!BatchFails
<1>2. /\ UNCHANGED <<cache_chain, current, isClosing, interrupted>>
      /\ cache_failures' = IF isClosing THEN cache_failures ELSE cache_failures + 1
  BY Zenon DEF Cache!BatchFails
<1>3. /\ scan' \in [Scans -> CacheScan] /\ ScansFit' /\ NewQuiet'
  BY Zenon, <1>1, <1>2, WorkerKeeps
<1>4. stored' \subseteq 1 .. cache_chain BY Zenon, <1>1 DEF CacheInv, CacheTypes, Cache!Blocks
<1>5. cache_failures' \in Nat /\ (~isClosing => cache_failures' # 0) /\ isClosing \in BOOLEAN
  BY <1>2 DEF CacheInv, CacheTypes
<1>6. CacheTypes' BY Zenon, <1>2, <1>3, <1>4, <1>5 DEF CacheInv, CacheTypes
<1>7. Covered' BY Zenon, <1>1, <1>2, <1>5 DEF CacheInv, Covered
<1> QED BY Zenon, <1>3, <1>6, <1>7 DEF CacheInv

\* A failed request is a failure.
LEMMA ProbeFailsCovered ==
  ASSUME CacheInv, Cache!ProbeFails
  PROVE  CacheInv'
<1>1. PICK s \in Scans : /\ scan[s].state = "probe"
                         /\ scan' = [scan EXCEPT ![s] = Cache!Idle]
                         /\ cache_phase' = IF scan[s].initial THEN "failed" ELSE cache_phase
  BY Zenon DEF Cache!ProbeFails
<1>2. UNCHANGED <<cache_chain, stored, current, isClosing, interrupted>> /\ cache_failures' = cache_failures + 1
  BY Zenon DEF Cache!ProbeFails
<1>3. CacheTypes /\ ScansFit /\ current \in Nat /\ current' \in Nat /\ current' >= current
  BY <1>2 DEF CacheInv, CacheTypes
<1>4. PICK D : D = Owed(scan[s]) BY Zenon
<1>5. Cache!Idle \in CacheScan /\ Fits(Cache!Idle, current') BY Zenon, <1>3, IdleFits
<1>6. scan' \in [Scans -> CacheScan] /\ ScansFit' BY Zenon, <1>1, <1>3, <1>4, <1>5, ScanStep
<1>7. cache_failures' \in Nat /\ cache_failures' # 0 BY <1>2 DEF CacheInv, CacheTypes
<1>8. CacheTypes' BY Zenon, <1>2, <1>6, <1>7 DEF CacheInv, CacheTypes
<1>9. Covered' BY Zenon, <1>7 DEF Covered
<1>10. scan[s] # Cache!Idle BY <1>1 DEF Cache!Idle
<1>11. cache_phase' # "new" BY Zenon, <1>1, <1>10, NotNew
<1> QED BY Zenon, <1>6, <1>8, <1>9, <1>11 DEF CacheInv, NewQuiet

\* A scan starts at the block after currentBlockNumber, and loses nothing.
LEMMA StartKeeps ==
  ASSUME CacheTypes, ScansFit, NEW c \in Nat, NEW i \in BOOLEAN, c >= current,
         current' = c,
         \E s \in Scans : /\ scan[s].state = "idle"
                          /\ scan' = [scan EXCEPT ![s] =
                               [Cache!Idle EXCEPT !.state = "probe", !.initial = i,
                                                  !.min = c + 1]]
  PROVE  /\ scan' \in [Scans -> CacheScan] /\ ScansFit'
         /\ Cache!Pending \subseteq Cache!Pending'
<1>0. PICK w \in CacheScan : w = Cache!Idle BY Zenon, IdleFits
<1> DEFINE n == c + 1
           r == [w EXCEPT !.state = "probe", !.initial = i, !.min = n]
<1>1. PICK s \in Scans : scan[s].state = "idle" /\ scan' = [scan EXCEPT ![s] = r]
  BY Zenon, <1>0
<1>2. /\ r.state = "probe" /\ r.min = n
      /\ r.busy = w.busy /\ r.ranges = w.ranges /\ r \in CacheScan
  <2>1. n \in Nat OBVIOUS
  <2> HIDE DEF n
  <2>2. /\ r.state = "probe" /\ r.min = n
        /\ r.busy = w.busy /\ r.ranges = w.ranges
    BY Zenon DEF CacheScan
  <2>3. r \in CacheScan BY Zenon, <2>1 DEF CacheScan
  <2> QED BY Zenon, <2>2, <2>3
<1>3. r.busy = {} /\ r.ranges = <<>> /\ r \in CacheScan BY Zenon, <1>0, <1>2 DEF Cache!Idle
<1>4. Owed(r) = {}
  <2>1. Cache!Range(<<>>) = {} BY DEF Cache!Range
  <2> QED BY Zenon, <1>3, <2>1 DEF Owed
<1>5. r.state = "probe" /\ r.busy = {} /\ r.min \in 1 .. c + 1
  <2>1. \A a \in Nat : a + 1 \in 1 .. a + 1 OBVIOUS
  <2> QED BY Zenon, <1>2, <1>3, <2>1
<1> HIDE DEF r
<1>6. Fits(r, c) BY Zenon, <1>4, <1>5 DEF Fits
<1>7. Owed(scan[s]) = {}
  <2>1. scan[s] = Cache!Idle BY Zenon, <1>1 DEF ScansFit, Fits
  <2> QED BY Zenon, <2>1, IdleFits
<1>8. /\ Fits(r, current') /\ Owed(scan[s]) \subseteq Owed(r)
      /\ current' \in Nat /\ current' >= current
  BY Zenon, <1>6, <1>7
<1> QED BY Zenon, <1>1, <1>3, <1>8, ScanKeeps

\* A tick of the interval or a message starts a scan.
LEMMA ScanCovered ==
  ASSUME CacheInv, Cache!fetchInterval \/ Cache!wsMessage
  PROVE  CacheInv'
<1>1. /\ Cache!StartScan(current, FALSE) /\ (periodic \/ ws = "open")
      /\ UNCHANGED <<cache_chain, stored, current, cache_phase, isClosing, cache_failures, interrupted>>
  BY Zenon DEF Cache!fetchInterval, Cache!wsMessage, Cache!counts
<1>2. cache_phase' # "new" BY Zenon, <1>1 DEF CacheInv, NewQuiet
<1>3. PICK c \in Nat : c = current /\ c >= current BY DEF CacheInv, CacheTypes
<1>4. /\ scan' \in [Scans -> CacheScan] /\ ScansFit'
      /\ Cache!Pending \subseteq Cache!Pending'
  <2>1. CacheTypes /\ ScansFit /\ current' = c BY Zenon, <1>1, <1>3 DEF CacheInv
  <2>2. \E s \in Scans : /\ scan[s].state = "idle"
                             /\ scan' = [scan EXCEPT ![s] =
                                  [Cache!Idle EXCEPT !.state = "probe", !.initial = FALSE,
                                                     !.min = c + 1]]
    BY Zenon, <1>1, <1>3 DEF Cache!StartScan
  <2> QED BY Zenon, <1>3, <2>1, <2>2, StartKeeps
<1>5. Covered' BY Zenon, <1>1, <1>4, StillCovered DEF CacheInv
<1>6. CacheTypes' BY Zenon, <1>1, <1>4 DEF CacheInv, CacheTypes
<1> QED BY Zenon, <1>2, <1>4, <1>5, <1>6 DEF CacheInv, NewQuiet

\* Before initialize() nothing is to be written, so the collection holds
\* every block below its last one: the sync goes on after it.
LEMMA InitializeCovered ==
  ASSUME CacheInv, Cache!initialize
  PROVE  CacheInv'
<1>1. /\ cache_phase = "new" /\ cache_phase' = "initial" /\ Cache!StartScan(current', TRUE)
      /\ UNCHANGED <<cache_chain, stored, isClosing, cache_failures, interrupted>>
      /\ current' = IF stored = {} THEN 0 ELSE Cache!Max(stored)
  BY Zenon DEF Cache!initialize, Cache!counts
<1>2. /\ current = 0 /\ ~isClosing /\ \A s \in Scans : scan[s] = Cache!Idle
  BY Zenon, <1>1 DEF CacheInv, NewQuiet
<1>3. cache_chain \in Nat /\ stored \in SUBSET (0 .. cache_chain) BY DEF CacheInv, CacheTypes
<1>4. current' \in 0 .. cache_chain /\ (current' \in stored \/ current' = 0)
  <2>1. CASE stored = {} BY <1>1, <1>3, <2>1
  <2>2. CASE stored # {}
    <3>1. Cache!Max(stored) \in stored BY Zenon, <1>3, <2>2, CacheMaxOfBounded
    <3> QED BY Zenon, <1>1, <1>3, <2>2, <3>1
  <2> QED BY Zenon, <2>1, <2>2
<1>5. PICK c \in Nat : c = current' /\ c >= current BY <1>2, <1>3, <1>4
<1>6. \E s \in Scans : /\ scan[s].state = "idle"
                             /\ scan' = [scan EXCEPT ![s] =
                                  [Cache!Idle EXCEPT !.state = "probe", !.initial = TRUE,
                                                     !.min = c + 1]]
  BY Zenon, <1>1, <1>5 DEF Cache!StartScan
<1>7. /\ scan' \in [Scans -> CacheScan] /\ ScansFit'
      /\ Cache!Pending \subseteq Cache!Pending'
  BY Zenon, <1>5, <1>6, StartKeeps DEF CacheInv
<1>8. Covered'
  <2>1. \A x \in 1 .. 0 : FALSE OBVIOUS
  <2> QED BY Zenon, <1>1, <1>2, <1>4, <1>7, <2>1 DEF CacheInv, Covered
<1>9. CacheTypes' BY Zenon, <1>1, <1>4, <1>7 DEF CacheInv, CacheTypes
<1> QED BY Zenon, <1>1, <1>7, <1>8, <1>9 DEF CacheInv, NewQuiet

\* With no scan under way nothing is to be written.
LEMMA NothingPending ==
  ASSUME \A s \in Scans : scan[s] = Cache!Idle
  PROVE  Cache!Pending = {}
<1>1. \A s \in Scans : Owed(scan[s]) = {} BY Zenon, IdleFits
<1> QED BY Zenon, <1>1, PendingIs

\* A step that touches no scan, no block and no position.
LEMMA QuietCovered ==
  ASSUME CacheInv, NewQuiet',
         UNCHANGED <<stored, current, scan, isClosing, cache_failures, interrupted>>,
         cache_chain' \in Nat, cache_chain' >= cache_chain
  PROVE  CacheInv'
<1>1. CacheTypes'
  <2>1. \A a, b \in Nat : b >= a => (\A x \in 0 .. a : x \in 0 .. b)
                                   /\ (\A x \in 1 .. a : x \in 1 .. b)
    OBVIOUS
  <2>2. cache_chain \in Nat BY Zenon DEF CacheInv, CacheTypes
  <2>3. (\A x \in 0 .. cache_chain : x \in 0 .. cache_chain') /\ (\A x \in 1 .. cache_chain : x \in 1 .. cache_chain')
    BY <2>1, <2>2, Zenon
  <2> QED BY Zenon, <2>3 DEF CacheInv, CacheTypes
<1>2. ScansFit' BY Zenon DEF CacheInv, ScansFit
<1>3. Cache!Pending' = Cache!Pending BY Zenon DEF Cache!Pending
<1>4. Covered' BY Zenon, <1>3, StillCovered DEF CacheInv
<1> QED BY Zenon, <1>1, <1>2, <1>4 DEF CacheInv

\* close() and a restart, with a scan under way or not.
LEMMA CloseCovered ==
  ASSUME CacheInv, Cache!close
  PROVE  CacheInv'
<1>1. /\ ~isClosing /\ isClosing' = TRUE /\ cache_phase # "new"
      /\ interrupted' = (interrupted \/ \E s \in Scans : scan[s] # Cache!Idle)
      /\ UNCHANGED <<cache_chain, stored, current, scan, cache_phase, cache_failures>>
  BY Zenon DEF Cache!close
<1>2. CacheTypes' BY Zenon, <1>1 DEF CacheInv, CacheTypes
<1>3. ScansFit' BY Zenon, <1>1 DEF CacheInv, ScansFit
<1>4. Covered' BY Zenon, <1>1, NothingPending DEF CacheInv, Covered
<1> QED BY Zenon, <1>1, <1>2, <1>3, <1>4 DEF CacheInv, NewQuiet

LEMMA RestartCovered ==
  ASSUME CacheInv, Cache!Restart
  PROVE  CacheInv'
<1>1. /\ isClosing' = FALSE /\ current' = 0 /\ periodic' = FALSE /\ ws' = "none"
      /\ timer' = FALSE /\ scan' = [s \in Scans |-> Cache!Idle]
      /\ interrupted' = (interrupted \/ \E s \in Scans : scan[s] # Cache!Idle)
      /\ UNCHANGED <<cache_chain, stored, cache_failures>>
  BY Zenon DEF Cache!Restart
<1>2. \A s \in Scans : scan'[s] = Cache!Idle BY Zenon, <1>1
<1>3. CacheTypes'
  <2>1. scan' \in [Scans -> CacheScan] BY Zenon, <1>1, IdleFits
  <2>2. \A a \in Nat : 0 \in 0 .. a OBVIOUS
  <2>3. current' \in 0 .. cache_chain BY Zenon, <1>1, <2>2 DEF CacheInv, CacheTypes
  <2> QED BY Zenon, <1>1, <2>1, <2>3 DEF CacheInv, CacheTypes
<1>4. ScansFit' BY Zenon, <1>1, <1>2, IdleFits DEF ScansFit
<1>5. Covered'
  <2>1. \A x \in 1 .. 0 : FALSE OBVIOUS
  <2>2. CASE cache_failures = 0 /\ ~interrupted'
    <3>1. \A b \in stored : 1 .. b \subseteq stored
      BY Zenon, <1>1, <2>2, NothingPending DEF CacheInv, Covered, CacheTypes
    <3> QED BY Zenon, <1>1, <2>1, <3>1 DEF Covered
  <2> QED BY Zenon, <1>1, <2>2 DEF Covered
<1>6. NewQuiet' BY Zenon, <1>1, <1>2 DEF NewQuiet
<1> QED BY Zenon, <1>3, <1>4, <1>5, <1>6 DEF CacheInv

\* Every step keeps the invariant.
LEMMA CacheNext ==
  ASSUME CacheInv, Cache!BoundsAssumption, [Cache!Next]_Cache!vars
  PROVE  CacheInv'
<1>0. cache_chain \in Nat BY Zenon DEF CacheInv, CacheTypes
<1>1. CASE Cache!NewBlock
  <2>1. /\ cache_chain' = cache_chain + 1
        /\ UNCHANGED <<stored, current, scan, cache_phase, periodic, ws, timer, isClosing,
                       cache_failures, interrupted>>
    BY Zenon, <1>1 DEF Cache!NewBlock, Cache!counts, Cache!socket
  <2>2. \A a \in Nat : a + 1 \in Nat /\ a + 1 >= a OBVIOUS
  <2>3. cache_chain' \in Nat /\ cache_chain' >= cache_chain BY Zenon, <1>0, <2>1, <2>2
  <2>4. NewQuiet' BY Zenon, <2>1 DEF CacheInv, NewQuiet
  <2> QED BY Zenon, <2>1, <2>3, <2>4, QuietCovered
<1>2. CASE Cache!initialize BY Zenon, <1>2, InitializeCovered
<1>3. CASE \E s \in Scans : Cache!Answered(s)
  BY Zenon, <1>3, EmptyCovered, FoundCovered, StoredCovered DEF Cache!Answered
<1>4. CASE Cache!ProbeFails BY Zenon, <1>4, ProbeFailsCovered
<1>5. CASE \E s \in Scans : Cache!BatchFails(s) BY Zenon, <1>5, FailsCovered
<1>6. CASE Cache!fetchInterval \/ Cache!wsMessage BY Zenon, <1>6, ScanCovered
<1>7. CASE Cache!wsOpen \/ Cache!wsClose \/ Cache!attemptReconnection
  <2>1. /\ UNCHANGED <<cache_chain, stored, current, scan, cache_phase, periodic, isClosing,
                       cache_failures, interrupted>>
        /\ ws # "none" \/ timer
    BY Zenon, <1>7 DEF Cache!wsOpen, Cache!wsClose, Cache!attemptReconnection, Cache!counts
  <2>2. NewQuiet' BY Zenon, <2>1 DEF CacheInv, NewQuiet
  <2>3. cache_chain' \in Nat /\ cache_chain' >= cache_chain BY <1>0, <2>1
  <2> QED BY Zenon, <2>1, <2>2, <2>3, QuietCovered
<1>8. CASE Cache!close BY Zenon, <1>8, CloseCovered
<1>9. CASE Cache!Restart BY Zenon, <1>9, RestartCovered
<1>10. CASE UNCHANGED Cache!vars
  <2>1. UNCHANGED <<cache_chain, stored, current, scan, cache_phase, periodic, ws, timer, isClosing,
                    cache_failures, interrupted>>
    BY Zenon, <1>10 DEF Cache!vars, Cache!socket, Cache!counts
  <2>2. NewQuiet' BY Zenon, <2>1 DEF CacheInv, NewQuiet
  <2>3. cache_chain' \in Nat /\ cache_chain' >= cache_chain BY <1>0, <2>1
  <2> QED BY Zenon, <2>1, <2>2, <2>3, QuietCovered
<1> QED
  BY <1>1, <1>2, <1>3, <1>4, <1>5, <1>6, <1>7, <1>8, <1>9, <1>10 DEF Cache!Next

\* The scans of the node cache leave no gap (NoGap of NodeCache): however
\* many scans run beside each other, with any batch size, number of workers
\* and length of the chain, a block that currentBlockNumber has passed is
\* stored or in a batch that a worker still has, unless a request failed or
\* a scan was cut off by close() or a restart.
THEOREM CacheHasNoGap ==
  ASSUME Cache!BoundsAssumption
  PROVE  Cache!Spec => []NoGap
<1>1. Cache!Init => CacheInv
  <2> SUFFICES ASSUME Cache!Init PROVE CacheInv BY Zenon
  <2>1. /\ cache_chain \in 0 .. CacheBlocks /\ stored = {} /\ current = 0 /\ cache_phase = "new"
        /\ scan = [s \in Scans |-> Cache!Idle] /\ periodic = FALSE /\ ws = "none"
        /\ timer = FALSE /\ isClosing = FALSE /\ cache_failures = 0 /\ interrupted = FALSE
    BY Zenon DEF Cache!Init
  <2>2. CacheTypes
    <3>1. cache_chain \in Nat /\ 0 \in 0 .. cache_chain BY <2>1 DEF Cache!BoundsAssumption
    <3>2. scan \in [Scans -> CacheScan] BY Zenon, <2>1, IdleFits
    <3> QED BY Zenon, <2>1, <3>1, <3>2 DEF CacheTypes
  <2>3. ScansFit BY Zenon, <2>1, IdleFits DEF ScansFit
  <2>4. NewQuiet BY Zenon, <2>1 DEF NewQuiet
  <2>5. Covered BY <2>1 DEF Covered
  <2> QED BY Zenon, <2>2, <2>3, <2>4, <2>5 DEF CacheInv
<1>2. CacheInv /\ [Cache!Next]_Cache!vars => CacheInv' BY Zenon, CacheNext
<1>3. CacheInv => NoGap BY Zenon DEF CacheInv, Covered, NoGap, Cache!NoGap
<1> QED BY <1>1, <1>2, <1>3, PTL DEF Cache!Spec

=============================================================================
