----------------------------- MODULE LensBlocks -----------------------------
(***************************************************************************)
(* The "Data View" of ResLens: Explorer asks for the chain's configuration *)
(* and hands its block number, or a default, to the paged BlockchainTable, *)
(* which fetches a page whenever the page, the page size or the total      *)
(* changes.  While a fetch is shown as loading the table has no controls;  *)
(* answers come in any order and none is cancelled.                        *)
(***************************************************************************)
EXTENDS Integers, Sequences, SequencesExt

CONSTANTS
    DefaultTotal,   \* 175, shown until the configuration arrives
    BlockNums,      \* the block numbers a configuration may hold
    PageSizes, FirstSize,
    visiblePages,   \* page buttons in the bar, 5
    MaxReqs         \* bound: page requests in flight

LensBlocksAssumption ==
    /\ DefaultTotal \in Nat \ {0} /\ BlockNums \subseteq Nat
    /\ FirstSize \in PageSizes /\ PageSizes \subseteq Nat \ {0}
    /\ visiblePages \in Nat \ {0} /\ MaxReqs \in Nat \ {0}

VARIABLES
    config,     \* "waiting", "answered", "failed", or "missing": an empty answer
    total,      \* the block number given to the table
    pageIndex, pageSize,
    loading,    \* the table shows its skeleton
    data,       \* the range of blocks in the table
    reqs,       \* the ranges asked for and not answered, oldest first
    late,       \* history: the newest request failed or was overtaken
    shrunk      \* history: the total became smaller than the pages in use

vars == <<config, total, pageIndex, pageSize, loading, data, reqs, late, shrunk>>

LesserOf(a, b) == IF a < b THEN a ELSE b
GreaterOf(a, b) == IF a > b THEN a ELSE b

\* Math.ceil(total / pageSize)
totalPages == (total + pageSize - 1) \div pageSize

\* The blocks of page p.
PageRange(p, size, n) == <<p * size + 1, LesserOf(n, p * size + size)>>

\* The first page button, and the one after the last.
startPage == GreaterOf(0, LesserOf(pageIndex - visiblePages \div 2, totalPages - visiblePages))
endPage == LesserOf(startPage + visiblePages, totalPages)

\* fetchBlocksData for a page, size and total.
fetchBlocksData(p, size, n) ==
    /\ Len(reqs) < MaxReqs
    /\ loading' = TRUE
    /\ reqs' = Append(reqs, PageRange(p, size, n))
    /\ late' = (late /\ reqs # <<>>)

\* Explorer and the table mount.
Init ==
    /\ config = "waiting" /\ total = DefaultTotal
    /\ pageIndex = 0 /\ pageSize = FirstSize
    /\ loading = TRUE /\ data = <<>>
    /\ reqs = <<PageRange(0, FirstSize, DefaultTotal)>>
    /\ late = FALSE /\ shrunk = FALSE

-----------------------------------------------------------------------------
\* Mutant: the table does not fetch again for the new total.
explorerDataQuiet(n) ==
    /\ config = "waiting"
    /\ config' = "answered"
    /\ total' = IF n = 0 THEN DefaultTotal ELSE n
    /\ shrunk' = (pageIndex * pageSize >= total')
    /\ UNCHANGED <<pageIndex, pageSize, loading, data, reqs, late>>

\* fetchExplorerData is answered with a configuration of n blocks.
explorerData(n) ==
    /\ config = "waiting"
    /\ config' = "answered"
    /\ total' = IF n = 0 THEN DefaultTotal ELSE n
    /\ shrunk' = (pageIndex * pageSize >= total')
    /\ IF total' = total THEN UNCHANGED <<loading, reqs, late>>
       ELSE fetchBlocksData(pageIndex, pageSize, total')
    /\ UNCHANGED <<pageIndex, pageSize, data>>

\* The answer has no first element: Explorer replaces the table by "Loading...".
explorerMissing ==
    /\ config = "waiting"
    /\ config' = "missing"
    /\ reqs' = <<>> /\ data' = <<>> /\ loading' = FALSE /\ late' = FALSE
    /\ pageIndex' = 0 /\ pageSize' = FirstSize
    /\ UNCHANGED <<total, shrunk>>

explorerFails ==
    /\ config = "waiting"
    /\ config' = "failed"
    /\ UNCHANGED <<total, pageIndex, pageSize, loading, data, reqs, late, shrunk>>

-----------------------------------------------------------------------------
onTable == UNCHANGED <<config, total, data>>
Controls == config # "missing" /\ ~loading

\* The buttons "Go to Start", "Previous", the numbers, "Next" and "Go to End".
Buttons == (IF pageIndex = 0 THEN {} ELSE {0, pageIndex - 1})
              \cup startPage .. endPage - 1
              \cup (IF pageIndex = totalPages - 1 THEN {} ELSE {pageIndex + 1, totalPages - 1})

\* A button for a page that is out of range does nothing.
handlePageChange(p) ==
    /\ Controls /\ p \in Buttons
    /\ p \in 0 .. totalPages - 1 /\ p # pageIndex
    /\ pageIndex' = p
    /\ fetchBlocksData(p, pageSize, total)
    /\ shrunk' = FALSE
    /\ UNCHANGED pageSize
    /\ onTable

setPageSize(size) ==
    /\ Controls /\ size # pageSize
    /\ pageSize' = size /\ pageIndex' = 0
    /\ fetchBlocksData(0, size, total)
    /\ shrunk' = FALSE
    /\ onTable

Refresh ==
    /\ Controls
    /\ fetchBlocksData(pageIndex, pageSize, total)
    /\ UNCHANGED <<pageIndex, pageSize, shrunk>>
    /\ onTable

onAnswer(i) ==
    /\ reqs' = RemoveAt(reqs, i)
    /\ UNCHANGED <<config, total, pageIndex, pageSize, shrunk>>

blocksFetched(i) ==
    /\ data' = reqs[i]
    /\ loading' = FALSE
    /\ late' = (late \/ i > 1)
    /\ onAnswer(i)

\* An error is only logged.
blocksFail(i) ==
    /\ loading' = FALSE
    /\ late' = (late \/ i = Len(reqs))
    /\ UNCHANGED data
    /\ onAnswer(i)

Answer == \E i \in DOMAIN reqs : blocksFetched(i) \/ blocksFail(i)

Next ==
    \/ \E n \in BlockNums : explorerData(n)
    \/ explorerMissing \/ explorerFails
    \/ \E p \in 0 .. totalPages : handlePageChange(p)
    \/ \E size \in PageSizes : setPageSize(size)
    \/ Refresh \/ Answer

Spec == Init /\ [][Next]_vars

-----------------------------------------------------------------------------
(* Properties *)

\* Types; a loading table waits for an answer.
TypeOK ==
    /\ config \in {"waiting", "answered", "failed", "missing"}
    /\ total \in (BlockNums \ {0}) \cup {DefaultTotal}
    /\ pageIndex \in Nat /\ pageSize \in PageSizes
    /\ late \in BOOLEAN /\ shrunk \in BOOLEAN
    /\ Len(reqs) <= MaxReqs
    /\ loading => reqs # <<>>

\* Once every request is answered, and unless the newest one failed or was
\* overtaken, the table holds the blocks of the page, size and total it shows,
\* also when the total arrived between two page requests (table.tsx:155-183).
PageShown ==
    config # "missing" /\ reqs = <<>> /\ ~late
        => data = PageRange(pageIndex, pageSize, total)

\* The table is on a page that has blocks, unless the chain turned out to be
\* shorter than the default total after the user had paged on (table.tsx:187-192, 304-307).
PageHasBlocks == ~shrunk => pageIndex * pageSize < total

\* The bar of page buttons has as many as fit, all of existing pages, and the
\* current page is among them (table.tsx:194-202).
BarHasPage ==
    /\ endPage - startPage = LesserOf(visiblePages, totalPages)
    /\ ~shrunk => pageIndex \in startPage .. endPage - 1

=============================================================================
