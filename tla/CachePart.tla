----------------------------- MODULE CachePart ------------------------------
(***************************************************************************)
(* The node cache as one of the parts of MCParts: the state and the        *)
(* constants of NodeCache under the names they have there.                 *)
(***************************************************************************)
CONSTANTS CacheBlocks, batchSize, Workers, Scans, CacheFailures, MaxRestarts

VARIABLES cache_chain, stored, current, scan, cache_phase, periodic, ws,
          closeOnOpen, timer, isClosing, cache_failures, restarts, clean,
          interrupted

Cache == INSTANCE NodeCache WITH
    MaxBlock <- CacheBlocks, MaxFailures <- CacheFailures,
    chain <- cache_chain, phase <- cache_phase, failures <- cache_failures

\* Overlapping scans of the node cache skip no block up to
\* currentBlockNumber.
NoGap == Cache!NoGap
=============================================================================
