------------------------------ MODULE FlowPart ------------------------------
(***************************************************************************)
(* The path of transactions as one of the parts of MCParts: the state and  *)
(* the constants of TxnFlow under the names they have there.               *)
(***************************************************************************)
CONSTANTS Replica, MaxTxns, VRFLeader, total_num, batch_size

VARIABLES txns, view, slot, step, hand, tries, flow_pending, log, committed,
          disordered, numbered, seq, execute_q, executed, replaced

Flow == INSTANCE TxnFlow WITH pending <- flow_pending

\* A transaction is in one place from txns_ to the executed proposals,
\* AsyncSend gives up at most one per view, no replica executes one twice, and
\* those that handle proposals in order execute one numbered sequence of them.
OneSerialOrder == Flow!OneSerialOrder
=============================================================================
