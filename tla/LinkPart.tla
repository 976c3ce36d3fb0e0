------------------------------ MODULE LinkPart ------------------------------
(***************************************************************************)
(* The link between two replicas as one of the parts of MCParts: the state *)
(* and the constants of AsyncSender under the names they have there.       *)
(***************************************************************************)
CONSTANTS Size, HeaderSize, MaxConnections

VARIABLES pushed, queue, in_process, caller, link_chain, pending, status, idx,
          conns, session, received

Link == INSTANCE AsyncSender WITH chain <- link_chain

\* The link delivers whole messages (only those reach the callback of
\* Session::ReadDone), none twice although ReConnect sends again, and those of
\* a connection in the order of the SendMessage calls.
LinkSafe == Link!LinkSafe
=============================================================================
