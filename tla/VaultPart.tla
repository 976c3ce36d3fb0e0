----------------------------- MODULE VaultPart ------------------------------
(***************************************************************************)
(* The connections of sites in ResVault as one of the parts of MCParts: the *)
(* state and the constants of VaultConnections under the names they have   *)
(* there.                                                                  *)
(***************************************************************************)
CONSTANTS Domain, Net, MaxPending

VARIABLES local, connections, activeNet, domain, selectedNet, isConnected,
          storing, sites_calls, replies, gets, unstored, disturbed, keysChanged

Vault == INSTANCE VaultConnections WITH calls <- sites_calls

\* The net of a connected site has keys, the popup's connections are the
\* sites and nets that have keys or could not get them, and after a switch to
\* another pair the net shown has none (background.js, Dashboard.jsx).
ConnectionsSafe == Vault!ConnectionsSafe
=============================================================================
