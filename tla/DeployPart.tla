----------------------------- MODULE DeployPart -----------------------------
(***************************************************************************)
(* Contract deployment as one of the parts of MCParts: the state and the   *)
(* constants of ContractDeploy under the names they have there.            *)
(***************************************************************************)
CONSTANTS Wallet, DataClient, PathClient, Source, NoSource

VARIABLES file, deploy_connected, waiting, pc, source, loaded, accounts,
          compiled, temps, registry, deployed, deploy_executed, mixed,
          deploy_overlapped, forgotten, deploy_replaced

Deploy == INSTANCE ContractDeploy WITH
    None <- NoSource, connected <- deploy_connected,
    executed <- deploy_executed, overlapped <- deploy_overlapped,
    replaced <- deploy_replaced

\* What a client deploys was compiled from its own source; a deployment that
\* succeeded is in the registry, none is made twice under one key, and no
\* temporary file of an ended request is left (cli-functions.js, rescontract).
DeploysSound == Deploy!DeploysSound
=============================================================================
