--------------------------- MODULE ContractDeploy ---------------------------
(***************************************************************************)
(* Deploying a smart contract: the Contract page of ResVault, the handler  *)
(* deployContractChain of its background script, the smart-contract        *)
(* GraphQL service, and the rescontract command the service runs for each  *)
(* mutation.                                                               *)
(*                                                                         *)
(* A job is one chain of mutations: the wallet's (addAddress, compile-     *)
(* Contract, deployContract, all with type "data"), or that of another     *)
(* client of the service (createAccount first), of type "data" or "path".  *)
(* Jobs interleave between any two of their calls and within them: every   *)
(* rescontract run is a process of its own, which loads the registry of    *)
(* deployed contracts when it starts and writes it back when it ends.      *)
(* contract_tools and the contract service behind it are external.         *)
(***************************************************************************)
EXTENDS Naturals, FiniteSets

CONSTANTS
    Wallet,     \* jobs of the wallet
    DataClient, \* jobs of other clients, type "data"
    PathClient, \* jobs of other clients, type "path", on one .sol path
    Source,     \* contents of a .sol file
    None        \* no source

Job == Wallet \cup DataClient \cup PathClient

JobsAssumption ==
    /\ Wallet \cap DataClient = {}
    /\ Wallet \cap PathClient = {}
    /\ DataClient \cap PathClient = {}
    /\ {"MyContract", "path"} \cap Job = {}
    /\ None \notin Source

VARIABLES
    file,        \* the Solidity source uploaded to the Contract page
    connected,   \* the site is connected: chrome.storage has its keys
    waiting,     \* wallet jobs whose callback the open popup still holds
    pc,          \* where each job is
    source,      \* the source each job was given
    loaded,      \* the registry as the job's rescontract run loaded it
    accounts,    \* whose accounts the service knows
    compiled,    \* compiled_contracts: file name -> source it came from
    temps,       \* jobs with a temporary file on disk
    registry,    \* keys in ~/.rescontract_deployed_contracts.json
    deployed,    \* contracts deployed: set of [job, key, source]
    executed,    \* the outcome of a call of executeContract
    mixed,       \* history: two path jobs compiled and deployed at once
    overlapped,  \* history: two deploy runs overlapped
    forgotten,   \* history: registry cleared, or a deploy failed late
    replaced     \* history: a file was uploaded during a wallet job

jobs == <<pc, source, loaded>>
service == <<accounts, compiled, temps, registry, deployed, executed>>
history == <<mixed, overlapped, forgotten, replaced>>
vars == <<file, connected, waiting, jobs, service, history>>

\* The file a compilation writes: named by a fresh uuid for type "data", the
\* same for all compilations of type "path".
OutputName(j) == IF j \in PathClient THEN "MyContract" ELSE j

\* The contract's name holds the path of the .sol file: for type "data" the
\* temporary one, with the uuid.  There is one owner, so that the name is the
\* deployment key.
DeploymentKey(j) == IF j \in PathClient THEN "path" ELSE j

File == DataClient \cup Wallet \cup {"MyContract"}
Key == DataClient \cup Wallet \cup {"path"}

\* Where a job is when its rescontract deploy run is under way.
Deploying == {"load", "spawn", "save"}
Ended == {"done", "failed"}

Init ==
    /\ file = None
    /\ connected \in BOOLEAN
    /\ waiting = {}
    /\ pc = [j \in Job |-> "idle"]
    /\ source = [j \in Job |-> None]
    /\ loaded = [j \in Job |-> {}]
    /\ accounts = {}
    /\ compiled = [f \in File |-> None]
    /\ temps = {}
    /\ registry = {}
    /\ deployed = {}
    /\ executed = "no"
    /\ mixed = FALSE
    /\ overlapped = FALSE
    /\ forgotten = FALSE
    /\ replaced = FALSE

Goto(j, label) == pc' = [pc EXCEPT ![j] = label]

-----------------------------------------------------------------------------
(* The Contract page.                                                      *)

\* A Solidity file is dropped or chosen, another file clears the source; the
\* configuration is taken to be there whenever the source is.
handleSolidityUpload ==
    /\ \E s \in Source \cup {None} : s # file /\ file' = s
    /\ replaced' = (replaced \/ waiting # {})
    /\ UNCHANGED <<connected, waiting, jobs, service,
                   mixed, overlapped, forgotten>>

\* Nothing keeps the user from clicking again while a deployment runs.
handleDeploy ==
    /\ file # None
    /\ connected
    /\ \E j \in Wallet :
        /\ pc[j] = "idle"
        /\ Goto(j, "check")
        /\ source' = [source EXCEPT ![j] = file]
        /\ waiting' = waiting \cup {j}
    /\ UNCHANGED <<file, connected, loaded, service, history>>

\* The callback of handleDeploy: success clears the page's files.
DeployAnswered ==
    /\ \E j \in waiting :
        /\ pc[j] \in Ended
        /\ waiting' = waiting \ {j}
        /\ file' = IF pc[j] = "done" THEN None ELSE file
    /\ UNCHANGED <<connected, jobs, service, history>>

\* The popup is closed: the page's state and its callbacks are gone, the
\* background script goes on.
ClosePopup ==
    /\ file # None
    /\ file' = None
    /\ waiting' = {}
    /\ UNCHANGED <<connected, jobs, service, history>>

\* The site is connected or disconnected.
ToggleConnection ==
    /\ connected' = ~connected
    /\ UNCHANGED <<file, waiting, jobs, service, history>>

-----------------------------------------------------------------------------
(* deployContractChain and the chain of another client.                    *)

\* The checks of deployContractChain: connected to this net, with keys.
CheckConnected ==
    /\ \E j \in Wallet :
        /\ pc[j] = "check"
        /\ Goto(j, IF connected THEN "add" ELSE "failed")
    /\ UNCHANGED <<file, connected, waiting, source, loaded, service, history>>

\* Another client starts with a source of its own.
ClientStarts ==
    /\ \E j \in DataClient \cup PathClient, s \in Source :
        /\ pc[j] = "idle"
        /\ Goto(j, "add")
        /\ source' = [source EXCEPT ![j] = s]
    /\ UNCHANGED <<file, connected, waiting, loaded, service, history>>

\* The configuration is written to a temporary file, and rescontract runs.
WriteConfig(j, from, to) ==
    /\ pc[j] = from
    /\ Goto(j, to)
    /\ temps' = IF j \in PathClient THEN temps ELSE temps \cup {j}

addAddress ==
    /\ \E j \in Wallet : WriteConfig(j, "add", "adding")
    /\ UNCHANGED <<file, connected, waiting, source, loaded, accounts,
                   compiled, registry, deployed, executed, history>>

createAccount ==
    /\ \E j \in DataClient \cup PathClient : WriteConfig(j, "add", "adding")
    /\ UNCHANGED <<file, connected, waiting, source, loaded, accounts,
                   compiled, registry, deployed, executed, history>>

\* rescontract create or add_address has ended: with the address, or with an
\* error or an output that does not match.  The temporary file is removed in
\* either case.
AccountAdded ==
    /\ \E j \in Job :
        /\ pc[j] = "adding"
        /\ temps' = temps \ {j}
        /\ \/ /\ Goto(j, "compile")
              /\ accounts' = accounts \cup {j}
           \/ /\ Goto(j, "failed")
              /\ UNCHANGED accounts
    /\ UNCHANGED <<file, connected, waiting, source, loaded,
                   compiled, registry, deployed, executed, history>>

\* compileContract up to its await: the source is written to a temporary file
\* for type "data".
compileContract ==
    /\ \E j \in Job :
        /\ WriteConfig(j, "compile", "solc")
        /\ mixed' = (mixed \/ \E k \in PathClient \ {j} :
                        /\ j \in PathClient
                        /\ pc[k] \in {"solc", "deploy"} \cup Deploying)
    /\ UNCHANGED <<file, connected, waiting, source, loaded, accounts,
                   compiled, registry, deployed, executed,
                   overlapped, forgotten, replaced>>

\* rescontract compile: solc, and its output written to the output file.
compile ==
    /\ \E j \in Job :
        /\ pc[j] = "solc"
        /\ temps' = temps \ {j}
        /\ \/ /\ Goto(j, "deploy")
              /\ compiled' = [compiled EXCEPT ![OutputName(j)] = source[j]]
           \/ /\ Goto(j, "failed")
              /\ UNCHANGED compiled
    /\ UNCHANGED <<file, connected, waiting, source, loaded,
                   accounts, registry, deployed, executed, history>>

deployContract ==
    /\ \E j \in Job :
        /\ WriteConfig(j, "deploy", "load")
        /\ overlapped' = (overlapped \/ \E k \in Job : pc[k] \in Deploying)
    /\ UNCHANGED <<file, connected, waiting, source, loaded, accounts,
                   compiled, registry, deployed, executed,
                   mixed, forgotten, replaced>>

\* rescontract deploy starts: it loads the registry, and refuses a key that
\* is in it.
loadDeployedContracts ==
    /\ \E j \in Job :
        /\ pc[j] = "load"
        /\ loaded' = [loaded EXCEPT ![j] = registry]
        /\ IF DeploymentKey(j) \in registry
           THEN /\ Goto(j, "failed")
                /\ temps' = temps \ {j}
           ELSE /\ Goto(j, "spawn")
                /\ UNCHANGED temps
    /\ UNCHANGED <<file, connected, waiting, source, accounts,
                   compiled, registry, deployed, executed, history>>

\* contract_tools deploy (external): the service deploys what the compiled
\* file holds, for an owner whose account it knows, or fails.  An output that
\* rescontract cannot parse is a failure too, after the deployment.
contractTools ==
    /\ \E j \in Job :
        /\ pc[j] = "spawn"
        /\ \/ /\ j \in accounts
              /\ deployed' = deployed \cup
                    {[job |-> j, key |-> DeploymentKey(j),
                      source |-> compiled[OutputName(j)]]}
              /\ \/ /\ Goto(j, "save")
                    /\ UNCHANGED <<temps, forgotten>>
                 \/ /\ Goto(j, "failed")
                    /\ temps' = temps \ {j}
                    /\ forgotten' = TRUE
           \/ /\ Goto(j, "failed")
              /\ temps' = temps \ {j}
              /\ UNCHANGED <<deployed, forgotten>>
    /\ UNCHANGED <<file, connected, waiting, source, loaded, accounts,
                   compiled, registry, executed, mixed, overlapped, replaced>>

\* Mutant: the file is written without the entries that were loaded.
saveOwnEntry ==
    /\ \E j \in Job :
        /\ pc[j] = "save"
        /\ registry' = {DeploymentKey(j)}
        /\ temps' = temps \ {j}
        /\ Goto(j, "done")
    /\ UNCHANGED <<file, connected, waiting, source, loaded, accounts,
                   compiled, deployed, executed, history>>

\* The registry as it was loaded, and the new entry, are written to the file;
\* the service answers with the contract's address, or with an error when it
\* does not find the addresses in the output of rescontract.
saveDeployedContracts ==
    /\ \E j \in Job :
        /\ pc[j] = "save"
        /\ registry' = loaded[j] \cup {DeploymentKey(j)}
        /\ temps' = temps \ {j}
        /\ \E end \in Ended : Goto(j, end)
    /\ UNCHANGED <<file, connected, waiting, source, loaded, accounts,
                   compiled, deployed, executed, history>>

\* The commands rescontract defines.
Commands == {"create", "compile", "deploy", "add_address",
             "list-deployments", "clear-registry"}

\* executeContract runs rescontract execute; a command rescontract does not
\* know ends with exit code 1, and the mutation with an error.
executeContract ==
    /\ \E j \in Job, outcome \in {"successful", "failed", "error"} :
        /\ pc[j] = "done"
        /\ executed = "no"
        /\ "execute" \notin Commands => outcome = "error"
        /\ executed' = outcome
    /\ UNCHANGED <<file, connected, waiting, jobs, accounts, compiled, temps,
                   registry, deployed, history>>

\* rescontract clear-registry.
clearRegistry ==
    /\ registry # {}
    /\ registry' = {}
    /\ forgotten' = TRUE
    /\ UNCHANGED <<file, connected, waiting, jobs, accounts, compiled, temps,
                   deployed, executed, mixed, overlapped, replaced>>

-----------------------------------------------------------------------------
Scripts ==
    \/ CheckConnected
    \/ addAddress
    \/ createAccount
    \/ AccountAdded
    \/ compileContract
    \/ compile
    \/ deployContract
    \/ loadDeployedContracts
    \/ contractTools
    \/ saveDeployedContracts

Next ==
    \/ handleSolidityUpload
    \/ handleDeploy
    \/ DeployAnswered
    \/ ClosePopup
    \/ ToggleConnection
    \/ ClientStarts
    \/ executeContract
    \/ clearRegistry
    \/ Scripts

Spec == Init /\ [][Next]_vars

-----------------------------------------------------------------------------
\* The state has its types.
TypeOK ==
    /\ file \in Source \cup {None}
    /\ connected \in BOOLEAN
    /\ waiting \subseteq Wallet
    /\ pc \in [Job -> {"idle", "check", "add", "adding", "compile", "solc",
                       "deploy"} \cup Deploying \cup Ended]
    /\ source \in [Job -> Source \cup {None}]
    /\ loaded \in [Job -> SUBSET Key]
    /\ accounts \subseteq Job
    /\ compiled \in [File -> Source \cup {None}]
    /\ temps \subseteq Job \ PathClient
    /\ registry \subseteq Key
    /\ deployed \subseteq [job : Job, key : Key, source : Source]
    /\ executed \in {"no", "successful", "failed", "error"}
    /\ {mixed, overlapped, forgotten, replaced} \subseteq BOOLEAN

\* A deployed contract was compiled from the source its own request gave,
\* for a wallet or any "data" client whatever runs beside it, since the uuid
\* keeps the compiled files of two requests apart.  Clients of type "path"
\* share MyContract.json: for them only while one works at a time.
OwnArtifact ==
    \A d \in deployed :
        (d.job \in PathClient /\ mixed) \/ d.source = source[d.job]

\* A deployment reported as done is in the registry, as long as no two deploy
\* runs overlap (each writes back the registry it loaded, so that the later
\* one drops the other's entry) and the registry was not cleared.
DoneIsRegistered ==
    ~overlapped /\ ~forgotten =>
        \A j \in Job : pc[j] = "done" => DeploymentKey(j) \in registry

\* A contract is deployed at most once under a key, under the same
\* conditions and when no deployment was reported as failed after it was
\* made.
OncePerKey ==
    ~overlapped /\ ~forgotten =>
        \A d, e \in deployed : d.key = e.key => d = e

\* No temporary file of an ended request is left, on any path of success or
\* failure.
NoTempLeft == \A j \in temps : pc[j] \notin Ended \cup {"idle"}

\* What a client deploys was compiled from its own source; a deployment that
\* succeeded is in the registry, none is made twice under one key, and no
\* temporary file of an ended request is left (cli-functions.js, rescontract).
DeploysSound == OwnArtifact /\ DoneIsRegistered /\ OncePerKey /\ NoTempLeft

\* The page's files are cleared only when a contract from them was deployed,
\* or the popup closed; a file uploaded while an earlier deployment runs is
\* cleared by that one's answer (replaced).
ClearedIsDeployed ==
    [][DeployAnswered /\ file # None /\ file' = None =>
        replaced \/ \E d \in deployed : d.source = file]_vars

\* Every request that was started is answered.
RequestsEnd == \A j \in Job : pc[j] # "idle" ~> pc[j] \in Ended

=============================================================================
