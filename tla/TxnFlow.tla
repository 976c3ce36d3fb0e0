------------------------------ MODULE TxnFlow ------------------------------
(***************************************************************************)
(* The way of a transaction through TD-HotStuff: the queue txns_ of the    *)
(* replica the client sent it to, the batch AsyncSend takes from it, the   *)
(* replicated log, AsyncCommit, which numbers the transactions, and the    *)
(* execute_queue_ of TransactionExecutor.                                  *)
(*                                                                         *)
(* The chain is represented by ReplicatedLog, which TdHotstuff implements  *)
(* (TdHotstuffLog): a proposal is decided when the next one is built on    *)
(* its QC, and a replica whose worker threads handle proposals out of      *)
(* order commits decided proposals with gaps or in another order.  Only    *)
(* the leader of the current view proposes, so one record of AsyncSend's   *)
(* local variables is enough.                                              *)
(***************************************************************************)
EXTENDS Integers, Sequences, FiniteSets, Functions

CONSTANTS Replica,
          MaxTxns,      \* bound on the transactions of a behaviour
          VRFLeader,    \* VRFLeader[v]: the leader of view v
          total_num,    \* total_num_
          batch_size    \* batch_size_ (1 in the code)

MaxView == Len(VRFLeader)   \* bound on the views of a behaviour
Txns == 1..MaxTxns          \* t is the t-th transaction a client sends

FlowAssumption == /\ VRFLeader \in Seq(Replica) /\ VRFLeader # <<>>
                         /\ MaxTxns \in Nat
                         /\ total_num \in Nat
                         /\ batch_size \in Nat \ {0}

VARIABLES
    txns,        \* txns[r]: txns_ of replica r
    view, slot,  \* the position of the next proposal
    step,        \* where AsyncSend of the leader is
    hand,        \* the transactions it has popped
    tries,       \* the passes of its batch loop
    pending,     \* the last proposal, which is not decided yet
    log,         \* the decided proposals
    committed,   \* committed[r]: all that was pushed on commit_q_ of r
    disordered,  \* the replicas that handled proposals out of order
    numbered,    \* numbered[r]: how many of them AsyncCommit has taken
    seq,         \* seq[r]: its local variable
    execute_q,   \* execute_q[r]: execute_queue_ of r
    executed,    \* executed[r]: what r has executed
    replaced     \* the transactions dropped for a fresher one

sendVars == <<view, slot, step, hand, tries, pending, log, replaced>>
execVars == <<committed, disordered, numbered, seq, execute_q, executed>>
vars == <<txns, sendVars, execVars>>

Log == INSTANCE ReplicatedLog WITH Entry <- Seq(Txns)

Init == /\ txns = [r \in Replica |-> <<>>]
        /\ view = 1 /\ slot = 0
        /\ step = "wait" /\ hand = <<>> /\ tries = 0
        /\ pending = <<>>
        /\ numbered = [r \in Replica |-> 0]
        /\ seq = [r \in Replica |-> 1]
        /\ execute_q = [r \in Replica |-> <<>>]
        /\ executed = [r \in Replica |-> <<>>]
        /\ replaced = {}
        /\ Log!Init

leader == VRFLeader[view]
Held == (UNION {Range(log[i]) : i \in 1..Len(log)}) \cup Range(pending)
            \cup Range(hand) \cup replaced
Received == Held \cup (UNION {Range(txns[r]) : r \in Replica})

(***************************************************************************)
(* ReceiveTransaction, by a worker thread.  The client may take any        *)
(* replica for the primary.                                                *)
(***************************************************************************)
ReceiveTransaction(r) ==
    /\ Cardinality(Received) < MaxTxns
    /\ txns' = [txns EXCEPT ![r] = Append(@, Cardinality(Received) + 1)]
    /\ UNCHANGED <<sendVars, execVars>>

(***************************************************************************)
(* AsyncSend.  Pop returns nullptr when it finds nothing until its timeout.*)
(***************************************************************************)
FirstPop ==
    /\ step = "wait"
    /\ txns[leader] # <<>>
    /\ hand' = <<Head(txns[leader])>>
    /\ txns' = [txns EXCEPT ![leader] = Tail(@)]
    /\ step' = IF slot = 0 /\ view > total_num THEN "fresh" ELSE "batch"
    /\ UNCHANGED <<view, slot, tries, pending, log, replaced, execVars>>

PopFresh ==
    /\ step = "fresh"
    /\ \/ /\ txns[leader] # <<>>
          /\ hand' = <<Head(txns[leader])>>
          /\ txns' = [txns EXCEPT ![leader] = Tail(@)]
          /\ replaced' = replaced \cup Range(hand)
       \/ /\ txns[leader] = <<>>
          /\ UNCHANGED <<txns, hand, replaced>>
    /\ step' = "batch"
    /\ UNCHANGED <<view, slot, tries, pending, log, execVars>>

PopBatch ==
    /\ step = "batch" /\ tries < batch_size - 1
    /\ tries' = tries + 1
    /\ IF txns[leader] = <<>>
       THEN UNCHANGED <<txns, hand>>
       ELSE /\ hand' = Append(hand, Head(txns[leader]))
            /\ txns' = [txns EXCEPT ![leader] = Tail(@)]
    /\ UNCHANGED <<view, slot, step, pending, log, replaced, execVars>>

(* GenerateProposal and the broadcast.  The father of the proposal is      *)
(* decided: it has the QC the proposal carries.                            *)
BuildProposal(is_final) ==
    /\ step = "batch" /\ tries = batch_size - 1
    /\ is_final => view < MaxView
    /\ pending' = hand
    /\ IF pending = <<>> THEN UNCHANGED <<log, committed, disordered>> ELSE Log!Decide(pending)
    /\ view' = IF is_final THEN view + 1 ELSE view
    /\ slot' = IF is_final THEN 0 ELSE slot + 1
    /\ step' = "wait" /\ hand' = <<>> /\ tries' = 0
    /\ UNCHANGED <<txns, replaced, numbered, seq, execute_q, executed>>

(***************************************************************************)
(* ReceiveProposal at replica r, as far as the executor sees it: its       *)
(* CommitProposal pushes a decided proposal on commit_q_, the next one if  *)
(* the worker threads kept the order; or it only leaves older proposals    *)
(* behind, which will be refused.                                          *)
(***************************************************************************)
CommitProposal(r) ==
    /\ \E i \in 1..Len(log) : Log!Commit(r, i)
    /\ UNCHANGED <<txns, view, slot, step, hand, tries, pending, replaced,
                   numbered, seq, execute_q, executed>>

Bypass(r) ==
    /\ r \notin disordered
    /\ Log!Disorder(r)
    /\ UNCHANGED <<txns, sendVars, committed, numbered, seq, execute_q, executed>>

(***************************************************************************)
(* AsyncCommit, one proposal: number its transactions, hand each one to    *)
(* CommitMsgInternal, which calls AddExecuteMessage.                       *)
(***************************************************************************)
\* Mutant: numbers start again with every proposal.
NumberedAnew(p, first) == [i \in 1..Len(p) |-> [id |-> i, txn |-> p[i]]]

Numbered(p, first) == [i \in 1..Len(p) |-> [id |-> first + i - 1, txn |-> p[i]]]

\* Mutant: the last proposal of the queue is left there.
AsyncCommitButLast(r) ==
    /\ numbered[r] + 1 < Len(committed[r])
    /\ LET p == committed[r][numbered[r] + 1] IN
         /\ execute_q' = [execute_q EXCEPT ![r] = @ \o Numbered(p, seq[r])]
         /\ seq' = [seq EXCEPT ![r] = @ + Len(p)]
    /\ numbered' = [numbered EXCEPT ![r] = @ + 1]
    /\ UNCHANGED <<txns, sendVars, committed, disordered, executed>>

AsyncCommit(r) ==
    /\ numbered[r] < Len(committed[r])
    /\ LET p == committed[r][numbered[r] + 1] IN
         /\ execute_q' = [execute_q EXCEPT ![r] = @ \o Numbered(p, seq[r])]
         /\ seq' = [seq EXCEPT ![r] = @ + Len(p)]
    /\ numbered' = [numbered EXCEPT ![r] = @ + 1]
    /\ UNCHANGED <<txns, sendVars, committed, disordered, executed>>

(* ExecuteMessage; execute_thread_num_ is 1.                               *)
ExecuteMessage(r) ==
    /\ execute_q[r] # <<>>
    /\ executed' = [executed EXCEPT ![r] = Append(@, Head(execute_q[r]))]
    /\ execute_q' = [execute_q EXCEPT ![r] = Tail(@)]
    /\ UNCHANGED <<txns, sendVars, committed, disordered, numbered, seq>>

Send == FirstPop \/ PopFresh \/ PopBatch
Replicate(r) == \/ r \notin disordered /\ CommitProposal(r)
                \/ AsyncCommit(r) \/ ExecuteMessage(r)

Next == \/ \E r \in Replica : ReceiveTransaction(r)
        \/ FirstPop \/ PopFresh \/ PopBatch
        \/ \E is_final \in BOOLEAN : BuildProposal(is_final)
        \/ \E r \in Replica : CommitProposal(r) \/ Bypass(r) \/ AsyncCommit(r)
                              \/ ExecuteMessage(r)

Spec == Init /\ [][Next]_vars

-----------------------------------------------------------------------------
(* Types; the batch loop of AsyncSend never runs past batch_size.          *)
TypeOK == /\ txns \in [Replica -> Seq(Txns)]
          /\ view \in 1..MaxView /\ slot \in Nat
          /\ step \in {"wait", "fresh", "batch"}
          /\ hand \in Seq(Txns) /\ tries \in 0..(batch_size - 1)
          /\ pending \in Seq(Txns) /\ log \in Seq(Seq(Txns))
          /\ seq \in [Replica -> Nat]
          /\ replaced \subseteq Txns /\ disordered \subseteq Replica

(* The number of places where t is.                                        *)
Places(t) == Cardinality({r \in Replica : t \in Range(txns[r])})
             + Cardinality({i \in DOMAIN log : t \in Range(log[i])})
             + Cardinality({s \in {"hand"} : t \in Range(hand)})
             + Cardinality({s \in {"pending"} : t \in Range(pending)})
             + Cardinality({s \in {"replaced"} : t \in replaced})

(* A transaction is in one place: a queue txns_, the hands of AsyncSend,   *)
(* the last proposal, one decided proposal, or replaced for good.          *)
ProposedOnce == \A t \in Received : Places(t) = 1

(* AsyncSend gives up at most one transaction per view, and none in the    *)
(* first total_num_ views.                                                 *)
LossBounded ==
    Cardinality(replaced) <= IF view > total_num THEN view - total_num ELSE 0

(* Every replica executes decided transactions under the numbers 1, 2, 3,  *)
(* ... and none of them twice, in whatever order its threads work; and two *)
(* replicas that handle proposals in order never give one number to        *)
(* different transactions.  A replica out of order may: the number is the  *)
(* position in its own commit_q_.                                          *)
SameSerialOrder ==
    /\ \A r \in Replica : \A i \in DOMAIN executed[r] :
         /\ executed[r][i].id = i
         /\ \E k \in DOMAIN log : executed[r][i].txn \in Range(log[k])
         /\ \A j \in DOMAIN executed[r] : executed[r][j].txn = executed[r][i].txn => i = j
    /\ \A r, s \in Replica \ disordered :
         \A i \in DOMAIN executed[r] \cap DOMAIN executed[s] : executed[r][i] = executed[s][i]

(* The three together: the replicas that handle proposals in order execute *)
(* one numbered sequence of transactions; at no replica is one executed    *)
(* twice, and few are given up before they are proposed.                   *)
OneSerialOrder == ProposedOnce /\ LossBounded /\ SameSerialOrder

Executed(r, t) == \E i \in DOMAIN executed[r] : executed[r][i].txn = t

(* What waits at the leader of the last view is executed by every replica  *)
(* that handles proposals in order, unless it was replaced or stays in the *)
(* last proposal: AsyncSend makes no empty proposal, so the last one is    *)
(* decided only when another transaction comes.                            *)
LeaderServes ==
    \A t \in Txns :
        (view = MaxView /\ t \in Range(txns[leader]))
            ~> \/ t \in replaced
               \/ \A r \in Replica : r \in disordered \/ Executed(r, t)
               \/ [](t \in Range(pending))
=============================================================================
