----------------------------- MODULE ClientFlow -----------------------------
(***************************************************************************)
(* The client of TD-HotStuff (TdHotstuffPerformanceManager): it keeps a    *)
(* window of requests in flight, counts the replicas' responses and moves  *)
(* to the next leader a response names.  One thread sends; the responses   *)
(* are handled by worker threads that interleave between response_lock_,   *)
(* vrf_mutex_ and the decrement of send_num_.  The replicas are seen only  *)
(* through their responses: a request is executed at most once, by the     *)
(* replica it was sent to as proposer, and all replicas name the same next *)
(* primary for it (SameNextPrimary of TdHotstuff).                         *)
(***************************************************************************)
EXTENDS Integers, FiniteSets, FiniteSetsExt, Functions

CONSTANTS
  replica_num,    \* replicas that respond
  Leader,         \* the replicas that lead in this instance
  MaxProcessTxn,  \* config_.GetMaxProcessTxn()
  MaxRequests     \* bound on local_id_

ASSUME ClientAssumption ==
  /\ replica_num \in Nat \ {0}
  /\ Leader \subseteq 1..replica_num /\ Leader # {}
  /\ MaxProcessTxn \in Nat \ {0}
  /\ MaxRequests \in Nat

VARIABLES
  local_id,      \* requests created so far
  pc,            \* "check": the window is tested; "send": SendMessage is next
  response,      \* response_: the requests still registered, with their counts
  inflight,      \* inflight_
  send_num,      \* send_num_
  primary,       \* primary_
  sent_to,       \* the replica each request was sent to, 0 before
  next_primary,  \* what the executed request names; -1 before it is executed
  arrived,       \* responses delivered for each request
  changed,       \* threads that got STATE_CHANGED, before vrf_mutex_
  answering,     \* threads that took a slot, before send_num_--
  completed      \* history: how often a request got STATE_CHANGED

vars == <<local_id, pc, response, inflight, send_num, primary, sent_to,
          next_primary, arrived, changed, answering, completed>>

Request == 1..MaxRequests

faults == (replica_num - 1) \div 3

\* GetMinDataReceiveNum.
min_data_receive == Max({2 * faults + 1, 1})

Init ==
  /\ local_id = 0
  /\ pc = "check"
  /\ response = [s \in {} |-> 0]
  /\ inflight = [r \in 1..replica_num |-> 0]
  /\ send_num = 0
  /\ primary \in Leader
  /\ sent_to = [s \in Request |-> 0]
  /\ next_primary = [s \in Request |-> -1]
  /\ arrived = [s \in Request |-> 0]
  /\ changed = {}
  /\ answering = {}
  /\ completed = [s \in Request |-> 0]

-----------------------------------------------------------------------------
(* The sender thread: BatchProposeMsg, DoBatch, SendMessage *)

\* Mutant: one request more than the window.
WindowFullLate == send_num > MaxProcessTxn
WindowFull == send_num > 0 /\ send_num >= MaxProcessTxn

\* The loop passes the window and DoBatch registers the request.
DoBatch ==
  /\ pc = "check"
  /\ local_id < MaxRequests
  /\ ~WindowFull
  /\ local_id' = local_id + 1
  /\ response' = [s \in DOMAIN response \cup {local_id + 1} |->
                    IF s = local_id + 1 THEN 0 ELSE response[s]]
  /\ pc' = "send"
  /\ UNCHANGED <<inflight, send_num, primary, sent_to, next_primary, arrived,
                 changed, answering, completed>>

\* vrf_mutex_ covers the choice of the primary and both counters.
SendMessage ==
  /\ pc = "send"
  /\ inflight' = [inflight EXCEPT ![primary] = @ + 1]
  /\ send_num' = send_num + 1
  /\ sent_to' = [sent_to EXCEPT ![local_id] = primary]
  /\ pc' = "check"
  /\ UNCHANGED <<local_id, response, primary, next_primary, arrived, changed,
                 answering, completed>>

-----------------------------------------------------------------------------
(* The replicas *)

\* The request commits; it names a next primary if its child was final.
Execute(s, next) ==
  /\ sent_to[s] # 0
  /\ next_primary[s] = -1
  /\ next_primary' = [next_primary EXCEPT ![s] = next]
  /\ UNCHANGED <<local_id, pc, response, inflight, send_num, primary, sent_to,
                 arrived, changed, answering, completed>>

-----------------------------------------------------------------------------
(* The response threads: ProcessResponseMsg *)

\* Mutant: one response more than needed.
MoreThanEnough(count) == count > min_data_receive
Enough(count) == count >= min_data_receive

\* AddResponseMsg under response_lock_: FIRST_RESPONSE wins over STATE_CHANGED,
\* and ProcessResponseMsg does nothing for it.
AddResponseMsg(s) ==
  LET count == response[s] + 1
      state_changed == Enough(count) /\ count # 1
  IN  /\ next_primary[s] # -1
      /\ arrived[s] < replica_num
      /\ arrived' = [arrived EXCEPT ![s] = @ + 1]
      /\ \/ /\ s \notin DOMAIN response
            /\ UNCHANGED <<response, changed, completed>>
         \/ /\ s \in DOMAIN response
            /\ response' = IF Enough(count) THEN Restrict(response, DOMAIN response \ {s})
                           ELSE [response EXCEPT ![s] = count]
            /\ changed' = IF state_changed THEN changed \cup {s} ELSE changed
            /\ completed' = IF state_changed THEN [completed EXCEPT ![s] = @ + 1]
                            ELSE completed
      /\ UNCHANGED <<local_id, pc, inflight, send_num, primary, sent_to,
                     next_primary, answering>>

\* The in-flight slots of the old primary are released when the leader changes.
\* Mutant: send_num_ is left as it is.
Released(s) == IF next_primary[s] \notin {0, primary} THEN inflight[primary] ELSE 0
KeepsSendNum(s) == 0
SendNumReleased(s) == Released(s)

\* The request's own slot is still there.
\* Mutants: it is not tested; the last slot is kept.
SlotUntested(slots, r) == TRUE
LastSlotKept(slots, r) == slots[r] > 1
HasSlot(slots, r) == slots[r] > 0

\* The block of ProcessResponseMsg under vrf_mutex_.
ChangePrimary(s) ==
  LET next == next_primary[s]
      cleared == IF Released(s) > 0 THEN [inflight EXCEPT ![primary] = 0] ELSE inflight
      taken == HasSlot(cleared, sent_to[s])
  IN  /\ s \in changed
      /\ changed' = changed \ {s}
      /\ send_num' = send_num - SendNumReleased(s)
      /\ primary' = IF next # 0 THEN next ELSE primary
      /\ inflight' = IF taken THEN [cleared EXCEPT ![sent_to[s]] = @ - 1] ELSE cleared
      /\ answering' = IF taken THEN answering \cup {s} ELSE answering
      /\ UNCHANGED <<local_id, pc, response, sent_to, next_primary, arrived, completed>>

SendResponseToClient(s) ==
  /\ s \in answering
  /\ answering' = answering \ {s}
  /\ send_num' = send_num - 1
  /\ UNCHANGED <<local_id, pc, response, inflight, primary, sent_to,
                 next_primary, arrived, changed, completed>>

Next ==
  \/ DoBatch
  \/ SendMessage
  \/ \E s \in Request, next \in {0} \cup Leader : Execute(s, next)
  \/ \E s \in Request : AddResponseMsg(s)
  \/ \E s \in Request : ChangePrimary(s)
  \/ \E s \in Request : SendResponseToClient(s)

Spec == Init /\ [][Next]_vars

-----------------------------------------------------------------------------
(* Properties *)

\* Every variable has its type; no counter is ever negative.
TypeOK ==
  /\ local_id \in 0..MaxRequests
  /\ pc \in {"check", "send"}
  /\ DOMAIN response \subseteq Request
  /\ \A s \in DOMAIN response : response[s] \in 0..replica_num
  /\ inflight \in [1..replica_num -> 0..MaxRequests]
  /\ send_num \in 0..MaxRequests
  /\ primary \in Leader
  /\ sent_to \in [Request -> {0} \cup Leader]
  /\ next_primary \in [Request -> {-1, 0} \cup Leader]
  /\ arrived \in [Request -> 0..replica_num]
  /\ changed \subseteq Request
  /\ answering \subseteq Request
  /\ completed \in [Request -> Nat]

\* The slots counted by inflight_, each as a replica and its number there:
\* there are as many as the entries of inflight_ add up to.
Slots(counts) ==
  {u \in (1..replica_num) \X (1..MaxRequests) : u[2] <= counts[u[1]]}

\* send_num_ is the number of in-flight slots plus the slots that a thread has
\* taken under vrf_mutex_ but not yet subtracted: the release on a leader
\* change and the late responses of released requests never drift apart.
SlotsAccounted == send_num = Cardinality(Slots(inflight)) + Cardinality(answering)

\* The client never has more slots in use than GetMaxProcessTxn allows.
WindowBound == send_num <= MaxProcessTxn

\* The requests sent to a replica that have not released their slot.
Holders(r) == {s \in Request : sent_to[s] = r /\ (completed[s] = 0 \/ s \in changed)}

\* A slot of a replica is always backed by a request sent to it that has not
\* released its slot yet: a slot is never lost, and a client whose requests
\* have all been answered has its whole window again.
NoSlotLeaks == \A r \in 1..replica_num : inflight[r] <= Cardinality(Holders(r))

\* A request whose responses are enough was reported exactly once.
CallsBack ==
  \A s \in Request : arrived[s] >= min_data_receive => completed[s] = 1
=============================================================================
