-------------------------- MODULE TxnFlow_proofs ----------------------------
(***************************************************************************)
(* The way of a transaction from txns_ to Execute, for any number of       *)
(* replicas, any leaders, batch size and warm-up: no transaction is in two *)
(* places, at most one per view is given up, no replica executes one       *)
(* twice, and those that handle proposals in order execute one numbered    *)
(* sequence.                                                               *)
(***************************************************************************)
EXTENDS Integers, Sequences, FlowPart, FiniteSetTheorems, TLAPS

FlowRecord == [id : Nat, txn : Flow!Txns]

FlowTypes ==
  /\ txns \in [Replica -> Seq(Flow!Txns)] /\ hand \in Seq(Flow!Txns)
  /\ flow_pending \in Seq(Flow!Txns) /\ log \in Seq(Seq(Flow!Txns))
  /\ replaced \subseteq Flow!Txns
  /\ view \in 1..Flow!MaxView /\ slot \in Nat
  /\ step \in {"wait", "fresh", "batch"}

\* Where transactions can be: in a queue txns_, or in a decided proposal.
Queued == UNION {Flow!Range(txns[r]) : r \in Replica}
Decided == UNION {Flow!Range(log[i]) : i \in 1..Len(log)}

\* A queue holds a transaction once, no two queues and no two proposals hold
\* the same.
QueuesApart ==
  /\ \A r \in Replica : Flow!IsInjective(txns[r])
  /\ \A r, s \in Replica : r # s => Flow!Range(txns[r]) \cap Flow!Range(txns[s]) = {}
LogApart ==
  \A i, j \in 1..Len(log) : i # j => Flow!Range(log[i]) \cap Flow!Range(log[j]) = {}

\* The places have no transaction in common, and the transactions are
\* numbered in the order in which they are received.
PlacesApart ==
  /\ Queued \cap Flow!Held = {}
  /\ Decided \cap (Flow!Range(flow_pending) \cup Flow!Range(hand) \cup replaced) = {}
  /\ Flow!Range(flow_pending) \cap (Flow!Range(hand) \cup replaced) = {}
  /\ Flow!Range(hand) \cap replaced = {}
  /\ \E n \in 0..MaxTxns : Flow!Received = 1..n

\* AsyncSend holds nothing before its first Pop, and one transaction when it
\* looks for a fresher one.
HandFits ==
  /\ step = "wait" => hand = <<>>
  /\ step = "fresh" => slot = 0 /\ view > total_num /\ \E t \in Flow!Txns : hand = <<t>>

\* Until it has looked, the one transaction it may give up in this view is
\* still there.
LossSoFar ==
  Cardinality(replaced) <=
    IF view > total_num
    THEN view - total_num - (IF step # "batch" /\ slot = 0 THEN 1 ELSE 0)
    ELSE 0

\* No proposal, and no hand, holds a transaction twice.
BatchesOnce ==
  /\ Flow!IsInjective(hand) /\ Flow!IsInjective(flow_pending)
  /\ \A i \in 1..Len(log) : Flow!IsInjective(log[i])

OnceInv == /\ FlowTypes /\ QueuesApart /\ LogApart /\ PlacesApart /\ HandFits /\ LossSoFar
           /\ BatchesOnce

\* Cardinality of the instance is Cardinality.
LEMMA FlowCardinality == \A S : Flow!Cardinality(S) = Cardinality(S)
BY Zenon DEF Flow!Cardinality, Cardinality

\* The sets of places.
LEMMA HeldIs ==
  /\ Flow!Held = Decided \cup Flow!Range(flow_pending) \cup Flow!Range(hand) \cup replaced
  /\ Flow!Received = Flow!Held \cup Queued
<1>1. Flow!Held = Decided \cup Flow!Range(flow_pending) \cup Flow!Range(hand) \cup replaced
  BY Zenon DEF Flow!Held, Decided
<1>2. Flow!Received = Flow!Held \cup Queued BY Zenon DEF Flow!Received, Queued
<1> QED BY Zenon, <1>1, <1>2

\* What is queued, and what is decided.
LEMMA InQueued == \A t : t \in Queued <=> \E r \in Replica : t \in Flow!Range(txns[r])
BY Zenon DEF Queued

LEMMA InDecided == \A t : t \in Decided <=> \E i \in 1..Len(log) : t \in Flow!Range(log[i])
BY Zenon DEF Decided

\* What a sequence holds after Pop and after a push.
LEMMA RangeOfTail ==
  ASSUME NEW T, NEW q \in Seq(T), q # <<>>, Flow!IsInjective(q)
  PROVE  /\ Tail(q) \in Seq(T) /\ Head(q) \in T /\ Flow!IsInjective(Tail(q))
         /\ Head(q) \in Flow!Range(q)
         /\ Flow!Range(Tail(q)) = Flow!Range(q) \ {Head(q)}
<1>1. /\ Len(q) \in Nat /\ Len(q) >= 1 /\ DOMAIN q = 1..Len(q) /\ Head(q) = q[1]
      /\ DOMAIN Tail(q) = 1..(Len(q) - 1) /\ Tail(q) \in Seq(T) /\ q[1] \in T
      /\ \A i \in 1..(Len(q) - 1) : Tail(q)[i] = q[i + 1]
  OBVIOUS
<1>2. \A i \in 1..(Len(q) - 1) : i + 1 \in 1..Len(q) /\ i + 1 # 1 BY <1>1
<1>3. 1 \in 1..Len(q) BY <1>1
<1>4. \A i \in 1..Len(q) : i = 1 \/ (i - 1 \in 1..(Len(q) - 1) /\ (i - 1) + 1 = i) BY <1>1
<1>5. \A i, j \in 1..Len(q) : q[i] = q[j] => i = j BY Zenon, <1>1 DEF Flow!IsInjective
<1>6. \A i, j \in 1..(Len(q) - 1) : i + 1 = j + 1 => i = j BY <1>1
<1>7. Flow!IsInjective(Tail(q)) BY <1>1, <1>2, <1>5, <1>6 DEF Flow!IsInjective
<1>8. Flow!Range(q) = {q[i] : i \in 1..Len(q)} BY Zenon, <1>1 DEF Flow!Range
<1>9. Flow!Range(Tail(q)) = {q[i + 1] : i \in 1..(Len(q) - 1)} BY Zenon, <1>1 DEF Flow!Range
<1>10. {q[i + 1] : i \in 1..(Len(q) - 1)} = {q[i] : i \in 1..Len(q)} \ {q[1]}
  BY <1>2, <1>3, <1>4, <1>5
<1> QED BY Zenon, <1>1, <1>3, <1>7, <1>8, <1>9, <1>10

LEMMA RangeOfAppend ==
  ASSUME NEW T, NEW q \in Seq(T), NEW x \in T
  PROVE  /\ Append(q, x) \in Seq(T) /\ Flow!Range(Append(q, x)) = Flow!Range(q) \cup {x}
         /\ Flow!IsInjective(q) /\ x \notin Flow!Range(q) => Flow!IsInjective(Append(q, x))
<1>1. /\ Len(q) \in Nat /\ DOMAIN q = 1..Len(q) /\ Append(q, x) \in Seq(T)
      /\ DOMAIN Append(q, x) = 1..(Len(q) + 1)
      /\ \A i \in 1..Len(q) : Append(q, x)[i] = q[i]
      /\ Append(q, x)[Len(q) + 1] = x
  OBVIOUS
<1>2. Len(q) + 1 \in 1..(Len(q) + 1) BY <1>1
<1>3. \A i \in 1..(Len(q) + 1) : i \in 1..Len(q) \/ i = Len(q) + 1 BY <1>1
<1>4. \A i \in 1..Len(q) : i \in 1..(Len(q) + 1) BY <1>1
<1>5. Flow!Range(Append(q, x)) = Flow!Range(q) \cup {x}
  BY Zenon, <1>1, <1>2, <1>3, <1>4 DEF Flow!Range
<1>6. ASSUME Flow!IsInjective(q), x \notin Flow!Range(q) PROVE Flow!IsInjective(Append(q, x))
  <2>1. \A i \in 1..Len(q) : q[i] # x BY Zenon, <1>1, <1>6 DEF Flow!Range
  <2> QED BY Zenon, <1>1, <1>3, <1>6, <2>1 DEF Flow!IsInjective
<1> QED BY Zenon, <1>1, <1>5, <1>6

\* The leader of the view is a replica.
LEMMA LeaderIsReplica ==
  ASSUME FlowTypes, Flow!FlowAssumption
  PROVE  Flow!leader \in Replica
BY DEF FlowTypes, Flow!FlowAssumption, Flow!leader, Flow!MaxView

\* Pop takes one transaction out of the queues.
LEMMA PopTakes ==
  ASSUME FlowTypes, QueuesApart, NEW l \in Replica, txns[l] # <<>>,
         txns' = [txns EXCEPT ![l] = Tail(txns[l])]
  PROVE  /\ txns' \in [Replica -> Seq(Flow!Txns)] /\ QueuesApart'
         /\ Head(txns[l]) \in Flow!Txns /\ Head(txns[l]) \in Queued
         /\ Queued' = Queued \ {Head(txns[l])}
<1> DEFINE q == txns[l]
<1>1. q \in Seq(Flow!Txns) /\ Flow!IsInjective(q) BY Zenon DEF FlowTypes, QueuesApart
<1>2. /\ Tail(q) \in Seq(Flow!Txns) /\ Head(q) \in Flow!Txns /\ Flow!IsInjective(Tail(q))
      /\ Head(q) \in Flow!Range(q)
      /\ Flow!Range(Tail(q)) = Flow!Range(q) \ {Head(q)}
  BY Zenon, <1>1, RangeOfTail
<1>3. \A r \in Replica : txns'[r] = IF r = l THEN Tail(q) ELSE txns[r] BY Zenon DEF FlowTypes
<1>4. txns' \in [Replica -> Seq(Flow!Txns)] BY Zenon, <1>2 DEF FlowTypes
<1>5. \A r \in Replica : Flow!Range(txns'[r]) = Flow!Range(txns[r]) \ {Head(q)}
  <2> SUFFICES ASSUME NEW r \in Replica
               PROVE  Flow!Range(txns'[r]) = Flow!Range(txns[r]) \ {Head(q)}
    BY Zenon
  <2>1. CASE r = l BY Zenon, <1>2, <1>3, <2>1
  <2>2. CASE r # l BY Zenon, <1>2, <1>3, <2>2 DEF QueuesApart
  <2> QED BY Zenon, <2>1, <2>2
<1>6. QueuesApart'
  <2>1. \A r \in Replica : Flow!IsInjective(txns'[r]) BY Zenon, <1>2, <1>3 DEF QueuesApart
  <2>2. \A r, s \in Replica : r # s => Flow!Range(txns'[r]) \cap Flow!Range(txns'[s]) = {}
    BY Zenon, <1>5 DEF QueuesApart
  <2> QED BY Zenon, <2>1, <2>2 DEF QueuesApart
<1> HIDE DEF q
<1>7. Queued' = Queued \ {Head(q)}
  <2>1. \A t : t \in Queued' <=> \E r \in Replica : t \in Flow!Range(txns'[r]) BY Zenon DEF Queued
  <2>2. ASSUME NEW t PROVE t \in Queued' <=> t \in Queued /\ t # Head(q)
    <3>1. \A r \in Replica :
            t \in Flow!Range(txns'[r]) <=> t \in Flow!Range(txns[r]) /\ t # Head(q)
      BY Zenon, <1>5
    <3>2. t \in Queued <=> \E r \in Replica : t \in Flow!Range(txns[r]) BY Zenon, InQueued
    <3>3. t \in Queued' <=> \E r \in Replica : t \in Flow!Range(txns'[r]) BY Zenon, <2>1
    <3> QED BY <3>1, <3>2, <3>3, Zenon
  <2> QED BY Zenon, <2>2
<1>8. Head(q) \in Queued BY Zenon, <1>2 DEF Queued, q
<1> QED BY Zenon, <1>2, <1>4, <1>6, <1>7, <1>8 DEF q

\* The transactions of an empty hand and of a hand with one.
LEMMA RangeOfFew ==
  /\ Flow!Range(<<>>) = {} /\ Flow!IsInjective(<<>>)
  /\ \A x : Flow!Range(<<x>>) = {x} /\ Flow!IsInjective(<<x>>)
<1>1. Flow!Range(<<>>) = {} /\ Flow!IsInjective(<<>>) BY DEF Flow!Range, Flow!IsInjective
<1>2. ASSUME NEW x PROVE Flow!Range(<<x>>) = {x} /\ Flow!IsInjective(<<x>>)
  <2>1. DOMAIN <<x>> = {1} /\ <<x>>[1] = x OBVIOUS
  <2> QED BY Zenon, <2>1 DEF Flow!Range, Flow!IsInjective
<1> QED BY Zenon, <1>1, <1>2

\* The transactions of the places, when the next ones are numbered on.
LEMMA PlacesStep ==
  ASSUME NEW n \in 0..MaxTxns, Flow!Received' = 1..n,
         Queued' \cap (Decided' \cup Flow!Range(flow_pending') \cup Flow!Range(hand') \cup replaced') = {},
         Decided' \cap (Flow!Range(flow_pending') \cup Flow!Range(hand') \cup replaced') = {},
         Flow!Range(flow_pending') \cap (Flow!Range(hand') \cup replaced') = {},
         Flow!Range(hand') \cap replaced' = {}
  PROVE  PlacesApart'
<1>1. (Flow!Held = Decided \cup Flow!Range(flow_pending) \cup Flow!Range(hand) \cup replaced)'
  BY HeldIs, PTL
<1> QED BY Zenon, <1>1 DEF PlacesApart

\* ReceiveTransaction queues a transaction no one has seen.
LEMMA ReceiveOnce ==
  ASSUME OnceInv, Flow!FlowAssumption, NEW r \in Replica, Flow!ReceiveTransaction(r)
  PROVE  OnceInv'
<1>1. PICK n \in 0..MaxTxns : Flow!Received = 1..n BY Zenon DEF OnceInv, PlacesApart
<1>2. MaxTxns \in Nat /\ n \in Nat BY DEF Flow!FlowAssumption
<1>3. Flow!Cardinality(Flow!Received) = n
  <2>1. Cardinality(1..n) = n BY <1>2, FS_Interval
  <2> QED BY Zenon, <1>1, <2>1, FlowCardinality
<1>4. PICK x : x = Flow!Cardinality(Flow!Received) + 1 BY Zenon
<1>5. /\ n < MaxTxns /\ txns' = [txns EXCEPT ![r] = Append(txns[r], x)]
      /\ UNCHANGED <<view, slot, step, hand, flow_pending, log, replaced>>
  <2>1. n < MaxTxns BY Zenon, <1>3 DEF Flow!ReceiveTransaction
  <2>2. txns' = [txns EXCEPT ![r] = Append(txns[r], x)]
    BY Zenon, <1>4 DEF Flow!ReceiveTransaction
  <2>3. UNCHANGED <<view, slot, step, hand, flow_pending, log, replaced>>
    BY Zenon DEF Flow!ReceiveTransaction, Flow!sendVars
  <2> QED BY Zenon, <2>1, <2>2, <2>3
<1>6. x \in Flow!Txns /\ x \notin 1..n /\ x \in 0..MaxTxns /\ 1..x = (1..n) \cup {x}
  BY <1>2, <1>3, <1>4, <1>5 DEF Flow!Txns
<1>7. txns[r] \in Seq(Flow!Txns) /\ Flow!IsInjective(txns[r])
  BY Zenon DEF OnceInv, FlowTypes, QueuesApart
<1>8. x \notin Flow!Held /\ x \notin Queued BY Zenon, <1>1, <1>6, HeldIs
<1>9. \A s \in Replica : x \notin Flow!Range(txns[s]) BY Zenon, <1>8, InQueued
<1>10. /\ Append(txns[r], x) \in Seq(Flow!Txns)
       /\ Flow!Range(Append(txns[r], x)) = Flow!Range(txns[r]) \cup {x}
       /\ Flow!IsInjective(Append(txns[r], x))
  BY <1>6, <1>7, <1>9, RangeOfAppend
<1>11. \A s \in Replica : txns'[s] = IF s = r THEN Append(txns[r], x) ELSE txns[s]
  BY Zenon, <1>5 DEF OnceInv, FlowTypes
<1>12. FlowTypes' BY Zenon, <1>5, <1>10 DEF OnceInv, FlowTypes
<1>13. QueuesApart'
  <2>1. \A s \in Replica : Flow!IsInjective(txns'[s])
    BY Zenon, <1>10, <1>11 DEF OnceInv, QueuesApart
  <2>2. ASSUME NEW a \in Replica, NEW b \in Replica, a # b
        PROVE  Flow!Range(txns'[a]) \cap Flow!Range(txns'[b]) = {}
    <3>1. Flow!Range(txns[a]) \cap Flow!Range(txns[b]) = {} BY Zenon, <2>2 DEF OnceInv, QueuesApart
    <3> QED BY Zenon, <1>9, <1>10, <1>11, <2>2, <3>1
  <2> QED BY Zenon, <2>1, <2>2 DEF QueuesApart
<1>14. Queued' = Queued \cup {x}
  <2>1. \A t : t \in Queued' <=> \E s \in Replica : t \in Flow!Range(txns'[s]) BY Zenon DEF Queued
  <2>2. ASSUME NEW t PROVE t \in Queued' <=> t \in Queued \/ t = x
    <3>1. t \in Queued <=> \E s \in Replica : t \in Flow!Range(txns[s]) BY Zenon, InQueued
    <3>2. t \in Queued' <=> \E s \in Replica : t \in Flow!Range(txns'[s]) BY Zenon, <2>1
    <3>3. \A s \in Replica : t \in Flow!Range(txns'[s]) <=>
                               t \in Flow!Range(txns[s]) \/ (s = r /\ t = x)
      BY Zenon, <1>10, <1>11
    <3> QED BY Zenon, <3>1, <3>2, <3>3
  <2> QED BY Zenon, <2>2
<1>15. LogApart' /\ HandFits' /\ LossSoFar' /\ BatchesOnce' /\ Decided' = Decided
  BY Zenon, <1>5 DEF OnceInv, LogApart, HandFits, LossSoFar, BatchesOnce, Decided
<1>16. PlacesApart'
  <2>1. (Flow!Received = Flow!Held \cup Queued)' BY HeldIs, PTL
  <2>2. Flow!Held' = Flow!Held BY <1>5 DEF Flow!Held
  <2>3. Flow!Received' = 1..x BY Zenon, <1>1, <1>6, <1>14, <2>1, <2>2, HeldIs
  <2>4. (Queued' \cap Flow!Held' = {}) BY Zenon, <1>8, <1>14, <2>2 DEF OnceInv, PlacesApart
  <2> QED BY Zenon, <1>5, <1>6, <1>15, <2>3, <2>4 DEF OnceInv, PlacesApart
<1> QED BY Zenon, <1>12, <1>13, <1>15, <1>16 DEF OnceInv

\* The first Pop of AsyncSend.
LEMMA FirstPopOnce ==
  ASSUME OnceInv, Flow!FlowAssumption, Flow!FirstPop
  PROVE  OnceInv'
<1> DEFINE t == Head(txns[Flow!leader])
<1>1. /\ step = "wait" /\ txns[Flow!leader] # <<>> /\ hand' = <<t>>
      /\ txns' = [txns EXCEPT ![Flow!leader] = Tail(txns[Flow!leader])]
      /\ step' = IF slot = 0 /\ view > total_num THEN "fresh" ELSE "batch"
      /\ UNCHANGED <<view, slot, flow_pending, log, replaced>>
  BY Zenon DEF Flow!FirstPop
<1>2. Flow!leader \in Replica BY Zenon, LeaderIsReplica DEF OnceInv
<1>3. /\ txns' \in [Replica -> Seq(Flow!Txns)] /\ QueuesApart' /\ t \in Flow!Txns
      /\ t \in Queued /\ Queued' = Queued \ {t}
  BY Zenon, <1>1, <1>2, PopTakes DEF OnceInv
<1> HIDE DEF t
<1>4. hand = <<>> BY Zenon, <1>1 DEF OnceInv, HandFits
<1>5. Flow!Range(hand) = {} /\ Flow!Range(hand') = {t} BY Zenon, <1>1, <1>4, RangeOfFew
<1>6. hand' \in Seq(Flow!Txns) BY <1>1, <1>3
<1>7. FlowTypes' BY Zenon, <1>1, <1>3, <1>6 DEF OnceInv, FlowTypes
<1>8. LogApart' /\ Decided' = Decided BY Zenon, <1>1 DEF OnceInv, LogApart, Decided
<1>9. HandFits' BY Zenon, <1>1, <1>3 DEF HandFits
<1>10. LossSoFar' BY Zenon, <1>1 DEF OnceInv, LossSoFar
<1>11. PlacesApart'
  <2>1. PICK n \in 0..MaxTxns : Flow!Received = 1..n BY Zenon DEF OnceInv, PlacesApart
  <2>2. (/\ Flow!Held = Decided \cup Flow!Range(flow_pending) \cup Flow!Range(hand) \cup replaced
         /\ Flow!Received = Flow!Held \cup Queued)'
    BY HeldIs, PTL
  <2>3. Flow!Received' = Flow!Received BY <1>1, <1>3, <1>5, <1>8, <2>2, HeldIs
  <2> QED BY <1>1, <1>3, <1>5, <1>8, <2>1, <2>3, PlacesStep, HeldIs DEF OnceInv, PlacesApart
<1>12. BatchesOnce' BY Zenon, <1>1, RangeOfFew DEF OnceInv, BatchesOnce
<1> QED BY Zenon, <1>3, <1>7, <1>8, <1>9, <1>10, <1>11, <1>12 DEF OnceInv

\* The Pop that looks for a fresher transaction, which replaces the one in
\* hand for good.
LEMMA PopFreshOnce ==
  ASSUME OnceInv, Flow!FlowAssumption, Flow!PopFresh
  PROVE  OnceInv'
<1> DEFINE t == Head(txns[Flow!leader])
<1>1. /\ step = "fresh" /\ step' = "batch" /\ UNCHANGED <<view, slot, flow_pending, log>>
  BY Zenon DEF Flow!PopFresh
<1>2. Flow!leader \in Replica BY Zenon, LeaderIsReplica DEF OnceInv
<1>3. PICK u \in Flow!Txns : hand = <<u>> BY Zenon, <1>1 DEF OnceInv, HandFits
<1>4. slot = 0 /\ view > total_num BY Zenon, <1>1 DEF OnceInv, HandFits
<1>5. Flow!Range(hand) = {u} /\ u \notin replaced BY Zenon, <1>3, RangeOfFew DEF OnceInv, PlacesApart
<1>6. LogApart' /\ Decided' = Decided /\ HandFits'
  BY Zenon, <1>1 DEF OnceInv, LogApart, Decided, HandFits
<1>7. IsFiniteSet(replaced) /\ Cardinality(replaced) \in Nat
  <2>1. IsFiniteSet(Flow!Txns) BY FS_Interval DEF Flow!Txns, Flow!FlowAssumption
  <2>2. replaced \subseteq Flow!Txns BY Zenon DEF OnceInv, FlowTypes
  <2> QED BY Zenon, <2>1, <2>2, FS_Subset, FS_CardinalityType
<1>8. view \in Nat /\ total_num \in Nat
  BY DEF OnceInv, FlowTypes, Flow!FlowAssumption, Flow!MaxView
<1>9. Cardinality(replaced) <= view - total_num - 1
  BY Zenon, <1>1, <1>4 DEF OnceInv, LossSoFar
<1>10. CASE txns[Flow!leader] # <<>>
  <2>1. /\ hand' = <<t>> /\ txns' = [txns EXCEPT ![Flow!leader] = Tail(txns[Flow!leader])]
        /\ replaced' = replaced \cup {u}
    BY Zenon, <1>5, <1>10 DEF Flow!PopFresh
  <2>2. /\ txns' \in [Replica -> Seq(Flow!Txns)] /\ QueuesApart' /\ t \in Flow!Txns
        /\ t \in Queued /\ Queued' = Queued \ {t}
    BY Zenon, <1>2, <1>10, <2>1, PopTakes DEF OnceInv
  <2> HIDE DEF t
  <2>3. Flow!Range(hand') = {t} /\ hand' \in Seq(Flow!Txns) BY <2>1, <2>2, RangeOfFew
  <2>4. FlowTypes' BY Zenon, <1>1, <2>1, <2>2, <2>3 DEF OnceInv, FlowTypes
  <2>5. Cardinality(replaced') = Cardinality(replaced) + 1
    BY Zenon, <1>5, <1>7, <2>1, FS_AddElement
  <2>6. Cardinality(replaced') <= view - total_num BY <1>7, <1>8, <1>9, <2>5
  <2>7. LossSoFar' BY <1>1, <1>4, <1>8, <2>6 DEF LossSoFar
  <2>8. PlacesApart'
    <3>1. PICK n \in 0..MaxTxns : Flow!Received = 1..n BY Zenon DEF OnceInv, PlacesApart
    <3>2. (/\ Flow!Held = Decided \cup Flow!Range(flow_pending) \cup Flow!Range(hand) \cup replaced
           /\ Flow!Received = Flow!Held \cup Queued)'
      BY HeldIs, PTL
    <3>3. Flow!Received' = Flow!Received BY Zenon, <1>1, <1>5, <1>6, <2>1, <2>2, <2>3, <3>2, HeldIs
    <3> QED BY <1>1, <1>5, <1>6, <2>1, <2>2, <2>3, <3>1, <3>3, PlacesStep, HeldIs
            DEF OnceInv, PlacesApart
  <2>9. BatchesOnce' BY Zenon, <1>1, <2>1, RangeOfFew DEF OnceInv, BatchesOnce
  <2> QED BY Zenon, <1>6, <2>2, <2>4, <2>7, <2>8, <2>9 DEF OnceInv
<1>11. CASE txns[Flow!leader] = <<>>
  <2>1. UNCHANGED <<txns, hand, replaced>> BY Zenon, <1>11 DEF Flow!PopFresh
  <2>2. FlowTypes' BY Zenon, <1>1, <2>1 DEF OnceInv, FlowTypes
  <2>3. QueuesApart' BY Zenon, <2>1 DEF OnceInv, QueuesApart
  <2>4. PlacesApart'
    BY <1>1, <2>1 DEF OnceInv, PlacesApart, Queued, Decided, Flow!Held, Flow!Received
  <2>5. LossSoFar' BY <1>1, <1>4, <1>7, <1>8, <1>9, <2>1 DEF LossSoFar
  <2>6. BatchesOnce' BY Zenon, <1>1, <2>1 DEF OnceInv, BatchesOnce
  <2> QED BY Zenon, <1>6, <2>2, <2>3, <2>4, <2>5, <2>6 DEF OnceInv
<1> QED BY Zenon, <1>10, <1>11

\* The Pops of the batch.
LEMMA PopBatchOnce ==
  ASSUME OnceInv, Flow!FlowAssumption, Flow!PopBatch
  PROVE  OnceInv'
<1> DEFINE t == Head(txns[Flow!leader])
<1>1. /\ step = "batch" /\ UNCHANGED <<view, slot, step, flow_pending, log, replaced>>
  BY Zenon DEF Flow!PopBatch
<1>2. Flow!leader \in Replica BY Zenon, LeaderIsReplica DEF OnceInv
<1>3. LogApart' /\ Decided' = Decided /\ HandFits' /\ LossSoFar'
  BY Zenon, <1>1 DEF OnceInv, LogApart, Decided, HandFits, LossSoFar
<1>4. CASE txns[Flow!leader] # <<>>
  <2>1. /\ hand' = Append(hand, t)
        /\ txns' = [txns EXCEPT ![Flow!leader] = Tail(txns[Flow!leader])]
    BY Zenon, <1>4 DEF Flow!PopBatch
  <2>2. /\ txns' \in [Replica -> Seq(Flow!Txns)] /\ QueuesApart' /\ t \in Flow!Txns
        /\ t \in Queued /\ Queued' = Queued \ {t}
    BY Zenon, <1>2, <1>4, <2>1, PopTakes DEF OnceInv
  <2> HIDE DEF t
  <2>3. Flow!Range(hand') = Flow!Range(hand) \cup {t} /\ hand' \in Seq(Flow!Txns)
    BY <2>1, <2>2, RangeOfAppend DEF OnceInv, FlowTypes
  <2>4. FlowTypes' BY Zenon, <1>1, <2>2, <2>3 DEF OnceInv, FlowTypes
  <2>5. PlacesApart'
    <3>1. PICK n \in 0..MaxTxns : Flow!Received = 1..n BY Zenon DEF OnceInv, PlacesApart
    <3>2. (/\ Flow!Held = Decided \cup Flow!Range(flow_pending) \cup Flow!Range(hand) \cup replaced
           /\ Flow!Received = Flow!Held \cup Queued)'
      BY HeldIs, PTL
    <3>3. Flow!Received' = Flow!Received BY Zenon, <1>1, <1>3, <2>2, <2>3, <3>2, HeldIs
    <3> QED BY <1>1, <1>3, <2>2, <2>3, <3>1, <3>3, PlacesStep, HeldIs
            DEF OnceInv, PlacesApart
  <2>6. BatchesOnce'
    <3>1. t \notin Flow!Range(hand) BY Zenon, <2>2, HeldIs DEF OnceInv, PlacesApart
    <3>2. hand \in Seq(Flow!Txns) /\ Flow!IsInjective(hand)
      BY Zenon DEF OnceInv, FlowTypes, BatchesOnce
    <3>3. Flow!IsInjective(hand') BY Zenon, <2>1, <2>2, <3>1, <3>2, RangeOfAppend
    <3> QED BY Zenon, <1>1, <3>3 DEF OnceInv, BatchesOnce
  <2> QED BY Zenon, <1>3, <2>2, <2>4, <2>5, <2>6 DEF OnceInv
<1>5. CASE txns[Flow!leader] = <<>>
  <2>1. UNCHANGED <<txns, hand>> BY Zenon, <1>5 DEF Flow!PopBatch
  <2>2. FlowTypes' BY Zenon, <1>1, <2>1 DEF OnceInv, FlowTypes
  <2>3. QueuesApart' BY Zenon, <2>1 DEF OnceInv, QueuesApart
  <2>4. PlacesApart'
    BY <1>1, <2>1 DEF OnceInv, PlacesApart, Queued, Decided, Flow!Held, Flow!Received
  <2>5. BatchesOnce' BY Zenon, <1>1, <2>1 DEF OnceInv, BatchesOnce
  <2> QED BY Zenon, <1>3, <2>2, <2>3, <2>4, <2>5 DEF OnceInv
<1> QED BY Zenon, <1>4, <1>5

\* The proposal is built: the last one is decided, the hand becomes the last.
LEMMA BuildOnce ==
  ASSUME OnceInv, Flow!FlowAssumption, NEW f \in BOOLEAN, Flow!BuildProposal(f)
  PROVE  OnceInv'
<1>1. /\ step = "batch" /\ step' = "wait" /\ hand' = <<>> /\ flow_pending' = hand
      /\ UNCHANGED <<txns, replaced>>
      /\ view' = IF f THEN view + 1 ELSE view
      /\ slot' = IF f THEN 0 ELSE slot + 1
      /\ f => view < Flow!MaxView
      /\ log' = IF flow_pending = <<>> THEN log ELSE Append(log, flow_pending)
  BY Zenon DEF Flow!BuildProposal, Flow!Log!Decide
<1>2. view \in Nat /\ total_num \in Nat /\ slot \in Nat /\ view \in 1..Flow!MaxView
      /\ Flow!MaxView \in Nat
  BY DEF OnceInv, FlowTypes, Flow!FlowAssumption, Flow!MaxView
<1>3. Cardinality(replaced) \in Nat
  <2>1. IsFiniteSet(Flow!Txns) BY FS_Interval DEF Flow!Txns, Flow!FlowAssumption
  <2>2. replaced \subseteq Flow!Txns BY Zenon DEF OnceInv, FlowTypes
  <2> QED BY Zenon, <2>1, <2>2, FS_Subset, FS_CardinalityType
<1>4. Flow!Range(hand') = {} BY Zenon, <1>1, RangeOfFew
<1>5. /\ log' \in Seq(Seq(Flow!Txns)) /\ LogApart'
      /\ \A i \in 1..Len(log') : Flow!IsInjective(log'[i])
      /\ Decided' = Decided \cup Flow!Range(flow_pending)
  <2>1. CASE flow_pending = <<>>
    <3>1. Flow!Range(flow_pending) = {} BY Zenon, <2>1, RangeOfFew
    <3>2. log' = log BY Zenon, <1>1, <2>1
    <3> QED BY Zenon, <3>1, <3>2 DEF OnceInv, FlowTypes, LogApart, BatchesOnce, Decided
  <2>2. CASE flow_pending # <<>>
    <3>1. log' = Append(log, flow_pending) BY Zenon, <1>1, <2>2
    <3>2. log \in Seq(Seq(Flow!Txns)) /\ flow_pending \in Seq(Flow!Txns) BY Zenon DEF OnceInv, FlowTypes
    <3>3. PICK m \in Nat : m = Len(log) BY <3>2
    <3>4. /\ log' \in Seq(Seq(Flow!Txns)) /\ Len(log') = m + 1 /\ log'[m + 1] = flow_pending
          /\ \A i \in 1..m : log'[i] = log[i]
      BY <3>1, <3>2, <3>3
    <3>5. \A i \in 1..(m + 1) : i \in 1..m \/ i = m + 1 OBVIOUS
    <3>6. m + 1 \in 1..(m + 1) /\ \A i \in 1..m : i \in 1..(m + 1) OBVIOUS
    <3>7. \A t : t \in Decided' <=> \E i \in 1..Len(log') : t \in Flow!Range(log'[i])
      BY Zenon DEF Decided
    <3>8. \A t : t \in Decided' <=> t \in Decided \/ t \in Flow!Range(flow_pending)
      BY Zenon, <3>3, <3>4, <3>5, <3>6, <3>7, InDecided
    <3>9. \A i \in 1..m : Flow!Range(log[i]) \cap Flow!Range(flow_pending) = {}
      BY Zenon, <3>3, InDecided DEF OnceInv, PlacesApart
    <3>10. \A i, j \in 1..(m + 1) : i # j => Flow!Range(log'[i]) \cap Flow!Range(log'[j]) = {}
      BY Zenon, <3>3, <3>4, <3>5, <3>9 DEF OnceInv, LogApart
    <3>11. \A i \in 1..(m + 1) : Flow!IsInjective(log'[i])
      BY Zenon, <3>3, <3>4, <3>5 DEF OnceInv, BatchesOnce
    <3> QED BY Zenon, <3>4, <3>8, <3>10, <3>11 DEF LogApart
  <2> QED BY Zenon, <2>1, <2>2
<1>6. FlowTypes'
  <2>1. \A a, b \in Nat : a \in 1..b /\ a < b => a + 1 \in 1..b OBVIOUS
  <2>2. view' \in 1..Flow!MaxView BY Zenon, <1>1, <1>2, <2>1
  <2>3. slot' \in Nat BY <1>1, <1>2
  <2>4. hand' \in Seq(Flow!Txns) /\ flow_pending' \in Seq(Flow!Txns)
    BY <1>1 DEF OnceInv, FlowTypes
  <2> QED BY Zenon, <1>1, <1>5, <2>2, <2>3, <2>4 DEF OnceInv, FlowTypes
<1>7. QueuesApart' /\ Queued' = Queued BY Zenon, <1>1 DEF OnceInv, QueuesApart, Queued
<1>8. HandFits' BY Zenon, <1>1 DEF HandFits
<1>9. LossSoFar'
  <2>1. \A c, v, n, s \in Nat :
          c <= (IF v > n THEN v - n ELSE 0) =>
            c <= IF v > n THEN v - n - (IF s + 1 = 0 THEN 1 ELSE 0) ELSE 0
    OBVIOUS
  <2>2. Cardinality(replaced) <= IF view > total_num THEN view - total_num ELSE 0
    BY <1>1, <1>2, <1>3 DEF OnceInv, LossSoFar
  <2>3. Cardinality(replaced) <=
          IF view > total_num THEN view - total_num - (IF slot + 1 = 0 THEN 1 ELSE 0) ELSE 0
    BY Zenon, <1>2, <1>3, <2>1, <2>2
  <2>4. CASE f
    <3>1. PICK w \in Nat : w = view + 1 BY <1>2
    <3>2. view' = w /\ slot' = 0 /\ step' # "batch" /\ replaced' = replaced
      <4>1. view' = view + 1 /\ slot' = 0 BY <1>1, <2>4, Zenon
      <4> QED BY <1>1, <3>1, <4>1, Zenon
    <3>3. Cardinality(replaced) <= IF w > total_num THEN w - total_num - 1 ELSE 0
      <4>1. \A c, v, n, x \in Nat : x = v + 1 /\ c <= (IF v > n THEN v - n ELSE 0) =>
              c <= IF x > n THEN x - n - 1 ELSE 0
        OBVIOUS
      <4>2. Cardinality(replaced) \in Nat /\ view \in Nat /\ total_num \in Nat BY Zenon, <1>2, <1>3
      <4> QED BY Zenon, <2>2, <3>1, <4>1, <4>2
    <3> QED BY Zenon, <3>2, <3>3 DEF LossSoFar
  <2>5. CASE ~f
    <3>1. view' = view /\ slot' = slot + 1 BY Zenon, <1>1, <2>5
    <3> QED BY Zenon, <1>1, <2>3, <3>1 DEF LossSoFar
  <2> QED BY Zenon, <2>4, <2>5
<1>10. PlacesApart'
  <2>1. PICK n \in 0..MaxTxns : Flow!Received = 1..n BY Zenon DEF OnceInv, PlacesApart
  <2>2. (/\ Flow!Held = Decided \cup Flow!Range(flow_pending) \cup Flow!Range(hand) \cup replaced
         /\ Flow!Received = Flow!Held \cup Queued)'
    BY HeldIs, PTL
  <2>3. Flow!Received' = Flow!Received BY Zenon, <1>1, <1>4, <1>5, <1>7, <2>2, HeldIs
  <2> QED BY Zenon, <1>1, <1>4, <1>5, <1>7, <2>1, <2>3, PlacesStep, HeldIs DEF OnceInv, PlacesApart
<1>11. BatchesOnce' BY Zenon, <1>1, <1>5, RangeOfFew DEF OnceInv, BatchesOnce
<1> QED BY Zenon, <1>5, <1>6, <1>7, <1>8, <1>9, <1>10, <1>11 DEF OnceInv

\* The numbers up to n are those of transactions of the log l.
Covered(l, n, first) ==
  \A i \in 1..n : \E k \in 1..Len(l) : \E j \in 1..Len(l[k]) : i = first[k] + j - 1

\* The order of the transactions of the log l: G holds them one after the
\* other under their numbers, those of proposal k from number first[k] on.
OrderLog(l, G, first) ==
  /\ l \in Seq(Seq(Flow!Txns)) /\ G \in Seq(FlowRecord) /\ first \in [1..(Len(l) + 1) -> Nat]
  /\ first[1] = 1 /\ first[Len(l) + 1] = Len(G) + 1
  /\ \A k \in 1..(Len(l) + 1) : first[k] \in 1..(Len(G) + 1)
  /\ \A i \in 1..Len(G) : G[i].id = i
  /\ Covered(l, Len(G), first)
  /\ \A k \in 1..Len(l) :
       /\ first[k + 1] = first[k] + Len(l[k])
       /\ \A j \in 1..Len(l[k]) :
            G[first[k] + j - 1] = [id |-> first[k] + j - 1, txn |-> l[k][j]]

\* A replica that has numbered n proposals has executed and queued G up to the
\* first number of the next, a.
OrderOf(G, first, n, a, q, e) ==
  /\ q \in Seq(FlowRecord) /\ e \in Seq(FlowRecord)
  /\ a = first[n + 1] /\ Len(e) + Len(q) + 1 = a
  /\ \A i \in 1..Len(e) : e[i] = G[i]
  /\ \A i \in 1..Len(q) : q[i] = G[Len(e) + i]

\* What the numbered transactions of a proposal are.
LEMMA NumberedIs ==
  ASSUME NEW p \in Seq(Flow!Txns), NEW a \in Nat, a >= 1
  PROVE  /\ Flow!Numbered(p, a) \in Seq(FlowRecord)
         /\ Len(Flow!Numbered(p, a)) = Len(p)
         /\ \A j \in 1..Len(p) :
              Flow!Numbered(p, a)[j] = [id |-> a + j - 1, txn |-> p[j]]
<1> DEFINE s == Flow!Numbered(p, a)
           n == Len(p)
<1>1. n \in Nat /\ \A j \in 1..n : p[j] \in Flow!Txns OBVIOUS
<1>2. s = [j \in 1..n |-> [id |-> a + j - 1, txn |-> p[j]]] BY Zenon DEF Flow!Numbered
<1>3. \A j \in 1..n : a + j - 1 \in Nat BY <1>1
<1> HIDE DEF n, s
<1>4. s \in [1..n -> FlowRecord] BY Zenon, <1>1, <1>2, <1>3 DEF FlowRecord
<1>5. s \in Seq(FlowRecord) /\ Len(s) = n BY <1>1, <1>2, <1>4
<1> QED BY Zenon, <1>2, <1>5 DEF n, s

\* A sequence after another.
LEMMA ConcatIs ==
  ASSUME NEW u \in Seq(FlowRecord), NEW v \in Seq(FlowRecord)
  PROVE  /\ u \o v \in Seq(FlowRecord) /\ Len(u \o v) = Len(u) + Len(v)
         /\ \A i \in 1..Len(u) : (u \o v)[i] = u[i]
         /\ \A i \in 1..(Len(u) + Len(v)) : i > Len(u) => (u \o v)[i] = v[i - Len(u)]
OBVIOUS

\* The numbers of a proposal of c transactions that starts at x.
LEMMA NumberRange ==
  \A x, c, N \in Nat : x >= 1 /\ x + c <= N + 1 => \A j \in 1..c : x + j - 1 \in 1..N
OBVIOUS

\* A proposal that is decided extends the order.
LEMMA OrderExtends ==
  ASSUME NEW l, NEW G, NEW first, OrderLog(l, G, first), NEW p \in Seq(Flow!Txns)
  PROVE  \E G2, first2 :
           /\ OrderLog(Append(l, p), G2, first2)
           /\ \A i \in 1..Len(G) : G2[i] = G[i]
           /\ \A k \in 1..(Len(l) + 1) : first2[k] = first[k]
<1> DEFINE m == Len(l)
           N == Len(G)
           P == Len(p)
           s == Flow!Numbered(p, N + 1)
           G2 == G \o s
           l2 == Append(l, p)
           first2 == [k \in 1..(m + 2) |-> IF k = m + 2 THEN N + 1 + P ELSE first[k]]
<1>1. /\ m \in Nat /\ N \in Nat /\ P \in Nat
      /\ l \in Seq(Seq(Flow!Txns)) /\ G \in Seq(FlowRecord)
  BY DEF OrderLog
<1>2. s \in Seq(FlowRecord) /\ Len(s) = P
      /\ \A j \in 1..P : s[j] = [id |-> N + 1 + j - 1, txn |-> p[j]]
  BY <1>1, NumberedIs
<1>3. /\ G2 \in Seq(FlowRecord) /\ Len(G2) = N + P
      /\ \A i \in 1..N : G2[i] = G[i]
      /\ \A i \in 1..(N + P) : i > N => G2[i] = s[i - N]
  <2>1. /\ G \o s \in Seq(FlowRecord) /\ Len(G \o s) = Len(G) + Len(s)
        /\ \A i \in 1..Len(G) : (G \o s)[i] = G[i]
        /\ \A i \in 1..(Len(G) + Len(s)) : i > Len(G) => (G \o s)[i] = s[i - Len(G)]
    BY Zenon, <1>1, <1>2, ConcatIs
  <2>2. Len(s) = P BY Zenon, <1>2
  <2> HIDE DEF s, P
  <2> QED BY Zenon, <2>1, <2>2
<1>4. /\ l2 \in Seq(Seq(Flow!Txns)) /\ Len(l2) = m + 1 /\ l2[m + 1] = p
      /\ \A k \in 1..m : l2[k] = l[k]
  BY <1>1
<1>5. /\ \A k \in 1..(m + 1) : first2[k] = first[k] /\ first[k] \in 1..(N + 1)
      /\ first2[m + 2] = N + P + 1
      /\ first[1] = 1 /\ first[m + 1] = N + 1
  <2>1. /\ \A k \in 1..(m + 1) : first[k] \in 1..(N + 1)
        /\ first[1] = 1 /\ first[m + 1] = N + 1
    BY Zenon DEF OrderLog
  <2>2. \A k \in 1..(m + 1) : k \in 1..(m + 2) /\ k # m + 2 BY <1>1
  <2>3. m + 2 \in 1..(m + 2) /\ N + 1 + P = N + P + 1 BY <1>1
  <2> HIDE DEF m, N, P
  <2> QED BY Zenon, <2>1, <2>2, <2>3
<1>6. \A k \in 1..m :
        /\ first[k + 1] = first[k] + Len(l[k])
        /\ \A j \in 1..Len(l[k]) :
             G[first[k] + j - 1] = [id |-> first[k] + j - 1, txn |-> l[k][j]]
  BY Zenon DEF OrderLog
<1>7. \A i \in 1..N : G[i].id = i BY Zenon DEF OrderLog
<1>8. \A k \in 1..m : Len(l[k]) \in Nat BY <1>1
<1>9. first2 \in [1..(m + 2) -> Nat] /\ \A k \in 1..(m + 2) : first2[k] \in 1..(N + P + 1)
  <2>1. \A k \in 1..(m + 2) : k \in 1..(m + 1) \/ k = m + 2 BY <1>1
  <2>2. N + P + 1 \in 1..(N + P + 1) /\ \A x \in 1..(N + 1) : x \in 1..(N + P + 1) BY <1>1
  <2>3. \A x \in 1..(N + P + 1) : x \in Nat BY <1>1
  <2>4. \A k \in 1..(m + 2) : first2[k] \in 1..(N + P + 1)
    <3> HIDE DEF m, N, P, first2
    <3> QED BY Zenon, <1>5, <2>1, <2>2
  <2>5. first2 = [k \in 1..(m + 2) |-> first2[k]] BY Zenon
  <2> HIDE DEF m, N, P, first2
  <2> QED BY Zenon, <2>3, <2>4, <2>5
<1> HIDE DEF m, N, P, s, G2, l2, first2
<1>10. \A i \in 1..(N + P) : G2[i].id = i
  <2> SUFFICES ASSUME NEW i \in 1..(N + P) PROVE G2[i].id = i BY Zenon
  <2>1. CASE i \in 1..N BY Zenon, <1>3, <1>7, <2>1
  <2>2. CASE i > N
    <3>1. i - N \in 1..P /\ N + 1 + (i - N) - 1 = i BY <1>1, <2>2
    <3>2. G2[i] = s[i - N] BY Zenon, <1>3, <2>2
    <3>3. s[i - N] = [id |-> i, txn |-> p[i - N]] BY Zenon, <1>2, <3>1
    <3> QED BY <3>2, <3>3
  <2> QED BY <1>1, <2>1, <2>2
<1>11. ASSUME NEW k \in 1..(m + 1)
       PROVE  /\ first2[k + 1] = first2[k] + Len(l2[k])
              /\ \A j \in 1..Len(l2[k]) :
                   G2[first2[k] + j - 1] = [id |-> first2[k] + j - 1, txn |-> l2[k][j]]
  <2>1. CASE k \in 1..m
    <3>1. k + 1 \in 1..(m + 1) /\ k \in 1..(m + 1) BY <1>1, <2>1
    <3>2. first2[k + 1] = first[k + 1] /\ first2[k] = first[k] /\ l2[k] = l[k]
      BY Zenon, <1>4, <1>5, <2>1, <3>1
    <3>3. \A j \in 1..Len(l[k]) : first[k] + j - 1 \in 1..N
      <4>1. first[k] \in 1..(N + 1) /\ first[k + 1] \in 1..(N + 1) BY Zenon, <1>5, <3>1
      <4>2. first[k + 1] = first[k] + Len(l[k]) /\ Len(l[k]) \in Nat BY Zenon, <1>6, <1>8, <2>1
      <4>3. PICK x \in Nat, c \in Nat : x = first[k] /\ c = Len(l[k]) /\ x >= 1 /\ x + c <= N + 1
        BY <1>1, <4>1, <4>2
      <4>4. \A j \in 1..c : x + j - 1 \in 1..N BY Zenon, <1>1, <4>3, NumberRange
      <4> QED BY Zenon, <4>3, <4>4
    <3>4. /\ first[k + 1] = first[k] + Len(l[k])
          /\ \A j \in 1..Len(l[k]) :
               G2[first[k] + j - 1] = [id |-> first[k] + j - 1, txn |-> l[k][j]]
      BY Zenon, <1>3, <1>6, <2>1, <3>3
    <3> QED BY <3>2, <3>4, Zenon
  <2>2. CASE k = m + 1
    <3>1. first2[k] = N + 1 /\ l2[k] = p /\ k + 1 = m + 2
      BY <1>1, <1>4, <1>5, <2>2
    <3>2. first2[k + 1] = first2[k] + Len(l2[k])
      <4>1. N + 1 + P = N + P + 1 BY <1>1
      <4> QED BY Zenon, <1>5, <3>1, <4>1 DEF P
    <3>3. ASSUME NEW j \in 1..P
          PROVE  G2[N + 1 + j - 1] = [id |-> N + 1 + j - 1, txn |-> p[j]]
      <4>1. N + 1 + j - 1 \in 1..(N + P) /\ N + 1 + j - 1 > N /\ (N + 1 + j - 1) - N = j
        BY <1>1
      <4> QED BY <1>2, <1>3, <4>1
    <3> QED BY Zenon, <3>1, <3>2, <3>3 DEF P
  <2> QED BY <1>1, <2>1, <2>2
<1>12. OrderLog(l2, G2, first2)
  <2>1. (m + 1) + 1 = m + 2 /\ 1 \in 1..(m + 1) BY <1>1
  <2>2. first2[1] = 1 BY Zenon, <1>5, <2>1
  <2>3. ASSUME NEW i \in 1..(N + P)
        PROVE  \E k \in 1..(m + 1) : \E j \in 1..Len(l2[k]) : i = first2[k] + j - 1
    <3>1. CASE i \in 1..N
      <4>1. PICK k \in 1..m : \E j \in 1..Len(l[k]) : i = first[k] + j - 1
        BY Zenon, <3>1 DEF OrderLog, Covered, m, N
      <4>2. k \in 1..(m + 1) BY <1>1
      <4>3. l2[k] = l[k] /\ first2[k] = first[k] BY Zenon, <1>4, <1>5, <4>2
      <4> QED BY Zenon, <4>1, <4>2, <4>3
    <3>2. CASE i > N
      <4>1. i - N \in 1..P /\ i = N + 1 + (i - N) - 1 /\ m + 1 \in 1..(m + 1) BY <1>1, <3>2
      <4>2. l2[m + 1] = p /\ first2[m + 1] = N + 1 BY Zenon, <1>4, <1>5, <4>1
      <4> QED BY Zenon, <4>1, <4>2 DEF P
    <3> QED BY <1>1, <3>1, <3>2
  <2>4. Covered(l2, N + P, first2) BY Zenon, <1>4, <2>3 DEF Covered
  <2> QED BY Zenon, <1>3, <1>4, <1>5, <1>9, <1>10, <1>11, <2>1, <2>2, <2>4 DEF OrderLog
<1> QED BY <1>3, <1>5, <1>12 DEF m, N, l2

\* AsyncCommit numbers the next proposal as the order does.
LEMMA OrderNumbers ==
  ASSUME NEW l, NEW G, NEW first, OrderLog(l, G, first), NEW n \in Nat, n < Len(l),
         NEW a, NEW q, NEW e, OrderOf(G, first, n, a, q, e)
  PROVE  /\ a \in Nat /\ a + Len(l[n + 1]) \in Nat
         /\ OrderOf(G, first, n + 1, a + Len(l[n + 1]), q \o Flow!Numbered(l[n + 1], a), e)
<1> DEFINE p == l[n + 1]
           s == Flow!Numbered(p, a)
           Q == Len(q)
           E == Len(e)
           P == Len(p)
<1>1. /\ l \in Seq(Seq(Flow!Txns)) /\ Len(l) \in Nat
      /\ q \in Seq(FlowRecord) /\ Q \in Nat /\ E \in Nat /\ e \in Seq(FlowRecord)
  BY DEF OrderLog, OrderOf
<1>2. n + 1 \in 1..Len(l) /\ n + 1 \in 1..(Len(l) + 1) BY <1>1
<1>3. p \in Seq(Flow!Txns) /\ P \in Nat BY <1>1, <1>2
<1>4. a = first[n + 1] /\ E + Q + 1 = a BY Zenon DEF OrderOf
<1>5. a \in Nat /\ a >= 1 BY <1>1, <1>4
<1>6. /\ s \in Seq(FlowRecord) /\ Len(s) = P
      /\ \A j \in 1..P : s[j] = [id |-> a + j - 1, txn |-> p[j]]
  BY Zenon, <1>3, <1>5, NumberedIs
<1>7. /\ first[n + 1 + 1] = a + P
      /\ \A j \in 1..P : G[a + j - 1] = [id |-> a + j - 1, txn |-> p[j]]
  BY Zenon, <1>2, <1>4 DEF OrderLog
<1>8. /\ q \o s \in Seq(FlowRecord) /\ Len(q \o s) = Q + P
      /\ \A i \in 1..Q : (q \o s)[i] = q[i]
      /\ \A i \in 1..(Q + P) : i > Q => (q \o s)[i] = s[i - Q]
  <2>1. /\ q \o s \in Seq(FlowRecord) /\ Len(q \o s) = Len(q) + Len(s)
        /\ \A i \in 1..Len(q) : (q \o s)[i] = q[i]
        /\ \A i \in 1..(Len(q) + Len(s)) : i > Len(q) => (q \o s)[i] = s[i - Len(q)]
    BY Zenon, <1>1, <1>6, ConcatIs
  <2>2. Len(s) = P BY Zenon, <1>6
  <2> HIDE DEF s, P
  <2> QED BY Zenon, <2>1, <2>2
<1>9. /\ \A i \in 1..E : e[i] = G[i]
      /\ \A i \in 1..Q : q[i] = G[E + i]
  BY Zenon DEF OrderOf
<1> HIDE DEF p, s, Q, E, P
<1>10. ASSUME NEW i \in 1..(Q + P) PROVE (q \o s)[i] = G[E + i]
  <2>1. CASE i \in 1..Q BY Zenon, <1>8, <1>9, <2>1
  <2>2. CASE i > Q
    <3>1. PICK j : j = i - Q BY Zenon
    <3>2. j \in 1..P /\ a + j - 1 = E + i BY <1>1, <1>3, <1>4, <1>5, <2>2, <3>1
    <3>3. (q \o s)[i] = s[j] BY Zenon, <1>8, <2>2, <3>1
    <3>4. s[j] = G[a + j - 1] BY Zenon, <1>6, <1>7, <3>2
    <3> QED BY Zenon, <3>2, <3>3, <3>4
  <2>3. i \in 1..Q \/ i > Q BY <1>1, <1>3
  <2> QED BY Zenon, <2>1, <2>2, <2>3
<1>11. E + (Q + P) + 1 = a + P /\ a + P \in Nat BY <1>1, <1>3, <1>4, <1>5
<1>12. OrderOf(G, first, n + 1, a + P, q \o s, e)
  BY Zenon, <1>1, <1>7, <1>8, <1>9, <1>10, <1>11 DEF OrderOf, E
<1> QED BY Zenon, <1>5, <1>11, <1>12 DEF p, s, P

\* ExecuteMessage moves the head of execute_queue_ to what is executed.
LEMMA OrderExecutes ==
  ASSUME NEW G, NEW first, NEW n, NEW a, NEW q, NEW e, OrderOf(G, first, n, a, q, e),
         q # <<>>
  PROVE  OrderOf(G, first, n, a, Tail(q), Append(e, Head(q)))
<1> DEFINE Q == Len(q)
           E == Len(e)
<1>1. /\ q \in Seq(FlowRecord) /\ e \in Seq(FlowRecord) /\ Q \in Nat /\ E \in Nat /\ Q >= 1
  BY DEF OrderOf
<1>2. /\ Tail(q) \in Seq(FlowRecord) /\ Len(Tail(q)) = Q - 1 /\ Head(q) = q[1]
      /\ Head(q) \in FlowRecord /\ \A i \in 1..(Q - 1) : Tail(q)[i] = q[i + 1]
  BY <1>1
<1>3. /\ Append(e, Head(q)) \in Seq(FlowRecord) /\ Len(Append(e, Head(q))) = E + 1
      /\ \A i \in 1..E : Append(e, Head(q))[i] = e[i]
      /\ Append(e, Head(q))[E + 1] = q[1]
  BY <1>1, <1>2
<1>4. /\ a = first[n + 1] /\ E + Q + 1 = a
      /\ \A i \in 1..E : e[i] = G[i]
      /\ \A i \in 1..Q : q[i] = G[E + i]
  BY Zenon DEF OrderOf
<1> HIDE DEF Q, E
<1>5. (E + 1) + (Q - 1) + 1 = a BY <1>1, <1>4
<1>6. \A i \in 1..(E + 1) : Append(e, Head(q))[i] = G[i]
  <2>1. 1 \in 1..Q /\ \A i \in 1..(E + 1) : i \in 1..E \/ i = E + 1 BY <1>1
  <2> QED BY Zenon, <1>3, <1>4, <2>1
<1>7. \A i \in 1..(Q - 1) : Tail(q)[i] = G[(E + 1) + i]
  <2>1. \A i \in 1..(Q - 1) : i + 1 \in 1..Q /\ E + (i + 1) = (E + 1) + i BY <1>1
  <2> QED BY <1>2, <1>4, <2>1
<1> QED BY Zenon, <1>2, <1>3, <1>4, <1>5, <1>6, <1>7 DEF OrderOf

OrderTypes ==
  /\ committed \in [Replica -> Seq(Seq(Flow!Txns))]
  /\ numbered \in [Replica -> Nat] /\ seq \in [Replica -> Nat]
  /\ execute_q \in [Replica -> Seq(FlowRecord)] /\ executed \in [Replica -> Seq(FlowRecord)]

\* What a replica pushes on commit_q_ are decided proposals, none of them
\* twice.
OnceFrom(c, l) ==
  /\ \A k \in 1..Len(c) : \E i \in 1..Len(l) : c[k] = l[i]
  /\ \A k, m \in 1..Len(c) : c[k] = c[m] => k = m
CommittedOnce ==
  \A r \in Replica : numbered[r] <= Len(committed[r]) /\ OnceFrom(committed[r], log)

\* A replica numbers the transactions of its own commit_q_ one after the
\* other.
NumberedInOrder(r, G, first) ==
  /\ OrderLog(committed[r], G, first)
  /\ OrderOf(G, first, numbered[r], seq[r], execute_q[r], executed[r])
NumberedWell == \A r \in Replica : \E G, first : NumberedInOrder(r, G, first)

\* commit_q_ of a replica that handles proposals in order gets the decided
\* proposals in order.
CommittedPrefix ==
  \A r \in Replica \ disordered :
    /\ Len(committed[r]) <= Len(log)
    /\ \A k \in 1..Len(committed[r]) : committed[r][k] = log[k]

\* One order of the log's transactions is the order of every such replica.
Ordered(G, first) ==
  /\ OrderLog(log, G, first)
  /\ \A r \in Replica \ disordered :
       OrderOf(G, first, numbered[r], seq[r], execute_q[r], executed[r])

OrderInv == OrderTypes /\ CommittedOnce /\ NumberedWell /\ CommittedPrefix
            /\ \E G, first : Ordered(G, first)

\* The sizes of what a replica holds are numbers, and in order.
LEMMA OrderSizes ==
  ASSUME OrderInv, NEW r \in Replica, NEW G, NEW first, Ordered(G, first)
  PROVE  /\ numbered[r] \in Nat /\ Len(committed[r]) \in Nat
         /\ Len(log) \in Nat /\ Len(G) \in Nat
         /\ numbered[r] <= Len(committed[r])
         /\ r \notin disordered => Len(committed[r]) <= Len(log)
<1>1. numbered[r] \in Nat /\ committed[r] \in Seq(Seq(Flow!Txns)) BY Zenon DEF OrderInv, OrderTypes
<1>2. log \in Seq(Seq(Flow!Txns)) /\ G \in Seq(FlowRecord) BY Zenon DEF Ordered, OrderLog
<1>3. numbered[r] <= Len(committed[r]) /\ (r \notin disordered => Len(committed[r]) <= Len(log))
  BY Zenon DEF OrderInv, CommittedPrefix, CommittedOnce
<1>4. Len(committed[r]) \in Nat BY <1>1
<1>5. Len(log) \in Nat /\ Len(G) \in Nat BY <1>2
<1> QED BY Zenon, <1>1, <1>3, <1>4, <1>5

\* An order that goes on leaves what a replica has numbered as it is.
LEMMA OrderOfExtends ==
  ASSUME NEW l, NEW G, NEW first, OrderLog(l, G, first),
         NEW G2, \A i \in 1..Len(G) : G2[i] = G[i],
         NEW first2, \A k \in 1..(Len(l) + 1) : first2[k] = first[k],
         NEW n \in Nat, n <= Len(l), NEW a, NEW q, NEW e, OrderOf(G, first, n, a, q, e)
  PROVE  OrderOf(G2, first2, n, a, q, e)
<1>1. l \in Seq(Seq(Flow!Txns)) /\ G \in Seq(FlowRecord) BY Zenon DEF OrderLog
<1>2. Len(l) \in Nat /\ Len(G) \in Nat BY <1>1
<1>3. n + 1 \in 1..(Len(l) + 1) BY <1>2
<1>4. first2[n + 1] = first[n + 1] /\ first[n + 1] \in 1..(Len(G) + 1)
  BY Zenon, <1>3 DEF OrderLog
<1>5. q \in Seq(FlowRecord) /\ e \in Seq(FlowRecord) BY Zenon DEF OrderOf
<1>6. PICK E \in Nat, Q \in Nat : E = Len(e) /\ Q = Len(q) BY <1>5
<1>7. E + Q + 1 = first[n + 1] BY Zenon, <1>6 DEF OrderOf
<1>8. (\A i \in 1..E : i \in 1..Len(G)) /\ (\A i \in 1..Q : E + i \in 1..Len(G))
  <2>1. PICK N \in Nat : N = Len(G) BY Zenon, <1>2
  <2>2. PICK x \in 1..(N + 1) : x = first[n + 1] BY Zenon, <1>4, <2>1
  <2>3. E + Q + 1 = x BY <1>7, <2>2, Zenon
  <2>4. \A u, v, w \in Nat : \A y \in 1..(w + 1) : u + v + 1 = y =>
          (\A i \in 1..u : i \in 1..w) /\ (\A i \in 1..v : u + i \in 1..w)
    OBVIOUS
  <2>5. (\A i \in 1..E : i \in 1..N) /\ (\A i \in 1..Q : E + i \in 1..N) BY <2>3, <2>4, Zenon
  <2> QED BY Zenon, <2>1, <2>5
<1> QED BY Zenon, <1>4, <1>6, <1>8 DEF OrderOf

\* What a replica has executed is part of the order, numbered from 1 on.
PartOf(e, G) == \A i \in DOMAIN e : i \in 1..Len(G) /\ e[i] = G[i] /\ G[i].id = i
LEMMA ExecutedIsOrder ==
  ASSUME NEW l, NEW G, NEW first, OrderLog(l, G, first),
         NEW n \in Nat, n <= Len(l), NEW a, NEW q, NEW e, OrderOf(G, first, n, a, q, e)
  PROVE  PartOf(e, G)
<1> SUFFICES ASSUME NEW i \in DOMAIN e PROVE i \in 1..Len(G) /\ e[i] = G[i] /\ G[i].id = i
  BY Zenon DEF PartOf
<1>1. /\ l \in Seq(Seq(Flow!Txns)) /\ G \in Seq(FlowRecord)
      /\ q \in Seq(FlowRecord) /\ e \in Seq(FlowRecord)
  BY Zenon DEF OrderLog, OrderOf
<1>2. PICK E \in Nat, Q \in Nat, N \in Nat, L \in Nat :
        E = Len(e) /\ Q = Len(q) /\ N = Len(G) /\ L = Len(l)
  BY <1>1
<1>3. n + 1 \in 1..(L + 1) BY <1>2
<1>4. first[n + 1] \in 1..(N + 1) BY Zenon, <1>2, <1>3 DEF OrderLog
<1>5. PICK x \in 1..(N + 1) : x = first[n + 1] BY Zenon, <1>4
<1>6. E + Q + 1 = x BY Zenon, <1>2, <1>5 DEF OrderOf
<1>7. i \in 1..E BY <1>1, <1>2
<1>8. i \in 1..N BY <1>2, <1>6, <1>7
<1> QED BY Zenon, <1>2, <1>7, <1>8 DEF OrderLog, OrderOf

\* A step that touches neither the log nor a replica's part.
LEMMA OrderUnchanged ==
  ASSUME OrderInv, disordered \subseteq disordered',
         UNCHANGED <<log, committed, numbered, seq, execute_q, executed>>
  PROVE  OrderInv'
<1>1. PICK G, first : Ordered(G, first) BY Zenon DEF OrderInv
<1>2. Ordered(G, first)' BY Zenon, <1>1 DEF Ordered
<1>3. OrderTypes' /\ CommittedPrefix' /\ CommittedOnce'
  BY Zenon DEF OrderInv, OrderTypes, CommittedPrefix, CommittedOnce
<1>4. NumberedWell' BY Zenon DEF OrderInv, NumberedWell, NumberedInOrder
<1> QED BY Zenon, <1>2, <1>3, <1>4 DEF OrderInv

\* A proposal is decided.
LEMMA DecideOrdered ==
  ASSUME OnceInv, OrderInv, log' = Append(log, flow_pending),
         UNCHANGED <<committed, disordered, numbered, seq, execute_q, executed>>
  PROVE  OrderInv'
<1>1. PICK G, first : Ordered(G, first) BY Zenon DEF OrderInv
<1>2. /\ log \in Seq(Seq(Flow!Txns)) /\ flow_pending \in Seq(Flow!Txns) BY Zenon DEF OnceInv, FlowTypes
<1>3. OrderLog(log, G, first) BY Zenon, <1>1 DEF Ordered
<1>4. PICK G2, first2 : /\ OrderLog(Append(log, flow_pending), G2, first2)
                        /\ \A i \in 1..Len(G) : G2[i] = G[i]
                        /\ \A k \in 1..(Len(log) + 1) : first2[k] = first[k]
  BY <1>2, <1>3, OrderExtends
<1>5. PICK m \in Nat : m = Len(log) BY <1>2
<1>6. /\ Len(log') = m + 1 /\ \A k \in 1..m : k \in 1..(m + 1) /\ log'[k] = log[k] BY <1>2, <1>5
<1>7. CommittedPrefix'
  <2> SUFFICES ASSUME NEW r \in Replica \ disordered
               PROVE  /\ Len(committed[r]) <= m + 1
                      /\ \A k \in 1..Len(committed[r]) : committed[r][k] = log'[k]
    BY Zenon, <1>6 DEF CommittedPrefix
  <2>1. /\ Len(committed[r]) <= m
        /\ \A k \in 1..Len(committed[r]) : committed[r][k] = log[k]
    BY Zenon, <1>5 DEF OrderInv, CommittedPrefix
  <2>2. Len(committed[r]) \in Nat BY DEF OrderInv, OrderTypes
  <2>3. Len(committed[r]) <= m + 1 /\ \A k \in 1..Len(committed[r]) : k \in 1..m
    BY <2>1, <2>2
  <2> QED BY Zenon, <1>6, <2>1, <2>3
<1>8. ASSUME NEW r \in Replica \ disordered
      PROVE  OrderOf(G2, first2, numbered[r], seq[r], execute_q[r], executed[r])
  <2>1. OrderOf(G, first, numbered[r], seq[r], execute_q[r], executed[r]) BY Zenon, <1>1 DEF Ordered
  <2>2. /\ numbered[r] \in Nat /\ Len(committed[r]) \in Nat /\ Len(log) \in Nat
        /\ numbered[r] <= Len(committed[r]) /\ Len(committed[r]) <= Len(log)
    BY Zenon, <1>1, OrderSizes
  <2>3. numbered[r] <= Len(log) BY <2>2
  <2> QED BY Zenon, <1>3, <1>4, <2>1, <2>2, <2>3, OrderOfExtends
<1>9. Ordered(G2, first2)' BY Zenon, <1>4, <1>8 DEF Ordered
<1>10. OrderTypes' /\ NumberedWell' BY Zenon DEF OrderInv, OrderTypes, NumberedWell, NumberedInOrder
<1>11. CommittedOnce'
  <2>1. ASSUME NEW c, OnceFrom(c, log) PROVE OnceFrom(c, log')
    BY Zenon, <1>5, <1>6, <2>1 DEF OnceFrom
  <2> QED BY Zenon, <2>1 DEF OrderInv, CommittedOnce
<1> QED BY Zenon, <1>7, <1>9, <1>10, <1>11 DEF OrderInv

\* A replica commits a decided proposal: its own order goes on, and it is the
\* next one in the order of the log unless the replica is out of order.
LEMMA CommitOrdered ==
  ASSUME OnceInv, OrderInv, NEW r \in Replica, Flow!CommitProposal(r)
  PROVE  OrderInv'
<1>1. PICK G, first : Ordered(G, first) BY Zenon DEF OrderInv
<1>2. PICK i \in 1..Len(log) : Flow!Log!Commit(r, i) BY Zenon DEF Flow!CommitProposal
<1>3. /\ committed' = [committed EXCEPT ![r] = Append(committed[r], log[i])]
      /\ \A k \in DOMAIN committed[r] : committed[r][k] # log[i]
      /\ disordered \subseteq disordered'
      /\ r \notin disordered' => i = Len(committed[r]) + 1
      /\ UNCHANGED <<log, numbered, seq, execute_q, executed>>
  BY Zenon, <1>2 DEF Flow!CommitProposal, Flow!Log!Commit, Flow!Log!Disorder
<1>4. log \in Seq(Seq(Flow!Txns)) /\ committed[r] \in Seq(Seq(Flow!Txns))
  BY Zenon DEF OnceInv, FlowTypes, OrderInv, OrderTypes
<1>5. PICK m \in Nat, n \in Nat : m = Len(committed[r]) /\ n = Len(log) BY <1>4
<1>6. log[i] \in Seq(Flow!Txns) BY <1>4
<1>7. PICK c : c = Append(committed[r], log[i]) BY Zenon
<1>8. /\ c \in Seq(Seq(Flow!Txns)) /\ Len(c) = m + 1 /\ c[m + 1] = log[i]
      /\ \A k \in 1..m : c[k] = committed[r][k]
      /\ DOMAIN committed[r] = 1..m
  BY <1>4, <1>5, <1>6, <1>7
<1>9. \A k \in 1..(m + 1) : k \in 1..m \/ k = m + 1 BY <1>5
<1>10. /\ committed' \in [Replica -> Seq(Seq(Flow!Txns))]
       /\ \A s \in Replica : committed'[s] = IF s = r THEN c ELSE committed[s]
  BY Zenon, <1>3, <1>7, <1>8 DEF OrderInv, OrderTypes
<1>11. OrderTypes' BY Zenon, <1>3, <1>10 DEF OrderInv, OrderTypes
<1>12. numbered[r] \in Nat /\ numbered[r] <= m /\ numbered[r] <= m + 1
  <2>1. numbered[r] \in Nat /\ numbered[r] <= m
    BY Zenon, <1>5 DEF OrderInv, OrderTypes, CommittedOnce
  <2> QED BY <1>5, <2>1
<1>13. CommittedPrefix'
  <2> SUFFICES ASSUME NEW s \in Replica \ disordered'
               PROVE  /\ Len(committed'[s]) <= Len(log)
                      /\ \A k \in 1..Len(committed'[s]) : committed'[s][k] = log[k]
    BY Zenon, <1>3 DEF CommittedPrefix
  <2>1. CASE s # r BY Zenon, <1>3, <1>10, <2>1 DEF OrderInv, CommittedPrefix
  <2>2. CASE s = r
    <3>1. i = m + 1 /\ r \notin disordered BY Zenon, <1>3, <1>5, <2>2
    <3>2. m + 1 <= n BY <1>5, <3>1
    <3>3. \A k \in 1..m : c[k] = log[k] BY Zenon, <1>5, <1>8, <3>1 DEF OrderInv, CommittedPrefix
    <3> QED BY Zenon, <1>5, <1>8, <1>9, <1>10, <2>2, <3>1, <3>2, <3>3
  <2> QED BY Zenon, <2>1, <2>2
<1>14. CommittedOnce'
  <2>1. OnceFrom(c, log)
    <3>1. OnceFrom(committed[r], log) BY Zenon DEF OrderInv, CommittedOnce
    <3>2. /\ \A k \in 1..m : \E j \in 1..Len(log) : committed[r][k] = log[j]
          /\ \A k, j \in 1..m : committed[r][k] = committed[r][j] => k = j
      BY Zenon, <1>5, <3>1 DEF OnceFrom
    <3>3. \A k \in 1..(m + 1) : \E j \in 1..Len(log) : c[k] = log[j] BY Zenon, <1>8, <1>9, <3>2
    <3>4. \A k \in 1..m : c[k] # c[m + 1] BY Zenon, <1>3, <1>8
    <3>5. ASSUME NEW k \in 1..(m + 1), NEW j \in 1..(m + 1), c[k] = c[j] PROVE k = j
      <4>1. k \in 1..m \/ k = m + 1 BY Zenon, <1>9
      <4>2. j \in 1..m \/ j = m + 1 BY Zenon, <1>9
      <4> QED BY Zenon, <1>8, <3>2, <3>4, <3>5, <4>1, <4>2
    <3> QED BY Zenon, <1>8, <3>3, <3>5 DEF OnceFrom
  <2> QED BY Zenon, <1>3, <1>8, <1>10, <1>12, <2>1 DEF OrderInv, CommittedOnce
<1>15. NumberedWell'
  <2> SUFFICES ASSUME NEW s \in Replica PROVE \E H, f : NumberedInOrder(s, H, f)'
    BY Zenon DEF NumberedWell
  <2>1. PICK H, f : NumberedInOrder(s, H, f) BY Zenon DEF OrderInv, NumberedWell
  <2>2. CASE s # r BY Zenon, <1>3, <1>10, <2>1, <2>2 DEF NumberedInOrder
  <2>3. CASE s = r
    <3>1. /\ OrderLog(committed[r], H, f)
          /\ OrderOf(H, f, numbered[r], seq[r], execute_q[r], executed[r])
      BY Zenon, <2>1, <2>3 DEF NumberedInOrder
    <3>2. PICK d, x : d = committed[r] /\ x = log[i] BY Zenon
    <3>3. OrderLog(d, H, f) /\ x \in Seq(Flow!Txns) /\ numbered[r] <= Len(d)
      BY Zenon, <1>5, <1>6, <1>12, <3>1, <3>2
    <3>4. PICK H2, f2 : /\ OrderLog(Append(d, x), H2, f2)
                        /\ \A k \in 1..Len(H) : H2[k] = H[k]
                        /\ \A k \in 1..(Len(d) + 1) : f2[k] = f[k]
      BY <3>3, OrderExtends
    <3>5. OrderOf(H2, f2, numbered[r], seq[r], execute_q[r], executed[r])
      BY Zenon, <1>12, <3>1, <3>3, <3>4, OrderOfExtends
    <3>6. OrderLog(c, H2, f2) BY Zenon, <1>7, <3>2, <3>4
    <3>7. NumberedInOrder(r, H2, f2)' BY Zenon, <1>3, <1>10, <3>5, <3>6 DEF NumberedInOrder
    <3> QED BY Zenon, <2>3, <3>7
  <2> QED BY Zenon, <2>2, <2>3
<1>16. Ordered(G, first)' BY Zenon, <1>1, <1>3 DEF Ordered
<1> QED BY Zenon, <1>11, <1>13, <1>14, <1>15, <1>16 DEF OrderInv

\* AsyncCommit and ExecuteMessage of a replica.
LEMMA NumberOrdered ==
  ASSUME OrderInv, NEW r \in Replica, Flow!AsyncCommit(r)
  PROVE  OrderInv'
<1> DEFINE p == committed[r][numbered[r] + 1]
<1>1. PICK G, first : Ordered(G, first) BY Zenon DEF OrderInv
<1>2. /\ numbered[r] < Len(committed[r])
      /\ execute_q' = [execute_q EXCEPT ![r] = execute_q[r] \o Flow!Numbered(p, seq[r])]
      /\ seq' = [seq EXCEPT ![r] = seq[r] + Len(p)]
      /\ numbered' = [numbered EXCEPT ![r] = numbered[r] + 1]
      /\ UNCHANGED <<log, committed, disordered, executed>>
  BY Zenon DEF Flow!AsyncCommit, Flow!sendVars
<1>3. /\ numbered[r] \in Nat /\ Len(committed[r]) \in Nat /\ Len(log) \in Nat
      /\ r \notin disordered => Len(committed[r]) <= Len(log)
  BY Zenon, <1>1, OrderSizes
<1>4. PICK n \in Nat : n = numbered[r] /\ n + 1 \in 1..Len(committed[r])
                     /\ n < Len(committed[r]) /\ n + 1 <= Len(committed[r])
                     /\ (r \notin disordered => n < Len(log))
  BY <1>2, <1>3
<1>5. PICK a : a = seq[r] BY Zenon
<1>6. PICK q : q = execute_q[r] BY Zenon
<1>7. PICK e : e = executed[r] BY Zenon
<1>8. PICK b : b = a + Len(p) BY Zenon
<1>9. PICK w : w = q \o Flow!Numbered(p, a) BY Zenon
<1>10. PICK H, f : OrderLog(committed[r], H, f) /\ OrderOf(H, f, n, a, q, e)
  BY Zenon, <1>4, <1>5, <1>6, <1>7 DEF OrderInv, NumberedWell, NumberedInOrder
<1>11. a \in Nat /\ b \in Nat /\ OrderOf(H, f, n + 1, b, w, e) /\ n + 1 \in Nat
  <2>1. /\ a \in Nat /\ a + Len(committed[r][n + 1]) \in Nat
        /\ OrderOf(H, f, n + 1, a + Len(committed[r][n + 1]),
                   q \o Flow!Numbered(committed[r][n + 1], a), e)
    BY Zenon, <1>4, <1>10, OrderNumbers
  <2>2. n + 1 \in Nat BY <1>4
  <2> QED BY Zenon, <1>4, <1>8, <1>9, <2>1, <2>2
<1>12. w \in Seq(FlowRecord) BY Zenon, <1>11 DEF OrderOf
<1>13. /\ execute_q' = [execute_q EXCEPT ![r] = w] /\ seq' = [seq EXCEPT ![r] = b]
       /\ numbered' = [numbered EXCEPT ![r] = n + 1]
  BY Zenon, <1>2, <1>4, <1>5, <1>6, <1>8, <1>9
<1>14. OrderTypes'
  <2>1. execute_q' \in [Replica -> Seq(FlowRecord)] BY Zenon, <1>12, <1>13 DEF OrderInv, OrderTypes
  <2>2. seq' \in [Replica -> Nat] BY Zenon, <1>11, <1>13 DEF OrderInv, OrderTypes
  <2>3. numbered' \in [Replica -> Nat] BY Zenon, <1>11, <1>13 DEF OrderInv, OrderTypes
  <2> QED BY Zenon, <1>2, <2>1, <2>2, <2>3 DEF OrderInv, OrderTypes
<1>15. \A s \in Replica : /\ execute_q'[s] = IF s = r THEN w ELSE execute_q[s]
                          /\ seq'[s] = IF s = r THEN b ELSE seq[s]
                          /\ numbered'[s] = IF s = r THEN n + 1 ELSE numbered[s]
  BY Zenon, <1>13 DEF OrderInv, OrderTypes
<1>16. CommittedPrefix' BY Zenon, <1>2 DEF OrderInv, CommittedPrefix
<1>17. CommittedOnce' BY Zenon, <1>2, <1>4, <1>15 DEF OrderInv, CommittedOnce
<1>18. NumberedWell'
  <2> SUFFICES ASSUME NEW s \in Replica PROVE \E H2, f2 : NumberedInOrder(s, H2, f2)'
    BY Zenon DEF NumberedWell
  <2>1. CASE s = r
    <3>1. NumberedInOrder(r, H, f)' BY Zenon, <1>2, <1>7, <1>10, <1>11, <1>15 DEF NumberedInOrder
    <3> QED BY Zenon, <2>1, <3>1
  <2>2. CASE s # r BY Zenon, <1>2, <1>15, <2>2 DEF OrderInv, NumberedWell, NumberedInOrder
  <2> QED BY Zenon, <2>1, <2>2
<1>19. ASSUME NEW s \in Replica \ disordered
       PROVE  OrderOf(G, first, numbered'[s], seq'[s], execute_q'[s], executed[s])
  <2>1. CASE s = r
    <3>1. r \notin disordered /\ n < Len(log) BY Zenon, <1>4, <2>1
    <3>2. p = log[n + 1] BY Zenon, <1>4, <3>1 DEF OrderInv, CommittedPrefix
    <3>3. /\ OrderLog(log, G, first) /\ OrderOf(G, first, n, a, q, e)
      BY Zenon, <1>1, <1>4, <1>5, <1>6, <1>7, <3>1 DEF Ordered
    <3>4. OrderOf(G, first, n + 1, a + Len(log[n + 1]), q \o Flow!Numbered(log[n + 1], a), e)
      BY Zenon, <3>1, <3>3, OrderNumbers
    <3>5. OrderOf(G, first, n + 1, b, w, e) BY Zenon, <1>8, <1>9, <3>2, <3>4
    <3> QED BY Zenon, <1>7, <1>15, <2>1, <3>5
  <2>2. CASE s # r BY Zenon, <1>1, <1>15, <2>2 DEF Ordered
  <2> QED BY Zenon, <2>1, <2>2
<1>20. Ordered(G, first)' BY Zenon, <1>1, <1>2, <1>19 DEF Ordered
<1> QED BY Zenon, <1>14, <1>16, <1>17, <1>18, <1>20 DEF OrderInv

LEMMA ExecuteOrdered ==
  ASSUME OrderInv, NEW r \in Replica, Flow!ExecuteMessage(r)
  PROVE  OrderInv'
<1>1. PICK G, first : Ordered(G, first) BY Zenon DEF OrderInv
<1>2. PICK q : q = execute_q[r] BY Zenon
<1>3. PICK e : e = executed[r] BY Zenon
<1>4. /\ q # <<>> /\ executed' = [executed EXCEPT ![r] = Append(e, Head(q))]
      /\ execute_q' = [execute_q EXCEPT ![r] = Tail(q)]
      /\ UNCHANGED <<log, committed, disordered, numbered, seq>>
  BY Zenon, <1>2, <1>3 DEF Flow!ExecuteMessage, Flow!sendVars
<1>5. PICK H, f : OrderLog(committed[r], H, f) /\ OrderOf(H, f, numbered[r], seq[r], q, e)
  BY Zenon, <1>2, <1>3 DEF OrderInv, NumberedWell, NumberedInOrder
<1>6. OrderOf(H, f, numbered[r], seq[r], Tail(q), Append(e, Head(q)))
  BY Zenon, <1>4, <1>5, OrderExecutes
<1>7. Tail(q) \in Seq(FlowRecord) /\ Append(e, Head(q)) \in Seq(FlowRecord)
  BY Zenon, <1>6 DEF OrderOf
<1>8. OrderTypes' BY Zenon, <1>4, <1>7 DEF OrderInv, OrderTypes
<1>9. \A s \in Replica : /\ execute_q'[s] = IF s = r THEN Tail(q) ELSE execute_q[s]
                         /\ executed'[s] = IF s = r THEN Append(e, Head(q)) ELSE executed[s]
  BY Zenon, <1>4 DEF OrderInv, OrderTypes
<1>10. CommittedPrefix' /\ CommittedOnce'
  BY Zenon, <1>4 DEF OrderInv, CommittedPrefix, CommittedOnce
<1>11. NumberedWell'
  <2> SUFFICES ASSUME NEW s \in Replica PROVE \E H2, f2 : NumberedInOrder(s, H2, f2)'
    BY Zenon DEF NumberedWell
  <2>1. CASE s = r
    <3>1. NumberedInOrder(r, H, f)' BY Zenon, <1>4, <1>5, <1>6, <1>9 DEF NumberedInOrder
    <3> QED BY Zenon, <2>1, <3>1
  <2>2. CASE s # r BY Zenon, <1>4, <1>9, <2>2 DEF OrderInv, NumberedWell, NumberedInOrder
  <2> QED BY Zenon, <2>1, <2>2
<1>12. ASSUME NEW s \in Replica \ disordered
       PROVE  OrderOf(G, first, numbered[s], seq[s], execute_q'[s], executed'[s])
  <2>1. CASE s = r
    <3>1. OrderOf(G, first, numbered[r], seq[r], q, e) BY Zenon, <1>1, <1>2, <1>3, <2>1 DEF Ordered
    <3>2. OrderOf(G, first, numbered[r], seq[r], Tail(q), Append(e, Head(q)))
      BY Zenon, <1>4, <3>1, OrderExecutes
    <3> QED BY Zenon, <1>9, <2>1, <3>2
  <2>2. CASE s # r BY Zenon, <1>1, <1>9, <2>2 DEF Ordered
  <2> QED BY Zenon, <2>1, <2>2
<1>13. Ordered(G, first)' BY Zenon, <1>1, <1>4, <1>12 DEF Ordered
<1> QED BY Zenon, <1>8, <1>10, <1>11, <1>13 DEF OrderInv

\* The same for what AsyncSend and ReceiveTransaction touch.
LEMMA OnceUnchanged ==
  ASSUME OnceInv, UNCHANGED <<txns, view, slot, step, hand, flow_pending, log, replaced>>
  PROVE  OnceInv'
<1>1. FlowTypes' BY Zenon DEF OnceInv, FlowTypes
<1>2. QueuesApart' /\ LogApart' /\ BatchesOnce'
  BY Zenon DEF OnceInv, QueuesApart, LogApart, BatchesOnce
<1>3. HandFits' BY Zenon DEF OnceInv, HandFits
<1>4. LossSoFar' BY Zenon DEF OnceInv, LossSoFar
<1>5. PlacesApart'
  BY DEF OnceInv, PlacesApart, Queued, Decided, Flow!Held, Flow!Received
<1> QED BY Zenon, <1>1, <1>2, <1>3, <1>4, <1>5 DEF OnceInv

\* Every step keeps both invariants.
LEMMA FlowNext ==
  ASSUME OnceInv, OrderInv, Flow!FlowAssumption, [Flow!Next]_Flow!vars
  PROVE  OnceInv' /\ OrderInv'
<1>1. CASE \E r \in Replica : Flow!ReceiveTransaction(r)
  <2>1. PICK r \in Replica : Flow!ReceiveTransaction(r) BY Zenon, <1>1
  <2>2. UNCHANGED <<log, committed, disordered, numbered, seq, execute_q, executed>>
    BY Zenon, <2>1 DEF Flow!ReceiveTransaction, Flow!sendVars, Flow!execVars
  <2> QED BY Zenon, <2>1, <2>2, ReceiveOnce, OrderUnchanged
<1>2. CASE Flow!FirstPop \/ Flow!PopFresh \/ Flow!PopBatch
  <2>1. UNCHANGED <<log, committed, disordered, numbered, seq, execute_q, executed>>
    BY Zenon, <1>2 DEF Flow!FirstPop, Flow!PopFresh, Flow!PopBatch, Flow!execVars
  <2> QED BY Zenon, <1>2, <2>1, FirstPopOnce, PopFreshOnce, PopBatchOnce, OrderUnchanged
<1>3. CASE \E f \in BOOLEAN : Flow!BuildProposal(f)
  <2>1. PICK f \in BOOLEAN : Flow!BuildProposal(f) BY Zenon, <1>3
  <2>2. OnceInv' BY Zenon, <2>1, BuildOnce
  <2>3. /\ UNCHANGED <<committed, disordered, numbered, seq, execute_q, executed>>
        /\ log' = log \/ log' = Append(log, flow_pending)
    BY Zenon, <2>1 DEF Flow!BuildProposal, Flow!Log!Decide
  <2> QED BY Zenon, <2>2, <2>3, OrderUnchanged, DecideOrdered
<1>4. ASSUME NEW r \in Replica,
             \/ Flow!CommitProposal(r) \/ Flow!Bypass(r)
             \/ Flow!AsyncCommit(r) \/ Flow!ExecuteMessage(r)
      PROVE  OnceInv' /\ OrderInv'
  <2>1. UNCHANGED <<txns, view, slot, step, hand, flow_pending, log, replaced>>
    BY Zenon, <1>4 DEF Flow!CommitProposal, Flow!Bypass, Flow!AsyncCommit, Flow!ExecuteMessage,
                Flow!sendVars, Flow!Log!Commit
  <2>2. OnceInv'
    BY Zenon, <2>1, OnceUnchanged
  <2>3. CASE Flow!Bypass(r)
    <3>1. /\ disordered \subseteq disordered'
          /\ UNCHANGED <<log, committed, numbered, seq, execute_q, executed>>
      BY Zenon, <2>3 DEF Flow!Bypass, Flow!sendVars, Flow!Log!Disorder
    <3> QED BY Zenon, <2>2, <3>1, OrderUnchanged
  <2> QED BY Zenon, <1>4, <2>2, <2>3, CommitOrdered, NumberOrdered, ExecuteOrdered
<1>5. CASE UNCHANGED Flow!vars
  <2>1. UNCHANGED <<txns, view, slot, step, hand, flow_pending, log, replaced, committed, disordered,
                    numbered, seq, execute_q, executed>>
    BY Zenon, <1>5 DEF Flow!vars, Flow!sendVars, Flow!execVars
  <2>2. OnceInv'
    BY Zenon, <2>1, OnceUnchanged
  <2> QED BY Zenon, <2>1, <2>2, OrderUnchanged
<1> QED BY Zenon, <1>1, <1>2, <1>3, <1>4, <1>5 DEF Flow!Next

\* At the start no transaction is anywhere and nothing is numbered.
LEMMA FlowInit ==
  ASSUME Flow!FlowAssumption, Flow!Init
  PROVE  OnceInv /\ OrderInv
<1>1. /\ txns = [r \in Replica |-> <<>>] /\ view = 1 /\ slot = 0 /\ step = "wait"
      /\ hand = <<>> /\ flow_pending = <<>> /\ numbered = [r \in Replica |-> 0]
      /\ seq = [r \in Replica |-> 1] /\ execute_q = [r \in Replica |-> <<>>]
      /\ executed = [r \in Replica |-> <<>>] /\ replaced = {} /\ log = <<>>
      /\ committed = [r \in Replica |-> <<>>] /\ disordered = {}
  BY Zenon DEF Flow!Init, Flow!Log!Init
<1>2. MaxTxns \in Nat /\ total_num \in Nat /\ Flow!MaxView \in Nat /\ 1 <= Flow!MaxView
  BY DEF Flow!FlowAssumption, Flow!MaxView
<1>3. \A T : <<>> \in Seq(T) OBVIOUS
<1>4. FlowTypes
  <2>1. view \in 1..Flow!MaxView BY <1>1, <1>2
  <2> QED BY Zenon, <1>1, <1>3, <2>1 DEF FlowTypes
<1>5. Flow!Range(<<>>) = {} /\ Flow!IsInjective(<<>>) BY DEF Flow!Range, Flow!IsInjective
<1>6. QueuesApart BY Zenon, <1>1, <1>5 DEF QueuesApart
<1>7. \A i \in 1..Len(log) : FALSE BY <1>1
<1>8. LogApart /\ Decided = {} BY Zenon, <1>7 DEF LogApart, Decided
<1>9. Queued = {} BY Zenon, <1>1, <1>5, InQueued
<1>10. PlacesApart
  <2>1. Flow!Held = {} /\ Flow!Received = {} BY Zenon, <1>1, <1>5, <1>8, <1>9, HeldIs
  <2>2. 0 \in 0..MaxTxns /\ 1..0 = {} BY <1>2
  <2> QED BY Zenon, <1>1, <1>5, <1>8, <1>9, <2>1, <2>2 DEF PlacesApart
<1>11. HandFits BY Zenon, <1>1 DEF HandFits
<1>12. LossSoFar
  <2>1. Cardinality(replaced) = 0 BY Zenon, <1>1, FS_EmptySet
  <2> QED BY <1>1, <1>2, <2>1 DEF LossSoFar
<1>13. OrderTypes BY Zenon, <1>1, <1>3 DEF OrderTypes
<1>14. CommittedPrefix /\ CommittedOnce
  <2>1. Len(<<>>) = 0 /\ 0 <= 0 /\ \A k \in 1..0 : FALSE OBVIOUS
  <2> QED BY Zenon, <1>1, <2>1 DEF CommittedPrefix, CommittedOnce, OnceFrom
<1>15. NumberedWell /\ Ordered(<<>>, [k \in 1..1 |-> 1])
  <2> DEFINE f == [k \in 1..1 |-> 1]
  <2>1. /\ Len(<<>>) = 0 /\ 0 + 1 = 1 /\ (\A k \in 1..0 : FALSE) /\ 0 + 0 + 1 = 1
        /\ (\A k \in 1..1 : k = 1) /\ 1 \in 1..1
    OBVIOUS
  <2>2. f \in [1..1 -> Nat] /\ f[1] = 1 BY Zenon, <2>1
  <2> HIDE DEF f
  <2>3. OrderLog(log, <<>>, f) BY Zenon, <1>1, <1>3, <2>1, <2>2 DEF OrderLog, Covered
  <2>4. \A r \in Replica : OrderOf(<<>>, f, numbered[r], seq[r], execute_q[r], executed[r])
    BY Zenon, <1>1, <1>3, <2>1, <2>2 DEF OrderOf
  <2>5. \A r \in Replica : NumberedInOrder(r, <<>>, f) BY Zenon, <1>1, <2>3, <2>4 DEF NumberedInOrder
  <2> QED BY Zenon, <2>3, <2>4, <2>5 DEF Ordered, NumberedWell, f
<1>16. BatchesOnce BY Zenon, <1>1, <1>5, <1>7 DEF BatchesOnce
<1> QED
  BY Zenon, <1>4, <1>6, <1>8, <1>10, <1>11, <1>12, <1>13, <1>14, <1>15, <1>16 DEF OnceInv, OrderInv

\* A transaction that was received is in one place.
LEMMA OnePlace ==
  ASSUME OnceInv, NEW t \in Flow!Received
  PROVE  Flow!Places(t) = 1
<1> DEFINE A == {r \in Replica : t \in Flow!Range(txns[r])}
           B == {i \in DOMAIN log : t \in Flow!Range(log[i])}
           C == {s \in {"hand"} : t \in Flow!Range(hand)}
           D == {s \in {"pending"} : t \in Flow!Range(flow_pending)}
           R == {s \in {"replaced"} : t \in replaced}
<1>1. Flow!Places(t) = Cardinality(A) + Cardinality(B) + Cardinality(C) + Cardinality(D)
                         + Cardinality(R)
  BY Zenon, FlowCardinality DEF Flow!Places
<1>2. DOMAIN log = 1..Len(log) BY DEF OnceInv, FlowTypes
<1>3. (t \in Queued <=> A # {}) /\ (t \in Decided <=> B # {})
  BY Zenon, <1>2, InQueued, InDecided
<1>4. \A x, y \in A : x = y BY Zenon DEF OnceInv, QueuesApart
<1>5. \A x, y \in B : x = y BY Zenon, <1>2 DEF OnceInv, LogApart
<1>6. \A S : (\A x, y \in S : x = y) => Cardinality(S) = IF S = {} THEN 0 ELSE 1
  <2> SUFFICES ASSUME NEW S, \A x, y \in S : x = y
               PROVE  Cardinality(S) = IF S = {} THEN 0 ELSE 1
    BY Zenon
  <2>1. CASE S = {} BY Zenon, <2>1, FS_EmptySet
  <2>2. CASE S # {}
    <3>1. PICK x \in S : S = {x} BY Zenon, <2>2
    <3> QED BY Zenon, <2>2, <3>1, FS_Singleton
  <2> QED BY Zenon, <2>1, <2>2
<1>7. /\ Cardinality(A) = IF t \in Queued THEN 1 ELSE 0
      /\ Cardinality(B) = IF t \in Decided THEN 1 ELSE 0
  <2>1. /\ Cardinality(A) = IF A = {} THEN 0 ELSE 1
        /\ Cardinality(B) = IF B = {} THEN 0 ELSE 1
    BY Zenon, <1>4, <1>5, <1>6
  <2> HIDE DEF A, B
  <2> QED BY Zenon, <1>3, <2>1
<1>8. /\ Cardinality(C) = IF t \in Flow!Range(hand) THEN 1 ELSE 0
      /\ Cardinality(D) = IF t \in Flow!Range(flow_pending) THEN 1 ELSE 0
      /\ Cardinality(R) = IF t \in replaced THEN 1 ELSE 0
  BY Zenon, <1>6
<1> HIDE DEF A, B, C, D, R
<1>9. \/ /\ t \in Queued /\ t \notin Decided /\ t \notin Flow!Range(hand)
         /\ t \notin Flow!Range(flow_pending) /\ t \notin replaced
      \/ /\ t \notin Queued /\ t \in Decided /\ t \notin Flow!Range(hand)
         /\ t \notin Flow!Range(flow_pending) /\ t \notin replaced
      \/ /\ t \notin Queued /\ t \notin Decided /\ t \in Flow!Range(hand)
         /\ t \notin Flow!Range(flow_pending) /\ t \notin replaced
      \/ /\ t \notin Queued /\ t \notin Decided /\ t \notin Flow!Range(hand)
         /\ t \in Flow!Range(flow_pending) /\ t \notin replaced
      \/ /\ t \notin Queued /\ t \notin Decided /\ t \notin Flow!Range(hand)
         /\ t \notin Flow!Range(flow_pending) /\ t \in replaced
  BY Zenon, HeldIs DEF OnceInv, PlacesApart
<1> QED BY <1>1, <1>7, <1>8, <1>9

\* A replica executes decided transactions, under the numbers 1, 2, 3, ...,
\* and none of them twice.
LEMMA ExecutesOnce ==
  ASSUME OnceInv, OrderInv, NEW r \in Replica, NEW i \in DOMAIN executed[r]
  PROVE  /\ executed[r][i].id = i
         /\ \E k \in DOMAIN log : executed[r][i].txn \in Flow!Range(log[k])
         /\ \A j \in DOMAIN executed[r] : executed[r][j].txn = executed[r][i].txn => i = j
<1> DEFINE l == committed[r]
<1>1. PICK G, first : /\ OrderLog(l, G, first)
                      /\ OrderOf(G, first, numbered[r], seq[r], execute_q[r], executed[r])
  BY Zenon DEF OrderInv, NumberedWell, NumberedInOrder
<1>2. numbered[r] \in Nat /\ numbered[r] <= Len(l)
  BY Zenon DEF OrderInv, OrderTypes, CommittedOnce
<1>3. l \in Seq(Seq(Flow!Txns)) /\ log \in Seq(Seq(Flow!Txns))
  BY Zenon DEF OrderInv, OrderTypes, OnceInv, FlowTypes
<1>4. DOMAIN log = 1..Len(log) /\ \A k \in 1..Len(l) : DOMAIN l[k] = 1..Len(l[k]) BY <1>3
<1>5. \A x \in DOMAIN executed[r] : x \in 1..Len(G) /\ executed[r][x] = G[x] /\ G[x].id = x
  <2>1. PartOf(executed[r], G) BY Zenon, <1>1, <1>2, ExecutedIsOrder
  <2> QED BY Zenon, <2>1 DEF PartOf
<1>6. \A k \in 1..Len(l) : \E x \in 1..Len(log) : l[k] = log[x]
  BY Zenon DEF OrderInv, CommittedOnce, OnceFrom
<1>7. \A k, m \in 1..Len(l) : l[k] = l[m] => k = m
  BY Zenon DEF OrderInv, CommittedOnce, OnceFrom
<1> HIDE DEF l
<1>8. ASSUME NEW x \in DOMAIN executed[r]
      PROVE  \E k \in 1..Len(l) : \E j \in 1..Len(l[k]) :
               x = first[k] + j - 1 /\ executed[r][x].txn = l[k][j]
  <2>1. x \in 1..Len(G) /\ executed[r][x] = G[x] BY Zenon, <1>5
  <2>2a. PICK k \in 1..Len(l) : \E j \in 1..Len(l[k]) : x = first[k] + j - 1
    BY Zenon, <1>1, <2>1 DEF OrderLog, Covered
  <2>2. PICK j \in 1..Len(l[k]) : x = first[k] + j - 1 BY Zenon, <2>2a
  <2>3. G[x] = [id |-> x, txn |-> l[k][j]] BY Zenon, <1>1, <2>2 DEF OrderLog
  <2>4. G[x].txn = l[k][j] BY <2>3
  <2> QED BY Zenon, <2>1, <2>2, <2>4
<1>9a. PICK k \in 1..Len(l) : \E c \in 1..Len(l[k]) :
         i = first[k] + c - 1 /\ executed[r][i].txn = l[k][c]
  BY Zenon, <1>8
<1>9. PICK c \in 1..Len(l[k]) : i = first[k] + c - 1 /\ executed[r][i].txn = l[k][c]
  BY Zenon, <1>9a
<1>10. executed[r][i].txn \in Flow!Range(l[k]) BY Zenon, <1>4, <1>9 DEF Flow!Range
<1>11. \E x \in DOMAIN log : executed[r][i].txn \in Flow!Range(log[x])
  BY Zenon, <1>4, <1>6, <1>10
<1>12. ASSUME NEW j \in DOMAIN executed[r], executed[r][j].txn = executed[r][i].txn
       PROVE  i = j
  <2>1a. PICK m \in 1..Len(l) : \E d \in 1..Len(l[m]) :
           j = first[m] + d - 1 /\ executed[r][j].txn = l[m][d]
    BY Zenon, <1>8
  <2>1. PICK d \in 1..Len(l[m]) : j = first[m] + d - 1 /\ executed[r][j].txn = l[m][d]
    BY Zenon, <2>1a
  <2>2. executed[r][i].txn \in Flow!Range(l[m]) BY Zenon, <1>4, <1>12, <2>1 DEF Flow!Range
  <2>3. PICK x \in 1..Len(log), y \in 1..Len(log) : l[k] = log[x] /\ l[m] = log[y]
    BY Zenon, <1>6
  <2>4. x = y BY Zenon, <1>10, <2>2, <2>3 DEF OnceInv, LogApart
  <2>5. k = m BY Zenon, <1>7, <2>3, <2>4
  <2>6. Flow!IsInjective(l[k]) BY Zenon, <2>3 DEF OnceInv, BatchesOnce
  <2>7. c = d BY Zenon, <1>4, <1>9, <1>12, <2>1, <2>5, <2>6 DEF Flow!IsInjective
  <2> QED BY Zenon, <1>9, <2>1, <2>5, <2>7
<1>13. executed[r][i].id = i BY Zenon, <1>5
<1> QED BY Zenon, <1>11, <1>12, <1>13

\* The replicas that handle proposals in order execute one numbered sequence
\* of transactions (OneSerialOrder of TxnFlow), for every number of replicas,
\* sequence of leaders, batch size and warm-up: no transaction is in two
\* places of the way from txns_ to the decided proposals, AsyncSend gives up
\* at most one per view after the warm-up, AsyncCommit gives every transaction
\* the same number at every replica in order, and no replica, in order or not,
\* executes a transaction twice or leaves a number out.
THEOREM OneOrderForAll ==
  ASSUME Flow!FlowAssumption
  PROVE  Flow!Spec => []OneSerialOrder
<1>1. Flow!Init => OnceInv /\ OrderInv BY Zenon, FlowInit
<1>2. OnceInv /\ OrderInv /\ [Flow!Next]_Flow!vars => (OnceInv /\ OrderInv)' BY Zenon, FlowNext
<1>3. OnceInv /\ OrderInv => OneSerialOrder
  <2> SUFFICES ASSUME OnceInv, OrderInv PROVE OneSerialOrder BY Zenon
  <2>1. Flow!ProposedOnce BY Zenon, OnePlace DEF Flow!ProposedOnce
  <2>2. Flow!LossBounded
    <3>1. IsFiniteSet(Flow!Txns) BY FS_Interval DEF Flow!Txns, Flow!FlowAssumption
    <3>2. Cardinality(replaced) \in Nat
      BY Zenon, <3>1, FS_Subset, FS_CardinalityType DEF OnceInv, FlowTypes
    <3>3. view \in Nat /\ total_num \in Nat
      BY DEF OnceInv, FlowTypes, Flow!FlowAssumption, Flow!MaxView
    <3>4. Cardinality(replaced) <= IF view > total_num THEN view - total_num ELSE 0
      BY <3>2, <3>3 DEF OnceInv, LossSoFar
    <3> QED BY Zenon, <3>4, FlowCardinality DEF Flow!LossBounded
  <2>3. Flow!SameSerialOrder
    <3>1. PICK G, first : Ordered(G, first) BY Zenon DEF OrderInv
    <3>2. ASSUME NEW r \in Replica \ disordered, NEW i \in DOMAIN executed[r]
          PROVE  executed[r][i] = G[i]
      <4>1. /\ OrderLog(log, G, first)
            /\ OrderOf(G, first, numbered[r], seq[r], execute_q[r], executed[r])
        BY Zenon, <3>1 DEF Ordered
      <4>2. PICK c \in Nat : /\ c = Len(committed[r]) /\ numbered[r] <= c /\ c <= Len(log)
                             /\ Len(log) \in Nat /\ numbered[r] \in Nat
        BY Zenon, <3>1, OrderSizes
      <4>3. numbered[r] <= Len(log) BY <4>2
      <4>4. PartOf(executed[r], G) BY Zenon, <4>1, <4>2, <4>3, ExecutedIsOrder
      <4> QED BY Zenon, <4>4 DEF PartOf
    <3>3. \A r, q \in Replica \ disordered :
            \A i \in DOMAIN executed[r] \cap DOMAIN executed[q] : executed[r][i] = executed[q][i]
      BY Zenon, <3>2
    <3>4. ASSUME NEW r \in Replica, NEW i \in DOMAIN executed[r]
          PROVE  /\ executed[r][i].id = i
                 /\ \E k \in DOMAIN log : executed[r][i].txn \in Flow!Range(log[k])
                 /\ \A j \in DOMAIN executed[r] : executed[r][j].txn = executed[r][i].txn => i = j
      BY Zenon, ExecutesOnce
    <3> QED BY Zenon, <3>3, <3>4 DEF Flow!SameSerialOrder
  <2> QED BY Zenon, <2>1, <2>2, <2>3 DEF OneSerialOrder, Flow!OneSerialOrder
<1> QED BY <1>1, <1>2, <1>3, PTL DEF Flow!Spec

=============================================================================
