------------------------- MODULE ClientFlow_proofs --------------------------
(***************************************************************************)
(* The client's window, for any number of replicas, leaders, requests and  *)
(* any window: the counters stay consistent under every interleaving of    *)
(* the sender with the response threads.                                   *)
(***************************************************************************)
EXTENDS ClientFlow, FiniteSetTheorems, FunctionTheorems, TLAPS

\* Where a request is: sent in order, executed once sent, registered until its
\* responses are enough, reported once (never, if one response is enough), and
\* with a response thread only after it was reported.
RequestInv ==
  \A s \in Request :
    /\ sent_to[s] # 0 <=> s < local_id \/ (s = local_id /\ pc = "check")
    /\ next_primary[s] # -1 => sent_to[s] # 0
    /\ arrived[s] > 0 => next_primary[s] # -1
    /\ s \in DOMAIN response <=> s <= local_id /\ arrived[s] < min_data_receive
    /\ s \in DOMAIN response => response[s] = arrived[s]
    /\ completed[s] = IF arrived[s] >= min_data_receive /\ min_data_receive > 1 THEN 1 ELSE 0
    /\ s \in changed \cup answering => completed[s] = 1
    /\ s \notin changed \cap answering

\* Between the test of the window and SendMessage there is room for one more.
RoomInv == pc = "send" => local_id > 0 /\ send_num < MaxProcessTxn

IInv == TypeOK /\ RequestInv /\ RoomInv /\ SlotsAccounted /\ WindowBound /\ NoSlotLeaks

-----------------------------------------------------------------------------
(* Slots *)

\* GetMinDataReceiveNum: one response for up to three replicas, more for four.
LEMMA MinDataReceive ==
  /\ min_data_receive \in 1..replica_num
  /\ replica_num >= 4 => min_data_receive > 1
<1>1. /\ faults \in Nat /\ 2 * faults + 1 <= replica_num
      /\ replica_num >= 4 => faults >= 1
  BY ClientAssumption DEF faults
<1>2. \E x \in {2 * faults + 1, 1} : \A y \in {2 * faults + 1, 1} : x >= y BY <1>1
<1>3. min_data_receive \in {2 * faults + 1, 1}
      /\ \A y \in {2 * faults + 1, 1} : min_data_receive >= y
  BY <1>2 DEF min_data_receive, Max
<1> QED BY <1>1, <1>3, ClientAssumption

\* The slots are finitely many.
LEMMA SlotsFinite ==
  ASSUME NEW c
  PROVE  IsFiniteSet(Slots(c)) /\ Cardinality(Slots(c)) \in Nat
<1>1. IsFiniteSet(1..replica_num) /\ IsFiniteSet(1..MaxRequests)
  BY FS_Interval, ClientAssumption
<1>2. IsFiniteSet((1..replica_num) \X (1..MaxRequests)) BY Zenon, <1>1, FS_Product
<1>3. Slots(c) \subseteq (1..replica_num) \X (1..MaxRequests) BY DEF Slots
<1> QED BY <1>2, <1>3, FS_Subset, FS_CardinalityType

\* A request that is sent takes one slot (inflight_[primary_]++).
LEMMA SlotTaken ==
  ASSUME NEW c \in [1..replica_num -> Nat], NEW r \in 1..replica_num, c[r] < MaxRequests
  PROVE  Cardinality(Slots([c EXCEPT ![r] = @ + 1])) = Cardinality(Slots(c)) + 1
<1> DEFINE d == [c EXCEPT ![r] = @ + 1]
           u == <<r, c[r] + 1>>
<1>1. u \in Slots(d) /\ u \notin Slots(c) BY ClientAssumption DEF Slots
<1>2. ASSUME NEW v \in (1..replica_num) \X (1..MaxRequests)
      PROVE  v[2] <= d[v[1]] <=> v[2] <= c[v[1]] \/ v = u
  <2>1. v[1] \in 1..replica_num /\ v[2] \in 1..MaxRequests /\ v = <<v[1], v[2]>> OBVIOUS
  <2>2. CASE v[1] = r BY <2>1, <2>2
  <2>3. CASE v[1] # r BY <2>1, <2>3
  <2> QED BY <2>2, <2>3
<1>3. Slots(d) = Slots(c) \cup {u} BY <1>1, <1>2 DEF Slots
<1> QED BY Zenon, <1>1, <1>3, SlotsFinite, FS_AddElement

\* A response that finds its slot gives one back (inflight_[proposer]--).
LEMMA SlotGivenBack ==
  ASSUME NEW c \in [1..replica_num -> 0..MaxRequests], NEW r \in 1..replica_num, c[r] > 0
  PROVE  Cardinality(Slots([c EXCEPT ![r] = @ - 1])) = Cardinality(Slots(c)) - 1
<1> DEFINE d == [c EXCEPT ![r] = @ - 1]
<1>1. d \in [1..replica_num -> Nat] /\ d[r] < MaxRequests BY ClientAssumption
<1>2. [d EXCEPT ![r] = @ + 1] = c
  <2>1. d[r] + 1 = c[r] BY ClientAssumption
  <2> QED BY Zenon, <2>1
<1>3. Cardinality(Slots(c)) = Cardinality(Slots(d)) + 1 BY <1>1, <1>2, SlotTaken
<1> QED BY <1>3, SlotsFinite

\* A leader change clears all slots of the old primary (inflight_[primary_] = 0).
LEMMA SlotsReleased ==
  ASSUME NEW c \in [1..replica_num -> 0..MaxRequests], NEW r \in 1..replica_num
  PROVE  Cardinality(Slots([c EXCEPT ![r] = 0])) = Cardinality(Slots(c)) - c[r]
<1> DEFINE d == [c EXCEPT ![r] = 0]
           T == {r} \X (1..c[r])
<1>1. T \subseteq Slots(c) BY ClientAssumption DEF Slots
<1>2. IsFiniteSet({r}) /\ Cardinality({r}) = 1 BY Zenon, FS_Singleton
<1>3. IsFiniteSet(1..c[r]) /\ Cardinality(1..c[r]) = c[r]
  <2>1. c[r] \in Nat BY ClientAssumption
  <2> QED BY <2>1, FS_Interval
<1>4. Cardinality(T) = c[r] BY <1>2, <1>3, FS_Product
<1>5. ASSUME NEW v \in (1..replica_num) \X (1..MaxRequests)
      PROVE  v[2] <= d[v[1]] <=> v[2] <= c[v[1]] /\ v \notin T
  <2>1. v[1] \in 1..replica_num /\ v[2] \in 1..MaxRequests /\ v = <<v[1], v[2]>> OBVIOUS
  <2>2. CASE v[1] = r BY <2>1, <2>2
  <2>3. CASE v[1] # r BY <2>1, <2>3
  <2> QED BY <2>2, <2>3
<1>6. Slots(d) = Slots(c) \ T BY <1>5 DEF Slots
<1>7. Slots(c) \cap T = T BY <1>1
<1>8. Cardinality(Slots(c) \ T) = Cardinality(Slots(c)) - Cardinality(Slots(c) \cap T)
  BY Zenon, SlotsFinite, FS_Difference
<1> QED BY Zenon, <1>4, <1>6, <1>7, <1>8

\* The requests and their subsets are finite.
LEMMA RequestFinite ==
  ASSUME NEW S \in SUBSET Request
  PROVE  IsFiniteSet(S) /\ Cardinality(S) \in 0..MaxRequests
<1>1. IsFiniteSet(Request) /\ Cardinality(Request) = MaxRequests
  BY FS_Interval, ClientAssumption DEF Request
<1>2. IsFiniteSet(S) /\ Cardinality(S) <= MaxRequests BY <1>1, FS_Subset
<1> QED BY <1>2, FS_CardinalityType, ClientAssumption

\* No replica has more slots than there are requests.
LEMMA SlotsPerReplica ==
  NoSlotLeaks /\ inflight \in [1..replica_num -> Nat]
    => inflight \in [1..replica_num -> 0..MaxRequests]
<1> SUFFICES ASSUME NoSlotLeaks, inflight \in [1..replica_num -> Nat], NEW r \in 1..replica_num
             PROVE  inflight[r] \in 0..MaxRequests
  OBVIOUS
<1>1. Holders(r) \in SUBSET Request BY DEF Holders
<1>2. Cardinality(Holders(r)) \in 0..MaxRequests BY <1>1, RequestFinite
<1> QED BY <1>2, ClientAssumption DEF NoSlotLeaks

\* All slots together, counted or taken, are no more than the requests: each
\* slot of a replica is matched with a request of that replica, and none of
\* them is one that a thread is answering.
LEMMA SlotsBounded ==
  ASSUME NoSlotLeaks, SlotsAccounted, RequestInv, inflight \in [1..replica_num -> Nat],
         changed \subseteq Request, answering \subseteq Request
  PROVE  send_num \in 0..MaxRequests
<1> DEFINE n(r) == Cardinality(Holders(r))
           H == {s \in Request : sent_to[s] \in 1..replica_num /\ s \in Holders(sent_to[s])}
           m == [r \in 1..replica_num |-> CHOOSE f : f \in Bijection(1..n(r), Holders(r))]
           g == [u \in Slots(inflight) |-> m[u[1]][u[2]]]
<1>1. ASSUME NEW r \in 1..replica_num
      PROVE  n(r) \in Nat /\ inflight[r] <= n(r) /\ m[r] \in Bijection(1..n(r), Holders(r))
  <2>1. Holders(r) \in SUBSET Request BY DEF Holders
  <2>2. IsFiniteSet(Holders(r)) BY <2>1, RequestFinite
  <2>3. ExistsBijection(1..n(r), Holders(r)) /\ n(r) \in Nat BY <2>2, FS_CardinalityType
  <2>4. \E f : f \in Bijection(1..n(r), Holders(r)) BY <2>3 DEF ExistsBijection
  <2> QED BY <2>3, <2>4 DEF NoSlotLeaks
<1>2. ASSUME NEW u \in Slots(inflight)
      PROVE  /\ u[1] \in 1..replica_num /\ u[2] \in 1..n(u[1]) /\ u = <<u[1], u[2]>>
             /\ g[u] \in Holders(u[1]) /\ g[u] \in H /\ sent_to[g[u]] = u[1]
  <2>1. /\ u \in (1..replica_num) \X (1..MaxRequests) /\ u[2] <= inflight[u[1]]
        /\ u[1] \in 1..replica_num /\ u[2] \in 1..MaxRequests /\ u = <<u[1], u[2]>>
    BY DEF Slots
  <2>2. /\ n(u[1]) \in Nat /\ inflight[u[1]] <= n(u[1])
        /\ m[u[1]] \in Bijection(1..n(u[1]), Holders(u[1]))
    BY <2>1, <1>1
  <2>3. u[2] \in 1..n(u[1])
    <3>1. inflight[u[1]] \in Nat BY <2>1
    <3> QED BY <3>1, <2>1, <2>2, ClientAssumption
  <2>4. g[u] \in Holders(u[1])
    BY Zenon, <2>2, <2>3 DEF Bijection, Injection, Surjection
  <2> QED BY <2>1, <2>3, <2>4 DEF Holders
<1>3. g \in Injection(Slots(inflight), H)
  <2>1. g \in [Slots(inflight) -> H] BY <1>2
  <2>2. ASSUME NEW u \in Slots(inflight), NEW v \in Slots(inflight), g[u] = g[v]
        PROVE  u = v
    <3>1. u[1] = v[1]
      <4>1. sent_to[g[u]] = u[1] /\ sent_to[g[v]] = v[1] BY Zenon, <1>2
      <4> HIDE DEF g
      <4> QED BY <4>1, <2>2
    <3>2. m[u[1]] \in Bijection(1..n(u[1]), Holders(u[1])) BY Zenon, <1>1, <1>2
    <3>3. u[2] \in 1..n(u[1]) /\ v[2] \in 1..n(u[1]) BY Zenon, <1>2, <3>1
    <3>4. m[u[1]][u[2]] = m[u[1]][v[2]] BY Zenon, <2>2, <3>1
    <3>5. u[2] = v[2]
      <4> HIDE DEF m
      <4>1. \A a, b \in 1..n(u[1]) : m[u[1]][a] = m[u[1]][b] => a = b
        BY Zenon, <3>2 DEF Bijection, Injection, IsInjective
      <4> QED BY <3>3, <3>4, <4>1
    <3> QED BY Zenon, <3>1, <3>5, <1>2
  <2> HIDE DEF g, H
  <2> QED BY <2>1, <2>2, Fun_IsInj
<1>4. H \in SUBSET Request /\ H \cup answering \in SUBSET Request OBVIOUS
<1>5. IsFiniteSet(H) /\ IsFiniteSet(answering) /\ Cardinality(H) \in Nat
      /\ Cardinality(answering) \in Nat /\ Cardinality(H \cup answering) \in 0..MaxRequests
  BY <1>4, RequestFinite
<1>6. Cardinality(Slots(inflight)) <= Cardinality(H) BY <1>3, <1>5, FS_Injection
<1>7. H \cap answering = {}
  BY DEF Holders, RequestInv
<1>8. Cardinality(H \cup answering) = Cardinality(H) + Cardinality(answering)
  <2>1. Cardinality(H \cup answering)
          = Cardinality(H) + Cardinality(answering) - Cardinality(H \cap answering)
    BY <1>5, FS_Union
  <2>2. Cardinality(H \cap answering) = 0 BY <1>7, FS_EmptySet
  <2> HIDE DEF H
  <2> QED BY <1>5, <2>1, <2>2
<1> QED BY <1>5, <1>6, <1>8, SlotsFinite, ClientAssumption DEF SlotsAccounted

-----------------------------------------------------------------------------
(* The steps *)

\* What TypeOK says beside the counters that the slots bound.
BaseType ==
  /\ local_id \in 0..MaxRequests
  /\ pc \in {"check", "send"}
  /\ DOMAIN response \subseteq Request
  /\ inflight \in [1..replica_num -> Nat]
  /\ primary \in Leader
  /\ sent_to \in [Request -> {0} \cup Leader]
  /\ next_primary \in [Request -> {-1, 0} \cup Leader]
  /\ arrived \in [Request -> 0..replica_num]
  /\ changed \subseteq Request
  /\ answering \subseteq Request
  /\ completed \in [Request -> Nat]

\* The rest of TypeOK follows from the invariants about slots and requests.
LEMMA TypeFromSlots == BaseType /\ RequestInv /\ SlotsAccounted /\ NoSlotLeaks => TypeOK
<1> SUFFICES ASSUME BaseType, RequestInv, SlotsAccounted, NoSlotLeaks PROVE TypeOK OBVIOUS
<1>1. inflight \in [1..replica_num -> 0..MaxRequests] BY SlotsPerReplica DEF BaseType
<1>2. send_num \in 0..MaxRequests BY SlotsBounded DEF BaseType
<1>3. \A s \in DOMAIN response : response[s] \in 0..replica_num BY DEF BaseType, RequestInv
<1> QED BY <1>1, <1>2, <1>3 DEF BaseType, TypeOK

\* TypeOK gives the part of it that the steps rely on.
LEMMA TypeBase == TypeOK => BaseType
BY ClientAssumption DEF TypeOK, BaseType

\* The client starts with an empty window.
LEMMA InitInv == Init => IInv
<1> SUFFICES ASSUME Init PROVE IInv OBVIOUS
<1> USE DEF Init
<1>1. min_data_receive \in 1..replica_num BY MinDataReceive
<1>2. BaseType BY ClientAssumption DEF BaseType, Request
<1>3. RequestInv
  <2>1. \A s \in Request : s \in Nat /\ s > 0 BY ClientAssumption DEF Request
  <2> QED BY <1>1, <2>1 DEF RequestInv
<1>4. SlotsAccounted
  <2>1. Slots(inflight) = {} BY ClientAssumption DEF Slots
  <2>2. Cardinality(Slots(inflight)) = 0 /\ Cardinality(answering) = 0 BY Zenon, <2>1, FS_EmptySet
  <2> QED BY <2>2 DEF SlotsAccounted
<1>5. NoSlotLeaks
  <2> SUFFICES ASSUME NEW r \in 1..replica_num PROVE inflight[r] <= Cardinality(Holders(r))
    BY DEF NoSlotLeaks
  <2>1. Holders(r) \in SUBSET Request BY DEF Holders
  <2>2. Cardinality(Holders(r)) \in 0..MaxRequests BY <2>1, RequestFinite
  <2> QED BY <2>2, ClientAssumption
<1>6. WindowBound /\ RoomInv BY ClientAssumption DEF WindowBound, RoomInv
<1> QED BY <1>2, <1>3, <1>4, <1>5, <1>6, TypeFromSlots DEF IInv

\* The holders of a replica stay the same while neither the requests sent nor
\* their reports change.
LEMMA HoldersSame ==
  ASSUME UNCHANGED <<inflight, sent_to, completed, changed>>, NoSlotLeaks
  PROVE  NoSlotLeaks'
<1>1. \A r : Holders(r)' = Holders(r) BY DEF Holders, Request
<1> QED BY <1>1 DEF NoSlotLeaks

\* DoBatch registers the next request.
LEMMA DoBatchInv ==
  ASSUME IInv, DoBatch
  PROVE  IInv'
<1> USE DEF IInv, DoBatch
<1>0. BaseType BY TypeBase
<1>1. min_data_receive \in 1..replica_num BY MinDataReceive
<1>2. local_id \in Nat /\ local_id + 1 \in Request BY <1>0, ClientAssumption DEF BaseType, Request
<1>3. BaseType' BY <1>0, <1>2, ClientAssumption DEF BaseType, Request
<1>4. RequestInv'
  <2> SUFFICES ASSUME NEW s \in Request PROVE RequestInv!(s)' BY Zenon DEF RequestInv, Request
  <2>1. s \in Nat /\ arrived[s] \in 0..replica_num BY <1>0, ClientAssumption DEF Request, BaseType
  <2>2. RequestInv!(s) BY DEF RequestInv
  <2>3. CASE s = local_id + 1
    BY <1>0, <1>1, <1>2, <2>1, <2>2, <2>3, ClientAssumption DEF BaseType, min_data_receive, faults
  <2>4. CASE s # local_id + 1
    BY <1>0, <1>1, <1>2, <2>1, <2>2, <2>4, ClientAssumption DEF BaseType, min_data_receive, faults
  <2> QED BY <2>3, <2>4
<1>5. SlotsAccounted' BY DEF SlotsAccounted, Slots
<1>6. NoSlotLeaks' BY HoldersSame
<1>7. WindowBound' /\ RoomInv'
  <2>1. send_num \in Nat BY ClientAssumption DEF TypeOK
  <2> QED BY <2>1, <1>2, ClientAssumption DEF WindowBound, RoomInv, WindowFull
<1>8. TypeOK' BY <1>3, <1>4, <1>5, <1>6, TypeFromSlots, PTL
<1> QED BY <1>4, <1>5, <1>6, <1>7, <1>8

\* SendMessage takes a slot of the primary for the registered request.
LEMMA SendMessageInv ==
  ASSUME IInv, SendMessage
  PROVE  IInv'
<1> USE DEF IInv, SendMessage
<1>0. BaseType BY TypeBase
<1>1. /\ local_id \in Request /\ primary \in 1..replica_num /\ primary # 0
      /\ sent_to[local_id] = 0 /\ completed[local_id] = 0 /\ local_id \notin changed
  <2>1. local_id \in Request BY <1>0, ClientAssumption DEF BaseType, Request, RoomInv
  <2>2. RequestInv!(local_id) BY <2>1 DEF RequestInv
  <2>3. primary \in 1..replica_num BY <1>0, ClientAssumption DEF BaseType
  <2>4. sent_to[local_id] = 0 BY <2>1, <2>2, ClientAssumption DEF Request
  <2>5. arrived[local_id] = 0 BY <1>0, <2>1, <2>2, <2>4, ClientAssumption DEF BaseType
  <2>6. completed[local_id] = 0 BY <2>2, <2>5, MinDataReceive, ClientAssumption
  <2> QED BY <2>1, <2>2, <2>3, <2>4, <2>6, ClientAssumption
<1>2. BaseType'
  <2>1. inflight' \in [1..replica_num -> Nat] BY <1>0, <1>1 DEF BaseType
  <2>2. sent_to' \in [Request -> {0} \cup Leader] BY <1>0, <1>1 DEF BaseType
  <2> QED BY <1>0, <2>1, <2>2 DEF BaseType, Request
<1>3. RequestInv'
  <2> SUFFICES ASSUME NEW s \in Request PROVE RequestInv!(s)' BY DEF RequestInv, Request
  <2>1. s \in Nat /\ local_id \in Nat BY <1>0, ClientAssumption DEF Request, BaseType
  <2>2. RequestInv!(s) BY DEF RequestInv
  <2>3. CASE s = local_id
    BY <1>0, <1>1, <2>1, <2>2, <2>3 DEF BaseType, min_data_receive, faults
  <2>4. CASE s # local_id
    BY <1>0, <1>1, <2>1, <2>2, <2>4 DEF BaseType, min_data_receive, faults
  <2> QED BY <2>3, <2>4
<1>4. NoSlotLeaks'
  <2> SUFFICES ASSUME NEW r \in 1..replica_num PROVE inflight'[r] <= Cardinality(Holders(r)')
    BY DEF NoSlotLeaks
  <2>1. Holders(r) \in SUBSET Request /\ inflight[r] <= Cardinality(Holders(r))
        /\ inflight[r] \in Nat
    BY Zenon, <1>0 DEF Holders, NoSlotLeaks, BaseType
  <2>2. IsFiniteSet(Holders(r)) /\ Cardinality(Holders(r)) \in Nat
    BY <2>1, RequestFinite, ClientAssumption
  <2>3. CASE r = primary
    <3>1. Holders(r)' = Holders(r) \cup {local_id} /\ local_id \notin Holders(r)
      BY <1>0, <1>1, <2>3 DEF Holders, BaseType, Request
    <3>2. Cardinality(Holders(r)') = Cardinality(Holders(r)) + 1
      BY <2>2, <3>1, FS_AddElement
    <3> QED BY <1>0, <2>1, <2>2, <2>3, <3>2 DEF BaseType
  <2>4. CASE r # primary
    <3>1. Holders(r)' = Holders(r) BY <1>0, <1>1, <2>4 DEF Holders, BaseType, Request
    <3> QED BY <1>0, <2>1, <2>4, <3>1 DEF BaseType
  <2> QED BY <2>3, <2>4
<1>5. SlotsAccounted'
  <2>0. (inflight \in [1..replica_num -> Nat])' BY <1>2 DEF BaseType
  <2>1. (inflight \in [1..replica_num -> 0..MaxRequests])'
    BY <1>4, <2>0, SlotsPerReplica, PTL
  <2>2. inflight[primary] < MaxRequests BY <1>0, <1>1, <2>1, ClientAssumption DEF BaseType
  <2>3. Cardinality(Slots(inflight')) = Cardinality(Slots(inflight)) + 1
    BY Zenon, <1>0, <1>1, <2>2, SlotTaken DEF BaseType
  <2>4. Cardinality(answering) \in Nat BY <1>0, RequestFinite, ClientAssumption DEF BaseType
  <2>5. Slots(inflight)' = Slots(inflight') BY DEF Slots
  <2> QED BY <2>3, <2>4, <2>5, SlotsFinite DEF SlotsAccounted
<1>6. WindowBound' /\ RoomInv'
  <2>1. send_num \in Nat BY ClientAssumption DEF TypeOK
  <2> QED BY <2>1, ClientAssumption DEF WindowBound, RoomInv
<1>7. TypeOK' BY <1>2, <1>3, <1>4, <1>5, TypeFromSlots, PTL
<1> QED BY <1>3, <1>4, <1>5, <1>6, <1>7

\* The replicas execute a request that was sent.
LEMMA ExecuteInv ==
  ASSUME IInv, NEW s \in Request, NEW next \in {0} \cup Leader, Execute(s, next)
  PROVE  IInv'
<1> USE DEF IInv, Execute
<1>0. BaseType BY TypeBase
<1>1. BaseType' BY Zenon, <1>0, ClientAssumption DEF BaseType, Request
<1>2. RequestInv'
  <2> SUFFICES ASSUME NEW q \in Request PROVE RequestInv!(q)' BY DEF RequestInv, Request
  <2>1. RequestInv!(q) BY DEF RequestInv
  <2>2. next # -1 BY ClientAssumption
  <2> QED BY <1>0, <2>1, <2>2 DEF BaseType, min_data_receive, faults
<1>3. SlotsAccounted' BY DEF SlotsAccounted, Slots
<1>4. NoSlotLeaks' BY HoldersSame
<1>5. WindowBound' /\ RoomInv' BY DEF WindowBound, RoomInv
<1>6. TypeOK' BY <1>1, <1>2, <1>3, <1>4, TypeFromSlots, PTL
<1> QED BY <1>2, <1>3, <1>4, <1>5, <1>6

\* A response is counted; the one that makes them enough reports the request.
LEMMA AddResponseInv ==
  ASSUME IInv, NEW s \in Request, AddResponseMsg(s)
  PROVE  IInv'
<1> USE DEF IInv
<1>0. BaseType BY TypeBase
<1>1. min_data_receive \in 1..replica_num BY MinDataReceive
<1>2. /\ arrived[s] \in Nat /\ arrived[s] < replica_num /\ next_primary[s] # -1
      /\ arrived' = [arrived EXCEPT ![s] = @ + 1]
      /\ UNCHANGED <<local_id, pc, inflight, send_num, primary, sent_to, next_primary, answering>>
  BY <1>0 DEF AddResponseMsg, BaseType
<1>3. RequestInv!(s) BY DEF RequestInv
<1>a. arrived' \in [Request -> 0..replica_num]
  <2>1. arrived[s] + 1 \in 0..replica_num BY <1>2, ClientAssumption
  <2> QED BY <1>0, <1>2, <2>1 DEF BaseType
<1>4. CASE s \notin DOMAIN response
  <2>1. UNCHANGED <<response, changed, completed>> BY <1>4 DEF AddResponseMsg
  <2>2. BaseType' BY <1>0, <1>2, <1>a, <2>1 DEF BaseType, Request
  <2>3. s <= local_id
    BY <1>0, <1>2, <1>3, ClientAssumption DEF Request, BaseType
  <2>4. arrived[s] >= min_data_receive BY <1>0, <1>1, <1>2, <1>3, <1>4, <2>3, ClientAssumption DEF BaseType
  <2>5. RequestInv'
    <3> SUFFICES ASSUME NEW q \in Request PROVE RequestInv!(q)' BY DEF RequestInv, Request
    <3>1. RequestInv!(q) /\ arrived[q] \in Nat BY <1>0 DEF RequestInv, BaseType
    <3> QED BY <1>0, <1>1, <1>2, <2>1, <2>3, <2>4, <3>1 DEF BaseType, min_data_receive, faults
  <2>6. SlotsAccounted' BY <1>2 DEF SlotsAccounted, Slots
  <2>7. NoSlotLeaks' BY <1>2, <2>1, HoldersSame
  <2>8. WindowBound' /\ RoomInv' BY <1>2 DEF WindowBound, RoomInv
  <2>9. TypeOK' BY <2>2, <2>5, <2>6, <2>7, TypeFromSlots, PTL
  <2> QED BY <2>5, <2>6, <2>7, <2>8, <2>9
<1>5. CASE s \in DOMAIN response
  <2> DEFINE count == arrived[s] + 1
             reports == count >= min_data_receive /\ count # 1
  <2>0. response[s] = arrived[s] /\ arrived[s] < min_data_receive /\ s <= local_id
    BY <1>3, <1>5
  <2>1. /\ response' = IF count >= min_data_receive THEN Restrict(response, DOMAIN response \ {s})
                        ELSE [response EXCEPT ![s] = count]
        /\ changed' = IF reports THEN changed \cup {s} ELSE changed
        /\ completed' = IF reports THEN [completed EXCEPT ![s] = @ + 1] ELSE completed
    BY <1>5, <2>0 DEF AddResponseMsg, Enough
  <2>2. /\ DOMAIN response' = IF count >= min_data_receive THEN DOMAIN response \ {s}
                              ELSE DOMAIN response
        /\ \A q \in DOMAIN response' : response'[q] = IF q = s THEN count ELSE response[q]
    <3>1. CASE count >= min_data_receive BY <2>1, <3>1 DEF Restrict
    <3>2. CASE ~(count >= min_data_receive) BY <2>1, <3>2
    <3> QED BY <3>1, <3>2
  <2>3. completed[s] = 0 /\ s \notin changed /\ s \notin answering
    BY <1>1, <1>2, <1>3, <2>0
  <2>4. completed' = [q \in Request |-> IF q = s /\ reports THEN 1 ELSE completed[q]]
    <3>1. CASE reports
      <4>1. completed' = [completed EXCEPT ![s] = 1] BY <1>0, <2>1, <2>3, <3>1 DEF BaseType
      <4> QED BY Zenon, <1>0, <3>1, <4>1 DEF BaseType
    <3>2. CASE ~reports BY <1>0, <2>1, <3>2 DEF BaseType
    <3> QED BY <3>1, <3>2
  <2>5. BaseType'
    <3>1. DOMAIN response' \subseteq Request' BY <1>0, <2>2 DEF BaseType, Request
    <3>2. changed' \subseteq Request' BY <1>0, <2>1 DEF BaseType, Request
    <3>3. completed' \in [Request' -> Nat] BY <1>0, <2>4 DEF BaseType, Request
    <3> QED BY <1>0, <1>2, <1>a, <3>1, <3>2, <3>3 DEF BaseType, Request
  <2>6. RequestInv'
    <3> SUFFICES ASSUME NEW q \in Request PROVE RequestInv!(q)' BY DEF RequestInv, Request
    <3>1. RequestInv!(q) /\ arrived[q] \in Nat BY <1>0 DEF RequestInv, BaseType
    <3>2. CASE q = s
      <4>1. arrived'[s] = count BY <1>0, <1>2 DEF BaseType
      <4>2. count >= min_data_receive => (count # 1 <=> min_data_receive > 1)
        BY <1>1, <1>2, <2>0, ClientAssumption
      <4>3. completed'[s] = IF count >= min_data_receive /\ min_data_receive > 1 THEN 1 ELSE 0
        BY <2>3, <2>4, <4>2
      <4>4. s \in changed' \cup answering' => completed'[s] = 1
        BY <1>2, <2>1, <2>3, <2>4
      <4>5. s \in DOMAIN response' <=> s <= local_id' /\ count < min_data_receive
        BY <1>1, <1>2, <1>5, <2>0, <2>2, ClientAssumption
      <4> QED BY Zenon, <1>2, <2>2, <2>3, <3>1, <3>2, <4>1, <4>3, <4>4, <4>5
              DEF min_data_receive, faults
    <3>3. CASE q # s
      <4>1. arrived'[q] = arrived[q] /\ completed'[q] = completed[q] /\ (q \in changed' <=> q \in changed)
        BY <1>0, <1>2, <2>1, <2>4, <3>3 DEF BaseType
      <4>2. /\ q \in DOMAIN response' <=> q \in DOMAIN response
            /\ q \in DOMAIN response => response'[q] = response[q]
        BY <2>2, <3>3
      <4> QED BY <1>2, <3>1, <4>1, <4>2 DEF min_data_receive, faults
    <3> QED BY <3>2, <3>3
  <2>7. SlotsAccounted' BY <1>2 DEF SlotsAccounted, Slots
  <2>8. NoSlotLeaks'
    <3>1. \A r : Holders(r)' = Holders(r)
      BY <1>0, <1>2, <2>1, <2>3, <2>4 DEF Holders, Request, BaseType
    <3> QED BY <1>2, <3>1 DEF NoSlotLeaks
  <2>9. WindowBound' /\ RoomInv' BY <1>2 DEF WindowBound, RoomInv
  <2>10. TypeOK' BY <2>5, <2>6, <2>7, <2>8, TypeFromSlots, PTL
  <2> QED BY <2>6, <2>7, <2>8, <2>9, <2>10
<1> QED BY <1>4, <1>5
\* The thread that reports a request takes over the leader it names, releases
\* the old leader's slots, and takes the request's own slot if it is still there.
LEMMA ChangePrimaryInv ==
  ASSUME IInv, NEW s \in Request, ChangePrimary(s)
  PROVE  IInv'
<1> USE DEF IInv
<1> DEFINE R == sent_to[s]
           cleared == IF Released(s) > 0 THEN [inflight EXCEPT ![primary] = 0] ELSE inflight
           taken == cleared[R] > 0
<1>0. BaseType BY TypeBase
<1>1. /\ s \in changed /\ changed' = changed \ {s}
      /\ send_num' = send_num - Released(s)
      /\ primary' = IF next_primary[s] # 0 THEN next_primary[s] ELSE primary
      /\ inflight' = IF taken THEN [cleared EXCEPT ![R] = @ - 1] ELSE cleared
      /\ answering' = IF taken THEN answering \cup {s} ELSE answering
      /\ UNCHANGED <<local_id, pc, response, sent_to, next_primary, arrived, completed>>
  BY DEF ChangePrimary, SendNumReleased, HasSlot
<1>2. RequestInv!(s) /\ completed[s] = 1 /\ s \notin answering BY <1>1 DEF RequestInv
<1>3. /\ R \in Leader /\ R \in 1..replica_num
      /\ next_primary[s] \in {0} \cup Leader /\ primary \in 1..replica_num
  <2>1. arrived[s] > 0 BY <1>0, <1>2, MinDataReceive, ClientAssumption DEF BaseType
  <2>2. next_primary[s] # -1 /\ R # 0 BY <1>2, <2>1
  <2> QED BY Zenon, <1>0, <2>2, ClientAssumption DEF BaseType
<1>4. inflight \in [1..replica_num -> 0..MaxRequests] BY DEF TypeOK
<1>5. Released(s) \in Nat /\ (Released(s) > 0 => Released(s) = inflight[primary])
  BY <1>3, <1>4, ClientAssumption DEF Released
<1>6. /\ cleared \in [1..replica_num -> 0..MaxRequests]
      /\ \A r \in 1..replica_num : cleared[r] <= inflight[r]
      /\ Cardinality(Slots(cleared)) = Cardinality(Slots(inflight)) - Released(s)
  <2>1. CASE Released(s) > 0
    <3>1. Cardinality(Slots(cleared)) = Cardinality(Slots(inflight)) - inflight[primary]
      BY Zenon, <1>3, <1>4, <2>1, SlotsReleased
    <3>2. cleared \in [1..replica_num -> 0..MaxRequests]
          /\ \A r \in 1..replica_num : cleared[r] <= inflight[r]
      <4>1. cleared = [inflight EXCEPT ![primary] = 0] BY <2>1
      <4>2. 0 \in 0..MaxRequests /\ 0..MaxRequests \subseteq Nat BY ClientAssumption
      <4> HIDE DEF cleared
      <4> QED BY <1>3, <1>4, <4>1, <4>2
    <3> QED BY <1>5, <2>1, <3>1, <3>2
  <2>2. CASE ~(Released(s) > 0)
    <3>1. Released(s) = 0 BY <1>5, <2>2
    <3>2. cleared = inflight BY <2>2
    <3>3. \A r \in 1..replica_num : inflight[r] <= inflight[r] BY <1>4, ClientAssumption
    <3> QED BY <1>4, <3>1, <3>2, <3>3, SlotsFinite
  <2> QED BY <2>1, <2>2
<1> HIDE DEF cleared
<1>7. BaseType'
  <2>1. inflight' \in [1..replica_num -> Nat]
    <3>1. CASE taken
      <4>1. cleared[R] - 1 \in Nat BY <1>3, <1>6, <3>1, ClientAssumption
      <4>2. inflight' = [cleared EXCEPT ![R] = cleared[R] - 1] BY <1>1, <3>1
      <4>3. cleared \in [1..replica_num -> Nat] BY <1>6, ClientAssumption
      <4> QED BY Zenon, <4>1, <4>2, <4>3
    <3>2. CASE ~taken BY <1>1, <1>6, <3>2, ClientAssumption
    <3> QED BY <3>1, <3>2
  <2>2. primary' \in Leader BY <1>0, <1>1, <1>3 DEF BaseType
  <2>3. changed' \subseteq Request /\ answering' \subseteq Request BY <1>0, <1>1 DEF BaseType
  <2> QED BY <1>0, <1>1, <2>1, <2>2, <2>3 DEF BaseType, Request
<1>8. RequestInv'
  <2> SUFFICES ASSUME NEW q \in Request PROVE RequestInv!(q)' BY DEF RequestInv, Request
  <2>1. RequestInv!(q) BY DEF RequestInv
  <2>2. /\ q \in changed' \cup answering' => q \in changed \cup answering
        /\ q \notin changed' \cap answering'
    BY <1>1, <1>2, <2>1
  <2> QED BY <1>1, <2>1, <2>2 DEF min_data_receive, faults
<1>9. NoSlotLeaks'
  <2> SUFFICES ASSUME NEW r \in 1..replica_num PROVE inflight'[r] <= Cardinality(Holders(r)')
    BY DEF NoSlotLeaks
  <2>1. Holders(r) \in SUBSET Request /\ inflight[r] <= Cardinality(Holders(r))
    BY DEF Holders, NoSlotLeaks
  <2>2. IsFiniteSet(Holders(r)) /\ Cardinality(Holders(r)) \in Nat
    BY <2>1, RequestFinite, ClientAssumption
  <2>3. inflight[r] \in Nat /\ cleared[r] \in Nat /\ cleared[r] <= inflight[r]
    BY <1>4, <1>6, ClientAssumption
  <2>4. Holders(r)' = Holders(r) \ {s} BY <1>1, <1>2 DEF Holders, Request
  <2>5. CASE r = R
    <3>1. s \in Holders(r) BY <1>1, <2>5 DEF Holders
    <3>2. Cardinality(Holders(r)') = Cardinality(Holders(r)) - 1
      BY <2>2, <2>4, <3>1, FS_RemoveElement
    <3>3. CASE taken
      <4>1. inflight'[r] = cleared[r] - 1 BY <1>1, <1>6, <2>5, <3>3
      <4> QED BY <2>1, <2>2, <2>3, <3>2, <4>1
    <3>4. CASE ~taken
      <4>1. inflight'[r] = 0 BY <1>1, <2>3, <2>5, <3>4
      <4>2. Cardinality(Holders(r)') \in Nat
        BY <2>2, <2>4, FS_RemoveElement, FS_CardinalityType
      <4> QED BY <4>1, <4>2
    <3> QED BY <3>3, <3>4
  <2>6. CASE r # R
    <3>1. Holders(r)' = Holders(r) BY <2>4, <2>6 DEF Holders
    <3>2. inflight'[r] = cleared[r] BY <1>1, <1>6, <2>6
    <3> QED BY <2>1, <2>2, <2>3, <3>1, <3>2
  <2> QED BY <2>5, <2>6
<1>10. SlotsAccounted'
  <2>1. /\ IsFiniteSet(answering) /\ Cardinality(answering) \in Nat
        /\ Cardinality(Slots(inflight)) \in Nat /\ Cardinality(Slots(cleared)) \in Nat
    BY <1>0, RequestFinite, SlotsFinite, ClientAssumption DEF BaseType
  <2>2. Slots(inflight)' = Slots(inflight') BY DEF Slots
  <2>3. CASE taken
    <3>1. Cardinality(answering') = Cardinality(answering) + 1
      BY Zenon, <1>1, <1>2, <2>1, <2>3, FS_AddElement
    <3>2. Cardinality(Slots(inflight')) = Cardinality(Slots(cleared)) - 1
      BY Zenon, <1>1, <1>3, <1>6, <2>3, SlotGivenBack
    <3> QED BY <1>1, <1>5, <1>6, <2>1, <2>2, <3>1, <3>2 DEF SlotsAccounted
  <2>4. CASE ~taken
    <3>1. answering' = answering /\ inflight' = cleared BY <1>1, <2>4
    <3>2. Cardinality(Slots(inflight)') = Cardinality(Slots(cleared))
          /\ Cardinality(answering') = Cardinality(answering)
      BY <2>2, <3>1
    <3> QED BY SMTT(30), <1>1, <1>5, <1>6, <2>1, <3>2 DEF SlotsAccounted
  <2> QED BY <2>3, <2>4
<1>11. WindowBound' /\ RoomInv'
  <2>1. send_num \in Nat BY ClientAssumption DEF TypeOK
  <2> QED BY <1>1, <1>5, <2>1, ClientAssumption DEF WindowBound, RoomInv
<1>12. TypeOK' BY <1>7, <1>8, <1>9, <1>10, TypeFromSlots, PTL
<1> QED BY <1>8, <1>9, <1>10, <1>11, <1>12

\* send_num_-- of the thread that took a slot.
LEMMA SendResponseInv ==
  ASSUME IInv, NEW s \in Request, SendResponseToClient(s)
  PROVE  IInv'
<1> USE DEF IInv, SendResponseToClient
<1>0. BaseType BY TypeBase
<1>1. BaseType' BY <1>0 DEF BaseType, Request
<1>2. RequestInv' BY Zenon DEF RequestInv, Request, min_data_receive, faults
<1>3. NoSlotLeaks' BY HoldersSame
<1>4. SlotsAccounted'
  <2>1. IsFiniteSet(answering) /\ Cardinality(answering) \in Nat
    BY <1>0, RequestFinite, ClientAssumption DEF BaseType
  <2>2. Cardinality(answering') = Cardinality(answering) - 1 BY <2>1, FS_RemoveElement
  <2>3. Slots(inflight)' = Slots(inflight) BY DEF Slots
  <2> QED BY <2>1, <2>2, <2>3, SlotsFinite DEF SlotsAccounted
<1>5. WindowBound' /\ RoomInv'
  <2>1. send_num \in Nat BY ClientAssumption DEF TypeOK
  <2> QED BY <2>1, ClientAssumption DEF WindowBound, RoomInv
<1>6. TypeOK' BY <1>1, <1>2, <1>3, <1>4, TypeFromSlots, PTL
<1> QED BY <1>2, <1>3, <1>4, <1>5, <1>6

-----------------------------------------------------------------------------
(* The theorems *)

\* Every step of the sender, the replicas and the response threads preserves
\* the invariant.
LEMMA NextInv == IInv /\ [Next]_vars => IInv'
<1> SUFFICES ASSUME IInv, [Next]_vars PROVE IInv' OBVIOUS
<1>1. CASE DoBatch BY <1>1, DoBatchInv
<1>2. CASE SendMessage BY <1>2, SendMessageInv
<1>3. CASE \E s \in Request, next \in {0} \cup Leader : Execute(s, next) BY <1>3, ExecuteInv
<1>4. CASE \E s \in Request : AddResponseMsg(s) BY <1>4, AddResponseInv
<1>5. CASE \E s \in Request : ChangePrimary(s) BY <1>5, ChangePrimaryInv
<1>6. CASE \E s \in Request : SendResponseToClient(s) BY <1>6, SendResponseInv
<1>7. CASE UNCHANGED vars
  <2>1. TypeOK' /\ WindowBound' /\ RoomInv' /\ SlotsAccounted'
    BY <1>7 DEF IInv, vars, TypeOK, Request, WindowBound, RoomInv, SlotsAccounted, Slots
  <2>2. RequestInv' BY Zenon, <1>7 DEF IInv, vars, RequestInv, Request, min_data_receive, faults
  <2>3. NoSlotLeaks' BY <1>7, HoldersSame DEF IInv, vars
  <2> QED BY <2>1, <2>2, <2>3 DEF IInv
<1> QED BY <1>1, <1>2, <1>3, <1>4, <1>5, <1>6, <1>7 DEF Next

\* The inductive invariant of the client holds in every reachable state.
THEOREM ClientInvariant == Spec => []IInv
BY InitInv, NextInv, PTL DEF Spec

\* inflight_, send_num_ and the other variables of the client keep their types
\* under every interleaving; in particular no counter of inflight_ and not
\* send_num_ is ever decremented below zero (ProcessResponseMsg).
THEOREM ClientTypes == Spec => []TypeOK
BY ClientInvariant, PTL DEF IInv

\* send_num_ is at every moment the sum of the in-flight slots and of those the
\* response threads have taken: what a leader change subtracts in one go and
\* what the threads subtract one by one never overlap.
THEOREM SlotsStayAccounted == Spec => []SlotsAccounted
BY ClientInvariant, PTL DEF IInv

\* The window test of BatchProposeMsg, made before the request is built, still
\* bounds send_num_ when SendMessage increments it.
THEOREM WindowStaysBounded == Spec => []WindowBound
BY ClientInvariant, PTL DEF IInv

\* Every slot is backed by a request whose slot was not released: the window is
\* never used up by slots nobody gives back.
THEOREM SlotsAreHeld == Spec => []NoSlotLeaks
BY ClientInvariant, PTL DEF IInv

\* With four or more replicas a request is reported exactly once as soon as
\* enough responses arrived, however the other responses interleave.  (With
\* fewer, one response is enough, AddResponseMsg answers FIRST_RESPONSE for it
\* and the request is never reported.)
THEOREM ReportedOnce == replica_num >= 4 => (Spec => []CallsBack)
<1> SUFFICES ASSUME replica_num >= 4 PROVE Spec => []CallsBack OBVIOUS
<1>1. IInv => CallsBack
  <2>1. min_data_receive > 1 BY MinDataReceive
  <2> QED BY <2>1 DEF IInv, RequestInv, CallsBack
<1> QED BY <1>1, ClientInvariant, PTL

=============================================================================
