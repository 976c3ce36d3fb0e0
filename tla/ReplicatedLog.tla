--------------------------- MODULE ReplicatedLog ----------------------------
(***************************************************************************)
(* What the ordering protocol promises the executor: entries are decided   *)
(* one after the other, and a replica hands on decided entries, each one   *)
(* at most once.  It hands them on in the order in which they were decided *)
(* and without a gap as long as it is not disordered, which it becomes by  *)
(* handling proposals in another order than the one they were sent in.     *)
(***************************************************************************)
EXTENDS Naturals, Sequences

CONSTANTS Replica, Entry

VARIABLES log,         \* the entries decided so far
          committed,   \* committed[r]: what replica r has handed on
          disordered   \* the replicas that handled entries out of order

logVars == <<log, committed, disordered>>

Init == /\ log = <<>>
        /\ committed = [r \in Replica |-> <<>>]
        /\ disordered = {}

Decide(e) == /\ log' = Append(log, e)
             /\ UNCHANGED <<committed, disordered>>

Disorder(r) == disordered' = disordered \cup {r}

\* Entry i; any entry that was not handed on yet, once r is disordered.
Commit(r, i) == /\ \A k \in DOMAIN committed[r] : committed[r][k] # log[i]
                /\ committed' = [committed EXCEPT ![r] = Append(@, log[i])]
                /\ Disorder(r) \/ (UNCHANGED disordered
                                   /\ (r \in disordered \/ i = Len(committed[r]) + 1))
                /\ UNCHANGED log

Next == \/ log' # log /\ \E e \in Entry : Decide(e)
        \/ \E r \in Replica : Disorder(r) /\ UNCHANGED <<log, committed>>
        \/ \E r \in Replica : \E i \in 1..Len(log) : Commit(r, i)

Spec == Init /\ [][Next]_logVars
=============================================================================
