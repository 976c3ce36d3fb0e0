------------------------------- MODULE Toasts -------------------------------
(***************************************************************************)
(* The toast store of ResLens (use-toast.ts): one module-level state, a    *)
(* reducer, removal timers keyed by toast id, and the list of setState     *)
(* functions of the mounted components.  dispatch updates the state and    *)
(* tells every listener.  A component reads the state when it renders, and *)
(* is registered by an effect that React runs later; after a change of the *)
(* state the effect is cleaned up and run again, with the effects of other *)
(* components, which may call toast(), in between.                         *)
(*                                                                         *)
(* UPDATE_TOAST is left out: nothing calls the update that toast returns.  *)
(***************************************************************************)
EXTENDS Naturals, Sequences, SequencesExt

CONSTANTS
    Components,    \* the components that call useToast
    TOAST_LIMIT,
    MaxToasts      \* bound: calls of toast(); genId wraps only after 2^53 - 1

ToastsAssumption == TOAST_LIMIT \in Nat \ {0} /\ MaxToasts \in Nat

VARIABLES
    count,         \* the last generated id
    toasts,        \* memoryState.toasts, newest first
    toastTimeouts, \* the ids with a removal timer
    listeners,     \* whose setState is registered, in order
    shown,         \* [Components -> toasts]: what a mounted component renders
    changed,       \* components with a new state since their effect ran
    waiting,       \* mounted components whose effect is to run
    missed         \* history: those that a dispatch did not reach, until one does

vars == <<count, toasts, toastTimeouts, listeners, shown, changed, waiting, missed>>

Init ==
    /\ count = 0 /\ toasts = <<>> /\ toastTimeouts = {}
    /\ listeners = <<>> /\ shown = [c \in Components |-> <<>>]
    /\ changed = {} /\ waiting = {} /\ missed = {}

\* dispatch: the new state, always another object, reaches every listener.
dispatch(state) ==
    /\ toasts' = state
    /\ shown' = [c \in Components |-> IF Contains(listeners, c) THEN state ELSE shown[c]]
    /\ changed' = ToSet(listeners)
    /\ missed' = waiting
    /\ UNCHANGED <<listeners, waiting>>

\* The new toast first, cut to the limit.
ADD_TOAST(t) ==
    LET all == <<t>> \o toasts
    IN  SubSeq(all, 1, IF Len(all) < TOAST_LIMIT THEN Len(all) ELSE TOAST_LIMIT)

toast ==
    /\ count < MaxToasts
    /\ count' = count + 1
    /\ dispatch(ADD_TOAST([id |-> count + 1, open |-> TRUE]))
    /\ UNCHANGED <<toastTimeouts>>

Closed(ids) == [i \in DOMAIN toasts |->
                  IF toasts[i].id \in ids THEN [toasts[i] EXCEPT !.open = FALSE] ELSE toasts[i]]

\* DISMISS_TOAST of the ids: a timer for each that has none, and they close.
DISMISS_TOAST(ids) ==
    /\ toastTimeouts' = toastTimeouts \cup ids
    /\ dispatch(Closed(ids))
    /\ UNCHANGED <<count>>

\* One toast, on screen or already displaced, or all of them (no id given).
dismiss ==
    \/ \E id \in 1 .. count : DISMISS_TOAST({id})
    \/ DISMISS_TOAST({toasts[i].id : i \in DOMAIN toasts})

\* The removal timer of a toast fires.
REMOVE_TOAST(id) ==
    /\ id \in toastTimeouts
    /\ toastTimeouts' = toastTimeouts \ {id}
    /\ dispatch(SelectSeq(toasts, LAMBDA t : t.id # id))
    /\ UNCHANGED <<count>>

\* A component that calls useToast is rendered for the first time.
useToast(c) ==
    /\ ~Contains(listeners, c) /\ c \notin waiting
    /\ shown' = [shown EXCEPT ![c] = toasts]
    /\ waiting' = waiting \cup {c}
    /\ UNCHANGED <<count, toasts, toastTimeouts, listeners, changed, missed>>

\* The effect of [state] is cleaned up, and run.
cleanup(c) ==
    /\ Contains(listeners, c) /\ c \in changed
    /\ listeners' = Remove(listeners, c)
    /\ changed' = changed \ {c} /\ waiting' = waiting \cup {c}
    /\ UNCHANGED <<count, toasts, toastTimeouts, shown, missed>>

register(c) ==
    /\ c \in waiting
    /\ listeners' = Append(listeners, c)
    /\ waiting' = waiting \ {c}
    /\ UNCHANGED <<count, toasts, toastTimeouts, shown, changed, missed>>

unmount(c) ==
    /\ Contains(listeners, c)
    /\ listeners' = Remove(listeners, c)
    /\ shown' = [shown EXCEPT ![c] = <<>>]
    /\ changed' = changed \ {c} /\ missed' = missed \ {c}
    /\ UNCHANGED <<count, toasts, toastTimeouts, waiting>>

Timer == \E id \in 1 .. MaxToasts : REMOVE_TOAST(id)

Next == \/ toast \/ dismiss \/ Timer
        \/ \E c \in Components : useToast(c) \/ cleanup(c) \/ register(c) \/ unmount(c)

Spec == Init /\ [][Next]_vars

-----------------------------------------------------------------------------
(* Properties *)

\* Types; never more than TOAST_LIMIT toasts (use-toast.ts:96-100).
TypeOK ==
    /\ count \in 0 .. MaxToasts
    /\ Len(toasts) <= TOAST_LIMIT
    /\ \A i \in DOMAIN toasts : toasts[i] \in [id : 1 .. count, open : BOOLEAN]
    /\ toastTimeouts \subseteq 1 .. count
    /\ IsInjective(listeners) /\ ToSet(listeners) \cap waiting = {}
    /\ changed \subseteq ToSet(listeners)
    /\ missed \subseteq ToSet(listeners) \cup waiting

\* Every mounted component shows the current toasts, whichever components came
\* and went and whenever their effects ran, unless the last dispatch found it
\* rendered and not registered (use-toast.ts:153-158, 191-203).
AllShowLatest ==
    \A c \in (ToSet(listeners) \cup waiting) \ missed : shown[c] = toasts

\* An open toast leaves the screen only when newer toasts displace it: the timer
\* of an earlier toast never takes a later one with it (use-toast.ts:78-91).
OpenIsKept ==
    [][\A i \in DOMAIN toasts :
          toasts[i].open /\ count' = count => \E j \in DOMAIN toasts' : toasts'[j].id = toasts[i].id]_vars

\* A toast that was closed is eventually removed (use-toast.ts:110-134).
ClosedGoes ==
    \A id \in 1 .. MaxToasts :
        (\E i \in DOMAIN toasts : toasts[i].id = id /\ ~toasts[i].open)
            ~> (\A i \in DOMAIN toasts : toasts[i].id # id)
=============================================================================
