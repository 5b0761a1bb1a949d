---------------------------- MODULE FixedWindow ----------------------------
(***************************************************************************)
(* What a rate limiter promises its callers, said without the store, the   *)
(* commands or the faults of internal/ratelimit: a key has a window, a     *)
(* window grants at most Limit calls, and it is replaced by a fresh one    *)
(* only when it has been open for Window ticks, or when the whole store is *)
(* lost, which happens at most MaxLosses times.                            *)
(***************************************************************************)
EXTENDS Naturals

CONSTANTS Keys, Limit, Window, MaxLosses

VARIABLES granted,  \* granted[k]: calls the open window of k has let through
          elapsed,  \* elapsed[k]: ticks the window of k is open, up to Window
          losses    \* how often the store was lost

vars == <<granted, elapsed, losses>>

Init == /\ granted = [k \in Keys |-> 0]
        /\ elapsed = [k \in Keys |-> 0]
        /\ losses = 0

\* An unused window opens (again) at any time.
Open(k) == /\ granted[k] = 0
           /\ elapsed' = [elapsed EXCEPT ![k] = 0]
           /\ UNCHANGED <<granted, losses>>

\* The call that uses an empty window opens it.
Grant(k) == /\ granted[k] < Limit
            /\ granted' = [granted EXCEPT ![k] = @ + 1]
            /\ \/ granted[k] = 0 /\ elapsed' = [elapsed EXCEPT ![k] = 0]
               \/ UNCHANGED elapsed
            /\ UNCHANGED losses

Older(t) == IF t < Window THEN t + 1 ELSE t

\* Time passes: a window grows older, or a full-aged or unused one is closed.
Elapse == /\ granted' \in [Keys -> 0..Limit]
          /\ elapsed' \in [Keys -> 0..Window]
          /\ \A k \in Keys :
               \/ /\ elapsed'[k] = Older(elapsed[k])
                  /\ granted'[k] = granted[k]
               \/ /\ granted[k] = 0 \/ Older(elapsed[k]) = Window
                  /\ elapsed'[k] = 0
                  /\ granted'[k] = 0
          /\ UNCHANGED losses

\* The store forgets every window.
Lose == /\ losses < MaxLosses
        /\ losses' = losses + 1
        /\ granted' = [k \in Keys |-> 0]
        /\ elapsed' = [k \in Keys |-> 0]

Next == \/ \E k \in Keys : Open(k) \/ Grant(k)
        \/ Elapse
        \/ Lose

Spec == Init /\ [][Next]_vars
=============================================================================
