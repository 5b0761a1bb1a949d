----------------------------- MODULE CappedBin -----------------------------
(***************************************************************************)
(* What a webhook bin promises about its hits, said without transactions,  *)
(* locks or counts: a request that is stored is there at once; it pushes   *)
(* out only hits that MaxHits newer ones have been stored beside; the bin  *)
(* never exceeds its cap by more than Slack; clearing it removes exactly   *)
(* the hits that were there when the clearing began; and a bin that is     *)
(* deleted takes its hits along and accepts no other.                      *)
(***************************************************************************)
EXTENDS Integers, FiniteSets

CONSTANTS Hits,     \* the hits that may be stored
          Clearers, \* those who clear the bin
          MaxHits,  \* the cap
          Slack     \* what concurrent requests may add to it

VARIABLES bin,      \* is the bin there?
          hits,     \* the hits in it
          ever,     \* the hits ever stored
          at,       \* at[h]: when h was received, fixed once it is stored
          doomed    \* doomed[c]: hits that c found when it began, and still there

vars == <<bin, hits, ever, at, doomed>>

Init == /\ bin = TRUE
        /\ hits = {}
        /\ ever = {}
        /\ at = [h \in Hits |-> 0]
        /\ doomed = [c \in Clearers |-> {}]

\* A request is received, and stamped with the time.
Receive == /\ \A h \in ever : at'[h] = at[h]
           /\ UNCHANGED <<bin, hits, ever, doomed>>

\* Of the hits S, MaxHits others are at least as new as h.
Outdated(h, S) == Cardinality({x \in S \ {h} : at[x] >= at[h]}) >= MaxHits

\* Hit h is stored, and makes outdated hits go.
Store(h) ==
  /\ bin
  /\ h \notin ever
  /\ ever' = ever \union {h}
  /\ hits' \subseteq hits \union {h}
  /\ \A x \in (hits \union {h}) \ hits' : Outdated(x, ever')
  /\ Cardinality(hits') <= MaxHits + Slack
  /\ doomed' = [c \in Clearers |-> doomed[c] \intersect hits']
  /\ UNCHANGED <<bin, at>>

\* c begins to clear the bin, and gives up, or has done so.
BeginClear(c) == /\ doomed' = [doomed EXCEPT ![c] = hits]
                 /\ UNCHANGED <<bin, hits, ever, at>>

GiveUp(c) == /\ doomed' = [doomed EXCEPT ![c] = {}]
             /\ UNCHANGED <<bin, hits, ever, at>>

Clear(c) == /\ hits' = hits \ doomed[c]
            /\ doomed' = [d \in Clearers |-> doomed[d] \intersect hits']
            /\ UNCHANGED <<bin, ever, at>>

\* The bin is deleted.
Drop == /\ bin' = FALSE
        /\ hits' = {}
        /\ doomed' = [c \in Clearers |-> {}]
        /\ UNCHANGED <<ever, at>>

Next == \/ Receive
        \/ \E h \in Hits : Store(h)
        \/ \E c \in Clearers : BeginClear(c) \/ GiveUp(c) \/ Clear(c)
        \/ Drop

Spec == Init /\ [][Next]_vars
=============================================================================
