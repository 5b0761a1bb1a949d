----------------------------- MODULE OwnedBins -----------------------------
(***************************************************************************)
(* What the store promises about bins, said without workers, statements or *)
(* read values: a bin is added for a user who has not used up the limit    *)
(* and what concurrent calls may add to it, under an id that no bin had    *)
(* before, and with a life that is fixed then; while it lives it goes only *)
(* because its owner asked for that; and the cache, which may forget       *)
(* anything at any time, remembers no bin much longer than it lives.       *)
(***************************************************************************)
EXTENDS Integers, FiniteSets

CONSTANTS Users, Ids,
          Nobody,   \* owner of an id without a bin
          MaxBins,  \* the limit
          Spare,    \* what concurrent calls may add to it
          BinTTL,   \* life of a bin, in ticks
          Timeout   \* how long a call takes at most, in ticks

VARIABLES owner,    \* owner[b]: the owner of bin b, or Nobody
          exp,      \* exp[b]: the end of its life
          created,  \* ids that were ever used
          cache,    \* cache[b]: the tick until which b is remembered, or 0
          now,
          asked     \* who has asked for the removal of which bin

bins == <<owner, exp, created>>
vars == <<owner, exp, created, cache, now, asked>>

Init == /\ owner = [b \in Ids |-> Nobody]
        /\ exp = [b \in Ids |-> 0]
        /\ created = {}
        /\ cache = [b \in Ids |-> 0]
        /\ now = 0
        /\ asked = {}

BinsOf(u)  == {b \in Ids : owner[b] = u}
Expired(b) == now > exp[b]

\* Bin b of user u is added; its life began when the call computed its end.
Add(u, b) ==
  /\ b \notin created
  /\ created' = created \union {b}
  /\ owner' = [owner EXCEPT ![b] = u]
  /\ Cardinality(BinsOf(u)') <= MaxBins + Spare
  /\ \E e \in now + BinTTL - Timeout .. now + BinTTL : exp' = [exp EXCEPT ![b] = e]
  /\ UNCHANGED <<cache, now, asked>>

\* The owner asks for the removal of a bin that lives, which happens, perhaps
\* more than once, or not.
Ask(u, b) == /\ owner[b] = u /\ ~Expired(b)
             /\ asked' = asked \union {<<u, b>>}
             /\ UNCHANGED <<bins, cache, now>>

Withdraw(u, b) == /\ <<u, b>> \in asked
                  /\ owner' = [owner EXCEPT ![b] = Nobody]
                  /\ asked' \in {asked, asked \ {<<u, b>>}}
                  /\ UNCHANGED <<exp, created, cache, now>>

GiveUp(u, b) == /\ asked' = asked \ {<<u, b>>}
                /\ UNCHANGED <<bins, cache, now>>

\* Bins that have expired are removed.
Sweep == /\ owner' \in [Ids -> Users \union {Nobody}]
         /\ \A b \in Ids : owner'[b] # owner[b] => owner'[b] = Nobody /\ Expired(b)
         /\ UNCHANGED <<exp, created, cache, now, asked>>

\* A bin, or one that is gone meanwhile, is remembered.
Remember(b) == /\ b \in created
               /\ \E e \in now + 1 .. exp[b] + Timeout : cache' = [cache EXCEPT ![b] = e]
               /\ UNCHANGED <<bins, now, asked>>

Forget == /\ cache' \in [Ids -> Nat]
          /\ \A b \in Ids : cache'[b] \in {0, cache[b]}
          /\ UNCHANGED <<bins, now, asked>>

Advance == /\ now' = now + 1
           /\ cache' = [b \in Ids |-> IF cache[b] > now' THEN cache[b] ELSE 0]
           /\ UNCHANGED <<bins, asked>>

Next == \/ Sweep
        \/ Forget
        \/ \E u \in Users, b \in Ids :
             Add(u, b) \/ Ask(u, b) \/ Withdraw(u, b) \/ GiveUp(u, b)
        \/ \E b \in Ids : Remember(b)
        \/ Advance

Spec == Init /\ [][Next]_vars
=============================================================================
