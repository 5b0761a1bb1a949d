------------------------- MODULE RateLimiterProofs -------------------------
(***************************************************************************)
(* For any number of callers, keys, faults and restarts: RateLimiter keeps *)
(* its types, grants at most Limit calls per counter, implements           *)
(* FixedWindow, bounds what any Window ticks in a row let through, ends    *)
(* every window in time, and lets refused callers in when it said.         *)
(***************************************************************************)
EXTENDS RateLimiter, TLAPS

\* Every grant was counted by INCR.
GrantsCounted == \A k \in Keys : granted[k] <= count[k]

\* No key, no expiry and no age.
AbsentIsFresh ==
  \A k \in Keys : count[k] = 0 => ttl[k] = NoTTL /\ elapsed[k] = 0

\* A counter with an expiry lives for Window ticks, EXPIRE after INCR or not.
WindowCovered == \A k \in Keys : ttl[k] # NoTTL => elapsed[k] + ttl[k] >= Window

\* The inductive invariant.
IInv == /\ TypeOK
        /\ GrantsBounded
        /\ GrantsCounted
        /\ AbsentIsFresh
        /\ WindowCovered

\* Who is to send EXPIRE began no later than the counter, so the context of its
\* call ends soon.
ExpireSoon ==
  \A c \in Callers : caller[c].pc = "expire" /\ count[caller[c].key] > 0
    => elapsed[caller[c].key] + caller[c].left <= Timeout

\* A caller that was told to wait was told by a counter that is there, and for
\* what is left of its window at least.
ToldEnough ==
  \A c \in Callers : caller[c].pc \in Told =>
    /\ count[caller[c].key] > 0
    /\ elapsed[caller[c].key] + caller[c].left >= Window

\* What the two say together with the end of the window.
Punctual == ExpireSoon /\ EndsOnTime /\ ToldEnough

Assumptions == /\ Limit \in Nat \ {0}
               /\ Window \in Nat \ {0}
               /\ Second \in Nat \ {0} /\ Timeout \in Nat
               /\ MaxCount \in Nat /\ MaxFaults \in Nat /\ MaxRestarts \in Nat

LEMMA ConstantTypes == Assumptions
BY LimitAssumption, WindowAssumption, TimeAssumption, BoundAssumption DEF Assumptions

LEMMA InitInv == Init => IInv
BY ConstantTypes
   DEF Assumptions, Init, IInv, TypeOK, GrantsBounded, GrantsCounted,
       AbsentIsFresh, WindowCovered, CallerType, Commands, Told, Idle, NoTTL

\* What callers are, TypeOK's two conjuncts on them.
CallersOK == /\ caller \in [Callers -> CallerType]
             /\ \A c \in Callers : caller[c].pc \in Commands => caller[c].left <= Timeout

\* Moving a caller keeps the types of callers.
LEMMA MoveType ==
  ASSUME TypeOK, NEW c \in Callers, NEW w \in Nat,
         NEW pc \in {"idle"} \union Commands \union Told,
         pc \in Commands => w <= Timeout,
         MoveTo(c, pc, w)
  PROVE  CallersOK'
<1>1. CallersOK
  BY DEF TypeOK, CallersOK
<1>2. [pc |-> pc, key |-> caller[c].key, left |-> w] \in CallerType
  BY <1>1 DEF CallerType, CallersOK
<1>3. caller' \in [Callers -> CallerType]
  BY <1>1, <1>2 DEF MoveTo, CallersOK
<1>4. \A d \in Callers : caller'[d] = IF d = c
        THEN [pc |-> pc, key |-> caller[c].key, left |-> w] ELSE caller[d]
  BY <1>1 DEF MoveTo, CallersOK
<1> QED BY <1>1, <1>3, <1>4 DEF CallersOK

\* So does going on to another command, or leaving Allow.
LEMMA GotoType ==
  ASSUME TypeOK, NEW c \in Callers, caller[c].pc \in Commands,
         NEW pc \in {"idle"} \union Commands, Goto(c, pc)
  PROVE  CallersOK'
<1>1. caller[c].left \in Nat /\ caller[c].left <= Timeout /\ 0 \in Nat /\ 0 <= Timeout
  BY ConstantTypes DEF TypeOK, CallerType, Assumptions
<1>2. CASE pc = "idle"
  BY <1>1, <1>2, MoveType DEF Goto
<1>3. CASE pc # "idle"
  BY <1>1, <1>3, MoveType DEF Goto
<1> QED BY <1>2, <1>3

\* The wait that the handlers tell covers the time that remains.
LEMMA RetryAfterCovers ==
  ASSUME NEW s \in Nat, NEW t \in Nat, Rounded(s, t)
  PROVE  RetryAfter(s) \in Nat /\ RetryAfter(s) >= t
<1> DEFINE r == s * Second
<1>1. r \in Nat /\ Second \in Nat \ {0}
  BY ConstantTypes DEF Assumptions
<1>2. 2 * (r - t) >= 1 - Second /\ RetryAfter(s) = r + Second
  BY <1>1 DEF Rounded, RetryAfter
<1> HIDE DEF r
<1> QED BY <1>1, <1>2

\* What INCR does keeps the types of the counter and of its age.
LEMMA IncrType ==
  ASSUME TypeOK, NEW k \in Keys, ApplyIncr(k)
  PROVE  /\ count' \in [Keys -> 0..MaxCount]
         /\ elapsed' \in [Keys -> 0..Window]
<1>1. count[k] + 1 \in 0..MaxCount /\ 0 \in 0..Window
  BY ConstantTypes DEF Assumptions, TypeOK, ApplyIncr
<1>2. /\ count \in [Keys -> 0..MaxCount]
      /\ elapsed \in [Keys -> 0..Window]
  BY DEF TypeOK
<1>3. count' = [count EXCEPT ![k] = count[k] + 1]
  BY DEF ApplyIncr
<1>4. elapsed' = [elapsed EXCEPT ![k] = 0] \/ elapsed' = elapsed
  BY DEF ApplyIncr
<1>5. count' \in [Keys -> 0..MaxCount]
  BY <1>1, <1>2, <1>3
<1>6. elapsed' \in [Keys -> 0..Window]
  BY <1>1, <1>2, <1>4
<1> QED BY <1>5, <1>6

\* A caller names a key.
LEMMA CallerKey == ASSUME TypeOK, NEW c \in Callers PROVE caller[c].key \in Keys
BY DEF TypeOK, CallerType

\* No step of a caller or of the environment leaves the types.
LEMMA TypeStep == TypeOK /\ [Next]_vars => TypeOK'
<1> SUFFICES ASSUME TypeOK, [Next]_vars PROVE TypeOK'
  OBVIOUS
<1>0. /\ 0 \in 0..Window /\ Window \in 0..Window /\ 0 \in 0..Window-1
      /\ Timeout \in Nat /\ Second \in Nat \ {0} /\ Window + Second \in Nat
  BY ConstantTypes DEF Assumptions
<1>1. ASSUME NEW c \in Callers, NEW k \in Keys, Call(c, k) PROVE TypeOK'
  <2>1. [pc |-> "incr", key |-> k, left |-> Timeout] \in CallerType
    BY <1>0 DEF CallerType, Commands
  <2>2. CallersOK'
    BY <1>0, <1>1, <2>1 DEF Call, TypeOK, CallersOK
  <2> QED BY <1>1, <2>2 DEF Call, TypeOK, CallersOK, store, history
<1>2. ASSUME NEW c \in Callers, Incr(c) PROVE TypeOK'
  <2> DEFINE k == caller[c].key
  <2>1. k \in Keys
    BY CallerKey
  <2>2. CallersOK'
    <3>1. PICK pc \in {"expire", "ttl", "idle"} : Goto(c, pc) /\ caller[c].pc = "incr"
      BY <1>2 DEF Incr, AfterIncr
    <3> QED BY <3>1, GotoType DEF Commands
  <2>3. /\ count' \in [Keys -> 0..MaxCount]
        /\ elapsed' \in [Keys -> 0..Window]
        /\ UNCHANGED ttl
    BY <1>2, <2>1, IncrType DEF Incr, ApplyIncr
  <2>4. granted' \in [Keys -> Nat]
    <3>1. granted' = [granted EXCEPT ![k] = @ + 1] \/ granted' = granted
      BY <1>2 DEF Incr
    <3>2. granted \in [Keys -> Nat] /\ granted[k] + 1 \in Nat
      BY <2>1 DEF TypeOK
    <3> HIDE DEF k
    <3> QED BY <3>1, <3>2
  <2>5. recent' \in [Keys -> [0..Window-1 -> Nat]]
    <3>1. CASE UNCHANGED recent
      BY <3>1 DEF TypeOK
    <3>2. CASE recent' = [recent EXCEPT ![k] = [a \in 0..Window-1 |-> @[a] + 1]]
      <4> HIDE DEF k
      <4>1. [a \in 0..Window-1 |-> recent[k][a] + 1] \in [0..Window-1 -> Nat]
        <5>1. recent[k] \in [0..Window-1 -> Nat]
          BY <2>1 DEF TypeOK
        <5>2. ASSUME NEW a \in 0..Window-1 PROVE recent[k][a] + 1 \in Nat
          <6>1. recent[k][a] \in Nat
            BY <5>1
          <6> QED BY <6>1
        <5> QED BY <5>2
      <4> QED BY <3>2, <4>1, <2>1 DEF TypeOK
    <3> QED BY <1>2, <3>1, <3>2 DEF Incr
  <2> QED BY <1>2, <2>2, <2>3, <2>4, <2>5 DEF Incr, TypeOK, CallersOK
<1>3. ASSUME NEW c \in Callers, IncrFails(c) PROVE TypeOK'
  <2>1. CallersOK'
    BY <1>3, GotoType DEF IncrFails, Commands
  <2> QED BY <1>3, <2>1 DEF IncrFails, TypeOK, CallersOK, store, history
<1>4. ASSUME NEW c \in Callers, IncrAnswerLost(c) PROVE TypeOK'
  <2>1. CallersOK'
    <3>1. CASE UNCHANGED caller
      BY <3>1 DEF TypeOK, CallersOK
    <3>2. CASE Goto(c, "idle")
      BY <1>4, <3>2, GotoType DEF IncrAnswerLost, Commands
    <3> QED BY <1>4, <3>1, <3>2 DEF IncrAnswerLost
  <2>2. /\ count' \in [Keys -> 0..MaxCount]
        /\ elapsed' \in [Keys -> 0..Window]
        /\ UNCHANGED ttl
    BY <1>4, CallerKey, IncrType DEF IncrAnswerLost, ApplyIncr
  <2>3. faults' \in 0..MaxFaults
    BY <1>4, ConstantTypes DEF IncrAnswerLost, TypeOK, Assumptions
  <2> QED BY <1>4, <2>1, <2>2, <2>3 DEF IncrAnswerLost, TypeOK, CallersOK
<1>5. ASSUME NEW c \in Callers, Expire(c) \/ ExpireAnswerLost(c) PROVE TypeOK'
  <2>1. CallersOK'
    <3>1. CASE UNCHANGED caller
      BY <3>1 DEF TypeOK, CallersOK
    <3>2. CASE Goto(c, "idle")
      BY <1>5, <3>2, GotoType DEF Expire, ExpireAnswerLost, Commands
    <3> QED BY <1>5, <3>1, <3>2 DEF Expire, ExpireAnswerLost
  <2>2. ttl' \in [Keys -> {NoTTL} \union 1..Window]
    <3>1. ttl' = [ttl EXCEPT ![caller[c].key] = Window] \/ ttl' = ttl
      BY <1>5 DEF Expire, ExpireAnswerLost, ApplyExpire, Life
    <3>2. ttl \in [Keys -> {NoTTL} \union 1..Window] /\ Window \in 1..Window
      BY ConstantTypes DEF TypeOK, Assumptions
    <3> QED BY <3>1, <3>2
  <2>3. faults' \in 0..MaxFaults
    BY <1>5, ConstantTypes DEF Expire, ExpireAnswerLost, TypeOK, Assumptions
  <2> QED
    BY <1>5, <2>1, <2>2, <2>3
       DEF Expire, ExpireAnswerLost, ApplyExpire, TypeOK, CallersOK, history
<1>6. ASSUME NEW c \in Callers, ExpireFails(c) PROVE TypeOK'
  <2>1. CallersOK'
    BY <1>6, GotoType DEF ExpireFails, Commands
  <2>2. faults' \in 0..MaxFaults
    BY <1>6, ConstantTypes DEF ExpireFails, TypeOK, Assumptions
  <2> QED BY <1>6, <2>1, <2>2 DEF ExpireFails, TypeOK, CallersOK, store, history
<1>7. ASSUME NEW c \in Callers, ReadTTL(c) PROVE TypeOK'
  <2> DEFINE t == ttl[caller[c].key]
  <2>1. t # NoTTL => t \in Nat
    BY CallerKey, ConstantTypes DEF TypeOK, Assumptions
  <2>2. CallersOK'
    <3>1. CASE \E s \in 0..Window :
                 t # NoTTL /\ Rounded(s, t) /\ MoveTo(c, "toldTTL", RetryAfter(s))
      <4>1. PICK s \in 0..Window :
              t # NoTTL /\ Rounded(s, t) /\ MoveTo(c, "toldTTL", RetryAfter(s))
        BY <3>1
      <4>2. RetryAfter(s) \in Nat
        BY <2>1, <4>1, RetryAfterCovers
      <4> QED BY <4>1, <4>2, MoveType DEF Told, Commands
    <3>2. CASE MoveTo(c, "toldWindow", Window + Second)
      BY <1>0, <3>2, MoveType DEF Told, Commands
    <3>3. CASE Goto(c, "idle")
      BY <1>7, <3>3, GotoType DEF ReadTTL, Commands
    <3> QED BY <1>7, <3>1, <3>2, <3>3 DEF ReadTTL
  <2> QED BY <1>7, <2>2 DEF ReadTTL, TypeOK, CallersOK, store, history
<1>8. ASSUME Tick PROVE TypeOK'
  <2>1. CallersOK'
    <3>1. ASSUME NEW c \in Callers
          PROVE  /\ caller'[c] \in CallerType
                 /\ caller'[c].pc \in Commands => caller'[c].left <= Timeout
      <4>1. /\ caller[c] \in CallerType
            /\ caller[c].pc \in Commands => caller[c].left <= Timeout
        BY DEF TypeOK
      <4>2. CASE Freed(c)
        BY <1>8, <4>1, <4>2 DEF Tick, CallerType, Commands, Idle
      <4>3. CASE ~Freed(c)
        <5> DEFINE l == IF caller[c].left > 0 THEN caller[c].left - 1 ELSE 0
        <5>1. caller'[c] = [caller[c] EXCEPT !.left = l]
          BY <1>8, <4>3 DEF Tick
        <5>2. l \in Nat /\ l <= caller[c].left
          BY <4>1 DEF CallerType
        <5> HIDE DEF l
        <5> QED BY <1>0, <4>1, <5>1, <5>2 DEF CallerType
      <4> QED BY <4>2, <4>3
    <3>2. caller' = [c \in Callers |-> caller'[c]]
      BY <1>8 DEF Tick
    <3> QED BY <3>1, <3>2 DEF CallersOK
  <2>2. recent' \in [Keys -> [0..Window-1 -> Nat]]
    <3>1. recent \in [Keys -> [0..Window-1 -> Nat]] /\ Window \in Nat \ {0}
      BY ConstantTypes DEF TypeOK, Assumptions
    <3>2. ASSUME NEW k \in Keys, NEW a \in 0..Window-1
          PROVE  (IF a = 0 THEN 0 ELSE recent[k][a-1]) \in Nat
      <4>1. a # 0 => a - 1 \in 0..Window-1
        BY <3>1
      <4> QED BY <3>1, <4>1
    <3>3. recent' = [k \in Keys |-> [a \in 0..Window-1 |->
                       IF a = 0 THEN 0 ELSE recent[k][a-1]]]
      BY <1>8 DEF Tick
    <3> QED BY <3>2, <3>3
  <2>3. count' \in [Keys -> 0..MaxCount]
    BY <1>8, ConstantTypes DEF Tick, TypeOK, Assumptions
  <2>4. ttl' \in [Keys -> {NoTTL} \union 1..Window]
    BY <1>8, ConstantTypes DEF Tick, Dies, TypeOK, Assumptions, NoTTL
  <2>5. granted' \in [Keys -> Nat] /\ elapsed' \in [Keys -> 0..Window]
    BY <1>8, ConstantTypes DEF Tick, TypeOK, Assumptions
  <2> QED BY <1>8, <2>1, <2>2, <2>3, <2>4, <2>5 DEF Tick, TypeOK, CallersOK
<1>9. ASSUME ValkeyRestart PROVE TypeOK'
  <2>1. CallersOK'
    BY <1>9, <1>0, CallerKey
       DEF ValkeyRestart, Idle, CallerType, Commands, Told, TypeOK, CallersOK
  <2> QED BY <1>9, <2>1, ConstantTypes DEF ValkeyRestart, TypeOK, CallersOK, Assumptions
<1>10. ASSUME ApiCrash PROVE TypeOK'
  <2>1. CallersOK'
    BY <1>10, <1>0, CallerKey
       DEF ApiCrash, Idle, CallerType, Commands, Told, TypeOK, CallersOK
  <2>2. faults' \in 0..MaxFaults
    BY <1>10, ConstantTypes DEF ApiCrash, TypeOK, Assumptions
  <2> QED BY <1>10, <2>1, <2>2 DEF ApiCrash, TypeOK, CallersOK, store, history
<1>11. ASSUME UNCHANGED vars PROVE TypeOK'
  BY <1>11 DEF vars, TypeOK
<1> QED
  BY <1>1, <1>2, <1>3, <1>4, <1>5, <1>6, <1>7, <1>8, <1>9, <1>10, <1>11
     DEF Next, Step

\* The part of the invariant that relates counters, expiries and history.
Counters == GrantsBounded /\ GrantsCounted /\ AbsentIsFresh /\ WindowCovered

\* What TypeOK says of the counters, for the arithmetic below.
CounterTypes == /\ count \in [Keys -> 0..MaxCount]
                /\ ttl \in [Keys -> {NoTTL} \union 1..Window]
                /\ granted \in [Keys -> Nat]
                /\ elapsed \in [Keys -> 0..Window]

\* The steps of the callers alone leave the counters as they are.
LEMMA CountersKept ==
  ASSUME Counters, UNCHANGED <<count, ttl, granted, elapsed>>
  PROVE  Counters'
BY DEF Counters, GrantsBounded, GrantsCounted, AbsentIsFresh, WindowCovered

LEMMA StepInv == IInv /\ [Next]_vars => IInv'
<1> SUFFICES ASSUME IInv, [Next]_vars PROVE Counters'
  BY TypeStep DEF IInv, Counters
<1>0. TypeOK /\ CounterTypes /\ Counters
  BY DEF IInv, TypeOK, CounterTypes, Counters
<1>1. ASSUME NEW c \in Callers, NEW k \in Keys, Call(c, k) PROVE Counters'
  BY <1>0, <1>1, CountersKept DEF Call, store, history
<1>2. ASSUME NEW c \in Callers, Incr(c) PROVE Counters'
  <2> DEFINE k == caller[c].key
  <2>1. k \in Keys
    BY <1>0, CallerKey
  <2>2. /\ count' = [count EXCEPT ![k] = @ + 1]
        /\ elapsed' = IF count[k] = 0 THEN [elapsed EXCEPT ![k] = 0] ELSE elapsed
        /\ ttl' = ttl
    BY <1>2 DEF Incr, ApplyIncr
  <2>3. \/ count[k] + 1 <= Limit /\ granted' = [granted EXCEPT ![k] = @ + 1]
        \/ granted' = granted
    BY <1>2 DEF Incr, Grants
  <2> HIDE DEF k
  <2> QED
    BY <1>0, <2>1, <2>2, <2>3, ConstantTypes
       DEF Assumptions, CounterTypes, Counters, GrantsBounded, GrantsCounted,
           AbsentIsFresh, WindowCovered, NoTTL
<1>3. ASSUME NEW c \in Callers, IncrFails(c) PROVE Counters'
  BY <1>0, <1>3, CountersKept DEF IncrFails, store, history
<1>4. ASSUME NEW c \in Callers, IncrAnswerLost(c) PROVE Counters'
  <2> DEFINE k == caller[c].key
  <2>1. k \in Keys
    BY <1>0, CallerKey
  <2>2. /\ count' = [count EXCEPT ![k] = @ + 1]
        /\ elapsed' = IF count[k] = 0 THEN [elapsed EXCEPT ![k] = 0] ELSE elapsed
        /\ ttl' = ttl /\ granted' = granted
    BY <1>4 DEF IncrAnswerLost, ApplyIncr
  <2> HIDE DEF k
  <2> QED
    BY <1>0, <2>1, <2>2, ConstantTypes
       DEF Assumptions, CounterTypes, Counters, GrantsBounded, GrantsCounted,
           AbsentIsFresh, WindowCovered, NoTTL
<1>5. ASSUME NEW c \in Callers, Expire(c) \/ ExpireAnswerLost(c) PROVE Counters'
  <2> DEFINE k == caller[c].key
  <2>1. k \in Keys
    BY <1>0, CallerKey
  <2>2. /\ ttl' = IF count[k] > 0 THEN [ttl EXCEPT ![k] = Window] ELSE ttl
        /\ UNCHANGED <<count, granted, elapsed>>
    BY <1>5 DEF Expire, ExpireAnswerLost, ApplyExpire, Life, history
  <2> HIDE DEF k
  <2> QED
    BY <1>0, <2>1, <2>2, ConstantTypes
       DEF Assumptions, CounterTypes, Counters, GrantsBounded, GrantsCounted,
           AbsentIsFresh, WindowCovered, NoTTL
<1>6. ASSUME NEW c \in Callers, ExpireFails(c) PROVE Counters'
  BY <1>0, <1>6, CountersKept DEF ExpireFails, store, history
<1>7. ASSUME NEW c \in Callers, ReadTTL(c) PROVE Counters'
  BY <1>0, <1>7, CountersKept DEF ReadTTL, store, history
<1>8. ASSUME Tick PROVE Counters'
  <2>1. /\ count' = [k \in Keys |-> IF Dies(k) THEN 0 ELSE count[k]]
        /\ ttl' = [k \in Keys |-> IF Dies(k) \/ ttl[k] = NoTTL
                                  THEN NoTTL ELSE ttl[k] - 1]
        /\ granted' = [k \in Keys |-> IF Dies(k) THEN 0 ELSE granted[k]]
        /\ elapsed' = [k \in Keys |->
                         IF Dies(k) \/ count[k] = 0 THEN 0
                         ELSE IF elapsed[k] < Window THEN elapsed[k] + 1 ELSE Window]
    BY <1>8 DEF Tick
  <2> QED
    BY <1>0, <2>1, ConstantTypes
       DEF Assumptions, CounterTypes, Counters, GrantsBounded, GrantsCounted,
           AbsentIsFresh, WindowCovered, NoTTL, Dies
<1>9. ASSUME ValkeyRestart PROVE Counters'
  BY <1>0, <1>9, ConstantTypes
     DEF Assumptions, ValkeyRestart, Counters, GrantsBounded, GrantsCounted,
         AbsentIsFresh, WindowCovered, NoTTL
<1>10. ASSUME ApiCrash PROVE Counters'
  BY <1>0, <1>10, CountersKept DEF ApiCrash, store, history
<1>11. ASSUME UNCHANGED vars PROVE Counters'
  BY <1>0, <1>11, CountersKept DEF vars
<1> QED
  BY <1>1, <1>2, <1>3, <1>4, <1>5, <1>6, <1>7, <1>8, <1>9, <1>10, <1>11
     DEF Next, Step

\* The invariant the other theorems rest on.
THEOREM Invariant == Spec => []IInv
BY InitInv, StepInv, PTL DEF Spec

\* The limiter's variables keep their types; a key has an expiry only if
\* somebody set one.
THEOREM TypeCorrect == Spec => []TypeOK
<1>1. IInv => TypeOK
  BY DEF IInv
<1> QED BY <1>1, Invariant, PTL

\* No counter lets more than Limit calls through, for any number of callers,
\* lost commands, crashes and restarts.
THEOREM GrantsSafe == Spec => []GrantsBounded
<1>1. IInv => GrantsBounded
  BY DEF IInv
<1> QED BY <1>1, Invariant, PTL

-----------------------------------------------------------------------------
\* Every step of Allow and of its environment is a step of the fixed window.
LEMMA StepRefines == IInv /\ [Next]_vars => [Promise!Next]_(Promise!vars)
<1> SUFFICES ASSUME IInv, [Next]_vars
             PROVE  Promise!Next \/ UNCHANGED <<granted, elapsed, restarts>>
  BY DEF Promise!vars
<1> USE ConstantTypes
    DEF Assumptions, IInv, TypeOK, CallerType, NoTTL, GrantsBounded,
        GrantsCounted, AbsentIsFresh, WindowCovered
<1>1. ASSUME NEW c \in Callers, Incr(c)
      PROVE  Promise!Next \/ UNCHANGED <<granted, elapsed, restarts>>
  <2> DEFINE k == caller[c].key
  <2>0. k \in Keys
    OBVIOUS
  <2>1. CASE ~Grants(count[k] + 1)
    BY <1>1, <2>0, <2>1 DEF Incr, ApplyIncr, Grants
  <2>2. CASE Grants(count[k] + 1)
    <3>1. granted[k] < Limit
      BY <2>0, <2>2 DEF Grants
    <3>2. granted' = [granted EXCEPT ![k] = @ + 1] /\ UNCHANGED restarts
      BY <1>1, <2>2 DEF Incr
    <3>3. \/ granted[k] = 0 /\ elapsed' = [elapsed EXCEPT ![k] = 0]
          \/ UNCHANGED elapsed
      BY <1>1, <2>0 DEF Incr, ApplyIncr
    <3>4. Promise!Grant(k)
      BY <3>1, <3>2, <3>3 DEF Promise!Grant
    <3> QED BY <2>0, <3>4 DEF Promise!Next
  <2> QED BY <2>1, <2>2
<1>2. ASSUME NEW c \in Callers, IncrAnswerLost(c)
      PROVE  Promise!Next \/ UNCHANGED <<granted, elapsed, restarts>>
  <2> DEFINE k == caller[c].key
  <2>0. k \in Keys
    OBVIOUS
  <2>1. CASE count[k] = 0
    <3>1. Promise!Open(k)
      BY <1>2, <2>0, <2>1 DEF IncrAnswerLost, ApplyIncr, Promise!Open
    <3> QED BY <2>0, <3>1 DEF Promise!Next
  <2>2. CASE count[k] # 0
    BY <1>2, <2>2 DEF IncrAnswerLost, ApplyIncr
  <2> QED BY <2>1, <2>2
<1>3. ASSUME Tick PROVE Promise!Next
  <2>1. granted' \in [Keys -> 0..Limit] /\ elapsed' \in [Keys -> 0..Window]
    BY <1>3 DEF Tick
  <2>2. ASSUME NEW k \in Keys
        PROVE  \/ /\ elapsed'[k] = Promise!Older(elapsed[k])
                  /\ granted'[k] = granted[k]
               \/ /\ granted[k] = 0 \/ Promise!Older(elapsed[k]) = Window
                  /\ elapsed'[k] = 0
                  /\ granted'[k] = 0
    <3>1. CASE Dies(k)
      <4>1. elapsed'[k] = 0 /\ granted'[k] = 0
        BY <1>3, <3>1 DEF Tick
      <4>2. elapsed[k] \in 0..Window /\ elapsed[k] + 1 >= Window
        BY <3>1 DEF Dies
      <4> QED BY <4>1, <4>2 DEF Promise!Older
    <3>2. CASE ~Dies(k) /\ count[k] = 0
      BY <1>3, <3>2 DEF Tick
    <3>3. CASE ~Dies(k) /\ count[k] # 0
      BY <1>3, <3>3 DEF Tick, Promise!Older
    <3> QED BY <3>1, <3>2, <3>3
  <2>3. UNCHANGED restarts
    BY <1>3 DEF Tick
  <2> QED BY <2>1, <2>2, <2>3 DEF Promise!Next, Promise!Elapse
<1>4. ASSUME ValkeyRestart PROVE Promise!Next
  BY <1>4 DEF ValkeyRestart, Promise!Next, Promise!Lose
<1>5. ASSUME \/ ApiCrash
             \/ UNCHANGED vars
             \/ \E c \in Callers :
                  \/ \E k \in Keys : Call(c, k)
                  \/ IncrFails(c) \/ ReadTTL(c)
                  \/ Expire(c) \/ ExpireAnswerLost(c) \/ ExpireFails(c)
      PROVE  UNCHANGED <<granted, elapsed, restarts>>
  BY <1>5 DEF ApiCrash, vars, Call, IncrFails, Expire, ExpireAnswerLost, ExpireFails,
     ReadTTL, history
<1> QED BY <1>1, <1>2, <1>3, <1>4, <1>5 DEF Next, Step

\* Allow implements the fixed-window limiter its comment promises, but for
\* the end of a window, which needs the fault-free runs.
THEOREM Refinement == Spec => FixedWindowSpec
<1>1. Init => Promise!Init
  BY DEF Init, Promise!Init
<1> QED
  BY <1>1, Invariant, StepRefines, PTL DEF Spec, FixedWindowSpec, Promise!Spec

-----------------------------------------------------------------------------
\* While nothing fails: a counter without an expiry has a caller that is
\* about to set it.
Expects(k) == \E c \in Callers : caller[c].pc = "expire" /\ caller[c].key = k
Expected   == faults = 0 =>
                \A k \in Keys : count[k] > 0 /\ ttl[k] = NoTTL => Expects(k)

\* While nothing is lost and Valkey does not restart: EXPIRE is sent once in the
\* life of a counter, so the wait that its TTL told covers what is left of it.
Quiet == faults = 0 /\ restarts = 0
Paced ==
  Quiet =>
    /\ \A c \in Callers : caller[c].pc = "expire" =>
         count[caller[c].key] > 0 /\ ttl[caller[c].key] = NoTTL
    /\ \A c, d \in Callers :
         /\ caller[c].pc = "expire" /\ caller[d].pc = "expire"
         /\ caller[c].key = caller[d].key
         => c = d
    /\ \A c \in Callers : caller[c].pc = "toldTTL" =>
         /\ ttl[caller[c].key] # NoTTL
         /\ ttl[caller[c].key] <= caller[c].left

\* What becomes of one caller, and that the others stay.
LEMMA MoveEffect ==
  ASSUME TypeOK, NEW c \in Callers, NEW pc, NEW l, MoveTo(c, pc, l)
  PROVE  /\ caller'[c].pc = pc /\ caller'[c].left = l /\ caller'[c].key = caller[c].key
         /\ \A d \in Callers \ {c} : caller'[d] = caller[d]
BY DEF TypeOK, MoveTo

\* What becomes of the callers at a tick.
LEMMA TickEffect ==
  ASSUME TypeOK, Tick, NEW c \in Callers
  PROVE  /\ caller'[c].key = caller[c].key
         /\ Freed(c) => caller'[c].pc = "idle"
         /\ ~Freed(c) => /\ caller'[c].pc = caller[c].pc
                         /\ caller'[c].left =
                              IF caller[c].left > 0 THEN caller[c].left - 1 ELSE 0
<1>1. caller[c] \in CallerType
  BY DEF TypeOK
<1>2. CASE Freed(c)
  BY <1>2 DEF Tick, Idle
<1>3. CASE ~Freed(c)
  <2>1. caller'[c] = [caller[c] EXCEPT !.left = IF @ > 0 THEN @ - 1 ELSE 0]
    BY <1>3 DEF Tick
  <2> QED BY <1>1, <1>3, <2>1 DEF CallerType
<1> QED BY <1>2, <1>3

LEMMA ExpectedStep == TypeOK /\ Expected /\ [Next]_vars => Expected'
<1> SUFFICES ASSUME TypeOK, Expected, [Next]_vars, faults' = 0, NEW k \in Keys,
                    count'[k] > 0, ttl'[k] = NoTTL
             PROVE  \E c \in Callers : caller'[c].pc = "expire" /\ caller'[c].key = k
  BY DEF Expected, Expects
<1>0. /\ count \in [Keys -> Nat] /\ ttl \in [Keys -> {NoTTL} \union 1..Window]
      /\ faults \in Nat /\ Window \in Nat \ {0}
      /\ caller \in [Callers -> CallerType]
  BY ConstantTypes DEF Assumptions, TypeOK
<1>1. ASSUME NEW c \in Callers, NEW q \in Keys, Call(c, q)
      PROVE  \E d \in Callers : caller'[d].pc = "expire" /\ caller'[d].key = k
  BY <1>0, <1>1 DEF Call, Commands, store, Expected, Expects
<1>2. ASSUME NEW c \in Callers, Incr(c)
      PROVE  \E d \in Callers : caller'[d].pc = "expire" /\ caller'[d].key = k
  <2>1. /\ caller'[c].pc = AfterIncr(count[caller[c].key] + 1)
        /\ caller'[c].key = caller[c].key /\ caller[c].pc = "incr"
        /\ \A d \in Callers \ {c} : caller'[d] = caller[d]
    BY <1>2, MoveEffect DEF Incr, Goto
  <2>2. count' = [count EXCEPT ![caller[c].key] = @ + 1] /\ ttl' = ttl /\ faults' = faults
    BY <1>2 DEF Incr, ApplyIncr
  <2>3. CASE caller[c].key = k /\ count[k] = 0
    BY <2>1, <2>3 DEF AfterIncr
  <2>4. CASE ~(caller[c].key = k /\ count[k] = 0)
    <3>1. count[k] > 0 /\ ttl[k] = NoTTL
      BY <1>0, <2>2, <2>4
    <3> QED BY <2>1, <2>2, <3>1 DEF Expected, Expects
  <2> QED BY <2>3, <2>4
<1>3. ASSUME NEW c \in Callers, IncrFails(c) \/ ReadTTL(c)
      PROVE  \E d \in Callers : caller'[d].pc = "expire" /\ caller'[d].key = k
  <2>1. caller[c].pc # "expire" /\ UNCHANGED <<count, ttl, faults>>
    BY <1>3 DEF IncrFails, ReadTTL, store
  <2>2. \A d \in Callers \ {c} : caller'[d] = caller[d]
    BY <1>3 DEF IncrFails, ReadTTL, Goto, MoveTo, TypeOK
  <2> QED BY <2>1, <2>2 DEF Expected, Expects
<1>4. ASSUME NEW c \in Callers, Expire(c)
      PROVE  \E d \in Callers : caller'[d].pc = "expire" /\ caller'[d].key = k
  <2>1. /\ UNCHANGED <<count, faults>>
        /\ ttl' = IF count[caller[c].key] > 0
                  THEN [ttl EXCEPT ![caller[c].key] = Window] ELSE ttl
    BY <1>4 DEF Expire, ApplyExpire, Life
  <2>2. \A d \in Callers \ {c} : caller'[d] = caller[d]
    BY <1>4, MoveEffect DEF Expire, Goto
  <2>3. caller[c].key # k
    BY <1>0, <2>1 DEF NoTTL
  <2>4. count[k] > 0 /\ ttl[k] = NoTTL
    BY <1>0, <2>1, <2>3
  <2> QED BY <2>1, <2>2, <2>3, <2>4 DEF Expected, Expects
<1>5. ASSUME \/ ApiCrash
             \/ \E c \in Callers : IncrAnswerLost(c) \/ ExpireAnswerLost(c) \/ ExpireFails(c)
      PROVE  FALSE
  BY <1>0, <1>5 DEF ApiCrash, IncrAnswerLost, ExpireAnswerLost, ExpireFails
<1>6. ASSUME Tick
      PROVE  \E d \in Callers : caller'[d].pc = "expire" /\ caller'[d].key = k
  <2>1. ~Dies(k) /\ count'[k] = count[k] /\ faults' = faults
    BY <1>0, <1>6 DEF Tick
  <2>2. ttl[k] = NoTTL
    BY <1>0, <1>6, <2>1 DEF Tick, Dies, NoTTL
  <2>3. \A d \in Callers : /\ caller'[d].key = caller[d].key
                           /\ caller[d].pc = "expire" => caller'[d].pc = "expire"
    BY <1>6, TickEffect DEF Freed, Told
  <2> QED BY <2>1, <2>2, <2>3 DEF Expected, Expects
<1>7. ASSUME ValkeyRestart PROVE FALSE
  BY <1>7 DEF ValkeyRestart
<1>8. ASSUME UNCHANGED vars
      PROVE  \E d \in Callers : caller'[d].pc = "expire" /\ caller'[d].key = k
  BY <1>8 DEF vars, Expected, Expects
<1> QED BY <1>1, <1>2, <1>3, <1>4, <1>5, <1>6, <1>7, <1>8 DEF Next, Step

LEMMA PacedStep == IInv /\ Paced /\ [Next]_vars => Paced'
<1> SUFFICES ASSUME IInv, TypeOK, Paced, [Next]_vars, Quiet' PROVE Paced'
  BY DEF Paced, IInv
<1>0. /\ count \in [Keys -> Nat] /\ ttl \in [Keys -> {NoTTL} \union 1..Window]
      /\ Window \in Nat \ {0} /\ caller \in [Callers -> CallerType]
      /\ \A c \in Callers : caller[c].key \in Keys /\ caller[c].left \in Nat
  BY ConstantTypes DEF Assumptions, TypeOK, CallerType
<1>f. /\ ~ValkeyRestart /\ ~ApiCrash
      /\ \A c \in Callers : ~IncrAnswerLost(c) /\ ~ExpireAnswerLost(c) /\ ~ExpireFails(c)
  <2>1. restarts \in Nat /\ faults \in Nat
    BY ConstantTypes DEF TypeOK, Assumptions
  <2> QED BY <2>1 DEF Quiet, ValkeyRestart, ApiCrash, IncrAnswerLost, ExpireAnswerLost, ExpireFails
<1>r. Quiet
  BY <1>f DEF Next, Step, Call, Incr, IncrFails, Expire, ReadTTL, Tick, vars, Quiet
<1>1. ASSUME NEW c \in Callers, NEW q \in Keys, Call(c, q) PROVE Paced'
  <2>1. /\ caller'[c].pc = "incr" /\ UNCHANGED <<count, ttl>>
        /\ \A d \in Callers \ {c} : caller'[d] = caller[d]
    BY <1>0, <1>1 DEF Call, store
  <2> QED BY <1>r, <2>1 DEF Paced
<1>2. ASSUME NEW c \in Callers, Incr(c) PROVE Paced'
  <2> DEFINE q == caller[c].key
  <2>1. /\ caller'[c].pc = AfterIncr(count[q] + 1)
        /\ caller'[c].key = q
        /\ \A d \in Callers \ {c} : caller'[d] = caller[d]
    BY <1>2, MoveEffect DEF Incr, Goto
  <2>2. count' = [count EXCEPT ![q] = @ + 1] /\ ttl' = ttl /\ q \in Keys
    BY <1>0, <1>2 DEF Incr, ApplyIncr
  <2>3. \A d \in Callers : caller[d].pc = "expire" => count'[caller[d].key] > 0
    BY <1>0, <1>r, <2>2 DEF Paced
  <2>4. caller'[c].pc # "toldTTL"
    BY <2>1 DEF AfterIncr
  <2>5. CASE caller'[c].pc = "expire"
    <3>1. count[q] = 0
      <4>1. count[q] \in Nat /\ AfterIncr(count[q] + 1) = "expire"
        BY <1>0, <2>1, <2>2, <2>5
      <4> QED BY <4>1 DEF AfterIncr
    <3>2. ttl[q] = NoTTL
      BY <2>2, <3>1 DEF IInv, AbsentIsFresh
    <3>3. count'[q] > 0
      BY <1>0, <2>2, <3>1
    <3> QED BY <1>r, <2>1, <2>2, <2>3, <2>4, <3>1, <3>2, <3>3 DEF Paced
  <2>6. CASE caller'[c].pc # "expire"
    BY <1>r, <2>1, <2>2, <2>3, <2>4, <2>6 DEF Paced
  <2> QED BY <2>5, <2>6
<1>3. ASSUME NEW c \in Callers, IncrFails(c) PROVE Paced'
  <2>1. caller'[c].pc = "idle" /\ \A d \in Callers \ {c} : caller'[d] = caller[d]
    BY <1>3, MoveEffect DEF IncrFails, Goto
  <2>2. UNCHANGED <<count, ttl>>
    BY <1>3 DEF IncrFails, store
  <2> QED BY <1>r, <2>1, <2>2 DEF Paced
<1>5. ASSUME NEW c \in Callers, Expire(c) PROVE Paced'
  <2> DEFINE q == caller[c].key
  <2>1. /\ caller[c].pc = "expire" /\ caller'[c].pc = "idle"
        /\ \A d \in Callers \ {c} : caller'[d] = caller[d]
    BY <1>5, MoveEffect DEF Expire, Goto
  <2>2. count[q] > 0 /\ ttl[q] = NoTTL /\ q \in Keys
    BY <1>0, <1>r, <2>1 DEF Paced
  <2>3. count' = count /\ ttl' = [ttl EXCEPT ![q] = Window]
    BY <1>5, <2>2 DEF Expire, ApplyExpire, Life
  <2>4. ASSUME NEW d \in Callers \ {c}, caller[d].pc = "expire"
        PROVE  caller[d].key # q
    BY <1>r, <2>1, <2>4 DEF Paced
  <2>5. ASSUME NEW d \in Callers, caller[d].pc = "toldTTL"
        PROVE  caller[d].key # q
    BY <1>0, <1>r, <2>2, <2>5 DEF Paced, NoTTL
  <2>6. \A k \in Keys \ {q} : ttl'[k] = ttl[k]
    BY <1>0, <2>3
  <2> HIDE DEF q
  <2> QED BY <1>0, <1>r, <2>1, <2>3, <2>4, <2>5, <2>6 DEF Paced
<1>6. ASSUME NEW c \in Callers, ReadTTL(c) PROVE Paced'
  <2> DEFINE q == caller[c].key
  <2>1. /\ caller'[c].key = q
        /\ \A d \in Callers \ {c} : caller'[d] = caller[d]
        /\ caller'[c].pc \in {"toldTTL", "toldWindow", "idle"}
        /\ caller'[c].pc = "toldTTL" =>
             ttl[q] # NoTTL /\ \E s \in 0..Window :
                                  Rounded(s, ttl[q]) /\ caller'[c].left = RetryAfter(s)
    BY <1>6, MoveEffect DEF ReadTTL, Goto
  <2>2. UNCHANGED <<count, ttl>>
    BY <1>6 DEF ReadTTL, store
  <2>3. caller'[c].pc = "toldTTL" => ttl[q] # NoTTL /\ ttl[q] <= caller'[c].left
    <3> SUFFICES ASSUME caller'[c].pc = "toldTTL" PROVE ttl[q] # NoTTL /\ ttl[q] <= caller'[c].left
      OBVIOUS
    <3>1. ttl[q] \in Nat
      BY <1>0, <2>1
    <3>2. PICK s \in 0..Window : Rounded(s, ttl[q]) /\ caller'[c].left = RetryAfter(s)
      BY <2>1
    <3>3. s \in Nat
      BY <3>2
    <3>4. RetryAfter(s) \in Nat /\ RetryAfter(s) >= ttl[q]
      BY <3>1, <3>2, <3>3, RetryAfterCovers
    <3> QED BY <2>1, <3>1, <3>2, <3>4
  <2> HIDE DEF q
  <2> QED BY <1>r, <2>1, <2>2, <2>3 DEF Paced, q
<1>7. ASSUME Tick PROVE Paced'
  <2>1. \A k \in Keys :
          /\ ttl[k] = NoTTL => count'[k] = count[k] /\ ttl'[k] = NoTTL
          /\ ttl[k] # NoTTL /\ ~Dies(k) => ttl'[k] = ttl[k] - 1 /\ ttl'[k] # NoTTL
    BY <1>0, <1>7 DEF Tick, Dies, NoTTL
  <2>2. ASSUME NEW c \in Callers
        PROVE  /\ caller'[c].key = caller[c].key
               /\ caller'[c].pc = "expire" => caller[c].pc = "expire"
               /\ caller'[c].pc = "toldTTL" =>
                    /\ caller[c].pc = "toldTTL" /\ ~Dies(caller[c].key)
                    /\ caller'[c].left = IF caller[c].left > 0 THEN caller[c].left - 1 ELSE 0
    BY <1>7, TickEffect DEF Freed, Told
  <2>3. ASSUME NEW c \in Callers, caller'[c].pc = "toldTTL"
        PROVE  ttl'[caller[c].key] # NoTTL /\ ttl'[caller[c].key] <= caller'[c].left
    <3>1. ttl[caller[c].key] # NoTTL /\ ttl[caller[c].key] <= caller[c].left
      BY <1>r, <2>2, <2>3 DEF Paced
    <3>2. ttl[caller[c].key] \in 1..Window
      BY <1>0, <3>1
    <3> QED BY <1>0, <2>1, <2>2, <2>3, <3>1, <3>2
  <2> QED BY <1>0, <1>r, <2>1, <2>2, <2>3 DEF Paced
<1>9. ASSUME UNCHANGED vars PROVE Paced'
  BY <1>9, <1>r DEF vars, Paced
<1> QED BY <1>f, <1>1, <1>2, <1>3, <1>5, <1>6, <1>7, <1>9 DEF Next, Step

\* As long as nothing failed, a counter that nobody is opening has an expiry,
\* for any number of callers and however often Valkey restarts.
THEOREM WindowSafe == Spec => []WindowUnlessFault
<1>1. Init => Expected
  BY DEF Init, Expected
<1>2. IInv /\ Expected /\ [Next]_vars => Expected'
  BY ExpectedStep DEF IInv
<1>3. Expected => WindowUnlessFault
  BY DEF Expected, Expects, WindowUnlessFault, CounterHasWindow, Opening
<1> QED BY <1>1, <1>2, <1>3, Invariant, PTL DEF Spec

\* ExpireSoon, EndsOnTime and ToldEnough hold together: EXPIRE reaches a counter
\* only while it is younger than a context, so the window is as long as that more.
LEMMA PunctualStep == IInv /\ Punctual /\ [Next]_vars => Punctual'
<1> SUFFICES ASSUME IInv, TypeOK, Punctual, [Next]_vars PROVE Punctual'
  BY DEF IInv
<1>0. /\ count \in [Keys -> Nat] /\ ttl \in [Keys -> {NoTTL} \union 1..Window]
      /\ elapsed \in [Keys -> 0..Window]
      /\ Window \in Nat \ {0} /\ Timeout \in Nat /\ Second \in Nat \ {0}
      /\ caller \in [Callers -> CallerType]
      /\ \A c \in Callers : /\ caller[c].key \in Keys /\ caller[c].left \in Nat
                            /\ caller[c].pc \in Commands => caller[c].left <= Timeout
  BY ConstantTypes DEF Assumptions, TypeOK, CallerType
<1>i. AbsentIsFresh /\ WindowCovered
  BY DEF IInv
<1>1. ASSUME NEW c \in Callers, NEW q \in Keys, Call(c, q) PROVE Punctual'
  <2>1. /\ caller'[c].pc = "incr" /\ UNCHANGED <<count, ttl, elapsed>>
        /\ \A d \in Callers \ {c} : caller'[d] = caller[d]
    BY <1>0, <1>1 DEF Call, store, history
  <2> QED BY <1>0, <2>1 DEF Punctual, ExpireSoon, EndsOnTime, ToldEnough, Told
<1>2. ASSUME NEW c \in Callers, Incr(c) \/ IncrAnswerLost(c) PROVE Punctual'
  <2> DEFINE q == caller[c].key
  <2>1. /\ q \in Keys /\ ttl' = ttl
        /\ count' = [count EXCEPT ![q] = @ + 1]
        /\ elapsed' = IF count[q] = 0 THEN [elapsed EXCEPT ![q] = 0] ELSE elapsed
    BY <1>0, <1>2 DEF Incr, IncrAnswerLost, ApplyIncr
  <2>2. /\ caller'[c].key = q /\ caller'[c].pc \in {"incr", "expire", "ttl", "idle"}
        /\ caller'[c].pc \in Commands => caller'[c].left = caller[c].left
        /\ caller'[c].pc = "expire" => Incr(c) /\ count[q] = 0
        /\ \A d \in Callers \ {c} : caller'[d] = caller[d]
    <3>1. CASE UNCHANGED caller
      BY <1>2, <3>1 DEF Incr, IncrAnswerLost
    <3>2. CASE Goto(c, "idle")
      BY <3>2, MoveEffect DEF Goto, Commands
    <3>3. CASE Incr(c) /\ Goto(c, AfterIncr(count[q] + 1))
      <4>1. /\ AfterIncr(count[q] + 1) \in {"expire", "ttl", "idle"}
            /\ AfterIncr(count[q] + 1) = "expire" => count[q] = 0
        BY <1>0, <2>1 DEF AfterIncr
      <4> QED BY <3>3, <4>1, MoveEffect DEF Goto, Commands
    <3> QED BY <1>2, <3>1, <3>2, <3>3 DEF Incr, IncrAnswerLost
  <2>3. \A k \in Keys : elapsed'[k] = IF k = q /\ count[k] = 0 THEN 0 ELSE elapsed[k]
    BY <1>0, <2>1
  <2>4. \A k \in Keys : elapsed'[k] = elapsed[k]
    BY <1>i, <2>3 DEF AbsentIsFresh
  <2>5. caller[c].left <= Timeout
    BY <1>0, <1>2 DEF Incr, IncrAnswerLost, Commands
  <2>6. \A k \in Keys : count[k] > 0 => count'[k] > 0
    BY <1>0, <2>1
  <2> HIDE DEF q
  <2>7. ExpireSoon'
    <3> SUFFICES ASSUME NEW d \in Callers, caller'[d].pc = "expire", count'[caller'[d].key] > 0
                 PROVE  elapsed'[caller'[d].key] + caller'[d].left <= Timeout
      BY DEF ExpireSoon
    <3>1. CASE caller'[d].key = q /\ count[q] = 0
      <4>1. elapsed'[q] = 0
        BY <2>1, <2>3, <3>1
      <4>2. caller'[d].left \in Nat /\ caller'[d].left <= Timeout
        BY <1>0, <2>2, <2>5 DEF Commands
      <4> QED BY <1>0, <3>1, <4>1, <4>2
    <3>2. CASE ~(caller'[d].key = q /\ count[q] = 0)
      <4>1. d # c /\ caller'[d] = caller[d]
        BY <2>2, <3>2
      <4>2. count[caller[d].key] > 0
        BY <1>0, <2>1, <3>2, <4>1
      <4> QED BY <1>0, <2>4, <4>1, <4>2 DEF Punctual, ExpireSoon
    <3> QED BY <3>1, <3>2
  <2>8. EndsOnTime'
    BY <2>1, <2>4 DEF Punctual, EndsOnTime
  <2>9. ToldEnough'
    BY <1>0, <2>2, <2>4, <2>6 DEF Punctual, ToldEnough, Told
  <2> QED BY <2>7, <2>8, <2>9 DEF Punctual
<1>3. ASSUME NEW c \in Callers, IncrFails(c) \/ ExpireFails(c) PROVE Punctual'
  <2>1. /\ caller'[c].pc = "idle" /\ UNCHANGED <<count, ttl, elapsed>>
        /\ \A d \in Callers \ {c} : caller'[d] = caller[d]
    BY <1>3, MoveEffect DEF IncrFails, ExpireFails, Goto, store, history
  <2> QED BY <1>0, <2>1 DEF Punctual, ExpireSoon, EndsOnTime, ToldEnough, Told
<1>4. ASSUME NEW c \in Callers, Expire(c) \/ ExpireAnswerLost(c) PROVE Punctual'
  <2> DEFINE q == caller[c].key
  <2>1. /\ caller[c].pc = "expire" /\ UNCHANGED <<count, elapsed>>
        /\ ttl' = IF count[q] > 0 THEN [ttl EXCEPT ![q] = Window] ELSE ttl
        /\ UNCHANGED caller \/ Goto(c, "idle")
    BY <1>4 DEF Expire, ExpireAnswerLost, ApplyExpire, Life, history
  <2>2. /\ caller' = caller \/ caller'[c].pc = "idle"
        /\ \A d \in Callers \ {c} : caller'[d] = caller[d]
    BY <2>1, MoveEffect DEF Goto
  <2>3. count[q] > 0 => elapsed[q] + Window <= Window + Timeout
    BY <1>0, <2>1 DEF Punctual, ExpireSoon
  <2>4. \A k \in Keys : ttl'[k] = IF k = q /\ count[q] > 0 THEN Window ELSE ttl[k]
    BY <1>0, <2>1
  <2> HIDE DEF q
  <2>5. EndsOnTime'
    BY <1>0, <2>1, <2>3, <2>4 DEF Punctual, EndsOnTime
  <2> QED BY <1>0, <2>1, <2>2, <2>5 DEF Punctual, ExpireSoon, ToldEnough, Told
<1>5. ASSUME NEW c \in Callers, ReadTTL(c) PROVE Punctual'
  <2> DEFINE q == caller[c].key
  <2>1. /\ caller'[c].key = q /\ UNCHANGED <<count, ttl, elapsed>>
        /\ \A d \in Callers \ {c} : caller'[d] = caller[d]
        /\ caller'[c].pc \in {"toldTTL", "toldWindow", "idle"}
        /\ caller'[c].pc = "toldTTL" =>
             ttl[q] # NoTTL /\ \E s \in 0..Window :
                                  Rounded(s, ttl[q]) /\ caller'[c].left = RetryAfter(s)
        /\ caller'[c].pc = "toldWindow" =>
             count[q] > 0 /\ caller'[c].left = Window + Second
    BY <1>5, MoveEffect DEF ReadTTL, Goto, store, history
  <2>2. caller'[c].pc \in Told => count[q] > 0 /\ elapsed[q] + caller'[c].left >= Window
    <3>0. q \in Keys
      BY <1>0
    <3>1. CASE caller'[c].pc = "toldWindow"
      BY <1>0, <2>1, <3>0, <3>1
    <3>2. CASE caller'[c].pc = "toldTTL"
      <4>1. ttl[q] \in Nat /\ ttl[q] # NoTTL
        BY <1>0, <2>1, <3>0, <3>2
      <4>2. PICK s \in 0..Window : Rounded(s, ttl[q]) /\ caller'[c].left = RetryAfter(s)
        BY <2>1, <3>2
      <4>3. RetryAfter(s) \in Nat /\ RetryAfter(s) >= ttl[q]
        BY <4>1, <4>2, RetryAfterCovers
      <4>4. elapsed[q] + ttl[q] >= Window /\ count[q] > 0
        BY <1>0, <1>i, <3>0, <4>1 DEF WindowCovered, AbsentIsFresh
      <4> HIDE DEF q
      <4> QED BY <1>0, <3>0, <4>1, <4>2, <4>3, <4>4
    <3> QED BY <2>1, <3>1, <3>2 DEF Told
  <2> HIDE DEF q
  <2> QED BY <1>0, <2>1, <2>2 DEF Punctual, ExpireSoon, EndsOnTime, ToldEnough
<1>6. ASSUME Tick PROVE Punctual'
  <2>1. ASSUME NEW k \in Keys
        PROVE  /\ Dies(k) => count'[k] = 0 /\ ttl'[k] = NoTTL
               /\ ~Dies(k) => /\ count'[k] = count[k]
                              /\ ttl'[k] = IF ttl[k] = NoTTL THEN NoTTL ELSE ttl[k] - 1
               /\ ~Dies(k) /\ count[k] > 0 =>
                    elapsed'[k] = IF elapsed[k] < Window THEN elapsed[k] + 1 ELSE Window
    BY <1>0, <1>6 DEF Tick
  <2>2. \A c \in Callers : caller[c].pc \in Commands => caller[c].left > 0
    BY <1>6 DEF Tick
  <2>3. ExpireSoon'
    <3> SUFFICES ASSUME NEW c \in Callers, caller'[c].pc = "expire", count'[caller'[c].key] > 0
                 PROVE  elapsed'[caller'[c].key] + caller'[c].left <= Timeout
      BY DEF ExpireSoon
    <3>1. caller'[c].key = caller[c].key /\ caller[c].pc = "expire" /\ caller'[c].left = caller[c].left - 1
      BY <1>6, <2>2, TickEffect DEF Commands
    <3>2. ~Dies(caller[c].key) /\ count[caller[c].key] > 0
      BY <1>0, <2>1, <3>1
    <3>3. elapsed[caller[c].key] + caller[c].left <= Timeout
      BY <3>1, <3>2 DEF Punctual, ExpireSoon
    <3>4. caller[c].key \in Keys /\ elapsed[caller[c].key] \in 0..Window /\ caller[c].left \in Nat
      BY <1>0
    <3> QED BY <1>0, <2>1, <3>1, <3>2, <3>3, <3>4
  <2>4. EndsOnTime'
    <3> SUFFICES ASSUME NEW k \in Keys, ttl'[k] # NoTTL
                 PROVE  elapsed'[k] + ttl'[k] <= Window + Timeout
      BY DEF EndsOnTime
    <3>1. ~Dies(k) /\ ttl[k] # NoTTL /\ ttl'[k] = ttl[k] - 1
      BY <2>1
    <3>2. count[k] > 0
      BY <1>0, <1>i, <3>1 DEF AbsentIsFresh
    <3>3. ttl[k] \in 1..Window /\ elapsed[k] \in 0..Window
      BY <1>0, <3>1
    <3>4. elapsed[k] + ttl[k] <= Window + Timeout
      BY <3>1 DEF Punctual, EndsOnTime
    <3> QED BY <1>0, <2>1, <3>1, <3>2, <3>3, <3>4
  <2>5. ToldEnough'
    <3> SUFFICES ASSUME NEW c \in Callers, caller'[c].pc \in Told
                 PROVE  /\ count'[caller'[c].key] > 0
                        /\ elapsed'[caller'[c].key] + caller'[c].left >= Window
      BY DEF ToldEnough
    <3>1. /\ caller'[c].key = caller[c].key /\ caller[c].pc \in Told /\ ~Freed(c)
          /\ caller'[c].left = IF caller[c].left > 0 THEN caller[c].left - 1 ELSE 0
      BY <1>6, TickEffect DEF Told, Freed
    <3>2. /\ count[caller[c].key] > 0
          /\ elapsed[caller[c].key] + caller[c].left >= Window
      BY <3>1 DEF Punctual, ToldEnough
    <3>3. caller[c].key \in Keys /\ elapsed[caller[c].key] \in 0..Window /\ caller[c].left \in Nat
      BY <1>0
    <3>4. ~Dies(caller[c].key)
      BY <3>1 DEF Freed
    <3> QED BY <1>0, <2>1, <3>1, <3>2, <3>3, <3>4
  <2> QED BY <2>3, <2>4, <2>5 DEF Punctual
<1>7. ASSUME ValkeyRestart PROVE Punctual'
  <2>1. /\ \A k \in Keys : count'[k] = 0 /\ ttl'[k] = NoTTL
        /\ \A c \in Callers : caller'[c].pc \notin Told /\ caller'[c].key = caller[c].key
    BY <1>0, <1>7 DEF ValkeyRestart, Idle, Told
  <2> QED BY <1>0, <2>1 DEF Punctual, ExpireSoon, EndsOnTime, ToldEnough
<1>8. ASSUME ApiCrash PROVE Punctual'
  <2>1. /\ UNCHANGED <<count, ttl, elapsed>>
        /\ \A c \in Callers : \/ caller'[c].pc = "idle"
                              \/ caller'[c] = caller[c] /\ caller[c].pc # "expire"
    BY <1>0, <1>8 DEF ApiCrash, Idle, Commands, store, history
  <2> QED BY <1>0, <2>1 DEF Punctual, ExpireSoon, EndsOnTime, ToldEnough, Told
<1>9. ASSUME UNCHANGED vars PROVE Punctual'
  BY <1>9 DEF vars, Punctual, ExpireSoon, EndsOnTime, ToldEnough
<1> QED BY <1>1, <1>2, <1>3, <1>4, <1>5, <1>6, <1>7, <1>8, <1>9 DEF Next, Step

LEMMA PunctualInit == Init => Punctual
<1> SUFFICES ASSUME Init PROVE Punctual
  OBVIOUS
<1>1. \A c \in Callers : caller[c].pc = "idle"
  BY DEF Init, Idle
<1> QED BY <1>1 DEF Init, Punctual, ExpireSoon, EndsOnTime, ToldEnough, Told

\* A counter that has an expiry is gone a window and a context of Allow after it
\* was made, for any callers, whatever is lost or sent again, and however often
\* Valkey restarts: EXPIRE may prolong a running window, but no further.
THEOREM WindowsEnd == Spec => []EndsOnTime
<1>1. Punctual => EndsOnTime
  BY DEF Punctual
<1> QED BY <1>1, PunctualInit, PunctualStep, Invariant, PTL DEF Spec

\* A refused caller that waits as long as it was told finds its counter gone,
\* with the delay of a context at most, and with none if TTL told it and nothing
\* was lost or restarted: for any window, second and context, although TTL rounds.
THEOREM RetryAfterSafe == Spec => []RetryAfterHolds
<1>1. Init => Paced
  BY DEF Init, Paced, Idle
<1>2. IInv /\ Paced /\ Punctual => RetryAfterHolds
  <2> SUFFICES ASSUME IInv, TypeOK, Paced, Punctual, NEW c \in Callers, caller[c].pc \in Told
               PROVE  ttl[caller[c].key] <= caller[c].left + Slip(c)
    BY DEF RetryAfterHolds, IInv
  <2>1. /\ caller[c].key \in Keys /\ caller[c].left \in Nat
        /\ ttl[caller[c].key] \in {NoTTL} \union 1..Window
        /\ elapsed[caller[c].key] \in 0..Window
        /\ Window \in Nat \ {0} /\ Timeout \in Nat
    BY ConstantTypes, CallerKey DEF Assumptions, TypeOK, CallerType
  <2>2. CASE Slip(c) = 0 /\ Quiet /\ caller[c].pc = "toldTTL"
    BY <2>1, <2>2 DEF Paced
  <2>3. CASE Slip(c) = Timeout
    <3>1. elapsed[caller[c].key] + caller[c].left >= Window
      BY DEF Punctual, ToldEnough
    <3>2. ttl[caller[c].key] # NoTTL =>
            elapsed[caller[c].key] + ttl[caller[c].key] <= Window + Timeout
      BY <2>1 DEF Punctual, EndsOnTime
    <3> QED BY <2>1, <2>3, <3>1, <3>2 DEF NoTTL
  <2> QED BY <2>2, <2>3 DEF Slip, Quiet
<1> QED BY <1>1, <1>2, PunctualInit, PunctualStep, Invariant, PacedStep, PTL DEF Spec

-----------------------------------------------------------------------------
\* What the counters of k before the present one may add to the last a ticks:
\* another one at most, and one for each time the store was emptied.
Earlier(k, a) == (IF a < elapsed[k] THEN 0 ELSE Limit) + restarts * Limit

\* The grants of the last a ticks are the present counter's, and the ones of
\* an earlier counter only if that lies so little back.
BurstCovered ==
  \A k \in Keys, a \in 0..Window-1 : recent[k][a] <= granted[k] + Earlier(k, a)

\* One restart more is Limit grants more.
LEMMA OneRestartMore ==
  ASSUME NEW n \in Nat PROVE (n + 1) * Limit = n * Limit + Limit /\ n * Limit \in Nat
BY ConstantTypes DEF Assumptions

\* It is a number.
LEMMA EarlierType ==
  ASSUME TypeOK, NEW k \in Keys, NEW a \in 0..Window-1
  PROVE  Earlier(k, a) \in Nat /\ restarts * Limit \in Nat
<1>1. restarts * Limit \in Nat
  BY OneRestartMore DEF TypeOK
<1> DEFINE lost == restarts * Limit
    old == IF a < elapsed[k] THEN 0 ELSE Limit
<1>2. old \in Nat
  BY ConstantTypes DEF Assumptions
<1> HIDE DEF lost, old
<1>3. Earlier(k, a) = old + lost
  BY DEF Earlier, lost, old
<1> QED BY <1>1, <1>2, <1>3 DEF lost

LEMMA BurstStep == IInv /\ BurstCovered /\ [Next]_vars => BurstCovered'
<1> SUFFICES ASSUME IInv, TypeOK, BurstCovered, [Next]_vars PROVE BurstCovered'
  BY DEF IInv
<1>0. /\ Limit \in Nat \ {0} /\ Window \in Nat \ {0} /\ restarts \in Nat
      /\ CounterTypes
      /\ recent \in [Keys -> [0..Window-1 -> Nat]]
  BY ConstantTypes DEF Assumptions, TypeOK, CounterTypes
<1>1. restarts * Limit \in Nat
  BY <1>0, OneRestartMore
<1>2. ASSUME NEW c \in Callers, Incr(c) PROVE BurstCovered'
  <2> DEFINE q == caller[c].key
  <2>1. q \in Keys
    BY CallerKey
  <2>2. \A k \in Keys : elapsed'[k] = elapsed[k]
    BY <1>0, <1>2 DEF Incr, ApplyIncr, IInv, AbsentIsFresh, CounterTypes
  <2>3. UNCHANGED restarts
    BY <1>2 DEF Incr
  <2>4. CASE UNCHANGED <<granted, recent>>
    BY <2>2, <2>3, <2>4 DEF BurstCovered, Earlier
  <2>5. CASE /\ granted' = [granted EXCEPT ![q] = @ + 1]
             /\ recent' = [recent EXCEPT ![q] = [a \in 0..Window-1 |-> @[a] + 1]]
    <3> SUFFICES ASSUME NEW k \in Keys, NEW a \in 0..Window-1
                 PROVE  recent'[k][a] <= granted'[k] + Earlier(k, a)'
      BY DEF BurstCovered
    <3> HIDE DEF q
    <3>1. Earlier(k, a)' = Earlier(k, a) /\ Earlier(k, a) \in Nat
      <4>1. Earlier(k, a)' = Earlier(k, a)
        BY <2>2, <2>3 DEF Earlier
      <4> QED BY <4>1, EarlierType
    <3>2. recent[k][a] <= granted[k] + Earlier(k, a)
      BY DEF BurstCovered
    <3>3. recent[k][a] \in Nat /\ granted[k] \in Nat
      BY <1>0 DEF CounterTypes
    <3>4. CASE k = q
      <4>1. recent'[k][a] = recent[k][a] + 1 /\ granted'[k] = granted[k] + 1
        BY <1>0, <2>5, <3>4 DEF CounterTypes
      <4> QED BY <3>1, <3>2, <3>3, <4>1
    <3>5. CASE k # q
      <4>1. recent'[k] = recent[k] /\ granted'[k] = granted[k]
        BY <1>0, <2>5, <3>5 DEF CounterTypes
      <4> QED BY <3>1, <3>2, <4>1
    <3> QED BY <3>4, <3>5
  <2> QED BY <1>2, <2>4, <2>5 DEF Incr
<1>3. ASSUME NEW c \in Callers, IncrAnswerLost(c) PROVE BurstCovered'
  <2>1. \A k \in Keys : elapsed'[k] = elapsed[k]
    BY <1>0, <1>3, CallerKey DEF IncrAnswerLost, ApplyIncr, IInv, AbsentIsFresh, CounterTypes
  <2> QED BY <1>3, <2>1 DEF IncrAnswerLost, BurstCovered, Earlier
<1>4. ASSUME Tick PROVE BurstCovered'
  <2> SUFFICES ASSUME NEW k \in Keys, NEW a \in 0..Window-1
               PROVE  recent'[k][a] <= granted'[k] + Earlier(k, a)'
    BY DEF BurstCovered
  <2> DEFINE lost == restarts * Limit
  <2>0. lost \in Nat /\ lost' = lost
    BY <1>1, <1>4 DEF Tick
  <2>1. /\ Earlier(k, a)' = (IF a < elapsed'[k] THEN 0 ELSE Limit) + lost
        /\ \A b \in 0..Window-1 :
             Earlier(k, b) = (IF b < elapsed[k] THEN 0 ELSE Limit) + lost
    BY <2>0 DEF Earlier
  <2> HIDE DEF lost
  <2>2. granted[k] \in 0..Limit /\ elapsed[k] \in 0..Window
    BY <1>0 DEF CounterTypes, IInv, GrantsBounded
  <2>3. /\ granted'[k] = IF Dies(k) THEN 0 ELSE granted[k]
        /\ elapsed'[k] = IF Dies(k) \/ count[k] = 0 THEN 0
                         ELSE IF elapsed[k] < Window THEN elapsed[k] + 1 ELSE Window
        /\ recent'[k][a] = IF a = 0 THEN 0 ELSE recent[k][a-1]
    BY <1>4 DEF Tick
  <2>4. CASE a = 0
    BY <1>0, <2>0, <2>1, <2>2, <2>3, <2>4
  <2>5. CASE a # 0
    <3>1. a - 1 \in 0..Window-1
      BY <1>0, <2>5
    <3>2. /\ recent[k][a-1] \in Nat
          /\ recent[k][a-1] <= granted[k] + Earlier(k, a-1)
      BY <1>0, <3>1 DEF BurstCovered
    <3>3. Dies(k) => a - 1 < elapsed[k]
      <4> SUFFICES ASSUME Dies(k) PROVE a - 1 < elapsed[k]
        OBVIOUS
      <4>1. elapsed[k] + 1 >= Window
        BY DEF IInv, WindowCovered, Dies, NoTTL
      <4> QED BY <1>0, <2>2, <4>1
    <3>4. ~Dies(k) /\ count[k] = 0 => elapsed[k] = 0
      BY DEF IInv, AbsentIsFresh
    <3>5. Earlier(k, a-1) = (IF a - 1 < elapsed[k] THEN 0 ELSE Limit) + lost
      BY <2>1, <3>1
    <3>6. recent'[k][a] = recent[k][a-1]
      BY <2>3, <2>5
    <3>7. CASE Dies(k) \/ count[k] = 0
      <4>1. elapsed'[k] = 0 /\ granted'[k] + Earlier(k, a)' = granted'[k] + (Limit + lost)
        BY <1>0, <2>1, <2>3, <3>7
      <4>2. granted[k] + Earlier(k, a-1) <= granted'[k] + (Limit + lost)
        BY <1>0, <2>0, <2>2, <2>3, <3>3, <3>4, <3>5, <3>7
      <4>3. Earlier(k, a-1) \in Nat /\ granted'[k] \in Nat
        BY <1>0, <2>0, <2>2, <2>3, <3>5
      <4> QED BY <1>0, <2>0, <2>2, <3>2, <3>6, <4>1, <4>2, <4>3
    <3>8. CASE ~(Dies(k) \/ count[k] = 0)
      <4>1. a < elapsed'[k] <=> a - 1 < elapsed[k]
        BY <1>0, <2>2, <2>3, <3>8
      <4>2. granted'[k] = granted[k] /\ Earlier(k, a)' = Earlier(k, a-1)
        BY <2>1, <2>3, <3>5, <3>8, <4>1
      <4> QED BY <3>2, <3>6, <4>2
    <3> QED BY <3>7, <3>8
  <2> QED BY <2>4, <2>5
<1>5. ASSUME ValkeyRestart PROVE BurstCovered'
  <2> SUFFICES ASSUME NEW k \in Keys, NEW a \in 0..Window-1
               PROVE  recent'[k][a] <= granted'[k] + Earlier(k, a)'
    BY DEF BurstCovered
  <2> DEFINE lost == restarts * Limit
  <2>1. /\ recent[k][a] <= granted[k] + Earlier(k, a)
        /\ Earlier(k, a) = (IF a < elapsed[k] THEN 0 ELSE Limit) + lost
    BY DEF BurstCovered, Earlier
  <2>2. /\ granted[k] \in 0..Limit /\ elapsed[k] \in 0..Window
        /\ recent[k][a] \in Nat
    BY <1>0 DEF CounterTypes, IInv, GrantsBounded
  <2>3. granted'[k] = 0 /\ elapsed'[k] = 0 /\ restarts' = restarts + 1 /\ recent' = recent
    BY <1>5 DEF ValkeyRestart
  <2>4. lost' = lost + Limit
    BY <1>0, <2>3, OneRestartMore
  <2>5. Earlier(k, a)' = (IF a < elapsed'[k] THEN 0 ELSE Limit) + lost'
    BY DEF Earlier
  <2>6. lost \in Nat
    BY <1>1
  <2> HIDE DEF lost
  <2>7. Earlier(k, a)' = Limit + (lost + Limit)
    BY <2>3, <2>4, <2>5
  <2>8. Earlier(k, a) <= Limit + lost
    BY <1>0, <2>1, <2>6
  <2>9. Earlier(k, a) \in Nat
    BY <1>0, <2>1, <2>6
  <2> QED BY <1>0, <2>1, <2>2, <2>3, <2>6, <2>7, <2>8, <2>9
<1>6. ASSUME UNCHANGED <<granted, elapsed, recent, restarts>> PROVE BurstCovered'
  BY <1>6 DEF BurstCovered, Earlier
<1> QED
  BY <1>2, <1>3, <1>4, <1>5, <1>6
     DEF Next, Step, Call, IncrFails, Expire, ExpireAnswerLost, ExpireFails, ReadTTL,
         ApiCrash, vars, history

\* However the windows lie, no Window ticks in a row see more than two
\* windows' worth of grants and one for each time the store was emptied, for
\* any limit, window, callers, keys, faults and restarts.
THEOREM BurstSafe == Spec => []BurstBounded
<1>1. Init => BurstCovered
  <2>1. Init => restarts * Limit \in Nat
    BY ConstantTypes, OneRestartMore DEF Assumptions, Init
  <2> QED BY <2>1, ConstantTypes DEF Assumptions, Init, BurstCovered, Earlier
<1>2. IInv /\ BurstCovered => BurstBounded
  <2> SUFFICES ASSUME IInv, BurstCovered, NEW k \in Keys
               PROVE  recent[k][Window-1] <= (2 + restarts) * Limit
    BY DEF BurstBounded
  <2>1. /\ Limit \in Nat /\ Window - 1 \in 0..Window-1 /\ restarts \in Nat
        /\ granted[k] \in 0..Limit /\ recent[k][Window-1] \in Nat
    BY ConstantTypes DEF Assumptions, IInv, TypeOK, GrantsBounded
  <2>2. restarts * Limit \in Nat /\ (2 + restarts) * Limit = Limit + Limit + restarts * Limit
    BY <2>1, OneRestartMore
  <2>3. recent[k][Window-1] <= granted[k] + Earlier(k, Window-1)
    BY <2>1 DEF BurstCovered
  <2> QED BY <2>1, <2>2, <2>3 DEF Earlier
<1> QED BY <1>1, <1>2, Invariant, BurstStep, PTL DEF Spec
=============================================================================
