-------------------------- MODULE RateLimiterProofs --------------------------
(***************************************************************************)
(* Theorems about RateLimiter, for every limit, window and set of clients  *)
(* and any number of restarts.                                             *)
(***************************************************************************)
EXTENDS RateLimiter, FiniteSums

\* What a history h counts over the last a + 1 ticks.
Upto(h, a) == Tally(h, 0 .. a)

LEMMA AgesFinite ==
  ASSUME NEW a \in Ages
  PROVE  IsFiniteSet(0 .. a) /\ 0 .. a \subseteq Ages /\ 0 \in 0 .. a
BY FS_Interval, WindowIsPositive DEF Ages

LEMMA LastAge == Window - 1 \in Ages /\ 0 \in Ages /\ IsFiniteSet(Ages)
BY FS_Interval, WindowIsPositive DEF Ages

LEMMA UptoType ==
  ASSUME NEW h \in [Ages -> Nat], NEW a \in Ages
  PROVE  Upto(h, a) \in Nat
<1>1. \A b \in 0 .. a : h[b] \in Nat
  BY AgesFinite
<1>. QED  BY <1>1, AgesFinite, TallyNat DEF Upto

LEMMA TotalIsUpto ==
  ASSUME NEW h
  PROVE  Total(h) = Upto(h, Window - 1)
BY LastAge, SumOfValues DEF Total, Upto, Ages

\* One more event now is one more in every stretch up to now.
LEMMA UptoCounts ==
  ASSUME NEW h \in [Ages -> Nat], NEW a \in Ages
  PROVE  /\ [h EXCEPT ![0] = @ + 1] \in [Ages -> Nat]
         /\ Upto([h EXCEPT ![0] = @ + 1], a) = Upto(h, a) + 1
<1> DEFINE g == [h EXCEPT ![0] = @ + 1]
           S == (0 .. a) \ {0}
<1>1. g \in [Ages -> Nat] /\ g[0] = h[0] + 1 /\ \A b \in S : g[b] = h[b]
  BY LastAge, AgesFinite
<1>2. \A b \in 0 .. a : h[b] \in Int /\ g[b] \in Int
  BY <1>1, AgesFinite
<1>3. IsFiniteSet(0 .. a) /\ IsFiniteSet(S) /\ 0 \in 0 .. a
  BY AgesFinite, FS_Subset
<1> HIDE DEF g, S
<1>4. Tally(g, S) = Tally(h, S)
  BY <1>1, <1>3, TallyCong
<1>5. Tally(h, S) \in Int /\ h[0] \in Int
  BY <1>2, <1>3, TallyInt DEF S
<1>6. Tally(g, 0 .. a) = g[0] + Tally(g, S) /\ Tally(h, 0 .. a) = h[0] + Tally(h, S)
  BY <1>2, <1>3, TallyRemove DEF S
<1>7. Upto(g, a) = Upto(h, a) + 1
  BY <1>1, <1>4, <1>5, <1>6 DEF Upto
<1>. QED  BY <1>1, <1>7 DEF g

\* One tick later, every stretch is what it was up to the tick before.
LEMMA UptoOlder ==
  ASSUME NEW h \in [Ages -> Nat], NEW a \in Ages
  PROVE  /\ Older(h) \in [Ages -> Nat]
         /\ Upto(Older(h), a) = IF a = 0 THEN 0 ELSE Upto(h, a - 1)
<1>1. /\ Older(h) \in [Ages -> Nat] /\ Older(h)[0] = 0
      /\ \A b \in Ages \ {0} : b - 1 \in Ages /\ Older(h)[b] = h[b - 1]
  <2>1. \A b \in Ages \ {0} : b - 1 \in Ages
    BY WindowIsPositive DEF Ages
  <2>. QED  BY <2>1, LastAge DEF Older
<1> DEFINE g == Older(h)
<1> HIDE DEF g
<1>2. g \in [Ages -> Nat] /\ g[0] = 0 /\ \A b \in Ages \ {0} : g[b] = h[b - 1]
  BY <1>1 DEF g
<1>3. Tally(g, 0 .. a) = g[0] + Tally(g, (0 .. a) \ {0})
  <2>1. \A b \in 0 .. a : g[b] \in Int
    BY <1>2, AgesFinite
  <2>. QED  BY <2>1, AgesFinite, TallyRemove
<1>4. CASE a = 0
  <2>1. (0 .. a) \ {0} = {}
    BY <1>4
  <2>. QED  BY <1>1, <1>2, <1>3, <1>4, <2>1, TallyEmpty DEF Upto, g
<1>5. CASE a # 0
  <2> DEFINE S == 0 .. (a - 1)
             m == [b \in S |-> b + 1]
  <2>1. a - 1 \in Ages /\ IsFiniteSet(S) /\ S \subseteq Ages
    BY <1>5, AgesFinite, WindowIsPositive DEF Ages
  <2>2. {m[b] : b \in S} = (0 .. a) \ {0}
    <3>1. \A c \in (0 .. a) \ {0} : c - 1 \in S /\ m[c - 1] = c
      BY DEF Ages
    <3>2. \A b \in S : m[b] \in (0 .. a) \ {0}
      BY DEF Ages
    <3> HIDE DEF m, S
    <3>. QED  BY <3>1, <3>2
  <2>3. \A b \in S : m[b] \in Ages \ {0} /\ m[b] - 1 = b /\ h[b] \in Int
    BY <2>1 DEF Ages
  <2>4. \A b, c \in S : m[b] = m[c] => b = c
    OBVIOUS
  <2>5. \A b \in S : g[m[b]] = h[b]
    BY <1>2, <2>3
  <2>6. Tally(g, {m[b] : b \in S}) = Tally(h, S)
    <3> HIDE DEF m, S
    <3>. QED  BY <2>1, <2>3, <2>4, <2>5, TallyImage
  <2>7. Tally(h, S) \in Int
    <3> HIDE DEF S, m
    <3>. QED  BY <2>1, <2>3, TallyInt
  <2>8. Tally(g, 0 .. a) = Tally(h, 0 .. (a - 1))
    <3>1. Tally(g, 0 .. a) = 0 + Tally(h, S)
      <4> HIDE DEF m, S
      <4>. QED  BY <1>2, <1>3, <2>2, <2>6
    <3>. QED  BY <2>7, <3>1
  <2>. QED  BY <1>1, <1>5, <2>8 DEF Upto, g
<1>. QED  BY <1>4, <1>5

\* No more happened at one age than in the whole stretch.
LEMMA UptoBounds ==
  ASSUME NEW h \in [Ages -> Nat]
  PROVE  h[0] <= Total(h) /\ Total(h) \in Nat
<1>1. \A b \in Ages : h[b] \in Int /\ h[b] \in Nat
  OBVIOUS
<1>2. Tally(h, Ages) = h[0] + Tally(h, Ages \ {0})
  BY <1>1, LastAge, TallyRemove
<1>3. Tally(h, Ages \ {0}) \in Nat
  BY <1>1, LastAge, FS_Subset, TallyNat
<1>4. Total(h) = Tally(h, Ages)
  BY LastAge, SumOfValues DEF Total
<1>. QED  BY <1>2, <1>3, <1>4, LastAge

-----------------------------------------------------------------------------
\* What a step does to the entry of one key.
LEMMA Entry ==
  ASSUME TypeOK, NEW k \in Keys
  PROVE  /\ store[k].count \in 0 .. Limit /\ store[k].left \in 0 .. Forever
         /\ recent[k] \in [Ages -> Nat] /\ restarts \in [Ages -> Nat]
BY MaxRestartsIsNatural DEF TypeOK

LEMMA LetThroughType ==
  ASSUME TypeOK, NEW k \in Keys, LetThrough(k)
  PROVE  /\ recent' \in [Keys -> [Ages -> Nat]]
         /\ recent'[k] = [recent[k] EXCEPT ![0] = @ + 1]
         /\ \A j \in Keys \ {k} : recent'[j] = recent[j]
         /\ reply' \in [Keys -> {"none", "next", "429"}]
         /\ reply'[k] = "next" /\ \A j \in Keys \ {k} : reply'[j] = reply[j]
<1> DEFINE h == [recent[k] EXCEPT ![0] = @ + 1]
<1>1. recent' = [recent EXCEPT ![k] = h]
  BY DEF LetThrough
<1>2. h \in [Ages -> Nat]
  BY Entry, LastAge, UptoCounts
<1> HIDE DEF h
<1>3. recent' \in [Keys -> [Ages -> Nat]] /\ recent'[k] = h
  BY <1>1, <1>2 DEF TypeOK
<1>. QED  BY <1>1, <1>3 DEF LetThrough, TypeOK, h

LEMMA TickType ==
  ASSUME TypeOK, Tick
  PROVE  TypeOK'
<1>1. ASSUME NEW k \in Keys PROVE store'[k] \in [count : 0 .. Limit, left : 0 .. Forever]
  BY WindowIsPositive DEF Tick, TypeOK, Forever
<1>2. \A k \in Keys : Older(recent[k]) \in [Ages -> Nat]
  BY Entry, LastAge, UptoOlder
<1>3. Older(restarts) \in [Ages -> 0 .. MaxRestarts]
  <2>1. ASSUME NEW a \in Ages \ {0} PROVE a - 1 \in Ages
    BY WindowIsPositive DEF Ages
  <2>. QED  BY <2>1, MaxRestartsIsNatural DEF Older, TypeOK
<1>. QED  BY <1>1, <1>2, <1>3 DEF Tick, TypeOK

LEMMA TypeStep ==
  ASSUME TypeOK, [Next]_vars
  PROVE  TypeOK'
<1>1. CASE UNCHANGED vars
  BY <1>1 DEF TypeOK, vars
<1>2. CASE Tick
  BY <1>2, TickType
<1>3. CASE Restart
  <2>1. restarts[0] + 1 \in 0 .. MaxRestarts
    <3>1. restarts \in [Ages -> Nat] /\ restarts[0] \in Nat
      BY LastAge, MaxRestartsIsNatural DEF TypeOK
    <3>. QED  BY <1>3, <3>1, UptoBounds, MaxRestartsIsNatural DEF Restart
  <2>2. NoEntry \in [count : 0 .. Limit, left : 0 .. Forever]
    BY LimitIsPositive, WindowIsPositive DEF NoEntry, Forever
  <2>. QED  BY <1>3, <2>1, <2>2 DEF Restart, TypeOK
<1>4. ASSUME NEW k \in Keys, OpenWindow(k) PROVE TypeOK'
  <2>1. [count |-> 1, left |-> TimeLeft] \in [count : 0 .. Limit, left : 0 .. Forever]
    BY LimitIsPositive, WindowIsPositive DEF TimeLeft, Forever
  <2>2. LetThrough(k)
    BY <1>4 DEF OpenWindow
  <2>. QED  BY <1>4, <2>1, <2>2, LetThroughType DEF OpenWindow, TypeOK, LetThrough
<1>5. ASSUME NEW k \in Keys, Refuse(k) PROVE TypeOK'
  BY <1>5 DEF Refuse, TypeOK
<1>6. ASSUME NEW k \in Keys, CountRequest(k) PROVE TypeOK'
  <2>1. [store[k] EXCEPT !.count = @ + 1] \in [count : 0 .. Limit, left : 0 .. Forever]
    BY <1>6, LimitIsPositive DEF CountRequest, TypeOK
  <2>2. LetThrough(k)
    BY <1>6 DEF CountRequest
  <2>3. store' \in [Keys -> [count : 0 .. Limit, left : 0 .. Forever]]
    BY <1>6, <2>1 DEF CountRequest, TypeOK
  <2>. QED  BY <2>2, <2>3, LetThroughType DEF TypeOK, LetThrough
<1>. QED  BY <1>1, <1>2, <1>3, <1>4, <1>5, <1>6 DEF Next

\* Entries and histories keep their shape: no entry counts past the limit.
THEOREM TypeCorrect == Spec => []TypeOK
<1>1. Init => TypeOK
  BY LimitIsPositive, WindowIsPositive, MaxRestartsIsNatural
     DEF Init, TypeOK, NoEntry, Forever, Ages
<1>2. TypeOK /\ [Next]_vars => TypeOK'
  BY TypeStep
<1>. QED  BY <1>1, <1>2, PTL DEF Spec

-----------------------------------------------------------------------------
(***************************************************************************)
(* What went through up to each age.  The requests of the window that is   *)
(* open are the ones it counts; those before it, the ones of the window    *)
(* before, and of one more for every restart that cut a window short.  An  *)
(* open window was opened Window - left ticks ago.                         *)
(***************************************************************************)
Allowance(n) == (1 + n) * Limit

Asked(k, a)  == Upto(recent[k], a)
Earlier(a)   == Allowance(Upto(restarts, a))

Bounded(k, a) ==
  /\ store[k].left = 0 => Asked(k, a) <= Earlier(a)
  /\ store[k].left # 0 => Asked(k, a) <= store[k].count + Earlier(a)
  /\ store[k].left # 0 /\ a < Window - store[k].left => Asked(k, a) <= store[k].count

BurstInv == \A k \in Keys, a \in Ages : Bounded(k, a)

LEMMA AllowanceGrows ==
  ASSUME NEW n \in Nat
  PROVE  /\ Allowance(n) \in Nat /\ Limit <= Allowance(n)
         /\ Allowance(n + 1) = Allowance(n) + Limit
<1>1. Limit \in Nat /\ n * Limit \in Nat
  BY LimitIsPositive
<1>2. (1 + n) * Limit = Limit + n * Limit /\ (1 + (n + 1)) * Limit = Limit + Limit + n * Limit
  BY <1>1
<1>. QED  BY <1>1, <1>2 DEF Allowance

\* The quantities Bounded relates are numbers.
LEMMA Numbers ==
  ASSUME TypeOK, NEW k \in Keys, NEW a \in Ages
  PROVE  /\ Asked(k, a) \in Nat /\ Upto(restarts, a) \in Nat
         /\ Earlier(a) \in Nat /\ Limit <= Earlier(a)
         /\ store[k].count \in Nat /\ store[k].count <= Limit
         /\ store[k].left \in Nat /\ store[k].left <= Window + 1
         /\ Limit \in Nat /\ Window \in Nat
BY Entry, UptoType, AllowanceGrows, LimitIsPositive, WindowIsPositive
   DEF Asked, Earlier, Forever

\* One request of k more; the other keys are not concerned.
LEMMA BurstLetThrough ==
  ASSUME TypeOK, BurstInv, NEW k \in Keys, LetThrough(k),
         \A j \in Keys \ {k} : store'[j] = store[j],
         \/ /\ store[k].left = 0
            /\ store'[k].count = 1 /\ store'[k].left \in {Window, Forever}
         \/ /\ store[k].left # 0
            /\ store'[k].count = store[k].count + 1 /\ store'[k].left = store[k].left
  PROVE  BurstInv'
<1>1. ASSUME NEW j \in Keys \ {k}, NEW a \in Ages PROVE Bounded(j, a)'
  <2>1. recent'[j] = recent[j] /\ store'[j] = store[j] /\ UNCHANGED restarts
    BY LetThroughType DEF LetThrough
  <2>2. Bounded(j, a)
    BY DEF BurstInv
  <2>. QED  BY <2>1, <2>2 DEF Bounded, Asked, Earlier
<1>2. ASSUME NEW a \in Ages PROVE Bounded(k, a)'
  <2>1. Asked(k, a)' = Asked(k, a) + 1 /\ Earlier(a)' = Earlier(a)
    <3>1. recent'[k] = [recent[k] EXCEPT ![0] = @ + 1] /\ UNCHANGED restarts
      BY LetThroughType DEF LetThrough
    <3>2. Upto([recent[k] EXCEPT ![0] = @ + 1], a) = Upto(recent[k], a) + 1
      BY Entry, UptoCounts
    <3>. QED  BY <3>1, <3>2 DEF Asked, Earlier
  <2>2. Bounded(k, a) /\ a \in Nat
    BY DEF BurstInv, Ages
  <2>3. /\ Asked(k, a) \in Nat /\ Earlier(a) \in Nat /\ store[k].count \in Nat
        /\ store[k].left \in Nat /\ Window \in Nat \ {0} /\ Limit <= Earlier(a)
    BY Numbers, WindowIsPositive
  <2>4. CASE store[k].left = 0
    <3>1. store'[k].count = 1 /\ store'[k].left \in {Window, Window + 1}
      BY <2>4 DEF Forever
    <3>. QED  BY <2>1, <2>2, <2>3, <2>4, <3>1 DEF Bounded
  <2>5. CASE store[k].left # 0
    <3>1. store'[k].count = store[k].count + 1 /\ store'[k].left = store[k].left
      BY <2>5
    <3>. QED  BY <2>1, <2>2, <2>3, <2>5, <3>1 DEF Bounded
  <2>. QED  BY <2>4, <2>5
<1>. QED  BY <1>1, <1>2 DEF BurstInv

LEMMA BurstTick ==
  ASSUME TypeOK, BurstInv, Tick
  PROVE  BurstInv'
<1> SUFFICES ASSUME NEW k \in Keys, NEW a \in Ages PROVE Bounded(k, a)'
  BY DEF BurstInv
<1>1. recent'[k] = Older(recent[k]) /\ restarts' = Older(restarts)
  BY DEF Tick
<1>2. /\ store'[k].count = store[k].count
      /\ store'[k].left = IF store[k].left \in 1 .. Window THEN store[k].left - 1
                         ELSE store[k].left
  BY DEF Tick, TypeOK
<1>3. CASE a = 0
  <2>1. Asked(k, a)' = 0 /\ Upto(restarts', a) = 0
    BY <1>1, <1>3, Entry, UptoOlder DEF Asked
  <2>2. Earlier(a)' \in Nat
    BY <2>1, AllowanceGrows DEF Earlier
  <2>. QED  BY <1>2, <2>1, <2>2, Numbers DEF Bounded
<1>4. CASE a # 0
  <2>1. a - 1 \in Ages /\ a \in Nat /\ a <= Window - 1
    BY <1>4, WindowIsPositive DEF Ages
  <2>2. Asked(k, a)' = Asked(k, a - 1) /\ Earlier(a)' = Earlier(a - 1)
    BY <1>1, <1>4, Entry, UptoOlder DEF Asked, Earlier
  <2>3. Bounded(k, a - 1)
    BY <2>1 DEF BurstInv
  <2>4. /\ Asked(k, a - 1) \in Nat /\ Earlier(a - 1) \in Nat /\ Limit <= Earlier(a - 1)
        /\ store[k].count \in Nat /\ store[k].count <= Limit /\ Limit \in Nat
        /\ store[k].left \in Nat /\ store[k].left <= Window + 1 /\ Window \in Nat
    BY <2>1, Numbers
  <2>5. CASE store[k].left = 1
    <3>1. Asked(k, a - 1) <= store[k].count
      BY <2>1, <2>3, <2>4, <2>5 DEF Bounded
    <3>. QED  BY <1>2, <2>2, <2>4, <2>5, <3>1 DEF Bounded
  <2>6. CASE store[k].left # 1
    BY <1>2, <2>1, <2>2, <2>3, <2>4, <2>6 DEF Bounded
  <2>. QED  BY <2>5, <2>6
<1>. QED  BY <1>3, <1>4

LEMMA BurstRestart ==
  ASSUME TypeOK, BurstInv, Restart
  PROVE  BurstInv'
<1> SUFFICES ASSUME NEW k \in Keys, NEW a \in Ages PROVE Bounded(k, a)'
  BY DEF BurstInv
<1>1. store'[k].left = 0 /\ Asked(k, a)' = Asked(k, a)
  BY DEF Restart, NoEntry, Asked
<1>2. Upto(restarts', a) = Upto(restarts, a) + 1
  BY Entry, UptoCounts DEF Restart
<1>3. Earlier(a)' = Earlier(a) + Limit
  BY <1>2, Numbers, AllowanceGrows DEF Earlier
<1>4. Bounded(k, a)
  BY DEF BurstInv
<1>. QED  BY <1>1, <1>3, <1>4, Numbers DEF Bounded

LEMMA BurstStep ==
  ASSUME TypeOK, BurstInv, [Next]_vars
  PROVE  BurstInv'
<1>1. CASE UNCHANGED <<store, recent, restarts>>
  BY <1>1 DEF BurstInv, Bounded, Asked, Earlier
<1>2. ASSUME NEW k \in Keys, OpenWindow(k) PROVE BurstInv'
  <2>1. store'[k] = [count |-> 1, left |-> TimeLeft] /\ \A j \in Keys \ {k} : store'[j] = store[j]
    BY <1>2 DEF OpenWindow, TypeOK
  <2>2. TimeLeft \in {Window, Forever}
    BY DEF TimeLeft
  <2>. QED  BY <1>2, <2>1, <2>2, BurstLetThrough DEF OpenWindow
<1>3. ASSUME NEW k \in Keys, CountRequest(k) PROVE BurstInv'
  <2>1. /\ store'[k].count = store[k].count + 1 /\ store'[k].left = store[k].left
        /\ \A j \in Keys \ {k} : store'[j] = store[j]
    BY <1>3 DEF CountRequest, TypeOK
  <2>2. store[k].left # 0
    BY <1>3 DEF CountRequest
  <2>. QED  BY <1>3, <2>1, <2>2, BurstLetThrough DEF CountRequest
<1>4. ASSUME NEW k \in Keys, Refuse(k) PROVE BurstInv'
  BY <1>1, <1>4 DEF Refuse
<1>. QED  BY <1>1, <1>2, <1>3, <1>4, BurstTick, BurstRestart DEF Next, vars

LEMMA BurstsKept == Spec => []BurstInv
<1>1. Init => BurstInv
  <2> SUFFICES ASSUME Init, NEW k \in Keys, NEW a \in Ages PROVE Bounded(k, a)
    BY DEF BurstInv
  <2> DEFINE h == [b \in Ages |-> 0]
  <2>1. recent[k] = h /\ restarts = h /\ store[k].left = 0
    BY DEF Init, NoEntry
  <2>2. Upto(h, a) = 0
    <3>1. \A b \in 0 .. a : h[b] = 0
      BY AgesFinite
    <3> HIDE DEF h
    <3>. QED  BY <3>1, AgesFinite, TallyZero DEF Upto
  <2>. QED  BY <2>1, <2>2, AllowanceGrows DEF Bounded, Asked, Earlier
<1>2. TypeOK /\ BurstInv /\ [Next]_vars => BurstInv'
  BY BurstStep
<1>. QED  BY <1>1, <1>2, TypeCorrect, PTL DEF Spec

\* Whatever the clients do and however often the process restarts: in any
\* stretch of one window a key gets at most twice the limit through, and the
\* limit once more for each restart in that stretch.
THEOREM BurstsAreBounded == Spec => []BurstBound
<1>1. TypeOK /\ BurstInv => BurstBound
  <2> SUFFICES ASSUME TypeOK, BurstInv, NEW k \in Keys
               PROVE  Total(recent[k]) <= (2 + Total(restarts)) * Limit
    BY DEF BurstBound
  <2> DEFINE a == Window - 1
             n == Upto(restarts, a)
  <2>1. Total(recent[k]) = Asked(k, a) /\ Total(restarts) = n
    BY TotalIsUpto DEF Asked
  <2>2. a \in Ages /\ Bounded(k, a)
    BY LastAge DEF BurstInv
  <2>3. Earlier(a) = Allowance(n) /\ n \in Nat /\ Asked(k, a) <= Limit + Allowance(n)
    BY <2>2, Numbers DEF Bounded, Earlier
  <2>4. Limit + Allowance(n) = (2 + n) * Limit
    BY <2>3, LimitIsPositive DEF Allowance
  <2>. QED  BY <2>1, <2>3, <2>4
<1>. QED  BY <1>1, TypeCorrect, BurstsKept, PTL

-----------------------------------------------------------------------------
(***************************************************************************)
(* Where the window is a number, the requests an open window counts are    *)
(* not older than the window: they all lie within the stretch.             *)
(***************************************************************************)
Counted(k) ==
  LET opened == Window - store[k].left
  IN  store[k].left # 0 => /\ opened \in Ages
                           /\ store[k].count <= Upto(recent[k], opened)

SpentInv == RefusedOnlyWhenSpent /\ \A k \in Keys : Counted(k)

\* A shorter stretch counts no more than a longer one.
LEMMA UptoMonotone ==
  ASSUME NEW h \in [Ages -> Nat], NEW a \in Ages
  PROVE  Upto(h, a) <= Total(h)
<1>1. Tally(h, 0 .. a) <= Tally(h, Ages)
  BY AgesFinite, LastAge, TallyMonotone
<1>. QED  BY <1>1, LastAge, SumOfValues DEF Total, Upto

LEMMA SpentLetThrough ==
  ASSUME TypeOK, SpentInv, WindowIs = "number", NEW k \in Keys, LetThrough(k),
         \A j \in Keys \ {k} : store'[j] = store[j],
         \/ store'[k].count = 1 /\ store'[k].left = Window
         \/ /\ store[k].left # 0
            /\ store'[k].count = store[k].count + 1 /\ store'[k].left = store[k].left
  PROVE  SpentInv'
<1>1. /\ recent'[k] = [recent[k] EXCEPT ![0] = @ + 1] /\ reply'[k] = "next"
      /\ \A j \in Keys \ {k} : recent'[j] = recent[j] /\ reply'[j] = reply[j]
  BY LetThroughType
<1>2. \A a \in Ages : Upto(recent'[k], a) = Upto(recent[k], a) + 1 /\ Upto(recent[k], a) \in Nat
  <2> SUFFICES ASSUME NEW a \in Ages
               PROVE  Upto(recent'[k], a) = Upto(recent[k], a) + 1 /\ Upto(recent[k], a) \in Nat
    OBVIOUS
  <2>1. Upto([recent[k] EXCEPT ![0] = @ + 1], a) = Upto(recent[k], a) + 1
    BY Entry, UptoCounts
  <2>2. Upto(recent[k], a) \in Nat
    BY Entry, UptoType
  <2>. QED  BY <1>1, <2>1, <2>2
<1>3. RefusedOnlyWhenSpent'
  BY <1>1 DEF SpentInv, RefusedOnlyWhenSpent
<1>4. ASSUME NEW j \in Keys \ {k} PROVE Counted(j)'
  BY <1>1 DEF SpentInv, Counted
<1>5. Counted(k)'
  <2>1. CASE store'[k].count = 1 /\ store'[k].left = Window
    <3>1. Window - store'[k].left = 0 /\ 0 \in Ages
      BY <2>1, LastAge, WindowIsPositive
    <3>. QED  BY <1>2, <2>1, <3>1 DEF Counted
  <2>2. CASE ~(store'[k].count = 1 /\ store'[k].left = Window)
    <3> DEFINE opened == Window - store[k].left
    <3>1. /\ store'[k].count = store[k].count + 1 /\ store'[k].left = store[k].left
          /\ opened \in Ages /\ store[k].count <= Upto(recent[k], opened)
      BY <2>2 DEF SpentInv, Counted
    <3>2. store[k].count \in Nat
      BY Entry, LimitIsPositive
    <3>3. store'[k].count <= Upto(recent'[k], opened)
      <4> HIDE DEF opened
      <4>. QED  BY <1>2, <3>1, <3>2
    <3>. QED  BY <3>1, <3>3 DEF Counted
  <2>. QED  BY <2>1, <2>2
<1>. QED  BY <1>3, <1>4, <1>5 DEF SpentInv

LEMMA SpentStep ==
  ASSUME TypeOK, SpentInv, WindowIs = "number", [Next]_vars
  PROVE  SpentInv'
<1>1. CASE UNCHANGED vars
  BY <1>1 DEF SpentInv, RefusedOnlyWhenSpent, Counted, vars
<1>2. CASE Tick
  <2>1. RefusedOnlyWhenSpent'
    BY <1>2 DEF Tick, RefusedOnlyWhenSpent
  <2>2. ASSUME NEW k \in Keys PROVE Counted(k)'
    <3> DEFINE opened == Window - store[k].left
    <3> SUFFICES ASSUME store'[k].left # 0
                 PROVE  /\ Window - store'[k].left \in Ages
                        /\ store'[k].count <= Upto(recent'[k], Window - store'[k].left)
      BY DEF Counted
    <3>1. store[k].left \in Nat /\ store[k].left <= Window + 1 /\ Window \in Nat
          /\ store[k].count \in Nat
      BY Numbers, LastAge
    <3>2. /\ store'[k].count = store[k].count
          /\ store'[k].left = IF store[k].left \in 1 .. Window THEN store[k].left - 1
                             ELSE store[k].left
      BY <1>2 DEF Tick, TypeOK
    <3>3. store[k].left # 0
      BY <3>1, <3>2
    <3>4. opened \in Ages /\ store[k].count <= Upto(recent[k], opened)
      BY <3>3 DEF SpentInv, Counted
    <3>5. store[k].left \in 2 .. Window /\ Window - store'[k].left = opened + 1
          /\ opened + 1 \in Ages /\ opened + 1 # 0
      BY <3>1, <3>2, <3>3, <3>4 DEF Ages
    <3>6. recent'[k] = Older(recent[k])
      BY <1>2 DEF Tick
    <3> DEFINE b == opened + 1
    <3>7. b - 1 = opened /\ b \in Ages /\ b # 0
      BY <3>1, <3>5
    <3> HIDE DEF opened, b
    <3>8. Upto(Older(recent[k]), b) = Upto(recent[k], opened)
      BY <3>7, Entry, UptoOlder
    <3>. QED  BY <3>2, <3>4, <3>5, <3>6, <3>8 DEF b
  <2>. QED  BY <2>1, <2>2 DEF SpentInv
<1>3. CASE Restart
  BY <1>3 DEF Restart, NoEntry, SpentInv, RefusedOnlyWhenSpent, Counted
<1>4. ASSUME NEW k \in Keys, OpenWindow(k) PROVE SpentInv'
  <2>1. store'[k] = [count |-> 1, left |-> Window] /\ \A j \in Keys \ {k} : store'[j] = store[j]
    BY <1>4 DEF OpenWindow, TypeOK, TimeLeft
  <2>. QED  BY <1>4, <2>1, SpentLetThrough DEF OpenWindow
<1>5. ASSUME NEW k \in Keys, CountRequest(k) PROVE SpentInv'
  <2>1. /\ store'[k].count = store[k].count + 1 /\ store'[k].left = store[k].left
        /\ \A j \in Keys \ {k} : store'[j] = store[j]
    BY <1>5 DEF CountRequest, TypeOK
  <2>2. store[k].left # 0
    BY <1>5 DEF CountRequest
  <2>. QED  BY <1>5, <2>1, <2>2, SpentLetThrough DEF CountRequest
<1>6. ASSUME NEW k \in Keys, Refuse(k) PROVE SpentInv'
  <2>1. Limit <= Total(recent[k])
    <3> DEFINE opened == Window - store[k].left
    <3>1. opened \in Ages /\ store[k].count <= Upto(recent[k], opened)
      BY <1>6 DEF Refuse, SpentInv, Counted
    <3>2. store[k].count \in Nat /\ Limit \in Nat /\ Limit <= store[k].count
      BY <1>6, Entry, LimitIsPositive DEF Refuse
    <3> HIDE DEF opened
    <3>3. Upto(recent[k], opened) <= Total(recent[k]) /\ Upto(recent[k], opened) \in Nat
          /\ Total(recent[k]) \in Nat
      BY <3>1, Entry, UptoMonotone, UptoType, UptoBounds
    <3>. QED  BY <3>1, <3>2, <3>3
  <2>2. Total(recent[k]) \in Nat /\ Limit \in Nat
    BY Entry, UptoBounds, LimitIsPositive
  <2>3. RefusedOnlyWhenSpent'
    BY <1>6, <2>1, <2>2 DEF Refuse, TypeOK, SpentInv, RefusedOnlyWhenSpent
  <2>. QED  BY <1>6, <2>3 DEF Refuse, SpentInv, Counted
<1>. QED  BY <1>1, <1>2, <1>3, <1>4, <1>5, <1>6 DEF Next

\* Where the window is a number, a key is refused only once it did use up the
\* limit within the last window; a window read as text never closes.
THEOREM RefusalsAreDeserved ==
  ASSUME WindowIs = "number"
  PROVE  Spec => []RefusedOnlyWhenSpent
<1>1. Init => SpentInv
  BY DEF Init, SpentInv, RefusedOnlyWhenSpent, Counted, NoEntry
<1>2. TypeOK /\ SpentInv /\ [Next]_vars => SpentInv'
  BY SpentStep
<1>3. SpentInv => RefusedOnlyWhenSpent
  BY DEF SpentInv
<1>. QED  BY <1>1, <1>2, <1>3, TypeCorrect, PTL DEF Spec
=============================================================================
