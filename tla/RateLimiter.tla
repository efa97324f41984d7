----------------------------- MODULE RateLimiter -----------------------------
(***************************************************************************)
(* The fixed-window limiter main.ts puts in front of the auth routes: one  *)
(* in-memory entry per client and path.  Time is relative: an entry keeps  *)
(* how far its resetAt lies ahead of Date.now(), so runs need no clock     *)
(* bound; the unit is a fraction of the window.                            *)
(***************************************************************************)
EXTENDS Integers, FiniteSetsExt

CONSTANTS
  Keys,      \* client address and path
  Limit,     \* options.max
  Window,    \* options.windowMs, in ticks
  WindowIs,  \* "number" (the default of main.ts) or "string" (from the environment)
  MaxRestarts \* bound of the model: restarts in any stretch of one window

ASSUME LimitIsPositive == Limit \in Nat \ {0}
ASSUME WindowIsPositive == Window \in Nat \ {0}
ASSUME WindowIsKnown == WindowIs \in {"number", "string"}
ASSUME MaxRestartsIsNatural == MaxRestarts \in Nat

VARIABLES
  store,    \* store.get(key): requests counted, time left until resetAt
  recent,   \* history: recent[k][a] requests of k were let through a ticks ago
  reply,    \* history: the last answer to k
  restarts  \* history: restarts[a] of the process happened a ticks ago

vars == <<store, recent, reply, restarts>>

Ages == 0 .. Window - 1
NoEntry == [count |-> 0, left |-> 0]

\* Histories by age: one tick later, and the sum over one window.
Older(h) == [a \in Ages |-> IF a = 0 THEN 0 ELSE h[a - 1]]
Total(h) == MapThenSumSet(LAMBDA a : h[a], Ages)

Init ==
  /\ store = [k \in Keys |-> NoEntry]
  /\ recent = [k \in Keys |-> [a \in Ages |-> 0]]
  /\ reply = [k \in Keys |-> "none"]
  /\ restarts = [a \in Ages |-> 0]

\* resetAt - now right after resetAt = now + windowMs.  validateEnv returns
\* the environment's text, and text makes + append its digits to the clock's:
\* the result lies ahead of every later Date.now().
Forever == Window + 1
TimeLeft == IF WindowIs = "number" THEN Window ELSE Forever

LetThrough(k) ==
  /\ recent' = [recent EXCEPT ![k][0] = @ + 1]
  /\ reply' = [reply EXCEPT ![k] = "next"]
  /\ UNCHANGED restarts

\* Mutant: off by one.
CountOneMore(k) ==
  /\ store[k].left > 0 /\ store[k].count <= Limit
  /\ store' = [store EXCEPT ![k].count = @ + 1]
  /\ LetThrough(k)

\* Mutant: the window slides with every request.
SlidingReset(k) ==
  /\ store[k].left > 0 /\ store[k].count < Limit
  /\ store' = [store EXCEPT ![k].count = @ + 1, ![k].left = TimeLeft]
  /\ LetThrough(k)

\* Mutant: the window opens with no request counted.
OpenEmptyWindow(k) ==
  /\ store[k].left = 0
  /\ store' = [store EXCEPT ![k] = [count |-> 0, left |-> TimeLeft]]
  /\ LetThrough(k)

\* No entry, or one whose resetAt has passed: a new window.
OpenWindow(k) ==
  /\ store[k].left = 0
  /\ store' = [store EXCEPT ![k] = [count |-> 1, left |-> TimeLeft]]
  /\ LetThrough(k)

\* Mutant: a refusal starts the window anew.
RefuseAndRestart(k) ==
  /\ store[k].left > 0 /\ store[k].count >= Limit
  /\ store' = [store EXCEPT ![k].left = TimeLeft]
  /\ reply' = [reply EXCEPT ![k] = "429"]
  /\ UNCHANGED <<recent, restarts>>

Refuse(k) ==
  /\ store[k].left > 0 /\ store[k].count >= Limit
  /\ reply' = [reply EXCEPT ![k] = "429"]
  /\ UNCHANGED <<store, recent, restarts>>

CountRequest(k) ==
  /\ store[k].left > 0 /\ store[k].count < Limit
  /\ store' = [store EXCEPT ![k].count = @ + 1]
  /\ LetThrough(k)

\* Date.now() advances.
Tick ==
  /\ store' = [k \in Keys |->
       IF store[k].left \in 1 .. Window
       THEN [store[k] EXCEPT !.left = @ - 1] ELSE store[k]]
  /\ recent' = [k \in Keys |-> Older(recent[k])]
  /\ restarts' = Older(restarts)
  /\ reply' = [k \in Keys |-> "none"]

\* The process ends and starts again: the map is gone, the clock is not.
Restart ==
  /\ Total(restarts) < MaxRestarts
  /\ store' = [k \in Keys |-> NoEntry]
  /\ restarts' = [restarts EXCEPT ![0] = @ + 1]
  /\ reply' = [k \in Keys |-> "none"]
  /\ UNCHANGED recent

Next == Tick \/ Restart \/ \E k \in Keys : OpenWindow(k) \/ Refuse(k) \/ CountRequest(k)

Spec == Init /\ [][Next]_vars

\* Time passes whatever the clients do.
FairSpec == Spec /\ WF_vars(Tick)

-----------------------------------------------------------------------------
\* No entry counts past the limit, and its window ends within windowMs, or not at
\* all where windowMs is text.
TypeOK ==
  /\ store \in [Keys -> [count : 0 .. Limit, left : 0 .. Forever]]
  /\ recent \in [Keys -> [Ages -> Nat]]
  /\ reply \in [Keys -> {"none", "next", "429"}]
  /\ restarts \in [Ages -> 0 .. MaxRestarts]

\* The price of fixed windows kept in memory: in any stretch of windowMs a key
\* gets at most twice max requests through, the end of one window and the start
\* of the next, and max more for each restart of the process in that stretch.
BurstBound == \A k \in Keys : Total(recent[k]) <= (2 + Total(restarts)) * Limit

\* 'Too many authentication requests. Please try again later.' is only said to
\* a key that did use up max requests within the last windowMs.
RefusedOnlyWhenSpent == \A k \in Keys : reply[k] = "429" => Total(recent[k]) >= Limit

\* ... and trying again later helps: the window of a refused key comes to an end.
RefusalEnds == \A k \in Keys : reply[k] = "429" ~> store[k].left = 0
=============================================================================
