------------------------------- MODULE Pacer -------------------------------
(***************************************************************************)
(* The queue every write to GitHub goes through, and the retry above it:   *)
(* Turn and Hold of internal/httpretry/pace.go, Do of                      *)
(* internal/httpretry/httpretry.go, and do and hold of                     *)
(* internal/github/client.go.                                              *)
(*                                                                         *)
(* A write waits for the slot, then for the interval since the last write, *)
(* then sends.  When it has its answer it gives the slot back and says how *)
(* long everybody has to hold off.  A write that may pass on a second try  *)
(* waits and queues again; one whose context ends gives up wherever it is. *)
(* Time is counted in ticks, and every clock counts down to zero.          *)
(***************************************************************************)
EXTENDS Naturals

CONSTANTS
  Writers,        \* writes that commands and the sweep make
  Free,           \* the slot when nobody has it
  Interval,       \* WriteInterval
  RetryWait,      \* the wait before a retry when the service names none
  MaxWait,        \* maxRateLimitWait: the longest pause a service is granted
  SecondaryPause, \* secondaryLimitPause: for a limit that names no time
  Patience        \* how long each write's context lasts

ASSUME PacerAssumption ==
  /\ Free \notin Writers
  /\ Interval \in Nat /\ RetryWait \in Nat /\ MaxWait \in Nat
  /\ SecondaryPause \in Nat
  /\ Patience \in [Writers -> Nat]

VARIABLES
  pc,      \* where each write is
  slot,    \* whose turn it is
  rest,    \* how long until the next write may leave
  left,    \* how long each write's context lasts still
  pause,   \* how long each write waits before it tries again
  tries,   \* how often each write has been sent
  owed,    \* history: how long the last write said everybody holds off
  quiet    \* history: how long ago the last write ended

vars == <<pc, slot, rest, left, pause, tries, owed, quiet>>

Ended == {"sent", "failed", "gave up"}
Places == {"idle", "queued", "pacing", "sending", "backing off"} \cup Ended

Longer(a, b) == IF a >= b THEN a ELSE b
Shorter(a, b) == IF a <= b THEN a ELSE b

\* No pause is longer than this, whatever the service asks for.
Longest == Longer(Interval, Longer(MaxWait, SecondaryPause))

Init ==
  /\ pc = [w \in Writers |-> "idle"]
  /\ slot = Free
  /\ rest = 0
  /\ left = Patience
  /\ pause = [w \in Writers |-> 0]
  /\ tries = [w \in Writers |-> 0]
  /\ owed = 0 /\ quiet = 0

Goto(w, place) == pc' = [pc EXCEPT ![w] = place]

\* A command comes to its write.
Ask(w) ==
  /\ pc[w] = "idle"
  /\ Goto(w, "queued")
  /\ UNCHANGED <<slot, rest, left, pause, tries, owed, quiet>>

\* Deviation: the slot is taken without waiting for the one before.
TakeUnasked(w) ==
  /\ pc[w] = "queued"
  /\ slot' = w
  /\ Goto(w, "pacing")
  /\ UNCHANGED <<rest, left, pause, tries, owed, quiet>>

\* One token fits the slot.  Of a free slot and an ended context, either may
\* be noticed first.
Take(w) ==
  /\ pc[w] = "queued" /\ slot = Free
  /\ slot' = w
  /\ Goto(w, "pacing")
  /\ UNCHANGED <<rest, left, pause, tries, owed, quiet>>

GiveUpQueued(w) ==
  /\ pc[w] = "queued" /\ left[w] = 0
  /\ Goto(w, "gave up")
  /\ UNCHANGED <<slot, rest, left, pause, tries, owed, quiet>>

\* Deviation: giving up while the interval runs keeps the slot.
GiveUpPacingHeld(w) ==
  /\ pc[w] = "pacing" /\ left[w] = 0
  /\ Goto(w, "gave up")
  /\ UNCHANGED <<slot, rest, left, pause, tries, owed, quiet>>

\* The context ends while the interval runs, or is found ended after it.
GiveUpPacing(w) ==
  /\ pc[w] = "pacing" /\ left[w] = 0
  /\ slot' = Free
  /\ Goto(w, "gave up")
  /\ UNCHANGED <<rest, left, pause, tries, owed, quiet>>

Send(w) ==
  /\ pc[w] = "pacing" /\ rest = 0 /\ left[w] > 0
  /\ Goto(w, "sending")
  /\ tries' = [tries EXCEPT ![w] = @ + 1]
  /\ UNCHANGED <<slot, rest, left, pause, owed, quiet>>

\* Deviation: a hold shorter than the interval already running, or none,
\* lets the next write leave at once.
EndTurnUnpaced(hold) ==
  /\ slot' = Free
  /\ rest' = hold
  /\ owed' = Longer(Interval, hold)
  /\ quiet' = 0

\* The turn ends when the answer is in, and the interval runs from then.
EndTurn(hold) ==
  /\ slot' = Free
  /\ rest' = Longer(Interval, hold)
  /\ owed' = Longer(Interval, hold)
  /\ quiet' = 0

Succeed(w) ==
  /\ pc[w] = "sending"
  /\ EndTurn(0)
  /\ Goto(w, "sent")
  /\ UNCHANGED <<left, pause, tries>>

\* The write is tried a second time, after a wait, unless it has been already
\* or its context has ended.
Retry(w, wait) ==
  IF tries[w] < 2 /\ left[w] > 0
  THEN Goto(w, "backing off") /\ pause' = [pause EXCEPT ![w] = wait]
  ELSE Goto(w, "failed") /\ UNCHANGED pause

\* The service says no and means it, or its answer cannot be read.  It may
\* say as well that this was the last request until its limit refills.
Refuse(w, reset) ==
  /\ pc[w] = "sending"
  /\ EndTurn(Shorter(reset, MaxWait))
  /\ Goto(w, "failed")
  /\ UNCHANGED <<left, pause, tries>>

\* A failure on its side, a lost connection, a timeout (the write may have
\* landed), or a limit that refills too late to wait for.
Lose(w, reset) ==
  /\ pc[w] = "sending"
  /\ EndTurn(Shorter(reset, MaxWait))
  /\ Retry(w, RetryWait)
  /\ UNCHANGED <<left, tries>>

\* Deviation: the hold a service asks for is not capped.
LimitUncapped(w, asked) ==
  /\ pc[w] = "sending"
  /\ EndTurn(asked)
  /\ IF asked <= MaxWait THEN Retry(w, asked) ELSE Goto(w, "failed") /\ UNCHANGED pause
  /\ UNCHANGED <<left, tries>>

\* A rate limit that names its time: everybody holds off for that long, at
\* most MaxWait; a longer time is not waited for by the write itself.
Limit(w, asked) ==
  /\ pc[w] = "sending"
  /\ EndTurn(Shorter(asked, MaxWait))
  /\ IF asked <= MaxWait THEN Retry(w, asked) ELSE Goto(w, "failed") /\ UNCHANGED pause
  /\ UNCHANGED <<left, tries>>

\* A secondary limit, said in the body only, names none.
LimitUntimed(w) ==
  /\ pc[w] = "sending"
  /\ EndTurn(SecondaryPause)
  /\ Retry(w, RetryWait)
  /\ UNCHANGED <<left, tries>>

\* The wait is over, and the retry queues like any other write.
TryAgain(w) ==
  /\ pc[w] = "backing off" /\ pause[w] = 0
  /\ Goto(w, "queued")
  /\ UNCHANGED <<slot, rest, left, pause, tries, owed, quiet>>

GiveUpWaiting(w) ==
  /\ pc[w] = "backing off" /\ left[w] = 0
  /\ Goto(w, "failed")
  /\ UNCHANGED <<slot, rest, left, pause, tries, owed, quiet>>

Down(n) == IF n = 0 THEN 0 ELSE n - 1

\* A context runs from the moment its command comes to the write.
Tick ==
  /\ rest' = Down(rest)
  /\ left' = [w \in Writers |-> IF pc[w] \in {"idle"} \cup Ended THEN left[w] ELSE Down(left[w])]
  /\ pause' = [w \in Writers |-> IF pc[w] = "backing off" THEN Down(pause[w]) ELSE pause[w]]
  /\ quiet' = Shorter(quiet + 1, Longest)
  /\ UNCHANGED <<pc, slot, tries, owed>>

\* What a service may ask for, one tick more than it is granted included.
Pauses == 0..(MaxWait + 1)

Answered(w) ==
  \/ Succeed(w)
  \/ \E pauses \in Pauses : Refuse(w, pauses) \/ Lose(w, pauses) \/ Limit(w, pauses)
  \/ LimitUntimed(w)

GiveUp(w) == GiveUpQueued(w) \/ GiveUpPacing(w) \/ GiveUpWaiting(w)

Work(w) == Take(w) \/ Send(w) \/ Answered(w) \/ TryAgain(w) \/ GiveUp(w)

Next == Tick \/ \E w \in Writers : Ask(w) \/ Work(w)

\* Time passes; a goroutine that can run does; a request is answered or times
\* out.  Nothing is assumed of the order in which the slot is given.
Fairness == WF_vars(Tick) /\ \A w \in Writers : WF_vars(Work(w))

Spec == Init /\ [][Next]_vars /\ Fairness

-----------------------------------------------------------------------------
(* Properties.                                                              *)

\* Every variable holds a value of its type, and no hold is longer than the
\* cap: a service asking for an hour does not stop the bot for one (Hold).
TypeOK ==
  /\ pc \in [Writers -> Places]
  /\ slot \in Writers \cup {Free}
  /\ rest \in 0..Longest
  /\ left \in [Writers -> Nat]
  /\ pause \in [Writers -> Nat]
  /\ tries \in [Writers -> 0..2]
  /\ owed \in 0..Longest
  /\ quiet \in 0..Longest

\* Two writes are never under way at once, whoever asks (Turn).
OneWriteAtATime ==
  \A v, w \in Writers : pc[v] = "sending" /\ pc[w] = "sending" => v = w

\* A write leaves no sooner after the last one ended than the interval and
\* whatever hold that one was told of, also when it is another writer's, also
\* when writes between them gave up (Turn, Hold).
Spaced ==
  [][\A w \in Writers : pc[w] # "sending" /\ pc'[w] = "sending" => quiet >= owed]_vars

\* Every write that joins the queue leaves it: sent, failed or given up, and
\* the slot does not stay with one that has ended.
EveryWriteEnds ==
  \A w \in Writers : pc[w] = "queued" ~> pc[w] \in Ended /\ slot # w
=============================================================================
