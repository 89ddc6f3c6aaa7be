---------------------------- MODULE PacerProofs ----------------------------
(***************************************************************************)
(* Proofs about the write queue, for any number of writes and any          *)
(* intervals: its types, that one write is under way at a time, and that   *)
(* writes are spaced as the service asked.                                 *)
(***************************************************************************)
EXTENDS Pacer, TLAPS

\* A write is in its turn exactly when the slot is its own.
TurnIsSlot == \A w \in Writers : pc[w] \in {"pacing", "sending"} <=> slot = w

\* What is still to wait and what has been waited add up to what is owed.
Debt == rest + quiet >= owed

\* A write that may still be sent has been sent once at most.
TryLeft ==
  \A w \in Writers : pc[w] \in {"idle", "queued", "pacing", "backing off"} => tries[w] <= 1

Inv == TypeOK /\ TurnIsSlot /\ Debt /\ TryLeft

\* The caps are natural numbers, and the longest of them bounds the others.
LEMMA Caps ==
  /\ Longest \in Nat
  /\ Interval <= Longest /\ MaxWait <= Longest /\ SecondaryPause <= Longest
  /\ \A n \in Nat : Shorter(n, MaxWait) \in 0..Longest
BY PacerAssumption DEF Longest, Longer, Shorter

\* The end of a turn sets the rest the next write owes in full.
LEMMA EndTurnOwes ==
  ASSUME NEW hold \in 0..Longest, EndTurn(hold)
  PROVE  /\ rest' \in 0..Longest /\ owed' \in 0..Longest /\ quiet' \in 0..Longest
         /\ Debt' /\ slot' = Free
BY Caps, PacerAssumption DEF EndTurn, Longer, Debt

\* A retry leaves the sender outside its turn, with a wait that is a number.
LEMMA RetryLeaves ==
  ASSUME TypeOK, NEW w \in Writers, NEW wait \in Nat, Retry(w, wait)
  PROVE  /\ pc' \in [Writers -> Places] /\ pause' \in [Writers -> Nat]
         /\ pc'[w] \in {"backing off", "failed"}
         /\ pc'[w] = "backing off" => tries[w] <= 1
         /\ \A v \in Writers \ {w} : pc'[v] = pc[v]
<1>1. tries[w] \in 0..2
  BY DEF TypeOK
<1>2. CASE tries[w] < 2 /\ left[w] > 0
  <2>1. pc' = [pc EXCEPT ![w] = "backing off"] /\ pause' = [pause EXCEPT ![w] = wait]
    BY <1>2 DEF Retry, Goto
  <2>2. tries[w] <= 1
    BY <1>1, <1>2
  <2>3. pc' \in [Writers -> Places] /\ pause' \in [Writers -> Nat]
    BY <2>1 DEF TypeOK, Places
  <2> QED BY <2>1, <2>2, <2>3 DEF TypeOK
<1>3. CASE ~ (tries[w] < 2 /\ left[w] > 0)
  BY <1>3 DEF TypeOK, Retry, Goto, Places, Ended
<1> QED BY <1>2, <1>3

\* Nobody has asked, the slot is free and nothing is owed.
THEOREM Initially == Init => Inv
BY Caps, PacerAssumption DEF Init, Inv, TypeOK, TurnIsSlot, Debt, TryLeft, Places

\* What every answer comes to: the turn ends owing some hold, and the sender is
\* outside its turn.
TurnOver(w, hold) ==
  /\ EndTurn(hold) /\ UNCHANGED <<left, tries>>
  /\ pc' \in [Writers -> Places] /\ pause' \in [Writers -> Nat]
  /\ pc'[w] \in {"sent", "failed", "backing off"}
  /\ pc'[w] = "backing off" => tries[w] <= 1
  /\ \A v \in Writers \ {w} : pc'[v] = pc[v]

\* An answer that fails for good leaves the sender failed, with its pause.
LEMMA FailureLeaves ==
  ASSUME TypeOK, NEW w \in Writers, NEW place \in {"sent", "failed"}, Goto(w, place),
         UNCHANGED pause
  PROVE  /\ pc' \in [Writers -> Places] /\ pause' \in [Writers -> Nat]
         /\ pc'[w] \in {"sent", "failed"}
         /\ \A v \in Writers \ {w} : pc'[v] = pc[v]
BY DEF TypeOK, Goto, Places, Ended

\* However a write is answered, its turn is over.
LEMMA AnswerEndsTurn ==
  ASSUME Inv, NEW w \in Writers, Answered(w)
  PROVE  \E hold \in 0..Longest : TurnOver(w, hold)
<1>1. CASE Succeed(w)
  <2>1. TurnOver(w, 0)
    BY <1>1, FailureLeaves DEF Succeed, TurnOver, Inv
  <2> QED BY <2>1, Caps
<1>2. ASSUME NEW reset \in Pauses, Refuse(w, reset)
      PROVE  \E hold \in 0..Longest : TurnOver(w, hold)
  <2>1. TurnOver(w, Shorter(reset, MaxWait))
    BY <1>2, FailureLeaves DEF Refuse, TurnOver, Inv
  <2>2. Shorter(reset, MaxWait) \in 0..Longest
    BY Caps, PacerAssumption DEF Pauses
  <2> QED BY <2>1, <2>2
<1>3. ASSUME NEW reset \in Pauses, Lose(w, reset)
      PROVE  \E hold \in 0..Longest : TurnOver(w, hold)
  <2>1. TurnOver(w, Shorter(reset, MaxWait))
    BY <1>3, RetryLeaves, PacerAssumption DEF Lose, TurnOver, Inv
  <2>2. Shorter(reset, MaxWait) \in 0..Longest
    BY Caps, PacerAssumption DEF Pauses
  <2> QED BY <2>1, <2>2
<1>4. ASSUME NEW asked \in Pauses, Limit(w, asked)
      PROVE  \E hold \in 0..Longest : TurnOver(w, hold)
  <2>1. asked \in Nat /\ Shorter(asked, MaxWait) \in 0..Longest
    BY Caps, PacerAssumption DEF Pauses
  <2>2. CASE asked <= MaxWait
    <3>1. TurnOver(w, Shorter(asked, MaxWait))
      BY <1>4, <2>1, <2>2, RetryLeaves DEF Limit, TurnOver, Inv
    <3> QED BY <2>1, <3>1
  <2>3. CASE ~ (asked <= MaxWait)
    <3>1. TurnOver(w, Shorter(asked, MaxWait))
      BY <1>4, <2>3, FailureLeaves DEF Limit, TurnOver, Inv
    <3> QED BY <2>1, <3>1
  <2> QED BY <2>2, <2>3
<1>5. CASE LimitUntimed(w)
  <2>1. TurnOver(w, SecondaryPause)
    BY <1>5, RetryLeaves, PacerAssumption DEF LimitUntimed, TurnOver, Inv
  <2>2. SecondaryPause \in 0..Longest
    BY Caps, PacerAssumption
  <2> QED BY <2>1, <2>2
<1> QED BY <1>1, <1>2, <1>3, <1>4, <1>5, Answered(w) DEF Answered

\* The interval runs once an answer is in, and the slot is free.
LEMMA AnsweredKeeps ==
  ASSUME Inv, NEW w \in Writers, Answered(w)
  PROVE  Inv'
<1>1. PICK hold \in 0..Longest : TurnOver(w, hold)
  BY AnswerEndsTurn
<1>2. pc[w] = "sending"
  BY Answered(w) DEF Answered, Succeed, Refuse, Lose, Limit, LimitUntimed
<1>3. EndTurn(hold)
  BY <1>1 DEF TurnOver
<1>4. /\ rest' \in 0..Longest /\ owed' \in 0..Longest /\ quiet' \in 0..Longest
      /\ Debt' /\ slot' = Free
  BY <1>3, EndTurnOwes
<1>5. TypeOK' /\ Debt'
  BY <1>1, <1>4 DEF Inv, TypeOK, TurnOver
<1>6. TurnIsSlot'
  BY <1>1, <1>2, <1>4, PacerAssumption DEF Inv, TurnIsSlot, TurnOver
<1>7. TryLeft'
  BY <1>1 DEF Inv, TypeOK, TryLeft, TurnOver
<1> QED BY <1>5, <1>6, <1>7 DEF Inv

\* Time passing changes no turn, and what rest loses the quiet gains.
LEMMA TickKeeps == Inv /\ Tick => Inv'
<1> SUFFICES ASSUME Inv, Tick PROVE Inv'
  OBVIOUS
<1>1. UNCHANGED <<pc, slot, tries, owed>>
  BY DEF Tick
<1>2. \A n \in Nat : Down(n) \in Nat
  BY DEF Down
<1>3. left' \in [Writers -> Nat] /\ pause' \in [Writers -> Nat]
  BY <1>2 DEF Tick, Inv, TypeOK
<1>4. rest \in 0..Longest /\ quiet \in 0..Longest /\ owed \in 0..Longest /\ rest + quiet >= owed
  BY DEF Inv, TypeOK, Debt
<1>5. rest' = Down(rest) /\ quiet' = Shorter(quiet + 1, Longest) /\ owed' = owed
  BY DEF Tick
<1>6. rest' \in 0..Longest /\ quiet' \in 0..Longest /\ rest' + quiet' >= owed'
  BY <1>4, <1>5, Caps DEF Down, Shorter
<1> QED BY <1>1, <1>3, <1>6 DEF Inv, TypeOK, TurnIsSlot, Debt, TryLeft

\* Every step, of a write or of the clock, keeps the invariant.
LEMMA StepKeeps == Inv /\ [Next]_vars => Inv'
<1> SUFFICES ASSUME Inv, [Next]_vars PROVE Inv'
  OBVIOUS
<1>1. CASE Tick
  BY <1>1, TickKeeps
<1>2. ASSUME NEW w \in Writers, Ask(w) PROVE Inv'
  BY <1>2, PacerAssumption DEF Ask, Inv, TypeOK, TurnIsSlot, Debt, TryLeft, Goto, Places
<1>3. ASSUME NEW w \in Writers, Take(w) PROVE Inv'
  BY <1>3, PacerAssumption DEF Take, Inv, TypeOK, TurnIsSlot, Debt, TryLeft, Goto, Places
<1>4. ASSUME NEW w \in Writers, Send(w) PROVE Inv'
  <2>1. tries[w] \in 0..1
    <3>1. tries[w] \in 0..2
      BY DEF Inv, TypeOK
    <3>2. tries[w] <= 1
      BY <1>4 DEF Send, Inv, TryLeft
    <3> QED BY <3>1, <3>2
  <2>2. /\ pc' = [pc EXCEPT ![w] = "sending"] /\ tries' = [tries EXCEPT ![w] = @ + 1]
        /\ UNCHANGED <<slot, rest, left, pause, owed, quiet>> /\ pc[w] = "pacing"
    BY <1>4 DEF Send, Goto
  <2>3. TypeOK'
    <3>1. tries[w] + 1 \in 0..2
      BY <2>1
    <3>2. tries' \in [Writers -> 0..2]
      BY <2>2, <3>1 DEF Inv, TypeOK
    <3>3. pc' \in [Writers -> Places]
      BY <2>2 DEF Inv, TypeOK, Places
    <3> QED BY <2>2, <3>2, <3>3 DEF Inv, TypeOK
  <2>4. TurnIsSlot' /\ Debt'
    BY <2>2 DEF Inv, TypeOK, TurnIsSlot, Debt
  <2>5. TryLeft'
    BY <2>2 DEF Inv, TypeOK, TryLeft
  <2> QED BY <2>3, <2>4, <2>5 DEF Inv
<1>5. ASSUME NEW w \in Writers, Answered(w) PROVE Inv'
  BY <1>5, AnsweredKeeps
<1>6. ASSUME NEW w \in Writers, TryAgain(w) PROVE Inv'
  BY <1>6 DEF TryAgain, Inv, TypeOK, TurnIsSlot, Debt, TryLeft, Goto, Places
<1>7. ASSUME NEW w \in Writers, GiveUp(w) PROVE Inv'
  <2>1. CASE GiveUpQueued(w)
    BY <2>1 DEF GiveUpQueued, Inv, TypeOK, TurnIsSlot, Debt, TryLeft, Goto, Places, Ended
  <2>2. CASE GiveUpPacing(w)
    BY <2>2, PacerAssumption
       DEF GiveUpPacing, Inv, TypeOK, TurnIsSlot, Debt, TryLeft, Goto, Places, Ended
  <2>3. CASE GiveUpWaiting(w)
    BY <2>3 DEF GiveUpWaiting, Inv, TypeOK, TurnIsSlot, Debt, TryLeft, Goto, Places, Ended
  <2> QED BY <1>7, <2>1, <2>2, <2>3 DEF GiveUp
<1>8. CASE UNCHANGED vars
  BY <1>8 DEF vars, Inv, TypeOK, TurnIsSlot, Debt, TryLeft
<1> QED BY <1>1, <1>2, <1>3, <1>4, <1>5, <1>6, <1>7, <1>8 DEF Next, Work

\* The invariant of the queue (Turn, Hold and Do together).
THEOREM Invariance == Spec => []Inv
BY Initially, StepKeeps, PTL DEF Spec

\* The types hold, and with them the cap on every hold.
THEOREM Types == Spec => []TypeOK
BY Invariance, PTL DEF Inv

\* At most one write is under way, however many are queued (Turn).
THEOREM OneAtATime == Spec => []OneWriteAtATime
<1>1. Inv => OneWriteAtATime
  BY DEF Inv, TurnIsSlot, OneWriteAtATime
<1> QED BY <1>1, Invariance, PTL

\* A write leaves no sooner than the interval and the last hold allow.
THEOREM WritesAreSpaced == Spec => Spaced
<1>1. Inv /\ [Next]_vars =>
        [\A w \in Writers : pc[w] # "sending" /\ pc'[w] = "sending" => quiet >= owed]_vars
  <2> SUFFICES ASSUME Inv, Next,
                      NEW w \in Writers, pc[w] # "sending", pc'[w] = "sending"
               PROVE  quiet >= owed
    OBVIOUS
  <2>1. Send(w)
    <3>1. ASSUME NEW v \in Writers, Answered(v) PROVE FALSE
      <4>1. pc'[w] = pc[w] \/ pc'[w] # "sending"
        BY <3>1 DEF Answered, Succeed, Refuse, Lose, Limit, LimitUntimed, Retry, Goto, Inv, TypeOK
      <4> QED BY <4>1
    <3>2. ~ Tick
      BY DEF Tick
    <3> QED BY <3>1, <3>2 DEF Next, Ask, Work, Take, Send, TryAgain, GiveUp, GiveUpQueued,
               GiveUpPacing, GiveUpWaiting, Goto, Inv, TypeOK
  <2> QED BY <2>1 DEF Send, Inv, Debt, TypeOK
<1> QED BY <1>1, Invariance, PTL DEF Spec, Spaced
=============================================================================
