--------------------------- MODULE FollowUpProofs ---------------------------
(***************************************************************************)
(* Proofs about the follow-ups of a check, for any intervals, limits and   *)
(* scenes: their types, that nobody is asked twice within the interval,    *)
(* and that the asking stops.                                              *)
(***************************************************************************)
EXTENDS FollowUp, TLAPS

\* The thread as it is.
Now == [newest |-> newest, spoken |-> spoken, unanswered |-> unanswered]

\* How often what was read of the thread says that somebody was asked.
Told(read, t) ==
  CASE t \in People -> IF t \in read.unanswered THEN read.newest[t].n ELSE 0
    [] t = "reminder" -> IF read.newest[t] # None /\ read.newest[t].settled THEN 1 ELSE 0
    [] OTHER -> IF read.newest[t] = None THEN 0 ELSE read.newest[t].n

\* Who was asked less than an interval ago: what was read of the thread says so.
Dated(read, t) ==
  gap[t] < Interval(t) =>
    /\ read.newest[t] # None /\ read.newest[t].age <= gap[t]
    /\ t = "archive" => read.newest[t].n > 0
    /\ t \in People => t \in read.unanswered

\* Every ask is in what was read, with its date and its count.
Shows(read, t) == Dated(read, t) /\ sent[t] <= Told(read, t)

\* A copy that is still to be archived has a reminder left.
OneLeft(t, record) == t = "archive" /\ ~ record.settled => record.n < MostArchive

\* What may stand in a thread.
Sound(read) ==
  /\ \A t \in Topics : read.newest[t] # None =>
       read.newest[t] \in Record(t) /\ OneLeft(t, read.newest[t])
  /\ read.unanswered \subseteq People
  /\ \A t \in read.unanswered : read.newest[t] # None

\* What a walk has still to answer.
Left(w) == (todo[w] \cap Promised) \cup (IF "quiet" \in todo[w] THEN People ELSE {})

\* A walk goes by a thread that was as it says, and that shows every ask about
\* what is still to be answered.
ReadIsGood(w) ==
  thread[w] # None =>
    /\ Sound(thread[w])
    /\ \A t \in todo[w] \cap Promised : thread[w].newest[t] # None /\ ~ thread[w].newest[t].settled
    /\ \A t \in Left(w) : Shows(thread[w], t)

\* An ask that does not come too soon, and is counted.
GoodAsk(p) ==
  /\ p.record # None /\ gap[p.about] >= Interval(p.about)
  /\ p.about = "reminder" => p.record.settled /\ sent[p.about] = 0
  /\ p.about # "reminder" => sent[p.about] < p.record.n

\* A word that something is done, which takes nothing back.
GoodWord(p) ==
  p.record # None =>
    /\ p.about = "archive" /\ sent[p.about] <= p.record.n
    /\ gap[p.about] < Interval(p.about) => p.record.n > 0

\* A post that a person has overtaken counts for nothing.
Overtaken(p) ==
  /\ gap[p.about] >= Interval(p.about)
  /\ p.about \in People => p.about \notin unanswered /\ sent[p.about] = 0

GoodPost(p) ==
  /\ p.record # None => p.record \in Record(p.about) /\ OneLeft(p.about, p.record) /\ p.record.age = 0
  /\ IF p.asks THEN GoodAsk(p) ELSE GoodWord(p)
  /\ p.overtaken => Overtaken(p)

PostIsGood(w) == post[w] # None => GoodPost(post[w]) /\ post[w].about \notin Left(w)

ThreadIsGood == Sound(Now) /\ \A t \in Topics : Shows(Now, t)

IInv ==
  /\ TypeOK /\ ThreadIsGood
  /\ \A w \in Walkers : ReadIsGood(w) /\ PostIsGood(w)

-----------------------------------------------------------------------------
(* The constants.                                                           *)

\* The kinds are apart from each other and from people.
LEMMA TopicsApart ==
  /\ People \subseteq Topics /\ Promised \subseteq Topics
  /\ \A t \in Topics : t \in Promised \/ t \in People
  /\ \A t \in People : t \notin Promised /\ t # "archive" /\ t # "organisation" /\ t # "reminder"
  /\ "archive" \in Promised /\ "organisation" \in Promised /\ "reminder" \in Promised
  /\ Newcomer \in People /\ Other \in People /\ Nobody \notin Topics /\ Nobody \notin Walkers
BY FollowUpAssumption DEF Topics, People, Promised

\* The intervals and the limits are natural numbers, and a limit is one at least.
LEMMA Limits ==
  /\ \A t \in People : Interval(t) = QuietAfter /\ Most(t) = MostQuiet
  /\ Interval("archive") = ArchiveEvery /\ Most("archive") = MostArchive
  /\ Interval("organisation") = RemindAfter /\ Most("organisation") = MostReminders + 1
  /\ Interval("reminder") = 0 /\ Most("reminder") = 1
  /\ \A t \in Topics : Interval(t) \in Nat /\ Most(t) \in Nat /\ Most(t) > 0
  /\ \A c \in {RemindAfter, MostReminders, ArchiveEvery, MostArchive,
               QuietAfter, MostQuiet, RecentlyClosed, DueIn} : c \in Nat /\ c > 0
<1>1. \A t \in People : Interval(t) = QuietAfter /\ Most(t) = MostQuiet
  BY TopicsApart DEF Interval, Most
<1>2. /\ Interval("archive") = ArchiveEvery /\ Most("archive") = MostArchive
      /\ Interval("organisation") = RemindAfter /\ Most("organisation") = MostReminders + 1
      /\ Interval("reminder") = 0 /\ Most("reminder") = 1
  BY DEF Interval, Most
<1>3. \A c \in {RemindAfter, MostReminders, ArchiveEvery, MostArchive,
                QuietAfter, MostQuiet, RecentlyClosed, DueIn} : c \in Nat /\ c > 0
  BY FollowUpAssumption
<1>4. \A t \in Topics : Interval(t) \in Nat /\ Most(t) \in Nat /\ Most(t) > 0
  <2> SUFFICES ASSUME NEW t \in Topics
               PROVE  Interval(t) \in Nat /\ Most(t) \in Nat /\ Most(t) > 0
    OBVIOUS
  <2>1. CASE t \in People
    BY <2>1, <1>1, <1>3
  <2>2. CASE t \in Promised
    BY <2>2, <1>2, <1>3 DEF Promised
  <2> QED BY <2>1, <2>2, TopicsApart
<1> QED BY <1>1, <1>2, <1>3, <1>4

\* None is nothing that is read, recorded or posted.
LEMMA NoneApart ==
  /\ \A r : r \in Records => r # None
  /\ \A r : r \in Readings => r # None
  /\ \A r : r \in Posts => r # None
BY FollowUpAssumption

\* What a record of a topic is.
LEMMA RecordsOfTopics ==
  ASSUME NEW t \in Topics
  PROVE  /\ \A r \in Record(t) : /\ r \in Records /\ r.n \in Nat /\ r.n <= Most(t) /\ r.settled \in BOOLEAN
                                /\ r.age \in Nat /\ r.age <= Interval(t)
         /\ \A r \in Records : r.n <= Most(t) /\ r.age <= Interval(t) => r \in Record(t)
         /\ \A n \in Nat, s \in BOOLEAN : n <= Most(t) => Raised(n, s) \in Record(t)
         /\ \A n \in Nat, s \in BOOLEAN :
              Raised(n, s) \in Records /\ Raised(n, s).n = n /\ Raised(n, s).settled = s /\ Raised(n, s).age = 0
<1>1. Interval(t) \in Nat /\ Most(t) \in Nat
  BY Limits
<1>2. \A r \in Record(t) : /\ r \in Records /\ r.n \in Nat /\ r.n <= Most(t) /\ r.settled \in BOOLEAN
                          /\ r.age \in Nat /\ r.age <= Interval(t)
  BY <1>1 DEF Record, Records
<1>3. \A r \in Records : r.n <= Most(t) /\ r.age <= Interval(t) => r \in Record(t)
  BY <1>1 DEF Record, Records
<1>4. \A n \in Nat, s \in BOOLEAN :
        Raised(n, s) \in Records /\ Raised(n, s).n = n /\ Raised(n, s).settled = s /\ Raised(n, s).age = 0
  BY DEF Raised, Records
<1>5. \A n \in Nat, s \in BOOLEAN : n <= Most(t) => Raised(n, s) \in Record(t)
  BY <1>1, <1>3, <1>4
<1> QED BY <1>2, <1>3, <1>4, <1>5

-----------------------------------------------------------------------------
(* What the steps of a walk have in common.                                 *)

\* While one walk runs the other does not, and knows nothing.
LEMMA OneWalk ==
  ASSUME TypeOK, NEW w \in Walkers, pc[w] # "idle", NEW v \in Walkers, v # w
  PROVE  pc[v] = "idle" /\ thread[v] = None /\ post[v] = None
<1>1. sweeping = w /\ sweeping # v
  BY DEF TypeOK, WalkTypes
<1> QED BY <1>1 DEF TypeOK, WalkTypes

\* A step that leaves the thread and the histories alone, and of which a walk
\* learns nothing, keeps what is known.
LEMMA NothingNew ==
  ASSUME IInv, TypeOK', UNCHANGED <<newest, unanswered, sent, gap>>,
         \A w \in Walkers : thread'[w] = None \/ (thread'[w] = thread[w] /\ todo'[w] \subseteq todo[w]),
         \A w \in Walkers : post'[w] = None \/ (post'[w] = post[w] /\ todo'[w] \subseteq todo[w])
  PROVE  IInv'
<1>1. ThreadIsGood'
  BY DEF IInv, ThreadIsGood, Sound, Now, Shows, Dated, Told, OneLeft
<1>2. ASSUME NEW w \in Walkers, thread'[w] # None
      PROVE  ReadIsGood(w)'
  <2>1. thread'[w] = thread[w] /\ todo'[w] \subseteq todo[w]
    BY <1>2
  <2>2. Left(w)' \subseteq Left(w)
    BY <2>1 DEF Left
  <2>3. ReadIsGood(w) /\ thread[w] # None
    BY <1>2, <2>1 DEF IInv
  <2>4. Sound(thread[w]) /\ Sound(thread[w])'
    BY <2>1, <2>3 DEF ReadIsGood, Sound, OneLeft
  <2>5. ASSUME NEW t \in Left(w)'
        PROVE  Shows(thread[w], t)'
    BY <2>1, <2>2, <2>3 DEF ReadIsGood, Shows, Dated, Told
  <2>6. \A t \in todo'[w] \cap Promised : thread'[w].newest[t] # None /\ ~ thread'[w].newest[t].settled
    BY <2>1, <2>3 DEF ReadIsGood
  <2> QED BY <2>4, <2>5, <2>6 DEF ReadIsGood
<1>3. ASSUME NEW w \in Walkers, post'[w] # None
      PROVE  PostIsGood(w)'
  <2>1. post'[w] = post[w] /\ todo'[w] \subseteq todo[w]
    BY <1>3
  <2>2. Left(w)' \subseteq Left(w)
    BY <2>1 DEF Left
  <2>3. PostIsGood(w) /\ post[w] # None
    BY <1>3, <2>1 DEF IInv
  <2>4. GoodPost(post[w]) => GoodPost(post[w])'
    BY <2>1 DEF GoodPost, GoodAsk, GoodWord, Overtaken, OneLeft
  <2> QED BY <2>1, <2>2, <2>3, <2>4 DEF PostIsGood
<1>4. \A w \in Walkers : ReadIsGood(w)' /\ PostIsGood(w)'
  <2> SUFFICES ASSUME NEW w \in Walkers PROVE ReadIsGood(w)' /\ PostIsGood(w)'
    OBVIOUS
  <2>1. CASE thread'[w] # None
    BY <2>1, <1>2, <1>3 DEF PostIsGood
  <2>2. CASE thread'[w] = None
    BY <2>2, <1>3 DEF PostIsGood, ReadIsGood
  <2> QED BY <2>1, <2>2
<1> QED BY <1>1, <1>4 DEF IInv

\* What goes wrong and what people do is counted, and bounded.
LEMMA Counted ==
  ASSUME TypeOK
  PROVE  /\ Fault \/ UNCHANGED faults => faults' \in 0..MaxFaults
         /\ (hands < MaxHands /\ hands' = hands + 1) \/ UNCHANGED hands => hands' \in 0..MaxHands
BY FollowUpAssumption DEF TypeOK, OtherTypes, Fault

\* A walk begins, with the lock, or does not.
LEMMA StartKeeps == ASSUME IInv, NEW w \in Walkers, Start(w), hands' \in 0..MaxHands, night' \in BOOLEAN
                    PROVE  IInv'
<1> USE DEF theThread, world, history
<1>1. /\ UNCHANGED <<newest, spoken, unanswered, due, idle>>
      /\ UNCHANGED <<inside, teamed, holder, registered, copy, closed>>
      /\ UNCHANGED <<visits, thread, todo, post, scene, faults, sent, gap, removed>>
  BY DEF Start
<1>2. TypeOK /\ pc[w] = "idle"
  BY DEF IInv, Start
<1>3. CASE sweeping # Nobody /\ UNCHANGED <<sweeping, pc>>
  <2>1. TypeOK'
    BY <1>1, <1>2, <1>3 DEF TypeOK, ThreadTypes, WorldTypes, WalkTypes, OtherTypes
  <2> QED BY <2>1, <1>1, NothingNew
<1>4. CASE sweeping = Nobody /\ sweeping' = w /\ pc' = [pc EXCEPT ![w] = "open"]
  <2>1. WalkTypes'
    BY <1>1, <1>2, <1>4, TopicsApart DEF TypeOK, WalkTypes
  <2>2. TypeOK'
    BY <1>1, <1>2, <2>1 DEF TypeOK, ThreadTypes, WorldTypes, OtherTypes
  <2> QED BY <2>2, <1>1, NothingNew
<1> QED BY <1>3, <1>4 DEF Start, TryLock, Goto

\* The walk goes on to a place where it has no thread and no post, or stays in its place.
LEMMA WalkMoves ==
  ASSUME TypeOK, NEW w \in Walkers, pc[w] # "idle",
         NEW place \in {"idle", "closed", "visit"}, pc' = [pc EXCEPT ![w] = place],
         sweeping' = IF place = "idle" THEN Nobody ELSE sweeping,
         visits' \in [Walkers -> Seq(BOOLEAN)],
         \/ thread' = [thread EXCEPT ![w] = None]
         \/ thread' = thread /\ thread[w] = None,
         UNCHANGED <<todo, post>>, post[w] = None
  PROVE  WalkTypes'
<1>1. \A v \in Walkers : v # w => pc[v] = "idle" /\ thread[v] = None /\ post[v] = None
  BY OneWalk
<1>2. thread' \in [Walkers -> Readings \cup {None}] /\ thread'[w] = None
  BY DEF TypeOK, WalkTypes
<1>3. sweeping = w
  BY DEF TypeOK, WalkTypes
<1>4. \A v \in Walkers : thread'[v] = None /\ post'[v] = None
  BY <1>1, <1>2 DEF TypeOK, WalkTypes
<1> QED BY <1>1, <1>2, <1>3, <1>4, TopicsApart DEF TypeOK, WalkTypes

\* The listings, one after the other, and the failures of either.
LEMMA ListKeeps == ASSUME IInv, NEW w \in Walkers, List(w) \/ ListFails(w)
                   PROVE  IInv'
<1> USE DEF theThread, world, history
<1>1. /\ UNCHANGED <<newest, spoken, unanswered, due, idle>>
      /\ UNCHANGED <<inside, teamed, holder, registered, copy, closed>>
      /\ UNCHANGED <<thread, todo, post, night, scene, hands, sent, gap, removed>>
      /\ faults' \in 0..MaxFaults
      /\ pc[w] \in {"open", "closed"}
  BY Counted DEF List, ListFails, IInv
<1>2. TypeOK /\ thread[w] = None /\ post[w] = None
  BY <1>1 DEF IInv, TypeOK, WalkTypes
<1>3. visits' \in [Walkers -> Seq(BOOLEAN)]
  <2>1. visits \in [Walkers -> Seq(BOOLEAN)]
    BY <1>2 DEF TypeOK, WalkTypes
  <2>2. Append(visits[w], TRUE) \in Seq(BOOLEAN) /\ <<FALSE>> \in Seq(BOOLEAN) /\ << >> \in Seq(BOOLEAN)
    BY <2>1
  <2>3. CASE List(w)
    BY <2>1, <2>2, <2>3 DEF List
  <2>4. CASE ListFails(w)
    BY <2>1, <2>4 DEF ListFails
  <2> QED BY <2>3, <2>4
<1>4. PICK place \in {"idle", "closed", "visit"} :
        /\ pc' = [pc EXCEPT ![w] = place]
        /\ sweeping' = IF place = "idle" THEN Nobody ELSE sweeping
  BY DEF List, ListFails, Goto
<1>5. WalkTypes'
  BY <1>1, <1>2, <1>3, <1>4, WalkMoves
<1>6. TypeOK'
  BY <1>1, <1>2, <1>5 DEF TypeOK, ThreadTypes, WorldTypes, OtherTypes
<1> QED BY <1>1, <1>6, NothingNew

\* An issue is done with, or the walk, or an issue could not be read.
LEMMA LeaveKeeps == ASSUME IInv, NEW w \in Walkers, Leave(w) \/ VisitFails(w)
                    PROVE  IInv'
<1> USE DEF theThread, world, history
<1>1. /\ UNCHANGED <<newest, spoken, unanswered, due, idle>>
      /\ UNCHANGED <<inside, teamed, holder, registered, copy, closed>>
      /\ UNCHANGED <<todo, post, night, scene, hands, sent, gap, removed>>
      /\ faults' \in 0..MaxFaults
      /\ pc[w] \in {"answer", "visit"}
  BY Counted DEF Leave, VisitFails, IInv
<1>2. TypeOK /\ post[w] = None
  BY <1>1 DEF IInv, TypeOK, WalkTypes
<1>3. /\ \/ thread' = [thread EXCEPT ![w] = None]
         \/ thread' = thread /\ thread[w] = None
      /\ visits' \in [Walkers -> Seq(BOOLEAN)]
      /\ \E place \in {"idle", "closed", "visit"} :
           /\ pc' = [pc EXCEPT ![w] = place]
           /\ sweeping' = IF place = "idle" THEN Nobody ELSE sweeping
  <2>1. CASE Leave(w)
    BY <1>2, <2>1 DEF Leave, Goto, TypeOK, WalkTypes
  <2>2. CASE VisitFails(w)
    <3>1. visits[w] \in Seq(BOOLEAN) /\ visits[w] # << >>
      BY <1>2, <2>2 DEF VisitFails, TypeOK, WalkTypes
    <3>2. visits' \in [Walkers -> Seq(BOOLEAN)]
      BY <1>2, <2>2, <3>1 DEF VisitFails, TypeOK, WalkTypes
    <3>3. pc' = [pc EXCEPT ![w] = "visit"] /\ thread[w] = None
      BY <1>2, <2>2 DEF VisitFails, TypeOK, WalkTypes
    <3> QED BY <2>2, <3>2, <3>3 DEF VisitFails
  <2> QED BY <2>1, <2>2
<1>4. WalkTypes'
  BY <1>1, <1>2, <1>3, WalkMoves
<1>5. TypeOK'
  BY <1>1, <1>2, <1>4 DEF TypeOK, ThreadTypes, WorldTypes, OtherTypes
<1>6. \A v \in Walkers : thread'[v] = None \/ thread'[v] = thread[v]
  BY <1>2, <1>3 DEF TypeOK, WalkTypes
<1> QED BY <1>1, <1>5, <1>6, NothingNew

\* The comments are read: what the walk goes by is the thread as it is.
LEMMA VisitKeeps == ASSUME IInv, NEW w \in Walkers, Visit(w)
                    PROVE  IInv'
<1> USE DEF theThread, world, history
<1>1. /\ UNCHANGED <<newest, spoken, unanswered, due, idle>>
      /\ UNCHANGED <<inside, teamed, holder, registered, copy, closed>>
      /\ UNCHANGED <<sweeping, post, night, scene, hands, faults, sent, gap, removed>>
      /\ pc[w] = "visit" /\ visits[w] # << >>
      /\ thread' = [thread EXCEPT ![w] = Now]
      /\ pc' = [pc EXCEPT ![w] = "answer"]
      /\ visits' = [visits EXCEPT ![w] = Tail(@)]
  BY DEF Visit, Goto, Now
<1>2. PICK found \in SUBSET (Promised \cup {"quiet"}) :
        /\ todo' = [todo EXCEPT ![w] = found]
        /\ \A t \in found \cap Promised : Outstanding(t)
  <2> DEFINE found == {t \in Promised : Outstanding(t) /\ (Head(visits[w]) => OutlivesTheCheck(t))}
                        \cup (IF Head(visits[w]) THEN {} ELSE {"quiet"})
  <2>1. todo' = [todo EXCEPT ![w] = found]
    BY DEF Visit
  <2>2. found \in SUBSET (Promised \cup {"quiet"})
    OBVIOUS
  <2>3. \A t \in found \cap Promised : Outstanding(t)
    BY DEF Promised
  <2> QED BY <2>1, <2>2, <2>3
<1>3. TypeOK /\ post[w] = None /\ Now \in Readings /\ Now # None
  <2>1. TypeOK
    BY DEF IInv
  <2>2. Now \in Readings
    BY <2>1, Limits DEF TypeOK, ThreadTypes, Now, Readings
  <2> QED BY <1>1, <2>1, <2>2, NoneApart DEF TypeOK, WalkTypes
<1>4. \A v \in Walkers : v # w => pc[v] = "idle" /\ thread[v] = None /\ post[v] = None
  BY <1>1, <1>3, OneWalk
<1>5. WalkTypes'
  <2>1. visits' \in [Walkers -> Seq(BOOLEAN)]
    <3>1. visits \in [Walkers -> Seq(BOOLEAN)] /\ visits[w] # << >>
      BY <1>1, <1>3 DEF TypeOK, WalkTypes
    <3>2. Tail(visits[w]) \in Seq(BOOLEAN)
      BY <3>1
    <3> QED BY <1>1, <3>1, <3>2
  <2>2. thread' \in [Walkers -> Readings \cup {None}] /\ thread'[w] # None
        /\ \A v \in Walkers : v # w => thread'[v] = None
    BY <1>1, <1>3, <1>4 DEF TypeOK, WalkTypes
  <2>3. todo' \in [Walkers -> SUBSET (Promised \cup {"quiet"})]
    BY <1>2, <1>3 DEF TypeOK, WalkTypes
  <2> QED BY <1>1, <1>3, <1>4, <2>1, <2>2, <2>3 DEF TypeOK, WalkTypes
<1>6. TypeOK'
  BY <1>1, <1>3, <1>5 DEF TypeOK, ThreadTypes, WorldTypes, OtherTypes
<1>7. ThreadIsGood /\ ThreadIsGood'
  BY <1>1 DEF IInv, ThreadIsGood, Sound, Now, Shows, Dated, Told, OneLeft
<1>8. ReadIsGood(w)'
  <2>1. thread'[w] = Now /\ todo'[w] = found
    BY <1>1, <1>2, <1>3 DEF TypeOK, WalkTypes
  <2>2. Sound(Now)'/\ Now' = Now /\ \A t \in Topics : Shows(Now, t)'
    BY <1>1, <1>7 DEF ThreadIsGood, Now
  <2>3. Sound(thread[w])'
    BY <2>1, <2>2
  <2>4. \A t \in found \cap Promised : Now.newest[t] # None /\ ~ Now.newest[t].settled
    BY <1>2 DEF Outstanding, Now
  <2>5. Left(w)' \subseteq Topics
    BY TopicsApart DEF Left
  <2>6. \A t \in Left(w)' : Shows(thread[w], t)'
    BY <2>1, <2>2, <2>5
  <2> QED BY <2>1, <2>3, <2>4, <2>6 DEF ReadIsGood
<1>9. \A v \in Walkers : ReadIsGood(v)' /\ PostIsGood(v)'
  <2> SUFFICES ASSUME NEW v \in Walkers PROVE ReadIsGood(v)' /\ PostIsGood(v)'
    OBVIOUS
  <2>1. post'[v] = None
    BY <1>1, <1>3, <1>4 DEF TypeOK, WalkTypes
  <2>2. v # w => thread'[v] = None
    BY <1>1, <1>3, <1>4 DEF TypeOK, WalkTypes
  <2> QED BY <1>8, <2>1, <2>2 DEF ReadIsGood, PostIsGood
<1> QED BY <1>6, <1>7, <1>9 DEF IInv

\* Days pass, and a record is no older than the last ask.
LEMMA TickKeeps == ASSUME IInv, Tick
                   PROVE  IInv'
<1> USE DEF theThread, world, walk, history
<1>1. /\ newest' = [t \in Topics |-> IF newest[t] = None THEN None
                  ELSE [newest[t] EXCEPT !.age = AtMost(@ + 1, Interval(t))]]
      /\ gap' = [t \in Topics |-> AtMost(gap[t] + 1, Interval(t))]
      /\ night' = TRUE /\ spoken' = AtMost(spoken + 1, QuietAfter)
      /\ idle' = AtMost(idle + 1, RecentlyClosed)
      /\ due' = IF newest["reminder"] # None /\ due > 0 THEN due - 1 ELSE due
      /\ UNCHANGED <<unanswered, inside, teamed, holder, registered, copy, closed>>
      /\ UNCHANGED <<sweeping, pc, visits, thread, todo, post, scene, hands, faults, sent, removed>>
      /\ \A w \in Walkers : pc[w] = "idle"
  BY DEF Tick
<1>2. TypeOK /\ ThreadIsGood
  BY DEF IInv
<1>3. ASSUME NEW t \in Topics, newest[t] # None
      PROVE  /\ newest'[t] \in Record(t) /\ newest'[t] # None
             /\ newest'[t].n = newest[t].n /\ newest'[t].settled = newest[t].settled
             /\ newest'[t].age <= newest[t].age + 1
  <2>1. newest[t] \in Record(t)
    BY <1>2, <1>3 DEF TypeOK, ThreadTypes
  <2>2. newest[t] \in Records /\ newest[t].age \in Nat /\ newest[t].n <= Most(t) /\ Interval(t) \in Nat
    BY <2>1, RecordsOfTopics, Limits
  <2>3. newest'[t] = [newest[t] EXCEPT !.age = AtMost(newest[t].age + 1, Interval(t))]
    BY <1>1, <1>3
  <2>4. AtMost(newest[t].age + 1, Interval(t)) \in Nat /\ AtMost(newest[t].age + 1, Interval(t)) <= Interval(t)
        /\ AtMost(newest[t].age + 1, Interval(t)) <= newest[t].age + 1
    BY <2>2 DEF AtMost
  <2>5. newest'[t] \in Records /\ newest'[t].n = newest[t].n /\ newest'[t].settled = newest[t].settled
        /\ newest'[t].age = AtMost(newest[t].age + 1, Interval(t))
    BY <2>2, <2>3, <2>4 DEF Records
  <2>6. newest'[t] \in Record(t)
    BY <2>2, <2>4, <2>5, RecordsOfTopics
  <2> QED BY <2>4, <2>5, <2>6, NoneApart
<1>4. ASSUME NEW t \in Topics, newest[t] = None
      PROVE  newest'[t] = None
  BY <1>1, <1>4
<1>5. ASSUME NEW t \in Topics
      PROVE  gap'[t] \in Nat /\ gap'[t] <= Interval(t) /\ (gap'[t] < Interval(t) => gap[t] < Interval(t) /\ gap'[t] = gap[t] + 1)
  <2>1. gap[t] \in Nat /\ Interval(t) \in Nat /\ gap[t] <= Interval(t) /\ gap'[t] = AtMost(gap[t] + 1, Interval(t))
    BY <1>1, <1>2, Limits DEF TypeOK, OtherTypes
  <2> QED BY <2>1 DEF AtMost
<1>6. ThreadTypes'
  <2>1. \A t \in Topics : newest'[t] \in Record(t) \cup {None}
    BY <1>3, <1>4
  <2>2. newest' = [t \in Topics |-> newest'[t]]
    BY <1>1
  <2>3. newest' \in [Topics -> Records \cup {None}]
    BY <2>1, <2>2, RecordsOfTopics
  <2>4. spoken' \in 0..QuietAfter
    BY <1>1, <1>2, Limits DEF TypeOK, ThreadTypes, AtMost
  <2>5. idle' \in 0..RecentlyClosed
    BY <1>1, <1>2, Limits DEF TypeOK, ThreadTypes, AtMost
  <2>6. due' \in 0..DueIn
    BY <1>1, <1>2, Limits DEF TypeOK, ThreadTypes
  <2> QED BY <1>1, <1>2, <2>1, <2>3, <2>4, <2>5, <2>6 DEF TypeOK, ThreadTypes
<1>7. OtherTypes'
  <2>1. gap' \in [Topics -> Nat]
    BY <1>1, <1>5
  <2> QED BY <1>1, <1>2, <1>5, <2>1 DEF TypeOK, OtherTypes
<1>8. TypeOK'
  BY <1>1, <1>2, <1>6, <1>7 DEF TypeOK, WorldTypes, WalkTypes
<1>9. ThreadIsGood'
  <2>1. Sound(Now)'
    <3>1. ASSUME NEW t \in Topics, newest'[t] # None
          PROVE  newest'[t] \in Record(t) /\ OneLeft(t, newest'[t])
      <4>1. newest[t] # None
        BY <1>4, <3>1
      <4>2. OneLeft(t, newest[t])
        BY <1>2, <4>1 DEF ThreadIsGood, Sound, Now
      <4> QED BY <1>3, <4>1, <4>2 DEF OneLeft
    <3>2. \A t \in unanswered' : newest'[t] # None
      <4>1. unanswered' = unanswered /\ unanswered \subseteq Topics
        BY <1>1, <1>2, TopicsApart DEF TypeOK, ThreadTypes
      <4>2. \A t \in unanswered : newest[t] # None
        BY <1>2 DEF ThreadIsGood, Sound, Now
      <4> QED BY <1>3, <4>1, <4>2
    <3>3. unanswered' \subseteq People
      BY <1>1, <1>2 DEF TypeOK, ThreadTypes
    <3> QED BY <3>1, <3>2, <3>3 DEF Sound, Now
  <2>2. ASSUME NEW t \in Topics
        PROVE  Shows(Now, t)'
    <3>1. Shows(Now, t)
      BY <1>2 DEF ThreadIsGood
    <3>2. Told(Now, t)' = Told(Now, t)
      <4>1. CASE newest[t] = None
        <5>1. newest'[t] = None
          BY <1>4, <4>1
        <5>2. t \in People => t \notin unanswered
          BY <1>2, <4>1 DEF ThreadIsGood, Sound, Now
        <5> QED BY <1>1, <4>1, <5>1, <5>2 DEF Told, Now
      <4>2. CASE newest[t] # None
        BY ZenonT(40), <1>1, <1>3, <4>2 DEF Told, Now
      <4> QED BY <4>1, <4>2
    <3>3. Dated(Now, t)'
      <4> SUFFICES ASSUME gap'[t] < Interval(t)
                   PROVE  /\ newest'[t] # None /\ newest'[t].age <= gap'[t]
                          /\ t = "archive" => newest'[t].n > 0
                          /\ t \in People => t \in unanswered'
        BY DEF Dated, Now
      <4>1. gap[t] < Interval(t) /\ gap'[t] = gap[t] + 1 /\ gap[t] \in Nat
        BY <1>2, <1>5 DEF TypeOK, OtherTypes
      <4>2. /\ newest[t] # None /\ newest[t].age <= gap[t]
            /\ t = "archive" => newest[t].n > 0
            /\ t \in People => t \in unanswered
        BY <3>1, <4>1 DEF Shows, Dated, Now
      <4>3. newest'[t] \in Record(t) /\ newest[t] \in Record(t)
        BY <1>2, <1>3, <4>2 DEF TypeOK, ThreadTypes
      <4>4. newest'[t].age \in Nat /\ newest[t].age \in Nat
        BY <4>3, RecordsOfTopics
      <4>5. newest'[t].age <= newest[t].age + 1 /\ newest'[t] # None /\ newest'[t].n = newest[t].n
        BY <1>3, <4>2
      <4>6. newest'[t].age <= gap'[t]
        BY <4>1, <4>2, <4>4, <4>5
      <4> QED BY <1>1, <4>2, <4>5, <4>6
    <3>4. sent'[t] = sent[t]
      BY <1>1
    <3> QED BY <3>1, <3>2, <3>3, <3>4 DEF Shows
  <2> QED BY <2>1, <2>2 DEF ThreadIsGood
<1>10. \A w \in Walkers : ReadIsGood(w)' /\ PostIsGood(w)'
  BY <1>1, <1>2 DEF TypeOK, WalkTypes, ReadIsGood, PostIsGood
<1> QED BY <1>8, <1>9, <1>10 DEF IInv

-----------------------------------------------------------------------------
(* The handlers.                                                            *)

\* What a handler leaves alone, besides what it was given to do.
Handles(w, t) ==
  /\ Handling(w, t)
  /\ UNCHANGED <<newest, spoken, unanswered, due, idle, sent, gap, removed>>
  /\ UNCHANGED <<sweeping, visits, thread, night, scene, hands>>

\* It is about what it was given to answer.
IsAbout(p, t) == p.about = t \/ (t = "quiet" /\ p.about \in People)

\* A handler takes what it answers off the list, and says nothing or something
\* that is neither too soon nor too often.
LEMMA HandlerKeeps ==
  ASSUME IInv, NEW w \in Walkers, NEW t \in Promised \cup {"quiet"}, Handles(w, t),
         WorldTypes', Fault \/ UNCHANGED faults,
         \/ UNCHANGED <<post, pc>>
         \/ \E p \in Posts : /\ post' = [post EXCEPT ![w] = p]
                             /\ pc' = [pc EXCEPT ![w] = "post"]
                             /\ GoodPost(p) /\ IsAbout(p, t) /\ p.about \in Topics
  PROVE  IInv'
<1>1. TypeOK /\ pc[w] = "answer" /\ t \in todo[w] /\ todo' = [todo EXCEPT ![w] = @ \ {t}]
  BY DEF IInv, Handles, Handling
<1>2. todo' \in [Walkers -> SUBSET (Promised \cup {"quiet"})] /\ todo'[w] = todo[w] \ {t}
      /\ \A v \in Walkers : todo'[v] \subseteq todo[v]
  BY <1>1 DEF TypeOK, WalkTypes
<1>3. \A v \in Walkers : v # w => pc[v] = "idle" /\ thread[v] = None /\ post[v] = None
  BY <1>1, OneWalk
<1>4. post[w] = None /\ thread[w] # None
  BY <1>1 DEF TypeOK, WalkTypes
<1>5. ThreadTypes' /\ OtherTypes'
  <2>1. faults' \in 0..MaxFaults
    BY <1>1, Counted
  <2> QED BY <1>1, <2>1 DEF Handles, TypeOK, ThreadTypes, OtherTypes
<1>6. CASE UNCHANGED <<post, pc>>
  <2>1. WalkTypes'
    BY <1>1, <1>2, <1>6 DEF Handles, TypeOK, WalkTypes
  <2>2. TypeOK'
    BY <1>5, <2>1 DEF TypeOK
  <2> QED BY <1>2, <1>6, <2>2, NothingNew DEF Handles
<1>7. ASSUME NEW p \in Posts, post' = [post EXCEPT ![w] = p], pc' = [pc EXCEPT ![w] = "post"],
             GoodPost(p), IsAbout(p, t), p.about \in Topics
      PROVE  IInv'
  <2>1. post'[w] = p /\ p # None /\ post' \in [Walkers -> Posts \cup {None}]
        /\ \A v \in Walkers : v # w => post'[v] = post[v]
    BY <1>1, <1>7, NoneApart DEF TypeOK, WalkTypes
  <2>2. pc' \in [Walkers -> {"idle", "open", "closed", "visit", "answer", "post"}] /\ pc'[w] = "post"
        /\ \A v \in Walkers : v # w => pc'[v] = pc[v]
    BY <1>1, <1>7 DEF TypeOK, WalkTypes
  <2>3. WalkTypes'
    BY <1>1, <1>2, <1>3, <1>4, <2>1, <2>2 DEF Handles, TypeOK, WalkTypes
  <2>4. TypeOK'
    BY <1>5, <1>7, <2>3 DEF TypeOK
  <2>5. ThreadIsGood'
    BY DEF Handles, IInv, ThreadIsGood, Sound, Now, Shows, Dated, Told, OneLeft
  <2>6. \A v \in Walkers : Left(v)' \subseteq Left(v)
    BY <1>2 DEF Left
  <2>7. ReadIsGood(w)'
    <3>1. ReadIsGood(w) /\ thread' = thread /\ UNCHANGED <<sent, gap>>
      BY DEF IInv, Handles
    <3>2. Sound(thread[w])'
      BY <1>4, <3>1 DEF ReadIsGood, Sound, OneLeft
    <3>3. \A a \in Left(w)' : Shows(thread[w], a)'
      BY <1>4, <2>6, <3>1 DEF ReadIsGood, Shows, Dated, Told
    <3>4. \A a \in todo'[w] \cap Promised : thread'[w].newest[a] # None /\ ~ thread'[w].newest[a].settled
      BY <1>2, <1>4, <3>1 DEF ReadIsGood
    <3> QED BY <3>2, <3>3, <3>4 DEF ReadIsGood
  <2>8. PostIsGood(w)'
    <3>1. GoodPost(p)'
      BY <1>7 DEF Handles, GoodPost, GoodAsk, GoodWord, Overtaken, OneLeft
    <3>2. p.about \notin Left(w)'
      <4>1. CASE t = "quiet"
        <5>1. p.about \notin Promised /\ "quiet" \notin todo'[w]
          BY <1>2, <1>7, <4>1, TopicsApart DEF IsAbout, Promised, Topics
        <5> QED BY <5>1 DEF Left
      <4>2. CASE t # "quiet"
        <5>1. p.about = t /\ t \in Promised /\ t \notin People
          BY <1>7, <4>2, TopicsApart DEF IsAbout
        <5> QED BY <1>2, <5>1 DEF Left
      <4> QED BY <4>1, <4>2
    <3> QED BY <2>1, <3>1, <3>2 DEF PostIsGood
  <2>9. \A v \in Walkers : ReadIsGood(v)' /\ PostIsGood(v)'
    <3> SUFFICES ASSUME NEW v \in Walkers PROVE ReadIsGood(v)' /\ PostIsGood(v)'
      OBVIOUS
    <3>1. CASE v = w
      BY <2>7, <2>8, <3>1
    <3>2. CASE v # w
      <4>1. thread'[v] = None /\ post'[v] = None
        BY <1>3, <2>1, <3>2 DEF Handles
      <4> QED BY <4>1 DEF ReadIsGood, PostIsGood
    <3> QED BY <3>1, <3>2
  <2> QED BY <2>4, <2>5, <2>9 DEF IInv
<1> QED BY <1>6, <1>7

\* What a handler says is a post, and one that no person has overtaken yet.
LEMMA SaidIsPosted ==
  ASSUME NEW w \in Walkers, NEW about \in Topics, NEW record \in Records \cup {None}, NEW asks \in BOOLEAN,
         Say(w, about, record, asks)
  PROVE  LET p == [about |-> about, record |-> record, asks |-> asks, overtaken |-> FALSE]
         IN  p \in Posts /\ post' = [post EXCEPT ![w] = p] /\ pc' = [pc EXCEPT ![w] = "post"]
BY DEF Say, Goto, Posts

\* What a handler was given is a sound record that is still outstanding.
LEMMA GivenIsGood ==
  ASSUME IInv, NEW w \in Walkers, NEW t \in Promised, Handling(w, t)
  PROVE  LET told == thread[w].newest[t]
         IN  /\ told \in Record(t) /\ ~ told.settled /\ OneLeft(t, told)
             /\ gap[t] < Interval(t) => told.age <= gap[t] /\ (t = "archive" => told.n > 0)
             /\ sent[t] <= IF t = "reminder" THEN 0 ELSE told.n
             /\ sent[t] \in Nat /\ gap[t] \in Nat
<1>1. pc[w] = "answer" /\ t \in todo[w] /\ t \in Left(w) /\ t \in Topics /\ t \notin People
  BY TopicsApart DEF Handling, Left
<1>2. thread[w] # None /\ ReadIsGood(w) /\ TypeOK
  BY <1>1 DEF IInv, TypeOK, WalkTypes
<1>3. Sound(thread[w]) /\ Shows(thread[w], t) /\ thread[w].newest[t] # None /\ ~ thread[w].newest[t].settled
  BY <1>1, <1>2 DEF ReadIsGood
<1>4. sent[t] \in Nat /\ gap[t] \in Nat
  BY <1>1, <1>2 DEF TypeOK, OtherTypes
<1> QED BY <1>1, <1>3, <1>4 DEF Sound, Shows, Dated, Told

\* The copy: settled as it was counted, or asked about once more, at its time.
LEMMA FollowArchiveKeeps == ASSUME IInv, NEW w \in Walkers, FollowArchive(w)
                            PROVE  IInv'
<1> DEFINE told == thread[w].newest["archive"]
<1>1. Handles(w, "archive") /\ UNCHANGED <<faults, inside, teamed, holder, registered, copy, closed>>
  BY DEF FollowArchive, Handles, HandlerRest, theThread, history
<1>2. WorldTypes'
  BY <1>1 DEF IInv, TypeOK, WorldTypes
<1>3. /\ told \in Record("archive") /\ ~ told.settled /\ OneLeft("archive", told)
      /\ gap["archive"] < Interval("archive") => told.age <= gap["archive"] /\ told.n > 0
      /\ sent["archive"] <= told.n
      /\ sent["archive"] \in Nat /\ gap["archive"] \in Nat
  BY <1>1, GivenIsGood, TopicsApart DEF Handles
<1>4. told.n \in Nat /\ told.n + 1 \in Nat /\ told.n < MostArchive /\ told.n <= Most("archive") /\ told.n + 1 <= Most("archive")
      /\ told.age \in Nat /\ ArchiveEvery \in Nat /\ MostArchive \in Nat
  <2>1. told.n \in Nat /\ told.n <= Most("archive") /\ told.age \in Nat
    BY <1>3, RecordsOfTopics, TopicsApart
  <2>2. ArchiveEvery \in Nat /\ MostArchive \in Nat /\ Most("archive") = MostArchive
    BY Limits
  <2>3. told.n < MostArchive
    BY <1>3 DEF OneLeft
  <2> HIDE DEF told
  <2> QED BY <2>1, <2>2, <2>3
<1>5. ASSUME NEW n \in Nat, NEW s \in BOOLEAN, NEW asks \in BOOLEAN, n <= Most("archive"),
             Say(w, "archive", Raised(n, s), asks), ~ s => n < MostArchive,
             asks => gap["archive"] >= Interval("archive") /\ sent["archive"] < n,
             ~ asks => sent["archive"] <= n /\ (gap["archive"] < Interval("archive") => n > 0)
      PROVE  IInv'
  <2> DEFINE p == [about |-> "archive", record |-> Raised(n, s), asks |-> asks, overtaken |-> FALSE]
  <2>1. /\ Raised(n, s) \in Record("archive") /\ Raised(n, s) \in Records /\ Raised(n, s).n = n
        /\ Raised(n, s).settled = s /\ Raised(n, s).age = 0
    BY <1>5, RecordsOfTopics, TopicsApart
  <2>2. p \in Posts /\ post' = [post EXCEPT ![w] = p] /\ pc' = [pc EXCEPT ![w] = "post"]
    BY <1>5, <2>1, SaidIsPosted, TopicsApart
  <2>3. GoodPost(p)
    BY <1>5, <2>1, NoneApart DEF GoodPost, GoodAsk, GoodWord, OneLeft
  <2>4. IsAbout(p, "archive") /\ p.about \in Topics
    BY TopicsApart DEF IsAbout
  <2> HIDE DEF p
  <2> QED BY <1>1, <1>2, <2>2, <2>3, <2>4, HandlerKeeps, TopicsApart
<1>6. CASE Silent
  BY <1>1, <1>2, <1>6, HandlerKeeps, TopicsApart DEF Silent
<1>7. CASE Say(w, "archive", Raised(told.n, TRUE), FALSE)
  BY <1>3, <1>4, <1>5, <1>7
<1>8. CASE Say(w, "archive", Raised(told.n + 1, told.n + 1 = MostArchive), TRUE) /\ ~ (told.n > 0 /\ told.age < ArchiveEvery)
  <2>1. gap["archive"] >= Interval("archive")
    BY <1>3, <1>4, <1>8, Limits, TopicsApart
  <2>2. told.n + 1 # MostArchive => told.n + 1 < MostArchive
    BY <1>4
  <2>3. sent["archive"] < told.n + 1
    BY <1>3, <1>4
  <2> QED BY <1>4, <1>5, <1>8, <2>1, <2>2, <2>3
<1> QED BY <1>6, <1>7, <1>8 DEF FollowArchive

\* The owners: asked again at their time, or told that somebody has joined.
LEMMA FollowOrganisationKeeps == ASSUME IInv, NEW w \in Walkers, FollowOrganisation(w)
                                 PROVE  IInv'
<1> DEFINE told == thread[w].newest["organisation"]
<1>1. Handles(w, "organisation") /\ UNCHANGED <<registered, copy, closed, inside>>
  BY DEF FollowOrganisation, Handles, HandlerRest, theThread, history
<1>2. WorldTypes' /\ (Fault \/ UNCHANGED faults)
  <2>1. WorldTypes
    BY DEF IInv, TypeOK
  <2>2. CASE ~ inside
    BY <1>1, <2>1, <2>2 DEF FollowOrganisation, WorldTypes
  <2>3. CASE inside
    <3>1. Finish(w)
      BY <2>3 DEF FollowOrganisation
    <3>2. holder' \in People \cup {Nobody} /\ teamed' \in BOOLEAN /\ (Fault \/ UNCHANGED faults)
      BY <2>1, <3>1, TopicsApart DEF Finish, WorldTypes
    <3> QED BY <1>1, <2>1, <3>2 DEF WorldTypes
  <2> QED BY <2>2, <2>3
<1>3. CASE Silent
  BY <1>1, <1>2, <1>3, HandlerKeeps, TopicsApart DEF Silent
<1>4. CASE Say(w, "organisation", None, FALSE)
  <2> DEFINE p == [about |-> "organisation", record |-> None, asks |-> FALSE, overtaken |-> FALSE]
  <2>1. p \in Posts /\ post' = [post EXCEPT ![w] = p] /\ pc' = [pc EXCEPT ![w] = "post"]
    BY <1>4, SaidIsPosted, TopicsApart
  <2>2. GoodPost(p) /\ IsAbout(p, "organisation") /\ p.about \in Topics
    BY TopicsApart DEF GoodPost, GoodWord, IsAbout
  <2> HIDE DEF p
  <2> QED BY <1>1, <1>2, <2>1, <2>2, HandlerKeeps, TopicsApart
<1>5. CASE Say(w, "organisation", Raised(told.n + 1, FALSE), TRUE) /\ ~ (told.age < RemindAfter \/ told.n > MostReminders)
  <2> DEFINE p == [about |-> "organisation", record |-> Raised(told.n + 1, FALSE), asks |-> TRUE, overtaken |-> FALSE]
  <2>1. /\ told \in Record("organisation")
        /\ gap["organisation"] < Interval("organisation") => told.age <= gap["organisation"]
        /\ sent["organisation"] <= told.n
        /\ sent["organisation"] \in Nat /\ gap["organisation"] \in Nat
    BY <1>1, GivenIsGood, TopicsApart DEF Handles
  <2>2. told.n \in Nat /\ told.age \in Nat
    BY <2>1, RecordsOfTopics, TopicsApart
  <2>3. MostReminders \in Nat /\ RemindAfter \in Nat /\ Most("organisation") = MostReminders + 1
        /\ Interval("organisation") = RemindAfter
    BY Limits
  <2>4. told.n + 1 <= Most("organisation") /\ told.n + 1 \in Nat /\ sent["organisation"] < told.n + 1
        /\ gap["organisation"] >= Interval("organisation")
    <3>1. told.age >= RemindAfter /\ told.n <= MostReminders
      BY <1>5, <2>2, <2>3
    <3> HIDE DEF told
    <3> QED BY <2>1, <2>2, <2>3, <3>1
  <2>5. /\ Raised(told.n + 1, FALSE) \in Record("organisation") /\ Raised(told.n + 1, FALSE) \in Records
        /\ Raised(told.n + 1, FALSE).n = told.n + 1 /\ Raised(told.n + 1, FALSE).age = 0
    <3> HIDE DEF told
    <3> QED BY <2>4, RecordsOfTopics, TopicsApart
  <2>6. p \in Posts /\ post' = [post EXCEPT ![w] = p] /\ pc' = [pc EXCEPT ![w] = "post"]
    <3> HIDE DEF told
    <3> QED BY <1>5, <2>5, SaidIsPosted, TopicsApart
  <2>7. GoodPost(p) /\ IsAbout(p, "organisation") /\ p.about \in Topics
    <3> HIDE DEF told
    <3> QED BY <2>4, <2>5, NoneApart, TopicsApart DEF GoodPost, GoodAsk, OneLeft, IsAbout
  <2> HIDE DEF p
  <2> QED BY <1>1, <1>2, <2>6, <2>7, HandlerKeeps, TopicsApart
<1> QED BY <1>3, <1>4, <1>5 DEF FollowOrganisation, RemindTheOwners, Finish

\* A reminder is said on its day, and settled, and has not been said before.
LEMMA FollowReminderKeeps == ASSUME IInv, NEW w \in Walkers, FollowReminder(w)
                             PROVE  IInv'
<1>1. Handles(w, "reminder") /\ UNCHANGED <<faults, inside, teamed, holder, registered, copy, closed>>
  BY DEF FollowReminder, Handles, HandlerRest, theThread, history
<1>2. WorldTypes'
  BY <1>1 DEF IInv, TypeOK, WorldTypes
<1>3. CASE Silent
  BY <1>1, <1>2, <1>3, HandlerKeeps, TopicsApart DEF Silent
<1>4. CASE Say(w, "reminder", Raised(0, TRUE), TRUE)
  <2> DEFINE p == [about |-> "reminder", record |-> Raised(0, TRUE), asks |-> TRUE, overtaken |-> FALSE]
  <2>1. sent["reminder"] <= 0 /\ sent["reminder"] \in Nat /\ gap["reminder"] \in Nat
    BY <1>1, GivenIsGood, TopicsApart DEF Handles
  <2>2. 0 \in Nat /\ TRUE \in BOOLEAN /\ 0 <= Most("reminder") /\ Interval("reminder") = 0 /\ "reminder" \in Topics
    BY TopicsApart, Limits
  <2>3. Raised(0, TRUE) \in Record("reminder") /\ Raised(0, TRUE) \in Records
    BY <2>2, RecordsOfTopics
  <2>4. Raised(0, TRUE).settled /\ Raised(0, TRUE).age = 0
    BY DEF Raised
  <2>5. p \in Posts /\ post' = [post EXCEPT ![w] = p] /\ pc' = [pc EXCEPT ![w] = "post"]
    BY <1>4, <2>2, <2>3, SaidIsPosted
  <2>6. GoodPost(p)
    <3>1. p.about = "reminder" /\ p.record = Raised(0, TRUE) /\ p.asks /\ ~ p.overtaken
      OBVIOUS
    <3>2. sent["reminder"] = 0 /\ gap["reminder"] >= Interval("reminder")
      BY <2>1, <2>2
    <3>3. Raised(0, TRUE) # None
      BY <2>3, NoneApart
    <3> HIDE DEF p
    <3>4. GoodAsk(p)
      BY <2>4, <3>1, <3>2, <3>3 DEF GoodAsk
    <3> QED BY <2>3, <2>4, <3>1, <3>4 DEF GoodPost, OneLeft
  <2>7. IsAbout(p, "reminder") /\ p.about \in Topics
    BY <2>2 DEF IsAbout
  <2> HIDE DEF p
  <2> QED BY <1>1, <1>2, <2>5, <2>6, <2>7, HandlerKeeps, TopicsApart
<1> QED BY <1>3, <1>4 DEF FollowReminder

\* The codechecker of now is asked as the thread read before allows.
LEMMA QuietNudgeKeeps == ASSUME IInv, NEW w \in Walkers, QuietNudge(w)
                         PROVE  IInv'
<1> DEFINE read == thread[w]  told == thread[w].newest[holder]  again == holder \in thread[w].unanswered
<1>1. Handles(w, "quiet") /\ UNCHANGED <<faults, inside, teamed, holder, registered, copy, closed>>
  BY DEF QuietNudge, Handles, HandlerRest, theThread, history
<1>2. WorldTypes' /\ TypeOK
  BY <1>1 DEF IInv, TypeOK, WorldTypes
<1>3. CASE Silent
  BY <1>1, <1>2, <1>3, HandlerKeeps DEF Silent
<1>4. ASSUME NEW n \in Nat, Say(w, holder, Raised(n, TRUE), TRUE), n = IF again THEN told.n + 1 ELSE 1,
             ~ (again /\ (told.age < QuietAfter \/ told.n >= MostQuiet)), holder \in scene
      PROVE  IInv'
  <2>1. holder \in People /\ holder \in Topics /\ holder \in Left(w) /\ holder # "reminder" /\ holder # "archive"
    BY <1>1, <1>2, <1>4, TopicsApart DEF TypeOK, OtherTypes, WorldTypes, Handles, Handling, Left
  <2>2. Sound(read) /\ Shows(read, holder) /\ sent[holder] \in Nat /\ gap[holder] \in Nat
    <3>1. thread[w] # None /\ ReadIsGood(w)
      BY <1>1, <1>2 DEF IInv, TypeOK, WalkTypes, Handles, Handling
    <3> QED BY <1>2, <2>1, <3>1 DEF ReadIsGood, TypeOK, OtherTypes
  <2>3. QuietAfter \in Nat /\ MostQuiet \in Nat /\ MostQuiet > 0 /\ Interval(holder) = QuietAfter /\ Most(holder) = MostQuiet
    BY <2>1, Limits
  <2>4. n <= Most(holder) /\ sent[holder] < n /\ gap[holder] >= Interval(holder)
    <3>1. CASE again
      <4>1. told \in Record(holder) /\ sent[holder] <= told.n /\ (gap[holder] < Interval(holder) => told.age <= gap[holder])
        BY <2>1, <2>2, <3>1 DEF Sound, Shows, Told, Dated
      <4>2. told.n \in Nat /\ told.age \in Nat
        BY <2>1, <4>1, RecordsOfTopics
      <4>3. told.age >= QuietAfter /\ told.n < MostQuiet /\ n = told.n + 1
        BY <1>4, <2>3, <3>1, <4>2
      <4> HIDE DEF told
      <4> QED BY <2>2, <2>3, <4>1, <4>2, <4>3
    <3>2. CASE ~ again
      <4>1. sent[holder] <= 0 /\ ~ (gap[holder] < Interval(holder))
        BY <2>1, <2>2, <3>2 DEF Shows, Told, Dated
      <4> QED BY <1>4, <2>2, <2>3, <3>2, <4>1
    <3> QED BY <3>1, <3>2
  <2> DEFINE p == [about |-> holder, record |-> Raised(n, TRUE), asks |-> TRUE, overtaken |-> FALSE]
  <2>5. /\ Raised(n, TRUE) \in Record(holder) /\ Raised(n, TRUE) \in Records
        /\ Raised(n, TRUE).n = n /\ Raised(n, TRUE).age = 0
    BY <2>1, <2>4, RecordsOfTopics
  <2>6. p \in Posts /\ post' = [post EXCEPT ![w] = p] /\ pc' = [pc EXCEPT ![w] = "post"]
    BY <1>4, <2>1, <2>5, SaidIsPosted
  <2>7. GoodPost(p) /\ IsAbout(p, "quiet") /\ p.about \in Topics
    BY <2>1, <2>4, <2>5, NoneApart DEF GoodPost, GoodAsk, OneLeft, IsAbout
  <2> HIDE DEF p
  <2> QED BY <1>1, <1>2, <2>6, <2>7, HandlerKeeps
<1>5. CASE /\ Say(w, holder, Raised(IF again THEN told.n + 1 ELSE 1, TRUE), TRUE) /\ holder \in scene
           /\ ~ (again /\ (told.age < QuietAfter \/ told.n >= MostQuiet))
  <2>1. (IF again THEN told.n + 1 ELSE 1) \in Nat
    <3>1. CASE again
      <4>1. holder \in People /\ holder \in Topics
        BY <1>2, <1>5, TopicsApart DEF TypeOK, OtherTypes, WorldTypes
      <4>2. Sound(read)
        BY <1>1, <1>2 DEF IInv, ReadIsGood, TypeOK, WalkTypes, Handles, Handling
      <4>3. told \in Record(holder)
        BY <3>1, <4>1, <4>2 DEF Sound
      <4>4. told.n \in Nat
        BY <4>1, <4>3, RecordsOfTopics
      <4> QED BY <3>1, <4>4
    <3> QED BY <3>1
  <2> QED BY <1>4, <1>5, <2>1
<1> QED BY <1>3, <1>5 DEF QuietNudge

\* A handler that fails says nothing.
LEMMA HandlerFailsKeeps == ASSUME IInv, NEW w \in Walkers, HandlerFails(w)
                           PROVE  IInv'
<1>1. PICK t \in Promised \cup {"quiet"} : Handling(w, t)
  BY DEF HandlerFails
<1>2. Handles(w, t) /\ Fault /\ UNCHANGED <<post, pc, inside, teamed, holder, registered, copy, closed>>
  BY <1>1 DEF HandlerFails, Handles, theThread, world, history
<1>3. WorldTypes'
  BY <1>2 DEF IInv, TypeOK, WorldTypes
<1> QED BY <1>2, <1>3, HandlerKeeps

-----------------------------------------------------------------------------
(* The comment on the issue.                                                *)

\* A post that arrives is the newest record of what it is about, and every other
\* thread and history stays.
LEMMA LandLeaves ==
  ASSUME IInv, NEW w \in Walkers, pc[w] = "post", Land(w), NEW p \in Posts, p = post[w]
  PROVE  /\ \A t \in Topics : t # p.about =>
              /\ newest'[t] = newest[t] /\ sent'[t] = sent[t] /\ gap'[t] = gap[t]
              /\ t \in unanswered' <=> t \in unanswered
         /\ newest'[p.about] = IF p.record = None \/ (p.overtaken /\ p.about \in Promised)
                               THEN newest[p.about] ELSE p.record
         /\ IF p.asks /\ ~ p.overtaken
            THEN /\ sent'[p.about] = sent[p.about] + 1 /\ gap'[p.about] = 0
                 /\ p.about \in unanswered' <=> p.about \in People \cup unanswered
            ELSE /\ sent'[p.about] = sent[p.about] /\ gap'[p.about] = gap[p.about]
                 /\ p.about \in unanswered' <=> p.about \in unanswered
         /\ newest' \in [Topics -> Records \cup {None}] /\ unanswered' \subseteq People
         /\ sent' \in [Topics -> Nat] /\ gap' \in [Topics -> Nat]
<1>1. /\ newest \in [Topics -> Records \cup {None}] /\ unanswered \subseteq People
      /\ sent \in [Topics -> Nat] /\ gap \in [Topics -> Nat]
  BY DEF IInv, TypeOK, ThreadTypes, OtherTypes
<1>2. p.about \in Topics /\ p.record \in Records \cup {None} /\ p.asks \in BOOLEAN /\ p.overtaken \in BOOLEAN
  BY DEF Posts
<1>3. newest' = IF p.record = None \/ (p.overtaken /\ p.about \in Promised) THEN newest
                ELSE [newest EXCEPT ![p.about] = p.record]
  BY DEF Land
<1>4. CASE p.asks /\ ~ p.overtaken
  <2>1. /\ unanswered' = IF p.about \in People THEN unanswered \cup {p.about} ELSE unanswered
        /\ sent' = [sent EXCEPT ![p.about] = @ + 1]
        /\ gap' = [gap EXCEPT ![p.about] = 0]
    BY <1>4 DEF Land
  <2> QED BY <1>1, <1>2, <1>3, <1>4, <2>1
<1>5. CASE ~ (p.asks /\ ~ p.overtaken)
  <2>1. unanswered' = unanswered /\ sent' = sent /\ gap' = gap
    BY <1>5 DEF Land
  <2> QED BY <1>1, <1>2, <1>3, <1>5, <2>1
<1> QED BY <1>4, <1>5

\* A post that arrives shows what it asked, and hides no other ask.
LEMMA LandShows ==
  ASSUME IInv, NEW w \in Walkers, pc[w] = "post", Land(w)
  PROVE  /\ ThreadTypes' /\ ThreadIsGood'
         /\ sent' \in [Topics -> Nat] /\ gap' \in [Topics -> Nat]
         /\ \A t \in Topics : gap'[t] <= Interval(t)
<1>1. TypeOK /\ ThreadIsGood /\ post[w] # None /\ post[w] \in Posts /\ GoodPost(post[w])
  BY DEF IInv, TypeOK, WalkTypes, PostIsGood
<1>2. PICK p \in Posts : p = post[w]
  BY <1>1
<1>3. GoodPost(p) /\ p.about \in Topics /\ p.record \in Records \cup {None} /\ p.asks \in BOOLEAN /\ p.overtaken \in BOOLEAN
  BY <1>1, <1>2 DEF Posts
<1>4. /\ \A t \in Topics : t # p.about =>
           /\ newest'[t] = newest[t] /\ sent'[t] = sent[t] /\ gap'[t] = gap[t]
           /\ t \in unanswered' <=> t \in unanswered
      /\ newest'[p.about] = IF p.record = None \/ (p.overtaken /\ p.about \in Promised)
                            THEN newest[p.about] ELSE p.record
      /\ IF p.asks /\ ~ p.overtaken
         THEN /\ sent'[p.about] = sent[p.about] + 1 /\ gap'[p.about] = 0
              /\ p.about \in unanswered' <=> p.about \in People \cup unanswered
         ELSE /\ sent'[p.about] = sent[p.about] /\ gap'[p.about] = gap[p.about]
              /\ p.about \in unanswered' <=> p.about \in unanswered
      /\ newest' \in [Topics -> Records \cup {None}] /\ unanswered' \subseteq People
      /\ sent' \in [Topics -> Nat] /\ gap' \in [Topics -> Nat]
  BY <1>2, LandLeaves
<1>5. /\ \A t \in Topics : sent[t] \in Nat /\ gap[t] \in Nat /\ gap[t] <= Interval(t) /\ Interval(t) \in Nat
      /\ \A t \in Topics : newest[t] # None => newest[t] \in Record(t) /\ OneLeft(t, newest[t])
      /\ \A t \in Topics : newest[t] \in Record(t) \cup {None}
      /\ unanswered \subseteq People /\ \A t \in unanswered : newest[t] # None
  BY <1>1, Limits DEF TypeOK, ThreadTypes, OtherTypes, ThreadIsGood, Sound, Now
<1>6. \A t \in Topics : newest'[t] # None => newest'[t] \in Record(t) /\ OneLeft(t, newest'[t])
  BY <1>3, <1>4, <1>5 DEF GoodPost
<1>7. \A t \in Topics : newest[t] # None => newest'[t] # None
  BY <1>3, <1>4
<1>8. \A t \in unanswered' : newest'[t] # None
  <2> SUFFICES ASSUME NEW t \in unanswered' PROVE newest'[t] # None
    OBVIOUS
  <2>1. t \in Topics
    BY <1>4, TopicsApart
  <2>2. CASE t \in unanswered
    BY <1>5, <1>7, <2>1, <2>2
  <2>3. CASE t \notin unanswered
    <3>1. t = p.about /\ p.asks /\ ~ p.overtaken
      BY <1>4, <2>1, <2>3
    <3>2. p.record # None
      BY <1>3, <3>1 DEF GoodPost, GoodAsk
    <3> QED BY <1>4, <3>1, <3>2
  <2> QED BY <2>2, <2>3
<1>9. \A t \in Topics : gap'[t] <= Interval(t)
  BY <1>4, <1>5
<1>10. ThreadTypes'
  <2>1. idle' = 0 /\ UNCHANGED <<spoken, due>>
    BY DEF Land
  <2>2. 0 \in 0..RecentlyClosed
    BY Limits
  <2>3. \A t \in Topics : newest'[t] \in Record(t) \cup {None}
    BY <1>6
  <2> QED BY <1>1, <1>4, <2>1, <2>2, <2>3 DEF TypeOK, ThreadTypes
<1>11. ASSUME NEW t \in Topics, t # p.about
       PROVE  Shows(Now, t)'
  <2>1. Shows(Now, t)
    BY <1>1 DEF ThreadIsGood
  <2>2. newest'[t] = newest[t] /\ sent'[t] = sent[t] /\ gap'[t] = gap[t] /\ (t \in unanswered' <=> t \in unanswered)
    BY <1>4, <1>11
  <2>3. Told(Now, t)' = Told(Now, t)
    BY <2>2 DEF Told, Now
  <2>4. Dated(Now, t)'
    BY <2>1, <2>2 DEF Shows, Dated, Now
  <2> QED BY <2>1, <2>2, <2>3, <2>4 DEF Shows
<1>12. Shows(Now, p.about)'
  <2> DEFINE t == p.about
  <2>1. t \in Topics /\ Shows(Now, t)
    BY <1>1, <1>3 DEF ThreadIsGood
  <2>2. CASE p.asks /\ ~ p.overtaken
    <3>1. /\ newest'[t] = p.record /\ p.record # None /\ p.record \in Record(t) /\ p.record.age = 0
          /\ sent'[t] = sent[t] + 1 /\ gap'[t] = 0
          /\ t \in People => t \in unanswered'
          /\ GoodAsk(p)
      BY <1>3, <1>4, <2>2 DEF GoodPost, GoodAsk
    <3>2. p.record.n \in Nat
      BY <2>1, <3>1, RecordsOfTopics
    <3>3. sent'[t] <= Told(Now, t)'
      <4>1. CASE t = "reminder"
        BY <3>1, <4>1, TopicsApart DEF GoodAsk, Told, Now
      <4>2. CASE t # "reminder"
        BY <1>5, <2>1, <3>1, <3>2, <4>2 DEF GoodAsk, Told, Now
      <4> QED BY <4>1, <4>2
    <3>4. Dated(Now, t)'
      <4>1. t = "archive" => p.record.n > 0
        BY <1>5, <2>1, <3>1, <3>2 DEF GoodAsk
      <4> QED BY <3>1, <4>1 DEF Dated, Now
    <3> QED BY <3>3, <3>4 DEF Shows
  <2>3. CASE p.overtaken
    <3>1. /\ sent'[t] = sent[t] /\ gap'[t] = gap[t] /\ (t \in unanswered' <=> t \in unanswered)
          /\ ~ (gap[t] < Interval(t)) /\ (t \in People => t \notin unanswered /\ sent[t] = 0)
      BY <1>3, <1>4, <1>5, <2>3 DEF GoodPost, Overtaken
    <3>2. CASE t \in Promised
      <4>1. newest'[t] = newest[t]
        BY <1>4, <2>3, <3>2
      <4> QED BY <2>1, <3>1, <4>1 DEF Shows, Dated, Told, Now
    <3>3. CASE t \in People
      BY <3>1, <3>3 DEF Shows, Dated, Told, Now
    <3> QED BY <2>1, <3>2, <3>3, TopicsApart
  <2>4. CASE ~ p.asks /\ ~ p.overtaken
    <3>1. /\ sent'[t] = sent[t] /\ gap'[t] = gap[t] /\ (t \in unanswered' <=> t \in unanswered)
          /\ newest'[t] = IF p.record = None THEN newest[t] ELSE p.record
      BY <1>4, <2>4
    <3>2. CASE p.record = None
      BY <2>1, <3>1, <3>2 DEF Shows, Dated, Told, Now
    <3>3. CASE p.record # None
      <4>1. /\ t = "archive" /\ sent[t] <= p.record.n /\ p.record.age = 0
            /\ gap[t] < Interval(t) => p.record.n > 0
        BY <1>3, <2>4, <3>3 DEF GoodPost, GoodWord
      <4>2. gap[t] \in Nat /\ t \notin People /\ t # "reminder"
        BY <1>5, <2>1, <4>1, TopicsApart
      <4>3. newest'[t] = p.record
        BY <3>1, <3>3
      <4> HIDE DEF t
      <4>4. Dated(Now, t)'
        BY <3>1, <3>3, <4>1, <4>2, <4>3 DEF Dated, Now
      <4>5. Told(Now, t)' = p.record.n
        BY <3>3, <4>1, <4>2, <4>3 DEF Told, Now
      <4>6. Shows(Now, t)'
        BY <3>1, <4>1, <4>4, <4>5 DEF Shows
      <4> QED BY <4>6 DEF t
    <3> QED BY <3>2, <3>3
  <2> QED BY <1>3, <2>2, <2>3, <2>4
<1>13. ThreadIsGood'
  <2>1. Sound(Now)'
    BY <1>4, <1>6, <1>8 DEF Sound, Now
  <2> QED BY <1>11, <1>12, <2>1 DEF ThreadIsGood
<1> QED BY <1>4, <1>9, <1>10, <1>13

\* Once a post is on the issue, no walk is about to post.
LEMMA LandKeeps ==
  ASSUME IInv, NEW w \in Walkers, pc[w] = "post", Land(w), WorldTypes', WalkTypes',
         UNCHANGED <<scene, hands>>, Fault \/ UNCHANGED faults, night' \in BOOLEAN,
         \A v \in Walkers : post'[v] = None,
         \A v \in Walkers : thread'[v] = None \/ (thread'[v] = thread[v] /\ todo'[v] \subseteq todo[v])
  PROVE  IInv'
<1>1. /\ ThreadTypes' /\ ThreadIsGood' /\ sent' \in [Topics -> Nat] /\ gap' \in [Topics -> Nat]
      /\ \A t \in Topics : gap'[t] <= Interval(t)
  BY LandShows
<1>2. TypeOK /\ post[w] # None /\ post[w] \in Posts /\ post[w].about \notin Left(w)
  BY DEF IInv, TypeOK, WalkTypes, PostIsGood
<1>3. TypeOK'
  <2>1. faults' \in 0..MaxFaults /\ removed' \in BOOLEAN
    BY <1>2, Counted DEF Land, TypeOK, OtherTypes
  <2> QED BY <1>1, <1>2, <2>1 DEF TypeOK, OtherTypes
<1>4. ASSUME NEW v \in Walkers
      PROVE  ReadIsGood(v)' /\ PostIsGood(v)'
  <2>1. CASE thread'[v] = None
    BY <2>1 DEF ReadIsGood, PostIsGood
  <2>2. CASE thread'[v] # None
    <3>1. thread'[v] = thread[v] /\ todo'[v] \subseteq todo[v] /\ thread[v] # None
      BY <2>2
    <3>2. v = w
      BY <1>2, <3>1, OneWalk
    <3>3. ReadIsGood(v)
      BY DEF IInv
    <3>4. Left(v)' \subseteq Left(v) /\ Left(v) \subseteq Topics
      BY <3>1, TopicsApart DEF Left
    <3>5. ASSUME NEW t \in Left(v)'
          PROVE  Shows(thread[v], t)'
      <4>1. t \in Topics /\ t # post[w].about /\ Shows(thread[v], t)
        BY <1>2, <3>1, <3>2, <3>3, <3>4 DEF ReadIsGood
      <4>2. sent'[t] = sent[t] /\ gap'[t] = gap[t]
        BY <1>2, <4>1, LandLeaves
      <4> QED BY <3>1, <4>1, <4>2 DEF Shows, Dated, Told
    <3>6. Sound(thread[v])'
      BY <3>1, <3>3 DEF ReadIsGood, Sound, OneLeft
    <3>7. \A t \in todo'[v] \cap Promised : thread'[v].newest[t] # None /\ ~ thread'[v].newest[t].settled
      BY <3>1, <3>3 DEF ReadIsGood
    <3> QED BY <3>5, <3>6, <3>7 DEF ReadIsGood, PostIsGood
  <2> QED BY <2>1, <2>2
<1> QED BY <1>1, <1>3, <1>4 DEF IInv

\* The walk goes on to what it has still to answer.
LEMMA PostedTypes ==
  ASSUME IInv, NEW w \in Walkers, pc[w] = "post", Posted(w), UNCHANGED <<sweeping, visits, thread, todo>>
  PROVE  WalkTypes' /\ \A v \in Walkers : post'[v] = None
<1>1. post' = [post EXCEPT ![w] = None] /\ pc' = [pc EXCEPT ![w] = "answer"] /\ TypeOK
  BY DEF Posted, Goto, IInv
<1>2. \A v \in Walkers : v # w => pc[v] = "idle" /\ thread[v] = None /\ post[v] = None
  BY <1>1, OneWalk
<1>3. \A v \in Walkers : post'[v] = None
  BY <1>1, <1>2 DEF TypeOK, WalkTypes
<1>4. WalkTypes'
  BY <1>1, <1>2, <1>3 DEF TypeOK, WalkTypes
<1> QED BY <1>3, <1>4

\* A post that arrives, and one of which nothing is heard.
LEMMA PostKeeps == ASSUME IInv, NEW w \in Walkers, Post(w) \/ PostFails(w)
                   PROVE  IInv'
<1>1. /\ pc[w] = "post" /\ Posted(w) /\ (Fault \/ UNCHANGED faults)
      /\ UNCHANGED <<inside, teamed, holder, registered, copy, closed>>
      /\ UNCHANGED <<sweeping, visits, thread, todo, night, scene, hands>>
      /\ Land(w) \/ UNCHANGED <<newest, spoken, unanswered, due, idle, sent, gap, removed>>
  BY DEF Post, PostFails, world, theThread, history
<1>2. WalkTypes' /\ \A v \in Walkers : post'[v] = None
  BY <1>1, PostedTypes
<1>3. WorldTypes' /\ TypeOK
  BY <1>1 DEF IInv, TypeOK, WorldTypes
<1>4. night' \in BOOLEAN /\ faults' \in 0..MaxFaults
  BY <1>1, <1>3, Counted DEF TypeOK, OtherTypes
<1>5. CASE Land(w)
  BY <1>1, <1>2, <1>3, <1>4, <1>5, LandKeeps
<1>6. CASE UNCHANGED <<newest, spoken, unanswered, due, idle, sent, gap, removed>>
  <2>1. TypeOK'
    BY <1>1, <1>2, <1>3, <1>4, <1>6 DEF TypeOK, ThreadTypes, OtherTypes
  <2> QED BY <1>1, <1>2, <1>6, <2>1, NothingNew
<1> QED BY <1>1, <1>5, <1>6

\* A restart loses the walks, and what they had posted is on the issue or not.
LEMMA RestartKeeps == ASSUME IInv, Restart
                      PROVE  IInv'
<1>1. /\ sweeping' = Nobody /\ night' = TRUE /\ Fault
      /\ pc' = [w \in Walkers |-> "idle"] /\ visits' = [w \in Walkers |-> << >>]
      /\ thread' = [w \in Walkers |-> None] /\ todo' = [w \in Walkers |-> {}]
      /\ post' = [w \in Walkers |-> None]
      /\ UNCHANGED <<inside, teamed, holder, registered, copy, closed, scene, hands>>
      /\ \/ UNCHANGED <<newest, spoken, unanswered, due, idle, sent, gap, removed>>
         \/ \E w \in Walkers : pc[w] = "post" /\ Land(w)
  BY DEF Restart, world, theThread, history
<1>2. WalkTypes'
  <2>1. << >> \in Seq(BOOLEAN)
    OBVIOUS
  <2> QED BY <1>1, <2>1, TopicsApart DEF WalkTypes
<1>3. WorldTypes' /\ TypeOK
  BY <1>1 DEF IInv, TypeOK, WorldTypes
<1>4. CASE UNCHANGED <<newest, spoken, unanswered, due, idle, sent, gap, removed>>
  <2>1. faults' \in 0..MaxFaults
    BY <1>1, <1>3, Counted
  <2>2. TypeOK'
    BY <1>1, <1>2, <1>3, <1>4, <2>1 DEF TypeOK, ThreadTypes, OtherTypes
  <2> QED BY <1>1, <1>4, <2>2, NothingNew
<1>5. ASSUME NEW w \in Walkers, pc[w] = "post", Land(w)
      PROVE  IInv'
  BY <1>1, <1>2, <1>3, <1>5, LandKeeps
<1> QED BY <1>1, <1>4, <1>5

\* What a person writes starts the counting over: no ask about a person, or about
\* what is started, is owed to anybody, and what was to be said of it is overtaken.
LEMMA WritesStart ==
  ASSUME IInv, NEW started \in SUBSET Promised, Writes(started)
  PROVE  /\ sent' \in [Topics -> Nat] /\ gap' \in [Topics -> Nat]
         /\ \A t \in Topics : gap'[t] <= Interval(t)
         /\ \A t \in started \cup People : sent'[t] = 0 /\ gap'[t] = Interval(t)
         /\ \A t \in Topics : t \notin started \cup People =>
              t \in Promised /\ sent'[t] = sent[t] /\ gap'[t] = gap[t] /\ newest'[t] = newest[t]
<1>1. /\ sent' = [t \in Topics |-> IF t \in started \cup People THEN 0 ELSE sent[t]]
      /\ gap' = [t \in Topics |-> IF t \in started \cup People THEN Interval(t) ELSE gap[t]]
      /\ newest' = [t \in Topics |-> IF t \in started THEN Raised(0, FALSE) ELSE newest[t]]
  BY DEF Writes
<1>2. sent \in [Topics -> Nat] /\ gap \in [Topics -> Nat] /\ \A t \in Topics : gap[t] <= Interval(t)
  BY DEF IInv, TypeOK, OtherTypes
<1>3. \A t \in Topics : Interval(t) \in Nat
  BY Limits
<1>4. started \cup People \subseteq Topics /\ \A t \in Topics : t \in Promised \/ t \in People
  BY TopicsApart
<1>5. \A t \in started \cup People : sent'[t] = 0 /\ gap'[t] = Interval(t)
  BY <1>1, <1>4
<1>6. \A t \in Topics : t \notin started \cup People =>
        t \in Promised /\ sent'[t] = sent[t] /\ gap'[t] = gap[t] /\ newest'[t] = newest[t]
  BY <1>1, <1>4
<1>7. sent' \in [Topics -> Nat] /\ gap' \in [Topics -> Nat]
  BY <1>1, <1>2, <1>3
<1>8. \A t \in Topics : gap'[t] <= Interval(t)
  <2> SUFFICES ASSUME NEW t \in Topics PROVE gap'[t] <= Interval(t)
    OBVIOUS
  <2> QED BY <1>2, <1>3, <1>5, <1>6
<1> QED BY <1>5, <1>6, <1>7, <1>8

\* The thread after a person wrote.
LEMMA WritesShows ==
  ASSUME IInv, NEW started \in SUBSET Promised, Writes(started), due' \in 0..DueIn
  PROVE  ThreadTypes' /\ ThreadIsGood'
<1>1. /\ spoken' = 0 /\ unanswered' = {} /\ idle' = 0
      /\ newest' = [t \in Topics |-> IF t \in started THEN Raised(0, FALSE) ELSE newest[t]]
  BY DEF Writes
<1>2. TypeOK /\ Sound(Now) /\ \A t \in Topics : Shows(Now, t)
  BY DEF IInv, ThreadIsGood
<1>3. \A t \in started : t \in Promised /\ t \in Topics /\ newest'[t] = Raised(0, FALSE)
  BY <1>1, TopicsApart
<1>4. \A t \in Topics : t \notin started => newest'[t] = newest[t]
  BY <1>1
<1>5. ASSUME NEW t \in started
      PROVE  /\ newest'[t] \in Record(t) /\ newest'[t] \in Records
             /\ newest'[t].n = 0 /\ newest'[t].settled = FALSE /\ newest'[t] # None
             /\ OneLeft(t, newest'[t])
  <2> DEFINE r == Raised(0, FALSE)
  <2>1. t \in Topics /\ newest'[t] = r
    BY <1>3
  <2>2. Most(t) \in Nat /\ MostArchive \in Nat /\ MostArchive > 0
    BY <2>1, Limits
  <2>3. r \in Records /\ r.n = 0 /\ r.settled = FALSE
    BY <2>1, RecordsOfTopics
  <2>4. 0 <= Most(t)
    BY <2>2
  <2>5. r \in Record(t)
    BY <2>1, <2>4, RecordsOfTopics
  <2> HIDE DEF r
  <2> QED BY <2>1, <2>2, <2>3, <2>5, NoneApart DEF OneLeft
<1>6. ThreadTypes'
  <2>1. 0 \in 0..QuietAfter /\ 0 \in 0..RecentlyClosed
    BY Limits
  <2>2. newest \in [Topics -> Records \cup {None}] /\ \A t \in Topics : newest[t] \in Record(t) \cup {None}
    BY <1>2 DEF TypeOK, ThreadTypes
  <2>3. \A t \in Topics : newest'[t] \in Record(t) \cup {None} /\ newest'[t] \in Records \cup {None}
    BY <1>4, <1>5, <2>2
  <2>4. newest' \in [Topics -> Records \cup {None}]
    BY <1>1, <2>3
  <2> QED BY <1>1, <2>1, <2>3, <2>4 DEF ThreadTypes
<1>7. Sound(Now)'
  <2>1. ASSUME NEW t \in Topics, newest'[t] # None
        PROVE  newest'[t] \in Record(t) /\ OneLeft(t, newest'[t])
    <3>1. CASE t \in started
      BY <3>1, <1>5
    <3>2. CASE t \notin started
      BY <3>2, <1>2, <1>4, <2>1 DEF Sound, Now
    <3> QED BY <3>1, <3>2
  <2> QED BY <1>1, <2>1 DEF Sound, Now, OneLeft
<1>8. ASSUME NEW t \in Topics
      PROVE  Shows(Now, t)'
  <2>1. CASE t \in started \cup People
    <3>1. sent'[t] = 0 /\ gap'[t] = Interval(t) /\ Interval(t) \in Nat
      BY <2>1, WritesStart, Limits
    <3>2. Told(Now, t)' \in {0, 1}
      <4>1. CASE t \in People
        BY <1>1, <4>1 DEF Told, Now
      <4>2. CASE t \in started /\ t \notin People
        BY <1>5, <4>2 DEF Told, Now
      <4> QED BY <2>1, <4>1, <4>2
    <3>3. Dated(Now, t)'
      BY <3>1 DEF Dated
    <3> QED BY <3>1, <3>2, <3>3 DEF Shows
  <2>2. CASE t \notin started \cup People
    <3>1. t \in Promised /\ t \notin People /\ sent'[t] = sent[t] /\ gap'[t] = gap[t] /\ newest'[t] = newest[t]
      BY <2>2, WritesStart
    <3>2. Shows(Now, t)
      BY <1>2
    <3> QED BY <3>1, <3>2 DEF Shows, Dated, Told, Now
  <2> QED BY <2>1, <2>2
<1> QED BY <1>6, <1>7, <1>8 DEF ThreadIsGood

\* What a walk read before a person wrote is still good to go by.
LEMMA WritesRead ==
  ASSUME IInv, NEW started \in SUBSET Promised, Writes(started), NEW w \in Walkers
  PROVE  ReadIsGood(w)'
<1>1. UNCHANGED <<thread, todo>>
  BY DEF Writes, Hand
<1>2. SUFFICES ASSUME thread[w] # None
               PROVE  ReadIsGood(w)'
  BY <1>1 DEF ReadIsGood
<1>3. ReadIsGood(w) /\ TypeOK /\ Left(w)' = Left(w) /\ Left(w) \subseteq Topics
  BY <1>1, TopicsApart DEF IInv, Left
<1>4. Sound(thread[w]) /\ Sound(thread[w])'
  BY <1>1, <1>2, <1>3 DEF ReadIsGood, Sound, OneLeft
<1>5. ASSUME NEW t \in Left(w)
      PROVE  Shows(thread[w], t)'
  <2>1. t \in Topics /\ Shows(thread[w], t)
    BY <1>2, <1>3 DEF ReadIsGood
  <2>2. CASE t \in started \cup People
    <3>1. sent'[t] = 0 /\ gap'[t] = Interval(t) /\ Interval(t) \in Nat
      BY <2>1, <2>2, WritesStart, Limits
    <3>2. \A r \in Record(t) : r.n \in Nat
      BY <2>1, RecordsOfTopics
    <3>3. Told(thread[w], t) \in Nat
      BY <1>4, <2>1, <3>2 DEF Told, Sound
    <3>4. Told(thread[w], t)' = Told(thread[w], t)
      BY <1>1 DEF Told
    <3>5. Dated(thread[w], t)'
      BY <3>1 DEF Dated
    <3> QED BY <3>1, <3>3, <3>4, <3>5 DEF Shows
  <2>3. CASE t \notin started \cup People
    <3>1. sent'[t] = sent[t] /\ gap'[t] = gap[t]
      BY <2>1, <2>3, WritesStart
    <3> QED BY <1>1, <2>1, <3>1 DEF Shows, Dated, Told
  <2> QED BY <2>2, <2>3
<1>6. \A t \in todo'[w] \cap Promised : thread'[w].newest[t] # None /\ ~ thread'[w].newest[t].settled
  BY <1>1, <1>2, <1>3 DEF ReadIsGood
<1> QED BY <1>1, <1>3, <1>4, <1>5, <1>6 DEF ReadIsGood

\* What a walk is about to post has been overtaken, or is as it was.
LEMMA WritesPost ==
  ASSUME IInv, NEW started \in SUBSET Promised, Writes(started), NEW w \in Walkers
  PROVE  /\ PostIsGood(w)' /\ post'[w] \in Posts \cup {None}
         /\ post'[w] # None <=> post[w] # None
<1>1. /\ UNCHANGED <<thread, todo>> /\ unanswered' = {}
      /\ post'[w] = IF post[w] # None /\ post[w].about \in started \cup People
                    THEN [post[w] EXCEPT !.overtaken = TRUE] ELSE post[w]
  BY DEF Writes, Hand
<1>2. TypeOK /\ post[w] \in Posts \cup {None} /\ PostIsGood(w) /\ Left(w)' = Left(w)
  BY <1>1 DEF IInv, TypeOK, WalkTypes, Left
<1>3. CASE post[w] = None
  BY <1>1, <1>2, <1>3 DEF PostIsGood
<1>4. CASE post[w] # None
  <2>1. PICK p \in Posts : p = post[w]
    BY <1>2, <1>4
  <2>2. PICK q \in Posts : q = post'[w] /\ q.about = p.about /\ q.record = p.record /\ q.asks = p.asks
                           /\ IF p.about \in started \cup People THEN q.overtaken ELSE q = p
    BY <1>1, <1>4, <2>1 DEF Posts
  <2>3. p # None /\ q # None
    BY <2>1, <2>2, NoneApart
  <2>4. GoodPost(p) /\ p.about \notin Left(w) /\ p.about \in Topics /\ p.asks \in BOOLEAN
    BY <1>2, <1>4, <2>1 DEF PostIsGood, Posts
  <2>5. q.record # None => q.record \in Record(q.about) /\ OneLeft(q.about, q.record) /\ q.record.age = 0
    BY <2>2, <2>4 DEF GoodPost
  <2>6. sent[p.about] \in Nat
    BY <1>2, <2>4 DEF TypeOK, OtherTypes
  <2>7. p.record # None => p.record.n \in Nat
    BY <2>2, <2>4, <2>5, RecordsOfTopics
  <2>8. CASE p.about \in started \cup People
    <3>1. sent'[p.about] = 0 /\ gap'[p.about] = Interval(p.about) /\ Interval(p.about) \in Nat
      BY <2>4, <2>8, WritesStart, Limits
    <3>2. GoodAsk(p) => GoodAsk(q)'
      BY <2>2, <2>6, <2>7, <3>1 DEF GoodAsk
    <3>3. GoodWord(p) => GoodWord(q)'
      BY <2>2, <2>6, <2>7, <3>1 DEF GoodWord
    <3>4. Overtaken(q)'
      BY <1>1, <2>2, <3>1 DEF Overtaken
    <3>5. GoodPost(q)'
      BY <2>2, <2>4, <2>5, <3>2, <3>3, <3>4 DEF GoodPost, OneLeft
    <3> QED BY <1>2, <2>1, <2>2, <2>3, <2>4, <3>5 DEF PostIsGood
  <2>9. CASE p.about \notin started \cup People
    <3>1. sent'[p.about] = sent[p.about] /\ gap'[p.about] = gap[p.about] /\ q = p /\ p.about \notin People
      BY <2>2, <2>4, <2>9, WritesStart
    <3>2. GoodPost(q)'
      BY <2>4, <3>1 DEF GoodPost, GoodAsk, GoodWord, Overtaken, OneLeft
    <3> QED BY <1>2, <2>1, <2>2, <2>3, <2>4, <3>2 DEF PostIsGood
  <2> QED BY <2>8, <2>9
<1> QED BY <1>3, <1>4

\* A person writes on the issue.
LEMMA WritesKeeps ==
  ASSUME IInv, NEW started \in SUBSET Promised, Writes(started),
         WorldTypes', due' \in 0..DueIn, removed' \in BOOLEAN
  PROVE  IInv'
<1>1. /\ UNCHANGED <<night, scene, faults, sweeping, pc, visits, thread, todo>>
      /\ hands' = hands + 1 /\ hands < MaxHands
      /\ post' \in [Walkers -> Posts \cup {None}]
  <2>1. post' = [w \in Walkers |-> post'[w]]
    BY DEF Writes
  <2>2. \A w \in Walkers : post'[w] \in Posts \cup {None}
    BY WritesPost
  <2> QED BY <2>1, <2>2 DEF Writes, Hand
<1>2. TypeOK /\ hands' \in 0..MaxHands
  BY <1>1, Counted DEF IInv
<1>3. WalkTypes'
  BY <1>1, <1>2, WritesPost DEF TypeOK, WalkTypes
<1>4. OtherTypes'
  BY <1>1, <1>2, WritesStart DEF TypeOK, OtherTypes
<1>5. ThreadTypes' /\ ThreadIsGood'
  BY WritesShows
<1>6. \A w \in Walkers : ReadIsGood(w)' /\ PostIsGood(w)'
  BY WritesRead, WritesPost
<1> QED BY <1>3, <1>4, <1>5, <1>6 DEF IInv, TypeOK

\* What people do.
LEMMA HandsKeep == ASSUME IInv, Hands
                   PROVE  IInv'
<1> USE DEF world
<1>1. TypeOK /\ WorldTypes /\ due \in 0..DueIn /\ removed \in BOOLEAN /\ DueIn \in 0..DueIn
  BY Limits DEF IInv, TypeOK, ThreadTypes, OtherTypes
<1>2. {} \in SUBSET Promised /\ {"organisation"} \in SUBSET Promised
      /\ {"reminder"} \in SUBSET Promised /\ {"archive"} \in SUBSET Promised
  BY TopicsApart
<1>3. CASE Speak
  <2>1. Writes({}) /\ WorldTypes' /\ due' \in 0..DueIn /\ removed' \in BOOLEAN
    BY <1>1, <1>3 DEF Speak, WorldTypes
  <2> QED BY <1>2, <2>1, WritesKeeps
<1>4. CASE Ask
  <2>1. Writes({"organisation"}) /\ WorldTypes' /\ due' \in 0..DueIn /\ removed' \in BOOLEAN
    BY <1>1, <1>4 DEF Ask, WorldTypes
  <2> QED BY <1>2, <2>1, WritesKeeps
<1>5. ASSUME NEW p \in People, Assign(p)
      PROVE  IInv'
  <2>1. Writes({}) /\ WorldTypes' /\ due' \in 0..DueIn /\ removed' \in BOOLEAN
    BY <1>1, <1>5 DEF Assign, WorldTypes
  <2> QED BY <1>2, <2>1, WritesKeeps
<1>6. CASE Remove
  <2>1. Writes({}) /\ WorldTypes' /\ due' \in 0..DueIn /\ removed' \in BOOLEAN
    BY <1>1, <1>6 DEF Remove, WorldTypes
  <2> QED BY <1>2, <2>1, WritesKeeps
<1>7. CASE Remind
  <2>1. Writes({"reminder"}) /\ WorldTypes' /\ due' \in 0..DueIn /\ removed' \in BOOLEAN
    BY <1>1, <1>7 DEF Remind, WorldTypes
  <2> QED BY <1>2, <2>1, WritesKeeps
<1>8. CASE CheckFinish
  <2>1. Writes({"archive"}) /\ WorldTypes' /\ due' \in 0..DueIn /\ removed' \in BOOLEAN
    BY <1>1, <1>8 DEF CheckFinish, WorldTypes
  <2> QED BY <1>2, <2>1, WritesKeeps
<1>9. CASE Elsewhere \/ CloseOrReopen
  <2>1. /\ UNCHANGED <<newest, spoken, unanswered, due, sent, gap, removed, post>>
        /\ UNCHANGED <<night, scene, faults, sweeping, pc, visits, thread, todo>>
        /\ hands < MaxHands /\ hands' = hands + 1
        /\ idle' = 0 \/ idle' = idle
    BY <1>9 DEF Elsewhere, CloseOrReopen, Hand, theThread, history
  <2>2. WorldTypes'
    BY <1>1, <1>9 DEF Elsewhere, CloseOrReopen, WorldTypes
  <2>3. hands' \in 0..MaxHands /\ idle' \in 0..RecentlyClosed
    BY <1>1, <2>1, Counted, Limits DEF TypeOK, ThreadTypes
  <2>4. TypeOK'
    BY <1>1, <2>1, <2>2, <2>3 DEF TypeOK, ThreadTypes, WalkTypes, OtherTypes
  <2> QED BY <2>1, <2>4, NothingNew
<1> QED BY <1>3, <1>4, <1>5, <1>6, <1>7, <1>8, <1>9, TopicsApart DEF Hands

-----------------------------------------------------------------------------
(* The invariant.                                                           *)

\* Nobody has been asked, and the walks are to begin.
LEMMA Initially == ASSUME Init
                   PROVE  IInv
<1>1. /\ scene \in Scenes /\ spoken = 0 /\ unanswered = {} /\ due = DueIn /\ idle = 0
      /\ inside = FALSE /\ teamed = FALSE /\ registered = FALSE /\ copy = "open" /\ closed = FALSE
      /\ holder = IF scene \cap People # {} THEN Newcomer ELSE Nobody
      /\ sweeping = Nobody /\ night = TRUE /\ hands = 0 /\ faults = 0 /\ removed = FALSE
      /\ pc = [w \in Walkers |-> "idle"] /\ visits = [w \in Walkers |-> << >>]
      /\ thread = [w \in Walkers |-> None] /\ todo = [w \in Walkers |-> {}] /\ post = [w \in Walkers |-> None]
      /\ sent = [t \in Topics |-> 0] /\ gap = [t \in Topics |-> Interval(t)]
  BY DEF Init
<1>2. PICK begun \in SUBSET Promised :
        newest = [t \in Topics |-> IF t \in begun THEN Raised(0, FALSE) ELSE None]
  <2>1. scene \cap {"archive", "organisation"} \subseteq Promised
    BY TopicsApart
  <2> QED BY <2>1 DEF Init
<1>3. ASSUME NEW t \in Topics, newest[t] # None
      PROVE  /\ newest[t] \in Record(t) /\ newest[t] \in Records /\ newest[t].n = 0
             /\ OneLeft(t, newest[t]) /\ t \notin People
  <2> DEFINE r == Raised(0, FALSE)
  <2>1. newest[t] = r /\ t \in begun
    BY <1>2, <1>3
  <2>2. Most(t) \in Nat /\ MostArchive \in Nat /\ MostArchive > 0
    BY Limits
  <2>3. r \in Records /\ r.n = 0
    BY RecordsOfTopics
  <2>4. 0 <= Most(t)
    BY <2>2
  <2>5. r \in Record(t)
    BY <2>4, RecordsOfTopics
  <2> HIDE DEF r
  <2> QED BY <2>1, <2>2, <2>3, <2>5, TopicsApart DEF OneLeft
<1>4. \A t \in Topics : Interval(t) \in Nat
  BY Limits
<1>5. ThreadTypes
  <2>1. newest \in [Topics -> Records \cup {None}]
    BY <1>2, <1>3
  <2>2. 0 \in 0..QuietAfter /\ 0 \in 0..RecentlyClosed /\ DueIn \in 0..DueIn
    BY Limits
  <2> QED BY <1>1, <1>3, <2>1, <2>2 DEF ThreadTypes
<1>6. WorldTypes
  BY <1>1, TopicsApart DEF WorldTypes
<1>7. WalkTypes
  <2>1. << >> \in Seq(BOOLEAN)
    OBVIOUS
  <2> QED BY <1>1, <2>1, TopicsApart DEF WalkTypes
<1>8. OtherTypes
  <2>1. gap \in [Topics -> Nat] /\ \A t \in Topics : gap[t] <= Interval(t)
    BY <1>1, <1>4
  <2>2. 0 \in 0..MaxHands /\ 0 \in 0..MaxFaults /\ scene \subseteq Topics
    BY <1>1, FollowUpAssumption
  <2> QED BY <1>1, <2>1, <2>2 DEF OtherTypes
<1>9. Sound(Now)
  BY <1>1, <1>3 DEF Sound, Now
<1>10. ASSUME NEW t \in Topics
       PROVE  Shows(Now, t)
  <2>1. sent[t] = 0 /\ gap[t] = Interval(t) /\ Interval(t) \in Nat
    BY <1>1, <1>4
  <2>2. Told(Now, t) \in {0, 1}
    BY <1>1, <1>3 DEF Told, Now
  <2>3. Dated(Now, t)
    BY <2>1 DEF Dated
  <2> QED BY <2>1, <2>2, <2>3 DEF Shows
<1>11. \A w \in Walkers : ReadIsGood(w) /\ PostIsGood(w)
  BY <1>1 DEF ReadIsGood, PostIsGood
<1> QED BY <1>5, <1>6, <1>7, <1>8, <1>9, <1>10, <1>11 DEF IInv, TypeOK, ThreadIsGood

\* Every step keeps the invariant.
LEMMA StepKeeps == ASSUME IInv, [Next]_vars
                   PROVE  IInv'
<1>1. CASE UNCHANGED vars
  <2>1. /\ UNCHANGED <<newest, spoken, unanswered, due, idle>>
        /\ UNCHANGED <<inside, teamed, holder, registered, copy, closed>>
        /\ UNCHANGED <<sweeping, pc, visits, thread, todo, post>>
        /\ UNCHANGED <<night, scene, hands, faults, sent, gap, removed>>
    BY <1>1 DEF vars, theThread, world, walk, history
  <2>2. TypeOK'
    BY <2>1 DEF IInv, TypeOK, ThreadTypes, WorldTypes, WalkTypes, OtherTypes
  <2> QED BY <2>1, <2>2, NothingNew
<1>2. CASE Tick
  BY <1>2, TickKeeps
<1>3. CASE StartNightly \/ StartCommand
  <2>1. hands' \in 0..MaxHands /\ night' \in BOOLEAN
    BY <1>3, Counted DEF StartNightly, StartCommand, IInv, TypeOK, OtherTypes
  <2>2. Start("nightly") \/ Start("command")
    BY <1>3 DEF StartNightly, StartCommand
  <2>3. "nightly" \in Walkers /\ "command" \in Walkers
    BY DEF Walkers
  <2> QED BY <2>1, <2>2, <2>3, StartKeeps
<1>4. ASSUME NEW w \in Walkers, Walk(w) \/ Fails(w)
      PROVE  IInv'
  <2>1. CASE List(w) \/ ListFails(w)
    BY <2>1, ListKeeps
  <2>2. CASE Visit(w)
    BY <2>2, VisitKeeps
  <2>3. CASE Leave(w) \/ VisitFails(w)
    BY <2>3, LeaveKeeps
  <2>4. CASE FollowArchive(w)
    BY <2>4, FollowArchiveKeeps
  <2>5. CASE FollowOrganisation(w)
    BY <2>5, FollowOrganisationKeeps
  <2>6. CASE FollowReminder(w)
    BY <2>6, FollowReminderKeeps
  <2>7. CASE QuietNudge(w)
    BY <2>7, QuietNudgeKeeps
  <2>8. CASE HandlerFails(w)
    BY <2>8, HandlerFailsKeeps
  <2>9. CASE Post(w) \/ PostFails(w)
    BY <2>9, PostKeeps
  <2> QED BY <1>4, <2>1, <2>2, <2>3, <2>4, <2>5, <2>6, <2>7, <2>8, <2>9 DEF Walk, Fails
<1>5. CASE Restart
  BY <1>5, RestartKeeps
<1>6. CASE Hands
  BY <1>6, HandsKeep
<1> QED BY <1>1, <1>2, <1>3, <1>4, <1>5, <1>6 DEF Next

\* The thread shows every ask to whoever goes by it, and what is about to be posted
\* comes neither too soon nor uncounted, whatever people and failures did meanwhile.
THEOREM FollowUpInvariance == Spec => []IInv
<1>1. Init => IInv
  BY Initially
<1>2. IInv /\ [Next]_vars => IInv'
  BY StepKeeps
<1> QED BY <1>1, <1>2, PTL DEF Spec

\* Every variable holds a value of its type, a record never counts past its last
\* reminder, and the lock is held exactly while its walk runs (Server.nudge).
THEOREM FollowUpTypes == Spec => []TypeOK
<1>1. IInv => TypeOK
  BY DEF IInv
<1> QED BY <1>1, FollowUpInvariance, PTL

\* The asking stops: nobody is asked about one thing more often than the limit on
\* it, for any limits and any number of restarts (remindTheOwners, followArchive,
\* quietNudge).
THEOREM AskingStops == Spec => []NeverTooOften
<1>1. ASSUME IInv, NEW t \in Topics
      PROVE  sent[t] <= Most(t)
  <2>1. sent[t] \in Nat /\ Sound(Now) /\ sent[t] <= Told(Now, t)
    BY <1>1 DEF IInv, TypeOK, OtherTypes, ThreadIsGood, Shows
  <2>2. newest[t] # None => newest[t].n \in Nat /\ newest[t].n <= Most(t)
    BY <2>1, RecordsOfTopics DEF Sound, Now
  <2>3. Most(t) \in Nat /\ Most(t) > 0
    BY Limits
  <2>4. t \in unanswered => newest[t] # None
    BY <2>1 DEF Sound, Now
  <2>5. Told(Now, t) \in Nat /\ Told(Now, t) <= Most(t)
    BY <2>2, <2>3, <2>4 DEF Told, Now
  <2> QED BY <2>1, <2>3, <2>5
<1>2. IInv => NeverTooOften
  BY <1>1 DEF NeverTooOften
<1> QED BY <1>2, FollowUpInvariance, PTL

\* A post that counts is an ask that does not come too soon.
LEMMA LandIsSpaced ==
  ASSUME IInv, NEW w \in Walkers, pc[w] = "post", Land(w), NEW t \in Topics, sent'[t] > sent[t]
  PROVE  gap[t] >= Interval(t)
<1>1. post[w] \in Posts /\ GoodPost(post[w]) /\ sent \in [Topics -> Nat]
  BY DEF IInv, TypeOK, WalkTypes, OtherTypes, PostIsGood
<1>2. sent[t] \in Nat /\ sent'[t] # sent[t]
  BY <1>1
<1>3. post[w].asks /\ ~ post[w].overtaken /\ post[w].about = t
  BY <1>1, <1>2 DEF Land
<1> QED BY <1>1, <1>3 DEF GoodPost, GoodAsk

\* Two walks never ask about the same thing within its interval, unless a person
\* started it over, for any intervals: whoever runs the walk, whatever is closed
\* while it lists, and whether or not the bot heard that its comment had arrived.
THEOREM AsksAreSpaced == Spec => Spaced
<1>1. ASSUME IInv, [Next]_vars, NEW t \in Topics, sent'[t] > sent[t]
      PROVE  gap[t] >= Interval(t)
  <2>1. sent[t] \in Nat
    BY <1>1 DEF IInv, TypeOK, OtherTypes
  <2>2. CASE sent' = sent
    BY <1>1, <2>1, <2>2
  <2>3. CASE \E started \in SUBSET Promised : Writes(started)
    <3>1. sent'[t] = 0 \/ sent'[t] = sent[t]
      BY <1>1, <2>3, WritesStart
    <3> QED BY <1>1, <2>1, <3>1
  <2>4. CASE \E w \in Walkers : pc[w] = "post" /\ Land(w)
    BY <1>1, <2>4, LandIsSpaced
  <2>5. \/ sent' = sent
        \/ \E started \in SUBSET Promised : Writes(started)
        \/ \E w \in Walkers : pc[w] = "post" /\ Land(w)
    <3> USE DEF history
    <3>1. CASE UNCHANGED vars \/ Tick \/ StartNightly \/ StartCommand
      BY <3>1 DEF vars, Tick, StartNightly, StartCommand, Start
    <3>2. ASSUME NEW w \in Walkers, Walk(w) \/ Fails(w)
          PROVE  sent' = sent \/ (pc[w] = "post" /\ Land(w))
      <4>1. CASE List(w) \/ Visit(w) \/ Leave(w) \/ ListFails(w) \/ VisitFails(w) \/ HandlerFails(w)
        BY <4>1 DEF List, Visit, Leave, ListFails, VisitFails, HandlerFails
      <4>2. CASE FollowArchive(w) \/ FollowOrganisation(w) \/ FollowReminder(w) \/ QuietNudge(w)
        BY <4>2 DEF FollowArchive, FollowOrganisation, FollowReminder, QuietNudge, HandlerRest
      <4>3. CASE Post(w) \/ PostFails(w)
        BY <4>3 DEF Post, PostFails
      <4> QED BY <3>2, <4>1, <4>2, <4>3 DEF Walk, Fails
    <3>3. CASE Restart
      BY <3>3 DEF Restart
    <3>4. CASE Hands
      <4>1. {} \in SUBSET Promised /\ {"organisation"} \in SUBSET Promised
            /\ {"reminder"} \in SUBSET Promised /\ {"archive"} \in SUBSET Promised
        BY TopicsApart
      <4> QED BY <3>4, <4>1 DEF Hands, Speak, Ask, Assign, Remove, Remind, CheckFinish, Elsewhere, CloseOrReopen
    <3> QED BY <1>1, <3>1, <3>2, <3>3, <3>4 DEF Next
  <2> QED BY <2>2, <2>3, <2>4, <2>5
<1>2. IInv /\ [Next]_vars => [\A t \in Topics : sent'[t] > sent[t] => gap[t] >= Interval(t)]_vars
  BY <1>1
<1> QED BY <1>2, FollowUpInvariance, PTL DEF Spec, Spaced
=============================================================================
