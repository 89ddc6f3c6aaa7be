------------------------------ MODULE FollowUp ------------------------------
(***************************************************************************)
(* What a reply leaves outstanding on one check, and the walk of the       *)
(* register that picks it up (nudge.go, nudges.go, organisation.go,        *)
(* archive.go, remind.go and stalled.go in internal/bot).                  *)
(*                                                                         *)
(* The thread is the only memory: the newest signed record about a subject *)
(* is its state, and a reminder leaves a fresh one.  The nightly timer and *)
(* an editor's `nudge` run the same walk, under a lock that is tried and   *)
(* not waited for.  A walk reads an issue's thread once and then answers   *)
(* what it found, while editors go on giving commands.                     *)
(*                                                                         *)
(* Time is counted in days.  A walk ends on the day it began, as           *)
(* sweepTimeout (15 minutes) sees to.                                      *)
(***************************************************************************)
EXTENDS Naturals, Sequences

CONSTANTS
  Newcomer, Other,  \* who an editor asked for, and another codechecker
  Nobody, None,
  Scenes,           \* which follow-ups the check may have
  RemindAfter, MostReminders,  \* of the owners
  ArchiveEvery, MostArchive,   \* of the handling editor
  QuietAfter, MostQuiet,       \* of the codechecker
  RecentlyClosed,   \* how long the sweep still reads a closed check
  DueIn,            \* days until a reminder
  MaxHands,         \* bound on what people do
  MaxFaults         \* bound on failed requests and restarts

People == {Newcomer, Other}
Walkers == {"nightly", "command"}
Promised == {"archive", "organisation", "reminder"}

\* What a record is about: its kind and, for the quiet nudge, its subject.
Topics == Promised \cup People

\* A record of a thread, what is read of a thread, and what is about to be posted.
Records == [n : Nat, settled : BOOLEAN, age : Nat]
Readings == [newest : [Topics -> Records \cup {None}], spoken : Nat, unanswered : SUBSET People]
Posts == [about : Topics, record : Records \cup {None}, asks : BOOLEAN, overtaken : BOOLEAN]

ASSUME FollowUpAssumption ==
  /\ Newcomer # Other /\ People \cap Promised = {} /\ Nobody \notin Topics \cup Walkers
  /\ None \notin Records \cup Readings \cup Posts
  /\ {RemindAfter, MostReminders, ArchiveEvery, MostArchive,
      QuietAfter, MostQuiet, RecentlyClosed, DueIn} \subseteq Nat \ {0}
  /\ MaxHands \in Nat /\ MaxFaults \in Nat
  /\ Scenes \subseteq SUBSET Topics

VARIABLES
  newest,      \* the newest record about each topic, None when there is none
  spoken,      \* days since a person last wrote on the issue
  unanswered,  \* codecheckers asked since then
  due,         \* days until the reminder is due
  idle,        \* days since the issue last changed
  inside, teamed,  \* the newcomer is in the organisation, and in the team
  holder,      \* the assigned codechecker in the record of the check
  registered,  \* register.csv has the check's row
  copy,        \* the copy of the repository under check
  closed,      \* the issue is
  sweeping,    \* the walk that holds the lock
  night,       \* the nightly timer has fired, or is about to
  pc,          \* each walk: how far it is
  visits,      \* the listings the issue was found in and is still to be read for
  thread,      \* the thread as the walk read it
  todo,        \* what it found there and has still to answer, and the nudge after it
  post,        \* what it is about to post
  scene, hands, faults,
  sent,        \* history: times somebody was asked by a walk, since a person was
  gap,         \* history: days since a walk last asked, up to its interval
  removed      \* history: an editor's last word is that the newcomer is not it

theThread == <<newest, spoken, unanswered, due, idle>>
world == <<inside, teamed, holder, registered, copy, closed>>
walk == <<sweeping, pc, visits, thread, todo, post>>
history == <<sent, gap, removed>>
vars == <<theThread, world, walk, night, scene, hands, faults, history>>

Interval(t) == CASE t = "archive" -> ArchiveEvery
                 [] t = "organisation" -> RemindAfter
                 [] t = "reminder" -> 0
                 [] OTHER -> QuietAfter

\* The owners are asked once more than they are reminded, to say it is the last.
Most(t) == CASE t = "archive" -> MostArchive
             [] t = "organisation" -> MostReminders + 1
             [] t = "reminder" -> 1
             [] OTHER -> MostQuiet

AtMost(n, most) == IF n < most THEN n ELSE most

Raised(n, settled) == [n |-> n, settled |-> settled, age |-> 0]

Init ==
  /\ scene \in Scenes
  /\ \E begun \in SUBSET (scene \cap {"archive", "organisation"}) :
       newest = [t \in Topics |-> IF t \in begun THEN Raised(0, FALSE) ELSE None]
  /\ spoken = 0 /\ unanswered = {} /\ due = DueIn /\ idle = 0
  /\ inside = FALSE /\ teamed = FALSE
  /\ holder = IF scene \cap People # {} THEN Newcomer ELSE Nobody
  /\ registered = FALSE /\ copy = "open" /\ closed = FALSE
  /\ sweeping = Nobody /\ night = TRUE
  /\ pc = [w \in Walkers |-> "idle"]
  /\ visits = [w \in Walkers |-> << >>]
  /\ thread = [w \in Walkers |-> None]
  /\ todo = [w \in Walkers |-> {}]
  /\ post = [w \in Walkers |-> None]
  /\ hands = 0 /\ faults = 0
  /\ sent = [t \in Topics |-> 0]
  /\ gap = [t \in Topics |-> Interval(t)]
  /\ removed = FALSE

Goto(w, place) == pc' = [pc EXCEPT ![w] = place]
Fault == faults < MaxFaults /\ faults' = faults + 1

\* A night passes, and the timer fires again.
Tick ==
  /\ \A w \in Walkers : pc[w] = "idle"
  /\ ~ night /\ night' = TRUE
  /\ newest' = [t \in Topics |-> IF newest[t] = None THEN None
                  ELSE [newest[t] EXCEPT !.age = AtMost(@ + 1, Interval(t))]]
  /\ spoken' = AtMost(spoken + 1, QuietAfter)
  /\ due' = IF newest["reminder"] # None /\ due > 0 THEN due - 1 ELSE due
  /\ idle' = AtMost(idle + 1, RecentlyClosed)
  /\ gap' = [t \in Topics |-> AtMost(gap[t] + 1, Interval(t))]
  /\ UNCHANGED <<unanswered, world, walk, scene, hands, faults, sent, removed>>

-----------------------------------------------------------------------------
(* The walk.                                                                *)

\* Deviation: the walk does not ask for the lock.
TryLockNot(w) == sweeping' = w /\ Goto(w, "open")

\* One walk at a time: a second one says so and does nothing.
TryLock(w) ==
  \/ sweeping = Nobody /\ sweeping' = w /\ Goto(w, "open")
  \/ sweeping # Nobody /\ UNCHANGED <<sweeping, pc>>

Start(w) ==
  /\ pc[w] = "idle"
  /\ TryLock(w)
  /\ UNCHANGED <<theThread, world, visits, thread, todo, post, scene, faults, history>>

StartNightly == night /\ night' = FALSE /\ Start("nightly") /\ UNCHANGED hands

\* `nudge`, given on another issue.
StartCommand == hands < MaxHands /\ hands' = hands + 1 /\ Start("command") /\ UNCHANGED night

\* The open issues are listed, and then those closed and still talked about: an
\* issue closed in between is found twice.
List(w) ==
  /\ \/ /\ pc[w] = "open"
        /\ visits' = [visits EXCEPT ![w] = IF closed THEN << >> ELSE <<FALSE>>]
        /\ Goto(w, "closed")
     \/ /\ pc[w] = "closed"
        /\ visits' = [visits EXCEPT ![w] =
             IF closed /\ idle < RecentlyClosed THEN Append(@, TRUE) ELSE @]
        /\ Goto(w, "visit")
  /\ UNCHANGED <<theThread, world, sweeping, thread, todo, post, night, scene, hands, faults, history>>

\* Deviation: the early return forgets the lock.
ListFailsLocked(w) ==
  /\ pc[w] = "open" /\ Fault
  /\ Goto(w, "idle") /\ UNCHANGED <<sweeping, visits>>
  /\ UNCHANGED <<theThread, world, thread, todo, post, night, scene, hands, history>>

\* Without the open issues the walk is over; without the closed ones it goes on.
ListFails(w) ==
  /\ pc[w] \in {"open", "closed"} /\ Fault
  /\ IF pc[w] = "open" THEN Goto(w, "idle") /\ sweeping' = Nobody
                       ELSE Goto(w, "visit") /\ UNCHANGED sweeping
  /\ UNCHANGED <<theThread, world, visits, thread, todo, post, night, scene, hands, history>>

\* Deviation: nothing outlives the check.
OutlivesTheCheckNever(t) == FALSE

OutlivesTheCheck(t) == t = "archive"

\* Deviation: what the bot has given up asking for is no longer outstanding.
OutstandingUntilGivenUp(t) ==
  newest[t] # None /\ ~ newest[t].settled /\ newest[t].n < Most(t)

\* The newest record about it has not been settled.
Outstanding(t) == newest[t] # None /\ ~ newest[t].settled

\* The comments of the issue, read once for the follow-ups and the nudges alike.
Visit(w) ==
  /\ pc[w] = "visit" /\ visits[w] # << >>
  /\ LET shut == Head(visits[w]) IN
       todo' = [todo EXCEPT ![w] =
         {t \in Promised : Outstanding(t) /\ (shut => OutlivesTheCheck(t))}
           \cup (IF shut THEN {} ELSE {"quiet"})]
  /\ visits' = [visits EXCEPT ![w] = Tail(@)]
  /\ thread' = [thread EXCEPT ![w] = [newest |-> newest, spoken |-> spoken, unanswered |-> unanswered]]
  /\ Goto(w, "answer")
  /\ UNCHANGED <<theThread, world, sweeping, post, night, scene, hands, faults, history>>

\* The comments could not be read: the next issue.
VisitFails(w) ==
  /\ pc[w] = "visit" /\ visits[w] # << >> /\ Fault
  /\ visits' = [visits EXCEPT ![w] = Tail(@)]
  /\ UNCHANGED <<theThread, world, sweeping, pc, thread, todo, post, night, scene, hands, history>>

\* An issue is done with when nothing found on it is left to answer, and the
\* walk when no issue is left.
Leave(w) ==
  /\ \/ /\ pc[w] = "answer" /\ todo[w] = {}
        /\ thread' = [thread EXCEPT ![w] = None]
        /\ Goto(w, "visit") /\ UNCHANGED sweeping
     \/ /\ pc[w] = "visit" /\ visits[w] = << >>
        /\ Goto(w, "idle") /\ sweeping' = Nobody /\ UNCHANGED thread
  /\ UNCHANGED <<theThread, world, visits, todo, post, night, scene, hands, faults, history>>

-----------------------------------------------------------------------------
(* The handlers.  One looks at the world and the record it was given, and   *)
(* has something to say or not.                                             *)

\* The records are answered in the order of their kinds, and the nudge comes last.
Before(t) == CASE t = "organisation" -> {}
               [] t = "reminder" -> {"organisation"}
               [] t = "archive" -> {"organisation", "reminder"}
               [] t = "quiet" -> Promised

Handling(w, t) ==
  /\ pc[w] = "answer" /\ t \in todo[w] /\ todo[w] \cap Before(t) = {}
  /\ todo' = [todo EXCEPT ![w] = @ \ {t}]

\* asks tells asking somebody from saying that something is done.
Say(w, about, record, asks) ==
  /\ post' = [post EXCEPT ![w] = [about |-> about, record |-> record, asks |-> asks, overtaken |-> FALSE]]
  /\ Goto(w, "post")

Silent == UNCHANGED <<post, pc>>

HandlerRest == <<theThread, registered, copy, closed, inside, sweeping, visits, thread, night, scene, hands, history>>

\* Deviation: the last reminder is told from the one before it too late.
FollowArchiveOnceMore(w) ==
  LET told == thread[w].newest["archive"] IN
  /\ Handling(w, "archive")
  /\ \/ ~ registered /\ Silent
     \/ registered /\ copy # "open" /\ Say(w, "archive", Raised(told.n, TRUE), FALSE)
     \/ /\ registered /\ copy = "open"
        /\ IF told.n > 0 /\ told.age < ArchiveEvery THEN Silent
           ELSE Say(w, "archive", Raised(told.n + 1, told.n = MostArchive), TRUE)
  /\ UNCHANGED <<HandlerRest, teamed, holder, faults>>

\* The copy of a check that is registered: archived, out of sight, or still to be
\* archived, which is said every so often and only so often.
FollowArchive(w) ==
  LET told == thread[w].newest["archive"] IN
  /\ Handling(w, "archive")
  /\ \/ ~ registered /\ Silent
     \/ registered /\ copy # "open" /\ Say(w, "archive", Raised(told.n, TRUE), FALSE)
     \/ /\ registered /\ copy = "open"
        /\ IF told.n > 0 /\ told.age < ArchiveEvery THEN Silent
           ELSE Say(w, "archive", Raised(told.n + 1, told.n + 1 = MostArchive), TRUE)
  /\ UNCHANGED <<HandlerRest, teamed, holder, faults>>

\* Not in the organisation yet: the owners are asked again, the last time saying
\* that it is.  The record stays for when the newcomer does join.
RemindTheOwners(w, told) ==
  IF told.age < RemindAfter \/ told.n > MostReminders THEN Silent
  ELSE Say(w, "organisation", Raised(told.n + 1, FALSE), TRUE)

\* They have joined: the role is theirs if it is nobody's, under the lock of the
\* record, and the team whoever has the role; said if either was left to do.
Finish(w) ==
  /\ holder' = IF holder = Nobody THEN Newcomer ELSE holder
  /\ \/ teamed' = TRUE /\ UNCHANGED faults
     \/ ~ teamed /\ Fault /\ UNCHANGED teamed
  /\ IF holder = Nobody \/ ~ teamed THEN Say(w, "organisation", None, FALSE) ELSE Silent

FollowOrganisation(w) ==
  /\ Handling(w, "organisation")
  /\ \/ ~ inside /\ RemindTheOwners(w, thread[w].newest["organisation"]) /\ UNCHANGED <<teamed, holder, faults>>
     \/ inside /\ Finish(w)
  /\ UNCHANGED HandlerRest

FollowReminder(w) ==
  /\ Handling(w, "reminder")
  /\ IF due > 0 THEN Silent ELSE Say(w, "reminder", Raised(0, TRUE), TRUE)
  /\ UNCHANGED <<HandlerRest, teamed, holder, faults>>

\* Deviation: an ask does not count the ones before it.
QuietNudgeUncounted(w) ==
  LET read == thread[w]
      again == holder \in read.unanswered
      told == read.newest[holder]
  IN
  /\ Handling(w, "quiet")
  /\ IF \/ holder \notin scene \/ read.spoken < QuietAfter
        \/ again /\ (told.age < QuietAfter \/ told.n >= MostQuiet)
     THEN Silent
     ELSE Say(w, holder, Raised(1, TRUE), TRUE)
  /\ UNCHANGED <<HandlerRest, teamed, holder, faults>>

\* The codechecker of a quiet check is asked, an interval from the last time and
\* so many times in a row.  The record of the check is read now, the thread was
\* read before.
QuietNudge(w) ==
  LET read == thread[w]
      again == holder \in read.unanswered
      told == read.newest[holder]
  IN
  /\ Handling(w, "quiet")
  /\ IF \/ holder \notin scene \/ read.spoken < QuietAfter
        \/ again /\ (told.age < QuietAfter \/ told.n >= MostQuiet)
     THEN Silent
     ELSE Say(w, holder, Raised(IF again THEN told.n + 1 ELSE 1, TRUE), TRUE)
  /\ UNCHANGED <<HandlerRest, teamed, holder, faults>>

\* The membership, the register, the copy or the record could not be read, or
\* the record not written: a problem of the sweep's, and nothing is said.
HandlerFails(w) ==
  /\ Fault
  /\ \E t \in Promised \cup {"quiet"} : Handling(w, t)
  /\ UNCHANGED <<theThread, world, sweeping, pc, visits, thread, post, night, scene, hands, history>>

\* The comment is on the issue.  Its record is dated when the handler ran, so one
\* raised meanwhile is newer, and so is what a person said meanwhile.
Land(w) ==
  LET p == post[w]
      counts == p.asks /\ ~ p.overtaken
  IN
  /\ newest' = IF p.record = None \/ (p.overtaken /\ p.about \in Promised) THEN newest
               ELSE [newest EXCEPT ![p.about] = p.record]
  /\ unanswered' = IF counts /\ p.about \in People THEN unanswered \cup {p.about} ELSE unanswered
  /\ idle' = 0
  /\ sent' = IF counts THEN [sent EXCEPT ![p.about] = @ + 1] ELSE sent
  /\ gap' = IF counts THEN [gap EXCEPT ![p.about] = 0] ELSE gap
  /\ UNCHANGED <<spoken, due, removed>>

Posted(w) == post' = [post EXCEPT ![w] = None] /\ Goto(w, "answer")

Post(w) ==
  /\ pc[w] = "post"
  /\ Land(w) /\ Posted(w)
  /\ UNCHANGED <<world, sweeping, visits, thread, todo, night, scene, hands, faults>>

\* No answer: it may be on the issue all the same, and the walk goes on.
PostFails(w) ==
  /\ pc[w] = "post" /\ Fault
  /\ Land(w) \/ UNCHANGED <<theThread, history>>
  /\ Posted(w)
  /\ UNCHANGED <<world, sweeping, visits, thread, todo, night, scene, hands>>

\* The process stops and starts: the walk is gone, and the timer soon fires.
Restart ==
  /\ Fault
  /\ \/ UNCHANGED <<theThread, history>>
     \/ \E w \in Walkers : pc[w] = "post" /\ Land(w)
  /\ sweeping' = Nobody /\ night' = TRUE
  /\ pc' = [w \in Walkers |-> "idle"]
  /\ visits' = [w \in Walkers |-> << >>]
  /\ thread' = [w \in Walkers |-> None]
  /\ todo' = [w \in Walkers |-> {}]
  /\ post' = [w \in Walkers |-> None]
  /\ UNCHANGED <<world, scene, hands>>

-----------------------------------------------------------------------------
(* What people do meanwhile.                                                *)

Hand == hands < MaxHands /\ hands' = hands + 1 /\ UNCHANGED <<night, scene, faults, sweeping, pc, visits, thread, todo>>

\* A person writes on the issue, a command or not, and started afresh what it is
\* about: a post decided before is overtaken, and the counting begins again.
Writes(started) ==
  LET about == started \cup People IN
  /\ Hand
  /\ spoken' = 0 /\ unanswered' = {} /\ idle' = 0
  /\ newest' = [t \in Topics |-> IF t \in started THEN Raised(0, FALSE) ELSE newest[t]]
  /\ post' = [w \in Walkers |-> IF post[w] # None /\ post[w].about \in about
                                THEN [post[w] EXCEPT !.overtaken = TRUE] ELSE post[w]]
  /\ sent' = [t \in Topics |-> IF t \in about THEN 0 ELSE sent[t]]
  /\ gap' = [t \in Topics |-> IF t \in about THEN Interval(t) ELSE gap[t]]

Speak ==
  /\ scene \cap People # {}
  /\ Writes({})
  /\ UNCHANGED <<due, world, removed>>

\* `assign` of somebody outside: the owners are asked, and the role not given.
Ask ==
  /\ "organisation" \in scene /\ ~ inside
  /\ Writes({"organisation"})
  /\ removed' = FALSE
  /\ UNCHANGED <<due, world>>

\* `assign` of somebody inside.
Assign(p) ==
  /\ p = Newcomer => inside \/ "organisation" \notin scene
  /\ Writes({})
  /\ holder' = p
  /\ teamed' = (teamed \/ p = Newcomer)
  /\ removed' = (removed /\ p # Newcomer)
  /\ UNCHANGED <<due, inside, registered, copy, closed>>

Remove ==
  /\ holder # Nobody
  /\ Writes({})
  /\ holder' = Nobody
  /\ removed' = (removed \/ holder = Newcomer)
  /\ UNCHANGED <<due, inside, teamed, registered, copy, closed>>

\* `remind`, refused on a closed check.
Remind ==
  /\ "reminder" \in scene /\ newest["reminder"] = None /\ ~ closed
  /\ Writes({"reminder"})
  /\ due' = DueIn
  /\ UNCHANGED <<world, removed>>

\* `check finish`, which leaves a record when the copy is not archived.
CheckFinish ==
  /\ "archive" \in scene /\ copy = "open"
  /\ Writes({"archive"})
  /\ UNCHANGED <<due, world, removed>>

\* What is not a comment: an owner's invitation accepted, the row merged, the copy
\* archived or deleted.
Elsewhere ==
  /\ Hand
  /\ \/ "organisation" \in scene /\ ~ inside /\ inside' = TRUE /\ UNCHANGED <<registered, copy>>
     \/ "archive" \in scene /\ ~ registered /\ registered' = TRUE /\ UNCHANGED <<inside, copy>>
     \/ "archive" \in scene /\ copy = "open" /\ copy' \in {"archived", "gone"} /\ UNCHANGED <<inside, registered>>
  /\ UNCHANGED <<theThread, teamed, holder, closed, post, history>>

\* The issue is closed or opened again.
CloseOrReopen ==
  /\ Hand
  /\ closed' = ~ closed
  /\ idle' = 0
  /\ UNCHANGED <<newest, spoken, unanswered, due, inside, teamed, holder, registered, copy, post, history>>

Walk(w) ==
  \/ List(w) \/ Visit(w) \/ Leave(w)
  \/ FollowArchive(w) \/ FollowOrganisation(w) \/ FollowReminder(w) \/ QuietNudge(w) \/ Post(w)

Fails(w) == ListFails(w) \/ VisitFails(w) \/ HandlerFails(w) \/ PostFails(w)

Hands == Speak \/ Ask \/ Assign(Newcomer) \/ Assign(Other) \/ Remove \/ Remind \/ CheckFinish \/ Elsewhere \/ CloseOrReopen

Next ==
  \/ Tick \/ StartNightly \/ StartCommand
  \/ \E w \in Walkers : Walk(w) \/ Fails(w)
  \/ Restart \/ Hands

\* Days pass, the timer fires, and a walk that began goes on.
Fairness ==
  /\ WF_vars(Tick) /\ WF_vars(StartNightly)
  /\ \A w \in Walkers : WF_vars(Walk(w))

Spec == Init /\ [][Next]_vars /\ Fairness

-----------------------------------------------------------------------------
(* Properties.                                                              *)

Record(t) == [n : 0..Most(t), settled : BOOLEAN, age : 0..Interval(t)]

ThreadTypes ==
  /\ newest \in [Topics -> Records \cup {None}]
  /\ \A t \in Topics : newest[t] \in Record(t) \cup {None}
  /\ spoken \in 0..QuietAfter /\ unanswered \subseteq People
  /\ due \in 0..DueIn /\ idle \in 0..RecentlyClosed

WorldTypes ==
  /\ inside \in BOOLEAN /\ teamed \in BOOLEAN /\ registered \in BOOLEAN /\ closed \in BOOLEAN
  /\ holder \in People \cup {Nobody}
  /\ copy \in {"open", "archived", "gone"}

WalkTypes ==
  /\ sweeping \in Walkers \cup {Nobody}
  /\ pc \in [Walkers -> {"idle", "open", "closed", "visit", "answer", "post"}]
  /\ visits \in [Walkers -> Seq(BOOLEAN)]
  /\ thread \in [Walkers -> Readings \cup {None}]
  /\ todo \in [Walkers -> SUBSET (Promised \cup {"quiet"})]
  /\ post \in [Walkers -> Posts \cup {None}]
  /\ \A w \in Walkers :
       /\ (pc[w] # "idle") <=> (sweeping = w)
       /\ (post[w] # None) <=> (pc[w] = "post")
       /\ (thread[w] # None) <=> (pc[w] \in {"answer", "post"})

OtherTypes ==
  /\ night \in BOOLEAN /\ scene \subseteq Topics
  /\ hands \in 0..MaxHands /\ faults \in 0..MaxFaults
  /\ sent \in [Topics -> Nat] /\ gap \in [Topics -> Nat] /\ removed \in BOOLEAN
  /\ \A t \in Topics : gap[t] <= Interval(t)

\* Every variable holds a value of its type; a record never counts past its last
\* reminder, and the lock is held exactly while its walk runs (followup.Record,
\* Server.nudge).
TypeOK == ThreadTypes /\ WorldTypes /\ WalkTypes /\ OtherTypes

\* Two walks never ask about the same thing within its interval, unless a person
\* started it over: the owners, the handling editor and the codechecker are not
\* notified twice for one thing, whoever runs the walk, whatever is closed while
\* it lists, and whether or not the bot heard that its comment had arrived
\* (sweeping, Older and the stamp of the newest record).
Spaced ==
  [][\A t \in Topics : sent'[t] > sent[t] => gap[t] >= Interval(t)]_vars

\* The asking stops: between two times that a person says something, or begins it
\* anew, nobody is asked about one thing more often than the limit on it, whoever
\* walks, whatever was closed, and however often the process was restarted: each
\* record carries the count of the one before it (Reminders, mostReminders,
\* mostArchiveReminders, mostQuietNudges).
NeverTooOften == \A t \in Topics : sent[t] <= Most(t)

\* A reminder somebody asked for comes, unless the check is closed first, though
\* the process restarts, requests fail and other walks are in the way (sweepNightly).
ReminderComes ==
  Outstanding("reminder") ~> (~ Outstanding("reminder") \/ closed)

\* More nights are left than can go wrong before the sweep stops reading a closed
\* check.
WithinReach ==
  idle + (MaxFaults - faults) + (MaxHands - hands) + 1 < RecentlyClosed

\* Once the row is registered, the asking to archive the copy comes to its end, and
\* is settled, also on a check that has been closed: the reminders themselves keep
\* the sweep reading it (recentlyClosed, OutlivesTheCheck).
ArchiveComesToAnEnd ==
  (registered /\ Outstanding("archive") /\ WithinReach) ~> ~ Outstanding("archive")

\* Somebody who joins is noticed, however late: also after the bot has stopped
\* asking, the role that is nobody's becomes theirs (remindTheOwners).
JoinedIsNoticed ==
  (inside /\ newest["organisation"] # None) ~> (holder # Nobody \/ closed)

\* What the thread promises is done on an open check: a reminder comes, and whoever
\* joins is noticed (sweepOnce).
PromisesAreKept == ReminderComes /\ JoinedIsNoticed

\* "No record has to be marked settled: the finished job is its own announcement":
\* a role an editor removes stays removed until they ask for it again.
RemovedStaysRemoved == removed => holder # Newcomer
=============================================================================
