---------------------------- MODULE CheckWorkflow ----------------------------
(***************************************************************************)
(* The commands about where a check stands: `check start`, `check finish`, *)
(* `status`, and `assign` and `remove` as far as they share its labels     *)
(* (internal/bot/workflow.go, progress.go and labels.go).                  *)
(*                                                                         *)
(* A command reads the record and the labels once, moves labels one        *)
(* request at a time, and writes its reply in stages into one comment: the *)
(* first stage posts it, the others rewrite it.  The last write adds a     *)
(* note when the labels disagree with the record, or points at the note    *)
(* when the bot's last word already said it.  Labels have no lock:         *)
(* commands run side by side, and people move labels by hand.              *)
(***************************************************************************)
EXTENDS Naturals, Sequences, FiniteSets

CONSTANTS
  Commands, Kinds,  \* the commands, and what they may be
  Coders,           \* codecheckers
  Institutional,    \* those who check for their institution
  Nobody, None,
  Unread,           \* what could not be read
  StartLabels,      \* the labels a check may begin with
  Rules,            \* what CC-CFG-023 may answer
  StartThreads(_),  \* what the bot may have said before, given the warnings
  MaxTrouble        \* bound on failed requests, panics, restarts and edits by hand

Labels == {"needs codechecker", "work in progress", "metadata pending", "institution"}

Issues == [labels : SUBSET Labels, closed : BOOLEAN]

\* A note is the warnings in it, each with the codechecker it is about.
Notes == SUBSET ({"institution", "queued", "unqueued"} \X (Coders \cup {Nobody}))

\* A comment of the bot's, and what a command's listing of them tells it.
Said == [by : Commands \cup {"record", "bot"}, state : {"reading", "answered", "abandoned", "sorry"},
         note : Notes, points : BOOLEAN]
Listings == [coder : Coders \cup {Nobody}, tampered : BOOLEAN, above : Notes]

\* "As said above" has something above: an earlier comment that says it in full.
PointersStand(said) ==
  \A i \in DOMAIN said : said[i].points =>
    said[i].note # {} /\ \E j \in 1..(i - 1) : said[j].note = said[i].note /\ ~ said[j].points

ASSUME CheckWorkflowAssumption ==
  /\ Kinds \subseteq {"start", "finish", "status", "assign", "remove"}
  /\ Institutional \subseteq Coders /\ Nobody \notin Coders \cup Commands
  /\ "record" \notin Commands /\ "bot" \notin Commands
  /\ None # Unread /\ \A no \in {None, Unread} : no \notin Issues \cup Listings
  /\ StartLabels \subseteq SUBSET Labels
  /\ Rules \subseteq {"placeholders", "none", "undecided", "no target"}
  /\ \A note \in Notes : \A said \in StartThreads(note) :
       said \in Seq(Said) /\ PointersStand(said) /\ \A i \in DOMAIN said : said[i].by \notin Commands
  /\ MaxTrouble \in Nat

VARIABLES
  labels, closed,   \* the issue
  coder, tampered,  \* the assigned codechecker of the record; it was edited
  recorded,         \* the record has its comment
  rules,            \* what the placeholder rule answers
  thread,           \* what the bot said on the issue
  pc, kind,         \* each command: how far it is, and what it is
  stage,            \* the stage its reply is at
  memo,             \* the issue as it believes it to be
  view,             \* what its listing of the comments says
  moves,            \* the labels it has still to move
  comment,          \* its reply's place in the thread, 0 before the first write
  trouble,          \* how much of it there was
  found,            \* history: the labels when it began, until somebody else writes
  hurt              \* history: what of it failed

check == <<labels, closed, coder, tampered, recorded, rules>>
history == <<found, hurt>>
vars == <<check, thread, pc, kind, stage, memo, view, moves, comment, trouble, history>>

Ended == {"answered", "unanswered", "abandoned", "gone"}
Places == {"idle", "about", "issue", "record", "stage", "labels", "note", "sorry"} \cup Ended

-----------------------------------------------------------------------------
(* The note.                                                                *)

\* What a check's labels do not say of it, as far as it could be read.
Warnings(issue, holder, trusted) ==
  LET held == trusted /\ holder # Nobody
      has(l) == l \in issue.labels
  IN
  {w \in {"institution", "queued", "unqueued"} \X (Coders \cup {Nobody}) :
     \/ w = <<"institution", holder>> /\ held /\ holder \in Institutional /\ ~ has("institution")
     \/ w = <<"queued", holder>> /\ held /\ has("needs codechecker")
     \/ w = <<"unqueued", Nobody>> /\ trusted /\ ~ held /\ ~ issue.closed /\ ~ has("needs codechecker")}

\* The note of the bot's last word that is not a pointer to an earlier one.
Above(said) ==
  LET last == {i \in DOMAIN said : ~ said[i].points /\ \A j \in DOMAIN said : said[j].points \/ j <= i}
  IN UNION {said[i].note : i \in last}

\* Deviation: any note above is taken for this one.
JustSaidSomething(note, above) == note # {} /\ above # {}

JustSaid(note, above) == note # {} /\ above = note

Entry(by, state, note, points) == [by |-> by, state |-> state, note |-> note, points |-> points]

-----------------------------------------------------------------------------
Init ==
  /\ labels \in StartLabels /\ closed = FALSE
  /\ coder \in Coders \cup {Nobody} /\ tampered = FALSE
  /\ recorded = (coder # Nobody)
  /\ rules \in Rules
  /\ thread \in StartThreads(Warnings([labels |-> labels, closed |-> FALSE], coder, TRUE))
  /\ pc = [c \in Commands |-> "idle"]
  /\ kind \in [Commands -> Kinds]
  /\ stage = [c \in Commands |-> 1]
  /\ memo = [c \in Commands |-> None]
  /\ view = [c \in Commands |-> None]
  /\ moves = [c \in Commands |-> << >>]
  /\ comment = [c \in Commands |-> 0]
  /\ trouble = 0
  /\ found = [c \in Commands |-> None]
  /\ hurt = [c \in Commands |-> "nothing"]

\* What a command holds in memory goes with it.
Forget(gone) ==
  /\ memo' = [c \in Commands |-> IF c \in gone THEN None ELSE memo[c]]
  /\ view' = [c \in Commands |-> IF c \in gone THEN None ELSE view[c]]
  /\ moves' = [c \in Commands |-> IF c \in gone THEN << >> ELSE moves[c]]

Goto(c, place) == pc' = [pc EXCEPT ![c] = place]
Trouble == trouble < MaxTrouble /\ trouble' = trouble + 1
Hurt(c, what) == Trouble /\ hurt' = [hurt EXCEPT ![c] = what]

\* Somebody wrote to the check: nobody else can count on what they found.
Disturbed(by) == found' = [c \in Commands |-> IF c = by THEN found[c] ELSE None]

\* The issue, and the comments, as they are.
Issue == [labels |-> labels, closed |-> closed]
Listing == [coder |-> coder, tampered |-> tampered, above |-> Above(thread)]

\* The stages of a reply up to the last one that is waited for; without a target
\* there is nothing slow to read.
Stages(k) ==
  CASE k = "start" -> IF rules = "no target" THEN <<"labels">> ELSE <<"labels", "repository", "configuration">>
    [] k = "finish" -> <<"reading", "rules", "register", "labels">>
    [] OTHER -> IF rules = "no target" THEN <<"record">> ELSE <<"record", "configuration", "bundle">>

Begin(c) ==
  /\ pc[c] = "idle"
  /\ Goto(c, IF kind[c] \in {"assign", "remove"} THEN "record" ELSE "about")
  /\ found' = [found EXCEPT ![c] = labels]
  /\ UNCHANGED <<check, thread, kind, stage, memo, view, moves, comment, trouble, hurt>>

-----------------------------------------------------------------------------
(* What a command finds.                                                    *)

\* The record, from the command's one listing of the comments: an edited one is
\* refused by the commands that act on it, and shown by `status`.
About(c) ==
  /\ pc[c] = "about"
  /\ view' = [view EXCEPT ![c] = Listing]
  /\ Goto(c, IF tampered /\ kind[c] # "status" THEN "note" ELSE "issue")
  /\ UNCHANGED <<check, thread, kind, stage, memo, moves, comment, trouble, history>>

AboutFails(c) ==
  /\ pc[c] = "about" /\ Hurt(c, "request")
  /\ view' = [view EXCEPT ![c] = Unread]
  /\ Goto(c, "note")
  /\ UNCHANGED <<check, thread, kind, stage, memo, moves, comment, found>>

\* What the command refuses once it has looked: a start without a codechecker, a
\* finish with nothing to read.
Refuses(c) ==
  \/ kind[c] = "start" /\ view[c].coder = Nobody
  \/ kind[c] = "finish" /\ rules = "no target"

\* The labels, which may go unread: the writes are right either way.
ReadIssue(c) ==
  /\ pc[c] = "issue"
  /\ \/ memo' = [memo EXCEPT ![c] = Issue] /\ UNCHANGED <<trouble, hurt>>
     \/ memo' = [memo EXCEPT ![c] = Unread] /\ Hurt(c, "reading")
  /\ Goto(c, IF Refuses(c) THEN "note" ELSE "stage")
  /\ UNCHANGED <<check, thread, kind, stage, view, moves, comment, found>>

\* `assign` and `remove`: the comments are listed again under the record's lock,
\* and what is written is put into the listing.
ChangeRecord(c) ==
  /\ pc[c] = "record"
  /\ \E holder \in (IF kind[c] = "assign" THEN Coders ELSE {Nobody}) :
       LET write == ~ tampered /\ holder # coder
           post == write /\ ~ recorded
       IN
       /\ coder' = IF write THEN holder ELSE coder
       /\ recorded' = (recorded \/ post)
       /\ thread' = IF post THEN Append(thread, Entry("record", "answered", {}, FALSE)) ELSE thread
       /\ IF write THEN Disturbed(c) ELSE UNCHANGED found
  /\ view' = [view EXCEPT ![c] = [coder |-> coder', tampered |-> tampered, above |-> Above(thread')]]
  /\ Goto(c, "note")
  /\ UNCHANGED <<labels, closed, tampered, rules, kind, stage, memo, moves, comment, trouble, hurt>>

-----------------------------------------------------------------------------
(* The stages.                                                              *)

\* Deviation: a rule that was skipped is taken for one that passed.
DecidedAnyway == rules # "no target"

\* The rules ran, and the placeholder rule could tell.
Decided == rules \in {"placeholders", "none"}

\* The labels a command wants on and off.
Wanted(c) ==
  CASE kind[c] = "start" -> <<[label |-> "needs codechecker", add |-> FALSE],
                              [label |-> "work in progress", add |-> TRUE]>>
    [] kind[c] = "finish" /\ Decided -> <<[label |-> "work in progress", add |-> FALSE],
                              [label |-> "metadata pending", add |-> rules = "placeholders"]>>
    [] OTHER -> << >>

\* Nothing is asked for that the check carries already, or lacks.
Needless(c, move) == memo[c] # Unread /\ (move.label \in memo[c].labels) = move.add

WithLabel(set, move) == IF move.add THEN set \cup {move.label} ELSE set \ {move.label}

\* The issue as a command believes it to be, once a label is moved.
Told(issue, move) ==
  IF issue = Unread THEN Unread ELSE [issue EXCEPT !.labels = WithLabel(@, move)]

\* Deviation: what has been moved is not noted for the label note.
MoveUntold(c) ==
  /\ pc[c] = "labels" /\ moves[c] # << >>
  /\ LET move == Head(moves[c]) IN
     IF Needless(c, move) THEN UNCHANGED <<labels, found>>
     ELSE labels' = WithLabel(labels, move) /\ Disturbed(c)
  /\ moves' = [moves EXCEPT ![c] = Tail(@)]
  /\ UNCHANGED <<closed, coder, tampered, recorded, rules, thread, pc, kind, stage, memo, view, comment, trouble, hurt>>

\* One label is put on or taken off, and the memo is told.
Move(c) ==
  /\ pc[c] = "labels" /\ moves[c] # << >>
  /\ LET move == Head(moves[c]) IN
     IF Needless(c, move) THEN UNCHANGED <<labels, memo, found>>
     ELSE /\ labels' = WithLabel(labels, move)
          /\ memo' = [memo EXCEPT ![c] = Told(@, move)]
          /\ Disturbed(c)
  /\ moves' = [moves EXCEPT ![c] = Tail(@)]
  /\ UNCHANGED <<closed, coder, tampered, recorded, rules, thread, pc, kind, stage, view, comment, trouble, hurt>>

\* It is reported and not undone, and the next one is tried.
MoveFails(c) ==
  /\ pc[c] = "labels" /\ moves[c] # << >>
  /\ ~ Needless(c, Head(moves[c])) /\ Hurt(c, "request")
  /\ \/ labels' = WithLabel(labels, Head(moves[c])) /\ Disturbed(c)
     \/ UNCHANGED <<labels, found>>
  /\ moves' = [moves EXCEPT ![c] = Tail(@)]
  /\ UNCHANGED <<closed, coder, tampered, recorded, rules, thread, pc, kind, stage, memo, view, comment>>

-----------------------------------------------------------------------------
(* The reply.                                                               *)

\* Deviation: the reply keeps the last comment there was before it was posted.
WriteOver(c, entry) ==
  /\ IF comment[c] = 0
     THEN thread' = Append(thread, entry) /\ comment' = [comment EXCEPT ![c] = Len(thread)]
     ELSE thread' = [thread EXCEPT ![comment[c]] = entry] /\ UNCHANGED comment
  /\ Disturbed(c)

\* Posted the first time, rewritten in place after that.
Write(c, entry) ==
  /\ IF comment[c] = 0
     THEN thread' = Append(thread, entry) /\ comment' = [comment EXCEPT ![c] = Len(thread) + 1]
     ELSE thread' = [thread EXCEPT ![comment[c]] = entry] /\ UNCHANGED comment
  /\ Disturbed(c)

\* No answer: the comment may be there, and if it was a first post the reply does
\* not know where.
WriteLost(c, entry) ==
  /\ Hurt(c, "request")
  /\ \/ thread' = (IF comment[c] = 0 THEN Append(thread, entry) ELSE [thread EXCEPT ![comment[c]] = entry])
        /\ Disturbed(c)
     \/ UNCHANGED <<thread, found>>
  /\ UNCHANGED comment

\* A stage runs and the reply says what is still being read, unless nothing is: the
\* last stage leaves the finished reply to the dispatch.
Progress(c) ==
  /\ IF stage[c] = Len(Stages(kind[c]))
     THEN Goto(c, "note") /\ UNCHANGED <<thread, stage, comment, trouble, found, hurt>>
     ELSE /\ \/ Write(c, Entry(c, "reading", {}, FALSE)) /\ UNCHANGED <<trouble, hurt>>
             \/ WriteLost(c, Entry(c, "reading", {}, FALSE))
          /\ stage' = [stage EXCEPT ![c] = @ + 1]
          /\ Goto(c, "stage")

Stage(c) ==
  /\ pc[c] = "stage"
  /\ IF Stages(kind[c])[stage[c]] = "labels"
     THEN /\ moves' = [moves EXCEPT ![c] = Wanted(c)] /\ Goto(c, "labels")
          /\ UNCHANGED <<thread, stage, comment, trouble, found, hurt>>
     ELSE Progress(c) /\ UNCHANGED moves
  /\ UNCHANGED <<check, kind, memo, view>>

Moved(c) ==
  /\ pc[c] = "labels" /\ moves[c] = << >>
  /\ Progress(c)
  /\ UNCHANGED <<check, kind, memo, view, moves>>

\* A command that has not read the issue yet reads it for the note.
Gather(c) ==
  /\ pc[c] = "note" /\ memo[c] = None
  /\ \/ memo' = [memo EXCEPT ![c] = Issue] /\ UNCHANGED <<trouble, hurt>>
     \/ memo' = [memo EXCEPT ![c] = Unread] /\ Hurt(c, "request")
  /\ UNCHANGED <<check, thread, pc, kind, stage, view, moves, comment, found>>

\* Everything the note needs fails quiet.
Note(c) ==
  IF memo[c] = Unread \/ view[c] = Unread THEN {}
  ELSE Warnings(memo[c], view[c].coder, ~ view[c].tampered)

Answer(c) ==
  LET note == Note(c)
      points == view[c] # Unread /\ JustSaid(note, view[c].above)
      final == Entry(c, "answered", note, points)
  IN
  /\ pc[c] = "note" /\ memo[c] # None
  /\ \/ Write(c, final) /\ Goto(c, "answered") /\ UNCHANGED <<trouble, hurt>>
     \/ WriteLost(c, final) /\ Goto(c, "unanswered")
  /\ Forget({c})
  /\ UNCHANGED <<check, kind, stage>>

\* Where a command may panic: in a stage, or before the stages and after them.
InStages == {"stage", "labels"}
Running == {"about", "issue", "record", "note"} \cup InStages

\* Deviation: the command is dropped without a word.
PanicSilently(c) ==
  /\ pc[c] \in Running /\ Trouble
  /\ Goto(c, "abandoned") /\ Forget({c})
  /\ UNCHANGED <<check, thread, kind, stage, comment, history>>

\* A command panics.  The stages finish the comment that says it is still reading
\* with a word saying it will not be, if that can be written; nothing else knows
\* there is such a comment.
Panic(c) ==
  /\ pc[c] \in Running /\ Trouble
  /\ IF pc[c] \in InStages /\ comment[c] # 0
     THEN LET last == Entry(c, "abandoned", {}, FALSE)
          IN  (Write(c, last) /\ UNCHANGED hurt) \/ WriteLost(c, last)
     ELSE UNCHANGED <<thread, comment, history>>
  /\ Goto(c, "sorry") /\ Forget({c})
  /\ UNCHANGED <<check, kind, stage>>

\* The dispatch recovers and apologises, in a comment of its own.
Apologise(c) ==
  /\ pc[c] = "sorry"
  /\ \/ UNCHANGED hurt
     \/ hurt' = [hurt EXCEPT ![c] = "request"]
  /\ \/ thread' = Append(thread, Entry(c, "sorry", {}, FALSE)) /\ Disturbed(c)
     \/ hurt'[c] = "request" /\ UNCHANGED <<thread, found>>
  /\ Goto(c, "abandoned")
  /\ UNCHANGED <<check, kind, stage, memo, view, moves, comment, trouble>>

\* The time a command has is up, or the process stops: nothing more is written.
CutOff ==
  /\ Trouble
  /\ \E cut \in (SUBSET Commands) \ {{}} :
       /\ \A c \in cut : pc[c] \notin Ended \cup {"idle"}
       /\ pc' = [c \in Commands |-> IF c \in cut THEN "gone" ELSE pc[c]]
       /\ hurt' = [c \in Commands |-> IF c \in cut THEN "cut off" ELSE hurt[c]]
       /\ Forget(cut)
  /\ UNCHANGED <<check, thread, kind, stage, comment, found>>

-----------------------------------------------------------------------------
(* What people do meanwhile.                                                *)

Hand ==
  /\ Trouble
  /\ Disturbed(Nobody)
  /\ UNCHANGED <<recorded, rules, thread, pc, kind, stage, memo, view, moves, comment, hurt>>

\* A label is put on or taken off, or the issue closed.
ByHand ==
  /\ Hand
  /\ \/ \E l \in Labels : labels' = (IF l \in labels THEN labels \ {l} ELSE labels \cup {l}) /\ UNCHANGED closed
     \/ closed' = TRUE /\ UNCHANGED labels
  /\ UNCHANGED <<coder, tampered>>

\* The record's comment is edited.
EditRecord ==
  /\ Hand
  /\ recorded /\ tampered' = TRUE
  /\ coder' \in Coders \cup {Nobody}
  /\ UNCHANGED <<labels, closed>>

Work(c) ==
  \/ Begin(c) \/ About(c) \/ ReadIssue(c) \/ ChangeRecord(c)
  \/ Stage(c) \/ Move(c) \/ Moved(c) \/ Gather(c) \/ Answer(c) \/ Apologise(c)

Fails(c) == AboutFails(c) \/ MoveFails(c) \/ Panic(c)

Finished == \A c \in Commands : pc[c] \in Ended

Next ==
  \/ \E c \in Commands : Work(c) \/ Fails(c)
  \/ CutOff \/ ByHand \/ EditRecord
  \/ Finished /\ UNCHANGED vars

Spec == Init /\ [][Next]_vars

-----------------------------------------------------------------------------
(* Properties.                                                              *)

\* The commands that have begun, and that nobody has disturbed.
Calm == {c \in Commands : found[c] # None}

\* What it said: its reply, and the apology for it.
Replies(c) == {i \in DOMAIN thread : thread[i].by = c /\ thread[i].state # "sorry"}
Apologies(c) == {i \in DOMAIN thread : thread[i].by = c /\ thread[i].state = "sorry"}

\* Every variable holds a value of its type, and a command knows only comments of
\* its own (issueMemo, Listing, reply).
TypeOK ==
  /\ labels \subseteq Labels /\ closed \in BOOLEAN
  /\ coder \in Coders \cup {Nobody} /\ tampered \in BOOLEAN /\ recorded \in BOOLEAN
  /\ rules \in Rules /\ trouble \in 0..MaxTrouble
  /\ thread \in Seq(Said)
  /\ pc \in [Commands -> Places] /\ kind \in [Commands -> Kinds]
  /\ stage \in [Commands -> 1..4] /\ \A c \in Commands : stage[c] <= Len(Stages(kind[c]))
  /\ memo \in [Commands -> {None, Unread} \cup Issues]
  /\ view \in [Commands -> {None, Unread} \cup Listings]
  /\ moves \in [Commands -> Seq([label : Labels, add : BOOLEAN])]
  /\ comment \in [Commands -> 0..Len(thread)]
  /\ \A c \in Commands : Len(moves[c]) <= 2 /\ comment[c] \in {0} \cup Replies(c)
  /\ found \in [Commands -> {None} \cup SUBSET Labels]
  /\ hurt \in [Commands -> {"nothing", "reading", "request", "cut off"}]

\* A command nobody disturbed and no request failed leaves the labels exactly as
\* the steps of a check have them, also when it could not read them first: a start
\* takes a check with a codechecker out of the queue, a finish follows the
\* placeholder rule, and a command that refuses, or whose rule could not tell,
\* moves nothing (checkStart, checkFinish, placeholdersLeft, moveLabels).
DoneIsDone ==
  \A c \in Calm : pc[c] = "answered" /\ hurt[c] \in {"nothing", "reading"} =>
    labels =
      CASE kind[c] = "start" /\ ~ tampered /\ coder # Nobody ->
             (found[c] \ {"needs codechecker"}) \cup {"work in progress"}
        [] kind[c] = "finish" /\ ~ tampered /\ rules = "placeholders" ->
             (found[c] \ {"work in progress"}) \cup {"metadata pending"}
        [] kind[c] = "finish" /\ ~ tampered /\ rules = "none" ->
             found[c] \ {"work in progress", "metadata pending"}
        [] OTHER -> found[c]

\* The note of such a command is about the check as the command leaves it, and not
\* as it found it (labelNote, issueMemo, Listing.wrote).
NoteIsAboutNow ==
  \A c \in Calm : pc[c] = "answered" /\ hurt[c] = "nothing" =>
    thread[comment[c]].note = Warnings(Issue, coder, ~ tampered)

\* A comment that says "as said above" has its note above it, whatever commands
\* ran side by side (justSaid).
PointerHasItsNote == PointersStand(thread)

\* The command's writes went through, and it ended by itself.
Through == {c \in Commands : pc[c] \in Ended /\ hurt[c] \in {"nothing", "reading"}}

\* No command ends in silence or twice: it has one reply, which is its answer, or,
\* wherever it panicked, an apology below whatever it had said by then, unless one
\* of its writes failed or its time was up (reply.write, progress.run,
\* recoverCommand).
AnsweredOrApologised ==
  \A c \in Through :
    /\ Cardinality(Replies(c)) <= 1
    /\ pc[c] = "answered" => \E i \in Replies(c) : thread[i].state = "answered"
    /\ pc[c] = "abandoned" => \E i \in Apologies(c) : \A j \in Replies(c) : j < i
=============================================================================
