------------------------ MODULE CheckWorkflowProofs ------------------------
(***************************************************************************)
(* What the commands about where a check stands promise, for any number of *)
(* them, any labels, codecheckers and trouble.  Three arguments run side   *)
(* by side.  Every write to the check clears `found` of the others, so     *)
(* whoever still has one may count on what it read.  A comment of a        *)
(* command carries no note before its last write, so a note is never       *)
(* written over.  And a command lists the comments before its first write, *)
(* so what it points at is above it.                                       *)
(***************************************************************************)
EXTENDS CheckWorkflow, FiniteSetTheorems, SequenceTheorems, TLAPS

\* What of a command may have failed without harm.
Harmless == {"nothing", "reading"}

\* Where a command is, what it is, what it knows, and what can have failed.
HowFar(c) ==
  /\ pc[c] \in {"idle", "about", "issue", "record"} =>
       hurt[c] = "nothing" /\ comment[c] = 0 /\ Replies(c) = {} /\ stage[c] = 1
  /\ pc[c] \in {"idle", "about", "record"} => memo[c] = None /\ view[c] = None
  /\ pc[c] \in {"about", "issue", "stage", "labels"} => kind[c] \notin {"assign", "remove"}
  /\ pc[c] = "record" => kind[c] \in {"assign", "remove"}
  /\ pc[c] \in {"issue", "stage", "labels"} => view[c] \in Listings
  /\ pc[c] = "note" => view[c] # None
  /\ pc[c] \in {"stage", "labels"} => memo[c] # None /\ (kind[c] = "finish" => rules # "no target")
  /\ pc[c] = "labels" => Stages(kind[c])[stage[c]] = "labels"
  /\ pc[c] \in {"unanswered", "gone"} => hurt[c] \notin Harmless
  /\ hurt[c] = "nothing" => memo[c] # Unread
  /\ hurt[c] \in Harmless => view[c] # Unread

\* One comment, with no note until the last write, and an apology below it.
OneReply(c) ==
  /\ pc[c] \notin Ended => \A i \in Replies(c) : thread[i].note = {} /\ ~ thread[i].points
  /\ hurt[c] \in Harmless => \A i \in Replies(c) : i = comment[c]
  /\ hurt[c] \in Harmless /\ pc[c] = "answered" => \A i \in Replies(c) : thread[i].state = "answered"
  /\ hurt[c] \in Harmless /\ pc[c] = "abandoned" => \E i \in Apologies(c) : \A j \in Replies(c) : j < i
  /\ pc[c] = "answered" => comment[c] # 0

\* What a command heard was said is still there, above anything it wrote.
Heard(c) ==
  view[c] \in Listings /\ view[c].above # {} =>
    \E j \in 1..Len(thread) :
      (comment[c] # 0 => j < comment[c]) /\ thread[j].note = view[c].above /\ ~ thread[j].points

\* The labels a command is to leave.
Target(c) ==
  CASE kind[c] = "start" /\ ~ tampered /\ coder # Nobody ->
         (found[c] \ {"needs codechecker"}) \cup {"work in progress"}
    [] kind[c] = "finish" /\ ~ tampered /\ rules = "placeholders" ->
         (found[c] \ {"work in progress"}) \cup {"metadata pending"}
    [] kind[c] = "finish" /\ ~ tampered /\ rules = "none" ->
         found[c] \ {"work in progress", "metadata pending"}
    [] OTHER -> found[c]

\* Between two moves: none made yet, the first of two, or all.
Moving(c) ==
  \/ moves[c] = Wanted(c) /\ labels = found[c]
  \/ Len(Wanted(c)) = 2 /\ moves[c] = <<Wanted(c)[2]>> /\ labels = WithLabel(found[c], Wanted(c)[1])
  \/ moves[c] = << >> /\ labels = Target(c)

\* What a command nobody has disturbed may count on.
Undisturbed(c) ==
  /\ view[c] \in Listings => view[c].coder = coder /\ view[c].tampered = tampered
  /\ hurt[c] \in Harmless =>
       /\ memo[c] \in Issues => memo[c] = Issue
       /\ pc[c] \in {"about", "issue", "record"} => labels = found[c]
       /\ pc[c] \in {"issue", "stage", "labels"} => ~ tampered \/ kind[c] = "status"
       /\ pc[c] \in {"stage", "labels"} /\ kind[c] = "start" => coder # Nobody
       /\ pc[c] = "stage" => labels = IF kind[c] = "start" /\ stage[c] > 1 THEN Target(c) ELSE found[c]
       /\ pc[c] = "labels" => Moving(c)
       /\ pc[c] \in {"note", "answered"} => labels = Target(c)
  /\ hurt[c] = "nothing" /\ pc[c] = "answered" =>
       thread[comment[c]].note = Warnings(Issue, coder, ~ tampered)

Mine(c) == HowFar(c) /\ OneReply(c) /\ Heard(c) /\ (found[c] # None => Undisturbed(c))

IInv == TypeOK /\ PointerHasItsNote /\ \A c \in Commands : Mine(c)

-----------------------------------------------------------------------------
(***************************************************************************)
(* The helpers of the model.                                               *)
(***************************************************************************)

LEMMA StagesAre ==
  ASSUME NEW k
  PROVE  /\ Len(Stages(k)) \in 1..4
         /\ k = "start" => \A n \in 1..Len(Stages(k)) : Stages(k)[n] = "labels" <=> n = 1
         /\ k = "finish" => Len(Stages(k)) = 4 /\ \A n \in 1..4 : Stages(k)[n] = "labels" <=> n = 4
         /\ k \notin {"start", "finish"} => \A n \in 1..Len(Stages(k)) : Stages(k)[n] # "labels"
<1>1. /\ k = "start" => Stages(k) = <<"labels">> \/ Stages(k) = <<"labels", "repository", "configuration">>
      /\ k = "finish" => Stages(k) = <<"reading", "rules", "register", "labels">>
      /\ k \notin {"start", "finish"} =>
           Stages(k) = <<"record">> \/ Stages(k) = <<"record", "configuration", "bundle">>
  BY DEF Stages
<1>2. CASE Stages(k) = <<"labels">> \/ Stages(k) = <<"record">>
  <2>1. Len(Stages(k)) = 1 /\ \A n \in 1..1 : n = 1
    BY <1>2
  <2> QED BY <1>1, <1>2, <2>1
<1>3. CASE Stages(k) = <<"labels", "repository", "configuration">> \/ Stages(k) = <<"record", "configuration", "bundle">>
  <2>1. Len(Stages(k)) = 3 /\ \A n \in 1..3 : n = 1 \/ n = 2 \/ n = 3
    BY <1>3
  <2> QED BY <1>1, <1>3, <2>1
<1>4. CASE Stages(k) = <<"reading", "rules", "register", "labels">>
  <2>1. Len(Stages(k)) = 4 /\ \A n \in 1..4 : n = 1 \/ n = 2 \/ n = 3 \/ n = 4
    BY <1>4
  <2> QED BY <1>1, <1>4, <2>1
<1> QED BY <1>1, <1>2, <1>3, <1>4

LEMMA StagesStay == UNCHANGED rules => \A k : Stages(k)' = Stages(k)
BY DEF Stages

LEMMA ANote ==
  ASSUME NEW issue, NEW holder \in Coders \cup {Nobody}, NEW trusted
  PROVE  Warnings(issue, holder, trusted) \in Notes
BY DEF Warnings, Notes

\* The note above is one that was said.
LEMMA AboveWasSaid ==
  ASSUME NEW said \in Seq(Said)
  PROVE  /\ Above(said) \in Notes
         /\ Above(said) # {} => \E j \in 1..Len(said) : said[j].note = Above(said) /\ ~ said[j].points
<1> DEFINE last == {i \in DOMAIN said : ~ said[i].points /\ \A j \in DOMAIN said : said[j].points \/ j <= i}
<1>1. DOMAIN said = 1..Len(said) /\ \A i \in 1..Len(said) : said[i] \in Said
  OBVIOUS
<1>2. Above(said) = UNION {said[i].note : i \in last}
  BY DEF Above
<1>3. \A i, j \in last : i = j
  BY <1>1
<1>4. \A i \in last : i \in 1..Len(said) /\ ~ said[i].points /\ said[i].note \in Notes
  BY <1>1 DEF Said
<1>5. \A i \in last : Above(said) = said[i].note
  BY <1>2, <1>3
<1>6. last = {} => Above(said) = {}
  BY <1>2
<1>7. {} \in Notes
  BY DEF Notes
<1> QED BY <1>4, <1>5, <1>6, <1>7

LEMMA AnEntry ==
  ASSUME NEW by \in Commands \cup {"record", "bot"}, NEW note \in Notes, NEW points \in BOOLEAN,
         NEW state \in {"reading", "answered", "abandoned", "sorry"}
  PROVE  LET entry == Entry(by, state, note, points)
         IN  entry \in Said /\ entry.by = by /\ entry.state = state /\ entry.note = note /\ entry.points = points
BY DEF Entry, Said

-----------------------------------------------------------------------------
(***************************************************************************)
(* Writing to the thread.                                                  *)
(***************************************************************************)

\* What one command writes leaves alone what others said, and every note.
Leaves(s, t, c) ==
  /\ s \in Seq(Said) /\ t \in Seq(Said) /\ Len(s) <= Len(t)
  /\ \A j \in 1..Len(s) : s[j].note # {} \/ s[j].by # c => t[j] = s[j]
  /\ \A j \in 1..Len(s) : s[j].by = c => t[j].by = c
  /\ \A j \in 1..Len(t) : j > Len(s) => t[j].by \notin Commands \ {c}

LEMMA NothingSaid == ASSUME NEW s \in Seq(Said), NEW c PROVE Leaves(s, s, c)
BY DEF Leaves

LEMMA Appended ==
  ASSUME NEW s \in Seq(Said), NEW c, NEW entry \in Said, entry.by \notin Commands \ {c}
  PROVE  /\ Leaves(s, Append(s, entry), c)
         /\ Len(Append(s, entry)) = Len(s) + 1 /\ Append(s, entry)[Len(s) + 1] = entry
         /\ \A j \in 1..Len(s) : Append(s, entry)[j] = s[j]
<1>1. /\ Append(s, entry) \in Seq(Said) /\ Len(Append(s, entry)) = Len(s) + 1
      /\ Append(s, entry)[Len(s) + 1] = entry /\ \A j \in 1..Len(s) : Append(s, entry)[j] = s[j]
  OBVIOUS
<1>2. Len(s) \in Nat
  OBVIOUS
<1>3. \A j \in 1..(Len(s) + 1) : j > Len(s) => j = Len(s) + 1
  BY <1>2
<1> QED BY <1>1, <1>2, <1>3 DEF Leaves

LEMMA Rewritten ==
  ASSUME NEW s \in Seq(Said), NEW c, NEW entry \in Said, NEW k \in 1..Len(s),
         s[k].by = c, s[k].note = {}, entry.by = c
  PROVE  /\ Leaves(s, [s EXCEPT ![k] = entry], c)
         /\ Len([s EXCEPT ![k] = entry]) = Len(s) /\ [s EXCEPT ![k] = entry][k] = entry
         /\ \A j \in 1..Len(s) : j # k => [s EXCEPT ![k] = entry][j] = s[j]
<1>1. /\ [s EXCEPT ![k] = entry] \in Seq(Said) /\ Len([s EXCEPT ![k] = entry]) = Len(s)
      /\ [s EXCEPT ![k] = entry][k] = entry
      /\ \A j \in 1..Len(s) : j # k => [s EXCEPT ![k] = entry][j] = s[j]
  OBVIOUS
<1>2. Len(s) \in Nat
  OBVIOUS
<1> QED BY <1>1, <1>2 DEF Leaves

LEMMA LeavesTwice ==
  ASSUME NEW s, NEW t, NEW u, NEW c, Leaves(s, t, c), Leaves(t, u, c)
  PROVE  Leaves(s, u, c)
<1>1. Len(s) \in Nat /\ Len(t) \in Nat /\ Len(u) \in Nat
  BY DEF Leaves
<1>2. \A j \in 1..Len(u) : j > Len(s) => u[j].by \notin Commands \ {c}
  BY <1>1 DEF Leaves
<1> QED BY <1>1, <1>2 DEF Leaves

LEMMA OthersReplies ==
  ASSUME NEW c, Leaves(thread, thread', c), NEW d \in Commands, d # c
  PROVE  /\ Replies(d)' = Replies(d) /\ Apologies(d)' = Apologies(d)
         /\ \A i \in Replies(d) \cup Apologies(d) : thread'[i] = thread[i]
<1>1. /\ DOMAIN thread = 1..Len(thread) /\ DOMAIN thread' = 1..Len(thread')
      /\ Len(thread) \in Nat /\ Len(thread') \in Nat /\ Len(thread) <= Len(thread')
  BY DEF Leaves
<1>2. \A i \in 1..Len(thread) : thread[i].by = d => thread'[i] = thread[i] /\ i \in 1..Len(thread')
  BY <1>1 DEF Leaves
<1>3. \A i \in 1..Len(thread') : thread'[i].by = d => i \in 1..Len(thread) /\ thread[i].by = d
  BY <1>1 DEF Leaves
<1> QED BY <1>1, <1>2, <1>3 DEF Replies, Apologies

\* A pointer that is written has its note above it already.
LEMMA PointersKept ==
  ASSUME NEW s, NEW t, NEW c, Leaves(s, t, c), PointersStand(s),
         \A j \in 1..Len(t) : t[j].points =>
           \/ j <= Len(s) /\ t[j] = s[j]
           \/ \E i \in 1..(j - 1) : i <= Len(s) /\ s[i].note = t[j].note /\ s[i].note # {} /\ ~ s[i].points
  PROVE  PointersStand(t)
<1>1. /\ DOMAIN s = 1..Len(s) /\ DOMAIN t = 1..Len(t)
      /\ Len(s) \in Nat /\ Len(t) \in Nat /\ Len(s) <= Len(t)
  BY DEF Leaves
<1>2. \A i \in 1..Len(s) : s[i].note # {} => t[i] = s[i]
  BY DEF Leaves
<1> SUFFICES ASSUME NEW j \in 1..Len(t), t[j].points
             PROVE  t[j].note # {} /\ \E i \in 1..(j - 1) : t[i].note = t[j].note /\ ~ t[i].points
  BY <1>1 DEF PointersStand
<1>3. \E i \in 1..(j - 1) : i <= Len(s) /\ s[i].note = t[j].note /\ s[i].note # {} /\ ~ s[i].points
  <2>1. CASE j <= Len(s) /\ t[j] = s[j]
    <3>1. s[j].note # {} /\ \E i \in 1..(j - 1) : s[i].note = s[j].note /\ ~ s[i].points
      BY <1>1, <2>1 DEF PointersStand
    <3> QED BY <1>1, <2>1, <3>1
  <2> QED BY <2>1
<1> QED BY <1>1, <1>2, <1>3

-----------------------------------------------------------------------------
(***************************************************************************)
(* What a step of one command leaves the others, and itself.               *)
(***************************************************************************)

\* A step that is not this command's: its own are as they were, and if the
\* check is not, it can no longer count on what it found.
LeftAlone(d) ==
  /\ pc'[d] = pc[d] /\ kind'[d] = kind[d] /\ stage'[d] = stage[d] /\ memo'[d] = memo[d]
  /\ view'[d] = view[d] /\ moves'[d] = moves[d] /\ comment'[d] = comment[d] /\ hurt'[d] = hurt[d]
  /\ \/ found'[d] = None
     \/ found'[d] = found[d] /\ UNCHANGED <<labels, closed, coder, tampered>>

LEMMA OthersKeep ==
  ASSUME TypeOK, NEW c, NEW d \in Commands, d # c, Mine(d), LeftAlone(d),
         Leaves(thread, thread', c), UNCHANGED rules
  PROVE  Mine(d)'
<1>1. /\ Replies(d)' = Replies(d) /\ Apologies(d)' = Apologies(d)
      /\ \A i \in Replies(d) : thread'[i] = thread[i]
  BY OthersReplies
<1>2. HowFar(d)'
  BY <1>1, StagesStay DEF Mine, HowFar, LeftAlone
<1>3. OneReply(d)'
  BY <1>1 DEF Mine, OneReply, LeftAlone
<1>4. Heard(d)'
  <2> SUFFICES ASSUME view[d] \in Listings, view[d].above # {}
               PROVE  \E j \in 1..Len(thread') : /\ comment[d] # 0 => j < comment[d]
                                               /\ thread'[j].note = view[d].above /\ ~ thread'[j].points
    BY DEF Heard, LeftAlone
  <2>1. PICK j \in 1..Len(thread) : /\ comment[d] # 0 => j < comment[d]
                                   /\ thread[j].note = view[d].above /\ ~ thread[j].points
    BY DEF Mine, Heard
  <2>2. thread'[j] = thread[j] /\ j \in 1..Len(thread')
    BY <2>1 DEF Leaves
  <2> QED BY <2>1, <2>2
<1>5. found'[d] # None => Undisturbed(d)'
  <2> SUFFICES ASSUME found'[d] # None PROVE Undisturbed(d)'
    OBVIOUS
  <2>1. Undisturbed(d) /\ found'[d] = found[d] /\ UNCHANGED <<labels, closed, coder, tampered, rules>>
    BY DEF Mine, LeftAlone
  <2>2. /\ pc'[d] = pc[d] /\ kind'[d] = kind[d] /\ stage'[d] = stage[d] /\ memo'[d] = memo[d]
        /\ view'[d] = view[d] /\ moves'[d] = moves[d] /\ comment'[d] = comment[d] /\ hurt'[d] = hurt[d]
    BY DEF LeftAlone
  <2>3. Target(d)' = Target(d) /\ Wanted(d)' = Wanted(d) /\ Issue' = Issue
    BY <2>1, <2>2 DEF Target, Wanted, Decided, Issue
  <2>4. Moving(d)' <=> Moving(d)
    BY <2>1, <2>2, <2>3 DEF Moving
  <2>5. hurt[d] = "nothing" /\ pc[d] = "answered" => thread'[comment[d]] = thread[comment[d]]
    BY <1>1 DEF TypeOK, Mine, OneReply
  <2>6. hurt[d] = "nothing" /\ pc[d] = "answered" =>
          thread[comment[d]].note = Warnings(Issue, coder, ~ tampered)
    BY <2>1 DEF Undisturbed
  <2>7. Warnings(Issue, coder, ~ tampered)' = Warnings(Issue, coder, ~ tampered)
    BY <2>1, <2>3 DEF Warnings
  <2> QED BY <2>1, <2>2, <2>3, <2>4, <2>5, <2>6, <2>7 DEF Undisturbed
<1> QED BY <1>2, <1>3, <1>4, <1>5 DEF Mine

LEMMA OneStep ==
  ASSUME IInv, NEW c \in Commands, TypeOK', PointerHasItsNote', Mine(c)', Leaves(thread, thread', c),
         UNCHANGED rules, \A d \in Commands \ {c} : LeftAlone(d)
  PROVE  IInv'
BY OthersKeep DEF IInv

\* A step that writes nothing to the thread leaves a command's comment as it was.
LEMMA SilentReply ==
  ASSUME NEW c \in Commands, OneReply(c), UNCHANGED thread, comment'[c] = comment[c],
         pc[c] \notin Ended, pc'[c] \notin Ended, hurt'[c] \in Harmless => hurt[c] \in Harmless
  PROVE  OneReply(c)'
<1>1. Replies(c)' = Replies(c)
  BY DEF Replies
<1> QED BY <1>1 DEF OneReply, Ended

LEMMA SilentHeard ==
  ASSUME NEW c \in Commands, Heard(c), UNCHANGED thread, comment'[c] = comment[c],
         view'[c] = view[c] \/ view'[c] \notin Listings
  PROVE  Heard(c)'
BY DEF Heard

LEMMA SilentThread ==
  ASSUME IInv, UNCHANGED thread
  PROVE  /\ PointerHasItsNote' /\ \A c : Leaves(thread, thread', c)
         /\ \A c : Replies(c)' = Replies(c)
<1>1. thread \in Seq(Said)
  BY DEF IInv, TypeOK
<1> QED BY <1>1, NothingSaid DEF IInv, PointerHasItsNote, Replies

\* A step that reads, or moves a label, and writes no comment.
LEMMA QuietStep ==
  ASSUME IInv, NEW c \in Commands, TypeOK', UNCHANGED <<thread, rules>>, comment'[c] = comment[c],
         \A d \in Commands \ {c} : LeftAlone(d),
         pc[c] \notin Ended, pc'[c] \notin Ended, hurt'[c] \in Harmless => hurt[c] \in Harmless,
         HowFar(c)', Heard(c)', found'[c] # None => Undisturbed(c)'
  PROVE  IInv'
<1>1. PointerHasItsNote' /\ Leaves(thread, thread', c)
  BY SilentThread
<1>2. Mine(c)'
  BY SilentReply DEF IInv, Mine
<1> QED BY <1>1, <1>2, OneStep

LEMMA Goes ==
  ASSUME TypeOK, NEW c \in Commands, NEW place \in Places, Goto(c, place)
  PROVE  pc' \in [Commands -> Places] /\ pc'[c] = place /\ \A d \in Commands \ {c} : pc'[d] = pc[d]
BY DEF TypeOK, Goto

LEMMA Hurts ==
  ASSUME TypeOK, NEW c \in Commands, NEW what \in {"reading", "request"}, Hurt(c, what)
  PROVE  /\ hurt' \in [Commands -> {"nothing", "reading", "request", "cut off"}]
         /\ hurt'[c] = what /\ \A d \in Commands \ {c} : hurt'[d] = hurt[d]
         /\ trouble' \in 0..MaxTrouble
<1>1. trouble' \in 0..MaxTrouble
  <2>1. trouble \in 0..MaxTrouble /\ MaxTrouble \in Nat
    BY CheckWorkflowAssumption DEF TypeOK
  <2>2. trouble < MaxTrouble /\ trouble' = trouble + 1
    BY DEF Hurt, Trouble
  <2> QED BY <2>1, <2>2
<1>2. hurt \in [Commands -> {"nothing", "reading", "request", "cut off"}] /\ hurt' = [hurt EXCEPT ![c] = what]
  BY DEF TypeOK, Hurt
<1> QED BY <1>1, <1>2

LEMMA Disturbs ==
  ASSUME TypeOK, NEW c, Disturbed(c)
  PROVE  /\ found' \in [Commands -> {None} \cup SUBSET Labels]
         /\ c \in Commands => found'[c] = found[c]
         /\ \A d \in Commands \ {c} : found'[d] = None
BY DEF TypeOK, Disturbed

LEMMA QuietTypes ==
  ASSUME TypeOK, UNCHANGED <<recorded, rules, thread, kind, comment>>,
         labels' \subseteq Labels, closed' \in BOOLEAN, coder' \in Coders \cup {Nobody}, tampered' \in BOOLEAN,
         trouble' \in 0..MaxTrouble, pc' \in [Commands -> Places],
         stage' \in [Commands -> 1..4], \A c \in Commands : stage'[c] <= Len(Stages(kind[c])),
         memo' \in [Commands -> {None, Unread} \cup Issues],
         view' \in [Commands -> {None, Unread} \cup Listings],
         moves' \in [Commands -> Seq([label : Labels, add : BOOLEAN])],
         \A c \in Commands : Len(moves'[c]) <= 2,
         found' \in [Commands -> {None} \cup SUBSET Labels],
         hurt' \in [Commands -> {"nothing", "reading", "request", "cut off"}]
  PROVE  TypeOK'
<1>1. \A c \in Commands : Replies(c)' = Replies(c) /\ Stages(kind[c])' = Stages(kind[c])
  BY StagesStay DEF Replies
<1> QED BY <1>1 DEF TypeOK

LEMMA Types ==
  ASSUME TypeOK
  PROVE  /\ labels \subseteq Labels /\ closed \in BOOLEAN /\ coder \in Coders \cup {Nobody}
         /\ tampered \in BOOLEAN /\ recorded \in BOOLEAN /\ rules \in Rules /\ trouble \in 0..MaxTrouble
         /\ pc \in [Commands -> Places] /\ kind \in [Commands -> Kinds]
         /\ stage \in [Commands -> 1..4] /\ \A c \in Commands : stage[c] <= Len(Stages(kind[c]))
         /\ memo \in [Commands -> {None, Unread} \cup Issues]
         /\ view \in [Commands -> {None, Unread} \cup Listings]
         /\ moves \in [Commands -> Seq([label : Labels, add : BOOLEAN])]
         /\ \A c \in Commands : Len(moves[c]) <= 2
         /\ found \in [Commands -> {None} \cup SUBSET Labels]
         /\ hurt \in [Commands -> {"nothing", "reading", "request", "cut off"}]
         /\ thread \in Seq(Said)
BY DEF TypeOK

LEMMA IssueIsAnIssue == TypeOK => Issue \in Issues
BY DEF TypeOK, Issue, Issues

LEMMA ListingIsAListing == TypeOK => Listing \in Listings
BY AboveWasSaid, Types DEF Listing, Listings

-----------------------------------------------------------------------------
(***************************************************************************)
(* What a command finds.                                                   *)
(***************************************************************************)

LEMMA BeginKeeps == ASSUME IInv, NEW c \in Commands, Begin(c) PROVE IInv'
<1>t. TypeOK /\ Mine(c)
  BY DEF IInv
<1>1. PICK place \in {"record", "about"} : Goto(c, place) /\ (place = "record" <=> kind[c] \in {"assign", "remove"})
  BY DEF Begin
<1>2. pc' \in [Commands -> Places] /\ pc'[c] = place /\ \A d \in Commands \ {c} : pc'[d] = pc[d]
  BY <1>t, <1>1, Goes DEF Places
<1>3. /\ pc[c] = "idle" /\ UNCHANGED <<labels, closed, coder, tampered, recorded, rules>>
      /\ UNCHANGED <<thread, kind, stage, memo, view, moves, comment, trouble, hurt>>
      /\ found' = [found EXCEPT ![c] = labels]
  BY DEF Begin, check
<1>4. /\ found' \in [Commands -> {None} \cup SUBSET Labels] /\ found'[c] = labels
      /\ \A d \in Commands \ {c} : found'[d] = found[d]
  BY <1>t, <1>3, Types
<1>5. TypeOK'
  BY <1>t, <1>2, <1>3, <1>4, Types, QuietTypes
<1>6. PointerHasItsNote' /\ Leaves(thread, thread', c) /\ Replies(c)' = Replies(c)
  BY <1>3, SilentThread
<1>7. \A d \in Commands \ {c} : LeftAlone(d)
  BY <1>2, <1>3, <1>4 DEF LeftAlone
<1>8. HowFar(c)'
  BY <1>t, <1>1, <1>2, <1>3, <1>6 DEF Mine, HowFar, Harmless
<1>9. OneReply(c)' /\ Heard(c)'
  BY <1>t, <1>1, <1>2, <1>3, SilentReply, SilentHeard DEF Mine, Ended
<1>10. Undisturbed(c)'
  <2>1. view[c] = None /\ memo[c] = None /\ hurt[c] = "nothing"
    BY <1>t, <1>3 DEF Mine, HowFar
  <2> QED BY <1>1, <1>2, <1>3, <1>4, <2>1, CheckWorkflowAssumption DEF Undisturbed
<1>11. Mine(c)'
  BY <1>8, <1>9, <1>10 DEF Mine
<1> QED BY <1>3, <1>5, <1>6, <1>7, <1>11, OneStep

LEMMA AboutKeeps == ASSUME IInv, NEW c \in Commands, About(c) PROVE IInv'
<1>t. TypeOK /\ Mine(c)
  BY DEF IInv
<1>1. PICK place \in {"note", "issue"} : Goto(c, place) /\ (place = "note" <=> tampered /\ kind[c] # "status")
  BY DEF About
<1>2. pc' \in [Commands -> Places] /\ pc'[c] = place /\ \A d \in Commands \ {c} : pc'[d] = pc[d]
  BY <1>t, <1>1, Goes DEF Places
<1>3. /\ pc[c] = "about" /\ UNCHANGED <<labels, closed, coder, tampered, recorded, rules>>
      /\ UNCHANGED <<thread, kind, stage, memo, moves, comment, trouble, found, hurt>>
      /\ view' = [view EXCEPT ![c] = Listing]
  BY DEF About, check, history
<1>4. /\ view' \in [Commands -> {None, Unread} \cup Listings] /\ view'[c] = Listing /\ Listing \in Listings
      /\ \A d \in Commands \ {c} : view'[d] = view[d]
  BY <1>t, <1>3, Types, ListingIsAListing
<1>5. TypeOK'
  BY <1>t, <1>2, <1>3, <1>4, Types, QuietTypes
<1>6. PointerHasItsNote' /\ Leaves(thread, thread', c) /\ Replies(c)' = Replies(c)
  BY <1>3, SilentThread
<1>7. \A d \in Commands \ {c} : LeftAlone(d)
  BY <1>2, <1>3, <1>4 DEF LeftAlone
<1>8. HowFar(c)'
  BY <1>t, <1>1, <1>2, <1>3, <1>4, <1>6, CheckWorkflowAssumption DEF Mine, HowFar, Harmless
<1>9. OneReply(c)'
  BY <1>t, <1>1, <1>2, <1>3, SilentReply DEF Mine, Ended
<1>10. Heard(c)'
  <2>1. comment[c] = 0 /\ Listing.above = Above(thread)
    BY <1>t, <1>3 DEF Mine, HowFar, Listing
  <2>2. Above(thread) # {} => \E j \in 1..Len(thread) : thread[j].note = Above(thread) /\ ~ thread[j].points
    BY <1>t, Types, AboveWasSaid
  <2> QED BY <1>3, <1>4, <2>1, <2>2 DEF Heard
<1>11. found'[c] # None => Undisturbed(c)'
  <2> SUFFICES ASSUME found[c] # None PROVE Undisturbed(c)'
    BY <1>3
  <2>1. hurt[c] = "nothing" /\ memo[c] = None /\ labels = found[c] /\ kind[c] \notin {"assign", "remove"}
    BY <1>t, <1>3 DEF Mine, HowFar, Undisturbed, Harmless
  <2>2. Listing.coder = coder /\ Listing.tampered = tampered
    BY DEF Listing
  <2>3. place = "note" => Target(c)' = found[c]
    BY <1>1, <1>3 DEF Target
  <2> QED BY <1>1, <1>2, <1>3, <1>4, <2>1, <2>2, <2>3, CheckWorkflowAssumption DEF Undisturbed
<1>12. Mine(c)'
  BY <1>8, <1>9, <1>10, <1>11 DEF Mine
<1> QED BY <1>3, <1>5, <1>6, <1>7, <1>12, OneStep

LEMMA AboutFailsKeeps == ASSUME IInv, NEW c \in Commands, AboutFails(c) PROVE IInv'
<1>t. TypeOK /\ Mine(c)
  BY DEF IInv
<1>1. pc' \in [Commands -> Places] /\ pc'[c] = "note" /\ \A d \in Commands \ {c} : pc'[d] = pc[d]
  BY <1>t, Goes DEF AboutFails, Places
<1>2. /\ hurt' \in [Commands -> {"nothing", "reading", "request", "cut off"}] /\ hurt'[c] = "request"
      /\ trouble' \in 0..MaxTrouble /\ \A d \in Commands \ {c} : hurt'[d] = hurt[d]
  BY <1>t, Hurts DEF AboutFails
<1>3. /\ pc[c] = "about" /\ UNCHANGED <<labels, closed, coder, tampered, recorded, rules>>
      /\ UNCHANGED <<thread, kind, stage, memo, moves, comment, found>>
      /\ view' = [view EXCEPT ![c] = Unread]
  BY DEF AboutFails, check
<1>4. /\ view' \in [Commands -> {None, Unread} \cup Listings] /\ view'[c] = Unread /\ Unread \notin Listings
      /\ \A d \in Commands \ {c} : view'[d] = view[d]
  BY <1>t, <1>3, Types, CheckWorkflowAssumption
<1>5. TypeOK'
  BY <1>t, <1>1, <1>2, <1>3, <1>4, Types, QuietTypes
<1>6. \A d \in Commands \ {c} : LeftAlone(d)
  BY <1>1, <1>2, <1>3, <1>4 DEF LeftAlone
<1>7. HowFar(c)'
  BY <1>1, <1>2, <1>4, CheckWorkflowAssumption DEF HowFar, Harmless
<1>8. Heard(c)'
  BY <1>t, <1>3, <1>4, SilentHeard DEF Mine
<1>9. Undisturbed(c)'
  BY <1>2, <1>4 DEF Undisturbed, Harmless
<1> QED BY <1>1, <1>2, <1>3, <1>5, <1>6, <1>7, <1>8, <1>9, QuietStep DEF Ended, Harmless

\* The issue is read, or cannot be.
LEMMA IssueIsRead ==
  ASSUME TypeOK, NEW c \in Commands, NEW what \in {"reading", "request"},
         \/ memo' = [memo EXCEPT ![c] = Issue] /\ UNCHANGED <<trouble, hurt>>
         \/ memo' = [memo EXCEPT ![c] = Unread] /\ Hurt(c, what)
  PROVE  /\ memo' \in [Commands -> {None, Unread} \cup Issues]
         /\ hurt' \in [Commands -> {"nothing", "reading", "request", "cut off"}]
         /\ trouble' \in 0..MaxTrouble
         /\ \A d \in Commands \ {c} : memo'[d] = memo[d] /\ hurt'[d] = hurt[d]
         /\ \/ memo'[c] = Issue /\ hurt'[c] = hurt[c]
            \/ memo'[c] = Unread /\ hurt'[c] = what
         /\ Issue \in Issues
<1>1. Issue \in Issues
  BY IssueIsAnIssue
<1>2. CASE memo' = [memo EXCEPT ![c] = Issue] /\ UNCHANGED <<trouble, hurt>>
  BY <1>1, <1>2, Types
<1>3. CASE memo' = [memo EXCEPT ![c] = Unread] /\ Hurt(c, what)
  <2>1. /\ hurt' \in [Commands -> {"nothing", "reading", "request", "cut off"}]
        /\ hurt'[c] = what /\ \A d \in Commands \ {c} : hurt'[d] = hurt[d]
        /\ trouble' \in 0..MaxTrouble
    BY <1>3, Hurts
  <2> QED BY <1>1, <1>3, <2>1, Types
<1> QED BY <1>2, <1>3

LEMMA ReadIssueKeeps == ASSUME IInv, NEW c \in Commands, ReadIssue(c) PROVE IInv'
<1>t. TypeOK /\ Mine(c)
  BY DEF IInv
<1>1. PICK place \in {"note", "stage"} : Goto(c, place) /\ (place = "note" <=> Refuses(c))
  BY DEF ReadIssue
<1>2. pc' \in [Commands -> Places] /\ pc'[c] = place /\ \A d \in Commands \ {c} : pc'[d] = pc[d]
  BY <1>t, <1>1, Goes DEF Places
<1>3. /\ memo' \in [Commands -> {None, Unread} \cup Issues]
      /\ hurt' \in [Commands -> {"nothing", "reading", "request", "cut off"}]
      /\ trouble' \in 0..MaxTrouble
      /\ \A d \in Commands \ {c} : memo'[d] = memo[d] /\ hurt'[d] = hurt[d]
      /\ \/ memo'[c] = Issue /\ hurt'[c] = hurt[c]
         \/ memo'[c] = Unread /\ hurt'[c] = "reading"
      /\ Issue \in Issues
  BY <1>t, IssueIsRead DEF ReadIssue
<1>4. /\ pc[c] = "issue" /\ UNCHANGED <<labels, closed, coder, tampered, recorded, rules>>
      /\ UNCHANGED <<thread, kind, stage, view, moves, comment, found>>
  BY DEF ReadIssue, check
<1>5. TypeOK'
  BY <1>t, <1>2, <1>3, <1>4, Types, QuietTypes
<1>6. \A d \in Commands \ {c} : LeftAlone(d)
  BY <1>2, <1>3, <1>4 DEF LeftAlone
<1>7. /\ hurt[c] = "nothing" /\ stage[c] = 1 /\ kind[c] \notin {"assign", "remove"}
      /\ view[c] \in Listings /\ view[c] # None /\ view[c] # Unread
      /\ memo'[c] # None /\ (memo'[c] = Unread => hurt'[c] = "reading")
  BY <1>t, <1>3, <1>4, CheckWorkflowAssumption DEF Mine, HowFar
<1>8. HowFar(c)'
  BY <1>1, <1>2, <1>3, <1>4, <1>7 DEF HowFar, Harmless, Refuses
<1>9. Heard(c)'
  BY <1>t, <1>4, SilentHeard DEF Mine
<1>10. found'[c] # None => Undisturbed(c)'
  <2> SUFFICES ASSUME found[c] # None PROVE Undisturbed(c)'
    BY <1>4
  <2>1. /\ view[c].coder = coder /\ view[c].tampered = tampered /\ labels = found[c]
        /\ ~ tampered \/ kind[c] = "status"
    BY <1>t, <1>4, <1>7 DEF Mine, Undisturbed, Harmless
  <2>2. place = "note" => Target(c)' = found[c]
    BY <1>1, <1>4, <2>1 DEF Target, Refuses
  <2>3. place = "stage" /\ kind[c] = "start" => coder # Nobody
    BY <1>1, <2>1 DEF Refuses
  <2>4. memo'[c] \in Issues => memo'[c] = Issue'
    BY <1>3, <1>4, CheckWorkflowAssumption DEF Issue
  <2> QED BY <1>2, <1>4, <1>7, <2>1, <2>2, <2>3, <2>4 DEF Undisturbed
<1> QED BY <1>2, <1>3, <1>4, <1>5, <1>6, <1>7, <1>8, <1>9, <1>10, QuietStep DEF Ended, Harmless

LEMMA GatherKeeps == ASSUME IInv, NEW c \in Commands, Gather(c) PROVE IInv'
<1>t. TypeOK /\ Mine(c)
  BY DEF IInv
<1>1. /\ memo' \in [Commands -> {None, Unread} \cup Issues]
      /\ hurt' \in [Commands -> {"nothing", "reading", "request", "cut off"}]
      /\ trouble' \in 0..MaxTrouble
      /\ \A d \in Commands \ {c} : memo'[d] = memo[d] /\ hurt'[d] = hurt[d]
      /\ \/ memo'[c] = Issue /\ hurt'[c] = hurt[c]
         \/ memo'[c] = Unread /\ hurt'[c] = "request"
      /\ Issue \in Issues
  BY <1>t, IssueIsRead DEF Gather
<1>2. /\ pc[c] = "note" /\ UNCHANGED <<labels, closed, coder, tampered, recorded, rules>>
      /\ UNCHANGED <<thread, pc, kind, stage, view, moves, comment, found>>
  BY DEF Gather, check
<1>3. TypeOK'
  BY <1>t, <1>1, <1>2, Types, QuietTypes
<1>4. \A d \in Commands \ {c} : LeftAlone(d)
  BY <1>1, <1>2 DEF LeftAlone
<1>5. HowFar(c)'
  BY <1>t, <1>1, <1>2, CheckWorkflowAssumption DEF Mine, HowFar, Harmless
<1>6. Heard(c)'
  BY <1>t, <1>2, SilentHeard DEF Mine
<1>7. found'[c] # None => Undisturbed(c)'
  <2> SUFFICES ASSUME found[c] # None PROVE Undisturbed(c)'
    BY <1>2
  <2>1. /\ view[c] \in Listings => view[c].coder = coder /\ view[c].tampered = tampered
        /\ hurt[c] \in Harmless => labels = Target(c)
    BY <1>t, <1>2 DEF Mine, Undisturbed
  <2>2. Target(c)' = Target(c) /\ Issue' = Issue
    BY <1>2 DEF Target, Issue
  <2> QED BY <1>1, <1>2, <2>1, <2>2, CheckWorkflowAssumption DEF Undisturbed, Harmless
<1> QED BY <1>1, <1>2, <1>3, <1>4, <1>5, <1>6, <1>7, QuietStep DEF Ended, Harmless

-----------------------------------------------------------------------------
(***************************************************************************)
(* The reply.                                                              *)
(***************************************************************************)

Place(c) == IF comment[c] = 0 THEN Len(thread) + 1 ELSE comment[c]
Says(c, entry) == IF comment[c] = 0 THEN Append(thread, entry) ELSE [thread EXCEPT ![comment[c]] = entry]

\* What a command writes points at nothing, or at what it has heard.
Honest(c, entry) ==
  entry.points => entry.note # {} /\ view[c] \in Listings /\ view[c].above = entry.note

LEMMA CommentTypes ==
  ASSUME TypeOK
  PROVE  /\ comment \in [Commands -> 0..Len(thread)] /\ \A d \in Commands : comment[d] \in {0} \cup Replies(d)
         /\ Len(thread) \in Nat /\ DOMAIN thread = 1..Len(thread)
<1>1. thread \in Seq(Said)
  BY DEF TypeOK
<1>2. comment \in [Commands -> 0..Len(thread)] /\ \A d \in Commands : comment[d] \in {0} \cup Replies(d)
  BY DEF TypeOK
<1> QED BY <1>1, <1>2

LEMMA ReplyIsWritten ==
  ASSUME IInv, NEW c \in Commands, pc[c] \notin Ended, NEW entry \in Said, entry.by = c,
         entry.state # "sorry", Honest(c, entry), thread' = Says(c, entry)
  PROVE  /\ Leaves(thread, thread', c) /\ PointerHasItsNote'
         /\ Place(c) \in 1..Len(thread') /\ thread'[Place(c)] = entry
         /\ Replies(c)' = Replies(c) \cup {Place(c)}
         /\ \A i \in Replies(c) : i # Place(c) => thread'[i] = thread[i]
<1>1. /\ thread \in Seq(Said) /\ Len(thread) \in Nat /\ DOMAIN thread = 1..Len(thread)
      /\ comment[c] \in 0..Len(thread) /\ comment[c] \in {0} \cup Replies(c)
  <2>1. TypeOK
    BY DEF IInv
  <2> QED BY <2>1, Types, CommentTypes
<1>2. \A i \in Replies(c) : i \in 1..Len(thread) /\ thread[i].by = c /\ thread[i].note = {}
  BY <1>1 DEF IInv, Mine, OneReply, Replies
<1>3. Leaves(thread, thread', c)
  BY <1>1, <1>2, Appended, Rewritten DEF Says
<1>4. /\ Place(c) \in 1..Len(thread') /\ thread'[Place(c)] = entry /\ Len(thread') \in Nat
      /\ \A j \in 1..Len(thread') : j # Place(c) => j \in 1..Len(thread) /\ thread'[j] = thread[j]
  <2>1. CASE comment[c] = 0
    BY <1>1, <2>1, Appended DEF Says, Place
  <2>2. CASE comment[c] # 0
    BY <1>1, <1>2, <2>2, Rewritten DEF Says, Place
  <2> QED BY <2>1, <2>2
<1>5. Replies(c)' = Replies(c) \cup {Place(c)} /\ \A i \in Replies(c) : i # Place(c) => thread'[i] = thread[i]
  <2>1. thread' \in Seq(Said) /\ DOMAIN thread' = 1..Len(thread') /\ Len(thread) <= Len(thread')
    BY <1>3 DEF Leaves
  <2>2. \A i \in Replies(c) : i \in 1..Len(thread')
    BY <1>1, <1>2, <1>4, <2>1
  <2>3. Replies(c)' = {i \in 1..Len(thread') : thread'[i].by = c /\ thread'[i].state # "sorry"}
    BY <2>1 DEF Replies
  <2>4. \A i \in 1..Len(thread') :
          i # Place(c) => (thread'[i].by = c /\ thread'[i].state # "sorry" <=> i \in Replies(c))
    BY <1>1, <1>4 DEF Replies
  <2> QED BY <1>4, <2>2, <2>3, <2>4
<1>6. PointerHasItsNote'
  <2>1. entry.points => \E i \in 1..(Place(c) - 1) :
                          i <= Len(thread) /\ thread[i].note = entry.note /\ thread[i].note # {} /\ ~ thread[i].points
    <3> SUFFICES ASSUME entry.points
                 PROVE  \E i \in 1..(Place(c) - 1) :
                          i <= Len(thread) /\ thread[i].note = entry.note /\ thread[i].note # {} /\ ~ thread[i].points
      OBVIOUS
    <3>1. entry.note # {} /\ view[c] \in Listings /\ view[c].above = entry.note
      BY DEF Honest
    <3>2. PICK i \in 1..Len(thread) : /\ comment[c] # 0 => i < comment[c]
                                     /\ thread[i].note = view[c].above /\ ~ thread[i].points
      BY <3>1 DEF IInv, Mine, Heard
    <3>3. i \in 1..(Place(c) - 1)
      BY <1>1, <3>2 DEF Place
    <3> QED BY <1>1, <3>1, <3>2, <3>3
  <2>2. \A j \in 1..Len(thread') : thread'[j].points =>
          \/ j <= Len(thread) /\ thread'[j] = thread[j]
          \/ \E i \in 1..(j - 1) : i <= Len(thread) /\ thread[i].note = thread'[j].note
                                 /\ thread[i].note # {} /\ ~ thread[i].points
    BY <1>4, <2>1
  <2>3. PointersStand(thread)
    BY DEF IInv, PointerHasItsNote
  <2> QED BY <1>3, <2>2, <2>3, PointersKept DEF PointerHasItsNote
<1> QED BY <1>3, <1>4, <1>5, <1>6

\* A write of a reply that is answered, or is not.
LEMMA WriteWrites ==
  ASSUME IInv, NEW c \in Commands, pc[c] \notin Ended, NEW entry \in Said, entry.by = c,
         entry.state # "sorry", Honest(c, entry),
         \/ Write(c, entry) /\ UNCHANGED hurt /\ trouble' \in 0..MaxTrouble
         \/ WriteLost(c, entry)
  PROVE  /\ Leaves(thread, thread', c) /\ PointerHasItsNote'
         /\ comment' \in [Commands -> 0..Len(thread')]
         /\ \A d \in Commands : comment'[d] \in {0} \cup Replies(d)'
         /\ hurt' \in [Commands -> {"nothing", "reading", "request", "cut off"}] /\ trouble' \in 0..MaxTrouble
         /\ found' \in [Commands -> {None} \cup SUBSET Labels] /\ found'[c] = found[c]
         /\ \A d \in Commands \ {c} : /\ comment'[d] = comment[d] /\ hurt'[d] = hurt[d]
                                     /\ found'[d] \in {None, found[d]}
         /\ \A i \in Replies(c)' : thread'[i] = entry \/ (i \in Replies(c) /\ thread'[i] = thread[i])
         /\ \/ /\ hurt'[c] = hurt[c] /\ comment'[c] = Place(c)
               /\ Replies(c)' = Replies(c) \cup {Place(c)} /\ thread'[Place(c)] = entry
            \/ hurt'[c] = "request" /\ comment'[c] = comment[c]
<1>t. TypeOK
  BY DEF IInv
<1>1. /\ thread \in Seq(Said) /\ Len(thread) \in Nat
      /\ comment \in [Commands -> 0..Len(thread)] /\ \A d \in Commands : comment[d] \in {0} \cup Replies(d)
  BY <1>t, Types, CommentTypes
<1>2. \A d \in Commands \ {c} : Leaves(thread, thread', c) => Replies(d)' = Replies(d)
  BY OthersReplies
<1>3. CASE Write(c, entry) /\ UNCHANGED hurt /\ trouble' \in 0..MaxTrouble
  <2>1. /\ thread' = Says(c, entry) /\ Disturbed(c)
        /\ comment' = IF comment[c] = 0 THEN [comment EXCEPT ![c] = Len(thread) + 1] ELSE comment
    BY <1>3 DEF Write, Says
  <2>2. /\ Leaves(thread, thread', c) /\ PointerHasItsNote'
        /\ Place(c) \in 1..Len(thread') /\ thread'[Place(c)] = entry
        /\ Replies(c)' = Replies(c) \cup {Place(c)}
        /\ \A i \in Replies(c) : i # Place(c) => thread'[i] = thread[i]
    BY <2>1, ReplyIsWritten
  <2>3. comment'[c] = Place(c) /\ \A d \in Commands \ {c} : comment'[d] = comment[d]
    BY <1>1, <2>1 DEF Place
  <2>4. comment' \in [Commands -> 0..Len(thread')]
    <3>1. Len(thread') \in Nat /\ Len(thread) <= Len(thread')
      BY <2>2 DEF Leaves
    <3>2. \A d \in Commands : comment'[d] \in 0..Len(thread')
      BY <1>1, <2>2, <2>3, <3>1
    <3>3. DOMAIN comment' = Commands /\ comment' = [d \in Commands |-> comment'[d]]
      BY <1>1, <2>1
    <3> QED BY <3>2, <3>3
  <2>5. \A d \in Commands : comment'[d] \in {0} \cup Replies(d)'
    BY <1>1, <1>2, <2>2, <2>3
  <2>6. /\ found' \in [Commands -> {None} \cup SUBSET Labels] /\ found'[c] = found[c]
        /\ \A d \in Commands \ {c} : found'[d] = None
    BY <1>t, <2>1, Disturbs
  <2>7. hurt' \in [Commands -> {"nothing", "reading", "request", "cut off"}] /\ trouble' \in 0..MaxTrouble
    BY <1>t, <1>3, Types
  <2> QED BY <1>3, <2>2, <2>3, <2>4, <2>5, <2>6, <2>7
<1>4. CASE WriteLost(c, entry)
  <2>1. /\ hurt' \in [Commands -> {"nothing", "reading", "request", "cut off"}] /\ trouble' \in 0..MaxTrouble
        /\ hurt'[c] = "request" /\ \A d \in Commands \ {c} : hurt'[d] = hurt[d]
    BY <1>t, <1>4, Hurts DEF WriteLost
  <2>2. UNCHANGED comment
    BY <1>4 DEF WriteLost
  <2>3. /\ Leaves(thread, thread', c) /\ PointerHasItsNote'
        /\ Replies(c) \subseteq Replies(c)'
        /\ \A i \in Replies(c)' : thread'[i] = entry \/ (i \in Replies(c) /\ thread'[i] = thread[i])
        /\ found' \in [Commands -> {None} \cup SUBSET Labels] /\ found'[c] = found[c]
        /\ \A d \in Commands \ {c} : found'[d] \in {None, found[d]}
    <3>1. CASE thread' = Says(c, entry) /\ Disturbed(c)
      <4>1. /\ Leaves(thread, thread', c) /\ PointerHasItsNote' /\ thread'[Place(c)] = entry
            /\ Replies(c)' = Replies(c) \cup {Place(c)}
            /\ \A i \in Replies(c) : i # Place(c) => thread'[i] = thread[i]
        BY <3>1, ReplyIsWritten
      <4>2. /\ found' \in [Commands -> {None} \cup SUBSET Labels] /\ found'[c] = found[c]
            /\ \A d \in Commands \ {c} : found'[d] = None
        BY <1>t, <3>1, Disturbs
      <4> QED BY <4>1, <4>2
    <3>2. CASE UNCHANGED <<thread, found>>
      BY <1>t, <3>2, SilentThread, Types
    <3> QED BY <1>4, <3>1, <3>2 DEF WriteLost, Says
  <2>4. comment' \in [Commands -> 0..Len(thread')]
    <3>1. Len(thread') \in Nat /\ Len(thread) <= Len(thread')
      BY <2>3 DEF Leaves
    <3> QED BY <1>1, <2>2, <3>1
  <2>5. \A d \in Commands : comment'[d] \in {0} \cup Replies(d)'
    BY <1>1, <1>2, <2>2, <2>3
  <2> QED BY <2>1, <2>2, <2>3, <2>4, <2>5
<1> QED BY <1>3, <1>4

LEMMA WrittenTypes ==
  ASSUME TypeOK, NEW c, Leaves(thread, thread', c),
         UNCHANGED <<labels, closed, tampered, rules, kind>>,
         coder' \in Coders \cup {Nobody}, recorded' \in BOOLEAN, trouble' \in 0..MaxTrouble,
         comment' \in [Commands -> 0..Len(thread')], \A d \in Commands : comment'[d] \in {0} \cup Replies(d)',
         pc' \in [Commands -> Places],
         stage' \in [Commands -> 1..4], \A d \in Commands : stage'[d] <= Len(Stages(kind[d])),
         memo' \in [Commands -> {None, Unread} \cup Issues],
         view' \in [Commands -> {None, Unread} \cup Listings],
         moves' \in [Commands -> Seq([label : Labels, add : BOOLEAN])],
         \A d \in Commands : Len(moves'[d]) <= 2,
         found' \in [Commands -> {None} \cup SUBSET Labels],
         hurt' \in [Commands -> {"nothing", "reading", "request", "cut off"}]
  PROVE  TypeOK'
<1>1. \A d \in Commands : Stages(kind[d])' = Stages(kind[d])
  BY StagesStay
<1>2. thread' \in Seq(Said)
  BY DEF Leaves
<1> QED BY <1>1, <1>2 DEF TypeOK

LEMMA WrittenHeard ==
  ASSUME IInv, NEW c \in Commands, Leaves(thread, thread', c), view'[c] = view[c],
         comment'[c] \in {comment[c], Place(c)}
  PROVE  Heard(c)'
<1>1. Len(thread) \in Nat /\ Len(thread') \in Nat /\ comment[c] \in 0..Len(thread) /\ Heard(c)
  BY CommentTypes DEF IInv, Mine, Leaves
<1> SUFFICES ASSUME view[c] \in Listings, view[c].above # {}
             PROVE  \E j \in 1..Len(thread') : /\ comment'[c] # 0 => j < comment'[c]
                                             /\ thread'[j].note = view[c].above /\ ~ thread'[j].points
  BY DEF Heard
<1>2. PICK j \in 1..Len(thread) : /\ comment[c] # 0 => j < comment[c]
                                 /\ thread[j].note = view[c].above /\ ~ thread[j].points
  BY <1>1 DEF Heard
<1>3. thread'[j] = thread[j] /\ j \in 1..Len(thread')
  BY <1>1, <1>2 DEF Leaves
<1>4. comment'[c] # 0 => j < comment'[c]
  BY <1>1, <1>2 DEF Place
<1> QED BY <1>2, <1>3, <1>4

\* A stage has run: what it leaves is what the next place counts on.
LEMMA ProgressKeeps ==
  ASSUME IInv, NEW c \in Commands, pc[c] \in {"stage", "labels"}, Progress(c),
         UNCHANGED <<check, kind, memo, view, moves>>,
         found[c] # None /\ hurt[c] \in Harmless =>
           labels = IF stage[c] = Len(Stages(kind[c])) \/ kind[c] = "start" THEN Target(c) ELSE found[c]
  PROVE  IInv'
<1>t. TypeOK /\ Mine(c)
  BY DEF IInv
<1>c. UNCHANGED <<labels, closed, coder, tampered, recorded, rules, kind, memo, view, moves>>
  BY DEF check
<1>s. /\ Len(Stages(kind[c])) \in 1..4 /\ stage[c] \in 1..4 /\ stage[c] <= Len(Stages(kind[c]))
      /\ \A d \in Commands : stage[d] <= Len(Stages(kind[d]))
  BY <1>t, StagesAre, Types
<1>v. /\ view[c] \in Listings /\ view[c] # None /\ memo[c] # None /\ kind[c] \notin {"assign", "remove"}
      /\ kind[c] = "finish" => rules # "no target"
      /\ hurt[c] = "nothing" => memo[c] # Unread
      /\ hurt[c] \in Harmless => view[c] # Unread
  BY <1>t, CheckWorkflowAssumption DEF Mine, HowFar
<1>u. Target(c)' = Target(c) \/ found'[c] # found[c]
  BY <1>c DEF Target
<1>i. Issue' = Issue
  BY <1>c DEF Issue
<1>1. CASE stage[c] = Len(Stages(kind[c]))
  <2>1. Goto(c, "note") /\ UNCHANGED <<thread, stage, comment, trouble, found, hurt>>
    BY <1>1 DEF Progress
  <2>2. pc' \in [Commands -> Places] /\ pc'[c] = "note" /\ \A d \in Commands \ {c} : pc'[d] = pc[d]
    BY <1>t, <2>1, Goes DEF Places
  <2>3. TypeOK'
    BY <1>t, <1>c, <2>1, <2>2, Types, QuietTypes
  <2>4. \A d \in Commands \ {c} : LeftAlone(d)
    BY <1>c, <2>1, <2>2 DEF LeftAlone
  <2>5. HowFar(c)'
    BY <1>c, <1>v, <2>1, <2>2 DEF HowFar
  <2>6. Heard(c)'
    BY <1>t, <1>c, <2>1, SilentHeard DEF Mine
  <2>7. found'[c] # None => Undisturbed(c)'
    <3> SUFFICES ASSUME found[c] # None PROVE Undisturbed(c)'
      BY <2>1
    <3>1. /\ view[c].coder = coder /\ view[c].tampered = tampered
          /\ hurt[c] \in Harmless => (memo[c] \in Issues => memo[c] = Issue)
      BY <1>t, <1>v DEF Mine, Undisturbed
    <3>2. hurt[c] \in Harmless => labels = Target(c)
      BY <1>1
    <3> QED BY <1>c, <1>i, <1>u, <2>1, <2>2, <3>1, <3>2 DEF Undisturbed
  <2> QED BY <1>c, <2>1, <2>2, <2>3, <2>4, <2>5, <2>6, <2>7, QuietStep DEF Ended
<1>2. CASE stage[c] # Len(Stages(kind[c]))
  <2> DEFINE entry == Entry(c, "reading", {}, FALSE)
  <2>1. /\ Goto(c, "stage") /\ stage' = [stage EXCEPT ![c] = @ + 1]
        /\ \/ Write(c, entry) /\ UNCHANGED <<trouble, hurt>>
           \/ WriteLost(c, entry)
    BY <1>2 DEF Progress
  <2>2. pc' \in [Commands -> Places] /\ pc'[c] = "stage" /\ \A d \in Commands \ {c} : pc'[d] = pc[d]
    BY <1>t, <2>1, Goes DEF Places
  <2>3. /\ stage' \in [Commands -> 1..4] /\ stage'[c] = stage[c] + 1 /\ stage'[c] <= Len(Stages(kind[c]))
        /\ \A d \in Commands \ {c} : stage'[d] = stage[d]
    <3>1. stage \in [Commands -> 1..4]
      BY <1>t, Types
    <3>2. stage[c] + 1 \in 1..4 /\ stage[c] + 1 <= Len(Stages(kind[c]))
      <4>1. \A m, n \in 1..4 : m <= n /\ m # n => m + 1 \in 1..4 /\ m + 1 <= n
        OBVIOUS
      <4> QED BY <1>s, <1>2, <4>1
    <3> QED BY <2>1, <3>1, <3>2
  <2>4. /\ entry \in Said /\ entry.by = c /\ entry.note = {} /\ ~ entry.points /\ Honest(c, entry)
        /\ entry.state # "sorry"
    <3>1. {} \in Notes
      BY DEF Notes
    <3> QED BY <3>1 DEF Entry, Said, Honest
  <2>5. pc[c] \notin Ended
    BY DEF Ended
  <2> HIDE DEF entry
  <2>6. /\ Leaves(thread, thread', c) /\ PointerHasItsNote'
        /\ comment' \in [Commands -> 0..Len(thread')]
        /\ \A d \in Commands : comment'[d] \in {0} \cup Replies(d)'
        /\ hurt' \in [Commands -> {"nothing", "reading", "request", "cut off"}] /\ trouble' \in 0..MaxTrouble
        /\ found' \in [Commands -> {None} \cup SUBSET Labels] /\ found'[c] = found[c]
        /\ \A d \in Commands \ {c} : /\ comment'[d] = comment[d] /\ hurt'[d] = hurt[d]
                                    /\ found'[d] \in {None, found[d]}
        /\ \A i \in Replies(c)' : thread'[i] = entry \/ (i \in Replies(c) /\ thread'[i] = thread[i])
        /\ \/ /\ hurt'[c] = hurt[c] /\ comment'[c] = Place(c)
              /\ Replies(c)' = Replies(c) \cup {Place(c)} /\ thread'[Place(c)] = entry
           \/ hurt'[c] = "request" /\ comment'[c] = comment[c]
    BY <1>t, <2>1, <2>4, <2>5, Types, WriteWrites
  <2>7. TypeOK'
    <3>1. \A d \in Commands : stage'[d] <= Len(Stages(kind[d]))
      BY <1>s, <2>3
    <3> QED BY <1>t, <1>c, <2>2, <2>3, <2>6, <3>1, Types, WrittenTypes
  <2>8. \A d \in Commands \ {c} : LeftAlone(d)
    BY <1>c, <2>2, <2>3, <2>6 DEF LeftAlone
  <2>9. HowFar(c)'
    BY <1>c, <1>v, <2>2, <2>6 DEF HowFar, Harmless
  <2>10. OneReply(c)'
    <3>1. \A i \in Replies(c) : thread[i].note = {} /\ ~ thread[i].points
      BY <1>t, <2>5 DEF Mine, OneReply
    <3>2. hurt'[c] \in Harmless => \A i \in Replies(c)' : i = comment'[c]
      <4>1. \A i \in Replies(c) : i \in 1..Len(thread)
        BY <1>t, CommentTypes DEF Replies
      <4>2. hurt[c] \in Harmless => \A i \in Replies(c) : i = Place(c)
        BY <1>t, <4>1 DEF Mine, OneReply, Place
      <4> QED BY ZenonT(60), <2>6, <4>2 DEF Harmless
    <3> QED BY <2>2, <2>4, <2>6, <3>1, <3>2 DEF OneReply
  <2>11. Heard(c)'
    BY <1>c, <2>6, WrittenHeard
  <2>12. found'[c] # None => Undisturbed(c)'
    <3> SUFFICES ASSUME found[c] # None PROVE Undisturbed(c)'
      BY <2>6
    <3>1. hurt'[c] \in Harmless => hurt[c] \in Harmless
      BY <2>6 DEF Harmless
    <3>2. /\ view[c].coder = coder /\ view[c].tampered = tampered
          /\ hurt[c] \in Harmless =>
               /\ memo[c] \in Issues => memo[c] = Issue
               /\ ~ tampered \/ kind[c] = "status"
               /\ kind[c] = "start" => coder # Nobody
      BY <1>t, <1>v DEF Mine, Undisturbed
    <3>3. hurt[c] \in Harmless => labels = IF kind[c] = "start" THEN Target(c) ELSE found[c]
      BY <1>2
    <3>4. stage'[c] > 1
      BY <1>s, <2>3
    <3>5. Target(c)' = Target(c)
      BY <1>u, <2>6
    <3>6. /\ kind'[c] = kind[c] /\ view'[c] = view[c] /\ memo'[c] = memo[c] /\ pc'[c] = "stage"
          /\ UNCHANGED <<labels, coder, tampered>> /\ found'[c] = found[c]
      BY <1>c, <2>2, <2>6
    <3> QED BY <1>i, <3>1, <3>2, <3>3, <3>4, <3>5, <3>6 DEF Undisturbed
  <2>13. Mine(c)'
    BY <2>9, <2>10, <2>11, <2>12 DEF Mine
  <2> QED BY <1>c, <2>6, <2>7, <2>8, <2>13, OneStep
<1> QED BY <1>1, <1>2

-----------------------------------------------------------------------------
(***************************************************************************)
(* The labels.                                                             *)
(***************************************************************************)

Off(label) == [label |-> label, add |-> FALSE]
On(label) == [label |-> label, add |-> TRUE]

LEMMA WantedAre ==
  ASSUME NEW c
  PROVE  /\ kind[c] = "start" => Wanted(c) = <<Off("needs codechecker"), On("work in progress")>>
         /\ kind[c] = "finish" /\ rules = "placeholders" =>
              Wanted(c) = <<Off("work in progress"), On("metadata pending")>>
         /\ kind[c] = "finish" /\ rules = "none" =>
              Wanted(c) = <<Off("work in progress"), Off("metadata pending")>>
         /\ kind[c] # "start" /\ (kind[c] = "finish" => rules \notin {"placeholders", "none"}) => Wanted(c) = << >>
<1>1. kind[c] = "start" => Wanted(c) = <<Off("needs codechecker"), On("work in progress")>>
  BY DEF Wanted, Off, On
<1>2. kind[c] = "finish" /\ rules = "placeholders" => Wanted(c) = <<Off("work in progress"), On("metadata pending")>>
  BY DEF Wanted, Decided, Off, On
<1>3. kind[c] = "finish" /\ rules = "none" => Wanted(c) = <<Off("work in progress"), Off("metadata pending")>>
  BY DEF Wanted, Decided, Off
<1>4. ASSUME kind[c] # "start", kind[c] = "finish" => rules \notin {"placeholders", "none"}
      PROVE  Wanted(c) = << >>
  <2>1. ~ (kind[c] = "finish" /\ Decided)
    BY <1>4 DEF Decided
  <2> QED BY <1>4, <2>1 DEF Wanted
<1> QED BY <1>1, <1>2, <1>3, <1>4

LEMMA WantedAreMoves ==
  ASSUME NEW c
  PROVE  /\ Wanted(c) \in Seq([label : Labels, add : BOOLEAN]) /\ Len(Wanted(c)) \in {0, 2}
         /\ kind[c] = "start" => Len(Wanted(c)) = 2
         /\ kind[c] = "finish" /\ rules \in {"placeholders", "none"} => Len(Wanted(c)) = 2
<1> DEFINE AMove == [label : Labels, add : BOOLEAN]
<1>1. \A one, other \in AMove : <<one, other>> \in Seq(AMove) /\ Len(<<one, other>>) = 2
  OBVIOUS
<1>2. << >> \in Seq(AMove) /\ Len(<< >>) = 0
  OBVIOUS
<1>3. /\ Off("needs codechecker") \in AMove /\ On("work in progress") \in AMove
      /\ Off("work in progress") \in AMove /\ On("metadata pending") \in AMove /\ Off("metadata pending") \in AMove
  BY DEF Off, On, Labels
<1> HIDE DEF AMove
<1>4. /\ Wanted(c) \in Seq(AMove) /\ Len(Wanted(c)) \in {0, 2}
      /\ kind[c] = "start" => Len(Wanted(c)) = 2
      /\ kind[c] = "finish" /\ rules \in {"placeholders", "none"} => Len(Wanted(c)) = 2
  <2>1. CASE kind[c] = "start"
    <3>1. Wanted(c) = <<Off("needs codechecker"), On("work in progress")>>
      BY <2>1, WantedAre
    <3> QED BY <1>1, <1>3, <2>1, <3>1
  <2>2. CASE kind[c] = "finish" /\ rules \in {"placeholders", "none"}
    <3>1. \/ Wanted(c) = <<Off("work in progress"), On("metadata pending")>>
          \/ Wanted(c) = <<Off("work in progress"), Off("metadata pending")>>
      BY <2>2, WantedAre
    <3> QED BY <1>1, <1>3, <2>2, <3>1
  <2>3. CASE kind[c] # "start" /\ ~ (kind[c] = "finish" /\ rules \in {"placeholders", "none"})
    <3>1. Wanted(c) = << >>
      BY <2>3, WantedAre
    <3> QED BY <1>2, <2>3, <3>1
  <2> QED BY <2>1, <2>2, <2>3
<1> QED BY <1>4 DEF AMove

LEMMA StageKeeps == ASSUME IInv, NEW c \in Commands, Stage(c) PROVE IInv'
<1>t. TypeOK /\ Mine(c) /\ pc[c] = "stage"
  BY DEF IInv, Stage
<1>s. /\ stage[c] \in 1..Len(Stages(kind[c])) /\ stage[c] \in 1..4 /\ Len(Stages(kind[c])) \in 1..4
      /\ kind[c] = "start" => (Stages(kind[c])[stage[c]] = "labels" <=> stage[c] = 1)
      /\ kind[c] = "finish" => Len(Stages(kind[c])) = 4 /\ (Stages(kind[c])[stage[c]] = "labels" <=> stage[c] = 4)
      /\ kind[c] \notin {"start", "finish"} => Stages(kind[c])[stage[c]] # "labels"
  <2>1. stage[c] \in 1..4 /\ stage[c] <= Len(Stages(kind[c])) /\ Len(Stages(kind[c])) \in 1..4
    BY <1>t, Types, StagesAre
  <2>2. stage[c] \in 1..Len(Stages(kind[c]))
    BY <2>1
  <2> QED BY <2>1, <2>2, StagesAre
<1>u. found[c] # None /\ hurt[c] \in Harmless =>
        labels = IF kind[c] = "start" /\ stage[c] > 1 THEN Target(c) ELSE found[c]
  BY <1>t DEF Mine, Undisturbed
<1>1. CASE Stages(kind[c])[stage[c]] = "labels"
  <2>1. /\ Goto(c, "labels") /\ moves' = [moves EXCEPT ![c] = Wanted(c)]
        /\ UNCHANGED <<thread, stage, comment, trouble, found, hurt>>
        /\ UNCHANGED <<labels, closed, coder, tampered, recorded, rules, kind, memo, view>>
    BY <1>1 DEF Stage, check
  <2>2. pc' \in [Commands -> Places] /\ pc'[c] = "labels" /\ \A d \in Commands \ {c} : pc'[d] = pc[d]
    BY <1>t, <2>1, Goes DEF Places
  <2>3. /\ moves' \in [Commands -> Seq([label : Labels, add : BOOLEAN])] /\ moves'[c] = Wanted(c)
        /\ \A d \in Commands \ {c} : moves'[d] = moves[d]
        /\ \A d \in Commands : Len(moves'[d]) <= 2
    <3>1. moves \in [Commands -> Seq([label : Labels, add : BOOLEAN])] /\ \A d \in Commands : Len(moves[d]) <= 2
      BY <1>t, Types
    <3>2. Wanted(c) \in Seq([label : Labels, add : BOOLEAN]) /\ Len(Wanted(c)) <= 2
      <4>1. \A n \in {0, 2} : n <= 2
        OBVIOUS
      <4> QED BY <4>1, WantedAreMoves
    <3>3. /\ moves' \in [Commands -> Seq([label : Labels, add : BOOLEAN])] /\ moves'[c] = Wanted(c)
          /\ \A d \in Commands \ {c} : moves'[d] = moves[d]
      BY <2>1, <3>1, <3>2
    <3> QED BY <3>1, <3>2, <3>3
  <2>4. TypeOK'
    BY <1>t, <2>1, <2>2, <2>3, Types, QuietTypes
  <2>5. \A d \in Commands \ {c} : LeftAlone(d)
    BY <2>1, <2>2, <2>3 DEF LeftAlone
  <2>6. HowFar(c)'
    <3>1. Stages(kind[c])' = Stages(kind[c])
      BY <2>1, StagesStay
    <3> QED BY <1>t, <1>1, <2>1, <2>2, <3>1 DEF Mine, HowFar
  <2>7. Heard(c)'
    BY <1>t, <2>1, SilentHeard DEF Mine
  <2>8. found'[c] # None => Undisturbed(c)'
    <3> SUFFICES ASSUME found[c] # None PROVE Undisturbed(c)'
      BY <2>1
    <3>1. Moving(c)' \/ hurt[c] \notin Harmless
      <4>1. Wanted(c)' = Wanted(c)
        BY <2>1 DEF Wanted, Decided
      <4>2. hurt[c] \in Harmless => labels = found[c]
        BY <1>1, <1>s, <1>u
      <4> QED BY <2>1, <2>3, <4>1, <4>2 DEF Moving
    <3>2. Issue' = Issue
      BY <2>1 DEF Issue
    <3> QED BY <1>t, <2>1, <2>2, <3>1, <3>2 DEF Mine, Undisturbed
  <2> QED BY <1>t, <2>1, <2>2, <2>4, <2>5, <2>6, <2>7, <2>8, QuietStep DEF Ended
<1>2. CASE Stages(kind[c])[stage[c]] # "labels"
  <2>1. Progress(c) /\ UNCHANGED <<check, kind, memo, view, moves>>
    BY <1>2 DEF Stage
  <2>2. kind[c] \notin {"start", "finish"} => Target(c) = found[c]
    BY DEF Target
  <2>3. found[c] # None /\ hurt[c] \in Harmless =>
          labels = IF stage[c] = Len(Stages(kind[c])) \/ kind[c] = "start" THEN Target(c) ELSE found[c]
    <3>1. CASE kind[c] = "start"
      <4>1. stage[c] > 1
        BY <1>2, <1>s, <3>1
      <4> QED BY <1>u, <3>1, <4>1
    <3>2. CASE kind[c] = "finish"
      <4>1. stage[c] # Len(Stages(kind[c]))
        BY <1>2, <1>s, <3>2
      <4> QED BY <1>u, <3>2, <4>1
    <3>3. CASE kind[c] \notin {"start", "finish"}
      BY <1>u, <2>2, <3>3
    <3> QED BY <3>1, <3>2, <3>3
  <2> QED BY <1>t, <2>1, <2>3, ProgressKeeps
<1> QED BY <1>1, <1>2

LEMMA MovedKeeps == ASSUME IInv, NEW c \in Commands, Moved(c) PROVE IInv'
<1>t. TypeOK /\ Mine(c) /\ pc[c] = "labels" /\ moves[c] = << >> /\ Progress(c)
  BY DEF IInv, Moved
<1>s. kind[c] = "start" \/ (kind[c] = "finish" /\ stage[c] = Len(Stages(kind[c])))
  <2>1. stage[c] \in 1..4 /\ stage[c] <= Len(Stages(kind[c])) /\ Len(Stages(kind[c])) \in 1..4
    BY <1>t, Types, StagesAre
  <2>2. Stages(kind[c])[stage[c]] = "labels"
    BY <1>t DEF Mine, HowFar
  <2>3. stage[c] \in 1..Len(Stages(kind[c]))
    BY <2>1
  <2>4. CASE kind[c] = "finish"
    <3>1. Len(Stages(kind[c])) = 4 /\ \A n \in 1..4 : Stages(kind[c])[n] = "labels" <=> n = 4
      BY <2>4, StagesAre
    <3> QED BY <2>1, <2>2, <2>4, <3>1
  <2>5. CASE kind[c] \notin {"start", "finish"}
    BY <2>2, <2>3, <2>5, StagesAre
  <2> QED BY <2>4, <2>5
<1>1. found[c] # None /\ hurt[c] \in Harmless => labels = Target(c)
  <2> SUFFICES ASSUME Moving(c) PROVE labels = Target(c)
    BY <1>t DEF Mine, Undisturbed
  <2>1. CASE moves[c] = Wanted(c) /\ labels = found[c]
    <3>1. Len(Wanted(c)) = 0
      BY <1>t, <2>1
    <3>2. kind[c] # "start" /\ (kind[c] = "finish" => rules \notin {"placeholders", "none"})
      BY <3>1, WantedAreMoves
    <3> QED BY <2>1, <3>2 DEF Target
  <2>2. CASE moves[c] = <<Wanted(c)[2]>>
    <3>1. Len(<<Wanted(c)[2]>>) = 1 /\ Len(moves[c]) = 0
      BY <1>t
    <3> QED BY <2>2, <3>1
  <2> QED BY <2>1, <2>2 DEF Moving
<1> QED BY <1>t, <1>s, <1>1, ProgressKeeps DEF Moved

LEMMA APair ==
  ASSUME NEW one, NEW other
  PROVE  /\ <<one, other>>[1] = one /\ <<one, other>>[2] = other
         /\ Head(<<one, other>>) = one /\ Tail(<<one, other>>) = <<other>>
         /\ Head(<<other>>) = other /\ Tail(<<other>>) = << >>
OBVIOUS

LEMMA LabelMoves ==
  ASSUME NEW set, NEW label
  PROVE  WithLabel(set, Off(label)) = set \ {label} /\ WithLabel(set, On(label)) = set \cup {label}
BY DEF WithLabel, Off, On

LEMMA TwoAreWanted ==
  ASSUME NEW c, Len(Wanted(c)) = 2
  PROVE  /\ kind[c] = "start" \/ (kind[c] = "finish" /\ rules \in {"placeholders", "none"})
         /\ \E one, other : Wanted(c) = <<one, other>>
<1>1. kind[c] = "start" \/ (kind[c] = "finish" /\ rules \in {"placeholders", "none"})
  <2>1. Len(<< >>) # 2
    OBVIOUS
  <2> QED BY <2>1, WantedAre
<1>2. CASE kind[c] = "start"
  <2>1. Wanted(c) = <<Off("needs codechecker"), On("work in progress")>>
    BY <1>2, WantedAre
  <2> QED BY <1>1, <2>1
<1>3. CASE kind[c] = "finish" /\ rules = "placeholders"
  <2>1. Wanted(c) = <<Off("work in progress"), On("metadata pending")>>
    BY <1>3, WantedAre
  <2> QED BY <1>1, <2>1
<1>4. CASE kind[c] = "finish" /\ rules = "none"
  <2>1. Wanted(c) = <<Off("work in progress"), Off("metadata pending")>>
    BY <1>4, WantedAre
  <2> QED BY <1>1, <2>1
<1> QED BY <1>1, <1>2, <1>3, <1>4

LEMMA BothMoves ==
  ASSUME NEW c, NEW one, NEW other, Wanted(c) = <<one, other>>
  PROVE  Wanted(c)[1] = one /\ Wanted(c)[2] = other
OBVIOUS

\* Two moves make what is wanted of the labels.
LEMMA TwoMovesAreEnough ==
  ASSUME NEW c, Len(Wanted(c)) = 2, ~ tampered, kind[c] = "start" => coder # Nobody
  PROVE  WithLabel(WithLabel(found[c], Wanted(c)[1]), Wanted(c)[2]) = Target(c)
<1>1. kind[c] = "start" \/ (kind[c] = "finish" /\ rules \in {"placeholders", "none"})
  BY TwoAreWanted
<1>2. CASE kind[c] = "start"
  <2>1. Wanted(c)[1] = Off("needs codechecker") /\ Wanted(c)[2] = On("work in progress")
    <3>1. Wanted(c) = <<Off("needs codechecker"), On("work in progress")>>
      BY <1>2, WantedAre
    <3> QED BY <3>1, BothMoves
  <2>2. Target(c) = (found[c] \ {"needs codechecker"}) \cup {"work in progress"}
    BY <1>2 DEF Target
  <2>3. WithLabel(found[c], Wanted(c)[1]) = found[c] \ {"needs codechecker"}
    BY <2>1, LabelMoves
  <2> QED BY ZenonT(60), <2>1, <2>2, <2>3, LabelMoves
<1>3. CASE kind[c] = "finish" /\ rules = "placeholders"
  <2>1. Wanted(c)[1] = Off("work in progress") /\ Wanted(c)[2] = On("metadata pending")
    <3>1. Wanted(c) = <<Off("work in progress"), On("metadata pending")>>
      BY <1>3, WantedAre
    <3> QED BY <3>1, BothMoves
  <2>2. Target(c) = (found[c] \ {"work in progress"}) \cup {"metadata pending"}
    BY <1>3 DEF Target
  <2>3. WithLabel(found[c], Wanted(c)[1]) = found[c] \ {"work in progress"}
    BY <2>1, LabelMoves
  <2> QED BY ZenonT(60), <2>1, <2>2, <2>3, LabelMoves
<1>4. CASE kind[c] = "finish" /\ rules = "none"
  <2>1. Wanted(c)[1] = Off("work in progress") /\ Wanted(c)[2] = Off("metadata pending")
    <3>1. Wanted(c) = <<Off("work in progress"), Off("metadata pending")>>
      BY <1>4, WantedAre
    <3> QED BY <3>1, BothMoves
  <2>2. Target(c) = found[c] \ {"work in progress", "metadata pending"}
    BY <1>4 DEF Target
  <2>3. WithLabel(found[c], Wanted(c)[1]) = found[c] \ {"work in progress"}
    BY <2>1, LabelMoves
  <2>4. WithLabel(found[c] \ {"work in progress"}, Wanted(c)[2]) = (found[c] \ {"work in progress"}) \ {"metadata pending"}
    BY <2>1, LabelMoves
  <2> QED BY <2>2, <2>3, <2>4
<1> QED BY <1>1, <1>2, <1>3, <1>4

\* What is left to move once the first move is made, or has failed.
LEMMA OneLessToMove ==
  ASSUME TypeOK, NEW c \in Commands, moves[c] # << >>, moves' = [moves EXCEPT ![c] = Tail(@)]
  PROVE  /\ Head(moves[c]).label \in Labels /\ Head(moves[c]).add \in BOOLEAN
         /\ moves' \in [Commands -> Seq([label : Labels, add : BOOLEAN])]
         /\ moves'[c] = Tail(moves[c])
         /\ \A d \in Commands \ {c} : moves'[d] = moves[d]
         /\ \A d \in Commands : Len(moves'[d]) <= 2
<1>1. moves \in [Commands -> Seq([label : Labels, add : BOOLEAN])] /\ \A d \in Commands : Len(moves[d]) <= 2
  BY Types
<1>2. /\ Head(moves[c]) \in [label : Labels, add : BOOLEAN]
      /\ Tail(moves[c]) \in Seq([label : Labels, add : BOOLEAN]) /\ Len(Tail(moves[c])) = Len(moves[c]) - 1
  BY <1>1, HeadTailProperties
<1>3. moves'[c] = Tail(moves[c]) /\ \A d \in Commands \ {c} : moves'[d] = moves[d]
  BY <1>1
<1>4. Len(Tail(moves[c])) <= 2
  <2>1. Len(moves[c]) \in Nat /\ Len(moves[c]) <= 2
    BY <1>1
  <2> QED BY <1>2, <2>1
<1>5. moves' \in [Commands -> Seq([label : Labels, add : BOOLEAN])]
  BY <1>1, <1>2
<1> QED BY <1>1, <1>2, <1>3, <1>4, <1>5

LEMMA MoveKeeps == ASSUME IInv, NEW c \in Commands, Move(c) PROVE IInv'
<1>t. TypeOK /\ Mine(c) /\ pc[c] = "labels"
  BY DEF IInv, Move
<1> DEFINE move == Head(moves[c])
<1>1. /\ UNCHANGED <<closed, coder, tampered, recorded, rules, thread, pc, kind, stage, view, comment, trouble, hurt>>
      /\ moves[c] # << >> /\ moves' = [moves EXCEPT ![c] = Tail(@)]
  BY DEF Move
<1>2. /\ move.label \in Labels /\ move.add \in BOOLEAN
      /\ moves' \in [Commands -> Seq([label : Labels, add : BOOLEAN])] /\ moves'[c] = Tail(moves[c])
      /\ \A d \in Commands \ {c} : moves'[d] = moves[d]
      /\ \A d \in Commands : Len(moves'[d]) <= 2
  BY <1>t, <1>1, OneLessToMove
<1>3. /\ memo[c] # None /\ memo[c] \in {Unread} \cup Issues /\ view[c] \in Listings
      /\ memo[c] = Unread => memo[c] \notin Issues
  BY ZenonT(60), <1>t, Types, CheckWorkflowAssumption DEF Mine, HowFar
<1> HIDE DEF move
<1>5. /\ labels' \in SUBSET Labels
      /\ memo' \in [Commands -> {None, Unread} \cup Issues] /\ memo'[c] \in {Unread} \cup Issues
      /\ memo'[c] = Unread <=> memo[c] = Unread
      /\ \A d \in Commands \ {c} : memo'[d] = memo[d]
      /\ found' \in [Commands -> {None} \cup SUBSET Labels] /\ found'[c] = found[c]
      /\ \A d \in Commands \ {c} : found'[d] = None \/ (found'[d] = found[d] /\ labels' = labels)
      /\ memo[c] \in Issues /\ memo[c] = Issue => labels' = WithLabel(labels, move) /\ memo'[c] = Issue'
      /\ memo[c] = Unread => labels' = WithLabel(labels, move)
  <2>t. labels \subseteq Labels /\ memo \in [Commands -> {None, Unread} \cup Issues]
        /\ found \in [Commands -> {None} \cup SUBSET Labels] /\ closed \in BOOLEAN
    BY <1>t, Types
  <2>1. CASE Needless(c, move)
    <3>1. UNCHANGED <<labels, memo, found>>
      BY <2>1 DEF Move, move
    <3>2. memo[c] # Unread /\ (move.label \in memo[c].labels) = move.add
      BY <2>1 DEF Needless
    <3>3. memo[c] = Issue => WithLabel(labels, move) = labels
      <4> SUFFICES ASSUME memo[c] = Issue PROVE WithLabel(labels, move) = labels
        OBVIOUS
      <4>1. (move.label \in labels) = move.add
        BY <3>2 DEF Issue
      <4> QED BY <1>2, <4>1 DEF WithLabel
    <3>4. Issue' = Issue
      BY <1>1, <3>1 DEF Issue
    <3> QED BY <1>3, <2>t, <3>1, <3>2, <3>3, <3>4
  <2>2. CASE ~ Needless(c, move)
    <3>1. /\ labels' = WithLabel(labels, move) /\ Disturbed(c)
          /\ memo' = [memo EXCEPT ![c] = Told(memo[c], move)]
      BY <2>2 DEF Move, move
    <3>2. WithLabel(labels, move) \in SUBSET Labels
      BY <1>2, <2>t DEF WithLabel
    <3>3. /\ found' \in [Commands -> {None} \cup SUBSET Labels] /\ found'[c] = found[c]
          /\ \A d \in Commands \ {c} : found'[d] = None
      BY <1>t, <3>1, Disturbs
    <3>4. CASE memo[c] = Unread
      <4>1. memo' = [memo EXCEPT ![c] = Unread]
        BY <3>1, <3>4 DEF Told
      <4> QED BY <1>3, <2>t, <3>1, <3>2, <3>3, <3>4, <4>1
    <3>5. CASE memo[c] # Unread
      <4>1. PICK old \in Issues : old = memo[c]
        BY <1>3, <3>5
      <4>2. old.labels \subseteq Labels /\ old.closed \in BOOLEAN
        BY DEF Issues
      <4>3. /\ [old EXCEPT !.labels = WithLabel(old.labels, move)] \in Issues
            /\ [old EXCEPT !.labels = WithLabel(old.labels, move)] # Unread
        <5>1. WithLabel(old.labels, move) \subseteq Labels
          BY <1>2, <4>2 DEF WithLabel
        <5>2. [old EXCEPT !.labels = WithLabel(old.labels, move)] \in Issues
          BY <4>2, <5>1 DEF Issues
        <5> QED BY <5>2, CheckWorkflowAssumption
      <4>0. PICK new : new = [old EXCEPT !.labels = WithLabel(old.labels, move)]
        OBVIOUS
      <4>a. memo' = [memo EXCEPT ![c] = new]
        <5>1. Told(memo[c], move) = new
          BY <3>5, <4>0, <4>1 DEF Told
        <5> QED BY <3>1, <5>1
      <4>4. memo'[c] = [old EXCEPT !.labels = WithLabel(old.labels, move)] /\ \A d \in Commands \ {c} : memo'[d] = memo[d]
        BY <2>t, <4>0, <4>a
      <4>5. memo' \in [Commands -> {None, Unread} \cup Issues]
        BY <2>t, <4>0, <4>a, <4>3
      <4>6. memo[c] = Issue => memo'[c] = Issue'
        BY <1>1, <3>1, <4>1, <4>4 DEF Issue
      <4> QED BY <3>1, <3>2, <3>3, <3>5, <4>1, <4>3, <4>4, <4>5, <4>6
    <3> QED BY <3>4, <3>5
  <2> QED BY <2>1, <2>2
<1>6. TypeOK'
  BY <1>t, <1>1, <1>2, <1>5, Types, QuietTypes
<1>7. \A d \in Commands \ {c} : LeftAlone(d)
  BY <1>1, <1>2, <1>5 DEF LeftAlone
<1>8. HowFar(c)'
  <2>1. Stages(kind[c])' = Stages(kind[c])
    BY <1>1, StagesStay
  <2>2. memo'[c] # None /\ (hurt[c] = "nothing" => memo'[c] # Unread)
    BY <1>t, <1>5, CheckWorkflowAssumption DEF Mine, HowFar
  <2> QED BY <1>t, <1>1, <2>1, <2>2 DEF Mine, HowFar
<1>9. Heard(c)'
  BY <1>t, <1>1, SilentHeard DEF Mine
<1>10. found'[c] # None => Undisturbed(c)'
  <2> SUFFICES ASSUME found[c] # None PROVE Undisturbed(c)'
    BY <1>5
  <2>1. Undisturbed(c)
    BY <1>t DEF Mine
  <2>2. ASSUME hurt[c] \in Harmless
        PROVE  labels' = WithLabel(labels, move) /\ (memo'[c] \in Issues => memo'[c] = Issue') /\ Moving(c)'
    <3>1. labels' = WithLabel(labels, move) /\ (memo'[c] \in Issues => memo'[c] = Issue')
      BY <1>3, <1>5, <2>1, <2>2, CheckWorkflowAssumption DEF Undisturbed
    <3>2. Wanted(c)' = Wanted(c) /\ Target(c)' = Target(c)
      BY <1>1, <1>5 DEF Wanted, Decided, Target
    <3>3. Moving(c) /\ (~ tampered \/ kind[c] = "status") /\ (kind[c] = "start" => coder # Nobody)
      BY <1>t, <2>1, <2>2 DEF Undisturbed
    <3>4. CASE moves[c] = Wanted(c) /\ labels = found[c]
      <4>1. Len(Wanted(c)) = 2
        BY <1>1, <3>4, WantedAreMoves
      <4>2. PICK one, other : Wanted(c) = <<one, other>>
        BY <4>1, TwoAreWanted
      <4>3. moves'[c] = <<Wanted(c)[2]>> /\ move = Wanted(c)[1]
        BY <1>2, <3>4, <4>2, APair DEF move
      <4> QED BY <1>5, <3>1, <3>2, <3>4, <4>1, <4>3 DEF Moving
    <3>5. CASE /\ Len(Wanted(c)) = 2 /\ moves[c] = <<Wanted(c)[2]>>
               /\ labels = WithLabel(found[c], Wanted(c)[1])
      <4>1. moves'[c] = << >> /\ move = Wanted(c)[2]
        BY <1>2, <3>5, APair DEF move
      <4>2. kind[c] # "status"
        BY <3>5, TwoAreWanted
      <4>3. labels' = Target(c)
        BY <3>1, <3>3, <3>5, <4>1, <4>2, TwoMovesAreEnough
      <4> QED BY <3>1, <3>2, <4>1, <4>3 DEF Moving
    <3> QED BY <1>1, <3>1, <3>3, <3>4, <3>5 DEF Moving
  <2>3. /\ view[c].coder = coder /\ view[c].tampered = tampered
        /\ hurt[c] \in Harmless => ~ tampered \/ kind[c] = "status"
        /\ hurt[c] \in Harmless /\ kind[c] = "start" => coder # Nobody
    BY <1>t, <1>3, <2>1 DEF Undisturbed
  <2> QED BY <1>t, <1>1, <2>2, <2>3 DEF Undisturbed
<1> QED BY <1>t, <1>1, <1>6, <1>7, <1>8, <1>9, <1>10, QuietStep DEF Ended

LEMMA MoveFailsKeeps == ASSUME IInv, NEW c \in Commands, MoveFails(c) PROVE IInv'
<1>t. TypeOK /\ Mine(c) /\ pc[c] = "labels"
  BY DEF IInv, MoveFails
<1>1. /\ UNCHANGED <<closed, coder, tampered, recorded, rules, thread, pc, kind, stage, memo, view, comment>>
      /\ moves[c] # << >> /\ moves' = [moves EXCEPT ![c] = Tail(@)]
  BY DEF MoveFails
<1>2. /\ Head(moves[c]).label \in Labels /\ Head(moves[c]).add \in BOOLEAN
      /\ moves' \in [Commands -> Seq([label : Labels, add : BOOLEAN])]
      /\ \A d \in Commands \ {c} : moves'[d] = moves[d]
      /\ \A d \in Commands : Len(moves'[d]) <= 2
  BY <1>t, <1>1, OneLessToMove
<1>3. /\ hurt' \in [Commands -> {"nothing", "reading", "request", "cut off"}] /\ hurt'[c] = "request"
      /\ trouble' \in 0..MaxTrouble /\ \A d \in Commands \ {c} : hurt'[d] = hurt[d]
  BY <1>t, Hurts DEF MoveFails
<1>4. /\ labels' \in SUBSET Labels
      /\ found' \in [Commands -> {None} \cup SUBSET Labels] /\ found'[c] = found[c]
      /\ \A d \in Commands \ {c} : found'[d] = None \/ (found'[d] = found[d] /\ labels' = labels)
  <2>t. labels \subseteq Labels /\ found \in [Commands -> {None} \cup SUBSET Labels]
    BY <1>t, Types
  <2>1. CASE labels' = WithLabel(labels, Head(moves[c])) /\ Disturbed(c)
    <3>1. WithLabel(labels, Head(moves[c])) \in SUBSET Labels
      BY <1>2, <2>t DEF WithLabel
    <3> QED BY <1>t, <2>1, <3>1, Disturbs
  <2>2. CASE UNCHANGED <<labels, found>>
    BY <2>t, <2>2
  <2> QED BY <2>1, <2>2 DEF MoveFails
<1>5. TypeOK'
  BY <1>t, <1>1, <1>2, <1>3, <1>4, Types, QuietTypes
<1>6. \A d \in Commands \ {c} : LeftAlone(d)
  BY <1>1, <1>2, <1>3, <1>4 DEF LeftAlone
<1>7. HowFar(c)'
  <2>1. Stages(kind[c])' = Stages(kind[c])
    BY <1>1, StagesStay
  <2> QED BY <1>t, <1>1, <1>3, <2>1 DEF Mine, HowFar, Harmless
<1>8. Heard(c)'
  BY <1>t, <1>1, SilentHeard DEF Mine
<1>9. found'[c] # None => Undisturbed(c)'
  BY <1>t, <1>1, <1>3, <1>4 DEF Mine, Undisturbed, Harmless
<1> QED BY <1>t, <1>1, <1>3, <1>5, <1>6, <1>7, <1>8, <1>9, QuietStep DEF Ended, Harmless

-----------------------------------------------------------------------------
(***************************************************************************)
(* The record, the last word, and what goes wrong.                         *)
(***************************************************************************)

\* A comment that is nobody's reply and no pointer.
LEMMA AsideIsPosted ==
  ASSUME IInv, NEW c \in Commands, NEW entry \in Said, ~ entry.points, thread' = Append(thread, entry),
         entry.by \notin Commands \/ (entry.by = c /\ entry.state = "sorry")
  PROVE  /\ Leaves(thread, thread', c) /\ PointerHasItsNote' /\ Replies(c)' = Replies(c)
         /\ Len(thread) \in Nat /\ Len(thread') = Len(thread) + 1 /\ thread'[Len(thread) + 1] = entry
         /\ \A j \in 1..Len(thread) : thread'[j] = thread[j]
<1>1. thread \in Seq(Said) /\ Len(thread) \in Nat /\ DOMAIN thread = 1..Len(thread) /\ PointersStand(thread)
  BY CommentTypes, Types DEF IInv, PointerHasItsNote
<1>2. /\ Leaves(thread, thread', c)
      /\ Len(thread') = Len(thread) + 1 /\ thread'[Len(thread) + 1] = entry
      /\ \A j \in 1..Len(thread) : thread'[j] = thread[j]
  <2>1. entry.by \notin Commands \ {c}
    OBVIOUS
  <2> QED BY <1>1, <2>1, Appended
<1>3. \A j \in 1..Len(thread') : (j \in 1..Len(thread) /\ thread'[j] = thread[j]) \/ thread'[j] = entry
  BY <1>1, <1>2
<1>4. PointerHasItsNote'
  <2>1. \A j \in 1..Len(thread') : thread'[j].points => j <= Len(thread) /\ thread'[j] = thread[j]
    <3> SUFFICES ASSUME NEW j \in 1..Len(thread'), thread'[j].points
                 PROVE  j <= Len(thread) /\ thread'[j] = thread[j]
      OBVIOUS
    <3>1. thread'[j] # entry
      OBVIOUS
    <3>2. j \in 1..Len(thread) /\ thread'[j] = thread[j]
      BY <1>3, <3>1
    <3> QED BY <1>1, <3>2
  <2>2. PointersStand(thread')
    BY <1>1, <1>2, <2>1, PointersKept
  <2> QED BY <2>2 DEF PointerHasItsNote
<1>5. Replies(c)' = Replies(c)
  <2>1. DOMAIN thread' = 1..Len(thread')
    BY <1>2 DEF Leaves
  <2>2. Replies(c)' = {i \in 1..Len(thread') : thread'[i].by = c /\ thread'[i].state # "sorry"}
    BY <2>1 DEF Replies
  <2>3. Replies(c) = {i \in 1..Len(thread) : thread[i].by = c /\ thread[i].state # "sorry"}
    BY <1>1 DEF Replies
  <2>4. entry.by # c \/ entry.state = "sorry"
    OBVIOUS
  <2>5. \A i \in 1..Len(thread) : i \in 1..Len(thread') /\ thread'[i] = thread[i]
    BY <1>1, <1>2
  <2> QED BY <1>3, <2>2, <2>3, <2>4, <2>5
<1> QED BY <1>1, <1>2, <1>4, <1>5

\* The record's comment, when it is posted, is such a one.
LEMMA RecordIsPosted ==
  ASSUME IInv, NEW c \in Commands,
         \/ thread' = Append(thread, Entry("record", "answered", {}, FALSE))
         \/ UNCHANGED thread
  PROVE  /\ Leaves(thread, thread', c) /\ PointerHasItsNote' /\ Replies(c)' = Replies(c)
         /\ Len(thread) \in Nat /\ Len(thread') \in Nat /\ Len(thread) <= Len(thread')
<1>1. CASE thread' = Append(thread, Entry("record", "answered", {}, FALSE))
  <2>1. PICK entry \in Said : /\ entry = Entry("record", "answered", {}, FALSE)
                             /\ entry.by = "record" /\ ~ entry.points
    <3>1. {} \in Notes
      BY DEF Notes
    <3>2. /\ Entry("record", "answered", {}, FALSE) \in Said
          /\ Entry("record", "answered", {}, FALSE).by = "record"
          /\ Entry("record", "answered", {}, FALSE).points = FALSE
      BY <3>1 DEF Entry, Said
    <3> QED BY <3>2
  <2>2. thread' = Append(thread, entry) /\ entry.by \notin Commands
    BY <1>1, <2>1, CheckWorkflowAssumption
  <2>3. /\ Leaves(thread, thread', c) /\ PointerHasItsNote' /\ Replies(c)' = Replies(c)
        /\ Len(thread) \in Nat /\ Len(thread') = Len(thread) + 1
    BY <2>1, <2>2, AsideIsPosted
  <2> QED BY <2>3
<1>2. CASE UNCHANGED thread
  BY <1>2, SilentThread, CommentTypes DEF IInv
<1> QED BY <1>1, <1>2

LEMMA ChangeRecordKeeps == ASSUME IInv, NEW c \in Commands, ChangeRecord(c) PROVE IInv'
<1>t. TypeOK /\ Mine(c) /\ pc[c] = "record"
  BY DEF IInv, ChangeRecord
<1>1. /\ UNCHANGED <<labels, closed, tampered, rules, kind, stage, memo, moves, comment, trouble, hurt>>
      /\ Goto(c, "note")
      /\ view' = [view EXCEPT ![c] = [coder |-> coder', tampered |-> tampered, above |-> Above(thread')]]
  BY DEF ChangeRecord
<1>2. PICK holder \in (IF kind[c] = "assign" THEN Coders ELSE {Nobody}) :
        LET write == ~ tampered /\ holder # coder
            post == write /\ ~ recorded
        IN
        /\ coder' = IF write THEN holder ELSE coder
        /\ recorded' = (recorded \/ post)
        /\ thread' = IF post THEN Append(thread, Entry("record", "answered", {}, FALSE)) ELSE thread
        /\ IF write THEN Disturbed(c) ELSE UNCHANGED found
  BY DEF ChangeRecord
<1>h. holder \in Coders \cup {Nobody}
  BY <1>2
<1>3. /\ Leaves(thread, thread', c) /\ PointerHasItsNote' /\ Replies(c)' = Replies(c)
      /\ Len(thread) \in Nat /\ Len(thread') \in Nat /\ Len(thread) <= Len(thread')
  BY <1>2, RecordIsPosted
<1>4. /\ coder' \in Coders \cup {Nobody} /\ recorded' \in BOOLEAN
      /\ found' \in [Commands -> {None} \cup SUBSET Labels] /\ found'[c] = found[c]
      /\ \A d \in Commands \ {c} : found'[d] = None \/ (found'[d] = found[d] /\ coder' = coder)
  <2>1. coder \in Coders \cup {Nobody} /\ recorded \in BOOLEAN /\ found \in [Commands -> {None} \cup SUBSET Labels]
    BY <1>t, Types
  <2>2. CASE ~ tampered /\ holder # coder
    <3>1. coder' = holder /\ Disturbed(c) /\ recorded' = (recorded \/ ~ recorded)
      BY <1>2, <2>2
    <3> QED BY <1>t, <1>h, <2>1, <3>1, Disturbs
  <2>3. CASE ~ (~ tampered /\ holder # coder)
    <3>1. coder' = coder /\ UNCHANGED found /\ recorded' = (recorded \/ FALSE)
      BY <1>2, <2>3
    <3> QED BY <2>1, <3>1
  <2> QED BY <2>2, <2>3
<1>5. pc' \in [Commands -> Places] /\ pc'[c] = "note" /\ \A d \in Commands \ {c} : pc'[d] = pc[d]
  BY <1>t, <1>1, Goes DEF Places
<1>6. PICK listing \in Listings : listing = [coder |-> coder', tampered |-> tampered, above |-> Above(thread')]
  <2>1. Above(thread') \in Notes
    BY <1>3, AboveWasSaid DEF Leaves
  <2>2. tampered \in BOOLEAN
    BY <1>t, Types
  <2> QED BY <1>4, <2>1, <2>2 DEF Listings
<1>7. /\ view' \in [Commands -> {None, Unread} \cup Listings] /\ view'[c] = listing
      /\ \A d \in Commands \ {c} : view'[d] = view[d]
      /\ listing.coder = coder' /\ listing.tampered = tampered /\ listing.above = Above(thread')
  BY <1>t, <1>1, <1>6, Types
<1>8. comment' \in [Commands -> 0..Len(thread')] /\ \A d \in Commands : comment'[d] \in {0} \cup Replies(d)'
  <2>1. comment \in [Commands -> 0..Len(thread)] /\ \A d \in Commands : comment[d] \in {0} \cup Replies(d)
    BY <1>t, CommentTypes
  <2>2. \A d \in Commands \ {c} : Replies(d)' = Replies(d)
    BY <1>3, OthersReplies
  <2> QED BY <1>1, <1>3, <2>1, <2>2
<1>9. TypeOK'
  BY <1>t, <1>1, <1>3, <1>4, <1>5, <1>7, <1>8, Types, WrittenTypes
<1>10. \A d \in Commands \ {c} : LeftAlone(d)
  BY <1>1, <1>4, <1>5, <1>7 DEF LeftAlone
<1>11. /\ hurt[c] = "nothing" /\ comment[c] = 0 /\ Replies(c) = {} /\ memo[c] = None
       /\ kind[c] \in {"assign", "remove"}
  BY <1>t DEF Mine, HowFar
<1>12. HowFar(c)'
  BY <1>1, <1>5, <1>7, <1>11, CheckWorkflowAssumption DEF HowFar, Harmless
<1>13. OneReply(c)'
  BY <1>3, <1>5, <1>11 DEF OneReply, Ended
<1>14. Heard(c)'
  <2>1. Above(thread') # {} => \E j \in 1..Len(thread') : thread'[j].note = Above(thread') /\ ~ thread'[j].points
    BY <1>3, AboveWasSaid DEF Leaves
  <2> QED BY <1>1, <1>7, <1>11, <2>1 DEF Heard
<1>15. found'[c] # None => Undisturbed(c)'
  <2> SUFFICES ASSUME found[c] # None PROVE Undisturbed(c)'
    BY <1>4
  <2>1. labels = found[c]
    BY <1>t, <1>11 DEF Mine, Undisturbed, Harmless
  <2>2. Target(c)' = found[c]
    BY <1>1, <1>4, <1>11 DEF Target
  <2> QED BY <1>1, <1>5, <1>7, <1>11, <2>1, <2>2, CheckWorkflowAssumption DEF Undisturbed
<1>16. Mine(c)'
  BY <1>12, <1>13, <1>14, <1>15 DEF Mine
<1> QED BY <1>1, <1>3, <1>9, <1>10, <1>16, OneStep

\* What a command holds is gone with it, and only with it.
LEMMA Forgets ==
  ASSUME TypeOK, NEW gone, Forget(gone)
  PROVE  /\ memo' \in [Commands -> {None, Unread} \cup Issues]
         /\ view' \in [Commands -> {None, Unread} \cup Listings]
         /\ moves' \in [Commands -> Seq([label : Labels, add : BOOLEAN])]
         /\ \A d \in Commands : Len(moves'[d]) <= 2
         /\ \A d \in Commands : d \in gone => memo'[d] = None /\ view'[d] = None /\ moves'[d] = << >>
         /\ \A d \in Commands : d \notin gone => memo'[d] = memo[d] /\ view'[d] = view[d] /\ moves'[d] = moves[d]
<1>1. /\ memo \in [Commands -> {None, Unread} \cup Issues]
      /\ view \in [Commands -> {None, Unread} \cup Listings]
      /\ moves \in [Commands -> Seq([label : Labels, add : BOOLEAN])]
      /\ \A d \in Commands : Len(moves[d]) <= 2
  BY Types
<1>2. << >> \in Seq([label : Labels, add : BOOLEAN]) /\ Len(<< >>) = 0
  OBVIOUS
<1>3. /\ \A d \in Commands : d \in gone => memo'[d] = None /\ view'[d] = None /\ moves'[d] = << >>
      /\ \A d \in Commands : d \notin gone => memo'[d] = memo[d] /\ view'[d] = view[d] /\ moves'[d] = moves[d]
  BY DEF Forget
<1>4. memo' \in [Commands -> {None, Unread} \cup Issues] /\ view' \in [Commands -> {None, Unread} \cup Listings]
  BY <1>1 DEF Forget
<1>5. moves' \in [Commands -> Seq([label : Labels, add : BOOLEAN])]
  <2>1. \A d \in Commands : moves'[d] \in Seq([label : Labels, add : BOOLEAN])
    BY <1>1, <1>2, <1>3
  <2>2. moves' = [d \in Commands |-> moves'[d]]
    BY DEF Forget
  <2> QED BY <2>1, <2>2
<1>6. \A d \in Commands : Len(moves'[d]) <= 2
  BY <1>1, <1>2, <1>3
<1> QED BY <1>3, <1>4, <1>5, <1>6

LEMMA AnswerKeeps == ASSUME IInv, NEW c \in Commands, Answer(c) PROVE IInv'
<1>t. TypeOK /\ Mine(c) /\ pc[c] = "note" /\ pc[c] \notin Ended
  BY DEF IInv, Answer, Ended
<1> DEFINE note == Note(c)
           points == view[c] # Unread /\ JustSaid(note, view[c].above)
           final == Entry(c, "answered", note, points)
<1>1. /\ UNCHANGED <<labels, closed, coder, tampered, recorded, rules, kind, stage>>
      /\ memo[c] # None /\ Forget({c})
      /\ \/ Write(c, final) /\ Goto(c, "answered") /\ UNCHANGED <<trouble, hurt>>
         \/ WriteLost(c, final) /\ Goto(c, "unanswered")
  BY DEF Answer, check
<1>2. PICK place \in {"answered", "unanswered"} :
        /\ Goto(c, place)
        /\ \/ place = "answered" /\ Write(c, final) /\ UNCHANGED <<trouble, hurt>>
           \/ place = "unanswered" /\ WriteLost(c, final)
  BY <1>1
<1>3. pc' \in [Commands -> Places] /\ pc'[c] = place /\ \A d \in Commands \ {c} : pc'[d] = pc[d]
  BY <1>t, <1>2, Goes DEF Places, Ended
<1>4. /\ memo' \in [Commands -> {None, Unread} \cup Issues]
      /\ view' \in [Commands -> {None, Unread} \cup Listings]
      /\ moves' \in [Commands -> Seq([label : Labels, add : BOOLEAN])]
      /\ \A d \in Commands : Len(moves'[d]) <= 2
      /\ memo'[c] = None /\ view'[c] = None /\ moves'[c] = << >>
      /\ \A d \in Commands \ {c} : memo'[d] = memo[d] /\ view'[d] = view[d] /\ moves'[d] = moves[d]
  BY <1>t, <1>1, Forgets
<1>5. view[c] \in {Unread} \cup Listings
  BY <1>t, Types DEF Mine, HowFar
<1>6. note \in Notes
  <2>1. {} \in Notes
    BY DEF Notes
  <2>2. view[c] \in Listings => view[c].coder \in Coders \cup {Nobody}
    BY DEF Listings
  <2> QED BY <1>5, <2>1, <2>2, ANote DEF Note
<1>7. points \in BOOLEAN /\ (points => note # {} /\ view[c] \in Listings /\ view[c].above = note)
  BY <1>5 DEF JustSaid
<1> HIDE DEF note, points
<1>8. /\ final \in Said /\ final.by = c /\ final.state = "answered" /\ final.note = note
      /\ Honest(c, final) /\ final.state # "sorry"
  BY <1>6, <1>7, AnEntry DEF Honest
<1> HIDE DEF final
<1>9. /\ Leaves(thread, thread', c) /\ PointerHasItsNote'
      /\ comment' \in [Commands -> 0..Len(thread')]
      /\ \A d \in Commands : comment'[d] \in {0} \cup Replies(d)'
      /\ hurt' \in [Commands -> {"nothing", "reading", "request", "cut off"}] /\ trouble' \in 0..MaxTrouble
      /\ found' \in [Commands -> {None} \cup SUBSET Labels] /\ found'[c] = found[c]
      /\ \A d \in Commands \ {c} : /\ comment'[d] = comment[d] /\ hurt'[d] = hurt[d]
                                  /\ found'[d] \in {None, found[d]}
      /\ \A i \in Replies(c)' : thread'[i] = final \/ (i \in Replies(c) /\ thread'[i] = thread[i])
      /\ \/ /\ hurt'[c] = hurt[c] /\ comment'[c] = Place(c)
            /\ Replies(c)' = Replies(c) \cup {Place(c)} /\ thread'[Place(c)] = final
         \/ hurt'[c] = "request" /\ comment'[c] = comment[c]
  <2>1. \/ Write(c, final) /\ UNCHANGED hurt /\ trouble' \in 0..MaxTrouble
        \/ WriteLost(c, final)
    BY <1>t, <1>2, Types
  <2> QED BY <1>t, <1>8, <2>1, WriteWrites
<1>10. /\ place = "unanswered" /\ hurt'[c] = "request"
       \/ /\ place = "answered" /\ hurt'[c] = hurt[c] /\ comment'[c] = Place(c) /\ Place(c) # 0
          /\ Replies(c)' = Replies(c) \cup {Place(c)} /\ thread'[Place(c)] = final
  <2>1. place = "unanswered" => hurt'[c] = "request"
    BY <1>t, <1>2, Hurts DEF WriteLost
  <2>2. place = "answered" =>
          /\ hurt'[c] = hurt[c] /\ comment'[c] = Place(c)
          /\ Replies(c)' = Replies(c) \cup {Place(c)} /\ thread'[Place(c)] = final
    <3>1. TypeOK
      BY <1>t
    <3>2. comment \in [Commands -> 0..Len(thread)]
      BY <1>t, CommentTypes
    <3>3. ASSUME place = "answered"
          PROVE  thread' = Says(c, final) /\ UNCHANGED hurt /\ comment'[c] = Place(c)
      <4>1. Write(c, final) /\ UNCHANGED hurt
        BY <1>2, <3>3
      <4> QED BY <3>2, <4>1 DEF Write, Says, Place
    <3> QED BY <1>t, <1>8, <3>3, ReplyIsWritten
  <2>3. Place(c) # 0
    BY <1>t, CommentTypes DEF Place
  <2> QED BY <2>1, <2>2, <2>3
<1>11. TypeOK'
  BY <1>t, <1>1, <1>3, <1>4, <1>9, Types, WrittenTypes
<1>12. \A d \in Commands \ {c} : LeftAlone(d)
  <2>1. stage' = stage /\ kind' = kind
    BY <1>1
  <2>2. \A d \in Commands \ {c} :
          found'[d] = None \/ (found'[d] = found[d] /\ UNCHANGED <<labels, closed, coder, tampered>>)
    BY <1>1, <1>9
  <2> QED BY <1>3, <1>4, <1>9, <2>1, <2>2 DEF LeftAlone
<1>13. HowFar(c)'
  <2>1. None \notin Listings /\ None # Unread
    BY CheckWorkflowAssumption
  <2> QED BY <1>3, <1>4, <1>10, <2>1 DEF HowFar, Harmless
<1>14. OneReply(c)'
  <2>1. hurt[c] \in Harmless => \A i \in Replies(c) : i = Place(c)
    <3>1. \A i \in Replies(c) : i # 0
      BY <1>t, CommentTypes DEF Replies
    <3> QED BY <1>t, <3>1 DEF Mine, OneReply, Place
  <2> QED BY <1>3, <1>8, <1>10, <2>1 DEF OneReply, Harmless, Ended
<1>15. Heard(c)'
  BY <1>4, CheckWorkflowAssumption DEF Heard
<1>16. found'[c] # None => Undisturbed(c)'
  <2> SUFFICES ASSUME found[c] # None, place = "answered" PROVE Undisturbed(c)'
    <3>1. place = "unanswered" => Undisturbed(c)'
      BY <1>3, <1>4, <1>10, CheckWorkflowAssumption DEF Undisturbed, Harmless
    <3> QED BY <1>9, <3>1
  <2>1. Undisturbed(c) /\ hurt'[c] = hurt[c]
    BY <1>t, <1>10 DEF Mine
  <2>2. Target(c)' = Target(c) /\ Issue' = Issue
    BY <1>1, <1>9 DEF Target, Issue
  <2>3. hurt[c] = "nothing" => thread'[comment'[c]].note = Warnings(Issue, coder, ~ tampered)'
    <3>1. ASSUME hurt[c] = "nothing"
          PROVE  note = Warnings(Issue, coder, ~ tampered)
      <4>1. memo[c] = Issue /\ view[c] \in Listings /\ view[c] # Unread /\ memo[c] # Unread
        <5>1. memo[c] \in Issues /\ memo[c] # Unread
          BY <1>t, <1>1, <3>1, Types DEF Mine, HowFar
        <5>2. view[c] # Unread
          BY <1>t, <3>1 DEF Mine, HowFar, Harmless
        <5> QED BY <1>5, <2>1, <3>1, <5>1, <5>2 DEF Undisturbed, Harmless
      <4>2. view[c].coder = coder /\ view[c].tampered = tampered
        BY <2>1, <4>1 DEF Undisturbed
      <4> QED BY <4>1, <4>2 DEF note, Note
    <3>2. Warnings(Issue, coder, ~ tampered)' = Warnings(Issue, coder, ~ tampered)
      BY <1>1, <2>2 DEF Warnings
    <3> QED BY <1>8, <1>10, <3>1, <3>2
  <2>4. hurt[c] \in Harmless => labels' = Target(c)'
    BY <1>t, <1>1, <2>1, <2>2 DEF Undisturbed
  <2> QED BY ZenonT(60), <1>3, <1>4, <2>1, <2>3, <2>4, CheckWorkflowAssumption DEF Undisturbed
<1>17. Mine(c)'
  BY <1>13, <1>14, <1>15, <1>16 DEF Mine
<1> QED BY <1>1, <1>9, <1>11, <1>12, <1>17, OneStep

LEMMA TroubleIsBounded == ASSUME TypeOK, Trouble PROVE trouble' \in 0..MaxTrouble
<1>1. trouble \in 0..MaxTrouble /\ MaxTrouble \in Nat
  BY CheckWorkflowAssumption DEF TypeOK
<1> QED BY <1>1 DEF Trouble

\* Wherever a command panics, it leaves one comment, with no note in it.
LEMMA PanicKeeps == ASSUME IInv, NEW c \in Commands, Panic(c) PROVE IInv'
<1>t. TypeOK /\ Mine(c) /\ pc[c] \notin Ended
  BY DEF IInv, Panic, Running, InStages, Ended
<1>1. /\ UNCHANGED <<labels, closed, coder, tampered, recorded, rules, kind, stage>>
      /\ Trouble /\ Goto(c, "sorry") /\ Forget({c})
  BY DEF Panic, check
<1>2. pc' \in [Commands -> Places] /\ pc'[c] = "sorry" /\ \A d \in Commands \ {c} : pc'[d] = pc[d]
  BY <1>t, <1>1, Goes DEF Places
<1>3. /\ memo' \in [Commands -> {None, Unread} \cup Issues]
      /\ view' \in [Commands -> {None, Unread} \cup Listings]
      /\ moves' \in [Commands -> Seq([label : Labels, add : BOOLEAN])]
      /\ \A d \in Commands : Len(moves'[d]) <= 2
      /\ memo'[c] = None /\ view'[c] = None
      /\ \A d \in Commands \ {c} : memo'[d] = memo[d] /\ view'[d] = view[d] /\ moves'[d] = moves[d]
  BY <1>t, <1>1, Forgets
<1>4. trouble' \in 0..MaxTrouble
  BY <1>t, <1>1, TroubleIsBounded
<1>5. /\ Leaves(thread, thread', c) /\ PointerHasItsNote'
      /\ comment' \in [Commands -> 0..Len(thread')]
      /\ \A d \in Commands : comment'[d] \in {0} \cup Replies(d)'
      /\ hurt' \in [Commands -> {"nothing", "reading", "request", "cut off"}]
      /\ found' \in [Commands -> {None} \cup SUBSET Labels]
      /\ \A d \in Commands \ {c} : /\ comment'[d] = comment[d] /\ hurt'[d] = hurt[d]
                                  /\ found'[d] \in {None, found[d]}
      /\ \A i \in Replies(c)' : thread'[i].note = {} /\ ~ thread'[i].points
      /\ hurt'[c] \in Harmless => \A i \in Replies(c)' : i = comment'[c]
  <2>1. /\ \A i \in Replies(c) : thread[i].note = {} /\ ~ thread[i].points
        /\ hurt[c] \in Harmless => \A i \in Replies(c) : i = comment[c]
    BY <1>t DEF Mine, OneReply
  <2>2. CASE UNCHANGED <<thread, comment, history>>
    <3>1. /\ UNCHANGED <<thread, comment, found, hurt>>
          /\ comment \in [Commands -> 0..Len(thread)] /\ \A d \in Commands : comment[d] \in {0} \cup Replies(d)
      BY <1>t, <2>2, CommentTypes DEF history
    <3>2. PointerHasItsNote' /\ Leaves(thread, thread', c) /\ \A d \in Commands : Replies(d)' = Replies(d)
      BY <3>1, SilentThread
    <3> QED BY <1>t, <2>1, <3>1, <3>2, Types
  <2>3. CASE pc[c] \in InStages /\ comment[c] # 0 /\ ~ UNCHANGED <<thread, comment, history>>
    <3> DEFINE last == Entry(c, "abandoned", {}, FALSE)
    <3>1. (Write(c, last) /\ UNCHANGED hurt) \/ WriteLost(c, last)
      BY <2>3 DEF Panic
    <3>2. /\ last \in Said /\ last.by = c /\ last.note = {} /\ ~ last.points /\ Honest(c, last)
          /\ last.state # "sorry"
      <4>1. {} \in Notes
        BY DEF Notes
      <4> QED BY <4>1 DEF Entry, Said, Honest
    <3> HIDE DEF last
    <3>3. /\ Leaves(thread, thread', c) /\ PointerHasItsNote'
          /\ comment' \in [Commands -> 0..Len(thread')]
          /\ \A d \in Commands : comment'[d] \in {0} \cup Replies(d)'
          /\ hurt' \in [Commands -> {"nothing", "reading", "request", "cut off"}]
          /\ found' \in [Commands -> {None} \cup SUBSET Labels]
          /\ \A d \in Commands \ {c} : /\ comment'[d] = comment[d] /\ hurt'[d] = hurt[d]
                                      /\ found'[d] \in {None, found[d]}
          /\ \A i \in Replies(c)' : thread'[i] = last \/ (i \in Replies(c) /\ thread'[i] = thread[i])
          /\ \/ /\ hurt'[c] = hurt[c] /\ comment'[c] = Place(c)
                /\ Replies(c)' = Replies(c) \cup {Place(c)}
             \/ hurt'[c] = "request" /\ comment'[c] = comment[c]
      BY <1>t, <1>4, <3>1, <3>2, WriteWrites
    <3>4. hurt'[c] \in Harmless => \A i \in Replies(c)' : i = comment'[c]
      <4>1. Place(c) = comment[c]
        BY <2>3 DEF Place
      <4> QED BY <2>1, <3>3, <4>1 DEF Harmless
    <3> QED BY <2>1, <3>2, <3>3, <3>4
  <2> QED BY <2>2, <2>3 DEF Panic
<1>6. TypeOK'
  <2>1. stage' \in [Commands -> 1..4] /\ \A d \in Commands : stage'[d] <= Len(Stages(kind[d]))
    BY <1>t, <1>1, Types
  <2> QED BY <1>t, <1>1, <1>2, <1>3, <1>4, <1>5, <2>1, Types, WrittenTypes
<1>7. \A d \in Commands \ {c} : LeftAlone(d)
  BY <1>1, <1>2, <1>3, <1>5 DEF LeftAlone
<1>8. HowFar(c)' /\ Heard(c)' /\ Undisturbed(c)'
  <2>1. None # Unread /\ None \notin Issues /\ None \notin Listings
    BY CheckWorkflowAssumption
  <2>2. HowFar(c)'
    BY <1>2, <1>3, <2>1 DEF HowFar
  <2>3. Heard(c)'
    BY <1>3, <2>1 DEF Heard
  <2> QED BY <1>2, <1>3, <2>1, <2>2, <2>3 DEF Undisturbed
<1>9. OneReply(c)'
  BY <1>2, <1>5 DEF OneReply
<1>10. Mine(c)'
  BY <1>8, <1>9 DEF Mine
<1> QED BY <1>1, <1>5, <1>6, <1>7, <1>10, OneStep

\* The apology is the last word on the issue, and nobody's reply.
LEMMA ApologiseKeeps == ASSUME IInv, NEW c \in Commands, Apologise(c) PROVE IInv'
<1>t. TypeOK /\ Mine(c) /\ pc[c] = "sorry" /\ pc[c] \notin Ended
  BY DEF IInv, Apologise, Ended
<1>1. /\ UNCHANGED <<labels, closed, coder, tampered, recorded, rules, kind, stage>>
      /\ UNCHANGED <<memo, view, moves, comment, trouble>> /\ Goto(c, "abandoned")
  BY DEF Apologise, check
<1>2. pc' \in [Commands -> Places] /\ pc'[c] = "abandoned" /\ \A d \in Commands \ {c} : pc'[d] = pc[d]
  BY <1>t, <1>1, Goes DEF Places, Ended
<1>3. /\ hurt' \in [Commands -> {"nothing", "reading", "request", "cut off"}]
      /\ \A d \in Commands \ {c} : hurt'[d] = hurt[d]
      /\ hurt'[c] = "request" \/ hurt'[c] = hurt[c]
  <2>1. hurt \in [Commands -> {"nothing", "reading", "request", "cut off"}]
    BY <1>t, Types
  <2> QED BY <2>1 DEF Apologise
<1>4. PICK apology \in Said : /\ apology = Entry(c, "sorry", {}, FALSE)
                             /\ apology.by = c /\ apology.state = "sorry" /\ ~ apology.points
  <2>1. {} \in Notes
    BY DEF Notes
  <2>2. /\ Entry(c, "sorry", {}, FALSE) \in Said
        /\ Entry(c, "sorry", {}, FALSE).by = c
        /\ Entry(c, "sorry", {}, FALSE).state = "sorry"
        /\ Entry(c, "sorry", {}, FALSE).points = FALSE
    BY <2>1 DEF Entry, Said
  <2> QED BY <2>2
<1>5. /\ Leaves(thread, thread', c) /\ PointerHasItsNote' /\ Replies(c)' = Replies(c)
      /\ Len(thread) \in Nat /\ Len(thread') \in Nat /\ Len(thread) <= Len(thread')
      /\ found' \in [Commands -> {None} \cup SUBSET Labels]
      /\ \A d \in Commands \ {c} : found'[d] \in {None, found[d]}
      /\ hurt'[c] \in Harmless => \E i \in Apologies(c)' : \A j \in Replies(c) : j < i
  <2>1. CASE thread' = Append(thread, apology) /\ Disturbed(c)
    <3>1. /\ Leaves(thread, thread', c) /\ PointerHasItsNote' /\ Replies(c)' = Replies(c)
          /\ Len(thread) \in Nat /\ Len(thread') = Len(thread) + 1 /\ thread'[Len(thread) + 1] = apology
      BY <1>4, <2>1, AsideIsPosted
    <3>2. /\ found' \in [Commands -> {None} \cup SUBSET Labels]
          /\ \A d \in Commands \ {c} : found'[d] = None
      BY <1>t, <2>1, Disturbs
    <3>3. Len(thread) + 1 \in Apologies(c)'
      <4>1. DOMAIN thread' = 1..Len(thread') /\ Len(thread) + 1 \in 1..Len(thread')
        BY <3>1 DEF Leaves
      <4> QED BY <1>4, <3>1, <4>1 DEF Apologies
    <3>4. \A j \in Replies(c) : j < Len(thread) + 1
      <4>1. \A j \in Replies(c) : j \in 1..Len(thread)
        BY <1>t, CommentTypes DEF Replies
      <4> QED BY <3>1, <4>1
    <3> QED BY <3>1, <3>2, <3>3, <3>4
  <2>2. CASE hurt'[c] = "request" /\ UNCHANGED <<thread, found>>
    <3>1. PointerHasItsNote' /\ Leaves(thread, thread', c) /\ Replies(c)' = Replies(c)
      BY <2>2, SilentThread
    <3>2. found \in [Commands -> {None} \cup SUBSET Labels] /\ hurt'[c] \notin Harmless
      BY <1>t, <2>2, Types DEF Harmless
    <3>3. Len(thread) \in Nat
      BY <1>t, CommentTypes
    <3> QED BY <2>2, <3>1, <3>2, <3>3
  <2> QED BY <1>4, <2>1, <2>2 DEF Apologise
<1>6. comment' \in [Commands -> 0..Len(thread')] /\ \A d \in Commands : comment'[d] \in {0} \cup Replies(d)'
  <2>1. comment \in [Commands -> 0..Len(thread)] /\ \A d \in Commands : comment[d] \in {0} \cup Replies(d)
    BY <1>t, CommentTypes
  <2>2. \A d \in Commands \ {c} : Replies(d)' = Replies(d)
    BY <1>5, OthersReplies
  <2> QED BY <1>1, <1>5, <2>1, <2>2
<1>7. TypeOK'
  <2>1. /\ trouble' \in 0..MaxTrouble /\ stage' \in [Commands -> 1..4]
        /\ \A d \in Commands : stage'[d] <= Len(Stages(kind[d]))
    BY <1>t, <1>1, Types
  <2> QED BY <1>t, <1>1, <1>2, <1>3, <1>5, <1>6, <2>1, Types, WrittenTypes
<1>8. \A d \in Commands \ {c} : LeftAlone(d)
  BY <1>1, <1>2, <1>3, <1>5 DEF LeftAlone
<1>9. HowFar(c)' /\ Heard(c)'
  <2>1. HowFar(c)'
    BY <1>t, <1>1, <1>2, <1>3 DEF Mine, HowFar, Harmless
  <2>2. Heard(c)'
    BY <1>t, <1>1, <1>5, WrittenHeard DEF Place
  <2> QED BY <2>1, <2>2
<1>10. OneReply(c)'
  BY <1>t, <1>1, <1>2, <1>3, <1>5 DEF Mine, OneReply, Harmless, Ended
<1>11. found'[c] # None => Undisturbed(c)'
  <2>1. found'[c] = found[c]
    <3>1. CASE Disturbed(c)
      BY <1>t, <3>1, Disturbs
    <3> QED BY <3>1 DEF Apologise
  <2>2. Issue' = Issue /\ UNCHANGED <<labels, coder, tampered>>
    BY <1>1 DEF Issue
  <2> QED BY <1>t, <1>1, <1>2, <1>3, <2>1, <2>2 DEF Mine, Undisturbed, Harmless
<1>12. Mine(c)'
  BY <1>9, <1>10, <1>11 DEF Mine
<1> QED BY <1>1, <1>5, <1>7, <1>8, <1>12, OneStep

LEMMA CutOffKeeps == ASSUME IInv, CutOff PROVE IInv'
<1>t. TypeOK /\ \A d \in Commands : Mine(d)
  BY DEF IInv
<1>1. /\ UNCHANGED <<labels, closed, coder, tampered, recorded, rules>>
      /\ UNCHANGED <<thread, kind, stage, comment, found>> /\ Trouble
  BY DEF CutOff, check
<1>2. PICK cut \in SUBSET Commands :
        /\ pc' = [c \in Commands |-> IF c \in cut THEN "gone" ELSE pc[c]]
        /\ hurt' = [c \in Commands |-> IF c \in cut THEN "cut off" ELSE hurt[c]]
        /\ Forget(cut)
  BY DEF CutOff
<1>3. /\ memo' \in [Commands -> {None, Unread} \cup Issues]
      /\ view' \in [Commands -> {None, Unread} \cup Listings]
      /\ moves' \in [Commands -> Seq([label : Labels, add : BOOLEAN])]
      /\ \A d \in Commands : Len(moves'[d]) <= 2
      /\ \A d \in cut : memo'[d] = None /\ view'[d] = None
      /\ \A d \in Commands \ cut : memo'[d] = memo[d] /\ view'[d] = view[d] /\ moves'[d] = moves[d]
  BY <1>t, <1>2, Forgets
<1>4. pc' \in [Commands -> Places] /\ hurt' \in [Commands -> {"nothing", "reading", "request", "cut off"}]
  <2>1. pc \in [Commands -> Places] /\ hurt \in [Commands -> {"nothing", "reading", "request", "cut off"}]
    BY <1>t, Types
  <2> QED BY <1>2, <2>1 DEF Places, Ended
<1>5. TypeOK'
  <2>1. trouble' \in 0..MaxTrouble
    BY <1>t, <1>1, TroubleIsBounded
  <2> QED BY <1>t, <1>1, <1>3, <1>4, <2>1, Types, QuietTypes
<1>6. PointerHasItsNote' /\ Leaves(thread, thread', "record") /\ \A d \in Commands : d # "record"
  BY <1>1, SilentThread, CheckWorkflowAssumption
<1>7. \A d \in Commands \ cut : LeftAlone(d)
  BY <1>1, <1>2, <1>3 DEF LeftAlone
<1>8. \A d \in Commands \ cut : Mine(d)'
  BY <1>t, <1>1, <1>6, <1>7, OthersKeep
<1>9. ASSUME NEW d \in cut PROVE Mine(d)'
  <2>1. /\ pc'[d] = "gone" /\ hurt'[d] = "cut off" /\ memo'[d] = None /\ view'[d] = None
        /\ None # Unread /\ None \notin Listings
    BY <1>2, <1>3, CheckWorkflowAssumption
  <2>2. HowFar(d)'
    BY <2>1 DEF HowFar, Harmless
  <2>3. OneReply(d)'
    BY <2>1 DEF OneReply, Harmless, Ended
  <2>4. Heard(d)'
    BY <2>1 DEF Heard
  <2>5. Undisturbed(d)'
    BY <2>1 DEF Undisturbed, Harmless
  <2> QED BY <2>2, <2>3, <2>4, <2>5 DEF Mine
<1> QED BY <1>5, <1>6, <1>8, <1>9 DEF IInv

LEMMA HandsKeep == ASSUME IInv, ByHand \/ EditRecord PROVE IInv'
<1>t. TypeOK /\ \A d \in Commands : Mine(d)
  BY DEF IInv
<1>1. /\ UNCHANGED <<recorded, rules, thread, pc, kind, stage, memo, view, moves, comment, hurt>>
      /\ Trouble /\ Disturbed(Nobody)
  BY DEF ByHand, EditRecord, Hand
<1>2. /\ labels' \subseteq Labels /\ closed' \in BOOLEAN /\ coder' \in Coders \cup {Nobody} /\ tampered' \in BOOLEAN
  <2>1. labels \subseteq Labels /\ closed \in BOOLEAN /\ coder \in Coders \cup {Nobody} /\ tampered \in BOOLEAN
    BY <1>t, Types
  <2>2. CASE ByHand
    BY <2>1, <2>2 DEF ByHand
  <2>3. CASE EditRecord
    BY <2>1, <2>3 DEF EditRecord
  <2> QED BY <2>2, <2>3
<1>3. found' \in [Commands -> {None} \cup SUBSET Labels] /\ \A d \in Commands : found'[d] = None
  BY <1>t, <1>1, Disturbs, CheckWorkflowAssumption
<1>4. TypeOK'
  <2>1. trouble' \in 0..MaxTrouble
    BY <1>t, <1>1, TroubleIsBounded
  <2> QED BY <1>t, <1>1, <1>2, <1>3, <2>1, Types, QuietTypes
<1>5. PointerHasItsNote' /\ Leaves(thread, thread', Nobody) /\ \A d \in Commands : d # Nobody
  BY <1>1, SilentThread, CheckWorkflowAssumption
<1>6. \A d \in Commands : LeftAlone(d)
  BY <1>1, <1>3 DEF LeftAlone
<1> QED BY <1>t, <1>1, <1>4, <1>5, <1>6, OthersKeep DEF IInv

LEMMA NothingHappens == ASSUME IInv, UNCHANGED vars PROVE IInv'
<1>1. /\ UNCHANGED <<labels, closed, coder, tampered, recorded, rules>>
      /\ UNCHANGED <<thread, pc, kind, stage, memo, view, moves, comment, trouble, found, hurt>>
  BY DEF vars, check, history
<1>2. TypeOK'
  BY <1>1, Types, QuietTypes DEF IInv
<1>3. PointerHasItsNote' /\ Leaves(thread, thread', Nobody) /\ \A d \in Commands : d # Nobody
  BY <1>1, SilentThread, CheckWorkflowAssumption
<1>4. \A d \in Commands : LeftAlone(d)
  BY <1>1 DEF LeftAlone
<1> QED BY <1>1, <1>2, <1>3, <1>4, OthersKeep DEF IInv

-----------------------------------------------------------------------------
(***************************************************************************)
(* The theorems.                                                           *)
(***************************************************************************)

LEMMA Begins == Init => IInv
<1> SUFFICES ASSUME Init PROVE IInv
  OBVIOUS
<1>1. Warnings([labels |-> labels, closed |-> FALSE], coder, TRUE) \in Notes
  BY ANote DEF Init
<1>2. thread \in Seq(Said) /\ PointersStand(thread) /\ \A i \in DOMAIN thread : thread[i].by \notin Commands
  BY <1>1, CheckWorkflowAssumption DEF Init
<1>3. \A c \in Commands : Replies(c) = {}
  BY <1>2 DEF Replies
<1>4. TypeOK
  <2>1. \A k : Len(Stages(k)) \in 1..4
    BY StagesAre
  <2>2. \A k : 1 <= Len(Stages(k))
    BY <2>1
  <2>3. MaxTrouble \in Nat /\ 0 \in 0..MaxTrouble /\ Len(thread) \in Nat /\ 0 \in 0..Len(thread)
    <3>1. MaxTrouble \in Nat
      BY CheckWorkflowAssumption
    <3>2. Len(thread) \in Nat
      BY <1>2
    <3> QED BY <3>1, <3>2
  <2>4. << >> \in Seq([label : Labels, add : BOOLEAN]) /\ Len(<< >>) <= 2
    OBVIOUS
  <2>5. labels \subseteq Labels /\ closed \in BOOLEAN /\ tampered \in BOOLEAN /\ recorded \in BOOLEAN
    BY CheckWorkflowAssumption DEF Init
  <2>6. /\ pc \in [Commands -> Places] /\ kind \in [Commands -> Kinds] /\ stage \in [Commands -> 1..4]
        /\ memo \in [Commands -> {None, Unread} \cup Issues] /\ view \in [Commands -> {None, Unread} \cup Listings]
        /\ found \in [Commands -> {None} \cup SUBSET Labels]
        /\ hurt \in [Commands -> {"nothing", "reading", "request", "cut off"}]
    BY DEF Init, Places
  <2>7. /\ moves \in [Commands -> Seq([label : Labels, add : BOOLEAN])]
        /\ comment \in [Commands -> 0..Len(thread)]
    BY <2>3, <2>4 DEF Init
  <2>8. \A c \in Commands : Len(moves[c]) <= 2 /\ comment[c] \in {0} \cup Replies(c) /\ stage[c] <= Len(Stages(kind[c]))
    BY <2>2, <2>4 DEF Init
  <2>9. coder \in Coders \cup {Nobody} /\ rules \in Rules /\ trouble \in 0..MaxTrouble
    BY <2>3 DEF Init
  <2> QED BY <1>2, <2>5, <2>6, <2>7, <2>8, <2>9 DEF TypeOK
<1>5. ASSUME NEW c \in Commands PROVE Mine(c)
  <2>1. /\ pc[c] = "idle" /\ hurt[c] = "nothing" /\ comment[c] = 0 /\ stage[c] = 1
        /\ memo[c] = None /\ view[c] = None /\ found[c] = None
    BY DEF Init
  <2>2. None # Unread /\ None \notin Listings
    BY CheckWorkflowAssumption
  <2>3. HowFar(c)
    BY <1>3, <2>1, <2>2 DEF HowFar, Harmless
  <2>4. OneReply(c)
    BY <1>3, <2>1 DEF OneReply
  <2>5. Heard(c)
    BY <2>1, <2>2 DEF Heard
  <2> QED BY <2>1, <2>3, <2>4, <2>5 DEF Mine
<1> QED BY <1>2, <1>4, <1>5 DEF IInv, PointerHasItsNote

LEMMA EveryStepKeeps == IInv /\ [Next]_vars => IInv'
<1> SUFFICES ASSUME IInv, [Next]_vars PROVE IInv'
  OBVIOUS
<1>1. ASSUME NEW c \in Commands, Work(c) PROVE IInv'
  BY <1>1, BeginKeeps, AboutKeeps, ReadIssueKeeps, ChangeRecordKeeps, StageKeeps, MoveKeeps, MovedKeeps,
     GatherKeeps, AnswerKeeps, ApologiseKeeps DEF Work
<1>2. ASSUME NEW c \in Commands, Fails(c) PROVE IInv'
  BY <1>2, AboutFailsKeeps, MoveFailsKeeps, PanicKeeps DEF Fails
<1>3. CASE CutOff
  BY <1>3, CutOffKeeps
<1>4. CASE ByHand \/ EditRecord
  BY <1>4, HandsKeep
<1>5. CASE UNCHANGED vars
  BY <1>5, NothingHappens
<1> QED BY <1>1, <1>2, <1>3, <1>4, <1>5 DEF Next

\* What every command may count on, wherever it is, holds in every state: while
\* nobody else wrote to the check, and no request of its own failed, what it read
\* is so, and its moves bring the labels where they belong (issueMemo, moveLabels,
\* reply.write).
THEOREM CheckWorkflowInvariant == Spec => []IInv
BY Begins, EveryStepKeeps, PTL DEF Spec

\* Every variable keeps its type, and a command knows only comments of its own.
THEOREM WorkflowTypes == Spec => []TypeOK
<1>1. IInv => TypeOK
  BY DEF IInv
<1> QED BY <1>1, CheckWorkflowInvariant, PTL

\* A command nobody disturbed and no request failed leaves the labels as the steps
\* of a check have them (checkStart, checkFinish, placeholdersLeft, moveLabels).
THEOREM LabelsFollowTheCheck == Spec => []DoneIsDone
<1>1. IInv => DoneIsDone
  <2> SUFFICES ASSUME IInv, NEW c \in Commands, found[c] # None, pc[c] = "answered", hurt[c] \in Harmless
               PROVE  labels = Target(c)
    BY DEF DoneIsDone, Calm, Target, Harmless
  <2> QED BY DEF IInv, Mine, Undisturbed
<1> QED BY <1>1, CheckWorkflowInvariant, PTL

\* The note of such a command is about the check as the command leaves it, and not
\* as it found it (labelNote, issueMemo, Listing.wrote).
THEOREM TheNoteIsAboutNow == Spec => []NoteIsAboutNow
<1>1. IInv => NoteIsAboutNow
  BY DEF IInv, Mine, Undisturbed, NoteIsAboutNow, Calm
<1> QED BY <1>1, CheckWorkflowInvariant, PTL

\* "As said above" is never said of nothing: the note is in full in an earlier
\* comment, whatever commands ran side by side (justSaid).
THEOREM PointersHaveTheirNote == Spec => []PointerHasItsNote
<1>1. IInv => PointerHasItsNote
  BY DEF IInv
<1> QED BY <1>1, CheckWorkflowInvariant, PTL

\* No command ends in silence or twice: it has one reply, which is its answer, or,
\* wherever it panicked, an apology below it, unless one of its writes failed or
\* its time was up (reply.write, progress.run, recoverCommand).
THEOREM EveryCommandIsAnswered == Spec => []AnsweredOrApologised
<1>1. IInv => AnsweredOrApologised
  <2> SUFFICES ASSUME IInv, NEW c \in Commands, pc[c] \in Ended, hurt[c] \in Harmless
               PROVE  /\ Cardinality(Replies(c)) <= 1
                      /\ pc[c] = "answered" => \E i \in Replies(c) : thread[i].state = "answered"
                      /\ pc[c] = "abandoned" => \E i \in Apologies(c) : \A j \in Replies(c) : j < i
    BY DEF AnsweredOrApologised, Through, Harmless
  <2>1. OneReply(c) /\ comment[c] \in {0} \cup Replies(c)
    BY CommentTypes DEF IInv, Mine
  <2>2. Cardinality(Replies(c)) <= 1
    <3>1. Replies(c) = {} \/ Replies(c) = {comment[c]}
      BY <2>1 DEF OneReply
    <3>2. Cardinality({}) = 0 /\ Cardinality({comment[c]}) = 1
      BY FS_EmptySet, FS_Singleton
    <3> QED BY <3>1, <3>2
  <2>3. pc[c] = "answered" => \E i \in Replies(c) : thread[i].state = "answered"
    BY <2>1 DEF OneReply
  <2>4. pc[c] = "abandoned" => \E i \in Apologies(c) : \A j \in Replies(c) : j < i
    BY <2>1 DEF OneReply
  <2> QED BY <2>2, <2>3, <2>4
<1> QED BY <1>1, CheckWorkflowInvariant, PTL
=============================================================================
