-------------------------- MODULE RegisterRowProofs --------------------------
(***************************************************************************)
(* Theorems about RegisterRow: what a branch proposes, what a pull request *)
(* shows, whose work is lost and what an answer means, for any number of   *)
(* commands, rows, editors' acts and failed requests.                      *)
(***************************************************************************)
EXTENDS RegisterRow, TLAPS

\* A command that has read the file, and found no row of the certificate.
Reading == {"branch", "compare", "commit", "move", "moved?", "pull", "patch", "post", "opened?", "done"}
Unwritten == {"idle", "file", "branch", "compare", "commit"}

\* The branch adds a row to a commit of the default branch that had none; a
\* person may have changed the rest.
AddsARow ==
  branch # None =>
    /\ branch.base <= Tip /\ main[branch.base] \cap Rows = {}
    /\ branch.file \cap Rows # {}
    /\ ~ branch.edited => \E r \in Rows : branch.file = main[branch.base] \cup {r}
    /\ branch.merged => branch.base < Tip

\* GitHub opens a pull request from a branch that is ahead, and closes it when
\* it is merged or deleted.
OpenIsAhead == OpenPulls # {} => Ahead

\* A write is tried twice.
TriesLeft(c) ==
  /\ pc[c] \in Unwritten => tries[c] = 0
  /\ pc[c] \in {"move", "patch", "post"} => tries[c] <= 1

\* What a command is about to commit is the file it read with its row, and the
\* file it read had none.
OneSnapshot(c) ==
  pc[c] \in Reading => main[base[c]] \cap Rows = {} /\ content[c] = main[base[c]] \cup {row[c]}

\* A command that found a branch compared it, and found nobody's work: there is
\* some now only because somebody pushed since.
Compares(c) ==
  /\ pc[c] = "compare" => seen[c] # None
  /\ pc[c] \in Compared /\ seen[c] # None /\ SomebodysWork => c \in overtaken
  /\ pc[c] \in Unwritten => c \notin thrown

\* The branch proposes the command's row on the default branch as it is.
Proposes(c) == Ahead /\ branch.base = Tip /\ branch.file = main[Tip] \cup {row[c]}

Says(c) == \E n \in OpenPulls : pulls[n].text = row[c]

\* What a command knows of GitHub while nobody disturbs it: the branch is as it
\* found it or as it wrote it, and so is the pull request.
Undisturbed(c) ==
  /\ pc[c] # "idle" /\ base[c] = Tip
  /\ pc[c] = "compare" => seen[c] = branch
  /\ pc[c] \in Compared => ~ SomebodysWork \/ seen[c] = None
  /\ pc[c] = "commit" => seen[c] = branch
  /\ pc[c] = "move" => seen[c] = branch \/ (tries[c] = 1 /\ branch = MyCommit(c))
  /\ pc[c] = "moved?" => branch = MyCommit(c) \/ (tries[c] = 2 /\ branch = None)
  /\ pc[c] \in {"pull", "patch", "post", "opened?", "done"} => Proposes(c)
  /\ pc[c] = "patch" => known[c] \in OpenPulls
  /\ pc[c] = "post" => OpenPulls = {} \/ (tries[c] = 1 /\ Says(c))
  /\ pc[c] = "opened?" => Says(c) \/ (tries[c] = 2 /\ OpenPulls = {})
  /\ pc[c] = "done" => Says(c)
  /\ pc[c] # "refused"

IInv ==
  /\ TypeOK /\ AddsARow /\ OpenIsAhead
  /\ \A c \in Commands : TriesLeft(c) /\ OneSnapshot(c) /\ Compares(c)
  /\ \A c \in calm : Undisturbed(c)
  /\ thrown \subseteq overtaken

-----------------------------------------------------------------------------
(***************************************************************************)
(* Pull requests.                                                          *)
(***************************************************************************)

\* Closing every pull request leaves the list in place and none open.
LEMMA AllClosed ==
  ASSUME pulls \in Seq(Pull), pulls' = [n \in DOMAIN pulls |-> [pulls[n] EXCEPT !.open = FALSE]]
  PROVE  pulls' \in Seq(Pull) /\ Len(pulls') = Len(pulls) /\ OpenPulls' = {}
<1>1. DOMAIN pulls = 1..Len(pulls) /\ Len(pulls) \in Nat
  OBVIOUS
<1>2. \A n \in 1..Len(pulls) : [pulls[n] EXCEPT !.open = FALSE] \in Pull
  <2>1. \A p \in Pull : [p EXCEPT !.open = FALSE] \in Pull
    BY DEF Pull
  <2> QED BY <1>1, <2>1
<1>3. pulls' \in [1..Len(pulls) -> Pull]
  BY <1>1, <1>2
<1>4. pulls' \in Seq(Pull) /\ Len(pulls') = Len(pulls)
  BY <1>1, <1>3
<1>5. ASSUME NEW n \in 1..Len(pulls) PROVE ~ pulls'[n].open
  <2>1. pulls[n] \in Pull /\ pulls'[n] = [pulls[n] EXCEPT !.open = FALSE]
    BY <1>1
  <2> QED BY <2>1 DEF Pull
<1> QED BY <1>4, <1>5 DEF OpenPulls

\* A new text changes the text of one, and what is open stays so.
LEMMA TextChanged ==
  ASSUME TypeOK, NEW c \in Commands, known[c] > 0, pulls' = [pulls EXCEPT ![known[c]].text = row[c]]
  PROVE  /\ pulls' \in Seq(Pull) /\ Len(pulls') = Len(pulls) /\ OpenPulls' = OpenPulls
         /\ known[c] \in DOMAIN pulls' /\ pulls'[known[c]].text = row[c]
<1>1. known[c] \in 1..Len(pulls) /\ row[c] \in Rows /\ pulls \in Seq(Pull)
  BY DEF TypeOK
<1>2. \A p \in Pull : LET q == [p EXCEPT !.text = row[c]] IN
        q \in Pull /\ q.open = p.open /\ q.text = row[c]
  BY <1>1 DEF Pull
<1>3. pulls[known[c]] \in Pull /\ pulls' = [pulls EXCEPT ![known[c]] = [pulls[known[c]] EXCEPT !.text = row[c]]]
  BY <1>1
<1>4. pulls' \in Seq(Pull) /\ Len(pulls') = Len(pulls)
  BY <1>1, <1>2, <1>3
<1>5. \A n \in 1..Len(pulls) : pulls'[n].open = pulls[n].open
  BY <1>1, <1>2, <1>3
<1>6. known[c] \in DOMAIN pulls' /\ pulls'[known[c]].text = row[c]
  BY <1>1, <1>2, <1>3
<1> QED BY <1>4, <1>5, <1>6 DEF OpenPulls

\* A new pull request is the only one open.
LEMMA OneOpened ==
  ASSUME pulls \in Seq(Pull), OpenPulls = {}, NEW text \in Rows,
         pulls' = Append(pulls, [open |-> TRUE, text |-> text])
  PROVE  /\ pulls' \in Seq(Pull) /\ Len(pulls') = Len(pulls) + 1
         /\ OpenPulls' = {Len(pulls) + 1} /\ pulls'[Len(pulls) + 1].text = text
<1>1. [open |-> TRUE, text |-> text] \in Pull
  BY DEF Pull
<1>2. pulls' \in Seq(Pull) /\ Len(pulls') = Len(pulls) + 1
  BY <1>1
<1>3. /\ \A n \in 1..Len(pulls) : pulls'[n] = pulls[n]
      /\ pulls'[Len(pulls) + 1] = [open |-> TRUE, text |-> text]
  BY <1>1
<1>4. \A n \in 1..Len(pulls) : ~ pulls'[n].open
  BY <1>3 DEF OpenPulls
<1>5. Len(pulls) \in Nat
  OBVIOUS
<1> QED BY <1>2, <1>3, <1>4, <1>5 DEF OpenPulls

\* A commit on the default branch moves none of those there are.
LEMMA OneCommitted ==
  ASSUME main \in Seq(File), Tip > 0, NEW file \in File, main' = Append(main, file)
  PROVE  /\ main' \in Seq(File) /\ Tip' = Tip + 1 /\ Tip \in Nat
         /\ \A n \in 1..Tip : main'[n] = main[n]
BY DEF Tip

-----------------------------------------------------------------------------
(***************************************************************************)
(* Every step keeps the types.                                             *)
(***************************************************************************)

\* What a command is about to commit is a branch.
LEMMA CommitIsABranch ==
  ASSUME TypeOK, NEW c \in Commands
  PROVE  MyCommit(c) \in Branch /\ MyCommit(c) # None
<1>1. base[c] \in 1..Tip /\ content[c] \in File /\ Tip \in Nat
  BY DEF TypeOK, Tip
<1>2. base[c] \in Nat \ {0} /\ content[c] \in File /\ c \in Commands \cup {None}
  BY <1>1
<1>3. MyCommit(c) \in Branch
  BY <1>2 DEF MyCommit, Branch
<1>4. None \notin Branch
  BY RegisterRowAssumption
<1> QED BY <1>3, <1>4

\* A command goes to a place, and the others stay where they are.
LEMMA Goes ==
  ASSUME TypeOK, NEW c \in Commands, NEW place \in Places, Goto(c, place)
  PROVE  pc' \in [Commands -> Places] /\ pc'[c] = place /\ \A d \in Commands \ {c} : pc'[d] = pc[d]
BY DEF TypeOK, Goto

\* What is not written stays as it is.
LEMMA MainStays == ASSUME UNCHANGED main PROVE Tip' = Tip
BY DEF Tip

LEMMA PullsStay == ASSUME UNCHANGED pulls PROVE OpenPulls' = OpenPulls
BY DEF OpenPulls

\* A write that was lost is sent again, if it was the first, or given up.
LEMMA SentOrGivenUp ==
  ASSUME TypeOK, NEW c \in Commands, TriesLeft(c), pc[c] \in {"move", "patch", "post"},
         NEW places \in SUBSET Places, SentAgain(c) \/ GivenUp(c, places)
  PROVE  /\ tries' \in [Commands -> 0..2] /\ \A d \in Commands \ {c} : tries'[d] = tries[d]
         /\ pc' \in [Commands -> Places] /\ \A d \in Commands \ {c} : pc'[d] = pc[d]
         /\ \/ pc'[c] = pc[c] /\ tries[c] = 0 /\ tries'[c] = 1
            \/ pc'[c] \in places /\ tries'[c] = 2
<1>1. tries \in [Commands -> 0..2] /\ pc \in [Commands -> Places]
  BY DEF TypeOK
<1>2. CASE SentAgain(c)
  BY <1>1, <1>2 DEF SentAgain
<1>3. CASE GivenUp(c, places)
  <2>1. PICK place \in places : Goto(c, place)
    BY <1>3 DEF GivenUp
  <2> QED BY <1>1, <1>3, <2>1, Goes DEF GivenUp
<1> QED BY <1>2, <1>3

\* A command that writes nothing to GitHub keeps what is there.
LEMMA ReadingTypes ==
  ASSUME TypeOK, NEW c \in Commands, UNCHANGED <<main, branch, pulls, row, thrown>>,
         pc' \in [Commands -> Places], \A d \in Commands \ {c} : pc'[d] = pc[d],
         base' \in [Commands -> 1..Tip], content' \in [Commands -> File],
         seen' \in [Commands -> Branch \cup {None}], known' \in [Commands -> 0..Len(pulls)],
         \A d \in Commands \ {c} : known'[d] = known[d],
         pc'[c] = "patch" => known'[c] > 0,
         tries' \in [Commands -> 0..2], calm' \subseteq Commands, overtaken' \subseteq Commands
  PROVE  TypeOK'
<1>1. Tip' = Tip /\ OpenPulls' = OpenPulls
  BY MainStays, PullsStay
<1>2. \A d \in Commands : pc'[d] = "patch" => known'[d] > 0
  BY DEF TypeOK
<1> QED BY <1>1, <1>2 DEF TypeOK

\* A command that writes the branch or a pull request keeps its locals.
LEMMA WritingTypes ==
  ASSUME TypeOK, NEW c \in Commands, UNCHANGED <<main, row, local>>,
         branch' \in Branch \cup {None}, pulls' \in Seq(Pull), Len(pulls') >= Len(pulls),
         \A m, n \in OpenPulls' : m = n,
         pc' \in [Commands -> Places], \A d \in Commands \ {c} : pc'[d] = pc[d],
         pc'[c] = "patch" => pc[c] = "patch",
         tries' \in [Commands -> 0..2], calm' \subseteq Commands, overtaken' \subseteq Commands,
         thrown' \subseteq Commands
  PROVE  TypeOK'
<1>1. Tip' = Tip
  BY MainStays
<1>2. Len(pulls) \in Nat /\ Len(pulls') \in Nat
  BY DEF TypeOK
<1>3. known \in [Commands -> 0..Len(pulls')]
  BY <1>2 DEF TypeOK
<1>4. \A d \in Commands : pc'[d] = "patch" => known[d] > 0
  BY DEF TypeOK
<1> QED BY <1>1, <1>3, <1>4 DEF TypeOK, local

\* The three writes, where they land.
LEMMA PushTypes ==
  ASSUME TypeOK, NEW c \in Commands, Push(c)
  PROVE  /\ branch' \in Branch \cup {None} /\ pulls' \in Seq(Pull) /\ Len(pulls') >= Len(pulls)
         /\ \A m, n \in OpenPulls' : m = n
         /\ UNCHANGED main /\ calm' \subseteq Commands /\ overtaken' \subseteq Commands
         /\ thrown' \subseteq Commands
<1>1. OpenPulls' = OpenPulls
  BY PullsStay DEF Push
<1>2. Len(pulls) \in Nat
  BY DEF TypeOK
<1> QED BY <1>1, <1>2, CommitIsABranch DEF Push, TypeOK

LEMMA RetextTypes ==
  ASSUME TypeOK, NEW c \in Commands, known[c] > 0, Retext(c)
  PROVE  /\ branch' \in Branch \cup {None} /\ pulls' \in Seq(Pull) /\ Len(pulls') >= Len(pulls)
         /\ \A m, n \in OpenPulls' : m = n
         /\ UNCHANGED main /\ calm' \subseteq Commands /\ overtaken' \subseteq Commands
         /\ thrown' \subseteq Commands
<1>1. pulls' \in Seq(Pull) /\ Len(pulls') = Len(pulls) /\ OpenPulls' = OpenPulls
  BY TextChanged DEF Retext
<1>2. Len(pulls) \in Nat
  BY DEF TypeOK
<1> QED BY <1>1, <1>2 DEF Retext, TypeOK

LEMMA OpenTypes ==
  ASSUME TypeOK, NEW c \in Commands, Open(c)
  PROVE  /\ branch' \in Branch \cup {None} /\ pulls' \in Seq(Pull) /\ Len(pulls') >= Len(pulls)
         /\ \A m, n \in OpenPulls' : m = n
         /\ UNCHANGED main /\ calm' \subseteq Commands /\ overtaken' \subseteq Commands
         /\ thrown' \subseteq Commands
<1>1. pulls' \in Seq(Pull) /\ Len(pulls') = Len(pulls) + 1 /\ OpenPulls' = {Len(pulls) + 1}
  <2>1. pulls \in Seq(Pull) /\ row[c] \in Rows
    BY DEF TypeOK
  <2> QED BY <2>1, OneOpened DEF Open
<1>2. Len(pulls) \in Nat
  BY DEF TypeOK
<1> QED BY <1>1, <1>2 DEF Open, TypeOK

LEMMA NoWriteTypes ==
  ASSUME TypeOK, NoWrite
  PROVE  /\ branch' \in Branch \cup {None} /\ pulls' \in Seq(Pull) /\ Len(pulls') >= Len(pulls)
         /\ \A m, n \in OpenPulls' : m = n
         /\ UNCHANGED main /\ calm' \subseteq Commands /\ overtaken' \subseteq Commands
         /\ thrown' \subseteq Commands
<1>1. OpenPulls' = OpenPulls
  BY PullsStay DEF NoWrite, github
<1>2. Len(pulls) \in Nat
  BY DEF TypeOK
<1> QED BY <1>1, <1>2 DEF NoWrite, github, history, TypeOK

LEMMA ReadingStepsTypes ==
  ASSUME TypeOK, NEW c \in Commands,
         \/ ReadBase(c) \/ ReadFile(c) \/ ReadBranch(c) \/ Compare(c) \/ Commit(c)
         \/ LookMoved(c) \/ ReadPull(c) \/ LookOpened(c) \/ CutShort(c)
  PROVE  TypeOK'
<1>a. /\ base \in [Commands -> 1..Tip] /\ content \in [Commands -> File] /\ row \in [Commands -> Rows]
      /\ seen \in [Commands -> Branch \cup {None}] /\ known \in [Commands -> 0..Len(pulls)]
      /\ tries \in [Commands -> 0..2] /\ branch \in Branch \cup {None}
      /\ calm \subseteq Commands /\ overtaken \subseteq Commands
      /\ Tip \in 1..Tip /\ \A n \in 1..Tip : main[n] \in File
      /\ Len(pulls) \in Nat
  BY DEF TypeOK, Tip
<1> USE DEF github, local, history
<1>1. CASE ReadBase(c)
  <2>1. pc' \in [Commands -> Places] /\ pc'[c] = "file" /\ \A d \in Commands \ {c} : pc'[d] = pc[d]
    BY <1>1, Goes DEF ReadBase, Places
  <2> QED BY <1>1, <1>a, <2>1, ReadingTypes DEF ReadBase
<1>2. CASE ReadFile(c)
  <2>1. PICK place \in {"registered", "branch"} : Goto(c, place)
    BY <1>2 DEF ReadFile
  <2>2. pc' \in [Commands -> Places] /\ pc'[c] = place /\ \A d \in Commands \ {c} : pc'[d] = pc[d]
    BY <2>1, Goes DEF Places, Ended
  <2>3. main[base[c]] \cup {row[c]} \in File
    BY <1>a DEF File
  <2> QED BY <1>2, <1>a, <2>2, <2>3, ReadingTypes DEF ReadFile
<1>3. CASE ReadBranch(c)
  <2>1. PICK place \in {"commit", "compare"} : Goto(c, place)
    BY <1>3 DEF ReadBranch
  <2>2. pc' \in [Commands -> Places] /\ pc'[c] = place /\ \A d \in Commands \ {c} : pc'[d] = pc[d]
    BY <2>1, Goes DEF Places, Compared
  <2> QED BY <1>3, <1>a, <2>2, ReadingTypes DEF ReadBranch
<1>4. CASE Compare(c)
  <2>1. PICK place \in {"commit", "not ours", "failed"} : Goto(c, place)
    BY <1>4 DEF Compare
  <2>2. pc' \in [Commands -> Places] /\ pc'[c] = place /\ \A d \in Commands \ {c} : pc'[d] = pc[d]
    BY <2>1, Goes DEF Places, Compared, Ended
  <2> QED BY <1>4, <1>a, <2>2, ReadingTypes DEF Compare
<1>5. CASE Commit(c)
  <2>1. PICK place \in {"pull", "move"} : Goto(c, place)
    BY <1>5 DEF Commit
  <2>2. pc' \in [Commands -> Places] /\ pc'[c] = place /\ \A d \in Commands \ {c} : pc'[d] = pc[d]
    BY <2>1, Goes DEF Places, Compared
  <2> QED BY <1>5, <1>a, <2>2, ReadingTypes DEF Commit
<1>6. CASE ReadPull(c)
  <2>1. /\ known' \in [Commands -> 0..Len(pulls)] /\ \A d \in Commands \ {c} : known'[d] = known[d]
        /\ \E place \in {"post", "done", "patch"} :
             Goto(c, place) /\ (place = "patch" => known'[c] > 0)
    <3>1. CASE OpenPulls = {}
      <4>1. Goto(c, "post") /\ known' = [known EXCEPT ![c] = 0]
        BY <1>6, <3>1 DEF ReadPull
      <4>2. 0 \in 0..Len(pulls)
        BY <1>a
      <4> QED BY <1>a, <4>1, <4>2
    <3>2. CASE OpenPulls # {}
      <4>1. PICK n \in OpenPulls : /\ known' = [known EXCEPT ![c] = n]
                                   /\ Goto(c, IF pulls[n].text = row[c] THEN "done" ELSE "patch")
        BY <1>6, <3>2 DEF ReadPull
      <4>2. n \in 0..Len(pulls) /\ n > 0
        BY DEF OpenPulls
      <4> QED BY <1>a, <4>1, <4>2
    <3> QED BY <3>1, <3>2
  <2>2. PICK place \in {"post", "done", "patch"} : Goto(c, place) /\ (place = "patch" => known'[c] > 0)
    BY <2>1
  <2>3. pc' \in [Commands -> Places] /\ pc'[c] = place /\ \A d \in Commands \ {c} : pc'[d] = pc[d]
    BY <2>2, Goes DEF Places, Ended
  <2>4. /\ UNCHANGED <<main, branch, pulls, row, base, content, seen, calm, overtaken, thrown>>
        /\ tries' \in [Commands -> 0..2]
    BY <1>6, <1>a DEF ReadPull
  <2> QED BY <1>a, <2>1, <2>2, <2>3, <2>4, ReadingTypes
<1>7. CASE CutShort(c)
  <2>1. pc' \in [Commands -> Places] /\ pc'[c] = "failed" /\ \A d \in Commands \ {c} : pc'[d] = pc[d]
    BY <1>7, Goes DEF CutShort, Places, Ended
  <2> QED BY <1>7, <1>a, <2>1, ReadingTypes DEF CutShort
<1>8. CASE LookMoved(c)
  <2>1. PICK place \in {"pull", "failed", "refused"} : Goto(c, place)
    BY <1>8 DEF LookMoved, Unforgiven
  <2>2. pc' \in [Commands -> Places] /\ pc'[c] = place /\ \A d \in Commands \ {c} : pc'[d] = pc[d]
    BY <2>1, Goes DEF Places, Ended
  <2> QED BY <1>8, <1>a, <2>2, ReadingTypes DEF LookMoved
<1>9. CASE LookOpened(c)
  <2>1. PICK place \in {"done", "failed", "refused"} : Goto(c, place)
    BY <1>9 DEF LookOpened, Unforgiven
  <2>2. pc' \in [Commands -> Places] /\ pc'[c] = place /\ \A d \in Commands \ {c} : pc'[d] = pc[d]
    BY <2>1, Goes DEF Places, Ended
  <2> QED BY <1>9, <1>a, <2>2, ReadingTypes DEF LookOpened
<1> QED BY <1>1, <1>2, <1>3, <1>4, <1>5, <1>6, <1>7, <1>8, <1>9

LEMMA WritingStepsTypes ==
  ASSUME TypeOK, NEW c \in Commands, TriesLeft(c),
         \/ Move(c) \/ MoveRefused(c) \/ Patch(c) \/ Post(c) \/ PostRefused(c)
         \/ MoveLost(c) \/ PatchLost(c) \/ PostLost(c)
  PROVE  TypeOK'
<1>1. /\ branch' \in Branch \cup {None} /\ pulls' \in Seq(Pull) /\ Len(pulls') >= Len(pulls)
      /\ \A m, n \in OpenPulls' : m = n
      /\ UNCHANGED main /\ calm' \subseteq Commands /\ overtaken' \subseteq Commands
      /\ thrown' \subseteq Commands
  <2>1. CASE Push(c)
    BY <2>1, PushTypes
  <2>2. CASE Retext(c) /\ pc[c] = "patch"
    BY <2>2, RetextTypes DEF TypeOK
  <2>3. CASE Open(c)
    BY <2>3, OpenTypes
  <2>4. CASE NoWrite
    BY <2>4, NoWriteTypes
  <2> QED BY <2>1, <2>2, <2>3, <2>4
          DEF Move, MoveRefused, Patch, Post, PostRefused, MoveLost, PatchLost, PostLost
<1>2. /\ tries' \in [Commands -> 0..2] /\ pc' \in [Commands -> Places]
      /\ \A d \in Commands \ {c} : pc'[d] = pc[d]
      /\ pc'[c] = "patch" => pc[c] = "patch"
  <2>1. CASE \E places \in {{"failed"}, {"moved?", "failed"}, {"opened?", "failed"}} :
               SentAgain(c) \/ GivenUp(c, places)
    <3>1. PICK places \in {{"failed"}, {"moved?", "failed"}, {"opened?", "failed"}} :
            SentAgain(c) \/ GivenUp(c, places)
      BY <2>1
    <3>2. places \in SUBSET Places /\ "patch" \notin places
      BY DEF Places, Ended, Looking
    <3>3. pc[c] \in {"move", "patch", "post"}
      BY DEF Move, MoveRefused, Patch, Post, PostRefused, MoveLost, PatchLost, PostLost
    <3> QED BY <3>1, <3>2, <3>3, SentOrGivenUp
  <2>2. CASE \E place \in {"pull", "moved?", "opened?", "refused", "done", "move"} :
               Goto(c, place) /\ tries' \in {tries, [tries EXCEPT ![c] = 0]}
    <3>1. PICK place \in {"pull", "moved?", "opened?", "refused", "done", "move"} :
            Goto(c, place) /\ tries' \in {tries, [tries EXCEPT ![c] = 0]}
      BY <2>2
    <3>2. place \in Places /\ place # "patch"
      BY DEF Places, Compared, Ended, Looking
    <3>3. tries' \in [Commands -> 0..2]
      BY <3>1 DEF TypeOK
    <3> QED BY <3>1, <3>2, <3>3, Goes
  <2> QED BY <2>1, <2>2
          DEF Move, MoveRefused, Patch, Post, PostRefused, MoveLost, PatchLost, PostLost
<1>3. UNCHANGED <<row, local>>
  BY DEF Move, MoveRefused, Patch, Post, PostRefused, MoveLost, PatchLost, PostLost
<1> QED BY <1>1, <1>2, <1>3, WritingTypes

LEMMA HandsTypes == ASSUME TypeOK, OpenIsAhead, Hands PROVE TypeOK'
<1> USE DEF TypeOK
<1>t. Tip \in Nat /\ Tip \in 1..Tip /\ main[Tip] \in File
  BY DEF Tip
<1>1. CASE MainMoves
  <2>1. PICK other \in Others : main' = Append(main, main[Tip] \cup {other})
    BY <1>1 DEF MainMoves
  <2>2. main[Tip] \cup {other} \in File
    BY <1>t DEF File
  <2>3. main' \in Seq(File) /\ Tip' = Tip + 1
    BY <2>1, <2>2, OneCommitted
  <2>4. base \in [Commands -> 1..Tip']
    BY <1>t, <2>3
  <2> QED BY <1>1, <1>t, <2>3, <2>4 DEF MainMoves, Hand, local, OpenPulls
<1>2. CASE EditBranch
  <2>1. PICK fix \in Rows :
          branch' = [branch EXCEPT !.file = (branch.file \ Rows) \cup {fix}, !.head = "person",
                                   !.edited = TRUE, !.merged = FALSE]
    BY <1>2 DEF EditBranch
  <2>2. branch \in Branch
    BY <1>2 DEF EditBranch
  <2>3. branch' \in Branch
    BY <2>1, <2>2 DEF Branch, File
  <2> QED BY <1>2, <2>3 DEF EditBranch, Hand, local, Tip, OpenPulls
<1>3. CASE UpdateBranch
  <2>1. branch \in Branch /\ Tip \in Nat \ {0}
    BY <1>3, <1>t DEF UpdateBranch, Ahead
  <2>2. branch' \in Branch
    BY <1>3, <1>t, <2>1 DEF UpdateBranch, Branch, File
  <2> QED BY <1>3, <2>2 DEF UpdateBranch, Hand, local, Tip, OpenPulls
<1>4. ASSUME pulls' = [n \in DOMAIN pulls |-> [pulls[n] EXCEPT !.open = FALSE]]
      PROVE  pulls' \in Seq(Pull) /\ Len(pulls') = Len(pulls) /\ OpenPulls' = {}
  BY <1>4, AllClosed
<1>5. CASE Merge
  <2>1. branch \in Branch
    BY <1>5 DEF Merge, OpenIsAhead, Ahead
  <2>2. branch' \in Branch /\ main[Tip] \cup (branch.file \ main[branch.base]) \in File
    BY <1>5, <1>t, <2>1 DEF Merge, Branch, File
  <2>3. main' \in Seq(File) /\ Tip' = Tip + 1
    BY <1>5, <2>2, OneCommitted DEF Merge
  <2>4. base \in [Commands -> 1..Tip']
    BY <1>t, <2>3
  <2> QED BY <1>4, <1>5, <1>t, <2>2, <2>3, <2>4 DEF Merge, Hand, local
<1>6. CASE DeleteBranch \/ Close
  BY <1>4, <1>6 DEF DeleteBranch, Close, Hand, local, Tip
<1> QED BY <1>1, <1>2, <1>3, <1>5, <1>6 DEF Hands

-----------------------------------------------------------------------------
(***************************************************************************)
(* What a step of one command leaves of the others.                        *)
(***************************************************************************)

\* What a command knows, as far as it is one command's.
Mine(c) == TriesLeft(c) /\ OneSnapshot(c) /\ Compares(c) /\ (c \in calm => Undisturbed(c))

Kept == AddsARow' /\ OpenIsAhead' /\ (\A d \in Commands : Mine(d)') /\ thrown' \subseteq overtaken'

\* The locals of a command, its start and its place in the history stay.
Same(d) ==
  /\ pc'[d] = pc[d] /\ row'[d] = row[d] /\ base'[d] = base[d] /\ content'[d] = content[d]
  /\ seen'[d] = seen[d] /\ known'[d] = known[d] /\ tries'[d] = tries[d]
  /\ d \in overtaken <=> d \in overtaken'
  /\ d \in thrown <=> d \in thrown'

LEMMA IInvIsMine == IInv <=> TypeOK /\ AddsARow /\ OpenIsAhead /\ (\A d \in Commands : Mine(d))
                             /\ thrown \subseteq overtaken
<1>1. TypeOK => calm \subseteq Commands
  BY DEF TypeOK
<1> QED BY <1>1 DEF IInv, Mine

\* A command that somebody else's step disturbs is no longer calm; one that it
\* does not disturb finds GitHub as it was.
LEMMA OthersKeep ==
  ASSUME NEW d \in Commands, Mine(d), Same(d), UNCHANGED main,
         SomebodysWork' => SomebodysWork,
         d \in calm' => d \in calm /\ UNCHANGED <<branch, pulls>>
  PROVE  Mine(d)'
<1>1. TriesLeft(d)'
  BY DEF Mine, Same, TriesLeft
<1>2. OneSnapshot(d)'
  BY DEF Mine, Same, OneSnapshot
<1>3. Compares(d)'
  BY DEF Mine, Same, Compares
<1>4. ASSUME d \in calm' PROVE Undisturbed(d)'
  <2>1. Undisturbed(d) /\ UNCHANGED <<branch, pulls>>
    BY <1>4 DEF Mine
  <2>2. Tip' = Tip /\ OpenPulls' = OpenPulls /\ (Ahead <=> Ahead') /\ (SomebodysWork <=> SomebodysWork')
    BY <2>1, MainStays, PullsStay DEF Ahead, SomebodysWork
  <2>3. MyCommit(d)' = MyCommit(d)
    BY DEF Same, MyCommit
  <2>4. (Proposes(d) <=> Proposes(d)') /\ (Says(d) <=> Says(d)')
    BY <2>1, <2>2 DEF Same, Proposes, Says
  <2> QED BY <2>1, <2>2, <2>3, <2>4 DEF Same, Undisturbed
<1> QED BY <1>1, <1>2, <1>3, <1>4 DEF Mine

\* A command that writes nothing disturbs nobody.
LEMMA ReadingKeeps ==
  ASSUME IInv, NEW c \in Commands, UNCHANGED <<main, branch, pulls>>,
         \A d \in Commands \ {c} : Same(d) /\ (d \in calm' => d \in calm),
         Mine(c)', thrown' \subseteq overtaken'
  PROVE  Kept
<1>1. Tip' = Tip /\ OpenPulls' = OpenPulls /\ (Ahead <=> Ahead') /\ (SomebodysWork <=> SomebodysWork')
  BY MainStays, PullsStay DEF Ahead, SomebodysWork
<1>2. AddsARow' /\ OpenIsAhead'
  BY <1>1, IInvIsMine DEF AddsARow, OpenIsAhead
<1>3. \A d \in Commands \ {c} : Mine(d)'
  BY <1>1, IInvIsMine, OthersKeep
<1> QED BY <1>2, <1>3 DEF Kept

\* One that writes leaves nobody else calm.
LEMMA WritingKeeps ==
  ASSUME IInv, NEW c \in Commands, UNCHANGED main, AddsARow', OpenIsAhead',
         \A d \in Commands \ {c} : Same(d) /\ d \notin calm',
         SomebodysWork' => SomebodysWork,
         Mine(c)', thrown' \subseteq overtaken'
  PROVE  Kept
<1>3. \A d \in Commands \ {c} : Mine(d)'
  BY IInvIsMine, OthersKeep
<1> QED BY <1>3 DEF Kept

-----------------------------------------------------------------------------
(***************************************************************************)
(* The steps that read.                                                    *)
(***************************************************************************)

LEMMA ReadBaseKeeps == ASSUME IInv, NEW c \in Commands, ReadBase(c) PROVE Kept
<1> USE DEF ReadBase, Goto, github
<1>1. \A d \in Commands \ {c} : Same(d) /\ (d \in calm' => d \in calm)
  BY DEF IInv, TypeOK, Same
<1>2. pc'[c] = "file" /\ base'[c] = Tip /\ tries'[c] = tries[c] /\ thrown' = thrown
  BY DEF IInv, TypeOK
<1>3. Tip' = Tip
  BY MainStays
<1>4. Mine(c)'
  BY <1>2, <1>3, IInvIsMine
  DEF Mine, TriesLeft, OneSnapshot, Compares, Undisturbed, Reading, Unwritten, Compared
<1> QED BY <1>1, <1>4, ReadingKeeps DEF IInv

\* The file and its base are one commit's: what is appended is the row and
\* nothing else.
LEMMA ReadFileKeeps == ASSUME IInv, NEW c \in Commands, ReadFile(c) PROVE Kept
<1> USE DEF ReadFile, github, history
<1>1. PICK place \in {"registered", "branch"} :
        Goto(c, place) /\ (place = "branch" => main[base[c]] \cap Rows = {})
  OBVIOUS
<1>2. pc'[c] = place
  BY <1>1 DEF Goto, IInv, TypeOK
<1>3. \A d \in Commands \ {c} : Same(d) /\ (d \in calm' => d \in calm)
  BY <1>1 DEF Goto, IInv, TypeOK, Same
<1>4. content'[c] = main[base[c]] \cup {row[c]}
  BY DEF IInv, TypeOK
<1>5. Tip' = Tip
  BY MainStays
<1>6. Mine(c)'
  BY <1>1, <1>2, <1>4, <1>5, IInvIsMine
  DEF Mine, TriesLeft, OneSnapshot, Compares, Undisturbed, Reading, Unwritten, Compared
<1> QED BY <1>3, <1>6, ReadingKeeps DEF IInv

LEMMA ReadBranchKeeps == ASSUME IInv, NEW c \in Commands, ReadBranch(c) PROVE Kept
<1> USE DEF ReadBranch, github, history
<1>1. PICK place \in {"commit", "compare"} :
        Goto(c, place) /\ (place = "commit" <=> branch = None)
  OBVIOUS
<1>2. pc'[c] = place
  BY <1>1 DEF Goto, IInv, TypeOK
<1>3. \A d \in Commands \ {c} : Same(d) /\ (d \in calm' => d \in calm)
  BY <1>1 DEF Goto, IInv, TypeOK, Same
<1>4. seen'[c] = branch
  BY DEF IInv, TypeOK
<1>5. Tip' = Tip
  BY MainStays
<1>6. Mine(c)'
  BY <1>1, <1>2, <1>4, <1>5, IInvIsMine
  DEF Mine, TriesLeft, OneSnapshot, Compares, Undisturbed, Reading, Unwritten, Compared
<1> QED BY <1>3, <1>6, ReadingKeeps DEF IInv

\* After a look nobody's work is on the branch, and what came before the look
\* is not held against the command.
LEMMA CompareKeeps == ASSUME IInv, NEW c \in Commands, Compare(c) PROVE Kept
<1> USE DEF Compare, github, local
<1>1. PICK place \in {"commit", "not ours", "failed"} :
        Goto(c, place) /\ (place = "commit" => ~ SomebodysWork)
  OBVIOUS
<1>2. pc'[c] = place
  BY <1>1 DEF Goto, IInv, TypeOK
<1>3. \A d \in Commands \ {c} : Same(d) /\ (d \in calm' => d \in calm)
  BY <1>1 DEF Goto, IInv, TypeOK, Same
<1>4. Tip' = Tip /\ (SomebodysWork <=> SomebodysWork')
  BY MainStays DEF SomebodysWork, Ahead
<1>5. c \notin thrown
  BY IInvIsMine DEF Mine, Compares, Unwritten
<1>6. Mine(c)'
  BY <1>1, <1>2, <1>4, <1>5, IInvIsMine
  DEF Mine, TriesLeft, OneSnapshot, Compares, Undisturbed, Reading, Unwritten, Compared
<1>7. thrown' \subseteq overtaken'
  BY <1>5 DEF IInv
<1> QED BY <1>3, <1>6, <1>7, ReadingKeeps

\* A branch left alone is ahead, as a branch on the newest commit cannot have
\* been merged, and it is the command's own.
LEMMA CommitKeeps == ASSUME IInv, NEW c \in Commands, Commit(c) PROVE Kept
<1> USE DEF Commit, github, local, history
<1>1. PICK place \in {"pull", "move"} : Goto(c, place) /\ (place = "pull" => Holds(c))
  OBVIOUS
<1>2. pc'[c] = place
  BY <1>1 DEF Goto, IInv, TypeOK
<1>3. \A d \in Commands \ {c} : Same(d) /\ (d \in calm' => d \in calm)
  BY <1>1 DEF Goto, IInv, TypeOK, Same
<1>4. Tip' = Tip /\ (SomebodysWork <=> SomebodysWork') /\ (Ahead <=> Ahead')
  BY MainStays DEF SomebodysWork, Ahead
<1>5. ASSUME c \in calm, place = "pull" PROVE Proposes(c)
  <2>1. seen[c] = branch /\ base[c] = Tip /\ content[c] = main[base[c]] \cup {row[c]}
    BY <1>5, IInvIsMine DEF Mine, Undisturbed, OneSnapshot, Reading
  <2>2. branch # None /\ branch.base = Tip /\ branch.file = main[Tip] \cup {row[c]}
    BY <1>1, <1>5, <2>1 DEF Holds
  <2>3. branch \in Branch /\ Tip \in Nat
    BY <2>2 DEF IInv, TypeOK, Tip
  <2>4. ~ branch.merged
    BY <2>2, <2>3 DEF IInv, AddsARow
  <2> QED BY <2>2, <2>4 DEF Proposes, Ahead
<1>6. Proposes(c)' <=> Proposes(c)
  BY <1>4 DEF Proposes
<1>7. Mine(c)'
  BY <1>1, <1>2, <1>4, <1>5, <1>6, IInvIsMine
  DEF Mine, TriesLeft, OneSnapshot, Compares, Undisturbed, Reading, Unwritten, Compared
<1> QED BY <1>3, <1>7, ReadingKeeps DEF IInv

LEMMA CutShortKeeps == ASSUME IInv, NEW c \in Commands, CutShort(c) PROVE Kept
<1> USE DEF CutShort, github, local, history
<1>1. pc'[c] = "failed"
  BY DEF Goto, IInv, TypeOK
<1>2. \A d \in Commands \ {c} : Same(d) /\ (d \in calm' => d \in calm)
  BY DEF Goto, IInv, TypeOK, Same
<1>3. Tip' = Tip
  BY MainStays
<1>4. Mine(c)'
  BY <1>1, <1>3, IInvIsMine
  DEF Mine, TriesLeft, OneSnapshot, Compares, Undisturbed, Reading, Unwritten, Compared
<1> QED BY <1>2, <1>4, ReadingKeeps DEF IInv

LEMMA ReadPullKeeps == ASSUME IInv, NEW c \in Commands, ReadPull(c) PROVE Kept
<1>1. UNCHANGED <<main, branch, pulls, row, base, content, seen, calm, overtaken, thrown>>
  BY DEF ReadPull, github, history
<1>2. \E place \in {"post", "done", "patch"}, n \in Nat :
        /\ Goto(c, place) /\ known' = [known EXCEPT ![c] = n]
        /\ place = "post" => OpenPulls = {}
        /\ place = "patch" => n \in OpenPulls
        /\ place = "done" => Says(c)
  <2>1. OpenPulls \subseteq Nat
    BY DEF OpenPulls
  <2> QED BY <2>1 DEF ReadPull, Says
<1>3. PICK place \in {"post", "done", "patch"}, n \in Nat :
        /\ Goto(c, place) /\ known' = [known EXCEPT ![c] = n]
        /\ place = "post" => OpenPulls = {}
        /\ place = "patch" => n \in OpenPulls
        /\ place = "done" => Says(c)
  BY <1>2
<1>4. pc'[c] = place /\ known'[c] = n /\ tries'[c] = 0 /\ pc[c] = "pull"
  BY <1>3 DEF ReadPull, Goto, IInv, TypeOK
<1>5. \A d \in Commands \ {c} : Same(d) /\ (d \in calm' => d \in calm)
  BY <1>1, <1>3 DEF ReadPull, Goto, IInv, TypeOK, Same
<1>6. Tip' = Tip /\ OpenPulls' = OpenPulls /\ (Ahead <=> Ahead')
  BY <1>1, MainStays, PullsStay DEF Ahead
<1>7. (Proposes(c)' <=> Proposes(c)) /\ (Says(c)' <=> Says(c))
  BY <1>1, <1>6 DEF Proposes, Says
<1>8. Mine(c)'
  BY <1>1, <1>3, <1>4, <1>6, <1>7, IInvIsMine
  DEF Mine, TriesLeft, OneSnapshot, Compares, Undisturbed, Reading, Unwritten, Compared
<1> QED BY <1>1, <1>5, <1>8, ReadingKeeps DEF IInv

-----------------------------------------------------------------------------
(***************************************************************************)
(* The steps that write.                                                   *)
(***************************************************************************)

\* Moved by force, the branch is the row on the base; somebody's work that is
\* lost came after the look.
LEMMA PushWrites ==
  ASSUME IInv, NEW c \in Commands, pc[c] = "move", Push(c)
  PROVE  /\ branch' = MyCommit(c) /\ UNCHANGED <<main, pulls, overtaken>>
         /\ AddsARow' /\ OpenIsAhead' /\ ~ SomebodysWork'
         /\ thrown' \subseteq overtaken'
         /\ \A d \in Commands \ {c} : d \notin calm' /\ (d \in thrown <=> d \in thrown')
         /\ c \in calm' => c \in calm
<1> USE DEF Push
<1>1. /\ branch' # None /\ branch'.base = base[c] /\ branch'.file = content[c]
      /\ ~ branch'.edited /\ ~ branch'.merged
  BY CommitIsABranch DEF IInv, MyCommit
<1>2. /\ main[base[c]] \cap Rows = {} /\ content[c] = main[base[c]] \cup {row[c]}
      /\ base[c] <= Tip /\ row[c] \in Rows
  BY DEF IInv, OneSnapshot, Reading, TypeOK, Tip
<1>3. AddsARow' /\ ~ SomebodysWork' /\ Ahead'
  BY <1>1, <1>2, MainStays DEF AddsARow, SomebodysWork, Ahead
<1>4. SomebodysWork => c \in overtaken
  BY DEF IInv, Compares, Compared, SomebodysWork, Ahead
<1> QED BY <1>3, <1>4 DEF IInv, OpenIsAhead

\* What a command that was left alone put on the branch is its row on the
\* default branch as it is.
LEMMA MyCommitProposes ==
  ASSUME IInv, NEW c \in Commands, pc[c] \in {"move", "moved?"}, c \in calm,
         branch' = MyCommit(c), UNCHANGED <<main, row>>
  PROVE  Proposes(c)'
<1>1. base[c] = Tip /\ content[c] = main[base[c]] \cup {row[c]}
  BY DEF IInv, Undisturbed, OneSnapshot, Reading
<1>2. Tip' = Tip
  BY MainStays
<1>3. branch' # None
  BY CommitIsABranch DEF IInv
<1> QED BY <1>1, <1>2, <1>3 DEF Proposes, Ahead, MyCommit

LEMMA MoveKeeps == ASSUME IInv, NEW c \in Commands, Move(c) PROVE Kept
<1> USE DEF Move, local
<1>1. pc[c] = "move" /\ Push(c) /\ branch' = MyCommit(c)
  BY PushWrites
<1>2. MyCommit(c)' = MyCommit(c)
  BY DEF MyCommit
<1>3. Goto(c, "pull")
  BY <1>1
<1>4. pc'[c] = "pull" /\ tries'[c] = 0
  BY <1>3 DEF Goto, IInv, TypeOK
<1>5. \A d \in Commands \ {c} : Same(d) /\ d \notin calm'
  BY <1>1, <1>3, PushWrites DEF Goto, IInv, TypeOK, Same
<1>6. Tip' = Tip /\ (c \in calm' => c \in calm)
  BY <1>1, PushWrites, MainStays
<1>7. c \in calm => Proposes(c)'
  BY <1>1, PushWrites, MyCommitProposes
<1>8. Mine(c)'
  BY <1>1, <1>4, <1>6, <1>7, PushWrites, IInvIsMine
  DEF Mine, TriesLeft, OneSnapshot, Compares, Undisturbed, Reading, Unwritten, Compared
<1> QED BY <1>1, <1>5, <1>8, PushWrites, WritingKeeps

\* A command left alone meets a conflict only with its own first try.
LEMMA MoveRefusedKeeps == ASSUME IInv, NEW c \in Commands, MoveRefused(c) PROVE Kept
<1> USE DEF MoveRefused, local, NoWrite, github, history
<1>1. PICK place \in {"moved?", "refused"} : Goto(c, place) /\ (place = "moved?" <=> seen[c] = None)
  OBVIOUS
<1>2. pc'[c] = place
  BY <1>1 DEF Goto, IInv, TypeOK
<1>3. \A d \in Commands \ {c} : Same(d) /\ (d \in calm' => d \in calm)
  BY <1>1 DEF Goto, IInv, TypeOK, Same
<1>4. ASSUME c \in calm PROVE place = "moved?" /\ branch = MyCommit(c)
  BY <1>1, <1>4, CommitIsABranch DEF IInv, Undisturbed
<1>5. Tip' = Tip /\ MyCommit(c)' = MyCommit(c)
  BY MainStays DEF MyCommit
<1>6. Mine(c)'
  BY <1>2, <1>4, <1>5, IInvIsMine
  DEF Mine, TriesLeft, OneSnapshot, Compares, Undisturbed, Reading, Unwritten, Compared
<1> QED BY <1>3, <1>6, ReadingKeeps DEF IInv

LEMMA MoveLostKeeps == ASSUME IInv, NEW c \in Commands, MoveLost(c) PROVE Kept
<1> USE DEF MoveLost, local
<1>1. PICK places \in {{"failed"}, {"moved?", "failed"}} :
        /\ SentAgain(c) \/ GivenUp(c, places)
        /\ "moved?" \in places => seen[c] = None
  OBVIOUS
<1>2. places \in SUBSET Places
  BY DEF Places, Ended, Looking
<1>3. /\ \A d \in Commands \ {c} : tries'[d] = tries[d] /\ pc'[d] = pc[d]
      /\ \/ pc'[c] = "move" /\ tries'[c] = 1
         \/ pc'[c] = "moved?" /\ tries'[c] = 2 /\ seen[c] = None
         \/ pc'[c] = "failed" /\ tries'[c] = 2
  BY <1>1, <1>2, SentOrGivenUp DEF IInv
<1>4. MyCommit(c)' = MyCommit(c)
  BY DEF MyCommit
<1>5. CASE Push(c)
  <2>1. \A d \in Commands \ {c} : Same(d) /\ d \notin calm'
    BY <1>3, <1>5, PushWrites DEF Same
  <2>2. branch' = MyCommit(c) /\ Tip' = Tip /\ ~ SomebodysWork' /\ (c \in calm' => c \in calm)
    BY <1>5, PushWrites, MainStays
  <2>3. Mine(c)'
    BY <1>3, <1>4, <1>5, <2>2, PushWrites, IInvIsMine
    DEF Mine, TriesLeft, OneSnapshot, Compares, Undisturbed, Reading, Unwritten, Compared
  <2> QED BY <1>5, <2>1, <2>3, PushWrites, WritingKeeps
<1>6. CASE NoWrite
  <2> USE DEF NoWrite, github, history
  <2>1. \A d \in Commands \ {c} : Same(d) /\ (d \in calm' => d \in calm)
    BY <1>3, <1>6 DEF Same
  <2>2. Tip' = Tip /\ (SomebodysWork <=> SomebodysWork')
    BY <1>6, MainStays DEF SomebodysWork, Ahead
  <2>3. Mine(c)'
    BY <1>3, <1>4, <1>6, <2>2, IInvIsMine
    DEF Mine, TriesLeft, OneSnapshot, Compares, Undisturbed, Reading, Unwritten, Compared
  <2> QED BY <1>6, <2>1, <2>3, ReadingKeeps DEF IInv
<1> QED BY <1>5, <1>6

\* A command left alone that looks finds its own commit, or was given up on and
\* finds nothing.
LEMMA LookMovedKeeps == ASSUME IInv, NEW c \in Commands, LookMoved(c) PROVE Kept
<1> USE DEF LookMoved, local, github, history
<1>1. PICK place \in {"pull", "failed", "refused"} :
        /\ Goto(c, place)
        /\ place = "refused" => tries[c] # 2 /\ ~ (branch # None /\ [branch EXCEPT !.merged = FALSE] = MyCommit(c))
        /\ place = "pull" => branch # None
  BY DEF Unforgiven
<1>2. pc'[c] = place
  BY <1>1 DEF Goto, IInv, TypeOK
<1>3. \A d \in Commands \ {c} : Same(d) /\ (d \in calm' => d \in calm)
  BY <1>1 DEF Goto, IInv, TypeOK, Same
<1>4. branch = MyCommit(c) => branch # None /\ [branch EXCEPT !.merged = FALSE] = MyCommit(c)
  <2>1. [MyCommit(c) EXCEPT !.merged = FALSE] = MyCommit(c)
    <3>1. \A b \in Branch : ~ b.merged => [b EXCEPT !.merged = FALSE] = b
      BY DEF Branch
    <3>2. ~ MyCommit(c).merged
      BY DEF MyCommit
    <3> QED BY <3>1, <3>2, CommitIsABranch DEF IInv
  <2>2. branch = MyCommit(c) => [branch EXCEPT !.merged = FALSE] = MyCommit(c)
    BY <2>1, Zenon
  <2> QED BY <2>2, CommitIsABranch DEF IInv
<1>5. ASSUME c \in calm PROVE place # "refused" /\ (place = "pull" => Proposes(c)')
  <2>1. branch = MyCommit(c) \/ (tries[c] = 2 /\ branch = None)
    BY <1>5 DEF IInv, Undisturbed
  <2> QED BY <1>1, <1>4, <1>5, <2>1, MyCommitProposes
<1>6. Tip' = Tip
  BY MainStays
<1>7. Mine(c)'
  BY <1>2, <1>5, <1>6, IInvIsMine
  DEF Mine, TriesLeft, OneSnapshot, Compares, Undisturbed, Reading, Unwritten, Compared
<1> QED BY <1>3, <1>7, ReadingKeeps DEF IInv

\* A new text is the command's, and disturbs everybody else.
LEMMA RetextWrites ==
  ASSUME IInv, NEW c \in Commands, pc[c] = "patch", Retext(c), UNCHANGED <<row, known>>
  PROVE  /\ UNCHANGED <<main, branch, overtaken, thrown>> /\ AddsARow' /\ OpenIsAhead'
         /\ Tip' = Tip /\ (SomebodysWork <=> SomebodysWork') /\ OpenPulls' = OpenPulls
         /\ \A d \in Commands \ {c} : d \notin calm'
         /\ c \in calm' => c \in calm
         /\ c \in calm => Proposes(c)' /\ Says(c)'
<1> USE DEF Retext
<1>1. known[c] > 0 /\ TypeOK
  BY DEF IInv, TypeOK
<1>2. OpenPulls' = OpenPulls /\ pulls'[known[c]].text = row[c]
  BY <1>1, TextChanged
<1>3. Tip' = Tip /\ (SomebodysWork <=> SomebodysWork') /\ (Ahead <=> Ahead')
  BY MainStays DEF SomebodysWork, Ahead
<1>4. AddsARow' /\ OpenIsAhead'
  BY <1>2, <1>3 DEF IInv, AddsARow, OpenIsAhead
<1>5. c \in calm => Proposes(c)' /\ Says(c)'
  BY <1>2, <1>3 DEF IInv, Undisturbed, Proposes, Says
<1> QED BY <1>2, <1>3, <1>4, <1>5

LEMMA PatchKeeps == ASSUME IInv, NEW c \in Commands, Patch(c) PROVE Kept
<1> USE DEF Patch, local
<1>1. pc[c] = "patch" /\ pc'[c] = "done" /\ \A d \in Commands \ {c} : pc'[d] = pc[d]
  BY DEF Goto, IInv, TypeOK
<1>2. \A d \in Commands \ {c} : Same(d) /\ d \notin calm'
  BY <1>1, RetextWrites DEF Same
<1>3. Mine(c)'
  BY <1>1, RetextWrites, IInvIsMine
  DEF Mine, TriesLeft, OneSnapshot, Compares, Undisturbed, Reading, Unwritten, Compared
<1> QED BY <1>1, <1>2, <1>3, RetextWrites, WritingKeeps DEF IInv

LEMMA PatchLostKeeps == ASSUME IInv, NEW c \in Commands, PatchLost(c) PROVE Kept
<1> USE DEF PatchLost, local
<1>1. {"failed"} \in SUBSET Places
  BY DEF Places, Ended
<1>2. /\ \A d \in Commands \ {c} : tries'[d] = tries[d] /\ pc'[d] = pc[d]
      /\ \/ pc'[c] = "patch" /\ tries'[c] = 1
         \/ pc'[c] = "failed" /\ tries'[c] = 2
  BY <1>1, SentOrGivenUp DEF IInv
<1>4. CASE Retext(c)
  <2>1. \A d \in Commands \ {c} : Same(d) /\ d \notin calm'
    BY <1>2, <1>4, RetextWrites DEF Same
  <2>2. Mine(c)'
    BY <1>2, <1>4, RetextWrites, IInvIsMine
    DEF Mine, TriesLeft, OneSnapshot, Compares, Undisturbed, Reading, Unwritten, Compared
  <2> QED BY <1>4, <2>1, <2>2, RetextWrites, WritingKeeps DEF IInv
<1>5. CASE NoWrite
  <2> USE DEF NoWrite, github, history
  <2>1. \A d \in Commands \ {c} : Same(d) /\ (d \in calm' => d \in calm)
    BY <1>2, <1>5 DEF Same
  <2>2. Tip' = Tip /\ OpenPulls' = OpenPulls /\ (Ahead <=> Ahead')
    BY <1>5, MainStays, PullsStay DEF Ahead
  <2>3. Proposes(c)' <=> Proposes(c)
    BY <1>5, <2>2 DEF Proposes
  <2>4. Mine(c)'
    BY <1>2, <1>5, <2>2, <2>3, IInvIsMine
    DEF Mine, TriesLeft, OneSnapshot, Compares, Undisturbed, Reading, Unwritten, Compared
  <2> QED BY <1>5, <2>1, <2>4, ReadingKeeps DEF IInv
<1> QED BY <1>4, <1>5

\* What is opened is the command's, from a branch that is ahead.
LEMMA OpenWrites ==
  ASSUME IInv, NEW c \in Commands, pc[c] = "post", Open(c), UNCHANGED row
  PROVE  /\ UNCHANGED <<main, branch, overtaken, thrown>> /\ AddsARow' /\ OpenIsAhead'
         /\ Tip' = Tip /\ (SomebodysWork <=> SomebodysWork')
         /\ \A d \in Commands \ {c} : d \notin calm'
         /\ c \in calm' => c \in calm
         /\ c \in calm => Proposes(c)'
         /\ Says(c)'
<1> USE DEF Open
<1>1. pulls \in Seq(Pull) /\ row[c] \in Rows
  BY DEF IInv, TypeOK
<1>2. OpenPulls' = {Len(pulls) + 1} /\ pulls'[Len(pulls) + 1].text = row[c]
  BY <1>1, OneOpened
<1>3. Tip' = Tip /\ (SomebodysWork <=> SomebodysWork') /\ (Ahead <=> Ahead')
  BY MainStays DEF SomebodysWork, Ahead
<1>4. AddsARow' /\ OpenIsAhead'
  BY <1>3 DEF IInv, AddsARow, OpenIsAhead
<1>5. c \in calm => Proposes(c)'
  BY <1>3 DEF IInv, Undisturbed, Proposes
<1>6. Says(c)'
  BY <1>2 DEF Says
<1> QED BY <1>3, <1>4, <1>5, <1>6

LEMMA PostKeeps == ASSUME IInv, NEW c \in Commands, Post(c) PROVE Kept
<1> USE DEF Post, local
<1>1. pc[c] = "post" /\ pc'[c] = "done" /\ \A d \in Commands \ {c} : pc'[d] = pc[d]
  BY DEF Goto, IInv, TypeOK
<1>2. \A d \in Commands \ {c} : Same(d) /\ d \notin calm'
  BY <1>1, OpenWrites DEF Same
<1>3. Mine(c)'
  BY <1>1, OpenWrites, IInvIsMine
  DEF Mine, TriesLeft, OneSnapshot, Compares, Undisturbed, Reading, Unwritten, Compared
<1> QED BY <1>1, <1>2, <1>3, OpenWrites, WritingKeeps DEF IInv

LEMMA PostRefusedKeeps == ASSUME IInv, NEW c \in Commands, PostRefused(c) PROVE Kept
<1> USE DEF PostRefused, local, NoWrite, github, history
<1>1. pc'[c] = "opened?" /\ pc[c] = "post"
  BY DEF Goto, IInv, TypeOK
<1>2. \A d \in Commands \ {c} : Same(d) /\ (d \in calm' => d \in calm)
  BY DEF Goto, IInv, TypeOK, Same
<1>3. Tip' = Tip /\ OpenPulls' = OpenPulls /\ (Ahead <=> Ahead')
  BY MainStays, PullsStay DEF Ahead
<1>4. (Proposes(c)' <=> Proposes(c)) /\ (Says(c)' <=> Says(c))
  BY <1>3 DEF Proposes, Says
<1>5. c \in calm => Proposes(c) /\ Says(c)
  BY <1>1 DEF IInv, Undisturbed, Proposes
<1>6. Mine(c)'
  BY <1>1, <1>3, <1>4, <1>5, IInvIsMine
  DEF Mine, TriesLeft, OneSnapshot, Compares, Undisturbed, Reading, Unwritten, Compared
<1> QED BY <1>2, <1>6, ReadingKeeps DEF IInv

\* A command left alone that looks finds its own pull request, or was given up
\* on and finds none.
LEMMA LookOpenedKeeps == ASSUME IInv, NEW c \in Commands, LookOpened(c) PROVE Kept
<1> USE DEF LookOpened, local, github, history
<1>1. PICK place \in {"done", "failed", "refused"} :
        /\ Goto(c, place)
        /\ place = "done" <=> OpenPulls # {}
        /\ place = "refused" => tries[c] # 2
  BY DEF Unforgiven
<1>2. pc'[c] = place /\ pc[c] = "opened?"
  BY <1>1 DEF Goto, IInv, TypeOK
<1>3. \A d \in Commands \ {c} : Same(d) /\ (d \in calm' => d \in calm)
  BY <1>1 DEF Goto, IInv, TypeOK, Same
<1>4. Tip' = Tip /\ OpenPulls' = OpenPulls /\ (Ahead <=> Ahead')
  BY MainStays, PullsStay DEF Ahead
<1>5. (Proposes(c)' <=> Proposes(c)) /\ (Says(c)' <=> Says(c))
  BY <1>4 DEF Proposes, Says
<1>6. c \in calm => /\ Proposes(c) /\ place # "refused"
                    /\ place = "done" => Says(c)
  BY <1>1, <1>2 DEF IInv, Undisturbed, Says
<1>7. Mine(c)'
  BY <1>2, <1>4, <1>5, <1>6, IInvIsMine
  DEF Mine, TriesLeft, OneSnapshot, Compares, Undisturbed, Reading, Unwritten, Compared
<1> QED BY <1>3, <1>7, ReadingKeeps DEF IInv

LEMMA PostLostKeeps == ASSUME IInv, NEW c \in Commands, PostLost(c) PROVE Kept
<1> USE DEF PostLost, local
<1>1. {"opened?", "failed"} \in SUBSET Places
  BY DEF Places, Ended, Looking
<1>2. /\ \A d \in Commands \ {c} : tries'[d] = tries[d] /\ pc'[d] = pc[d]
      /\ \/ pc'[c] = "post" /\ tries[c] = 0 /\ tries'[c] = 1
         \/ pc'[c] \in {"opened?", "failed"} /\ tries'[c] = 2
  BY <1>1, SentOrGivenUp DEF IInv
<1>4. CASE Open(c)
  <2>1. \A d \in Commands \ {c} : Same(d) /\ d \notin calm'
    BY <1>2, <1>4, OpenWrites DEF Same
  <2>2. Mine(c)'
    BY <1>2, <1>4, OpenWrites, IInvIsMine
    DEF Mine, TriesLeft, OneSnapshot, Compares, Undisturbed, Reading, Unwritten, Compared
  <2> QED BY <1>4, <2>1, <2>2, OpenWrites, WritingKeeps DEF IInv
<1>5. CASE NoWrite
  <2> USE DEF NoWrite, github, history
  <2>1. \A d \in Commands \ {c} : Same(d) /\ (d \in calm' => d \in calm)
    BY <1>2, <1>5 DEF Same
  <2>2. Tip' = Tip /\ OpenPulls' = OpenPulls /\ (Ahead <=> Ahead')
    BY <1>5, MainStays, PullsStay DEF Ahead
  <2>3. (Proposes(c)' <=> Proposes(c)) /\ (Says(c)' <=> Says(c))
    BY <1>5, <2>2 DEF Proposes, Says
  <2>4. Mine(c)'
    BY <1>2, <1>5, <2>2, <2>3, IInvIsMine
    DEF Mine, TriesLeft, OneSnapshot, Compares, Undisturbed, Reading, Unwritten, Compared
  <2> QED BY <1>5, <2>1, <2>4, ReadingKeeps DEF IInv
<1> QED BY <1>4, <1>5

-----------------------------------------------------------------------------
(***************************************************************************)
(* What people do.                                                         *)
(***************************************************************************)

\* Nobody is calm after it, and what a command holds in memory stays: only who
\* was overtaken is at stake.
LEMMA HandsLeave ==
  ASSUME IInv, Hand, \A n \in 1..Tip : main'[n] = main[n],
         overtaken \subseteq overtaken',
         \A d \in Commands : pc[d] \in Compared /\ seen[d] # None /\ SomebodysWork' => d \in overtaken'
  PROVE  (\A d \in Commands : Mine(d)') /\ thrown' \subseteq overtaken'
<1> USE DEF Hand, local
<1>1. ASSUME NEW d \in Commands PROVE Mine(d)'
  <2>1. base[d] \in 1..Tip
    BY DEF IInv, TypeOK
  <2>2. OneSnapshot(d)'
    BY <2>1 DEF IInv, OneSnapshot
  <2>3. TriesLeft(d)' /\ Compares(d)'
    BY DEF IInv, TriesLeft, Compares
  <2> QED BY <2>2, <2>3 DEF Mine
<1> QED BY <1>1 DEF IInv

LEMMA HandsKeep == ASSUME IInv, Hands PROVE Kept
<1>a. /\ main \in Seq(File) /\ Tip \in Nat /\ Tip > 0 /\ \A n \in 1..Tip : main[n] \in File
      /\ branch # None => branch.base \in 1..Tip /\ branch \in Branch
  BY DEF IInv, TypeOK, Tip, AddsARow, Branch
<1>b. \A d \in Commands : pc[d] \in Compared /\ seen[d] # None /\ SomebodysWork => d \in overtaken
  BY DEF IInv, Compares
<1>1. CASE MainMoves
  <2>1. PICK other \in Others : main' = Append(main, main[Tip] \cup {other})
    BY <1>1 DEF MainMoves
  <2>2. main[Tip] \cup {other} \in File
    BY <1>a DEF File
  <2>3. Tip' = Tip + 1 /\ \A n \in 1..Tip : main'[n] = main[n]
    BY <1>a, <2>1, <2>2, OneCommitted
  <2>4. (SomebodysWork <=> SomebodysWork') /\ (Ahead <=> Ahead') /\ OpenPulls' = OpenPulls
    BY <1>1, PullsStay DEF MainMoves, SomebodysWork, Ahead
  <2>5. AddsARow'
    <3>1. branch' = branch
      BY <1>1 DEF MainMoves
    <3>2. branch # None => main'[branch.base] = main[branch.base] /\ branch.base \in 1..Tip
      BY <1>a, <2>3
    <3> QED BY <1>a, <2>3, <3>1, <3>2 DEF IInv, AddsARow
  <2>6. OpenIsAhead'
    BY <2>4 DEF IInv, OpenIsAhead
  <2> QED BY <1>1, <1>b, <2>3, <2>4, <2>5, <2>6, HandsLeave DEF MainMoves, Kept
<1>2. CASE EditBranch
  <2>1. PICK fix \in Rows :
          branch' = [branch EXCEPT !.file = (branch.file \ Rows) \cup {fix}, !.head = "person",
                                   !.edited = TRUE, !.merged = FALSE]
    BY <1>2 DEF EditBranch
  <2>2. /\ branch' # None /\ branch'.base = branch.base /\ fix \in branch'.file
        /\ branch'.edited /\ ~ branch'.merged
    <3>1. branch \in Branch
      BY <1>2, <1>a DEF EditBranch
    <3>2. branch' \in Branch
      BY <2>1, <3>1 DEF Branch, File
    <3> QED BY <2>1, <3>1, <3>2, RegisterRowAssumption DEF Branch
  <2>3. Tip' = Tip /\ OpenPulls' = OpenPulls /\ UNCHANGED main
    BY <1>2, MainStays, PullsStay DEF EditBranch
  <2>4. AddsARow' /\ OpenIsAhead'
    BY <1>2, <2>2, <2>3 DEF IInv, EditBranch, AddsARow, OpenIsAhead, Ahead
  <2> QED BY <1>2, <2>3, <2>4, HandsLeave DEF EditBranch, Kept
<1>3. CASE UpdateBranch
  <2>1. branch \in Branch /\ branch # None /\ ~ branch.merged /\ branch.base \in 1..Tip
    BY <1>3, <1>a DEF UpdateBranch, Ahead
  <2>2. /\ branch'.base = Tip /\ branch'.file = main[Tip] \cup (branch.file \ main[branch.base])
        /\ branch'.edited = branch.edited /\ branch'.merged = branch.merged /\ branch' \in Branch
    <3>1. PICK file : file = main[Tip] \cup (branch.file \ main[branch.base])
      OBVIOUS
    <3>2. file \in File
      BY <1>a, <2>1, <3>1 DEF File, Branch
    <3>3. PICK tip : tip = Tip
      OBVIOUS
    <3>4. branch' = [branch EXCEPT !.base = tip, !.head = "merge", !.file = file]
      BY <1>3, <3>1, <3>3 DEF UpdateBranch
    <3>5. tip \in Nat \ {0}
      BY <1>a, <3>3
    <3>6. branch' \in Branch /\ branch'.base = tip /\ branch'.file = file
          /\ branch'.edited = branch.edited /\ branch'.merged = branch.merged
      BY <2>1, <3>2, <3>4, <3>5 DEF Branch
    <3> QED BY <3>1, <3>3, <3>6
  <2>3. branch' # None
    BY <2>2, RegisterRowAssumption
  <2>4. Tip' = Tip /\ OpenPulls' = OpenPulls /\ UNCHANGED <<main, overtaken>> /\ main[Tip] \cap Rows = {}
    BY <1>3, MainStays, PullsStay DEF UpdateBranch
  <2>5. (SomebodysWork <=> SomebodysWork') /\ Ahead'
    BY <2>1, <2>2, <2>3 DEF SomebodysWork, Ahead
  <2>6. /\ main[branch.base] \cap Rows = {} /\ branch.file \cap Rows # {}
        /\ ~ branch.edited => \E r \in Rows : branch.file = main[branch.base] \cup {r}
    BY <2>1 DEF IInv, AddsARow
  <2>7. branch'.file \cap Rows # {}
    BY <2>2, <2>6
  <2>8. ~ branch'.edited => \E r \in Rows : branch'.file = main[Tip] \cup {r}
    <3>1. ASSUME NEW r \in Rows, branch.file = main[branch.base] \cup {r}
          PROVE  branch'.file = main[Tip] \cup {r}
      BY <2>2, <2>6, <3>1
    <3> QED BY <2>2, <2>6, <3>1
  <2>9. AddsARow' /\ OpenIsAhead'
    BY <1>a, <2>1, <2>2, <2>4, <2>5, <2>7, <2>8 DEF AddsARow, OpenIsAhead
  <2> QED BY <1>3, <1>b, <2>4, <2>5, <2>9, HandsLeave DEF UpdateBranch, Kept
<1>4. pulls' = [n \in DOMAIN pulls |-> [pulls[n] EXCEPT !.open = FALSE]] => OpenPulls' = {}
  BY AllClosed DEF IInv, TypeOK
<1>5. CASE Merge
  <2>1. branch \in Branch /\ branch # None /\ ~ branch.merged /\ branch.base \in 1..Tip
    BY <1>5, <1>a DEF IInv, Merge, OpenIsAhead, Ahead
  <2>2. /\ branch'.base = branch.base /\ branch'.file = branch.file
        /\ branch'.edited = branch.edited /\ branch'.merged
    BY <1>5, <2>1 DEF Merge, Branch
  <2>3. main[Tip] \cup (branch.file \ main[branch.base]) \in File
    BY <1>a, <2>1 DEF Branch, File
  <2>4. Tip' = Tip + 1 /\ \A n \in 1..Tip : main'[n] = main[n]
    BY <1>5, <1>a, <2>3, OneCommitted DEF Merge
  <2>5. ~ SomebodysWork'
    BY <2>2 DEF SomebodysWork, Ahead
  <2>6. AddsARow'
    <3>1. main'[branch.base] = main[branch.base] /\ branch.base \in 1..Tip
      BY <2>1, <2>4
    <3>2. /\ main[branch.base] \cap Rows = {} /\ branch.file \cap Rows # {}
          /\ ~ branch.edited => \E r \in Rows : branch.file = main[branch.base] \cup {r}
      BY <2>1 DEF IInv, AddsARow
    <3>3. branch.base <= Tip' /\ branch.base < Tip'
      BY <1>a, <2>1, <2>4
    <3> QED BY <2>2, <3>1, <3>2, <3>3 DEF AddsARow
  <2>7. OpenIsAhead'
    BY <1>4, <1>5 DEF Merge, OpenIsAhead
  <2> QED BY <1>5, <2>4, <2>5, <2>6, <2>7, HandsLeave DEF Merge, Kept
<1>6. CASE DeleteBranch
  <2>1. branch' = None /\ OpenPulls' = {} /\ UNCHANGED <<main, overtaken>>
    BY <1>4, <1>6 DEF DeleteBranch
  <2>2. AddsARow' /\ OpenIsAhead' /\ ~ SomebodysWork'
    BY <2>1 DEF AddsARow, OpenIsAhead, SomebodysWork, Ahead
  <2> QED BY <1>6, <2>1, <2>2, HandsLeave DEF DeleteBranch, Kept
<1>7. CASE Close
  <2>1. OpenPulls' = {} /\ UNCHANGED <<main, branch, overtaken>> /\ Tip' = Tip
    BY <1>4, <1>7, MainStays DEF Close
  <2>2. AddsARow' /\ OpenIsAhead' /\ (SomebodysWork <=> SomebodysWork')
    BY <2>1 DEF IInv, AddsARow, OpenIsAhead, SomebodysWork, Ahead
  <2> QED BY <1>7, <1>b, <2>1, <2>2, HandsLeave DEF Close, Kept
<1> QED BY <1>1, <1>2, <1>3, <1>5, <1>6, <1>7 DEF Hands

LEMMA NothingHappens == ASSUME IInv, UNCHANGED vars PROVE Kept
<1>1. UNCHANGED <<main, branch, pulls, pc, row, base, content, seen, known, tries, calm, overtaken, thrown>>
  BY DEF vars, github, local, history
<1>2. \A d \in Commands : Same(d) /\ (d \in calm' => d \in calm)
  BY <1>1 DEF Same
<1>3. Tip' = Tip /\ OpenPulls' = OpenPulls /\ (Ahead <=> Ahead') /\ (SomebodysWork <=> SomebodysWork')
  BY <1>1, MainStays, PullsStay DEF Ahead, SomebodysWork
<1>4. AddsARow' /\ OpenIsAhead'
  BY <1>1, <1>3 DEF IInv, AddsARow, OpenIsAhead
<1>5. \A d \in Commands : Mine(d)'
  BY <1>1, <1>2, <1>3, IInvIsMine, OthersKeep
<1> QED BY <1>1, <1>4, <1>5 DEF IInv, Kept

-----------------------------------------------------------------------------
(***************************************************************************)
(* The theorems.                                                           *)
(***************************************************************************)

LEMMA Begins == StartsInOrder /\ Init => IInv
<1> SUFFICES ASSUME StartsInOrder, Init PROVE IInv
  OBVIOUS
<1>1. PICK start \in StartStates : main = start.main /\ branch = start.branch /\ pulls = start.pulls
  BY DEF Init
<1>2. main \in Seq(File) /\ main # << >> /\ branch \in Branch \cup {None} /\ pulls \in Seq(Pull)
  BY <1>1, RegisterRowAssumption
<1>3. Tip \in Nat /\ Tip > 0
  BY <1>2 DEF Tip
<1>4. AddsARow
  <2> SUFFICES ASSUME branch # None PROVE AddsARow
    BY DEF AddsARow
  <2>1. /\ branch.base <= Tip /\ main[branch.base] \cap Rows = {}
        /\ branch.edited => branch.file \cap Rows # {}
        /\ ~ branch.edited => \E r \in Rows : branch.file = main[branch.base] \cup {r}
        /\ branch.merged => branch.base < Tip
    BY <1>1 DEF StartsInOrder, Tip
  <2> QED BY <2>1 DEF AddsARow
<1>5. OpenIsAhead /\ \A m, n \in OpenPulls : m = n
  BY <1>1 DEF StartsInOrder, OpenIsAhead, OpenPulls, Ahead
<1>6. TypeOK
  <2>1. 1 \in 1..Tip /\ 0 \in 0..Len(pulls) /\ {} \in File
    BY <1>2, <1>3 DEF File
  <2> QED BY <1>2, <1>3, <1>5, <2>1 DEF Init, TypeOK, Places
<1>7. \A c \in Commands : TriesLeft(c) /\ OneSnapshot(c) /\ Compares(c)
  BY DEF Init, TriesLeft, OneSnapshot, Compares, Reading, Compared, Unwritten
<1> QED BY <1>4, <1>5, <1>6, <1>7 DEF IInv, Init

LEMMA EveryStepKeeps == IInv /\ [Next]_vars => IInv'
<1> SUFFICES ASSUME IInv, [Next]_vars PROVE IInv'
  OBVIOUS
<1>1. CASE \E c \in Commands : Work(c) \/ Fails(c)
  <2>1. PICK c \in Commands : Work(c) \/ Fails(c)
    BY <1>1
  <2>2. TypeOK /\ TriesLeft(c)
    BY DEF IInv
  <2>3. TypeOK'
    BY <2>1, <2>2, ReadingStepsTypes, WritingStepsTypes DEF Work, Fails
  <2>4. Kept
    BY <2>1, ReadBaseKeeps, ReadFileKeeps, ReadBranchKeeps, CompareKeeps, CommitKeeps, CutShortKeeps,
       ReadPullKeeps, MoveKeeps, MoveRefusedKeeps, MoveLostKeeps, LookMovedKeeps, LookOpenedKeeps, PatchKeeps, PatchLostKeeps,
       PostKeeps, PostRefusedKeeps, PostLostKeeps DEF Work, Fails
  <2> QED BY <2>3, <2>4 DEF Kept, IInv, Mine, TypeOK
<1>2. CASE Hands
  <2>1. TypeOK' /\ Kept
    BY <1>2, HandsTypes, HandsKeep DEF IInv
  <2> QED BY <2>1 DEF Kept, IInv, Mine, TypeOK
<1>3. CASE Stutter \/ UNCHANGED vars
  <2>1. UNCHANGED vars
    BY <1>3 DEF Stutter
  <2>2. TypeOK'
    BY <2>1, MainStays, PullsStay DEF IInv, TypeOK, vars, github, local, history
  <2>3. Kept
    BY <2>1, NothingHappens
  <2> QED BY <2>2, <2>3 DEF Kept, IInv, Mine, TypeOK
<1> QED BY <1>1, <1>2, <1>3 DEF Next

\* The inductive invariant holds from a register found in order.
THEOREM RegisterRowInvariant == StartsInOrder /\ Spec => []IInv
<1> QED BY Begins, EveryStepKeeps, PTL DEF Spec

\* Every variable keeps its type; there is never more than one open pull
\* request, and no write is tried a third time (RowPullRequest, gitCommit).
THEOREM RegisterRowTypes == StartsInOrder /\ Spec => []TypeOK
<1>1. IInv => TypeOK
  BY DEF IInv
<1> QED BY <1>1, RegisterRowInvariant, PTL

\* Unless a person changed it, what the branch proposes is one row of this
\* certificate and nothing else, however the default branch moves (withRow).
THEOREM OneRowIsAdded == StartsInOrder /\ Spec => []BranchAddsOneRow
<1>1. IInv => BranchAddsOneRow
  BY DEF IInv, AddsARow, BranchAddsOneRow
<1> QED BY <1>1, RegisterRowInvariant, PTL

\* No open pull request is ever empty, with or without an editor's changes
\* (moveBranch).
THEOREM NoPullIsEmpty == StartsInOrder /\ Spec => []PullIsNeverEmpty
<1>1. IInv => PullIsNeverEmpty
  BY DEF IInv, OpenIsAhead, AddsARow, Ahead, PullIsNeverEmpty
<1> QED BY <1>1, RegisterRowInvariant, PTL

\* A person's commit is lost only to a command that looked before it came, for
\* any number of commands and editors (onlyOurs).
THEOREM OnlyWorkAfterTheLookIsLost == StartsInOrder /\ Spec => []OnlyAPushAfterTheLookIsLost
<1>1. IInv => OnlyAPushAfterTheLookIsLost
  BY DEF IInv, OnlyAPushAfterTheLookIsLost
<1> QED BY <1>1, RegisterRowInvariant, PTL

\* A command nobody disturbed that says it is done has left its row proposed on
\* the default branch as it is, whatever answers were lost, and none is told off
\* for a write of its own that had landed (ProposeRow, landed).
THEOREM DoneIsProposed == StartsInOrder /\ Spec => []DoneMeansProposed
<1>1. IInv => DoneMeansProposed
  BY DEF IInv, Undisturbed, Proposes, Says, DoneMeansProposed
<1> QED BY <1>1, RegisterRowInvariant, PTL
=============================================================================
