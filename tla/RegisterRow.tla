----------------------------- MODULE RegisterRow -----------------------------
(***************************************************************************)
(* `register`: the pull request that adds a certificate's row to           *)
(* register.csv (ProposeRow in internal/github/register.go).               *)
(*                                                                         *)
(* A command reads the default branch, refuses a certificate that has its  *)
(* row there, looks for the bot's branch, refuses one with a commit by     *)
(* somebody else, moves the branch onto a new commit of the default branch *)
(* with the row, and opens a pull request or brings the open one up to     *)
(* date.  Every step is a request, nothing is locked, and meanwhile other  *)
(* commands do the same and editors push, merge, close and delete.         *)
(***************************************************************************)
EXTENDS Naturals, Sequences

CONSTANTS
  Commands,    \* the `register` commands for one certificate
  Rows,        \* the rows they may propose for it
  Others,      \* rows of other certificates
  None,        \* no branch, no command
  StartStates, \* the default branch, the branch and the pulls to start from
  MaxHands,    \* bound on what editors do
  MaxFaults    \* bound on requests that fail

File == SUBSET (Rows \cup Others)

\* The head is the bot's one commit on the base, a merge of the default branch
\* into it, or a person's commit.  A branch that was merged is ahead of nothing.
Branch == [base : Nat \ {0}, file : File, head : {"bot", "merge", "person"},
           by : Commands \cup {None}, edited : BOOLEAN, merged : BOOLEAN]

Pull == [open : BOOLEAN, text : Rows]

ASSUME RegisterRowAssumption ==
  /\ Rows \cap Others = {} /\ None \notin Commands /\ None \notin Branch
  /\ \A start \in StartStates :
       /\ start.main \in Seq(File) /\ start.main # << >>
       /\ start.branch \in Branch \cup {None} /\ start.pulls \in Seq(Pull)
  /\ MaxHands \in Nat /\ MaxFaults \in Nat

VARIABLES
  main,      \* register.csv at each commit of the default branch, oldest first
  branch,    \* register-YYYY-NNN, None when there is none
  pulls,     \* the pull requests from the branch into the default branch
  pc, row,   \* each command: how far it is, and the row it proposes
  base,      \* the commit of the default branch it read
  content,   \* the file it is about to commit
  seen,      \* the branch as it found it
  known,     \* the open pull request it found, 0 for none
  tries,     \* how often its write has failed, 2 when it is not sent again
  hands, faults,  \* how often editors have acted, and requests have failed
  calm,      \* history: commands nobody else has disturbed since they began
  overtaken, \* history: commands with a push since they compared
  thrown     \* history: commands that threw away somebody's commit

github == <<main, branch, pulls>>
local == <<base, content, seen, known>>
history == <<calm, overtaken, thrown>>
vars == <<github, pc, row, local, tries, hands, faults, history>>

\* "failed" is a request that failed for good, "refused" a write that GitHub
\* answered with a conflict.
Ended == {"done", "registered", "not ours", "failed", "refused"}
Compared == {"commit", "move"}
Looking == {"moved?", "opened?"}
Places == {"idle", "file", "branch", "compare", "pull", "patch", "post"}
            \cup Compared \cup Looking \cup Ended

Init ==
  /\ \E start \in StartStates :
       main = start.main /\ branch = start.branch /\ pulls = start.pulls
  /\ pc = [c \in Commands |-> "idle"]
  /\ row \in [Commands -> Rows]
  /\ base = [c \in Commands |-> 1]
  /\ content = [c \in Commands |-> {}]
  /\ seen = [c \in Commands |-> None]
  /\ known = [c \in Commands |-> 0]
  /\ tries = [c \in Commands |-> 0]
  /\ hands = 0 /\ faults = 0
  /\ calm = {} /\ overtaken = {} /\ thrown = {}

Tip == Len(main)
\* The branch has commits the default branch has not.
Ahead == branch # None /\ ~ branch.merged

\* A person made one of them.
SomebodysWork == Ahead /\ branch.edited

OpenPulls == {n \in 1..Len(pulls) : pulls[n].open}
Goto(c, place) == pc' = [pc EXCEPT ![c] = place]
Fault == faults < MaxFaults /\ faults' = faults + 1

-----------------------------------------------------------------------------
(* Reading.                                                                 *)

\* The commit the default branch is at.
ReadBase(c) ==
  /\ pc[c] = "idle"
  /\ base' = [base EXCEPT ![c] = Tip]
  /\ calm' = calm \cup {c}
  /\ Goto(c, "file")
  /\ UNCHANGED <<github, row, content, seen, known, tries, hands, faults, overtaken, thrown>>

\* Deviation: the file is read by the name of the branch, which has moved on.
ReadFileAtTip(c) ==
  /\ pc[c] = "file"
  /\ content' = [content EXCEPT ![c] = main[Tip] \cup {row[c]}]
  /\ Goto(c, IF main[Tip] \cap Rows # {} THEN "registered" ELSE "branch")
  /\ UNCHANGED <<github, row, base, seen, known, tries, hands, faults, history>>

\* The file as that commit has it, and the row appended to it.
ReadFile(c) ==
  LET file == main[base[c]] IN
  /\ pc[c] = "file"
  /\ content' = [content EXCEPT ![c] = file \cup {row[c]}]
  /\ Goto(c, IF file \cap Rows # {} THEN "registered" ELSE "branch")
  /\ UNCHANGED <<github, row, base, seen, known, tries, hands, faults, history>>

ReadBranch(c) ==
  /\ pc[c] = "branch"
  /\ seen' = [seen EXCEPT ![c] = branch]
  /\ Goto(c, IF branch = None THEN "commit" ELSE "compare")
  /\ UNCHANGED <<github, row, base, content, known, tries, hands, faults, history>>

\* Deviation: only the commit at the head is looked at.
CompareHeads(c) ==
  /\ pc[c] = "compare"
  /\ Goto(c, CASE branch = None -> "failed"
               [] Ahead /\ branch.head = "person" -> "not ours"
               [] OTHER -> "commit")
  /\ overtaken' = overtaken \ {c}
  /\ UNCHANGED <<github, row, local, tries, hands, faults, calm, thrown>>

\* The commits the branch has and the default branch has not, as both are now:
\* one by a person refuses the command, a merge of the default branch does not.
Compare(c) ==
  /\ pc[c] = "compare"
  /\ Goto(c, CASE branch = None -> "failed"
               [] SomebodysWork -> "not ours"
               [] OTHER -> "commit")
  /\ overtaken' = overtaken \ {c}
  /\ UNCHANGED <<github, row, local, tries, hands, faults, calm, thrown>>

\* Deviation: a branch with the right file is taken for the right branch,
\* whatever commit it sits on.
HoldsFileOnly(c) == seen[c] # None /\ row[c] \in seen[c].file

\* The branch, as it was found, is exactly the row on the base.
Holds(c) ==
  /\ seen[c] # None
  /\ seen[c].head = "bot" /\ seen[c].base = base[c] /\ seen[c].file = content[c]

\* A branch that holds the row is left alone; otherwise a commit is made,
\* which moves nothing yet.  A look that fails says it does not hold.
Commit(c) ==
  /\ pc[c] = "commit"
  /\ \/ Holds(c) /\ Goto(c, "pull") /\ UNCHANGED faults
     \/ ~ Holds(c) /\ Goto(c, "move") /\ UNCHANGED faults
     \/ Holds(c) /\ Goto(c, "move") /\ Fault
  /\ UNCHANGED <<github, row, local, tries, hands, history>>

\* A request that reads, or makes a commit no branch has, fails for good: also
\* the look whether a write has landed.
CutShort(c) ==
  /\ pc[c] \in {"file", "branch", "compare", "commit", "pull"} \cup Looking
  /\ Fault
  /\ Goto(c, "failed")
  /\ UNCHANGED <<github, row, local, tries, hands, history>>

-----------------------------------------------------------------------------
(* The branch.                                                              *)

MyCommit(c) == [base |-> base[c], file |-> content[c], head |-> "bot",
                by |-> c, edited |-> FALSE, merged |-> FALSE]

\* Deviation: the branch is reset to the default branch, and the row committed
\* on top of it.
PushThroughBase(c) ==
  LET bare == [MyCommit(c) EXCEPT !.file = main[base[c]]] IN
  /\ (branch = None) = (seen[c] = None)
  /\ branch' = IF branch = bare THEN MyCommit(c) ELSE bare
  /\ thrown' = IF SomebodysWork THEN thrown \cup {c} ELSE thrown
  /\ calm' = calm \cap {c}
  /\ UNCHANGED <<main, pulls, overtaken>>

\* GitHub moves the branch, by force, if the command found one, and creates it
\* if it found none.
Push(c) ==
  /\ (branch = None) = (seen[c] = None)
  /\ branch' = MyCommit(c)
  /\ thrown' = IF SomebodysWork THEN thrown \cup {c} ELSE thrown
  /\ calm' = calm \cap {c}
  /\ UNCHANGED <<main, pulls, overtaken>>

NoWrite == UNCHANGED <<github, history>>

\* A write whose answer was lost, or that the service failed, is sent once more
\* when that could help: not after an answer that could not be read, a refusal,
\* a pause asked for that is too long, or the end of the command's own time.
SentAgain(c) == tries[c] = 0 /\ tries' = [tries EXCEPT ![c] = 1] /\ UNCHANGED pc

\* Otherwise the command ends with it, or looks first whether it has landed.
GivenUp(c, places) ==
  /\ tries' = [tries EXCEPT ![c] = 2]
  /\ \E place \in places : Goto(c, place)

\* What a look that finds nothing leaves the command with.
Unforgiven(c) == IF tries[c] = 2 THEN "failed" ELSE "refused"

Move(c) ==
  /\ pc[c] = "move"
  /\ Push(c)
  /\ Goto(c, IF branch' = MyCommit(c) THEN "pull" ELSE "move")
  /\ tries' = [tries EXCEPT ![c] = 0]
  /\ UNCHANGED <<row, local, hands, faults>>

\* Deviation: a create that is answered as a conflict has failed.
MoveRefusedOutright(c) ==
  /\ pc[c] = "move"
  /\ (branch = None) # (seen[c] = None)
  /\ NoWrite
  /\ Goto(c, "refused")
  /\ UNCHANGED <<row, local, tries, hands, faults>>

\* There is no branch to move, or one to create already, perhaps by a first try
\* that landed.
MoveRefused(c) ==
  /\ pc[c] = "move"
  /\ (branch = None) # (seen[c] = None)
  /\ NoWrite
  /\ Goto(c, IF seen[c] = None THEN "moved?" ELSE "refused")
  /\ UNCHANGED <<row, local, tries, hands, faults>>

\* The write landed or did not, and nobody says which.
MoveLost(c) ==
  /\ pc[c] = "move"
  /\ Fault
  /\ Push(c) \/ NoWrite
  /\ \/ SentAgain(c)
     \/ GivenUp(c, IF seen[c] = None THEN {"moved?", "failed"} ELSE {"failed"})
  /\ UNCHANGED <<row, local, hands>>

\* The look at the branch, which is where the command put it, merged or not, or
\* is not.
LookMoved(c) ==
  LET landed == branch # None /\ [branch EXCEPT !.merged = FALSE] = MyCommit(c) IN
  /\ pc[c] = "moved?"
  /\ Goto(c, IF landed THEN "pull" ELSE Unforgiven(c))
  /\ UNCHANGED <<github, row, local, tries, hands, faults, history>>

-----------------------------------------------------------------------------
(* The pull request.                                                        *)

\* Deviation: an empty list is not told from a pull request that is there.
ReadPullUnchecked(c) ==
  /\ pc[c] = "pull"
  /\ tries' = [tries EXCEPT ![c] = 0]
  /\ known' = [known EXCEPT ![c] = IF OpenPulls = {} THEN 0 ELSE CHOOSE n \in OpenPulls : TRUE]
  /\ Goto(c, "patch")
  /\ UNCHANGED <<github, row, base, content, seen, hands, faults, history>>

\* The open pull request from the branch into the default branch, if any.
ReadPull(c) ==
  LET open == OpenPulls IN
  /\ pc[c] = "pull"
  /\ tries' = [tries EXCEPT ![c] = 0]
  /\ IF open = {}
     THEN Goto(c, "post") /\ known' = [known EXCEPT ![c] = 0]
     ELSE \E n \in open :
            /\ known' = [known EXCEPT ![c] = n]
            /\ Goto(c, IF pulls[n].text = row[c] THEN "done" ELSE "patch")
  /\ UNCHANGED <<github, row, base, content, seen, hands, faults, history>>

\* GitHub takes a new title and body for a pull request, open or not.
Retext(c) ==
  /\ pulls' = [pulls EXCEPT ![known[c]].text = row[c]]
  /\ calm' = calm \cap {c}
  /\ UNCHANGED <<main, branch, overtaken, thrown>>

Patch(c) ==
  /\ pc[c] = "patch"
  /\ Retext(c)
  /\ Goto(c, "done")
  /\ UNCHANGED <<row, local, tries, hands, faults>>

PatchLost(c) ==
  /\ pc[c] = "patch"
  /\ Fault
  /\ Retext(c) \/ NoWrite
  /\ SentAgain(c) \/ GivenUp(c, {"failed"})
  /\ UNCHANGED <<row, local, hands>>

\* A pull request is opened from a branch that is ahead, and only one.
Open(c) ==
  /\ Ahead /\ OpenPulls = {}
  /\ pulls' = Append(pulls, [open |-> TRUE, text |-> row[c]])
  /\ calm' = calm \cap {c}
  /\ UNCHANGED <<main, branch, overtaken, thrown>>

Post(c) ==
  /\ pc[c] = "post"
  /\ Open(c)
  /\ Goto(c, "done")
  /\ UNCHANGED <<row, local, tries, hands, faults>>

\* GitHub says there is one already, or nothing to open one from.
PostRefused(c) ==
  /\ pc[c] = "post"
  /\ ~ Ahead \/ OpenPulls # {}
  /\ NoWrite
  /\ Goto(c, "opened?")
  /\ UNCHANGED <<row, local, tries, hands, faults>>

PostLost(c) ==
  /\ pc[c] = "post"
  /\ Fault
  /\ Open(c) \/ NoWrite
  /\ SentAgain(c) \/ GivenUp(c, {"opened?", "failed"})
  /\ UNCHANGED <<row, local, hands>>

\* The look for an open pull request, whoever opened it.
LookOpened(c) ==
  /\ pc[c] = "opened?"
  /\ Goto(c, IF OpenPulls # {} THEN "done" ELSE Unforgiven(c))
  /\ UNCHANGED <<github, row, local, tries, hands, faults, history>>

-----------------------------------------------------------------------------
(* What people do on GitHub meanwhile.                                      *)

Hand ==
  /\ hands < MaxHands /\ hands' = hands + 1
  /\ calm' = {}
  /\ UNCHANGED <<pc, row, local, tries, faults, thrown>>

\* Another check's row is merged.
MainMoves ==
  /\ Hand
  /\ \E other \in Others \ main[Tip] : main' = Append(main, main[Tip] \cup {other})
  /\ UNCHANGED <<branch, pulls, overtaken>>

\* An editor commits to the bot's branch.
EditBranch ==
  /\ Hand
  /\ branch # None
  /\ \E fix \in Rows :
       branch' = [branch EXCEPT !.file = (branch.file \ Rows) \cup {fix}, !.head = "person",
                                !.edited = TRUE, !.merged = FALSE]
  /\ overtaken' = overtaken \cup {c \in Commands : pc[c] \in Compared /\ seen[c] # None}
  /\ UNCHANGED <<main, pulls>>

\* GitHub's "Update branch", where nothing conflicts.
UpdateBranch ==
  /\ Hand
  /\ Ahead /\ branch.base < Tip
  /\ main[Tip] \cap Rows = {}
  /\ branch' = [branch EXCEPT !.base = Tip, !.head = "merge",
                              !.file = main[Tip] \cup (branch.file \ main[branch.base])]
  /\ UNCHANGED <<main, pulls, overtaken>>

\* The pull request is merged, where nothing conflicts, and the branch kept.
Merge ==
  /\ Hand
  /\ OpenPulls # {} /\ main[Tip] \cap Rows = {}
  /\ main' = Append(main, main[Tip] \cup (branch.file \ main[branch.base]))
  /\ branch' = [branch EXCEPT !.merged = TRUE]
  /\ pulls' = [n \in DOMAIN pulls |-> [pulls[n] EXCEPT !.open = FALSE]]
  /\ UNCHANGED overtaken

\* The branch is deleted, which closes its pull request.
DeleteBranch ==
  /\ Hand
  /\ branch # None
  /\ branch' = None
  /\ pulls' = [n \in DOMAIN pulls |-> [pulls[n] EXCEPT !.open = FALSE]]
  /\ UNCHANGED <<main, overtaken>>

Close ==
  /\ Hand
  /\ OpenPulls # {}
  /\ pulls' = [n \in DOMAIN pulls |-> [pulls[n] EXCEPT !.open = FALSE]]
  /\ UNCHANGED <<main, branch, overtaken>>

Finished == \A c \in Commands : pc[c] \in Ended

Stutter == Finished /\ UNCHANGED vars

Work(c) ==
  \/ ReadBase(c) \/ ReadFile(c) \/ ReadBranch(c) \/ Compare(c) \/ Commit(c)
  \/ Move(c) \/ MoveRefused(c) \/ LookMoved(c)
  \/ ReadPull(c) \/ Patch(c) \/ Post(c) \/ PostRefused(c) \/ LookOpened(c)

Fails(c) == CutShort(c) \/ MoveLost(c) \/ PatchLost(c) \/ PostLost(c)

Hands == MainMoves \/ EditBranch \/ UpdateBranch \/ Merge \/ DeleteBranch \/ Close

Next == (\E c \in Commands : Work(c) \/ Fails(c)) \/ Hands \/ Stutter

Spec == Init /\ [][Next]_vars

-----------------------------------------------------------------------------
(* Properties.                                                              *)

\* What a command may find is in order: a branch adds a row of this certificate
\* to a commit that has none, one that was merged is older than the merge, and
\* the one open pull request is from a branch that is ahead.
StartsInOrder ==
  \A start \in StartStates :
    LET found == start.branch
        open == {n \in 1..Len(start.pulls) : start.pulls[n].open}
    IN
    /\ found # None =>
         /\ found.base <= Len(start.main)
         /\ start.main[found.base] \cap Rows = {}
         /\ IF found.edited THEN found.file \cap Rows # {}
            ELSE \E r \in Rows : found.file = start.main[found.base] \cup {r}
         /\ found.merged => found.base < Len(start.main)
    /\ open # {} => found # None /\ ~ found.merged
    /\ \A m, n \in open : m = n

\* Every variable holds a value of its type, at most one pull request is open,
\* and a command that brings one up to date has found one (RowPullRequest,
\* gitCommit and the locals of ProposeRow).
TypeOK ==
  /\ main \in Seq(File) /\ Tip > 0
  /\ branch \in Branch \cup {None}
  /\ pulls \in Seq(Pull)
  /\ \A m, n \in OpenPulls : m = n
  /\ pc \in [Commands -> Places]
  /\ row \in [Commands -> Rows]
  /\ base \in [Commands -> 1..Tip]
  /\ content \in [Commands -> File]
  /\ seen \in [Commands -> Branch \cup {None}]
  /\ known \in [Commands -> 0..Len(pulls)]
  /\ \A c \in Commands : pc[c] = "patch" => known[c] > 0
  /\ tries \in [Commands -> 0..2]
  /\ calm \subseteq Commands /\ overtaken \subseteq Commands /\ thrown \subseteq Commands

\* Unless a person changed it, the branch adds this certificate's row and
\* nothing else to the commit it sits on, and that commit has no row of it:
\* whatever is merged while a command reads, nobody else's row is proposed
\* again or left out (the one snapshot of ProposeRow, withRow).
BranchAddsOneRow ==
  branch # None /\ ~ branch.edited =>
    /\ main[branch.base] \cap Rows = {}
    /\ \E r \in Rows : branch.file = main[branch.base] \cup {r}

\* An open pull request always has the row in it: GitHub would close one that
\* is empty for a moment (moveBranch moves the branch once).
PullIsNeverEmpty ==
  OpenPulls # {} => Ahead /\ branch.file # main[branch.base]

\* What onlyOurs is for: "a branch with a commit by anybody but the bot is
\* somebody's work, and is refused rather than replaced".
EditorsWorkIsKept == thrown = {}

\* What it does achieve, with any number of commands: a commit of a person's is
\* thrown away only by a command that had compared the branch before it came.
OnlyAPushAfterTheLookIsLost == thrown \subseteq overtaken

\* A command that says it is done, and that nobody disturbed, has left an open
\* pull request that proposes its row, and says so, on the default branch as it
\* is now, whatever requests failed and whatever was there before; and it is
\* never told off for its own write: one that landed before its answer was lost
\* is answered as a conflict when it is sent again, which no such command ends
\* with unless the look that would forgive it fails too (ProposeRow, landed).
DoneMeansProposed ==
  \A c \in calm :
    /\ pc[c] = "done" => /\ Ahead /\ branch.base = Tip
                        /\ branch.file = main[Tip] \cup {row[c]}
                        /\ \E n \in OpenPulls : pulls[n].text = row[c]
    /\ pc[c] # "refused"
=============================================================================
