---------------------------- MODULE CheckRecord ----------------------------
(***************************************************************************)
(* The record of one check, kept in comments of its GitHub issue, and the  *)
(* commands that read and write it concurrently: assign, remove,           *)
(* certificate set and record accept (internal/people/record.go,           *)
(* internal/bot/bot.go, and the retries of internal/httpretry).            *)
(*                                                                         *)
(* The issue is the only store.  A command takes its deployment's lock for *)
(* the issue, lists the comments, works out the new record, and writes the *)
(* whole of it back over the comment it read, or posts a comment when      *)
(* there was none.  A write whose answer is lost may have landed; it is    *)
(* sent once more, and a comment may so be posted twice.  People with      *)
(* write access edit and delete the bot's comments at any moment.          *)
(***************************************************************************)
EXTENDS Roles, Naturals, Sequences

CONSTANTS
  Commands,      \* the commands that arrive on this issue
  Operations,    \* what they may ask for
  Deployments,   \* processes answering for the register
  Free,          \* a lock nobody holds
  DeploymentOf,  \* the deployment each command arrived at
  Signs,         \* whether the deployments hold a record key
  Editors,       \* the members of the editors team
  Outsiders,     \* people GitHub says are not in the organisation
  StartRecords,  \* records the issue may carry at the start
  HandEdits,     \* what a person may write into the record by hand
  MaxTries,      \* how often one write is sent: 2 in httpretry
  MaxEdits,      \* bound on edits and deletions by people
  MaxFaults      \* bound on lost answers, failed reads and restarts

ASSUME CheckRecordAssumption ==
  /\ Operations \subseteq Operation
  /\ DeploymentOf \in [Commands -> Deployments]
  /\ Free \notin Commands
  /\ Signs \in BOOLEAN
  /\ StartRecords \subseteq Record /\ HandEdits \subseteq Record
  /\ \A r \in StartRecords : ConflictFree(r)
  /\ MaxTries \in Nat \ {0} /\ MaxEdits \in Nat /\ MaxFaults \in Nat

VARIABLES
  comments,   \* the bot's record comments, oldest first; the index is the id
  holder,     \* who holds each deployment's lock on this issue
  pc,         \* how far each command is
  op,         \* what each command asks for
  target,     \* the comment each command read the record from, 0 for none
  draft,      \* the record each command is about to write
  replaced,   \* who the assignment takes the role from
  tries,      \* how often each command has sent its write
  assignees,  \* the assignees GitHub shows on the issue
  edits,      \* how many edits people have made
  faults,     \* how many requests have failed
  landed,     \* history: the commands whose write reached the issue
  stale,      \* history: commands whose reading another write has outdated
  kept        \* history: the record trusted before the present one

vars == <<comments, holder, pc, op, target, draft, replaced, tries, assignees,
          edits, faults, landed, stale, kept>>

Ended == {"done", "partial", "refused", "unchanged", "tampered", "failed"}
InLock == {"reading", "writing"}
Places == {"idle", "waiting", "assigning", "unassigning"} \cup InLock \cup Ended

\* A record as it is written: what it says and who adopted it.
Draft == [roles : Record, acceptedBy : People \cup {Nobody}]

\* A comment that was once a record.  The seal is what verification makes of
\* it: signed over these very bytes, no signature at all, or a signature that
\* does not match, a table that was retouched, or another check's record.
Comment == [status : {"record", "garbled", "deleted"}, roles : Record,
            acceptedBy : People \cup {Nobody}, seal : {"signed", "unsigned", "broken"}]

-----------------------------------------------------------------------------
(* Reading: the oldest comment that carries the marker is the record.       *)

Written(d) == [status |-> "record", roles |-> d.roles, acceptedBy |-> d.acceptedBy,
               seal |-> IF Signs THEN "signed" ELSE "unsigned"]

Standing(cs) == {i \in 1..Len(cs) : cs[i].status # "deleted"}

Oldest(cs) == IF Standing(cs) = {} THEN 0
              ELSE CHOOSE i \in Standing(cs) : \A j \in Standing(cs) : i <= j

Garbled(cs) == Oldest(cs) # 0 /\ cs[Oldest(cs)].status = "garbled"

Shown(cs) == IF Oldest(cs) = 0 \/ Garbled(cs) THEN EmptyRecord ELSE cs[Oldest(cs)].roles

AcceptedBy(cs) == IF Oldest(cs) = 0 THEN Nobody ELSE cs[Oldest(cs)].acceptedBy

\* A deployment with a key takes a missing signature for tampering.
Verifies(comment) == comment.seal = "signed" \/ (comment.seal = "unsigned" /\ ~ Signs)

\* A check with no record yet is trusted: it is one nobody was assigned to.
Trusted(cs) == Oldest(cs) = 0 \/ (~ Garbled(cs) /\ Verifies(cs[Oldest(cs)]))

-----------------------------------------------------------------------------
Init ==
  /\ \E start \in StartRecords :
       /\ comments = IF start = EmptyRecord THEN << >>
                     ELSE <<Written([roles |-> start, acceptedBy |-> Nobody])>>
       /\ assignees = {start.assignedCodechecker} \ {Nobody}
       /\ kept = start
  /\ holder = [d \in Deployments |-> Free]
  /\ pc = [c \in Commands |-> "idle"]
  /\ op \in [Commands -> Operations]
  /\ target = [c \in Commands |-> 0]
  /\ draft = [c \in Commands |-> [roles |-> EmptyRecord, acceptedBy |-> Nobody]]
  /\ replaced = [c \in Commands |-> Nobody]
  /\ tries = [c \in Commands |-> 0]
  /\ edits = 0 /\ faults = 0
  /\ landed = {} /\ stale = {}

Goto(c, place) == pc' = [pc EXCEPT ![c] = place]
Fault == faults < MaxFaults /\ faults' = faults + 1
Unlock(c) == holder' = [holder EXCEPT ![DeploymentOf[c]] = Free]

\* A handling editor has to be an editor already, and somebody outside the
\* organisation is given no role: the owners are asked to invite them instead.
MayBeGiven(o) ==
  o.kind = "assign" => /\ o.role = "handling editor" => o.who \in Editors
                       /\ o.who \notin Outsiders

\* The webhook arrives and the command is answered in a goroutine of its own.
Receive(c) ==
  /\ pc[c] = "idle"
  /\ Goto(c, IF MayBeGiven(op[c]) THEN "waiting" ELSE "refused")
  /\ UNCHANGED <<comments, holder, op, target, draft, replaced, tries, assignees,
                 edits, faults, landed, stale, kept>>

\* Deviation: the lock is not waited for.
LockNotAwaited(c) ==
  /\ pc[c] = "waiting"
  /\ holder' = [holder EXCEPT ![DeploymentOf[c]] = c]
  /\ Goto(c, "reading")
  /\ UNCHANGED <<comments, op, target, draft, replaced, tries, assignees,
                 edits, faults, landed, stale, kept>>

Lock(c) ==
  /\ pc[c] = "waiting"
  /\ holder[DeploymentOf[c]] = Free
  /\ holder' = [holder EXCEPT ![DeploymentOf[c]] = c]
  /\ Goto(c, "reading")
  /\ UNCHANGED <<comments, op, target, draft, replaced, tries, assignees,
                 edits, faults, landed, stale, kept>>

\* Deviation: a record that does not verify is changed like any other.
VerdictTrustsAnything(o, cs) ==
  IF o.kind = "accept"
  THEN CASE Oldest(cs) = 0 \/ Garbled(cs) -> "failed"
         [] cs[Oldest(cs)].seal = "signed" -> "unchanged"
         [] OTHER -> "writing"
  ELSE CASE Garbled(cs) -> "failed"
         [] Conflicting(o, Shown(cs)) -> "refused"
         [] Applied(o, Shown(cs)) = Shown(cs) -> "unchanged"
         [] OTHER -> "writing"

\* What a reading of the comments means for a command: to write, or the answer.
Verdict(o, cs) ==
  IF o.kind = "accept"
  THEN CASE Oldest(cs) = 0 \/ Garbled(cs) -> "failed"
         [] cs[Oldest(cs)].seal = "signed" -> "unchanged"
         [] OTHER -> "writing"
  ELSE CASE Garbled(cs) -> "failed"
         [] ~ Trusted(cs) -> "tampered"
         [] Conflicting(o, Shown(cs)) -> "refused"
         [] Applied(o, Shown(cs)) = Shown(cs) -> "unchanged"
         [] OTHER -> "writing"

\* The comments are listed afresh under the lock, and the change worked out.
Read(c) ==
  LET verdict == Verdict(op[c], comments)
      writes == verdict = "writing" IN
  /\ pc[c] = "reading"
  /\ Goto(c, verdict)
  /\ IF writes THEN UNCHANGED holder ELSE Unlock(c)
  /\ target' = [target EXCEPT ![c] = Oldest(comments)]
  /\ draft' = [draft EXCEPT ![c] =
       [roles |-> IF writes THEN Applied(op[c], Shown(comments)) ELSE EmptyRecord,
        acceptedBy |-> IF op[c].kind = "accept" THEN op[c].who ELSE AcceptedBy(comments)]]
  /\ replaced' = [replaced EXCEPT ![c] =
       IF op[c].kind = "assign" THEN Shown(comments).assignedCodechecker ELSE Nobody]
  /\ stale' = stale \ {c}
  /\ UNCHANGED <<comments, op, tries, assignees, edits, faults, landed, kept>>

\* Deviation: the early return on a failed listing skips the unlock.
ReadFailsLocked(c) ==
  /\ pc[c] = "reading"
  /\ Fault
  /\ Goto(c, "failed")
  /\ UNCHANGED <<comments, holder, op, target, draft, replaced, tries, assignees,
                 edits, landed, stale, kept>>

\* The list cannot be read: the command says so and changes nothing.
ReadFails(c) ==
  /\ pc[c] = "reading"
  /\ Fault
  /\ Goto(c, "failed")
  /\ Unlock(c)
  /\ UNCHANGED <<comments, op, target, draft, replaced, tries, assignees,
                 edits, landed, stale, kept>>

\* The write takes effect at GitHub: the comment that was read is replaced
\* whole, or a new one goes to the end of the issue.
Land(c) ==
  /\ target[c] # 0 => comments[target[c]].status # "deleted"
  /\ comments' = IF target[c] = 0 THEN Append(comments, Written(draft[c]))
                 ELSE [comments EXCEPT ![target[c]] = Written(draft[c])]
  /\ landed' = landed \cup {c}
  /\ stale' = stale \cup {d \in Commands \ {c} : pc[d] = "writing"}
  /\ kept' = IF Trusted(comments) THEN Shown(comments) ELSE kept

NotLand == UNCHANGED <<comments, landed, stale, kept>>

\* Where a command goes once its record is written: the assignee follows the
\* role, set on an assignment and taken off on a removal.
AfterWrite(o) ==
  CASE IsAboutAssignee(o) /\ o.kind = "assign" -> "assigning"
    [] IsAboutAssignee(o) /\ o.kind = "remove" -> "unassigning"
    [] OTHER -> "done"

WriteAnswered(c) ==
  /\ pc[c] = "writing"
  /\ Land(c)
  /\ Goto(c, AfterWrite(op[c]))
  /\ Unlock(c)
  /\ UNCHANGED <<op, target, draft, replaced, tries, assignees, edits, faults>>

\* The answer is lost, or the service refuses for now: the write may have
\* landed, and is sent again while tries are left.
WriteRetried(c) ==
  /\ pc[c] = "writing"
  /\ Fault
  /\ tries[c] + 1 < MaxTries
  /\ tries' = [tries EXCEPT ![c] = @ + 1]
  /\ Land(c) \/ NotLand
  /\ UNCHANGED <<holder, pc, op, target, draft, replaced, assignees, edits>>

\* Deviation: the error of the last try is dropped, and the command says done.
WriteFailsUnnoticed(c) ==
  /\ pc[c] = "writing"
  /\ Fault
  /\ Land(c) \/ NotLand
  /\ Goto(c, "done")
  /\ Unlock(c)
  /\ UNCHANGED <<op, target, draft, replaced, tries, assignees, edits>>

\* The last try fails, or an error no retry can change: reported as not done,
\* although the write may have landed.
WriteFails(c) ==
  /\ pc[c] = "writing"
  /\ Fault
  /\ Land(c) \/ NotLand
  /\ Goto(c, "failed")
  /\ Unlock(c)
  /\ UNCHANGED <<op, target, draft, replaced, tries, assignees, edits>>

\* Somebody deleted the comment since it was read.
TargetGone(c) ==
  /\ pc[c] = "writing"
  /\ target[c] # 0 /\ comments[target[c]].status = "deleted"
  /\ Goto(c, "failed")
  /\ Unlock(c)
  /\ UNCHANGED <<comments, op, target, draft, replaced, tries, assignees,
                 edits, faults, landed, stale, kept>>

-----------------------------------------------------------------------------
(* The issue's assignee, kept beside the role once the lock is released.    *)

\* Deviation: the replaced holder is assigned again, whoever that was.
AssignReplaced(c) ==
  /\ pc[c] = "assigning"
  /\ assignees' = assignees \cup {op[c].who, replaced[c]}
  /\ Goto(c, IF replaced[c] = Nobody THEN "done" ELSE "unassigning")
  /\ UNCHANGED <<comments, holder, op, target, draft, replaced, tries,
                 edits, faults, landed, stale, kept>>

\* The new codechecker is assigned before the old one is taken off.
Assign(c) ==
  /\ pc[c] = "assigning"
  /\ assignees' = assignees \cup {op[c].who}
  /\ Goto(c, IF replaced[c] = Nobody THEN "done" ELSE "unassigning")
  /\ UNCHANGED <<comments, holder, op, target, draft, replaced, tries,
                 edits, faults, landed, stale, kept>>

Unassign(c) ==
  /\ pc[c] = "unassigning"
  /\ assignees' = assignees \ {IF op[c].kind = "assign" THEN replaced[c] ELSE op[c].who}
  /\ Goto(c, "done")
  /\ UNCHANGED <<comments, holder, op, target, draft, replaced, tries,
                 edits, faults, landed, stale, kept>>

\* Reported, and nothing undone: the record is the role.
AssigneeFails(c) ==
  /\ pc[c] \in {"assigning", "unassigning"}
  /\ Fault
  /\ Goto(c, "partial")
  /\ UNCHANGED <<comments, holder, op, target, draft, replaced, tries, assignees,
                 edits, landed, stale, kept>>

-----------------------------------------------------------------------------
(* The world around the commands.                                           *)

\* A person edits the bot's comment: changes what it says, drops its
\* signature, breaks its block, or deletes it.
HandEdit(i) ==
  /\ edits < MaxEdits /\ edits' = edits + 1
  /\ i \in Standing(comments)
  /\ \/ \E roles \in HandEdits, seal \in {"broken", "unsigned"} :
          comments' = [comments EXCEPT ![i].status = "record", ![i].roles = roles,
                                       ![i].seal = seal]
     \/ \E status \in {"garbled", "deleted"} :
          comments' = [comments EXCEPT ![i].status = status, ![i].seal = "broken"]
  /\ kept' = IF Trusted(comments) THEN Shown(comments) ELSE kept
  /\ UNCHANGED <<holder, pc, op, target, draft, replaced, tries, assignees,
                 faults, landed, stale>>

\* A deployment stops: its commands and its locks are gone, the issue stays.
Restart(d) ==
  LET lost == {c \in Commands : DeploymentOf[c] = d /\ pc[c] \notin Ended \cup {"idle"}} IN
  /\ lost # {}
  /\ Fault
  /\ pc' = [c \in Commands |-> IF c \in lost THEN "failed" ELSE pc[c]]
  /\ holder' = [holder EXCEPT ![d] = Free]
  /\ UNCHANGED <<comments, op, target, draft, replaced, tries, assignees,
                 edits, landed, stale, kept>>

Finished == \A c \in Commands : pc[c] \in Ended

Stutter == Finished /\ UNCHANGED vars

\* What the process does on its own, for one command.
Work(c) == Lock(c) \/ Read(c) \/ WriteAnswered(c) \/ TargetGone(c) \/ Assign(c) \/ Unassign(c)

Fails(c) == ReadFails(c) \/ WriteRetried(c) \/ WriteFails(c) \/ AssigneeFails(c)

Next ==
  \/ \E c \in Commands : Receive(c) \/ Work(c) \/ Fails(c)
  \/ \E i \in 1..Len(comments) : HandEdit(i)
  \/ \E d \in Deployments : Restart(d)
  \/ Stutter

\* A goroutine that can run does, and a request ends with an answer or a
\* timeout; nothing makes a comment arrive.
Fairness == \A c \in Commands : WF_vars(Work(c))

Spec == Init /\ [][Next]_vars /\ Fairness

-----------------------------------------------------------------------------
(* Properties.                                                              *)

\* Every variable holds a value of its type (the types of Record and of the
\* per-issue locks in internal/people/record.go).
TypeOK ==
  /\ comments \in Seq(Comment)
  /\ holder \in [Deployments -> Commands \cup {Free}]
  /\ pc \in [Commands -> Places]
  /\ op \in [Commands -> Operation]
  /\ target \in [Commands -> Nat]
  /\ draft \in [Commands -> Draft]
  /\ replaced \in [Commands -> People \cup {Nobody}]
  /\ tries \in [Commands -> Nat]
  /\ assignees \subseteq People
  /\ edits \in 0..MaxEdits /\ faults \in 0..MaxFaults
  /\ landed \subseteq Commands /\ stale \subseteq Commands
  /\ kept \in Record

\* A record is never written from a reading that another command's write has
\* outdated since: two commands that arrive together do not write over one
\* another (Update and its lock).
NoLostUpdate == \A c \in Commands : pc[c] = "writing" => c \notin stale

\* A record that verifies and that no editor adopted names nobody as author
\* and as codechecker or handling editor at once, whatever people wrote into
\* the comment by hand and however the commands interleave (Grant, and the
\* refusal of tampered records in Update).
TrustedIsConflictFree ==
  \A i \in 1..Len(comments) :
    /\ comments[i].status = "record"
    /\ comments[i].seal = "signed"
    /\ comments[i].acceptedBy = Nobody
    => ConflictFree(comments[i].roles)

\* Every command that arrives is answered: no path out of Update or Accept
\* keeps the lock, however requests fail and people edit.
EveryCommandEnds == \A c \in Commands : pc[c] = "waiting" ~> pc[c] \in Ended

\* What assignee() in internal/bot/bot.go is for: it "keeps the issue's
\* assignee in step with the assigned codechecker".  Asked once everything
\* has ended, with no request failed and nothing edited by hand.
AssigneeInStep ==
  Finished /\ faults = 0 /\ edits = 0 =>
    assignees = {Shown(comments).assignedCodechecker} \ {Nobody}

-----------------------------------------------------------------------------
(* The store the commands rely on.                                          *)

AnswerOf(c) ==
  CASE pc[c] \in {"idle", "waiting", "reading", "writing"}
         -> IF c \in landed THEN "applied" ELSE "asked"
    [] pc[c] \in {"assigning", "unassigning"} -> "applied"
    [] pc[c] = "done" -> "done"
    [] pc[c] \in {"failed", "partial"} -> "failed"
    [] OTHER -> "nothing done"

Store == INSTANCE RecordStore WITH
  record <- Shown(comments), trusted <- Trusted(comments), kept <- kept,
  op <- op, answer <- [c \in Commands |-> AnswerOf(c)]

\* The comments, locks and retries implement the store: every change is one
\* command applied to the latest record that can be trusted, and a command
\* that says it is done has its change in the record.
ImplementsStore == Store!Spec

=============================================================================
