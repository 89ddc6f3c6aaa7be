------------------------ MODULE CheckRecordProofs ------------------------
(***************************************************************************)
(* Proofs about the record of a check: its types and its lock, that a      *)
(* record which verifies names nobody in two roles that conflict, and that *)
(* one deployment loses no update.  They hold for any commands, people,    *)
(* deployments and bounds.                                                 *)
(***************************************************************************)
EXTENDS CheckRecord, SequenceTheorems, WellFoundedInduction, TLAPS

-----------------------------------------------------------------------------
(* The rules of the roles.                                                  *)

\* The only pairs that conflict are an author with one of the two other roles.
LEMMA Pairs ==
  ASSUME NEW a, NEW b
  PROVE  {a, b} \in Conflicts <=>
           \/ a = "author" /\ b \in {"assigned codechecker", "handling editor"}
           \/ b = "author" /\ a \in {"assigned codechecker", "handling editor"}
<1>1. {a, b} = {"assigned codechecker", "author"} <=>
        \/ a = "author" /\ b = "assigned codechecker"
        \/ b = "author" /\ a = "assigned codechecker"
  OBVIOUS
<1>2. {a, b} = {"handling editor", "author"} <=>
        \/ a = "author" /\ b = "handling editor"
        \/ b = "author" /\ a = "handling editor"
  OBVIOUS
<1> QED BY <1>1, <1>2 DEF Conflicts

\* Nobody conflicts exactly when no author checks or edits.
LEMMA ConflictFreeMeans ==
  ASSUME NEW r
  PROVE  ConflictFree(r) <=>
           \A who \in People : who \in r.authors =>
             who # r.handlingEditor /\ who # r.assignedCodechecker
<1>1. ASSUME NEW who, NEW role
      PROVE  Conflict(RolesOf(r, who), role) <=>
               \/ /\ role = "author"
                  /\ who = r.handlingEditor \/ who = r.assignedCodechecker
               \/ /\ role \in {"assigned codechecker", "handling editor"}
                  /\ who \in r.authors
  BY Pairs DEF Conflict, RolesOf
<1> QED BY <1>1 DEF ConflictFree, RolesOf

\* A command keeps a record a record, and one without conflicts without them.
LEMMA AppliedKeeps ==
  ASSUME NEW o \in Operation, NEW r \in Record
  PROVE  /\ Applied(o, r) \in Record
         /\ ConflictFree(r) /\ ~ Conflicting(o, r) => ConflictFree(Applied(o, r))
<1>1. CASE o \in [kind : {"assign"}, role : CheckRoles, who : People]
  <2>1. o.kind = "assign" /\ o.role \in CheckRoles /\ o.who \in People
    BY <1>1
  <2>2. Applied(o, r) = Grant(r, o.role, o.who)
    BY <2>1 DEF Applied
  <2>3. ASSUME NEW who, NEW role
        PROVE  Conflict(RolesOf(r, who), role) <=>
                 \/ /\ role = "author"
                    /\ who = r.handlingEditor \/ who = r.assignedCodechecker
                 \/ /\ role \in {"assigned codechecker", "handling editor"}
                    /\ who \in r.authors
    BY Pairs DEF Conflict, RolesOf
  <2>4. CASE o.role = "handling editor"
    <3>1. Applied(o, r) = [r EXCEPT !.handlingEditor = o.who]
      BY <2>2, <2>4 DEF Grant
    <3>2. Applied(o, r) \in Record
      BY <2>1, <3>1 DEF Record
    <3>3. ~ Conflicting(o, r) => o.who \notin r.authors
      BY <2>1, <2>3, <2>4 DEF Conflicting
    <3> QED BY <3>1, <3>2, <3>3, ConflictFreeMeans DEF Record
  <2>5. CASE o.role = "assigned codechecker"
    <3>1. Applied(o, r) = [r EXCEPT !.assignedCodechecker = o.who]
      BY <2>2, <2>5 DEF Grant
    <3>2. Applied(o, r) \in Record
      BY <2>1, <3>1 DEF Record
    <3>3. ~ Conflicting(o, r) => o.who \notin r.authors
      BY <2>1, <2>3, <2>5 DEF Conflicting
    <3> QED BY <3>1, <3>2, <3>3, ConflictFreeMeans DEF Record
  <2>6. CASE o.role = "author"
    <3>1. Applied(o, r) = [r EXCEPT !.authors = r.authors \cup {o.who}]
      BY <2>2, <2>6 DEF Grant
    <3>2. Applied(o, r) \in Record
      BY <2>1, <3>1 DEF Record
    <3>3. ~ Conflicting(o, r) => o.who # r.handlingEditor /\ o.who # r.assignedCodechecker
      BY <2>1, <2>3, <2>6 DEF Conflicting
    <3> QED BY <3>1, <3>2, <3>3, ConflictFreeMeans DEF Record
  <2> QED BY <2>1, <2>4, <2>5, <2>6 DEF CheckRoles
<1>2. CASE o \in [kind : {"remove"}, role : CheckRoles, who : People]
  <2>1. o.kind = "remove" /\ o.role \in CheckRoles /\ o.who \in People
    BY <1>2
  <2>2. Applied(o, r) = Revoke(r, o.role, o.who)
    BY <2>1 DEF Applied
  <2>3. \/ Applied(o, r) = [r EXCEPT !.handlingEditor = Nobody]
        \/ Applied(o, r) = [r EXCEPT !.assignedCodechecker = Nobody]
        \/ Applied(o, r) = [r EXCEPT !.authors = r.authors \ {o.who}]
        \/ Applied(o, r) = r
    BY <2>1, <2>2 DEF Revoke, CheckRoles
  <2>4. Applied(o, r) \in Record
    BY <2>3 DEF Record
  <2> QED BY <2>3, <2>4, ConflictFreeMeans, RolesAssumption DEF Record
<1>3. CASE o \in [kind : {"certificate"}, id : Identifiers]
  <2>1. Applied(o, r) = [r EXCEPT !.certificate = o.id] /\ o.id \in Identifiers
    BY <1>3 DEF Applied
  <2> QED BY <2>1, ConflictFreeMeans DEF Record
<1>4. CASE o \in [kind : {"accept"}, who : People]
  BY <1>4 DEF Applied
<1>5. o \in [kind : {"assign"}, role : CheckRoles, who : People]
      \/ o \in [kind : {"remove"}, role : CheckRoles, who : People]
      \/ o \in [kind : {"certificate"}, id : Identifiers]
      \/ o \in [kind : {"accept"}, who : People]
  BY DEF Operation
<1> QED BY <1>1, <1>2, <1>3, <1>4, <1>5

-----------------------------------------------------------------------------
(* Reading the comments.                                                    *)

\* A set of natural numbers that is not empty has a least one.
LEMMA LeastNumber ==
  ASSUME NEW T \in SUBSET Nat, T # {}
  PROVE  \E least \in T : \A n \in T : least <= n
<1>1. PICK least \in T : \A n \in T : ~ (<<n, least>> \in OpToRel(<, Nat))
  BY WFMin, NatLessThanWellFounded
<1>2. \A n \in T : ~ (n < least)
  BY <1>1 DEF OpToRel
<1> QED BY <1>2

\* The record is one of the comments that stand, where there is any.
LEMMA OldestStands ==
  ASSUME NEW cs \in Seq(Comment)
  PROVE  /\ Oldest(cs) \in 0..Len(cs)
         /\ Oldest(cs) # 0 => /\ Oldest(cs) \in 1..Len(cs)
                              /\ cs[Oldest(cs)] \in Comment
                              /\ cs[Oldest(cs)].status # "deleted"
<1>1. Len(cs) \in Nat
  BY LenProperties
<1>2. CASE Standing(cs) = {}
  BY <1>1, <1>2 DEF Oldest
<1>3. CASE Standing(cs) # {}
  <2>1. Standing(cs) \in SUBSET Nat
    BY <1>1 DEF Standing
  <2>2. \E i \in Standing(cs) : \A j \in Standing(cs) : i <= j
    BY <1>3, <2>1, LeastNumber
  <2>3. Oldest(cs) \in Standing(cs)
    BY <1>3, <2>2 DEF Oldest
  <2>4. Oldest(cs) \in 1..Len(cs) /\ cs[Oldest(cs)].status # "deleted"
    BY <2>3 DEF Standing
  <2>5. cs[Oldest(cs)] \in Comment
    BY <2>4, ElementOfSeq
  <2> QED BY <1>1, <2>4, <2>5
<1> QED BY <1>2, <1>3

\* What is read is a record, and one that verifies, is signed and was adopted
\* by nobody has no conflicts.
LEMMA ReadingTyped ==
  ASSUME NEW cs \in Seq(Comment)
  PROVE  Shown(cs) \in Record /\ AcceptedBy(cs) \in People \cup {Nobody}
BY OldestStands DEF Shown, Garbled, AcceptedBy, EmptyRecord, Record, Comment

\* What verifies with a key and nobody adopted has no conflicts, so neither has
\* what a command makes of it.
LEMMA VerdictDrafts ==
  ASSUME NEW cs \in Seq(Comment), NEW o \in Operation, Signs,
         \A i \in 1..Len(cs) : /\ cs[i].status = "record" /\ cs[i].seal = "signed"
                              /\ cs[i].acceptedBy = Nobody
                              => ConflictFree(cs[i].roles),
         Verdict(o, cs) = "writing", o.kind # "accept", AcceptedBy(cs) = Nobody
  PROVE  ConflictFree(Applied(o, Shown(cs)))
<1>1. ~ Garbled(cs) /\ Trusted(cs) /\ ~ Conflicting(o, Shown(cs))
  BY DEF Verdict
<1>2. ConflictFree(Shown(cs))
  <2>1. CASE Oldest(cs) = 0
    BY <2>1, ConflictFreeMeans DEF Shown, EmptyRecord
  <2>2. CASE Oldest(cs) # 0
    <3>1. Oldest(cs) \in 1..Len(cs) /\ cs[Oldest(cs)] \in Comment
          /\ cs[Oldest(cs)].status # "deleted"
      BY <2>2, OldestStands
    <3>2. cs[Oldest(cs)].status = "record"
      BY <1>1, <2>2, <3>1 DEF Garbled, Comment
    <3>3. cs[Oldest(cs)].seal = "signed"
      BY <1>1, <2>2 DEF Trusted, Verifies
    <3>4. cs[Oldest(cs)].acceptedBy = Nobody
      BY <2>2 DEF AcceptedBy
    <3> QED BY <1>1, <2>2, <3>1, <3>2, <3>3, <3>4 DEF Shown
  <2> QED BY <2>1, <2>2
<1> QED BY <1>1, <1>2, AppliedKeeps, ReadingTyped

-----------------------------------------------------------------------------
(* The inductive invariant.                                                 *)

\* A command is at its reading or its write exactly while it holds the lock.
LockHeld == \A c \in Commands : pc[c] \in InLock <=> holder[DeploymentOf[c]] = c

\* Only an assignment sets an assignee, and only one or a removal takes it off.
AboutAssignee ==
  \A c \in Commands : /\ pc[c] = "assigning" => op[c].kind = "assign"
                      /\ pc[c] = "unassigning" => op[c].kind \in {"assign", "remove"}

\* What is to be written replaces a comment of the issue or adds one.
TargetKnown == \A c \in Commands : pc[c] = "writing" => target[c] \in 0..Len(comments)

\* What is to be signed, and adopted by nobody, has no conflicts.
DraftSound ==
  \A c \in Commands :
    Signs /\ pc[c] = "writing" /\ draft[c].acceptedBy = Nobody => ConflictFree(draft[c].roles)

IInv == TypeOK /\ LockHeld /\ AboutAssignee /\ TargetKnown /\ DraftSound /\ TrustedIsConflictFree

\* A draft is written as a comment that says what the draft says.
LEMMA WrittenTyped ==
  ASSUME NEW d \in Draft
  PROVE  /\ Written(d) \in Comment /\ Written(d).roles = d.roles
         /\ Written(d).acceptedBy = d.acceptedBy
         /\ Written(d).seal = "signed" => Signs
BY DEF Written, Draft, Comment

\* A write of a sound draft leaves the comments typed and the trusted ones sound.
LEMMA LandKeeps ==
  ASSUME IInv, NEW c \in Commands, pc[c] = "writing", Land(c)
  PROVE  /\ comments' \in Seq(Comment) /\ Len(comments') \in Nat
         /\ Len(comments') >= Len(comments)
         /\ landed' \subseteq Commands /\ stale' \subseteq Commands /\ kept' \in Record
         /\ TrustedIsConflictFree'
<1>1. comments \in Seq(Comment) /\ Len(comments) \in Nat
  BY LenProperties DEF IInv, TypeOK
<1>2. draft[c] \in Draft /\ target[c] \in 0..Len(comments)
  BY DEF IInv, TypeOK, TargetKnown
<1>3. Written(draft[c]) \in Comment
  BY <1>2, WrittenTyped
<1>4. Written(draft[c]).seal = "signed" /\ Written(draft[c]).acceptedBy = Nobody
      => ConflictFree(Written(draft[c]).roles)
  BY <1>2, WrittenTyped DEF IInv, DraftSound
<1>5. landed' \subseteq Commands /\ stale' \subseteq Commands /\ kept' \in Record
  BY <1>1, ReadingTyped DEF Land, IInv, TypeOK
<1>6. CASE target[c] = 0
  <2>1. comments' = Append(comments, Written(draft[c]))
    BY <1>6 DEF Land
  <2>2. /\ comments' \in Seq(Comment) /\ Len(comments') = Len(comments) + 1
        /\ \A i \in 1..Len(comments) : comments'[i] = comments[i]
        /\ comments'[Len(comments) + 1] = Written(draft[c])
    BY <1>1, <1>3, <2>1, AppendProperties
  <2>3. \A i \in 1..Len(comments') : i \in 1..Len(comments) \/ i = Len(comments) + 1
    BY <1>1, <2>2
  <2>4. TrustedIsConflictFree'
    BY <1>4, <2>2, <2>3 DEF TrustedIsConflictFree, IInv
  <2> QED BY <1>1, <1>5, <2>2, <2>4
<1>7. CASE target[c] # 0
  <2>1. comments' = [comments EXCEPT ![target[c]] = Written(draft[c])]
    BY <1>7 DEF Land
  <2>2. target[c] \in 1..Len(comments)
    BY <1>1, <1>2, <1>7
  <2>3. /\ comments' \in Seq(Comment) /\ Len(comments') = Len(comments)
        /\ \A i \in 1..Len(comments) :
             comments'[i] = IF i = target[c] THEN Written(draft[c]) ELSE comments[i]
    BY <1>1, <1>3, <2>1, <2>2, ExceptSeq
  <2>4. TrustedIsConflictFree'
    BY <1>4, <2>3 DEF TrustedIsConflictFree, IInv
  <2> QED BY <1>1, <1>5, <2>3, <2>4
<1> QED BY <1>2, <1>6, <1>7

\* Whatever record the issue starts with, signed and without conflicts, no
\* command holds a lock or a draft.
THEOREM RecordInitially == Init => IInv
<1> SUFFICES ASSUME Init PROVE IInv
  BY DEF Init
<1>1. PICK start \in StartRecords :
        /\ comments = IF start = EmptyRecord THEN << >>
                      ELSE <<Written([roles |-> start, acceptedBy |-> Nobody])>>
        /\ assignees = {start.assignedCodechecker} \ {Nobody}
        /\ kept = start
  BY DEF Init
<1>2. start \in Record /\ ConflictFree(start)
  BY CheckRecordAssumption
<1>3. comments \in Seq(Comment) /\ TrustedIsConflictFree
  <2> DEFINE d == [roles |-> start, acceptedBy |-> Nobody]
  <2>1. d \in Draft
    BY <1>2 DEF Draft
  <2>2. Written(d) \in Comment /\ Written(d).roles = start
    BY <2>1, WrittenTyped
  <2>3. comments = << >> \/ comments = <<Written(d)>>
    BY <1>1
  <2> HIDE DEF d
  <2>4. CASE comments = << >>
    BY <2>4, EmptySeq DEF TrustedIsConflictFree
  <2>5. CASE comments = <<Written(d)>>
    <3>1. comments \in Seq(Comment) /\ Len(comments) = 1 /\ comments[1] = Written(d)
      BY <2>2, <2>5
    <3>2. \A i \in 1..Len(comments) : i = 1
      BY <3>1
    <3> QED BY <1>2, <2>2, <3>1, <3>2 DEF TrustedIsConflictFree
  <2> QED BY <2>3, <2>4, <2>5
<1>4. TypeOK
  <2>1. assignees \subseteq People /\ kept \in Record
    BY <1>1, <1>2 DEF Record
  <2>2. EmptyRecord \in Record
    BY DEF EmptyRecord, Record
  <2>3. draft \in [Commands -> Draft]
    BY <2>2 DEF Init, Draft
  <2>4. edits \in 0..MaxEdits /\ faults \in 0..MaxFaults
    BY CheckRecordAssumption DEF Init
  <2>5. op \in [Commands -> Operation]
    BY CheckRecordAssumption DEF Init
  <2> QED BY <1>3, <2>1, <2>3, <2>4, <2>5 DEF Init, TypeOK, Places
<1>5. LockHeld
  BY CheckRecordAssumption DEF Init, LockHeld, InLock
<1>6. AboutAssignee /\ TargetKnown /\ DraftSound
  BY DEF Init, AboutAssignee, TargetKnown, DraftSound
<1> QED BY <1>3, <1>4, <1>5, <1>6 DEF IInv

\* A command that leaves the lock lets nobody else into it.
LEMMA LeavesLock ==
  ASSUME TypeOK, LockHeld, NEW c \in Commands, pc[c] \in InLock,
         NEW place \in Places \ InLock, Goto(c, place), Unlock(c)
  PROVE  /\ pc' \in [Commands -> Places] /\ holder' \in [Deployments -> Commands \cup {Free}]
         /\ LockHeld'
BY CheckRecordAssumption DEF TypeOK, LockHeld, Goto, Unlock

\* Where a command goes after its write.
LEMMA AfterWritePlaces ==
  ASSUME NEW o \in Operation
  PROVE  /\ AfterWrite(o) \in Places \ InLock
         /\ AfterWrite(o) # "writing"
         /\ AfterWrite(o) = "assigning" => o.kind = "assign"
         /\ AfterWrite(o) = "unassigning" => o.kind \in {"assign", "remove"}
BY DEF AfterWrite, Places, InLock, Ended

\* The number of failures stays within its bound.
LEMMA FaultBounded == TypeOK /\ Fault => faults' \in 0..MaxFaults
BY CheckRecordAssumption DEF TypeOK, Fault

\* A step of a command that leaves the comments as they are, takes the command
\* out of the lock and touches nothing but the faults.
LEMMA EndsUnwritten ==
  ASSUME IInv, NEW c \in Commands, pc[c] \in InLock,
         NEW place \in Ended, Goto(c, place), Unlock(c), faults' \in 0..MaxFaults,
         UNCHANGED <<comments, op, target, draft, replaced, tries, assignees, edits,
                     landed, stale, kept>>
  PROVE  IInv'
<1>1. place \in Places \ InLock /\ place \notin {"assigning", "unassigning", "writing"}
  BY DEF Places, InLock, Ended
<1>2. pc' \in [Commands -> Places] /\ holder' \in [Deployments -> Commands \cup {Free}] /\ LockHeld'
  BY <1>1, LeavesLock DEF IInv
<1>3. TypeOK'
  BY <1>2 DEF IInv, TypeOK
<1>4. AboutAssignee' /\ TargetKnown' /\ DraftSound'
  BY <1>1 DEF IInv, TypeOK, Goto, AboutAssignee, TargetKnown, DraftSound
<1> QED BY <1>2, <1>3, <1>4 DEF IInv, TrustedIsConflictFree

\* The same, for a write that landed.
LEMMA EndsWritten ==
  ASSUME IInv, NEW c \in Commands, pc[c] = "writing", Land(c),
         NEW place \in Places \ InLock, Goto(c, place), Unlock(c), faults' \in 0..MaxFaults,
         place = "assigning" => op[c].kind = "assign",
         place = "unassigning" => op[c].kind \in {"assign", "remove"},
         UNCHANGED <<op, target, draft, replaced, tries, assignees, edits>>
  PROVE  IInv'
<1>1. place # "writing" /\ pc[c] \in InLock
  BY DEF InLock
<1>2. pc' \in [Commands -> Places] /\ holder' \in [Deployments -> Commands \cup {Free}] /\ LockHeld'
  BY <1>1, LeavesLock DEF IInv
<1>3. TypeOK'
  BY <1>2, LandKeeps DEF IInv, TypeOK
<1>4. AboutAssignee' /\ DraftSound'
  BY <1>1 DEF IInv, TypeOK, Goto, AboutAssignee, DraftSound
<1>5. TargetKnown'
  <2>1. Len(comments) \in Nat
    BY LenProperties DEF IInv, TypeOK
  <2> QED BY <1>1, <2>1, LandKeeps DEF IInv, TypeOK, Goto, TargetKnown
<1> QED BY <1>2, <1>3, <1>4, <1>5, LandKeeps DEF IInv

\* Reading: the draft is typed, and sound where it will be written.
LEMMA ReadKeeps ==
  ASSUME IInv, NEW c \in Commands, Read(c)
  PROVE  IInv'
<1> DEFINE verdict == Verdict(op[c], comments)
           writes == verdict = "writing"
           new == [roles |-> IF writes THEN Applied(op[c], Shown(comments)) ELSE EmptyRecord,
                   acceptedBy |-> IF op[c].kind = "accept" THEN op[c].who
                                  ELSE AcceptedBy(comments)]
<1>1. comments \in Seq(Comment) /\ op[c] \in Operation
  BY DEF IInv, TypeOK
<1>2. /\ pc[c] = "reading" /\ pc' = [pc EXCEPT ![c] = verdict]
      /\ IF writes THEN UNCHANGED holder ELSE Unlock(c)
      /\ target' = [target EXCEPT ![c] = Oldest(comments)]
      /\ draft' = [draft EXCEPT ![c] = new]
      /\ UNCHANGED <<comments, op, tries, assignees, edits, faults, landed, kept>>
  BY DEF Read, Goto
<1>3. verdict \in {"writing", "failed", "tampered", "refused", "unchanged"}
  BY DEF Verdict
<1>4. op[c].kind = "accept" => op[c].who \in People
  BY <1>1 DEF Operation
<1>5. new \in Draft
  <2>1. EmptyRecord \in Record
    BY DEF EmptyRecord, Record
  <2> QED BY <1>1, <1>4, <2>1, AppliedKeeps, ReadingTyped DEF Draft
<1>6. Signs /\ writes /\ new.acceptedBy = Nobody => ConflictFree(new.roles)
  <2> SUFFICES ASSUME Signs, writes, new.acceptedBy = Nobody PROVE ConflictFree(new.roles)
    OBVIOUS
  <2>1. op[c].kind # "accept" /\ AcceptedBy(comments) = Nobody
    BY <1>4, RolesAssumption
  <2>2. ConflictFree(Applied(op[c], Shown(comments)))
    BY <1>1, <2>1, VerdictDrafts DEF IInv, TrustedIsConflictFree
  <2> QED BY <2>2
<1>7. replaced' \in [Commands -> People \cup {Nobody}]
  <2>1. Shown(comments).assignedCodechecker \in People \cup {Nobody}
    BY <1>1, ReadingTyped DEF Record
  <2> QED BY <2>1 DEF Read, IInv, TypeOK
<1>8. /\ Oldest(comments) \in 0..Len(comments) /\ Oldest(comments) \in Nat
      /\ stale' \subseteq Commands
  <2>1. Len(comments) \in Nat
    BY <1>1, LenProperties
  <2> QED BY <1>1, <2>1, OldestStands DEF Read, IInv, TypeOK
<1> HIDE DEF verdict, new
<1>9. pc' \in [Commands -> Places] /\ holder' \in [Deployments -> Commands \cup {Free}] /\ LockHeld'
  <2>1. CASE writes
    BY <1>2, <2>1 DEF IInv, TypeOK, LockHeld, Places, InLock
  <2>2. CASE ~ writes
    <3>1. verdict \in Places \ InLock /\ pc[c] \in InLock
      BY <1>2, <1>3, <2>2 DEF Places, InLock, Ended
    <3>2. Goto(c, verdict) /\ Unlock(c)
      BY <1>2, <2>2 DEF Goto
    <3> QED BY <3>1, <3>2, LeavesLock DEF IInv
  <2> QED BY <2>1, <2>2
<1>10. TypeOK'
  BY <1>2, <1>5, <1>7, <1>8, <1>9 DEF IInv, TypeOK
<1>11. AboutAssignee' /\ TargetKnown' /\ DraftSound'
  BY <1>2, <1>3, <1>6, <1>8 DEF IInv, TypeOK, AboutAssignee, TargetKnown, DraftSound
<1> QED BY <1>2, <1>9, <1>10, <1>11 DEF IInv, TrustedIsConflictFree

\* A person's edit leaves no signature that matches.
LEMMA HandEditKeeps ==
  ASSUME IInv, NEW i \in 1..Len(comments), HandEdit(i)
  PROVE  IInv'
<1>1. comments \in Seq(Comment) /\ Len(comments) \in Nat /\ comments[i] \in Comment
  BY LenProperties, ElementOfSeq DEF IInv, TypeOK
<1>2. PICK new \in Comment : comments' = [comments EXCEPT ![i] = new] /\ new.seal # "signed"
  <2>1. ASSUME NEW roles \in HandEdits, NEW seal \in {"broken", "unsigned"},
               comments' = [comments EXCEPT ![i].status = "record", ![i].roles = roles,
                                            ![i].seal = seal]
        PROVE  \E new \in Comment : comments' = [comments EXCEPT ![i] = new] /\ new.seal # "signed"
    <3> DEFINE new == [comments[i] EXCEPT !.status = "record", !.roles = roles, !.seal = seal]
    <3>1. comments' = [comments EXCEPT ![i] = new]
      BY <2>1
    <3>2. new \in Comment /\ new.seal # "signed"
      BY <1>1, <2>1, CheckRecordAssumption DEF Comment
    <3> QED BY <3>1, <3>2
  <2>2. ASSUME NEW status \in {"garbled", "deleted"},
               comments' = [comments EXCEPT ![i].status = status, ![i].seal = "broken"]
        PROVE  \E new \in Comment : comments' = [comments EXCEPT ![i] = new] /\ new.seal # "signed"
    <3> DEFINE new == [comments[i] EXCEPT !.status = status, !.seal = "broken"]
    <3>1. comments' = [comments EXCEPT ![i] = new]
      BY <2>2
    <3>2. new \in Comment /\ new.seal # "signed"
      BY <1>1, <2>2 DEF Comment
    <3> QED BY <3>1, <3>2
  <2> QED BY <2>1, <2>2 DEF HandEdit
<1>3. /\ comments' \in Seq(Comment) /\ Len(comments') = Len(comments)
      /\ \A j \in 1..Len(comments) : comments'[j] = IF j = i THEN new ELSE comments[j]
  BY <1>1, <1>2, ExceptSeq
<1>4. TrustedIsConflictFree'
  BY <1>2, <1>3 DEF IInv, TrustedIsConflictFree
<1>5. kept' \in Record
  BY <1>1, ReadingTyped DEF HandEdit, IInv, TypeOK
<1>6. edits' \in 0..MaxEdits
  <2>1. edits \in 0..MaxEdits /\ MaxEdits \in Nat
    BY CheckRecordAssumption DEF IInv, TypeOK
  <2>2. edits < MaxEdits /\ edits' = edits + 1
    BY DEF HandEdit
  <2> QED BY <2>1, <2>2
<1>7. UNCHANGED <<holder, pc, op, target, draft, replaced, tries, assignees, faults, landed, stale>>
  BY DEF HandEdit
<1>8. TypeOK'
  BY <1>3, <1>5, <1>6, <1>7 DEF IInv, TypeOK
<1>9. LockHeld' /\ AboutAssignee' /\ TargetKnown' /\ DraftSound'
  BY <1>3, <1>7 DEF IInv, LockHeld, AboutAssignee, TargetKnown, DraftSound
<1> QED BY <1>4, <1>8, <1>9 DEF IInv

\* A restart takes every command of the deployment out of its lock.
LEMMA RestartKeeps ==
  ASSUME IInv, NEW d \in Deployments, Restart(d)
  PROVE  IInv'
<1>1. PICK lost \in SUBSET Commands :
        /\ \A c \in Commands : c \in lost <=>
             DeploymentOf[c] = d /\ pc[c] \notin Ended \cup {"idle"}
        /\ pc' = [c \in Commands |-> IF c \in lost THEN "failed" ELSE pc[c]]
        /\ holder' = [holder EXCEPT ![d] = Free]
        /\ Fault
        /\ UNCHANGED <<comments, op, target, draft, replaced, tries, assignees, edits,
                       landed, stale, kept>>
  BY DEF Restart
<1>2. TypeOK'
  <2>1. pc' \in [Commands -> Places]
    BY <1>1 DEF IInv, TypeOK, Places, Ended
  <2>2. holder' \in [Deployments -> Commands \cup {Free}]
    BY <1>1 DEF IInv, TypeOK
  <2>3. faults' \in 0..MaxFaults
    BY <1>1, FaultBounded DEF IInv
  <2> QED BY <1>1, <2>1, <2>2, <2>3 DEF IInv, TypeOK
<1>3. LockHeld'
  <2> SUFFICES ASSUME NEW c \in Commands
               PROVE  pc'[c] \in InLock <=> holder'[DeploymentOf[c]] = c
    BY DEF LockHeld
  <2>1. DeploymentOf[c] \in Deployments /\ Free \notin Commands
    BY CheckRecordAssumption
  <2>2. CASE DeploymentOf[c] = d
    BY <1>1, <2>1, <2>2 DEF IInv, TypeOK, InLock, Ended
  <2>3. CASE DeploymentOf[c] # d
    BY <1>1, <2>1, <2>3 DEF IInv, TypeOK, LockHeld
  <2> QED BY <2>2, <2>3
<1>4. AboutAssignee' /\ TargetKnown' /\ DraftSound'
  BY <1>1 DEF IInv, AboutAssignee, TargetKnown, DraftSound
<1> QED BY <1>1, <1>2, <1>3, <1>4 DEF IInv, TrustedIsConflictFree

\* The assignee is set and taken off outside the lock, and of people only.
LEMMA AssigneeKeeps ==
  ASSUME IInv, NEW c \in Commands, Assign(c) \/ Unassign(c) \/ AssigneeFails(c)
  PROVE  IInv'
<1>1. op[c] \in Operation
  BY DEF IInv, TypeOK
<1>2. op[c].kind \in {"assign", "remove"} => op[c].who \in People
  BY <1>1 DEF Operation
<1>3. PICK place \in {"done", "unassigning", "partial"} :
        /\ Goto(c, place)
        /\ place = "unassigning" => op[c].kind = "assign"
        /\ pc[c] \notin InLock
        /\ UNCHANGED <<comments, holder, op, target, draft, replaced, tries, edits,
                       landed, stale, kept>>
  BY DEF Assign, Unassign, AssigneeFails, IInv, AboutAssignee, InLock
<1>4. assignees' \subseteq People
  BY <1>2 DEF Assign, Unassign, AssigneeFails, IInv, TypeOK, AboutAssignee
<1>5. faults' \in 0..MaxFaults
  BY FaultBounded DEF Assign, Unassign, AssigneeFails, IInv, TypeOK
<1>6. pc' \in [Commands -> Places]
  BY <1>3 DEF IInv, TypeOK, Goto, Places, Ended
<1>7. TypeOK'
  BY <1>3, <1>4, <1>5, <1>6 DEF IInv, TypeOK
<1>8. LockHeld' /\ AboutAssignee' /\ TargetKnown' /\ DraftSound'
  BY <1>3 DEF IInv, TypeOK, LockHeld, AboutAssignee, TargetKnown, DraftSound, Goto, InLock
<1> QED BY <1>3, <1>7, <1>8 DEF IInv, TrustedIsConflictFree

\* A write that is sent again keeps the lock and the draft.
LEMMA RetriedKeeps ==
  ASSUME IInv, NEW c \in Commands, WriteRetried(c)
  PROVE  IInv'
<1>1. /\ pc[c] = "writing"
      /\ Land(c) \/ NotLand
      /\ tries' = [tries EXCEPT ![c] = tries[c] + 1]
      /\ UNCHANGED <<holder, pc, op, target, draft, replaced, assignees, edits>>
  BY DEF WriteRetried
<1>2. comments \in Seq(Comment) /\ Len(comments) \in Nat
  BY LenProperties DEF IInv, TypeOK
<1>3. /\ comments' \in Seq(Comment) /\ Len(comments') \in Nat
      /\ Len(comments') >= Len(comments)
      /\ landed' \subseteq Commands /\ stale' \subseteq Commands /\ kept' \in Record
      /\ TrustedIsConflictFree'
  <2>1. CASE Land(c)
    BY <1>1, <2>1, LandKeeps
  <2>2. CASE NotLand
    BY <1>2, <2>2 DEF NotLand, IInv, TypeOK, TrustedIsConflictFree
  <2> QED BY <1>1, <2>1, <2>2
<1>4. tries' \in [Commands -> Nat]
  BY <1>1 DEF IInv, TypeOK
<1>5. faults' \in 0..MaxFaults
  BY FaultBounded DEF WriteRetried, IInv
<1>6. TypeOK'
  BY <1>1, <1>3, <1>4, <1>5 DEF IInv, TypeOK
<1>7. TargetKnown'
  BY <1>1, <1>2, <1>3 DEF IInv, TargetKnown
<1>8. LockHeld' /\ AboutAssignee' /\ DraftSound'
  BY <1>1 DEF IInv, LockHeld, AboutAssignee, DraftSound
<1> QED BY <1>3, <1>6, <1>7, <1>8 DEF IInv

\* Every step of a command, of a person and of a deployment keeps the invariant.
LEMMA RecordStepKeeps == IInv /\ [Next]_vars => IInv'
<1> SUFFICES ASSUME IInv, [Next]_vars PROVE IInv'
  OBVIOUS
<1>1. faults \in 0..MaxFaults
  BY DEF IInv, TypeOK
<1>2. ASSUME NEW c \in Commands, Receive(c) PROVE IInv'
  <2>1. TypeOK'
    <3>1. PICK place \in {"waiting", "refused"} : pc' = [pc EXCEPT ![c] = place]
      BY <1>2 DEF Receive, Goto
    <3>2. pc' \in [Commands -> Places]
      BY <3>1 DEF IInv, TypeOK, Places, Ended
    <3> QED BY <1>2, <3>2 DEF Receive, IInv, TypeOK
  <2>2. LockHeld'
    BY <1>2 DEF Receive, Goto, IInv, TypeOK, LockHeld, InLock
  <2>3. AboutAssignee' /\ TargetKnown' /\ DraftSound' /\ TrustedIsConflictFree'
    BY <1>2 DEF Receive, Goto, IInv, TypeOK, AboutAssignee, TargetKnown, DraftSound,
                TrustedIsConflictFree
  <2> QED BY <2>1, <2>2, <2>3 DEF IInv
<1>3. ASSUME NEW c \in Commands, Lock(c) PROVE IInv'
  <2>1. TypeOK'
    BY <1>3 DEF Lock, Goto, IInv, TypeOK, Places, InLock
  <2>2. LockHeld'
    <3>1. /\ pc[c] = "waiting" /\ holder[DeploymentOf[c]] = Free
          /\ pc' = [pc EXCEPT ![c] = "reading"]
          /\ holder' = [holder EXCEPT ![DeploymentOf[c]] = c]
      BY <1>3 DEF Lock, Goto
    <3>2. \A e \in Commands \ {c} :
            /\ pc'[e] = pc[e]
            /\ holder'[DeploymentOf[e]] =
                 IF DeploymentOf[e] = DeploymentOf[c] THEN c ELSE holder[DeploymentOf[e]]
      BY <3>1, CheckRecordAssumption DEF IInv, TypeOK
    <3>3. \A e \in Commands \ {c} : DeploymentOf[e] = DeploymentOf[c] => pc[e] \notin InLock
      BY <3>1, CheckRecordAssumption DEF IInv, LockHeld
    <3>4. pc'[c] \in InLock /\ holder'[DeploymentOf[c]] = c
      BY <3>1, CheckRecordAssumption DEF IInv, TypeOK, InLock
    <3> QED BY <3>2, <3>3, <3>4 DEF IInv, LockHeld
  <2>3. AboutAssignee' /\ TargetKnown' /\ DraftSound' /\ TrustedIsConflictFree'
    BY <1>3 DEF Lock, Goto, IInv, TypeOK, AboutAssignee, TargetKnown, DraftSound,
                TrustedIsConflictFree
  <2> QED BY <2>1, <2>2, <2>3 DEF IInv
<1>4. ASSUME NEW c \in Commands, ReadFails(c) PROVE IInv'
  BY <1>4, FaultBounded, EndsUnwritten DEF ReadFails, IInv, InLock, Ended
<1>5. ASSUME NEW c \in Commands, TargetGone(c) PROVE IInv'
  BY <1>1, <1>5, EndsUnwritten DEF TargetGone, InLock, Ended
<1>6. ASSUME NEW c \in Commands, WriteAnswered(c) PROVE IInv'
  <2>1. op[c] \in Operation
    BY DEF IInv, TypeOK
  <2> QED BY <1>1, <1>6, <2>1, AfterWritePlaces, EndsWritten DEF WriteAnswered
<1>7. ASSUME NEW c \in Commands, WriteFails(c) PROVE IInv'
  <2>1. faults' \in 0..MaxFaults
    BY <1>7, FaultBounded DEF WriteFails, IInv
  <2>2. "failed" \in Ended /\ "failed" \in Places \ InLock
    BY DEF Ended, Places, InLock
  <2>3. CASE Land(c)
    BY <1>7, <2>1, <2>2, <2>3, EndsWritten DEF WriteFails
  <2>4. CASE NotLand
    BY <1>7, <2>1, <2>2, <2>4, EndsUnwritten DEF WriteFails, NotLand, InLock
  <2> QED BY <1>7, <2>3, <2>4 DEF WriteFails
<1>8. CASE UNCHANGED vars
  BY <1>8 DEF vars, IInv, TypeOK, LockHeld, AboutAssignee, TargetKnown, DraftSound,
              TrustedIsConflictFree
<1> QED
  BY <1>2, <1>3, <1>4, <1>5, <1>6, <1>7, <1>8, ReadKeeps, HandEditKeeps, RestartKeeps,
     AssigneeKeeps, RetriedKeeps DEF Next, Work, Fails, Stutter

\* The invariant of the record: types, locks, drafts and trusted comments.
THEOREM RecordInvariance == Spec => []IInv
BY RecordInitially, RecordStepKeeps, PTL DEF Spec

\* The comments, locks, drafts and places of the commands keep their types.
THEOREM RecordTypes == Spec => []TypeOK
BY RecordInvariance, PTL DEF IInv

\* No record that verifies and that nobody adopted has a conflict of interest,
\* whatever is written into the comments by hand (Grant, Update).
THEOREM TrustedRecordsAreSound == Spec => []TrustedIsConflictFree
BY RecordInvariance, PTL DEF IInv

-----------------------------------------------------------------------------
(* One deployment.                                                          *)

\* Every command arrives at the same process.
SoleDeployment == \A c, d \in Commands : DeploymentOf[c] = DeploymentOf[d]

\* With one deployment its lock is the only one: no reading is ever outdated by
\* another command's write (Update).
THEOREM SoleDeploymentLosesNothing ==
  ASSUME SoleDeployment
  PROVE  Spec => []NoLostUpdate
<1> DEFINE Fresh == stale = {}
<1>1. Init => Fresh
  BY DEF Init
<1>2. IInv /\ Fresh /\ [Next]_vars => Fresh'
  <2> SUFFICES ASSUME IInv, Fresh, [Next]_vars PROVE Fresh'
    OBVIOUS
  <2>1. ASSUME NEW c \in Commands, pc[c] = "writing", Land(c) PROVE Fresh'
    <3>1. holder[DeploymentOf[c]] = c
      BY <2>1 DEF IInv, LockHeld, InLock
    <3>2. ASSUME NEW d \in Commands \ {c} PROVE pc[d] # "writing"
      BY <3>1, SoleDeployment DEF SoleDeployment, IInv, LockHeld, InLock
    <3> QED BY <2>1, <3>2 DEF Land
  <2> QED
    BY <2>1 DEF Next, Work, Fails, Stutter, vars, Receive, Lock, Read, ReadFails, NotLand,
       WriteAnswered, WriteRetried, WriteFails, TargetGone, Assign, Unassign, AssigneeFails,
       HandEdit, Restart
<1>3. Fresh => NoLostUpdate
  BY DEF NoLostUpdate
<1> QED BY <1>1, <1>2, <1>3, RecordInvariance, PTL DEF Spec

-----------------------------------------------------------------------------
(* One deployment that signs implements the store.                          *)

\* A least member of a set of numbers is the one CHOOSE finds.
LEMMA OldestIs ==
  ASSUME NEW cs \in Seq(Comment), NEW i \in Standing(cs), \A j \in Standing(cs) : i <= j
  PROVE  Oldest(cs) = i
<1>1. Standing(cs) # {} /\ Standing(cs) \subseteq Nat
  BY LenProperties DEF Standing
<1>2. Oldest(cs) = CHOOSE k \in Standing(cs) : \A j \in Standing(cs) : k <= j
  BY <1>1 DEF Oldest
<1>3. Oldest(cs) \in Standing(cs) /\ \A j \in Standing(cs) : Oldest(cs) <= j
  BY <1>2
<1>4. i <= Oldest(cs) /\ Oldest(cs) <= i /\ i \in Nat /\ Oldest(cs) \in Nat
  BY <1>1, <1>3
<1> QED BY <1>4

\* The record is the first of the comments that stand, and there is none only
\* when no comment stands.
LEMMA OldestIsFirst ==
  ASSUME NEW cs \in Seq(Comment)
  PROVE  IF Oldest(cs) = 0 THEN Standing(cs) = {}
         ELSE Oldest(cs) \in Standing(cs) /\ \A j \in Standing(cs) : Oldest(cs) <= j
<1>1. Len(cs) \in Nat
  BY LenProperties
<1>2. Standing(cs) \in SUBSET Nat /\ 0 \notin Standing(cs)
  BY <1>1 DEF Standing
<1>3. CASE Standing(cs) = {}
  BY <1>3 DEF Oldest
<1>4. CASE Standing(cs) # {}
  <2>1. \E i \in Standing(cs) : \A j \in Standing(cs) : i <= j
    BY <1>2, <1>4, LeastNumber
  <2>2. Oldest(cs) \in Standing(cs) /\ \A j \in Standing(cs) : Oldest(cs) <= j
    BY <1>4, <2>1 DEF Oldest
  <2> QED BY <1>2, <2>2
<1> QED BY <1>3, <1>4

\* The record a change may be built on, of the comments as they are.
LatestTrusted == IF Trusted(comments) THEN Shown(comments) ELSE kept

\* A command that has not reached its write has changed nothing.
NothingYet == \A c \in Commands : pc[c] \in {"idle", "waiting", "reading"} => c \notin landed

\* What a command is about to write is its change of the latest record that
\* can be trusted, or once more the change it has made.
DraftIsTheChange ==
  \A c \in Commands : pc[c] = "writing" =>
    /\ target[c] = 0 =>
         /\ op[c].kind # "accept" /\ (Oldest(comments) = 0 \/ c \in landed)
         /\ draft[c].roles = Applied(op[c], EmptyRecord) /\ ~ Conflicting(op[c], EmptyRecord)
    /\ target[c] # 0 /\ comments[target[c]].status # "deleted" =>
         /\ Oldest(comments) = target[c]
         /\ op[c].kind # "accept" =>
              IF c \in landed THEN draft[c].roles = LatestTrusted
              ELSE draft[c].roles = Applied(op[c], LatestTrusted)
                   /\ ~ Conflicting(op[c], LatestTrusted)

RInv == NothingYet /\ DraftIsTheChange

\* A draft written over the record, or posted where no comment stands, is the
\* record from then on; posted elsewhere it is one nobody reads.
LEMMA LandShows ==
  ASSUME IInv, RInv, Signs, NEW c \in Commands, pc[c] = "writing", Land(c)
  PROVE  IF target[c] = 0 /\ Oldest(comments) # 0
         THEN /\ c \in landed
              /\ Shown(comments)' = Shown(comments)
              /\ Trusted(comments)' = Trusted(comments)
         ELSE /\ Shown(comments)' = draft[c].roles
              /\ Trusted(comments)'
              /\ target[c] # 0 => /\ Oldest(comments)' = target[c]
                                  /\ Oldest(comments) = target[c]
                                  /\ comments'[target[c]].status = "record"
<1>1. comments \in Seq(Comment) /\ Len(comments) \in Nat
  BY LenProperties DEF IInv, TypeOK
<1>2. draft[c] \in Draft /\ target[c] \in 0..Len(comments)
  BY DEF IInv, TypeOK, TargetKnown
<1> DEFINE new == Written(draft[c])
<1>3. /\ new \in Comment /\ new.status = "record" /\ new.roles = draft[c].roles
      /\ new.seal = "signed"
  BY <1>2, WrittenTyped DEF Written
<1> HIDE DEF new
<1>4. CASE target[c] = 0
  <2>1. comments' = Append(comments, new)
    BY <1>4 DEF Land, new
  <2>2. /\ comments' \in Seq(Comment) /\ Len(comments') = Len(comments) + 1
        /\ \A i \in 1..Len(comments) : comments'[i] = comments[i]
        /\ comments'[Len(comments) + 1] = new
    BY <1>1, <1>3, <2>1, AppendProperties
  <2>3. Standing(comments') = Standing(comments) \cup {Len(comments) + 1}
    <3>1. \A i \in 1..Len(comments') : i \in 1..Len(comments) \/ i = Len(comments) + 1
      BY <1>1, <2>2
    <3>2. 1..Len(comments) \subseteq 1..Len(comments') /\ Len(comments) + 1 \in 1..Len(comments')
      BY <1>1, <2>2
    <3>3. new.status # "deleted"
      BY <1>3
    <3> QED BY <2>2, <3>1, <3>2, <3>3 DEF Standing
  <2>4. \A i \in Standing(comments) : i \in 1..Len(comments) /\ i <= Len(comments) + 1
    BY <1>1 DEF Standing
  <2>5. CASE Oldest(comments) # 0
    <3>1. Oldest(comments) \in Standing(comments)
          /\ \A j \in Standing(comments) : Oldest(comments) <= j
      BY <1>1, <2>5, OldestIsFirst
    <3>2. Oldest(comments') = Oldest(comments)
      BY <2>2, <2>3, <2>4, <3>1, OldestIs
    <3>3. comments'[Oldest(comments')] = comments[Oldest(comments)]
      BY <2>2, <2>4, <3>1, <3>2
    <3>4. c \in landed
      BY <1>4, <2>5 DEF RInv, DraftIsTheChange
    <3> QED BY <1>4, <2>5, <3>2, <3>3, <3>4 DEF Shown, Trusted, Garbled
  <2>6. CASE Oldest(comments) = 0
    <3>1. Standing(comments') = {Len(comments) + 1}
      BY <1>1, <2>3, <2>6, OldestIsFirst
    <3>2. Len(comments) + 1 \in Nat /\ Len(comments) + 1 # 0
      BY <1>1
    <3>3. Oldest(comments') = Len(comments) + 1
      <4>1. \A j \in Standing(comments') : Len(comments) + 1 <= j
        BY <3>1, <3>2
      <4>2. Len(comments) + 1 \in Standing(comments') /\ comments' \in Seq(Comment)
        BY <2>2, <3>1
      <4> QED BY <4>1, <4>2, OldestIs
    <3>4. comments'[Oldest(comments')] = new /\ Oldest(comments') # 0
      BY <2>2, <3>2, <3>3
    <3> QED BY <1>3, <1>4, <2>6, <3>4 DEF Shown, Trusted, Garbled, Verifies
  <2> QED BY <2>5, <2>6
<1>5. CASE target[c] # 0
  <2>1. comments' = [comments EXCEPT ![target[c]] = new] /\ comments[target[c]].status # "deleted"
    BY <1>5 DEF Land, new
  <2>2. target[c] \in 1..Len(comments)
    BY <1>1, <1>2, <1>5
  <2>3. /\ comments' \in Seq(Comment) /\ Len(comments') = Len(comments)
        /\ \A i \in 1..Len(comments) :
             comments'[i] = IF i = target[c] THEN new ELSE comments[i]
    BY <1>1, <1>3, <2>1, <2>2, ExceptSeq
  <2>4. Standing(comments') = Standing(comments)
    <3>1. new.status # "deleted"
      BY <1>3
    <3> QED BY <2>1, <2>2, <2>3, <3>1 DEF Standing
  <2>5. Oldest(comments) = target[c]
    BY <1>5, <2>1 DEF RInv, DraftIsTheChange
  <2>6. Oldest(comments') = target[c]
    BY <1>1, <1>5, <2>3, <2>4, <2>5, OldestIsFirst, OldestIs
  <2>7. comments'[target[c]] = new
    BY <2>2, <2>3
  <2> QED BY <1>3, <1>5, <2>5, <2>6, <2>7 DEF Shown, Trusted, Garbled, Verifies
<1> QED BY <1>4, <1>5

\* What a person writes into the record is never trusted by a deployment with
\* a key, and editing another comment changes nothing that is read.
LEMMA HandEditShows ==
  ASSUME IInv, Signs, NEW i \in 1..Len(comments), HandEdit(i)
  PROVE  /\ \A j \in 1..Len(comments) :
              comments'[j].status # "deleted" => comments[j].status # "deleted"
         /\ Oldest(comments) # 0
         /\ comments'[Oldest(comments)].status # "deleted" =>
              Oldest(comments') = Oldest(comments) /\ LatestTrusted' = LatestTrusted
<1>1. comments \in Seq(Comment) /\ Len(comments) \in Nat /\ comments[i] \in Comment
  BY LenProperties, ElementOfSeq DEF IInv, TypeOK
<1>2. i \in Standing(comments)
  BY DEF HandEdit
<1>3. PICK new \in Comment : comments' = [comments EXCEPT ![i] = new] /\ new.seal # "signed"
  <2>1. ASSUME NEW roles \in HandEdits, NEW seal \in {"broken", "unsigned"},
               comments' = [comments EXCEPT ![i].status = "record", ![i].roles = roles,
                                            ![i].seal = seal]
        PROVE  \E new \in Comment : comments' = [comments EXCEPT ![i] = new] /\ new.seal # "signed"
    <3> DEFINE new == [comments[i] EXCEPT !.status = "record", !.roles = roles, !.seal = seal]
    <3>1. comments' = [comments EXCEPT ![i] = new]
      BY <2>1
    <3>2. new \in Comment /\ new.seal # "signed"
      BY <1>1, <2>1, CheckRecordAssumption DEF Comment
    <3> QED BY <3>1, <3>2
  <2>2. ASSUME NEW status \in {"garbled", "deleted"},
               comments' = [comments EXCEPT ![i].status = status, ![i].seal = "broken"]
        PROVE  \E new \in Comment : comments' = [comments EXCEPT ![i] = new] /\ new.seal # "signed"
    <3> DEFINE new == [comments[i] EXCEPT !.status = status, !.seal = "broken"]
    <3>1. comments' = [comments EXCEPT ![i] = new]
      BY <2>2
    <3>2. new \in Comment /\ new.seal # "signed"
      BY <1>1, <2>2 DEF Comment
    <3> QED BY <3>1, <3>2
  <2> QED BY <2>1, <2>2 DEF HandEdit
<1>4. /\ comments' \in Seq(Comment) /\ Len(comments') = Len(comments)
      /\ \A j \in 1..Len(comments) : comments'[j] = IF j = i THEN new ELSE comments[j]
  BY <1>1, <1>3, ExceptSeq
<1>5. \A j \in 1..Len(comments) : comments'[j].status # "deleted" => comments[j].status # "deleted"
  BY <1>2, <1>4 DEF Standing
<1>6. Oldest(comments) # 0
  BY <1>1, <1>2, OldestIsFirst
<1>7. ASSUME comments'[Oldest(comments)].status # "deleted"
      PROVE  Oldest(comments') = Oldest(comments) /\ LatestTrusted' = LatestTrusted
  <2> DEFINE o == Oldest(comments)
  <2>1. o \in Standing(comments) /\ \A j \in Standing(comments) : o <= j
    BY <1>1, <1>6, OldestIsFirst
  <2>2. Standing(comments') \subseteq Standing(comments)
    BY <1>4, <1>5 DEF Standing
  <2>3. o \in Standing(comments')
    BY <1>4, <1>7, <2>1 DEF Standing
  <2>4. Oldest(comments') = o
    BY <1>4, <2>1, <2>2, <2>3, OldestIs
  <2>5. o \in 1..Len(comments)
    BY <2>1 DEF Standing
  <2>6. CASE o = i
    <3>1. comments'[Oldest(comments')] = new
      BY <1>4, <2>4, <2>5, <2>6
    <3>2. ~ Trusted(comments')
      BY <1>3, <1>6, <2>4, <3>1 DEF Trusted, Verifies
    <3>3. kept' = LatestTrusted
      BY DEF HandEdit, LatestTrusted
    <3> QED BY <2>4, <3>2, <3>3 DEF LatestTrusted
  <2>7. CASE o # i
    <3>1. comments'[Oldest(comments')] = comments[Oldest(comments)]
      BY <1>4, <2>4, <2>5, <2>7
    <3>2. Trusted(comments') = Trusted(comments) /\ Shown(comments') = Shown(comments)
      BY <2>4, <3>1 DEF Trusted, Shown, Garbled
    <3>3. kept' = LatestTrusted
      BY DEF HandEdit, LatestTrusted
    <3> QED BY <2>4, <3>2, <3>3 DEF LatestTrusted
  <2> QED BY <2>6, <2>7
<1> QED BY <1>5, <1>6, <1>7

\* With one lock, nobody else writes while a command does.
LEMMA NobodyElseWrites ==
  ASSUME SoleDeployment, IInv, NEW c \in Commands, pc[c] \in InLock, NEW d \in Commands, d # c
  PROVE  pc[d] \notin InLock
<1>1. holder[DeploymentOf[c]] = c
  BY DEF IInv, LockHeld
<1>2. DeploymentOf[d] = DeploymentOf[c]
  BY DEF SoleDeployment
<1> QED BY <1>1, <1>2 DEF IInv, LockHeld

\* A write that lands leaves what its command would write again, and no other
\* command is at its write.
LEMMA LandKeepsChange ==
  ASSUME SoleDeployment, Signs, IInv, RInv, NEW c \in Commands, pc[c] = "writing", Land(c),
         UNCHANGED <<op, target, draft>>, NEW place \in {"writing"} \cup (Places \ InLock),
         place \notin {"idle", "waiting"}, Goto(c, place)
  PROVE  RInv'
<1>1. pc' = [pc EXCEPT ![c] = place] /\ landed' = landed \cup {c}
  BY DEF Land, Goto
<1>2. \A d \in Commands : IF d = c THEN pc'[d] = place ELSE pc'[d] = pc[d]
  BY <1>1 DEF IInv, TypeOK
<1>3. \A d \in Commands : d # c => pc[d] \notin InLock
  BY NobodyElseWrites DEF InLock
<1>4. NothingYet'
  BY <1>1, <1>2 DEF RInv, NothingYet, InLock
<1>5. DraftIsTheChange'
  <2> SUFFICES ASSUME NEW d \in Commands, pc'[d] = "writing"
               PROVE  /\ target[d] = 0 =>
                           /\ op[d].kind # "accept" /\ d \in landed'
                           /\ draft[d].roles = Applied(op[d], EmptyRecord)
                           /\ ~ Conflicting(op[d], EmptyRecord)
                      /\ target[d] # 0 =>
                           /\ Oldest(comments)' = target[d]
                           /\ d \in landed' /\ draft[d].roles = LatestTrusted'
    BY DEF DraftIsTheChange
  <2>1. d = c
    BY <1>2, <1>3 DEF InLock
  <2>2. target[c] = 0 =>
          /\ op[c].kind # "accept" /\ draft[c].roles = Applied(op[c], EmptyRecord)
          /\ ~ Conflicting(op[c], EmptyRecord)
    BY DEF RInv, DraftIsTheChange
  <2>3. target[c] # 0 => Oldest(comments)' = target[c] /\ draft[c].roles = LatestTrusted'
    BY LandShows DEF LatestTrusted
  <2> QED BY <1>1, <2>1, <2>2, <2>3
<1> QED BY <1>4, <1>5 DEF RInv

\* A step that leaves the comments and the drafts alone, and takes nobody to a
\* reading or a write, changes nothing of the argument.
LEMMA QuietKeeps ==
  ASSUME RInv, UNCHANGED <<comments, op, target, draft, landed, kept>>,
         \A c \in Commands : /\ pc'[c] = "writing" => pc[c] = "writing"
                             /\ pc'[c] \in {"idle", "waiting", "reading"} =>
                                  pc[c] \in {"idle", "waiting", "reading"}
  PROVE  RInv'
BY DEF RInv, NothingYet, DraftIsTheChange, LatestTrusted

\* A reading drafts the command's change of the latest record it can trust.
LEMMA ReadDrafts ==
  ASSUME IInv, RInv, NEW c \in Commands, Read(c)
  PROVE  RInv'
<1>1. /\ pc[c] = "reading" /\ pc' = [pc EXCEPT ![c] = Verdict(op[c], comments)]
      /\ target' = [target EXCEPT ![c] = Oldest(comments)]
      /\ UNCHANGED <<comments, op, landed, kept>>
  BY DEF Read, Goto
<1>2. /\ \A d \in Commands : d # c => /\ pc'[d] = pc[d] /\ target'[d] = target[d]
                                      /\ draft'[d] = draft[d]
      /\ pc'[c] = Verdict(op[c], comments) /\ target'[c] = Oldest(comments)
      /\ pc'[c] = "writing" => draft'[c].roles = Applied(op[c], Shown(comments))
  BY <1>1 DEF Read, IInv, TypeOK
<1>3. Verdict(op[c], comments) \in {"writing", "failed", "tampered", "refused", "unchanged"}
  BY DEF Verdict
<1>4. NothingYet'
  BY <1>1, <1>2, <1>3 DEF RInv, NothingYet
<1>5. c \notin landed
  BY <1>1 DEF RInv, NothingYet
<1>6. ASSUME Verdict(op[c], comments) = "writing"
      PROVE  /\ Oldest(comments) = 0 => op[c].kind # "accept" /\ Shown(comments) = EmptyRecord
             /\ op[c].kind # "accept" => /\ Trusted(comments)
                                         /\ ~ Conflicting(op[c], Shown(comments))
  BY <1>6 DEF Verdict, Shown
<1>7. DraftIsTheChange'
  <2> SUFFICES ASSUME NEW d \in Commands, pc'[d] = "writing"
               PROVE  /\ target'[d] = 0 =>
                           /\ op[d].kind # "accept" /\ (Oldest(comments) = 0 \/ d \in landed)
                           /\ draft'[d].roles = Applied(op[d], EmptyRecord)
                           /\ ~ Conflicting(op[d], EmptyRecord)
                      /\ target'[d] # 0 /\ comments[target'[d]].status # "deleted" =>
                           /\ Oldest(comments) = target'[d]
                           /\ op[d].kind # "accept" =>
                                IF d \in landed THEN draft'[d].roles = LatestTrusted
                                ELSE draft'[d].roles = Applied(op[d], LatestTrusted)
                                     /\ ~ Conflicting(op[d], LatestTrusted)
    BY <1>1 DEF DraftIsTheChange, LatestTrusted
  <2>1. CASE d = c
    BY <1>2, <1>5, <1>6, <2>1 DEF LatestTrusted
  <2>2. CASE d # c
    BY <1>2, <2>2 DEF RInv, DraftIsTheChange
  <2> QED BY <2>1, <2>2
<1> QED BY <1>4, <1>7 DEF RInv

\* With one deployment that signs, every step keeps the drafts what they are.
LEMMA ChangeStepKeeps ==
  ASSUME SoleDeployment, Signs, IInv, RInv, [Next]_vars
  PROVE  RInv'
<1>1. ASSUME NEW c \in Commands, Receive(c) PROVE RInv'
  <2>1. PICK place \in {"waiting", "refused"} : pc' = [pc EXCEPT ![c] = place]
    BY <1>1 DEF Receive, Goto
  <2>2. pc[c] = "idle" /\ UNCHANGED <<comments, op, target, draft, landed, kept>>
    BY <1>1 DEF Receive
  <2>3. \A d \in Commands : pc'[d] = IF d = c THEN place ELSE pc[d]
    BY <2>1 DEF IInv, TypeOK
  <2> QED BY <2>2, <2>3, QuietKeeps
<1>2. ASSUME NEW c \in Commands, Lock(c) PROVE RInv'
  <2>1. pc[c] = "waiting" /\ UNCHANGED <<comments, op, target, draft, landed, kept>>
    BY <1>2 DEF Lock
  <2>2. \A d \in Commands : pc'[d] = IF d = c THEN "reading" ELSE pc[d]
    BY <1>2 DEF Lock, Goto, IInv, TypeOK
  <2> QED BY <2>1, <2>2, QuietKeeps
<1>3. ASSUME NEW c \in Commands, WriteAnswered(c) PROVE RInv'
  <2>1. op[c] \in Operation
    BY DEF IInv, TypeOK
  <2>2. AfterWrite(op[c]) \in Places \ InLock
    BY <2>1, AfterWritePlaces
  <2>3. AfterWrite(op[c]) \notin {"idle", "waiting"}
    BY DEF AfterWrite
  <2>4. /\ pc[c] = "writing" /\ Land(c) /\ Goto(c, AfterWrite(op[c]))
        /\ UNCHANGED <<op, target, draft>>
    BY <1>3 DEF WriteAnswered
  <2> QED BY <2>2, <2>3, <2>4, LandKeepsChange
<1>4. ASSUME NEW c \in Commands, WriteRetried(c) PROVE RInv'
  <2>1. pc[c] = "writing" /\ UNCHANGED <<pc, op, target, draft>>
    BY <1>4 DEF WriteRetried
  <2>2. CASE Land(c)
    <3>1. Goto(c, "writing")
      BY <2>1 DEF Goto, IInv, TypeOK
    <3> QED BY <1>4, <2>2, <3>1, LandKeepsChange DEF WriteRetried, InLock
  <2>3. CASE NotLand
    BY <1>4, <2>3, QuietKeeps DEF WriteRetried, NotLand
  <2> QED BY <1>4, <2>2, <2>3 DEF WriteRetried
<1>5. ASSUME NEW c \in Commands, WriteFails(c) PROVE RInv'
  <2>1. /\ pc[c] = "writing" /\ Goto(c, "failed") /\ UNCHANGED <<op, target, draft>>
    BY <1>5 DEF WriteFails
  <2>2. CASE Land(c)
    <3>1. "failed" \in {"writing"} \cup (Places \ InLock)
      BY DEF Places, Ended, InLock
    <3> QED BY <2>1, <2>2, <3>1, LandKeepsChange
  <2>3. CASE NotLand
    <3>1. \A d \in Commands : pc'[d] = IF d = c THEN "failed" ELSE pc[d]
      BY <2>1 DEF Goto, IInv, TypeOK
    <3> QED BY <2>1, <2>3, <3>1, QuietKeeps DEF NotLand
  <2> QED BY <1>5, <2>2, <2>3 DEF WriteFails
<1>6. ASSUME NEW c \in Commands, ReadFails(c) \/ TargetGone(c) PROVE RInv'
  <2>1. Goto(c, "failed") /\ UNCHANGED <<comments, op, target, draft, landed, kept>>
    BY <1>6 DEF ReadFails, TargetGone
  <2>2. \A d \in Commands : pc'[d] = IF d = c THEN "failed" ELSE pc[d]
    BY <2>1 DEF Goto, IInv, TypeOK
  <2> QED BY <2>1, <2>2, QuietKeeps
<1>7. ASSUME NEW c \in Commands, Assign(c) \/ Unassign(c) \/ AssigneeFails(c) PROVE RInv'
  <2>1. PICK place \in {"done", "unassigning", "partial"} :
          pc' = [pc EXCEPT ![c] = place] /\ UNCHANGED <<comments, op, target, draft, landed, kept>>
    BY <1>7 DEF Assign, Unassign, AssigneeFails, Goto
  <2>2. \A d \in Commands : pc'[d] = IF d = c THEN place ELSE pc[d]
    BY <2>1 DEF IInv, TypeOK
  <2> QED BY <2>1, <2>2, QuietKeeps
<1>8. ASSUME NEW i \in 1..Len(comments), HandEdit(i) PROVE RInv'
  <2>1. UNCHANGED <<pc, op, target, draft, landed>>
    BY <1>8 DEF HandEdit
  <2>2. /\ \A j \in 1..Len(comments) :
             comments'[j].status # "deleted" => comments[j].status # "deleted"
        /\ Oldest(comments) # 0
        /\ comments'[Oldest(comments)].status # "deleted" =>
             Oldest(comments') = Oldest(comments) /\ LatestTrusted' = LatestTrusted
    BY <1>8, HandEditShows
  <2>3. \A d \in Commands : pc[d] = "writing" /\ target[d] # 0 => target[d] \in 1..Len(comments)
    BY LenProperties DEF IInv, TypeOK, TargetKnown
  <2> QED BY <2>1, <2>2, <2>3 DEF RInv, NothingYet, DraftIsTheChange
<1>9. ASSUME NEW d \in Deployments, Restart(d) PROVE RInv'
  <2>1. UNCHANGED <<comments, op, target, draft, landed, kept>>
    BY <1>9 DEF Restart
  <2>2. \A c \in Commands : pc'[c] = pc[c] \/ pc'[c] = "failed"
    BY <1>9 DEF Restart
  <2> QED BY <2>1, <2>2, QuietKeeps
<1>10. CASE UNCHANGED vars
  BY <1>10, QuietKeeps DEF vars
<1> QED
  BY <1>1, <1>2, <1>3, <1>4, <1>5, <1>6, <1>7, <1>8, <1>9, <1>10, ReadDrafts
  DEF Next, Work, Fails, Stutter

-----------------------------------------------------------------------------
(* The steps of the commands, seen as steps of the store.                   *)

\* How far every command is, as the store sees it.
Answers == [c \in Commands |-> AnswerOf(c)]

\* The store's operators on records are those of the roles.
LEMMA StoreRoles ==
  /\ Store!Record = Record /\ Store!Operation = Operation
  /\ Store!Latest = LatestTrusted
  /\ \A o, r : Store!Applied(o, r) = Applied(o, r)
  /\ \A o, r : Store!Conflicting(o, r) <=> Conflicting(o, r)
<1>1. Store!Record = Record /\ Store!Operation = Operation
  BY DEF Store!Record, Record, Store!Operation, Operation, Store!CheckRoles, CheckRoles
<1>2. Store!Latest = LatestTrusted
  BY DEF Store!Latest, LatestTrusted
<1>3. ASSUME NEW o, NEW r PROVE Store!Applied(o, r) = Applied(o, r)
  BY DEF Store!Applied, Applied, Store!Grant, Grant, Store!Revoke, Revoke
<1>4. ASSUME NEW o, NEW r PROVE Store!Conflicting(o, r) <=> Conflicting(o, r)
  BY DEF Store!Conflicting, Conflicting, Store!Conflict, Conflict, Store!Conflicts, Conflicts,
         Store!RolesOf, RolesOf
<1> QED BY <1>1, <1>2, <1>3, <1>4

\* One command's move changes its answer and no other's.
LEMMA OneAnswerMoves ==
  ASSUME TypeOK, NEW c \in Commands, NEW place, Goto(c, place),
         landed' = landed \/ landed' = landed \cup {c}
  PROVE  /\ pc'[c] = place
         /\ Answers' = [Answers EXCEPT ![c] = AnswerOf(c)']
<1>1. pc' = [pc EXCEPT ![c] = place] /\ pc \in [Commands -> Places]
  BY DEF TypeOK, Goto
<1>2. pc'[c] = place
  BY <1>1
<1>3. ASSUME NEW d \in Commands, d # c PROVE AnswerOf(d)' = AnswerOf(d)
  <2>1. pc'[d] = pc[d] /\ (d \in landed' <=> d \in landed)
    BY <1>1, <1>3
  <2> QED BY <2>1 DEF AnswerOf
<1>4. Answers' = [d \in Commands |-> AnswerOf(d)']
  BY DEF Answers
<1> QED BY <1>2, <1>3, <1>4 DEF Answers

\* A command that is not yet at its write is asked for and nothing else; at its
\* write it may be applied already.
LEMMA AnswersSoFar ==
  ASSUME RInv, NEW c \in Commands
  PROVE  /\ pc[c] \in {"idle", "waiting", "reading"} => Answers[c] = "asked"
         /\ pc[c] = "writing" => Answers[c] = IF c \in landed THEN "applied" ELSE "asked"
         /\ pc[c] \in {"assigning", "unassigning"} => Answers[c] = "applied"
BY DEF RInv, NothingYet, Answers, AnswerOf

\* A move of one command that leaves the issue alone is an answer of the store,
\* or changes nothing the store knows of.
LEMMA QuietMoves ==
  ASSUME IInv, RInv, NEW c \in Commands, NEW place, Goto(c, place),
         UNCHANGED <<comments, kept, op, landed>>,
         \/ pc[c] \in {"idle", "waiting", "reading"} /\ place \in {"waiting", "reading", "writing"}
         \/ /\ pc[c] \in {"idle", "waiting", "reading"}
            /\ place \in {"refused", "unchanged", "tampered", "failed"}
         \/ pc[c] = "writing" /\ place \in {"writing", "failed"}
         \/ /\ pc[c] \in {"assigning", "unassigning"}
            /\ place \in {"unassigning", "done", "partial"}
  PROVE  Store!Answer(c) \/ UNCHANGED Store!vars
<1>1. pc'[c] = place /\ Answers' = [Answers EXCEPT ![c] = AnswerOf(c)']
  BY OneAnswerMoves DEF IInv
<1>2. Answers = [d \in Commands |-> AnswerOf(d)] /\ Answers' = [d \in Commands |-> AnswerOf(d)]'
  BY DEF Answers
<1>3. Shown(comments)' = Shown(comments) /\ Trusted(comments)' = Trusted(comments)
  BY DEF Shown, Garbled, Trusted
<1>4. landed' = landed
  OBVIOUS
<1>5. \/ AnswerOf(c)' = Answers[c]
      \/ Answers[c] = "asked" /\ AnswerOf(c)' = "nothing done"
      \/ Answers[c] = "applied" /\ AnswerOf(c)' = "done"
      \/ Answers[c] \in {"asked", "applied"} /\ AnswerOf(c)' = "failed"
  <2>1. CASE pc[c] \in {"idle", "waiting", "reading"}
    <3>1. Answers[c] = "asked" /\ c \notin landed'
      BY <1>4, <2>1, AnswersSoFar DEF RInv, NothingYet
    <3>2. CASE place \in {"waiting", "reading", "writing"}
      <4>1. AnswerOf(c)' = "asked"
        BY <1>1, <3>1, <3>2 DEF AnswerOf
      <4> QED BY <3>1, <4>1
    <3>3. CASE place = "failed"
      <4>1. AnswerOf(c)' = "failed"
        BY <1>1, <3>3 DEF AnswerOf
      <4> QED BY <3>1, <4>1
    <3>4. CASE place \in {"refused", "unchanged", "tampered"}
      <4>1. AnswerOf(c)' = "nothing done"
        BY <1>1, <3>4 DEF AnswerOf
      <4> QED BY <3>1, <4>1
    <3> QED BY <2>1, <3>2, <3>3, <3>4
  <2>2. CASE pc[c] = "writing" /\ place \in {"writing", "failed"}
    <3>1. Answers[c] = (IF c \in landed THEN "applied" ELSE "asked")
      BY <2>2, AnswersSoFar
    <3>2. CASE place = "writing"
      <4>1. AnswerOf(c)' = IF c \in landed THEN "applied" ELSE "asked"
        BY <1>1, <1>4, <3>2 DEF AnswerOf
      <4> QED BY <3>1, <4>1
    <3>3. CASE place = "failed"
      <4>1. AnswerOf(c)' = "failed"
        BY <1>1, <3>3 DEF AnswerOf
      <4> QED BY <3>1, <4>1
    <3> QED BY <2>2, <3>2, <3>3
  <2>3. CASE pc[c] \in {"assigning", "unassigning"}
    <3>1. Answers[c] = "applied"
      BY <2>3, AnswersSoFar
    <3>2. CASE place = "unassigning"
      <4>1. AnswerOf(c)' = "applied"
        BY <1>1, <3>2 DEF AnswerOf
      <4> QED BY <3>1, <4>1
    <3>3. CASE place = "done"
      <4>1. AnswerOf(c)' = "done"
        BY <1>1, <3>3 DEF AnswerOf
      <4> QED BY <3>1, <4>1
    <3>4. CASE place = "partial"
      <4>1. AnswerOf(c)' = "failed"
        BY <1>1, <3>4 DEF AnswerOf
      <4> QED BY <3>1, <4>1
    <3> QED BY <2>3, <3>2, <3>3, <3>4
  <2> QED BY <2>1, <2>2, <2>3
<1>6. CASE AnswerOf(c)' = Answers[c]
  <2>1. Answers' = Answers
    BY <1>1, <1>6 DEF Answers
  <2> QED BY <1>2, <1>3, <2>1 DEF Store!vars
<1>7. CASE AnswerOf(c)' # Answers[c]
  <2>1. \/ Answers[c] = "asked" /\ Answers' = [Answers EXCEPT ![c] = "nothing done"]
        \/ Answers[c] = "applied" /\ Answers' = [Answers EXCEPT ![c] = "done"]
        \/ Answers[c] \in {"asked", "applied"} /\ Answers' = [Answers EXCEPT ![c] = "failed"]
    BY <1>1, <1>5, <1>7
  <2> QED BY <1>2, <1>3, <2>1 DEF Store!Answer
<1> QED BY <1>6, <1>7

\* A write that lands makes the change in the store at that moment, makes it
\* once more, or adds a copy nobody reads.
LEMMA LandChanges ==
  ASSUME IInv, RInv, Signs, NEW c \in Commands, pc[c] = "writing", Land(c), UNCHANGED op,
         NEW place, Goto(c, place),
         place \in {"writing", "failed", "assigning", "unassigning", "done"}
  PROVE  Store!Change(c) \/ Store!Adopt(c) \/ Store!Repeat(c)
<1>1. comments \in Seq(Comment) /\ draft[c] \in Draft
  BY DEF IInv, TypeOK
<1>2. landed' = landed \cup {c} /\ kept' = LatestTrusted
  BY DEF Land, LatestTrusted
<1>3. pc'[c] = place /\ Answers' = [Answers EXCEPT ![c] = AnswerOf(c)']
  BY <1>2, OneAnswerMoves DEF IInv
<1>4. AnswerOf(c)' \in {"applied", "done", "failed"}
  <2>1. c \in landed'
    BY <1>2
  <2>2. CASE place \in {"writing", "assigning", "unassigning"}
    BY <1>3, <2>1, <2>2 DEF AnswerOf
  <2>3. CASE place = "done"
    BY <1>3, <2>3 DEF AnswerOf
  <2>4. CASE place = "failed"
    BY <1>3, <2>4 DEF AnswerOf
  <2> QED BY <2>2, <2>3, <2>4
<1>5. Store!Told(c)
  <2>1. \E told \in {"applied", "done", "failed"} : Answers' = [Answers EXCEPT ![c] = told]
    BY <1>3, <1>4
  <2> QED BY <2>1 DEF Store!Told, Answers
<1>6. Answers[c] = (IF c \in landed THEN "applied" ELSE "asked")
  BY AnswersSoFar
<1>7. [d \in Commands |-> AnswerOf(d)][c] = Answers[c]
  BY DEF Answers
<1>8. Store!Keep
  BY <1>2, StoreRoles DEF Store!Keep
<1>9. draft[c].roles \in Record
  BY <1>1 DEF Draft
<1>10. CASE target[c] = 0 /\ Oldest(comments) # 0
  <2>1. /\ c \in landed
        /\ Shown(comments)' = Shown(comments) /\ Trusted(comments)' = Trusted(comments)
    BY <1>10, LandShows
  <2> QED BY <1>5, <1>6, <1>7, <1>8, <2>1 DEF Store!Repeat
<1>11. CASE ~ (target[c] = 0 /\ Oldest(comments) # 0)
  <2>1. Shown(comments)' = draft[c].roles /\ Trusted(comments)'
    BY <1>11, LandShows
  <2>2. CASE op[c].kind = "accept"
    <3>1. Shown(comments)' \in Store!Record
      BY <1>9, <2>1, StoreRoles
    <3> QED BY <1>5, <1>6, <1>7, <1>8, <2>1, <2>2, <3>1 DEF Store!Adopt
  <2>3. CASE op[c].kind # "accept"
    <3>1. \/ /\ draft[c].roles = Applied(op[c], LatestTrusted)
             /\ ~ Conflicting(op[c], LatestTrusted)
          \/ c \in landed /\ draft[c].roles = LatestTrusted
      <4>1. CASE target[c] = 0
        <5>1. LatestTrusted = EmptyRecord
          BY <1>11, <4>1 DEF LatestTrusted, Shown, Trusted
        <5> QED BY <4>1, <5>1 DEF RInv, DraftIsTheChange
      <4>2. CASE target[c] # 0
        <5>1. comments[target[c]].status # "deleted"
          BY <4>2 DEF Land
        <5> QED BY <2>3, <4>2, <5>1 DEF RInv, DraftIsTheChange
      <4> QED BY <4>1, <4>2
    <3>2. \/ /\ Shown(comments)' = Store!Applied(op[c], Store!Latest)
             /\ ~ Store!Conflicting(op[c], Store!Latest)
          \/ Answers[c] = "applied" /\ Shown(comments)' = Store!Latest
      BY <1>6, <2>1, <3>1, StoreRoles
    <3> QED BY <1>5, <1>6, <1>7, <1>8, <2>1, <2>3, <3>2 DEF Store!Change
  <2> QED BY <2>2, <2>3
<1> QED BY <1>10, <1>11

\* An edit by hand shows some record, and remembers the one trusted before.
LEMMA HandEditIsOne ==
  ASSUME IInv, NEW i \in 1..Len(comments), HandEdit(i)
  PROVE  Store!HandEdit
<1>1. IInv'
  BY HandEditKeeps
<1>2. Shown(comments)' \in Store!Record
  BY <1>1, ReadingTyped, StoreRoles DEF IInv, TypeOK
<1>3. Trusted(comments)' \in BOOLEAN
  BY DEF Trusted, Garbled, Verifies
<1>4. Store!Keep
  BY StoreRoles DEF HandEdit, Store!Keep, LatestTrusted
<1>5. Answers' = Answers
  BY DEF HandEdit, Answers, AnswerOf
<1>6. op' = op
  BY DEF HandEdit
<1> QED BY <1>2, <1>3, <1>4, <1>5, <1>6 DEF Store!HandEdit, Answers

\* A restart fails commands that were under way, and no other.
LEMMA RestartIsOne ==
  ASSUME IInv, NEW d \in Deployments, Restart(d)
  PROVE  Store!Restart
<1> DEFINE lost == {c \in Commands : DeploymentOf[c] = d /\ pc[c] \notin Ended \cup {"idle"}}
<1>1. /\ pc' = [c \in Commands |-> IF c \in lost THEN "failed" ELSE pc[c]]
      /\ UNCHANGED <<comments, op, landed, kept>>
  BY DEF Restart
<1>2. \A c \in lost : Answers[c] \in {"asked", "applied"}
  <2> SUFFICES ASSUME NEW c \in lost PROVE AnswerOf(c) \in {"asked", "applied"}
    BY DEF Answers
  <2>1. pc[c] \in {"waiting", "reading", "writing", "assigning", "unassigning"}
    BY DEF IInv, TypeOK, Places, InLock
  <2> QED BY <2>1 DEF AnswerOf
<1>3. ASSUME NEW c \in Commands
      PROVE  AnswerOf(c)' = IF c \in lost THEN "failed" ELSE AnswerOf(c)
  <2>1. CASE c \in lost
    <3>1. pc'[c] = "failed"
      BY <1>1, <2>1
    <3> QED BY <2>1, <3>1 DEF AnswerOf
  <2>2. CASE c \notin lost
    <3>1. pc'[c] = pc[c] /\ landed' = landed
      BY <1>1, <2>2
    <3> QED BY <2>2, <3>1 DEF AnswerOf
  <2> QED BY <2>1, <2>2
<1>4. Answers' = [c \in Commands |-> IF c \in lost THEN "failed" ELSE Answers[c]]
  BY <1>3 DEF Answers
<1>5. lost \in SUBSET {c \in Commands : Answers[c] \in {"asked", "applied"}}
  BY <1>2
<1>6. Shown(comments)' = Shown(comments) /\ Trusted(comments)' = Trusted(comments)
  BY <1>1 DEF Shown, Garbled, Trusted
<1> HIDE DEF lost
<1>7. \E some \in SUBSET {c \in Commands : Answers[c] \in {"asked", "applied"}} :
        Answers' = [c \in Commands |-> IF c \in some THEN "failed" ELSE Answers[c]]
  BY <1>4, <1>5
<1> QED BY <1>1, <1>6, <1>7 DEF Store!Restart, Answers

\* A record the issue starts with is one the store may start with.
LEMMA StartsAsStore == Signs /\ Init => RInv /\ Store!Init
<1> SUFFICES ASSUME Signs, Init PROVE RInv /\ Store!Init
  OBVIOUS
<1>1. PICK start \in StartRecords :
        /\ comments = IF start = EmptyRecord THEN << >>
                      ELSE <<Written([roles |-> start, acceptedBy |-> Nobody])>>
        /\ kept = start
  BY DEF Init
<1>2. start \in Record
  BY CheckRecordAssumption
<1>3. RInv
  BY DEF Init, RInv, NothingYet, DraftIsTheChange
<1>4. Shown(comments) = start /\ Trusted(comments)
  <2>1. CASE comments = << >> /\ start = EmptyRecord
    <3>1. Oldest(comments) = 0
      BY <2>1 DEF Oldest, Standing
    <3> QED BY <2>1, <3>1 DEF Shown, Trusted
  <2>2. CASE comments = <<Written([roles |-> start, acceptedBy |-> Nobody])>>
    <3> DEFINE new == Written([roles |-> start, acceptedBy |-> Nobody])
    <3>1. new \in Comment /\ new.status = "record" /\ new.roles = start /\ new.seal = "signed"
      BY <1>2 DEF Written, Comment
    <3> HIDE DEF new
    <3>2. comments = <<new>>
      BY <2>2 DEF new
    <3>3. comments \in Seq(Comment) /\ Len(comments) = 1 /\ comments[1] = new
      BY <3>1, <3>2
    <3>4. Standing(comments) = {1}
      <4>1. new.status # "deleted" /\ 1..1 = {1}
        BY <3>1
      <4> QED BY <3>3, <4>1 DEF Standing
    <3>5. Oldest(comments) = 1
      BY <3>3, <3>4, OldestIs
    <3> QED BY <3>1, <3>3, <3>5 DEF Shown, Trusted, Garbled, Verifies
  <2> QED BY <1>1, <2>1, <2>2
<1>5. Answers = [c \in Commands |-> "asked"]
  BY DEF Init, Answers, AnswerOf
<1>6. op \in [Commands -> Operation]
  BY CheckRecordAssumption DEF Init
<1>7. (Trusted(comments) = TRUE)
  BY <1>4
<1>8. Shown(comments) \in Store!Record /\ kept = Shown(comments) /\ op \in [Commands -> Store!Operation]
  BY <1>1, <1>2, <1>4, <1>6, StoreRoles
<1> QED BY <1>3, <1>5, <1>7, <1>8 DEF Store!Init, Answers

\* Every step of the commands is a step of the store, or none.
LEMMA StepIsOfStore ==
  ASSUME SoleDeployment, Signs, IInv, RInv, [Next]_vars
  PROVE  [Store!Next]_(Store!vars)
<1>1. ASSUME NEW c \in Commands, Receive(c) PROVE [Store!Next]_(Store!vars)
  <2>1. PICK place \in {"waiting", "refused"} : Goto(c, place)
    BY <1>1 DEF Receive
  <2>2. pc[c] = "idle" /\ UNCHANGED <<comments, kept, op, landed>>
    BY <1>1 DEF Receive
  <2> QED BY <2>1, <2>2, QuietMoves DEF Store!Next
<1>2. ASSUME NEW c \in Commands, Lock(c) PROVE [Store!Next]_(Store!vars)
  <2>1. pc[c] = "waiting" /\ Goto(c, "reading") /\ UNCHANGED <<comments, kept, op, landed>>
    BY <1>2 DEF Lock
  <2> QED BY <2>1, QuietMoves DEF Store!Next
<1>3. ASSUME NEW c \in Commands, Read(c) PROVE [Store!Next]_(Store!vars)
  <2>1. /\ pc[c] = "reading" /\ Goto(c, Verdict(op[c], comments))
        /\ UNCHANGED <<comments, kept, op, landed>>
    BY <1>3 DEF Read
  <2>2. Verdict(op[c], comments) \in {"writing", "failed", "tampered", "refused", "unchanged"}
    BY DEF Verdict
  <2> QED BY <2>1, <2>2, QuietMoves DEF Store!Next
<1>4. ASSUME NEW c \in Commands, ReadFails(c) PROVE [Store!Next]_(Store!vars)
  <2>1. pc[c] = "reading" /\ Goto(c, "failed") /\ UNCHANGED <<comments, kept, op, landed>>
    BY <1>4 DEF ReadFails
  <2> QED BY <2>1, QuietMoves DEF Store!Next
<1>5. ASSUME NEW c \in Commands, WriteAnswered(c) PROVE [Store!Next]_(Store!vars)
  <2>1. pc[c] = "writing" /\ Land(c) /\ Goto(c, AfterWrite(op[c])) /\ UNCHANGED op
    BY <1>5 DEF WriteAnswered
  <2>2. AfterWrite(op[c]) \in {"assigning", "unassigning", "done"}
    BY DEF AfterWrite
  <2> QED BY <2>1, <2>2, LandChanges DEF Store!Next
<1>6. ASSUME NEW c \in Commands, WriteRetried(c) PROVE [Store!Next]_(Store!vars)
  <2>1. pc[c] = "writing" /\ UNCHANGED <<pc, op>> /\ (Land(c) \/ NotLand)
    BY <1>6 DEF WriteRetried
  <2>2. Goto(c, "writing")
    BY <2>1 DEF Goto, IInv, TypeOK
  <2>3. CASE Land(c)
    BY <2>1, <2>2, <2>3, LandChanges DEF Store!Next
  <2>4. CASE NotLand
    <3>1. UNCHANGED <<comments, kept, op, landed>>
      BY <2>1, <2>4 DEF NotLand
    <3> QED BY <2>1, <2>2, <3>1, QuietMoves DEF Store!Next
  <2> QED BY <2>1, <2>3, <2>4
<1>7. ASSUME NEW c \in Commands, WriteFails(c) PROVE [Store!Next]_(Store!vars)
  <2>1. pc[c] = "writing" /\ Goto(c, "failed") /\ UNCHANGED op /\ (Land(c) \/ NotLand)
    BY <1>7 DEF WriteFails
  <2>2. CASE Land(c)
    BY <2>1, <2>2, LandChanges DEF Store!Next
  <2>3. CASE NotLand
    <3>1. UNCHANGED <<comments, kept, op, landed>>
      BY <2>1, <2>3 DEF NotLand
    <3> QED BY <2>1, <3>1, QuietMoves DEF Store!Next
  <2> QED BY <2>1, <2>2, <2>3
<1>8. ASSUME NEW c \in Commands, TargetGone(c) PROVE [Store!Next]_(Store!vars)
  <2>1. pc[c] = "writing" /\ Goto(c, "failed") /\ UNCHANGED <<comments, kept, op, landed>>
    BY <1>8 DEF TargetGone
  <2> QED BY <2>1, QuietMoves DEF Store!Next
<1>9. ASSUME NEW c \in Commands, Assign(c) \/ Unassign(c) \/ AssigneeFails(c)
      PROVE  [Store!Next]_(Store!vars)
  <2>1. pc[c] \in {"assigning", "unassigning"} /\ UNCHANGED <<comments, kept, op, landed>>
    BY <1>9 DEF Assign, Unassign, AssigneeFails
  <2>2. PICK place \in {"unassigning", "done", "partial"} : Goto(c, place)
    BY <1>9 DEF Assign, Unassign, AssigneeFails
  <2> QED BY <2>1, <2>2, QuietMoves DEF Store!Next
<1>10. CASE UNCHANGED vars
  <2>1. Answers' = Answers
    BY <1>10 DEF vars, Answers, AnswerOf
  <2>2. Shown(comments)' = Shown(comments) /\ Trusted(comments)' = Trusted(comments)
    BY <1>10 DEF vars, Shown, Garbled, Trusted
  <2> QED BY <1>10, <2>1, <2>2 DEF vars, Store!vars, Answers
<1>11. ASSUME NEW i \in 1..Len(comments), HandEdit(i) PROVE [Store!Next]_(Store!vars)
  BY <1>11, HandEditIsOne DEF Store!Next
<1>12. ASSUME NEW d \in Deployments, Restart(d) PROVE [Store!Next]_(Store!vars)
  BY <1>12, RestartIsOne DEF Store!Next
<1> QED
  BY <1>1, <1>2, <1>3, <1>4, <1>5, <1>6, <1>7, <1>8, <1>9, <1>10, <1>11, <1>12
  DEF Next, Work, Fails, Stutter

\* The comments, locks, retries and edits of one deployment with a record key
\* implement the store: whatever is asked, lost, sent twice or edited by hand,
\* every change of the record is one command applied to the latest record that
\* can be trusted, and "done" is said only of a change that was made.
THEOREM OneDeploymentImplementsTheStore ==
  ASSUME SoleDeployment, Signs
  PROVE  Spec => ImplementsStore
<1>1. Init => RInv /\ Store!Init
  BY StartsAsStore
<1>2. IInv /\ RInv /\ [Next]_vars => RInv'
  BY ChangeStepKeeps
<1>3. IInv /\ RInv /\ [Next]_vars => [Store!Next]_(Store!vars)
  BY StepIsOfStore
<1> QED BY <1>1, <1>2, <1>3, RecordInvariance, PTL DEF Spec, ImplementsStore, Store!Spec
=============================================================================
