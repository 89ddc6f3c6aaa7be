---------------------------- MODULE Reservation ----------------------------
(***************************************************************************)
(* `certificate set`: giving certificate identifiers to the checks of the  *)
(* register (setCertificate in internal/bot/certificate.go).               *)
(*                                                                         *)
(* Several commands run at once, on the same check or on different ones.   *)
(* Each takes the one lock for reservations, reads the claims (the rows of *)
(* register.csv, then the titles of the issues labelled `id assigned`) and *)
(* the record of its own check, decides, and then makes up to three        *)
(* writes: the record, the title, the label.  Any of them may fail, and    *)
(* what was written before stays.                                          *)
(***************************************************************************)
EXTENDS Certificates

CONSTANTS
  Commands,     \* the `certificate set` commands that arrive
  Issues,       \* the checks of the register
  Unlisted,     \* those that are no issue of the register: pull requests
  Tampered,     \* those whose record somebody edited
  Arguments,    \* the identifiers a command may name
  None,         \* no identifier: no argument, no reservation
  Free,         \* the lock when nobody holds it
  OldRows,      \* rows of register.csv of checks long finished
  StartChecks,  \* what the issues may hold at the start: see Check
  FirstYear, LastYear,  \* bounds on the calendar
  Vouched,      \* the commands typed with `anyway`
  Faults,       \* the kinds of failure that may happen
  MaxFaults     \* bound on how many do

\* A title has one place for the check's own identifier, after the last `|`,
\* and may mention others: a range, or an identifier in the name.
Identifier == [year : Nat, number : Nat]
Title == [own : Identifier \cup {None}, others : SUBSET Identifier]

\* A check as it may be found: its record, its title, and whether the issue
\* carries the label `id assigned`.
Check == [record : Identifier \cup {None}, title : Title, labelled : BOOLEAN]

ASSUME ReservationAssumption ==
  /\ Unlisted \subseteq Issues /\ Tampered \subseteq Issues
  /\ None \notin Identifier /\ Free \notin Commands
  /\ Arguments \subseteq Identifier
  /\ OldRows \subseteq Identifier /\ \A id \in OldRows : WellFormed(id)
  /\ StartChecks \subseteq [Issues -> Check]
  /\ FirstYear \in Nat /\ LastYear \in Nat /\ FirstYear <= LastYear
  /\ Vouched \subseteq Commands /\ MaxFaults \in Nat

VARIABLES
  record,     \* the identifier in each check's record
  title,      \* what each issue's title says
  labelled,   \* the issues carrying the label `id assigned`
  published,  \* the rows register.csv has for each check
  year,       \* the year by the bot's clock
  lock,       \* who reserves
  pc, issue, argument,   \* each command: how far, where, what it names
  rows,       \* register.csv as each command read it
  listed,     \* the titles and labels as each command listed them
  chosen,     \* the identifier each command settled on
  faults      \* the kinds of failure that have happened

command == <<issue, argument>>
checks == <<record, title, labelled, published>>
vars == <<checks, year, lock, pc, command, rows, listed, chosen, faults>>

TitleClaims(t) == {id \in ({t.own} \ {None}) \cup t.others : WellFormed(id)}

TitleWithCertificate(t, id) == [t EXCEPT !.own = id]

Ended == {"refused", "not done", "done", "unlabelled"}
Reserving == {"claims", "issues", "deciding", "recording", "titling", "labelling"}
Places == {"idle", "waiting"} \cup Reserving \cup Ended

-----------------------------------------------------------------------------
Init ==
  /\ \E start \in StartChecks :
       /\ record = [i \in Issues |-> start[i].record]
       /\ title = [i \in Issues |-> start[i].title]
       /\ labelled = {i \in Issues : start[i].labelled}
  /\ published = [i \in Issues |-> {}]
  /\ year = FirstYear
  /\ lock = Free
  /\ pc = [c \in Commands |-> "idle"]
  /\ issue \in [Commands -> Issues]
  /\ argument \in [Commands -> Arguments \cup {None}]
  /\ rows = [c \in Commands |-> {}]
  /\ listed = [c \in Commands |-> [titles |-> title, labelled |-> labelled]]
  /\ chosen = [c \in Commands |-> None]
  /\ faults = {}

Goto(c, place) == pc' = [pc EXCEPT ![c] = place]

Fault(kind) ==
  /\ kind \in Faults /\ Cardinality(faults) < MaxFaults
  /\ faults' = faults \cup {kind}

Receive(c) ==
  /\ pc[c] = "idle"
  /\ Goto(c, "waiting")
  /\ UNCHANGED <<checks, year, lock, command, rows, listed, chosen, faults>>

\* Deviation: no lock over the whole register, as though the record's lock on
\* one issue were enough.
LockPerIssue(c) ==
  /\ pc[c] = "waiting"
  /\ \A d \in Commands : pc[d] \in Reserving => issue[d] # issue[c]
  /\ lock' = c
  /\ Goto(c, "claims")
  /\ UNCHANGED <<checks, year, command, rows, listed, chosen, faults>>

Lock(c) ==
  /\ pc[c] = "waiting"
  /\ lock = Free
  /\ lock' = c
  /\ Goto(c, "claims")
  /\ UNCHANGED <<checks, year, command, rows, listed, chosen, faults>>

\* Every way out of setCertificate gives the lock back.
End(c, answer) ==
  /\ Goto(c, answer)
  /\ lock' = Free

ReadRegister(c) ==
  /\ pc[c] = "claims"
  /\ rows' = [rows EXCEPT ![c] = OldRows \cup UNION {published[i] : i \in Issues}]
  /\ Goto(c, "issues")
  /\ UNCHANGED <<checks, year, lock, command, listed, chosen, faults>>

ListIssues(c) ==
  /\ pc[c] = "issues"
  /\ listed' = [listed EXCEPT ![c] = [titles |-> title, labelled |-> labelled]]
  /\ IF issue[c] \in Unlisted THEN End(c, "refused")
     ELSE Goto(c, "deciding") /\ UNCHANGED lock
  /\ UNCHANGED <<checks, year, command, rows, chosen, faults>>

\* Deviation: the early return keeps the lock.
NotReadLocked(c) ==
  /\ pc[c] \in {"claims", "issues", "deciding"}
  /\ Fault("read")
  /\ Goto(c, "not done")
  /\ UNCHANGED <<lock, checks, year, command, rows, listed, chosen>>

\* Either source unread is a refusal, never a guess.
NotRead(c) ==
  /\ pc[c] \in {"claims", "issues", "deciding"}
  /\ Fault("read")
  /\ End(c, "not done")
  /\ UNCHANGED <<checks, year, command, rows, listed, chosen>>

\* Deviation: the command's own issue counts among the others.
OthersClaimsWithOwn(c) ==
  rows[c] \cup UNION {TitleClaims(listed[c].titles[i]) : i \in listed[c].labelled}

\* What everybody else claims, as this command read it.
OthersClaims(c) ==
  rows[c] \cup UNION {TitleClaims(listed[c].titles[i]) : i \in listed[c].labelled \ {issue[c]}}

\* What this check holds already: its record or, before there was one, a
\* labelled title.
Held(c) ==
  IF record[issue[c]] # None THEN record[issue[c]]
  ELSE IF issue[c] \in listed[c].labelled THEN listed[c].titles[issue[c]].own
  ELSE None

\* Deviation: no identifier is picked for a check that has none.
WantedOrHeld(c) == IF argument[c] # None THEN argument[c] ELSE Held(c)

\* The identifier asked for: the one named, the one held, or the next.
Wanted(c) ==
  CASE argument[c] # None -> argument[c]
    [] argument[c] = None /\ Held(c) # None -> Held(c)
    [] OTHER -> NextCertificate(year, OthersClaims(c))

\* Deviation: the claims of the others are not looked at for an identifier
\* that was named.
RefusesNoTaken(c) ==
  \/ argument[c] = None /\ CertificateTaken(Wanted(c), OthersClaims(c))
  \/ /\ Wanted(c) # Held(c)
     /\ \/ CertificateInFuture(Wanted(c), year)
        \/ CertificateJump(Wanted(c), OthersClaims(c)) > MaxJump /\ c \notin Vouched

\* An identifier somebody else claims is refused; so is one in a year that has
\* not started, and a jump nobody vouched for, unless the check holds it.
Refuses(c) ==
  \/ CertificateTaken(Wanted(c), OthersClaims(c))
  \/ /\ Wanted(c) # Held(c)
     /\ \/ CertificateInFuture(Wanted(c), year)
        \/ CertificateJump(Wanted(c), OthersClaims(c)) > MaxJump /\ c \notin Vouched

\* The record is read, and what to reserve decided.
Decide(c) ==
  /\ pc[c] = "deciding"
  /\ chosen' = [chosen EXCEPT ![c] = Wanted(c)]
  /\ IF Refuses(c) THEN End(c, "refused")
     ELSE Goto(c, "recording") /\ UNCHANGED lock
  /\ UNCHANGED <<checks, year, command, rows, listed, faults>>

\* The record is written first: it is what the bot reads.  One somebody edited
\* is refused.
Recorded(c) ==
  /\ pc[c] = "recording"
  /\ IF issue[c] \in Tampered
     THEN End(c, "refused") /\ UNCHANGED record
     ELSE /\ record' = [record EXCEPT ![issue[c]] = chosen[c]]
          /\ Goto(c, "titling")
          /\ UNCHANGED lock
  /\ UNCHANGED <<title, labelled, published, year, command, rows, listed, chosen, faults>>

\* The write of the record is refused by GitHub, or its answer is lost: in
\* both the command stops here, and in the second the record is written.
NotRecorded(c) ==
  /\ pc[c] = "recording" /\ issue[c] \notin Tampered
  /\ \/ Fault("refused write") /\ UNCHANGED record
     \/ Fault("lost answer") /\ record' = [record EXCEPT ![issue[c]] = chosen[c]]
  /\ End(c, "not done")
  /\ UNCHANGED <<title, labelled, published, year, command, rows, listed, chosen>>

\* The title is rewritten from the one that was listed, where it differs.
Retitle(c) ==
  LET i == issue[c]  new == TitleWithCertificate(listed[c].titles[i], chosen[c]) IN
  /\ pc[c] = "titling"
  /\ title' = IF new = listed[c].titles[i] THEN title ELSE [title EXCEPT ![i] = new]
  /\ Goto(c, "labelling")
  /\ UNCHANGED <<record, labelled, published, year, lock, command, rows, listed, chosen, faults>>

\* A title that cannot be written is reported, and the label still tried.
NotRetitled(c) ==
  /\ pc[c] = "titling" /\ listed[c].titles[issue[c]].own # chosen[c]
  /\ Fault("title")
  /\ Goto(c, "labelling")
  /\ UNCHANGED <<checks, year, lock, command, rows, listed, chosen>>

Label(c) ==
  /\ pc[c] = "labelling"
  /\ labelled' = labelled \cup ({issue[c]} \ listed[c].labelled)
  /\ End(c, "done")
  /\ UNCHANGED <<record, title, published, year, command, rows, listed, chosen, faults>>

NotLabelled(c) ==
  /\ pc[c] = "labelling" /\ issue[c] \notin listed[c].labelled
  /\ Fault("label")
  /\ End(c, "unlabelled")
  /\ UNCHANGED <<checks, year, command, rows, listed, chosen>>

-----------------------------------------------------------------------------
(* What happens around the commands.                                        *)

\* A finished check gets its row in register.csv, on GitHub and by an editor.
Publish(i) ==
  /\ i \in labelled /\ record[i] # None /\ title[i].own = record[i]
  /\ published' = [published EXCEPT ![i] = @ \cup {record[i]}]
  /\ published' # published
  /\ UNCHANGED <<record, title, labelled, year, lock, pc, command, rows, listed, chosen, faults>>

NewYear ==
  /\ year < LastYear
  /\ year' = year + 1
  /\ UNCHANGED <<checks, lock, pc, command, rows, listed, chosen, faults>>

Finished == \A c \in Commands : pc[c] \in Ended

Stutter == Finished /\ UNCHANGED vars

Work(c) == Lock(c) \/ ReadRegister(c) \/ ListIssues(c) \/ Decide(c) \/ Recorded(c)
           \/ Retitle(c) \/ Label(c)

Fails(c) == NotRead(c) \/ NotRecorded(c) \/ NotRetitled(c) \/ NotLabelled(c)

Next ==
  \/ \E c \in Commands : Receive(c) \/ Work(c) \/ Fails(c)
  \/ \E i \in Issues : Publish(i)
  \/ NewYear
  \/ Stutter

Fairness == \A c \in Commands : WF_vars(Work(c))

Spec == Init /\ [][Next]_vars /\ Fairness

-----------------------------------------------------------------------------
(* Properties.                                                              *)

\* Every variable holds a value of its type (the Claim, the record's
\* Certificate field and the mutex `reserving`), and nothing is written before
\* an identifier is settled on.
TypeOK ==
  /\ record \in [Issues -> Identifier \cup {None}]
  /\ title \in [Issues -> Title]
  /\ labelled \subseteq Issues
  /\ published \in [Issues -> SUBSET Identifier]
  /\ year \in FirstYear..LastYear
  /\ lock \in Commands \cup {Free}
  /\ pc \in [Commands -> Places]
  /\ issue \in [Commands -> Issues]
  /\ argument \in [Commands -> Arguments \cup {None}]
  /\ rows \in [Commands -> SUBSET Identifier]
  /\ listed \in [Commands -> [titles : [Issues -> Title], labelled : SUBSET Issues]]
  /\ chosen \in [Commands -> Identifier \cup {None}]
  /\ \A c \in Commands : pc[c] \in {"recording", "titling", "labelling"} => chosen[c] # None
  /\ faults \subseteq Faults

\* Everything that names an identifier as a check's own.
Holds(i) ==
  {id \in ({record[i]} \ {None}) \cup published[i] : WellFormed(id)}
    \cup (IF i \in labelled THEN TitleClaims(title[i]) ELSE {})

\* What the register is found in is sound: a recorded identifier is the check's
\* title's and labelled, an issue without the label mentions no identifier of
\* another check, and no two checks claim one.  A range in the title of an
\* issue that has no label yet is no claim, and becomes one with the label.
StartsWhole ==
  \A start \in StartChecks :
    LET claims(i) == IF start[i].labelled THEN TitleClaims(start[i].title) ELSE {} IN
    \A i \in Issues :
      /\ start[i].record # None => start[i].labelled /\ start[i].title.own = start[i].record
      /\ start[i].labelled \/ \A id \in start[i].title.others : ~ WellFormed(id)
      /\ claims(i) \cap OldRows = {}
      /\ \A j \in Issues \ {i} : claims(i) \cap claims(j) = {}

\* No two checks hold one identifier, wherever it is written: two editors a
\* moment apart are never handed the same number, and a number of the register
\* is never given out again (what the lock of setCertificate is for).
NoTwoChecksOneIdentifier ==
  \A i \in Issues : /\ Holds(i) \cap OldRows = {}
                    /\ \A j \in Issues \ {i} : Holds(i) \cap Holds(j) = {}

\* No reservation was cut short between the record and the label.
Whole == faults \cap {"title", "label", "lost answer"} = {}

\* The same, as long as every reservation whose record is written also reaches
\* the title and the label; reads and writes of the record may fail.
NoTwoChecksWhenWhole == Whole => NoTwoChecksOneIdentifier

\* An identifier the bot picks for itself is, when it is recorded, past every
\* number of its year that any other check or the register holds, however long
\* ago the claims were read (for reservations that are whole).
NextIsPastEveryClaim ==
  [][\A c \in Commands :
       /\ Whole' /\ pc[c] = "recording" /\ record'[issue[c]] # record[issue[c]]
       /\ argument[c] = None /\ Held(c) = None
       => \A id \in OldRows \cup UNION {Holds(i) : i \in Issues \ {issue[c]}} :
            id.year = chosen[c].year => id.number < chosen[c].number]_vars

\* Every command ends, and gives the lock over the register back.
EveryReservationEnds == \A c \in Commands : pc[c] = "waiting" ~> pc[c] \in Ended /\ lock # c
=============================================================================
