-------------------------- MODULE ReservationProofs --------------------------
(***************************************************************************)
(* Theorems about Reservation: no two checks hold one certificate          *)
(* identifier as long as reservations are whole, and what the bot picks is *)
(* past every claim, for any number of commands, checks and years.         *)
(***************************************************************************)
EXTENDS Reservation, WellFoundedInduction, TLAPS

Listing == {"deciding", "recording", "titling", "labelling"}
Writing == {"recording", "titling", "labelling"}
Midway == {"titling", "labelling"}

\* A command reserves exactly while it holds the lock.
LockHeld == \A c \in Commands : pc[c] \in Reserving <=> lock = c

\* What a command listed is what there is, but for what it wrote itself.
Fresh(c) ==
  /\ pc[c] \in Listing => listed[c].labelled = labelled
  /\ pc[c] \in {"deciding", "recording", "titling"} =>
       listed[c].titles[issue[c]] = title[issue[c]]

\* It knows every claim of the others: what it read in the register, with what
\* was published since, is in the titles.
Informed(c) ==
  /\ pc[c] \in {"issues"} \cup Listing => OldRows \subseteq rows[c]
  /\ pc[c] = "issues" /\ Whole =>
       \A j \in Issues : \A id \in published[j] :
         id \in rows[c] \/ ~ WellFormed(id) \/ (j \in labelled /\ id \in TitleClaims(title[j]))
  /\ pc[c] \in Listing /\ Whole =>
       \A j \in Issues \ {issue[c]} : Holds(j) \subseteq OthersClaims(c)

\* It chose what nobody claims, and has written it as far as it has come.
Chosen(c) ==
  /\ pc[c] \in Writing => chosen[c] \notin OthersClaims(c)
  /\ pc[c] = "recording" /\ argument[c] = None /\ Held(c) = None =>
       \E y \in FirstYear..LastYear : chosen[c] = NextCertificate(y, OthersClaims(c))
  /\ pc[c] \in Midway => record[issue[c]] = chosen[c]
  /\ pc[c] = "labelling" /\ Whole => title[issue[c]].own = chosen[c]

Sound(c) == Fresh(c) /\ Informed(c) /\ Chosen(c)

\* A recorded identifier is the labelled title's, unless a command is about to
\* write that.
InTitle(j) == record[j] # None => j \in labelled /\ title[j].own = record[j]
Settled ==
  Whole => \A j \in Issues : InTitle(j) \/ \E c \in Commands : pc[c] \in Midway /\ issue[c] = j

\* An issue without the label mentions no other identifier.
NoRanges == \A j \in Issues \ labelled : \A id \in title[j].others : ~ WellFormed(id)

IInv ==
  /\ TypeOK /\ LockHeld /\ (\A c \in Commands : Sound(c))
  /\ Settled /\ NoRanges /\ NoTwoChecksWhenWhole

-----------------------------------------------------------------------------
(***************************************************************************)
(* Identifiers.                                                            *)
(***************************************************************************)

\* A bounded set of numbers has a highest one (check.highest).
LEMMA HighestIsTheMaximum ==
  ASSUME NEW numbers \in SUBSET Nat, numbers # {}, NEW bound \in Nat,
         \A n \in numbers : n <= bound
  PROVE  /\ Highest(numbers) \in numbers
         /\ \A n \in numbers : n <= Highest(numbers)
<1> DEFINE bounds == {m \in Nat : \A n \in numbers : n <= m}
           below == OpToRel(<, Nat)
<1>1. bounds \subseteq Nat /\ bound \in bounds
  OBVIOUS
<1>2. IsWellFoundedOn(below, Nat)
  BY NatLessThanWellFounded
<1>3. PICK least \in bounds : \A m \in bounds : ~ (<<m, least>> \in below)
  <2> HIDE DEF bounds, below
  <2> QED BY <1>1, <1>2, WFMin
<1>4. \A m \in bounds : ~ (m < least)
  BY <1>1, <1>3 DEF OpToRel
<1>5. least \in numbers
  <2> SUFFICES ASSUME least \notin numbers PROVE FALSE
    OBVIOUS
  <2>1. PICK one \in numbers : TRUE
    OBVIOUS
  <2>2. one \in Nat /\ one <= least /\ one # least
    BY <2>1, <1>3
  <2>3. least \in Nat /\ least - 1 \in Nat
    BY <1>1, <2>2
  <2>4. \A n \in numbers : n \in Nat /\ n <= least /\ n # least
    OBVIOUS
  <2>5. \A n \in numbers : n <= least - 1
    BY <2>3, <2>4
  <2> QED BY <1>4, <2>3, <2>5
<1> QED BY <1>5 DEF Highest

\* The next identifier is one, and past all of its year that are read back
\* (check.NextCertificate).
LEMMA NextIsPast ==
  ASSUME NEW y \in Nat, NEW ids \in SUBSET Identifier
  PROVE  /\ NextCertificate(y, ids) \in Identifier
         /\ NextCertificate(y, ids).year = y
         /\ \A id \in ids : WellFormed(id) /\ id.year = y => id.number < NextCertificate(y, ids).number
<1> DEFINE numbers == NumbersIn(y, ids)
<1>1. numbers \in SUBSET Nat /\ \A n \in numbers : n <= Largest
  BY DEF NumbersIn, WellFormed, Identifier
<1>2. Highest(numbers) \in Nat /\ \A n \in numbers : n <= Highest(numbers)
  <2>1. CASE numbers = {}
    BY <2>1 DEF Highest
  <2>2. CASE numbers # {}
    <3> HIDE DEF numbers
    <3>1. Highest(numbers) \in numbers /\ \A n \in numbers : n <= Highest(numbers)
      BY <1>1, <2>2, HighestIsTheMaximum, CertificatesAssumption
    <3> QED BY <1>1, <3>1
  <2> QED BY <2>1, <2>2
<1>3. \A id \in ids : WellFormed(id) /\ id.year = y => id.number \in numbers
  BY DEF NumbersIn
<1>4. NextCertificate(y, ids) = [year |-> y, number |-> Highest(numbers) + 1]
  BY DEF NextCertificate
<1> HIDE DEF numbers
<1>5. \A n \in numbers : n < Highest(numbers) + 1
  BY <1>1, <1>2
<1> QED BY <1>2, <1>3, <1>4, <1>5 DEF Identifier

\* What a command takes for the others' claims, and for its own, are
\* identifiers (check.Claims).
LEMMA ClaimsAreIdentifiers ==
  ASSUME TypeOK, NEW c \in Commands
  PROVE  /\ OthersClaims(c) \in SUBSET Identifier
         /\ Held(c) \in Identifier \cup {None}
         /\ year \in Nat
<1>1. listed[c].titles \in [Issues -> Title] /\ listed[c].labelled \subseteq Issues
  BY DEF TypeOK
<1>2. \A i \in Issues : TitleClaims(listed[c].titles[i]) \subseteq Identifier
  BY <1>1 DEF TitleClaims, Title
<1>3. rows[c] \subseteq Identifier
  BY DEF TypeOK
<1>4. OthersClaims(c) \in SUBSET Identifier
  BY <1>1, <1>2, <1>3 DEF OthersClaims
<1>5. Held(c) \in Identifier \cup {None}
  BY <1>1 DEF TypeOK, Held, Title
<1> QED BY <1>4, <1>5, ReservationAssumption DEF TypeOK

LEMMA WantedIsAnIdentifier ==
  ASSUME TypeOK, NEW c \in Commands
  PROVE  Wanted(c) \in Identifier
<1>1. CASE argument[c] # None
  BY <1>1, ReservationAssumption DEF Wanted, TypeOK
<1>2. CASE argument[c] = None /\ Held(c) # None
  BY <1>2, ClaimsAreIdentifiers DEF Wanted
<1>3. CASE argument[c] = None /\ Held(c) = None
  <2>1. Wanted(c) = NextCertificate(year, OthersClaims(c))
    BY <1>3, Zenon DEF Wanted
  <2> QED BY <2>1, ClaimsAreIdentifiers, NextIsPast
<1> QED BY <1>1, <1>2, <1>3

\* At the start nobody reserves, and the checks are as they are found.
LEMMA Begins == StartsWhole /\ Init => IInv
<1> SUFFICES ASSUME StartsWhole, Init PROVE IInv
  OBVIOUS
<1>1. PICK start \in StartChecks :
        /\ record = [i \in Issues |-> start[i].record]
        /\ title = [i \in Issues |-> start[i].title]
        /\ labelled = {i \in Issues : start[i].labelled}
  BY DEF Init
<1>2. start \in [Issues -> Check]
  BY ReservationAssumption
<1>3. TypeOK
  <2>1. record \in [Issues -> Identifier \cup {None}] /\ title \in [Issues -> Title]
        /\ labelled \subseteq Issues
    BY <1>1, <1>2 DEF Check
  <2> QED BY <2>1, ReservationAssumption DEF Init, TypeOK, Places
<1>4. \A c \in Commands : pc[c] = "idle"
  BY DEF Init
<1>5. LockHeld /\ \A c \in Commands : Sound(c)
  BY <1>4, ReservationAssumption
  DEF Init, LockHeld, Sound, Fresh, Informed, Chosen, Reserving, Listing, Writing, Midway
<1>6. \A i \in Issues : InTitle(i)
  BY <1>1 DEF StartsWhole, InTitle
<1>7. NoRanges
  BY <1>1 DEF StartsWhole, NoRanges
<1>8. \A i \in Issues : Holds(i) = IF start[i].labelled THEN TitleClaims(start[i].title) ELSE {}
  <2> SUFFICES ASSUME NEW i \in Issues
               PROVE  Holds(i) = IF start[i].labelled THEN TitleClaims(start[i].title) ELSE {}
    OBVIOUS
  <2>1. published[i] = {} /\ title[i] = start[i].title /\ (i \in labelled <=> start[i].labelled)
    BY <1>1 DEF Init
  <2>2. \A id \in {record[i]} \ {None} : WellFormed(id) => i \in labelled /\ id \in TitleClaims(title[i])
    BY <1>6 DEF InTitle, TitleClaims
  <2> QED BY <2>1, <2>2 DEF Holds
<1>9. NoTwoChecksOneIdentifier
  BY <1>8 DEF StartsWhole, NoTwoChecksOneIdentifier
<1> QED BY <1>3, <1>5, <1>6, <1>7, <1>9 DEF IInv, Settled, NoTwoChecksWhenWhole

-----------------------------------------------------------------------------
(***************************************************************************)
(* Every step keeps the types.                                             *)
(***************************************************************************)

LEMMA TypesKept == TypeOK /\ [Next]_vars => TypeOK'
<1> SUFFICES ASSUME TypeOK, [Next]_vars PROVE TypeOK'
  OBVIOUS
<1> USE DEF TypeOK
<1>1. CASE UNCHANGED vars
  BY <1>1 DEF vars, checks, command
<1>2. ASSUME NEW c \in Commands, Receive(c) \/ Lock(c) PROVE TypeOK'
  BY <1>2 DEF Receive, Lock, Goto, Places, Reserving, checks, command
<1>3. ASSUME NEW c \in Commands, ReadRegister(c) PROVE TypeOK'
  <2>1. OldRows \cup UNION {published[i] : i \in Issues} \in SUBSET Identifier
    BY ReservationAssumption
  <2> QED BY <1>3, <2>1 DEF ReadRegister, Goto, Places, Reserving, checks, command
<1>4. ASSUME NEW c \in Commands, ListIssues(c) PROVE TypeOK'
  <2>1. pc' \in [Commands -> Places] /\ lock' \in Commands \cup {Free}
        /\ pc' = [pc EXCEPT ![c] = pc'[c]] /\ pc'[c] \notin {"recording", "titling", "labelling"}
    BY <1>4 DEF ListIssues, End, Goto, Places, Reserving, Ended
  <2> QED BY <1>4, <2>1 DEF ListIssues, checks, command
<1>5. ASSUME NEW c \in Commands, Decide(c) PROVE TypeOK'
  <2>1. Wanted(c) \in Identifier /\ Wanted(c) # None
    BY WantedIsAnIdentifier, ReservationAssumption
  <2>2. pc' \in [Commands -> Places] /\ lock' \in Commands \cup {Free}
        /\ pc' = [pc EXCEPT ![c] = pc'[c]]
    BY <1>5 DEF Decide, End, Goto, Places, Reserving, Ended
  <2> QED BY <1>5, <2>1, <2>2 DEF Decide, checks, command
<1>6. ASSUME NEW c \in Commands, Recorded(c) \/ NotRecorded(c) PROVE TypeOK'
  <2>1. pc' \in [Commands -> Places] /\ lock' \in Commands \cup {Free}
        /\ pc' = [pc EXCEPT ![c] = pc'[c]]
    BY <1>6 DEF Recorded, NotRecorded, End, Goto, Places, Reserving, Ended
  <2>2. record' \in [Issues -> Identifier \cup {None}]
    BY <1>6 DEF Recorded, NotRecorded
  <2>3. chosen[c] # None /\ faults' \subseteq Faults
    BY <1>6 DEF Recorded, NotRecorded, Fault
  <2> QED BY <1>6, <2>1, <2>2, <2>3 DEF Recorded, NotRecorded, command
<1>7. ASSUME NEW c \in Commands, Retitle(c) \/ NotRetitled(c) PROVE TypeOK'
  <2> DEFINE old == listed[c].titles[issue[c]]
  <2>a. old \in Title /\ chosen[c] \in Identifier \cup {None}
    OBVIOUS
  <2>1. TitleWithCertificate(old, chosen[c]) \in Title
    <3> HIDE DEF old, TypeOK
    <3> QED BY <2>a DEF TitleWithCertificate, Title
  <2>2. title' \in [Issues -> Title] /\ faults' \subseteq Faults
    BY <1>7, <2>1 DEF Retitle, NotRetitled, Fault, checks
  <2> QED BY <1>7, <2>2 DEF Retitle, NotRetitled, Goto, Places, Reserving, checks, command
<1>8. ASSUME NEW c \in Commands, Label(c) \/ NotLabelled(c) PROVE TypeOK'
  BY ZenonT(60), <1>8 DEF Label, NotLabelled, End, Goto, Fault, Places, Ended, checks, command
<1>9. ASSUME NEW c \in Commands, NotRead(c) PROVE TypeOK'
  BY <1>9 DEF NotRead, End, Goto, Fault, Places, Ended, checks, command
<1>10. ASSUME NEW i \in Issues, Publish(i) PROVE TypeOK'
  BY <1>10 DEF Publish, command
<1>11. CASE NewYear
  BY <1>11, ReservationAssumption DEF NewYear, checks, command
<1> QED
  BY <1>1, <1>2, <1>3, <1>4, <1>5, <1>6, <1>7, <1>8, <1>9, <1>10, <1>11
  DEF Next, Work, Fails, Stutter

-----------------------------------------------------------------------------
(***************************************************************************)
(* What every step has in common.                                          *)
(***************************************************************************)

\* Nothing is asked of a command that does not reserve.
LEMMA AtRestIsSound ==
  ASSUME NEW d \in Commands, pc'[d] \notin Reserving
  PROVE  Sound(d)'
BY DEF Sound, Fresh, Informed, Chosen, Reserving, Listing, Writing, Midway

\* A command that sees no change stays as it was.
LEMMA UnmovedIsSound ==
  ASSUME NEW d \in Commands, Sound(d), pc'[d] = pc[d], Whole' <=> Whole,
         UNCHANGED <<checks, command, rows, listed, chosen>>
  PROVE  Sound(d)'
<1>1. \A j : Holds(j)' = Holds(j)
  BY DEF Holds, TitleClaims, checks
<1>2. OthersClaims(d)' = OthersClaims(d) /\ Held(d)' = Held(d)
  BY DEF OthersClaims, Held, TitleClaims, checks, command
<1>3. Fresh(d)'
  BY DEF Sound, Fresh, checks, command
<1>4. Informed(d)'
  BY <1>1, <1>2 DEF Sound, Informed, TitleClaims, checks, command
<1>5. Chosen(d)'
  BY <1>1, <1>2 DEF Sound, Chosen, checks, command
<1> QED BY <1>3, <1>4, <1>5 DEF Sound

\* The command that holds the lock goes on with it or gives it back, and no
\* other reserves (the mutex `reserving`).
LEMMA HolderMoves ==
  ASSUME TypeOK, LockHeld, NEW c \in Commands, pc[c] \in Reserving, NEW place, Goto(c, place),
         \/ place \in Reserving /\ UNCHANGED lock
         \/ place \in Ended /\ lock' = Free
  PROVE  /\ pc'[c] = place
         /\ LockHeld'
         /\ \A d \in Commands \ {c} : pc[d] \notin Reserving /\ pc'[d] = pc[d] /\ Sound(d)'
         /\ place \in Ended => Sound(c)'
<1>1. lock = c /\ \A d \in Commands \ {c} : pc[d] \notin Reserving
  BY DEF LockHeld
<1>2. pc'[c] = place /\ \A d \in Commands \ {c} : pc'[d] = pc[d]
  BY DEF Goto, TypeOK
<1>3. Ended \cap Reserving = {}
  BY DEF Ended, Reserving
<1>4. LockHeld'
  BY <1>1, <1>2, <1>3, ReservationAssumption DEF LockHeld
<1>5. \A d \in Commands \ {c} : Sound(d)'
  BY <1>1, <1>2, AtRestIsSound
<1> QED BY <1>1, <1>2, <1>3, <1>4, <1>5, AtRestIsSound

\* Where no check is written, what the checks hold stays apart.
LEMMA NothingWritten ==
  ASSUME Settled, NoRanges, NoTwoChecksWhenWhole,
         Whole' => Whole, UNCHANGED <<checks, issue>>,
         Whole' => \A d \in Commands : pc[d] \in Midway => pc'[d] \in Midway
  PROVE  Settled' /\ NoRanges' /\ NoTwoChecksWhenWhole'
<1>1. \A j : Holds(j)' = Holds(j) /\ (InTitle(j) => InTitle(j)')
  BY DEF Holds, TitleClaims, InTitle, checks
<1>2. Settled'
  BY <1>1 DEF Settled
<1>3. NoRanges'
  BY DEF NoRanges, checks
<1>4. NoTwoChecksWhenWhole'
  BY <1>1 DEF NoTwoChecksWhenWhole, NoTwoChecksOneIdentifier
<1> QED BY <1>2, <1>3, <1>4

\* Where one check comes to hold what nobody else does, they stay apart.
LEMMA HoldsOneMore ==
  ASSUME NoTwoChecksOneIdentifier, NEW i \in Issues, NEW id,
         Holds(i)' \subseteq Holds(i) \cup {id},
         \A j \in Issues \ {i} : Holds(j)' = Holds(j),
         id \notin OldRows, \A j \in Issues \ {i} : id \notin Holds(j)
  PROVE  NoTwoChecksOneIdentifier'
BY DEF NoTwoChecksOneIdentifier

-----------------------------------------------------------------------------
(***************************************************************************)
(* Every step of a command keeps the invariant.                            *)
(***************************************************************************)

Kept == LockHeld' /\ (\A d \in Commands : Sound(d)') /\ Settled' /\ NoRanges' /\ NoTwoChecksWhenWhole'

LEMMA ReceiveKeeps == ASSUME IInv, NEW c \in Commands, Receive(c) PROVE Kept
<1> USE DEF IInv, Receive, Goto
<1>1. pc'[c] = "waiting" /\ \A d \in Commands \ {c} : pc'[d] = pc[d]
  BY DEF TypeOK
<1>2. Whole' <=> Whole
  BY DEF Whole
<1>3. \A d \in Commands : Sound(d)'
  BY <1>1, <1>2, UnmovedIsSound, AtRestIsSound DEF Reserving
<1>4. LockHeld'
  BY <1>1 DEF LockHeld, Reserving
<1> QED BY <1>1, <1>2, <1>3, <1>4, NothingWritten DEF Kept, Midway, command

LEMMA LockKeeps == ASSUME IInv, NEW c \in Commands, Lock(c) PROVE Kept
<1> USE DEF IInv, Lock, Goto
<1>1. pc'[c] = "claims" /\ \A d \in Commands \ {c} : pc'[d] = pc[d] /\ pc[d] \notin Reserving
  BY ReservationAssumption DEF TypeOK, LockHeld
<1>2. Whole' <=> Whole
  BY DEF Whole
<1>3. \A d \in Commands \ {c} : Sound(d)'
  BY <1>1, AtRestIsSound
<1>4. Sound(c)'
  BY <1>1 DEF Sound, Fresh, Informed, Chosen, Listing, Writing, Midway
<1>5. LockHeld'
  BY <1>1 DEF LockHeld, Reserving
<1> QED BY <1>1, <1>2, <1>3, <1>4, <1>5, NothingWritten DEF Kept, Midway, command

LEMMA ReadRegisterKeeps == ASSUME IInv, NEW c \in Commands, ReadRegister(c) PROVE Kept
<1> USE DEF IInv, ReadRegister
<1>1. pc[c] \in Reserving /\ "issues" \in Reserving
  BY DEF Reserving
<1>2. /\ pc'[c] = "issues" /\ LockHeld'
      /\ \A d \in Commands \ {c} : pc'[d] = pc[d] /\ Sound(d)'
  BY <1>1, HolderMoves
<1>3. Whole' <=> Whole
  BY DEF Whole
<1>4. rows'[c] = OldRows \cup UNION {published[i] : i \in Issues}
  BY DEF TypeOK
<1>5. Sound(c)'
  BY <1>2, <1>4 DEF Sound, Fresh, Informed, Chosen, Listing, Writing, Midway, checks
<1> QED BY <1>2, <1>3, <1>5, NothingWritten DEF Kept, Midway, command

\* The lock is what makes the listing complete: while it is held nobody is
\* between a record and its label, so every claim is in a labelled title.
LEMMA ListIssuesKeeps == ASSUME IInv, NEW c \in Commands, ListIssues(c) PROVE Kept
<1> USE DEF IInv, ListIssues
<1>1. pc[c] \in Reserving /\ "deciding" \in Reserving /\ "refused" \in Ended
  BY DEF Reserving, Ended
<1>2. PICK place \in {"deciding", "refused"} :
        Goto(c, place) /\ ((place \in Reserving /\ UNCHANGED lock) \/ (place \in Ended /\ lock' = Free))
  BY <1>1 DEF End
<1>3. /\ pc'[c] = place /\ LockHeld'
      /\ \A d \in Commands \ {c} : pc[d] \notin Reserving /\ pc'[d] = pc[d] /\ Sound(d)'
  BY <1>1, <1>2, HolderMoves
<1>4. Whole' <=> Whole
  BY DEF Whole
<1>5. listed'[c] = [titles |-> title, labelled |-> labelled] /\ issue' = issue /\ rows' = rows
  BY DEF TypeOK, command
<1>6. ASSUME Whole, NEW j \in Issues \ {issue[c]} PROVE Holds(j) \subseteq OthersClaims(c)'
  <2>1. OthersClaims(c)' = rows[c] \cup UNION {TitleClaims(title[i]) : i \in labelled \ {issue[c]}}
    BY <1>5 DEF OthersClaims, TitleClaims
  <2>2. InTitle(j)
    BY <1>3, <1>6 DEF Settled, Midway, Reserving
  <2>3. \A id \in published[j] : WellFormed(id) =>
          id \in rows[c] \/ (j \in labelled /\ id \in TitleClaims(title[j]))
    BY <1>6 DEF Sound, Informed
  <2>4. \A id \in {record[j]} \ {None} : WellFormed(id) => j \in labelled /\ id \in TitleClaims(title[j])
    BY <2>2 DEF InTitle, TitleClaims
  <2> QED BY <2>1, <2>3, <2>4 DEF Holds
<1>7. \A j : Holds(j)' = Holds(j)
  BY DEF Holds, TitleClaims, checks
<1>8. Sound(c)'
  <2>1. OldRows \subseteq rows[c]
    BY DEF Sound, Informed
  <2>2. Informed(c)'
    BY <1>3, <1>4, <1>5, <1>6, <1>7, <2>1 DEF Informed
  <2>3. Fresh(c)'
    BY <1>3, <1>5 DEF Fresh, checks
  <2>4. Chosen(c)'
    BY <1>3 DEF Chosen, Writing, Midway
  <2> QED BY <2>2, <2>3, <2>4 DEF Sound
<1> QED BY <1>3, <1>4, <1>5, <1>8, NothingWritten DEF Kept, Midway

LEMMA DecideKeeps == ASSUME IInv, NEW c \in Commands, Decide(c) PROVE Kept
<1> USE DEF IInv, Decide
<1>1. pc[c] \in Reserving /\ "recording" \in Reserving /\ "refused" \in Ended
  BY DEF Reserving, Ended
<1>2. PICK place \in {"recording", "refused"} :
        /\ Goto(c, place) /\ ((place \in Reserving /\ UNCHANGED lock) \/ (place \in Ended /\ lock' = Free))
        /\ place = "recording" => ~ Refuses(c)
  BY <1>1 DEF End
<1>3. /\ pc'[c] = place /\ LockHeld'
      /\ \A d \in Commands \ {c} : pc'[d] = pc[d] /\ Sound(d)'
      /\ place \in Ended => Sound(c)'
  BY <1>1, <1>2, HolderMoves
<1>4. Whole' <=> Whole
  BY DEF Whole
<1>5. chosen'[c] = Wanted(c) /\ UNCHANGED <<issue, argument, rows, listed>>
  BY DEF TypeOK, command
<1>6. OthersClaims(c)' = OthersClaims(c) /\ Held(c)' = Held(c)
  BY <1>5 DEF OthersClaims, Held, TitleClaims, checks
<1>7. ASSUME place = "recording" PROVE Sound(c)'
  <2>1. \A j : Holds(j)' = Holds(j)
    BY DEF Holds, TitleClaims, checks
  <2>2. Informed(c)'
    BY <1>3, <1>4, <1>5, <1>6, <1>7, <2>1 DEF Sound, Informed, Listing
  <2>3. Fresh(c)'
    BY <1>3, <1>5, <1>7 DEF Sound, Fresh, Listing, checks
  <2>4. Wanted(c) \notin OthersClaims(c)
    BY <1>2, <1>7 DEF Refuses, CertificateTaken
  <2>5. argument[c] = None /\ Held(c) = None => Wanted(c) = NextCertificate(year, OthersClaims(c))
    BY Zenon DEF Wanted
  <2>6. year \in FirstYear..LastYear
    BY DEF TypeOK
  <2>7. Chosen(c)'
    BY <1>3, <1>5, <1>6, <1>7, <2>4, <2>5, <2>6 DEF Chosen, Writing, Midway
  <2> QED BY <2>2, <2>3, <2>7 DEF Sound
<1>8. Sound(c)'
  BY <1>1, <1>2, <1>3, <1>7
<1> QED BY <1>3, <1>4, <1>5, <1>8, NothingWritten DEF Kept, Midway

LEMMA NotReadKeeps == ASSUME IInv, NEW c \in Commands, NotRead(c) PROVE Kept
<1> USE DEF IInv, NotRead
<1>1. pc[c] \in Reserving /\ "not done" \in Ended /\ pc[c] \notin Midway
  BY DEF Reserving, Ended, Midway
<1>2. /\ pc'[c] = "not done" /\ LockHeld'
      /\ \A d \in Commands \ {c} : pc'[d] = pc[d] /\ Sound(d)'
      /\ Sound(c)'
  BY <1>1, HolderMoves DEF End
<1>3. Whole' <=> Whole
  BY DEF Whole, Fault
<1> QED BY <1>1, <1>2, <1>3, NothingWritten DEF Kept, command

\* A check takes an identifier nobody else holds: what the command read of the
\* others is all they hold.
LEMMA OnlyTheChosenIsAdded ==
  ASSUME IInv, NEW c \in Commands, pc[c] \in Writing, Whole, NEW i \in Issues, i = issue[c],
         NEW id, id = chosen[c],
         Holds(i)' \subseteq Holds(i) \cup {id},
         \A j \in Issues \ {i} : Holds(j)' = Holds(j)
  PROVE  NoTwoChecksOneIdentifier'
<1>1. NoTwoChecksOneIdentifier
  BY DEF IInv, NoTwoChecksWhenWhole
<1>2. /\ OldRows \subseteq OthersClaims(c) /\ id \notin OthersClaims(c)
      /\ \A j \in Issues \ {i} : Holds(j) \subseteq OthersClaims(c)
  BY DEF IInv, Sound, Informed, Chosen, Writing, Listing, OthersClaims
<1> QED BY <1>1, <1>2, HoldsOneMore

LEMMA RecordedKeeps == ASSUME IInv, NEW c \in Commands, Recorded(c) PROVE Kept
<1> USE DEF IInv, Recorded
<1>1. pc[c] \in Reserving /\ "titling" \in Reserving /\ "refused" \in Ended
      /\ pc[c] \in Writing /\ pc[c] \notin Midway
  BY DEF Reserving, Ended, Writing, Midway
<1>2. Whole' <=> Whole
  BY DEF Whole
<1>3. CASE issue[c] \in Tampered
  <2>1. /\ pc'[c] = "refused" /\ LockHeld'
        /\ \A d \in Commands \ {c} : pc'[d] = pc[d] /\ Sound(d)'
        /\ Sound(c)'
    BY <1>1, <1>3, HolderMoves DEF End
  <2> QED BY <1>1, <1>2, <1>3, <2>1, NothingWritten DEF Kept, command, checks
<1>4. CASE issue[c] \notin Tampered
  <2>0. PICK i \in Issues : i = issue[c]
    BY DEF TypeOK
  <2>a. PICK id : id = chosen[c]
    OBVIOUS
  <2>1. /\ pc'[c] = "titling" /\ LockHeld'
        /\ \A d \in Commands \ {c} : pc'[d] = pc[d] /\ Sound(d)'
    BY <1>1, <1>4, HolderMoves
  <2>2. record'[i] = id /\ \A j \in Issues \ {i} : record'[j] = record[j]
    BY <1>4, <2>0, <2>a DEF TypeOK
  <2>3. \A j \in Issues \ {i} : Holds(j)' = Holds(j) /\ (InTitle(j) => InTitle(j)')
    BY <2>2 DEF Holds, TitleClaims, InTitle
  <2>4. Holds(i)' \subseteq Holds(i) \cup {id}
    BY <2>2 DEF Holds, TitleClaims
  <2>5. OthersClaims(c)' = OthersClaims(c) /\ issue' = issue
    BY DEF OthersClaims, TitleClaims, command
  <2>6. Sound(c)'
    <3>1. Fresh(c)'
      BY <1>1, <2>0, <2>1, <2>5 DEF Sound, Fresh, Listing
    <3>2. Informed(c)'
      BY <1>1, <1>2, <2>1, <2>0, <2>3, <2>5 DEF Sound, Informed, Listing
    <3>3. Chosen(c)'
      BY <1>1, <2>0, <2>a, <2>1, <2>2, <2>5 DEF Sound, Chosen, Writing, Midway
    <3> QED BY <3>1, <3>2, <3>3 DEF Sound
  <2>7. Settled'
    BY <1>1, <1>2, <2>1, <2>0, <2>3, <2>5 DEF Settled, Midway
  <2>8. NoRanges' /\ NoTwoChecksWhenWhole'
    BY <1>1, <1>2, <2>3, <2>4, <2>0, <2>a, OnlyTheChosenIsAdded DEF NoRanges, NoTwoChecksWhenWhole
  <2> QED BY <2>1, <2>6, <2>7, <2>8 DEF Kept
<1> QED BY <1>3, <1>4

\* A write that GitHub refuses changes nothing; one whose answer is lost ends
\* what the property speaks of.
LEMMA NotRecordedKeeps == ASSUME IInv, NEW c \in Commands, NotRecorded(c) PROVE Kept
<1> USE DEF IInv, NotRecorded
<1>1. pc[c] \in Reserving /\ "not done" \in Ended /\ pc[c] \notin Midway
  BY DEF Reserving, Ended, Midway
<1>2. /\ pc'[c] = "not done" /\ LockHeld'
      /\ \A d \in Commands \ {c} : pc'[d] = pc[d] /\ Sound(d)'
      /\ Sound(c)'
  BY <1>1, HolderMoves DEF End
<1>3. CASE Fault("refused write") /\ UNCHANGED record
  BY <1>1, <1>2, <1>3, NothingWritten DEF Kept, command, checks, Whole, Fault
<1>4. CASE Fault("lost answer")
  <2>1. ~ Whole'
    BY <1>4 DEF Whole, Fault
  <2> QED BY <1>2, <2>1 DEF Kept, Settled, NoRanges, NoTwoChecksWhenWhole
<1> QED BY <1>3, <1>4

LEMMA RetitleKeeps == ASSUME IInv, NEW c \in Commands, Retitle(c) PROVE Kept
<1> USE DEF IInv, Retitle
<1>i. PICK i \in Issues : i = issue[c]
  BY DEF TypeOK
<1>d. PICK id : id = chosen[c]
  OBVIOUS
<1>1. pc[c] \in Reserving /\ "labelling" \in Reserving /\ pc[c] \in Writing /\ pc[c] \in Midway
  BY DEF Reserving, Writing, Midway
<1>2. /\ pc'[c] = "labelling" /\ LockHeld'
      /\ \A d \in Commands \ {c} : pc'[d] = pc[d] /\ Sound(d)'
  BY <1>1, HolderMoves
<1>3. Whole' <=> Whole
  BY DEF Whole
<1>4. title[i] \in Title /\ listed[c].titles[i] = title[i] /\ record[i] = id
  BY <1>1, <1>i, <1>d DEF Sound, Fresh, Chosen, TypeOK
<1>5. /\ title'[i].own = id /\ title'[i].others = title[i].others
      /\ \A j \in Issues \ {i} : title'[j] = title[j]
  <2>1. CASE TitleWithCertificate(listed[c].titles[i], id) = listed[c].titles[i]
    BY <1>i, <1>d, <1>4, <2>1 DEF TitleWithCertificate, Title
  <2>2. CASE TitleWithCertificate(listed[c].titles[i], id) # listed[c].titles[i]
    BY <1>i, <1>d, <1>4, <2>2 DEF TitleWithCertificate, Title, TypeOK
  <2> QED BY <2>1, <2>2
<1>6. \A j \in Issues \ {i} : Holds(j)' = Holds(j) /\ (InTitle(j) => InTitle(j)')
  BY <1>5 DEF Holds, TitleClaims, InTitle
<1>7. Holds(i)' \subseteq Holds(i) \cup {id}
  BY <1>5 DEF Holds, TitleClaims
<1>8. OthersClaims(c)' = OthersClaims(c) /\ issue' = issue
  BY DEF OthersClaims, TitleClaims, command
<1>9. Sound(c)'
  <2>1. Fresh(c)'
    BY <1>1, <1>2, <1>i, <1>8 DEF Sound, Fresh, Listing
  <2>2. Informed(c)'
    BY <1>1, <1>2, <1>3, <1>6, <1>i, <1>8 DEF Sound, Informed, Listing
  <2>3. Chosen(c)'
    BY <1>1, <1>2, <1>4, <1>5, <1>i, <1>d, <1>8 DEF Sound, Chosen, Writing, Midway
  <2> QED BY <2>1, <2>2, <2>3 DEF Sound
<1>10. Settled'
  BY <1>2, <1>3, <1>6, <1>i, <1>8 DEF Settled, Midway
<1>11. NoRanges'
  BY <1>4, <1>5 DEF NoRanges
<1>12. NoTwoChecksWhenWhole'
  BY <1>1, <1>3, <1>6, <1>7, <1>i, <1>d, OnlyTheChosenIsAdded DEF NoTwoChecksWhenWhole
<1> QED BY <1>2, <1>9, <1>10, <1>11, <1>12 DEF Kept

LEMMA NotRetitledKeeps == ASSUME IInv, NEW c \in Commands, NotRetitled(c) PROVE Kept
<1> USE DEF IInv, NotRetitled
<1>1. pc[c] \in Reserving /\ "labelling" \in Reserving
  BY DEF Reserving
<1>2. /\ pc'[c] = "labelling" /\ LockHeld'
      /\ \A d \in Commands \ {c} : pc'[d] = pc[d] /\ Sound(d)'
  BY <1>1, HolderMoves
<1>3. ~ Whole'
  BY DEF Whole, Fault
<1>4. OthersClaims(c)' = OthersClaims(c)
  BY DEF OthersClaims, TitleClaims, command
<1>5. Sound(c)'
  BY <1>2, <1>3, <1>4 DEF Sound, Fresh, Informed, Chosen, Listing, Writing, Midway, command, checks
<1> QED BY <1>2, <1>3, <1>5 DEF Kept, Settled, NoRanges, NoTwoChecksWhenWhole, checks

\* With the label the title counts, and it says what the record says.
LEMMA LabelKeeps == ASSUME IInv, NEW c \in Commands, Label(c) PROVE Kept
<1> USE DEF IInv, Label
<1>i. PICK i \in Issues : i = issue[c]
  BY DEF TypeOK
<1>1. pc[c] \in Reserving /\ "done" \in Ended /\ pc[c] \in Midway
  BY DEF Reserving, Ended, Midway
<1>2. /\ pc'[c] = "done" /\ LockHeld'
      /\ \A d \in Commands \ {c} : pc'[d] = pc[d] /\ Sound(d)'
      /\ Sound(c)'
  BY <1>1, HolderMoves DEF End
<1>3. Whole' <=> Whole
  BY DEF Whole
<1>4. labelled' = labelled \cup {i} /\ record[i] = chosen[c] /\ chosen[c] # None
  BY <1>1, <1>i DEF Sound, Fresh, Chosen, Listing, TypeOK
<1>5. NoRanges'
  BY <1>4 DEF NoRanges
<1>6. ASSUME Whole PROVE Settled' /\ NoTwoChecksWhenWhole'
  <2>1. title[i].own = chosen[c]
    BY <1>i, <1>6 DEF Sound, Chosen
  <2>2. \A j \in Issues \ {i} : Holds(j)' = Holds(j) /\ (InTitle(j) => InTitle(j)')
    BY <1>4 DEF Holds, TitleClaims, InTitle
  <2>3. InTitle(i)'
    BY <1>4, <2>1 DEF InTitle
  <2>4. Settled'
    BY <1>2, <1>3, <2>2, <1>i, <2>3 DEF Settled, command
  <2>5. Holds(i)' = Holds(i)
    <3>1. CASE i \in labelled
      BY <1>4, <3>1 DEF Holds, TitleClaims
    <3>2. CASE i \notin labelled
      <4>1. \A id \in TitleClaims(title[i]) : id = record[i] /\ WellFormed(id)
        BY <1>4, <2>1, <3>2 DEF TitleClaims, NoRanges
      <4> QED BY <1>4, <4>1, <3>2 DEF Holds, TitleClaims
    <3> QED BY <3>1, <3>2
  <2>6. \A j \in Issues : Holds(j)' = Holds(j)
    BY <2>2, <2>5
  <2> QED BY <1>6, <2>4, <2>6 DEF NoTwoChecksWhenWhole, NoTwoChecksOneIdentifier
<1>7. ~ Whole => Settled' /\ NoTwoChecksWhenWhole'
  BY <1>3 DEF Settled, NoTwoChecksWhenWhole
<1> QED BY <1>2, <1>5, <1>6, <1>7 DEF Kept

LEMMA NotLabelledKeeps == ASSUME IInv, NEW c \in Commands, NotLabelled(c) PROVE Kept
<1> USE DEF IInv, NotLabelled
<1>1. pc[c] \in Reserving /\ "unlabelled" \in Ended
  BY DEF Reserving, Ended
<1>2. /\ LockHeld'
      /\ \A d \in Commands \ {c} : Sound(d)'
      /\ Sound(c)'
  BY <1>1, HolderMoves DEF End
<1>3. ~ Whole'
  BY DEF Whole, Fault
<1> QED BY <1>2, <1>3 DEF Kept, Settled, NoRanges, NoTwoChecksWhenWhole, checks

\* A row of register.csv repeats what the check holds.
LEMMA PublishKeeps == ASSUME IInv, NEW i \in Issues, Publish(i) PROVE Kept
<1> USE DEF IInv, Publish
<1>1. Whole' <=> Whole
  BY DEF Whole
<1>2. /\ published'[i] = published[i] \cup {record[i]}
      /\ \A j \in Issues \ {i} : published'[j] = published[j]
  BY DEF TypeOK
<1>3. \A j \in Issues : Holds(j)' = Holds(j) /\ (InTitle(j) => InTitle(j)')
  BY <1>2 DEF Holds, TitleClaims, InTitle
<1>4. Settled' /\ NoRanges' /\ NoTwoChecksWhenWhole'
  BY <1>1, <1>3 DEF Settled, NoRanges, NoTwoChecksWhenWhole, NoTwoChecksOneIdentifier, command
<1>5. LockHeld'
  BY DEF LockHeld
<1>6. ASSUME NEW d \in Commands PROVE Sound(d)'
  <2>1. OthersClaims(d)' = OthersClaims(d) /\ Held(d)' = Held(d) /\ issue' = issue /\ argument' = argument
    BY DEF OthersClaims, Held, TitleClaims, command
  <2>2. Fresh(d)' /\ Chosen(d)'
    BY <2>1, <1>1 DEF Sound, Fresh, Chosen
  <2>3. ASSUME pc[d] = "issues", Whole, NEW j \in Issues, NEW id \in published'[j], WellFormed(id)
        PROVE  id \in rows[d] \/ (j \in labelled /\ id \in TitleClaims(title[j]))
    <3>1. CASE id \in published[j]
      BY <2>3, <3>1 DEF Sound, Informed
    <3>2. CASE j = i /\ id = record[i]
      BY <2>3, <3>2 DEF TitleClaims
    <3> QED BY <1>2, <3>1, <3>2
  <2>4. Informed(d)'
    BY <1>1, <1>3, <2>1, <2>3 DEF Sound, Informed, TitleClaims
  <2> QED BY <2>2, <2>4 DEF Sound
<1> QED BY <1>4, <1>5, <1>6 DEF Kept

LEMMA TimeKeeps == ASSUME IInv, NewYear \/ UNCHANGED vars PROVE Kept
<1>1. /\ UNCHANGED <<checks, lock, pc, command, rows, listed, chosen, faults>>
  BY DEF NewYear, vars
<1>2. Whole' <=> Whole
  BY <1>1 DEF Whole
<1>3. \A d \in Commands : Sound(d)'
  BY <1>1, <1>2, UnmovedIsSound DEF IInv
<1>4. LockHeld'
  BY <1>1 DEF IInv, LockHeld
<1> QED BY <1>1, <1>2, <1>3, <1>4, NothingWritten DEF IInv, Kept, command

LEMMA EveryStepKeeps == IInv /\ [Next]_vars => IInv'
<1> SUFFICES ASSUME IInv, [Next]_vars PROVE IInv'
  OBVIOUS
<1>1. TypeOK'
  BY TypesKept DEF IInv
<1>2. Kept
  <2>1. CASE \E c \in Commands : Receive(c) \/ Work(c)
    BY <2>1, ReceiveKeeps, LockKeeps, ReadRegisterKeeps, ListIssuesKeeps, DecideKeeps, RecordedKeeps,
       RetitleKeeps, LabelKeeps DEF Work
  <2>2. CASE \E c \in Commands : Fails(c)
    BY <2>2, NotReadKeeps, NotRecordedKeeps, NotRetitledKeeps, NotLabelledKeeps DEF Fails
  <2>3. CASE \E i \in Issues : Publish(i)
    BY <2>3, PublishKeeps
  <2>4. CASE NewYear \/ Stutter \/ UNCHANGED vars
    BY <2>4, TimeKeeps DEF Stutter
  <2> QED BY <2>1, <2>2, <2>3, <2>4 DEF Next
<1> QED BY <1>1, <1>2 DEF IInv, Kept

-----------------------------------------------------------------------------
(***************************************************************************)
(* The theorems.                                                           *)
(***************************************************************************)

\* Every variable keeps its type, and nothing is written before an identifier
\* is settled on, whatever the checks held at the start.
THEOREM ReservationTypes == Spec => []TypeOK
<1>1. Init => TypeOK
  <2> SUFFICES ASSUME Init PROVE TypeOK
    OBVIOUS
  <2>1. PICK start \in StartChecks :
          /\ record = [i \in Issues |-> start[i].record]
          /\ title = [i \in Issues |-> start[i].title]
          /\ labelled = {i \in Issues : start[i].labelled}
    BY DEF Init
  <2>2. start \in [Issues -> Check]
    BY ReservationAssumption
  <2>3. record \in [Issues -> Identifier \cup {None}] /\ title \in [Issues -> Title]
        /\ labelled \subseteq Issues
    BY <2>1, <2>2 DEF Check
  <2> QED BY <2>3, ReservationAssumption DEF Init, TypeOK, Places
<1> QED BY <1>1, TypesKept, PTL DEF Spec

\* The inductive invariant holds from a register found in order.
THEOREM ReservationInvariant == StartsWhole /\ Spec => []IInv
<1> QED BY Begins, EveryStepKeeps, PTL DEF Spec

\* Two commands of setCertificate at once, on one check or on several, never
\* leave two checks holding one identifier, nor one of an old row of the
\* register, whatever failed before the record was written.
THEOREM NoTwoChecksOneIdentifierWhenWhole == StartsWhole /\ Spec => []NoTwoChecksWhenWhole
<1>1. IInv => NoTwoChecksWhenWhole
  BY DEF IInv
<1> QED BY <1>1, ReservationInvariant, PTL

\* What check.NextCertificate picked is past every number of its year any
\* other check holds when it is recorded, not only when it was picked.
THEOREM WhatIsPickedIsPastEveryClaim == StartsWhole /\ Spec => NextIsPastEveryClaim
<1>1. ASSUME IInv, [Next]_vars, NEW c \in Commands,
             Whole', pc[c] = "recording", record'[issue[c]] # record[issue[c]],
             argument[c] = None, Held(c) = None,
             NEW id \in OldRows \cup UNION {Holds(i) : i \in Issues \ {issue[c]}},
             id.year = chosen[c].year
      PROVE  id.number < chosen[c].number
  <2>1. Whole
    BY <1>1 DEF Next, Whole, vars, Receive, Work, Fails, Lock, ReadRegister, ListIssues, Decide,
         Recorded, Retitle, Label, NotRead, NotRecorded, NotRetitled, NotLabelled, Fault, Publish,
         NewYear, Stutter
  <2>2. id \in OthersClaims(c)
    BY <1>1, <2>1 DEF IInv, Sound, Informed, Listing, OthersClaims
  <2>3. PICK y \in FirstYear..LastYear : chosen[c] = NextCertificate(y, OthersClaims(c))
    BY <1>1 DEF IInv, Sound, Chosen
  <2>4. WellFormed(id)
    BY <1>1, ReservationAssumption DEF Holds, TitleClaims
  <2>5. OthersClaims(c) \in SUBSET Identifier /\ y \in Nat
    BY <1>1, ClaimsAreIdentifiers, ReservationAssumption DEF IInv
  <2> QED BY <1>1, <2>2, <2>3, <2>4, <2>5, NextIsPast
<1>2. IInv /\ [Next]_vars =>
        \A c \in Commands :
          /\ Whole' /\ pc[c] = "recording" /\ record'[issue[c]] # record[issue[c]]
          /\ argument[c] = None /\ Held(c) = None
          => \A id \in OldRows \cup UNION {Holds(i) : i \in Issues \ {issue[c]}} :
               id.year = chosen[c].year => id.number < chosen[c].number
  BY <1>1
<1> QED BY <1>2, ReservationInvariant, PTL DEF Spec, NextIsPastEveryClaim
=============================================================================
