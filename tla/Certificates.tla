---------------------------- MODULE Certificates ----------------------------
(***************************************************************************)
(* Certificate identifiers, YYYY-NNN, and the rules by which they are      *)
(* given out (internal/check/certificate.go).  An identifier is a year and *)
(* a number; a claim is an identifier with the issue that holds it, or     *)
(* with no issue for a row of register.csv.                                *)
(***************************************************************************)
EXTENDS Integers, FiniteSets

CONSTANTS
  Largest,   \* the largest number three digits write: 999
  MaxJump    \* how far a number may run past the one before: 9

ASSUME CertificatesAssumption == Largest \in Nat /\ MaxJump \in Nat

\* Only three digits are read back out of a title; a larger number is written
\* but never seen again.
WellFormed(id) == id.number <= Largest

NumbersIn(year, ids) == {id.number : id \in {i \in ids : WellFormed(i) /\ i.year = year}}

Highest(numbers) ==
  IF numbers = {} THEN 0
  ELSE CHOOSE n \in numbers : \A m \in numbers : m <= n

\* Deviation: the first gap is filled.
NextFillsGap(year, ids) ==
  [year |-> year,
   number |-> CHOOSE n \in 1..(Cardinality(ids) + 1) :
                /\ n \notin NumbersIn(year, ids)
                /\ \A m \in 1..(n - 1) : m \in NumbersIn(year, ids)]

\* One past the highest of the year: a gap is never filled.
NextCertificate(year, ids) ==
  [year |-> year, number |-> Highest(NumbersIn(year, ids)) + 1]

CertificateInFuture(id, year) == id.year > year

\* How far an identifier runs past the highest one below it in its year.
CertificateJump(id, ids) ==
  id.number - Highest({n \in NumbersIn(id.year, ids) : n < id.number})

CertificateTaken(id, ids) == id \in ids
=============================================================================
