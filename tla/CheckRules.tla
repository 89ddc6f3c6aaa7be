----------------------------- MODULE CheckRules -----------------------------
(***************************************************************************)
(* The rules a codecheck.yml is judged by (internal/check, internal/rules):*)
(* which specification version applies, which rules it has, what each rule *)
(* asks the outside world, and what it says of what it heard.              *)
(*                                                                         *)
(* A configuration is a record of what the rules tell apart.  The outside  *)
(* world is a function from addresses to answers: the truth is one such    *)
(* function, and what a run has heard is another, with `Silent` where the  *)
(* answer was an outage and `Unasked` where nobody asked.                  *)
(***************************************************************************)
EXTENDS Naturals, Sequences

CONSTANTS
  Silent,   \* a service that could not be asked, or answered with an outage
  Unasked,  \* an address nobody has asked yet
  NoRow     \* no register row

-----------------------------------------------------------------------------
(***************************************************************************)
(* Configurations.                                                         *)
(***************************************************************************)

\* A malformed ORCID is a sound one written as a link; a placeholder is the
\* template's 0000-0000-0000-0000.
Person == [here : BOOLEAN, name : BOOLEAN,
           orcid : {"none", "malformed", "mistyped", "placeholder", "sound"}]

Configuration ==
  [text : {"yaml", "empty", "another shape", "not YAML", "not UTF-8"},
   marker : BOOLEAN, named : BOOLEAN,
   version : {"absent", "empty", "1.0", "2.0", "historical 1.0", "unknown"},
   checkTime : {"none", "old", "recent"},
   hasManifest : BOOLEAN,
   items : Seq([file : {"none", "empty", "inside", "outside"}, comment : BOOLEAN]),
   codechecker : Person, author : Person,
   report : {"none", "FIXME", "example", "text", "link", "bare Zenodo DOI", "Zenodo link"},
   paper : BOOLEAN, title : BOOLEAN,
   reference : {"none", "FIXME", "text", "bare DOI", "link", "DOI link", "PDF", "archived PDF"},
   other : {"none", "scalar", "links", "both", "text"},
   summary : BOOLEAN, certificate : {"none", "malformed", "sound", "future"},
   todo : BOOLEAN,        \* a template marker left somewhere else
   repository : BOOLEAN]

Absent == [here |-> FALSE, name |-> FALSE, orcid |-> "none"]

\* What nothing could be read from.
Blank(c) ==
  [text |-> c.text, marker |-> c.marker, named |-> c.named, version |-> "absent",
   checkTime |-> "none", hasManifest |-> FALSE, items |-> <<>>,
   codechecker |-> Absent, author |-> Absent, report |-> "none", paper |-> FALSE,
   title |-> FALSE, reference |-> "none", other |-> "none", summary |-> FALSE,
   certificate |-> "none", todo |-> FALSE, repository |-> FALSE]

\* CC-CFG-023: a marker anywhere in the file, or in the report's own forms.
Placeholders(c) ==
  \/ c.todo \/ c.report \in {"FIXME", "example"} \/ c.reference = "FIXME"
  \/ "placeholder" \in {c.codechecker.orcid, c.author.orcid}

\* A file of another shape is not decoded, but its values are still collected.
FromBytes(c) ==
  IF c.text = "yaml" THEN c
  ELSE [Blank(c) EXCEPT !.todo = c.text = "another shape"
                                  /\ (Placeholders(c) /\ c.report # "example")]

-----------------------------------------------------------------------------
(***************************************************************************)
(* The catalogue.                                                          *)
(***************************************************************************)

Catalogue20 == <<
  "CC-CFG-001", "CC-CFG-002", "CC-CFG-003", "CC-CFG-004", "CC-CFG-005", "CC-CFG-006",
  "CC-CFG-007", "CC-CFG-008", "CC-CFG-009", "CC-CFG-010", "CC-CFG-011", "CC-CFG-012",
  "CC-CFG-013", "CC-CFG-014", "CC-CFG-015", "CC-CFG-016", "CC-CFG-017", "CC-CFG-018",
  "CC-CFG-019", "CC-CFG-020", "CC-CFG-021", "CC-CFG-022", "CC-CFG-023", "CC-CFG-024",
  "CC-CFG-025", "CC-CFG-026", "CC-CFG-027", "CC-CFG-028", "CC-CFG-029", "CC-CFG-030",
  "CC-CFG-031", "CC-MET-001", "CC-MET-002", "CC-MET-003", "CC-MET-004", "CC-MET-005",
  "CC-MET-006", "CC-MET-007", "CC-MET-008", "CC-MET-009", "CC-BUN-001", "CC-BUN-002",
  "CC-BUN-003", "CC-BUN-004", "CC-BUN-005", "CC-REP-001", "CC-REP-002", "CC-REP-004",
  "CC-REP-005", "CC-REP-006", "CC-REP-007", "CC-REP-008", "CC-REP-009", "CC-REP-010",
  "CC-REG-001", "CC-REG-002", "CC-REG-003", "CC-REG-004", "CC-REG-005", "CC-REG-006",
  "CC-REG-007", "CC-REG-008" >>

NewIn20 == {"CC-CFG-029", "CC-CFG-030", "CC-MET-009"}

\* The active rules of a specification version, by their places in the order
\* they run.
Catalogue(version) ==
  {i \in DOMAIN Catalogue20 : version = "2.0" \/ Catalogue20[i] \notin NewIn20}

Area(rule) ==
  CASE rule \in {"CC-BUN-001", "CC-BUN-002", "CC-BUN-003", "CC-BUN-004", "CC-BUN-005"} -> "bundle"
    [] rule \in {"CC-MET-001", "CC-MET-002", "CC-MET-003", "CC-MET-004", "CC-MET-005",
                 "CC-MET-006", "CC-MET-007", "CC-MET-008", "CC-MET-009"} -> "metadata"
    [] rule \in {"CC-REP-001", "CC-REP-002", "CC-REP-004", "CC-REP-005", "CC-REP-006",
                 "CC-REP-007", "CC-REP-008", "CC-REP-009", "CC-REP-010"} -> "report"
    [] rule \in {"CC-REG-001", "CC-REG-002", "CC-REG-003", "CC-REG-004", "CC-REG-005",
                 "CC-REG-006", "CC-REG-007", "CC-REG-008"} -> "register"
    [] OTHER -> "config"

ReferenceRules ==
  {"CC-CFG-021", "CC-CFG-022", "CC-CFG-027", "CC-CFG-028", "CC-CFG-029", "CC-CFG-030",
   "CC-CFG-031", "CC-MET-004", "CC-MET-009"}

Parts == {"all", "bundle", "config", "metadata", "metadata references", "certificate", "report"}

InPart(rule, part) ==
  \/ part = "all"
  \/ part = "certificate" /\ Area(rule) = "register"
  \/ part \in {"metadata", "metadata references"} /\ rule \in ReferenceRules
  \/ part \in {"bundle", "config", "metadata", "report"} /\ Area(rule) = part

PaperRules ==
  {"CC-CFG-016", "CC-CFG-017", "CC-CFG-018", "CC-CFG-019", "CC-CFG-020", "CC-CFG-021"}

Warnings(version) ==
  {"CC-CFG-010", "CC-CFG-014", "CC-CFG-015", "CC-CFG-022", "CC-MET-002", "CC-MET-003",
   "CC-MET-004", "CC-MET-005", "CC-MET-006", "CC-MET-007", "CC-MET-008", "CC-BUN-002",
   "CC-BUN-003", "CC-BUN-005", "CC-REP-001", "CC-REP-002", "CC-REP-004", "CC-REP-005",
   "CC-REP-006", "CC-REP-007", "CC-REP-008", "CC-REP-009", "CC-REP-010", "CC-REG-005",
   "CC-REG-006", "CC-REG-007", "CC-REG-008"}
  \cup IF version = "2.0" THEN {"CC-CFG-027", "CC-CFG-030", "CC-MET-009"} ELSE PaperRules

Advice(version) ==
  {"CC-CFG-007", "CC-CFG-012", "CC-CFG-028", "CC-CFG-031"}
  \cup IF version = "2.0" THEN {} ELSE {"CC-CFG-024", "CC-CFG-025", "CC-CFG-027"}

Severity(rule, version) ==
  CASE rule \in Warnings(version) -> "warning"
    [] rule \in Advice(version) -> "info"
    [] OTHER -> "error"

-----------------------------------------------------------------------------
(***************************************************************************)
(* What was heard.                                                         *)
(***************************************************************************)

Address ==
  {"codecheck.yml", "codecheck.yml on master", "last change", "root", "inside",
   "file 1", "file 2", "file 1 on master", "file 2 on master", "stated licence",
   "report", "paper", "other 1", "other 2", "repository", "ORCID of the author",
   "ORCID of the codechecker", "work", "deposit", "register", "venues", "issue",
   "record of the check", "this issue", "paper of the issue", "index.json", "page"}

\* What the answers that are no single word are told apart by: the work a DOI
\* names, compared with the configuration's paper; a deposit on Zenodo, compared
\* with its certificate and codecheckers; the register's rows of the certificate,
\* and whether its number is close to the last; and an issue of the register.
Work == [title : {"none", "same", "another"}, authors : {"none", "same", "others", "one more"},
         orcids : {"none", "same", "others"}]

Record == [draft : BOOLEAN, concept : BOOLEAN, newest : {"yes", "no", "unsaid"},
           pdf : {"none", "another", "codecheck.pdf"},
           sources : SUBSET {"codecheck.Rmd", "codecheck.ipynb"}, titled : BOOLEAN,
           creator : {"none", "same", "others"}, orcid : {"none", "same", "others"}]

\* A repository written without its platform is no form of the register, and can
\* still be read as a person's target is.
RegisterRow == [same : BOOLEAN, repository : {"sound", "no platform", "malformed"},
                type : {"a type", "another"}, venue : {"listed", "unlisted", "none"}, issue : BOOLEAN]

RegisterData == [times : 0..2, row : RegisterRow, close : BOOLEAN]

Issue == [there : BOOLEAN, titled : BOOLEAN, typed : BOOLEAN, venued : BOOLEAN]

\* The rest of a world is one word an address, or the names in a directory.
Truth(w) ==
  /\ w["work"] \in Work /\ w["deposit"] \in Record
  /\ w["register"] \in RegisterData /\ w["issue"] \in Issue
  /\ w["root"] \subseteq {"codecheck/", "README", "LICENSE", "codecheck.yml"}
  /\ w["venues"] \in {"some", "none"} /\ w["stated licence"] \in {"none", "stated"}
  /\ w["index.json"] \in {"missing", "same", "differs"}

Said(h, a) == h[a] \notin {Silent, Unasked}

\* The branch of a GitLab project a configuration was read from: the first
\* that answered with the file, and every later file is read from it.
Branch(h) == IF h["codecheck.yml"] = "there" THEN "main" ELSE "master"

FileAt(h, i) ==
  IF Branch(h) = "main" THEN IF i = 1 THEN "file 1" ELSE "file 2"
  ELSE IF i = 1 THEN "file 1 on master" ELSE "file 2 on master"

\* SpecVersion: "" for a file that is refused.  An undatable file is judged
\* by the newest version.
SpecVersion(c, h) ==
  LET dated(when) == IF when = "old" THEN "1.0" ELSE "2.0"
  IN CASE c.version \in {"empty", "unknown"} -> ""
       [] c.version = "2.0" -> "2.0"
       [] c.version \in {"1.0", "historical 1.0"} -> "1.0"
       [] c.version = "absent" /\ c.checkTime # "none" -> dated(c.checkTime)
       [] OTHER -> IF Said(h, "last change") THEN dated(h["last change"]) ELSE "2.0"

Grade(applies, holds) == IF ~applies THEN "skip" ELSE IF holds THEN "pass" ELSE "fail"

\* resolves: only "not there" is a failure.  Being blocked, rate limited or
\* answered with a server's error says nothing about the link.
Resolves(h, a) ==
  IF ~Said(h, a) \/ h[a] = "blocked" THEN "skip" ELSE IF h[a] = "ok" THEN "pass" ELSE "fail"

\* Deviation: a link that could not be asked is counted with those that answer.
VerdictOfTheRest(results) == IF "fail" \in results THEN "fail" ELSE "pass"

\* resolution.verdict: one that is not there is a finding whatever else is
\* down, and one that could not be asked is never a pass.
Verdict(results) ==
  IF "fail" \in results THEN "fail" ELSE IF "skip" \in results THEN "skip" ELSE "pass"
-----------------------------------------------------------------------------
(***************************************************************************)
(* The rules, area by area.  c is the parsed configuration, h what was     *)
(* heard, row the register row `register` would add, NoRow elsewhere.      *)
(***************************************************************************)

FileRule(rule, c) ==
  CASE rule = "CC-CFG-001" -> Grade(TRUE, c.text \in {"yaml", "empty"})
    [] rule = "CC-CFG-002" -> Grade(TRUE, c.marker)
    [] rule = "CC-CFG-003" -> Grade(TRUE, c.named)

\* One item with a comment and no file node is a check without output files.
ManifestRule(rule, c) ==
  LET items == {c.items[i] : i \in DOMAIN c.items}
      noFiles == Len(c.items) = 1 /\ c.items[1].file = "none" /\ c.items[1].comment
  IN CASE rule = "CC-CFG-004" -> Grade(TRUE, c.hasManifest)
       [] rule = "CC-CFG-005" ->
            Grade(items # {}, noFiles \/ \A i \in items : i.file \in {"inside", "outside"})
       [] rule = "CC-CFG-006" -> Grade(items # {}, \A i \in items : i.file # "outside")
       [] rule = "CC-CFG-007" -> Grade(items # {}, \A i \in items : i.comment)

DeclarationRule(rule, c) ==
  CASE rule = "CC-CFG-008" -> Grade(TRUE, c.codechecker.here)
    [] rule = "CC-CFG-009" -> Grade(c.codechecker.here, c.codechecker.name)
    [] rule = "CC-CFG-010" -> Grade(c.codechecker.here, c.codechecker.orcid # "none")
    [] rule = "CC-CFG-011" -> Grade(TRUE, c.report # "none")
    [] rule = "CC-CFG-013" -> Grade(c.report # "none", c.report \notin {"FIXME", "example"})
    [] rule = "CC-CFG-014" -> Grade(TRUE, c.version \notin {"absent", "empty"})
    [] rule = "CC-CFG-015" -> Grade(c.version \notin {"absent", "empty"}, c.version \in {"1.0", "2.0"})

PaperRule(rule, c) ==
  CASE rule = "CC-CFG-016" -> Grade(TRUE, c.paper)
    [] rule = "CC-CFG-017" -> Grade(c.paper, c.title)
    [] rule = "CC-CFG-018" -> Grade(c.paper, c.author.here)
    [] rule = "CC-CFG-019" -> Grade(c.author.here, c.author.name)
    [] rule = "CC-CFG-020" -> Grade(c.author.here, c.author.orcid # "none")

PDFs == {"PDF", "archived PDF"}
Links == {"FIXME", "link", "DOI link"} \cup PDFs

ReferenceRule(rule, c) ==
  CASE rule = "CC-CFG-021" -> Grade(TRUE, c.reference # "none")
    [] rule = "CC-CFG-022" -> Grade(c.reference # "none", c.reference # "PDF")
    [] rule = "CC-CFG-031" -> Grade(c.reference \in PDFs, c.reference = "archived PDF")
    [] rule = "CC-CFG-027" -> Grade(c.reference # "none", c.reference \in Links)
    [] rule = "CC-CFG-028" ->
         Grade(c.reference # "none", c.reference \in {"FIXME", "bare DOI", "DOI link"})
    [] rule = "CC-CFG-029" -> Grade(c.other # "none", c.other # "scalar")
    [] rule = "CC-CFG-030" -> Grade(c.other \notin {"none", "scalar"}, c.other = "links")

CertificateRule(rule, c) ==
  CASE rule = "CC-CFG-024" -> Grade(TRUE, c.summary)
    [] rule = "CC-CFG-025" -> Grade(TRUE, c.certificate # "none")
    [] rule = "CC-CFG-026" -> Grade(c.certificate # "none", c.certificate # "malformed")
    [] rule = "CC-CFG-023" -> Grade(TRUE, ~Placeholders(c))

\* Whose ORCID is there, and whose is worth asking ORCID about.
Everyone(c) ==
  {p \in {"author", "codechecker"} : c[p].here /\ c[p].orcid # "none"}

ToLookUp(c) == {p \in Everyone(c) : c[p].orcid = "sound"}

OrcidFormat(c) ==
  Grade(Everyone(c) # {}, \A p \in Everyone(c) : c[p].orcid \in {"sound", "placeholder"})

OrcidOf(p) == IF p = "author" THEN "ORCID of the author" ELSE "ORCID of the codechecker"

\* Only a 404 is an ORCID that does not resolve, and a name is compared with
\* the records that could be read, however many could not.
OrcidRule(rule, c, h) ==
  LET asked == {OrcidOf(p) : p \in ToLookUp(c)}
      records == {a \in asked : Said(h, a) /\ h[a] # "none"}
  IN CASE rule = "CC-MET-002" ->
            IF asked = {} THEN "skip"
            ELSE Verdict({IF ~Said(h, a) THEN "skip" ELSE IF h[a] = "none" THEN "fail" ELSE "pass"
                          : a \in asked})
       [] rule = "CC-MET-003" -> Grade(records # {}, \A a \in records : h[a] = "same name")

Others(c) ==
  CASE c.other = "links" -> {"other 1", "other 2"}
    [] c.other = "both" -> {"other 1"}
    [] OTHER -> {}

LinkRule(rule, c, h) ==
  CASE rule = "CC-CFG-012" ->
         IF c.report \in {"none", "FIXME", "example"} THEN "skip"
         ELSE IF c.report \in {"text", "bare Zenodo DOI"} THEN "fail" ELSE Resolves(h, "report")
    [] rule = "CC-MET-004" ->
         IF c.reference \in Links \ {"FIXME"} THEN Resolves(h, "paper") ELSE "skip"
    [] rule = "CC-MET-009" ->
         IF Others(c) = {} THEN "skip" ELSE Verdict({Resolves(h, a) : a \in Others(c)})
    [] rule = "CC-BUN-004" -> IF c.repository THEN Resolves(h, "repository") ELSE "skip"

\* The work a DOI names, as the metadata source has it.
HasDOI(c) == c.reference \in {"bare DOI", "DOI link"}

WorkRule(rule, c, h) ==
  LET work == h["work"]
      bare(p) == p.orcid \in {"sound", "malformed"}
  IN IF ~HasDOI(c) \/ ~Said(h, "work") THEN "skip"
     ELSE CASE rule = "CC-MET-005" -> Grade(work.title # "none", c.title /\ work.title = "same")
            [] rule = "CC-MET-006" ->
                 Grade(work.authors # "none", c.author.here /\ work.authors # "one more")
            [] rule = "CC-MET-007" ->
                 Grade(work.authors # "none", c.author.here /\ work.authors = "same")
            [] rule = "CC-MET-008" ->
                 Grade(work.orcids # "none", bare(c.author) /\ work.orcids = "same")

-----------------------------------------------------------------------------
(***************************************************************************)
(* The bundle.                                                             *)
(***************************************************************************)

\* The manifest's files, by their places in it.
Files(c) == {i \in {1, 2} : i \in DOMAIN c.items /\ c.items[i].file \in {"inside", "outside"}}

\* What an archive states in its metadata; "" where it states nothing.
StatedLicence(h) ==
  IF ~Said(h, "stated licence") THEN "skip"
  ELSE IF h["stated licence"] = "stated" THEN "pass" ELSE ""

LicenceFile(h) == Grade(Said(h, "root"), "LICENSE" \in h["root"])

\* The licence is stated by the archive, or else by a file at the root.
Licence(bundle, h) ==
  IF bundle = "archive" /\ StatedLicence(h) # "" THEN StatedLicence(h) ELSE LicenceFile(h)

BundleRule(rule, c, bundle, h) ==
  LET asked == {FileAt(h, i) : i \in Files(c)}
  IN CASE rule = "CC-BUN-001" ->
            Grade(asked # {} /\ \A a \in asked : Said(h, a), \A a \in asked : h[a] = "there")
       [] rule = "CC-BUN-002" -> Grade(Said(h, "root"), "codecheck/" \in h["root"])
       [] rule = "CC-BUN-003" ->
            IF ~Said(h, "root") \/ "codecheck/" \notin h["root"] THEN "skip"
            ELSE Grade(Said(h, "inside"), h["inside"] = "a PDF")
       [] rule = "CC-BUN-005" -> Licence(bundle, h)

-----------------------------------------------------------------------------
(***************************************************************************)
(* The certificate's record on Zenodo, and its row in the register.        *)
(***************************************************************************)

OnZenodo(c) == c.report \in {"bare Zenodo DOI", "Zenodo link"}

\* What the CC-REP rules say of a record r; a draft's DOI is only reserved.
RecordRule(rule, c, r) ==
  CASE rule = "CC-REP-001" -> Grade(~r.draft, ~r.concept)
    [] rule = "CC-REP-002" -> Grade(~r.draft /\ r.newest # "unsaid", r.newest = "yes")
    [] rule = "CC-REP-007" -> Grade(TRUE, r.pdf # "none")
    [] rule = "CC-REP-008" -> Grade(r.pdf # "none", r.pdf = "codecheck.pdf")
    [] rule = "CC-REP-009" -> Grade(TRUE, r.sources # {})
    [] rule = "CC-REP-010" -> Grade(TRUE, ~({"codecheck.Rmd", "codecheck.ipynb"} \subseteq r.sources))

CreatorRule(rule, c, r) ==
  CASE rule = "CC-REP-004" -> Grade(c.certificate # "none", r.titled)
    [] rule = "CC-REP-005" ->
         Grade(c.codechecker.here /\ r.creator # "none", c.codechecker.name /\ r.creator = "same")
    [] rule = "CC-REP-006" ->
         Grade(c.codechecker.here /\ c.codechecker.orcid # "none" /\ r.orcid # "none",
               c.codechecker.orcid \in {"sound", "malformed"} /\ r.orcid = "same")

CreatorRules == {"CC-REP-004", "CC-REP-005", "CC-REP-006"}

ReportRule(rule, c, h) ==
  IF ~OnZenodo(c) \/ ~Said(h, "deposit") THEN "skip"
  ELSE IF rule \in CreatorRules THEN CreatorRule(rule, c, h["deposit"])
  ELSE RecordRule(rule, c, h["deposit"])

\* The row the register rules judge, NoRow when there is none to judge.  A row
\* for another certificate than the file's is not judged.
RowOf(c, row, h) ==
  IF c.certificate = "none" \/ ~Said(h, "register") THEN NoRow
  ELSE IF row # NoRow THEN IF row.same THEN row ELSE NoRow
  ELSE IF h["register"].times > 0 THEN h["register"].row ELSE NoRow

\* venues.csv is read with the register, and may be missing.
Listed(h, venue) == Said(h, "venues") /\ h["venues"] = "some" /\ venue = "listed"

CertificateInRegister(rule, c, row, h) ==
  CASE rule = "CC-REG-001" ->
         Grade(c.certificate # "none" /\ Said(h, "register"),
               h["register"].times <= IF row # NoRow THEN 0 ELSE 1)
    [] rule = "CC-REG-002" ->
         IF c.certificate \in {"none", "malformed"} THEN "skip"
         ELSE IF c.certificate = "future" THEN "fail"
         ELSE Grade(Said(h, "register"), h["register"].close)

RowRule(rule, c, row, h) ==
  LET judged == RowOf(c, row, h)
  IN CASE rule = "CC-REG-003" -> Grade(judged # NoRow, judged.repository = "sound")
       [] rule = "CC-REG-004" -> Grade(judged # NoRow, judged.type = "a type")
       [] rule = "CC-REG-005" ->
            Grade(judged # NoRow /\ Said(h, "venues") /\ h["venues"] = "some",
                  judged.venue = "listed")

\* Only an issue that is not there is a finding.
IssueThere(c, row, h) ==
  LET judged == RowOf(c, row, h)
  IN IF judged = NoRow \/ ~Said(h, "issue") THEN "skip"
     ELSE IF ~judged.issue THEN "skip" ELSE IF ~h["issue"].there THEN "fail" ELSE "pass"

IssueRule(rule, c, row, h) ==
  IF IssueThere(c, row, h) # "pass" THEN IssueThere(c, row, h)
  ELSE CASE rule = "CC-REG-006" -> "pass"
         [] rule = "CC-REG-007" -> Grade(TRUE, h["issue"].titled)
         [] rule = "CC-REG-008" ->
              Grade(TRUE, h["issue"].typed
                            /\ (Listed(h, RowOf(c, row, h).venue) => h["issue"].venued))
-----------------------------------------------------------------------------
(***************************************************************************)
(* One rule, and what it asks.                                             *)
(***************************************************************************)

LinkRules == {"CC-CFG-012", "CC-MET-004", "CC-MET-009", "CC-BUN-004"}
FileRules == {"CC-CFG-001", "CC-CFG-002", "CC-CFG-003"}
ManifestRules == {"CC-CFG-004", "CC-CFG-005", "CC-CFG-006", "CC-CFG-007"}
AboutThePaper == {"CC-CFG-016", "CC-CFG-017", "CC-CFG-018", "CC-CFG-019", "CC-CFG-020"}
CertificateRules == {"CC-CFG-023", "CC-CFG-024", "CC-CFG-025", "CC-CFG-026"}
OrcidRules == {"CC-MET-002", "CC-MET-003"}
RowRules == {"CC-REG-003", "CC-REG-004", "CC-REG-005"}
IssueRules == {"CC-REG-006", "CC-REG-007", "CC-REG-008"}

\* What a rule says of the parsed configuration c.
Check(rule, c, bundle, row, h) ==
  CASE rule \in FileRules -> FileRule(rule, c)
    [] rule \in ManifestRules -> ManifestRule(rule, c)
    [] rule \in AboutThePaper -> PaperRule(rule, c)
    [] rule \in LinkRules -> LinkRule(rule, c, h)
    [] rule \in ReferenceRules \ LinkRules -> ReferenceRule(rule, c)
    [] rule \in CertificateRules -> CertificateRule(rule, c)
    [] rule = "CC-MET-001" -> OrcidFormat(c)
    [] rule \in OrcidRules -> OrcidRule(rule, c, h)
    [] Area(rule) = "metadata" /\ rule \notin OrcidRules \cup LinkRules \cup {"CC-MET-001"} ->
         WorkRule(rule, c, h)
    [] Area(rule) = "bundle" /\ rule \notin LinkRules -> BundleRule(rule, c, bundle, h)
    [] Area(rule) = "report" -> ReportRule(rule, c, h)
    [] rule \in RowRules -> RowRule(rule, c, row, h)
    [] rule \in IssueRules -> IssueRule(rule, c, row, h)
    [] Area(rule) = "register" /\ rule \notin RowRules \cup IssueRules ->
         CertificateInRegister(rule, c, row, h)
    [] OTHER -> DeclarationRule(rule, c)

When(condition, addresses) == IF condition THEN addresses ELSE {}

\* The addresses a bundle rule reads: the manifest's files one after another
\* until one cannot be looked at, and a directory once its name is known.
BundleAsks(rule, c, bundle, h) ==
  CASE rule = "CC-BUN-001" ->
         {FileAt(h, i) : i \in {n \in Files(c) :
                                  \A m \in Files(c) : m < n => Said(h, FileAt(h, m))}}
    [] rule = "CC-BUN-002" -> {"root"}
    [] rule = "CC-BUN-003" ->
         {"root"} \cup When(Said(h, "root") /\ "codecheck/" \in h["root"], {"inside"})
    [] rule = "CC-BUN-005" ->
         IF bundle # "archive" THEN {"root"}
         ELSE {"stated licence"}
                \cup When(Said(h, "stated licence") /\ h["stated licence"] = "none", {"root"})
    [] OTHER -> When(c.repository, {"repository"})

RegisterAsks(rule, c, row, h) ==
  When(c.certificate # "none" /\ (rule = "CC-REG-002" => c.certificate = "sound"),
       {"register", "venues"})
  \cup When(rule \in IssueRules /\ RowOf(c, row, h) # NoRow
               /\ RowOf(c, row, h).issue, {"issue"})

\* The addresses a rule asks, given what was heard so far.
Asks(rule, c, bundle, row, h) ==
  CASE rule = "CC-CFG-012" -> When(c.report \in {"link", "Zenodo link"}, {"report"})
    [] rule = "CC-MET-004" -> When(c.reference \in Links \ {"FIXME"}, {"paper"})
    [] rule = "CC-MET-009" -> Others(c)
    [] rule \in OrcidRules -> {OrcidOf(p) : p \in ToLookUp(c)}
    [] rule \in {"CC-MET-005", "CC-MET-006", "CC-MET-007", "CC-MET-008"} ->
         When(HasDOI(c), {"work"})
    [] Area(rule) = "bundle" -> BundleAsks(rule, c, bundle, h)
    [] Area(rule) = "report" ->
         When(/\ OnZenodo(c)
              /\ rule = "CC-REP-004" => c.certificate # "none"
              /\ rule \in {"CC-REP-005", "CC-REP-006"} => c.codechecker.here
              /\ rule = "CC-REP-006" => c.codechecker.orcid # "none", {"deposit"})
    [] Area(rule) = "register" -> RegisterAsks(rule, c, row, h)
    [] OTHER -> {}
=============================================================================
