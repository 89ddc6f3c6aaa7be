--------------------------- MODULE CheckRunProofs ---------------------------
(***************************************************************************)
(* What the commands that judge a configuration make of the answers they   *)
(* got: proofs about CheckRun and the rules of CheckRules.                 *)
(***************************************************************************)
EXTENDS CheckRun, WellFoundedInduction, TLAPS

RuleOutcomes == {"pass", "fail", "skip"}

DeclarationRules ==
  {"CC-CFG-008", "CC-CFG-009", "CC-CFG-010", "CC-CFG-011", "CC-CFG-013", "CC-CFG-014",
   "CC-CFG-015"}
WorkRules == {"CC-MET-005", "CC-MET-006", "CC-MET-007", "CC-MET-008"}
BundleRules == {"CC-BUN-001", "CC-BUN-002", "CC-BUN-003", "CC-BUN-005"}
ReportRules ==
  {"CC-REP-001", "CC-REP-002", "CC-REP-004", "CC-REP-005", "CC-REP-006", "CC-REP-007",
   "CC-REP-008", "CC-REP-009", "CC-REP-010"}
NumberRules == {"CC-REG-001", "CC-REG-002"}

\* The rules that read the file alone.
AboutTheFile ==
  FileRules \cup ManifestRules \cup AboutThePaper \cup (ReferenceRules \ LinkRules)
  \cup CertificateRules \cup {"CC-MET-001"} \cup DeclarationRules

\* The catalogue, by families.
LEMMA Families ==
  ASSUME NEW i \in DOMAIN Catalogue20
  PROVE  Catalogue20[i] \in AboutTheFile \cup LinkRules \cup OrcidRules \cup WorkRules
           \cup BundleRules \cup ReportRules \cup NumberRules \cup RowRules \cup IssueRules
<1>1. DOMAIN Catalogue20 = 1..62
  BY DEF Catalogue20
<1>2. i \in 1..62
  BY <1>1
<1> QED
  BY <1>2 DEF Catalogue20, AboutTheFile, FileRules, ManifestRules, AboutThePaper, ReferenceRules,
     LinkRules, CertificateRules, DeclarationRules, OrcidRules, WorkRules, BundleRules,
     ReportRules, NumberRules, RowRules, IssueRules

\* Of the places that are left there is a first.
LEMMA LeastPlace ==
  ASSUME NEW T \in SUBSET Nat, T # {}
  PROVE  Foremost(T) \in T
<1>1. PICK least \in T : \A n \in T : ~ (<<n, least>> \in OpToRel(<, Nat))
  BY WFMin, NatLessThanWellFounded
<1>2. \A n \in T : ~ (n < least)
  BY <1>1 DEF OpToRel
<1>3. \A n \in T : least <= n
  BY <1>2
<1> QED BY <1>3 DEF Foremost

\* The places of the two files a manifest may name.
LEMMA OneAndTwo == ~(1 < 1) /\ 1 < 2 /\ ~(2 < 1) /\ ~(2 < 2) /\ 1 # 2
OBVIOUS

-----------------------------------------------------------------------------
(* What Check and Asks come to for a rule of each family.                   *)

LEMMA GradeIsAnOutcome ==
  ASSUME NEW applies, NEW holds
  PROVE  Grade(applies, holds) \in RuleOutcomes
BY DEF Grade, RuleOutcomes

LEMMA LinkChecked ==
  ASSUME NEW rule \in LinkRules, NEW c, NEW bundle, NEW r, NEW h
  PROVE  Check(rule, c, bundle, r, h) = LinkRule(rule, c, h)
BY DEF Check, Area, FileRules, ManifestRules, AboutThePaper, LinkRules, ReferenceRules,
   CertificateRules, OrcidRules, WorkRules, BundleRules, ReportRules, NumberRules, RowRules,
   IssueRules

LEMMA OrcidChecked ==
  ASSUME NEW rule \in OrcidRules, NEW c, NEW bundle, NEW r, NEW h
  PROVE  Check(rule, c, bundle, r, h) = OrcidRule(rule, c, h)
BY DEF Check, Area, FileRules, ManifestRules, AboutThePaper, LinkRules, ReferenceRules,
   CertificateRules, OrcidRules, WorkRules, BundleRules, ReportRules, NumberRules, RowRules,
   IssueRules

LEMMA WorkChecked ==
  ASSUME NEW rule \in WorkRules, NEW c, NEW bundle, NEW r, NEW h
  PROVE  Check(rule, c, bundle, r, h) = WorkRule(rule, c, h)
BY DEF Check, Area, FileRules, ManifestRules, AboutThePaper, LinkRules, ReferenceRules,
   CertificateRules, OrcidRules, WorkRules, BundleRules, ReportRules, NumberRules, RowRules,
   IssueRules

LEMMA BundleChecked ==
  ASSUME NEW rule \in BundleRules, NEW c, NEW bundle, NEW r, NEW h
  PROVE  Check(rule, c, bundle, r, h) = BundleRule(rule, c, bundle, h)
BY DEF Check, Area, FileRules, ManifestRules, AboutThePaper, LinkRules, ReferenceRules,
   CertificateRules, OrcidRules, WorkRules, BundleRules, ReportRules, NumberRules, RowRules,
   IssueRules

LEMMA ReportChecked ==
  ASSUME NEW rule \in ReportRules, NEW c, NEW bundle, NEW r, NEW h
  PROVE  Check(rule, c, bundle, r, h) = ReportRule(rule, c, h)
BY DEF Check, Area, FileRules, ManifestRules, AboutThePaper, LinkRules, ReferenceRules,
   CertificateRules, OrcidRules, WorkRules, BundleRules, ReportRules, NumberRules, RowRules,
   IssueRules

LEMMA NumberChecked ==
  ASSUME NEW rule \in NumberRules, NEW c, NEW bundle, NEW r, NEW h
  PROVE  Check(rule, c, bundle, r, h) = CertificateInRegister(rule, c, r, h)
BY DEF Check, Area, FileRules, ManifestRules, AboutThePaper, LinkRules, ReferenceRules,
   CertificateRules, OrcidRules, WorkRules, BundleRules, ReportRules, NumberRules, RowRules,
   IssueRules

LEMMA RowChecked ==
  ASSUME NEW rule \in RowRules, NEW c, NEW bundle, NEW r, NEW h
  PROVE  Check(rule, c, bundle, r, h) = RowRule(rule, c, r, h)
BY DEF Check, Area, FileRules, ManifestRules, AboutThePaper, LinkRules, ReferenceRules,
   CertificateRules, OrcidRules, WorkRules, BundleRules, ReportRules, NumberRules, RowRules,
   IssueRules

LEMMA IssueChecked ==
  ASSUME NEW rule \in IssueRules, NEW c, NEW bundle, NEW r, NEW h
  PROVE  Check(rule, c, bundle, r, h) = IssueRule(rule, c, r, h)
BY DEF Check, Area, FileRules, ManifestRules, AboutThePaper, LinkRules, ReferenceRules,
   CertificateRules, OrcidRules, WorkRules, BundleRules, ReportRules, NumberRules, RowRules,
   IssueRules

LEMMA FileAsks ==
  ASSUME NEW rule \in AboutTheFile, NEW c, NEW bundle, NEW r, NEW h
  PROVE  Asks(rule, c, bundle, r, h) = {}
BY DEF Asks, Area, AboutTheFile, FileRules, ManifestRules, AboutThePaper, LinkRules,
   ReferenceRules, CertificateRules, OrcidRules, WorkRules, BundleRules, ReportRules,
   DeclarationRules, NumberRules, RowRules, IssueRules

\* The links a configuration gives to the rules about them.
LinksOf(rule, c) ==
  CASE rule = "CC-CFG-012" -> When(c.report \in {"link", "Zenodo link"}, {"report"})
    [] rule = "CC-MET-004" -> When(c.reference \in Links \ {"FIXME"}, {"paper"})
    [] rule = "CC-MET-009" -> Others(c)
    [] OTHER -> When(c.repository, {"repository"})

LEMMA LinkAsks ==
  ASSUME NEW rule \in LinkRules, NEW c, NEW bundle, NEW r, NEW h
  PROVE  Asks(rule, c, bundle, r, h) = LinksOf(rule, c)
BY DEF Asks, LinkRules, OrcidRules, Area, BundleAsks, LinksOf

LEMMA OrcidAsks ==
  ASSUME NEW rule \in OrcidRules, NEW c, NEW bundle, NEW r, NEW h
  PROVE  Asks(rule, c, bundle, r, h) = {OrcidOf(p) : p \in ToLookUp(c)}
BY DEF Asks, Area, OrcidRules

LEMMA WorkAsks ==
  ASSUME NEW rule \in WorkRules, NEW c, NEW bundle, NEW r, NEW h
  PROVE  Asks(rule, c, bundle, r, h) = When(HasDOI(c), {"work"})
BY DEF Asks, Area, OrcidRules, WorkRules

LEMMA BundleRuleAsks ==
  ASSUME NEW rule \in BundleRules, NEW c, NEW bundle, NEW r, NEW h
  PROVE  Asks(rule, c, bundle, r, h) = BundleAsks(rule, c, bundle, h)
BY DEF Asks, Area, OrcidRules, BundleRules

\* The deposit, where a configuration names one and the rule has something to
\* compare with it.
DepositOf(rule, c) ==
  When(/\ OnZenodo(c)
       /\ rule = "CC-REP-004" => c.certificate # "none"
       /\ rule \in {"CC-REP-005", "CC-REP-006"} => c.codechecker.here
       /\ rule = "CC-REP-006" => c.codechecker.orcid # "none", {"deposit"})

LEMMA ReportAsks ==
  ASSUME NEW rule \in ReportRules, NEW c, NEW bundle, NEW r, NEW h
  PROVE  Asks(rule, c, bundle, r, h) = DepositOf(rule, c)
BY DEF Asks, Area, OrcidRules, ReportRules, DepositOf

LEMMA RegisterRuleAsks ==
  ASSUME NEW rule \in NumberRules \cup RowRules \cup IssueRules,
         NEW c, NEW bundle, NEW r, NEW h
  PROVE  Asks(rule, c, bundle, r, h) = RegisterAsks(rule, c, r, h)
BY DEF Asks, Area, OrcidRules, NumberRules, RowRules, IssueRules

-----------------------------------------------------------------------------
(* One rule in two worlds.                                                  *)

\* The forms of a report and of a certificate that the rules tell apart.
Legible(c) ==
  /\ c.report \in {"none", "FIXME", "example", "text", "link", "bare Zenodo DOI", "Zenodo link"}
  /\ c.certificate \in {"none", "malformed", "sound", "future"}

\* What an archive may say of its licence.
Stating(h) == h["stated licence"] \in {Silent, Unasked, "none", "stated"}

\* g has every answer that h has of those a rule asks for.
HeardAlike(asks, h, g) == \A a \in asks : h[a] # Unasked /\ g[a] = h[a]

-----------------------------------------------------------------------------
(* Family by family: a rule that read all it asks says and asks the same in *)
(* any world that answers these addresses alike.                            *)

LEMMA FilesAgree ==
  ASSUME NEW rule \in AboutTheFile, NEW c, NEW bundle, NEW r, NEW h, NEW g
  PROVE  /\ Check(rule, c, bundle, r, g) = Check(rule, c, bundle, r, h)
         /\ Asks(rule, c, bundle, r, g) = Asks(rule, c, bundle, r, h)
<1>1. Check(rule, c, bundle, r, g) = Check(rule, c, bundle, r, h)
  BY DEF Check, Area, AboutTheFile, FileRules, ManifestRules, AboutThePaper, LinkRules,
     ReferenceRules, CertificateRules, OrcidRules, WorkRules, BundleRules, ReportRules,
     DeclarationRules, NumberRules, RowRules, IssueRules
<1>2. Asks(rule, c, bundle, r, g) = Asks(rule, c, bundle, r, h)
  BY FileAsks
<1> QED BY <1>1, <1>2

LEMMA LinksAgree ==
  ASSUME NEW rule \in LinkRules, NEW c, NEW bundle, NEW r, NEW h, NEW g, Legible(c),
         HeardAlike(Asks(rule, c, bundle, r, h), h, g)
  PROVE  /\ Check(rule, c, bundle, r, g) = Check(rule, c, bundle, r, h)
         /\ Asks(rule, c, bundle, r, g) = Asks(rule, c, bundle, r, h)
<1>1. Check(rule, c, bundle, r, g) = LinkRule(rule, c, g)
  BY LinkChecked
<1>2. Check(rule, c, bundle, r, h) = LinkRule(rule, c, h)
  BY LinkChecked
<1> DEFINE asks(k) == Asks(rule, c, bundle, r, k)
<1>3. asks(h) = LinksOf(rule, c) /\ asks(g) = LinksOf(rule, c)
  BY LinkAsks
<1>. HIDE DEF asks
<1>4. HeardAlike(asks(h), h, g)
  BY DEF asks
<1>5. CASE rule = "CC-CFG-012"
  <2>1. /\ asks(h) = When(c.report \in {"link", "Zenodo link"}, {"report"})
        /\ asks(g) = When(c.report \in {"link", "Zenodo link"}, {"report"})
    BY <1>5, <1>3 DEF LinksOf
  <2>2. c.report \in {"link", "Zenodo link"} => Resolves(g, "report") = Resolves(h, "report")
    BY <1>4, <2>1 DEF HeardAlike, When, Resolves, Said
  <2>3. LinkRule(rule, c, g) = LinkRule(rule, c, h)
    BY <1>5, <2>2 DEF LinkRule, Legible
  <2> QED BY <1>1, <1>2, <2>1, <2>3 DEF asks
<1>6. CASE rule = "CC-MET-004"
  <2>1. /\ asks(h) = When(c.reference \in Links \ {"FIXME"}, {"paper"})
        /\ asks(g) = When(c.reference \in Links \ {"FIXME"}, {"paper"})
    BY <1>6, <1>3 DEF LinksOf
  <2>2. c.reference \in Links \ {"FIXME"} => Resolves(g, "paper") = Resolves(h, "paper")
    BY <1>4, <2>1 DEF HeardAlike, When, Resolves, Said
  <2>3. LinkRule(rule, c, g) = LinkRule(rule, c, h)
    BY <1>6, <2>2 DEF LinkRule
  <2> QED BY <1>1, <1>2, <2>1, <2>3 DEF asks
<1>7. CASE rule = "CC-MET-009"
  <2>1. asks(h) = Others(c) /\ asks(g) = Others(c)
    BY <1>7, <1>3 DEF LinksOf
  <2>2. \A a \in Others(c) : Resolves(g, a) = Resolves(h, a)
    BY <1>4, <2>1 DEF HeardAlike, Resolves, Said
  <2>3. {Resolves(g, a) : a \in Others(c)} = {Resolves(h, a) : a \in Others(c)}
    BY <2>2
  <2>4. LinkRule(rule, c, g) = LinkRule(rule, c, h)
    BY <1>7, <2>3 DEF LinkRule
  <2> QED BY <1>1, <1>2, <2>1, <2>4 DEF asks
<1>8. CASE rule = "CC-BUN-004"
  <2>1. asks(h) = When(c.repository, {"repository"}) /\ asks(g) = When(c.repository, {"repository"})
    BY <1>8, <1>3 DEF LinksOf
  <2>2. c.repository => Resolves(g, "repository") = Resolves(h, "repository")
    BY <1>4, <2>1 DEF HeardAlike, When, Resolves, Said
  <2>3. LinkRule(rule, c, g) = LinkRule(rule, c, h)
    BY <1>8, <2>2 DEF LinkRule
  <2> QED BY <1>1, <1>2, <2>1, <2>3 DEF asks
<1> QED BY <1>5, <1>6, <1>7, <1>8 DEF LinkRules

LEMMA OrcidsAgree ==
  ASSUME NEW rule \in OrcidRules, NEW c, NEW bundle, NEW r, NEW h, NEW g,
         HeardAlike(Asks(rule, c, bundle, r, h), h, g)
  PROVE  /\ Check(rule, c, bundle, r, g) = Check(rule, c, bundle, r, h)
         /\ Asks(rule, c, bundle, r, g) = Asks(rule, c, bundle, r, h)
<1> DEFINE asked == {OrcidOf(p) : p \in ToLookUp(c)}
<1>1. Check(rule, c, bundle, r, g) = OrcidRule(rule, c, g)
  BY OrcidChecked
<1>2. Check(rule, c, bundle, r, h) = OrcidRule(rule, c, h)
  BY OrcidChecked
<1>3. Asks(rule, c, bundle, r, h) = asked /\ Asks(rule, c, bundle, r, g) = asked
  BY OrcidAsks
<1>4. \A a \in asked : g[a] = h[a]
  BY <1>3 DEF HeardAlike
<1>. HIDE DEF asked
<1>5. {IF ~Said(g, a) THEN "skip" ELSE IF g[a] = "none" THEN "fail" ELSE "pass" : a \in asked}
        = {IF ~Said(h, a) THEN "skip" ELSE IF h[a] = "none" THEN "fail" ELSE "pass" : a \in asked}
  BY <1>4 DEF Said
<1>6. {a \in asked : Said(g, a) /\ g[a] # "none"} = {a \in asked : Said(h, a) /\ h[a] # "none"}
  BY <1>4 DEF Said
<1>7. (\A a \in {a \in asked : Said(g, a) /\ g[a] # "none"} : g[a] = "same name")
        <=> (\A a \in {a \in asked : Said(h, a) /\ h[a] # "none"} : h[a] = "same name")
  BY <1>4, <1>6
<1>8. OrcidRule(rule, c, g) = OrcidRule(rule, c, h)
  <2>1. CASE rule = "CC-MET-002"
    BY <2>1, <1>5 DEF OrcidRule, asked
  <2>2. CASE rule = "CC-MET-003"
    BY <2>2, <1>6, <1>7 DEF OrcidRule, asked, Grade
  <2> QED BY <2>1, <2>2 DEF OrcidRules
<1> QED BY <1>1, <1>2, <1>3, <1>8

LEMMA WorkAgrees ==
  ASSUME NEW rule \in WorkRules, NEW c, NEW bundle, NEW r, NEW h, NEW g,
         HeardAlike(Asks(rule, c, bundle, r, h), h, g)
  PROVE  /\ Check(rule, c, bundle, r, g) = Check(rule, c, bundle, r, h)
         /\ Asks(rule, c, bundle, r, g) = Asks(rule, c, bundle, r, h)
<1>1. Check(rule, c, bundle, r, g) = WorkRule(rule, c, g)
  BY WorkChecked
<1>2. Check(rule, c, bundle, r, h) = WorkRule(rule, c, h)
  BY WorkChecked
<1>3. CASE ~HasDOI(c)
  BY <1>1, <1>2, <1>3, WorkAsks DEF WorkRule
<1>4. CASE HasDOI(c)
  <2>1. g["work"] = h["work"]
    BY <1>4, WorkAsks DEF HeardAlike, When
  <2>2. Said(g, "work") <=> Said(h, "work")
    BY <2>1 DEF Said
  <2>3. WorkRule(rule, c, g) = WorkRule(rule, c, h)
    <3>1. CASE ~Said(h, "work")
      BY <2>2, <3>1 DEF WorkRule
    <3>2. CASE Said(h, "work")
      <4>1. CASE rule = "CC-MET-005"
        BY <1>4, <2>1, <2>2, <3>2, <4>1 DEF WorkRule
      <4>2. CASE rule = "CC-MET-006"
        BY <1>4, <2>1, <2>2, <3>2, <4>2 DEF WorkRule
      <4>3. CASE rule = "CC-MET-007"
        BY <1>4, <2>1, <2>2, <3>2, <4>3 DEF WorkRule
      <4>4. CASE rule = "CC-MET-008"
        BY <1>4, <2>1, <2>2, <3>2, <4>4 DEF WorkRule
      <4> QED BY <4>1, <4>2, <4>3, <4>4 DEF WorkRules
    <3> QED BY <3>1, <3>2
  <2> QED BY <1>1, <1>2, <2>3, WorkAsks
<1> QED BY <1>3, <1>4

LEMMA ReportsAgree ==
  ASSUME NEW rule \in ReportRules, NEW c, NEW bundle, NEW r, NEW h, NEW g,
         HeardAlike(Asks(rule, c, bundle, r, h), h, g)
  PROVE  /\ Check(rule, c, bundle, r, g) = Check(rule, c, bundle, r, h)
         /\ Asks(rule, c, bundle, r, g) = Asks(rule, c, bundle, r, h)
<1>1. Check(rule, c, bundle, r, g) = ReportRule(rule, c, g)
  BY ReportChecked
<1>2. Check(rule, c, bundle, r, h) = ReportRule(rule, c, h)
  BY ReportChecked
<1>3. Asks(rule, c, bundle, r, g) = Asks(rule, c, bundle, r, h)
  BY ReportAsks
<1>4. CASE g["deposit"] = h["deposit"]
  BY <1>1, <1>2, <1>3, <1>4 DEF ReportRule, Said
<1>5. CASE g["deposit"] # h["deposit"]
  <2>1. \/ ~OnZenodo(c)
        \/ rule = "CC-REP-004" /\ c.certificate = "none"
        \/ rule \in {"CC-REP-005", "CC-REP-006"} /\ ~c.codechecker.here
        \/ rule = "CC-REP-006" /\ c.codechecker.orcid = "none"
    BY <1>5, ReportAsks DEF HeardAlike, When, DepositOf
  <2>2. \A k : ReportRule(rule, c, k) = "skip"
    BY <2>1 DEF ReportRule, CreatorRule, CreatorRules, Grade
  <2> QED BY <1>1, <1>2, <1>3, <2>2
<1> QED BY <1>4, <1>5

LEMMA LicenceAgrees ==
  ASSUME NEW rule, rule = "CC-BUN-005", NEW c, NEW bundle, NEW h, NEW g, Stating(h),
         HeardAlike(BundleAsks(rule, c, bundle, h), h, g)
  PROVE  /\ Licence(bundle, g) = Licence(bundle, h)
         /\ BundleAsks(rule, c, bundle, g) = BundleAsks(rule, c, bundle, h)
<1>1. CASE bundle # "archive"
  <2>1. BundleAsks(rule, c, bundle, h) = {"root"} /\ BundleAsks(rule, c, bundle, g) = {"root"}
    BY <1>1 DEF BundleAsks
  <2>2. g["root"] = h["root"]
    BY <2>1 DEF HeardAlike
  <2>3. Licence(bundle, g) = Licence(bundle, h)
    BY <1>1, <2>2 DEF Licence, LicenceFile, Said
  <2> QED BY <2>1, <2>3
<1>2. CASE bundle = "archive"
  <2>1. \A k : BundleAsks(rule, c, bundle, k) =
          {"stated licence"}
            \cup When(Said(k, "stated licence") /\ k["stated licence"] = "none", {"root"})
    BY <1>2 DEF BundleAsks
  <2>2. g["stated licence"] = h["stated licence"]
    BY <2>1 DEF HeardAlike
  <2>3. Said(g, "stated licence") <=> Said(h, "stated licence")
    BY <2>2 DEF Said
  <2>4. Said(h, "stated licence") /\ h["stated licence"] = "none" => g["root"] = h["root"]
    BY <2>1 DEF HeardAlike, When
  <2>5. StatedLicence(g) = StatedLicence(h)
    BY <2>2, <2>3 DEF StatedLicence
  <2>6. StatedLicence(h) = "" => Said(h, "stated licence") /\ h["stated licence"] = "none"
    BY DEF StatedLicence, Said, Stating
  <2>7. StatedLicence(h) = "" => LicenceFile(g) = LicenceFile(h)
    BY <2>4, <2>6 DEF LicenceFile, Said
  <2>8. Licence(bundle, g) = Licence(bundle, h)
    BY <1>2, <2>5, <2>7 DEF Licence
  <2>9. BundleAsks(rule, c, bundle, g) = BundleAsks(rule, c, bundle, h)
    BY <2>1, <2>2, <2>3
  <2> QED BY <2>8, <2>9
<1> QED BY <1>1, <1>2

LEMMA BundleAgrees ==
  ASSUME NEW rule \in BundleRules, NEW c, NEW bundle, NEW r, NEW h, NEW g,
         Branch(g) = Branch(h),
         Stating(h),
         HeardAlike(Asks(rule, c, bundle, r, h), h, g)
  PROVE  /\ Check(rule, c, bundle, r, g) = Check(rule, c, bundle, r, h)
         /\ Asks(rule, c, bundle, r, g) = Asks(rule, c, bundle, r, h)
<1>1. Check(rule, c, bundle, r, g) = BundleRule(rule, c, bundle, g)
  BY BundleChecked
<1>2. Check(rule, c, bundle, r, h) = BundleRule(rule, c, bundle, h)
  BY BundleChecked
<1>3. /\ Asks(rule, c, bundle, r, g) = BundleAsks(rule, c, bundle, g)
      /\ Asks(rule, c, bundle, r, h) = BundleAsks(rule, c, bundle, h)
  BY BundleRuleAsks
<1>4. CASE rule = "CC-BUN-001"
  <2> DEFINE files == Files(c)
             read(k) == {n \in files : \A m \in files : m < n => Said(k, FileAt(k, m))}
  <2>1. \A n : FileAt(g, n) = FileAt(h, n)
    BY DEF FileAt
  <2>2. /\ BundleAsks(rule, c, bundle, g) = {FileAt(g, n) : n \in read(g)}
        /\ BundleAsks(rule, c, bundle, h) = {FileAt(h, n) : n \in read(h)}
    BY <1>4 DEF BundleAsks
  <2>3. files \subseteq {1, 2}
    BY DEF Files
  <2>. HIDE DEF files
  <2>4. \A n \in read(h) : g[FileAt(h, n)] = h[FileAt(h, n)] /\ h[FileAt(h, n)] # Unasked
    BY <1>3, <2>2 DEF HeardAlike
  <2>5. \A n \in read(h) : Said(g, FileAt(g, n)) <=> Said(h, FileAt(h, n))
    BY <2>1, <2>4 DEF Said
  <2>0. \A m \in files : ~(m < 1) /\ (m < 2 <=> m = 1)
    BY <2>3, OneAndTwo
  <2>6. 1 \in files => 1 \in read(h)
    BY <2>0
  <2>7. 2 \in files => (2 \in read(h) <=> (1 \in files => Said(h, FileAt(h, 1))))
    BY <2>0
  <2>8. 2 \in files => (2 \in read(g) <=> (1 \in files => Said(g, FileAt(g, 1))))
    BY <2>0
  <2>9. 1 \in files => 1 \in read(g)
    BY <2>0
  <2>10. read(g) = read(h)
    BY <2>3, <2>5, <2>6, <2>7, <2>8, <2>9
  <2>11. {FileAt(g, n) : n \in files} = {FileAt(h, n) : n \in files}
    BY <2>1
  <2> DEFINE asked == {FileAt(h, n) : n \in files}
  <2>12. (\A a \in asked : Said(g, a)) <=> (\A a \in asked : Said(h, a))
    <3>1. (\A n \in files : Said(g, FileAt(h, n))) <=> (\A n \in files : Said(h, FileAt(h, n)))
      <4>1. \A n \in read(h) : Said(g, FileAt(h, n)) <=> Said(h, FileAt(h, n))
        BY <2>1, <2>5
      <4>2. (\A n \in files : Said(h, FileAt(h, n))) => read(h) = files
        BY <2>3, <2>6, <2>7
      <4>3. (\A n \in files : Said(g, FileAt(h, n))) => read(h) = files
        BY <2>3, <2>6, <2>7, <4>1
      <4> QED BY <4>1, <4>2, <4>3
    <3> QED BY <3>1
  <2>13. (\A a \in asked : Said(h, a)) => \A a \in asked : g[a] = h[a]
    BY <2>3, <2>4, <2>6, <2>7
  <2>14. BundleRule(rule, c, bundle, g) =
           Grade(asked # {} /\ \A a \in asked : Said(g, a), \A a \in asked : g[a] = "there")
    BY <1>4, <2>11 DEF BundleRule, files
  <2>15. BundleRule(rule, c, bundle, h) =
           Grade(asked # {} /\ \A a \in asked : Said(h, a), \A a \in asked : h[a] = "there")
    BY <1>4 DEF BundleRule, files
  <2>. HIDE DEF asked
  <2>16. BundleRule(rule, c, bundle, g) = BundleRule(rule, c, bundle, h)
    BY <2>12, <2>13, <2>14, <2>15 DEF Grade
  <2>17. {FileAt(g, n) : n \in read(g)} = {FileAt(h, n) : n \in read(h)}
    BY <2>1, <2>10
  <2> QED BY <1>1, <1>2, <1>3, <2>2, <2>16, <2>17
<1>5. CASE rule = "CC-BUN-002"
  <2>1. BundleAsks(rule, c, bundle, h) = {"root"} /\ BundleAsks(rule, c, bundle, g) = {"root"}
    BY <1>5 DEF BundleAsks
  <2>2. g["root"] = h["root"]
    BY <1>3, <2>1 DEF HeardAlike
  <2> QED BY <1>1, <1>2, <1>3, <1>5, <2>1, <2>2 DEF BundleRule, Said
<1>6. CASE rule = "CC-BUN-003"
  <2>1. \A k : BundleAsks(rule, c, bundle, k) =
          {"root"} \cup When(Said(k, "root") /\ "codecheck/" \in k["root"], {"inside"})
    BY <1>6 DEF BundleAsks
  <2>2. g["root"] = h["root"]
    <3>1. "root" \in BundleAsks(rule, c, bundle, h)
      BY <2>1
    <3> QED BY <1>3, <3>1 DEF HeardAlike
  <2>3. Said(g, "root") <=> Said(h, "root")
    BY <2>2 DEF Said
  <2>4. Said(h, "root") /\ "codecheck/" \in h["root"] => g["inside"] = h["inside"]
    BY <1>3, <2>1 DEF HeardAlike, When
  <2>5. BundleRule(rule, c, bundle, g) = BundleRule(rule, c, bundle, h)
    BY <1>6, <2>2, <2>3, <2>4 DEF BundleRule, Said
  <2>6. BundleAsks(rule, c, bundle, g) = BundleAsks(rule, c, bundle, h)
    BY <2>1, <2>2, <2>3
  <2> QED BY <1>1, <1>2, <1>3, <2>5, <2>6
<1>7. CASE rule = "CC-BUN-005"
  <2>1. Licence(bundle, g) = Licence(bundle, h)
        /\ BundleAsks(rule, c, bundle, g) = BundleAsks(rule, c, bundle, h)
    BY <1>3, <1>7, LicenceAgrees
  <2>2. /\ BundleRule(rule, c, bundle, g) = Licence(bundle, g)
        /\ BundleRule(rule, c, bundle, h) = Licence(bundle, h)
    BY <1>7 DEF BundleRule
  <2> QED BY <1>1, <1>2, <1>3, <2>1, <2>2
<1> QED BY <1>4, <1>5, <1>6, <1>7 DEF BundleRules

LEMMA RegisterAgrees ==
  ASSUME NEW rule \in NumberRules \cup RowRules \cup IssueRules,
         NEW c, NEW bundle, NEW r, NEW h, NEW g, Legible(c),
         HeardAlike(Asks(rule, c, bundle, r, h), h, g)
  PROVE  /\ Check(rule, c, bundle, r, g) = Check(rule, c, bundle, r, h)
         /\ Asks(rule, c, bundle, r, g) = Asks(rule, c, bundle, r, h)
<1>1. /\ Asks(rule, c, bundle, r, g) = RegisterAsks(rule, c, r, g)
      /\ Asks(rule, c, bundle, r, h) = RegisterAsks(rule, c, r, h)
  BY RegisterRuleAsks
<1> DEFINE asking == c.certificate # "none" /\ (rule = "CC-REG-002" => c.certificate = "sound")
<1>2. asking => g["register"] = h["register"] /\ g["venues"] = h["venues"]
  <2>1. asking => "register" \in RegisterAsks(rule, c, r, h)
                  /\ "venues" \in RegisterAsks(rule, c, r, h)
    BY DEF RegisterAsks, When
  <2> QED BY <1>1, <2>1 DEF HeardAlike
<1>3. asking => /\ Said(g, "register") <=> Said(h, "register")
                /\ Said(g, "venues") <=> Said(h, "venues")
  BY <1>2 DEF Said
<1>4. asking \/ c.certificate = "none" => RowOf(c, r, g) = RowOf(c, r, h)
  BY <1>2, <1>3 DEF RowOf
<1>5. CASE rule \in NumberRules
  <2>1. /\ Check(rule, c, bundle, r, g) = CertificateInRegister(rule, c, r, g)
        /\ Check(rule, c, bundle, r, h) = CertificateInRegister(rule, c, r, h)
    BY <1>5, NumberChecked
  <2>2. rule \notin IssueRules
    BY <1>5 DEF NumberRules, IssueRules
  <2>3. RegisterAsks(rule, c, r, g) = RegisterAsks(rule, c, r, h)
    BY <2>2 DEF RegisterAsks, When
  <2>4. CASE rule = "CC-REG-001"
    <3>2. CASE c.certificate # "none"
      <4>1. asking
        BY <2>4, <3>2
      <4>2. CertificateInRegister(rule, c, r, g) = CertificateInRegister(rule, c, r, h)
        BY <1>2, <1>3, <2>4, <4>1 DEF CertificateInRegister
      <4> QED BY <1>1, <2>1, <2>3, <4>2
    <3>1. CASE c.certificate = "none"
      <4>1. CertificateInRegister(rule, c, r, g) = CertificateInRegister(rule, c, r, h)
        BY <2>4, <3>1 DEF CertificateInRegister, Grade
      <4> QED BY <1>1, <2>1, <2>3, <4>1
    <3> QED BY <3>1, <3>2
  <2>5. CASE rule = "CC-REG-002"
    <3>1. CASE c.certificate = "sound"
      <4>1. asking
        BY <3>1
      <4>2. CertificateInRegister(rule, c, r, g) = CertificateInRegister(rule, c, r, h)
        BY <1>2, <1>3, <2>5, <3>1, <4>1 DEF CertificateInRegister, Grade
      <4> QED BY <1>1, <2>1, <2>3, <4>2
    <3>2. CASE c.certificate # "sound"
      <4>1. CertificateInRegister(rule, c, r, g) = CertificateInRegister(rule, c, r, h)
        BY <2>5, <3>2 DEF CertificateInRegister, Legible
      <4> QED BY <1>1, <2>1, <2>3, <4>1
    <3> QED BY <3>1, <3>2
  <2> QED BY <1>5, <2>4, <2>5 DEF NumberRules
<1>6. ASSUME rule \in RowRules \cup IssueRules
      PROVE  /\ rule # "CC-REG-002"
             /\ RowOf(c, r, g) = RowOf(c, r, h)
             /\ RowOf(c, r, h) # NoRow => asking
  <2>1. rule # "CC-REG-002"
    BY <1>6 DEF RowRules, IssueRules
  <2>2. c.certificate # "none" => asking
    BY <2>1
  <2>3. c.certificate = "none" => RowOf(c, r, h) = NoRow
    BY DEF RowOf
  <2> QED BY <1>4, <2>1, <2>2, <2>3
<1>7. CASE rule \in RowRules
  <2>1. /\ Check(rule, c, bundle, r, g) = RowRule(rule, c, r, g)
        /\ Check(rule, c, bundle, r, h) = RowRule(rule, c, r, h)
    BY <1>7, RowChecked
  <2>2. rule \notin IssueRules
    BY <1>7 DEF RowRules, IssueRules
  <2>3. RegisterAsks(rule, c, r, g) = RegisterAsks(rule, c, r, h)
    BY <2>2 DEF RegisterAsks, When
  <2>4. RowOf(c, r, g) = RowOf(c, r, h) /\ (RowOf(c, r, h) # NoRow => asking)
    BY <1>6, <1>7
  <2>5. CASE rule = "CC-REG-003"
    BY <1>1, <2>1, <2>3, <2>4, <2>5 DEF RowRule
  <2>6. CASE rule = "CC-REG-004"
    BY <1>1, <2>1, <2>3, <2>4, <2>6 DEF RowRule
  <2>7. CASE rule = "CC-REG-005"
    <3> HIDE DEF asking
    <3>1. RowRule(rule, c, r, g) = RowRule(rule, c, r, h)
      BY <1>2, <1>3, <2>4, <2>7 DEF RowRule, Grade
    <3> QED BY <1>1, <2>1, <2>3, <3>1
  <2> QED BY <1>7, <2>5, <2>6, <2>7 DEF RowRules
<1>8. CASE rule \in IssueRules
  <2>1. /\ Check(rule, c, bundle, r, g) = IssueRule(rule, c, r, g)
        /\ Check(rule, c, bundle, r, h) = IssueRule(rule, c, r, h)
    BY <1>8, IssueChecked
  <2>2. RowOf(c, r, g) = RowOf(c, r, h) /\ (RowOf(c, r, h) # NoRow => asking)
    BY <1>6, <1>8
  <2>3. RegisterAsks(rule, c, r, g) = RegisterAsks(rule, c, r, h)
    BY <2>2 DEF RegisterAsks, When
  <2>4. RowOf(c, r, h) # NoRow /\ RowOf(c, r, h).issue => g["issue"] = h["issue"]
    <3>1. RowOf(c, r, h) # NoRow /\ RowOf(c, r, h).issue => "issue" \in RegisterAsks(rule, c, r, h)
      BY <1>8 DEF RegisterAsks, When
    <3> QED BY <1>1, <3>1 DEF HeardAlike
  <2>5. RowOf(c, r, h) # NoRow /\ RowOf(c, r, h).issue => (Said(g, "issue") <=> Said(h, "issue"))
    BY <2>4 DEF Said
  <2>6. IssueThere(c, r, g) = IssueThere(c, r, h)
    BY <2>2, <2>4, <2>5 DEF IssueThere
  <2>7. IssueThere(c, r, h) = "pass" =>
          RowOf(c, r, h) # NoRow /\ RowOf(c, r, h).issue
    BY DEF IssueThere
  <2>8. asking => (Listed(g, RowOf(c, r, h).venue) <=> Listed(h, RowOf(c, r, h).venue))
    BY <1>2, <1>3 DEF Listed
  <2>9. IssueRule(rule, c, r, g) = IssueRule(rule, c, r, h)
    <3> HIDE DEF asking
    <3>1. CASE rule = "CC-REG-006"
      BY <2>6, <3>1 DEF IssueRule
    <3>2. CASE rule = "CC-REG-007"
      BY <2>4, <2>6, <2>7, <3>2 DEF IssueRule
    <3>3. CASE rule = "CC-REG-008"
      BY <2>2, <2>4, <2>6, <2>7, <2>8, <3>3 DEF IssueRule, Grade
    <3> QED BY <1>8, <3>1, <3>2, <3>3 DEF IssueRules
  <2> QED BY <1>1, <2>1, <2>3, <2>9
<1> QED BY <1>5, <1>7, <1>8

\* What a rule says, and what it asks, is settled by the answers it asked for.
LEMMA RulesAgree ==
  ASSUME NEW rule \in AboutTheFile \cup LinkRules \cup OrcidRules \cup WorkRules
           \cup BundleRules \cup ReportRules \cup NumberRules \cup RowRules \cup IssueRules,
         NEW c, NEW bundle, NEW r, NEW h, NEW g, Legible(c),
         Branch(g) = Branch(h), Stating(h),
         HeardAlike(Asks(rule, c, bundle, r, h), h, g)
  PROVE  /\ Check(rule, c, bundle, r, g) = Check(rule, c, bundle, r, h)
         /\ Asks(rule, c, bundle, r, g) = Asks(rule, c, bundle, r, h)
<1>3. CASE rule \in AboutTheFile
  BY <1>3, FilesAgree
<1>4. CASE rule \in LinkRules
  BY <1>4, LinksAgree
<1>5. CASE rule \in OrcidRules
  BY <1>5, OrcidsAgree
<1>6. CASE rule \in WorkRules
  BY <1>6, WorkAgrees
<1>7. CASE rule \in BundleRules
  BY <1>7, BundleAgrees
<1>8. CASE rule \in ReportRules
  BY <1>8, ReportsAgree
<1>9. CASE rule \in NumberRules \cup RowRules \cup IssueRules
  BY <1>9, RegisterAgrees
<1> QED BY <1>3, <1>4, <1>5, <1>6, <1>7, <1>8, <1>9

-----------------------------------------------------------------------------
\* Whatever was asked answered as it would have, or not at all.
Vouched(asks, h, t) == \A a \in asks : h[a] # Unasked /\ h[a] \in {Silent, t[a]}

\* A rule says what it would have said, or nothing.
Honest(rule, c, bundle, r, h, t) ==
  Check(rule, c, bundle, r, h) \in {"skip", Check(rule, c, bundle, r, t)}

(* Family by family: a rule is honest.                                      *)

LEMMA LinksAreHonest ==
  ASSUME NEW rule \in LinkRules, NEW c, NEW bundle, NEW r, NEW h, NEW t, Legible(c),
         Vouched(Asks(rule, c, bundle, r, h), h, t)
  PROVE  Honest(rule, c, bundle, r, h, t)
<1>1. Check(rule, c, bundle, r, t) = LinkRule(rule, c, t)
  BY LinkChecked
<1>2. Check(rule, c, bundle, r, h) = LinkRule(rule, c, h)
  BY LinkChecked
<1>3. \A a \in Asks(rule, c, bundle, r, h) : Resolves(h, a) \in {"skip", Resolves(t, a)}
  BY DEF Vouched, Resolves, Said
<1>4. Asks(rule, c, bundle, r, h) = LinksOf(rule, c)
  BY LinkAsks
<1>5. LinkRule(rule, c, h) \in {"skip", LinkRule(rule, c, t)}
  <2>1. CASE rule = "CC-CFG-012"
    <3>1. Asks(rule, c, bundle, r, h) = When(c.report \in {"link", "Zenodo link"}, {"report"})
      BY <2>1, <1>4 DEF LinksOf
    <3>2. c.report \in {"link", "Zenodo link"} =>
            Resolves(h, "report") \in {"skip", Resolves(t, "report")}
      BY <1>3, <3>1 DEF When
    <3> QED BY <2>1, <3>2 DEF LinkRule, Legible
  <2>2. CASE rule = "CC-MET-004"
    <3>1. Asks(rule, c, bundle, r, h) = When(c.reference \in Links \ {"FIXME"}, {"paper"})
      BY <2>2, <1>4 DEF LinksOf
    <3>2. c.reference \in Links \ {"FIXME"} =>
            Resolves(h, "paper") \in {"skip", Resolves(t, "paper")}
      BY <1>3, <3>1 DEF When
    <3> QED BY <2>2, <3>2 DEF LinkRule
  <2>3. CASE rule = "CC-MET-009"
    <3> DEFINE others == Others(c)
               said(k) == {Resolves(k, a) : a \in others}
    <3>1. \A a \in others : Resolves(h, a) \in {"skip", Resolves(t, a)}
      <4>1. Asks(rule, c, bundle, r, h) = others
        BY <2>3, <1>4 DEF LinksOf
      <4> QED BY <1>3, <4>1
    <3>2. /\ LinkRule(rule, c, h) = IF others = {} THEN "skip" ELSE Verdict(said(h))
          /\ LinkRule(rule, c, t) = IF others = {} THEN "skip" ELSE Verdict(said(t))
      BY <2>3 DEF LinkRule
    <3>. HIDE DEF others
    <3>3. CASE "fail" \in said(h)
      <4>1. "fail" \in said(t)
        BY <3>1, <3>3
      <4> QED BY <3>2, <3>3, <4>1 DEF Verdict
    <3>4. CASE "fail" \notin said(h) /\ "skip" \in said(h)
      BY <3>2, <3>4 DEF Verdict
    <3>5. CASE "fail" \notin said(h) /\ "skip" \notin said(h)
      <4>1. \A a \in others : Resolves(h, a) = Resolves(t, a)
        BY <3>1, <3>5
      <4>2. said(h) = said(t)
        BY <4>1
      <4> QED BY <3>2, <4>2
    <3> QED BY <3>3, <3>4, <3>5
  <2>4. CASE rule = "CC-BUN-004"
    <3>1. Asks(rule, c, bundle, r, h) = When(c.repository, {"repository"})
      BY <2>4, <1>4 DEF LinksOf
    <3>2. c.repository => Resolves(h, "repository") \in {"skip", Resolves(t, "repository")}
      BY <1>3, <3>1 DEF When
    <3> QED BY <2>4, <3>2 DEF LinkRule
  <2> QED BY <2>1, <2>2, <2>3, <2>4 DEF LinkRules
<1> QED BY <1>1, <1>2, <1>5 DEF Honest

LEMMA OrcidsAreHonest ==
  ASSUME NEW rule \in OrcidRules, rule # "CC-MET-003", NEW c, NEW bundle, NEW r, NEW h, NEW t,
         Vouched(Asks(rule, c, bundle, r, h), h, t)
  PROVE  Honest(rule, c, bundle, r, h, t)
<1> DEFINE asked == {OrcidOf(p) : p \in ToLookUp(c)}
           found(k, a) == IF ~Said(k, a) THEN "skip" ELSE IF k[a] = "none" THEN "fail" ELSE "pass"
           said(k) == {found(k, a) : a \in asked}
<1>1. /\ Check(rule, c, bundle, r, h) = OrcidRule(rule, c, h)
      /\ Check(rule, c, bundle, r, t) = OrcidRule(rule, c, t)
  BY OrcidChecked
<1>2. Asks(rule, c, bundle, r, h) = asked
  BY OrcidAsks
<1>3. /\ OrcidRule(rule, c, h) = IF asked = {} THEN "skip" ELSE Verdict(said(h))
      /\ OrcidRule(rule, c, t) = IF asked = {} THEN "skip" ELSE Verdict(said(t))
  BY DEF OrcidRule, OrcidRules
<1>. HIDE DEF asked
<1>4. \A a \in asked : found(h, a) \in {"skip", found(t, a)}
  BY <1>2 DEF Vouched, Said
<1>. HIDE DEF found
<1>5. CASE "fail" \in said(h)
  <2>1. "fail" \in said(t)
    BY <1>4, <1>5
  <2> QED BY <1>1, <1>3, <1>5, <2>1 DEF Verdict, Honest
<1>6. CASE "fail" \notin said(h) /\ "skip" \in said(h)
  BY <1>1, <1>3, <1>6 DEF Verdict, Honest
<1>7. CASE "fail" \notin said(h) /\ "skip" \notin said(h)
  <2>1. \A a \in asked : found(h, a) = found(t, a)
    BY <1>4, <1>7
  <2>2. said(h) = said(t)
    BY <2>1
  <2> QED BY <1>1, <1>3, <2>2 DEF Honest
<1> QED BY <1>5, <1>6, <1>7

LEMMA WorkIsHonest ==
  ASSUME NEW rule \in WorkRules, NEW c, NEW bundle, NEW r, NEW h, NEW t,
         Vouched(Asks(rule, c, bundle, r, h), h, t)
  PROVE  Honest(rule, c, bundle, r, h, t)
<1>1. CASE HasDOI(c) /\ h["work"] # Silent
  <2>1. Asks(rule, c, bundle, r, h) = {"work"}
    BY <1>1, WorkAsks DEF When
  <2>2. HeardAlike(Asks(rule, c, bundle, r, h), h, t)
    BY <1>1, <2>1 DEF Vouched, HeardAlike
  <2> QED BY <2>2, WorkAgrees DEF Honest
<1>2. CASE ~HasDOI(c) \/ h["work"] = Silent
  <2>1. WorkRule(rule, c, h) = "skip"
    BY <1>2 DEF WorkRule, Said
  <2> QED BY <2>1, WorkChecked DEF Honest
<1> QED BY <1>1, <1>2

LEMMA ReportsAreHonest ==
  ASSUME NEW rule \in ReportRules, NEW c, NEW bundle, NEW r, NEW h, NEW t,
         Vouched(Asks(rule, c, bundle, r, h), h, t)
  PROVE  Honest(rule, c, bundle, r, h, t)
<1>1. CASE h["deposit"] = Silent
  <2>1. ReportRule(rule, c, h) = "skip"
    BY <1>1 DEF ReportRule, Said
  <2> QED BY <2>1, ReportChecked DEF Honest
<1>2. CASE h["deposit"] # Silent
  <2>1. Asks(rule, c, bundle, r, h) \subseteq {"deposit"}
    BY ReportAsks DEF When, DepositOf
  <2>2. HeardAlike(Asks(rule, c, bundle, r, h), h, t)
    BY <1>2, <2>1 DEF Vouched, HeardAlike
  <2> QED BY <2>2, ReportsAgree DEF Honest
<1> QED BY <1>1, <1>2

LEMMA LicenceIsHonest ==
  ASSUME NEW rule, rule = "CC-BUN-005", NEW c, NEW bundle, NEW h, NEW t,
         Stating(h),
         Vouched(BundleAsks(rule, c, bundle, h), h, t)
  PROVE  Licence(bundle, h) \in {"skip", Licence(bundle, t)}
<1>1. h["root"] = Silent => LicenceFile(h) = "skip"
  BY DEF LicenceFile, Grade, Said
<1>2. h["root"] = t["root"] => LicenceFile(h) = LicenceFile(t)
  BY DEF LicenceFile, Said
<1>3. CASE bundle # "archive"
  <2>1. "root" \in BundleAsks(rule, c, bundle, h)
    BY <1>3 DEF BundleAsks
  <2>2. h["root"] \in {Silent, t["root"]}
    BY <2>1 DEF Vouched
  <2> QED BY <1>1, <1>2, <1>3, <2>2 DEF Licence
<1>4. CASE bundle = "archive"
  <2>1. BundleAsks(rule, c, bundle, h) =
          {"stated licence"}
            \cup When(Said(h, "stated licence") /\ h["stated licence"] = "none", {"root"})
    BY <1>4 DEF BundleAsks
  <2>2. h["stated licence"] \in {Silent, t["stated licence"]} /\ h["stated licence"] # Unasked
    BY <2>1 DEF Vouched
  <2>3. CASE h["stated licence"] = Silent
    BY <1>4, <2>3 DEF Licence, StatedLicence, Said
  <2>4. CASE h["stated licence"] # Silent
    <3>1. StatedLicence(t) = StatedLicence(h)
      BY <2>2, <2>4 DEF StatedLicence, Said
    <3>2. CASE StatedLicence(h) # ""
      BY <1>4, <3>1, <3>2 DEF Licence
    <3>3. CASE StatedLicence(h) = ""
      <4>1. Said(h, "stated licence") /\ h["stated licence"] = "none"
        BY <2>2, <2>4, <3>3 DEF StatedLicence, Said, Stating
      <4>2. "root" \in BundleAsks(rule, c, bundle, h)
        BY <2>1, <4>1 DEF When
      <4>3. h["root"] \in {Silent, t["root"]}
        BY <4>2 DEF Vouched
      <4> QED BY <1>1, <1>2, <3>1, <3>3, <4>3 DEF Licence
    <3> QED BY <3>2, <3>3
  <2> QED BY <2>3, <2>4
<1> QED BY <1>3, <1>4

LEMMA BundleIsHonest ==
  ASSUME NEW rule \in BundleRules, NEW c, NEW bundle, NEW r, NEW h, NEW t,
         Branch(t) = Branch(h),
         Stating(h),
         Vouched(Asks(rule, c, bundle, r, h), h, t)
  PROVE  Honest(rule, c, bundle, r, h, t)
<1>1. Asks(rule, c, bundle, r, h) = BundleAsks(rule, c, bundle, h)
  BY BundleRuleAsks
<1>2. CASE \A a \in Asks(rule, c, bundle, r, h) : h[a] # Silent
  <2>1. HeardAlike(Asks(rule, c, bundle, r, h), h, t)
    BY <1>2 DEF HeardAlike, Vouched
  <2>2. /\ Check(rule, c, bundle, r, t) = Check(rule, c, bundle, r, h)
        /\ Asks(rule, c, bundle, r, t) = Asks(rule, c, bundle, r, h)
    BY <2>1, BundleAgrees
  <2> QED BY <2>2 DEF Honest
<1>3. CASE \E a \in Asks(rule, c, bundle, r, h) : h[a] = Silent
  <2>1. PICK a \in Asks(rule, c, bundle, r, h) : h[a] = Silent
    BY <1>3
  <2>2. ~Said(h, a)
    BY <2>1 DEF Said
  <2>3. a \in BundleAsks(rule, c, bundle, h)
    BY <1>1, <2>1
  <2>4. CASE rule = "CC-BUN-001"
    <3>1. a \in {FileAt(h, n) : n \in Files(c)}
      BY <2>3, <2>4 DEF BundleAsks
    <3>2. BundleRule(rule, c, bundle, h) = "skip"
      BY <2>2, <2>4, <3>1 DEF BundleRule, Grade
    <3> QED BY <3>2, BundleChecked DEF Honest
  <2>5. CASE rule = "CC-BUN-002"
    <3>1. a = "root"
      BY <2>3, <2>5 DEF BundleAsks
    <3>2. BundleRule(rule, c, bundle, h) = "skip"
      BY <2>2, <2>5, <3>1 DEF BundleRule, Grade
    <3> QED BY <3>2, BundleChecked DEF Honest
  <2>6. CASE rule = "CC-BUN-003"
    <3>1. a \in {"root", "inside"}
      BY <2>3, <2>6 DEF BundleAsks, When
    <3>2. BundleRule(rule, c, bundle, h) = "skip"
      BY <2>2, <2>6, <3>1 DEF BundleRule, Grade
    <3> QED BY <3>2, BundleChecked DEF Honest
  <2>7. CASE rule = "CC-BUN-005"
    <3>1. Vouched(BundleAsks(rule, c, bundle, h), h, t)
      BY <1>1
    <3>2. /\ BundleRule(rule, c, bundle, h) = Licence(bundle, h)
          /\ BundleRule(rule, c, bundle, t) = Licence(bundle, t)
      BY <2>7 DEF BundleRule
    <3>3. Licence(bundle, h) \in {"skip", Licence(bundle, t)}
      BY <2>7, <3>1, LicenceIsHonest
    <3> QED BY <3>2, <3>3, BundleChecked DEF Honest
  <2> QED BY <2>4, <2>5, <2>6, <2>7 DEF BundleRules
<1> QED BY <1>2, <1>3

LEMMA RegisterIsHonest ==
  ASSUME NEW rule \in NumberRules \cup RowRules \cup IssueRules, rule # "CC-REG-008",
         NEW c, NEW bundle, NEW r, NEW h, NEW t, Legible(c),
         Vouched(Asks(rule, c, bundle, r, h), h, t)
  PROVE  Honest(rule, c, bundle, r, h, t)
<1> DEFINE asking == c.certificate # "none" /\ (rule = "CC-REG-002" => c.certificate = "sound")
<1>1. Asks(rule, c, bundle, r, h) = RegisterAsks(rule, c, r, h)
  BY RegisterRuleAsks
<1>2. asking => /\ h["register"] \in {Silent, t["register"]} /\ h["register"] # Unasked
                /\ h["venues"] \in {Silent, t["venues"]} /\ h["venues"] # Unasked
  <2>1. asking => "register" \in RegisterAsks(rule, c, r, h)
                  /\ "venues" \in RegisterAsks(rule, c, r, h)
    BY DEF RegisterAsks, When
  <2> QED BY <1>1, <2>1 DEF Vouched
<1>3. CASE rule \in NumberRules
  <2>1. /\ Check(rule, c, bundle, r, t) = CertificateInRegister(rule, c, r, t)
        /\ Check(rule, c, bundle, r, h) = CertificateInRegister(rule, c, r, h)
    BY <1>3, NumberChecked
  <2>2. CASE ~asking
    <3>1. CertificateInRegister(rule, c, r, h) = CertificateInRegister(rule, c, r, t)
      BY <1>3, <2>2 DEF CertificateInRegister, NumberRules, Grade, Legible
    <3> QED BY <2>1, <3>1 DEF Honest
  <2>3. CASE asking /\ h["register"] = Silent
    <3>1. CertificateInRegister(rule, c, r, h)
            \in {"skip", CertificateInRegister(rule, c, r, t)}
      BY <1>3, <2>3 DEF CertificateInRegister, NumberRules, Grade, Said, Legible
    <3> QED BY <2>1, <3>1 DEF Honest
  <2>4. CASE asking /\ h["register"] # Silent
    <3>1. t["register"] = h["register"]
      BY <1>2, <2>4
    <3>2. Said(t, "register") <=> Said(h, "register")
      BY <3>1 DEF Said
    <3>3. CertificateInRegister(rule, c, r, h) = CertificateInRegister(rule, c, r, t)
      <4>1. CASE rule = "CC-REG-001"
        BY <3>1, <3>2, <4>1 DEF CertificateInRegister
      <4>2. CASE rule = "CC-REG-002"
        BY <2>4, <3>1, <3>2, <4>2 DEF CertificateInRegister, Grade
      <4> QED BY <1>3, <4>1, <4>2 DEF NumberRules
    <3> QED BY <2>1, <3>3 DEF Honest
  <2> QED BY <2>2, <2>3, <2>4
<1>4. CASE rule \in RowRules \cup IssueRules
  <2>1. rule # "CC-REG-002" /\ rule # "CC-REG-001"
    BY <1>4 DEF RowRules, IssueRules
  <2>2. RowOf(c, r, h) # NoRow => asking /\ h["register"] # Silent
    BY <2>1 DEF RowOf, Said
  <2>3. RowOf(c, r, h) = NoRow => Check(rule, c, bundle, r, h) = "skip"
    <3>1. ASSUME rule \in RowRules, RowOf(c, r, h) = NoRow PROVE RowRule(rule, c, r, h) = "skip"
      BY <3>1 DEF RowRule, RowRules, Grade
    <3>2. ASSUME rule \in IssueRules, RowOf(c, r, h) = NoRow PROVE IssueRule(rule, c, r, h) = "skip"
      BY <3>2 DEF IssueRule, IssueThere
    <3> QED BY <1>4, <3>1, <3>2, RowChecked, IssueChecked
  <2>4. CASE RowOf(c, r, h) = NoRow
    BY <2>3, <2>4 DEF Honest
  <2>5. CASE RowOf(c, r, h) # NoRow
    <3>1. asking /\ t["register"] = h["register"]
      BY <1>2, <2>2, <2>5
    <3>2. RowOf(c, r, t) = RowOf(c, r, h)
      BY <3>1 DEF RowOf, Said
    <3> HIDE DEF asking
    <3>3. CASE rule \in RowRules
      <4>1. /\ Check(rule, c, bundle, r, t) = RowRule(rule, c, r, t)
            /\ Check(rule, c, bundle, r, h) = RowRule(rule, c, r, h)
        BY <3>3, RowChecked
      <4>2. CASE rule \in {"CC-REG-003", "CC-REG-004"}
        <5>1. RowRule(rule, c, r, t) = RowRule(rule, c, r, h)
          BY <3>2, <4>2 DEF RowRule
        <5> QED BY <4>1, <5>1 DEF Honest
      <4>3. CASE rule = "CC-REG-005"
        <5>1. CASE h["venues"] = Silent
          <6>1. RowRule(rule, c, r, h) = "skip"
            BY <4>3, <5>1 DEF RowRule, Grade, Said
          <6> QED BY <4>1, <6>1 DEF Honest
        <5>2. CASE h["venues"] # Silent
          <6>1. t["venues"] = h["venues"]
            BY <1>2, <3>1, <5>2
          <6>2. Said(t, "venues") <=> Said(h, "venues")
            BY <6>1 DEF Said
          <6>3. RowRule(rule, c, r, t) = RowRule(rule, c, r, h)
            BY <3>2, <4>3, <6>1, <6>2 DEF RowRule
          <6> QED BY <4>1, <6>3 DEF Honest
        <5> QED BY <5>1, <5>2
      <4> QED BY <3>3, <4>2, <4>3 DEF RowRules
    <3>4. CASE rule \in IssueRules
      <4>1. /\ Check(rule, c, bundle, r, t) = IssueRule(rule, c, r, t)
            /\ Check(rule, c, bundle, r, h) = IssueRule(rule, c, r, h)
        BY <3>4, IssueChecked
      <4>2. RowOf(c, r, h).issue => "issue" \in RegisterAsks(rule, c, r, h)
        BY <2>5, <3>4 DEF RegisterAsks, When
      <4>3. RowOf(c, r, h).issue => h["issue"] \in {Silent, t["issue"]}
        BY <1>1, <4>2 DEF Vouched
      <4>4. CASE ~RowOf(c, r, h).issue \/ h["issue"] = Silent
        <5>1. IssueThere(c, r, h) = "skip"
          BY <4>4 DEF IssueThere, Said
        <5>2. IssueRule(rule, c, r, h) = "skip"
          BY <5>1 DEF IssueRule
        <5> QED BY <4>1, <5>2 DEF Honest
      <4>5. CASE RowOf(c, r, h).issue /\ h["issue"] # Silent
        <5>1. t["issue"] = h["issue"]
          BY <4>3, <4>5
        <5>2. Said(t, "issue") <=> Said(h, "issue")
          BY <5>1 DEF Said
        <5>3. IssueThere(c, r, t) = IssueThere(c, r, h)
          BY <3>2, <5>1, <5>2 DEF IssueThere
        <5>4. CASE rule = "CC-REG-006"
          <6>1. IssueRule(rule, c, r, t) = IssueRule(rule, c, r, h)
            BY <5>3, <5>4 DEF IssueRule
          <6> QED BY <4>1, <6>1 DEF Honest
        <5>5. CASE rule = "CC-REG-007"
          <6>1. IssueRule(rule, c, r, t) = IssueRule(rule, c, r, h)
            BY <5>1, <5>3, <5>5 DEF IssueRule
          <6> QED BY <4>1, <6>1 DEF Honest
        <5> QED BY <3>4, <5>4, <5>5 DEF IssueRules
      <4> QED BY <4>4, <4>5
    <3> QED BY <1>4, <3>3, <3>4
  <2> QED BY <2>4, <2>5
<1> QED BY <1>3, <1>4

\* Whatever went unanswered, a rule that does not pass on part of what it asks
\* says what it would have said, or that it could not be checked.
LEMMA RulesAreHonest ==
  ASSUME NEW rule \in AboutTheFile \cup LinkRules \cup OrcidRules \cup WorkRules
           \cup BundleRules \cup ReportRules \cup NumberRules \cup RowRules \cup IssueRules,
         rule \notin {"CC-MET-003", "CC-REG-008"},
         NEW c, NEW bundle, NEW r, NEW h, NEW t, Legible(c),
         Branch(t) = Branch(h), Stating(h),
         Vouched(Asks(rule, c, bundle, r, h), h, t)
  PROVE  Honest(rule, c, bundle, r, h, t)
<1>1. CASE rule \in AboutTheFile
  <2>1. /\ Check(rule, c, bundle, r, t) = Check(rule, c, bundle, r, h)
        /\ Asks(rule, c, bundle, r, t) = Asks(rule, c, bundle, r, h)
    BY <1>1, FilesAgree
  <2> QED BY <2>1 DEF Honest
<1>2. CASE rule \in LinkRules
  BY <1>2, LinksAreHonest
<1>3. CASE rule \in OrcidRules
  BY <1>3, OrcidsAreHonest
<1>4. CASE rule \in WorkRules
  BY <1>4, WorkIsHonest
<1>5. CASE rule \in BundleRules
  BY <1>5, BundleIsHonest
<1>6. CASE rule \in ReportRules
  BY <1>6, ReportsAreHonest
<1>7. CASE rule \in NumberRules \cup RowRules \cup IssueRules
  BY <1>7, RegisterIsHonest
<1> QED BY <1>1, <1>2, <1>3, <1>4, <1>5, <1>6, <1>7

-----------------------------------------------------------------------------
LEMMA ResolvesIsAnOutcome ==
  ASSUME NEW h, NEW a
  PROVE  Resolves(h, a) \in RuleOutcomes
BY DEF Resolves, RuleOutcomes

LEMMA VerdictIsAnOutcome ==
  ASSUME NEW results1
  PROVE  Verdict(results1) \in RuleOutcomes
BY DEF Verdict, RuleOutcomes

\* A rule of the catalogue passes, fails or is skipped.
LEMMA RulesHaveOutcomes ==
  ASSUME NEW i \in DOMAIN Catalogue20, NEW c, NEW bundle, NEW r, NEW h
  PROVE  Check(Catalogue20[i], c, bundle, r, h) \in RuleOutcomes
<1> DEFINE rule == Catalogue20[i]
<1>1. rule \in AboutTheFile \cup LinkRules \cup OrcidRules \cup WorkRules
           \cup BundleRules \cup ReportRules \cup NumberRules \cup RowRules \cup IssueRules
  BY Families
<1>. HIDE DEF rule
<1>2. "skip" \in RuleOutcomes /\ "fail" \in RuleOutcomes /\ "pass" \in RuleOutcomes
  BY DEF RuleOutcomes
<1>3. ASSUME rule \in AboutTheFile PROVE Check(rule, c, bundle, r, h) \in RuleOutcomes
  <2>1. CASE rule \in FileRules
    <3>1. Check(rule, c, bundle, r, h) = FileRule(rule, c)
      BY <2>1 DEF Check, FileRules, ManifestRules, AboutThePaper, LinkRules, ReferenceRules,
         CertificateRules, OrcidRules, RowRules, IssueRules, Area
    <3> QED BY <2>1, <3>1, GradeIsAnOutcome DEF FileRules, FileRule
  <2>2. CASE rule \in ManifestRules
    <3>1. Check(rule, c, bundle, r, h) = ManifestRule(rule, c)
      BY <2>2 DEF Check, FileRules, ManifestRules, AboutThePaper, LinkRules, ReferenceRules,
         CertificateRules, OrcidRules, RowRules, IssueRules, Area
    <3> QED BY <2>2, <3>1, GradeIsAnOutcome DEF ManifestRules, ManifestRule
  <2>3. CASE rule \in AboutThePaper
    <3>1. Check(rule, c, bundle, r, h) = PaperRule(rule, c)
      BY <2>3 DEF Check, FileRules, ManifestRules, AboutThePaper, LinkRules, ReferenceRules,
         CertificateRules, OrcidRules, RowRules, IssueRules, Area
    <3> QED BY <2>3, <3>1, GradeIsAnOutcome DEF AboutThePaper, PaperRule
  <2>4. CASE rule \in ReferenceRules \ LinkRules
    <3>1. Check(rule, c, bundle, r, h) = ReferenceRule(rule, c)
      BY <2>4 DEF Check, FileRules, ManifestRules, AboutThePaper, LinkRules, ReferenceRules,
         CertificateRules, OrcidRules, RowRules, IssueRules, Area
    <3>2. rule \in {"CC-CFG-021", "CC-CFG-022", "CC-CFG-027", "CC-CFG-028", "CC-CFG-029",
                    "CC-CFG-030", "CC-CFG-031"}
      BY <2>4 DEF ReferenceRules, LinkRules
    <3>3. ReferenceRule(rule, c) \in RuleOutcomes
      BY <3>2, GradeIsAnOutcome DEF ReferenceRule
    <3> QED BY <3>1, <3>3
  <2>5. CASE rule \in CertificateRules
    <3>1. Check(rule, c, bundle, r, h) = CertificateRule(rule, c)
      BY <2>5 DEF Check, FileRules, ManifestRules, AboutThePaper, LinkRules, ReferenceRules,
         CertificateRules, OrcidRules, RowRules, IssueRules, Area
    <3> QED BY <2>5, <3>1, GradeIsAnOutcome DEF CertificateRules, CertificateRule
  <2>6. CASE rule = "CC-MET-001"
    <3>1. Check(rule, c, bundle, r, h) = OrcidFormat(c)
      BY <2>6 DEF Check, FileRules, ManifestRules, AboutThePaper, LinkRules, ReferenceRules,
         CertificateRules, OrcidRules, RowRules, IssueRules, Area
    <3> QED BY <3>1, GradeIsAnOutcome DEF OrcidFormat
  <2>7. CASE rule \in DeclarationRules
    <3>1. Check(rule, c, bundle, r, h) = DeclarationRule(rule, c)
      BY <2>7 DEF Check, FileRules, ManifestRules, AboutThePaper, LinkRules, ReferenceRules,
         CertificateRules, OrcidRules, RowRules, IssueRules, Area, DeclarationRules
    <3> QED BY <2>7, <3>1, GradeIsAnOutcome DEF DeclarationRules, DeclarationRule
  <2> QED BY <1>3, <2>1, <2>2, <2>3, <2>4, <2>5, <2>6, <2>7 DEF AboutTheFile
<1>4. ASSUME rule \in LinkRules PROVE Check(rule, c, bundle, r, h) \in RuleOutcomes
  <2>1. LinkRule(rule, c, h) \in RuleOutcomes
    BY <1>2, <1>4, ResolvesIsAnOutcome, VerdictIsAnOutcome DEF LinkRules, LinkRule
  <2> QED BY <1>4, <2>1, LinkChecked
<1>5. ASSUME rule \in OrcidRules PROVE Check(rule, c, bundle, r, h) \in RuleOutcomes
  <2>1. OrcidRule(rule, c, h) \in RuleOutcomes
    BY <1>2, <1>5, GradeIsAnOutcome, VerdictIsAnOutcome DEF OrcidRules, OrcidRule
  <2> QED BY <1>5, <2>1, OrcidChecked
<1>6. ASSUME rule \in WorkRules PROVE Check(rule, c, bundle, r, h) \in RuleOutcomes
  <2>1. WorkRule(rule, c, h) \in RuleOutcomes
    BY <1>2, <1>6, GradeIsAnOutcome DEF WorkRules, WorkRule
  <2> QED BY <1>6, <2>1, WorkChecked
<1>7. ASSUME rule \in BundleRules PROVE Check(rule, c, bundle, r, h) \in RuleOutcomes
  <2>1. BundleRule(rule, c, bundle, h) \in RuleOutcomes
    BY <1>2, <1>7, GradeIsAnOutcome DEF BundleRules, BundleRule, Licence, StatedLicence, LicenceFile
  <2> QED BY <1>7, <2>1, BundleChecked
<1>8. ASSUME rule \in ReportRules PROVE Check(rule, c, bundle, r, h) \in RuleOutcomes
  <2>1. ReportRule(rule, c, h) \in RuleOutcomes
    BY <1>2, <1>8, GradeIsAnOutcome DEF ReportRules, ReportRule, RecordRule, CreatorRule, CreatorRules
  <2> QED BY <1>8, <2>1, ReportChecked
<1>9. ASSUME rule \in NumberRules PROVE Check(rule, c, bundle, r, h) \in RuleOutcomes
  <2>1. CertificateInRegister(rule, c, r, h) \in RuleOutcomes
    BY <1>2, <1>9, GradeIsAnOutcome DEF NumberRules, CertificateInRegister
  <2> QED BY <1>9, <2>1, NumberChecked
<1>10. ASSUME rule \in RowRules PROVE Check(rule, c, bundle, r, h) \in RuleOutcomes
  <2>1. RowRule(rule, c, r, h) \in RuleOutcomes
    BY <1>2, <1>10, GradeIsAnOutcome DEF RowRules, RowRule
  <2> QED BY <1>10, <2>1, RowChecked
<1>11. ASSUME rule \in IssueRules PROVE Check(rule, c, bundle, r, h) \in RuleOutcomes
  <2>1. IssueThere(c, r, h) \in RuleOutcomes
    BY <1>2 DEF IssueThere
  <2>2. IssueRule(rule, c, r, h) \in RuleOutcomes
    BY <1>2, <1>11, <2>1, GradeIsAnOutcome DEF IssueRules, IssueRule
  <2> QED BY <1>11, <2>2, IssueChecked
<1>12. Check(rule, c, bundle, r, h) \in RuleOutcomes
  BY <1>1, <1>3, <1>4, <1>5, <1>6, <1>7, <1>8, <1>9, <1>10, <1>11
<1> QED BY <1>12 DEF rule

-----------------------------------------------------------------------------
(* The addresses rules and items ask.                                       *)

\* Whatever a rule asks is an address.
LEMMA AsksAreAddresses ==
  ASSUME NEW rule \in AboutTheFile \cup LinkRules \cup OrcidRules \cup WorkRules
           \cup BundleRules \cup ReportRules \cup NumberRules \cup RowRules \cup IssueRules,
         NEW c, NEW bundle, NEW r, NEW h
  PROVE  Asks(rule, c, bundle, r, h) \subseteq Address
<1>1. CASE rule \in AboutTheFile
  BY <1>1, FileAsks
<1>2. CASE rule \in LinkRules
  <2>1. Others(c) \subseteq Address
    BY DEF Others, Address
  <2>2. \A b : When(b, {"report"}) \subseteq Address /\ When(b, {"paper"}) \subseteq Address
               /\ When(b, {"repository"}) \subseteq Address
    BY DEF When, Address
  <2>3. Asks(rule, c, bundle, r, h) = LinksOf(rule, c)
    BY <1>2, LinkAsks
  <2>4. CASE rule = "CC-CFG-012"
    <3>1. Asks(rule, c, bundle, r, h) = When(c.report \in {"link", "Zenodo link"}, {"report"})
      BY <2>4, <2>3 DEF LinksOf
    <3> QED BY <2>2, <3>1
  <2>5. CASE rule = "CC-MET-004"
    <3>1. Asks(rule, c, bundle, r, h) = When(c.reference \in Links \ {"FIXME"}, {"paper"})
      BY <2>5, <2>3 DEF LinksOf
    <3> QED BY <2>2, <3>1
  <2>6. CASE rule = "CC-MET-009"
    <3>1. Asks(rule, c, bundle, r, h) = Others(c)
      BY <2>6, <2>3 DEF LinksOf
    <3> QED BY <2>1, <3>1
  <2>7. CASE rule = "CC-BUN-004"
    <3>1. Asks(rule, c, bundle, r, h) = When(c.repository, {"repository"})
      BY <2>7, <2>3 DEF LinksOf
    <3> QED BY <2>2, <3>1
  <2> QED BY <1>2, <2>4, <2>5, <2>6, <2>7 DEF LinkRules
<1>3. CASE rule \in OrcidRules
  <2>1. Asks(rule, c, bundle, r, h) = {OrcidOf(p) : p \in ToLookUp(c)}
    BY <1>3, OrcidAsks
  <2> QED BY <2>1 DEF OrcidOf, Address
<1>4. CASE rule \in WorkRules
  BY <1>4, WorkAsks DEF When, Address
<1>5. CASE rule \in BundleRules
  <2>1. \A n : FileAt(h, n) \in Address
    BY DEF FileAt, Address
  <2>2. BundleAsks(rule, c, bundle, h) \subseteq Address
    <3>1. CASE rule = "CC-BUN-001"
      BY <2>1, <3>1 DEF BundleAsks
    <3>2. CASE rule # "CC-BUN-001"
      BY <3>2 DEF BundleAsks, When, Address
    <3> QED BY <3>1, <3>2
  <2> QED BY <1>5, <2>2, BundleRuleAsks
<1>6. CASE rule \in ReportRules
  <2>1. Asks(rule, c, bundle, r, h) \subseteq {"deposit"}
    BY <1>6, ReportAsks DEF When, DepositOf
  <2> QED BY <2>1 DEF Address
<1>7. CASE rule \in NumberRules \cup RowRules \cup IssueRules
  <2>1. RegisterAsks(rule, c, r, h) \subseteq {"register", "venues", "issue"}
    BY DEF RegisterAsks, When
  <2>2. Asks(rule, c, bundle, r, h) = RegisterAsks(rule, c, r, h)
    BY <1>7, RegisterRuleAsks
  <2> QED BY <2>1, <2>2 DEF Address
<1> QED BY <1>1, <1>2, <1>3, <1>4, <1>5, <1>6, <1>7

CheckItems ==
  {"a README", "a codecheck.yml with a manifest", "a licence", "a paper to check"}

\* The catalogue of `check ready`.
LEMMA ItemsOfReadiness ==
  ASSUME NEW i \in DOMAIN ReadyItems
  PROVE  ReadyItems[i] \in CheckItems
<1>1. DOMAIN ReadyItems = 1..4
  BY DEF ReadyItems
<1>2. i = 1 \/ i = 2 \/ i = 3 \/ i = 4
  BY <1>1
<1>3. /\ ReadyItems[1] = "a README" /\ ReadyItems[2] = "a codecheck.yml with a manifest"
      /\ ReadyItems[3] = "a licence" /\ ReadyItems[4] = "a paper to check"
  BY DEF ReadyItems
<1> QED BY <1>2, <1>3 DEF CheckItems

\* The items, as the rules: what they ask, what they may say, that they agree
\* and that they are honest.
LEMMA ItemAsksAreAddresses ==
  ASSUME NEW item \in CheckItems, NEW config, NEW bundle, NEW h
  PROVE  ItemAsks(item, config, bundle, h) \subseteq Address
<1>1. \A c : BundleAsks("CC-BUN-005", c, bundle, h) \subseteq Address
  BY DEF BundleAsks, When, Address
<1>2. {"paper", "paper of the issue"} \subseteq Address
  BY DEF Address
<1> QED BY <1>1, <1>2 DEF ItemAsks, When, CheckItems

LEMMA ItemsHaveOutcomes ==
  ASSUME NEW item \in CheckItems, NEW config, NEW bundle, NEW h
  PROVE  ItemCheck(item, config, bundle, h) \in RuleOutcomes
<1>1. "skip" \in RuleOutcomes /\ "fail" \in RuleOutcomes /\ "pass" \in RuleOutcomes
  BY DEF RuleOutcomes
<1>2. Licence(bundle, h) \in RuleOutcomes
  BY <1>1, GradeIsAnOutcome DEF Licence, StatedLicence, LicenceFile
<1>3. \A c : PaperItem(c, h) \in RuleOutcomes
  BY <1>1, ResolvesIsAnOutcome DEF PaperItem
<1> QED BY <1>1, <1>2, <1>3, GradeIsAnOutcome DEF ItemCheck, CheckItems

LEMMA ItemsAgree ==
  ASSUME NEW item \in CheckItems, NEW config, NEW bundle, NEW h, NEW g, Stating(h),
         g["root"] = h["root"], g["this issue"] = h["this issue"],
         HeardAlike(ItemAsks(item, config, bundle, h), h, g)
  PROVE  /\ ItemCheck(item, config, bundle, g) = ItemCheck(item, config, bundle, h)
         /\ ItemAsks(item, config, bundle, g) = ItemAsks(item, config, bundle, h)
<1>1. /\ Said(g, "root") <=> Said(h, "root")
      /\ ThereIsAFile(g) <=> ThereIsAFile(h)
      /\ IssueLinksPaper(g) <=> IssueLinksPaper(h)
  BY DEF Said, ThereIsAFile, IssueLinksPaper
<1> DEFINE c == IF ThereIsAFile(h) THEN config ELSE Blank(config)
<1>2. c = IF ThereIsAFile(g) THEN config ELSE Blank(config)
  BY <1>1
<1>3. CASE item = "a README"
  <2>1. \A k : ItemAsks(item, config, bundle, k) = {}
    BY <1>3 DEF ItemAsks
  <2>2. /\ ItemCheck(item, config, bundle, g) = Grade(Said(g, "root"), "README" \in g["root"])
        /\ ItemCheck(item, config, bundle, h) = Grade(Said(h, "root"), "README" \in h["root"])
    BY <1>3 DEF ItemCheck
  <2>3. ItemCheck(item, config, bundle, g) = ItemCheck(item, config, bundle, h)
    <3>1. "README" \in g["root"] <=> "README" \in h["root"]
      OBVIOUS
    <3>2. Grade(Said(g, "root"), "README" \in g["root"])
            = Grade(Said(h, "root"), "README" \in h["root"])
      BY <1>1, <3>1 DEF Grade
    <3> QED BY <2>2, <3>2
  <2> QED BY <2>1, <2>3
<1>4. CASE item = "a codecheck.yml with a manifest"
  <2>1. \A k : ItemAsks(item, config, bundle, k) = {}
    BY <1>4 DEF ItemAsks
  <2>2. ItemCheck(item, config, bundle, g) = ItemCheck(item, config, bundle, h)
    BY <1>1, <1>4 DEF ItemCheck, Grade
  <2> QED BY <2>1, <2>2
<1>5. CASE item = "a licence"
  <2>1. /\ ItemAsks(item, config, bundle, h) = BundleAsks("CC-BUN-005", c, bundle, h)
        /\ ItemAsks(item, config, bundle, g) = BundleAsks("CC-BUN-005", c, bundle, g)
    BY <1>2, <1>5 DEF ItemAsks
  <2>2. /\ ItemCheck(item, config, bundle, h) = Licence(bundle, h)
        /\ ItemCheck(item, config, bundle, g) = Licence(bundle, g)
    BY <1>5 DEF ItemCheck
  <2>. HIDE DEF c
  <2>3. HeardAlike(BundleAsks("CC-BUN-005", c, bundle, h), h, g)
    BY <2>1
  <2>4. /\ Licence(bundle, g) = Licence(bundle, h)
        /\ BundleAsks("CC-BUN-005", c, bundle, g) = BundleAsks("CC-BUN-005", c, bundle, h)
    BY <2>3, LicenceAgrees
  <2> QED BY <2>1, <2>2, <2>4
<1>6. CASE item = "a paper to check"
  <2>1. ItemCheck(item, config, bundle, h) = PaperItem(c, h)
    BY <1>6 DEF ItemCheck
  <2>2. ItemCheck(item, config, bundle, g) = PaperItem(c, g)
    BY <1>2, <1>6 DEF ItemCheck
  <2>3. FromTheIssue(c, g) <=> FromTheIssue(c, h)
    BY <1>1 DEF FromTheIssue
  <2>4. /\ ItemAsks(item, config, bundle, h) =
             IF FromTheIssue(c, h) THEN When(IssueLinksPaper(h), {"paper of the issue"})
             ELSE When(c.reference # "text", {"paper"})
        /\ ItemAsks(item, config, bundle, g) =
             IF FromTheIssue(c, g) THEN When(IssueLinksPaper(g), {"paper of the issue"})
             ELSE When(c.reference # "text", {"paper"})
    BY <1>2, <1>6 DEF ItemAsks
  <2>. HIDE DEF c
  <2>5. PaperItem(c, g) = PaperItem(c, h)
    <3>1. FromTheIssue(c, h) /\ IssueLinksPaper(h) =>
            Resolves(g, "paper of the issue") = Resolves(h, "paper of the issue")
      BY <2>4 DEF HeardAlike, When, Resolves, Said
    <3>2. ~FromTheIssue(c, h) /\ c.reference # "text" =>
            Resolves(g, "paper") = Resolves(h, "paper")
      BY <2>4 DEF HeardAlike, When, Resolves, Said
    <3> QED BY <1>1, <2>3, <3>1, <3>2 DEF PaperItem
  <2>6. ItemAsks(item, config, bundle, g) = ItemAsks(item, config, bundle, h)
    BY <1>1, <2>3, <2>4 DEF When
  <2> QED BY <2>1, <2>2, <2>5, <2>6
<1> QED BY <1>3, <1>4, <1>5, <1>6 DEF CheckItems

LEMMA ItemsAreHonest ==
  ASSUME NEW item \in CheckItems, NEW config, NEW bundle, NEW h, NEW t, Stating(h),
         t["root"] = h["root"],
         item = "a paper to check" => t["this issue"] = h["this issue"],
         Vouched(ItemAsks(item, config, bundle, h), h, t)
  PROVE  ItemCheck(item, config, bundle, h) \in {"skip", ItemCheck(item, config, bundle, t)}
<1>1. /\ Said(t, "root") <=> Said(h, "root")
      /\ ThereIsAFile(t) <=> ThereIsAFile(h)
  BY DEF Said, ThereIsAFile
<1> DEFINE c == IF ThereIsAFile(h) THEN config ELSE Blank(config)
<1>2. c = IF ThereIsAFile(t) THEN config ELSE Blank(config)
  BY <1>1
<1>3. CASE item = "a README"
  <2>1. /\ ItemCheck(item, config, bundle, t) = Grade(Said(t, "root"), "README" \in t["root"])
        /\ ItemCheck(item, config, bundle, h) = Grade(Said(h, "root"), "README" \in h["root"])
    BY <1>3 DEF ItemCheck
  <2> QED BY <1>1, <2>1 DEF Grade
<1>4. CASE item = "a codecheck.yml with a manifest"
  BY <1>1, <1>4 DEF ItemCheck, Grade
<1>5. CASE item = "a licence"
  <2>1. ItemAsks(item, config, bundle, h) = BundleAsks("CC-BUN-005", c, bundle, h)
    BY <1>5 DEF ItemAsks
  <2>2. /\ ItemCheck(item, config, bundle, h) = Licence(bundle, h)
        /\ ItemCheck(item, config, bundle, t) = Licence(bundle, t)
    BY <1>5 DEF ItemCheck
  <2>. HIDE DEF c
  <2>3. Vouched(BundleAsks("CC-BUN-005", c, bundle, h), h, t)
    BY <2>1
  <2>4. Licence(bundle, h) \in {"skip", Licence(bundle, t)}
    BY <2>3, LicenceIsHonest
  <2> QED BY <2>2, <2>4
<1>6. CASE item = "a paper to check"
  <2>1. ItemCheck(item, config, bundle, h) = PaperItem(c, h)
    BY <1>6 DEF ItemCheck
  <2>2. ItemCheck(item, config, bundle, t) = PaperItem(c, t)
    BY <1>2, <1>6 DEF ItemCheck
  <2>3. IssueLinksPaper(t) <=> IssueLinksPaper(h)
    BY <1>6 DEF IssueLinksPaper, Said
  <2>4. FromTheIssue(c, t) <=> FromTheIssue(c, h)
    BY <2>3 DEF FromTheIssue
  <2>5. ItemAsks(item, config, bundle, h) =
          IF FromTheIssue(c, h) THEN When(IssueLinksPaper(h), {"paper of the issue"})
          ELSE When(c.reference # "text", {"paper"})
    BY <1>6 DEF ItemAsks
  <2>. HIDE DEF c
  <2>6. FromTheIssue(c, h) /\ IssueLinksPaper(h) =>
          Resolves(h, "paper of the issue") \in {"skip", Resolves(t, "paper of the issue")}
    BY <2>5 DEF Vouched, When, Resolves, Said
  <2>7. ~FromTheIssue(c, h) /\ c.reference # "text" =>
          Resolves(h, "paper") \in {"skip", Resolves(t, "paper")}
    BY <2>5 DEF Vouched, When, Resolves, Said
  <2>8. PaperItem(c, h) \in {"skip", PaperItem(c, t)}
    BY <2>3, <2>4, <2>6, <2>7 DEF PaperItem
  <2> QED BY <2>1, <2>2, <2>8
<1> QED BY <1>3, <1>4, <1>5, <1>6 DEF CheckItems

-----------------------------------------------------------------------------
(***************************************************************************)
(* The inductive invariant.                                                *)
(***************************************************************************)

Names20 == {Catalogue20[i] : i \in DOMAIN Catalogue20}
Items == {ReadyItems[i] : i \in DOMAIN ReadyItems}

\* Types, and which commands come by which stages.
Shape ==
  /\ RunTypeOK
  /\ heard = [a \in Address |-> heard[a]]
  /\ job.command = "check ready" =>
       /\ todo \subseteq DOMAIN ReadyItems
       /\ runStage \in {"issue", "target", "root", "read", "rules", "done"}
  /\ runStage = "root" => job.command = "check ready"
  /\ runStage \in {"venue", "row", "certificate", "pull"} => Registering
  /\ runStage = "page" => job.command = "check finish"

\* Nothing is judged before the version is known.
Early ==
  {"record", "issue", "target", "venue", "row", "root", "read", "date", "version"}

NothingYet == runStage \in Early => DOMAIN results = {} /\ version = ""

\* What a stage has asked by the time it is reached, and rules were run on.
Grounds ==
  /\ /\ job.command # "check ready"
     /\ \/ runStage \in {"date", "version", "rules", "certificate", "pull", "page"}
        \/ DOMAIN results # {}
     => heard["codecheck.yml"] # Unasked
  /\ /\ job.command = "check ready"
     /\ runStage \in {"target", "root", "read", "rules"} \/ DOMAIN results # {}
     => heard["this issue"] # Unasked
  /\ /\ job.command = "check ready"
     /\ runStage \in {"read", "rules"} \/ DOMAIN results # {}
     => Said(heard, "root")
  /\ job.command \notin {"check", "check ready"} /\ runStage \notin {"record", "done"}
     => Said(heard, "record of the check")

\* A version is chosen for a configuration that was found.
Found ==
  \/ heard["codecheck.yml"] = "there" /\ heard["codecheck.yml"] # Unasked
  \/ /\ job.bundle = "gitlab" /\ heard["codecheck.yml on master"] = "there"
     /\ heard["codecheck.yml on master"] # Unasked

ReadFirst == version # "" \/ runStage \in {"date", "version"} => Found

\* Every result is what the rule says of what has been heard since.
ResultsStand ==
  \A r \in DOMAIN results :
    /\ r \in IF job.command = "check ready" THEN Items ELSE Names20
    /\ \A a \in RuleAsks(r, heard) : heard[a] # Unasked
    /\ results[r] = RunRule(r, heard)

\* Of what `register` must judge, a rule has been run or is still to be.
Judged(area, stage, later) ==
  runStage \in {stage} \cup later =>
    \A i \in Catalogue(version) :
      Area(Catalogue20[i]) = area =>
        Catalogue20[i] \in DOMAIN results \/ (runStage = stage /\ i \in todo)

AllJudged ==
  Registering /\ version # "" =>
    /\ Judged("config", "rules", {"certificate", "pull"})
    /\ job.same => Judged("register", "certificate", {"pull"})

\* What is said of the page is the truth, or nothing, or taken from an outage.
PageStands ==
  \/ page \in {"none", "unknown", PageOf(job.truth)}
  \/ page = "missing" /\ heard["page"] = Silent

RunInv ==
  /\ Shape /\ NothingYet /\ Grounds /\ ReadFirst /\ ResultsStand
  /\ AllJudged /\ PageStands
  /\ reply = "pull request" => runStage = "done"
  /\ NothingIsProposedUnjudged

-----------------------------------------------------------------------------
(* What a state in which the invariant holds says of its rules.             *)

\* A report and a certificate are of the forms that the rules tell apart.
LEMMA ConfigIsLegible ==
  ASSUME job \in Jobs
  PROVE  Legible(Config)
<1>1. job.config \in Configuration
  BY CheckRunAssumption
<1>2. /\ job.config.report \in {"none", "FIXME", "example", "text", "link", "bare Zenodo DOI",
                                "Zenodo link"}
      /\ job.config.certificate \in {"none", "malformed", "sound", "future"}
  BY <1>1 DEF Configuration
<1>3. CASE job.config.text = "yaml"
  BY <1>2, <1>3 DEF Config, FromBytes, Legible
<1>4. CASE job.config.text # "yaml"
  <2>1. Config.report = "none" /\ Config.certificate = "none"
    BY <1>4 DEF Config, FromBytes, Blank
  <2> QED BY <2>1 DEF Legible
<1> QED BY <1>3, <1>4

\* An archive that answers states a licence or says that it has none.
LEMMA LicencesAreStated ==
  ASSUME Shape
  PROVE  Stating(heard)
<1>1. "stated licence" \in Address
  BY DEF Address
<1>2. job.truth["stated licence"] \in {"none", "stated"}
  BY CheckRunAssumption DEF Shape, RunTypeOK, Truth
<1> QED BY <1>1, <1>2 DEF Shape, RunTypeOK, Stating

\* Every item and every rule belongs to a family.
LEMMA TurnsAreKnown ==
  ASSUME NEW r
  PROVE  /\ r \in Items => r \in CheckItems
         /\ r \in Names20 =>
              r \in AboutTheFile \cup LinkRules \cup OrcidRules \cup WorkRules
                \cup BundleRules \cup ReportRules \cup NumberRules \cup RowRules \cup IssueRules
BY Families, ItemsOfReadiness DEF Items, Names20

\* What is run in its turn passes, fails or is skipped.
LEMMA RunRuleHasOutcome ==
  ASSUME NEW r, r \in IF job.command = "check ready" THEN Items ELSE Names20, NEW h
  PROVE  RunRule(r, h) \in RuleOutcomes
<1>1. CASE job.command = "check ready"
  BY <1>1, TurnsAreKnown, ItemsHaveOutcomes DEF RunRule
<1>2. CASE job.command # "check ready"
  <2>1. PICK i \in DOMAIN Catalogue20 : r = Catalogue20[i]
    BY <1>2 DEF Names20
  <2>2. Check(Catalogue20[i], Config, job.bundle, row, h) \in RuleOutcomes
    BY RulesHaveOutcomes
  <2> QED BY <1>2, <2>1, <2>2 DEF RunRule
<1> QED BY <1>1, <1>2

\* A result says the same of whatever is heard besides.
LEMMA MoreIsHeard ==
  ASSUME Shape, Grounds, ResultsStand, NEW r \in DOMAIN results, NEW g,
         \A a \in Address : heard[a] # Unasked => g[a] = heard[a]
  PROVE  /\ RunRule(r, g) = RunRule(r, heard)
         /\ RuleAsks(r, g) = RuleAsks(r, heard)
         /\ \A a \in RuleAsks(r, heard) : g[a] # Unasked
<1>1. Stating(heard) /\ Legible(Config)
  BY LicencesAreStated, ConfigIsLegible DEF Shape, RunTypeOK
<1>2. \A a \in RuleAsks(r, heard) : heard[a] # Unasked
  BY DEF ResultsStand
<1>3. CASE job.command = "check ready"
  <2>1. r \in CheckItems
    BY <1>3, TurnsAreKnown DEF ResultsStand
  <2>2. RuleAsks(r, heard) = ItemAsks(r, Config, job.bundle, heard)
    BY <1>3 DEF RuleAsks
  <2>3. RuleAsks(r, heard) \subseteq Address
    BY <2>1, <2>2, ItemAsksAreAddresses
  <2>4. HeardAlike(ItemAsks(r, Config, job.bundle, heard), heard, g)
    BY <1>2, <2>2, <2>3 DEF HeardAlike
  <2>5. "root" \in Address /\ "this issue" \in Address
    BY DEF Address
  <2>6. g["root"] = heard["root"] /\ g["this issue"] = heard["this issue"]
    BY <1>3, <2>5 DEF Grounds, Said
  <2>7. /\ ItemCheck(r, Config, job.bundle, g) = ItemCheck(r, Config, job.bundle, heard)
        /\ ItemAsks(r, Config, job.bundle, g) = ItemAsks(r, Config, job.bundle, heard)
    BY <1>1, <2>1, <2>4, <2>6, ItemsAgree
  <2> QED BY <1>2, <1>3, <2>3, <2>7 DEF RunRule, RuleAsks
<1>4. CASE job.command # "check ready"
  <2>1. r \in AboutTheFile \cup LinkRules \cup OrcidRules \cup WorkRules
                \cup BundleRules \cup ReportRules \cup NumberRules \cup RowRules \cup IssueRules
    BY <1>4, TurnsAreKnown DEF ResultsStand
  <2>2. RuleAsks(r, heard) = Asks(r, Config, job.bundle, row, heard)
    BY <1>4 DEF RuleAsks
  <2>3. RuleAsks(r, heard) \subseteq Address
    BY <2>1, <2>2, AsksAreAddresses
  <2>4. HeardAlike(Asks(r, Config, job.bundle, row, heard), heard, g)
    BY <1>2, <2>2, <2>3 DEF HeardAlike
  <2>5. "codecheck.yml" \in Address
    BY DEF Address
  <2>6. Branch(g) = Branch(heard)
    BY <1>4, <2>5 DEF Grounds, Branch
  <2>7. /\ Check(r, Config, job.bundle, row, g) = Check(r, Config, job.bundle, row, heard)
        /\ Asks(r, Config, job.bundle, row, g) = Asks(r, Config, job.bundle, row, heard)
    BY <1>1, <2>1, <2>4, <2>6, RulesAgree
  <2> QED BY <1>2, <1>4, <2>3, <2>7 DEF RunRule, RuleAsks
<1> QED BY <1>3, <1>4

\* A result is what every service up would have made it, or no verdict.
LEMMA ResultsAreHonest ==
  ASSUME Shape, Grounds, ResultsStand, ReadWhereItIs, NEW r \in DOMAIN results \ OnPartOfIt
  PROVE  results[r] \in {"skip", RunRule(r, job.truth)}
<1>1. Stating(heard) /\ Legible(Config)
  BY LicencesAreStated, ConfigIsLegible DEF Shape, RunTypeOK
<1>2. \A a \in RuleAsks(r, heard) : heard[a] # Unasked
  BY DEF ResultsStand
<1>3. \A a \in Address : heard[a] \in {Silent, Unasked, job.truth[a]}
  BY DEF Shape, RunTypeOK
<1>4. results[r] = RunRule(r, heard)
  BY DEF ResultsStand
<1>5. CASE job.command = "check ready"
  <2>1. r \in CheckItems
    BY <1>5, TurnsAreKnown DEF ResultsStand
  <2>2. RuleAsks(r, heard) = ItemAsks(r, Config, job.bundle, heard)
    BY <1>5 DEF RuleAsks
  <2>3. RuleAsks(r, heard) \subseteq Address
    BY <2>1, <2>2, ItemAsksAreAddresses
  <2>4. Vouched(ItemAsks(r, Config, job.bundle, heard), heard, job.truth)
    BY <1>2, <1>3, <2>2, <2>3 DEF Vouched
  <2>5. "root" \in Address /\ "this issue" \in Address
    BY DEF Address
  <2>6. job.truth["root"] = heard["root"]
    BY <1>3, <1>5, <2>5 DEF Grounds, Said
  <2>7. r = "a paper to check" => job.truth["this issue"] = heard["this issue"]
    BY <1>3, <1>5, <2>5 DEF OnPartOfIt, When, Said
  <2>8. ItemCheck(r, Config, job.bundle, heard)
          \in {"skip", ItemCheck(r, Config, job.bundle, job.truth)}
    BY <1>1, <2>1, <2>4, <2>6, <2>7, ItemsAreHonest
  <2> QED BY <1>4, <1>5, <2>8 DEF RunRule
<1>6. CASE job.command # "check ready"
  <2>1. r \in AboutTheFile \cup LinkRules \cup OrcidRules \cup WorkRules
                \cup BundleRules \cup ReportRules \cup NumberRules \cup RowRules \cup IssueRules
    BY <1>6, TurnsAreKnown DEF ResultsStand
  <2>2. RuleAsks(r, heard) = Asks(r, Config, job.bundle, row, heard)
    BY <1>6 DEF RuleAsks
  <2>3. RuleAsks(r, heard) \subseteq Address
    BY <2>1, <2>2, AsksAreAddresses
  <2>4. Vouched(Asks(r, Config, job.bundle, row, heard), heard, job.truth)
    BY <1>2, <1>3, <2>2, <2>3 DEF Vouched
  <2>5. r \notin {"CC-MET-003", "CC-REG-008"}
    BY DEF OnPartOfIt
  <2>6. Branch(job.truth) = Branch(heard)
    BY DEF ReadWhereItIs
  <2>7. Honest(r, Config, job.bundle, row, heard, job.truth)
    BY <1>1, <2>1, <2>4, <2>5, <2>6, RulesAreHonest
  <2> QED BY <1>4, <1>6, <2>7 DEF RunRule, Honest
<1> QED BY <1>5, <1>6

\* A rule of the file or of the register that is an error with every service up,
\* and did not fail, was skipped for an address of its own.
LEMMA ErrorsOnlyForSilence ==
  ASSUME Shape, ResultsStand, job.command # "check ready",
         NEW i \in DOMAIN Catalogue20, Catalogue20[i] \in DOMAIN results,
         Area(Catalogue20[i]) \in {"config", "register"}, Catalogue20[i] # "CC-REG-008",
         results[Catalogue20[i]] # "fail", RunRule(Catalogue20[i], job.truth) = "fail"
  PROVE  /\ results[Catalogue20[i]] = "skip"
         /\ \E a \in RuleAsks(Catalogue20[i], heard) : heard[a] = Silent
<1> DEFINE r == Catalogue20[i]
           said(h) == Check(r, Config, job.bundle, row, h)
           asks == Asks(r, Config, job.bundle, row, heard)
<1>1. Legible(Config)
  BY ConfigIsLegible DEF Shape, RunTypeOK
<1>2. /\ RunRule(r, job.truth) = said(job.truth) /\ results[r] = said(heard)
      /\ RuleAsks(r, heard) = asks /\ \A a \in asks : heard[a] # Unasked
  BY DEF ResultsStand, RunRule, RuleAsks
<1>3. r \in AboutTheFile \cup LinkRules \cup NumberRules \cup RowRules \cup IssueRules
  BY Families DEF Area, OrcidRules, WorkRules, BundleRules, ReportRules
<1>4. \A a \in asks : heard[a] \in {Silent, job.truth[a]}
  <2>1. asks \subseteq Address
    BY <1>3, AsksAreAddresses
  <2> QED BY <1>2, <2>1 DEF Shape, RunTypeOK
<1> HIDE DEF r, said, asks
<1>5. said(heard) \in {"skip", said(job.truth)}
  <2>1. Vouched(asks, heard, job.truth)
    BY <1>2, <1>4 DEF Vouched
  <2>2. CASE r \in AboutTheFile
    BY <2>2, FilesAgree DEF said
  <2>3. CASE r \in LinkRules
    BY <1>1, <2>1, <2>3, LinksAreHonest DEF said, asks, Honest
  <2>4. CASE r \in NumberRules \cup RowRules \cup IssueRules
    BY <1>1, <2>1, <2>4, RegisterIsHonest DEF said, asks, Honest, r
  <2> QED BY <1>3, <2>2, <2>3, <2>4
<1>6. (\A a \in asks : heard[a] # Silent) => said(heard) = said(job.truth)
  <2> SUFFICES ASSUME \A a \in asks : heard[a] # Silent PROVE said(heard) = said(job.truth)
    OBVIOUS
  <2>1. HeardAlike(asks, heard, job.truth)
    BY <1>2, <1>4 DEF HeardAlike
  <2>2. CASE r \in AboutTheFile
    BY <2>2, FilesAgree DEF said
  <2>3. CASE r \in LinkRules
    BY <1>1, <2>1, <2>3, LinksAgree DEF said, asks
  <2>4. CASE r \in NumberRules \cup RowRules \cup IssueRules
    BY <1>1, <2>1, <2>4, RegisterAgrees DEF said, asks
  <2> QED BY <1>3, <2>2, <2>3, <2>4
<1> QED BY <1>2, <1>5, <1>6 DEF r

-----------------------------------------------------------------------------
(* The invariant holds at the start, and every step keeps it.               *)

\* There are 62 rules and four items.
LEMMA RunPlaces ==
  /\ DOMAIN Catalogue20 = 1..62 /\ DOMAIN ReadyItems = 1..4
  /\ DOMAIN ReadyItems \subseteq DOMAIN Catalogue20
<1>1. DOMAIN Catalogue20 = 1..62
  BY DEF Catalogue20
<1>2. DOMAIN ReadyItems = 1..4
  BY DEF ReadyItems
<1> QED BY <1>1, <1>2

\* Before the first request nothing was heard, judged or proposed.
LEMMA RunStarts == RunInit => RunInv
<1> SUFFICES ASSUME RunInit PROVE RunInv
  OBVIOUS
<1>0. DOMAIN results = {}
  <2>1. results = <<>>
    BY DEF RunInit
  <2> QED BY <2>1
<1>1. /\ heard = [a \in Address |-> Unasked] /\ silence = 0 /\ todo = {} /\ version = ""
      /\ reply = "none" /\ page = "none" /\ job \in Jobs /\ DOMAIN results = {}
  BY <1>0 DEF RunInit
<1>2. runStage \in {"target", "issue", "record"}
  BY DEF RunInit, First
<1>3. /\ job.command = "check ready" => runStage = "issue"
      /\ job.command \notin {"check", "check ready"} => runStage = "record"
  BY DEF RunInit, First
<1>4. Shape
  <2>1. \A a \in Address : heard[a] = Unasked
    BY <1>1
  <2>2. heard = [a \in Address |-> heard[a]]
    BY <1>1, <2>1
  <2>3. silence \in 0..MaxSilent
    <3>1. MaxSilent \in Nat
      BY CheckRunAssumption
    <3>2. silence = 0
      BY <1>1
    <3> QED BY <3>1, <3>2
  <2>4. RunTypeOK
    BY <1>1, <1>2, <2>1, <2>3 DEF RunTypeOK, Stages, Replies, Pages
  <2> QED BY <1>1, <1>2, <1>3, <2>2, <2>4 DEF Shape
<1>6. NothingYet /\ ResultsStand
  BY <1>1 DEF NothingYet, ResultsStand
<1>7. Grounds
  BY <1>1, <1>2, <1>3 DEF Grounds
<1>8. ReadFirst /\ AllJudged /\ PageStands
  BY <1>1, <1>2 DEF ReadFirst, AllJudged, PageStands
<1> QED BY <1>1, <1>4, <1>6, <1>7, <1>8 DEF RunInv, NothingIsProposedUnjudged

\* What a step that hears and judges nothing leaves as it was.
LEMMA Moves ==
  ASSUME RunInv, UNCHANGED <<job, heard, silence, results, page, row>>,
         reply' # "pull request", Shape', NothingYet', Grounds', ReadFirst', AllJudged'
  PROVE  RunInv'
<1>1. ResultsStand'
  BY DEF RunInv, ResultsStand, RuleAsks, RunRule, Config
<1>2. PageStands'
  BY DEF RunInv, PageStands, PageOf, Config, InRegister
<1> QED BY <1>1, <1>2 DEF RunInv, NothingIsProposedUnjudged

\* A command that ends has nothing left to show but that it ended.
LEMMA Ending ==
  ASSUME RunInv, NEW with \in Replies \ {"pull request"}, Ends(with)
  PROVE  RunInv'
<1>1. Shape'
  BY DEF RunInv, Shape, RunTypeOK, Ends, Stages
<1>2. NothingYet'
  BY DEF NothingYet, Ends, Early
<1>3. Grounds'
  BY DEF RunInv, Grounds, Ends, Said
<1>4. ReadFirst'
  BY DEF RunInv, ReadFirst, Found, Ends
<1>5. AllJudged'
  BY DEF AllJudged, Judged, Ends
<1> QED BY <1>1, <1>2, <1>3, <1>4, <1>5, Moves DEF Ends

\* What a stage may be entered with, when nothing was judged yet.
LEMMA Going ==
  ASSUME RunInv, NEW s \in Early, Goes(s), runStage \in Early,
         job.command = "check ready" => s \in {"target", "root", "read"},
         s = "root" => job.command = "check ready",
         s \in {"venue", "row"} => Registering,
         Grounds', s \in {"date", "version"} => Found
  PROVE  RunInv'
<1>1. version = "" /\ reply # "pull request"
  BY DEF RunInv, NothingYet, Early
<1>2. Shape'
  BY DEF RunInv, Shape, RunTypeOK, Goes, Stages, Early, Registering
<1>3. NothingYet'
  BY DEF RunInv, NothingYet, Goes
<1>4. ReadFirst'
  BY <1>1 DEF ReadFirst, Found, Goes
<1>5. AllJudged'
  BY <1>1 DEF AllJudged, Goes
<1> QED BY <1>1, <1>2, <1>3, <1>4, <1>5, Moves DEF Goes

\* Finding out what to read: nothing is judged yet, and what is asked stays known.
LEMMA RecordStep == ASSUME RunInv, ReadTheRecord PROVE RunInv'
<1>1. runStage = "record" /\ job.command # "check ready"
  BY DEF ReadTheRecord, Answered, RunInv, Shape
<1>2. CASE ~Said(heard, "record of the check")
  <2>1. Ends("unread")
    BY <1>2 DEF ReadTheRecord
  <2> QED BY <2>1, Ending DEF Replies
<1>3. CASE Said(heard, "record of the check") /\ heard["record of the check"].tampered
  <2>1. Ends("tampered")
    BY <1>3 DEF ReadTheRecord
  <2> QED BY <2>1, Ending DEF Replies
<1>4. CASE Said(heard, "record of the check") /\ ~heard["record of the check"].tampered
  <2>1. Goes("issue")
    BY <1>4 DEF ReadTheRecord
  <2>2. DOMAIN results = {}
    BY <1>1 DEF RunInv, NothingYet, Early
  <2>3. Grounds'
    BY <1>1, <1>4, <2>1, <2>2 DEF Grounds, Goes, Said
  <2> QED BY <1>1, <2>1, <2>3, Going DEF Early
<1> QED BY <1>2, <1>3, <1>4

LEMMA IssueStep == ASSUME RunInv, ReadTheIssue PROVE RunInv'
<1>1. runStage = "issue" /\ Goes("target")
  BY DEF ReadTheIssue, Answered
<1>2. heard["this issue"] # Unasked
  BY DEF ReadTheIssue, Answered, Wanted
<1>3. DOMAIN results = {}
  BY <1>1 DEF RunInv, NothingYet, Early
<1>4. Grounds'
  BY <1>1, <1>2, <1>3 DEF RunInv, Grounds, Goes, Said
<1> QED BY <1>1, <1>4, Going DEF Early

LEMMA TargetStep == ASSUME RunInv, ResolveTarget PROVE RunInv'
<1>1. runStage = "target" /\ DOMAIN results = {}
  BY DEF ResolveTarget, Answered, RunInv, NothingYet, Early
<1>2. CASE Registering
  <2>1. Goes("venue") /\ job.command # "check ready"
    BY <1>2 DEF ResolveTarget, Registering
  <2>2. Grounds'
    BY <1>1, <2>1 DEF RunInv, Grounds, Goes, Said
  <2> QED BY <1>1, <1>2, <2>1, <2>2, Going DEF Early
<1>3. CASE ~Registering
  <2> DEFINE target == TargetOf(heard)
  <2>1. CASE target = "nothing"
    <3>1. Ends("no target")
      BY <1>3, <2>1 DEF ResolveTarget
    <3> QED BY <3>1, Ending DEF Replies
  <2>2. CASE target = "unreadable"
    <3>1. Ends(IF job.command = "check" THEN "unread" ELSE "no target")
      BY <1>3, <2>2 DEF ResolveTarget
    <3> QED BY <3>1, Ending DEF Replies
  <2>3. CASE target = "an identifier" /\ ~RowNamesRepository(heard)
    <3>1. Ends("unread")
      BY <1>3, <2>3 DEF ResolveTarget
    <3> QED BY <3>1, Ending DEF Replies
  <2>4. CASE target \notin {"nothing", "unreadable"}
             /\ ~(target = "an identifier" /\ ~RowNamesRepository(heard))
    <3>1. Goes(IF job.command = "check ready" THEN "root" ELSE "read")
      BY <1>3, <2>4 DEF ResolveTarget
    <3> HIDE DEF target
    <3>2. CASE job.command = "check ready"
      <4>1. Goes("root")
        BY <3>1, <3>2
      <4>2. Grounds'
        BY <1>1, <3>2, <4>1 DEF RunInv, Grounds, Goes, Said
      <4> QED BY <1>1, <3>2, <4>1, <4>2, Going DEF Early
    <3>3. CASE job.command # "check ready"
      <4>1. Goes("read")
        BY <3>1, <3>3
      <4>2. Grounds'
        BY <1>1, <3>3, <4>1 DEF RunInv, Grounds, Goes, Said
      <4> QED BY <1>1, <3>3, <4>1, <4>2, Going DEF Early
    <3> QED BY <3>2, <3>3
  <2> QED BY <2>1, <2>2, <2>3, <2>4
<1> QED BY <1>2, <1>3

LEMMA VenueStep == ASSUME RunInv, ReadTheVenue PROVE RunInv'
<1>1. runStage = "venue" /\ Registering /\ job.command # "check ready" /\ DOMAIN results = {}
  BY DEF ReadTheVenue, Answered, RunInv, Shape, NothingYet, Early, Registering
<1>2. CASE NotAVenue(heard)
  <2>1. Ends("not a venue")
    BY <1>2 DEF ReadTheVenue
  <2> QED BY <2>1, Ending DEF Replies
<1>3. CASE ~NotAVenue(heard)
  <2>1. Goes("row")
    BY <1>3 DEF ReadTheVenue
  <2>2. Grounds'
    BY <1>1, <2>1 DEF RunInv, Grounds, Goes, Said
  <2> QED BY <1>1, <2>1, <2>2, Going DEF Early
<1> QED BY <1>2, <1>3

LEMMA RowStep == ASSUME RunInv, MakeTheRow PROVE RunInv'
<1>1. runStage = "row" /\ Registering /\ job.command # "check ready" /\ DOMAIN results = {}
      /\ version = "" /\ reply # "pull request"
  BY DEF MakeTheRow, Answered, RunInv, Shape, NothingYet, Early, Registering
<1>2. CASE ~Complete(heard)
  <2>1. Ends("incomplete")
    BY <1>2 DEF MakeTheRow
  <2> QED BY <2>1, Ending DEF Replies
<1>3. CASE Complete(heard)
  <2>1. /\ runStage' = "read"
        /\ UNCHANGED <<job, silence, results, page, reply, version, todo, heard>>
    BY <1>3 DEF MakeTheRow
  <2>2. Shape'
    BY <1>1, <2>1 DEF RunInv, Shape, RunTypeOK, Stages, Registering
  <2>3. ResultsStand' /\ NothingYet'
    BY <1>1, <2>1 DEF RunInv, ResultsStand, NothingYet
  <2>4. Grounds'
    BY <1>1, <2>1 DEF RunInv, Grounds, Said
  <2>5. ReadFirst' /\ AllJudged'
    BY <1>1, <2>1 DEF ReadFirst, AllJudged
  <2>6. PageStands'
    BY <2>1 DEF RunInv, PageStands, PageOf, Config, InRegister
  <2> QED BY <1>1, <2>1, <2>2, <2>3, <2>4, <2>5, <2>6 DEF RunInv, NothingIsProposedUnjudged
<1> QED BY <1>2, <1>3

\* What is left to do of a repository's readiness is every item, whichever way
\* the command comes to them.
LEMMA ItemsStep ==
  ASSUME RunInv, job.command = "check ready", runStage \in {"root", "read"},
         Said(heard, "root"), runStage' = "rules", todo' = DOMAIN ReadyItems,
         UNCHANGED <<job, silence, results, page, reply, version, row, heard>>
  PROVE  RunInv'
<1>1. version = "" /\ DOMAIN results = {} /\ reply # "pull request"
  BY DEF RunInv, NothingYet, Early
<1>2. Shape'
  BY RunPlaces DEF RunInv, Shape, RunTypeOK, Stages
<1>3. NothingYet'
  BY DEF NothingYet, Early
<1>4. Grounds'
  BY <1>1 DEF RunInv, Grounds, Said
<1>5. ReadFirst' /\ AllJudged'
  BY <1>1 DEF ReadFirst, AllJudged
<1> QED BY <1>1, <1>2, <1>3, <1>4, <1>5, Moves

LEMMA RootStep == ASSUME RunInv, ListTheRoot PROVE RunInv'
<1>1. runStage = "root" /\ job.command = "check ready" /\ DOMAIN results = {}
  BY DEF ListTheRoot, Answered, RunInv, Shape, NothingYet, Early
<1>2. CASE ~Said(heard, "root")
  <2>1. Ends("unread")
    BY <1>2 DEF ListTheRoot
  <2> QED BY <2>1, Ending DEF Replies
<1>3. CASE Said(heard, "root") /\ "codecheck.yml" \in heard["root"]
  <2>1. Goes("read")
    BY <1>3 DEF ListTheRoot
  <2>2. Grounds'
    BY <1>1, <1>3, <2>1 DEF RunInv, Grounds, Goes, Said
  <2> QED BY <1>1, <2>1, <2>2, Going DEF Early
<1>4. CASE Said(heard, "root") /\ "codecheck.yml" \notin heard["root"]
  <2>1. /\ runStage' = "rules" /\ todo' = DOMAIN ReadyItems
        /\ UNCHANGED <<job, silence, results, page, reply, version, row, heard>>
    BY <1>4 DEF ListTheRoot
  <2> QED BY <1>1, <1>4, <2>1, ItemsStep
<1> QED BY <1>2, <1>3, <1>4

\* A configuration that is judged was found, on the branch it is read from.
LEMMA ConfigurationStep == ASSUME RunInv, ReadTheConfiguration PROVE RunInv'
<1>1. runStage = "read" /\ DOMAIN results = {} /\ version = "" /\ reply # "pull request"
  BY DEF ReadTheConfiguration, Answered, RunInv, NothingYet, Early
<1>2. /\ heard["codecheck.yml"] # Unasked
      /\ job.bundle = "gitlab" /\ heard["codecheck.yml"] # "there"
           => heard["codecheck.yml on master"] # Unasked
  <2>1. \A a \in ReadAsks(heard) : heard[a] # Unasked
    BY DEF ReadTheConfiguration, Answered, Wanted
  <2> QED BY <2>1 DEF ReadAsks, When, Branch
<1>3. CASE Configured(heard) /\ job.command # "check ready"
  <2>1. Goes("date")
    BY <1>3 DEF ReadTheConfiguration
  <2>2. Found
    BY <1>2, <1>3 DEF Configured, Found
  <2>3. Grounds'
    BY <1>1, <1>2, <1>3, <2>1 DEF RunInv, Grounds, Goes, Said
  <2> QED BY <1>1, <1>3, <2>1, <2>2, <2>3, Going DEF Early
<1>4. CASE Configured(heard) /\ job.command = "check ready"
  <2>1. /\ runStage' = "rules" /\ todo' = DOMAIN ReadyItems
        /\ UNCHANGED <<job, silence, results, page, reply, version, row, heard>>
    BY <1>4 DEF ReadTheConfiguration
  <2>2. Said(heard, "root")
    BY <1>1, <1>4 DEF RunInv, Grounds
  <2> QED BY <1>1, <1>4, <2>1, <2>2, ItemsStep
<1>5. CASE ~Configured(heard) /\ Registering
  <2>1. Goes("pull")
    BY <1>5 DEF ReadTheConfiguration
  <2>2. job.command # "check ready"
    BY <1>5 DEF Registering
  <2>3. Shape'
    BY <1>5, <2>1, <2>2 DEF RunInv, Shape, RunTypeOK, Goes, Stages, Registering
  <2>4. NothingYet' /\ ReadFirst' /\ AllJudged'
    BY <1>1, <2>1 DEF NothingYet, ReadFirst, AllJudged, Goes, Early
  <2>5. Grounds'
    BY <1>1, <1>2, <2>1, <2>2 DEF RunInv, Grounds, Goes, Said
  <2> QED BY <1>1, <2>1, <2>3, <2>4, <2>5, Moves DEF Goes
<1>6. CASE ~Configured(heard) /\ ~Registering
  <2>1. Ends("unread")
    BY <1>6 DEF ReadTheConfiguration
  <2> QED BY <2>1, Ending DEF Replies
<1> QED BY <1>3, <1>4, <1>5, <1>6

LEMMA DateStep == ASSUME RunInv, Date PROVE RunInv'
<1>1. runStage = "date" /\ Goes("version") /\ DOMAIN results = {} /\ Found
  BY DEF Date, Answered, RunInv, NothingYet, Early, ReadFirst
<1>2. job.command # "check ready"
  BY <1>1 DEF RunInv, Shape
<1>3. Grounds'
  BY <1>1, <1>2 DEF RunInv, Grounds, Goes, Said
<1> QED BY <1>1, <1>2, <1>3, Going DEF Early

\* With the version, all the rules of the part become the ones to run.
LEMMA VersionStep == ASSUME RunInv, ChooseTheVersion PROVE RunInv'
<1>1. /\ runStage = "version" /\ DOMAIN results = {} /\ reply # "pull request" /\ Found
      /\ job.command # "check ready" /\ heard["codecheck.yml"] # Unasked
  BY DEF ChooseTheVersion, RunInv, NothingYet, Early, ReadFirst, Shape, Grounds
<1>2. UNCHANGED <<job, heard, silence, results, row, page>>
  BY DEF ChooseTheVersion
<1>3. version' \in {"", "1.0", "2.0"}
  BY DEF ChooseTheVersion, SpecVersion
<1>4. CASE version' # ""
  <2> DEFINE part == IF Registering THEN "config" ELSE job.part
  <2>1. /\ todo' = {i \in Catalogue(version') : InPart(Catalogue20[i], part)}
        /\ runStage' = "rules" /\ reply' = reply
    BY <1>4 DEF ChooseTheVersion
  <2>2. todo' \subseteq DOMAIN Catalogue20
    BY <2>1 DEF Catalogue
  <2>3. Shape'
    BY <1>1, <1>2, <1>3, <2>1, <2>2 DEF RunInv, Shape, RunTypeOK, Stages
  <2>4. NothingYet'
    BY <2>1 DEF NothingYet, Early
  <2>5. Grounds'
    BY <1>1, <1>2, <2>1 DEF RunInv, Grounds, Said
  <2>6. ReadFirst'
    BY <1>1, <1>2 DEF ReadFirst, Found
  <2>7. AllJudged'
    <3>1. Registering' => part = "config"
      BY <1>2 DEF Registering
    <3> HIDE DEF part
    <3>2. \A i : Area(Catalogue20[i]) = "config" => InPart(Catalogue20[i], "config")
      BY DEF InPart
    <3> QED BY <2>1, <3>1, <3>2 DEF AllJudged, Judged
  <2> QED BY <1>1, <1>2, <2>1, <2>3, <2>4, <2>5, <2>6, <2>7, Moves
<1>5. CASE version' = "" /\ Registering
  <2>1. runStage' = "pull" /\ todo' = todo /\ reply' = reply
    BY <1>5 DEF ChooseTheVersion
  <2>2. Shape'
    BY <1>1, <1>2, <1>3, <1>5, <2>1 DEF RunInv, Shape, RunTypeOK, Stages, Registering
  <2>3. NothingYet' /\ AllJudged'
    BY <1>5, <2>1 DEF NothingYet, AllJudged, Early
  <2>4. Grounds'
    BY <1>1, <1>2, <2>1 DEF RunInv, Grounds, Said
  <2>5. ReadFirst'
    BY <1>1, <1>2 DEF ReadFirst, Found
  <2> QED BY <1>1, <1>2, <2>1, <2>2, <2>3, <2>4, <2>5, Moves
<1>6. CASE version' = "" /\ ~Registering
  <2>1. runStage' = "done" /\ todo' = todo /\ reply' = "refused"
    BY <1>6 DEF ChooseTheVersion
  <2>2. Shape'
    BY <1>1, <1>2, <1>3, <2>1 DEF RunInv, Shape, RunTypeOK, Stages, Replies
  <2>3. NothingYet' /\ AllJudged'
    BY <1>6, <2>1 DEF NothingYet, AllJudged, Early
  <2>4. Grounds'
    BY <1>1, <1>2, <2>1 DEF RunInv, Grounds, Said
  <2>5. ReadFirst'
    BY <1>1, <1>2 DEF ReadFirst, Found
  <2> QED BY <1>1, <1>2, <2>1, <2>2, <2>3, <2>4, <2>5, Moves
<1> QED BY <1>4, <1>5, <1>6

\* The rule or item whose turn it is belongs to what the command runs.
LEMMA TurnIsTaken ==
  ASSUME Shape, todo # {}
  PROVE  /\ Foremost(todo) \in todo
         /\ NextRule \in IF job.command = "check ready" THEN Items ELSE Names20
         /\ job.command # "check ready" => NextRule = Catalogue20[Foremost(todo)]
         /\ NextRule \in Rules
<1>1. todo \subseteq DOMAIN Catalogue20
  BY DEF Shape, RunTypeOK
<1>2. todo \subseteq Nat
  BY <1>1, RunPlaces
<1>3. Foremost(todo) \in todo
  BY <1>2, LeastPlace
<1>4. CASE job.command = "check ready"
  <2>1. Foremost(todo) \in DOMAIN ReadyItems
    BY <1>3, <1>4 DEF Shape
  <2>2. NextRule = ReadyItems[Foremost(todo)]
    BY <1>4 DEF NextRule
  <2> QED BY <1>3, <1>4, <2>1, <2>2 DEF Items, Rules
<1>5. CASE job.command # "check ready"
  <2>1. NextRule = Catalogue20[Foremost(todo)]
    BY <1>5 DEF NextRule
  <2> QED BY <1>1, <1>3, <1>5, <2>1 DEF Names20, Rules
<1> QED BY <1>4, <1>5

\* A result is what the rule says of what was heard, and it is off the list.
LEMMA ApplyStep == ASSUME RunInv, Apply PROVE RunInv'
<1> DEFINE r == NextRule
<1>1. /\ runStage \in {"rules", "certificate"} /\ todo # {}
      /\ todo' = todo \ {Foremost(todo)}
      /\ UNCHANGED <<job, heard, runStage, silence, version, row, reply, page>>
  BY DEF Apply, Remembered
<1>2. /\ Foremost(todo) \in todo
      /\ r \in IF job.command = "check ready" THEN Items ELSE Names20
      /\ job.command # "check ready" => r = Catalogue20[Foremost(todo)]
      /\ r \in Rules
  BY <1>1, TurnIsTaken DEF RunInv
<1>3. \A a \in RuleAsks(r, heard) : heard[a] # Unasked
  <2>1. Wanted = RuleAsks(r, heard)
    BY <1>1 DEF Wanted
  <2> QED BY <2>1 DEF Apply, Answered
<1>4. results' = [x \in DOMAIN results \cup {r} |->
                    IF x = r THEN RunRule(r, heard) ELSE results[x]]
  BY DEF Apply
<1>5. RunRule(r, heard) \in RuleOutcomes
  BY <1>2, RunRuleHasOutcome
<1>6. reply # "pull request"
  BY <1>1 DEF RunInv
<1> HIDE DEF r
<1>7. DOMAIN results' = DOMAIN results \cup {r}
  BY <1>4
<1>8. \A x \in DOMAIN results' :
        results'[x] = IF x = r THEN RunRule(r, heard) ELSE results[x]
  BY <1>4, <1>7
<1>9. Shape'
  <2>1. DOMAIN results' \subseteq Rules
    BY <1>2, <1>7 DEF RunInv, Shape, RunTypeOK
  <2>2. \A x \in DOMAIN results' : results'[x] \in {"pass", "fail", "skip"}
    BY <1>5, <1>7, <1>8 DEF RunInv, Shape, RunTypeOK, RuleOutcomes
  <2>3. RunTypeOK'
    BY <1>1, <2>1, <2>2 DEF RunInv, Shape, RunTypeOK
  <2> QED BY <1>1, <2>3 DEF RunInv, Shape, Registering
<1>10. ResultsStand'
  <2> SUFFICES ASSUME NEW x \in DOMAIN results'
               PROVE  /\ x \in IF job.command = "check ready" THEN Items ELSE Names20
                      /\ \A a \in RuleAsks(x, heard) : heard[a] # Unasked
                      /\ results'[x] = RunRule(x, heard)
    BY <1>1 DEF ResultsStand, RuleAsks, RunRule, Config
  <2>1. CASE x = r
    BY <1>2, <1>3, <1>8, <2>1
  <2>2. CASE x # r
    BY <1>7, <1>8, <2>2 DEF RunInv, ResultsStand
  <2> QED BY <2>1, <2>2
<1>11. NothingYet'
  BY <1>1 DEF NothingYet, Early
<1>12. Grounds'
  BY <1>1 DEF RunInv, Shape, Grounds, Said, Registering
<1>13. ReadFirst'
  BY <1>1 DEF RunInv, ReadFirst, Found
<1>14. AllJudged'
  <2> SUFFICES ASSUME Registering, version # ""
               PROVE  /\ Judged("config", "rules", {"certificate", "pull"})'
                      /\ job.same => Judged("register", "certificate", {"pull"})'
    BY <1>1 DEF AllJudged, Registering
  <2>1. r = Catalogue20[Foremost(todo)]
    BY <1>2 DEF Registering
  <2>2. \A i \in Catalogue(version) : i \in todo /\ i \notin todo' => Catalogue20[i] \in DOMAIN results'
    BY <1>1, <1>7, <2>1
  <2>3. ASSUME NEW area, NEW stage, NEW later, Judged(area, stage, later)
        PROVE  Judged(area, stage, later)'
    BY <1>1, <1>7, <2>2, <2>3 DEF Judged
  <2> QED BY <2>3 DEF RunInv, AllJudged
<1>15. PageStands'
  BY <1>1 DEF RunInv, PageStands, PageOf, Config, InRegister
<1> QED BY <1>1, <1>6, <1>9, <1>10, <1>11, <1>12, <1>13, <1>14, <1>15
        DEF RunInv, NothingIsProposedUnjudged

\* With nothing left to run, all of the part was run.
LEMMA EndOfRulesStep == ASSUME RunInv, EndTheRules PROVE RunInv'
<1>1. runStage = "rules" /\ todo = {} /\ reply # "pull request"
  BY DEF EndTheRules, RunInv
<1>2. CASE Registering /\ job.same
  <2>1. /\ runStage' = "certificate"
        /\ todo' = {i \in Catalogue(version) : InPart(Catalogue20[i], "certificate")}
        /\ UNCHANGED <<job, heard, silence, results, version, row, reply, page>>
    BY <1>2 DEF EndTheRules, Registering
  <2>2. job.command # "check ready" /\ todo' \subseteq DOMAIN Catalogue20
    BY <1>2, <2>1 DEF Registering, Catalogue
  <2>3. Shape'
    BY <1>2, <2>1, <2>2 DEF RunInv, Shape, RunTypeOK, Stages, Registering
  <2>4. NothingYet'
    BY <2>1 DEF NothingYet, Early
  <2>5. Grounds'
    BY <1>1, <2>1, <2>2 DEF RunInv, Grounds, Said
  <2>6. ReadFirst'
    BY <2>1 DEF RunInv, ReadFirst, Found
  <2>7. AllJudged'
    <3>1. \A i : Area(Catalogue20[i]) = "register" => InPart(Catalogue20[i], "certificate")
      BY DEF InPart
    <3>2. version # "" => \A i \in Catalogue(version) :
            Area(Catalogue20[i]) = "config" => Catalogue20[i] \in DOMAIN results
      BY <1>1, <1>2 DEF RunInv, AllJudged, Judged
    <3> QED BY <2>1, <3>1, <3>2 DEF AllJudged, Judged
  <2> QED BY <1>1, <2>1, <2>3, <2>4, <2>5, <2>6, <2>7, Moves
<1>3. CASE Registering /\ ~job.same
  <2>1. Goes("pull") /\ job.command # "check ready"
    BY <1>3 DEF EndTheRules, Registering
  <2>2. Shape'
    BY <1>3, <2>1 DEF RunInv, Shape, RunTypeOK, Stages, Registering, Goes
  <2>3. NothingYet'
    BY <2>1 DEF NothingYet, Early, Goes
  <2>4. Grounds'
    BY <1>1, <2>1 DEF RunInv, Grounds, Said, Goes
  <2>5. ReadFirst'
    BY <2>1 DEF RunInv, ReadFirst, Found, Goes
  <2>6. AllJudged'
    <3>1. version # "" => \A i \in Catalogue(version) :
            Area(Catalogue20[i]) = "config" => Catalogue20[i] \in DOMAIN results
      BY <1>1, <1>3 DEF RunInv, AllJudged, Judged
    <3> QED BY <1>3, <2>1, <3>1 DEF AllJudged, Judged, Goes
  <2> QED BY <1>1, <2>1, <2>2, <2>3, <2>4, <2>5, <2>6, Moves DEF Goes
<1>4. CASE ~Registering /\ job.command = "check finish" /\ Finished
  <2>1. Goes("page")
    BY <1>4 DEF EndTheRules
  <2>2. Shape'
    BY <1>4, <2>1 DEF RunInv, Shape, RunTypeOK, Stages, Goes
  <2>3. NothingYet' /\ AllJudged'
    BY <1>4, <2>1 DEF NothingYet, AllJudged, Registering, Early, Goes
  <2>4. Grounds'
    BY <1>1, <1>4, <2>1 DEF RunInv, Grounds, Said, Goes
  <2>5. ReadFirst'
    BY <2>1 DEF RunInv, ReadFirst, Found, Goes
  <2> QED BY <1>1, <2>1, <2>2, <2>3, <2>4, <2>5, Moves DEF Goes
<1>5. CASE ~Registering /\ ~(job.command = "check finish" /\ Finished)
  <2>1. Ends("answered")
    BY <1>5 DEF EndTheRules
  <2> QED BY <2>1, Ending DEF Replies
<1> QED BY <1>2, <1>3, <1>4, <1>5

LEMMA EndOfRowStep == ASSUME RunInv, EndTheRow PROVE RunInv'
<1>1. /\ runStage = "certificate" /\ todo = {} /\ reply # "pull request" /\ Goes("pull")
      /\ Registering /\ job.command # "check ready"
  BY DEF EndTheRow, RunInv, Shape, Registering
<1>2. Shape'
  BY <1>1 DEF RunInv, Shape, RunTypeOK, Stages, Registering, Goes
<1>3. NothingYet'
  BY <1>1 DEF NothingYet, Early, Goes
<1>4. Grounds'
  BY <1>1 DEF RunInv, Grounds, Said, Goes
<1>5. ReadFirst'
  BY <1>1 DEF RunInv, ReadFirst, Found, Goes
<1>6. AllJudged'
  <2>1. version # "" => \A i \in Catalogue(version) :
          /\ Area(Catalogue20[i]) = "config" => Catalogue20[i] \in DOMAIN results
          /\ job.same /\ Area(Catalogue20[i]) = "register" => Catalogue20[i] \in DOMAIN results
    BY <1>1 DEF RunInv, AllJudged, Judged
  <2> QED BY <1>1, <2>1 DEF AllJudged, Judged, Goes
<1> QED BY <1>1, <1>2, <1>3, <1>4, <1>5, <1>6, Moves DEF Goes

\* What is proposed was judged, and by rules that say with every service up
\* what they said here.
LEMMA ProposeStep == ASSUME RunInv, Propose PROVE RunInv'
<1>1. runStage = "pull" /\ Registering /\ reply # "pull request" /\ job.command # "check ready"
  BY DEF Propose, RunInv, Shape, Registering
<1>2. CASE job.command = "check register"
  <2>1. Ends("answered")
    BY <1>2 DEF Propose
  <2> QED BY <2>1, Ending DEF Replies
<1>3. CASE job.command # "check register" /\ Stopped
  <2>1. Ends("no pull request")
    BY <1>3 DEF Propose
  <2> QED BY <2>1, Ending DEF Replies
<1>4. CASE job.command # "check register" /\ ~Stopped
  <2>1. /\ runStage' = "done" /\ reply' = "pull request"
        /\ UNCHANGED <<job, heard, silence, todo, version, results, row, page>>
    BY <1>4 DEF Propose, Ends
  <2>2. version # "" /\ Errors = {} /\ job.same
    BY <1>4 DEF Stopped
  <2>3. Configured(heard)
    BY <2>2 DEF RunInv, ReadFirst, Found, Configured
  <2>4. ASSUME NEW i \in Catalogue(version), Area(Catalogue20[i]) \in {"config", "register"},
               Severity(Catalogue20[i], version) = "error"
        PROVE  /\ Catalogue20[i] \in DOMAIN results
               /\ RunRule(Catalogue20[i], job.truth) = "fail" =>
                    /\ results[Catalogue20[i]] = "skip"
                    /\ \E a \in RuleAsks(Catalogue20[i], heard) : heard[a] = Silent
    <3>1. Catalogue20[i] \in DOMAIN results
      BY <1>1, <2>2, <2>4 DEF RunInv, AllJudged, Judged
    <3>2. results[Catalogue20[i]] # "fail"
      BY <2>2, <2>4, <3>1 DEF Errors
    <3>3. i \in DOMAIN Catalogue20 /\ Catalogue20[i] # "CC-REG-008"
      BY <2>4 DEF Catalogue, Severity, Warnings
    <3> QED BY <1>1, <2>4, <3>1, <3>2, <3>3, ErrorsOnlyForSilence DEF RunInv
  <2>5. NothingIsProposedUnjudged'
    BY <2>1, <2>2, <2>3, <2>4
    DEF NothingIsProposedUnjudged, Configured, RunRule, RuleAsks, Config
  <2>6. Shape'
    BY <2>1 DEF RunInv, Shape, RunTypeOK, Stages, Replies
  <2>7. NothingYet' /\ AllJudged'
    BY <2>1 DEF NothingYet, AllJudged, Judged, Early
  <2>8. Grounds'
    BY <1>1, <2>1 DEF RunInv, Grounds
  <2>9. ReadFirst'
    BY <2>1 DEF RunInv, ReadFirst, Found
  <2>10. ResultsStand'
    BY <2>1 DEF RunInv, ResultsStand, RuleAsks, RunRule, Config
  <2>11. PageStands'
    BY <2>1 DEF RunInv, PageStands, PageOf, Config, InRegister
  <2> QED BY <2>1, <2>5, <2>6, <2>7, <2>8, <2>9, <2>10, <2>11 DEF RunInv
<1> QED BY <1>2, <1>3, <1>4

\* What is said of the register's page is what every service up would have it
\* say, or that it is not known.
LEMMA PageIsHonest ==
  ASSUME Shape, Said(heard, "record of the check")
  PROVE  /\ PageOf(heard) \in {"none", "unknown", PageOf(job.truth)}
         /\ PagesOf(heard) \subseteq Pages
<1> DEFINE t == job.truth
<1>1. \A a \in {"record of the check", "register", "index.json", "page"} :
        a \in Address /\ (Said(heard, a) => t[a] = heard[a] /\ Said(t, a))
  <2>1. {"record of the check", "register", "index.json", "page"} \subseteq Address
    BY DEF Address
  <2> QED BY <2>1 DEF Shape, RunTypeOK, Said
<1>2. Said(heard, "index.json") => heard["index.json"] \in {"missing", "same", "differs"}
  <2>1. t["index.json"] \in {"missing", "same", "differs"}
    BY CheckRunAssumption DEF Shape, RunTypeOK, Truth
  <2> QED BY <1>1, <2>1
<1> HIDE DEF t
<1>3. PageOf(heard) \in {"none", "unknown", PageOf(t)}
  BY <1>1 DEF PageOf, InRegister
<1>4. PageOf(heard) \in Pages
  BY <1>2 DEF PageOf, Pages
<1>5. PagesOf(heard) \subseteq Pages
  BY <1>4 DEF PagesOf, Pages, When
<1> QED BY <1>3, <1>5 DEF t

\* The page is told from what was heard of it: the truth, nothing, or an outage.
LEMMA PageStep == ASSUME RunInv, LookAtThePage PROVE RunInv'
<1>1. /\ runStage = "page" /\ page' \in PagesOf(heard) /\ runStage' = "done" /\ reply' = "answered"
      /\ UNCHANGED <<job, heard, silence, todo, version, results, row>>
  BY DEF LookAtThePage, Answered
<1>2. Said(heard, "record of the check")
  BY <1>1 DEF RunInv, Shape, Grounds
<1>3. /\ PageOf(heard) \in {"none", "unknown", PageOf(job.truth)}
      /\ PagesOf(heard) \subseteq Pages
  BY <1>2, PageIsHonest DEF RunInv
<1>4. Shape'
  BY <1>1, <1>3 DEF RunInv, Shape, RunTypeOK, Stages, Replies
<1>5. NothingYet' /\ AllJudged'
  BY <1>1 DEF NothingYet, AllJudged, Judged, Early
<1>6. Grounds'
  BY <1>1 DEF RunInv, Grounds, Said
<1>7. ReadFirst'
  BY <1>1 DEF RunInv, ReadFirst, Found
<1>8. ResultsStand'
  BY <1>1 DEF RunInv, ResultsStand, RuleAsks, RunRule, Config
<1>9. PageStands'
  <2>1. PageOf(job.truth)' = PageOf(job.truth)
    BY <1>1 DEF PageOf, Config, InRegister, Said
  <2>2. page' = PageOf(heard) \/ (page' = "missing" /\ heard["page"] = Silent)
    BY <1>1 DEF PagesOf, When
  <2> QED BY <1>1, <1>3, <2>1, <2>2 DEF PageStands
<1> QED BY <1>1, <1>4, <1>5, <1>6, <1>7, <1>8, <1>9 DEF RunInv, NothingIsProposedUnjudged

\* Nothing that was heard is lost, and nothing that was judged is disturbed.
LEMMA HearStep == ASSUME RunInv, NEW a \in Address, Hear(a) PROVE RunInv'
<1>1. /\ a \in Wanted /\ heard[a] = Unasked
      /\ UNCHANGED <<job, runStage, todo, version, results, row, reply, page>>
  BY DEF Hear
<1>2. \/ heard' = [heard EXCEPT ![a] = job.truth[a]] /\ silence' = silence
      \/ /\ silence < MaxSilent
         /\ heard' = [heard EXCEPT ![a] = Silent] /\ silence' = silence + 1
  BY DEF Hear
<1>3. runStage # "done"
  BY <1>1 DEF Wanted
<1>4. reply # "pull request"
  BY <1>3 DEF RunInv
<1>5. heard = [b \in Address |-> heard[b]]
  BY DEF RunInv, Shape
<1>6. /\ heard' = [b \in Address |-> heard'[b]]
      /\ \A b \in Address : b # a => heard'[b] = heard[b]
      /\ heard'[a] \in {Silent, job.truth[a]}
      /\ silence' = silence => heard'[a] = job.truth[a]
  <2>1. silence + 1 # silence
    <3>1. silence \in 0..MaxSilent /\ MaxSilent \in Nat
      BY CheckRunAssumption DEF RunInv, Shape, RunTypeOK
    <3> QED BY <3>1
  <2> QED BY <1>2, <1>5, <2>1
<1>7. \A b \in Address : heard[b] # Unasked => heard'[b] = heard[b]
  BY <1>1, <1>6
<1>8. silence \in 0..MaxSilent /\ silence' \in 0..MaxSilent /\ (silence' = 0 => silence' = silence)
  <2>1. silence \in 0..MaxSilent /\ MaxSilent \in Nat
    BY CheckRunAssumption DEF RunInv, Shape, RunTypeOK
  <2>2. \/ silence' = silence
        \/ silence < MaxSilent /\ silence' = silence + 1
    BY <1>2
  <2> QED BY <2>1, <2>2
<1>9. Shape'
  <2>1. \A b \in Address : heard'[b] \in {Silent, Unasked, job.truth[b]}
    BY <1>6 DEF RunInv, Shape, RunTypeOK
  <2>2. RunTypeOK'
    BY <1>1, <1>8, <2>1 DEF RunInv, Shape, RunTypeOK
  <2> QED BY <1>1, <1>6, <2>2 DEF RunInv, Shape, Registering
<1>11. NothingYet'
  BY <1>1 DEF RunInv, NothingYet
<1>12. {"codecheck.yml", "codecheck.yml on master", "this issue", "root", "record of the check",
         "page"}
         \subseteq Address
  BY DEF Address
<1>13. Grounds'
  BY <1>1, <1>7, <1>12 DEF RunInv, Grounds, Said
<1>14. ReadFirst'
  BY <1>1, <1>7, <1>12 DEF RunInv, ReadFirst, Found
<1>15. ResultsStand'
  <2> SUFFICES ASSUME NEW r \in DOMAIN results
               PROVE  /\ r \in IF job.command = "check ready" THEN Items ELSE Names20
                      /\ \A b \in RuleAsks(r, heard') : heard'[b] # Unasked
                      /\ results[r] = RunRule(r, heard')
    BY <1>1 DEF ResultsStand, RuleAsks, RunRule, Config
  <2>1. /\ RunRule(r, heard') = RunRule(r, heard)
        /\ RuleAsks(r, heard') = RuleAsks(r, heard)
        /\ \A b \in RuleAsks(r, heard) : heard'[b] # Unasked
    BY <1>7, MoreIsHeard DEF RunInv
  <2> QED BY <2>1 DEF RunInv, ResultsStand
<1>16. AllJudged'
  BY <1>1 DEF RunInv, AllJudged, Judged, Registering
<1>17. PageStands'
  BY <1>1, <1>7, <1>12, CheckRunAssumption DEF RunInv, PageStands, PageOf, Config, InRegister
<1> QED BY <1>1, <1>4, <1>9, <1>11, <1>13, <1>14, <1>15, <1>16, <1>17
        DEF RunInv, NothingIsProposedUnjudged

\* Nothing changes.
LEMMA RunStutters == ASSUME RunInv, UNCHANGED runVars PROVE RunInv'
<1>1. UNCHANGED <<job, runStage, heard, silence, todo, version, results, row, reply, page>>
  BY DEF runVars
<1>2. Shape'
  BY <1>1 DEF RunInv, Shape, RunTypeOK, Registering
<1>3. NothingYet' /\ ReadFirst'
  BY <1>1 DEF RunInv, NothingYet, ReadFirst, Found
<1>4. Grounds'
  BY <1>1 DEF RunInv, Grounds, Said
<1>5. ResultsStand'
  BY <1>1 DEF RunInv, ResultsStand, RuleAsks, RunRule, Config
<1>6. AllJudged'
  BY <1>1 DEF RunInv, AllJudged, Judged, Registering
<1>7. PageStands'
  BY <1>1 DEF RunInv, PageStands, PageOf, Config, InRegister
<1>8. NothingIsProposedUnjudged'
  BY <1>1 DEF RunInv, NothingIsProposedUnjudged, Configured, RunRule, RuleAsks, Config
<1> QED BY <1>1, <1>2, <1>3, <1>4, <1>5, <1>6, <1>7, <1>8 DEF RunInv

\* Every step of a command keeps the invariant.
LEMMA RunSteps == RunInv /\ [RunNext]_runVars => RunInv'
<1> SUFFICES ASSUME RunInv, [RunNext]_runVars PROVE RunInv'
  OBVIOUS
<1>1. ASSUME NEW a \in Address, Hear(a) PROVE RunInv'
  BY <1>1, HearStep
<1>2. CASE Proceed
  BY <1>2, RecordStep, IssueStep, TargetStep, VenueStep, RowStep, RootStep, ConfigurationStep,
     DateStep, VersionStep, ApplyStep, EndOfRulesStep, EndOfRowStep, ProposeStep, PageStep
     DEF Proceed
<1>3. CASE UNCHANGED runVars
  BY <1>3, RunStutters
<1> QED BY <1>1, <1>2, <1>3 DEF RunNext

-----------------------------------------------------------------------------
(* What the invariant shows.                                                *)

\* Every command that judges a configuration keeps to the types of its state.
THEOREM RunTypes == RunSpec => []RunTypeOK
<1>1. RunInv => RunTypeOK
  BY DEF RunInv, Shape
<1> QED BY <1>1, RunStarts, RunSteps, PTL DEF RunSpec

\* However the services come and go while a report is made, each of its results
\* is what its rule says of everything the whole command heard (run.go's
\* runRule over the memo of services.go).
THEOREM OneReport == RunSpec => []OneReportOneWorld
<1>1. RunInv => OneReportOneWorld
  BY DEF RunInv, ResultsStand, OneReportOneWorld
<1> QED BY <1>1, RunStarts, RunSteps, PTL DEF RunSpec

\* Whatever configuration, services and outages a command meets, a rule outside
\* OnPartOfIt that passes or fails says what it would have said with every
\* service up, where the configuration was read from the branch it would have been
\* read from; and so does what is said of the register's page, unless the page
\* itself went unanswered and is called missing (services.go, run.go, landing.go).
THEOREM NoVerdictFromSilence == RunSpec => []SilenceIsNoVerdict
<1>1. RunInv => SilenceIsNoVerdict
  <2> SUFFICES ASSUME RunInv, ReadWhereItIs
               PROVE  /\ \A r \in DOMAIN results \ OnPartOfIt :
                           results[r] # "skip" => results[r] = RunRule(r, job.truth)
                      /\ PageStands
    BY DEF SilenceIsNoVerdict, PageStands
  <2>1. ASSUME NEW r \in DOMAIN results \ OnPartOfIt
        PROVE  results[r] \in {"skip", RunRule(r, job.truth)}
    BY <2>1, ResultsAreHonest DEF RunInv
  <2> QED BY <2>1 DEF RunInv
<1> QED BY <1>1, RunStarts, RunSteps, PTL DEF RunSpec

\* `register` opens a pull request only for a row whose configuration was read,
\* whose rules of the file and of the register were all run, and that breaks
\* none of them that is an error with every service up, but one that was skipped
\* because an address of its own did not answer (bot/register.go, check/run.go).
THEOREM NothingProposedUnjudged == RunSpec => []NothingIsProposedUnjudged
<1>1. RunInv => NothingIsProposedUnjudged
  BY DEF RunInv
<1> QED BY <1>1, RunStarts, RunSteps, PTL DEF RunSpec
=============================================================================
