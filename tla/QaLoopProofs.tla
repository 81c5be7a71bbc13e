----------------------------- MODULE QaLoopProofs -----------------------------
(***************************************************************************)
(* What the stages of the loop make of each other, for every deck of       *)
(* cards, every bot and every number of runs. The first parts are about    *)
(* the functions of DdsVerdict: what is pinned for a case of the catalog   *)
(* is read back, whatever its codes, verdict and amount. PinInv, that a    *)
(* determination is the one its card gives, and Stages, what each stage    *)
(* finds of the one before it, are inductive; the properties follow from   *)
(* the two.                                                                *)
(***************************************************************************)
EXTENDS QaLoop, TLAPS

-----------------------------------------------------------------------------
(* The parts of a pin.                                                       *)

\* The code that is pinned is one of the tables' regimes and classes.
LEMMA PinCodeIsDisruption ==
  ASSUME NEW uc \in UseCase, SeedableVerdict(uc), PinCode(uc) # None
  PROVE  /\ PinCode(uc).regime \in Regime
         /\ PinCode(uc).class \in Class
<1>1. CASE uc.gap # None /\ IsDisruption(uc.gap)
  BY <1>1 DEF PinCode, IsDisruption, Parse, Or
<1>2. CASE ~(uc.gap # None /\ IsDisruption(uc.gap))
  BY <1>2 DEF PinCode, SeedableVerdict, SysCode, IsDisruption, Parse, Or
<1> QED
  BY <1>1, <1>2

\* The currency of a case is one of the four.
LEMMA CaseCurrencyIsCurrency ==
  ASSUME NEW uc \in UseCase, SeedableVerdict(uc)
  PROVE  CaseCurrency(uc) \in Currency
<1>1. CASE uc.amount # None
  BY <1>1 DEF CaseCurrency, UseCase, Money
<1>2. CASE uc.amount = None
  <2>1. Parse(SysCode(uc)).regime \in Regime
    BY DEF SeedableVerdict, IsDisruption
  <2> QED
    BY <1>2, <2>1 DEF CaseCurrency, RegimeCurrency, Regime, Currency
<1> QED
  BY <1>1, <1>2

\* A pinned verdict lands on a leg of the template.
LEMMA TargetIsLeg ==
  ASSUME NEW code, code.regime \in Regime, NEW status, NEW currency \in Currency
  PROVE  Target(code, status, currency) \in Leg
  BY DEF Target, RegimeTarget, CurrencyRegime, Regime, Currency, Leg

\* The amount that is pinned is one.
LEMMA PinAmountIsAmount ==
  ASSUME NEW uc \in UseCase
  PROVE  PinAmount(uc) \in Amount
  BY VerdictAssumption DEF PinAmount, UseCase, Money

\* The legs of a canonical verdict: its target,
LEMMA TargetOfCanonical ==
  ASSUME NEW code, NEW status, NEW currency, NEW value, NEW l \in Leg,
         l = Target(code, status, currency)
  PROVE  CanonicalVerdict(code, status, currency, value)[l] =
           [status |-> status, code |-> code,
            pay |-> IF status = "ELIGIBLE" THEN [currency |-> currency, value |-> value]
                    ELSE None]
  BY DEF CanonicalVerdict

\* and the others.
LEMMA OthersOfCanonical ==
  ASSUME NEW code, NEW status, NEW currency, NEW value, NEW l \in Leg,
         l # Target(code, status, currency)
  PROVE  CanonicalVerdict(code, status, currency, value)[l] = NotApplicable(l, currency)
  BY DEF CanonicalVerdict

-----------------------------------------------------------------------------
(* Reading it back.                                                          *)

\* If one leg weighs something and no other does, that leg is read.
LEMMA BestIsTheOnlyOne ==
  ASSUME NEW pin, NEW t \in Leg,
         Weight(pin[t]) \in {1, 2},
         \A m \in Leg \ {t} : Weight(pin[m]) = 0
  PROVE  Best(pin) = t
<1> DEFINE P(l) == \A m \in Leg \ {l} :
                     \/ Weight(pin[m]) < Weight(pin[l])
                     \/ Weight(pin[m]) = Weight(pin[l]) /\ Place[l] < Place[m]
<1>1. P(t)
  OBVIOUS
<1>2. ASSUME NEW l \in Leg, P(l) PROVE l = t
  <2>1. SUFFICES ASSUME l # t PROVE FALSE
    OBVIOUS
  <2>2. Weight(pin[t]) < Weight(pin[l]) \/ Weight(pin[t]) = Weight(pin[l])
    BY <1>2, <2>1
  <2>3. Weight(pin[l]) = 0
    BY <2>1
  <2> QED
    BY <2>2, <2>3
<1>3. Best(pin) = CHOOSE l \in Leg : P(l)
  BY DEF Best
<1> QED
  BY <1>1, <1>2, <1>3

\* What canonicalize_verdict wrote, extract_verdict reads.
LEMMA ExtractOfCanonical ==
  ASSUME NEW code, code.regime \in Regime, code.class \in Class,
         NEW status, NEW currency \in Currency, NEW value \in Amount
  PROVE  LET pin == CanonicalVerdict(code, status, currency, value)
         IN ExtractVerdict(pin) =
              [eligible |-> status = "ELIGIBLE", code |-> code,
               amount |-> IF status = "ELIGIBLE" THEN value ELSE None]
<1> DEFINE pin == CanonicalVerdict(code, status, currency, value)
           t == Target(code, status, currency)
<1>1. t \in Leg
  BY TargetIsLeg
<1>2. pin[t] = [status |-> status, code |-> code,
                pay |-> IF status = "ELIGIBLE" THEN [currency |-> currency, value |-> value]
                        ELSE None]
  BY <1>1, TargetOfCanonical
<1>3. Weight(pin[t]) \in {1, 2}
  <2>1. pin[t].status = status /\ pin[t].code = code
    BY <1>2
  <2> QED
    BY <2>1 DEF Weight, Class
<1>4. ASSUME NEW m \in Leg \ {t} PROVE Weight(pin[m]) = 0
  <2>1. pin[m] = NotApplicable(m, currency)
    <3>1. m \in Leg /\ m # t
      BY <1>4
    <3> QED
      BY <3>1, OthersOfCanonical
  <2>2. pin[m].status = "NOT_ELIGIBLE" /\ pin[m].code.class = "NA"
    BY <2>1 DEF NotApplicable
  <2> QED
    BY <2>2 DEF Weight
<1>5. Best(pin) = t
  <2> HIDE DEF pin, t
  <2> QED
    BY <1>1, <1>3, <1>4, BestIsTheOnlyOne
<1>6. [currency |-> currency, value |-> value] # None
  BY VerdictAssumption DEF Money
<1>7. ExtractVerdict(pin) =
        [eligible |-> pin[t].status = "ELIGIBLE", code |-> pin[t].code,
         amount |-> IF pin[t].pay = None THEN None ELSE pin[t].pay.value]
  <2> HIDE DEF pin, t
  <2> QED
    BY <1>3, <1>5 DEF ExtractVerdict
<1>8. CASE status = "ELIGIBLE"
  BY <1>2, <1>6, <1>7, <1>8
<1>9. CASE status # "ELIGIBLE"
  BY <1>2, <1>7, <1>9
<1> QED
  BY <1>8, <1>9

\* The pin of a case of the catalog that has a code is read back as it is
\* (pin_case as _pin_and_verify_one calls it, then verify_by_pnr).
THEOREM ReadBackIsPinned ==
  ASSUME NEW uc \in UseCase, SeedableVerdict(uc), PinCode(uc) # None
  PROVE  ExtractVerdict(Pin(uc)) =
           [eligible |-> PinStatus(uc) = "ELIGIBLE", code |-> PinCode(uc),
            amount |-> IF PinStatus(uc) = "ELIGIBLE" THEN PinAmount(uc) ELSE None]
<1>1. Pin(uc) = CanonicalVerdict(PinCode(uc), PinStatus(uc), CaseCurrency(uc), PinAmount(uc))
  BY DEF Pin
<1> QED
  BY <1>1, PinCodeIsDisruption, CaseCurrencyIsCurrency, PinAmountIsAmount, ExtractOfCanonical

-----------------------------------------------------------------------------
(* One eligible leg.                                                         *)

\* The legs of a determination that say ELIGIBLE, and what the case needs.
OneLeg(pin) ==
  \A l \in Leg : pin[l].status = "ELIGIBLE" =>
    /\ \A m \in Leg \ {l} : pin[m].status # "ELIGIBLE"
    /\ pin[l].code.regime \in {"MIXED", "DUP"} => CurrencyRegime[pin[l].pay.currency] = l

\* canonicalize_verdict makes a case eligible on its target alone.
LEMMA CanonicalOnOneLeg ==
  ASSUME NEW code, NEW status, NEW currency, NEW value
  PROVE  OneLeg(CanonicalVerdict(code, status, currency, value))
<1> DEFINE pin == CanonicalVerdict(code, status, currency, value)
           t == Target(code, status, currency)
<1>1. ASSUME NEW l \in Leg, l # t PROVE pin[l].status = "NOT_ELIGIBLE"
  <2>1. pin[l] = NotApplicable(l, currency)
    BY <1>1, OthersOfCanonical
  <2> QED
    BY <2>1 DEF NotApplicable
<1>2. SUFFICES ASSUME NEW l \in Leg, pin[l].status = "ELIGIBLE"
               PROVE  /\ \A m \in Leg \ {l} : pin[m].status # "ELIGIBLE"
                      /\ pin[l].code.regime \in {"MIXED", "DUP"} =>
                           CurrencyRegime[pin[l].pay.currency] = l
  BY DEF OneLeg
<1>3. l = t
  BY <1>1, <1>2
<1>4. pin[l] = [status |-> status, code |-> code,
                pay |-> IF status = "ELIGIBLE" THEN [currency |-> currency, value |-> value]
                        ELSE None]
  BY <1>3, TargetOfCanonical
<1>5. \A m \in Leg \ {l} : pin[m].status # "ELIGIBLE"
  <2> HIDE DEF pin, t
  <2> QED
    BY <1>1, <1>3
<1>6. ASSUME pin[l].code.regime \in {"MIXED", "DUP"}
      PROVE  CurrencyRegime[pin[l].pay.currency] = l
  <2>1. status = "ELIGIBLE" /\ code.regime \in {"MIXED", "DUP"}
    BY <1>2, <1>4, <1>6
  <2>2. pin[l].pay.currency = currency
    BY <1>4, <2>1
  <2>3. t = CurrencyRegime[currency]
    BY <2>1 DEF Target
  <2> QED
    BY <1>3, <2>2, <2>3
<1> QED
  BY <1>5, <1>6

\* canonicalize_appr makes a case eligible under APPR alone.
LEMMA ApprOnOneLeg ==
  ASSUME NEW tier
  PROVE  OneLeg(CanonicalAppr(tier))
<1>1. \A l \in Leg : CanonicalAppr(tier)[l].status = "ELIGIBLE" <=> l = "APPR"
  BY DEF CanonicalAppr, NotApplicable
<1>2. CanonicalAppr(tier)["APPR"].code.regime = "APPR"
  BY DEF CanonicalAppr, Leg
<1> QED
  BY <1>1, <1>2 DEF OneLeg

-----------------------------------------------------------------------------
(* The loop.                                                                 *)

\* A determination is that of Pinned, and cards are dealt from the decks.
PinInv ==
  /\ DOMAIN det = Case
  /\ \A c \in Case :
       /\ Minted(c) => card[c].uc \in UseCase /\ SeedableVerdict(card[c].uc)
       /\ det[c] # None => det[c] = Pinned(c)

\* PinInv holds at the start and of every step.
LEMMA PinInvHolds == Spec => []PinInv
<1>1. Init => PinInv
  BY LoopAssumption DEF Init, PinInv, Minted
<1>2. PinInv /\ [Next]_vars => PinInv'
  <2>1. SUFFICES ASSUME PinInv, [Next]_vars PROVE PinInv'
    OBVIOUS
  <2>2. ASSUME NEW c \in Case, NEW rows \in BOOLEAN, Seed(c, rows) PROVE PinInv'
    <3>1. card' = card /\ det' = [det EXCEPT ![c] = Pinned(c)]
      BY <2>2 DEF Seed
    <3> QED
      BY <2>1, <3>1 DEF PinInv, Minted, Pinned, Fixture
  <2>3. ASSUME UNCHANGED <<card, det>> PROVE PinInv'
    BY <2>1, <2>3 DEF PinInv, Minted, Pinned, Fixture
  <2>4. CASE \E c \in Case : SeedFails(c)
    BY <2>3, <2>4 DEF SeedFails
  <2>5. CASE \E c \in Case : \E chat \in Chats, failed \in BOOLEAN : RunCase(c, chat, failed)
    BY <2>3, <2>5 DEF RunCase
  <2>6. CASE Analyze
    BY <2>3, <2>6 DEF Analyze
  <2>7. CASE RunAgain
    BY <2>3, <2>7 DEF RunAgain
  <2>8. CASE UNCHANGED vars
    BY <2>3, <2>8 DEF vars
  <2> QED
    BY <2>1, <2>2, <2>4, <2>5, <2>6, <2>7, <2>8 DEF Next
<1> QED
  BY <1>1, <1>2, PTL DEF Spec

\* Whatever the audit and the bot read for a case of the catalog is what the
\* catalog says of it.
THEOREM AuditTellsHolds == Spec => []AuditTells
<1>1. PinInv => AuditTells
  <2>1. SUFFICES ASSUME PinInv, NEW c \in Case,
                        det[c] # None, Minted(c), PinCode(card[c].uc) # None
                 PROVE  LET uc == card[c].uc
                            answer == ExtractVerdict(det[c])
                        IN /\ answer.eligible <=> PinStatus(uc) = "ELIGIBLE"
                           /\ answer.code = PinCode(uc)
                           /\ answer.amount = IF answer.eligible THEN PinAmount(uc) ELSE None
    BY DEF AuditTells
  <2>2. /\ det[c] = Pin(card[c].uc)
        /\ card[c].uc \in UseCase
        /\ SeedableVerdict(card[c].uc)
    BY <2>1 DEF PinInv, Pinned
  <2>3. ExtractVerdict(det[c]) =
          [eligible |-> PinStatus(card[c].uc) = "ELIGIBLE", code |-> PinCode(card[c].uc),
           amount |-> IF PinStatus(card[c].uc) = "ELIGIBLE" THEN PinAmount(card[c].uc) ELSE None]
    BY <2>1, <2>2, ReadBackIsPinned
  <2>4. ExtractVerdict(det[c]).eligible = (PinStatus(card[c].uc) = "ELIGIBLE")
    BY <2>3
  <2>5. ExtractVerdict(det[c]).code = PinCode(card[c].uc)
    BY <2>3
  <2>6. ExtractVerdict(det[c]).amount =
          IF PinStatus(card[c].uc) = "ELIGIBLE" THEN PinAmount(card[c].uc) ELSE None
    BY <2>3
  <2> QED
    BY <2>4, <2>5, <2>6, Zenon
<1> QED
  BY <1>1, PinInvHolds, PTL

\* No determination is eligible on two legs, or on one of a foreign currency.
THEOREM EligibleOnOneLegHolds == Spec => []EligibleOnOneLeg
<1>1. PinInv => EligibleOnOneLeg
  <2>1. SUFFICES ASSUME PinInv, NEW c \in Case, det[c] # None PROVE OneLeg(det[c])
    BY DEF EligibleOnOneLeg, OneLeg
  <2>2. det[c] = Pinned(c)
    BY <2>1 DEF PinInv
  <2> QED
    BY <2>2, CanonicalOnOneLeg, ApprOnOneLeg DEF Pinned, Pin, PinFamily
<1> QED
  BY <1>1, PinInvHolds, PTL

\* What was pinned can be read in one way only, and that is the catalog's.
THEOREM DeterminationTellsHolds == Spec => []DeterminationTells
<1>1. AuditTells /\ EligibleOnOneLeg => DeterminationTells
  BY DEF DeterminationTells
<1> QED
  BY <1>1, AuditTellsHolds, EligibleOnOneLegHolds, PTL

-----------------------------------------------------------------------------
(* What the stages write.                                                    *)

\* A fixture is a use case, whatever its note.
LEMMA FixtureIsUseCase ==
  ASSUME NEW meta \in Meta
  PROVE  UsecaseFromMeta(meta) \in UseCase
<1>1. Or(meta.amount, meta.note.amount) \in Money \cup {None}
  BY DEF Meta, Or
<1>2. meta.code # None /\ meta.code.class \in Class => ClassStatus[meta.code.class] \in Verdict
  BY DEF Class, ClassStatus, Verdict
<1> DEFINE v == IF meta.code # None /\ meta.code.class \in Class
                THEN ClassStatus[meta.code.class]
                ELSE IF Or(meta.amount, meta.note.amount) # None THEN "ELIGIBLE" ELSE meta.note.hint
<1>3. v \in Verdict \cup {None, "ESCALATED", "UNKNOWN"}
  BY <1>2 DEF Meta, Verdict
<1>4. UsecaseFromMeta(meta) =
        [gap |-> meta.code, data |-> meta.code, verdict |-> v, status |-> v,
         amount |-> IF v = "ELIGIBLE" THEN Or(meta.amount, meta.note.amount) ELSE None]
  BY DEF UsecaseFromMeta
<1>5. meta.code \in Code \cup {None}
  BY DEF Meta
<1> HIDE DEF v
<1> QED
  BY <1>1, <1>3, <1>4, <1>5 DEF UseCase

\* So is what is rendered for a case of the catalog.
LEMMA RenderedIsMeta ==
  ASSUME NEW uc \in UseCase
  PROVE  RenderedMeta(uc) \in Meta
<1>1. Or(uc.gap, uc.data) \in Code \cup {None} /\ uc.amount \in Money \cup {None}
  BY DEF UseCase, Or
<1>2. [currency |-> "CAD", value |-> Default] \in Money
  BY VerdictAssumption DEF Money, Currency
<1> QED
  BY <1>1, <1>2 DEF RenderedMeta, Meta

\* A leg that does not apply has the type of a leg.
LEMMA NotApplicableTyped ==
  ASSUME NEW l \in Leg, NEW currency \in Currency
  PROVE  NotApplicable(l, currency) \in LegEntry
BY VerdictAssumption DEF NotApplicable, LegEntry, Code, Regime, Leg, Money, Verdict

\* The determination of a family, and the canonical one of a verdict, have the
\* three legs of the template.
LEMMA ApprTyped ==
  ASSUME NEW tier \in Amount
  PROVE  CanonicalAppr(tier) \in [Leg -> LegEntry]
<1>1. [status |-> "ELIGIBLE", code |-> [regime |-> "APPR", class |-> "EL"],
       pay |-> [currency |-> "CAD", value |-> tier]] \in LegEntry
  BY DEF LegEntry, Code, Regime, Class, Money, Currency, Verdict
<1>2. \A l \in Leg : NotApplicable(l, "CAD") \in LegEntry
  BY NotApplicableTyped DEF Currency
<1> QED
  BY <1>1, <1>2 DEF CanonicalAppr

LEMMA CanonicalTyped ==
  ASSUME NEW code \in Code, NEW status \in Verdict \cup {"ESCALATED", "UNKNOWN"},
         NEW currency \in Currency, NEW value \in Amount
  PROVE  CanonicalVerdict(code, status, currency, value) \in [Leg -> LegEntry]
<1>1. [status |-> status, code |-> code,
       pay |-> IF status = "ELIGIBLE" THEN [currency |-> currency, value |-> value] ELSE None]
        \in LegEntry
  BY DEF LegEntry, Money
<1>2. \A l \in Leg : NotApplicable(l, currency) \in LegEntry
  BY NotApplicableTyped
<1> QED
  BY <1>1, <1>2 DEF CanonicalVerdict

\* The pin of a case of the catalog is a determination.
LEMMA PinTyped ==
  ASSUME NEW uc \in UseCase, SeedableVerdict(uc)
  PROVE  Pin(uc) \in [Leg -> LegEntry]
<1>1. CASE PinCode(uc) = None
  BY <1>1, ApprTyped, VerdictAssumption DEF Pin
<1>2. CASE PinCode(uc) # None
  <2>1. PinCode(uc) \in Code /\ PinCode(uc).class \in Class
    BY <1>2, PinCodeIsDisruption DEF PinCode, UseCase, Or
  <2>2. ClassStatus[Parse(PinCode(uc)).class] \in Verdict
    BY <1>2, <2>1 DEF Parse, Or, ClassStatus, Class, Verdict
  <2>3. PinStatus(uc) \in Verdict \cup {"ESCALATED", "UNKNOWN"}
    BY <2>2 DEF PinStatus, Or, UseCase
  <2> QED
    BY <1>2, <2>1, <2>3, CaseCurrencyIsCurrency, PinAmountIsAmount, CanonicalTyped DEF Pin
<1> QED
  BY <1>1, <1>2

\* So is the pin of a cloned one, and it is read back as an eligible one.
LEMMA PinFamilyTyped ==
  ASSUME NEW uc \in UseCase, NEW regime
  PROVE  /\ PinFamily(uc, regime) \in [Leg -> LegEntry]
         /\ ExtractVerdict(PinFamily(uc, regime)).eligible
<1>1. PICK tier \in Amount : PinFamily(uc, regime) = CanonicalAppr(tier)
  BY VerdictAssumption DEF PinFamily
<1> DEFINE pin == CanonicalAppr(tier)
<1>2. pin["APPR"] = [status |-> "ELIGIBLE", code |-> [regime |-> "APPR", class |-> "EL"],
                     pay |-> [currency |-> "CAD", value |-> tier]]
  BY DEF CanonicalAppr, Leg
<1>3. ASSUME NEW m \in Leg \ {"APPR"} PROVE Weight(pin[m]) = 0
  <2>1. pin[m] = NotApplicable(m, "CAD")
    BY <1>3 DEF CanonicalAppr
  <2>2. pin[m].status = "NOT_ELIGIBLE" /\ pin[m].code.class = "NA"
    BY <2>1 DEF NotApplicable
  <2> QED
    BY <2>2 DEF Weight
<1>4. pin["APPR"].status = "ELIGIBLE" /\ Weight(pin["APPR"]) = 2
  BY <1>2 DEF Weight
<1>5. "APPR" \in Leg
  BY DEF Leg
<1>6. Best(pin) = "APPR"
  <2> HIDE DEF pin
  <2> QED
    BY <1>3, <1>4, <1>5, BestIsTheOnlyOne
<1>7. ExtractVerdict(pin).eligible
  <2> HIDE DEF pin
  <2>1. ExtractVerdict(pin) =
          [eligible |-> pin["APPR"].status = "ELIGIBLE", code |-> pin["APPR"].code,
           amount |-> IF pin["APPR"].pay = None THEN None ELSE pin["APPR"].pay.value]
    BY <1>4, <1>6 DEF ExtractVerdict
  <2>2. ExtractVerdict(pin).eligible = (pin["APPR"].status = "ELIGIBLE")
    BY <2>1
  <2> QED
    BY <1>4, <2>2, Zenon
<1> QED
  BY <1>1, <1>7, ApprTyped

-----------------------------------------------------------------------------
(* Grades.                                                                   *)

\* A judge that worked says whether the outcome is the expected one.
LEMMA JudgeMeans ==
  ASSUME NEW c, NEW told
  PROVE  Judge(c, told).matches <=>
           told.decision = expected[c].verdict /\ told.amount = expected[c].amount
<1> DEFINE same == told.decision = expected[c].verdict /\ told.amount = expected[c].amount
<1>1. Judge(c, told).matches = same
  <2>1. Judge(c, told) = [decision |-> told.decision, matches |-> same]
    BY DEF Judge
  <2> HIDE DEF same
  <2> QED
    BY <2>1
<1> QED
  BY <1>1, Zenon

\* What the two grades that count mean.
LEMMA GradesMean ==
  ASSUME NEW r
  PROVE  /\ Grade(r) \in Grades
         /\ Grade(r) = "Valid FAIL" =>
              r.chat.error = None /\ ~r.verdict.matches /\ ~r.chat.outage
         /\ Grade(r) = "Strong PASS" =>
              r.chat.error = None /\ r.verdict.matches /\ r.verified
<1>1. CASE r.chat.error # None
  BY <1>1 DEF Grade, Grades, StatusByGrade, InfraGrades
<1>2. CASE r.chat.error = None /\ r.verdict.matches
  BY <1>2 DEF Grade, MatchGrade, Grades, StatusByGrade, InfraGrades
<1>3. CASE r.chat.error = None /\ ~r.verdict.matches
  BY <1>3 DEF Grade, Grades, StatusByGrade, InfraGrades
<1> QED
  BY <1>1, <1>2, <1>3

\* The status of each grade.
LEMMA StatusOfGrade ==
  ASSUME NEW c \in Items
  PROVE  /\ Status(c) \in Statuses
         /\ Status(c) = "FAIL" /\ Graded(c) \notin InfraGrades => Graded(c) = "Valid FAIL"
         /\ Status(c) = "PASS" => Graded(c) = "Strong PASS"
         /\ Graded(c) = "Valid FAIL" => Status(c) = "FAIL" /\ Graded(c) \notin InfraGrades \cup InvalidGrades
         /\ Graded(c) \notin InfraGrades \cup InvalidGrades => Status(c) \in {"PASS", "WARN", "FAIL"}
<1>1. Graded(c) \in Grades /\ Status(c) = StatusByGrade[Graded(c)]
  BY GradesMean DEF Graded, Status
<1> QED
  BY <1>1 DEF Grades, StatusByGrade, InfraGrades, InvalidGrades, Statuses

-----------------------------------------------------------------------------
(* The stages of the loop.                                                   *)

\* A Result has a verdict its chat may have got, of the case's expectation, and
\* says that the seed was verified only if the checkpoint file does.
Recorded(c) ==
  /\ expected[c] # None
  /\ result[c].chat \in Chats
  /\ result[c].verdict \in Verdicts(c, result[c].chat)
  /\ result[c].verified => sidecar[c] = "pass"

\* What each stage finds of the one before it.
Stages ==
  /\ \A c \in Case : card[c] \in Deck[c]
  /\ DOMAIN det = Case /\ DOMAIN expected = Case /\ DOMAIN sidecar = Case /\ DOMAIN result = Case
  /\ \A c \in Case : expected[c] # None => expected[c] = Fixture(c)
  /\ \A c \in Case : det[c] # None => expected[c] = Fixture(c)
  /\ \A c \in Case : sidecar[c] = "pass" =>
       /\ ~Minted(c) /\ det[c] = Pinned(c)
       /\ AmountArea(Fixture(c), ExtractVerdict(Pinned(c))) # "fail"
  /\ \A c \in Items : Recorded(c)
  /\ doc # None => doc = [summary |-> Rollup, diff |-> RunDiff, defects |-> SelectDefects]

\* The functions of a card do not change.
LEMMA CardsStay ==
  ASSUME card' = card, NEW c
  PROVE  /\ Fixture(c)' = Fixture(c) /\ Pinned(c)' = Pinned(c) /\ Audited(c)' = Audited(c)
         /\ Minted(c)' = Minted(c)
BY DEF Fixture, Pinned, Audited, Minted

\* The report of a folder follows from its Results and the run before.
LEMMA ReportStays ==
  ASSUME result' = result, prev' = prev
  PROVE  /\ Items' = Items /\ Rollup' = Rollup /\ RunDiff' = RunDiff /\ SelectDefects' = SelectDefects
BY DEF Items, Rollup, RunDiff, Moved, SelectDefects, Working, Status, Graded

\* A fixture is a use case.
LEMMA FixtureTyped ==
  ASSUME Stages, NEW c \in Case
  PROVE  Fixture(c) \in UseCase
<1>1. card[c] \in Deck[c]
  BY DEF Stages
<1>2. CASE Minted(c)
  BY <1>1, <1>2, LoopAssumption, RenderedIsMeta, FixtureIsUseCase DEF Fixture, Minted
<1>3. CASE ~Minted(c)
  BY <1>1, <1>3, LoopAssumption, FixtureIsUseCase DEF Fixture, Minted
<1> QED
  BY <1>2, <1>3

\* Seeding leaves the cases that have a fixture alone.
LEMMA StagesWhileSeeding ==
  ASSUME Stages, NEW c \in Case, expected[c] = None,
         card' = card, result' = result, doc' = doc, prev' = prev,
         expected' = [expected EXCEPT ![c] = Fixture(c)],
         NEW rows \in BOOLEAN,
         \/ /\ det' = [det EXCEPT ![c] = Pinned(c)]
            /\ sidecar' = [sidecar EXCEPT ![c] = Sidecar(c, rows)]
         \/ det' = det /\ sidecar' = sidecar
  PROVE  Stages'
<1>1. \A d \in Case : /\ Fixture(d)' = Fixture(d) /\ Pinned(d)' = Pinned(d)
                      /\ Minted(d)' = Minted(d)
  BY CardsStay
<1>2. /\ DOMAIN det' = Case /\ DOMAIN expected' = Case /\ DOMAIN sidecar' = Case
      /\ DOMAIN result' = Case
  BY DEF Stages
<1>3. expected'[c] = Fixture(c) /\ \A d \in Case \ {c} : expected'[d] = expected[d]
  BY DEF Stages
<1>4. \A d \in Case \ {c} : det'[d] = det[d] /\ sidecar'[d] = sidecar[d]
  BY DEF Stages
<1>5. \A d \in Case : expected'[d] # None => expected'[d] = Fixture(d)'
  BY <1>1, <1>3 DEF Stages
<1>6. \A d \in Case : det'[d] # None => expected'[d] = Fixture(d)'
  BY <1>1, <1>3, <1>4 DEF Stages
<1>7. ASSUME NEW d \in Case, sidecar'[d] = "pass"
      PROVE  /\ ~Minted(d)' /\ det'[d] = Pinned(d)'
             /\ AmountArea(Fixture(d)', ExtractVerdict(Pinned(d)')) # "fail"
  <2>1. CASE d = c /\ sidecar' # sidecar
    <3>1. sidecar'[c] = Sidecar(c, rows) /\ det'[c] = Pinned(c)
      BY <2>1 DEF Stages
    <3>2. ~Minted(c) /\ AllOk(Audited(c), ExtractVerdict(Pinned(c)), rows)
      BY <1>7, <2>1, <3>1, LoopAssumption DEF Sidecar
    <3>3. AmountArea(Fixture(c), ExtractVerdict(Pinned(c))) # "fail"
      BY <3>2 DEF AllOk, Audited
    <3> QED
      BY <1>1, <2>1, <3>1, <3>2, <3>3
  <2>2. CASE d # c \/ sidecar' = sidecar
    <3>1. sidecar[d] = "pass"
      BY <1>4, <1>7, <2>2
    <3>2. /\ ~Minted(d) /\ det[d] = Pinned(d)
          /\ AmountArea(Fixture(d), ExtractVerdict(Pinned(d))) # "fail"
      BY <3>1 DEF Stages
    <3>3. det'[d] = Pinned(d)
      BY <1>4, <3>2 DEF Stages
    <3> QED
      BY <1>1, <3>2, <3>3
  <2> QED
    BY <2>1, <2>2
<1>8. \A d \in Items' : Recorded(d)'
  <2>1. SUFFICES ASSUME NEW d \in Items PROVE Recorded(d)'
    BY DEF Items
  <2>2. d \in Case /\ Recorded(d)
    BY DEF Items, Stages
  <2>3. d # c
    BY <2>2 DEF Recorded
  <2>4. expected'[d] = expected[d] /\ sidecar'[d] = sidecar[d]
    BY <1>3, <1>4, <2>2, <2>3
  <2> QED
    BY <2>2, <2>4 DEF Recorded, Verdicts, Judge
<1>9. doc' # None => doc' = [summary |-> Rollup', diff |-> RunDiff', defects |-> SelectDefects']
  BY ReportStays DEF Stages
<1>10. \A d \in Case : card'[d] \in Deck[d]
  BY DEF Stages
<1> QED
  BY <1>2, <1>5, <1>6, <1>7, <1>8, <1>9, <1>10 DEF Stages

\* Every step keeps the stages together.
LEMMA StagesHold == Spec => []Stages
<1>1. Init => Stages
  <2>1. SUFFICES ASSUME Init PROVE Stages
    OBVIOUS
  <2>2. Items = {} /\ doc = None
    BY <2>1 DEF Init, Items
  <2>3. \A c \in Case : sidecar[c] # "pass"
    BY <2>1, LoopAssumption DEF Init
  <2> QED
    BY <2>1, <2>2, <2>3 DEF Init, Stages
<1>2. Stages /\ [Next]_vars => Stages'
  <2>1. SUFFICES ASSUME Stages, [Next]_vars PROVE Stages'
    OBVIOUS
  <2>2. ASSUME NEW c \in Case, NEW rows \in BOOLEAN, Seed(c, rows) PROVE Stages'
    <3>1. /\ expected[c] = None
          /\ card' = card /\ result' = result /\ doc' = doc /\ prev' = prev
          /\ expected' = [expected EXCEPT ![c] = Fixture(c)]
          /\ det' = [det EXCEPT ![c] = Pinned(c)]
          /\ sidecar' = [sidecar EXCEPT ![c] = Sidecar(c, rows)]
      BY <2>2 DEF Seed
    <3> QED
      BY <2>1, <3>1, StagesWhileSeeding
  <2>3. ASSUME NEW c \in Case, SeedFails(c) PROVE Stages'
    <3>1. /\ expected[c] = None
          /\ card' = card /\ result' = result /\ doc' = doc /\ prev' = prev
          /\ expected' = [expected EXCEPT ![c] = Fixture(c)]
          /\ det' = det /\ sidecar' = sidecar
      BY <2>3 DEF SeedFails
    <3>2. TRUE \in BOOLEAN
      OBVIOUS
    <3> QED
      BY <2>1, <3>1, <3>2, StagesWhileSeeding
  <2>4. ASSUME NEW c \in Case, NEW chat \in Chats, NEW failed \in BOOLEAN, RunCase(c, chat, failed)
        PROVE  Stages'
    <3>1. /\ doc = None /\ expected[c] # None
          /\ UNCHANGED <<card, det, expected, sidecar, round, doc, prev>>
      BY <2>4 DEF RunCase
    <3>2. PICK verdict \in Verdicts(c, chat) :
            result' = [result EXCEPT ![c] =
              [chat |-> chat, verdict |-> verdict, failed |-> failed,
               verified |-> sidecar[c] = "pass",
               bucket |-> IF chat.error = None THEN None ELSE ErrorBucket(chat.error)]]
      BY <2>4 DEF RunCase
    <3>3. DOMAIN result' = Case /\ \A d \in Case \ {c} : result'[d] = result[d]
      BY <2>1, <3>2 DEF Stages
    <3>4. /\ result'[c].chat = chat /\ result'[c].verdict = verdict
          /\ result'[c].verified = (sidecar[c] = "pass")
      BY <2>1, <3>2 DEF Stages
    <3>5. ASSUME NEW d \in Items' PROVE Recorded(d)'
      <4>1. CASE d = c
        BY <3>1, <3>2, <3>4, <4>1 DEF Recorded, Verdicts, Judge
      <4>2. CASE d # c
        <5>1. d \in Items /\ result'[d] = result[d]
          BY <3>3, <3>5, <4>2 DEF Items
        <5>2. Recorded(d)
          BY <2>1, <5>1 DEF Stages
        <5> QED
          BY <3>1, <5>1, <5>2 DEF Recorded, Verdicts, Judge
      <4> QED
        BY <4>1, <4>2
    <3>6. \A d \in Case : /\ Fixture(d)' = Fixture(d) /\ Pinned(d)' = Pinned(d)
                          /\ Minted(d)' = Minted(d)
      BY <3>1, CardsStay
    <3> QED
      BY <2>1, <3>1, <3>3, <3>5, <3>6 DEF Stages
  <2>5. CASE Analyze
    <3>1. /\ doc' = [summary |-> Rollup, diff |-> RunDiff, defects |-> SelectDefects]
          /\ UNCHANGED <<card, det, expected, sidecar, round, result, prev>>
      BY <2>5 DEF Analyze
    <3>2. \A d \in Case : /\ Fixture(d)' = Fixture(d) /\ Pinned(d)' = Pinned(d)
                          /\ Minted(d)' = Minted(d)
      BY <3>1, CardsStay
    <3>3. doc' = [summary |-> Rollup', diff |-> RunDiff', defects |-> SelectDefects']
      BY <3>1, ReportStays
    <3>4. \A d \in Items' : Recorded(d)'
      BY <2>1, <3>1 DEF Stages, Items, Recorded, Verdicts, Judge
    <3> QED
      BY <2>1, <3>1, <3>2, <3>3, <3>4 DEF Stages
  <2>6. CASE RunAgain
    <3>1. /\ result' = [c \in Case |-> None] /\ doc' = None
          /\ UNCHANGED <<card, det, expected, sidecar>>
      BY <2>6 DEF RunAgain
    <3>2. Items' = {}
      BY <3>1 DEF Items
    <3>3. \A d \in Case : /\ Fixture(d)' = Fixture(d) /\ Pinned(d)' = Pinned(d)
                          /\ Minted(d)' = Minted(d)
      BY <3>1, CardsStay
    <3> QED
      BY <2>1, <3>1, <3>2, <3>3 DEF Stages
  <2>7. CASE UNCHANGED vars
    <3>1. UNCHANGED <<card, det, expected, sidecar, round, result, doc, prev>>
      BY <2>7 DEF vars
    <3>2. \A d \in Case : /\ Fixture(d)' = Fixture(d) /\ Pinned(d)' = Pinned(d)
                          /\ Minted(d)' = Minted(d)
      BY <3>1, CardsStay
    <3>3. Rollup' = Rollup /\ RunDiff' = RunDiff /\ SelectDefects' = SelectDefects
      BY <3>1, ReportStays
    <3>4. \A d \in Items' : Recorded(d)'
      BY <2>1, <3>1 DEF Stages, Items, Recorded, Verdicts, Judge
    <3> QED
      BY <2>1, <3>1, <3>2, <3>3, <3>4 DEF Stages
  <2> QED
    BY <2>1, <2>2, <2>3, <2>4, <2>5, <2>6, <2>7 DEF Next
<1> QED
  BY <1>1, <1>2, PTL DEF Spec

-----------------------------------------------------------------------------
(* What the stages make of each other.                                       *)

\* A Strong PASS on an amount has a determination behind it, eligible and for
\* that amount: the checkpoint file said the audit passed (_seed_from_sidecar,
\* runner/build.py), the audit compared the amounts, and the judge did again.
THEOREM StrongPassIsEarned == Spec => []StrongPassEarned
<1>1. Stages => StrongPassEarned
  <2>1. SUFFICES ASSUME Stages, NEW c \in Items,
                        Graded(c) = "Strong PASS",
                        result[c].chat.told.decision = "ELIGIBLE",
                        result[c].chat.told.amount # None
                 PROVE  /\ det[c] # None
                        /\ ExtractVerdict(det[c]).eligible
                        /\ ExtractVerdict(det[c]).amount = result[c].chat.told.amount.value
    BY DEF StrongPassEarned
  <2>2. c \in Case /\ Recorded(c)
    BY <2>1 DEF Stages, Items
  <2>3. result[c].verdict.matches /\ result[c].verified
    BY <2>1, GradesMean DEF Graded
  <2>4. result[c].verdict = Judge(c, result[c].chat.told)
    BY <2>2, <2>3 DEF Recorded, Verdicts, NoVerdict
  <2>5. result[c].chat.told.amount = expected[c].amount
    <3>1. Judge(c, result[c].chat.told).matches
      BY <2>3, <2>4
    <3> QED
      BY <3>1, JudgeMeans, Zenon
  <2>6. expected[c] = Fixture(c)
    BY <2>1, <2>2 DEF Recorded, Stages
  <2>7. /\ ~Minted(c) /\ det[c] = Pinned(c)
        /\ AmountArea(Fixture(c), ExtractVerdict(Pinned(c))) # "fail"
    BY <2>1, <2>2, <2>3 DEF Recorded, Stages
  <2>8. Pinned(c) = PinFamily(Fixture(c), card[c].regime)
    BY <2>7 DEF Pinned
  <2>9. Fixture(c) \in UseCase
    BY <2>1, <2>2, FixtureTyped
  <2>10. Pinned(c) \in [Leg -> LegEntry] /\ ExtractVerdict(Pinned(c)).eligible
    BY <2>8, <2>9, PinFamilyTyped
  <2>11. Pinned(c) # None
    BY <2>10, LoopAssumption
  <2>12. ExtractVerdict(Pinned(c)).amount = Fixture(c).amount.value
    BY <2>1, <2>5, <2>6, <2>7 DEF AmountArea
  <2> QED
    BY <2>5, <2>6, <2>7, <2>10, <2>11, <2>12
<1> QED
  BY <1>1, StagesHold, PTL

\* Neither the tickets nor the pass rate are about the harness or the
\* environment (grade, rollup and select_defects): a ticket comes from a chat
\* that ran to its end, and the cases that count as failures are the tickets.
THEOREM DefectsOfProductHolds == Spec => []DefectsOfProduct
<1>1. Stages => NoNoiseTicket
  <2>1. SUFFICES ASSUME Stages, doc # None, NEW c \in doc.defects
                 PROVE  /\ result[c].chat.error = None /\ ~result[c].chat.outage
                        /\ \/ result[c].verdict = NoVerdict
                           \/ result[c].chat.told.decision # expected[c].verdict
                           \/ result[c].chat.told.amount # expected[c].amount
    BY DEF NoNoiseTicket
  <2>2. doc.defects = SelectDefects
    BY <2>1 DEF Stages
  <2>3. c \in Items /\ Graded(c) = "Valid FAIL"
    BY <2>1, <2>2 DEF SelectDefects
  <2>4. Recorded(c)
    BY <2>1, <2>3 DEF Stages
  <2>5. result[c].chat.error = None /\ ~result[c].verdict.matches /\ ~result[c].chat.outage
    BY <2>3, GradesMean DEF Graded
  <2>6. CASE result[c].verdict = NoVerdict
    BY <2>5, <2>6
  <2>7. CASE result[c].verdict = Judge(c, result[c].chat.told)
    <3>1. ~Judge(c, result[c].chat.told).matches
      BY <2>5, <2>7
    <3>2. \/ result[c].chat.told.decision # expected[c].verdict
          \/ result[c].chat.told.amount # expected[c].amount
      BY <3>1, JudgeMeans, Zenon
    <3> QED
      BY <2>5, <3>2
  <2> QED
    BY <2>4, <2>6, <2>7 DEF Recorded, Verdicts
<1>2. Stages => RateIsOfProduct
  <2>1. SUFFICES ASSUME Stages, doc # None
                 PROVE  LET s == Rollup
                        IN /\ s.working = s.pass \cup s.fail /\ s.pass \cap s.fail = {}
                           /\ s.fail = SelectDefects
                           /\ Items = s.working \cup s.infra \cup s.invalid
                           /\ s.working \cap (s.infra \cup s.invalid) = {}
                           /\ s.infra \cap s.invalid = {}
    BY DEF RateIsOfProduct, Stages
  <2>2. Working \subseteq Items
    BY DEF Working
  <2>3. \A c \in Working : Status(c) \in {"PASS", "WARN", "FAIL"}
    BY StatusOfGrade DEF Working
  <2>4. Rollup.working = Rollup.pass \cup Rollup.fail /\ Rollup.pass \cap Rollup.fail = {}
    BY <2>3 DEF Rollup
  <2>5. \A c \in Items : c \in Rollup.fail <=> Graded(c) = "Valid FAIL"
    BY StatusOfGrade DEF Rollup, Working
  <2>6. Rollup.fail = SelectDefects
    BY <2>2, <2>5 DEF Rollup, SelectDefects
  <2>7. Items = Rollup.working \cup Rollup.infra \cup Rollup.invalid
    BY DEF Rollup, Working
  <2>8. /\ Rollup.working \cap (Rollup.infra \cup Rollup.invalid) = {}
        /\ Rollup.infra \cap Rollup.invalid = {}
    BY DEF Rollup, Working, InfraGrades, InvalidGrades
  <2> QED
    BY <2>4, <2>6, <2>7, <2>8
<1> QED
  BY <1>1, <1>2, StagesHold, PTL DEF DefectsOfProduct

\* What fell from a Strong PASS to a defect is reported, and what is reported
\* to pass again is a Strong PASS (run_diff, analysis/diff.py).
THEOREM RegressionsReported == Spec => []RegressionReported
<1>1. Stages => RegressionReported
  <2>1. SUFFICES ASSUME Stages, doc # None
                 PROVE  /\ \A c \in SelectDefects : prev[c] = "PASS" => c \in RunDiff.newly_failing
                        /\ \A c \in RunDiff.newly_passing :
                             Graded(c) = "Strong PASS" /\ prev[c] = "FAIL"
    <3>1. SUFFICES ASSUME Stages, doc # None
                   PROVE  /\ \A c \in doc.defects : prev[c] = "PASS" => c \in doc.diff.newly_failing
                          /\ \A c \in doc.diff.newly_passing :
                               Graded(c) = "Strong PASS" /\ prev[c] = "FAIL"
      BY DEF RegressionReported
    <3>2. doc = [summary |-> Rollup, diff |-> RunDiff, defects |-> SelectDefects]
      BY <3>1 DEF Stages
    <3>3. doc.defects = SelectDefects /\ doc.diff = RunDiff
      BY <3>2
    <3> QED
      BY <3>1, <3>3
  <2>2. ASSUME NEW c \in SelectDefects, prev[c] = "PASS" PROVE c \in RunDiff.newly_failing
    <3>1. c \in Items /\ c \in Case /\ Graded(c) = "Valid FAIL"
      BY DEF SelectDefects, Items
    <3>2. Status(c) = "FAIL"
      BY <3>1, StatusOfGrade
    <3> QED
      BY <2>2, <3>1, <3>2 DEF RunDiff, Moved
  <2>3. ASSUME NEW c \in RunDiff.newly_passing PROVE Graded(c) = "Strong PASS" /\ prev[c] = "FAIL"
    <3>1. c \in Case /\ prev[c] = "FAIL" /\ Status(c) = "PASS"
      BY DEF RunDiff, Moved
    <3>2. c \in Items
      BY <3>1, LoopAssumption DEF Status
    <3> QED
      BY <3>1, <3>2, StatusOfGrade
  <2> QED
    BY <2>2, <2>3
<1> QED
  BY <1>1, StagesHold, PTL

\* For a case of the catalog whose letter says what the catalog says, the
\* runner expects what is pinned: usecase_from_meta reads from the fixture of
\* render_case what extract_verdict reads from the pin of pin_case.
THEOREM ExpectedIsPinned == Spec => []ExpectsWhatIsPinned
<1>1. Stages /\ PinInv => ExpectsWhatIsPinned
  <2>1. SUFFICES ASSUME Stages, PinInv, NEW c \in Case, det[c] # None, Minted(c),
                        RenderedMeta(card[c].uc).code # None,
                        RenderedMeta(card[c].uc).code.class \in Class,
                        ClassStatus[RenderedMeta(card[c].uc).code.class] = PinStatus(card[c].uc)
                 PROVE  /\ expected[c].verdict = "ELIGIBLE" <=> ExtractVerdict(det[c]).eligible
                        /\ ExtractVerdict(det[c]).eligible /\ card[c].uc.amount # None =>
                             expected[c].amount.value = ExtractVerdict(det[c]).amount
    BY DEF ExpectsWhatIsPinned
  <2> DEFINE uc == card[c].uc
             answer == ExtractVerdict(det[c])
  <2>2. det[c] = Pin(uc) /\ uc \in UseCase /\ SeedableVerdict(uc)
    BY <2>1 DEF PinInv, Pinned
  <2>3. Or(uc.gap, uc.data) # None /\ RenderedMeta(uc).code = Or(uc.gap, uc.data)
    BY <2>1 DEF RenderedMeta
  <2>4. PinCode(uc) # None
    BY <2>3 DEF PinCode, Or
  <2>5. answer = [eligible |-> PinStatus(uc) = "ELIGIBLE", code |-> PinCode(uc),
                  amount |-> IF PinStatus(uc) = "ELIGIBLE" THEN PinAmount(uc) ELSE None]
    BY <2>2, <2>4, ReadBackIsPinned
  <2>6. /\ answer.eligible = (PinStatus(uc) = "ELIGIBLE")
        /\ answer.amount = IF PinStatus(uc) = "ELIGIBLE" THEN PinAmount(uc) ELSE None
    BY <2>5
  <2>7. expected[c] = UsecaseFromMeta(RenderedMeta(uc))
    BY <2>1 DEF Stages, Fixture
  <2>8. expected[c].verdict = PinStatus(uc)
    BY <2>1, <2>7 DEF UsecaseFromMeta
  <2>9. expected[c].verdict = "ELIGIBLE" <=> answer.eligible
    <3>1. (expected[c].verdict = "ELIGIBLE") = (PinStatus(uc) = "ELIGIBLE")
      BY <2>8
    <3> HIDE DEF answer
    <3> QED
      BY <2>6, <3>1, Zenon
  <2>10. ASSUME answer.eligible, uc.amount # None PROVE expected[c].amount.value = answer.amount
    <3>1. PinStatus(uc) = "ELIGIBLE"
      <4> HIDE DEF answer
      <4> QED
        BY <2>6, <2>10, Zenon
    <3>2. answer.amount = uc.amount.value
      BY <2>6, <2>10, <3>1 DEF PinAmount
    <3>3. expected[c].amount = IF expected[c].verdict = "ELIGIBLE"
                               THEN Or(RenderedMeta(uc).amount, RenderedMeta(uc).note.amount) ELSE None
      BY <2>7 DEF UsecaseFromMeta
    <3>4. expected[c].amount = uc.amount
      BY <2>8, <2>10, <3>1, <3>3 DEF RenderedMeta, Or
    <3> QED
      BY <3>2, <3>4
  <2> QED
    BY <2>9, <2>10
<1> QED
  BY <1>1, StagesHold, PinInvHolds, PTL

-----------------------------------------------------------------------------
(* Types.                                                                    *)

\* What Stages and PinInv do not say.
Bounds ==
  /\ det = [c \in Case |-> det[c]]
  /\ sidecar \in [Case -> {"pass", "fail", None}]
  /\ round \in 1 .. MaxRounds
  /\ prev \in [Case -> Statuses \cup {None}]

\* The bounds are kept.
LEMMA BoundsHold == Spec => []Bounds
<1>1. Init => Bounds
  BY LoopAssumption DEF Init, Bounds
<1>2. Bounds /\ [Next]_vars => Bounds'
  <2>1. SUFFICES ASSUME Bounds, [Next]_vars PROVE Bounds'
    OBVIOUS
  <2>2. ASSUME NEW c \in Case, NEW rows \in BOOLEAN, Seed(c, rows) PROVE Bounds'
    BY <2>1, <2>2 DEF Seed, Sidecar, Bounds
  <2>3. ASSUME UNCHANGED <<det, sidecar, round, prev>> PROVE Bounds'
    BY <2>1, <2>3 DEF Bounds
  <2>4. CASE \E c \in Case : SeedFails(c)
    BY <2>3, <2>4 DEF SeedFails
  <2>5. CASE \E c \in Case : \E chat \in Chats, failed \in BOOLEAN : RunCase(c, chat, failed)
    BY <2>3, <2>5 DEF RunCase
  <2>6. CASE Analyze
    BY <2>3, <2>6 DEF Analyze
  <2>7. CASE RunAgain
    <3>1. \A c \in Case : Status(c) \in Statuses \cup {None}
      <4> TAKE c \in Case
      <4>1. CASE c \in Items
        BY <4>1, StatusOfGrade
      <4>2. CASE c \notin Items
        BY <4>2 DEF Status
      <4> QED
        BY <4>1, <4>2
    <3>2. det' = det /\ sidecar' = sidecar /\ round' = round + 1 /\ round < MaxRounds
          /\ prev' = [c \in Case |-> Status(c)]
      BY <2>7 DEF RunAgain
    <3> QED
      BY <2>1, <3>1, <3>2, LoopAssumption DEF Bounds
  <2>8. CASE UNCHANGED vars
    BY <2>3, <2>8 DEF vars
  <2> QED
    BY <2>1, <2>2, <2>4, <2>5, <2>6, <2>7, <2>8 DEF Next
<1> QED
  BY <1>1, <1>2, PTL DEF Spec

\* The variables of the loop have their types.
THEOREM TypeCorrect == Spec => []TypeOK
<1>1. Stages /\ PinInv /\ Bounds => TypeOK
  <2>1. SUFFICES ASSUME Stages, PinInv, Bounds PROVE TypeOK
    OBVIOUS
  <2>2. ASSUME NEW c \in Case, det[c] # None PROVE det[c] \in [Leg -> LegEntry]
    <3>1. det[c] = Pinned(c)
      BY <2>1, <2>2 DEF PinInv
    <3>2. CASE Minted(c)
      BY <2>1, <3>1, <3>2, PinTyped DEF PinInv, Pinned
    <3>3. CASE ~Minted(c)
      BY <2>1, <3>1, <3>3, FixtureTyped, PinFamilyTyped DEF Pinned
    <3> QED
      BY <3>2, <3>3
  <2>3. det \in [Case -> [Leg -> LegEntry] \cup {None}]
    <3>1. det = [c \in Case |-> det[c]]
      BY <2>1 DEF Bounds
    <3> QED
      BY <2>2, <3>1
  <2>4. \A c \in Case : expected[c] # None => expected[c] \in UseCase
    BY <2>1, FixtureTyped DEF Stages
  <2>5. \A c \in Items : result[c].chat \in Chats /\ Graded(c) \in Grades
    BY <2>1, GradesMean DEF Stages, Recorded, Graded
  <2>6. \A c \in Case : card[c] \in Deck[c]
    BY <2>1 DEF Stages
  <2> QED
    BY <2>1, <2>3, <2>4, <2>5, <2>6 DEF Bounds, TypeOK
<1> QED
  BY <1>1, StagesHold, PinInvHolds, BoundsHold, PTL
=============================================================================
