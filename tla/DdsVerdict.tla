------------------------------ MODULE DdsVerdict ------------------------------
(***************************************************************************)
(* The verdict of a case on its way from the catalog to the customer: what *)
(* seed/dds_pin.py pins in the rule engine for a case's card, what is read *)
(* back from there, what seed/verify.py asks of that, and what the runner  *)
(* expects after catalog/fixtures.py has read the fixture again.  These    *)
(* are functions of the card; QaLoop takes them through a campaign.        *)
(*                                                                         *)
(* A system code is its regime and its class (FD-APPR-EL-400 is APPR, EL); *)
(* the number and the texts of reasons are left out.  A use case has the   *)
(* code of its document (`gap`), the code of its data set (`data`), the    *)
(* verdict of each, and an amount.  The tables are applied to the codes of *)
(* cases that run_seed_all does not skip, which are in their domains.      *)
(***************************************************************************)
EXTENDS Naturals

CONSTANTS
  Amount,   \* amounts of money
  Zero,     \* the amount 0
  Tier,     \* the CAD amounts of APPR_FAMILY
  Default,  \* the tier of the family a command falls back to
  None      \* an absent code, verdict or amount

Regime == {"APPR", "EU", "UK", "ASL", "MIXED", "DUP"}
Class == {"EL", "NE", "ND", "PE", "DB"}
Currency == {"CAD", "EUR", "GBP", "ILS"}
Verdict == {"ELIGIBLE", "NOT_ELIGIBLE", "NO_DETERMINATION", "PENDING"}

\* "EDGE" and "01" are the labels of cases like EDGE-ID-01, "NA" marks the
\* legs a determination does not land on.
Code == [regime : Regime \cup {"EDGE"}, class : Class \cup {"01", "NA"}]
Money == [currency : Currency, value : Amount]
UseCase == [gap : Code \cup {None}, data : Code \cup {None},
            verdict : Verdict \cup {None, "ESCALATED", "UNKNOWN"},
            status : Verdict \cup {None, "ESCALATED", "UNKNOWN"},
            amount : Money \cup {None}]

ASSUME VerdictAssumption ==
  /\ Zero \in Amount /\ Default \in Tier /\ Tier \subseteq Amount
  /\ None \notin Amount \cup Money \cup Code \cup Verdict

\* The legs of the template determination, in its order.
Leg == {"APPR", "EU", "ASL"}
Place == [APPR |-> 1, EU |-> 2, ASL |-> 3]

ClassStatus == [EL |-> "ELIGIBLE", NE |-> "NOT_ELIGIBLE", ND |-> "NO_DETERMINATION",
                PE |-> "PENDING", DB |-> "ELIGIBLE"]
RegimeTarget == [APPR |-> "APPR", EU |-> "EU", UK |-> "EU", ASL |-> "ASL",
                 MIXED |-> "APPR", DUP |-> "APPR"]
CurrencyRegime == [CAD |-> "APPR", EUR |-> "EU", GBP |-> "EU", ILS |-> "ASL"]
RegimeCurrency == [APPR |-> "CAD", EU |-> "EUR", UK |-> "GBP", ASL |-> "ILS",
                   MIXED |-> "CAD", DUP |-> "CAD"]

Or(x, y) == IF x # None THEN x ELSE y

-----------------------------------------------------------------------------
(* What is pinned.                                                           *)

\* parse_system_code: a missing code reads as that of an eligible APPR case.
Parse(code) == Or(code, [regime |-> "APPR", class |-> "EL"])

IsDisruption(code) == Parse(code).regime \in Regime /\ Parse(code).class \in Class

SysCode(uc) == Or(uc.data, uc.gap)

\* The cases run_seed_all does not skip as "non_disruption".
SeedableVerdict(uc) == IsDisruption(SysCode(uc))

PinCode(uc) ==
  IF uc.gap # None /\ IsDisruption(uc.gap) THEN uc.gap ELSE Or(uc.data, uc.gap)

CaseCurrency(uc) ==
  IF uc.amount # None THEN uc.amount.currency ELSE RegimeCurrency[Parse(SysCode(uc)).regime]

\* The catalog's verdict wins over the letter of the code.
PinStatus(uc) == Or(Or(uc.verdict, uc.status), ClassStatus[Parse(PinCode(uc)).class])

PinAmount(uc) == IF uc.amount # None THEN uc.amount.value ELSE Zero

\* The leg a verdict lands on: that of the code's regime, but an eligible
\* MIXED or DUP case is eligible on the leg of its currency.
Target(code, status, currency) ==
  IF code.regime \in {"MIXED", "DUP"} /\ status = "ELIGIBLE"
  THEN CurrencyRegime[currency] ELSE RegimeTarget[code.regime]

NotApplicable(l, currency) ==
  [status |-> "NOT_ELIGIBLE", code |-> [regime |-> l, class |-> "NA"],
   pay |-> [currency |-> currency, value |-> Zero]]

\* canonicalize_verdict: a leg that is not eligible loses its compensation.
CanonicalVerdict(code, status, currency, value) ==
  [l \in Leg |->
     IF l = Target(code, status, currency)
     THEN [status |-> status, code |-> code,
           pay |-> IF status = "ELIGIBLE" THEN [currency |-> currency, value |-> value]
                   ELSE None]
     ELSE NotApplicable(l, currency)]

\* canonicalize_appr: eligible under APPR for the amount of the family.
CanonicalAppr(tier) ==
  [l \in Leg |->
     IF l = "APPR"
     THEN [status |-> "ELIGIBLE", code |-> [regime |-> "APPR", class |-> "EL"],
           pay |-> [currency |-> "CAD", value |-> tier]]
     ELSE NotApplicable(l, "CAD")]

\* pin_case as run_seed_all calls it: without any code the old path is taken.
Pin(uc) ==
  IF PinCode(uc) # None
  THEN CanonicalVerdict(PinCode(uc), PinStatus(uc), CaseCurrency(uc), PinAmount(uc))
  ELSE CanonicalAppr(Default)

\* pin_case as run_seed calls it, with the family of _family_for; `regime` is
\* what _regime_from guesses from the locator.
PinFamily(uc, regime) ==
  CanonicalAppr(IF /\ regime = "APPR" /\ uc.amount # None
                   /\ uc.amount.currency = "CAD" /\ uc.amount.value \in Tier
                THEN uc.amount.value ELSE Default)

-----------------------------------------------------------------------------
(* What is read back, and audited.                                           *)

\* Faulty variant: only an eligible leg is read.
WeightOfEligible(leg) == IF leg.status = "ELIGIBLE" THEN 2 ELSE 0

Weight(leg) ==
  IF leg.status = "ELIGIBLE" THEN 2 ELSE IF leg.code.class # "NA" THEN 1 ELSE 0

\* The first leg of the highest weight.
Best(det) ==
  CHOOSE l \in Leg : \A m \in Leg \ {l} :
    \/ Weight(det[m]) < Weight(det[l])
    \/ Weight(det[m]) = Weight(det[l]) /\ Place[l] < Place[m]

\* extract_verdict.  (The currency is not extracted; the amount is.)
ExtractVerdict(det) ==
  LET best == det[Best(det)]
  IN IF Weight(best) = 0 THEN [eligible |-> FALSE, code |-> None, amount |-> None]
     ELSE [eligible |-> best.status = "ELIGIBLE", code |-> best.code,
           amount |-> IF best.pay = None THEN None ELSE best.pay.value]

\* The areas of _DDS_AREAS: each passes, fails or is skipped.
CodeArea(uc, answer) ==
  IF PinCode(uc) # None
  THEN IF answer.code = PinCode(uc) THEN "pass" ELSE "fail"
  ELSE IF answer.eligible /\ answer.code.class = "EL" THEN "pass" ELSE "fail"

\* Faulty variant: any amount passes.
AmountAreaLenient(uc, answer) == IF uc.amount = None THEN "skip" ELSE "pass"

AmountArea(uc, answer) ==
  IF uc.amount = None THEN "skip"
  ELSE IF answer.amount = uc.amount.value THEN "pass" ELSE "fail"

ReasonArea(uc, answer) ==
  IF uc.verdict \notin {"NOT_ELIGIBLE", "NO_DETERMINATION"} THEN "skip"
  ELSE IF answer.code # None THEN "pass" ELSE "fail"

\* verify_case: `rows` is whether the trip-tracer areas pass.
AllOk(uc, answer, rows) ==
  /\ rows
  /\ "fail" \notin {CodeArea(uc, answer), AmountArea(uc, answer), ReasonArea(uc, answer)}

-----------------------------------------------------------------------------
(* What the runner expects: the fixture's meta.json and its reading.         *)

\* render_case.  The note of the base booking, "CAD 400 cash", stays.
RenderedMeta(uc) ==
  [code |-> Or(uc.gap, uc.data), amount |-> uc.amount,
   note |-> [hint |-> "UNKNOWN", amount |-> [currency |-> "CAD", value |-> Default]]]

\* Faulty variant: the amount of the note wins.
UsecaseFromNote(meta) ==
  LET amount == Or(meta.note.amount, meta.amount)
      verdict == IF meta.code # None /\ meta.code.class \in Class
                 THEN ClassStatus[meta.code.class]
                 ELSE IF amount # None THEN "ELIGIBLE" ELSE meta.note.hint
  IN [gap |-> meta.code, data |-> meta.code, verdict |-> verdict, status |-> verdict,
      amount |-> IF verdict = "ELIGIBLE" THEN amount ELSE None]

\* usecase_from_meta.
UsecaseFromMeta(meta) ==
  LET amount == Or(meta.amount, meta.note.amount)
      verdict == IF meta.code # None /\ meta.code.class \in Class
                 THEN ClassStatus[meta.code.class]
                 ELSE IF amount # None THEN "ELIGIBLE" ELSE meta.note.hint
  IN [gap |-> meta.code, data |-> meta.code, verdict |-> verdict, status |-> verdict,
      amount |-> IF verdict = "ELIGIBLE" THEN amount ELSE None]

=============================================================================
