----------------------------- MODULE MCEvaluation -----------------------------
(***************************************************************************)
(* Evaluation with the runs of eight cases, and of one whose amount is     *)
(* zero: the good run, runs with wrong quotes, wrong decisions and hung    *)
(* up conversations, runs in the other dialect and in both, runs that lost *)
(* Results, and folders build_metrics cannot read.                         *)
(***************************************************************************)
EXTENDS Evaluation

Money(currency, value) == [currency |-> currency, value |-> value]
Uc(status, family, code, amount) ==
  [status |-> status, family |-> family, code |-> code, regime |-> "APPR", amount |-> amount]

MCExpected ==
  [a1 |-> Uc("ELIGIBLE", "CORE", <<"APPR", "EL", "1">>, Money("CAD", 400)),
   a2 |-> Uc("ELIGIBLE", "CORE", <<"APPR", "EL", "2">>, Money("CAD", 700)),
   a3 |-> Uc("ELIGIBLE", "ED", <<"APPR", "EL", "3">>, Money("CAD", 400)),
   a4 |-> Uc("ELIGIBLE", "ED", <<"APPR", "EL", "4">>, Money("CAD", 1000)),
   pay |-> Uc("ELIGIBLE", "PAY", <<"EU", "EL", "1">>, Money("EUR", 250)),
   no |-> Uc("INELIGIBLE", "ED", <<"APPR", "NE", "1">>, NoAmount),
   open |-> Uc("NO_DETERMINATION", "CORE", <<>>, NoAmount),
   wait |-> Uc("PENDING", "CORE", <<"APPR", "PE">>, NoAmount),
   zero |-> Uc("NOT_ELIGIBLE", "CORE", <<"APPR", "NE", "2">>, Money("CAD", 0))]
MCCase == DOMAIN MCExpected

B(p) == [role |-> "bot", phrases |-> p]
C(p) == [role |-> "customer", phrases |-> p]
System == [role |-> "system", phrases |-> <<"hi there">>]

\* The start of a conversation up to the verified identity.
AlphaIntake ==
  << B(<<"hi there">>), C(<<"delayed, claim">>), B(<<"to file your claim", "automated decision">>),
     B(<<"need a few details">>), C(<<"my PNR is">>), B(<<"verify by code?">>), C(<<"Email">>),
     C(<<"six digits">>), B(<<"code verified">>) >>
BravoIntake ==
  << System, B(<<"how can I help">>), C(<<"delayed, claim">>),
     B(<<"claim started", "automated decision">>), B(<<"name as on ticket">>),
     B(<<"bold booking reference">>), B(<<"to confirm">>), B(<<"send a one-time code?">>),
     C(<<"six digits">>), B(<<"identity verified">>), B(<<"is this the trip?">>) >>

MCTranscript ==
  [silent |-> <<>>,
   alpha_paid |-> AlphaIntake \o << B(<<"the amount is">>), B(<<"you are eligible">>),
     B(<<"receipts">>), B(<<"paid by Interac">>), B(<<"claim submitted">>),
     B(<<"Reference Number">>), B(<<"anything else?">>) >>,
   alpha_refused |-> AlphaIntake \o << B(<<"unfortunately not eligible">>), B(<<"anything else?">>) >>,
   alpha_hung |-> SubSeq(AlphaIntake, 1, 4),
   bravo_paid |-> BravoIntake \o << B(<<"entitled to">>), B(<<"which country?">>),
     B(<<"paid by Interac">>), B(<<"please review">>), B(<<"submit your claim?">>),
     B(<<"claim submitted">>), B(<<"Case reference">>), B(<<"anything else?">>), C(<<"End chat">>) >>,
   bravo_refused |-> BravoIntake \o << B(<<"not eligible">>), C(<<"End chat">>) >>,
   bravo_open |-> BravoIntake \o << B(<<"can't review">>), C(<<"End chat">>) >>,
   bravo_review |-> BravoIntake \o << B(<<"can't review">>), B(<<"agent review">>),
     B(<<"Case reference">>), C(<<"End chat">>) >>,
   bravo_hung |-> SubSeq(BravoIntake, 1, 4)]
MCChat == DOMAIN MCTranscript
MCWording ==
  [chat \in MCChat |->
     IF chat = "silent" THEN None
     ELSE IF chat \in {"alpha_paid", "alpha_refused", "alpha_hung"} THEN "alpha" ELSE "bravo"]

Result(decision, amount, chat, error) ==
  [decision |-> decision, amount |-> amount, chat |-> chat, error |-> error,
   passed |-> error = "none"]

\* The Result of a case that went as it should.
Right(c) ==
  LET uc == MCExpected[c] IN
  CASE uc.status = "ELIGIBLE" -> Result("ELIGIBLE", uc.amount, "bravo_paid", "none")
    [] uc.status = "NO_DETERMINATION" -> Result("NO_DETERMINATION", NoAmount, "bravo_open", "none")
    [] uc.status = "PENDING" -> Result("ESCALATED", NoAmount, "bravo_review", "none")
    [] OTHER -> Result("NOT_ELIGIBLE", NoAmount, "bravo_refused", "end_probe_greeting_only")
Hung == Result("none", NoAmount, "bravo_hung", "max_turns_exhausted")
Lost == Result("UNRESOLVED", NoAmount, "silent", "connection refused")
Alpha(c) == [Right(c) EXCEPT !.chat = IF MCExpected[c].status = "ELIGIBLE"
                                      THEN "alpha_paid" ELSE "alpha_refused"]
Off(c) == [Right(c) EXCEPT !.amount.value = (11 * @) \div 10]
Near(c) == [Right(c) EXCEPT !.amount.value = (102 * @) \div 100]

Eight == MCCase \ {"zero"}
Only(cases, Of(_)) == [c \in cases |-> Of(c)]
But(run, changed, Of(_)) == [c \in DOMAIN run |-> IF c \in changed THEN Of(c) ELSE run[c]]
Good == Only(Eight, Right)
AllAlpha == Only(Eight, Alpha)

MCRun ==
  { Good, But(Good, {"a1"}, Off), But(Good, {"a1", "a2"}, Off), But(Good, {"pay"}, Off),
    But(Good, {"a3", "a4"}, Off), But(Good, {"a1", "pay"}, Near),
    But(Good, {"no"}, LAMBDA c : Right("a1")), But(Good, {"a1"}, LAMBDA c : Lost),
    But(Good, {"a1", "no", "wait"}, LAMBDA c : Hung), But(Good, {"open"}, LAMBDA c : Hung),
    AllAlpha, But(AllAlpha, {"a1", "a2", "a3"}, LAMBDA c : Lost),
    But(AllAlpha, {"no", "wait"}, LAMBDA c : Right("wait")),
    Only({"a1"}, Right), Only({"no", "open"}, Right), Only({"a1"}, Off),
    Only({}, Right), Only({"zero", "a1"}, Right), [c \in {"zero"} |-> Right("a1")] }
=============================================================================
