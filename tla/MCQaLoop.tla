------------------------------- MODULE MCQaLoop -------------------------------
(***************************************************************************)
(* QaLoop with two cases, one of the catalog and one cloned, each dealt    *)
(* one of a handful of cards.                                              *)
(***************************************************************************)
EXTENDS QaLoop

CONSTANTS m1, c1   \* the minted case and the cloned one

MCCase == {m1, c1}
MCAmount == {0, 175, 400, 520}
MCTier == {400}

C(regime, class) == [regime |-> regime, class |-> class]
Pay(currency, value) == [currency |-> currency, value |-> value]

Mint(gap, data, verdict, amount) ==
  [kind |-> "minted",
   uc |-> [gap |-> gap, data |-> data, verdict |-> verdict, status |-> None, amount |-> amount]]

\* A plain eligible case, one without a verdict, cases of several regimes that
\* are eligible on a foreign leg, one with a label for a code.
MCMinted ==
  { Mint(C("APPR", "EL"), None, "ELIGIBLE", Pay("CAD", 400)),
    Mint(C("APPR", "NE"), C("APPR", "NE"), None, Pay("CAD", 0)),
    Mint(C("MIXED", "NE"), C("MIXED", "NE"), "ELIGIBLE", Pay("GBP", 520)),
    Mint(C("DUP", "EL"), None, "ELIGIBLE", Pay("ILS", 175)),
    Mint(C("EDGE", "01"), C("EU", "ND"), "NO_DETERMINATION", None) }

Clone(regime, hint, amount) ==
  [kind |-> "cloned", regime |-> regime,
   meta |-> [code |-> None, amount |-> None, note |-> [hint |-> hint, amount |-> amount]]]

\* Notes with the amount of the family, with another one, and with none.
MCCloned ==
  { Clone("APPR", "UNKNOWN", Pay("CAD", 400)), Clone("EU", "UNKNOWN", Pay("EUR", 520)),
    Clone("APPR", "NOT_ELIGIBLE", None) }

MCDeck == [c \in MCCase |-> IF c = m1 THEN MCMinted ELSE MCCloned]

MCTold ==
  { [decision |-> "ELIGIBLE", amount |-> Pay("CAD", 400)],
    [decision |-> "ELIGIBLE", amount |-> Pay("EUR", 520)],
    [decision |-> "NOT_ELIGIBLE", amount |-> None] }

MCErrors == {"otp", "lookup_outage", "bedrock"}
=============================================================================
