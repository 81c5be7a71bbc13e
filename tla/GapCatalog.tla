------------------------------ MODULE GapCatalog ------------------------------
(***************************************************************************)
(* What the catalog reads from a feed's documents: the cards and the spine *)
(* of the gap docs (catalog/parser.py), the rows of the dataset that are   *)
(* joined to them, the hash of a case and the diff of two catalogs         *)
(* (catalog/diff.py); and what a seeded fixture hands on to the runner     *)
(* (seed/render.py, catalog/fixtures.py).                                  *)
(*                                                                         *)
(* A document is what the scraping finds in it. A system code is its class *)
(* and a number, a case id a name and a separator, a transcript its words  *)
(* and its blanks, a route its airports; of the columns that are only      *)
(* carried along the PNR stands for all.                                   *)
(***************************************************************************)
EXTENDS Naturals, Sequences, SequencesExt

CONSTANTS
  Numeral,  \* the numbers that texts of the amount column stand for
  Null

NoCode == [class |-> "", n |-> 0]
NoGrid == [is |-> "none"]
EmptySeed == [pnr |-> "", route |-> <<>>, code |-> NoCode, amount |-> Null, scenario |-> "", doc |-> ""]

\* _CLASS_VERDICT, and the same table of the fixtures, which knows DB as well.
ClassVerdict ==
  [EL |-> "ELIGIBLE", NE |-> "NOT_ELIGIBLE", ND |-> "NO_DETERMINATION", PE |-> "PENDING"]

VerdictOfCode(code) == IF code.class \in DOMAIN ClassVerdict THEN ClassVerdict[code.class] ELSE ""

-----------------------------------------------------------------------------
(* A card.                                                                   *)

\* A number where float reads one, else the text.
AmountOf(text) ==
  IF text = "" THEN Null
  ELSE IF text \in DOMAIN Numeral THEN [number |-> Numeral[text], text |-> ""]
  ELSE [number |-> 0, text |-> text]

\* The id column is skipped and a third-party column only sets the flag.
BuildSeed(cells) ==
  [EmptySeed EXCEPT !.pnr = cells.pnr, !.route = cells.route, !.code = cells.code,
                    !.amount = AmountOf(cells.amount)]

ThirdPartyCell(cells) == cells.tp # ""

\* content_hash: without the title and the third party.
ContentHash(uc) ==
  [seed |-> uc.seed, vector |-> uc.vector, verdict |-> uc.verdict, code |-> uc.code,
   says |-> uc.says]

Rehash(uc) == [uc EXCEPT !.hash = ContentHash(uc)]

ParseCard(card) ==
  LET pending == card.grid = NoGrid
      seed == IF pending THEN EmptySeed ELSE BuildSeed(card.grid)
  IN Rehash(
     [id |-> card.id,
      verdict |-> IF card.out # "" THEN card.out ELSE VerdictOfCode(card.code),
      code |-> card.code,
      title |-> card.title,
      third_party |-> card.arch = "thirdparty" \/ (~pending /\ ThirdPartyCell(card.grid)),
      vector |-> card.vector,
      says |-> card.says.words,
      seed |-> [seed EXCEPT !.scenario = card.arch],
      pending |-> pending,
      hash |-> Null])

ParseGapDoc(doc) ==
  [spine |-> doc.spine, cases |-> [i \in DOMAIN doc.cards |-> ParseCard(doc.cards[i])]]

-----------------------------------------------------------------------------
(* The dataset.                                                              *)

NormId(id) == id.name

\* The row of a case: the last of its id, else the last of its system code.
RowOf(uc, rows) ==
  LET byId == {i \in DOMAIN rows : NormId(rows[i].id) = NormId(uc.id)}
      byCode == {i \in DOMAIN rows : uc.code # NoCode /\ rows[i].cells.code = uc.code}
      hits == IF byId # {} THEN byId ELSE byCode
  IN IF hits = {} THEN NoGrid ELSE rows[Max(hits)].cells

\* The row's seed takes the place of the card's, but for scenario and group.
JoinCase(uc, rows) ==
  LET cells == RowOf(uc, rows)
  IN Rehash(IF cells = NoGrid THEN uc
            ELSE [uc EXCEPT !.seed = [BuildSeed(cells) EXCEPT !.scenario = uc.seed.scenario],
                            !.pending = FALSE,
                            !.third_party = @ \/ ThirdPartyCell(cells)])

JoinDataset(catalog, rows) ==
  [catalog EXCEPT !.cases = [i \in DOMAIN @ |-> JoinCase(@[i], rows)]]

-----------------------------------------------------------------------------
(* A feed of several documents.                                              *)

\* Faulty variant: the tag is part of the hash.
TagCaseHashed(uc, doc) == Rehash([uc EXCEPT !.seed.doc = doc])

\* The hash stays that of the untagged case.
TagCase(uc, doc) == [uc EXCEPT !.seed.doc = doc]

TagDoc(catalog, doc) == [catalog EXCEPT !.cases = [i \in DOMAIN @ |-> TagCase(@[i], doc)]]

MergeCatalogs(catalogs) ==
  [spine |-> UNION {catalogs[i].spine : i \in DOMAIN catalogs},
   cases |-> FlattenSeq([i \in DOMAIN catalogs |-> catalogs[i].cases])]

\* feed.docs names the documents in order, feed.dataset says whether there is one.
LoadCatalog(feed, docs, rows) ==
  LET parsed(d) == ParseGapDoc(docs[d])
      catalog == IF Len(feed.docs) = 1 THEN parsed(feed.docs[1])
                 ELSE MergeCatalogs([i \in DOMAIN feed.docs |-> TagDoc(parsed(feed.docs[i]), feed.docs[i])])
  IN IF feed.dataset THEN JoinDataset(catalog, rows) ELSE catalog

\* What `--diff` compares with: the one older document it is given.
OldCatalog(feed, doc, rows) ==
  IF feed.dataset THEN JoinDataset(ParseGapDoc(doc), rows) ELSE ParseGapDoc(doc)

-----------------------------------------------------------------------------
(* The diff.                                                                 *)

Ids(catalog) == {catalog.cases[i].id : i \in DOMAIN catalog.cases}

\* Of two cases with one id the last counts.
CaseOf(catalog, id) ==
  catalog.cases[Max({i \in DOMAIN catalog.cases : catalog.cases[i].id = id})]

Expected(uc) == [verdict |-> uc.verdict, code |-> uc.code, says |-> uc.says]

\* Faulty variant: a changed expectation hides changed data.
LabelExpectedFirst(old, new) ==
  IF old.hash = new.hash \/ ContentHash(old) = ContentHash(new) THEN "unchanged"
  ELSE IF Expected(old) # Expected(new) THEN "expected"
  ELSE IF old.seed # new.seed THEN "data"
  ELSE "checkpoint"

\* The label of a case: data before expectation before checkpoints.
Label(old, new) ==
  IF old.hash = new.hash \/ ContentHash(old) = ContentHash(new) THEN "unchanged"
  ELSE IF old.seed # new.seed THEN "data"
  ELSE IF Expected(old) # Expected(new) THEN "expected"
  ELSE "checkpoint"

\* A spine checkpoint that comes or goes flags the cases that refer to it, in
\* addition to their label.
Diff(old, new) ==
  LET common == Ids(old) \cap Ids(new)
      with(label) == {c \in common : Label(CaseOf(old, c), CaseOf(new, c)) = label}
      moved == (old.spine \ new.spine) \cup (new.spine \ old.spine)
      flagged == {c \in common : \E ref \in CaseOf(new, c).vector : ref.id \in moved}
  IN [added |-> Ids(new) \ Ids(old), removed |-> Ids(old) \ Ids(new),
      data_changed |-> with("data"), expected_changed |-> with("expected"),
      checkpoint_changed |-> with("checkpoint") \cup flagged,
      unchanged |-> with("unchanged") \ flagged]

ToSeed(changes) == changes.added \cup changes.data_changed
ToRun(changes) == changes.added \cup changes.data_changed \cup changes.expected_changed

-----------------------------------------------------------------------------
(* From the catalog to the fixture and back.                                 *)

\* The delay: the title's band, else the tier of the amount.
Tier(number) == IF number = 700 THEN 400 ELSE IF number = 1000 THEN 600 ELSE 240

DelayMinutes(uc) ==
  IF uc.title = "Delay 9+" THEN 600
  ELSE IF uc.seed.amount = Null THEN Tier(0) ELSE Tier(uc.seed.amount.number)

DisruptionClass == {"EL", "NE", "ND", "PE", "DB"}

\* What seed_all seeds: bound data, and a code of a disruption, the seed's
\* before the card's.
Seedable(uc) ==
  /\ ~uc.pending /\ uc.seed.pnr # ""
  /\ (IF uc.seed.code # NoCode THEN uc.seed.code ELSE uc.code).class \in DisruptionClass

\* The route of the base booking.
BaseRoute == <<"YYZ", "LHR">>

Reair(codes, from, to) == [i \in DOMAIN codes |-> IF codes[i] = from THEN to ELSE codes[i]]

\* Faulty variant: the destination first.
BookedDestinationFirst(route) ==
  LET new == IF route = <<>> THEN BaseRoute ELSE route
  IN Reair(Reair(BaseRoute, BaseRoute[2], new[2]), BaseRoute[1], new[1])

\* The airports of the rendered booking: the origin is replaced wherever it
\* stands, then the destination, in what the first replacement has left.
Booked(route) ==
  LET new == IF route = <<>> THEN BaseRoute ELSE route
  IN Reair(Reair(BaseRoute, BaseRoute[1], new[1]), BaseRoute[2], new[2])

\* Faulty variant: the code of the dataset goes before the card's.
MetaOfSeed(uc) ==
  [system_code |-> IF uc.seed.code # NoCode THEN uc.seed.code ELSE uc.code,
   third_party |-> uc.third_party, scenario |-> uc.seed.scenario,
   amount |-> uc.seed.amount, delay |-> DelayMinutes(uc), booked |-> Booked(uc.seed.route)]

\* meta.json of the rendered fixture, with what its booking and its leg were
\* rendered to.
MetaOf(uc) ==
  [system_code |-> IF uc.code # NoCode THEN uc.code ELSE uc.seed.code,
   third_party |-> uc.third_party, scenario |-> uc.seed.scenario,
   amount |-> uc.seed.amount, delay |-> DelayMinutes(uc), booked |-> Booked(uc.seed.route)]

\* What the note of the base template, "CAD 400 cash", says.
NoteAmount == [number |-> 400, text |-> ""]

\* The case the runner judges by: an amount that is no number gives way to the
\* note's, a code without a verdict to what the note implies.
FixtureCase(meta) ==
  LET coded == IF meta.system_code.class = "DB" THEN "ELIGIBLE" ELSE VerdictOfCode(meta.system_code)
      amount == IF meta.amount = Null \/ meta.amount.text # "" THEN NoteAmount ELSE meta.amount
      verdict == IF coded # "" THEN coded ELSE "ELIGIBLE"
  IN [verdict |-> verdict, amount |-> IF verdict = "ELIGIBLE" THEN amount ELSE Null,
      third_party |-> meta.third_party \/ meta.scenario = "thirdparty"]
=============================================================================
