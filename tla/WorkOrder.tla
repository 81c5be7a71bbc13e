------------------------------- MODULE WorkOrder -------------------------------
(***************************************************************************)
(* The gap docs as living documents: people edit them and the dataset,     *)
(* `cctqa catalog --diff` compares the kept version with the present one,  *)
(* and its ChangeSet is the work order: what is added or has changed data  *)
(* is seeded anew, and with it what has a changed expectation is run.      *)
(* The seeder reads the documents once more when it starts, and the runner *)
(* judges a case by the fixture that was seeded for it.                    *)
(***************************************************************************)
EXTENDS GapCatalog

CONSTANTS
  Feeds,       \* the kinds of feeds: one document with or without dataset, or two
  BaseDocs,    \* the first version of the documents of each feed
  BaseRows,    \* the first version of the dataset
  CardEdit,    \* what an edit puts into the fields of a card
  CellEdit,    \* what an edit puts into the cells of a grid or row
  Edited,      \* the names whose cards and rows are edited or dropped
  NewCards,    \* cards that can be added
  Checkpoint,  \* the checkpoints of the spine
  MaxEdits     \* bound on the edits

CardField == {"id", "arch", "out", "code", "title", "vector", "says", "grid"}
CellField == {"pnr", "route", "code", "amount", "tp"}

IsList(s) == Len(s) \in Nat /\ s \in [1 .. Len(s) -> {s[i] : i \in 1 .. Len(s)}]
IsRoute(route) == route = <<>> \/ route = <<route[1], route[2]>>
IsCells(cells) == DOMAIN cells = CellField /\ IsRoute(cells.route)
IsGrid(grid) == grid = NoGrid \/ IsCells(grid)
IsSays(says) == DOMAIN says = {"words", "blanks"}
IsCard(card) == DOMAIN card = CardField /\ IsGrid(card.grid) /\ IsSays(card.says)
IsRow(row) == DOMAIN row = {"id", "cells"} /\ IsCells(row.cells)
IsDoc(doc) ==
  /\ DOMAIN doc = {"spine", "cards"} /\ doc.spine \subseteq Checkpoint
  /\ IsList(doc.cards) /\ \A i \in DOMAIN doc.cards : IsCard(doc.cards[i])

\* No case id is used twice, not even in two documents of a feed.
UniqueIds(D) ==
  \A d, e \in DOMAIN D : \A i \in DOMAIN D[d].cards, j \in DOMAIN D[e].cards :
    D[d].cards[i].id = D[e].cards[j].id => d = e /\ i = j

\* As in core/registry/feeds: the feed that has a dataset has one document, and
\* of a feed with several "case ids already disambiguate by convention".
ASSUME FeedsAssumption ==
  \A f \in Feeds :
    /\ Len(f.docs) \in Nat \ {0} /\ f.docs \in [1 .. Len(f.docs) -> DOMAIN BaseDocs]
    /\ \A i, j \in DOMAIN f.docs : f.docs[i] = f.docs[j] => i = j
    /\ f.dataset \in BOOLEAN /\ (f.dataset => Len(f.docs) = 1)
    /\ UniqueIds([d \in {f.docs[i] : i \in DOMAIN f.docs} |-> BaseDocs[d]])

ASSUME BaseAssumption ==
  /\ \A d \in DOMAIN BaseDocs : IsDoc(BaseDocs[d])
  /\ IsList(BaseRows) /\ \A i \in DOMAIN BaseRows : IsRow(BaseRows[i])

\* An edit changes anything but the id of a card.
ASSUME EditsAssumption ==
  /\ MaxEdits \in Nat
  /\ DOMAIN CardEdit \subseteq CardField \ {"id"} /\ DOMAIN CellEdit \subseteq CellField
  /\ \A field \in DOMAIN CardEdit : \A value \in CardEdit[field] :
       /\ field = "grid" => IsGrid(value)
       /\ field = "says" => IsSays(value)
  /\ \A cell \in DOMAIN CellEdit : \A value \in CellEdit[cell] : cell = "route" => IsRoute(value)
  /\ \A card \in NewCards : IsCard(card)

VARIABLES
  feed,     \* which feed this is
  docs,     \* its gap docs as they are now
  rows,     \* the rows of the dataset as they are now
  edits,    \* how often either was edited
  rev,      \* the edit that last changed the dataset
  kept,     \* the version the last finished order was made from
  order,    \* the order under way, with the version it was made from
  visit,    \* the case the seeder last saw under an id, and whether it was as ordered
  fixture,  \* the meta.json last seeded for it
  ran       \* what its last run was judged by

WOvars == <<feed, docs, rows, edits, rev, kept, order, visit, fixture, ran>>
written == <<docs, rows, edits, rev>>
made == <<visit, fixture, ran>>

\* The function old, overwritten by new.
Over(new, old) ==
  [x \in DOMAIN new \cup DOMAIN old |-> IF x \in DOMAIN new THEN new[x] ELSE old[x]]

NoVersion == [docs |-> <<>>, rev |-> 0]
NoOrder == [is |-> "none"]
Doc == {feed.docs[i] : i \in DOMAIN feed.docs}
Now == LoadCatalog(feed, docs, rows)

WOInit ==
  /\ feed \in Feeds
  /\ docs = [d \in Doc |-> BaseDocs[d]]
  /\ rows = IF feed.dataset THEN BaseRows ELSE <<>>
  /\ edits = 0 /\ rev = 0
  /\ kept = NoVersion /\ order = NoOrder
  /\ visit = <<>> /\ fixture = <<>> /\ ran = <<>>

-----------------------------------------------------------------------------
(* The documents.                                                            *)

\* The documents are as they are at first until the first order is made from them.
Edit ==
  /\ kept # NoVersion \/ order # NoOrder
  /\ edits < MaxEdits /\ edits' = edits + 1
  /\ UNCHANGED <<feed, kept, order, made>>

EditCard ==
  /\ \E d \in Doc : \E i \in DOMAIN docs[d].cards :
       /\ docs[d].cards[i].id.name \in Edited
       /\ \/ \E field \in DOMAIN CardEdit : \E value \in CardEdit[field] :
               docs' = [docs EXCEPT ![d].cards[i] = [@ EXCEPT ![field] = value]]
          \/ /\ docs[d].cards[i].grid # NoGrid
             /\ \E cell \in DOMAIN CellEdit : \E value \in CellEdit[cell] :
                  docs' = [docs EXCEPT ![d].cards[i].grid = [@ EXCEPT ![cell] = value]]
  /\ docs' # docs
  /\ Edit /\ UNCHANGED <<rows, rev>>

AddCard ==
  /\ \E d \in Doc : \E card \in NewCards :
       /\ \A e \in Doc : \A i \in DOMAIN docs[e].cards : docs[e].cards[i].id # card.id
       /\ docs' = [docs EXCEPT ![d].cards = Append(@, card)]
  /\ Edit /\ UNCHANGED <<rows, rev>>

DropCard ==
  /\ \E d \in Doc : \E i \in DOMAIN docs[d].cards :
       /\ docs[d].cards[i].id.name \in Edited
       /\ docs' = [docs EXCEPT ![d].cards = RemoveAt(@, i)]
  /\ Edit /\ UNCHANGED <<rows, rev>>

EditSpine ==
  /\ \E d \in Doc : \E cp \in Checkpoint :
       docs' = [docs EXCEPT ![d].spine = IF cp \in @ THEN @ \ {cp} ELSE @ \cup {cp}]
  /\ Edit /\ UNCHANGED <<rows, rev>>

EditRow ==
  /\ \E i \in DOMAIN rows : \E cell \in DOMAIN CellEdit : \E value \in CellEdit[cell] :
       /\ rows[i].id.name \in Edited
       /\ rows' = [rows EXCEPT ![i].cells = [@ EXCEPT ![cell] = value]]
  /\ rows' # rows /\ rev' = edits + 1
  /\ Edit /\ UNCHANGED docs

-----------------------------------------------------------------------------
(* The order.                                                                *)

\* The first catalog has nothing to be compared with: all of it is new.
FirstChanges ==
  [added |-> Ids(Now), removed |-> {}, data_changed |-> {}, expected_changed |-> {},
   checkpoint_changed |-> {}, unchanged |-> {}]

\* run_catalog: `--diff` is given one older document.
RunCatalog ==
  /\ order = NoOrder
  /\ \/ /\ kept = NoVersion
        /\ order' = [is |-> "seed", changes |-> FirstChanges, of |-> Null, docs |-> docs, rev |-> rev]
     \/ /\ kept # NoVersion /\ [docs |-> docs, rev |-> rev] # kept
        /\ \E d \in Doc :
             order' = [is |-> "seed", changes |-> Diff(OldCatalog(feed, kept.docs[d], rows), Now),
                       of |-> d, docs |-> docs, rev |-> rev]
  /\ UNCHANGED <<feed, kept, written, made>>

\* What the seeder sees under an id, and a case it does not see any more although
\* it is asked for it.
See(id) ==
  [case |-> CaseOf(Now, id), rev |-> rev, ordered |-> docs = order.docs /\ rev = order.rev]
Miss(seen, missed) == [seen EXCEPT !.ordered = @ /\ ~missed]

\* Faulty variant: it seeds all it can.
SeedAllWhole ==
  /\ order # NoOrder /\ order.is = "seed"
  /\ LET asked == {NormId(id) : id \in ToSeed(order.changes)}
         ids == {id \in Ids(Now) : NormId(id) \in asked}
         seeds == {id \in Ids(Now) : Seedable(CaseOf(Now, id))}
     IN /\ visit' = Over([id \in ids |-> See(id)],
                         [id \in DOMAIN visit |-> Miss(visit[id], NormId(id) \in asked)])
        /\ fixture' = Over([id \in seeds |-> MetaOf(CaseOf(Now, id))], fixture)
  /\ order' = [order EXCEPT !.is = "run"]
  /\ UNCHANGED <<feed, kept, ran, written>>

\* seed_all over the cases of the order that are there when it starts; with
\* what it cannot seed it does nothing but say so.  A re-seed mints another
\* locator: that its fixture takes the place of the earlier one supposes that the
\* run is given the locators the seeder printed, or a new clone directory.
SeedAll ==
  /\ order # NoOrder /\ order.is = "seed"
  /\ LET asked == {NormId(id) : id \in ToSeed(order.changes)}
         ids == {id \in Ids(Now) : NormId(id) \in asked}
         seeds == {id \in ids : Seedable(CaseOf(Now, id))}
     IN /\ visit' = Over([id \in ids |-> See(id)],
                         [id \in DOMAIN visit |-> Miss(visit[id], NormId(id) \in asked)])
        /\ fixture' = Over([id \in seeds |-> MetaOf(CaseOf(Now, id))], fixture)
  /\ order' = [order EXCEPT !.is = "run"]
  /\ UNCHANGED <<feed, kept, ran, written>>

\* run_run over the fixtures of the order's cases.
RunRun ==
  /\ order # NoOrder /\ order.is = "run"
  /\ LET asked == {NormId(id) : id \in ToRun(order.changes)}
         ids == {id \in DOMAIN fixture : NormId(id) \in asked}
     IN ran' = Over([id \in ids |-> FixtureCase(fixture[id])], ran)
  /\ kept' = [docs |-> order.docs, rev |-> order.rev]
  /\ order' = NoOrder
  /\ UNCHANGED <<feed, visit, fixture, written>>

WONext == EditCard \/ AddCard \/ DropCard \/ EditSpine \/ EditRow \/ RunCatalog \/ SeedAll \/ RunRun

WOSpec == WOInit /\ [][WONext]_WOvars

-----------------------------------------------------------------------------
(* Correctness.                                                              *)

Bucket == {"added", "removed", "data_changed", "expected_changed", "checkpoint_changed", "unchanged"}

WOTypeOK ==
  /\ feed \in Feeds
  /\ DOMAIN docs = Doc /\ \A d \in Doc : docs[d].spine \subseteq Checkpoint
  /\ edits \in 0 .. MaxEdits /\ rev \in 0 .. edits
  /\ kept.rev <= rev
  /\ order # NoOrder => order.is \in {"seed", "run"} /\ DOMAIN order.changes = Bucket
  /\ DOMAIN ran \subseteq DOMAIN fixture /\ DOMAIN fixture \subseteq DOMAIN visit

\* The order is finished and nobody has edited a document since.
Settled == order = NoOrder /\ kept # NoVersion /\ docs = kept.docs

\* The seeder last saw the case as ordered, with the dataset of today.
Seen(id) == id \in DOMAIN visit /\ visit[id].ordered /\ visit[id].rev = rev

\* Every case is in a bucket: the unchanged are in no other, and a case that has
\* changed data or expectation can only be flagged for its checkpoints as well.
Buckets ==
  order # NoOrder =>
    LET b == order.changes
        flagged == b.checkpoint_changed
    IN /\ \A x, y \in Bucket \ {"checkpoint_changed"} : x # y => b[x] \cap b[y] = {}
       /\ flagged \cap (b.added \cup b.removed \cup b.unchanged) = {}
       /\ docs = order.docs /\ rev = order.rev =>
            Ids(Now) = b.added \cup b.data_changed \cup b.expected_changed \cup flagged \cup b.unchanged

Untagged(seed) == [seed EXCEPT !.doc = ""]

\* Once the order is done, the seeder has last seen every case with the data it
\* has in the documents, but for cases it saw in a version newer than the order
\* or did not find when it was asked for them, and for edits of the dataset,
\* which the diff joins to both versions.
EveryChangeSeen ==
  Settled =>
    \A id \in Ids(Now) : Seen(id) => Untagged(visit[id].case.seed) = Untagged(CaseOf(Now, id).seed)

\* No change is lost, neither between the buckets of an order nor between the
\* order and the environment.
NoChangeLost == Buckets /\ EveryChangeSeen

\* No fixture is left unrun by the order that seeded it.
RunAsSeeded ==
  order = NoOrder => DOMAIN ran = DOMAIN fixture /\ \A id \in DOMAIN ran : ran[id] = FixtureCase(fixture[id])

\* A run judges a case by the verdict the card is read with, except where the
\* expectation has changed since the fixture was seeded, where the card states
\* a verdict that its code does not, and where its code states none.
JudgedAsRead ==
  Settled =>
    \A id \in Ids(Now) \cap DOMAIN ran :
      LET case == CaseOf(Now, id)
      IN /\ Seen(id) /\ Seedable(case) /\ Expected(visit[id].case) = Expected(case)
         /\ case.verdict = VerdictOfCode(case.code) /\ case.verdict # ""
         => ran[id].verdict = case.verdict

\* A card of the third-party kind is run by somebody who files for another,
\* with the fixture made of it.
ThirdPartyFiles ==
  Settled =>
    \A d \in Doc : \A i \in DOMAIN docs[d].cards :
      LET card == docs[d].cards[i]
      IN card.arch = "thirdparty" /\ card.id \in DOMAIN ran /\ Seen(card.id)
           /\ Seedable(visit[card.id].case) => ran[card.id].third_party

\* What is run is what the card says: its fixture, verdict and claimant.
RunAsRead == RunAsSeeded /\ JudgedAsRead /\ ThirdPartyFiles

\* The delay that is flown belongs to the amount the run expects, unless the
\* title names a delay of its own.
DelayFitsAmount ==
  \A id \in DOMAIN ran :
    order = NoOrder /\ ran[id].verdict = "ELIGIBLE"
      /\ Seedable(visit[id].case) /\ visit[id].case.title # "Delay 9+"
      => fixture[id].delay = Tier(ran[id].amount.number)

\* A rendered booking flies the route of its case, unless that starts where the
\* base booking ends: then its new origin is replaced once more.
FliesItsRoute ==
  \A id \in DOMAIN fixture :
    LET case == visit[id].case
    IN Seedable(case) /\ case.seed.route # <<>> /\ case.seed.route[1] # BaseRoute[2]
         => fixture[id].booked = case.seed.route

\* The rendered flight is the one the expectation is about.
FixtureFits == DelayFitsAmount /\ FliesItsRoute

\* What an author may change without effect: the title, the blanks of the
\* transcript, the spelling of an amount.
CosmeticGrid(grid) ==
  IF grid = NoGrid THEN NoGrid ELSE [grid EXCEPT !.amount = AmountOf(grid.amount)]

Cosmetic(card) ==
  [card EXCEPT !.title = "", !.says = [card.says EXCEPT !.blanks = 0], !.grid = CosmeticGrid(card.grid)]

SameCard(old, new) == Cosmetic(old) = Cosmetic(new)

\* A card of the compared document that was edited in looks only is neither
\* seeded nor run again.
NoIdleWork ==
  order # NoOrder /\ order.of # Null =>
    \A i \in DOMAIN kept.docs[order.of].cards : \A j \in DOMAIN order.docs[order.of].cards :
      LET old == kept.docs[order.of].cards[i]
          new == order.docs[order.of].cards[j]
      IN old.id = new.id /\ SameCard(old, new)
           => old.id \notin ToSeed(order.changes) \cup ToRun(order.changes)
=============================================================================
