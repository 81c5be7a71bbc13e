-------------------------- MODULE AroundBatchProofs ---------------------------
(***************************************************************************)
(* Theorems about what stands before and after a batch of runs: WorkOrder, *)
(* which decides from the edited documents what is seeded and run, and     *)
(* JiraFiling, which files what the runs found. The two share no state.    *)
(*                                                                         *)
(* Those about WorkOrder hold for every set of feeds, documents, rows and  *)
(* edits that its assumptions admit, those about JiraFiling for every set  *)
(* of commands, keys and ledgers, every number of defects and every limit. *)
(***************************************************************************)
EXTENDS JiraFiling, WorkOrder, FiniteSetTheorems, WellFoundedInduction, TLAPS

(***************************************************************************)
(* Least and largest numbers, lists of lists. No operator is a parameter   *)
(* here: what holds for every number is proved by the least that fails.    *)
(***************************************************************************)
(* A set of natural numbers has a least one. *)
LEMMA LeastOf ==
  ASSUME NEW T \in SUBSET Nat, T # {}
  PROVE  \E m \in T : \A y \in T : m <= y
<1> DEFINE Less == OpToRel(<, Nat)
<1>1. IsWellFoundedOn(Less, Nat)
  BY NatLessThanWellFounded
<1>2. \A ss : ss \in Less <=> ss \in Nat \X Nat /\ ss[1] < ss[2]
  BY Zenon DEF OpToRel
<1> HIDE DEF Less
<1>3. PICK m \in T : \A y \in T : <<y, m>> \notin Less
  BY <1>1, WFMin
<1>4. ASSUME NEW y \in T PROVE m <= y
  <2>1. ~(<<y, m>>[1] < <<y, m>>[2])
    BY <1>2, <1>3
  <2> QED BY <2>1
<1> QED BY <1>4

(* The largest of some of the first n numbers is one of them. *)
LEMMA MaxIn ==
  ASSUME NEW n \in Nat, NEW T \in SUBSET (1 .. n), T # {}
  PROVE  Max(T) \in T
<1>1. PICK m \in {n - x : x \in T} : \A y \in {n - x : x \in T} : m <= y
  <2>1. \A x \in T : n - x \in Nat
    OBVIOUS
  <2>2. {n - x : x \in T} \in SUBSET Nat
    BY <2>1
  <2>3. {n - x : x \in T} # {}
    OBVIOUS
  <2> QED BY <2>2, <2>3, LeastOf
<1>2. PICK x \in T : m = n - x
  BY <1>1
<1>3. \A y \in T : x >= y
  <2> SUFFICES ASSUME NEW y \in T PROVE x >= y
    OBVIOUS
  <2>1. m <= n - y
    BY <1>1
  <2> QED BY <1>2, <2>1
<1> QED BY <1>3 DEF Max

(* The list that FlattenSeq chooses step by step exists. *)
LEMMA FlattenStep ==
  ASSUME NEW seqs, NEW n \in Nat \ {0}
  PROVE  \E f : f = [i \in 1 .. n |-> IF i = 1 THEN seqs[i] ELSE f[i - 1] \o seqs[i]]
<1> DEFINE Fits(k, f) == f = [i \in 1 .. k |-> IF i = 1 THEN seqs[i] ELSE f[i - 1] \o seqs[i]]
<1> DEFINE Bad == {k \in Nat \ {0} : ~ \E f : Fits(k, f)}
<1>1. SUFFICES ASSUME Bad # {} PROVE FALSE
  BY DEF Fits
<1>2. PICK k \in Bad : \A y \in Bad : k <= y
  BY <1>1, LeastOf
<1>3. k # 1
  <2>1. Fits(1, [i \in 1 .. 1 |-> seqs[i]])
    OBVIOUS
  <2> QED BY <2>1
<1>4. k - 1 \in Nat \ {0} /\ k - 1 \notin Bad
  <2>1. k \in Nat \ {0}
    BY <1>2
  <2> HIDE DEF Bad
  <2>2. k - 1 \in Bad => k <= k - 1
    BY <1>2
  <2> QED BY <1>3, <2>1, <2>2
<1>5. PICK g : Fits(k - 1, g)
  BY <1>4
<1> DEFINE f == [i \in 1 .. k |-> IF i = 1 THEN seqs[i] ELSE g[i - 1] \o seqs[i]]
<1>6. \A i \in 1 .. (k - 1) : f[i] = g[i]
  <2> SUFFICES ASSUME NEW i \in 1 .. (k - 1) PROVE f[i] = g[i]
    OBVIOUS
  <2>1. g[i] = IF i = 1 THEN seqs[i] ELSE g[i - 1] \o seqs[i]
    BY <1>5
  <2>2. i \in 1 .. k
    BY <1>4
  <2> QED BY <2>1, <2>2
<1>7. ASSUME NEW i \in 1 .. k
      PROVE  (IF i = 1 THEN seqs[i] ELSE g[i - 1] \o seqs[i]) = (IF i = 1 THEN seqs[i] ELSE f[i - 1] \o seqs[i])
  <2>1. i # 1 => i - 1 \in 1 .. (k - 1)
    BY <1>4
  <2> HIDE DEF f
  <2> QED BY <2>1, <1>6
<1>8. Fits(k, f)
  <2> HIDE DEF f
  <2>1. f = [i \in 1 .. k |-> IF i = 1 THEN seqs[i] ELSE f[i - 1] \o seqs[i]]
    <3>1. f = [i \in 1 .. k |-> IF i = 1 THEN seqs[i] ELSE g[i - 1] \o seqs[i]]
      BY DEF f
    <3> QED BY <3>1, <1>7
  <2> QED BY <2>1
<1> QED BY <1>8, <1>2

(* What FlattenSeq makes of a list of lists holds their elements and no more. *)
Holds(s, seqs, n) ==
  /\ \A k \in DOMAIN s : \E i \in 1 .. n : \E j \in DOMAIN seqs[i] : s[k] = seqs[i][j]
  /\ \A i \in 1 .. n : \A j \in DOMAIN seqs[i] : \E k \in DOMAIN s : s[k] = seqs[i][j]

LEMMA HoldsMore ==
  ASSUME NEW S, NEW seqs, NEW n \in Nat, n >= 2, NEW s \in Seq(S), Holds(s, seqs, n - 1),
         seqs[n] \in Seq(S)
  PROVE  s \o seqs[n] \in Seq(S) /\ Holds(s \o seqs[n], seqs, n)
<1> DEFINE t == seqs[n]
<1> DEFINE u == s \o t
<1>1. u \in Seq(S) /\ Len(u) = Len(s) + Len(t) /\ t \in Seq(S)
  OBVIOUS
<1>2. \A k \in 1 .. Len(s) : u[k] = s[k]
  OBVIOUS
<1>3. \A k \in 1 .. Len(t) : u[Len(s) + k] = t[k]
  OBVIOUS
<1>4. DOMAIN s = 1 .. Len(s) /\ DOMAIN t = 1 .. Len(t) /\ DOMAIN u = 1 .. Len(u)
  BY <1>1
<1>5. Len(s) \in Nat /\ Len(t) \in Nat
  BY <1>1
<1> HIDE DEF u
<1>6. ASSUME NEW k \in DOMAIN u
      PROVE  \E i \in 1 .. n : \E j \in DOMAIN seqs[i] : u[k] = seqs[i][j]
  <2>1. CASE k <= Len(s)
    <3>1. k \in DOMAIN s /\ u[k] = s[k]
      BY <1>2, <1>4, <2>1
    <3>2. PICK i \in 1 .. n - 1 : \E j \in DOMAIN seqs[i] : s[k] = seqs[i][j]
      BY <3>1 DEF Holds
    <3>3. i \in 1 .. n
      OBVIOUS
    <3> QED BY <3>1, <3>2, <3>3
  <2>2. CASE ~(k <= Len(s))
    <3>1. k - Len(s) \in 1 .. Len(t) /\ k = Len(s) + (k - Len(s))
      BY <1>1, <1>4, <1>5, <2>2
    <3>2. u[k] = t[k - Len(s)]
      BY <1>3, <3>1
    <3>3. n \in 1 .. n
      OBVIOUS
    <3> QED BY <3>1, <3>2, <3>3, <1>4
  <2> QED BY <2>1, <2>2
<1>7. ASSUME NEW i \in 1 .. n, NEW j \in DOMAIN seqs[i]
      PROVE  \E k \in DOMAIN u : u[k] = seqs[i][j]
  <2>1. CASE i = n
    <3>1. j \in 1 .. Len(t)
      BY <1>4, <2>1
    <3>2. Len(s) + j \in DOMAIN u /\ u[Len(s) + j] = t[j]
      BY <1>1, <1>3, <1>4, <1>5, <3>1
    <3> QED BY <3>2, <2>1
  <2>2. CASE i # n
    <3>1. i \in 1 .. n - 1
      BY <2>2
    <3>2. PICK k \in DOMAIN s : s[k] = seqs[i][j]
      BY <3>1 DEF Holds
    <3>3. k \in DOMAIN u /\ u[k] = s[k]
      BY <1>1, <1>2, <1>4, <1>5
    <3> QED BY <3>2, <3>3
  <2> QED BY <2>1, <2>2
<1> QED BY <1>1, <1>6, <1>7 DEF Holds, u

LEMMA FlattenHolds ==
  ASSUME NEW S, NEW n \in Nat \ {0}, NEW seqs \in [1 .. n -> Seq(S)]
  PROVE  FlattenSeq(seqs) \in Seq(S) /\ Holds(FlattenSeq(seqs), seqs, n)
<1> DEFINE flat ==
      CHOOSE f : f = [i \in 1 .. n |-> IF i = 1 THEN seqs[i] ELSE f[i - 1] \o seqs[i]]
<1> DEFINE Bad == {m \in 1 .. n : ~(flat[m] \in Seq(S) /\ Holds(flat[m], seqs, m))}
<1>1. Len(seqs) = n
  OBVIOUS
<1>2. FlattenSeq(seqs) = flat[n]
  BY <1>1 DEF FlattenSeq
<1>3. flat = [i \in 1 .. n |-> IF i = 1 THEN seqs[i] ELSE flat[i - 1] \o seqs[i]]
  BY FlattenStep
<1> HIDE DEF flat
<1>4. flat[1] = seqs[1]
  BY <1>3
<1>5. ASSUME NEW m \in 2 .. n
      PROVE  flat[m] = flat[m - 1] \o seqs[m]
  <2>1. m \in 1 .. n /\ m # 1
    OBVIOUS
  <2> QED BY <1>3, <2>1
<1>6. Bad = {}
  <2>1. SUFFICES ASSUME Bad # {} PROVE FALSE
    OBVIOUS
  <2>2. Bad \in SUBSET Nat
    OBVIOUS
  <2>3. PICK m \in Bad : \A y \in Bad : m <= y
    BY <2>1, <2>2, LeastOf
  <2>4. CASE m = 1
    <3>1. flat[1] \in Seq(S)
      BY <1>4
    <3>2. Holds(flat[1], seqs, 1)
      BY <1>4 DEF Holds
    <3> QED BY <2>3, <2>4, <3>1, <3>2
  <2>5. CASE m # 1
    <3>1. m \in 2 .. n /\ m - 1 \in 1 .. n
      BY <2>3, <2>5
    <3>2. m - 1 \notin Bad
      <4> HIDE DEF Bad
      <4> QED BY <2>3, <3>1
    <3>3. flat[m - 1] \in Seq(S) /\ Holds(flat[m - 1], seqs, m - 1)
      BY <3>1, <3>2
    <3>4. seqs[m] \in Seq(S) /\ m \in Nat /\ m >= 2
      BY <3>1
    <3>5. flat[m] = flat[m - 1] \o seqs[m]
      BY <1>5, <3>1
    <3> HIDE DEF Bad
    <3>6. flat[m] \in Seq(S) /\ Holds(flat[m], seqs, m)
      BY <3>3, <3>4, <3>5, HoldsMore
    <3> QED BY <2>3, <3>6 DEF Bad
  <2> QED BY <2>4, <2>5
<1>7. n \in 1 .. n
  OBVIOUS
<1> QED BY <1>2, <1>6, <1>7

(***************************************************************************)
(* WorkOrder: what a card and a row are read to, and what a catalog holds. *)
(***************************************************************************)
SeedField == {"pnr", "route", "code", "amount", "scenario", "doc"}
CaseField == {"id", "verdict", "code", "title", "third_party", "vector", "says", "seed", "pending", "hash"}

IsRows(r) == IsList(r) /\ \A i \in DOMAIN r : IsRow(r[i])

(* An amount that is only a text counts as no number. *)
IsAmount(amount) == amount = Null \/ amount.text = "" \/ amount.number = 0

IsSeed(seed) == DOMAIN seed = SeedField /\ IsAmount(seed.amount) /\ IsRoute(seed.route)

(* A seed without the tag of a document. *)
IsBare(seed) == seed.doc = ""

IsCase(uc) ==
  /\ DOMAIN uc = CaseField /\ IsSeed(uc.seed)
  /\ uc.pending => uc.seed.pnr = ""

LEMMA AmountRead == ASSUME NEW text PROVE IsAmount(AmountOf(text))
BY DEF AmountOf, IsAmount

LEMMA SeedBuilt ==
  ASSUME NEW cells, IsCells(cells)
  PROVE  /\ IsSeed(BuildSeed(cells)) /\ IsBare(BuildSeed(cells))
         /\ BuildSeed(cells).pnr = cells.pnr /\ BuildSeed(cells).code = cells.code
         /\ BuildSeed(cells).route = cells.route /\ BuildSeed(cells).amount = AmountOf(cells.amount)
<1> DEFINE b == BuildSeed(cells)
<1>1. /\ DOMAIN b = SeedField /\ IsBare(b) /\ b.pnr = cells.pnr /\ b.code = cells.code
      /\ b.route = cells.route /\ b.amount = AmountOf(cells.amount)
  BY DEF BuildSeed, EmptySeed, SeedField, IsBare
<1> HIDE DEF b
<1>2. IsRoute(cells.route)
  BY DEF IsCells
<1> QED BY <1>1, <1>2, AmountRead DEF IsSeed, b

LEMMA SeedEmpty == IsSeed(EmptySeed) /\ IsBare(EmptySeed) /\ EmptySeed.pnr = ""
BY DEF EmptySeed, IsSeed, SeedField, IsAmount, IsRoute, IsBare

LEMMA ScenarioSet ==
  ASSUME NEW seed, IsSeed(seed), NEW s
  PROVE  /\ IsSeed([seed EXCEPT !.scenario = s])
         /\ [seed EXCEPT !.scenario = s].scenario = s
         /\ [seed EXCEPT !.scenario = s].pnr = seed.pnr
         /\ IsBare(seed) => IsBare([seed EXCEPT !.scenario = s])
BY DEF IsSeed, SeedField, IsBare

(* The case of a card. *)
LEMMA CardParsed ==
  ASSUME NEW card, IsCard(card), NEW c, c = ParseCard(card)
  PROVE  /\ IsCase(c) /\ c.id = card.id /\ c.hash = ContentHash(c) /\ c.code = card.code
         /\ c.verdict = (IF card.out # "" THEN card.out ELSE VerdictOfCode(card.code))
         /\ c.vector = card.vector /\ c.says = card.says.words
         /\ c.seed = [IF card.grid = NoGrid THEN EmptySeed ELSE BuildSeed(card.grid)
                        EXCEPT !.scenario = card.arch]
         /\ c.seed.scenario = card.arch /\ IsBare(c.seed)
<1> DEFINE pending == card.grid = NoGrid
<1> DEFINE seed == IF pending THEN EmptySeed ELSE BuildSeed(card.grid)
<1> DEFINE raw ==
     [id |-> card.id,
      verdict |-> IF card.out # "" THEN card.out ELSE VerdictOfCode(card.code),
      code |-> card.code,
      title |-> card.title,
      third_party |-> card.arch = "thirdparty" \/ (~pending /\ ThirdPartyCell(card.grid)),
      vector |-> card.vector,
      says |-> card.says.words,
      seed |-> [seed EXCEPT !.scenario = card.arch],
      pending |-> pending,
      hash |-> Null]
<1>1. c = Rehash(raw)
  BY DEF ParseCard
<1>2. IsSeed(seed) /\ IsBare(seed) /\ (pending => seed.pnr = "")
  BY SeedEmpty, SeedBuilt DEF IsCard, IsGrid
<1> HIDE DEF seed
<1>3. /\ IsSeed(raw.seed) /\ raw.seed.scenario = card.arch /\ IsBare(raw.seed)
      /\ pending => raw.seed.pnr = ""
  BY <1>2, ScenarioSet
<1>4. DOMAIN raw = CaseField
  BY DEF CaseField
<1>5. /\ DOMAIN c = CaseField /\ c.seed = raw.seed /\ c.pending = pending /\ c.id = card.id
      /\ c.code = card.code /\ c.vector = card.vector /\ c.says = card.says.words
      /\ c.verdict = raw.verdict /\ c.hash = ContentHash(raw)
  BY <1>1, <1>4 DEF Rehash, CaseField
<1>0. raw.code = card.code /\ raw.vector = card.vector /\ raw.says = card.says.words
  OBVIOUS
<1> HIDE DEF raw
<1>6. c.hash = ContentHash(c)
  BY <1>5, <1>0 DEF ContentHash
<1>7. IsCase(c)
  BY <1>3, <1>5 DEF IsCase
<1> QED BY <1>3, <1>5, <1>6, <1>7 DEF seed, raw

(* The row that is joined is a row, or there is none. *)
LEMMA RowFound ==
  ASSUME NEW uc, NEW r, IsRows(r)
  PROVE  RowOf(uc, r) = NoGrid \/ IsCells(RowOf(uc, r))
<1> DEFINE byId == {i \in DOMAIN r : NormId(r[i].id) = NormId(uc.id)}
<1> DEFINE byCode == {i \in DOMAIN r : uc.code # NoCode /\ r[i].cells.code = uc.code}
<1> DEFINE hits == IF byId # {} THEN byId ELSE byCode
<1>1. RowOf(uc, r) = IF hits = {} THEN NoGrid ELSE r[Max(hits)].cells
  BY DEF RowOf
<1>2. hits \subseteq 1 .. Len(r) /\ Len(r) \in Nat /\ DOMAIN r = 1 .. Len(r)
  BY DEF IsRows, IsList
<1> HIDE DEF hits
<1>3. CASE hits # {}
  <2>1. Max(hits) \in DOMAIN r
    BY <1>2, <1>3, MaxIn
  <2> QED BY <1>1, <1>3, <2>1 DEF IsRows, IsRow
<1> QED BY <1>1, <1>3

JoinedSeed(uc, r) ==
  IF RowOf(uc, r) = NoGrid THEN uc.seed
  ELSE [BuildSeed(RowOf(uc, r)) EXCEPT !.scenario = uc.seed.scenario]

(* A joined case keeps what the row does not have. *)
LEMMA CaseJoined ==
  ASSUME NEW uc, IsCase(uc), IsBare(uc.seed), NEW r, IsRows(r), NEW j, j = JoinCase(uc, r)
  PROVE  /\ IsCase(j) /\ j.hash = ContentHash(j) /\ j.id = uc.id /\ j.code = uc.code
         /\ j.verdict = uc.verdict /\ j.says = uc.says /\ j.vector = uc.vector
         /\ IsBare(j.seed) /\ j.seed.scenario = uc.seed.scenario
         /\ j.seed = JoinedSeed(uc, r)
<1> DEFINE cells == RowOf(uc, r)
<1> DEFINE bound == [uc EXCEPT !.seed = [BuildSeed(cells) EXCEPT !.scenario = uc.seed.scenario],
                               !.pending = FALSE,
                               !.third_party = @ \/ ThirdPartyCell(cells)]
<1> DEFINE raw == IF cells = NoGrid THEN uc ELSE bound
<1>1. j = Rehash(raw)
  BY DEF JoinCase
<1>2. CASE cells # NoGrid
  <2>1. IsSeed(BuildSeed(cells)) /\ IsBare(BuildSeed(cells))
    BY <1>2, RowFound, SeedBuilt
  <2>2. /\ IsSeed([BuildSeed(cells) EXCEPT !.scenario = uc.seed.scenario])
        /\ IsBare([BuildSeed(cells) EXCEPT !.scenario = uc.seed.scenario])
        /\ [BuildSeed(cells) EXCEPT !.scenario = uc.seed.scenario].scenario = uc.seed.scenario
    BY <2>1, ScenarioSet
  <2>3. /\ DOMAIN raw = CaseField /\ raw.id = uc.id /\ raw.code = uc.code /\ raw.verdict = uc.verdict
        /\ raw.says = uc.says /\ raw.vector = uc.vector /\ raw.pending = FALSE
        /\ raw.seed = [BuildSeed(cells) EXCEPT !.scenario = uc.seed.scenario]
    BY <1>2 DEF IsCase, CaseField
  <2> HIDE DEF raw
  <2>4. /\ DOMAIN j = CaseField /\ j.id = uc.id /\ j.code = uc.code /\ j.verdict = uc.verdict
        /\ j.says = uc.says /\ j.vector = uc.vector /\ j.pending = FALSE
        /\ j.seed = raw.seed /\ j.hash = ContentHash(raw)
    BY <1>1, <2>3 DEF Rehash, CaseField
  <2>5. j.hash = ContentHash(j)
    BY <2>3, <2>4 DEF ContentHash
  <2> QED BY <1>2, <2>2, <2>3, <2>4, <2>5 DEF IsCase, JoinedSeed
<1>3. CASE cells = NoGrid
  <2>1. raw = uc
    BY <1>3
  <2>2. /\ DOMAIN j = CaseField /\ j.id = uc.id /\ j.code = uc.code /\ j.verdict = uc.verdict
        /\ j.says = uc.says /\ j.vector = uc.vector /\ j.pending = uc.pending
        /\ j.seed = uc.seed /\ j.hash = ContentHash(uc)
    BY <1>1, <2>1 DEF Rehash, IsCase, CaseField
  <2>3. j.hash = ContentHash(j)
    BY <2>2 DEF ContentHash
  <2> QED BY <1>3, <2>2, <2>3 DEF IsCase, JoinedSeed
<1> QED BY <1>2, <1>3

(* The case of a card in a feed, and in one of several documents of it. *)
Plain(f, card, r) == IF f.dataset THEN JoinCase(ParseCard(card), r) ELSE ParseCard(card)
Placed(f, d, card, r) ==
  IF Len(f.docs) = 1 THEN Plain(f, card, r) ELSE TagCase(Plain(f, card, r), d)

LEMMA PlainCase ==
  ASSUME NEW f, NEW card, IsCard(card), NEW r, IsRows(r), NEW c, c = Plain(f, card, r)
  PROVE  /\ IsCase(c) /\ c.id = card.id /\ c.hash = ContentHash(c) /\ c.code = card.code
         /\ c.seed.scenario = card.arch /\ IsBare(c.seed)
<1> DEFINE p == ParseCard(card)
<1>1. /\ IsCase(p) /\ p.id = card.id /\ p.hash = ContentHash(p) /\ p.code = card.code
      /\ p.seed.scenario = card.arch /\ IsBare(p.seed)
  BY CardParsed
<1> DEFINE j == JoinCase(p, r)
<1> HIDE DEF p
<1>2. /\ IsCase(j) /\ j.id = p.id /\ j.hash = ContentHash(j) /\ j.code = p.code
      /\ j.seed.scenario = p.seed.scenario /\ IsBare(j.seed)
  BY <1>1, CaseJoined
<1> HIDE DEF j
<1> QED BY <1>1, <1>2 DEF Plain, p, j

LEMMA PlacedCase ==
  ASSUME NEW f, NEW d, NEW card, IsCard(card), NEW r, IsRows(r),
         NEW c, c = Plain(f, card, r), NEW p, p = Placed(f, d, card, r)
  PROVE  /\ IsCase(p) /\ p.id = card.id /\ p.hash = c.hash /\ p.code = c.code
         /\ p.verdict = c.verdict /\ p.says = c.says /\ p.vector = c.vector
         /\ p.seed.scenario = card.arch /\ Untagged(p.seed) = Untagged(c.seed)
<1> DEFINE t == TagCase(c, d)
<1>1. IsCase(c) /\ c.id = card.id /\ c.seed.scenario = card.arch /\ IsBare(c.seed)
  BY PlainCase
<1>3. /\ DOMAIN t = CaseField /\ t.id = c.id /\ t.hash = c.hash /\ t.code = c.code
      /\ t.verdict = c.verdict /\ t.says = c.says /\ t.vector = c.vector
      /\ t.pending = c.pending /\ t.seed = [c.seed EXCEPT !.doc = d]
  BY <1>1 DEF TagCase, IsCase, CaseField
<1>4. /\ IsSeed(t.seed) /\ t.seed.scenario = c.seed.scenario /\ t.seed.pnr = c.seed.pnr
      /\ Untagged(t.seed) = Untagged(c.seed)
  BY <1>1, <1>3 DEF Untagged, IsCase, IsSeed, SeedField
<1> HIDE DEF t
<1> QED BY <1>1, <1>3, <1>4 DEF Placed, IsCase, t


(***************************************************************************)
(* The cases of a catalog are those of the cards of its documents.         *)
(***************************************************************************)
DocsOf(f) == {f.docs[i] : i \in DOMAIN f.docs}
IsDocs(f, D) == DOMAIN D = DocsOf(f) /\ UniqueIds(D) /\ \A d \in DOMAIN D : IsDoc(D[d])

LEMMA CatalogCases ==
  ASSUME NEW f \in Feeds, NEW D, IsDocs(f, D), NEW r, NEW cat, cat = LoadCatalog(f, D, r)
  PROVE  /\ Len(cat.cases) \in Nat /\ DOMAIN cat.cases = 1 .. Len(cat.cases)
         /\ \A k \in DOMAIN cat.cases : \E d \in DOMAIN D : \E i \in DOMAIN D[d].cards :
              cat.cases[k] = Placed(f, d, D[d].cards[i], r)
         /\ \A d \in DOMAIN D : \A i \in DOMAIN D[d].cards : \E k \in DOMAIN cat.cases :
              cat.cases[k] = Placed(f, d, D[d].cards[i], r)
<1> DEFINE Cards(d) == D[d].cards
<1>1. \A d \in DOMAIN D : Len(Cards(d)) \in Nat /\ DOMAIN Cards(d) = 1 .. Len(Cards(d))
  BY DEF IsDocs, IsDoc, IsList
<1>2. Len(f.docs) \in Nat \ {0} /\ DOMAIN f.docs = 1 .. Len(f.docs)
  BY FeedsAssumption
<1>3. CASE Len(f.docs) = 1
  <2> DEFINE d == f.docs[1]
  <2>1. DOMAIN D = {d}
    BY <1>2, <1>3 DEF IsDocs, DocsOf
  <2>2. cat = IF f.dataset THEN JoinDataset(ParseGapDoc(D[d]), r) ELSE ParseGapDoc(D[d])
    BY <1>3 DEF LoadCatalog
  <2>3. cat.cases = [i \in DOMAIN Cards(d) |-> Plain(f, Cards(d)[i], r)]
    <3>1. CASE f.dataset
      BY <2>2, <3>1 DEF JoinDataset, ParseGapDoc, Plain
    <3>2. CASE ~f.dataset
      BY <2>2, <3>2 DEF ParseGapDoc, Plain
    <3> QED BY <3>1, <3>2
  <2>4. \A i \in DOMAIN Cards(d) : Plain(f, Cards(d)[i], r) = Placed(f, d, Cards(d)[i], r)
    BY <1>3 DEF Placed
  <2>5. Len(cat.cases) = Len(Cards(d))
    BY <2>1, <2>3, <1>1
  <2> HIDE DEF d
  <2> QED BY <2>1, <2>3, <2>4, <2>5, <1>1 DEF Cards
<1>4. CASE Len(f.docs) # 1
  <2> DEFINE n == Len(f.docs)
  <2> DEFINE seqs == [i \in 1 .. n |-> [k \in DOMAIN Cards(f.docs[i]) |-> Placed(f, f.docs[i], Cards(f.docs[i])[k], r)]]
  <2> DEFINE S == UNION {{Placed(f, d, Cards(d)[k], r) : k \in DOMAIN Cards(d)} : d \in DOMAIN D}
  <2>1. ~f.dataset
    BY <1>4, FeedsAssumption
  <2>2. \A i \in 1 .. n : f.docs[i] \in DOMAIN D
    BY <1>2 DEF IsDocs, DocsOf
  <2>3. \A d \in DOMAIN D : \E i \in 1 .. n : f.docs[i] = d
    BY <1>2 DEF IsDocs, DocsOf
  <2>4. seqs \in [1 .. n -> Seq(S)]
    <3> SUFFICES ASSUME NEW i \in 1 .. n PROVE seqs[i] \in Seq(S)
      OBVIOUS
    <3> DEFINE d == f.docs[i]
    <3>1. d \in DOMAIN D /\ Len(Cards(d)) \in Nat /\ DOMAIN Cards(d) = 1 .. Len(Cards(d))
      BY <1>1, <2>2
    <3>2. seqs[i] = [k \in 1 .. Len(Cards(d)) |-> Placed(f, d, Cards(d)[k], r)]
      BY <3>1
    <3>3. ASSUME NEW k \in 1 .. Len(Cards(d))
          PROVE  Placed(f, d, Cards(d)[k], r) \in S
      <4>1. k \in DOMAIN Cards(d)
        BY <3>1
      <4> HIDE DEF d, Cards
      <4> QED BY <3>1, <4>1
    <3> HIDE DEF seqs, S, d, Cards
    <3> QED BY <3>1, <3>2, <3>3
  <2>5. cat.cases = FlattenSeq(seqs)
    <3> DEFINE merged == [i \in DOMAIN f.docs |-> TagDoc(ParseGapDoc(D[f.docs[i]]), f.docs[i])]
    <3>1. cat = MergeCatalogs(merged)
      BY <1>4, <2>1 DEF LoadCatalog
    <3>2. cat.cases = FlattenSeq([i \in DOMAIN merged |-> merged[i].cases])
      BY <3>1 DEF MergeCatalogs
    <3>3. DOMAIN merged = 1 .. n
      BY <1>2
    <3>4. ASSUME NEW i \in 1 .. n PROVE merged[i].cases = seqs[i]
      BY <3>3, <1>4, <2>1 DEF TagDoc, ParseGapDoc, Placed, Plain
    <3> HIDE DEF merged
    <3>5. [i \in DOMAIN merged |-> merged[i].cases] = seqs
      BY <3>3, <3>4
    <3> QED BY <3>2, <3>5
  <2>6. cat.cases \in Seq(S) /\ Holds(cat.cases, seqs, n)
    <3> HIDE DEF seqs, S
    <3> QED BY <1>2, <2>4, <2>5, FlattenHolds
  <2> DEFINE cs == cat.cases
  <2>7. Len(cs) \in Nat /\ DOMAIN cs = 1 .. Len(cs)
    <3> HIDE DEF S, seqs
    <3> QED BY <2>6
  <2>8. ASSUME NEW k \in DOMAIN cs
        PROVE  \E d \in DOMAIN D : \E i \in DOMAIN Cards(d) : cs[k] = Placed(f, d, Cards(d)[i], r)
    <3>1. PICK i \in 1 .. n : \E j \in DOMAIN seqs[i] : cs[k] = seqs[i][j]
      <4> HIDE DEF seqs, S
      <4> QED BY <2>6 DEF Holds
    <3>2. PICK j \in DOMAIN Cards(f.docs[i]) : cs[k] = Placed(f, f.docs[i], Cards(f.docs[i])[j], r)
      BY <3>1
    <3> QED BY <3>2, <2>2
  <2>9. ASSUME NEW d \in DOMAIN D, NEW i \in DOMAIN Cards(d)
        PROVE  \E k \in DOMAIN cs : cs[k] = Placed(f, d, Cards(d)[i], r)
    <3>1. PICK m \in 1 .. n : f.docs[m] = d
      BY <2>3
    <3>2. i \in DOMAIN seqs[m] /\ seqs[m][i] = Placed(f, d, Cards(d)[i], r)
      BY <3>1
    <3> HIDE DEF seqs, S
    <3> QED BY <2>6, <3>2 DEF Holds
  <2> QED BY <2>7, <2>8, <2>9 DEF Cards
<1> QED BY <1>3, <1>4

(* The case that counts for an id is a case of that id. *)
LEMMA CaseFound ==
  ASSUME NEW cat, Len(cat.cases) \in Nat, DOMAIN cat.cases = 1 .. Len(cat.cases),
         NEW id \in Ids(cat)
  PROVE  \E k \in DOMAIN cat.cases : cat.cases[k].id = id /\ CaseOf(cat, id) = cat.cases[k]
<1> DEFINE hits == {k \in DOMAIN cat.cases : cat.cases[k].id = id}
<1>1. hits # {} /\ hits \in SUBSET (1 .. Len(cat.cases))
  BY DEF Ids
<1>2. CaseOf(cat, id) = cat.cases[Max(hits)]
  BY DEF CaseOf
<1>3. Max(hits) \in hits
  <2> HIDE DEF hits
  <2> QED BY <1>1, MaxIn
<1> QED BY <1>2, <1>3

LEMMA CatalogIds ==
  ASSUME NEW f \in Feeds, NEW D, IsDocs(f, D), NEW r, IsRows(r), NEW cat, cat = LoadCatalog(f, D, r)
  PROVE  /\ \A id \in Ids(cat) : \E d \in DOMAIN D : \E i \in DOMAIN D[d].cards : id = D[d].cards[i].id
         /\ \A d \in DOMAIN D : \A i \in DOMAIN D[d].cards :
              /\ D[d].cards[i].id \in Ids(cat)
              /\ CaseOf(cat, D[d].cards[i].id) = Placed(f, d, D[d].cards[i], r)
<1>1. Len(cat.cases) \in Nat /\ DOMAIN cat.cases = 1 .. Len(cat.cases)
  BY CatalogCases
<1>2. \A k \in DOMAIN cat.cases : \E d \in DOMAIN D : \E i \in DOMAIN D[d].cards :
        cat.cases[k] = Placed(f, d, D[d].cards[i], r)
  BY CatalogCases
<1>3. \A d \in DOMAIN D : \A i \in DOMAIN D[d].cards : \E k \in DOMAIN cat.cases :
        cat.cases[k] = Placed(f, d, D[d].cards[i], r)
  BY CatalogCases
<1>4. \A d \in DOMAIN D : \A i \in DOMAIN D[d].cards : Placed(f, d, D[d].cards[i], r).id = D[d].cards[i].id
  <2> SUFFICES ASSUME NEW d \in DOMAIN D, NEW i \in DOMAIN D[d].cards
               PROVE  Placed(f, d, D[d].cards[i], r).id = D[d].cards[i].id
    OBVIOUS
  <2>1. IsCard(D[d].cards[i])
    BY DEF IsDocs, IsDoc
  <2> QED BY <2>1, PlacedCase
<1>5. ASSUME NEW id \in Ids(cat)
      PROVE  \E d \in DOMAIN D : \E i \in DOMAIN D[d].cards : id = D[d].cards[i].id
  <2>1. PICK k \in DOMAIN cat.cases : cat.cases[k].id = id
    BY DEF Ids
  <2> QED BY <1>2, <1>4, <2>1
<1>6. ASSUME NEW d \in DOMAIN D, NEW i \in DOMAIN D[d].cards
      PROVE  /\ D[d].cards[i].id \in Ids(cat)
             /\ CaseOf(cat, D[d].cards[i].id) = Placed(f, d, D[d].cards[i], r)
  <2> DEFINE id == D[d].cards[i].id
  <2>1. id \in Ids(cat)
    <3>1. PICK k \in DOMAIN cat.cases : cat.cases[k] = Placed(f, d, D[d].cards[i], r)
      BY <1>3
    <3> QED BY <1>4, <3>1 DEF Ids
  <2>2. PICK k \in DOMAIN cat.cases : cat.cases[k].id = id /\ CaseOf(cat, id) = cat.cases[k]
    BY <1>1, <2>1, CaseFound
  <2>3. PICK e \in DOMAIN D : \E j \in DOMAIN D[e].cards : cat.cases[k] = Placed(f, e, D[e].cards[j], r)
    BY <1>2
  <2>4. PICK j \in DOMAIN D[e].cards : cat.cases[k] = Placed(f, e, D[e].cards[j], r)
    BY <2>3
  <2>5. D[e].cards[j].id = id
    BY <1>4, <2>2, <2>4
  <2>6. e = d /\ j = i
    BY <2>5 DEF IsDocs, UniqueIds
  <2> QED BY <2>1, <2>2, <2>4, <2>6
<1> QED BY <1>5, <1>6

(* The catalog that is compared with has the cases of one document, untagged. *)
LEMMA OldIds ==
  ASSUME NEW f \in Feeds, NEW D, IsDocs(f, D), NEW d \in DOMAIN D, NEW r, IsRows(r),
         NEW old, old = OldCatalog(f, D[d], r)
  PROVE  /\ \A id \in Ids(old) : \E i \in DOMAIN D[d].cards : id = D[d].cards[i].id
         /\ \A i \in DOMAIN D[d].cards :
              /\ D[d].cards[i].id \in Ids(old)
              /\ CaseOf(old, D[d].cards[i].id) = Plain(f, D[d].cards[i], r)
<1> DEFINE cards == D[d].cards
<1>1. Len(cards) \in Nat /\ DOMAIN cards = 1 .. Len(cards) /\ \A i \in DOMAIN cards : IsCard(cards[i])
  BY DEF IsDocs, IsDoc, IsList
<1>2. old.cases = [i \in DOMAIN cards |-> Plain(f, cards[i], r)]
  <2>1. CASE f.dataset
    BY <2>1 DEF OldCatalog, JoinDataset, ParseGapDoc, Plain
  <2>2. CASE ~f.dataset
    BY <2>2 DEF OldCatalog, ParseGapDoc, Plain
  <2> QED BY <2>1, <2>2
<1>3. \A i \in DOMAIN cards : Plain(f, cards[i], r).id = cards[i].id
  <2> SUFFICES ASSUME NEW i \in DOMAIN cards PROVE Plain(f, cards[i], r).id = cards[i].id
    OBVIOUS
  <2>1. IsCard(cards[i])
    BY <1>1
  <2> QED BY <2>1, PlainCase
<1>4. \A i, j \in DOMAIN cards : cards[i].id = cards[j].id => i = j
  BY DEF IsDocs, UniqueIds
<1> HIDE DEF cards
<1>5. DOMAIN old.cases = 1 .. Len(old.cases) /\ Len(old.cases) \in Nat /\ DOMAIN old.cases = DOMAIN cards
  BY <1>1, <1>2
<1>6. Ids(old) = {cards[i].id : i \in DOMAIN cards}
  BY <1>2, <1>3 DEF Ids
<1>7. ASSUME NEW i \in DOMAIN cards PROVE CaseOf(old, cards[i].id) = Plain(f, cards[i], r)
  <2>1. cards[i].id \in Ids(old)
    BY <1>6
  <2>2. PICK k \in DOMAIN old.cases : old.cases[k].id = cards[i].id /\ CaseOf(old, cards[i].id) = old.cases[k]
    BY <1>5, <2>1, CaseFound
  <2>3. k = i
    BY <1>2, <1>3, <1>4, <1>5, <2>2
  <2> QED BY <1>2, <2>2, <2>3
<1> QED BY <1>6, <1>7 DEF cards


(***************************************************************************)
(* The labels of the diff: a case with the hash it had is unchanged, and   *)
(* one that is not labelled for its data has the data it had.              *)
(***************************************************************************)
LEMMA LabelKnown ==
  ASSUME NEW old, NEW new
  PROVE  Label(old, new) \in {"unchanged", "data", "expected", "checkpoint"}
BY DEF Label

LEMMA LabelSame ==
  ASSUME NEW old, NEW new, old.hash = new.hash
  PROVE  Label(old, new) = "unchanged"
BY DEF Label

LEMMA LabelNotData ==
  ASSUME NEW old, NEW new, Label(old, new) # "data"
  PROVE  old.hash = new.hash \/ ContentHash(old) = ContentHash(new) \/ old.seed = new.seed
BY DEF Label

(* The buckets do not overlap, except for the flags of the spine. *)
Apart(b) ==
  /\ \A x, y \in Bucket \ {"checkpoint_changed"} : x # y => b[x] \cap b[y] = {}
  /\ b.checkpoint_changed \cap (b.added \cup b.removed \cup b.unchanged) = {}

LEMMA DiffMembers ==
  ASSUME NEW old, NEW new, NEW b, b = Diff(old, new)
  PROVE  /\ DOMAIN b = Bucket
         /\ b.added = Ids(new) \ Ids(old) /\ b.removed = Ids(old) \ Ids(new)
         /\ \A id : id \in b.data_changed <=>
              id \in Ids(old) \cap Ids(new) /\ Label(CaseOf(old, id), CaseOf(new, id)) = "data"
         /\ \A id : id \in b.expected_changed <=>
              id \in Ids(old) \cap Ids(new) /\ Label(CaseOf(old, id), CaseOf(new, id)) = "expected"
         /\ \A id \in b.checkpoint_changed : id \in Ids(old) \cap Ids(new) /\ id \notin b.unchanged
         /\ \A id \in b.unchanged :
              id \in Ids(old) \cap Ids(new) /\ Label(CaseOf(old, id), CaseOf(new, id)) = "unchanged"
         /\ \A id \in Ids(old) \cap Ids(new) :
              Label(CaseOf(old, id), CaseOf(new, id)) \in {"unchanged", "checkpoint"}
                => id \in b.checkpoint_changed \cup b.unchanged
<1> DEFINE lab(id) == Label(CaseOf(old, id), CaseOf(new, id))
<1> DEFINE common == Ids(old) \cap Ids(new)
<1> DEFINE moved == (old.spine \ new.spine) \cup (new.spine \ old.spine)
<1> DEFINE flagged == {c \in common : \E ref \in CaseOf(new, c).vector : ref.id \in moved}
<1>1. b = [added |-> Ids(new) \ Ids(old), removed |-> Ids(old) \ Ids(new),
           data_changed |-> {c \in common : lab(c) = "data"},
           expected_changed |-> {c \in common : lab(c) = "expected"},
           checkpoint_changed |-> {c \in common : lab(c) = "checkpoint"} \cup flagged,
           unchanged |-> {c \in common : lab(c) = "unchanged"} \ flagged]
  BY DEF Diff
<1>2. flagged \subseteq common
  OBVIOUS
<1> HIDE DEF lab, flagged
<1>3. /\ DOMAIN b = Bucket
      /\ b.added = Ids(new) \ Ids(old) /\ b.removed = Ids(old) \ Ids(new)
      /\ b.data_changed = {c \in common : lab(c) = "data"}
      /\ b.expected_changed = {c \in common : lab(c) = "expected"}
      /\ b.checkpoint_changed = {c \in common : lab(c) = "checkpoint"} \cup flagged
      /\ b.unchanged = {c \in common : lab(c) = "unchanged"} \ flagged
  BY <1>1 DEF Bucket
<1>4. \A id \in b.checkpoint_changed : id \in common /\ id \notin b.unchanged
  BY <1>2, <1>3
<1>5. \A id \in b.unchanged : id \in common /\ lab(id) = "unchanged"
  BY <1>3
<1>6. \A id \in common : lab(id) \in {"unchanged", "checkpoint"} => id \in b.checkpoint_changed \cup b.unchanged
  BY <1>3
<1>7. \A id : id \in b.data_changed <=> id \in common /\ lab(id) = "data"
  BY <1>3
<1>8. \A id : id \in b.expected_changed <=> id \in common /\ lab(id) = "expected"
  BY <1>3
<1> HIDE DEF common
<1> QED BY <1>3, <1>4, <1>5, <1>6, <1>7, <1>8 DEF lab, common

LEMMA CatalogCase ==
  ASSUME NEW f \in Feeds, NEW D, IsDocs(f, D), NEW r, IsRows(r), NEW cat, cat = LoadCatalog(f, D, r),
         NEW id \in Ids(cat)
  PROVE  IsCase(CaseOf(cat, id))
<1>1. PICK d \in DOMAIN D : \E i \in DOMAIN D[d].cards : id = D[d].cards[i].id
  BY CatalogIds
<1>2. PICK i \in DOMAIN D[d].cards : id = D[d].cards[i].id
  BY <1>1
<1>3. CaseOf(cat, id) = Placed(f, d, D[d].cards[i], r)
  BY <1>2, CatalogIds
<1>4. IsCard(D[d].cards[i])
  BY DEF IsDocs, IsDoc
<1> QED BY <1>3, <1>4, PlacedCase

(* A case that is not labelled for its data has the data it had. *)
LEMMA SeedKept ==
  ASSUME NEW f, NEW d, NEW old, IsCard(old), NEW new, IsCard(new), NEW r, IsRows(r),
         NEW c, c = Plain(f, old, r), NEW p, p = Placed(f, d, new, r), Label(c, p) # "data"
  PROVE  Untagged(c.seed) = Untagged(p.seed)
<1> DEFINE n == Plain(f, new, r)
<1>1. c.hash = ContentHash(c)
  BY PlainCase
<1>2. n.hash = ContentHash(n)
  BY PlainCase
<1>3. p.hash = n.hash /\ Untagged(p.seed) = Untagged(n.seed)
  BY PlacedCase
<1> HIDE DEF n
<1>4. CASE c.hash = p.hash
  <2>1. ContentHash(c) = ContentHash(n)
    BY <1>1, <1>2, <1>3, <1>4
  <2>2. c.seed = n.seed
    BY <2>1 DEF ContentHash
  <2> QED BY <1>3, <2>2
<1>5. CASE ContentHash(c) = ContentHash(p)
  BY <1>5 DEF ContentHash
<1>6. CASE c.seed = p.seed
  BY <1>6
<1> QED BY <1>4, <1>5, <1>6, LabelNotData

(* What does not change in a card that is edited in looks only. *)
LEMMA LooksOnly ==
  ASSUME NEW old, IsCard(old), NEW new, IsCard(new), SameCard(old, new)
  PROVE  /\ old.arch = new.arch /\ old.out = new.out /\ old.code = new.code
         /\ old.vector = new.vector /\ old.says.words = new.says.words
         /\ old.grid = NoGrid <=> new.grid = NoGrid
         /\ old.grid # NoGrid => BuildSeed(old.grid) = BuildSeed(new.grid)
<1>1. /\ old.arch = new.arch /\ old.out = new.out /\ old.code = new.code /\ old.vector = new.vector
      /\ [old.says EXCEPT !.blanks = 0] = [new.says EXCEPT !.blanks = 0]
      /\ CosmeticGrid(old.grid) = CosmeticGrid(new.grid)
  <2>1. ASSUME NEW card, IsCard(card)
        PROVE  /\ Cosmetic(card).arch = card.arch /\ Cosmetic(card).out = card.out
               /\ Cosmetic(card).code = card.code /\ Cosmetic(card).vector = card.vector
               /\ Cosmetic(card).says = [card.says EXCEPT !.blanks = 0]
               /\ Cosmetic(card).grid = CosmeticGrid(card.grid)
    BY <2>1 DEF Cosmetic, IsCard, CardField
  <2> QED BY <2>1 DEF SameCard
<1>2. old.says.words = new.says.words
  <2>1. ASSUME NEW card, IsCard(card) PROVE [card.says EXCEPT !.blanks = 0].words = card.says.words
    BY <2>1 DEF IsCard, IsSays
  <2> QED BY <1>1, <2>1
<1>3. ASSUME NEW card, IsCard(card), card.grid # NoGrid
      PROVE  /\ IsCells(card.grid) /\ DOMAIN CosmeticGrid(card.grid) = CellField
             /\ CosmeticGrid(card.grid).pnr = card.grid.pnr /\ CosmeticGrid(card.grid).route = card.grid.route
             /\ CosmeticGrid(card.grid).code = card.grid.code /\ CosmeticGrid(card.grid).amount = AmountOf(card.grid.amount)
  BY <1>3 DEF IsCard, IsGrid, IsCells, CellField, CosmeticGrid
<1>4. CosmeticGrid(NoGrid) = NoGrid
  BY DEF CosmeticGrid
<1>5. DOMAIN NoGrid # CellField
  BY DEF NoGrid, CellField
<1>6. old.grid = NoGrid <=> new.grid = NoGrid
  BY <1>1, <1>3, <1>4, <1>5
<1>7. ASSUME old.grid # NoGrid PROVE BuildSeed(old.grid) = BuildSeed(new.grid)
  <2>1. /\ old.grid.pnr = new.grid.pnr /\ old.grid.route = new.grid.route
        /\ old.grid.code = new.grid.code /\ AmountOf(old.grid.amount) = AmountOf(new.grid.amount)
    BY <1>1, <1>3, <1>6, <1>7
  <2> QED BY <2>1 DEF BuildSeed
<1> QED BY <1>1, <1>2, <1>6, <1>7

LEMMA SameHash ==
  ASSUME NEW f, NEW old, IsCard(old), NEW new, IsCard(new), NEW r, IsRows(r),
         SameCard(old, new), old.id = new.id
  PROVE  Plain(f, old, r).hash = Plain(f, new, r).hash
<1> DEFINE o == ParseCard(old)
<1> DEFINE n == ParseCard(new)
<1>1. /\ IsCase(o) /\ o.id = old.id /\ o.hash = ContentHash(o) /\ o.code = old.code
      /\ o.verdict = (IF old.out # "" THEN old.out ELSE VerdictOfCode(old.code))
      /\ o.vector = old.vector /\ o.says = old.says.words
      /\ o.seed = [IF old.grid = NoGrid THEN EmptySeed ELSE BuildSeed(old.grid) EXCEPT !.scenario = old.arch]
      /\ IsBare(o.seed)
  BY CardParsed
<1>2. /\ IsCase(n) /\ n.id = new.id /\ n.hash = ContentHash(n) /\ n.code = new.code
      /\ n.verdict = (IF new.out # "" THEN new.out ELSE VerdictOfCode(new.code))
      /\ n.vector = new.vector /\ n.says = new.says.words
      /\ n.seed = [IF new.grid = NoGrid THEN EmptySeed ELSE BuildSeed(new.grid) EXCEPT !.scenario = new.arch]
      /\ IsBare(n.seed)
  BY CardParsed
<1> HIDE DEF o, n
<1>o. IsCase(o) /\ IsBare(o.seed) /\ o.hash = ContentHash(o)
  BY <1>1
<1>n. IsCase(n) /\ IsBare(n.seed) /\ n.hash = ContentHash(n)
  BY <1>2
<1>3. /\ o.id = n.id /\ o.code = n.code /\ o.verdict = n.verdict /\ o.vector = n.vector
      /\ o.says = n.says /\ o.seed = n.seed
  <2>1. /\ old.arch = new.arch /\ old.out = new.out /\ old.code = new.code
        /\ old.vector = new.vector /\ old.says.words = new.says.words
        /\ (IF old.grid = NoGrid THEN EmptySeed ELSE BuildSeed(old.grid))
             = (IF new.grid = NoGrid THEN EmptySeed ELSE BuildSeed(new.grid))
    BY LooksOnly
  <2> DEFINE s == IF old.grid = NoGrid THEN EmptySeed ELSE BuildSeed(old.grid)
  <2>2. o.seed = [s EXCEPT !.scenario = old.arch]
    BY <1>1
  <2>3. n.seed = [s EXCEPT !.scenario = old.arch]
    BY <1>2, <2>1
  <2>4. o.seed = n.seed
    BY <2>2, <2>3
  <2>5. /\ o.id = n.id /\ o.code = n.code /\ o.vector = n.vector /\ o.says = n.says
        /\ o.verdict = n.verdict
    BY <1>1, <1>2, <2>1
  <2> QED BY <2>4, <2>5
<1>4. o.hash = n.hash
  BY <1>o, <1>n, <1>3 DEF ContentHash
<1> DEFINE jo == JoinCase(o, r)
<1> DEFINE jn == JoinCase(n, r)
<1>5. /\ jo.hash = ContentHash(jo) /\ jo.code = o.code /\ jo.verdict = o.verdict
      /\ jo.says = o.says /\ jo.vector = o.vector /\ jo.seed = JoinedSeed(o, r)
  BY <1>o, CaseJoined
<1>6. /\ jn.hash = ContentHash(jn) /\ jn.code = n.code /\ jn.verdict = n.verdict
      /\ jn.says = n.says /\ jn.vector = n.vector /\ jn.seed = JoinedSeed(n, r)
  BY <1>n, CaseJoined
<1> HIDE DEF jo, jn
<1>7. RowOf(o, r) = RowOf(n, r)
  BY <1>3 DEF RowOf
<1>8. JoinedSeed(o, r) = JoinedSeed(n, r)
  BY <1>3, <1>7 DEF JoinedSeed
<1>9. jo.hash = jn.hash
  BY <1>3, <1>5, <1>6, <1>8 DEF ContentHash
<1> QED BY <1>4, <1>9 DEF Plain, o, n, jo, jn


(* The buckets are apart, and every case of the new catalog is in one. *)
LEMMA DiffApart ==
  ASSUME NEW old, NEW new, NEW b, b = Diff(old, new)
  PROVE  /\ DOMAIN b = Bucket /\ Apart(b)
         /\ Ids(new) = b.added \cup b.data_changed \cup b.expected_changed
                         \cup b.checkpoint_changed \cup b.unchanged
<1> DEFINE lab(id) == Label(CaseOf(old, id), CaseOf(new, id))
<1> DEFINE common == Ids(old) \cap Ids(new)
<1>1. /\ DOMAIN b = Bucket
      /\ b.added = Ids(new) \ Ids(old) /\ b.removed = Ids(old) \ Ids(new)
      /\ \A id : id \in b.data_changed <=> id \in common /\ lab(id) = "data"
      /\ \A id : id \in b.expected_changed <=> id \in common /\ lab(id) = "expected"
      /\ \A id \in b.checkpoint_changed : id \in common /\ id \notin b.unchanged
      /\ \A id \in b.unchanged : id \in common /\ lab(id) = "unchanged"
      /\ \A id \in common : lab(id) \in {"unchanged", "checkpoint"} => id \in b.checkpoint_changed \cup b.unchanged
  BY DiffMembers
<1>2. \A id : lab(id) \in {"unchanged", "data", "expected", "checkpoint"}
  BY LabelKnown
<1> HIDE DEF lab
<1>3. /\ b.added \cap b.removed = {} /\ b.added \cap b.data_changed = {}
      /\ b.added \cap b.expected_changed = {} /\ b.added \cap b.unchanged = {}
      /\ b.removed \cap b.data_changed = {} /\ b.removed \cap b.expected_changed = {}
      /\ b.removed \cap b.unchanged = {} /\ b.data_changed \cap b.expected_changed = {}
      /\ b.data_changed \cap b.unchanged = {} /\ b.expected_changed \cap b.unchanged = {}
  BY <1>1
<1>4. b.checkpoint_changed \cap (b.added \cup b.removed \cup b.unchanged) = {}
  BY <1>1
<1>5. Apart(b)
  BY <1>3, <1>4 DEF Apart, Bucket
<1>6. \A id : id \in Ids(new) <=> id \in b.added \cup b.data_changed \cup b.expected_changed
                                        \cup b.checkpoint_changed \cup b.unchanged
  BY <1>1, <1>2
<1> QED BY <1>1, <1>5, <1>6


(***************************************************************************)
(* The edits leave documents and rows what they have to be: a document may *)
(* be replaced by one whose cards have ids of their own.                   *)
(***************************************************************************)
LEMMA DocReplaced ==
  ASSUME NEW f, NEW D, IsDocs(f, D), NEW d \in DOMAIN D, NEW doc, IsDoc(doc),
         \A j, k \in DOMAIN doc.cards : doc.cards[j].id = doc.cards[k].id => j = k,
         \A e \in DOMAIN D \ {d} : \A i \in DOMAIN D[e].cards : \A j \in DOMAIN doc.cards :
           D[e].cards[i].id # doc.cards[j].id
  PROVE  IsDocs(f, [D EXCEPT ![d] = doc])
<1> DEFINE after == [D EXCEPT ![d] = doc]
<1>1. DOMAIN after = DOMAIN D /\ after[d] = doc /\ \A e \in DOMAIN D \ {d} : after[e] = D[e]
  OBVIOUS
<1> HIDE DEF after
<1>2. DOMAIN after = DocsOf(f) /\ \A e \in DOMAIN after : IsDoc(after[e])
  BY <1>1 DEF IsDocs
<1>3. UniqueIds(after)
  <2> SUFFICES ASSUME NEW a \in DOMAIN after, NEW b \in DOMAIN after,
                      NEW i \in DOMAIN after[a].cards, NEW j \in DOMAIN after[b].cards,
                      after[a].cards[i].id = after[b].cards[j].id
               PROVE  a = b /\ i = j
    BY DEF UniqueIds
  <2>1. CASE a = d /\ b = d
    BY <1>1, <2>1
  <2>2. CASE a = d /\ b # d
    BY <1>1, <2>2
  <2>3. CASE a # d /\ b = d
    BY <1>1, <2>3
  <2>4. CASE a # d /\ b # d
    BY <1>1, <2>4 DEF IsDocs, UniqueIds
  <2> QED BY <2>1, <2>2, <2>3, <2>4
<1> QED BY <1>2, <1>3 DEF IsDocs, after

(* The cards of a document are given other cards, or fewer or one more of them. *)
LEMMA CardsReplaced ==
  ASSUME NEW f, NEW D, IsDocs(f, D), NEW d \in DOMAIN D, NEW cards, IsList(cards),
         \A j \in DOMAIN cards : IsCard(cards[j]),
         \A j, k \in DOMAIN cards : cards[j].id = cards[k].id => j = k,
         \A e \in DOMAIN D \ {d} : \A i \in DOMAIN D[e].cards : \A j \in DOMAIN cards :
           D[e].cards[i].id # cards[j].id
  PROVE  IsDocs(f, [D EXCEPT ![d].cards = cards])
<1> DEFINE doc == [D[d] EXCEPT !.cards = cards]
<1>1. /\ DOMAIN D[d] = {"spine", "cards"} /\ D[d].spine \subseteq Checkpoint
  BY DEF IsDocs, IsDoc
<1>2. DOMAIN doc = {"spine", "cards"} /\ doc.spine = D[d].spine /\ doc.cards = cards
  BY <1>1
<1>3. [D EXCEPT ![d].cards = cards] = [D EXCEPT ![d] = doc]
  OBVIOUS
<1> HIDE DEF doc
<1>4. IsDoc(doc)
  BY <1>1, <1>2 DEF IsDoc
<1>5. \A j, k \in DOMAIN doc.cards : doc.cards[j].id = doc.cards[k].id => j = k
  BY <1>2
<1>6. \A e \in DOMAIN D \ {d} : \A i \in DOMAIN D[e].cards : \A j \in DOMAIN doc.cards :
        D[e].cards[i].id # doc.cards[j].id
  BY <1>2
<1> QED BY <1>3, <1>4, <1>5, <1>6, DocReplaced

LEMMA SeqIsList ==
  ASSUME NEW S, NEW t \in Seq(S)
  PROVE  IsList(t)
BY DEF IsList

(* A list in which one element is replaced, dropped or added. *)
LEMMA ElementReplaced ==
  ASSUME NEW s, IsList(s), NEW i \in DOMAIN s, NEW x, NEW t, t = [s EXCEPT ![i] = x]
  PROVE  /\ IsList(t) /\ DOMAIN t = DOMAIN s /\ t[i] = x
         /\ \A j \in DOMAIN s \ {i} : t[j] = s[j]
<1>1. /\ DOMAIN t = 1 .. Len(s) /\ DOMAIN s = 1 .. Len(s) /\ Len(s) \in Nat /\ t[i] = x
      /\ \A j \in DOMAIN s \ {i} : t[j] = s[j]
  BY DEF IsList
<1>2. t = [j \in 1 .. Len(s) |-> t[j]]
  BY <1>1 DEF IsList
<1>3. Len(t) = Len(s)
  BY <1>1, <1>2
<1> QED BY <1>1, <1>2, <1>3 DEF IsList

LEMMA ElementDropped ==
  ASSUME NEW s, IsList(s), NEW i \in DOMAIN s, NEW t, t = RemoveAt(s, i)
  PROVE  /\ IsList(t)
         /\ \E from \in [DOMAIN t -> DOMAIN s] :
              /\ \A j \in DOMAIN t : t[j] = s[from[j]]
              /\ \A j, k \in DOMAIN t : from[j] = from[k] => j = k
<1> DEFINE S == {s[j] : j \in 1 .. Len(s)}
<1> DEFINE n == Len(s)
<1>1. s \in Seq(S) /\ n \in Nat /\ DOMAIN s = 1 .. n /\ i \in 1 .. n
  BY DEF IsList
<1> HIDE DEF S
<1>2. t = SubSeq(s, 1, i - 1) \o SubSeq(s, i + 1, n)
  BY DEF RemoveAt
<1> DEFINE a == SubSeq(s, 1, i - 1)
<1> DEFINE b == SubSeq(s, i + 1, n)
<1>3. a \in Seq(S) /\ Len(a) = i - 1 /\ \A j \in 1 .. i - 1 : a[j] = s[j]
  BY <1>1
<1>4. b \in Seq(S) /\ Len(b) = n - i /\ \A j \in 1 .. n - i : b[j] = s[i + j]
  BY <1>1
<1>0. t = a \o b
  BY <1>2
<1> HIDE DEF a, b
<1>5. t \in Seq(S) /\ Len(t) = n - 1 /\ DOMAIN t = 1 .. n - 1
  <2>1. t \in Seq(S)
    BY <1>0, <1>3, <1>4
  <2>2. Len(t) = Len(a) + Len(b)
    <3>1. a \in Seq(S) /\ b \in Seq(S)
      BY <1>3, <1>4
    <3> QED BY <1>0, <3>1
  <2> QED BY <1>1, <1>3, <1>4, <2>1, <2>2
<1>6. ASSUME NEW j \in 1 .. n - 1 PROVE t[j] = IF j < i THEN a[j] ELSE b[j - i + 1]
  <2>1. j < i => j \in 1 .. Len(a)
    BY <1>1, <1>3
  <2>2. ~(j < i) => j \in Len(a) + 1 .. Len(a) + Len(b) /\ j - Len(a) = j - i + 1
    BY <1>1, <1>3, <1>4
  <2>3. t[j] = IF j <= Len(a) THEN a[j] ELSE b[j - Len(a)]
    BY <1>0, <1>1, <1>3, <1>4
  <2> QED BY <1>1, <1>3, <2>1, <2>2, <2>3
<1> DEFINE from == [j \in 1 .. n - 1 |-> IF j < i THEN j ELSE j + 1]
<1>7. from \in [DOMAIN t -> DOMAIN s]
  BY <1>1, <1>5
<1>8. ASSUME NEW j \in DOMAIN t PROVE t[j] = s[from[j]]
  <2>1. CASE j < i
    BY <1>1, <1>3, <1>5, <1>6, <2>1
  <2>2. CASE ~(j < i)
    <3>1. j - i + 1 \in 1 .. n - i /\ i + (j - i + 1) = j + 1
      BY <1>1, <1>5, <2>2
    <3>2. t[j] = b[j - i + 1] /\ from[j] = j + 1
      BY <1>5, <1>6, <2>2
    <3> HIDE DEF from
    <3> QED BY <1>4, <3>1, <3>2
  <2> QED BY <2>1, <2>2
<1>9. \A j, k \in DOMAIN t : from[j] = from[k] => j = k
  BY <1>1, <1>5
<1> HIDE DEF from
<1>10. IsList(t)
  BY <1>5 DEF IsList
<1> QED BY <1>7, <1>8, <1>9, <1>10

LEMMA ElementAdded ==
  ASSUME NEW s, IsList(s), NEW x, NEW t, t = Append(s, x), NEW last, last = Len(s) + 1
  PROVE  /\ IsList(t) /\ DOMAIN t = DOMAIN s \cup {last} /\ t[last] = x
         /\ \A j \in DOMAIN s : t[j] = s[j]
         /\ last \notin DOMAIN s
<1> DEFINE S == {s[j] : j \in 1 .. Len(s)} \cup {x}
<1> DEFINE n == Len(s)
<1>1. s \in Seq(S) /\ n \in Nat /\ DOMAIN s = 1 .. n /\ x \in S
  BY DEF IsList
<1> HIDE DEF S
<1>2. t \in Seq(S) /\ Len(t) = n + 1 /\ DOMAIN t = 1 .. n + 1
  BY <1>1
<1>3. t[n + 1] = x /\ \A j \in 1 .. n : t[j] = s[j]
  BY <1>1
<1>4. IsList(t)
  BY <1>2, SeqIsList
<1>5. DOMAIN t = DOMAIN s \cup {n + 1} /\ n + 1 \notin DOMAIN s
  <2>0. n \in Nat
    BY <1>1
  <2>1. 1 .. n + 1 = (1 .. n) \cup {n + 1}
    <3> HIDE DEF n
    <3> QED BY <2>0
  <2>2. n + 1 \notin 1 .. n
    <3> HIDE DEF n
    <3> QED BY <2>0
  <2> QED BY <1>1, <1>2, <2>1, <2>2
<1> QED BY <1>1, <1>3, <1>4, <1>5

LEMMA CellSet ==
  ASSUME NEW cells, IsCells(cells), NEW cell \in DOMAIN CellEdit, NEW value \in CellEdit[cell]
  PROVE  IsCells([cells EXCEPT ![cell] = value])
<1> DEFINE new == [cells EXCEPT ![cell] = value]
<1>1. DOMAIN new = CellField /\ cell \in CellField
  BY EditsAssumption DEF IsCells
<1>2. new.route = IF cell = "route" THEN value ELSE cells.route
  BY <1>1 DEF IsCells, CellField
<1>3. IsRoute(new.route)
  BY <1>2, EditsAssumption DEF IsCells
<1> QED BY <1>1, <1>3 DEF IsCells

LEMMA CardSet ==
  ASSUME NEW card, IsCard(card), NEW field \in DOMAIN CardEdit, NEW value \in CardEdit[field],
         NEW new, new = [card EXCEPT ![field] = value]
  PROVE  IsCard(new) /\ new.id = card.id
<1>1. DOMAIN new = CardField /\ field \in CardField \ {"id"}
  BY EditsAssumption DEF IsCard
<1>2. new.grid = IF field = "grid" THEN value ELSE card.grid
  BY <1>1 DEF IsCard, CardField
<1>3. new.says = IF field = "says" THEN value ELSE card.says
  BY <1>1 DEF IsCard, CardField
<1>4. new.id = card.id
  BY <1>1 DEF IsCard, CardField
<1>5. IsGrid(new.grid) /\ IsSays(new.says)
  BY <1>2, <1>3, EditsAssumption DEF IsCard
<1> QED BY <1>1, <1>4, <1>5 DEF IsCard

LEMMA GridSet ==
  ASSUME NEW card, IsCard(card), NEW grid, IsCells(grid), NEW new, new = [card EXCEPT !.grid = grid]
  PROVE  IsCard(new) /\ new.id = card.id
<1>1. DOMAIN new = CardField /\ new.grid = grid /\ new.says = card.says /\ new.id = card.id
  BY DEF IsCard, CardField
<1>2. IsGrid(new.grid)
  BY <1>1 DEF IsGrid
<1> QED BY <1>1, <1>2 DEF IsCard

LEMMA DocFacts ==
  ASSUME NEW f, NEW D, IsDocs(f, D), NEW d \in DOMAIN D
  PROVE  /\ IsList(D[d].cards) /\ \A i \in DOMAIN D[d].cards : IsCard(D[d].cards[i])
         /\ DOMAIN D[d] = {"spine", "cards"} /\ D[d].spine \subseteq Checkpoint
         /\ \A i, j \in DOMAIN D[d].cards : D[d].cards[i].id = D[d].cards[j].id => i = j
         /\ \A e \in DOMAIN D \ {d} : \A i \in DOMAIN D[e].cards : \A j \in DOMAIN D[d].cards :
              D[e].cards[i].id # D[d].cards[j].id
BY DEF IsDocs, IsDoc, UniqueIds

LEMMA CardReplaced ==
  ASSUME NEW f, NEW D, IsDocs(f, D), NEW d \in DOMAIN D, NEW i \in DOMAIN D[d].cards,
         NEW card, IsCard(card), card.id = D[d].cards[i].id
  PROVE  IsDocs(f, [D EXCEPT ![d].cards[i] = card])
<1> DEFINE cs == D[d].cards
<1> DEFINE t == [cs EXCEPT ![i] = card]
<1>1. IsList(t) /\ DOMAIN t = DOMAIN cs /\ t[i] = card /\ \A j \in DOMAIN cs \ {i} : t[j] = cs[j]
  BY DocFacts, ElementReplaced
<1>2. [D EXCEPT ![d].cards[i] = card] = [D EXCEPT ![d].cards = t]
  OBVIOUS
<1> HIDE DEF t
<1>3. \A j \in DOMAIN t : t[j].id = cs[j].id /\ IsCard(t[j])
  BY <1>1, DocFacts
<1>4. \A j, k \in DOMAIN t : t[j].id = t[k].id => j = k
  BY <1>1, <1>3, DocFacts
<1>5. \A e \in DOMAIN D \ {d} : \A k \in DOMAIN D[e].cards : \A j \in DOMAIN t :
        D[e].cards[k].id # t[j].id
  BY <1>1, <1>3, DocFacts
<1> QED BY <1>1, <1>2, <1>3, <1>4, <1>5, CardsReplaced

LEMMA CardDropped ==
  ASSUME NEW f, NEW D, IsDocs(f, D), NEW d \in DOMAIN D, NEW i \in DOMAIN D[d].cards
  PROVE  IsDocs(f, [D EXCEPT ![d].cards = RemoveAt(D[d].cards, i)])
<1> DEFINE cs == D[d].cards
<1> DEFINE t == RemoveAt(cs, i)
<1>1. PICK from \in [DOMAIN t -> DOMAIN cs] :
        /\ \A j \in DOMAIN t : t[j] = cs[from[j]]
        /\ \A j, k \in DOMAIN t : from[j] = from[k] => j = k
  BY DocFacts, ElementDropped
<1>2. IsList(t)
  BY DocFacts, ElementDropped
<1>0. t = RemoveAt(D[d].cards, i)
  OBVIOUS
<1> HIDE DEF t
<1>3. \A j \in DOMAIN t : from[j] \in DOMAIN cs /\ t[j] = cs[from[j]]
  BY <1>1
<1>4. \A j \in DOMAIN t : IsCard(t[j])
  BY <1>3, DocFacts
<1>5. \A j, k \in DOMAIN t : t[j].id = t[k].id => j = k
  <2> SUFFICES ASSUME NEW j \in DOMAIN t, NEW k \in DOMAIN t, t[j].id = t[k].id PROVE j = k
    OBVIOUS
  <2>1. cs[from[j]].id = cs[from[k]].id /\ from[j] \in DOMAIN cs /\ from[k] \in DOMAIN cs
    BY <1>3
  <2>2. from[j] = from[k]
    BY <2>1, DocFacts
  <2> QED BY <1>1, <2>2
<1>6. ASSUME NEW e \in DOMAIN D \ {d}, NEW k \in DOMAIN D[e].cards, NEW j \in DOMAIN t
      PROVE  D[e].cards[k].id # t[j].id
  BY <1>3, DocFacts
<1> QED BY <1>2, <1>4, <1>5, <1>6, <1>0, CardsReplaced

LEMMA CardAdded ==
  ASSUME NEW f, NEW D, IsDocs(f, D), NEW d \in DOMAIN D, NEW card, IsCard(card),
         \A e \in DOMAIN D : \A i \in DOMAIN D[e].cards : D[e].cards[i].id # card.id
  PROVE  IsDocs(f, [D EXCEPT ![d].cards = Append(D[d].cards, card)])
<1> DEFINE cs == D[d].cards
<1> DEFINE n == Len(cs) + 1
<1> DEFINE t == Append(cs, card)
<1>1. IsList(cs) /\ t = Append(cs, card) /\ n = Len(cs) + 1
  BY DocFacts
<1>2. t = Append(D[d].cards, card) /\ cs = D[d].cards
  OBVIOUS
<1> HIDE DEF cs, t, n
<1>3. IsList(t)
  BY <1>1, ElementAdded
<1>4. DOMAIN t = DOMAIN cs \cup {n} /\ t[n] = card
  <2>1. DOMAIN t = DOMAIN cs \cup {n}
    BY <1>1, ElementAdded
  <2>2. t[n] = card
    BY <1>1, ElementAdded
  <2> QED BY <2>1, <2>2
<1>5. \A j \in DOMAIN cs : t[j] = cs[j]
  BY <1>1, ElementAdded
<1>6. n \notin DOMAIN cs
  BY <1>1, ElementAdded
<1>7. \A j \in DOMAIN t : IsCard(t[j])
  BY <1>2, <1>4, <1>5, <1>6, DocFacts
<1>8. \A j, k \in DOMAIN t : t[j].id = t[k].id => j = k
  <2> SUFFICES ASSUME NEW j \in DOMAIN t, NEW k \in DOMAIN t, t[j].id = t[k].id PROVE j = k
    OBVIOUS
  <2>1. CASE j = n /\ k # n
    BY <1>2, <1>4, <1>5, <1>6, <2>1
  <2>2. CASE j # n /\ k = n
    BY <1>2, <1>4, <1>5, <1>6, <2>2
  <2>3. CASE j # n /\ k # n
    BY <1>2, <1>4, <1>5, <1>6, <2>3, DocFacts
  <2> QED BY <2>1, <2>2, <2>3
<1>9. ASSUME NEW e \in DOMAIN D \ {d}, NEW k \in DOMAIN D[e].cards, NEW j \in DOMAIN t
      PROVE  D[e].cards[k].id # t[j].id
  <2>1. CASE j = n
    BY <1>2, <1>4, <1>5, <1>6, <2>1
  <2>2. CASE j # n
    BY <1>2, <1>4, <1>5, <1>6, <2>2, DocFacts
  <2> QED BY <2>1, <2>2
<1>10. IsDocs(f, [D EXCEPT ![d].cards = t])
  BY <1>3, <1>7, <1>8, <1>9, CardsReplaced
<1> QED BY <1>10, <1>2

LEMMA SpineSet ==
  ASSUME NEW f, NEW D, IsDocs(f, D), NEW d \in DOMAIN D, NEW spine \in SUBSET Checkpoint
  PROVE  IsDocs(f, [D EXCEPT ![d].spine = spine])
<1> DEFINE doc == [D[d] EXCEPT !.spine = spine]
<1>1. DOMAIN doc = {"spine", "cards"} /\ doc.spine = spine /\ doc.cards = D[d].cards
  BY DocFacts
<1>2. [D EXCEPT ![d].spine = spine] = [D EXCEPT ![d] = doc]
  OBVIOUS
<1> HIDE DEF doc
<1>3. IsDoc(doc)
  BY <1>1, DocFacts DEF IsDoc
<1>4. \A j, k \in DOMAIN doc.cards : doc.cards[j].id = doc.cards[k].id => j = k
  BY <1>1, DocFacts
<1>5. \A e \in DOMAIN D \ {d} : \A i \in DOMAIN D[e].cards : \A j \in DOMAIN doc.cards :
        D[e].cards[i].id # doc.cards[j].id
  BY <1>1, DocFacts
<1> QED BY <1>2, <1>3, <1>4, <1>5, DocReplaced

LEMMA RowSet ==
  ASSUME NEW r, IsRows(r), NEW i \in DOMAIN r, NEW cells, IsCells(cells)
  PROVE  IsRows([r EXCEPT ![i].cells = cells])
<1> DEFINE row == [r[i] EXCEPT !.cells = cells]
<1> DEFINE t == [r EXCEPT ![i] = row]
<1>1. [r EXCEPT ![i].cells = cells] = t
  OBVIOUS
<1>2. IsRow(row)
  BY DEF IsRow, IsRows
<1> HIDE DEF row
<1>3. IsList(r) /\ \A j \in DOMAIN r : IsRow(r[j])
  BY DEF IsRows
<1>4. IsList(t) /\ DOMAIN t = DOMAIN r /\ t[i] = row /\ \A j \in DOMAIN r \ {i} : t[j] = r[j]
  BY <1>3, ElementReplaced
<1> HIDE DEF t
<1>5. IsRows(t)
  BY <1>2, <1>3, <1>4 DEF IsRows
<1> QED BY <1>1, <1>5

(***************************************************************************)
(* The inductive invariant of WorkOrder.                                   *)
(***************************************************************************)
Shape ==
  /\ feed \in Feeds /\ IsDocs(feed, docs) /\ IsRows(rows)
  /\ edits \in 0 .. MaxEdits /\ rev \in 0 .. edits

Versions ==
  /\ kept # NoVersion => DOMAIN kept = {"docs", "rev"} /\ IsDocs(feed, kept.docs)
  /\ kept.rev \in 0 .. rev
  /\ order # NoOrder =>
       /\ DOMAIN order = {"is", "changes", "of", "docs", "rev"}
       /\ order.is \in {"seed", "run"} /\ DOMAIN order.changes = Bucket
       /\ IsDocs(feed, order.docs) /\ order.rev \in 0 .. rev

(* Every case of the ordered version is in a bucket, whatever is edited since. *)
Sorted ==
  order # NoOrder =>
    LET b == order.changes
    IN /\ Apart(b)
       /\ rev = order.rev =>
            Ids(LoadCatalog(feed, order.docs, rows)) =
              b.added \cup b.data_changed \cup b.expected_changed \cup b.checkpoint_changed \cup b.unchanged

(* A fixture is that of the case the seeder last saw. *)
Faithful ==
  /\ DOMAIN ran \subseteq DOMAIN fixture /\ DOMAIN fixture \subseteq DOMAIN visit
  /\ \A id \in DOMAIN visit :
       /\ DOMAIN visit[id] = {"case", "rev", "ordered"}
       /\ visit[id].rev \in 0 .. rev /\ IsCase(visit[id].case)
       /\ Seedable(visit[id].case) => id \in DOMAIN fixture /\ fixture[id] = MetaOf(visit[id].case)

(* What has not been run as it was seeded is in the order's run. *)
Unrun ==
  \A id \in DOMAIN fixture :
    \/ id \in DOMAIN ran /\ ran[id] = FixtureCase(fixture[id])
    \/ /\ order # NoOrder /\ order.is = "run"
       /\ \E c \in ToRun(order.changes) : NormId(c) = NormId(id)

(* The seeder has seen the data of the version D, where it need not come again. *)
AsIn(D, id) ==
  Seen(id) => Untagged(visit[id].case.seed) = Untagged(CaseOf(LoadCatalog(feed, D, rows), id).seed)

Trusted(D) == \A id \in Ids(LoadCatalog(feed, D, rows)) : AsIn(D, id)

KeptTrusted == kept # NoVersion /\ (order = NoOrder \/ order.is = "seed") => Trusted(kept.docs)

RestTrusted ==
  order # NoOrder /\ order.is = "seed" =>
    \A id \in Ids(LoadCatalog(feed, order.docs, rows)) \ ToSeed(order.changes) : AsIn(order.docs, id)

OrderTrusted == order # NoOrder /\ order.is = "run" => Trusted(order.docs)

WOInv ==
  /\ Shape /\ Versions /\ Sorted /\ NoIdleWork
  /\ Faithful /\ Unrun
  /\ KeptTrusted /\ RestTrusted /\ OrderTrusted

LEMMA InitInv == WOInit => WOInv
<1> SUFFICES ASSUME WOInit PROVE WOInv
  OBVIOUS
<1>1. IsDocs(feed, docs)
  <2>1. feed \in Feeds /\ docs = [d \in DocsOf(feed) |-> BaseDocs[d]]
    BY DEF WOInit, DocsOf, Doc
  <2>2. UniqueIds(docs)
    BY <2>1, FeedsAssumption DEF DocsOf
  <2>3. \A d \in DOMAIN docs : d \in DOMAIN BaseDocs /\ docs[d] = BaseDocs[d]
    <3>1. Len(feed.docs) \in Nat /\ feed.docs \in [1 .. Len(feed.docs) -> DOMAIN BaseDocs]
      BY <2>1, FeedsAssumption
    <3>2. DocsOf(feed) \subseteq DOMAIN BaseDocs
      BY <3>1 DEF DocsOf
    <3> QED BY <2>1, <3>2
  <2> QED BY <2>1, <2>2, <2>3, BaseAssumption DEF IsDocs
<1>2. IsRows(rows)
  <2>1. IsRows(<<>>)
    BY DEF IsRows, IsList
  <2>2. IsRows(BaseRows)
    BY BaseAssumption DEF IsRows
  <2> QED BY <2>1, <2>2 DEF WOInit
<1>3. Shape
  BY <1>1, <1>2, EditsAssumption DEF Shape, WOInit
<1>4. kept = NoVersion /\ kept.rev = 0 /\ order = NoOrder
  BY DEF WOInit, NoVersion
<1>5. visit = <<>> /\ fixture = <<>> /\ ran = <<>> /\ rev = 0
  BY DEF WOInit
<1>6. Versions /\ Sorted /\ NoIdleWork
  BY <1>4, <1>5 DEF Versions, Sorted, NoIdleWork
<1>7. Faithful /\ Unrun
  BY <1>5 DEF Faithful, Unrun
<1>8. KeptTrusted /\ RestTrusted /\ OrderTrusted
  BY <1>4 DEF KeptTrusted, RestTrusted, OrderTrusted
<1> QED BY <1>3, <1>6, <1>7, <1>8 DEF WOInv

(* The documents and the dataset are only read by what comes after: an edit of *)
(* the documents leaves all of it as it is, one of the dataset puts every case *)
(* out of the seeder's sight.                                                  *)
LEMMA WrittenKeeps ==
  ASSUME WOInv, Shape', UNCHANGED <<feed, kept, order, visit, fixture, ran>>,
         (rows' = rows /\ rev' = rev) \/ rev' = edits + 1
  PROVE  WOInv'
<1>0. rev \in Nat /\ rev' \in Nat /\ rev <= rev' /\ edits \in Nat /\ rev <= edits
  BY EditsAssumption DEF WOInv, Shape
<1>1. Versions'
  BY <1>0 DEF WOInv, Versions
<1>2. NoIdleWork' /\ Unrun'
  BY DEF WOInv, NoIdleWork, Unrun
<1>3. Faithful'
  BY <1>0 DEF WOInv, Faithful
<1>4. CASE rows' = rows /\ rev' = rev
  <2>1. Sorted'
    BY <1>4 DEF WOInv, Sorted
  <2>2. KeptTrusted'
    BY <1>4 DEF WOInv, KeptTrusted, Trusted, AsIn, Seen
  <2>3. RestTrusted'
    BY <1>4 DEF WOInv, RestTrusted, AsIn, Seen
  <2>4. OrderTrusted'
    BY <1>4 DEF WOInv, OrderTrusted, Trusted, AsIn, Seen
  <2> QED BY <1>1, <1>2, <1>3, <2>1, <2>2, <2>3, <2>4 DEF WOInv
<1>5. CASE rev' = edits + 1
  <2>1. \A id : ~Seen(id)'
    BY <1>0, <1>5 DEF WOInv, Faithful, Seen
  <2>2. order # NoOrder => order.rev # rev'
    BY <1>0, <1>5 DEF WOInv, Versions
  <2>3. Sorted'
    BY <2>2 DEF WOInv, Sorted
  <2>4. KeptTrusted' /\ RestTrusted' /\ OrderTrusted'
    BY <2>1 DEF KeptTrusted, RestTrusted, OrderTrusted, Trusted, AsIn
  <2> QED BY <1>1, <1>2, <1>3, <2>3, <2>4 DEF WOInv
<1> QED BY <1>4, <1>5

LEMMA EditShape ==
  ASSUME WOInv, Edit, IsDocs(feed, docs'), IsRows(rows'),
         rev' = rev \/ rev' = edits + 1
  PROVE  Shape'
<1>1. edits \in Nat /\ rev \in Nat /\ rev <= edits /\ MaxEdits \in Nat
  BY EditsAssumption DEF WOInv, Shape
<1>2. feed' = feed /\ edits' = edits + 1 /\ edits < MaxEdits
  BY DEF Edit
<1>3. feed \in Feeds
  BY DEF WOInv, Shape
<1> QED BY <1>1, <1>2, <1>3 DEF Shape

LEMMA EditCardInv == ASSUME WOInv, EditCard PROVE WOInv'
<1>1. IsDocs(feed, docs) /\ IsRows(rows) /\ Doc = DOMAIN docs
  BY DEF WOInv, Shape, IsDocs, DocsOf, Doc
<1>2. Edit /\ rows' = rows /\ rev' = rev
  BY DEF EditCard
<1>3. PICK d \in DOMAIN docs : \E i \in DOMAIN docs[d].cards :
        \/ \E field \in DOMAIN CardEdit : \E value \in CardEdit[field] :
             docs' = [docs EXCEPT ![d].cards[i] = [docs[d].cards[i] EXCEPT ![field] = value]]
        \/ /\ docs[d].cards[i].grid # NoGrid
           /\ \E cell \in DOMAIN CellEdit : \E value \in CellEdit[cell] :
                docs' = [docs EXCEPT ![d].cards[i].grid = [docs[d].cards[i].grid EXCEPT ![cell] = value]]
  BY <1>1 DEF EditCard
<1>4. PICK i \in DOMAIN docs[d].cards :
        \/ \E field \in DOMAIN CardEdit : \E value \in CardEdit[field] :
             docs' = [docs EXCEPT ![d].cards[i] = [docs[d].cards[i] EXCEPT ![field] = value]]
        \/ /\ docs[d].cards[i].grid # NoGrid
           /\ \E cell \in DOMAIN CellEdit : \E value \in CellEdit[cell] :
                docs' = [docs EXCEPT ![d].cards[i].grid = [docs[d].cards[i].grid EXCEPT ![cell] = value]]
  BY <1>3
<1> DEFINE card == docs[d].cards[i]
<1>5. IsCard(card)
  BY <1>1, DocFacts
<1>6. \E new : IsCard(new) /\ new.id = card.id /\ docs' = [docs EXCEPT ![d].cards[i] = new]
  <2>1. CASE \E field \in DOMAIN CardEdit : \E value \in CardEdit[field] :
               docs' = [docs EXCEPT ![d].cards[i] = [card EXCEPT ![field] = value]]
    <3>1. PICK field \in DOMAIN CardEdit : \E value \in CardEdit[field] :
            docs' = [docs EXCEPT ![d].cards[i] = [card EXCEPT ![field] = value]]
      BY <2>1
    <3>2. PICK value \in CardEdit[field] : docs' = [docs EXCEPT ![d].cards[i] = [card EXCEPT ![field] = value]]
      BY <3>1
    <3> DEFINE new == [card EXCEPT ![field] = value]
    <3>3. docs' = [docs EXCEPT ![d].cards[i] = new]
      BY <3>2
    <3>4. IsCard(new) /\ new.id = card.id
      BY <1>5, CardSet
    <3> HIDE DEF new
    <3> QED BY <3>3, <3>4
  <2>2. CASE /\ card.grid # NoGrid
             /\ \E cell \in DOMAIN CellEdit : \E value \in CellEdit[cell] :
                  docs' = [docs EXCEPT ![d].cards[i].grid = [card.grid EXCEPT ![cell] = value]]
    <3>1. PICK cell \in DOMAIN CellEdit : \E value \in CellEdit[cell] :
            docs' = [docs EXCEPT ![d].cards[i].grid = [card.grid EXCEPT ![cell] = value]]
      BY <2>2
    <3>2. PICK value \in CellEdit[cell] :
            docs' = [docs EXCEPT ![d].cards[i].grid = [card.grid EXCEPT ![cell] = value]]
      BY <3>1
    <3> DEFINE grid == [card.grid EXCEPT ![cell] = value]
    <3> DEFINE new == [card EXCEPT !.grid = grid]
    <3>3. docs' = [docs EXCEPT ![d].cards[i] = new]
      BY <3>2
    <3>4. IsCells(card.grid)
      BY <1>5, <2>2 DEF IsCard, IsGrid
    <3>5. IsCells(grid)
      BY <3>4, CellSet
    <3>6. new = [card EXCEPT !.grid = grid]
      OBVIOUS
    <3> HIDE DEF new, grid
    <3>7. IsCard(new) /\ new.id = card.id
      BY <1>5, <3>5, <3>6, GridSet
    <3> QED BY <3>3, <3>7
  <2> QED BY <1>4, <2>1, <2>2
<1>7. IsDocs(feed, docs')
  <2>1. PICK new : IsCard(new) /\ new.id = card.id /\ docs' = [docs EXCEPT ![d].cards[i] = new]
    BY <1>6
  <2>2. IsDocs(feed, [docs EXCEPT ![d].cards[i] = new])
    BY <1>1, <2>1, CardReplaced
  <2> QED BY <2>1, <2>2
<1>8. Shape'
  BY <1>1, <1>2, <1>7, EditShape
<1> QED BY <1>2, <1>8, WrittenKeeps DEF Edit, made

LEMMA AddCardInv == ASSUME WOInv, AddCard PROVE WOInv'
<1>1. IsDocs(feed, docs) /\ IsRows(rows) /\ Doc = DOMAIN docs
  BY DEF WOInv, Shape, IsDocs, DocsOf, Doc
<1>2. Edit /\ rows' = rows /\ rev' = rev
  BY DEF AddCard
<1>3. PICK d \in DOMAIN docs, card \in NewCards :
        /\ \A e \in DOMAIN docs : \A i \in DOMAIN docs[e].cards : docs[e].cards[i].id # card.id
        /\ docs' = [docs EXCEPT ![d].cards = Append(docs[d].cards, card)]
  BY <1>1 DEF AddCard
<1>4. IsCard(card)
  BY EditsAssumption
<1>5. IsDocs(feed, docs')
  BY <1>1, <1>3, <1>4, CardAdded
<1>6. Shape'
  BY <1>1, <1>2, <1>5, EditShape
<1> QED BY <1>2, <1>6, WrittenKeeps DEF Edit, made

LEMMA DropCardInv == ASSUME WOInv, DropCard PROVE WOInv'
<1>1. IsDocs(feed, docs) /\ IsRows(rows) /\ Doc = DOMAIN docs
  BY DEF WOInv, Shape, IsDocs, DocsOf, Doc
<1>2. Edit /\ rows' = rows /\ rev' = rev
  BY DEF DropCard
<1>3. PICK d \in DOMAIN docs : \E i \in DOMAIN docs[d].cards :
        docs' = [docs EXCEPT ![d].cards = RemoveAt(docs[d].cards, i)]
  BY <1>1 DEF DropCard
<1>4. IsDocs(feed, docs')
  <2>1. PICK i \in DOMAIN docs[d].cards : docs' = [docs EXCEPT ![d].cards = RemoveAt(docs[d].cards, i)]
    BY <1>3
  <2>2. IsDocs(feed, [docs EXCEPT ![d].cards = RemoveAt(docs[d].cards, i)])
    BY <1>1, CardDropped
  <2> QED BY <2>1, <2>2
<1>5. Shape'
  BY <1>1, <1>2, <1>4, EditShape
<1> QED BY <1>2, <1>5, WrittenKeeps DEF Edit, made

LEMMA EditSpineInv == ASSUME WOInv, EditSpine PROVE WOInv'
<1>1. IsDocs(feed, docs) /\ IsRows(rows) /\ Doc = DOMAIN docs
  BY DEF WOInv, Shape, IsDocs, DocsOf, Doc
<1>2. Edit /\ rows' = rows /\ rev' = rev
  BY DEF EditSpine
<1>3. PICK d \in DOMAIN docs, cp \in Checkpoint :
        docs' = [docs EXCEPT ![d].spine =
                   IF cp \in docs[d].spine THEN docs[d].spine \ {cp} ELSE docs[d].spine \cup {cp}]
  BY <1>1 DEF EditSpine
<1> DEFINE spine == IF cp \in docs[d].spine THEN docs[d].spine \ {cp} ELSE docs[d].spine \cup {cp}
<1>4. spine \in SUBSET Checkpoint
  BY <1>1, DocFacts
<1>5. docs' = [docs EXCEPT ![d].spine = spine]
  BY <1>3
<1> HIDE DEF spine
<1>6. IsDocs(feed, docs')
  BY <1>1, <1>4, <1>5, SpineSet
<1>7. Shape'
  BY <1>1, <1>2, <1>6, EditShape
<1> QED BY <1>2, <1>7, WrittenKeeps DEF Edit, made

LEMMA EditRowInv == ASSUME WOInv, EditRow PROVE WOInv'
<1>1. IsDocs(feed, docs) /\ IsRows(rows)
  BY DEF WOInv, Shape
<1>2. Edit /\ docs' = docs /\ rev' = edits + 1
  BY DEF EditRow
<1>3. PICK i \in DOMAIN rows, cell \in DOMAIN CellEdit : \E value \in CellEdit[cell] :
        rows' = [rows EXCEPT ![i].cells = [rows[i].cells EXCEPT ![cell] = value]]
  BY DEF EditRow
<1>4. PICK value \in CellEdit[cell] :
        rows' = [rows EXCEPT ![i].cells = [rows[i].cells EXCEPT ![cell] = value]]
  BY <1>3
<1> DEFINE cells == [rows[i].cells EXCEPT ![cell] = value]
<1>5. IsCells(cells)
  <2>1. IsCells(rows[i].cells)
    BY <1>1 DEF IsRows, IsRow
  <2> QED BY <2>1, CellSet
<1>6. rows' = [rows EXCEPT ![i].cells = cells]
  BY <1>4
<1> HIDE DEF cells
<1>7. IsRows(rows')
  BY <1>1, <1>5, <1>6, RowSet
<1>8. Shape'
  BY <1>1, <1>2, <1>7, EditShape
<1> QED BY <1>2, <1>8, WrittenKeeps DEF Edit, made

(* An order that is made from the documents of today, with buckets that cover *)
(* them and leave out of the seeding what the seeder has seen as it is.       *)
LEMMA OrderMade ==
  ASSUME WOInv, order = NoOrder, UNCHANGED <<feed, kept, written, made>>,
         NEW b, NEW o, order' = [is |-> "seed", changes |-> b, of |-> o, docs |-> docs, rev |-> rev],
         DOMAIN b = Bucket, Apart(b),
         Ids(Now) = b.added \cup b.data_changed \cup b.expected_changed
                      \cup b.checkpoint_changed \cup b.unchanged,
         \A id \in Ids(Now) \ ToSeed(b) : AsIn(docs, id),
         NoIdleWork'
  PROVE  WOInv'
<1>1. /\ order'.is = "seed" /\ order'.changes = b /\ order'.docs = docs /\ order'.rev = rev
      /\ DOMAIN order' = {"is", "changes", "of", "docs", "rev"}
  OBVIOUS
<1>2. /\ feed' = feed /\ kept' = kept /\ docs' = docs /\ rows' = rows /\ edits' = edits /\ rev' = rev
      /\ visit' = visit /\ fixture' = fixture /\ ran' = ran
  BY DEF written, made
<1>3. rev \in Nat /\ IsDocs(feed, docs)
  BY EditsAssumption DEF WOInv, Shape
<1>4. Shape'
  BY <1>2 DEF WOInv, Shape
<1>5. Versions'
  BY <1>1, <1>2, <1>3 DEF WOInv, Versions
<1>6. Sorted'
  BY <1>1, <1>2 DEF Sorted, Now
<1>7. Faithful'
  BY <1>2 DEF WOInv, Faithful
<1>8. Unrun'
  BY <1>2 DEF WOInv, Unrun
<1>9. KeptTrusted'
  BY <1>2 DEF WOInv, KeptTrusted, Trusted, AsIn, Seen
<1>10. RestTrusted'
  BY <1>1, <1>2 DEF RestTrusted, AsIn, Seen, Now
<1>11. OrderTrusted'
  BY <1>1 DEF OrderTrusted
<1> QED BY <1>4, <1>5, <1>6, <1>7, <1>8, <1>9, <1>10, <1>11 DEF WOInv

LEMMA RunCatalogInv == ASSUME WOInv, RunCatalog PROVE WOInv'
<1>1. feed \in Feeds /\ IsDocs(feed, docs) /\ IsRows(rows) /\ DOMAIN docs = Doc
  BY DEF WOInv, Shape, IsDocs, DocsOf, Doc
<1>2. order = NoOrder /\ UNCHANGED <<feed, kept, written, made>>
  BY DEF RunCatalog
<1>3. CASE order' = [is |-> "seed", changes |-> FirstChanges, of |-> Null, docs |-> docs, rev |-> rev]
  <2> DEFINE b == FirstChanges
  <2>1. /\ DOMAIN b = Bucket /\ b.added = Ids(Now) /\ b.removed = {} /\ b.data_changed = {}
        /\ b.expected_changed = {} /\ b.checkpoint_changed = {} /\ b.unchanged = {}
    BY DEF FirstChanges, Bucket
  <2>2. order'.of = Null
    BY <1>3
  <2>3. NoIdleWork'
    BY <2>2 DEF NoIdleWork
  <2> HIDE DEF b
  <2>4. Apart(b)
    BY <2>1 DEF Apart, Bucket
  <2>5. ToSeed(b) = Ids(Now)
    BY <2>1 DEF ToSeed
  <2>6. order' = [is |-> "seed", changes |-> b, of |-> Null, docs |-> docs, rev |-> rev]
    BY <1>3 DEF b
  <2>7. Ids(Now) = b.added \cup b.data_changed \cup b.expected_changed \cup b.checkpoint_changed \cup b.unchanged
    BY <2>1
  <2>8. \A id \in Ids(Now) \ ToSeed(b) : AsIn(docs, id)
    BY <2>5
  <2> QED BY <1>2, <2>1, <2>3, <2>4, <2>6, <2>7, <2>8, OrderMade
<1>4. CASE /\ kept # NoVersion
           /\ \E d \in Doc :
                order' = [is |-> "seed", changes |-> Diff(OldCatalog(feed, kept.docs[d], rows), Now),
                          of |-> d, docs |-> docs, rev |-> rev]
  <2>1. PICK d \in Doc :
          order' = [is |-> "seed", changes |-> Diff(OldCatalog(feed, kept.docs[d], rows), Now),
                    of |-> d, docs |-> docs, rev |-> rev]
    BY <1>4
  <2> DEFINE old == OldCatalog(feed, kept.docs[d], rows)
  <2> DEFINE b == Diff(old, Now)
  <2>2. order' = [is |-> "seed", changes |-> b, of |-> d, docs |-> docs, rev |-> rev]
    BY <2>1
  <2> HIDE DEF b
  <2>3. /\ DOMAIN b = Bucket /\ Apart(b)
        /\ Ids(Now) = b.added \cup b.data_changed \cup b.expected_changed
                        \cup b.checkpoint_changed \cup b.unchanged
    BY DiffApart DEF b
  <2>4. IsDocs(feed, kept.docs) /\ d \in DOMAIN kept.docs
    BY <1>1, <1>4 DEF WOInv, Versions, IsDocs
  <2>5. /\ b.added = Ids(Now) \ Ids(old)
        /\ \A id : id \in b.data_changed <=>
             id \in Ids(old) \cap Ids(Now) /\ Label(CaseOf(old, id), CaseOf(Now, id)) = "data"
        /\ \A id : id \in b.expected_changed <=>
             id \in Ids(old) \cap Ids(Now) /\ Label(CaseOf(old, id), CaseOf(Now, id)) = "expected"
    BY DiffMembers DEF b
  <2>6. /\ \A id \in Ids(old) : \E i \in DOMAIN kept.docs[d].cards : id = kept.docs[d].cards[i].id
        /\ \A i \in DOMAIN kept.docs[d].cards :
             /\ kept.docs[d].cards[i].id \in Ids(old)
             /\ CaseOf(old, kept.docs[d].cards[i].id) = Plain(feed, kept.docs[d].cards[i], rows)
    BY <1>1, <2>4, OldIds
  <2> HIDE DEF old
  <2>7. /\ \A id \in Ids(Now) : \E e \in DOMAIN docs : \E j \in DOMAIN docs[e].cards : id = docs[e].cards[j].id
        /\ \A e \in DOMAIN docs : \A j \in DOMAIN docs[e].cards :
             /\ docs[e].cards[j].id \in Ids(Now)
             /\ CaseOf(Now, docs[e].cards[j].id) = Placed(feed, e, docs[e].cards[j], rows)
    BY <1>1, CatalogIds DEF Now
  <2>8. ASSUME NEW id \in Ids(Now) \ ToSeed(b) PROVE AsIn(docs, id)
    <3>1. id \in Ids(old) /\ Label(CaseOf(old, id), CaseOf(Now, id)) # "data"
      BY <2>5 DEF ToSeed
    <3>2. PICK i \in DOMAIN kept.docs[d].cards : id = kept.docs[d].cards[i].id
      BY <2>6, <3>1
    <3>3. PICK e \in DOMAIN docs : \E j \in DOMAIN docs[e].cards : id = docs[e].cards[j].id
      BY <2>7
    <3>4. PICK j \in DOMAIN docs[e].cards : id = docs[e].cards[j].id
      BY <3>3
    <3> DEFINE was == kept.docs[d].cards[i]
    <3> DEFINE is == docs[e].cards[j]
    <3> DEFINE c == Plain(feed, was, rows)
    <3> DEFINE p == Placed(feed, e, is, rows)
    <3>5. CaseOf(old, id) = c /\ CaseOf(Now, id) = p
      BY <2>6, <2>7, <3>2, <3>4
    <3>6. IsCard(was) /\ IsCard(is)
      BY <1>1, <2>4, DocFacts
    <3>7. Untagged(c.seed) = Untagged(p.seed)
      <4>1. Label(c, p) # "data"
        BY <3>1, <3>5
      <4> HIDE DEF was, is
      <4> QED BY <1>1, <3>6, <4>1, SeedKept
    <3> DEFINE cat == LoadCatalog(feed, kept.docs, rows)
    <3>8. id \in Ids(cat) /\ CaseOf(cat, id) = Placed(feed, d, was, rows)
      BY <1>1, <2>4, <3>2, CatalogIds
    <3>9. Untagged(CaseOf(cat, id).seed) = Untagged(c.seed)
      <4> DEFINE q == Placed(feed, d, was, rows)
      <4>1. Untagged(q.seed) = Untagged(c.seed)
        <5> HIDE DEF was
        <5> QED BY <1>1, <3>6, PlacedCase
      <4> QED BY <3>8, <4>1
    <3>10. AsIn(kept.docs, id)
      BY <1>2, <1>4, <3>8 DEF WOInv, KeptTrusted, Trusted
    <3> HIDE DEF c, p, cat
    <3> QED BY <3>5, <3>7, <3>9, <3>10 DEF AsIn, Now, cat
  <2>9. NoIdleWork'
    <3>1. order'.of = d /\ order'.docs = docs /\ order'.changes = b /\ kept' = kept
      BY <1>2, <2>2
    <3> SUFFICES ASSUME NEW i \in DOMAIN kept.docs[d].cards, NEW j \in DOMAIN docs[d].cards,
                        kept.docs[d].cards[i].id = docs[d].cards[j].id,
                        SameCard(kept.docs[d].cards[i], docs[d].cards[j])
                 PROVE  kept.docs[d].cards[i].id \notin ToSeed(b) \cup ToRun(b)
      BY <3>1 DEF NoIdleWork
    <3> DEFINE was == kept.docs[d].cards[i]
    <3> DEFINE is == docs[d].cards[j]
    <3> DEFINE c == Plain(feed, was, rows)
    <3> DEFINE n == Plain(feed, is, rows)
    <3> DEFINE p == Placed(feed, d, is, rows)
    <3>2. /\ was.id \in Ids(old) \cap Ids(Now)
          /\ CaseOf(old, was.id) = c /\ CaseOf(Now, was.id) = p
      BY <1>1, <2>6, <2>7
    <3>3. IsCard(was) /\ IsCard(is) /\ SameCard(was, is) /\ was.id = is.id
      BY <1>1, <2>4, DocFacts
    <3> HIDE DEF was, is
    <3>4. c.hash = n.hash
      BY <1>1, <3>3, SameHash
    <3>5. p.hash = n.hash
      BY <1>1, <3>3, PlacedCase
    <3>6. Label(c, p) = "unchanged"
      <4> HIDE DEF c, p, n
      <4> QED BY <3>4, <3>5, LabelSame
    <3> HIDE DEF c, p
    <3>7. was.id \notin b.added /\ was.id \notin b.data_changed /\ was.id \notin b.expected_changed
      BY <2>5, <3>2, <3>6
    <3>8. was.id \notin ToSeed(b) \cup ToRun(b)
      BY <3>7 DEF ToSeed, ToRun
    <3> QED BY <3>8 DEF was
  <2> QED BY <1>2, <2>2, <2>3, <2>8, <2>9, OrderMade
<1> QED BY <1>3, <1>4 DEF RunCatalog


LEMMA Missed ==
  ASSUME NEW seen, DOMAIN seen = {"case", "rev", "ordered"}, NEW missed \in BOOLEAN,
         NEW m, m = Miss(seen, missed)
  PROVE  /\ DOMAIN m = {"case", "rev", "ordered"} /\ m.case = seen.case /\ m.rev = seen.rev
         /\ m.ordered => seen.ordered /\ ~missed
BY DEF Miss

LEMMA SeedAllInv == ASSUME WOInv, SeedAll PROVE WOInv'
<1> DEFINE asked == {NormId(id) : id \in ToSeed(order.changes)}
<1> DEFINE ids == {id \in Ids(Now) : NormId(id) \in asked}
<1> DEFINE seeds == {id \in ids : Seedable(CaseOf(Now, id))}
<1> DEFINE seen == [id \in ids |-> See(id)]
<1> DEFINE other == [id \in DOMAIN visit |-> Miss(visit[id], NormId(id) \in asked)]
<1> DEFINE metas == [id \in seeds |-> MetaOf(CaseOf(Now, id))]
<1>1. /\ order # NoOrder /\ order.is = "seed"
      /\ visit' = Over(seen, other) /\ fixture' = Over(metas, fixture)
      /\ order' = [order EXCEPT !.is = "run"]
      /\ feed' = feed /\ kept' = kept /\ ran' = ran
      /\ docs' = docs /\ rows' = rows /\ edits' = edits /\ rev' = rev
  BY DEF SeedAll, written
<1>2. feed \in Feeds /\ IsDocs(feed, docs) /\ IsRows(rows) /\ rev \in Nat
  BY EditsAssumption DEF WOInv, Shape
<1>3. /\ DOMAIN order' = {"is", "changes", "of", "docs", "rev"} /\ order'.is = "run"
      /\ order'.changes = order.changes /\ order'.of = order.of
      /\ order'.docs = order.docs /\ order'.rev = order.rev
  BY <1>1 DEF WOInv, Versions
<1>4. \A id \in ids : IsCase(CaseOf(Now, id))
  BY <1>2, CatalogCase DEF Now
<1>5. /\ DOMAIN visit' = ids \cup DOMAIN visit
      /\ \A id \in ids : visit'[id] = See(id)
      /\ \A id \in DOMAIN visit \ ids : visit'[id] = Miss(visit[id], NormId(id) \in asked)
  <2>1. DOMAIN seen = ids /\ DOMAIN other = DOMAIN visit
    OBVIOUS
  <2>2. \A id \in ids : seen[id] = See(id)
    OBVIOUS
  <2>3. \A id \in DOMAIN visit : other[id] = Miss(visit[id], NormId(id) \in asked)
    OBVIOUS
  <2> HIDE DEF ids, seen, other
  <2>4. /\ DOMAIN visit' = DOMAIN seen \cup DOMAIN other
        /\ \A x \in DOMAIN seen : visit'[x] = seen[x]
        /\ \A x \in DOMAIN other \ DOMAIN seen : visit'[x] = other[x]
    BY <1>1 DEF Over
  <2> QED BY <2>1, <2>2, <2>3, <2>4
<1>6. /\ DOMAIN fixture' = seeds \cup DOMAIN fixture
      /\ \A id \in seeds : fixture'[id] = MetaOf(CaseOf(Now, id))
      /\ \A id \in DOMAIN fixture \ seeds : fixture'[id] = fixture[id]
  <2>1. DOMAIN metas = seeds /\ \A id \in seeds : metas[id] = MetaOf(CaseOf(Now, id))
    OBVIOUS
  <2> HIDE DEF seeds, metas
  <2>2. /\ DOMAIN fixture' = DOMAIN metas \cup DOMAIN fixture
        /\ \A x \in DOMAIN metas : fixture'[x] = metas[x]
        /\ \A x \in DOMAIN fixture \ DOMAIN metas : fixture'[x] = fixture[x]
    BY <1>1 DEF Over
  <2> QED BY <2>1, <2>2
<1>7. ASSUME NEW id \in ids
      PROVE  /\ DOMAIN visit'[id] = {"case", "rev", "ordered"}
             /\ visit'[id].case = CaseOf(Now, id) /\ visit'[id].rev = rev
             /\ visit'[id].ordered => docs = order.docs
  <2>1. visit'[id] = See(id)
    BY <1>5
  <2>2. /\ DOMAIN See(id) = {"case", "rev", "ordered"}
        /\ See(id).case = CaseOf(Now, id) /\ See(id).rev = rev
    BY DEF See
  <2>3. See(id).ordered => docs = order.docs
    BY DEF See
  <2> QED BY <2>1, <2>2, <2>3
<1>8. ASSUME NEW id \in DOMAIN visit \ ids
      PROVE  /\ DOMAIN visit'[id] = {"case", "rev", "ordered"}
             /\ visit'[id].case = visit[id].case /\ visit'[id].rev = visit[id].rev
             /\ visit'[id].ordered => visit[id].ordered /\ NormId(id) \notin asked
  <2>1. DOMAIN visit[id] = {"case", "rev", "ordered"}
    BY DEF WOInv, Faithful
  <2> DEFINE missed == NormId(id) \in asked
  <2>2. missed \in BOOLEAN
    OBVIOUS
  <2>3. visit'[id] = Miss(visit[id], missed)
    BY <1>5
  <2> HIDE DEF missed
  <2>4. /\ DOMAIN visit'[id] = {"case", "rev", "ordered"}
        /\ visit'[id].case = visit[id].case /\ visit'[id].rev = visit[id].rev
        /\ visit'[id].ordered => visit[id].ordered /\ ~missed
    BY <2>1, <2>2, <2>3, Missed
  <2> QED BY <2>4 DEF missed
<1>9. seeds \subseteq ids /\ \A id \in ids : id \in seeds <=> Seedable(CaseOf(Now, id))
  OBVIOUS
<1>10. /\ \A id \in ids : id \in Ids(Now) /\ NormId(id) \in asked
       /\ \A id \in Ids(Now) \ ids : NormId(id) \notin asked
       /\ \A id \in ToSeed(order.changes) : NormId(id) \in asked
       /\ \A name \in asked : \E c \in ToSeed(order.changes) : NormId(c) = name
  OBVIOUS
<1> HIDE DEF asked, ids, seeds, seen, other, metas
<1>11. Shape' /\ Versions' /\ Sorted' /\ NoIdleWork'
  <2>1. Shape'
    BY <1>1 DEF WOInv, Shape
  <2>2. Versions'
    BY <1>1, <1>3 DEF WOInv, Versions
  <2>3. Sorted'
    BY <1>1, <1>3 DEF WOInv, Sorted
  <2>4. NoIdleWork'
    BY <1>1, <1>3 DEF WOInv, NoIdleWork
  <2> QED BY <2>1, <2>2, <2>3, <2>4
<1>12. Faithful'
  <2>1. DOMAIN ran' \subseteq DOMAIN fixture' /\ DOMAIN fixture' \subseteq DOMAIN visit'
    BY <1>1, <1>5, <1>6, <1>9 DEF WOInv, Faithful
  <2>2. ASSUME NEW id \in DOMAIN visit'
        PROVE  /\ DOMAIN visit'[id] = {"case", "rev", "ordered"}
               /\ visit'[id].rev \in 0 .. rev /\ IsCase(visit'[id].case)
               /\ Seedable(visit'[id].case) => id \in DOMAIN fixture' /\ fixture'[id] = MetaOf(visit'[id].case)
    <3>1. CASE id \in ids
      BY <1>2, <1>4, <1>6, <1>7, <1>9, <3>1
    <3>2. CASE id \notin ids
      BY <1>5, <1>6, <1>8, <1>9, <3>2 DEF WOInv, Faithful
    <3> QED BY <3>1, <3>2
  <2> QED BY <1>1, <2>1, <2>2 DEF Faithful
<1>13. Unrun'
  <2> SUFFICES ASSUME NEW id \in DOMAIN fixture'
               PROVE  \/ id \in DOMAIN ran' /\ ran'[id] = FixtureCase(fixture'[id])
                      \/ /\ order' # NoOrder /\ order'.is = "run"
                         /\ \E c \in ToRun(order'.changes) : NormId(c) = NormId(id)
    BY DEF Unrun
  <2>1. CASE id \in seeds
    <3>1. \E c \in ToSeed(order.changes) : NormId(c) = NormId(id)
      BY <1>9, <1>10, <2>1
    <3>2. ToSeed(order.changes) \subseteq ToRun(order.changes)
      BY DEF ToSeed, ToRun
    <3>3. order' # NoOrder
      BY <1>3 DEF NoOrder
    <3> QED BY <1>3, <3>1, <3>2, <3>3
  <2>2. CASE id \notin seeds
    BY <1>1, <1>6, <2>2 DEF WOInv, Unrun
  <2> QED BY <2>1, <2>2
<1>14. KeptTrusted' /\ RestTrusted'
  <2>1. order' # NoOrder
    BY <1>3 DEF NoOrder
  <2> QED BY <1>3, <2>1 DEF KeptTrusted, RestTrusted
<1>15. OrderTrusted'
  <2> DEFINE cat == LoadCatalog(feed, order.docs, rows)
  <2>1. ASSUME NEW id \in Ids(cat), id \in DOMAIN visit', visit'[id].ordered, visit'[id].rev = rev
        PROVE  Untagged(visit'[id].case.seed) = Untagged(CaseOf(cat, id).seed)
    <3>1. CASE id \in ids
      BY <1>7, <2>1, <3>1 DEF Now
    <3>2. CASE id \notin ids
      <4>1. /\ id \in DOMAIN visit /\ visit'[id].case = visit[id].case /\ visit[id].rev = rev
            /\ visit[id].ordered /\ NormId(id) \notin asked
        BY <1>5, <1>8, <2>1, <3>2
      <4>2. id \notin ToSeed(order.changes)
        BY <1>10, <4>1
      <4>3. AsIn(order.docs, id)
        BY <1>1, <4>2 DEF WOInv, RestTrusted
      <4> QED BY <4>1, <4>3 DEF AsIn, Seen
    <3> QED BY <3>1, <3>2
  <2> QED BY <1>1, <1>3, <2>1 DEF OrderTrusted, Trusted, AsIn, Seen
<1> QED BY <1>11, <1>12, <1>13, <1>14, <1>15 DEF WOInv

LEMMA RunRunInv == ASSUME WOInv, RunRun PROVE WOInv'
<1> DEFINE asked == {NormId(id) : id \in ToRun(order.changes)}
<1> DEFINE ids == {id \in DOMAIN fixture : NormId(id) \in asked}
<1> DEFINE runs == [id \in ids |-> FixtureCase(fixture[id])]
<1>1. /\ order # NoOrder /\ order.is = "run" /\ ran' = Over(runs, ran)
      /\ kept' = [docs |-> order.docs, rev |-> order.rev] /\ order' = NoOrder
      /\ feed' = feed /\ visit' = visit /\ fixture' = fixture
      /\ docs' = docs /\ rows' = rows /\ edits' = edits /\ rev' = rev
  BY DEF RunRun, written
<1>2. kept'.docs = order.docs /\ kept'.rev = order.rev /\ DOMAIN kept' = {"docs", "rev"}
  BY <1>1
<1>3. Shape' /\ Versions' /\ Sorted' /\ NoIdleWork'
  <2>1. Shape'
    BY <1>1 DEF WOInv, Shape
  <2>2. Versions'
    BY <1>1, <1>2 DEF WOInv, Versions
  <2> QED BY <1>1, <2>1, <2>2 DEF Sorted, NoIdleWork
<1>4. /\ DOMAIN ran' = ids \cup DOMAIN ran
      /\ \A id \in ids : ran'[id] = FixtureCase(fixture[id])
      /\ \A id \in DOMAIN ran \ ids : ran'[id] = ran[id]
  <2>1. DOMAIN runs = ids /\ \A id \in ids : runs[id] = FixtureCase(fixture[id])
    OBVIOUS
  <2> HIDE DEF ids, runs
  <2>2. /\ DOMAIN ran' = DOMAIN runs \cup DOMAIN ran
        /\ \A x \in DOMAIN runs : ran'[x] = runs[x]
        /\ \A x \in DOMAIN ran \ DOMAIN runs : ran'[x] = ran[x]
    BY <1>1 DEF Over
  <2> QED BY <2>1, <2>2
<1>5. ids \subseteq DOMAIN fixture
  OBVIOUS
<1>6. ASSUME NEW id \in DOMAIN fixture, NEW c \in ToRun(order.changes), NormId(c) = NormId(id)
      PROVE  id \in ids
  BY <1>6
<1> HIDE DEF asked, ids, runs
<1>7. Faithful'
  <2>1. DOMAIN ran' \subseteq DOMAIN fixture'
    BY <1>1, <1>4, <1>5 DEF WOInv, Faithful
  <2> QED BY <1>1, <2>1 DEF WOInv, Faithful
<1>8. Unrun'
  <2>1. ASSUME NEW id \in DOMAIN fixture
        PROVE  id \in DOMAIN ran' /\ ran'[id] = FixtureCase(fixture[id])
    BY <1>4, <1>6 DEF WOInv, Unrun
  <2> QED BY <1>1, <2>1 DEF Unrun
<1>9. KeptTrusted'
  <2>1. Trusted(order.docs)
    BY <1>1 DEF WOInv, OrderTrusted
  <2> QED BY <1>1, <1>2, <2>1 DEF KeptTrusted, Trusted, AsIn, Seen
<1>10. RestTrusted' /\ OrderTrusted'
  BY <1>1 DEF RestTrusted, OrderTrusted
<1> QED BY <1>3, <1>7, <1>8, <1>9, <1>10 DEF WOInv

LEMMA StutterInv == ASSUME WOInv, UNCHANGED WOvars PROVE WOInv'
BY DEF WOvars, WOInv, Shape, Versions, Sorted, NoIdleWork, Faithful, Unrun, KeptTrusted, RestTrusted,
       OrderTrusted, Trusted, AsIn, Seen

(***************************************************************************)
(* The invariant holds: through every edit, at any point of an order, an   *)
(* order knows which cases the seeder has to see, and a fixture that was   *)
(* not run yet is in its run.                                              *)
(***************************************************************************)
THEOREM OrderInvariant == WOSpec => []WOInv
<1>1. WOInv /\ [WONext]_WOvars => WOInv'
  <2> SUFFICES ASSUME WOInv, [WONext]_WOvars PROVE WOInv'
    OBVIOUS
  <2>1. CASE EditCard
    BY <2>1, EditCardInv
  <2>2. CASE AddCard
    BY <2>2, AddCardInv
  <2>3. CASE DropCard
    BY <2>3, DropCardInv
  <2>4. CASE EditSpine
    BY <2>4, EditSpineInv
  <2>5. CASE EditRow
    BY <2>5, EditRowInv
  <2>6. CASE RunCatalog
    BY <2>6, RunCatalogInv
  <2>7. CASE SeedAll
    BY <2>7, SeedAllInv
  <2>8. CASE RunRun
    BY <2>8, RunRunInv
  <2>9. CASE UNCHANGED WOvars
    BY <2>9, StutterInv
  <2> QED BY <2>1, <2>2, <2>3, <2>4, <2>5, <2>6, <2>7, <2>8, <2>9 DEF WONext
<1> QED BY InitInv, <1>1, PTL DEF WOSpec

(* Documents, orders and versions stay well formed, and a run has a fixture *)
(* and a fixture a case the seeder has seen.                                *)
THEOREM OrdersTyped == WOSpec => []WOTypeOK
<1>1. WOInv => WOTypeOK
  <2> SUFFICES ASSUME WOInv PROVE WOTypeOK
    OBVIOUS
  <2>1. Shape /\ Versions /\ Faithful
    BY DEF WOInv
  <2>2. DOMAIN docs = Doc /\ \A d \in Doc : docs[d].spine \subseteq Checkpoint
    BY <2>1, DocFacts DEF Shape, IsDocs, DocsOf, Doc
  <2> QED BY <2>1, <2>2, EditsAssumption DEF Shape, Versions, Faithful, WOTypeOK
<1> QED BY <1>1, OrderInvariant, PTL

(* No change is lost between two catalogs or between an order and what is *)
(* seeded for it (catalog/diff.py, seed/cli.py).                          *)
THEOREM NothingChangedIsLost == WOSpec => []NoChangeLost
<1>1. WOInv => Buckets
  BY DEF WOInv, Sorted, Apart, Buckets, Now
<1>2. WOInv => EveryChangeSeen
  BY DEF WOInv, KeptTrusted, Trusted, AsIn, EveryChangeSeen, Settled, Now
<1> QED BY <1>1, <1>2, OrderInvariant, PTL DEF NoChangeLost

(* A card edited in looks only is neither seeded nor run again (content_hash). *)
THEOREM NothingIdleIsDone == WOSpec => []NoIdleWork
<1>1. WOInv => NoIdleWork
  BY DEF WOInv
<1> QED BY <1>1, OrderInvariant, PTL


(* Between two orders every fixture has been run as it was seeded. *)
LEMMA AllRun ==
  ASSUME WOInv, order = NoOrder
  PROVE  DOMAIN ran = DOMAIN fixture /\ \A id \in DOMAIN ran : ran[id] = FixtureCase(fixture[id])
BY DEF WOInv, Unrun, Faithful

LEMMA RunRead ==
  ASSUME NEW uc, IsCase(uc), NEW run, run = FixtureCase(MetaOf(uc))
  PROVE  /\ uc.seed.scenario = "thirdparty" => run.third_party
         /\ VerdictOfCode(uc.code) # "" => run.verdict = VerdictOfCode(uc.code)
<1> DEFINE meta == MetaOf(uc)
<1>1. /\ meta.system_code = IF uc.code # NoCode THEN uc.code ELSE uc.seed.code
      /\ meta.scenario = uc.seed.scenario
  BY DEF MetaOf
<1> HIDE DEF meta
<1>2. run = FixtureCase(meta)
  BY DEF meta
<1>3. ASSUME uc.seed.scenario = "thirdparty" PROVE run.third_party
  <2>1. FixtureCase(meta).third_party = (meta.third_party \/ meta.scenario = "thirdparty")
    BY DEF FixtureCase
  <2> QED BY <1>1, <1>2, <1>3, <2>1
<1>4. ASSUME VerdictOfCode(uc.code) # "" PROVE run.verdict = VerdictOfCode(uc.code)
  <2>1. uc.code.class \in {"EL", "NE", "ND", "PE"}
    BY <1>4 DEF VerdictOfCode, ClassVerdict
  <2>2. uc.code # NoCode /\ uc.code.class # "DB"
    <3>1. NoCode.class = ""
      BY DEF NoCode
    <3> QED BY <2>1, <3>1
  <2>3. meta.system_code = uc.code
    BY <1>1, <2>2
  <2> DEFINE coded == IF meta.system_code.class = "DB" THEN "ELIGIBLE" ELSE VerdictOfCode(meta.system_code)
  <2>4. FixtureCase(meta).verdict = IF coded # "" THEN coded ELSE "ELIGIBLE"
    BY DEF FixtureCase
  <2>5. coded = VerdictOfCode(uc.code)
    BY <2>2, <2>3
  <2> HIDE DEF coded
  <2> QED BY <1>2, <1>4, <2>4, <2>5
<1> QED BY <1>3, <1>4

LEMMA NowCase ==
  ASSUME WOInv, NEW id \in Ids(Now)
  PROVE  IsCase(CaseOf(Now, id))
BY CatalogCase DEF WOInv, Shape, Now

LEMMA SettledSeed ==
  ASSUME WOInv, Settled, NEW id \in Ids(Now), Seen(id), NEW uc, uc = CaseOf(Now, id)
  PROVE  /\ IsCase(visit[id].case)
         /\ visit[id].case.seed.pnr = uc.seed.pnr
         /\ visit[id].case.seed.code = uc.seed.code
         /\ visit[id].case.seed.scenario = uc.seed.scenario
<1> DEFINE v == visit[id].case
<1>1. IsCase(v)
  BY DEF WOInv, Faithful, Seen
<1>2. Untagged(v.seed) = Untagged(uc.seed)
  BY DEF WOInv, KeptTrusted, Trusted, AsIn, Settled, Now
<1>3. IsCase(uc)
  BY NowCase
<1> HIDE DEF v
<1>4. ASSUME NEW s, DOMAIN s = SeedField
      PROVE  Untagged(s).pnr = s.pnr /\ Untagged(s).code = s.code /\ Untagged(s).scenario = s.scenario
  BY <1>4 DEF Untagged, SeedField
<1>5. DOMAIN v.seed = SeedField /\ DOMAIN uc.seed = SeedField
  BY <1>1, <1>3 DEF IsCase, IsSeed
<1>6. v.seed.pnr = uc.seed.pnr /\ v.seed.code = uc.seed.code /\ v.seed.scenario = uc.seed.scenario
  BY <1>2, <1>4, <1>5
<1> QED BY <1>1, <1>6 DEF v

LEMMA RunOfCase ==
  ASSUME WOInv, Settled, NEW id \in DOMAIN ran, Seedable(visit[id].case)
  PROVE  ran[id] = FixtureCase(MetaOf(visit[id].case))
<1>1. id \in DOMAIN fixture /\ ran[id] = FixtureCase(fixture[id])
  BY AllRun DEF Settled
<1>2. id \in DOMAIN visit
  BY <1>1 DEF WOInv, Faithful
<1>3. fixture[id] = MetaOf(visit[id].case)
  BY <1>2 DEF WOInv, Faithful
<1> QED BY <1>1, <1>3

(***************************************************************************)
(* What is run is what the card says: every fixture is run as it was last  *)
(* seeded, judged by the verdict its card is read with, and a third-party  *)
(* card by somebody who files for another (catalog/fixtures.py).           *)
(***************************************************************************)
THEOREM RunsAreAsRead == WOSpec => []RunAsRead
<1>1. WOInv => RunAsSeeded
  BY AllRun DEF RunAsSeeded
<1>2. WOInv => JudgedAsRead
  <2> SUFFICES ASSUME WOInv, Settled, NEW id \in Ids(Now) \cap DOMAIN ran, Seen(id),
                      Seedable(CaseOf(Now, id)), Expected(visit[id].case) = Expected(CaseOf(Now, id)),
                      CaseOf(Now, id).verdict = VerdictOfCode(CaseOf(Now, id).code),
                      CaseOf(Now, id).verdict # ""
               PROVE  ran[id].verdict = CaseOf(Now, id).verdict
    BY DEF JudgedAsRead
  <2> DEFINE uc == CaseOf(Now, id)
  <2> DEFINE v == visit[id].case
  <2>1. v.code = uc.code /\ v.verdict = uc.verdict
    BY DEF Expected
  <2>2. IsCase(v) /\ v.seed.pnr = uc.seed.pnr /\ v.seed.code = uc.seed.code
    BY SettledSeed
  <2>3. Seedable(v)
    BY <2>1, <2>2 DEF Seedable, IsCase
  <2>4. ran[id] = FixtureCase(MetaOf(v))
    BY <2>3, RunOfCase
  <2>5. VerdictOfCode(v.code) # ""
    BY <2>1
  <2>6. ran[id].verdict = VerdictOfCode(v.code)
    <3> HIDE DEF v
    <3> QED BY <2>2, <2>4, <2>5, RunRead
  <2> QED BY <2>1, <2>6
<1>3. WOInv => ThirdPartyFiles
  <2> SUFFICES ASSUME WOInv, Settled, NEW d \in Doc, NEW i \in DOMAIN docs[d].cards,
                      docs[d].cards[i].arch = "thirdparty", docs[d].cards[i].id \in DOMAIN ran,
                      Seen(docs[d].cards[i].id), Seedable(visit[docs[d].cards[i].id].case)
               PROVE  ran[docs[d].cards[i].id].third_party
    BY DEF ThirdPartyFiles
  <2> DEFINE card == docs[d].cards[i]
  <2> DEFINE id == card.id
  <2> DEFINE uc == CaseOf(Now, id)
  <2> DEFINE v == visit[id].case
  <2>1. feed \in Feeds /\ IsDocs(feed, docs) /\ IsRows(rows) /\ d \in DOMAIN docs
    BY DEF WOInv, Shape, IsDocs, DocsOf, Doc
  <2>2. id \in Ids(Now) /\ uc = Placed(feed, d, card, rows)
    BY <2>1, CatalogIds DEF Now
  <2>3. uc.seed.scenario = "thirdparty"
    <3>1. IsCard(card)
      BY <2>1, DocFacts
    <3> DEFINE p == Placed(feed, d, card, rows)
    <3>2. p.seed.scenario = card.arch
      <4> HIDE DEF card
      <4> QED BY <2>1, <3>1, PlacedCase
    <3> QED BY <2>2, <3>2
  <2>4. IsCase(v) /\ v.seed.scenario = "thirdparty"
    BY <2>2, <2>3, SettledSeed
  <2>5. ran[id] = FixtureCase(MetaOf(v))
    BY RunOfCase
  <2>6. ran[id].third_party
    <3> HIDE DEF v, id
    <3> QED BY <2>4, <2>5, RunRead
  <2> QED BY <2>6
<1> QED BY <1>1, <1>2, <1>3, OrderInvariant, PTL DEF RunAsRead

LEMMA TierOfNote == Tier(0) = Tier(NoteAmount.number)
<1>1. NoteAmount.number = 400
  BY DEF NoteAmount
<1>2. Tier(0) = 240 /\ Tier(400) = 240
  BY DEF Tier
<1> QED BY <1>1, <1>2

(* The delay of a fixture is the tier of the amount its run expects. *)
LEMMA DelayRead ==
  ASSUME NEW uc, IsCase(uc), uc.title # "Delay 9+", NEW meta, meta = MetaOf(uc),
         NEW run, run = FixtureCase(meta), run.verdict = "ELIGIBLE"
  PROVE  meta.delay = Tier(run.amount.number)
<1> DEFINE amount == uc.seed.amount
<1>1. IsAmount(amount)
  BY DEF IsCase, IsSeed
<1>2. meta.amount = amount /\ meta.delay = IF amount = Null THEN Tier(0) ELSE Tier(amount.number)
  BY DEF MetaOf, DelayMinutes
<1>3. run.amount = IF amount = Null \/ amount.text # "" THEN NoteAmount ELSE amount
  BY <1>2 DEF FixtureCase
<1>4. Tier(0) = Tier(NoteAmount.number)
  BY TierOfNote
<1> HIDE DEF amount
<1>5. CASE amount = Null
  BY <1>2, <1>3, <1>4, <1>5
<1>6. CASE amount # Null /\ amount.text # ""
  <2>1. amount.number = 0
    BY <1>1, <1>6 DEF IsAmount
  <2> QED BY <1>2, <1>3, <1>4, <1>6, <2>1
<1>7. CASE amount # Null /\ amount.text = ""
  BY <1>2, <1>3, <1>7
<1> QED BY <1>5, <1>6, <1>7

LEMMA RouteFlown ==
  ASSUME NEW route, IsRoute(route), route # <<>>, route[1] # BaseRoute[2]
  PROVE  Booked(route) = route
<1>1. route = <<route[1], route[2]>> /\ route[1] # "LHR"
  BY DEF IsRoute, BaseRoute
<1>2. Reair(BaseRoute, BaseRoute[1], route[1]) = <<route[1], "LHR">>
  BY DEF Reair, BaseRoute
<1>3. Reair(<<route[1], "LHR">>, BaseRoute[2], route[2]) = <<route[1], route[2]>>
  BY <1>1 DEF Reair, BaseRoute
<1> QED BY <1>1, <1>2, <1>3 DEF Booked

(* The rendered flight has the delay of the amount its run expects and the *)
(* route of its case (seed/scenario.py, seed/render.py).                   *)
THEOREM FixturesFit == WOSpec => []FixtureFits
<1>1. WOInv => DelayFitsAmount
  <2> SUFFICES ASSUME WOInv, NEW id \in DOMAIN ran, order = NoOrder, ran[id].verdict = "ELIGIBLE",
                      Seedable(visit[id].case), visit[id].case.title # "Delay 9+"
               PROVE  fixture[id].delay = Tier(ran[id].amount.number)
    BY DEF DelayFitsAmount
  <2>1. id \in DOMAIN fixture /\ ran[id] = FixtureCase(fixture[id])
    BY AllRun
  <2>2. id \in DOMAIN visit
    BY <2>1 DEF WOInv, Faithful
  <2>3. IsCase(visit[id].case) /\ fixture[id] = MetaOf(visit[id].case)
    BY <2>2 DEF WOInv, Faithful
  <2> QED BY <2>1, <2>3, DelayRead
<1>2. WOInv => FliesItsRoute
  <2> SUFFICES ASSUME WOInv, NEW id \in DOMAIN fixture, Seedable(visit[id].case),
                      visit[id].case.seed.route # <<>>, visit[id].case.seed.route[1] # BaseRoute[2]
               PROVE  fixture[id].booked = visit[id].case.seed.route
    BY DEF FliesItsRoute
  <2>1. id \in DOMAIN visit
    BY DEF WOInv, Faithful
  <2>2. IsCase(visit[id].case) /\ fixture[id] = MetaOf(visit[id].case)
    BY <2>1 DEF WOInv, Faithful
  <2>3. IsRoute(visit[id].case.seed.route)
    BY <2>2 DEF IsCase, IsSeed
  <2>4. fixture[id].booked = Booked(visit[id].case.seed.route)
    BY <2>2 DEF MetaOf
  <2> QED BY <2>3, <2>4, RouteFlown
<1> QED BY <1>1, <1>2, OrderInvariant, PTL DEF FixtureFits

-----------------------------------------------------------------------------
(* The filing of tickets.                                                    *)

USE CommandsAssumption DEF Defect

(***************************************************************************)
(* Type correctness: counters stay in their ranges, and a command that has *)
(* created an issue still has its defect in hand.                          *)
(***************************************************************************)
LEMMA TypeInductive == TypeOK /\ [Next]_vars => TypeOK'
<1> SUFFICES ASSUME TypeOK, [Next]_vars
             PROVE  TypeOK'
  OBVIOUS
<1> USE DEF TypeOK
<1>1. ASSUME NEW p \in Command, Start(p)
      PROVE  TypeOK'
  <2>1. Loaded(LedgerOf[p]) \in SUBSET Key
    BY DEF Loaded
  <2>2. Todo(p, Loaded(LedgerOf[p])) \in SUBSET Defect
    BY DEF Todo
  <2> QED  BY <1>1, <2>1, <2>2 DEF Start
<1>2. ASSUME NEW p \in Command, Finish(p)
      PROVE  TypeOK'
  BY <1>2 DEF Finish
<1>3. ASSUME NEW p \in Command, NEW i \in Defect, Post(p, i)
      PROVE  TypeOK'
  BY <1>3 DEF Post, IsNext
<1>4. ASSUME NEW p \in Command, NEW i \in Defect, Record(p, i)
      PROVE  TypeOK'
  <2>1. KeyOf[p][i] \in Key
    OBVIOUS
  <2> QED  BY <1>4, <2>1 DEF Record, IsNext
<1>5. ASSUME NEW p \in Command, NEW i \in Defect, Save(p, i)
      PROVE  TypeOK'
  BY <1>5 DEF Save, IsNext
<1>6. ASSUME NEW p \in Command, PostFails(p)
      PROVE  TypeOK'
  BY <1>6 DEF PostFails
<1>7. ASSUME NEW p \in Command, Interrupt(p)
      PROVE  TypeOK'
  BY <1>7 DEF Interrupt
<1>8. ASSUME NEW p \in Command, NEW i \in Defect, PostUnanswered(p, i)
      PROVE  TypeOK'
  BY <1>8 DEF PostUnanswered, IsNext
<1>9. CASE UNCHANGED vars
  BY <1>9 DEF vars
<1> QED
  BY <1>1, <1>2, <1>3, <1>4, <1>5, <1>6, <1>7, <1>8, <1>9 DEF Next, Step, Fault

THEOREM TypeCorrect == Spec => []TypeOK
<1>1. Init => TypeOK
  BY DEF Init, TypeOK
<1> QED
  BY <1>1, TypeInductive, PTL DEF Spec

(***************************************************************************)
(* The ledger is truthful, even when commands overlap and are interrupted: *)
(* a recorded key has an issue, so nothing is skipped that was never filed;*)
(* and a command that ends normally without --limit leaves nothing out.    *)
(***************************************************************************)

\* The defect in hand has its issue.
Owed ==
  \A p \in Command, i \in Defect :
    pc[p] \in {"created", "saving"} /\ IsNext(p, i) => issues[i] > 0

\* What is no longer to do, or never was, has an issue under its key.
Covered ==
  \A p \in Command : LimitOf[p] >= N /\ pc[p] # "off" =>
    \A i \in Defect \ todo[p] : Filed(KeyOf[p][i])

Finished == \A p \in Command : pc[p] = "done" => todo[p] = {}

Truth == LedgerTruthful /\ Owed /\ Covered /\ Finished

\* Issues are created and never deleted.
LEMMA IssuesGrow ==
  TypeOK /\ [Next]_vars => \A i \in Defect : issues'[i] >= issues[i]
BY DEF TypeOK, Next, Step, Fault, vars, Start, Post, PostFails, PostUnanswered,
       Record, Save, Finish, Interrupt

LEMMA FiledStays ==
  ASSUME TypeOK, [Next]_vars, NEW k, Filed(k)
  PROVE  Filed(k)'
<1>1. PICK p \in Command, i \in Defect : KeyOf[p][i] = k /\ issues[i] > 0
  BY DEF Filed
<1>2. issues'[i] >= issues[i] /\ issues[i] \in Nat /\ issues'[i] \in Nat
  BY IssuesGrow, TypeInductive DEF TypeOK
<1>3. issues'[i] > 0
  BY <1>1, <1>2
<1> QED
  BY <1>1, <1>3 DEF Filed

\* With no limit to speak of, every defect whose key is not recorded is to do.
LEMMA UnlimitedTodo ==
  ASSUME NEW p \in Command, LimitOf[p] >= N, NEW keys
  PROVE  Todo(p, keys) = {i \in Defect : KeyOf[p][i] \notin keys}
<1> DEFINE new == {i \in Defect : KeyOf[p][i] \notin keys}
<1>1. ASSUME NEW i \in new
      PROVE  Cardinality({j \in new : j < i}) < LimitOf[p]
  <2>1. IsFiniteSet(1..N) /\ Cardinality(1..N) = N
    BY FS_Interval
  <2>2. {j \in new : j < i} \subseteq (1..N) \ {i}
    OBVIOUS
  <2>3. IsFiniteSet((1..N) \ {i}) /\ Cardinality((1..N) \ {i}) = N - 1
    <3> DEFINE S == 1..N
    <3>1. i \in S /\ IsFiniteSet(S) /\ Cardinality(S) = N
      BY <2>1
    <3> HIDE DEF S
    <3>2. IsFiniteSet(S \ {i}) /\ Cardinality(S \ {i}) = N - 1
      BY <3>1, FS_RemoveElement
    <3> QED
      BY <3>2 DEF S
  <2>4. /\ Cardinality({j \in new : j < i}) <= N - 1
        /\ Cardinality({j \in new : j < i}) \in Nat
    BY <2>2, <2>3, FS_Subset, FS_CardinalityType
  <2> QED
    BY <2>4
<1> QED
  BY <1>1 DEF Todo

LEMMA TruthInductive ==
  TypeOK /\ Truth /\ [Next]_vars => Truth'
<1> SUFFICES ASSUME TypeOK, Truth, [Next]_vars
             PROVE  Truth'
  OBVIOUS
<1>0. TypeOK'
  BY TypeInductive
<1>1. \A k : Filed(k) => Filed(k)'
  BY FiledStays
<1>2. ASSUME NEW p \in Command, Start(p)
      PROVE  Truth'
  <2>1. \A k \in Loaded(LedgerOf[p]) : Filed(k)
    BY DEF Loaded, Truth, LedgerTruthful, TypeOK
  <2>2. LedgerTruthful'
    BY <1>1, <1>2, <2>1 DEF Start, Truth, LedgerTruthful, TypeOK
  <2>3. Owed' /\ Finished'
    BY <1>2 DEF Start, Truth, Owed, Finished, TypeOK, IsNext
  <2>4. Covered'
    <3>1. LimitOf[p] >= N => todo'[p] = {i \in Defect : KeyOf[p][i] \notin Loaded(LedgerOf[p])}
      BY <1>2, UnlimitedTodo DEF Start, TypeOK
    <3>2. LimitOf[p] >= N =>
            \A i \in Defect \ todo'[p] : Filed(KeyOf[p][i])
      BY <2>1, <3>1
    <3> QED
      BY <1>1, <1>2, <3>2 DEF Start, Truth, Covered, TypeOK
  <2> QED
    BY <2>2, <2>3, <2>4 DEF Truth
<1>3. ASSUME NEW p \in Command, NEW i \in Defect,
             Post(p, i) \/ PostUnanswered(p, i)
      PROVE  Truth'
  <2>1. LedgerTruthful'
    BY <1>1, <1>3 DEF Post, PostUnanswered, Truth, LedgerTruthful
  <2>2. Owed'
    <3>1. CASE Post(p, i)
      BY <3>1 DEF Post, Truth, Owed, TypeOK, IsNext
    <3>2. CASE PostUnanswered(p, i)
      BY <3>2 DEF PostUnanswered, Truth, Owed, TypeOK, IsNext
    <3> QED
      BY <1>3, <3>1, <3>2
  <2>3. Covered' /\ Finished'
    BY <1>1, <1>3 DEF Post, PostUnanswered, Truth, Covered, Finished, TypeOK
  <2> QED
    BY <2>1, <2>2, <2>3 DEF Truth
<1>4. ASSUME NEW p \in Command, NEW i \in Defect, Record(p, i)
      PROVE  Truth'
  <2>1. Filed(KeyOf[p][i])
    BY <1>4 DEF Record, Truth, Owed, Filed
  <2>2. LedgerTruthful'
    BY <1>1, <1>4, <2>1 DEF Record, Truth, LedgerTruthful, TypeOK
  <2>3. Owed' /\ Covered' /\ Finished'
    BY <1>1, <1>4 DEF Record, Truth, Owed, Covered, Finished, TypeOK, IsNext
  <2> QED
    BY <2>2, <2>3 DEF Truth
<1>5. ASSUME NEW p \in Command, NEW i \in Defect, Save(p, i)
      PROVE  Truth'
  <2>1. Filed(KeyOf[p][i])
    BY <1>5 DEF Save, Truth, Owed, Filed
  <2>2. LedgerTruthful'
    BY <1>1, <1>5 DEF Save, Truth, LedgerTruthful, TypeOK
  <2>3. Owed' /\ Finished'
    BY <1>5 DEF Save, Truth, Owed, Finished, TypeOK, IsNext
  <2>4. Covered'
    BY <1>1, <1>5, <2>1 DEF Save, Truth, Covered, TypeOK
  <2> QED
    BY <2>2, <2>3, <2>4 DEF Truth
<1>6. ASSUME NEW p \in Command, PostFails(p) \/ Interrupt(p) \/ Finish(p)
      PROVE  Truth'
  <2>1. LedgerTruthful'
    BY <1>1, <1>6 DEF PostFails, Interrupt, Finish, Truth, LedgerTruthful
  <2>2. Owed' /\ Finished'
    BY <1>6 DEF PostFails, Interrupt, Finish, Truth, Owed, Finished, TypeOK, IsNext
  <2>3. Covered'
    BY <1>1, <1>6 DEF PostFails, Interrupt, Finish, Truth, Covered, TypeOK
  <2> QED
    BY <2>1, <2>2, <2>3 DEF Truth
<1>7. CASE UNCHANGED vars
  BY <1>7 DEF vars, Truth, LedgerTruthful, Owed, Covered, Finished, Filed, IsNext
<1> QED
  BY <1>2, <1>3, <1>4, <1>5, <1>6, <1>7 DEF Next, Step, Fault

LEMMA TruthHolds == Spec => []Truth
<1>1. Init => TypeOK
  BY DEF Init, TypeOK
<1>2. Init => Truth
  BY DEF Init, Truth, LedgerTruthful, Owed, Covered, Finished
<1> QED
  BY <1>1, <1>2, TypeInductive, TruthInductive, PTL DEF Spec

\* No defect is skipped that was never filed (LedgerTruthful).
THEOREM SkipsAreFiled == Spec => []LedgerTruthful
<1>1. Truth => LedgerTruthful
  BY DEF Truth
<1> QED
  BY <1>1, TruthHolds, PTL

\* A command that ends normally leaves no key of its run unfiled
\* (FinishComplete).
THEOREM FinishesComplete == Spec => []FinishComplete
<1>1. Truth => FinishComplete
  BY DEF Truth, Covered, Finished, FinishComplete
<1> QED
  BY <1>1, TruthHolds, PTL

(***************************************************************************)
(* Commands that share a ledger, and are run one after the other, file a   *)
(* defect at most once more than they lapsed.                              *)
(***************************************************************************)
LEMMA HabitStays == [Next]_vars => overlap' = overlap
BY DEF Next, Step, Fault, vars, Start, Post, PostFails, PostUnanswered, Record,
       Save, Finish, Interrupt

LEMMA BookkeepingInductive ==
  Shared /\ TypeOK /\ Bookkeeping /\ [Next]_vars => Bookkeeping'
<1> SUFFICES ASSUME Shared, TypeOK, InTurn, ~overlap, [Next]_vars
             PROVE  InTurn'
  BY HabitStays DEF Bookkeeping
<1> USE DEF Shared
<1>0. TypeOK'
  BY TypeInductive
<1>1. ASSUME NEW p \in Command, Start(p)
      PROVE  InTurn'
  <2>1. \A q \in Command : ~Active(q)
    BY <1>1 DEF Start
  <2>2. \A q \in Command : Active(q)' <=> q = p
    BY <1>1, <2>1 DEF Start, Active, TypeOK
  <2>3. Recorded(p)
    BY <2>1 DEF InTurn
  <2>4. Todo(p, Loaded(LedgerOf[p])) \subseteq
          {i \in Defect : KeyOf[p][i] \notin Loaded(LedgerOf[p])}
    BY DEF Todo
  <2>5. InHand(p)'
    BY <1>0, <1>1, <2>3, <2>4 DEF Start, InHand, Recorded, Loaded, TypeOK, IsNext
  <2> QED
    BY <2>2, <2>5 DEF InTurn
<1>2. ASSUME NEW p \in Command, Active(p)
      PROVE  InHand(p) /\ \A q \in Command : Active(q) => q = p
  BY <1>2 DEF InTurn
<1>3. ASSUME NEW p \in Command, Active(p), Active(p)', InHand(p)',
             \A q \in Command : q # p => pc'[q] = pc[q]
      PROVE  InTurn'
  BY <1>2, <1>3 DEF InTurn, Active
<1>4. ASSUME NEW p \in Command, Active(p), ~Active(p)', Recorded(p)',
             \A q \in Command : q # p => pc'[q] = pc[q]
      PROVE  InTurn'
  BY <1>2, <1>4 DEF InTurn, Active, Recorded, Loaded
<1>5. ASSUME NEW p \in Command, NEW i \in Defect, Post(p, i)
      PROVE  InTurn'
  <2>1. Active(p) /\ Active(p)' /\ \A q \in Command : q # p => pc'[q] = pc[q]
    BY <1>5 DEF Post, Active, TypeOK
  <2>2. InHand(p)'
    BY <1>0, <1>2, <1>5, <2>1 DEF Post, InHand, Loaded, TypeOK, IsNext
  <2> QED
    BY <1>3, <2>1, <2>2
<1>6. ASSUME NEW p \in Command, NEW i \in Defect, Record(p, i)
      PROVE  InTurn'
  <2>1. Active(p) /\ Active(p)' /\ \A q \in Command : q # p => pc'[q] = pc[q]
    BY <1>6 DEF Record, Active, TypeOK
  <2>2. InHand(p)'
    BY <1>0, <1>2, <1>6, <2>1 DEF Record, InHand, Loaded, TypeOK, IsNext
  <2> QED
    BY <1>3, <2>1, <2>2
<1>7. ASSUME NEW p \in Command, NEW i \in Defect, Save(p, i)
      PROVE  InTurn'
  <2>1. Active(p) /\ Active(p)' /\ \A q \in Command : q # p => pc'[q] = pc[q]
    BY <1>7 DEF Save, Active, TypeOK
  <2>2. LedgerOf[p] \notin torn'
    BY <1>2, <1>7, <2>1 DEF Save, InHand
  <2>3. InHand(p)'
    BY <1>0, <1>2, <1>7, <2>1, <2>2 DEF Save, InHand, Loaded, TypeOK, IsNext
  <2> QED
    BY <1>3, <2>1, <2>3
<1>8. ASSUME NEW p \in Command, Finish(p)
      PROVE  InTurn'
  <2>1. Active(p) /\ ~Active(p)' /\ \A q \in Command : q # p => pc'[q] = pc[q]
    BY <1>8 DEF Finish, Active, TypeOK
  <2>2. Recorded(p)'
    BY <1>0, <1>2, <1>8, <2>1 DEF Finish, InHand, Recorded, Loaded, TypeOK
  <2> QED
    BY <1>4, <2>1, <2>2
<1>9. ASSUME NEW p \in Command, PostFails(p)
      PROVE  InTurn'
  <2>1. Active(p) /\ ~Active(p)' /\ \A q \in Command : q # p => pc'[q] = pc[q]
    BY <1>9 DEF PostFails, Active, TypeOK
  <2>2. Recorded(p)'
    BY <1>0, <1>2, <1>9, <2>1 DEF PostFails, InHand, Recorded, Loaded, TypeOK
  <2> QED
    BY <1>4, <2>1, <2>2
<1>10. ASSUME NEW p \in Command, NEW i \in Defect, PostUnanswered(p, i)
       PROVE  InTurn'
  <2>1. Active(p) /\ ~Active(p)' /\ \A q \in Command : q # p => pc'[q] = pc[q]
    BY <1>10 DEF PostUnanswered, Active, TypeOK
  <2>2. /\ lapses \in Nat /\ lapses' = lapses + 1
        /\ pc[p] = "post" /\ IsNext(p, i)
        /\ issues' = [issues EXCEPT ![i] = @ + 1]
        /\ UNCHANGED <<mem, todo, disk, torn>>
    BY <1>10 DEF PostUnanswered, TypeOK
  <2>3. InHand(p) /\ issues \in [Defect -> Nat]
    BY <1>2, <2>1 DEF TypeOK
  <2>4. ASSUME NEW j \in Defect
        PROVE  issues'[j] <= lapses'
    <3>1. CASE j = i
      <4>1. ~(issues[i] > lapses) /\ issues'[i] = issues[i] + 1
        BY <2>2, <2>3 DEF InHand, IsNext
      <4> QED
        BY <2>2, <2>3, <3>1, <4>1
    <3>2. CASE j # i
      <4>1. issues'[j] = issues[j] /\ issues[j] <= lapses + 1
        BY <2>2, <2>3, <3>2 DEF InHand
      <4> QED
        BY <2>2, <4>1
    <3> QED
      BY <3>1, <3>2
  <2>5. Recorded(p)'
    BY <2>4 DEF Recorded
  <2> QED
    BY <1>4, <2>1, <2>5
<1>11. ASSUME NEW p \in Command, Interrupt(p)
       PROVE  InTurn'
  <2>1. Active(p) /\ ~Active(p)' /\ \A q \in Command : q # p => pc'[q] = pc[q]
    BY <1>11 DEF Interrupt, Active, TypeOK
  <2>2. Recorded(p)'
    BY <1>0, <1>2, <1>11, <2>1
    DEF Interrupt, Active, InHand, Recorded, Loaded, TypeOK, IsNext
  <2> QED
    BY <1>4, <2>1, <2>2
<1>12. CASE UNCHANGED vars
  BY <1>12 DEF vars, InTurn, Active, InHand, Recorded, Loaded, IsNext
<1> QED
  BY <1>1, <1>5, <1>6, <1>7, <1>8, <1>9, <1>10, <1>11, <1>12 DEF Next, Step, Fault

\* The bookkeeping invariant, for commands that share their ledger and keys and
\* never overlap (Bookkeeping).
THEOREM BookkeepingHolds == Shared => (Spec => []Bookkeeping)
<1> SUFFICES ASSUME Shared PROVE Spec => []Bookkeeping
  OBVIOUS
<1>1. Init => TypeOK /\ Bookkeeping
  BY DEF Init, TypeOK, Bookkeeping, InTurn, Active, Recorded
<1>2. TypeOK /\ Bookkeeping /\ [Next]_vars => Bookkeeping'
  BY BookkeepingInductive
<1> QED
  BY <1>1, <1>2, TypeInductive, PTL DEF Spec

\* A defect is filed once, and once more at most for each lapse (RefileBound).
THEOREM RefilesBounded == Shared => (Spec => []RefileBound)
<1> SUFFICES ASSUME Shared PROVE Spec => []RefileBound
  OBVIOUS
<1>1. TypeOK /\ Bookkeeping => RefileBound
  <2> SUFFICES ASSUME TypeOK, InTurn, NEW i \in Defect
               PROVE  issues[i] <= lapses + 1
    BY DEF RefileBound, Bookkeeping
  <2>1. CASE \E p \in Command : Active(p)
    BY <2>1 DEF InTurn, InHand
  <2>2. CASE \A p \in Command : ~Active(p)
    <3>1. PICK p \in Command : TRUE
      OBVIOUS
    <3>2. Recorded(p) /\ issues[i] \in Nat /\ lapses \in Nat
      BY <2>2 DEF InTurn, TypeOK
    <3> QED
      BY <3>2 DEF Recorded
  <2> QED
    BY <2>1, <2>2
<1> QED
  BY <1>1, TypeCorrect, BookkeepingHolds, PTL
=============================================================================
