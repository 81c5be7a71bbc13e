-------------------------- MODULE SeedCampaignProofs --------------------------
(***************************************************************************)
(* What campaigns leave behind, for every catalog, pool of workers, set of *)
(* command lines and number of campaigns.  Proved are the type invariant,  *)
(* one determination per booking (OneTrace), the truth of every ledger at  *)
(* every later time (LedgerTruthful), its completeness and the exit code   *)
(* (ReturnTells).                                                          *)
(***************************************************************************)
EXTENDS SeedCampaign, SequenceTheorems, FiniteSetTheorems, TLAPS

CommandLine == [all : BOOLEAN, verify : BOOLEAN, limit : Nat, given : Seq(Drawn(0))]

\* A command line is one, and its given locators have cases.
LEMMA CommandTyped ==
  ASSUME NEW r \in 1..MaxRuns, NEW c \in Commands[r]
  PROVE  c \in CommandLine /\ Len(c.given) \in 0..N
<1>1. c \in CommandLine /\ Len(c.given) <= N
  BY SeedAssumption DEF CommandLine
<1>2. Len(c.given) \in Nat
  BY <1>1, LenProperties DEF CommandLine
<1> QED BY <1>1, <1>2, SeedAssumption

\* Given locators are given to the first cases.
LEMMA GivenTyped ==
  ASSUME NEW r \in 1..MaxRuns, NEW c \in Commands[r]
  PROVE  /\ DOMAIN c.given \subseteq Case
         /\ c.given \in [DOMAIN c.given -> Drawn(0)]
<1>1. c.given \in Seq(Drawn(0)) /\ Len(c.given) \in 0..N
  BY CommandTyped DEF CommandLine
<1>2. DOMAIN c.given = 1..Len(c.given) /\ c.given \in [1..Len(c.given) -> Drawn(0)]
  BY <1>1, LenProperties
<1> QED BY <1>1, <1>2, SeedAssumption DEF Case

\* The locators of a run are locators.
LEMMA DrawnTyped == \A r \in 0..MaxRuns : Drawn(r) \subseteq Locator
BY DEF Drawn, Locator

\* Locators of different runs differ.
LEMMA DrawnApart ==
  ASSUME NEW r, NEW q, NEW l \in Drawn(r), l \in Drawn(q)
  PROVE  r = q
BY DEF Drawn

-----------------------------------------------------------------------------
(* The inductive invariant, part by part.                                    *)

\* Where workers are: nowhere before the pool, and only over chosen cases.
Shape ==
  /\ \A c \in Case : c \notin Chosen => step[c] = "none"
  /\ phase \in {"idle", "publish"} => \A c \in Case : step[c] = "none"
  /\ phase = "preflight" => cmd.all /\ cmd.verify /\ \A c \in Chosen : step[c] = "todo"
  /\ ~cmd.verify => \A c \in Case : step[c] \notin {"trip", "verify", "audit"}

\* Minted locators are the run's own and new to it; given ones may repeat, but
\* are worked on one after another.
Locs ==
  /\ cmd.all => /\ \A c \in Chosen : loc[c] \in Drawn(run)
                /\ \A c, d \in Chosen : loc[c] = loc[d] => c = d
  /\ ~cmd.all => /\ \A c \in Chosen : loc[c] \in Drawn(0)
                 /\ \A c, d \in Busy : c = d

\* The determinations of a booking: none for a locator of a later run, and what
\* each step of a worker finds.
Pins ==
  /\ OneTrace
  /\ \A l \in Locator : l[1] > run => traces[l] = <<>>
  /\ \A c \in Chosen :
       /\ step[c] = "insert" => traces[loc[c]] = <<>>
       /\ step[c] \in {"verify", "audit"} => traces[loc[c]] = <<run>>
       /\ cmd.all /\ (phase \in {"publish", "preflight"} \/ step[c] \in {"todo", "trip"}) =>
            traces[loc[c]] = <<>>

\* A case that is verified and beyond the first gate has its trip row.
Trips ==
  \A c \in Chosen :
    cmd.verify /\ step[c] \in {"put", "delete", "insert", "ecs", "verify", "audit"} =>
      Landed("PNR", c)

\* The gate a finished case got is true, but for a booking given twice whose
\* pin is just being replaced.
Gates ==
  \A c \in Chosen : step[c] = "done" =>
    /\ gate[c] \in {"seeded", "all-pass", "checkpoint_fail"} =>
         \/ traces[loc[c]] = <<run>>
         \/ \E d \in Chosen : loc[d] = loc[c] /\ step[d] \in {"insert", "ecs"}
    /\ gate[c] \in {"all-pass", "checkpoint_fail"} =>
         Landed("PNR", c) /\ <<run, loc[c]>> \in sidecars
    /\ gate[c] = "all-pass" => Landed("TKT", c)
    /\ gate[c] \in {"trip_missing", "published_unverified"} /\ cmd.all => traces[loc[c]] = <<>>

\* Ledgers and exit codes are those of finished runs, about their own bookings.
Books ==
  /\ \A r \in 1..MaxRuns : r > run \/ (r = run /\ phase # "idle") =>
       ledgers[r] = NoLedger /\ exit[r] = "none"
  /\ \A r \in 1..MaxRuns : \A c \in DOMAIN ledgers[r].seeded :
       ledgers[r].seeded[c].loc \in Drawn(r)

\* What the broker accepted: of this run, just the chosen bookings.
Mails ==
  /\ \A l \in Locator : <<"PNR", l>> \in sent => l[1] <= run
  /\ phase # "idle" => \A l \in Drawn(run) : <<"PNR", l>> \in sent => \E c \in Chosen : loc[c] = l
  /\ phase \in {"preflight", "pool"} \/ (phase = "publish" /\ stage > 1) =>
       \A c \in Chosen : <<"PNR", loc[c]>> \in sent

IInv == TypeOK /\ Shape /\ Locs /\ Pins /\ Trips /\ Gates /\ Books /\ LedgerTruthful
        /\ Mails /\ LedgerWhole /\ ExitTells

-----------------------------------------------------------------------------
(* Types and steps.                                                          *)

\* The command line in force is well typed.
LEMMA CmdTyped ==
  ASSUME TypeOK
  PROVE  cmd \in CommandLine
BY CommandTyped DEF TypeOK

\* A worker works in the pool of a run.
LEMMA InPool ==
  ASSUME TypeOK, Shape, NEW c \in Chosen, Works(c)
  PROVE  /\ phase = "pool" /\ run \in 1..MaxRuns /\ c \in Case /\ loc[c] \in Locator
         /\ c \in Busy \/ (Take(c) /\ step[c] = "todo")
<1>1. c \in Case /\ loc[c] \in Locator
  BY DEF TypeOK
<1>2. c \in Busy \/ (Take(c) /\ step[c] = "todo")
  BY DEF Works, Take, TripFound, TripMissing, Put, Delete, Insert, PinTraceFails, PinTraceEcs,
         VerifyByPnr, Audit, CaseFails, Moves, Gets, Busy
<1>3. phase = "pool"
  BY <1>1, <1>2 DEF Busy, Shape, Take, TypeOK
<1> QED BY <1>1, <1>2, <1>3 DEF TypeOK

\* The pins of one locator are replaced.
LEMMA PinTyped ==
  ASSUME TypeOK, NEW l \in Locator, NEW v \in Seq(1..run), traces' = [traces EXCEPT ![l] = v]
  PROVE  /\ traces' \in [Locator -> Seq(1..run)] /\ traces'[l] = v
         /\ \A k \in Locator \ {l} : traces'[k] = traces[k]
BY DEF TypeOK

\* What a step of a worker changes: its own case, the pin of its locator, and
\* the campaign of run_seed if it raises.
LEMMA Working ==
  ASSUME TypeOK, Shape, NEW c \in Chosen, Works(c)
  PROVE  /\ UNCHANGED <<run, cmd, stage, loc, sent, rows, creds, ledgers>>
         /\ traces' \in [Locator -> Seq(1..run)]
         /\ \A l \in Locator \ {loc[c]} : traces'[l] = traces[l]
         /\ sidecars \subseteq sidecars' /\ sidecars' \subseteq (1..run) \X Locator
         /\ step' \in [Case -> Step] /\ gate' \in [Case -> Gate \cup {"none"}]
         /\ \/ /\ UNCHANGED <<phase, exit>>
               /\ \A d \in Case \ {c} : step'[d] = step[d] /\ gate'[d] = gate[d]
            \/ Over("raised") /\ ~cmd.all /\ UNCHANGED gate
<1>1. /\ c \in Case /\ loc[c] \in Locator /\ run \in 1..run
      /\ DOMAIN step = Case /\ DOMAIN gate = Case /\ DOMAIN traces = Locator
  BY InPool DEF TypeOK
<1>2. /\ <<>> \in Seq(1..run) /\ <<run>> \in Seq(1..run)
      /\ \A l \in Locator : Append(traces[l], run) \in Seq(1..run)
  BY <1>1, EmptySeq, AppendProperties DEF TypeOK
<1>3. CASE Take(c)
  BY <1>1, <1>3 DEF Take, Moves, Kept, TypeOK, Step
<1>4. CASE TripFound(c) \/ TripMissing(c) \/ Put(c) \/ VerifyByPnr(c)
  BY <1>1, <1>4 DEF TripFound, TripMissing, Put, VerifyByPnr, Moves, Gets, Kept, TypeOK, Step, Gate
<1>5. CASE Delete(c)
  BY <1>1, <1>2, <1>5 DEF Delete, Moves, Kept, TypeOK, Step
<1>6. CASE Insert(c) \/ PinTraceEcs(c)
  <2>1. step' \in [Case -> Step] /\ gate' \in [Case -> Gate \cup {"none"}]
    BY <1>1, <1>6 DEF Insert, PinTraceEcs, Pinned, Gets, TypeOK, Step, Gate
  <2>2. \A d \in Case \ {c} : step'[d] = step[d] /\ gate'[d] = gate[d]
    BY <1>1, <1>6 DEF Insert, PinTraceEcs, Pinned, Gets, TypeOK
  <2>3. /\ traces' \in [Locator -> Seq(1..run)]
        /\ \A l \in Locator \ {loc[c]} : traces'[l] = traces[l]
    BY <1>1, <1>2, <1>6, PinTyped DEF Insert, PinTraceEcs, Replaces
  <2> QED BY <1>1, <1>6, <2>1, <2>2, <2>3 DEF Insert, PinTraceEcs, Kept, TypeOK
<1>7. CASE PinTraceFails(c)
  <2>1. /\ traces' \in [Locator -> Seq(1..run)]
        /\ \A l \in Locator \ {loc[c]} : traces'[l] = traces[l]
    <3>1. CASE UNCHANGED traces
      BY <3>1 DEF TypeOK
    <3>2. CASE ~UNCHANGED traces
      BY <1>1, <1>2, <1>7, <3>2, PinTyped DEF PinTraceFails
    <3> QED BY <3>1, <3>2
  <2> QED BY <1>1, <1>7, <2>1 DEF PinTraceFails, Kept, TypeOK, Step
<1>8. CASE Audit(c)
  <2>1. AuditGate(c) \in Gate
    BY DEF AuditGate, Gate
  <2> QED BY <1>1, <1>8, <2>1 DEF Audit, Gets, Kept, TypeOK, Step
<1>9. CASE CaseFails(c)
  <2>1. /\ traces' \in [Locator -> Seq(1..run)]
        /\ \A l \in Locator \ {loc[c]} : traces'[l] = traces[l]
    <3>1. CASE UNCHANGED traces
      BY <3>1 DEF TypeOK
    <3>2. CASE ~UNCHANGED traces
      BY <1>1, <1>2, <1>9, <3>2, PinTyped DEF CaseFails, Replaces
    <3> QED BY <3>1, <3>2
  <2> QED BY <1>1, <1>9, <2>1 DEF CaseFails, Gets, Over, Off, TypeOK, Step, Gate
<1> QED
  BY <1>3, <1>4, <1>5, <1>6, <1>7, <1>8, <1>9 DEF Works

\* A campaign starts with its command's cases and their locators.
LEMMA Beginning ==
  ASSUME TypeOK, NEW k, Begin(k)
  PROVE  /\ run' = run + 1 /\ run' \in 1..MaxRuns /\ cmd' \in Commands[run'] /\ cmd' \in CommandLine
         /\ phase' = "publish" /\ Chosen' \subseteq Case /\ loc' \in [Chosen' -> Locator]
         /\ cmd'.all => /\ \A c \in Chosen' : loc'[c] \in Drawn(run')
                        /\ \A c, d \in Chosen' : loc'[c] = loc'[d] => c = d
         /\ ~cmd'.all => \A c \in Chosen' : loc'[c] \in Drawn(0)
<1>1. /\ run' = run + 1 /\ run' \in 1..MaxRuns /\ phase' = "publish"
      /\ cmd' = k /\ k \in Commands[run'] /\ k \in CommandLine
  BY CommandTyped, SeedAssumption DEF Begin, TypeOK
<1>2. CASE k.all
  <2>1. PICK f \in [Selected(k.limit) -> Drawn(run')] : Mints(f, k.limit) /\ loc' = f
    BY <1>2 DEF Begin
  <2>2. Chosen' = Selected(k.limit) /\ Chosen' \subseteq Case
    BY <2>1 DEF Chosen, Selected, Seedable
  <2>3. Drawn(run') \subseteq Locator
    BY <1>1, DrawnTyped
  <2> QED BY <1>1, <1>2, <2>1, <2>2, <2>3 DEF Mints
<1>3. CASE ~k.all
  <2>1. loc' = k.given
    BY <1>3 DEF Begin
  <2>2. DOMAIN k.given \subseteq Case /\ k.given \in [DOMAIN k.given -> Drawn(0)]
    BY <1>1, GivenTyped
  <2>3. Drawn(0) \subseteq Locator
    BY DrawnTyped, SeedAssumption
  <2> QED BY <1>1, <1>3, <2>1, <2>2, <2>3 DEF Chosen
<1> QED BY <1>2, <1>3

\* Messages are about bookings.
LEMMA MessagesTyped == \A cs : Messages(cs) \subseteq {"PNR", "TKT"} \X Locator
BY DEF Messages

\* Every step keeps every variable to its type.
LEMMA TypeInductive == TypeOK /\ Shape /\ [Next]_vars => TypeOK'
<1> SUFFICES ASSUME TypeOK, Shape, [Next]_vars PROVE TypeOK'
  OBVIOUS
<1>1. ASSUME NEW k, Begin(k) PROVE TypeOK'
  <2>1. traces' \in [Locator -> Seq(1..run')]
    <3>1. 1..run \subseteq 1..run'
      BY <1>1, Beginning DEF TypeOK
    <3>2. \A l \in Locator : traces[l] \in Seq(1..run')
      BY <3>1, SeqMonotonic DEF TypeOK
    <3> QED BY <1>1, <3>2 DEF Begin, TypeOK
  <2>2. sidecars' \subseteq (1..run') \X Locator
    BY <1>1, Beginning DEF Begin, TypeOK
  <2>3. step' \in [Case -> Step] /\ gate' \in [Case -> Gate \cup {"none"}]
    BY <1>1 DEF Begin, Off, Step, Gate
  <2> QED BY <1>1, <2>1, <2>2, <2>3, Beginning DEF Begin, TypeOK, Chosen, Topic
<1>2. CASE Publish
  <2>1. sent' \subseteq {"PNR", "TKT"} \X Locator
    BY <1>2, MessagesTyped DEF Publish, TypeOK
  <2>2. step' \in [Case -> Step] /\ stage' \in 1..Len(Topic)
    BY <1>2 DEF Publish, LastStage, TypeOK, Step, Topic
  <2> QED BY <1>2, <2>1, <2>2 DEF Publish, AfterPublish, TypeOK, Chosen
<1>3. CASE PublishFails
  <2>1. sent' \subseteq {"PNR", "TKT"} \X Locator /\ sent \subseteq sent'
    BY <1>3, MessagesTyped DEF PublishFails, TypeOK
  <2> QED BY <1>3, <2>1 DEF PublishFails, Over, Off, TypeOK, Chosen, Step
<1>4. CASE Preflight
  BY <1>4 DEF Preflight, TypeOK, Chosen
<1>5. CASE PreflightFails
  <2>1. \A r \in 1..MaxRuns : DOMAIN ledgers'[r].seeded \subseteq Case
    BY <1>5 DEF PreflightFails, Entries, TypeOK
  <2> QED BY <1>5, <2>1 DEF PreflightFails, Over, Off, TypeOK, Chosen, Step
<1>6. ASSUME NEW c \in Chosen, Works(c) PROVE TypeOK'
  <2>1. phase' \in {"idle", "publish", "preflight", "pool"} /\ (phase' # "idle" => run' > 0)
    BY <1>6, Working DEF Over, TypeOK
  <2>2. exit' \in [1..MaxRuns -> {"none", "0", "1", "2", "raised", "killed"}]
    BY <1>6, Working DEF Over, TypeOK
  <2> QED BY <1>6, <2>1, <2>2, Working DEF TypeOK, Chosen
<1>7. CASE Finish
  <2>1. \A r \in 1..MaxRuns : DOMAIN ledgers'[r].seeded \subseteq Case
    BY <1>7 DEF Finish, Mapping, Entries, TypeOK
  <2>2. DOMAIN ledgers' = 1..MaxRuns
    BY <1>7 DEF Finish, TypeOK
  <2> QED BY <1>7, <2>1, <2>2 DEF Finish, Over, Off, ExitCode, TypeOK, Chosen, Step
<1>8. CASE Killed
  BY <1>8 DEF Killed, Over, Off, TypeOK, Chosen, Step
<1>9. CASE Lapse \/ (\E m \in sent : Land(m)) \/ UNCHANGED vars
  BY <1>9 DEF Lapse, Land, vars, TypeOK, Chosen
<1> QED
  BY <1>1, <1>2, <1>3, <1>4, <1>5, <1>6, <1>7, <1>8, <1>9 DEF Next, Program

\* Every step keeps workers where they belong.
LEMMA ShapeInductive == TypeOK /\ Shape /\ [Next]_vars => Shape'
<1> SUFFICES ASSUME TypeOK, Shape, [Next]_vars PROVE Shape'
  OBVIOUS
<1>1. ASSUME NEW k, Begin(k) PROVE Shape'
  BY <1>1 DEF Begin, Off, Shape
<1>2. CASE Publish
  <2>1. Chosen' = Chosen /\ cmd' = cmd /\ Chosen \subseteq Case
    BY <1>2 DEF Publish, Chosen, TypeOK
  <2>2. CASE LastStage
    BY <1>2, <2>1, <2>2 DEF Publish, AfterPublish, Shape
  <2>3. CASE ~LastStage
    BY <1>2, <2>1, <2>3 DEF Publish, Shape
  <2> QED BY <2>2, <2>3
<1>3. CASE PublishFails \/ PreflightFails \/ Finish \/ Killed
  BY <1>3 DEF PublishFails, PreflightFails, Finish, Killed, Over, Off, Shape
<1>4. CASE Preflight
  BY <1>4 DEF Preflight, Shape, Chosen
<1>5. ASSUME NEW c \in Chosen, Works(c) PROVE Shape'
  <2>1. CASE Over("raised")
    BY <2>1 DEF Over, Off, Shape
  <2>2. CASE ~Over("raised")
    <3>1. phase' = "pool" /\ UNCHANGED <<cmd, loc>> /\ \A d \in Case \ {c} : step'[d] = step[d]
      BY <1>5, <2>2, InPool, Working
    <3>2. ~cmd.verify => step'[c] \notin {"trip", "verify", "audit"}
      <4>1. c \in Case /\ DOMAIN step = Case
        BY <1>5, InPool DEF TypeOK
      <4> QED
        BY <1>5, <2>2, <4>1 DEF Works, Take, TripFound, TripMissing, Put, Delete, Insert,
           PinTraceFails, PinTraceEcs, VerifyByPnr, Audit, CaseFails, Pinned, Moves, Gets, Shape
    <3> QED BY <3>1, <3>2 DEF Shape, Chosen
  <2> QED BY <2>1, <2>2
<1>6. CASE Lapse \/ (\E m \in sent : Land(m)) \/ UNCHANGED vars
  BY <1>6 DEF Lapse, Land, vars, Shape, Chosen
<1> QED
  BY <1>1, <1>2, <1>3, <1>4, <1>5, <1>6 DEF Next, Program

\* Every step keeps the workers of run_seed to one, and locators apart.
LEMMA LocsInductive == TypeOK /\ Shape /\ Locs /\ [Next]_vars => Locs'
<1> SUFFICES ASSUME TypeOK, Shape, Locs, [Next]_vars PROVE Locs'
  OBVIOUS
<1>1. ASSUME NEW k, Begin(k) PROVE Locs'
  <2>1. Busy' = {}
    BY <1>1, Beginning DEF Begin, Off, Busy
  <2> QED BY <1>1, <2>1, Beginning DEF Locs
<1>2. ASSUME UNCHANGED <<run, cmd, loc>>, Busy' \subseteq Busy PROVE Locs'
  BY <1>2 DEF Locs, Chosen
<1>3. CASE Publish
  <2>1. Busy' \subseteq Busy
    BY <1>3 DEF Publish, Busy, Chosen, TypeOK
  <2> QED BY <1>2, <1>3, <2>1 DEF Publish
<1>4. CASE PublishFails \/ PreflightFails \/ Finish \/ Killed
  <2>1. Busy' \subseteq Busy
    BY <1>4 DEF PublishFails, PreflightFails, Finish, Killed, Over, Off, Busy, Chosen, TypeOK
  <2> QED BY <1>2, <1>4, <2>1 DEF PublishFails, PreflightFails, Finish, Killed
<1>5. ASSUME NEW c \in Chosen, Works(c) PROVE Locs'
  <2>1. CASE Take(c)
    <3>1. UNCHANGED <<run, cmd, loc>> /\ Busy' \subseteq Busy \cup {c}
      BY <2>1, Working, <1>5 DEF Take, Moves, Kept, Busy, Chosen, TypeOK
    <3>2. CASE cmd.all
      BY <3>1, <3>2 DEF Locs, Chosen
    <3>3. CASE ~cmd.all
      <4>1. Cardinality(Busy) < 1
        BY <2>1, <3>3 DEF Take, Slots
      <4>2. IsFiniteSet(Busy)
        <5>1. IsFiniteSet(Case)
          BY FS_Interval, SeedAssumption DEF Case
        <5> QED BY <5>1, FS_Subset DEF Busy, TypeOK
      <4>3. Busy = {}
        BY <4>1, <4>2, FS_CardinalityType, FS_EmptySet
      <4> QED BY <3>1, <3>3, <4>3 DEF Locs, Chosen
    <3> QED BY <3>2, <3>3
  <2>2. CASE ~Take(c)
    <3>1. c \in Busy
      BY <1>5, <2>2, InPool
    <3>2. Busy' \subseteq Busy
      BY <1>5, <3>1, Working DEF Over, Off, Busy, Chosen, TypeOK
    <3> QED BY <1>2, <1>5, <3>2, Working
  <2> QED BY <2>1, <2>2
<1>6. CASE Preflight \/ Lapse \/ (\E m \in sent : Land(m)) \/ UNCHANGED vars
  BY <1>2, <1>6 DEF Preflight, Lapse, Land, vars, Busy, Chosen
<1> QED
  BY <1>1, <1>3, <1>4, <1>5, <1>6 DEF Next, Program

\* A busy worker's booking, and any of a minted run, is no other worker's.
LEMMA Elsewhere ==
  ASSUME TypeOK, Shape, Locs, NEW c \in Chosen, Works(c), NEW d \in Chosen \ {c}, cmd.all \/ d \in Busy
  PROVE  traces'[loc[d]] = traces[loc[d]]
<1>1. loc[d] \in Locator
  BY DEF TypeOK
<1>2. CASE loc[d] # loc[c]
  BY <1>1, <1>2, Working
<1>3. CASE loc[d] = loc[c]
  <2>1. ~cmd.all /\ d \in Busy
    BY <1>3 DEF Locs
  <2>2. Take(c)
    BY <2>1, InPool DEF Locs
  <2> QED BY <2>2 DEF Take
<1> QED BY <1>2, <1>3

\* What worker c does to the pin of its booking.
LEMMA OwnPin ==
  ASSUME TypeOK, Shape, Pins, NEW c \in Chosen, Works(c), ~Over("raised")
  PROVE  /\ step[c] \in {"todo", "trip", "put", "verify", "audit"} => traces' = traces
         /\ step'[c] = "insert" => step[c] = "delete" /\ traces'[loc[c]] = <<>>
         /\ step'[c] \in {"verify", "audit"} => traces'[loc[c]] = <<run>>
         /\ step'[c] \in {"todo", "trip"} => step[c] = "todo"
         /\ step'[c] \notin {"insert", "ecs"} /\ step[c] \in {"delete", "insert", "ecs"} =>
              traces'[loc[c]] = <<run>> \/ (cmd.all /\ gate'[c] = "error")
         /\ Len(traces'[loc[c]]) <= 1
<1>1. c \in Case /\ loc[c] \in Locator /\ DOMAIN step = Case /\ DOMAIN gate = Case /\ DOMAIN traces = Locator
  BY InPool DEF TypeOK
<1>2. Append(<<>>, run) = <<run>> /\ Len(<<run>>) = 1 /\ Len(<<>>) = 0
  OBVIOUS
<1>3. Len(traces[loc[c]]) <= 1
  BY <1>1 DEF Pins, OneTrace
<1>4. CASE Take(c) \/ TripFound(c) \/ TripMissing(c) \/ Put(c) \/ VerifyByPnr(c) \/ Audit(c)
  BY <1>1, <1>3, <1>4 DEF Take, TripFound, TripMissing, Put, VerifyByPnr, Audit, Moves, Gets, Pins
<1>5. CASE Delete(c)
  BY <1>1, <1>2, <1>5 DEF Delete, Moves
<1>6. CASE Insert(c)
  <2>1. traces'[loc[c]] = <<run>>
    BY <1>1, <1>2, <1>6 DEF Insert, Pins
  <2>2. step'[c] \in {"verify", "done"}
    BY <1>1, <1>6 DEF Insert, Pinned, Gets
  <2>3. step[c] = "insert"
    BY <1>6 DEF Insert
  <2> QED BY <1>2, <2>1, <2>2, <2>3
<1>7. CASE PinTraceEcs(c)
  <2>1. traces'[loc[c]] = <<run>>
    BY <1>1, <1>7 DEF PinTraceEcs, Replaces
  <2>2. step'[c] \in {"verify", "done"}
    BY <1>1, <1>7 DEF PinTraceEcs, Pinned, Gets
  <2> QED BY <1>2, <1>7, <2>1, <2>2 DEF PinTraceEcs
<1>8. CASE PinTraceFails(c)
  <2>1. Len(traces'[loc[c]]) <= 1
    <3>1. CASE UNCHANGED traces
      BY <1>3, <3>1
    <3>2. CASE ~UNCHANGED traces
      BY <1>1, <1>2, <1>8, <3>2 DEF PinTraceFails, Pins
    <3> QED BY <3>1, <3>2
  <2> QED BY <1>1, <1>8, <2>1 DEF PinTraceFails
<1>9. CASE CaseFails(c)
  <2>1. cmd.all /\ Gets(c, "error")
    BY <1>9 DEF CaseFails
  <2>2. step'[c] = "done" /\ gate'[c] = "error"
    BY <1>1, <2>1 DEF Gets
  <2>3. Len(traces'[loc[c]]) <= 1
    <3>1. CASE UNCHANGED traces
      BY <1>3, <3>1
    <3>2. CASE ~UNCHANGED traces
      <4>1. traces' = [traces EXCEPT ![loc[c]] = <<run>>]
        BY <1>9, <3>2 DEF CaseFails, Replaces
      <4>2. traces'[loc[c]] = <<run>>
        BY <1>1, <4>1
      <4> QED BY <1>2, <4>2
    <3> QED BY <3>1, <3>2
  <2>4. step[c] \in {"todo", "trip", "put", "verify", "audit"} => traces' = traces
    BY <1>9 DEF CaseFails
  <2> QED BY <2>1, <2>2, <2>3, <2>4
<1> QED
  BY <1>4, <1>5, <1>6, <1>7, <1>8, <1>9 DEF Works

\* Every step keeps the pins as its workers expect them.
LEMMA PinsInductive == TypeOK /\ Shape /\ Locs /\ Pins /\ [Next]_vars => Pins'
<1> SUFFICES ASSUME TypeOK, Shape, Locs, Pins, [Next]_vars PROVE Pins'
  OBVIOUS
<1>1. ASSUME NEW k, Begin(k) PROVE Pins'
  <2>1. /\ run' = run + 1 /\ run \in Nat /\ traces' = traces /\ Chosen' \subseteq Case
        /\ \A c \in Case : step'[c] = "none"
        /\ loc' \in [Chosen' -> Locator]
    BY <1>1, Beginning DEF Begin, Off, TypeOK
  <2>2. \A l \in Locator : l[1] \in Nat
    BY DEF Locator
  <2>3. \A l \in Locator : l[1] > run' => traces'[l] = <<>>
    BY <2>1, <2>2 DEF Pins
  <2>4. cmd'.all => \A c \in Chosen' : traces'[loc'[c]] = <<>>
    <3> SUFFICES ASSUME cmd'.all, NEW c \in Chosen' PROVE traces'[loc'[c]] = <<>>
      OBVIOUS
    <3>1. loc'[c] \in Locator /\ loc'[c] \in Drawn(run')
      BY <1>1, <2>1, Beginning
    <3>2. loc'[c][1] = run'
      BY <3>1 DEF Drawn
    <3> QED BY <2>1, <3>1, <3>2 DEF Pins
  <2> QED BY <2>1, <2>3, <2>4 DEF Pins, OneTrace
<1>2. CASE Publish
  <2>1. /\ UNCHANGED <<run, cmd, loc, traces>> /\ phase = "publish" /\ Chosen' = Chosen
        /\ \A c \in Chosen : step'[c] \in {"none", "todo"}
    BY <1>2 DEF Publish, Chosen, Shape, TypeOK
  <2> QED BY <2>1 DEF Pins, OneTrace
<1>3. CASE PublishFails \/ PreflightFails \/ Finish \/ Killed
  <2>1. /\ UNCHANGED <<run, cmd, loc, traces>> /\ Chosen' = Chosen /\ phase' = "idle"
        /\ \A c \in Chosen : step'[c] = "none"
    BY <1>3 DEF PublishFails, PreflightFails, Finish, Killed, Over, Off, Chosen, TypeOK
  <2> QED BY <2>1 DEF Pins, OneTrace
<1>4. CASE Preflight
  BY <1>4 DEF Preflight, Pins, OneTrace, Chosen
<1>5. ASSUME NEW c \in Chosen, Works(c) PROVE Pins'
  <2>1. /\ UNCHANGED <<run, cmd, loc>> /\ Chosen' = Chosen /\ c \in Case /\ loc[c] \in Locator
        /\ Chosen \subseteq Case /\ run \in Nat
    BY <1>5, InPool, Working DEF Chosen, TypeOK
  <2>2. loc[c][1] <= run
    BY <2>1, SeedAssumption DEF Locs, Drawn
  <2>3. \A l \in Locator : l[1] > run => traces'[l] = <<>>
    <3> SUFFICES ASSUME NEW l \in Locator, l[1] > run PROVE traces'[l] = <<>>
      OBVIOUS
    <3>1. l[1] \in Nat /\ loc[c][1] \in Nat
      BY <2>1 DEF Locator
    <3>2. l # loc[c]
      BY <2>1, <2>2, <3>1
    <3> QED BY <1>5, <3>2, Working DEF Pins
  <2>4. CASE Over("raised")
    <3>1. CaseFails(c)
      BY <1>5, <2>1, <2>4, InPool DEF Works, Take, TripFound, TripMissing, Put, Delete, Insert,
         PinTraceFails, PinTraceEcs, VerifyByPnr, Audit, Kept, Over
    <3>2. Len(traces'[loc[c]]) <= 1
      <4>1. CASE UNCHANGED traces
        BY <2>1, <4>1 DEF Pins, OneTrace
      <4>2. CASE ~UNCHANGED traces
        <5>1. traces' = [traces EXCEPT ![loc[c]] = <<run>>]
          BY <3>1, <4>2 DEF CaseFails, Replaces
        <5>2. traces'[loc[c]] = <<run>>
          BY <2>1, <5>1 DEF TypeOK
        <5>3. Len(<<run>>) = 1
          OBVIOUS
        <5> QED BY <5>2, <5>3
      <4> QED BY <4>1, <4>2
    <3>3. OneTrace'
      BY <1>5, <2>1, <3>2, Working DEF Pins, OneTrace
    <3>4. phase' = "idle" /\ \A d \in Case : step'[d] = "none"
      BY <2>4 DEF Over, Off
    <3> QED BY <2>1, <2>3, <3>3, <3>4 DEF Pins
  <2>5. CASE ~Over("raised")
    <3>1. phase' = "pool" /\ \A d \in Case \ {c} : step'[d] = step[d]
      BY <1>5, <2>5, InPool, Working
    <3>2. OneTrace'
      BY <1>5, <2>1, <2>5, OwnPin, Working DEF Pins, OneTrace
    <3>3. ASSUME NEW d \in Chosen
          PROVE  /\ step'[d] = "insert" => traces'[loc[d]] = <<>>
                 /\ step'[d] \in {"verify", "audit"} => traces'[loc[d]] = <<run>>
                 /\ cmd.all /\ step'[d] \in {"todo", "trip"} => traces'[loc[d]] = <<>>
      <4>1. CASE d = c
        BY <1>5, <2>5, <4>1, OwnPin DEF Pins
      <4>2. CASE d # c
        <5>1. step'[d] = step[d]
          BY <2>1, <3>1, <4>2
        <5>2. cmd.all \/ d \in Busy => traces'[loc[d]] = traces[loc[d]]
          BY <1>5, <4>2, Elsewhere
        <5> QED BY <5>1, <5>2 DEF Pins, Busy
      <4> QED BY <4>1, <4>2
    <3> QED BY <2>1, <2>3, <3>1, <3>2, <3>3 DEF Pins
  <2> QED BY <2>4, <2>5
<1>6. CASE Lapse \/ (\E m \in sent : Land(m)) \/ UNCHANGED vars
  BY <1>6 DEF Lapse, Land, vars, Pins, OneTrace, Chosen
<1> QED
  BY <1>1, <1>2, <1>3, <1>4, <1>5, <1>6 DEF Next, Program

\* Rows never go away, and cases get past the first gate with their trip row.
LEMMA TripsInductive == TypeOK /\ Shape /\ Trips /\ [Next]_vars => Trips'
<1> SUFFICES ASSUME TypeOK, Shape, Trips, [Next]_vars PROVE Trips'
  OBVIOUS
<1>1. ASSUME \A c \in Chosen' : step'[c] \in {"none", "todo"} PROVE Trips'
  BY <1>1 DEF Trips
<1>2. ASSUME NEW k, Begin(k) PROVE Trips'
  BY <1>1, <1>2, Beginning DEF Begin, Off
<1>3. CASE Publish
  BY <1>1, <1>3 DEF Publish, Shape, TypeOK, Chosen
<1>4. CASE PublishFails \/ PreflightFails \/ Finish \/ Killed
  BY <1>1, <1>4 DEF PublishFails, PreflightFails, Finish, Killed, Over, Off, Chosen, TypeOK
<1>5. ASSUME NEW c \in Chosen, Works(c) PROVE Trips'
  <2>1. CASE Over("raised")
    BY <1>1, <1>5, <2>1, Working DEF Over, Off, Chosen, TypeOK
  <2>2. CASE ~Over("raised")
    <3>1. /\ UNCHANGED <<cmd, loc, rows>> /\ Chosen' = Chosen /\ \A d \in Chosen \ {c} : step'[d] = step[d]
          /\ c \in Case /\ DOMAIN step = Case
      BY <1>5, <2>2, Working, InPool DEF Chosen, TypeOK
    <3>2. cmd.verify /\ step'[c] \in {"put", "delete", "insert", "ecs", "verify", "audit"} => Landed("PNR", c)
      BY <1>5, <2>2, <3>1 DEF Trips, Works, Take, TripFound, TripMissing, Put, Delete, Insert,
         PinTraceFails, PinTraceEcs, VerifyByPnr, Audit, CaseFails, Pinned, Moves, Gets
    <3> QED BY <3>1, <3>2 DEF Trips, Landed
  <2> QED BY <2>1, <2>2
<1>6. CASE Preflight \/ Lapse \/ UNCHANGED vars
  BY <1>6 DEF Preflight, Lapse, vars, Trips, Landed, Chosen
<1>7. CASE \E m \in sent : Land(m)
  BY <1>7 DEF Land, Trips, Landed, Chosen
<1> QED
  BY <1>2, <1>3, <1>4, <1>5, <1>6, <1>7 DEF Next, Program

\* The gate of a case that finishes is true when it is given.
LEMMA GateGiven ==
  ASSUME TypeOK, Shape, Pins, Trips, NEW c \in Chosen, Works(c), ~Over("raised"), step'[c] = "done"
  PROVE  /\ gate'[c] \in {"seeded", "all-pass", "checkpoint_fail"} => traces'[loc[c]] = <<run>>
         /\ gate'[c] \in {"all-pass", "checkpoint_fail"} =>
              Landed("PNR", c) /\ <<run, loc[c]>> \in sidecars'
         /\ gate'[c] = "all-pass" => Landed("TKT", c)
         /\ gate'[c] \in {"trip_missing", "published_unverified"} /\ cmd.all => traces'[loc[c]] = <<>>
<1>1. c \in Case /\ loc[c] \in Locator /\ DOMAIN step = Case /\ DOMAIN gate = Case /\ DOMAIN traces = Locator
  BY InPool DEF TypeOK
<1>2. CASE Take(c) \/ TripFound(c) \/ Put(c) \/ VerifyByPnr(c) \/ Delete(c) \/ PinTraceFails(c)
  BY <1>1, <1>2 DEF Take, TripFound, Put, VerifyByPnr, Delete, PinTraceFails, Moves
<1>3. CASE TripMissing(c)
  <2>1. gate'[c] = "trip_missing" /\ traces' = traces /\ step[c] = "trip"
    BY <1>1, <1>3 DEF TripMissing, Gets
  <2> QED BY <2>1 DEF Pins
<1>4. CASE Insert(c) \/ PinTraceEcs(c)
  <2>1. traces'[loc[c]] = <<run>>
    <3>1. step[c] \in {"insert", "ecs"} /\ step'[c] \notin {"insert", "ecs"}
      BY <1>1, <1>4 DEF Insert, PinTraceEcs
    <3>2. gate'[c] = "seeded"
      BY <1>1, <1>4 DEF Insert, PinTraceEcs, Pinned, Gets
    <3> QED BY <3>1, <3>2, OwnPin
  <2>2. gate'[c] = "seeded"
    BY <1>1, <1>4 DEF Insert, PinTraceEcs, Pinned, Gets
  <2> QED BY <2>1, <2>2
<1>5. CASE Audit(c)
  <2>1. /\ gate'[c] = AuditGate(c) /\ traces' = traces /\ step[c] = "audit"
        /\ <<run, loc[c]>> \in sidecars'
    BY <1>1, <1>5 DEF Audit, Gets
  <2>2. cmd.verify
    BY <1>1, <2>1 DEF Shape
  <2>3. traces[loc[c]] = <<run>> /\ Landed("PNR", c)
    BY <2>1, <2>2 DEF Pins, Trips
  <2>4. gate'[c] \in {"all-pass", "checkpoint_fail"} /\ (gate'[c] = "all-pass" => Landed("TKT", c))
    BY <2>1 DEF AuditGate
  <2> QED BY <2>1, <2>3, <2>4
<1>6. CASE CaseFails(c)
  <2>1. gate'[c] = "error"
    BY <1>1, <1>6 DEF CaseFails, Gets
  <2> QED BY <2>1
<1> QED
  BY <1>2, <1>3, <1>4, <1>5, <1>6 DEF Works

\* A finished case keeps its determination, or it is being replaced by a worker.
LEMMA GoodKept ==
  ASSUME TypeOK, Shape, Locs, Pins, NEW c \in Chosen, Works(c), ~Over("raised"),
         NEW d \in Chosen \ {c},
         \/ traces[loc[d]] = <<run>>
         \/ \E e \in Chosen : loc[e] = loc[d] /\ step[e] \in {"insert", "ecs"}
  PROVE  \/ traces'[loc[d]] = <<run>>
         \/ \E e \in Chosen : loc[e] = loc[d] /\ step'[e] \in {"insert", "ecs"}
<1>1. /\ \A e \in Case \ {c} : step'[e] = step[e]
      /\ \A l \in Locator \ {loc[c]} : traces'[l] = traces[l]
      /\ c \in Case /\ d \in Case /\ loc[d] \in Locator
  BY Working DEF Over, TypeOK
<1>2. CASE \E e \in Chosen \ {c} : loc[e] = loc[d] /\ step[e] \in {"insert", "ecs"}
  BY <1>1, <1>2 DEF TypeOK
<1>3. CASE loc[d] # loc[c]
  BY <1>1, <1>2, <1>3
<1>4. CASE loc[d] = loc[c]
  <2>1. ~cmd.all
    BY <1>4 DEF Locs
  <2>2. CASE step'[c] \in {"insert", "ecs"}
    BY <1>4, <2>2
  <2>3. CASE step'[c] \notin {"insert", "ecs"} /\ step[c] \in {"delete", "insert", "ecs"}
    BY <1>4, <2>1, <2>3, OwnPin
  <2>4. CASE step[c] \notin {"delete", "insert", "ecs"}
    <3>1. step[c] \in {"todo", "trip", "put", "verify", "audit"}
      BY <1>1, <2>4, InPool DEF Busy, TypeOK, Step
    <3>2. traces' = traces
      BY <3>1, OwnPin
    <3> QED BY <1>2, <2>4, <3>2
  <2> QED BY <2>2, <2>3, <2>4
<1> QED BY <1>3, <1>4

\* Every step keeps the gates of finished cases true.
LEMMA GatesInductive ==
  TypeOK /\ Shape /\ Locs /\ Pins /\ Trips /\ Gates /\ [Next]_vars => Gates'
<1> SUFFICES ASSUME TypeOK, Shape, Locs, Pins, Trips, Gates, [Next]_vars PROVE Gates'
  OBVIOUS
<1>1. ASSUME \A c \in Chosen' : step'[c] # "done" PROVE Gates'
  BY <1>1 DEF Gates
<1>2. ASSUME NEW k, Begin(k) PROVE Gates'
  BY <1>1, <1>2, Beginning DEF Begin, Off
<1>3. CASE Publish
  BY <1>1, <1>3 DEF Publish, Shape, TypeOK, Chosen
<1>4. CASE PublishFails \/ PreflightFails \/ Finish \/ Killed
  BY <1>1, <1>4 DEF PublishFails, PreflightFails, Finish, Killed, Over, Off, Chosen, TypeOK
<1>5. ASSUME NEW c \in Chosen, Works(c) PROVE Gates'
  <2>1. CASE Over("raised")
    BY <1>1, <1>5, <2>1, Working DEF Over, Off, Chosen, TypeOK
  <2>2. CASE ~Over("raised")
    <3>1. /\ UNCHANGED <<run, cmd, loc, rows>> /\ Chosen' = Chosen /\ Chosen \subseteq Case
          /\ \A d \in Case \ {c} : step'[d] = step[d] /\ gate'[d] = gate[d]
          /\ sidecars \subseteq sidecars'
      BY <1>5, <2>2, Working DEF Chosen, TypeOK
    <3>2. ASSUME NEW d \in Chosen, step'[d] = "done"
          PROVE  /\ gate'[d] \in {"seeded", "all-pass", "checkpoint_fail"} =>
                      \/ traces'[loc[d]] = <<run>>
                      \/ \E e \in Chosen : loc[e] = loc[d] /\ step'[e] \in {"insert", "ecs"}
                 /\ gate'[d] \in {"all-pass", "checkpoint_fail"} =>
                      Landed("PNR", d) /\ <<run, loc[d]>> \in sidecars'
                 /\ gate'[d] = "all-pass" => Landed("TKT", d)
                 /\ gate'[d] \in {"trip_missing", "published_unverified"} /\ cmd.all =>
                      traces'[loc[d]] = <<>>
      <4>1. CASE d = c
        BY <1>5, <2>2, <3>2, <4>1, GateGiven
      <4>2. CASE d # c
        <5>1. step[d] = "done" /\ gate'[d] = gate[d] /\ d \in Chosen \ {c}
          BY <3>1, <3>2, <4>2
        <5>2. gate[d] \in {"seeded", "all-pass", "checkpoint_fail"} =>
                \/ traces'[loc[d]] = <<run>>
                \/ \E e \in Chosen : loc[e] = loc[d] /\ step'[e] \in {"insert", "ecs"}
          BY <1>5, <2>2, <5>1, GoodKept DEF Gates
        <5>3. cmd.all => traces'[loc[d]] = traces[loc[d]]
          BY <1>5, <5>1, Elsewhere
        <5> QED BY <3>1, <5>1, <5>2, <5>3 DEF Gates
      <4> QED BY <4>1, <4>2
    <3> QED BY <3>1, <3>2 DEF Gates, Landed
  <2> QED BY <2>1, <2>2
<1>6. CASE Preflight \/ Lapse \/ UNCHANGED vars
  BY <1>6 DEF Preflight, Lapse, vars, Gates, Landed, Chosen
<1>7. CASE \E m \in sent : Land(m)
  BY <1>7 DEF Land, Gates, Landed, Chosen
<1> QED
  BY <1>2, <1>3, <1>4, <1>5, <1>6, <1>7 DEF Next, Program

-----------------------------------------------------------------------------
(* What campaigns leave behind.                                              *)

\* A campaign that is not idle is one of the runs.
LEMMA RunOn ==
  ASSUME TypeOK
  PROVE  run \in Nat /\ (phase # "idle" => run \in 1..MaxRuns)
BY SeedAssumption DEF TypeOK

\* The bookings of a campaign are its own or given ones.
LEMMA OwnLocators ==
  ASSUME TypeOK, Locs, NEW c \in Chosen
  PROVE  loc[c] \in Locator /\ loc[c][1] \in {0, run}
BY DEF TypeOK, Locs, Drawn

\* The steps that end a campaign without a ledger, in one.
Stops == PublishFails \/ Killed \/ \E c \in Chosen : Works(c) /\ Over("raised")

\* A campaign that stops returns nothing.
LEMMA Stopping ==
  ASSUME TypeOK, Shape, Stops
  PROVE  /\ UNCHANGED <<run, cmd, loc, ledgers>> /\ phase # "idle" /\ phase' = "idle"
         /\ exit' \in [1..MaxRuns -> {"none", "0", "1", "2", "raised", "killed"}]
         /\ exit'[run] \in {"raised", "killed"}
         /\ \A r \in 1..MaxRuns \ {run} : exit'[r] = exit[r]
<1>1. CASE PublishFails
  BY <1>1, RunOn DEF PublishFails, Over, TypeOK
<1>2. CASE Killed
  BY <1>2, RunOn DEF Killed, Over, TypeOK
<1>3. ASSUME NEW c \in Chosen, Works(c), Over("raised") PROVE phase # "idle"
  BY <1>3, InPool
<1>4. ASSUME NEW c \in Chosen, Works(c), Over("raised") PROVE UNCHANGED <<run, cmd, loc, ledgers>>
  BY <1>4, Working
<1>5. CASE \E c \in Chosen : Works(c) /\ Over("raised")
  BY <1>3, <1>4, <1>5, RunOn DEF Over, TypeOK
<1> QED BY <1>1, <1>2, <1>5 DEF Stops

\* The ledger of a campaign that returns.
LEMMA Returning ==
  ASSUME TypeOK, Shape, Finish \/ PreflightFails
  PROVE  /\ UNCHANGED <<run, cmd, loc, gate, sent, rows, traces, sidecars>>
         /\ run \in 1..MaxRuns /\ phase # "idle" /\ phase' = "idle"
         /\ \A r \in 1..MaxRuns \ {run} : ledgers'[r] = ledgers[r] /\ exit'[r] = exit[r]
         /\ exit'[run] = IF Finish THEN ExitCode(gate) ELSE "2"
         /\ cmd.all => /\ DOMAIN ledgers'[run].seeded = Chosen
                       /\ \A c \in Chosen : ledgers'[run].seeded[c].loc = loc[c]
                       /\ \A c \in Chosen : ledgers'[run].seeded[c].gate =
                            IF Finish THEN gate[c] ELSE "published_unverified"
         /\ ~cmd.all => Finish /\ ledgers' = ledgers
<1>1. phase # "idle" /\ run \in 1..MaxRuns
  BY RunOn DEF Finish, PreflightFails
<1>2. CASE Finish
  BY <1>1, <1>2 DEF Finish, Over, Mapping, Entries, TypeOK
<1>3. CASE PreflightFails /\ ~Finish
  <2>1. cmd.all
    BY <1>3 DEF PreflightFails, Shape
  <2> QED BY <1>1, <1>3, <2>1 DEF PreflightFails, Over, Entries, TypeOK
<1> QED BY <1>2, <1>3

\* Every step leaves the ledgers and exit codes to finished runs.
LEMMA BooksInductive == TypeOK /\ Shape /\ Locs /\ Books /\ [Next]_vars => Books'
<1> SUFFICES ASSUME TypeOK, Shape, Locs, Books, [Next]_vars PROVE Books'
  OBVIOUS
<1>1. ASSUME NEW k, Begin(k) PROVE Books'
  <2>1. run' = run + 1 /\ run \in Nat /\ UNCHANGED <<ledgers, exit>>
    BY <1>1, Beginning, RunOn DEF Begin
  <2> QED BY <2>1 DEF Books
<1>2. CASE Stops
  <2> QED BY <1>2, Stopping, RunOn DEF Books
<1>3. CASE Finish \/ PreflightFails
  <2>1. ASSUME NEW r \in 1..MaxRuns, NEW c \in DOMAIN ledgers'[r].seeded
        PROVE  ledgers'[r].seeded[c].loc \in Drawn(r)
    <3>1. CASE r = run /\ cmd.all
      BY <1>3, <2>1, <3>1, Returning DEF Locs
    <3>2. CASE r # run \/ ~cmd.all
      BY <1>3, <2>1, <3>2, Returning DEF Books
    <3> QED BY <3>1, <3>2
  <2>2. ASSUME NEW r \in 1..MaxRuns, r > run' PROVE ledgers'[r] = NoLedger /\ exit'[r] = "none"
    BY <1>3, <2>2, Returning, RunOn DEF Books
  <2> QED BY <1>3, <2>1, <2>2, Returning DEF Books
<1>4. ASSUME NEW c \in Chosen, Works(c), ~Over("raised") PROVE Books'
  <2>1. UNCHANGED <<run, phase, ledgers, exit>>
    BY <1>4, Working
  <2> QED BY <2>1 DEF Books
<1>5. CASE Publish \/ Preflight \/ Lapse \/ (\E m \in sent : Land(m)) \/ UNCHANGED vars
  BY <1>5 DEF Publish, Preflight, Lapse, Land, vars, Books
<1> QED
  BY <1>1, <1>2, <1>3, <1>4, <1>5 DEF Next, Program, Stops

\* Every step keeps what the ledgers say true.
LEMMA TruthInductive ==
  IInv /\ [Next]_vars => LedgerTruthful'
<1> SUFFICES ASSUME IInv, [Next]_vars PROVE LedgerTruthful'
  OBVIOUS
<1> USE DEF IInv
<1>1. ASSUME UNCHANGED ledgers, rows \subseteq rows', sidecars \subseteq sidecars',
             \A r \in 1..MaxRuns : \A c \in DOMAIN ledgers[r].seeded :
               traces'[ledgers[r].seeded[c].loc] = traces[ledgers[r].seeded[c].loc]
      PROVE  LedgerTruthful'
  BY <1>1 DEF LedgerTruthful, Truthful
<1>2. ASSUME NEW k, Begin(k) PROVE LedgerTruthful'
  BY <1>1, <1>2 DEF Begin
<1>3. ASSUME NEW c \in Chosen, Works(c) PROVE LedgerTruthful'
  <2>1. ASSUME NEW r \in 1..MaxRuns, NEW d \in DOMAIN ledgers[r].seeded
        PROVE  traces'[ledgers[r].seeded[d].loc] = traces[ledgers[r].seeded[d].loc]
    <3>1. r # run
      <4>1. DOMAIN NoLedger.seeded = {}
        BY DEF NoLedger
      <4>2. phase # "idle"
        BY <1>3, InPool
      <4> QED BY <2>1, <4>1, <4>2 DEF Books
    <3>2. ledgers[r].seeded[d].loc \in Drawn(r)
      BY <2>1 DEF Books
    <3>3. ledgers[r].seeded[d].loc \in Locator /\ ledgers[r].seeded[d].loc[1] = r
      BY <3>2, DrawnTyped DEF Drawn
    <3>4. loc[c][1] \in {0, run}
      BY OwnLocators
    <3>5. ledgers[r].seeded[d].loc # loc[c]
      BY <3>1, <3>3, <3>4
    <3> QED BY <1>3, <3>3, <3>5, Working
  <2> QED BY <1>1, <1>3, <2>1, Working
<1>4. CASE Finish \/ PreflightFails
  <2>1. ASSUME NEW r \in 1..MaxRuns, NEW c \in DOMAIN ledgers'[r].seeded
        PROVE  Truthful(r, ledgers'[r].seeded[c])
    <3>1. CASE r # run \/ ~cmd.all
      <4>1. ledgers'[r] = ledgers[r]
        BY <1>4, <3>1, Returning
      <4> QED BY <2>1, <4>1 DEF LedgerTruthful
    <3>2. CASE r = run /\ cmd.all
      <4>1. c \in Chosen /\ ledgers'[r].seeded[c].loc = loc[c]
        BY <1>4, <2>1, <3>2, Returning
      <4>2. CASE Finish
        <5>1. ledgers'[r].seeded[c].gate = gate[c]
          BY <3>2, <4>1, <4>2, Returning
        <5>2. \A d \in Chosen : step[d] = "done"
          BY <4>2 DEF Finish, Through
        <5>3. /\ gate[c] \in {"seeded", "all-pass", "checkpoint_fail"} => traces[loc[c]] = <<run>>
              /\ gate[c] \in {"all-pass", "checkpoint_fail"} =>
                   Landed("PNR", c) /\ <<run, loc[c]>> \in sidecars
              /\ gate[c] = "all-pass" => Landed("TKT", c)
              /\ gate[c] \in {"trip_missing", "published_unverified"} => traces[loc[c]] = <<>>
          BY <3>2, <4>1, <5>2 DEF Gates
        <5> QED BY <3>2, <4>1, <5>1, <5>3 DEF Truthful, Landed
      <4>3. CASE ~Finish
        <5>1. ledgers'[r].seeded[c].gate = "published_unverified"
          BY <1>4, <3>2, <4>1, <4>3, Returning
        <5>2. traces[loc[c]] = <<>>
          BY <1>4, <3>2, <4>1, <4>3 DEF PreflightFails, Pins
        <5> QED BY <4>1, <5>1, <5>2 DEF Truthful
      <4> QED BY <4>2, <4>3
    <3> QED BY <3>1, <3>2
  <2>2. UNCHANGED <<rows, traces, sidecars>>
    BY <1>4, Returning
  <2> QED BY <2>1, <2>2 DEF LedgerTruthful, Truthful
<1>5. CASE Publish \/ PublishFails \/ Preflight \/ Killed \/ Lapse \/ UNCHANGED vars
  BY <1>1, <1>5 DEF Publish, PublishFails, Preflight, Killed, Lapse, vars
<1>6. CASE \E m \in sent : Land(m)
  BY <1>1, <1>6 DEF Land
<1> QED
  BY <1>2, <1>3, <1>4, <1>5, <1>6 DEF Next, Program

\* What a stage adds to the broker's messages is about chosen bookings.
LEMMA Sending ==
  ASSUME TypeOK, Locs, NEW cs \in SUBSET Chosen, sent' = sent \cup Messages(cs), UNCHANGED <<run, loc>>
  PROVE  /\ sent \subseteq sent'
         /\ \A l \in Locator : <<"PNR", l>> \in sent' \ sent =>
              l[1] \in {0, run} /\ \E c \in Chosen : loc[c] = l
BY OwnLocators DEF Messages

\* The first stage is the topic of the trips.
LEMMA TripsFirst ==
  ASSUME TypeOK, stage = 1, NEW c \in Chosen
  PROVE  <<"PNR", loc[c]>> \in Messages(Chosen)
<1>1. Topic[stage] = "PNR" /\ loc[c] \in Locator
  BY DEF Topic, TypeOK
<1> QED BY <1>1 DEF Messages

\* Every step keeps the messages to the bookings of the runs.
LEMMA MailsInductive == TypeOK /\ Shape /\ Locs /\ Mails /\ [Next]_vars => Mails'
<1> SUFFICES ASSUME TypeOK, Shape, Locs, Mails, [Next]_vars PROVE Mails'
  OBVIOUS
<1>0. run \in Nat /\ \A l \in Locator : l[1] \in Nat
  BY RunOn DEF Locator
<1>1. ASSUME NEW k, Begin(k) PROVE Mails'
  <2>1. run' = run + 1 /\ sent' = sent /\ phase' = "publish" /\ stage' = 1 /\ run' \in 0..MaxRuns
    BY <1>1, Beginning DEF Begin
  <2>2. \A l \in Locator : <<"PNR", l>> \in sent => l[1] <= run
    BY DEF Mails
  <2>3. \A l \in Drawn(run') : l \in Locator /\ l[1] = run'
    BY <2>1, DrawnTyped DEF Drawn
  <2>4. \A l \in Drawn(run') : <<"PNR", l>> \notin sent
    <3> SUFFICES ASSUME NEW l \in Drawn(run'), <<"PNR", l>> \in sent PROVE FALSE
      OBVIOUS
    <3>1. l \in Locator /\ l[1] = run + 1 /\ l[1] <= run
      BY <2>1, <2>2, <2>3
    <3> QED BY <1>0, <3>1
  <2> QED BY <1>0, <2>1, <2>2, <2>4 DEF Mails
<1>2. CASE Publish
  <2>1. /\ UNCHANGED <<run, loc>> /\ Chosen' = Chosen /\ phase = "publish"
        /\ sent' = sent \cup Messages(Chosen)
    BY <1>2 DEF Publish, Chosen
  <2>2. /\ sent \subseteq sent'
        /\ \A l \in Locator : <<"PNR", l>> \in sent' \ sent =>
             l[1] \in {0, run} /\ \E c \in Chosen : loc[c] = l
    BY <2>1, Sending
  <2>3. \A l \in Locator : <<"PNR", l>> \in sent' => l[1] <= run
    BY <1>0, <2>2 DEF Mails
  <2>4. Drawn(run) \subseteq Locator
    BY <2>1, RunOn, DrawnTyped
  <2>5. \A c \in Chosen : <<"PNR", loc[c]>> \in sent'
    <3>1. CASE stage = 1
      BY <2>1, <3>1, TripsFirst
    <3>2. CASE stage # 1
      BY <2>1, <2>2, <3>2 DEF Mails, TypeOK
    <3> QED BY <3>1, <3>2
  <2> QED BY <2>1, <2>2, <2>3, <2>4, <2>5 DEF Mails
<1>3. CASE PublishFails
  <2>1. UNCHANGED <<run, loc>> /\ phase' = "idle"
    BY <1>3 DEF PublishFails, Over
  <2>2. PICK cs \in SUBSET Chosen : sent' = sent \cup Messages(cs)
    BY <1>3 DEF PublishFails
  <2>3. \A l \in Locator : <<"PNR", l>> \in sent' \ sent => l[1] \in {0, run}
    BY <2>1, <2>2, Sending
  <2> QED BY <1>0, <2>1, <2>3 DEF Mails
<1>4. CASE PreflightFails \/ Finish \/ Killed
  BY <1>4 DEF PreflightFails, Finish, Killed, Over, Mails
<1>5. ASSUME NEW c \in Chosen, Works(c) PROVE Mails'
  <2>1. phase = "pool" /\ phase' \in {"pool", "idle"} /\ UNCHANGED <<run, loc, sent>>
    BY <1>5, InPool, Working DEF Over
  <2> QED BY <2>1 DEF Mails, Chosen
<1>6. CASE Preflight \/ Lapse \/ (\E m \in sent : Land(m)) \/ UNCHANGED vars
  BY <1>6 DEF Preflight, Lapse, Land, vars, Mails, Chosen
<1> QED
  BY <1>1, <1>2, <1>3, <1>4, <1>5, <1>6 DEF Next, Program

\* Every step keeps the ledgers of returned campaigns complete.
LEMMA WholeInductive == IInv /\ [Next]_vars => LedgerWhole'
<1> SUFFICES ASSUME IInv, [Next]_vars PROVE LedgerWhole'
  OBVIOUS
<1> USE DEF IInv
<1>1. ASSUME UNCHANGED <<ledgers, exit, sent>> PROVE LedgerWhole'
  BY <1>1 DEF LedgerWhole, Published
<1>2. ASSUME NEW k, Begin(k) PROVE LedgerWhole'
  BY <1>1, <1>2 DEF Begin
<1>3. CASE Publish \/ PublishFails
  <2>1. PICK cs \in SUBSET Chosen : sent' = sent \cup Messages(cs)
    BY <1>3 DEF Publish, PublishFails
  <2>2. UNCHANGED <<run, loc, ledgers>> /\ run \in 1..MaxRuns
    BY <1>3, RunOn DEF Publish, PublishFails
  <2>3. ASSUME NEW r \in 1..MaxRuns, exit'[r] \in {"0", "1", "2"}
        PROVE  r # run /\ exit[r] = exit'[r]
    <3>1. exit[r] \in {"0", "1", "2"} => r # run
      BY <1>3 DEF Publish, PublishFails, Books
    <3>2. CASE Publish
      BY <2>3, <3>1, <3>2 DEF Publish
    <3>3. CASE PublishFails
      BY <2>2, <2>3, <3>3, Stopping DEF Stops
    <3> QED BY <1>3, <3>2, <3>3
  <2>4. ASSUME NEW r \in 1..MaxRuns, r # run PROVE Published(r)' = Published(r)
    <3>1. \A l \in Drawn(r) : l \in Locator /\ l[1] = r
      BY DrawnTyped DEF Drawn
    <3>2. \A l \in Locator : <<"PNR", l>> \in sent' \ sent => l[1] \in {0, run}
      BY <2>1, <2>2, Sending
    <3>3. r # 0 /\ sent \subseteq sent'
      BY <2>1
    <3>4. \A l \in Drawn(r) : <<"PNR", l>> \in sent' <=> <<"PNR", l>> \in sent
      BY <2>4, <3>1, <3>2, <3>3
    <3> QED BY <3>4 DEF Published
  <2> QED BY <2>2, <2>3, <2>4 DEF LedgerWhole
<1>4. ASSUME NEW c \in Chosen, Works(c) PROVE LedgerWhole'
  <2>1. CASE ~Over("raised")
    BY <1>1, <1>4, <2>1, Working
  <2>2. CASE Over("raised")
    <3>1. Stops /\ sent' = sent
      BY <1>4, <2>2, Working DEF Stops
    <3>2. \A r \in 1..MaxRuns : exit'[r] \in {"0", "1", "2"} => exit[r] = exit'[r]
      BY <3>1, Stopping
    <3> QED BY <3>1, <3>2, Stopping DEF LedgerWhole, Published
  <2> QED BY <2>1, <2>2
<1>5. CASE Killed
  <2>1. Stops /\ sent' = sent
    BY <1>5 DEF Stops, Killed
  <2>2. \A r \in 1..MaxRuns : exit'[r] \in {"0", "1", "2"} => exit[r] = exit'[r]
    BY <2>1, Stopping
  <2> QED BY <2>1, <2>2, Stopping DEF LedgerWhole, Published
<1>6. CASE Finish \/ PreflightFails
  <2>1. /\ UNCHANGED <<run, cmd, loc, sent>> /\ run \in 1..MaxRuns /\ phase # "idle"
        /\ \A r \in 1..MaxRuns \ {run} : ledgers'[r] = ledgers[r] /\ exit'[r] = exit[r]
    BY <1>6, Returning
  <2>2. Published(run) = {ledgers'[run].seeded[c].loc : c \in DOMAIN ledgers'[run].seeded}
    <3>1. CASE cmd.all
      <4>1. Published(run) = {loc[c] : c \in Chosen}
        <5>1. \A l \in Drawn(run) : <<"PNR", l>> \in sent => \E c \in Chosen : loc[c] = l
          BY <2>1 DEF Mails
        <5>2. \A c \in Chosen : <<"PNR", loc[c]>> \in sent /\ loc[c] \in Drawn(run)
          BY <1>6, <3>1 DEF Mails, Locs, Finish, PreflightFails
        <5> QED BY <5>1, <5>2 DEF Published
      <4> QED BY <1>6, <3>1, <4>1, Returning
    <3>2. CASE ~cmd.all
      <4>1. ledgers'[run] = NoLedger
        BY <1>6, <2>1, <3>2, Returning DEF Books
      <4>2. DOMAIN NoLedger.seeded = {}
        BY DEF NoLedger
      <4>3. Published(run) = {}
        <5>1. \A c \in Chosen : loc[c] \in Drawn(0)
          BY <3>2 DEF Locs
        <5>2. \A l \in Drawn(run) : l \notin Drawn(0)
          BY <2>1, DrawnApart
        <5> QED BY <2>1, <5>1, <5>2 DEF Mails, Published
      <4> QED BY <4>1, <4>2, <4>3
    <3> QED BY <3>1, <3>2
  <2> QED BY <2>1, <2>2 DEF LedgerWhole, Published
<1>7. CASE Preflight \/ Lapse \/ (\E m \in sent : Land(m)) \/ UNCHANGED vars
  BY <1>1, <1>7 DEF Preflight, Lapse, Land, vars
<1> QED
  BY <1>2, <1>3, <1>4, <1>5, <1>6, <1>7 DEF Next, Program

\* Every step keeps the exit code of an idle campaign true.
LEMMA ExitInductive == IInv /\ [Next]_vars => ExitTells'
<1> SUFFICES ASSUME IInv, [Next]_vars PROVE ExitTells'
  OBVIOUS
<1> USE DEF IInv
<1>1. ASSUME phase' # "idle" PROVE ExitTells'
  BY <1>1 DEF ExitTells
<1>2. ASSUME UNCHANGED <<run, cmd, loc, gate, exit, traces, phase>> PROVE ExitTells'
  BY <1>2 DEF ExitTells, Chosen, Good
<1>3. ASSUME Stops PROVE ExitTells'
  <2>1. exit'[run'] \in {"raised", "killed"}
    BY <1>3, Stopping
  <2> QED BY <2>1 DEF ExitTells
<1>4. ASSUME NEW c \in Chosen, Works(c) PROVE ExitTells'
  <2>1. CASE Over("raised")
    BY <1>3, <1>4, <2>1 DEF Stops
  <2>2. CASE ~Over("raised")
    BY <1>1, <1>4, <2>2, InPool, Working
  <2> QED BY <2>1, <2>2
<1>5. CASE Finish
  <2>1. /\ UNCHANGED <<run, cmd, loc, gate, traces>> /\ exit'[run] = ExitCode(gate)
        /\ Chosen' = Chosen
    BY <1>5, Returning DEF Chosen
  <2>2. \A c \in Chosen : step[c] = "done"
    BY <1>5 DEF Finish, Through
  <2>3. \A c \in Chosen : gate[c] \in Good => traces[loc[c]] = <<run>>
    BY <2>2 DEF Gates, Good
  <2>4. Good' = Good
    BY <2>1 DEF Good
  <2>5. exit'[run] = "0" => \E c \in Chosen : gate[c] \in Good
    BY <2>1 DEF ExitCode
  <2>6. exit'[run] # "0" => exit'[run] = "1" /\ \A c \in Chosen : gate[c] \notin Good
    BY <2>1 DEF ExitCode
  <2> QED BY <2>1, <2>3, <2>4, <2>5, <2>6 DEF ExitTells
<1>6. CASE PreflightFails
  <2>1. ~Finish /\ cmd.all
    BY <1>6 DEF PreflightFails, Finish, Shape
  <2>2. UNCHANGED <<run, loc, traces>> /\ exit'[run] = "2" /\ Chosen' = Chosen
    BY <1>6, <2>1, Returning DEF Chosen
  <2>3. \A c \in Chosen : traces[loc[c]] = <<>>
    BY <1>6, <2>1 DEF PreflightFails, Pins
  <2> QED BY <2>2, <2>3 DEF ExitTells
<1>7. CASE PublishFails \/ Killed
  BY <1>3, <1>7 DEF Stops
<1>8. CASE Publish \/ Preflight \/ (\E k : Begin(k))
  BY <1>1, <1>8 DEF Publish, AfterPublish, Preflight, Begin
<1>9. CASE Lapse \/ (\E m \in sent : Land(m)) \/ UNCHANGED vars
  BY <1>2, <1>9 DEF Lapse, Land, vars
<1> QED
  BY <1>4, <1>5, <1>6, <1>7, <1>8, <1>9 DEF Next, Program

-----------------------------------------------------------------------------
(* The theorems.                                                             *)

\* The start satisfies the inductive invariant.
LEMMA Starting == Init => IInv
<1> SUFFICES ASSUME Init PROVE IInv
  OBVIOUS
<1>1. Chosen = {} /\ run = 0 /\ phase = "idle" /\ run \notin 1..MaxRuns
  BY DEF Init, Chosen
<1>2. TypeOK
  <2>1. traces \in [Locator -> Seq(1..run)]
    BY EmptySeq DEF Init
  <2>2. loc \in [Chosen -> Locator]
    BY <1>1 DEF Init
  <2>3. \A r \in 1..MaxRuns : DOMAIN ledgers[r].seeded \subseteq Case
    BY DEF Init, NoLedger
  <2>4. 1 \in 1..MaxRuns /\ 0 \in 0..MaxRuns
    BY SeedAssumption
  <2> QED BY <1>1, <2>1, <2>2, <2>3, <2>4 DEF Init, TypeOK, Off, Step, Gate, Topic
<1>3. Shape
  BY <1>1 DEF Init, Shape, Off
<1>4. Locs /\ Trips /\ Gates
  BY <1>1 DEF Locs, Trips, Gates, Busy
<1>5. Pins
  BY <1>1 DEF Init, Pins, OneTrace
<1>6. Books /\ LedgerTruthful /\ LedgerWhole /\ ExitTells /\ Mails
  <2>1. DOMAIN NoLedger.seeded = {}
    BY DEF NoLedger
  <2>2. \A r \in 1..MaxRuns : ledgers[r] = NoLedger /\ exit[r] = "none"
    BY DEF Init
  <2>3. sent = {} /\ run = 0 /\ phase = "idle"
    BY DEF Init
  <2> QED BY <2>1, <2>2, <2>3 DEF Books, LedgerTruthful, LedgerWhole, ExitTells, Mails
<1> QED BY <1>2, <1>3, <1>4, <1>5, <1>6 DEF IInv

\* The inductive invariant holds of every behaviour.
LEMMA Invariance == Spec => []IInv
<1>1. IInv /\ [Next]_vars => IInv'
  <2> SUFFICES ASSUME IInv, [Next]_vars PROVE IInv'
    OBVIOUS
  <2>1. TypeOK' /\ Shape' /\ Locs'
    BY TypeInductive, ShapeInductive, LocsInductive DEF IInv
  <2>2. Pins' /\ Trips' /\ Gates'
    BY PinsInductive, TripsInductive, GatesInductive DEF IInv
  <2>3. Books' /\ Mails'
    BY BooksInductive, MailsInductive DEF IInv
  <2>4. LedgerTruthful' /\ LedgerWhole' /\ ExitTells'
    BY TruthInductive, WholeInductive, ExitInductive
  <2> QED BY <2>1, <2>2, <2>3, <2>4 DEF IInv
<1> QED BY <1>1, Starting, PTL DEF Spec

\* Every variable of a campaign has its type: gates are those the report knows,
\* and only the runs so far have left pins and checkpoint files.
THEOREM TypeCorrect == Spec => []TypeOK
<1>1. IInv => TypeOK
  BY DEF IInv
<1> QED BY <1>1, Invariance, PTL

\* seed/dds_pin.py:324-350: whatever fails between the two statements of a pin,
\* falls back or runs at the same time, no booking ever has two determinations.
THEOREM OneTraceHolds == Spec => []OneTrace
<1>1. IInv => OneTrace
  BY DEF IInv, Pins
<1> QED BY <1>1, Invariance, PTL

\* seed/cli.py:261-319: what a seed-mapping.json says of a booking stays so: no
\* failure while it was pinned and no later campaign makes its gate untrue.
THEOREM LedgersTruthful == Spec => []LedgerTruthful
<1>1. IInv => LedgerTruthful
  BY DEF IInv
<1> QED BY <1>1, Invariance, PTL

\* seed/cli.py:289-319: a campaign that returns has every booking it published
\* in its ledger, and its exit code tells what became of them.
THEOREM ReturnTellsHolds == Spec => []ReturnTells
<1>1. IInv => ReturnTells
  BY DEF IInv, ReturnTells
<1> QED BY <1>1, Invariance, PTL
=============================================================================
