------------------------------ MODULE MCWorkOrder ------------------------------
EXTENDS WorkOrder

MCNumeral == ("400" :> 400) @@ ("400.00" :> 400) @@ ("1000" :> 1000)

\* flight disruption, standards of care, booking change
MCFeeds ==
  {[docs |-> <<"doc">>, dataset |-> TRUE], [docs |-> <<"doc">>, dataset |-> FALSE],
   [docs |-> <<"doc", "vol">>, dataset |-> FALSE]}

Id(name, sep) == [name |-> name, sep |-> sep]
Code(class, n) == [class |-> class, n |-> n]
Says == [words |-> "w", blanks |-> 0]
Cells(route, code, amount) == [pnr |-> "P", route |-> route, code |-> code, amount |-> amount, tp |-> ""]

Card(id, code, grid) ==
  [id |-> id, arch |-> "", out |-> "", code |-> code, title |-> "Delay",
   vector |-> {[id |-> "GLOB-01", state |-> "asserted"]}, says |-> Says, grid |-> grid]

MCBaseDocs ==
  ("doc" :> [spine |-> {"GLOB-01"},
             cards |-> <<Card(Id("B", "_"), Code("NE", 1), NoGrid),
                         Card(Id("A", "_"), Code("EL", 1), Cells(<<"YYZ", "LHR">>, Code("EL", 400), "400"))>>])
  @@ ("vol" :> [spine |-> {"GLOB-01"}, cards |-> <<Card(Id("V", "_"), Code("PE", 1), NoGrid)>>])

\* the row of A is found by its id, that of B by its code
MCBaseRows == <<[id |-> Id("A", "-"), cells |-> Cells(<<"YYZ", "LHR">>, Code("EL", 400), "400")],
                [id |-> Id("X", "-"), cells |-> Cells(<<>>, Code("NE", 1), "")]>>

MCCardEdit ==
  [arch |-> {"", "thirdparty"}, out |-> {"", "PENDING"}, code |-> {Code("EL", 1), Code("NE", 1)},
   title |-> {"Delay", "Delay 9+"}, grid |-> {NoGrid},
   says |-> {[words |-> "w", blanks |-> 1]},
   vector |-> {{[id |-> "GLOB-01", state |-> "missing"]}}]

MCCellEdit == [pnr |-> {""}, amount |-> {"400.00", "1000"}, tp |-> {"", "yes"}]

\* A may also come back as it was edited
MCNewCards == {Card(Id("A", "_"), Code("EL", 1), Cells(<<"YYZ", "LHR">>, Code("EL", 400), "1000")),
               Card(Id("A", "-"), Code("DB", 1), Cells(<<"LHR", "YYZ">>, Code("ND", 1), "tbd")),
               Card(Id("C", "_"), Code("EL", 1), Cells(<<"CDG", "YYZ">>, NoCode, "1000"))}
=============================================================================
