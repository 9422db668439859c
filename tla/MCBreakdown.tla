---------------------------- MODULE MCBreakdown ----------------------------
(* A breakdown of two people over four models and two buckets, one of them   *)
(* with cells from 0 to 2, and the range picker over three days of two       *)
(* minutes.  They share no state: the picker moves only before the first     *)
(* response.                                                                 *)
EXTENDS Breakdown, RangePicker

People == <<"p1", "p2">>
Models == <<"m1", "m2", "m3", "m4">>
MCFamily == [m1 |-> "A", m2 |-> "B", m3 |-> "A", m4 |-> "B"]

MCOptionSets == {[p1 |-> Absent, p2 |-> Absent], [p1 |-> 1, p2 |-> Absent], [p1 |-> 1, p2 |-> 0]}

\* costs by cell; a model's tokens are the costs of the next, one of them without price
Row(i, cell) ==
    LET cost(j) == cell[i][j]
        input(j) == cell[i][(j % 4) + 1]
        entry(j) == [key |-> Models[j], cost |-> cost(j), input |-> input(j), output |-> 0]
        costs == cost(1) + cost(2) + cost(3) + cost(4)
    IN  [key |-> People[i], name |-> 3 - i,
         requests |-> IF costs = 1 THEN 0 ELSE costs, failed |-> IF cost(1) = 2 THEN 1 ELSE 0,
         cost |-> IF costs = 0 THEN Absent ELSE costs, input |-> costs, output |-> 0,
         cached |-> cost(3), cachedInInput |-> i = 1,
         previous |-> IF cost(2) = 1 THEN Absent
                      ELSE [cost |-> cost(1), input |-> cost(3), output |-> 0],
         mix |-> [j \in 1..4 |-> entry(j)],
         trend |-> <<[cost |-> cost(1), input |-> input(1), output |-> 0],
                     [cost |-> cost(2) + cost(3) + cost(4),
                      input |-> input(2) + input(3) + input(4), output |-> 0]>>]

\* the other person uses nothing, one model, or all but the first; the panel of
\* models and credentials has the same rows with fewer cells
Rows(A, B) == {<<Row(1, <<a, b>>), Row(2, <<a, b>>)>> : a \in A, b \in B}
MCResponses ==
    {[dim |-> "person", rows |-> r] :
        r \in Rows({<<c, d, e, f>> : c, d \in 0..2, e, f \in {0, 1}},
                   {<<0, 0, 0, 0>>, <<2, 0, 0, 0>>, <<0, 1, 1, 2>>})}
    \cup {[dim |-> d, rows |-> r] :
             d \in {"model", "credential"}, r \in Rows([1..4 -> {0, 1}], {<<2, 0, 0, 0>>})}

PickerMoves == rows = <<>> /\ dim = "person" /\ metric = "cost" /\ slots.p1 = Absent /\ sort = DefaultSort

MCInit == BreakdownInit /\ PickerInit /\ (start # Missing => PickerMoves)

MCNext == \/ PickerInit /\ start = Missing /\ BreakdownNext /\ UNCHANGED pickerVars
          \/ PickerMoves /\ PickerNext /\ UNCHANGED breakdownVars

MCSpec == MCInit /\ [][MCNext]_<<breakdownVars, pickerVars>>
=============================================================================
