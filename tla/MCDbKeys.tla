----------------------------- MODULE MCDbKeys -----------------------------
(* FNVHash64(v) % n for the sizes the runs use. *)
EXTENDS DbKeys

FnvRows ==
  << <<0>>, <<1, 0>>, <<1, 0, 0>>, <<1, 0, 3, 2>>, <<0, 1, 3, 4, 4>>, <<1, 0, 3, 2, 3, 2>>,
     <<5, 1, 6, 2, 3, 6, 4>>, <<5, 4, 7, 6, 1, 0, 3, 2>>, <<7, 3, 6, 2, 0, 5, 8, 4, 5>> >>

FnvTable == [n \in 1 .. 9 |-> [v \in 0 .. n - 1 |-> FnvRows[n][v + 1]]]

OneDigit == [k \in 0 .. 9 |-> 1]

SomeMixes ==
  {{}, {"INSERT"}, {"READ", "INSERT"},
   {"UPDATE", "SCAN", "READMODIFYWRITE"}}
=============================================================================
