------------------------------- MODULE Totals -------------------------------
(***************************************************************************)
(* SQL's SUM over a column.  A column is a function from row ids to        *)
(* integers.  Its units are the pairs <<i, 1>> .. <<i, column[i]>> of each *)
(* row i above zero: for seats, the tickets themselves.  The total is the  *)
(* units of the column less the units of its opposite.  Counting instead   *)
(* of folding keeps the totals within reach of the prover, which cannot do *)
(* induction over rows.                                                    *)
(***************************************************************************)
EXTENDS Integers, FiniteSets

Units(column) == UNION {{i} \X (1..column[i]) : i \in DOMAIN column}

Count(column) == Cardinality(Units(column))

Opposite(column) == [i \in DOMAIN column |-> -column[i]]

\* prisma's aggregate({ _sum }), with the "|| 0" its callers add for no rows.
Total(column) == Count(column) - Count(Opposite(column))

=============================================================================
