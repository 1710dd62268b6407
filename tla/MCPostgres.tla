----------------------------- MODULE MCPostgres -----------------------------
(* Two writers on three records, two of them of one locator, over two       *)
(* retirement days.                                                         *)
EXTENDS Postgres, TLC

CONSTANTS a, b, c

mcLocOf == a :> "A" @@ b :> "B" @@ c :> "B"

Symm == Permutations(Writers) \cup Permutations({b, c})
=============================================================================
