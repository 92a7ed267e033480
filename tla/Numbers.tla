------------------------------- MODULE Numbers -------------------------------
(***************************************************************************)
(* What the tables share: their heights, rows of columns from several      *)
(* parts, and how a constraint puts a number together from bits or limbs.  *)
(***************************************************************************)
EXTENDS Integers, FiniteSetsExt

\* Number of rows of a table with n real ones: a power of two, at least 4.
NumRows(n) == Min({m \in {2 ^ k : k \in 2 .. n + 2} : m >= n})

\* The columns of both parts of a row.
f ++ g == [c \in (DOMAIN f) \cup (DOMAIN g) |-> IF c \in DOMAIN f THEN f[c] ELSE g[c]]

\* The number with digits a[i] .. a[n - 1] in base b, little end first, by i.
Digits(a, b, n) ==
  LET from[i \in 0 .. n] == IF i = n THEN 0 ELSE a[i] + b * from[i + 1]
  IN  from

=============================================================================
