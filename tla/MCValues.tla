------------------------------ MODULE MCValues ------------------------------
(***************************************************************************)
(* A small instance of Values for TLC: an int of three bits, integers one  *)
(* beyond it on both sides, days inside and outside of month and calendar. *)
(***************************************************************************)
EXTENDS Values

SomeIntegers == {-5, -4, 0, 1, 3, 4}
SomeReals == {0, 1, 4, 6}

\* Of a year of one digit: a day that reads as another one, one that reads as
\* none and would, is none and does; of later years, days that are and are not.
SomeDays ==
  {<<1, 12, 31>>, <<13, 1, 1>>, <<2, 2, 99>>, <<2024, 2, 29>>, <<101, 2, 29>>,
   <<101, 13, 1>>}

=============================================================================
