---------------------------- MODULE MCBaseRecord ----------------------------
(***************************************************************************)
(* Small instances of BaseRecord for TLC.                                  *)
(***************************************************************************)
EXTENDS BaseRecordImplements, TLC

CONSTANTS r1, r2, dob, age, typo, w1

DateOnly    == [c \in {dob} |-> "DATE"]
AgeAndDate  == [c \in {age, dob} |-> IF c = dob THEN "DATE" ELSE "INTEGER"]

Symmetry == Permutations(Records) \cup Permutations(Words)

=============================================================================
