------------------------------ MODULE MCModelPool ------------------------------
(* Instances of the model pool for TLC.                                      *)
EXTENDS ModelPool, TLC

CONSTANTS r1, r2, r3, m1, m2, a, b, c, s1, s2, e1, e2, e3, e4

(* Every id starts out configured, under the first description.              *)
AllConfigured == [i \in Ids |-> s1]

(* c is to be added with /v1/models/load.                                    *)
TwoConfigured == [i \in Ids |-> IF i = c THEN None ELSE s1]

(* Entry objects are interchangeable: no definition names one.               *)
EntrySymmetry == Permutations(Entries)
================================================================================
