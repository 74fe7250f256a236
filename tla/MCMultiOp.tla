------------------------------- MODULE MCMultiOp -------------------------------
EXTENDS MultiOp, TLC

(* Every sequence of at most two operations whose paths are valid, and the     *)
(* ways in which a call of at most two can be refused.                         *)
MCRequests ==
  LET good == [kind : Kinds \ {"other"}, path : {"valid"}]
      bad  == [kind : {"set"}, path : {"invalid"}] \cup [kind : {"other"}, path : {"valid"}]
      some == [kind : {"create"}, path : {"valid"}]
  IN  BoundedSeq(good, 2) \cup BoundedSeq(bad \cup some, 2)

Symmetric == Permutations(Calls)
================================================================================
