----------------------------- MODULE MCTokenGrants -----------------------------
(* Small instances of TokenGrants for TLC. *)
EXTENDS TokenGrants, TLC

MCClientOf1 == [g \in Grant |-> CHOOSE c \in Client : TRUE]
Perms == Permutations(Proc)
================================================================================
