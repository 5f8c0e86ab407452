-------------------------------- MODULE KeyRing --------------------------------
(***************************************************************************)
(* What the key directory promises: one key signs; a key that is replaced  *)
(* goes on verifying; it is given up only when nothing signed with it is   *)
(* accepted any more; and it never comes back.                             *)
(***************************************************************************)
CONSTANT Key

VARIABLES
    active,         \* the signing key, or nothing before the first start
    retiring,       \* keys that verify only
    dropped,        \* keys given up
    outstanding     \* keys a token somebody holds, and /mcp accepts, was signed with

vars == <<active, retiring, dropped, outstanding>>

Init == active = {} /\ retiring = {} /\ dropped = {} /\ outstanding \subseteq Key

\* The first key.  Tokens from before can only be those of a key that is taken over.
Install(k) ==
    /\ active = {} /\ outstanding \subseteq {k}
    /\ active' = {k}
    /\ UNCHANGED <<retiring, dropped, outstanding>>

Rotate(k) ==
    /\ active # {} /\ k \notin active \cup retiring \cup dropped
    /\ active' = {k} /\ retiring' = retiring \cup active
    /\ UNCHANGED <<dropped, outstanding>>

Sign(k) ==
    /\ k \in active
    /\ outstanding' = outstanding \cup {k}
    /\ UNCHANGED <<active, retiring, dropped>>

Expire ==
    /\ outstanding' \subseteq outstanding
    /\ UNCHANGED <<active, retiring, dropped>>

Drop ==
    /\ retiring' \subseteq retiring
    /\ (retiring \ retiring') \cap outstanding = {}
    /\ dropped' = dropped \cup (retiring \ retiring')
    /\ UNCHANGED <<active, outstanding>>

Next ==
    \/ \E k \in Key : Install(k) \/ Rotate(k) \/ Sign(k)
    \/ Expire \/ Drop

Spec == Init /\ [][Next]_vars
================================================================================
