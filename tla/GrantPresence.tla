----------------------------- MODULE GrantPresence -----------------------------
(***************************************************************************)
(* What the session store promises about an authorization, whatever the    *)
(* order of the requests: it enters the store once, when its ID is minted; *)
(* a handler that found a record of it may write another one; nothing else *)
(* ever puts it back.                                                      *)
(***************************************************************************)
CONSTANT Grant

VARIABLES
    issued,     \* IDs minted so far
    present,    \* the grants with a record of some kind
    busy        \* the grants a handler holds a loaded record of

vars == <<issued, present, busy>>

Init == issued = {} /\ present = {} /\ busy = {}

Issue(g) ==
    /\ g \notin issued
    /\ issued' = issued \cup {g}
    /\ present' \in {present, present \cup {g}}
    /\ UNCHANGED busy

Load(g) ==
    /\ g \in present
    /\ busy' = busy \cup {g}
    /\ UNCHANGED <<issued, present>>

\* The last write of a handler lets go of the grant.
Write(g) ==
    /\ g \in busy
    /\ present' = present \cup {g}
    /\ busy' \in {busy, busy \ {g}}
    /\ UNCHANGED issued

\* Expiry, revocation, an abandoned handler, a crash.
Shrink ==
    /\ present' \subseteq present /\ busy' \subseteq busy
    /\ UNCHANGED issued

Next ==
    \/ \E g \in Grant : Issue(g) \/ Load(g) \/ Write(g)
    \/ Shrink

Spec == Init /\ [][Next]_vars

\* A grant that has left the store while no handler held it does not come back.
GoneForGood ==
    [][\A g \in issued : g \notin present \cup busy => g \notin present' \cup busy']_vars
================================================================================
