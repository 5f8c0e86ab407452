--------------------------- MODULE MCOperatorAccount ---------------------------
(***************************************************************************)
(* Two requests, two account IDs and two passkeys; a gateway without OIDC, *)
(* one whose allow-list is a stray comma, and one with rules on a group,   *)
(* the last two with bbolt.                                                *)
(***************************************************************************)
EXTENDS OperatorAccount, TLC

CONSTANTS alice, bob

MCAttributesOf == alice :> ("group" :> {"admins", "staff"}) @@ bob :> ("group" :> {"staff"})
Blank == [NoRules EXCEPT !.globs = {EmptyPattern}]
ByGroup == [NoRules EXCEPT
              !.globs = {EmptyPattern},
              !.attributeGlobs = "group" :> {EmptyPattern, {"admins"}}]

MCDeployment ==
    [backend : {"kvs", "sql"}, hashed : BOOLEAN, settings : {NoRules}]
      \cup [backend : {"kvs"}, hashed : BOOLEAN, settings : {Blank, ByGroup}]
Symmetry == Permutations(Request) \cup Permutations(Passkey)
================================================================================
