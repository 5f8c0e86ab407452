------------------------------ MODULE OidcPolicy -------------------------------
(***************************************************************************)
(* The allow-list of the OIDC login: which of the accounts the provider    *)
(* vouches for is the operator's.                                          *)
(*                                                                         *)
(* A glob is the set of the strings it matches.  The value of an attribute *)
(* is the set of its strings: one, several for an array, none when the     *)
(* response lacks it or holds something else.                              *)
(***************************************************************************)
CONSTANTS
    EmptyPattern,   \* the pattern a stray comma leaves in a setting
    AttributesOf    \* what the provider says: name |-> (key |-> values)

\* The settings: [users: a set of names, globs: a set of globs,
\*   attributes: key |-> a set of values, attributeGlobs: key |-> a set of globs].
NoRules == [users |-> {}, globs |-> {},
            attributes |-> [k \in {} |-> {}], attributeGlobs |-> [k \in {} |-> {}]]

\* Empty patterns are dropped; so is an attribute all of whose patterns are empty.
CompileGlobs(patterns) == patterns \ {EmptyPattern}
CompileAttributes(lists) ==
    [k \in {j \in DOMAIN lists : CompileGlobs(lists[j]) # {}} |-> CompileGlobs(lists[k])]

\* What NewOIDCProvider makes of the settings.
Provider(settings) ==
    [settings EXCEPT !.globs = CompileGlobs(@), !.attributeGlobs = CompileAttributes(@)]

\* Without a rule no provider is built, and the gateway does not start.
HasAllowRule(p) ==
    \/ p.users # {} \/ p.globs # {} \/ DOMAIN p.attributeGlobs # {}
    \/ \E k \in DOMAIN p.attributes : p.attributes[k] # {}

Attribute(name, key) ==
    IF key \in DOMAIN AttributesOf[name] THEN AttributesOf[name][key] ELSE {}

\* Faulty variant of IsAllowed: every attribute rule has to match, and none will do.
IsAllowedByAll(p, name) ==
    \/ name \in p.users
    \/ \E g \in p.globs : name \in g
    \/ \A k \in DOMAIN p.attributes : Attribute(name, k) \cap p.attributes[k] # {}
    \/ \E k \in DOMAIN p.attributeGlobs :
         \E g \in p.attributeGlobs[k] : Attribute(name, k) \cap g # {}

IsAllowed(p, name) ==
    \/ name \in p.users
    \/ \E g \in p.globs : name \in g
    \/ \E k \in DOMAIN p.attributes : Attribute(name, k) \cap p.attributes[k] # {}
    \/ \E k \in DOMAIN p.attributeGlobs :
         \E g \in p.attributeGlobs[k] : Attribute(name, k) \cap g # {}
================================================================================
