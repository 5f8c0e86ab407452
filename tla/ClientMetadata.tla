---------------------------- MODULE ClientMetadata -----------------------------
(***************************************************************************)
(* What a client may declare about itself, and which redirect URIs it may  *)
(* then use: the checks shared by metadata documents (CIMD) and dynamic    *)
(* registration (DCR), and the port tolerance for addresses of this        *)
(* machine.                                                                *)
(*                                                                         *)
(* A URI is a record [scheme, user, host, port, path, rest] of what        *)
(* url.Parse makes of it: `user` is the user information, `path` the       *)
(* decoded path and the query, `rest` what else tells two spellings apart  *)
(* (escapes in the path, a fragment); "" is a part the URI does not have.  *)
(* A document is a record [id, redirects, auth, grants, responses] of      *)
(* which the lists are sets: their order is never looked at.               *)
(***************************************************************************)

CONSTANTS
    LocalhostSpelling,  \* the hosts that are "localhost" but for case (strings.EqualFold)
    LoopbackIP          \* the hosts net.ParseIP(host).IsLoopback() holds of: 127/8, ::1, ...

ASSUME HostAssumption ==
    /\ "localhost" \in LocalhostSpelling
    /\ {"127.0.0.1", "::1"} \subseteq LoopbackIP
    /\ LocalhostSpelling \cap LoopbackIP = {}

IsDocument(doc) ==
    doc = [id |-> doc.id, redirects |-> doc.redirects, auth |-> doc.auth,
           grants |-> doc.grants, responses |-> doc.responses]

SupportedGrants == {"authorization_code", "refresh_token"}
SupportedResponses == {"code"}
SupportedAuth == {"none", "client_secret_basic", "client_secret_post"}

Loopback == {"localhost", "127.0.0.1", "::1"}

\* ValidateRedirectURI: https, an application's own scheme, or http to this machine, which
\* must be spelled exactly so.
ValidRedirect(uri) ==
    /\ uri.scheme \notin {"", "javascript", "data", "file", "vbscript"}
    /\ uri.scheme = "http" => uri.host \in Loopback

OrDefault(declared, default) == IF declared = {} THEN {default} ELSE declared
Grants(doc) == OrDefault(doc.grants, "authorization_code")
Responses(doc) == OrDefault(doc.responses, "code")

-----------------------------------------------------------------------------
(* Metadata documents.                                                     *)

ValidClientIDURL(url) ==
    /\ url.scheme = "https" /\ url.host # "" /\ url.user = ""
    /\ url.port \in {"", "443"}

\* The classes of address a client ID may not lead to.
NonPublic ==
    {"invalid", "loopback", "private", "link-local", "multicast", "unspecified", "cgnat",
     "protocol-assignment", "test-net", "benchmark", "reserved", "ipv6-documentation",
     "nat64", "discard"}

\* Faulty variant of Narrowed: the defaults are applied after narrowing, so a client that
\* declares only unsupported grants ends up with one it never asked for.
NarrowedDefaultsLast(doc) ==
    [doc EXCEPT !.grants = OrDefault(doc.grants \cap SupportedGrants, "authorization_code"),
                !.responses = Responses(doc) \cap SupportedResponses]

\* Only what this server supports is kept, ...
Narrowed(doc) ==
    [doc EXCEPT !.grants = Grants(doc) \cap SupportedGrants,
                !.responses = Responses(doc) \cap SupportedResponses]

\* ... of which something must remain.
ValidDocument(url, doc) ==
    /\ doc.id = url
    /\ doc.redirects # {} /\ \A uri \in doc.redirects : ValidRedirect(uri)
    /\ doc.auth \in {"", "none"}
    /\ Narrowed(doc).grants # {} /\ Narrowed(doc).responses # {}

-----------------------------------------------------------------------------
(* Dynamic registration, which refuses what it does not support.           *)

ValidRegistration(doc) ==
    /\ doc.redirects # {} /\ \A uri \in doc.redirects : ValidRedirect(uri)
    /\ doc.auth \in SupportedAuth \cup {""}
    /\ Grants(doc) \subseteq SupportedGrants
    /\ Responses(doc) \subseteq SupportedResponses

\* An absent authentication method means a secret is issued.
Registered(doc) ==
    [doc EXCEPT !.auth = IF @ = "" THEN "client_secret_basic" ELSE @,
                !.grants = Grants(doc), !.responses = Responses(doc)]

-----------------------------------------------------------------------------
(* Redirect URIs at the authorize endpoint.                                *)

\* Faulty variant of MatchesLoopbackHostPort: the path is not compared.
MatchesLoopbackHost(registered, requested) ==
    /\ registered.scheme = "http" /\ requested.scheme = "http"
    /\ {registered.host, requested.host} \subseteq LocalhostSpelling

\* The host's case is ignored; port, user information and `rest` are not compared.
MatchesLoopbackHostPort(registered, requested) ==
    /\ registered.scheme = "http" /\ requested.scheme = "http"
    /\ {registered.host, requested.host} \subseteq LocalhostSpelling
    /\ registered.path = requested.path

ExpandLoopbackRedirects(registered, requested) ==
    IF \E r \in registered : MatchesLoopbackHostPort(r, requested)
    THEN registered \cup {requested} ELSE registered

\* fosite's own rule: an exact match, or plain HTTP to a loopback address that is listed
\* with the same path, on any port; the scheme it is listed with is not looked at.
FositeMatches(registered, requested) ==
    \/ requested \in registered
    \/ /\ requested.scheme = "http" /\ requested.host \in LoopbackIP
       /\ \E r \in registered : r.host = requested.host /\ r.path = requested.path

\* GetClient adds the requested URI to the list fosite compares it with.
AcceptsRedirect(client, requested) ==
    FositeMatches(ExpandLoopbackRedirects(client.redirects, requested), requested)

=============================================================================
