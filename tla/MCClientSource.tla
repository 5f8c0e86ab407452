---------------------------- MODULE MCClientSource -----------------------------
(***************************************************************************)
(* Values for TLC: one URL that can be resolved, one that can in two ways, *)
(* one that never can; pages with one thing wrong each; registrations.     *)
(***************************************************************************)
EXTENDS ClientSource

CONSTANTS h1, h2

Uri(scheme, host, port, path) ==
    [scheme |-> scheme, user |-> "", host |-> host, port |-> port,
     path |-> path, rest |-> ""]
Site(host) == Uri("https", host, "", "/client.json")

MCHandler == {h1, h2}
OtherPort == [Site("c") EXCEPT !.port = "8443"]
MCUrl == {Site("a"), Site("b"), OtherPort}

Web == Uri("https", "app", "", "/cb")
Local == Uri("http", "localhost", "", "/cb")
LocalPort == Uri("http", "localhost", "5000", "/cb")
LocalOther == Uri("http", "localhost", "5000", "/other")
Literal == Uri("http", "127.0.0.1", "", "/cb")
LiteralPort == Uri("http", "127.0.0.1", "5000", "/cb")
LiteralTls == Uri("https", "127.0.0.1", "", "/cb")
LiteralOther == Uri("https", "127.0.0.2", "", "/cb")
LiteralOtherPort == Uri("http", "127.0.0.2", "5000", "/cb")
Capitals == Uri("http", "LOCALHOST", "5000", "/cb")
App == Uri("com.example.app", "", "", "/cb")
Plain == Uri("http", "app", "", "/cb")

Doc(id, redirects, grants) ==
    [id |-> id, redirects |-> redirects, auth |-> "", grants |-> grants, responses |-> {}]
Ok(doc) == [addr |-> "public", status |-> 200, size |-> 1, doc |-> doc]

Good == Doc(Site("a"), {Web, Local, Literal}, {})

MCPage ==
    { Ok(Good),
      Ok(Doc(Site("b"), {App}, {"authorization_code", "jwt-bearer"})),
      Ok(Doc(Site("b"), {LocalPort, LocalOther, LiteralTls, LiteralOther}, {})),
      Ok(Doc(OtherPort, {Web}, {})),
      Ok([Good EXCEPT !.grants = {"jwt-bearer"}, !.redirects = {Web}]),
      Ok([Good EXCEPT !.auth = "client_secret_basic"]),
      Ok([Good EXCEPT !.responses = {"token"}, !.redirects = {Web}]),
      Ok([Good EXCEPT !.redirects = {}]),
      Ok([Good EXCEPT !.redirects = {Plain}]),
      [Ok(Good) EXCEPT !.addr = "cgnat"],
      [Ok(Good) EXCEPT !.status = 302],
      [Ok(Good) EXCEPT !.size = 3] }

\* One that is accepted, and two that ask for more than there is.  A generated ID is a
\* string without a scheme.
Generated(n) == Uri("", "", "", n)
MCApplication ==
    { Doc(Generated("1"), {LocalPort, LiteralPort, App}, {"authorization_code", "refresh_token"}),
      Doc(Generated("2"), {Web}, {"authorization_code", "jwt-bearer"}),
      Doc(Generated("3"), {Web, Plain}, {}) }

\* Declared ones, and others that differ in one part from a declared one.
MCRedirect ==
    { Web, Local, LocalPort, LocalOther, Literal, LiteralPort, LiteralTls, LiteralOtherPort,
      Capitals, App, Plain,
      [LocalPort EXCEPT !.user = "me"], [LocalPort EXCEPT !.rest = "%63b"],
      [Local EXCEPT !.scheme = "https"], [LiteralPort EXCEPT !.path = "/other"],
      [LocalPort EXCEPT !.host = "app"], [LocalPort EXCEPT !.host = "www.localhost"],
      [Web EXCEPT !.port = "8443"], [Capitals EXCEPT !.path = "/other"] }

=============================================================================
