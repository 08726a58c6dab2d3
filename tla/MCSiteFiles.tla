---------------------------- MODULE MCSiteFiles ----------------------------
(* A small instance of a site's way from its row to nginx. *)
EXTENDS SiteFiles

ThreeNames == {"a", "b", "*"}
AnyWild == {"*"}
OneOrTwo == {{"a"}, {"a", "b"}, {"*"}}
OwnCertificate == {[names |-> {"a"}, life |-> "fresh", src |-> "upload"]}
=============================================================================
