--------------------------- MODULE MCWSFederation ---------------------------
(* Instances of WSFederation for TLC.                                       *)
EXTENDS WSFederation

Version(certs, iss, role) == [certs |-> certs, issuer |-> iss, role |-> role]

\* The provider replaces one of its two certificates and changes its name.
Rotation == <<Version(<<"k1", "k2">>, "i1", TRUE), Version(<<"k2", "k3">>, "i2", TRUE)>>

Token(cert, iss, nbf, exp) ==
    [malformed |-> "no", cert |-> cert, issuer |-> iss, aud |-> {"app"}, iat |-> 4,
     nbf |-> nbf, exp |-> exp]

\* Now is 5 and the skew 1: good tokens of both versions at the edges of their
\* time, another issuer, too early, too late, an unknown certificate, no
\* signature, and one whose claims are malformed.
MCTokens ==
    {Token("k1", "i1", 5, 6), Token("k3", "i2", 6, 5), Token("k2", "other", 5, 6),
     Token("k2", "i1", 7, 8), Token("k2", "i2", 4, 4), Token("k0", "i1", 5, 6),
     Token(None, "i1", 5, 6),
     [Token("k2", "i2", 5, 6) EXCEPT !.malformed = "late"]}
=============================================================================
