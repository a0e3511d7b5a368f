------------------------------- MODULE Users --------------------------------
(***************************************************************************)
(* Users and their scopes (user/basic.go, user/marshal.go,                 *)
(* token/claim.go).                                                        *)
(*                                                                         *)
(* The value of a claim is a sequence of texts.  A text is the sequence of *)
(* the grants, one at least, that the separator, a comma, joins in it; a   *)
(* grant is a scope, the sequence of its groups, and a level, which is     *)
(* None when the grant has no ":".  What still holds a separator is        *)
(* written "comma".                                                        *)
(***************************************************************************)
EXTENDS Naturals, Sequences, SequencesExt

CONSTANT None       \* nil, ""

\* A user: the claims, the names of the claim with its scopes, and the levels
\* of every scope, or None before parseScopes.
User(claims, names, scopes) == [claims |-> claims, names |-> names, scopes |-> scopes]

NoUser == User(<<>>, <<>>, None)

ScopeNames == <<"scope", "rights", "action">>

\* The first of the names that has a claim.
Claim(u, names) ==
    LET i == SelectInSeq(names, LAMBDA n : n \in DOMAIN u.claims)
    IN  IF i = 0 THEN <<>> ELSE u.claims[names[i]]

\* strings.Cut of a text at its first ":".
CutScope(text) ==
    IF text[1].level = None /\ Len(text) > 1 THEN Append(Front(text[1].scope), "comma")
    ELSE text[1].scope
CutLevel(text) == IF Len(text) > 1 THEN "comma" ELSE text[1].level

\* A mutated split that takes every text as it is.
SplitNot(texts) == texts

\* A single text is split at its separators; several are taken as they are.
Split(texts) ==
    IF Len(texts) = 1 THEN [j \in DOMAIN texts[1] |-> <<texts[1][j]>>] ELSE texts

\* A user with scopes is left alone.
parseScopes(u) ==
    LET texts == Split(Claim(u, u.names)) IN
    IF u.scopes # None THEN u
    ELSE [u EXCEPT !.scopes =
            [s \in {CutScope(t) : t \in Range(texts)} |->
                {CutLevel(t) : t \in {x \in Range(texts) : CutScope(x) = s}}]]

New(claims, names) == parseScopes(User(claims, names, None))

\* An id or a scope replaces the claim of that name.
NewIdentity(id, scope, claims, names) ==
    LET given == (IF id = None THEN {} ELSE {"sub"}) \cup (IF scope = <<>> THEN {} ELSE {"scope"})
    IN  New([n \in DOMAIN claims \cup given |->
                IF n \notin given THEN claims[n] ELSE IF n = "sub" THEN id ELSE scope],
            names)

\* The names and the scopes of the user it is called on are kept.
UnmarshalJSON(u, claims) == parseScopes([u EXCEPT !.claims = claims])

MarshalJSON(u) == u.claims

HasScope(u, name) == name \in DOMAIN u.scopes
HasScopeLevel(u, name, level) == HasScope(u, name) /\ level \in u.scopes[name]
HasScopeGroup(u, name) == \E s \in DOMAIN u.scopes : s = name \/ IsStrictPrefix(name, s)
=============================================================================
