---------------------------- MODULE RequestData -----------------------------
(***************************************************************************)
(* What a handler reads from a request (query.go, form.go, params.go,      *)
(* body.go, the paging and the Accept header of request.go), and how the   *)
(* error it gets is answered (errors.go, HandleError of mux.go).           *)
(*                                                                         *)
(* The text of a value is the sequence of the parts that commas join in   *)
(* it.  A part is [is, v]: a number, a word, or nothing.  The Accept       *)
(* header is a sequence of tokens: "comma", "blank", "semicolon" and media *)
(* ranges or anything else.                                                *)
(***************************************************************************)
EXTENDS Integers, Sequences, SequencesExt

CONSTANTS
    None,           \* nil
    Lower,          \* of every name: its lower-case form
    MaxInt          \* the largest int; the smallest is -MaxInt - 1

Wrapped(n) == ((n + MaxInt + 1) % (2 * (MaxInt + 1))) - MaxInt - 1
-----------------------------------------------------------------------------
(* Values: d = [kind, pairs], of the query, a form or the route            *)

Empty == <<[is |-> "nothing", v |-> 0]>>

Number(text) == Len(text) = 1 /\ text[1].is = "number"

\* The first value of the key, which must be spelled as it was sent.
Peek(pairs, key) ==
    LET i == SelectInSeq(pairs, LAMBDA p : p.key = key)
    IN  IF i = 0 THEN Empty ELSE pairs[i].text

Value(d, key) == IF d.kind = "nil" THEN Empty ELSE Peek(d.pairs, key)

\* In a query and a posted form the spelling of the key does not matter and a
\* text is split; in a multipart form neither is so.
SplitValues(pairs, key) ==
    FlattenSeq([i \in DOMAIN pairs |->
        IF Lower[pairs[i].key] # Lower[key] THEN <<>>
        ELSE [j \in DOMAIN pairs[i].text |-> <<pairs[i].text[j]>>]])

Values(d, key) ==
    CASE d.kind = "nil"       -> <<>>
      [] d.kind = "multipart" ->
            LET own == SelectSeq(d.pairs, LAMBDA p : p.key = key)
            IN  [i \in DOMAIN own |-> own[i].text]
      [] OTHER                -> SplitValues(d.pairs, key)

Got(v)  == [value |-> v, error |-> None]
Fail(e) == [value |-> None, error |-> e]

\* Of the query and of forms: nothing is an error.
String(d, key) ==
    IF Value(d, key) = Empty THEN Fail("required") ELSE Got(Value(d, key))

StringOptional(d, key) == IF Value(d, key) = Empty THEN None ELSE Value(d, key)

ParseInt(text) ==
    IF Number(text) /\ text[1].v \in (-MaxInt - 1)..MaxInt THEN Got(text[1].v)
    ELSE Fail("numeric")

\* Int is Int64, as int has 64 bits.
Int64(d, key) ==
    LET s == String(d, key) IN IF s.error # None THEN s ELSE ParseInt(s.value)

\* A route parameter that is missing is 0.
ParamsInt64(d, key) ==
    IF Value(d, key) = Empty THEN Got(0) ELSE ParseInt(Value(d, key))

Int64Optional(d, key) ==
    IF StringOptional(d, key) = None THEN Got(None) ELSE ParseInt(StringOptional(d, key))

ParseBoolValue(text) ==
    text \in {<<[is |-> "word", v |-> "true"]>>, <<[is |-> "number", v |-> 1]>>}

Bool(d, key) ==
    LET s == String(d, key)
    IN  IF s.error # None THEN s ELSE Got(ParseBoolValue(s.value))

BoolOptional(d, key) ==
    Got(IF StringOptional(d, key) = None THEN None
        ELSE ParseBoolValue(StringOptional(d, key)))

\* BodyCtx.JSON and XML: a body without content, one that cannot be decoded,
\* and, of JSON, one that Validate refuses.
Body(body, media) ==
    CASE body = "nothing"   -> Fail("required")
      [] body = "malformed" -> Fail("malformed")
      [] body = "invalid" /\ media = "json" -> Fail("validation")
      [] OTHER              -> Got(body)
-----------------------------------------------------------------------------
(* Paging                                                                  *)

\* The value SetMaxPageSize stores; 0 stands for the configured one.
SetMaxPageSize(n, conf) == IF n <= 0 THEN conf.max ELSE n

MaxPageSize(stored, conf) == IF stored = None THEN conf.max ELSE stored

\* A mutated choice that limits only what the query asks for.
PageSizeAsked(d, stored, conf) ==
    LET size == Int64(d, "per_page")
    IN  IF size.error # None \/ size.value <= 0 THEN conf.size
        ELSE IF size.value > MaxPageSize(stored, conf) THEN MaxPageSize(stored, conf)
        ELSE size.value

PageSize(d, stored, conf) ==
    LET asked == Int64(d, "per_page")
        size == IF asked.error # None \/ asked.value <= 0 THEN conf.size ELSE asked.value
    IN  IF size > MaxPageSize(stored, conf) THEN MaxPageSize(stored, conf) ELSE size

Page(d) ==
    LET page == Int64(d, "page")
    IN  IF page.error # None \/ page.value <= 0 THEN 1 ELSE page.value

Paging(d, stored, conf) ==
    [total |-> Wrapped(Page(d) * PageSize(d, stored, conf)),
     size |-> PageSize(d, stored, conf), page |-> Page(d)]
-----------------------------------------------------------------------------
(* The Accept header                                                       *)

\* The texts between commas.
Parts(h) ==
    LET cuts == {0, Len(h) + 1} \cup {i \in DOMAIN h : h[i] = "comma"}
    IN  {SubSeq(h, c[1] + 1, c[2] - 1) : c \in {p \in cuts \X cuts :
            p[1] < p[2] /\ cuts \cap (p[1] + 1)..(p[2] - 1) = {}}}

Trim(s) ==
    LET full == {i \in DOMAIN s : s[i] # "blank"}
    IN  IF full = {} THEN <<>> ELSE SubSeq(s, Min(full), Max(full))

\* Without its priority.
MediaRange(part) ==
    LET f == SelectInSeq(part, LAMBDA t : t = "semicolon")
    IN  Trim(IF f = 0 THEN part ELSE SubSeq(part, 1, f - 1))

Accepts(h, type) ==
    h = <<>> \/ \E p \in Parts(h) : MediaRange(p) \in {<<type>>, <<"app/*">>, <<"*/*">>}

\* A mutated check that takes a header which allows everything as explicit.
AcceptsAnything(h, type) == Accepts(h, type)

AcceptsExplicit(h, type) == \E p \in Parts(h) : MediaRange(p) \in {<<type>>, <<"app/*">>}
-----------------------------------------------------------------------------
(* Errors: [error, wrapped, marshals]: which one, whether the handler has  *)
(* wrapped it, and the media types MarshalError offers, if any             *)

StatusCode(e) ==
    CASE e.error \in {"required", "malformed"}  -> 400
      [] e.error \in {"numeric", "validation"}  -> 422
      [] OTHER                                  -> 500

\* SafeError, unlike the other interfaces, is not looked for inside a wrapped
\* error.
NewErrorResponse(e) ==
    e.error = "validation" \/ (e.error \in {"required", "malformed", "numeric"} /\ ~e.wrapped)

Wants(ct, h, type) == ct = type \/ AcceptsExplicit(h, type)

\* HandleError: the media type of the body, ct being the type that the response
\* had before, and None without a body.
ErrorBody(e, ct, h) ==
    IF "json" \in e.marshals /\ (Wants(ct, h, "json") \/ ~Wants(ct, h, "xml")) THEN "json"
    ELSE IF "xml" \in e.marshals /\ Wants(ct, h, "xml") THEN "xml"
    ELSE IF ~NewErrorResponse(e) THEN None
    ELSE IF Wants(ct, h, "json") THEN "json"
    ELSE IF Wants(ct, h, "xml") THEN "xml" ELSE "text"
=============================================================================
