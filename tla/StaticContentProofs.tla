------------------------ MODULE StaticContentProofs -------------------------
(***************************************************************************)
(* Proofs about StaticContent, for any number of requests, any files and   *)
(* any replacers.                                                          *)
(***************************************************************************)
EXTENDS StaticContent, SequenceTheorems, TLAPS
-----------------------------------------------------------------------------
(* The keys of the cache                                                   *)

\* What stands before a path in a key: a hash, nothing, or the mark of what
\* the background goroutine stores.
Star == <<"*">>
Heads == Hashes \cup {<<>>, Star}

Key(h, f) == h \o f
GzKey(h, f) == GzPrefix \o Key(h, f)

Tokens == (UNION {Range(s) : s \in Hashes \cup Files}) \cup {"*", "gz:"}

LEMMA TokensHold == "*" \in Tokens /\ "gz:" \in Tokens
BY DEF Tokens

LEMMA HeadsAreSeqs == ASSUME NEW h \in Heads PROVE h \in Seq(Tokens)
<1>1. CASE h \in Hashes
    <2>1. h \in Seq(Range(h)) /\ Range(h) \subseteq Tokens BY <1>1, StaticAssumption DEF Tokens
    <2> QED BY <2>1
<1>2. CASE h = <<>> BY <1>2
<1>3. CASE h = Star BY <1>3, TokensHold DEF Star
<1> QED BY <1>1, <1>2, <1>3 DEF Heads

LEMMA FilesAreSeqs == ASSUME NEW f \in Files PROVE f \in Seq(Tokens) /\ Len(f) \in Nat \ {0}
<1>1. f \in Seq(Range(f)) /\ Range(f) \subseteq Tokens /\ f # <<>> BY StaticAssumption DEF Tokens
<1>2. f \in Seq(Tokens) BY <1>1
<1> QED BY <1>1, <1>2, EmptySeq

\* Two keys are equal only for the same head and path: what the hashes of an
\* application must provide.
LEMMA KeyInjective ==
    ASSUME NEW h \in Heads, NEW f \in Files, NEW i \in Heads, NEW g \in Files, Key(h, f) = Key(i, g)
    PROVE  h = i /\ f = g
<1>1. \A k, l \in Heads, x, y \in Files : k \o x = l \o y => k = l /\ x = y
    BY StaticAssumption, Zenon DEF Heads, Star
<1>2. h \o f = i \o g BY DEF Key
<1>3. h \o f = i \o g => h = i /\ f = g BY <1>1
<1> QED BY <1>2, <1>3

LEMMA KeyShape ==
    ASSUME NEW h \in Heads, NEW f \in Files
    PROVE  Key(h, f) \in Seq(Tokens) /\ Key(h, f)[1] # "gz:"
<1>1. /\ h \in Seq(Tokens) /\ f \in Seq(Tokens) /\ Len(h) \in Nat /\ Len(f) \in Nat \ {0}
      /\ f[1] # "gz:"
    BY HeadsAreSeqs, FilesAreSeqs, LenProperties, StaticAssumption
<1>2. /\ h \o f \in Seq(Tokens)
      /\ \A n \in 1..(Len(h) + Len(f)) : (h \o f)[n] = IF n <= Len(h) THEN h[n] ELSE f[n - Len(h)]
    BY <1>1, ConcatProperties
<1>3. (h \o f)[1] = IF 1 <= Len(h) THEN h[1] ELSE f[1]
    <2> DEFINE n == Len(h)
               m == Len(f)
    <2>1. n \in Nat /\ m \in Nat \ {0} BY <1>1
    <2> HIDE DEF n, m
    <2>2. 1 \in 1..(n + m) /\ (~(1 <= n) => 1 - n = 1) BY <2>1
    <2> QED BY <1>2, <2>2 DEF n, m
<1>4. h # <<>> => h[1] # "gz:" BY StaticAssumption DEF Heads, Star
<1>5. 1 <= Len(h) => h # <<>> BY <1>1, EmptySeq
<1> QED BY <1>1, <1>2, <1>3, <1>4, <1>5 DEF Key

LEMMA GzKeyShape ==
    ASSUME NEW h \in Heads, NEW f \in Files, NEW i \in Heads, NEW g \in Files
    PROVE  /\ GzKey(h, f) # Key(i, g)
           /\ GzKey(h, f) = GzKey(i, g) => h = i /\ f = g
<1> DEFINE k == Key(h, f)
           m == Key(i, g)
<1>1. k \in Seq(Tokens) /\ m \in Seq(Tokens) BY KeyShape
<1>2. GzPrefix \in Seq(Tokens) BY TokensHold DEF GzPrefix
<1> HIDE DEF k, m
<1>3. (GzPrefix \o k)[1] = "gz:" BY <1>1, <1>2 DEF GzPrefix
<1>4. GzPrefix \o k = GzPrefix \o m => k = m BY <1>1, <1>2, ConcatSimplifications
<1>5. m[1] # "gz:" BY KeyShape DEF m
<1>6. GzKey(h, f) = GzPrefix \o k /\ GzKey(i, g) = GzPrefix \o m BY DEF GzKey, k, m
<1>7. k = m => h = i /\ f = g BY KeyInjective DEF k, m
<1> QED BY <1>3, <1>4, <1>5, <1>6, <1>7 DEF m
-----------------------------------------------------------------------------
(* The invariant                                                           *)

PC == {"idle", "precompressed", "generic", "hashed", "replace", "replaced", "compress",
       "answer", "failed", "done"}

Requests == [file : Files, replacer : Replacers, gzip : BOOLEAN]

Types ==
    /\ pc \in [Reqs -> PC]
    /\ DOMAIN req = Reqs /\ DOMAIN content = Reqs /\ DOMAIN resp = Reqs
    /\ jobs \subseteq Files
    /\ \A r \in Reqs : pc[r] # "idle" => req[r] \in Requests

\* What is stored for a head: the file with the values of this hash, or with none.
Stored(h, f) == [file |-> f, values |-> IF h \in Hashes THEN h ELSE <<>>]

\* Why it is stored: this replacer changes the file, or one leaves it alone.
Grounds(h, f) ==
    /\ h \in Hashes => [hash |-> h, file |-> f] \in Changing
    /\ h = <<>> => \E i \in Hashes : [hash |-> i, file |-> f] \notin Changing

\* Every entry of the cache is what its key says.
CacheInv ==
    \A h \in Heads, f \in Files :
        /\ Has(Key(h, f)) => altcontent[Key(h, f)] = Plain(Stored(h, f)) /\ Grounds(h, f)
        /\ Has(GzKey(h, f)) => altcontent[GzKey(h, f)] = Compressed(Stored(h, f)) /\ Grounds(h, f)

Own(r) == [file |-> req[r].file, values |-> OwnValues(r)]

\* What a request knows, and what it was answered.
RequestAt(r) ==
    /\ pc[r] = "precompressed" => ~req[r].replacer.replaces
    /\ pc[r] \in {"generic", "hashed", "replace", "replaced", "compress", "answer"} =>
        req[r].replacer.replaces
    /\ pc[r] \in {"generic", "hashed", "compress", "answer"} => Hash(r) \in Hashes
    /\ pc[r] \in {"replaced", "compress", "answer"} => content[r] = Own(r)

RequestInv == \A r \in Reqs : RequestAt(r)

\* The inductive invariant.
IInv == Types /\ CacheInv /\ RequestInv /\ EncodingMatchesBody /\ OwnValuesOnly

LEMMA InitIInv == Init => IInv
<1> SUFFICES ASSUME Init PROVE IInv
    OBVIOUS
<1> USE DEF Init
<1>1. Types BY DEF Types, PC
<1>2. CacheInv BY DEF CacheInv, Has
<1>3. RequestInv BY DEF RequestInv, RequestAt
<1>4. EncodingMatchesBody /\ OwnValuesOnly BY DEF EncodingMatchesBody, OwnValuesOnly, Done
<1> QED BY <1>1, <1>2, <1>3, <1>4 DEF IInv

\* An entry stored under its key keeps the cache right.
LEMMA StorePlain ==
    ASSUME CacheInv, NEW h \in Heads, NEW f \in Files, Grounds(h, f),
           setContent(Key(h, f), Plain(Stored(h, f)))
    PROVE  CacheInv'
<1> SUFFICES ASSUME NEW i \in Heads, NEW g \in Files
             PROVE  /\ Has(Key(i, g))' => altcontent'[Key(i, g)] = Plain(Stored(i, g)) /\ Grounds(i, g)
                    /\ Has(GzKey(i, g))' =>
                        altcontent'[GzKey(i, g)] = Compressed(Stored(i, g)) /\ Grounds(i, g)
    BY DEF CacheInv
<1>1. GzKey(i, g) # Key(h, f) BY GzKeyShape
<1>2. Key(i, g) = Key(h, f) => i = h /\ g = f BY KeyInjective
<1> QED BY <1>1, <1>2 DEF CacheInv, setContent, Has

LEMMA StoreCompressed ==
    ASSUME CacheInv, NEW h \in Heads, NEW f \in Files, Grounds(h, f),
           setContent(GzKey(h, f), Compressed(Stored(h, f)))
    PROVE  CacheInv'
<1> SUFFICES ASSUME NEW i \in Heads, NEW g \in Files
             PROVE  /\ Has(Key(i, g))' => altcontent'[Key(i, g)] = Plain(Stored(i, g)) /\ Grounds(i, g)
                    /\ Has(GzKey(i, g))' =>
                        altcontent'[GzKey(i, g)] = Compressed(Stored(i, g)) /\ Grounds(i, g)
    BY DEF CacheInv
<1>1. GzKey(h, f) # Key(i, g) BY GzKeyShape
<1>2. GzKey(i, g) = GzKey(h, f) => i = h /\ g = f BY GzKeyShape
<1> QED BY <1>1, <1>2 DEF CacheInv, setContent, Has

\* The values that a request may be served.
Right(r, v) ==
    /\ v \in {<<>>, OwnValues(r)}
    /\ ( /\ req[r].replacer.replaces
         /\ \A h, i \in Hashes : ([hash |-> h, file |-> req[r].file] \in Changing)
                                  = ([hash |-> i, file |-> req[r].file] \in Changing) )
        => v = OwnValues(r)

\* A step of one request that leaves the others and the requests alone.
Alone(r) ==
    /\ UNCHANGED <<jobs, req>>
    /\ \A q \in Reqs \ {r} : UNCHANGED <<pc[q], content[q], resp[q]>>

\* A step that answers no request keeps the answers.
LEMMA AnswersKept ==
    ASSUME IInv, NEW r \in Reqs, Alone(r), pc'[r] # "done"
    PROVE  EncodingMatchesBody' /\ OwnValuesOnly'
<1>1. ASSUME NEW q \in Reqs, pc'[q] = "done" PROVE UNCHANGED <<pc[q], resp[q], req>>
    BY <1>1 DEF Alone
<1>2. EncodingMatchesBody' BY <1>1 DEF IInv, EncodingMatchesBody, Done
<1>3. OwnValuesOnly' BY <1>1 DEF IInv, OwnValuesOnly, Done, Served, OwnValues, Changed, Hash
<1> QED BY <1>2, <1>3

\* A right answer keeps the invariant.
LEMMA RespondIInv ==
    ASSUME IInv, NEW r \in Reqs, pc[r] # "idle", NEW body, NEW enc, Respond(r, body, enc),
           UNCHANGED <<altcontent, jobs, req, content>>,
           enc = body.gz, enc => req[r].gzip,
           body.content.file = req[r].file, Right(r, body.content.values)
    PROVE  IInv'
<1>1. pc' = [pc EXCEPT ![r] = "done"] /\ resp' = [resp EXCEPT ![r] = [body |-> body, encoding |-> enc]]
    BY DEF Respond
<1>2. pc'[r] = "done" /\ resp'[r].body = body /\ resp'[r].encoding = enc
    BY <1>1 DEF IInv, Types
<1>3. \A q \in Reqs \ {r} : pc'[q] = pc[q] /\ resp'[q] = resp[q] BY <1>1 DEF IInv, Types
<1>4. Types' BY <1>1 DEF IInv, Types, PC
<1>5. CacheInv' BY DEF IInv, CacheInv, Has
<1>6. RequestInv' BY <1>2, <1>3 DEF IInv, RequestInv, RequestAt, Own, OwnValues, Changed, Hash
<1>7. EncodingMatchesBody'
    <2> SUFFICES ASSUME NEW q \in Reqs, Done(q)'
                 PROVE  resp'[q].encoding = resp'[q].body.gz /\ (resp'[q].encoding => req[q].gzip)
        BY DEF EncodingMatchesBody
    <2>1. CASE q = r BY <1>2, <2>1
    <2>2. CASE q # r BY <1>3, <2>2 DEF IInv, EncodingMatchesBody, Done
    <2> QED BY <2>1, <2>2
<1>8. OwnValuesOnly'
    <2>1. \A q \in Reqs : OwnValues(q)' = OwnValues(q) BY DEF OwnValues, Changed, Hash
    <2> SUFFICES ASSUME NEW q \in Reqs, Done(q)'
                 PROVE  Served(q)'.file = req[q].file /\ Right(q, Served(q)'.values)
        BY <2>1 DEF OwnValuesOnly, Right
    <2>2. CASE q = r BY <1>2, <2>2 DEF Served
    <2>3. CASE q # r BY <1>3, <2>3 DEF IInv, OwnValuesOnly, Right, Done, Served
    <2> QED BY <2>2, <2>3
<1> QED BY <1>4, <1>5, <1>6, <1>7, <1>8 DEF IInv

LEMMA ReplacerHash == ASSUME NEW p \in Replacers PROVE p.hash \in Hashes \cup {<<>>}
<1>1. CASE p = NoReplacer BY <1>1 DEF NoReplacer
<1>2. CASE p \in [replaces : {TRUE}, hash : Hashes \cup {<<>>}] BY <1>2
<1> QED BY <1>1, <1>2 DEF Replacers

LEMMA BeginIInv == ASSUME IInv, NEW r \in Reqs, Begin(r) PROVE IInv'
<1>1. PICK f \in Files, p \in Replacers, gz \in BOOLEAN :
        /\ Goto(r, "idle", IF ~p.replaces THEN "precompressed"
                           ELSE IF p.hash = <<>> THEN "replace" ELSE "generic")
        /\ req' = [req EXCEPT ![r] = [file |-> f, replacer |-> p, gzip |-> gz]]
        /\ UNCHANGED <<altcontent, jobs, content, resp>>
    BY DEF Begin
<1> DEFINE to == IF ~p.replaces THEN "precompressed"
                 ELSE IF p.hash = <<>> THEN "replace" ELSE "generic"
<1>2. pc[r] = "idle" /\ pc' = [pc EXCEPT ![r] = to] BY <1>1 DEF Goto
<1>3. to \in {"precompressed", "replace", "generic"} OBVIOUS
<1>4. p.hash \in Hashes \cup {<<>>} BY ReplacerHash
<1>5. req'[r] = [file |-> f, replacer |-> p, gzip |-> gz] /\ pc'[r] = to
    BY <1>1, <1>2 DEF IInv, Types
<1>6. \A q \in Reqs \ {r} : UNCHANGED <<pc[q], req[q], content[q], resp[q]>>
    BY <1>1, <1>2 DEF IInv, Types
<1>7. Types'
    <2>1. req'[r] \in Requests BY <1>5 DEF Requests
    <2>2. pc' \in [Reqs -> PC] BY <1>2, <1>3 DEF IInv, Types, PC
    <2>3. DOMAIN req' = Reqs BY <1>1 DEF IInv, Types
    <2> QED BY <1>1, <1>6, <2>1, <2>2, <2>3 DEF IInv, Types
<1>8. CacheInv' BY <1>1 DEF IInv, CacheInv, Has
<1>9. RequestInv'
    <2>1. RequestAt(r)'
        <3>1. pc'[r] = "precompressed" => ~p.replaces BY <1>5
        <3>2. pc'[r] \in {"replace", "generic"} => p.replaces BY <1>5
        <3>3. pc'[r] = "generic" => p.hash \in Hashes BY <1>4, <1>5
        <3> QED BY <1>3, <1>5, <3>1, <3>2, <3>3 DEF RequestAt, Hash
    <2>2. ASSUME NEW q \in Reqs, q # r PROVE RequestAt(q)'
        BY <1>6, <2>2 DEF IInv, RequestInv, RequestAt, Own, OwnValues, Changed, Hash
    <2> QED BY <2>1, <2>2 DEF RequestInv
<1>10. \A q \in Reqs : Done(q)' => q # r BY <1>3, <1>5 DEF Done
<1>11. EncodingMatchesBody' BY <1>6, <1>10 DEF IInv, EncodingMatchesBody, Done
<1>12. OwnValuesOnly'
    BY <1>6, <1>10 DEF IInv, OwnValuesOnly, Done, Served, OwnValues, Changed, Hash
<1> QED BY <1>7, <1>8, <1>9, <1>11, <1>12 DEF IInv

\* What the cache holds for the request's own file, in the form it asks for.
LEMMA Found ==
    ASSUME IInv, NEW r \in Reqs, pc[r] # "idle", NEW h \in Heads,
           Has(IF UseGzip(r) THEN GzKey(h, req[r].file) ELSE Key(h, req[r].file))
    PROVE  /\ altcontent[IF UseGzip(r) THEN GzKey(h, req[r].file) ELSE Key(h, req[r].file)]
                = [content |-> Stored(h, req[r].file), gz |-> UseGzip(r)]
           /\ Grounds(h, req[r].file)
<1>1. req[r].file \in Files BY DEF IInv, Types, Requests
<1>2. CASE UseGzip(r)
    <2>1. UseGzip(r) = TRUE BY <1>2, StaticAssumption DEF UseGzip, IInv, Types, Requests
    <2> QED BY <1>1, <1>2, <2>1 DEF IInv, CacheInv, Compressed
<1>3. CASE ~UseGzip(r)
    <2>1. UseGzip(r) = FALSE BY <1>3, StaticAssumption DEF UseGzip, IInv, Types, Requests
    <2> QED BY <1>1, <1>3, <2>1 DEF IInv, CacheInv, Plain
<1> QED BY <1>2, <1>3

\* A lookup under the key of a head that keeps to the request.
LEMMA LookupIInv ==
    ASSUME IInv, NEW r \in Reqs, NEW at, NEW next, NEW h \in Heads,
           Lookup(r, at, IF UseGzip(r) THEN GzKey(h, req[r].file) ELSE Key(h, req[r].file),
                  UseGzip(r), next),
           <<at, next>> \in {<<"generic", "hashed">>, <<"hashed", "replace">>},
           Grounds(h, req[r].file) => Right(r, Stored(h, req[r].file).values)
    PROVE  IInv'
<1> DEFINE key == IF UseGzip(r) THEN GzKey(h, req[r].file) ELSE Key(h, req[r].file)
<1>1. pc[r] = at /\ at \in {"generic", "hashed"} /\ UNCHANGED <<altcontent, jobs, req, content>>
    BY DEF Lookup
<1>2. CASE Has(key)
    <2> DEFINE body == altcontent[key]
    <2>1. Respond(r, body, UseGzip(r)) BY <1>2 DEF Lookup
    <2>2. body = [content |-> Stored(h, req[r].file), gz |-> UseGzip(r)] /\ Grounds(h, req[r].file)
        BY <1>1, <1>2, Found
    <2> HIDE DEF body
    <2>3. UseGzip(r) => req[r].gzip BY DEF UseGzip
    <2>4. body.content.file = req[r].file /\ Right(r, body.content.values) /\ UseGzip(r) = body.gz
        BY <2>2 DEF Stored
    <2> QED BY <1>1, <2>1, <2>3, <2>4, RespondIInv
<1>3. CASE ~Has(key)
    <2>1. pc' = [pc EXCEPT ![r] = next] /\ UNCHANGED resp BY <1>3 DEF Lookup
    <2>2. next \in {"hashed", "replace"} /\ pc'[r] = next
        BY <2>1 DEF IInv, Types
    <2>3. Types' BY <1>1, <2>1, <2>2 DEF IInv, Types, PC
    <2>4. CacheInv' BY <1>1 DEF IInv, CacheInv, Has
    <2>5. RequestInv'
        BY <1>1, <2>1, <2>2 DEF IInv, Types, RequestInv, RequestAt, Own, OwnValues, Changed, Hash
    <2>6. Alone(r) /\ pc'[r] # "done" BY <1>1, <2>1, <2>2 DEF Alone, IInv, Types
    <2> QED BY <2>3, <2>4, <2>5, <2>6, AnswersKept DEF IInv
<1> QED BY <1>2, <1>3

\* The keys of the code are the keys of the invariant.
LEMMA KeysOfCode ==
    ASSUME NEW h \in Heads, NEW f \in Files
    PROVE  /\ GzPrefix \o h \o f = GzKey(h, f)
           /\ <<>> \o h \o f = Key(h, f)
           /\ GzPrefix \o f = GzKey(<<>>, f) /\ <<>> \o f = Key(<<>>, f)
           /\ f = Key(<<>>, f)
           /\ GzStar \o f = GzKey(Star, f)
<1>1. GzPrefix \in Seq(Tokens) /\ h \in Seq(Tokens) /\ f \in Seq(Tokens) /\ Star \in Seq(Tokens)
    BY HeadsAreSeqs, FilesAreSeqs, TokensHold DEF GzPrefix, Star
<1>2. \A a, b, c \in Seq(Tokens) : (a \o b) \o c = a \o (b \o c) BY ConcatAssociative
<1>3. \A a \in Seq(Tokens) : <<>> \o a = a BY ConcatEmptySeq
<1>4. GzStar = GzPrefix \o Star BY DEF GzStar, GzPrefix, Star
<1>5. GzPrefix \o h \o f = GzKey(h, f) BY <1>1, <1>2 DEF GzKey, Key
<1>6. <<>> \o h \o f = Key(h, f) BY <1>1, <1>3 DEF Key
<1>7. f = Key(<<>>, f) BY <1>1, <1>3 DEF Key
<1>8. GzStar \o f = GzKey(Star, f) BY <1>1, <1>2, <1>4 DEF GzKey, Key
<1> QED BY <1>1, <1>3, <1>5, <1>6, <1>7, <1>8 DEF GzKey

LEMMA LookupGenericIInv == ASSUME IInv, NEW r \in Reqs, LookupGeneric(r) PROVE IInv'
<1> DEFINE f == req[r].file
<1>1. pc[r] = "generic" /\ f \in Files BY DEF LookupGeneric, Lookup, IInv, Types, Requests
<1>2. <<>> \in Heads BY DEF Heads
<1>3. Prefix(r) \o Fpath(r) = IF UseGzip(r) THEN GzKey(<<>>, f) ELSE Key(<<>>, f)
    BY <1>1, <1>2, KeysOfCode DEF Prefix, Fpath
<1>4. Grounds(<<>>, f) => Right(r, Stored(<<>>, f).values)
    <2>1. Hash(r) \in Hashes BY <1>1 DEF IInv, RequestInv, RequestAt
    <2>2. <<>> \notin Hashes BY StaticAssumption
    <2>3. Stored(<<>>, f).values = <<>> BY <2>2 DEF Stored
    <2>4. ASSUME NEW i \in Hashes, [hash |-> i, file |-> f] \notin Changing,
                 \A h, k \in Hashes : ([hash |-> h, file |-> f] \in Changing)
                                       = ([hash |-> k, file |-> f] \in Changing)
          PROVE  OwnValues(r) = <<>>
        BY <2>1, <2>2, <2>4 DEF OwnValues, Changed
    <2> QED BY <2>2, <2>3, <2>4 DEF Grounds, Right
<1> QED BY <1>2, <1>3, <1>4, LookupIInv DEF LookupGeneric

LEMMA LookupHashedIInv == ASSUME IInv, NEW r \in Reqs, LookupHashed(r) PROVE IInv'
<1> DEFINE f == req[r].file
           h == Hash(r)
<1>1. pc[r] = "hashed" /\ f \in Files BY DEF LookupHashed, Lookup, IInv, Types, Requests
<1>2. h \in Hashes /\ h \in Heads BY <1>1 DEF IInv, RequestInv, RequestAt, Heads
<1>3. Prefix(r) \o h \o Fpath(r) = IF UseGzip(r) THEN GzKey(h, f) ELSE Key(h, f)
    BY <1>1, <1>2, KeysOfCode DEF Prefix, Fpath
<1>4. Grounds(h, f) => Right(r, Stored(h, f).values)
    <2>1. h # <<>> BY <1>2, StaticAssumption
    <2> QED BY <1>2, <2>1 DEF Grounds, Right, Stored, OwnValues, Changed
<1>5. Lookup(r, "hashed", IF UseGzip(r) THEN GzKey(h, f) ELSE Key(h, f), UseGzip(r), "replace")
    BY <1>3 DEF LookupHashed
<1> HIDE DEF h
<1> QED BY <1>2, <1>4, <1>5, LookupIInv

\* A step that only moves a request on and leaves its answer alone.
LEMMA MoveIInv ==
    ASSUME IInv, NEW r \in Reqs, NEW from, NEW to, Goto(r, from, to), CacheInv', UNCHANGED <<jobs, req, resp>>,
           <<from, to>> \in {<<"replace", "replaced">>, <<"replace", "failed">>,
                             <<"replaced", "compress">>, <<"replaced", "answer">>, <<"compress", "answer">>},
           \/ UNCHANGED content
           \/ content' = [content EXCEPT ![r] = Own(r)],
           from = "replaced" => Hash(r) # <<>>,
           to = "replaced" => content' = [content EXCEPT ![r] = Own(r)]
    PROVE  IInv'
<1>1. pc[r] = from /\ pc' = [pc EXCEPT ![r] = to] BY DEF Goto
<1>2. pc'[r] = to /\ to \in {"replaced", "failed", "compress", "answer"} BY <1>1 DEF IInv, Types
<1>3. from \in {"replace", "replaced", "compress"} OBVIOUS
<1>4. \A q \in Reqs \ {r} : UNCHANGED <<pc[q], content[q]>> BY <1>1 DEF IInv, Types
<1>5. Types'
    <2>1. pc' \in [Reqs -> PC] BY <1>1, <1>2 DEF IInv, Types, PC
    <2>2. DOMAIN content' = Reqs BY DEF IInv, Types
    <2>3. \A q \in Reqs : pc'[q] # "idle" => req[q] \in Requests
        BY <1>1, <1>3, <1>4 DEF IInv, Types
    <2> QED BY <2>1, <2>2, <2>3 DEF IInv, Types
<1>6. \A q \in Reqs : Own(q)' = Own(q) /\ Hash(q)' = Hash(q) BY DEF Own, OwnValues, Changed, Hash
<1>7. RequestInv'
    <2>1. RequestAt(r)'
        <3>1. req[r].replacer.replaces BY <1>1, <1>3 DEF IInv, RequestInv, RequestAt
        <3>2. to \in {"compress", "answer"} => Hash(r) \in Hashes
            <4>1. CASE from = "replaced"
                <5>1. req[r].replacer \in Replacers BY <1>1, <1>3 DEF IInv, Types, Requests
                <5>2. req[r].replacer.hash \in Hashes \cup {<<>>} BY <5>1, ReplacerHash
                <5> QED BY <4>1, <5>2 DEF Hash
            <4>2. CASE from = "compress" BY <1>1, <4>2 DEF IInv, RequestInv, RequestAt
            <4> QED BY <4>1, <4>2
        <3>3. to # "failed" => content'[r] = Own(r)
            <4>1. CASE to = "replaced" BY <4>1 DEF IInv, Types
            <4>2. CASE from \in {"replaced", "compress"}
                <5>1. content[r] = Own(r) BY <1>1, <4>2 DEF IInv, RequestInv, RequestAt
                <5> QED BY <5>1 DEF IInv, Types
            <4> QED BY <4>1, <4>2
        <3> QED BY <1>2, <1>6, <3>1, <3>2, <3>3 DEF RequestAt
    <2>2. ASSUME NEW q \in Reqs, q # r PROVE RequestAt(q)'
        BY <1>4, <1>6, <2>2 DEF IInv, RequestInv, RequestAt
    <2> QED BY <2>1, <2>2 DEF RequestInv
<1>8. Alone(r) /\ pc'[r] # "done" BY <1>2, <1>4 DEF Alone
<1> QED BY <1>5, <1>7, <1>8, AnswersKept DEF IInv

LEMMA CacheUnchanged == ASSUME IInv, UNCHANGED altcontent PROVE CacheInv'
BY DEF IInv, CacheInv, Has

\* What a request that knows its hash stores, and under which head.
HeadOf(r) == IF Changed(r) THEN Hash(r) ELSE <<>>

LEMMA OwnEntry ==
    ASSUME IInv, NEW r \in Reqs, pc[r] \in {"replaced", "compress", "answer"}, Hash(r) # <<>>
    PROVE  /\ req[r].file \in Files /\ HeadOf(r) \in Heads
           /\ Grounds(HeadOf(r), req[r].file)
           /\ content[r] = Stored(HeadOf(r), req[r].file)
           /\ CacheKey(r) = Key(HeadOf(r), req[r].file)
           /\ Right(r, content[r].values)
<1> DEFINE f == req[r].file
<1>1. f \in Files /\ req[r].replacer \in Replacers BY DEF IInv, Types, Requests
<1>2. Hash(r) \in Hashes
    <2>1. req[r].replacer.hash \in Hashes \cup {<<>>} BY <1>1, ReplacerHash
    <2> QED BY <2>1 DEF Hash
<1>3. <<>> \notin Hashes /\ <<>> # Star BY StaticAssumption DEF Star
<1>4. content[r] = Own(r) BY DEF IInv, RequestInv, RequestAt
<1>5. HeadOf(r) \in Heads BY <1>2 DEF HeadOf, Heads
<1>6. Grounds(HeadOf(r), f)
    BY <1>2, <1>3 DEF HeadOf, Grounds, Changed
<1>7. content[r] = Stored(HeadOf(r), f) BY <1>2, <1>3, <1>4 DEF Own, OwnValues, Stored, HeadOf
<1>8. CacheKey(r) = Key(HeadOf(r), f)
    <2>1. CASE Changed(r) BY <2>1 DEF CacheKey, HeadOf, Key, Fpath
    <2>2. CASE ~Changed(r) BY <1>1, <1>5, <2>2, KeysOfCode DEF CacheKey, HeadOf, Fpath
    <2> QED BY <2>1, <2>2
<1>9. Right(r, content[r].values) BY <1>4 DEF Own, Right
<1> QED BY <1>1, <1>5, <1>6, <1>7, <1>8, <1>9

LEMMA ReplaceIInv == ASSUME IInv, NEW r \in Reqs, Replace(r) \/ ReplaceFails(r) PROVE IInv'
<1>1. CacheInv' BY CacheUnchanged DEF Replace, ReplaceFails
<1>2. CASE Replace(r)
    <2>1. Goto(r, "replace", "replaced") /\ content' = [content EXCEPT ![r] = Own(r)]
        BY <1>2 DEF Replace, Own
    <2>2. UNCHANGED <<jobs, req, resp>> BY <1>2 DEF Replace
    <2> QED BY <1>1, <2>1, <2>2, MoveIInv
<1>3. CASE ReplaceFails(r)
    <2>1. Goto(r, "replace", "failed") /\ UNCHANGED <<jobs, req, resp, content>>
        BY <1>3 DEF ReplaceFails
    <2> QED BY <1>1, <2>1, MoveIInv
<1> QED BY <1>2, <1>3

LEMMA RawUncachedIInv == ASSUME IInv, NEW r \in Reqs, RawUncached(r) PROVE IInv'
<1> DEFINE body == Plain(content[r])
<1>1. pc[r] = "replaced" /\ Respond(r, body, FALSE) /\ UNCHANGED <<altcontent, jobs, req, content>>
    BY DEF RawUncached
<1>2. content[r] = Own(r) BY <1>1 DEF IInv, RequestInv, RequestAt
<1>3. body.gz = FALSE /\ body.content.file = req[r].file /\ Right(r, body.content.values)
    BY <1>2 DEF Plain, Own, Right
<1> HIDE DEF body
<1> QED BY <1>1, <1>3, RespondIInv

LEMMA SetIInv == ASSUME IInv, NEW r \in Reqs, SetPlain(r) \/ SetCompressed(r) PROVE IInv'
<1> DEFINE f == req[r].file
<1>1. CASE SetPlain(r)
    <2>1. pc[r] = "replaced" /\ Hash(r) # <<>> BY <1>1 DEF SetPlain, Goto
    <2>2. setContent(Key(HeadOf(r), f), Plain(Stored(HeadOf(r), f))) BY <1>1, <2>1, OwnEntry DEF SetPlain
    <2>3. CacheInv' BY <2>1, <2>2, OwnEntry, StorePlain DEF IInv
    <2>4. UNCHANGED <<jobs, req, resp, content>> BY <1>1 DEF SetPlain
    <2>5. CASE Gzip
        <3>1. Goto(r, "replaced", "compress") BY <1>1, <2>5 DEF SetPlain
        <3> QED BY <2>1, <2>3, <2>4, <3>1, MoveIInv
    <2>6. CASE ~Gzip
        <3>1. Goto(r, "replaced", "answer") BY <1>1, <2>6 DEF SetPlain
        <3> QED BY <2>1, <2>3, <2>4, <3>1, MoveIInv
    <2> QED BY <2>5, <2>6
<1>2. CASE SetCompressed(r)
    <2>1. pc[r] = "compress" /\ Goto(r, "compress", "answer") BY <1>2 DEF SetCompressed, Goto
    <2>2. Hash(r) # <<>> BY <2>1, StaticAssumption DEF IInv, RequestInv, RequestAt
    <2>3. setContent(GzKey(HeadOf(r), f), Compressed(Stored(HeadOf(r), f)))
        BY <1>2, <2>1, <2>2, OwnEntry DEF SetCompressed, GzKey
    <2>4. CacheInv' BY <2>1, <2>2, <2>3, OwnEntry, StoreCompressed DEF IInv
    <2>5. UNCHANGED <<jobs, req, resp, content>> BY <1>2 DEF SetCompressed
    <2> QED BY <2>1, <2>4, <2>5, MoveIInv
<1> QED BY <1>1, <1>2

LEMMA AnswerIInv == ASSUME IInv, NEW r \in Reqs, Answer(r) PROVE IInv'
<1> DEFINE f    == req[r].file
           key  == GzPrefix \o CacheKey(r)
           gz   == UseGzip(r) /\ Has(key)
           body == IF gz THEN altcontent[key] ELSE Plain(content[r])
<1>1. pc[r] = "answer" /\ Respond(r, body, gz) /\ UNCHANGED <<altcontent, jobs, req, content>>
    BY DEF Answer
<1>2. Hash(r) # <<>> BY <1>1, StaticAssumption DEF IInv, RequestInv, RequestAt
<1>3. content[r] = Stored(HeadOf(r), f) /\ Right(r, content[r].values) /\ f \in Files
      /\ HeadOf(r) \in Heads /\ key = GzKey(HeadOf(r), f)
    BY <1>1, <1>2, OwnEntry DEF GzKey
<1>4. Stored(HeadOf(r), f).file = f BY DEF Stored
<1>5. CASE gz
    <2>1. body = Compressed(content[r]) BY <1>3, <1>5 DEF IInv, CacheInv
    <2>2. body.gz = TRUE /\ body.content = content[r] BY <2>1 DEF Compressed
    <2>3. gz = TRUE /\ req[r].gzip BY <1>5 DEF UseGzip
    <2> HIDE DEF body, gz
    <2> QED BY <1>1, <1>3, <1>4, <2>2, <2>3, RespondIInv
<1>6. CASE ~gz
    <2>1. body.gz = FALSE /\ body.content = content[r] BY <1>6 DEF Plain
    <2>2. gz = FALSE BY <1>6
    <2> HIDE DEF body, gz
    <2> QED BY <1>1, <1>3, <1>4, <2>1, <2>2, RespondIInv
<1> QED BY <1>5, <1>6

LEMMA PrecompressedIInv == ASSUME IInv, NEW r \in Reqs, Precompressed(r) PROVE IInv'
<1> DEFINE f    == req[r].file
           key  == GzStar \o Fpath(r)
           gz   == UseGzip(r) /\ Has(key)
           body == IF gz THEN altcontent[key] ELSE Plain(Original(f))
<1>1. pc[r] = "precompressed" /\ Respond(r, body, gz) /\ UNCHANGED <<altcontent, jobs, req, content>>
    BY DEF Precompressed
<1>2. ~req[r].replacer.replaces /\ f \in Files BY <1>1 DEF IInv, RequestInv, RequestAt, Types, Requests
<1>3. Star \in Heads /\ Star \notin Hashes BY StaticAssumption DEF Heads, Star
<1>4. key = GzKey(Star, f) BY <1>2, <1>3, KeysOfCode DEF Fpath
<1>5. Stored(Star, f) = Original(f) /\ Original(f).file = f /\ Right(r, Original(f).values)
    BY <1>2, <1>3 DEF Stored, Original, Right
<1>6. CASE gz
    <2>1. body = Compressed(Original(f)) BY <1>2, <1>3, <1>4, <1>5, <1>6 DEF IInv, CacheInv
    <2>2. body.gz = TRUE /\ body.content = Original(f) BY <2>1 DEF Compressed
    <2>3. gz = TRUE /\ req[r].gzip BY <1>6 DEF UseGzip
    <2> HIDE DEF body, gz
    <2> QED BY <1>1, <1>5, <2>2, <2>3, RespondIInv
<1>7. CASE ~gz
    <2>1. body.gz = FALSE /\ body.content = Original(f) BY <1>7 DEF Plain
    <2>2. gz = FALSE BY <1>7
    <2> HIDE DEF body, gz
    <2> QED BY <1>1, <1>5, <2>1, <2>2, RespondIInv
<1> QED BY <1>6, <1>7

LEMMA GzipJobIInv == ASSUME IInv, GzipJob PROVE IInv'
<1>1. PICK f \in jobs :
        /\ jobs' = jobs \ {f}
        /\ \/ setContent(GzStar \o f, Compressed(Original(f)))
           \/ UNCHANGED altcontent
        /\ UNCHANGED <<pc, req, content, resp>>
    BY DEF GzipJob
<1>2. f \in Files BY DEF IInv, Types
<1>3. CacheInv'
    <2>1. CASE UNCHANGED altcontent BY <2>1, CacheUnchanged
    <2>2. CASE setContent(GzStar \o f, Compressed(Original(f)))
        <3>1. Star \in Heads /\ Star \notin Hashes /\ Star # <<>>
            BY StaticAssumption DEF Heads, Star
        <3>2. GzStar \o f = GzKey(Star, f) /\ Original(f) = Stored(Star, f)
            BY <1>2, <3>1, KeysOfCode DEF Original, Stored
        <3>3. Grounds(Star, f) BY <3>1 DEF Grounds
        <3> QED BY <1>2, <2>2, <3>1, <3>2, <3>3, StoreCompressed DEF IInv
    <2> QED BY <1>1, <2>1, <2>2
<1>4. Types' BY <1>1 DEF IInv, Types
<1>5. RequestInv' BY <1>1 DEF IInv, RequestInv, RequestAt, Own, OwnValues, Changed, Hash
<1>6. EncodingMatchesBody' BY <1>1 DEF IInv, EncodingMatchesBody, Done
<1>7. OwnValuesOnly' BY <1>1 DEF IInv, OwnValuesOnly, Done, Served, OwnValues, Changed, Hash
<1> QED BY <1>3, <1>4, <1>5, <1>6, <1>7 DEF IInv

LEMMA StutterIInv == ASSUME IInv, UNCHANGED vars PROVE IInv'
<1> USE DEF vars
<1>1. Types' BY DEF IInv, Types
<1>2. CacheInv' BY CacheUnchanged
<1>3. RequestInv' BY DEF IInv, RequestInv, RequestAt, Own, OwnValues, Changed, Hash
<1>4. EncodingMatchesBody' BY DEF IInv, EncodingMatchesBody, Done
<1>5. OwnValuesOnly' BY DEF IInv, OwnValuesOnly, Done, Served, OwnValues, Changed, Hash
<1> QED BY <1>1, <1>2, <1>3, <1>4, <1>5 DEF IInv

LEMMA NextIInv == ASSUME IInv, [Next]_vars PROVE IInv'
<1>1. CASE \E r \in Reqs : Serve(r)
    <2>1. PICK r \in Reqs : Serve(r) BY <1>1
    <2>2. CASE Begin(r) BY <2>2, BeginIInv
    <2>3. CASE LookupGeneric(r) BY <2>3, LookupGenericIInv
    <2>4. CASE LookupHashed(r) BY <2>4, LookupHashedIInv
    <2>5. CASE Replace(r) \/ ReplaceFails(r) BY <2>5, ReplaceIInv
    <2>6. CASE RawUncached(r) BY <2>6, RawUncachedIInv
    <2>7. CASE SetPlain(r) \/ SetCompressed(r) BY <2>7, SetIInv
    <2>8. CASE Answer(r) BY <2>8, AnswerIInv
    <2>9. CASE Precompressed(r) BY <2>9, PrecompressedIInv
    <2> QED BY <2>1, <2>2, <2>3, <2>4, <2>5, <2>6, <2>7, <2>8, <2>9 DEF Serve
<1>2. CASE GzipJob BY <1>2, GzipJobIInv
<1>3. CASE Finished \/ UNCHANGED vars
    <2>1. UNCHANGED vars BY <1>3 DEF Finished
    <2> QED BY <2>1, StutterIInv
<1> QED BY <1>1, <1>2, <1>3 DEF Next
-----------------------------------------------------------------------------
(* The theorems                                                            *)

\* Every entry of the cache is what its key says, whoever stored it, and
\* every answered request was answered rightly.
THEOREM Invariance == Spec => []IInv
<1>1. Init => IInv BY InitIInv
<1>2. IInv /\ [Next]_vars => IInv' BY NextIInv
<1> QED BY <1>1, <1>2, PTL DEF Spec

\* Content-Encoding says what the body is, and only a client that accepts
\* gzip gets a compressed body, on every way requestHandler answers.
THEOREM EncodingRight == Spec => []EncodingMatchesBody
<1>1. IInv => EncodingMatchesBody BY DEF IInv
<1> QED BY <1>1, Invariance, PTL

\* The cache that all requests share never answers one replacer with the
\* values of another, nor with another file.
THEOREM ValuesOwn == Spec => []OwnValuesOnly
<1>1. IInv => OwnValuesOnly BY DEF IInv
<1> QED BY <1>1, Invariance, PTL
=============================================================================
