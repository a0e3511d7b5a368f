---------------------------- MODULE StaticContent ---------------------------
(***************************************************************************)
(* The embedded static files (static.go): requests that replace values in  *)
(* a file and share what they computed through altcontent, and the         *)
(* goroutine of StaticEmbedded that compresses the files in the background.*)
(*                                                                         *)
(* A string is a sequence of tokens, so that a cache key is the            *)
(* concatenation the code makes.  A content names the file it comes from   *)
(* and the hash of the replacer whose values are in it (<<>>: none).       *)
(***************************************************************************)
EXTENDS Naturals, Sequences, Functions

CONSTANTS
    Reqs,           \* requests
    Files,          \* the fpath of every file, a sequence of tokens
    Hashes,         \* hashes a replacer has, each a sequence of tokens
    Changing,       \* [hash, file] pairs: this replacer changes this file
    Gzip,           \* StaticGzipContent was used
    None            \* nil

\* The code does not look into the hashes an application gives it.  One that begins
\* with the code's own prefix, or ends like the path of a file ("/a" before "/b", when
\* there is a file "/a/b"), would share the key of another entry.
ASSUME StaticAssumption ==
    /\ Gzip \in BOOLEAN
    /\ \A h \in Hashes : h \in Seq(Range(h)) /\ h \notin {<<>>, <<"*">>} /\ h[1] # "gz:"
    /\ \A f \in Files : f \in Seq(Range(f)) /\ f # <<>> /\ f[1] # "gz:"
    /\ \A h, i \in Hashes \cup {<<>>, <<"*">>}, f, g \in Files : h \o f = i \o g => h = i /\ f = g
    /\ \A ch \in Changing : ch.file \in Files

\* ReplacerFunc is not set or returns no replacer; a replacer without a hash.
NoReplacer == [replaces |-> FALSE, hash |-> <<>>]
Replacers  == {NoReplacer} \cup [replaces : {TRUE}, hash : Hashes \cup {<<>>}]

VARIABLES
    altcontent,     \* staticHandler.altcontent
    jobs,           \* files the background goroutine has still to compress
    pc, req,        \* of every request: where it is; its file, replacer, gzip
    content,        \* of every request: what replaceContent returned
    resp            \* of every request: the response

vars == <<altcontent, jobs, pc, req, content, resp>>

GzPrefix  == <<"gz:">>
GzStar    == <<"gz:", "*">>

Original(f)     == [file |-> f, values |-> <<>>]
Plain(c)        == [content |-> c, gz |-> FALSE]
Compressed(c)   == [content |-> c, gz |-> TRUE]

Init ==
    /\ altcontent = << >>
    /\ jobs = IF Gzip THEN Files ELSE {}
    /\ pc = [r \in Reqs |-> "idle"]
    /\ req = [r \in Reqs |-> None]
    /\ content = [r \in Reqs |-> None]
    /\ resp = [r \in Reqs |-> None]

Goto(r, from, to) == pc[r] = from /\ pc' = [pc EXCEPT ![r] = to]

UseGzip(r) == Gzip /\ req[r].gzip
Prefix(r)  == IF UseGzip(r) THEN GzPrefix ELSE <<>>
Fpath(r)   == req[r].file
Hash(r)    == req[r].replacer.hash

\* getContent and setContent, each under the lock.
Has(key)       == key \in DOMAIN altcontent
setContent(key, v) ==
    altcontent' = [k \in DOMAIN altcontent \cup {key} |-> IF k = key THEN v ELSE altcontent[k]]

\* ctx.Raw, with Content-Encoding when enc.
Respond(r, body, enc) ==
    /\ pc' = [pc EXCEPT ![r] = "done"]
    /\ resp' = [resp EXCEPT ![r] = [body |-> body, encoding |-> enc]]

\* The first branch: which lookup comes first.
Begin(r) ==
    \E f \in Files, p \in Replacers, gz \in BOOLEAN :
        /\ Goto(r, "idle", IF ~p.replaces THEN "precompressed"
                           ELSE IF p.hash = <<>> THEN "replace" ELSE "generic")
        /\ req' = [req EXCEPT ![r] = [file |-> f, replacer |-> p, gzip |-> gz]]
        /\ UNCHANGED <<altcontent, jobs, content, resp>>

\* A lookup under key that answers the request, or goes on.
Lookup(r, at, key, enc, next) ==
    /\ pc[r] = at
    /\ IF Has(key)
       THEN Respond(r, altcontent[key], enc)
       ELSE pc' = [pc EXCEPT ![r] = next] /\ UNCHANGED resp
    /\ UNCHANGED <<altcontent, jobs, req, content>>

\* The content that no replacer changed, then this replacer's.
LookupGeneric(r) == Lookup(r, "generic", Prefix(r) \o Fpath(r), UseGzip(r), "hashed")

\* A mutated lookup that announces the encoding the client accepts.
LookupHashedPlain(r) == Lookup(r, "hashed", Hash(r) \o Fpath(r), UseGzip(r), "replace")
LookupHashed(r) ==
    Lookup(r, "hashed", Prefix(r) \o Hash(r) \o Fpath(r), UseGzip(r), "replace")

Changed(r) == Hash(r) = <<>> \/ [hash |-> Hash(r), file |-> req[r].file] \in Changing

\* The values the request's own replacer leaves in the file.
OwnValues(r) == IF ~Changed(r) THEN <<>>
                ELSE IF Hash(r) = <<>> THEN <<"unhashed", r>> ELSE Hash(r)

\* replaceContent, which may fail to read the file: an error response.
Replace(r) ==
    /\ Goto(r, "replace", "replaced")
    /\ content' = [content EXCEPT ![r] =
                     [file |-> req[r].file, values |-> OwnValues(r)]]
    /\ UNCHANGED <<altcontent, jobs, req, resp>>
ReplaceFails(r) ==
    /\ Goto(r, "replace", "failed")
    /\ UNCHANGED <<altcontent, jobs, req, content, resp>>

\* A replacer without a hash: nothing is cached.
RawUncached(r) ==
    /\ pc[r] = "replaced"
    /\ Hash(r) = <<>>
    /\ Respond(r, Plain(content[r]), FALSE)
    /\ UNCHANGED <<altcontent, jobs, req, content>>

\* A mutated choice of the key that ignores the replacer.
CacheKeyGeneric(r) == Fpath(r)

\* Content that did not change is stored for every replacer.
CacheKey(r) == IF Changed(r) THEN Hash(r) \o Fpath(r) ELSE Fpath(r)

SetPlain(r) ==
    /\ Goto(r, "replaced", IF Gzip THEN "compress" ELSE "answer")
    /\ Hash(r) # <<>>
    /\ setContent(CacheKey(r), Plain(content[r]))
    /\ UNCHANGED <<jobs, req, content, resp>>

SetCompressed(r) ==
    /\ Goto(r, "compress", "answer")
    /\ setContent(GzPrefix \o CacheKey(r), Compressed(content[r]))
    /\ UNCHANGED <<jobs, req, content, resp>>

\* The compressed form is read back from the cache.
Answer(r) ==
    LET key == GzPrefix \o CacheKey(r)
        gz  == UseGzip(r) /\ Has(key)
    IN  /\ pc[r] = "answer"
        /\ Respond(r, IF gz THEN altcontent[key] ELSE Plain(content[r]), gz)
        /\ UNCHANGED <<altcontent, jobs, req, content>>

\* No replacer: what the background goroutine stored, else the file.
Precompressed(r) ==
    LET key == GzStar \o Fpath(r)
        gz  == UseGzip(r) /\ Has(key)
    IN  /\ pc[r] = "precompressed"
        /\ Respond(r, IF gz THEN altcontent[key] ELSE Plain(Original(req[r].file)), gz)
        /\ UNCHANGED <<altcontent, jobs, req, content>>

\* The goroutine of StaticEmbedded compresses one file, in any order.
GzipJob ==
    \E f \in jobs :
        /\ jobs' = jobs \ {f}
        /\ \/ setContent(GzStar \o f, Compressed(Original(f)))
           \/ UNCHANGED altcontent          \* the file does not open
        /\ UNCHANGED <<pc, req, content, resp>>

\* requestHandler.
Serve(r) ==
    \/ Begin(r) \/ LookupGeneric(r) \/ LookupHashed(r) \/ Replace(r) \/ ReplaceFails(r)
    \/ RawUncached(r) \/ SetPlain(r) \/ SetCompressed(r) \/ Answer(r) \/ Precompressed(r)

Finished ==
    /\ jobs = {} /\ \A r \in Reqs : pc[r] \in {"done", "failed"}
    /\ UNCHANGED vars

Next ==
    \/ \E r \in Reqs : Serve(r)
    \/ GzipJob
    \/ Finished

Spec == Init /\ [][Next]_vars
-----------------------------------------------------------------------------
(* Properties.                                                             *)

Done(r)   == pc[r] = "done"
Served(r) == resp[r].body.content

\* Content-Encoding says what the body is, and only a client that accepts
\* gzip gets a compressed body, whichever of the five ways served it and
\* whoever filled the cache.
EncodingMatchesBody ==
    \A r \in Reqs : Done(r) =>
        /\ resp[r].encoding = resp[r].body.gz
        /\ resp[r].encoding => req[r].gzip

\* A response holds the requested file with the values of the request's own
\* replacer, or with none: the shared cache never answers one hash with the
\* values of another.  When every hash's replacer changes the file, or none
\* does, it is what the request's own replacer makes of it.
OwnValuesOnly ==
    \A r \in Reqs : Done(r) =>
        /\ Served(r).file = req[r].file
        /\ Served(r).values \in {<<>>, OwnValues(r)}
        /\ ( /\ req[r].replacer.replaces
             /\ \A h, i \in Hashes : ([hash |-> h, file |-> req[r].file] \in Changing)
                                      = ([hash |-> i, file |-> req[r].file] \in Changing) )
            => Served(r).values = OwnValues(r)

-----------------------------------------------------------------------------
(* What the comments of the code say and the code does not do (README).    *)

\* The replacer "will be called to replace values in the content of all
\* files": what is served is what the request's own replacer makes of the file.
ReplacedAsAsked ==
    \A r \in Reqs : (Done(r) /\ req[r].replacer.replaces) => Served(r).values = OwnValues(r)
=============================================================================
