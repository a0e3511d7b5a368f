-------------------------- MODULE MCStaticContent ---------------------------
(* Instances of StaticContent for TLC: two replacers that change one file,  *)
(* and a file below it that one of them leaves as it is.                    *)
EXTENDS StaticContent

MCHashes   == {<<"h1">>, <<"h2">>}
MCFiles    == {<<"/a">>, <<"/a", "/b">>}
BothChange == [hash : MCHashes, file : {<<"/a">>}]
OneChanges == BothChange \cup {[hash |-> <<"h1">>, file |-> <<"/a", "/b">>]}
=============================================================================
