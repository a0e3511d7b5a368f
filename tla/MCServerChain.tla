--------------------------- MODULE MCServerChain ----------------------------
(* Instances of ServerChain for TLC.                                        *)
EXTENDS ServerChain

\* One of each kind: a client behind the proxy, the proxy itself, a client
\* that sends a forwarding header of its own.
Pairs ==
    {q \in Request :
        /\ q.origin # "invalid" /\ ~q.https
        /\ q.preflight => q.origin = "valid" /\ q.path = "api"
        /\ q.path # "skipped"
        /\ \/ q.remote \in Proxies
           \/ q.remote \notin Monitors /\ q.forwarded \in Monitors}

=============================================================================
