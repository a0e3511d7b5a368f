--------------------------- MODULE TrustedSource ----------------------------
(***************************************************************************)
(* The lists of trusted addresses and networks: of the proxies (proxy.go), *)
(* the health checks and the metrics (trusted_source.go,                   *)
(* metrics_options.go), of the applications of one process.                *)
(*                                                                         *)
(* New copies the default list, a struct whose slice of networks still     *)
(* points to the array of the default: append writes to that array as long *)
(* as it has room, and makes a copy afterwards.  Clear makes a new slice.  *)
(***************************************************************************)
EXTENDS Naturals, Integers, Sequences, SequencesExt, FiniteSets

CONSTANTS
    Addresses,      \* IP addresses
    Network,        \* of every network in CIDR format: its addresses
    Junk,           \* a token that is no address
    Kinds,          \* of every kind of list: [apps, ips, nets, cap, entries]: the
                    \* applications, the addresses and networks of the default, the
                    \* capacity of the array of its networks, and what Add is given
    Nil             \* nil

ASSUME TrustedSourceAssumption ==
    /\ Network \in [DOMAIN Network -> SUBSET Addresses]
    /\ ({Junk, Nil, "comma", "blank", "*"} \cup DOMAIN Network) \cap Addresses = {}
    /\ "*" \notin DOMAIN Network
    /\ \A k \in DOMAIN Kinds :
        /\ Kinds[k].ips \subseteq Addresses
        /\ Kinds[k].nets \in Seq(DOMAIN Network)
        /\ Kinds[k].cap \in Nat /\ Kinds[k].cap >= Len(Kinds[k].nets)

VARIABLES
    kind,       \* which kind the lists are
    array,      \* the array of the default list's networks
    list,       \* of every application: [all, ips, shared, len, own]; the networks are
                \* the first len of array while shared, and then own
    added,      \* history, of every application: entries since the list was cleared
    overwritten \* history: applications for which append of another one has
                \* overwritten an entry since the list was cleared

lists == <<kind, array, list, added, overwritten>>

Apps == Kinds[kind].apps

InitLists ==
    /\ kind \in DOMAIN Kinds
    /\ LET d == Kinds[kind] IN
        /\ array = d.nets \o [i \in 1..(d.cap - Len(d.nets)) |-> Nil]
        /\ list = [a \in d.apps |-> [all |-> FALSE, ips |-> d.ips, shared |-> TRUE,
                                     len |-> Len(d.nets), own |-> {}]]
        /\ added = [a \in d.apps |-> d.ips \cup Range(d.nets)]
    /\ overwritten = {}

TrustedNetworks(l, arr) == IF l.shared THEN {arr[i] : i \in 1..l.len} ELSE l.own

\* A mutated Clear that keeps TrustAll.
ClearedKeepAll(l) == [l EXCEPT !.ips = {}, !.shared = FALSE, !.len = 0, !.own = {}]

Cleared(l) == [l EXCEPT !.all = FALSE, !.ips = {}, !.shared = FALSE, !.len = 0, !.own = {}]

\* append, on a state s = [l, arr] of a list and the default's array.
AppendNetwork(s, n) ==
    IF s.l.shared /\ s.l.len < Len(s.arr)
    THEN [l |-> [s.l EXCEPT !.len = @ + 1], arr |-> [s.arr EXCEPT ![s.l.len + 1] = n]]
    ELSE [s EXCEPT !.l = [@ EXCEPT !.shared = FALSE, !.len = 0,
                                   !.own = TrustedNetworks(s.l, s.arr) \cup {n}]]

\* An entry that is neither "*", a network nor an address is ignored.
Added(s, entry) ==
    CASE entry = "*"              -> [s EXCEPT !.l.all = TRUE]
      [] entry \in DOMAIN Network -> AppendNetwork(s, entry)
      [] entry \in Addresses      -> [s EXCEPT !.l.ips = @ \cup {entry}]
      [] OTHER                    -> s

\* The address of a connection that is not IP is nil, which only "*" covers.
IsTrusted(l, arr, ip) ==
    l.all \/ (ip # Nil /\ (ip \in l.ips
                            \/ \E n \in TrustedNetworks(l, arr) : ip \in Network[n]))

\* Whose entries an append of a to the array overwrites.
Overwrites(a, arr) ==
    {b \in Apps \ {a} : arr # array /\ list[b].shared /\ list[b].len > list[a].len}

Become(a, s, entries) ==
    /\ list' = [list EXCEPT ![a] = s.l]
    /\ array' = s.arr
    /\ added' = [added EXCEPT ![a] = entries]
    /\ UNCHANGED kind

Clear(a) ==
    /\ Become(a, [l |-> Cleared(list[a]), arr |-> array], {})
    /\ overwritten' = overwritten \ {a}

Add(a, entry) ==
    \E s \in {Added([l |-> list[a], arr |-> array], entry)} :
        /\ Become(a, s, added[a] \cup {entry})
        /\ overwritten' = overwritten \cup Overwrites(a, s.arr)

\* What ApplyConfig does with each of the lists: the array is left alone.
Configure(a, entries) ==
    /\ Become(a, FoldLeft(Added, [l |-> Cleared(list[a]), arr |-> array], entries),
              ToSet(entries))
    /\ overwritten' = overwritten \ {a}
-----------------------------------------------------------------------------
(* Properties.                                                             *)

Covers(entries, ip) ==
    \/ {"*", ip} \cap entries # {}
    \/ \E n \in entries \cap DOMAIN Network : ip \in Network[n]

\* After any sequence of Clear, Add and ApplyConfig of several applications an
\* address is trusted exactly when an entry given to this application since its
\* last clearing covers it, although the lists start on one array.  Excluded: a
\* list one of whose entries another application's append has overwritten.
TrustIsConfigured ==
    \A a \in Apps \ overwritten : \A ip \in Addresses :
        IsTrusted(list[a], array, ip) <=> Covers(added[a], ip)

-----------------------------------------------------------------------------
(* What the comments of the code say and the code does not do (README).    *)

\* "Add adds an IP address or CIDR network to the trusted list": of the
\* application it is called for, whatever another one adds.
EntryStaysAdded ==
    \A a \in Apps : \A ip \in Addresses :
        Covers(added[a], ip) => IsTrusted(list[a], array, ip)
=============================================================================
