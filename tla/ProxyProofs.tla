---------------------------- MODULE ProxyProofs -----------------------------
(***************************************************************************)
(* Proofs about the proxies on both sides of the application: the trusted  *)
(* ones in front of it and the address they name (TrustedSource, RealIP),  *)
(* for every list, every text of the headers and every limit; the one to   *)
(* its upstreams (UpstreamProxy), for every number of requests, all lists  *)
(* of upstreams and all answers.                                           *)
(***************************************************************************)
EXTENDS RealIP, UpstreamProxy, Induction, FiniteSetTheorems
-----------------------------------------------------------------------------
(* The trusted lists                                                       *)

List ==
    [all : BOOLEAN, ips : SUBSET Addresses, shared : BOOLEAN, len : Nat, own : SUBSET DOMAIN Network]

\* What a list trusts is what was given to Add, sorted by kind; an entry that
\* is neither is ignored.
Holds(l, arr, entries) ==
    /\ l.all <=> "*" \in entries
    /\ l.ips = entries \cap Addresses
    /\ TrustedNetworks(l, arr) = entries \cap DOMAIN Network

\* The networks of a list that shares the array are in it.
InArray(l, arr) ==
    l.shared => l.len <= Len(arr) /\ \A i \in 1..l.len : arr[i] \in DOMAIN Network

ListsInv ==
    /\ kind \in DOMAIN Kinds
    /\ array \in Seq(DOMAIN Network \cup {Nil})
    /\ list \in [Apps -> List] /\ DOMAIN added = Apps
    /\ \A a \in Apps :
        /\ InArray(list[a], array)
        /\ a \notin overwritten => Holds(list[a], array, added[a])

\* Nothing else is needed for the property.
LEMMA HoldsTrust == ListsInv => TrustIsConfigured
<1> SUFFICES ASSUME ListsInv, NEW a \in Apps \ overwritten, NEW ip \in Addresses
             PROVE  IsTrusted(list[a], array, ip) <=> Covers(added[a], ip)
    BY DEF TrustIsConfigured
<1>1. Holds(list[a], array, added[a]) BY DEF ListsInv
<1>2. ip # Nil BY TrustedSourceAssumption
<1> QED BY <1>1, <1>2 DEF Holds, IsTrusted, Covers

LEMMA InitListsInv == InitLists => ListsInv
<1> SUFFICES ASSUME InitLists PROVE ListsInv
    OBVIOUS
<1> DEFINE d == Kinds[kind]
           room == [i \in 1..(d.cap - Len(d.nets)) |-> Nil]
<1>1. /\ kind \in DOMAIN Kinds /\ d.ips \in SUBSET Addresses /\ d.nets \in Seq(DOMAIN Network)
      /\ d.cap \in Nat /\ Len(d.nets) \in Nat /\ d.cap >= Len(d.nets)
    BY TrustedSourceAssumption, LenProperties DEF InitLists
<1>2. d.nets \in Seq(DOMAIN Network \cup {Nil}) BY <1>1, SeqDef
<1>3. d.cap - Len(d.nets) \in Nat BY <1>1
<1>4. room \in Seq(DOMAIN Network \cup {Nil})
    <2>1. room \in [1..(d.cap - Len(d.nets)) -> DOMAIN Network \cup {Nil}] OBVIOUS
    <2> HIDE DEF room, d
    <2> QED BY <1>3, <2>1, SeqDef
<1>5. array = d.nets \o room BY DEF InitLists
<1>6. /\ array \in Seq(DOMAIN Network \cup {Nil}) /\ Len(array) >= Len(d.nets)
      /\ \A i \in 1..Len(d.nets) : array[i] = d.nets[i]
    <2> HIDE DEF room, d
    <2>1. Len(room) \in Nat BY <1>4, LenProperties
    <2> QED BY <1>1, <1>2, <1>4, <1>5, <2>1, ConcatProperties
<1>7. \A a \in Apps : list[a] = [all |-> FALSE, ips |-> d.ips, shared |-> TRUE,
                                 len |-> Len(d.nets), own |-> {}]
                      /\ added[a] = d.ips \cup Range(d.nets)
    BY DEF InitLists, Apps
<1>8. list \in [Apps -> List]
    <2>1. list = [a \in Apps |-> [all |-> FALSE, ips |-> d.ips, shared |-> TRUE,
                                 len |-> Len(d.nets), own |-> {}]]
        BY DEF InitLists, Apps
    <2> QED BY <1>1, <2>1 DEF List
<1>9. ASSUME NEW a \in Apps PROVE Holds(list[a], array, added[a])
    <2>1. Range(d.nets) = {d.nets[i] : i \in 1..Len(d.nets)} BY <1>1, LenProperties DEF Range
    <2>2. TrustedNetworks(list[a], array) = Range(d.nets) BY <1>6, <1>7, <2>1 DEF TrustedNetworks
    <2>3. Range(d.nets) \subseteq DOMAIN Network BY <1>1, <2>1, ElementOfSeq
    <2> HIDE DEF d
    <2>4. /\ "*" \notin Addresses \cup DOMAIN Network /\ DOMAIN Network \cap Addresses = {}
        BY TrustedSourceAssumption
    <2>5. ~list[a].all /\ list[a].ips = d.ips /\ added[a] = d.ips \cup Range(d.nets) BY <1>7
    <2>6. "*" \notin added[a] BY <1>1, <2>3, <2>4, <2>5
    <2>7. added[a] \cap Addresses = d.ips BY <1>1, <2>3, <2>4, <2>5
    <2>8. added[a] \cap DOMAIN Network = Range(d.nets) BY <1>1, <2>3, <2>4, <2>5
    <2> QED BY <2>2, <2>5, <2>6, <2>7, <2>8 DEF Holds
<1>10. DOMAIN added = Apps BY DEF InitLists, Apps
<1>11. \A a \in Apps : InArray(list[a], array)
    BY <1>1, <1>6, <1>7, LenProperties, ElementOfSeq DEF InArray
<1> QED BY <1>1, <1>6, <1>8, <1>9, <1>10, <1>11 DEF ListsInv

LEMMA ClearInv == ASSUME ListsInv, NEW a \in Apps, Clear(a) PROVE ListsInv'
<1> DEFINE l == Cleared(list[a])
<1>1. /\ list' = [list EXCEPT ![a] = l] /\ array' = array
      /\ added' = [added EXCEPT ![a] = {}] /\ overwritten' = overwritten \ {a} /\ kind' = kind
    BY DEF Clear, Become
<1>2. Apps' = Apps BY <1>1 DEF Apps
<1>3. list[a] \in List BY DEF ListsInv
<1>4. l \in List /\ ~l.shared /\ l.own = {} /\ ~l.all /\ l.ips = {} BY <1>3 DEF Cleared, List
<1>5. Holds(l, array, {}) BY <1>4 DEF Holds, TrustedNetworks
<1>6. list' \in [Apps -> List] /\ DOMAIN added' = Apps BY <1>1, <1>4 DEF ListsInv
<1>7. ASSUME NEW b \in Apps
      PROVE  /\ InArray(list'[b], array)
             /\ b \notin overwritten' => Holds(list'[b], array, added'[b])
    <2>1. CASE b = a BY <1>1, <1>4, <1>5, <2>1 DEF ListsInv, InArray
    <2>2. CASE b # a BY <1>1, <2>2 DEF ListsInv
    <2> QED BY <2>1, <2>2
<1> QED BY <1>1, <1>2, <1>6, <1>7 DEF ListsInv

\* A list and the array of the default, before or after an append.
States == {s \in [l : List, arr : Seq(DOMAIN Network \cup {Nil})] : InArray(s.l, s.arr)}

\* append adds the network, and writes to the array only behind the list.
LEMMA AppendIs ==
    ASSUME NEW s \in States, NEW n \in DOMAIN Network
    PROVE  /\ AppendNetwork(s, n) \in States
           /\ AppendNetwork(s, n).l.all = s.l.all /\ AppendNetwork(s, n).l.ips = s.l.ips
           /\ TrustedNetworks(AppendNetwork(s, n).l, AppendNetwork(s, n).arr) =
                TrustedNetworks(s.l, s.arr) \cup {n}
           /\ Len(AppendNetwork(s, n).arr) = Len(s.arr)
           /\ \A i \in 1..Len(s.arr) : (i <= s.l.len \/ ~s.l.shared) => AppendNetwork(s, n).arr[i] = s.arr[i]
           /\ ~s.l.shared => AppendNetwork(s, n).arr = s.arr /\ ~AppendNetwork(s, n).l.shared
<1> DEFINE t == AppendNetwork(s, n)
           A == Seq(DOMAIN Network \cup {Nil})
<1>1. s.l \in List /\ s.arr \in A /\ s.l.len \in Nat /\ InArray(s.l, s.arr) BY DEF States, List
<1>2. Len(s.arr) \in Nat /\ DOMAIN s.arr = 1..Len(s.arr) BY <1>1, LenProperties
<1>3. CASE s.l.shared /\ s.l.len < Len(s.arr)
    <2>1. t = [l |-> [s.l EXCEPT !.len = @ + 1], arr |-> [s.arr EXCEPT ![s.l.len + 1] = n]]
        BY <1>3 DEF AppendNetwork
    <2>2. s.l.len + 1 \in 1..Len(s.arr) BY <1>1, <1>2, <1>3
    <2>3. t.arr \in A /\ Len(t.arr) = Len(s.arr) BY <1>1, <2>1, <2>2, ExceptSeq
    <2>4. t.l \in List /\ t.l.len = s.l.len + 1 /\ t.l.shared /\ t.l.all = s.l.all /\ t.l.ips = s.l.ips
        <3>1. t.l = [s.l EXCEPT !.len = s.l.len + 1] BY <2>1
        <3> HIDE DEF t
        <3> QED BY <1>1, <1>3, <3>1 DEF List
    <2>5. t.arr[s.l.len + 1] = n /\ \A i \in 1..s.l.len : t.arr[i] = s.arr[i]
        BY <1>1, <1>2, <2>1, <2>2
    <2>6. TrustedNetworks(t.l, t.arr) = {t.arr[i] : i \in 1..(s.l.len + 1)} BY <2>4 DEF TrustedNetworks
    <2>7. TrustedNetworks(s.l, s.arr) = {s.arr[i] : i \in 1..s.l.len} BY <1>3 DEF TrustedNetworks
    <2>8. 1..(s.l.len + 1) = 1..s.l.len \cup {s.l.len + 1} BY <1>1
    <2>9. TrustedNetworks(t.l, t.arr) = TrustedNetworks(s.l, s.arr) \cup {n}
        BY <2>5, <2>6, <2>7, <2>8
    <2>10. t \in States
        <3>1. t \in [l : List, arr : A] BY <2>1, <2>3, <2>4
        <3> HIDE DEF t
        <3>2. InArray(t.l, t.arr) BY <1>1, <1>3, <2>2, <2>3, <2>4, <2>5, <2>8 DEF InArray
        <3> QED BY <3>1, <3>2 DEF States
    <2>11. \A i \in 1..Len(s.arr) : (i <= s.l.len \/ ~s.l.shared) => t.arr[i] = s.arr[i]
        BY <1>1, <1>3, <2>5
    <2> HIDE DEF t
    <2> QED BY <1>3, <2>3, <2>4, <2>9, <2>10, <2>11 DEF t
<1>4. CASE ~(s.l.shared /\ s.l.len < Len(s.arr))
    <2> DEFINE own == TrustedNetworks(s.l, s.arr) \cup {n}
               m == [s.l EXCEPT !.shared = FALSE, !.len = 0, !.own = own]
    <2>1. t = [s EXCEPT !.l = m] BY <1>4 DEF AppendNetwork
    <2>2. s \in [l : List, arr : A] BY DEF States
    <2>3. t.l = m /\ t.arr = s.arr BY <2>1, <2>2
    <2>4. own \in SUBSET DOMAIN Network BY <1>1 DEF TrustedNetworks, InArray, List
    <2>5. m \in List /\ ~m.shared /\ m.own = own /\ m.all = s.l.all /\ m.ips = s.l.ips
        <3> HIDE DEF own
        <3> QED BY <1>1, <2>4 DEF List
    <2> HIDE DEF m, own
    <2>6. t \in [l : List, arr : A] BY <2>1, <2>2, <2>5
    <2> HIDE DEF t
    <2>7. t \in States BY <2>3, <2>5, <2>6 DEF States, InArray
    <2>8. TrustedNetworks(t.l, t.arr) = own BY <2>3, <2>5 DEF TrustedNetworks
    <2> QED BY <2>3, <2>5, <2>7, <2>8 DEF own, t
<1> QED BY <1>3, <1>4

\* Add, on one list: it holds one entry more.
LEMMA AddedIs ==
    ASSUME NEW s \in States, NEW entries, Holds(s.l, s.arr, entries), NEW entry
    PROVE  Holds(Added(s, entry).l, Added(s, entry).arr, entries \cup {entry})
<1> DEFINE t == Added(s, entry)
           E == entries \cup {entry}
<1>1. /\ "*" \notin Addresses \cup DOMAIN Network /\ DOMAIN Network \cap Addresses = {}
    BY TrustedSourceAssumption
<1>2. s.l \in List /\ s \in [l : List, arr : Seq(DOMAIN Network \cup {Nil})] BY DEF States
<1>3. CASE entry = "*"
    <2>1. t = [s EXCEPT !.l.all = TRUE] BY <1>1, <1>3 DEF Added
    <2>2. t.l = [s.l EXCEPT !.all = TRUE] /\ t.arr = s.arr BY <1>2, <2>1
    <2> HIDE DEF t
    <2>3. t.l.all /\ t.l.ips = s.l.ips /\ TrustedNetworks(t.l, t.arr) = TrustedNetworks(s.l, s.arr)
        BY <1>2, <2>2 DEF List, TrustedNetworks
    <2> QED BY <1>1, <1>3, <2>3 DEF Holds, t
<1>4. CASE entry \in DOMAIN Network
    <2>1. entry # "*" /\ entry \notin Addresses BY <1>1, <1>4
    <2>2. t = AppendNetwork(s, entry) BY <1>4, <2>1 DEF Added
    <2> HIDE DEF t
    <2>3. t.l.all = s.l.all /\ t.l.ips = s.l.ips
          /\ TrustedNetworks(t.l, t.arr) = TrustedNetworks(s.l, s.arr) \cup {entry}
        BY <1>4, <2>2, AppendIs
    <2> QED BY <1>4, <2>1, <2>3 DEF Holds, t
<1>5. CASE entry \in Addresses
    <2>1. entry # "*" /\ entry \notin DOMAIN Network BY <1>1, <1>5
    <2>2. t = [s EXCEPT !.l.ips = s.l.ips \cup {entry}] BY <1>5, <2>1 DEF Added
    <2>3. t.l = [s.l EXCEPT !.ips = s.l.ips \cup {entry}] /\ t.arr = s.arr BY <1>2, <2>2
    <2> HIDE DEF t
    <2>4. t.l.all = s.l.all /\ t.l.ips = s.l.ips \cup {entry}
          /\ TrustedNetworks(t.l, t.arr) = TrustedNetworks(s.l, s.arr)
        BY <1>2, <2>3 DEF List, TrustedNetworks
    <2> QED BY <1>5, <2>1, <2>4 DEF Holds, t
<1>6. CASE entry # "*" /\ entry \notin DOMAIN Network \cup Addresses
    <2>1. t = s BY <1>6 DEF Added
    <2> HIDE DEF t
    <2> QED BY <1>6, <2>1 DEF Holds, t
<1> QED BY <1>3, <1>4, <1>5, <1>6

\* and the array is written behind the list only.
LEMMA AddedArray ==
    ASSUME NEW s \in States, NEW entry
    PROVE  /\ Added(s, entry) \in States
           /\ Len(Added(s, entry).arr) = Len(s.arr)
           /\ \A i \in 1..Len(s.arr) :
                \/ Added(s, entry).arr[i] = s.arr[i]
                \/ s.l.shared /\ i > s.l.len /\ Added(s, entry).arr[i] \in DOMAIN Network
           /\ ~s.l.shared => Added(s, entry).arr = s.arr /\ ~Added(s, entry).l.shared
<1> DEFINE t == Added(s, entry)
<1>1. /\ "*" \notin Addresses \cup DOMAIN Network /\ DOMAIN Network \cap Addresses = {}
    BY TrustedSourceAssumption
<1>2. s.l \in List /\ s \in [l : List, arr : Seq(DOMAIN Network \cup {Nil})] /\ InArray(s.l, s.arr)
    BY DEF States
<1>3. CASE entry = "*"
    <2>1. t = [s EXCEPT !.l.all = TRUE] BY <1>1, <1>3 DEF Added
    <2>2. t.l = [s.l EXCEPT !.all = TRUE] /\ t.arr = s.arr /\ t \in [l : {t.l}, arr : {t.arr}] BY <1>2, <2>1
    <2> HIDE DEF t
    <2>3. t.l \in List /\ t.l.shared = s.l.shared /\ t.l.len = s.l.len BY <1>2, <2>2 DEF List
    <2>4. t \in States BY <1>2, <2>2, <2>3 DEF States, InArray
    <2> QED BY <2>2, <2>3, <2>4 DEF t
<1>4. CASE entry \in DOMAIN Network
    <2>1. t = AppendNetwork(s, entry) BY <1>1, <1>4 DEF Added
    <2> HIDE DEF t
    <2>2. /\ t \in States /\ Len(t.arr) = Len(s.arr)
          /\ \A i \in 1..Len(s.arr) : (i <= s.l.len \/ ~s.l.shared) => t.arr[i] = s.arr[i]
          /\ ~s.l.shared => t.arr = s.arr /\ ~t.l.shared
        BY <1>4, <2>1, AppendIs
    <2>3. \A i \in 1..Len(s.arr) : t.arr[i] = s.arr[i] \/ t.arr[i] = entry
        <3>1. Len(s.arr) \in Nat /\ DOMAIN s.arr = 1..Len(s.arr) BY <1>2, LenProperties
        <3> QED BY <1>2, <2>1, <3>1 DEF AppendNetwork
    <2> QED BY <1>2, <1>4, <2>2, <2>3 DEF t, List
<1>5. CASE entry \in Addresses
    <2>1. entry # "*" /\ entry \notin DOMAIN Network BY <1>1, <1>5
    <2>2. t = [s EXCEPT !.l.ips = s.l.ips \cup {entry}] BY <1>5, <2>1 DEF Added
    <2>3. t.l = [s.l EXCEPT !.ips = s.l.ips \cup {entry}] /\ t.arr = s.arr /\ t \in [l : {t.l}, arr : {t.arr}]
        BY <1>2, <2>2
    <2> HIDE DEF t
    <2>4. t.l \in List /\ t.l.shared = s.l.shared /\ t.l.len = s.l.len BY <1>2, <1>5, <2>3 DEF List
    <2>5. t \in States BY <1>2, <2>3, <2>4 DEF States, InArray
    <2> QED BY <2>3, <2>4, <2>5 DEF t
<1>6. CASE entry # "*" /\ entry \notin DOMAIN Network \cup Addresses
    <2>1. t = s BY <1>6 DEF Added
    <2> HIDE DEF t
    <2> QED BY <2>1 DEF t
<1> QED BY <1>3, <1>4, <1>5, <1>6

LEMMA AddInv == ASSUME ListsInv, NEW a \in Apps, NEW entry, Add(a, entry) PROVE ListsInv'
<1> DEFINE s == [l |-> list[a], arr |-> array]
           t == Added(s, entry)
<1>1. /\ list' = [list EXCEPT ![a] = t.l] /\ array' = t.arr
      /\ added' = [added EXCEPT ![a] = added[a] \cup {entry}]
      /\ overwritten' = overwritten \cup Overwrites(a, t.arr) /\ kind' = kind
    BY DEF Add, Become
<1>2. Apps' = Apps BY <1>1 DEF Apps
<1>3. s \in States
    <2>1. list[a] \in List /\ InArray(list[a], array) BY DEF ListsInv
    <2> QED BY <2>1 DEF ListsInv, States
<1>4. s.l = list[a] /\ s.arr = array OBVIOUS
<1> HIDE DEF s
<1>5. /\ t \in States /\ Len(t.arr) = Len(array)
      /\ \A i \in 1..Len(array) : t.arr[i] = array[i] \/ (list[a].shared /\ i > list[a].len /\ t.arr[i] \in DOMAIN Network)
    BY <1>3, <1>4, AddedArray
<1>6. a \notin overwritten => Holds(t.l, t.arr, added[a] \cup {entry})
    BY <1>3, <1>4, AddedIs DEF ListsInv
<1> HIDE DEF t
<1>7. t.l \in List /\ t.arr \in Seq(DOMAIN Network \cup {Nil}) /\ InArray(t.l, t.arr) BY <1>5 DEF States
<1>8. list' \in [Apps -> List] /\ DOMAIN added' = Apps BY <1>1, <1>7 DEF ListsInv
<1>9. ASSUME NEW b \in Apps
      PROVE  /\ InArray(list'[b], array')
             /\ b \notin overwritten' => Holds(list'[b], array', added'[b])
    <2>1. CASE b = a BY <1>1, <1>6, <1>7, <2>1 DEF ListsInv
    <2>2. CASE b # a
        <3>1. list'[b] = list[b] /\ added'[b] = added[b] BY <1>1, <2>2 DEF ListsInv
        <3>2. list[b] \in List /\ list[b].len \in Nat /\ InArray(list[b], array) BY DEF ListsInv, List
        <3>3. Len(array) \in Nat BY LenProperties DEF ListsInv
        <3>4. InArray(list[b], t.arr) BY <1>5, <3>2, <3>3 DEF InArray
        <3>5. ASSUME b \notin overwritten' PROVE TrustedNetworks(list[b], t.arr) = TrustedNetworks(list[b], array)
            <4>1. b \notin Overwrites(a, t.arr) BY <1>1, <3>5
            <4>2. CASE t.arr = array BY <4>2
            <4>3. CASE ~list[b].shared BY <4>3 DEF TrustedNetworks
            <4>4. CASE list[b].shared /\ ~(list[b].len > list[a].len)
                <5>1. list[a].len \in Nat BY DEF ListsInv, List
                <5>2. \A i \in 1..list[b].len : i \in 1..Len(array) /\ ~(i > list[a].len)
                    BY <3>2, <3>3, <4>4, <5>1 DEF InArray
                <5>3. \A i \in 1..list[b].len : t.arr[i] = array[i] BY <1>5, <5>2
                <5> QED BY <4>4, <5>3 DEF TrustedNetworks
            <4> QED BY <2>2, <4>1, <4>2, <4>3, <4>4 DEF Overwrites
        <3>6. b \notin overwritten' => b \notin overwritten BY <1>1
        <3> QED BY <1>1, <3>1, <3>4, <3>5, <3>6 DEF ListsInv, Holds
    <2> QED BY <2>1, <2>2
<1> QED BY <1>1, <1>2, <1>7, <1>8, <1>9 DEF ListsInv

\* ApplyConfig: a list that was cleared, with the entries added one by one.
LEMMA ConfiguredIs ==
    ASSUME NEW s \in States, ~s.l.shared, Holds(s.l, s.arr, {}),
           NEW S, NEW entries \in Seq(S)
    PROVE  LET t == FoldLeft(Added, s, entries)
           IN  t \in States /\ t.arr = s.arr /\ ~t.l.shared /\ Holds(t.l, t.arr, ToSet(entries))
<1> DEFINE n == Len(entries)
           V == {t \in States : t.arr = s.arr /\ ~t.l.shared}
           G == [x \in (1..n) \X V |-> Added(x[2], entries[x[1]])]
           Folds(f) == f = [i \in SUBSET DOMAIN entries |->
                        IF i = {} THEN s ELSE Added(f[i \ {Max(i)}], entries[Max(i)])]
           f == CHOOSE f : Folds(f)
<1>1. n \in Nat /\ DOMAIN entries = 1..n BY LenProperties
<1>2. \A t \in V : \A e : Added(t, e) \in V BY AddedArray
<1>3. G \in [(1..n) \X V -> V] BY <1>2
<1>4. s \in V OBVIOUS
<1>5. PICK g \in [SUBSET (1..n) -> V] : Iterates(g, n, s, G)
    <2> HIDE DEF G, V, n
    <2> QED BY <1>1, <1>3, <1>4, FoldExists
<1>6. ASSUME NEW i \in SUBSET (1..n), i # {} PROVE Max(i) \in 1..n
    <2>1. i \in SUBSET (0..n) BY <1>1
    <2> HIDE DEF n
    <2>2. Max(i) \in i BY <1>1, <1>6, <2>1, MaxOfNat
    <2> QED BY <2>2
<1>7. Folds(g)
    <2> SUFFICES ASSUME NEW i \in SUBSET (1..n)
                 PROVE  g[i] = IF i = {} THEN s ELSE Added(g[i \ {Max(i)}], entries[Max(i)])
        BY <1>1
    <2>1. CASE i # {}
        <3>1. i \ {Max(i)} \in SUBSET (1..n) OBVIOUS
        <3>2. G[<<Max(i), g[i \ {Max(i)}]>>] = Added(g[i \ {Max(i)}], entries[Max(i)])
            BY <1>6, <2>1, <3>1
        <3> QED BY <1>5, <2>1, <3>2 DEF Iterates
    <2> QED BY <1>5, <2>1 DEF Iterates
<1>8. Folds(f)
    <2> HIDE DEF Folds
    <2> QED BY <1>7
<1>9. IteratesIn(f, n, V, s, G)
    <2> HIDE DEF f
    <2>1. f[{}] = s BY <1>1, <1>8
    <2>2. ASSUME NEW i \in SUBSET (1..n), i # {}, f[i \ {Max(i)}] \in V
          PROVE  f[i] = G[<<Max(i), f[i \ {Max(i)}]>>]
        <3>1. f[i] = Added(f[i \ {Max(i)}], entries[Max(i)]) BY <1>1, <1>8, <2>2
        <3> QED BY <1>6, <2>2, <3>1
    <2> HIDE DEF V, G, n
    <2> QED BY <2>1, <2>2 DEF IteratesIn
<1>10. /\ \A k \in 0..n : f[1..k] \in V
       /\ f[1..0] = s
       /\ \A k \in 1..n : f[1..k] = G[<<k, f[1..(k - 1)]>>]
    <2> HIDE DEF f, V, G, n, Folds
    <2>1. IsChain(f, n, V, s, G) BY <1>1, <1>3, <1>4, <1>9, FoldChain
    <2> QED BY <2>1 DEF IsChain
<1>11. FoldLeft(Added, s, entries) = f[1..n] BY <1>1 DEF FoldLeft, MapThenFoldSet
<1> HIDE DEF f
<1> DEFINE First(k) == {entries[i] : i \in 1..k}
           Good == {k \in Nat : k <= n => Holds(f[1..k].l, f[1..k].arr, First(k))}
<1>12. 0 \in Good
    <2>1. First(0) = {} OBVIOUS
    <2> QED BY <1>10, <2>1
<1>13. ASSUME NEW k \in Good PROVE k + 1 \in Good
    <2> SUFFICES ASSUME k + 1 <= n
                 PROVE  Holds(f[1..(k + 1)].l, f[1..(k + 1)].arr, First(k + 1))
        OBVIOUS
    <2>1. k \in 0..n /\ k + 1 \in 1..n /\ (k + 1) - 1 = k /\ k <= n BY <1>1
    <2>2. f[1..k] \in V /\ f[1..k] \in States /\ Holds(f[1..k].l, f[1..k].arr, First(k)) BY <1>10, <2>1
    <2>3. f[1..(k + 1)] = G[<<k + 1, f[1..k]>>] BY <1>10, <2>1
    <2>4. f[1..(k + 1)] = Added(f[1..k], entries[k + 1]) BY <2>1, <2>2, <2>3
    <2>5. First(k + 1) = First(k) \cup {entries[k + 1]} BY <2>1
    <2> DEFINE t == f[1..k]
               E == First(k)
    <2>6. t \in States /\ Holds(t.l, t.arr, E) BY <2>2
    <2> HIDE DEF t, E
    <2>7. Holds(Added(t, entries[k + 1]).l, Added(t, entries[k + 1]).arr, E \cup {entries[k + 1]})
        BY <2>6, AddedIs
    <2> HIDE DEF First, n, V, G, Good
    <2> QED BY <2>4, <2>5, <2>7 DEF t, E
<1>14. Good = Nat
    <2>1. Good \in SUBSET Nat OBVIOUS
    <2> HIDE DEF Good
    <2> QED BY <1>12, <1>13, <2>1, SetInduction
<1>15. Holds(f[1..n].l, f[1..n].arr, First(n))
    <2> HIDE DEF n, First
    <2> QED BY <1>1, <1>14
<1>16. First(n) = ToSet(entries) BY <1>1 DEF ToSet
<1>17. f[1..n] \in V BY <1>1, <1>10
<1> QED BY <1>11, <1>15, <1>16, <1>17

LEMMA ConfigureInv ==
    ASSUME ListsInv, NEW a \in Apps, NEW c \in Configs, Configure(a, c.address)
    PROVE  ListsInv'
<1> DEFINE l == Cleared(list[a])
           s == [l |-> l, arr |-> array]
           t == FoldLeft(Added, s, c.address)
<1>1. /\ list' = [list EXCEPT ![a] = t.l] /\ array' = t.arr
      /\ added' = [added EXCEPT ![a] = ToSet(c.address)]
      /\ overwritten' = overwritten \ {a} /\ kind' = kind
    BY DEF Configure, Become
<1>2. Apps' = Apps BY <1>1 DEF Apps
<1>3. list[a] \in List BY DEF ListsInv
<1>4. l \in List /\ ~l.shared /\ l.own = {} /\ ~l.all /\ l.ips = {} BY <1>3 DEF Cleared, List
<1>5. s \in States /\ ~s.l.shared /\ s.arr = array /\ Holds(s.l, s.arr, {})
    <2> HIDE DEF l
    <2> QED BY <1>4 DEF Holds, TrustedNetworks, States, InArray, ListsInv
<1>6. c.address \in Seq(ToSet(c.address)) BY RealIPAssumption
<1> HIDE DEF s
<1>7. t \in States /\ t.arr = array /\ ~t.l.shared /\ Holds(t.l, t.arr, ToSet(c.address))
    BY <1>5, <1>6, ConfiguredIs
<1> HIDE DEF t
<1>8. t.l \in List BY <1>7 DEF States
<1>9. list' \in [Apps -> List] /\ DOMAIN added' = Apps BY <1>1, <1>8 DEF ListsInv
<1>10. ASSUME NEW b \in Apps
       PROVE  /\ InArray(list'[b], array)
              /\ b \notin overwritten' => Holds(list'[b], array, added'[b])
    <2>1. CASE b = a BY <1>1, <1>7, <2>1 DEF ListsInv, InArray
    <2>2. CASE b # a BY <1>1, <2>2 DEF ListsInv
    <2> QED BY <2>1, <2>2
<1> QED BY <1>1, <1>2, <1>7, <1>9, <1>10 DEF ListsInv

-----------------------------------------------------------------------------
(* The text of a header                                                    *)

\* k is the place of the last comma of x, and where it has none.
LastComma(x, k) == k \in 1..Len(x) /\ x[k] = "comma" /\ \A j \in (k + 1)..Len(x) : x[j] # "comma"
NoComma(x) == \A j \in 1..Len(x) : x[j] # "comma"

LEMMA SelectComma ==
    ASSUME NEW x \in Seq(Tokens)
    PROVE  LET k == SelectLastInSeq(x, LAMBDA t : t = "comma")
           IN  (k = 0 /\ NoComma(x)) \/ LastComma(x, k)
<1> DEFINE I == {i \in 1..Len(x) : x[i] = "comma"}
<1>1. Len(x) \in Nat BY LenProperties
<1>2. I = {} => NoComma(x) BY DEF NoComma
<1>3. ASSUME I # {} PROVE LastComma(x, Max(I))
    <2>1. I \in SUBSET (0..Len(x)) BY <1>1
    <2>2. Max(I) \in I /\ \A y \in I : Max(I) >= y
        <3> HIDE DEF I
        <3> QED BY <1>1, <1>3, <2>1, MaxOfNat
    <2> DEFINE m == Max(I)
    <2>3. m \in 1..Len(x) /\ x[m] = "comma" BY <2>2
    <2>4. ASSUME NEW j \in (m + 1)..Len(x), x[j] = "comma" PROVE FALSE
        <3>1. m \in Nat /\ j \in 1..Len(x) /\ j > m BY <1>1, <2>3
        <3>2. j \in I BY <2>4, <3>1
        <3>3. m >= j BY <2>2, <3>2
        <3> QED BY <3>1, <3>3
    <2> HIDE DEF m
    <2> QED BY <2>3, <2>4 DEF LastComma, m
<1>4. SelectLastInSeq(x, LAMBDA t : t = "comma") = IF I # {} THEN Max(I) ELSE 0
    BY DEF SelectLastInSeq
<1> HIDE DEF I
<1> QED BY <1>2, <1>3, <1>4

LEMMA BlanksAre ==
    ASSUME NEW x \in Seq(Tokens), NEW p \in 0..Len(x)
    PROVE  /\ Blanks(x, p) \in 0..(Len(x) - p)
           /\ \A i \in 1..Blanks(x, p) : x[p + i] = "blank"
           /\ Blanks(x, p) = Len(x) - p \/ x[p + Blanks(x, p) + 1] # "blank"
<1> DEFINE B == {n \in 0..(Len(x) - p) : \A i \in 1..n : x[p + i] = "blank"}
           b == Max(B)
<1>1. Len(x) \in Nat /\ Len(x) - p \in Nat BY LenProperties
<1>2. 0 \in B BY <1>1
<1>3. b \in B /\ \A y \in B : b >= y
    <2>1. B \in SUBSET (0..(Len(x) - p)) /\ B # {} BY <1>2
    <2> HIDE DEF B
    <2> QED BY <1>1, <2>1, MaxOfNat
<1>4. ASSUME b # Len(x) - p, x[p + b + 1] = "blank" PROVE FALSE
    <2>1. b + 1 \in 0..(Len(x) - p) BY <1>1, <1>3, <1>4
    <2>2. \A i \in 1..(b + 1) : x[p + i] = "blank"
        <3> TAKE i \in 1..(b + 1)
        <3>1. CASE i = b + 1
            <4>1. p + i = p + b + 1 BY <1>1, <1>3, <3>1
            <4> QED BY <1>4, <4>1
        <3>2. CASE i # b + 1
            <4>1. i \in 1..b BY <1>3, <3>2
            <4> QED BY <1>3, <4>1
        <3> QED BY <3>1, <3>2
    <2>3. b + 1 \in B BY <2>1, <2>2
    <2>4. b \in Nat BY <1>1, <1>3
    <2>5. b >= b + 1 BY <1>3, <2>3
    <2> HIDE DEF b
    <2> QED BY <2>4, <2>5
<1> QED BY <1>3, <1>4 DEF Blanks

\* Counting commas from the right.
LEMMA CommasNone ==
    ASSUME NEW text \in Seq(Tokens) PROVE CommasAfter(text, Len(text)) = 0
<1>1. Len(text) \in Nat BY LenProperties
<1>2. {j \in (Len(text) + 1)..Len(text) : text[j] = "comma"} = {} BY <1>1
<1> QED BY <1>2, FS_EmptySet DEF CommasAfter

LEMMA CommasNat ==
    ASSUME NEW text \in Seq(Tokens), NEW i \in 0..Len(text)
    PROVE  CommasAfter(text, i) \in Nat
<1>1. Len(text) \in Nat BY LenProperties
<1>2. IsFiniteSet((i + 1)..Len(text)) BY <1>1, FS_Interval
<1>3. IsFiniteSet({j \in (i + 1)..Len(text) : text[j] = "comma"}) BY <1>2, FS_Subset
<1> QED BY <1>3, FS_CardinalityType DEF CommasAfter

LEMMA CommasLess ==
    ASSUME NEW text \in Seq(Tokens), NEW m \in 0..Len(text), NEW k \in 1..m, text[k] = "comma"
    PROVE  /\ CommasAfter(text, k - 1) >= CommasAfter(text, m) + 1
           /\ (\A j \in (k + 1)..m : text[j] # "comma") =>
                CommasAfter(text, k - 1) = CommasAfter(text, m) + 1
<1> DEFINE C(i) == {j \in (i + 1)..Len(text) : text[j] = "comma"}
<1>1. Len(text) \in Nat BY LenProperties
<1>2. \A i \in 0..Len(text) : IsFiniteSet(C(i))
    <2> TAKE i \in 0..Len(text)
    <2>1. IsFiniteSet((i + 1)..Len(text)) BY <1>1, FS_Interval
    <2> QED BY <2>1, FS_Subset
<1>3. k \notin C(m) /\ C(m) \cup {k} \subseteq C(k - 1) /\ k - 1 \in 0..Len(text) BY <1>1
<1>4. /\ IsFiniteSet(C(m) \cup {k}) /\ Cardinality(C(m) \cup {k}) = Cardinality(C(m)) + 1
    <2>1. IsFiniteSet(C(m)) BY <1>2
    <2> HIDE DEF C
    <2> QED BY <1>3, <2>1, FS_AddElement
<1>5. Cardinality(C(m) \cup {k}) <= Cardinality(C(k - 1))
    <2>1. IsFiniteSet(C(k - 1)) BY <1>2, <1>3
    <2> HIDE DEF C
    <2> QED BY <1>3, <2>1, FS_Subset
<1>6. ASSUME \A j \in (k + 1)..m : text[j] # "comma"
      PROVE  Cardinality(C(k - 1)) = Cardinality(C(m)) + 1
    <2>1. C(k - 1) = C(m) \cup {k} BY <1>1, <1>6
    <2> HIDE DEF C
    <2> QED BY <1>4, <2>1
<1>7. /\ Cardinality(C(k - 1)) \in Nat /\ Cardinality(C(m)) \in Nat
    BY <1>2, <1>3, FS_CardinalityType
<1>8. CommasAfter(text, k - 1) = Cardinality(C(k - 1)) /\ CommasAfter(text, m) = Cardinality(C(m))
    BY DEF CommasAfter
<1> HIDE DEF C
<1> QED BY <1>4, <1>5, <1>6, <1>7, <1>8

-----------------------------------------------------------------------------
(* The loop of forwardedFor                                                *)

Begins(x, text) == Len(x) <= Len(text) /\ \A j \in 1..Len(x) : x[j] = text[j]

\* p is behind the last comma and some of the blanks that follow it.
AtComma(s) ==
    /\ ~s.break /\ s.c > 0 /\ s.c <= s.p /\ s.p <= Len(s.xff)
    /\ LastComma(s.xff, s.p - s.c + 1)
    /\ \A j \in (s.p - s.c + 2)..s.p : s.xff[j] = "blank"

\* The states of the loop: before the first round, after a round that found a
\* comma, after the one that found none.
Loop(text) ==
    {s \in [xff : Seq(Tokens), p : Nat, c : Nat, break : BOOLEAN] :
        /\ Begins(s.xff, text)
        /\ \/ s.p = 0 /\ s.c = 0 /\ s.xff = text /\ ~s.break
           \/ s.break /\ s.p = 0 /\ NoComma(s.xff)
           \/ AtComma(s)}

Kept(s) == IF s.p - s.c > 0 THEN SubSeq(s.xff, 1, s.p - s.c) ELSE s.xff

LEMMA KeptIs ==
    ASSUME NEW text \in Seq(Tokens), NEW s \in Loop(text)
    PROVE  /\ Kept(s) \in Seq(Tokens) /\ Begins(Kept(s), text)
           /\ Len(Kept(s)) = IF s.p - s.c > 0 THEN s.p - s.c ELSE Len(s.xff)
<1>1. s.xff \in Seq(Tokens) /\ Begins(s.xff, text) /\ s.p \in Nat /\ s.c \in Nat
    BY DEF Loop
<1>2. Len(s.xff) \in Nat /\ Len(text) \in Nat BY <1>1, LenProperties
<1>3. CASE s.p - s.c > 0
    <2>1. AtComma(s) BY <1>1, <1>3 DEF Loop
    <2> DEFINE n == s.p - s.c
               x == SubSeq(s.xff, 1, n)
    <2>2. n \in Nat /\ n <= Len(s.xff) BY <1>1, <1>2, <1>3, <2>1 DEF AtComma
    <2>3. \A i \in 1..n : s.xff[i] \in Tokens BY <1>1, <1>2, <2>2, ElementOfSeq
    <2>4. x \in Seq(Tokens) /\ Len(x) = n /\ \A i \in 1..n : x[i] = s.xff[i]
        <3>1. 1 \in Int /\ n \in Int /\ 1 <= n /\ n - 1 + 1 = n BY <1>3, <2>2
        <3> HIDE DEF n
        <3>2. /\ SubSeq(s.xff, 1, n) \in Seq(Tokens)
              /\ Len(SubSeq(s.xff, 1, n)) = IF 1 <= n THEN n - 1 + 1 ELSE 0
              /\ \A i \in 1..(n - 1 + 1) : SubSeq(s.xff, 1, n)[i] = s.xff[1 + i - 1]
            BY <2>3, <3>1, SubSeqProperties
        <3>3. \A i \in 1..n : 1 + i - 1 = i BY <2>2
        <3> QED BY <3>1, <3>2, <3>3
    <2>5. Kept(s) = x BY <1>3 DEF Kept
    <2>6. Len(Kept(s)) = n BY <2>4, <2>5
    <2> HIDE DEF x
    <2>7. n = IF s.p - s.c > 0 THEN s.p - s.c ELSE Len(s.xff) BY <1>3
    <2> HIDE DEF n
    <2>8. Begins(x, text) BY <1>1, <1>2, <2>2, <2>4 DEF Begins
    <2> QED BY <2>4, <2>5, <2>6, <2>7, <2>8
<1>4. CASE ~(s.p - s.c > 0) BY <1>1, <1>4 DEF Kept
<1> QED BY <1>3, <1>4

\* One round leaves out the entry behind the last comma, and finds the next one.
LEMMA CutIs ==
    ASSUME NEW text \in Seq(Tokens), NEW s \in Loop(text)
    PROVE  /\ Cut(s) \in Loop(text) /\ Cut(s).xff = Kept(s)
           /\ \/ AtComma(Cut(s))
              \/ Cut(s).break /\ Cut(s).p = 0 /\ NoComma(Cut(s).xff)
<1> DEFINE x == Kept(s)
           k == SelectLastInSeq(x, LAMBDA t : t = "comma")
           n == Blanks(x, k)
<1>1. x \in Seq(Tokens) /\ Begins(x, text) BY KeptIs
<1>2. Len(x) \in Nat /\ s.c \in Nat BY <1>1, LenProperties DEF Loop
<1>3. Cut(s) = IF k = 0 THEN [xff |-> x, p |-> 0, c |-> s.c, break |-> TRUE]
               ELSE [xff |-> x, p |-> k + n, c |-> 1 + n, break |-> FALSE]
    BY DEF Cut, Kept
<1>4. (k = 0 /\ NoComma(x)) \/ LastComma(x, k)
    <2> HIDE DEF x
    <2> QED BY <1>1, SelectComma
<1> HIDE DEF k, x
<1>5. CASE k = 0
    <2>1. Cut(s) = [xff |-> x, p |-> 0, c |-> s.c, break |-> TRUE] BY <1>3, <1>5
    <2>2. NoComma(x) BY <1>4, <1>5 DEF LastComma
    <2>3. Cut(s) \in Loop(text) BY <1>1, <1>2, <2>1, <2>2 DEF Loop
    <2> QED BY <2>1, <2>2, <2>3 DEF x
<1>6. CASE k # 0
    <2>1. LastComma(x, k) /\ k \in 1..Len(x) /\ k \in 0..Len(x) BY <1>4, <1>6 DEF LastComma
    <2>2. /\ n \in 0..(Len(x) - k) /\ \A i \in 1..n : x[k + i] = "blank"
        BY <1>1, <2>1, BlanksAre
    <2> HIDE DEF n
    <2>3. Cut(s) = [xff |-> x, p |-> k + n, c |-> 1 + n, break |-> FALSE] BY <1>3, <1>6
    <2>4. /\ (k + n) - (1 + n) + 1 = k /\ (k + n) - (1 + n) + 2 = k + 1 /\ k + n <= Len(x)
          /\ 1 + n <= k + n /\ 1 + n > 0 /\ k + n \in Nat /\ 1 + n \in Nat
        BY <1>2, <2>1, <2>2
    <2>5. \A j \in (k + 1)..(k + n) : x[j] = "blank"
        <3> TAKE j \in (k + 1)..(k + n)
        <3>1. j - k \in 1..n /\ k + (j - k) = j BY <1>2, <2>1, <2>2
        <3> QED BY <2>2, <3>1
    <2>6. AtComma(Cut(s)) BY <2>1, <2>3, <2>4, <2>5 DEF AtComma
    <2>7. Cut(s) \in Loop(text) BY <1>1, <2>3, <2>4, <2>6 DEF Loop
    <2> QED BY <2>3, <2>6, <2>7 DEF x
<1> QED BY <1>5, <1>6

\* The rounds, one after the other.
LEMMA RoundsAre ==
    ASSUME NEW text \in Seq(Tokens), NEW limit \in Nat
    PROVE  \E r \in [0..limit -> Loop(text)] :
            /\ r[0] = [xff |-> text, p |-> 0, c |-> 0, break |-> FALSE]
            /\ \A i \in 1..limit : r[i] = IF r[i - 1].break THEN r[i - 1] ELSE Cut(r[i - 1])
            /\ Rounds(text, limit) = r[limit]
<1> DEFINE V == Loop(text)
           base == [xff |-> text, p |-> 0, c |-> 0, break |-> FALSE]
           G == [x \in (1..limit) \X V |-> IF x[2].break THEN x[2] ELSE Cut(x[2])]
           Is(f) == f = [i \in 0..limit |-> IF i = 0 THEN base
                         ELSE IF f[i - 1].break THEN f[i - 1] ELSE Cut(f[i - 1])]
           f == CHOOSE f : Is(f)
<1>1. base \in V BY LenProperties DEF Loop, Begins
<1>2. G \in [(1..limit) \X V -> V] BY CutIs
<1>3. PICK c \in [0..limit -> V] : Steps(c, limit, base, G)
    <2> HIDE DEF V, G, base
    <2> QED BY <1>1, <1>2, ChainExists
<1>4. \A k \in 1..limit : c[k] = IF c[k - 1].break THEN c[k - 1] ELSE Cut(c[k - 1])
    <2> TAKE k \in 1..limit
    <2>1. k - 1 \in 0..limit OBVIOUS
    <2>2. c[k - 1] \in V BY <2>1
    <2> HIDE DEF V
    <2> QED BY <1>3, <2>2 DEF Steps
<1> HIDE DEF V, G, base
<1>5. Is(c)
    <2> SUFFICES ASSUME NEW i \in 0..limit
                 PROVE  c[i] = IF i = 0 THEN base
                               ELSE IF c[i - 1].break THEN c[i - 1] ELSE Cut(c[i - 1])
        OBVIOUS
    <2>1. CASE i = 0 BY <1>3, <2>1 DEF Steps
    <2>2. CASE i # 0
        <3>1. i \in 1..limit BY <2>2
        <3> QED BY <1>4, <2>2, <3>1
    <2> QED BY <2>1, <2>2
<1>6. Is(f)
    <2> HIDE DEF Is
    <2> QED BY <1>5
<1>7. Rounds(text, limit) = f[limit] BY DEF Rounds, base
<1> HIDE DEF f
<1> DEFINE Good == {i \in Nat : i <= limit => f[i] = c[i]}
<1>8. 0 \in Good BY <1>3, <1>6 DEF Steps
<1>9. ASSUME NEW i \in Good PROVE i + 1 \in Good
    <2> SUFFICES ASSUME i + 1 <= limit PROVE f[i + 1] = c[i + 1]
        OBVIOUS
    <2>1. i + 1 \in 1..limit /\ i + 1 \in 0..limit /\ (i + 1) - 1 = i /\ i + 1 # 0 /\ f[i] = c[i] OBVIOUS
    <2>2. f[i + 1] = IF f[i].break THEN f[i] ELSE Cut(f[i]) BY <1>6, <2>1
    <2>3. c[i + 1] = IF c[i].break THEN c[i] ELSE Cut(c[i]) BY <1>4, <2>1
    <2> QED BY <2>1, <2>2, <2>3
<1>10. Good = Nat
    <2>1. Good \in SUBSET Nat OBVIOUS
    <2> HIDE DEF Good
    <2> QED BY <1>8, <1>9, <2>1, SetInduction
<1>11. f[limit] = c[limit] BY <1>10
<1> QED BY <1>3, <1>4, <1>7, <1>11 DEF V, base, Steps

\* A round leaves at most one comma more to the right, and exactly one if
\* there was an entry before it.
LEMMA CutCounts ==
    ASSUME NEW text \in Seq(Tokens), NEW s \in Loop(text)
    PROVE  IF s.p - s.c > 0
           THEN CommasAfter(text, Len(Cut(s).xff)) = CommasAfter(text, Len(s.xff)) + 1
           ELSE Len(Cut(s).xff) = Len(s.xff)
<1>1. Cut(s).xff = Kept(s) BY CutIs
<1>2. Len(Kept(s)) = IF s.p - s.c > 0 THEN s.p - s.c ELSE Len(s.xff) BY KeptIs
<1>3. CASE s.p - s.c > 0
    <2> DEFINE k == s.p - s.c + 1
               m == Len(s.xff)
    <2>1. s.xff \in Seq(Tokens) /\ Begins(s.xff, text) /\ s.p \in Nat /\ s.c \in Nat /\ AtComma(s)
        BY <1>3 DEF Loop
    <2>2. m \in Nat /\ Len(text) \in Nat BY <2>1, LenProperties
    <2>3. LastComma(s.xff, k) BY <2>1 DEF AtComma
    <2>4. k \in 1..m /\ m \in 0..Len(text) /\ k - 1 = s.p - s.c
        BY <2>1, <2>2, <2>3 DEF LastComma, Begins
    <2>5. text[k] = "comma" /\ \A j \in (k + 1)..m : text[j] # "comma"
        <3> HIDE DEF k
        <3>1. \A j \in (k + 1)..m : j \in 1..m BY <2>4
        <3> QED BY <2>1, <2>3, <2>4, <3>1 DEF LastComma, Begins
    <2> HIDE DEF k, m
    <2>6. CommasAfter(text, k - 1) = CommasAfter(text, m) + 1 BY <2>4, <2>5, CommasLess
    <2> QED BY <1>1, <1>2, <1>3, <2>4, <2>6 DEF m
<1>4. CASE ~(s.p - s.c > 0) BY <1>1, <1>2, <1>4
<1> QED BY <1>3, <1>4

\* No entry left of the limit is reached.
LEMMA RoundsCount ==
    ASSUME NEW text \in Seq(Tokens), NEW limit \in Nat
    PROVE  /\ Rounds(text, limit) \in Loop(text)
           /\ CommasAfter(text, Len(Rounds(text, limit).xff)) < (IF limit = 0 THEN 1 ELSE limit)
<1>1. PICK r \in [0..limit -> Loop(text)] :
        /\ r[0] = [xff |-> text, p |-> 0, c |-> 0, break |-> FALSE]
        /\ \A i \in 1..limit : r[i] = IF r[i - 1].break THEN r[i - 1] ELSE Cut(r[i - 1])
        /\ Rounds(text, limit) = r[limit]
    BY RoundsAre
<1> DEFINE C(i) == CommasAfter(text, Len(r[i].xff))
           Good == {i \in Nat : i <= limit => C(i) < (IF i = 0 THEN 1 ELSE i)}
<1>2. ASSUME NEW i \in 0..limit PROVE r[i] \in Loop(text) /\ C(i) \in Nat
    <2>1. r[i] \in Loop(text) OBVIOUS
    <2>2. r[i].xff \in Seq(Tokens) /\ Begins(r[i].xff, text) BY <2>1 DEF Loop
    <2>3. Len(r[i].xff) \in 0..Len(text) BY <2>2, LenProperties DEF Begins
    <2> QED BY <2>1, <2>3, CommasNat
<1>3. C(0) = 0 BY <1>1, CommasNone
<1>4. 0 \in Good BY <1>3
<1>5. ASSUME NEW i \in Good PROVE i + 1 \in Good
    <2> SUFFICES ASSUME i + 1 <= limit PROVE C(i + 1) < i + 1
        OBVIOUS
    <2>1. i \in 0..limit /\ i + 1 \in 1..limit /\ (i + 1) - 1 = i OBVIOUS
    <2>2. r[i + 1] = IF r[i].break THEN r[i] ELSE Cut(r[i]) BY <1>1, <2>1
    <2>3. C(i) < (IF i = 0 THEN 1 ELSE i) OBVIOUS
    <2>4. r[i] \in Loop(text) /\ C(i) \in Nat BY <1>2, <2>1
    <2>5. C(i + 1) = C(i) \/ (i # 0 /\ C(i + 1) = C(i) + 1)
        <3>1. CASE r[i].break BY <2>2, <3>1
        <3>2. CASE ~r[i].break
            <4>1. r[i + 1] = Cut(r[i]) BY <2>2, <3>2
            <4>2. CASE r[i].p - r[i].c > 0
                <5>1. i # 0 BY <1>1, <4>2
                <5>2. C(i + 1) = C(i) + 1 BY <2>4, <4>1, <4>2, CutCounts
                <5> QED BY <5>1, <5>2
            <4>3. CASE ~(r[i].p - r[i].c > 0)
                <5>1. Len(r[i + 1].xff) = Len(r[i].xff) BY <2>4, <4>1, <4>3, CutCounts
                <5> QED BY <5>1
            <4> QED BY <4>2, <4>3
        <3> QED BY <3>1, <3>2
    <2>6. i \in Nat OBVIOUS
    <2> HIDE DEF C, Good
    <2> QED BY <2>3, <2>4, <2>5, <2>6
<1>6. Good = Nat
    <2>1. Good \in SUBSET Nat OBVIOUS
    <2> HIDE DEF Good
    <2> QED BY <1>4, <1>5, <2>1, SetInduction
<1>7. C(limit) < (IF limit = 0 THEN 1 ELSE limit)
    <2> HIDE DEF C
    <2> QED BY <1>6
<1> QED BY <1>1, <1>7

\* In a well-formed header an address stands before every comma and at the end,
\* and every other token is a blank.
LEMMA WellFormedIs ==
    ASSUME NEW text \in Seq(Tokens), WellFormed(text)
    PROVE  /\ Len(text) > 0 /\ text[1] # "comma" /\ text[Len(text)] \in Addresses
           /\ \A k \in 2..Len(text) : text[k] = "comma" => text[k - 1] \in Addresses
           /\ \A k \in 1..(Len(text) - 1) :
                /\ text[k] \in Addresses \cup {"comma", "blank"}
                /\ text[k] \in Addresses => text[k + 1] = "comma"
<1>1. Len(text) \in Nat /\ "comma" \notin Addresses /\ "blank" \notin Addresses
    BY LenProperties, TrustedSourceAssumption
<1>2. Len(text) > 0 BY <1>1, EmptySeq DEF WellFormed
<1>3. text[1] # "comma" /\ text[Len(text)] \in Addresses BY <1>2 DEF WellFormed, Last
<1>4. ASSUME NEW k \in 1..(Len(text) - 1)
      PROVE  /\ text[k] \in Addresses \cup {"comma", "blank"}
             /\ text[k] \in Addresses => text[k + 1] = "comma"
             /\ text[k] \notin Addresses => text[k + 1] # "comma"
    <2>1. CASE text[k] \in Addresses /\ text[k] # "comma" /\ text[k] # "blank" BY <2>1 DEF WellFormed
    <2>2. CASE text[k] = "comma" BY <1>1, <2>2 DEF WellFormed
    <2>3. CASE text[k] = "blank" BY <1>1, <2>3 DEF WellFormed
    <2>4. CASE text[k] \notin Addresses \cup {"comma", "blank"} BY <2>4 DEF WellFormed
    <2> QED BY <1>1, <2>1, <2>2, <2>3, <2>4
<1>5. ASSUME NEW k \in 2..Len(text), text[k] = "comma" PROVE text[k - 1] \in Addresses
    <2>1. k - 1 \in 1..(Len(text) - 1) /\ (k - 1) + 1 = k BY <1>1
    <2> QED BY <1>4, <1>5, <2>1
<1> QED BY <1>2, <1>3, <1>4, <1>5

\* There the loop has left out limit - 1 entries, or there was no comma left.
Found(text, s, n) ==
    /\ Len(s.xff) > 0 /\ text[Len(s.xff)] \in Addresses
    /\ n > 0 => \/ s.break /\ s.p = 0 /\ NoComma(s.xff)
                \/ AtComma(s) /\ CommasAfter(text, Len(s.xff)) = n - 1

LEMMA CutFinds ==
    ASSUME NEW text \in Seq(Tokens), WellFormed(text), NEW n \in Nat,
           NEW s \in Loop(text), ~s.break, Found(text, s, n),
           n = 0 => s.p = 0 /\ s.c = 0 /\ s.xff = text
    PROVE  Found(text, Cut(s), n + 1)
<1>1. /\ AtComma(Cut(s)) \/ (Cut(s).break /\ Cut(s).p = 0 /\ NoComma(Cut(s).xff))
      /\ Cut(s).xff = Kept(s)
    BY CutIs
<1>2. Len(Kept(s)) = IF s.p - s.c > 0 THEN s.p - s.c ELSE Len(s.xff) BY KeptIs
<1>3. CASE n = 0
    <2>1. ~(s.p - s.c > 0) BY <1>3
    <2>2. Len(Cut(s).xff) = Len(text) BY <1>1, <1>2, <1>3, <2>1
    <2>3. CommasAfter(text, Len(text)) = 0 BY CommasNone
    <2>4. (n + 1) - 1 = 0 BY <1>3
    <2> QED BY <1>1, <1>3, <2>2, <2>3, <2>4 DEF Found
<1>4. CASE n > 0
    <2> DEFINE k == s.p - s.c + 1
    <2>1. AtComma(s) /\ CommasAfter(text, Len(s.xff)) = n - 1 BY <1>4 DEF Found
    <2>2. /\ s.xff \in Seq(Tokens) /\ Begins(s.xff, text) /\ s.p \in Nat /\ s.c \in Nat
          /\ LastComma(s.xff, k)
        BY <2>1 DEF Loop, AtComma
    <2>3. Len(s.xff) \in Nat /\ Len(text) \in Nat BY <2>2, LenProperties
    <2>4. k \in 1..Len(s.xff) /\ s.xff[k] = "comma" BY <2>2 DEF LastComma
    <2>5. k \in 1..Len(text) /\ text[k] = "comma" BY <2>2, <2>3, <2>4 DEF Begins
    <2>6. k - 1 = s.p - s.c BY <2>2
    <2> HIDE DEF k
    <2>7. k \in 2..Len(text)
        <3>1. k # 1 BY <2>5, WellFormedIs
        <3> QED BY <2>3, <2>5, <3>1
    <2>8. text[k - 1] \in Addresses BY <2>5, <2>7, WellFormedIs
    <2>9. s.p - s.c > 0 BY <2>2, <2>6, <2>7
    <2>10. Len(Cut(s).xff) = k - 1 /\ k - 1 > 0 BY <1>1, <1>2, <2>6, <2>7, <2>9
    <2>11. CommasAfter(text, Len(Cut(s).xff)) = (n - 1) + 1 BY <2>1, <2>9, CutCounts
    <2>12. (n - 1) + 1 = (n + 1) - 1 OBVIOUS
    <2> QED BY <1>1, <2>8, <2>10, <2>11, <2>12 DEF Found
<1> QED BY <1>3, <1>4

LEMMA RoundsFind ==
    ASSUME NEW text \in Seq(Tokens), WellFormed(text), NEW limit \in Nat
    PROVE  Found(text, Rounds(text, limit), limit)
<1>1. PICK r \in [0..limit -> Loop(text)] :
        /\ r[0] = [xff |-> text, p |-> 0, c |-> 0, break |-> FALSE]
        /\ \A i \in 1..limit : r[i] = IF r[i - 1].break THEN r[i - 1] ELSE Cut(r[i - 1])
        /\ Rounds(text, limit) = r[limit]
    BY RoundsAre
<1> DEFINE Good == {i \in Nat : i <= limit => Found(text, r[i], i)}
<1>2. 0 \in Good
    <2>1. r[0].xff = text BY <1>1
    <2>2. Len(text) > 0 /\ text[Len(text)] \in Addresses BY WellFormedIs
    <2>3. Found(text, r[0], 0) BY <2>1, <2>2 DEF Found
    <2> QED BY <2>3
<1>3. ASSUME NEW i \in Good PROVE i + 1 \in Good
    <2> SUFFICES ASSUME i + 1 <= limit PROVE Found(text, r[i + 1], i + 1)
        OBVIOUS
    <2>1. i \in 0..limit /\ i + 1 \in 1..limit /\ (i + 1) - 1 = i OBVIOUS
    <2>2. r[i + 1] = IF r[i].break THEN r[i] ELSE Cut(r[i]) BY <1>1, <2>1
    <2>3. r[i] \in Loop(text) /\ Found(text, r[i], i) /\ i \in Nat BY <2>1
    <2>4. CASE r[i].break
        <3>1. i # 0 BY <1>1, <2>4
        <3>2. r[i].p = 0 /\ NoComma(r[i].xff) BY <2>3, <2>4, <3>1 DEF Found, AtComma
        <3>3. r[i + 1] = r[i] BY <2>2, <2>4
        <3> QED BY <2>3, <2>4, <3>2, <3>3 DEF Found
    <2>5. CASE ~r[i].break
        <3>1. r[i + 1] = Cut(r[i]) BY <2>2, <2>5
        <3>2. i = 0 => r[i].p = 0 /\ r[i].c = 0 /\ r[i].xff = text BY <1>1
        <3>3. Found(text, Cut(r[i]), i + 1) BY <2>3, <2>5, <3>2, CutFinds
        <3> QED BY <3>1, <3>3
    <2> QED BY <2>4, <2>5
<1>4. Good = Nat
    <2>1. Good \in SUBSET Nat OBVIOUS
    <2> HIDE DEF Good
    <2> QED BY <1>2, <1>3, <2>1, SetInduction
<1>5. Found(text, r[limit], limit) BY <1>4
<1> QED BY <1>1, <1>5
-----------------------------------------------------------------------------
(* The address that X-Forwarded-For names                                  *)

\* What ParseIP is given after the loop ends where the loop's header ends.
LEMMA EntryIsLast ==
    ASSUME NEW text \in Seq(Tokens), NEW s \in Loop(text)
    PROVE  LET p == s.p + Blanks(s.xff, s.p)
               ip == ParseIP(SubSeq(s.xff, p + 1, Len(s.xff)))
           IN  /\ p \in 0..Len(s.xff)
               /\ ip # Nil => p + 1 = Len(s.xff)
               /\ p + 1 = Len(s.xff) => ip = IF text[Len(s.xff)] \in Addresses
                                             THEN text[Len(s.xff)] ELSE Nil
<1> DEFINE m == Len(s.xff)
           b == Blanks(s.xff, s.p)
           p == s.p + b
           e == SubSeq(s.xff, p + 1, m)
<1>1. s.xff \in Seq(Tokens) /\ Begins(s.xff, text) /\ s.p \in Nat BY DEF Loop
<1>2. m \in Nat /\ Len(text) \in Nat BY <1>1, LenProperties
<1>3. s.p \in 0..m BY <1>1, <1>2 DEF Loop, AtComma
<1>4. b \in 0..(m - s.p) BY <1>1, <1>3, BlanksAre
<1> HIDE DEF b
<1>5. p \in 0..m BY <1>2, <1>3, <1>4
<1> HIDE DEF p
<1>6. \A i \in (p + 1)..m : s.xff[i] \in Tokens BY <1>1, <1>2, <1>5, ElementOfSeq
<1>7. /\ Len(e) = IF p + 1 <= m THEN m - (p + 1) + 1 ELSE 0
      /\ \A i \in 1..(m - (p + 1) + 1) : e[i] = s.xff[p + 1 + i - 1]
    <2>1. p + 1 \in Int /\ m \in Int BY <1>2, <1>5
    <2> HIDE DEF m
    <2> QED BY <1>6, <2>1, SubSeqProperties
<1>8. ParseIP(e) # Nil => p + 1 = m
    <2>1. ParseIP(e) # Nil => Len(e) = 1 BY DEF ParseIP
    <2> HIDE DEF e, m
    <2> QED BY <1>2, <1>5, <1>7, <2>1
<1>9. ASSUME p + 1 = m PROVE ParseIP(e) = IF text[m] \in Addresses THEN text[m] ELSE Nil
    <2>1. m - (p + 1) + 1 = 1 /\ p + 1 + 1 - 1 = m /\ m \in 1..m BY <1>2, <1>5, <1>9
    <2>2. Len(e) = 1 BY <1>7, <1>9, <2>1
    <2>3. e[1] = s.xff[m]
        <3>1. 1 \in 1..(m - (p + 1) + 1) BY <2>1
        <3>2. e[1] = s.xff[p + 1 + 1 - 1]
            <4> HIDE DEF e, m
            <4> QED BY <1>7, <3>1
        <3> QED BY <2>1, <3>2
    <2>4. s.xff[m] = text[m] BY <1>1, <2>1 DEF Begins
    <2> HIDE DEF e, m
    <2> QED BY <2>2, <2>3, <2>4 DEF ParseIP
<1> QED BY <1>5, <1>8, <1>9 DEF p, b

LEMMA ForwardedWithin ==
    ASSUME NEW values, Join(values) \in Seq(Tokens), NEW limit \in Nat,
           forwardedFor(values, limit) # Nil
    PROVE  \E i \in DOMAIN Join(values) :
            /\ Join(values)[i] = forwardedFor(values, limit)
            /\ CommasAfter(Join(values), i) < (IF limit = 0 THEN 1 ELSE limit)
<1> DEFINE text == Join(values)
           s == Rounds(text, limit)
           p == s.p + Blanks(s.xff, s.p)
           ip == ParseIP(SubSeq(s.xff, p + 1, Len(s.xff)))
<1>1. s \in Loop(text) /\ CommasAfter(text, Len(s.xff)) < (IF limit = 0 THEN 1 ELSE limit)
    <2> HIDE DEF text
    <2> QED BY RoundsCount DEF text
<1>2. forwardedFor(values, limit) = ip BY DEF forwardedFor
<1> HIDE DEF text, s
<1>3. p \in 0..Len(s.xff) /\ p + 1 = Len(s.xff) /\ ip = text[Len(s.xff)]
    BY <1>1, <1>2, EntryIsLast DEF text
<1>4. s.xff \in Seq(Tokens) /\ Begins(s.xff, text) BY <1>1 DEF Loop
<1>5. Len(s.xff) \in DOMAIN text
    <2>1. Len(s.xff) \in Nat BY <1>4, LenProperties
    <2>2. Len(s.xff) >= 1
        <3> HIDE DEF p
        <3> QED BY <1>3, <2>1
    <2>3. Len(text) \in Nat /\ DOMAIN text = 1..Len(text) BY LenProperties DEF text
    <2> QED BY <1>4, <2>1, <2>2, <2>3 DEF Begins
<1> HIDE DEF p, ip
<1> QED BY <1>1, <1>2, <1>3, <1>5 DEF text

\* Of a well-formed header it is the entry at the limit, or the first one.
LEMMA ForwardedEntry ==
    ASSUME NEW values, Join(values) \in Seq(Tokens), WellFormed(Join(values)),
           NEW limit \in Nat, limit > 0
    PROVE  /\ forwardedFor(values, limit) \in Addresses
           /\ forwardedFor(values, limit) =
                Join(values)[Min({i \in DOMAIN Join(values) :
                    Join(values)[i] \in Addresses /\ CommasAfter(Join(values), i) < limit})]
<1> DEFINE text == Join(values)
           s == Rounds(text, limit)
           m == Len(s.xff)
           p == s.p + Blanks(s.xff, s.p)
           ip == ParseIP(SubSeq(s.xff, p + 1, Len(s.xff)))
           entries == {i \in DOMAIN text : text[i] \in Addresses /\ CommasAfter(text, i) < limit}
<1>1. forwardedFor(values, limit) = ip BY DEF forwardedFor
<1>2. text \in Seq(Tokens) /\ WellFormed(text) OBVIOUS
<1> HIDE DEF text
<1>3. s \in Loop(text) /\ CommasAfter(text, m) < limit BY <1>2, RoundsCount
<1>4. Found(text, s, limit) BY <1>2, RoundsFind
<1> HIDE DEF s
<1>5. s.xff \in Seq(Tokens) /\ Begins(s.xff, text) /\ s.p \in Nat BY <1>3 DEF Loop
<1>6. m \in Nat /\ Len(text) \in Nat /\ DOMAIN text = 1..Len(text) BY <1>2, <1>5, LenProperties
<1>7. m \in 1..Len(text) /\ text[m] \in Addresses BY <1>4, <1>5, <1>6 DEF Found, Begins
<1>8. s.xff[m] = text[m] /\ "blank" \notin Addresses /\ "comma" \notin Addresses
    BY <1>5, <1>6, <1>7, TrustedSourceAssumption DEF Begins
<1>9. ASSUME NEW j \in 1..(m - 1), text[j] \in Addresses
      PROVE  text[j + 1] = "comma" /\ j + 1 \in 1..m
    <2>1. j \in 1..(Len(text) - 1) BY <1>6, <1>7
    <2> QED BY <1>2, <1>6, <1>9, <2>1, WellFormedIs
\* Between the offset and the last token there are only blanks.
<1>10. ASSUME NEW j \in (s.p + 1)..(m - 1) PROVE s.xff[j] = "blank"
    <2>1. /\ j \in 1..(m - 1) /\ j \in 1..m /\ j + 1 \in 1..m /\ j \in 1..(Len(text) - 1)
        BY <1>5, <1>6, <1>7
    <2>2. s.xff[j] = text[j] /\ s.xff[j + 1] = text[j + 1] BY <1>5, <2>1 DEF Begins
    <2>3. s.xff[j] # "comma" /\ s.xff[j + 1] # "comma"
        <3>1. CASE NoComma(s.xff) BY <2>1, <3>1 DEF NoComma
        <3>2. CASE AtComma(s)
            <4> DEFINE k == s.p - s.c + 1
            <4>1. LastComma(s.xff, k) /\ s.c \in Nat /\ s.c > 0 BY <1>3, <3>2 DEF AtComma, Loop
            <4>2. j \in (k + 1)..m /\ j + 1 \in (k + 1)..m BY <1>5, <1>6, <2>1, <4>1
            <4> HIDE DEF k
            <4> QED BY <4>1, <4>2 DEF LastComma
        <3> QED BY <1>4, <3>1, <3>2 DEF Found
    <2>4. text[j] \notin Addresses BY <1>9, <2>1, <2>2, <2>3
    <2>5. text[j] \in Addresses \cup {"comma", "blank"} BY <1>2, <2>1, WellFormedIs
    <2> QED BY <2>2, <2>3, <2>4, <2>5
<1>11. p + 1 = m
    <2> DEFINE b == Blanks(s.xff, s.p)
    <2>1. s.p \in 0..m
        <3>1. s.p = 0 \/ AtComma(s) BY <1>4 DEF Found
        <3> QED BY <1>5, <1>6, <3>1 DEF AtComma
    <2>2. /\ b \in 0..(m - s.p) /\ \A i \in 1..b : s.xff[s.p + i] = "blank"
          /\ b = m - s.p \/ s.xff[s.p + b + 1] # "blank"
        BY <1>5, <2>1, BlanksAre
    <2> HIDE DEF b
    <2>3. s.p < m
        <3>1. CASE s.p = 0 BY <1>7, <3>1
        <3>2. CASE AtComma(s) /\ s.p = m /\ s.p # 0
            <4> DEFINE k == s.p - s.c + 1
            <4>1. /\ LastComma(s.xff, k) /\ s.c \in Nat /\ s.c > 0 /\ s.c <= s.p
                  /\ \A j \in (k + 1)..s.p : s.xff[j] = "blank"
                <5>1. s.p - s.c + 2 = k + 1 /\ s.c \in Nat BY <1>3, <1>5 DEF Loop
                <5> QED BY <3>2, <5>1 DEF AtComma
            <4>2. k \in 1..s.p BY <1>5, <4>1
            <4>3. k = s.p \/ s.p \in (k + 1)..s.p BY <1>5, <4>2
            <4>4. s.xff[s.p] \in {"comma", "blank"}
                <5> HIDE DEF k
                <5> QED BY <4>1, <4>3 DEF LastComma
            <4> QED BY <1>7, <1>8, <3>2, <4>4
        <3>3. s.p = 0 \/ AtComma(s) BY <1>4 DEF Found
        <3> QED BY <1>6, <2>1, <3>1, <3>2, <3>3
    <2>4. b # m - s.p
        <3> SUFFICES ASSUME b = m - s.p PROVE FALSE
            OBVIOUS
        <3>1. b \in 1..b /\ s.p + b = m BY <1>5, <1>6, <2>3
        <3> QED BY <1>7, <1>8, <2>2, <3>1
    <2>5. s.p + b + 1 \in (s.p + 1)..m BY <1>5, <1>6, <2>2, <2>4
    <2>6. s.p + b + 1 \notin (s.p + 1)..(m - 1) BY <1>10, <2>2, <2>4
    <2> HIDE DEF m
    <2> QED BY <1>5, <1>6, <2>2, <2>5, <2>6 DEF b
<1>12. ip = text[m] BY <1>2, <1>3, <1>7, <1>11, EntryIsLast
<1>13. m \in entries BY <1>3, <1>6, <1>7
<1>14. ASSUME NEW j \in entries PROVE j >= m
    <2> SUFFICES ASSUME j < m PROVE FALSE
        BY <1>6
    <2>1. j \in 1..(m - 1) /\ j \in 0..Len(text) /\ m \in 0..Len(text) /\ (j + 1) - 1 = j BY <1>6, <1>7
    <2>2. text[j + 1] = "comma" /\ j + 1 \in 1..m BY <1>9, <2>1
    <2>3. s.xff[j + 1] = "comma" BY <1>5, <2>2 DEF Begins
    <2>4. CommasAfter(text, m) = limit - 1 BY <1>4, <2>2, <2>3 DEF Found, NoComma
    <2>5. CommasAfter(text, j) >= CommasAfter(text, m) + 1
        <3>1. CommasAfter(text, (j + 1) - 1) >= CommasAfter(text, m) + 1
            <4> HIDE DEF m
            <4> QED BY <1>2, <2>1, <2>2, CommasLess
        <3> QED BY <2>1, <3>1
    <2>6. CommasAfter(text, j) \in Nat BY <1>2, <2>1, CommasNat
    <2>7. CommasAfter(text, j) < limit OBVIOUS
    <2> QED BY <2>4, <2>5, <2>6, <2>7
<1>15. Min(entries) = m
    <2>1. entries \in SUBSET Nat /\ entries # {} BY <1>6, <1>13
    <2>2. Min(entries) \in entries /\ \A y \in entries : Min(entries) <= y
        <3> HIDE DEF entries
        <3> QED BY <2>1, MinOfNat
    <2>3. Min(entries) >= m /\ Min(entries) <= m /\ Min(entries) \in Nat
        <3> HIDE DEF entries, m
        <3> QED BY <1>13, <1>14, <2>1, <2>2
    <2> HIDE DEF entries, m
    <2> QED BY <1>6, <2>3
<1>16. forwardedFor(values, limit) = text[Min(entries)] /\ forwardedFor(values, limit) \in Addresses
    BY <1>1, <1>7, <1>12, <1>15
<1> QED BY <1>16 DEF text

\* The lines of the header are joined to one text.
LEMMA JoinSeq ==
    ASSUME NEW values \in Seq(Seq(Tokens)) PROVE Join(values) \in Seq(Tokens)
<1>1. CASE values = <<>> BY <1>1, EmptySeq DEF Join
<1>2. CASE values # <<>>
    <2> DEFINE tail == Tail(values)
               n == Len(tail)
               V == Seq(Tokens)
               base == Head(values)
               Op(t, v) == t \o <<"comma", "blank">> \o v
               G == [x \in (1..n) \X V |-> Op(x[2], tail[x[1]])]
               Folds(f) == f = [i \in SUBSET DOMAIN tail |->
                            IF i = {} THEN base ELSE Op(f[i \ {Max(i)}], tail[Max(i)])]
               f == CHOOSE f : Folds(f)
    <2>1. base \in V /\ tail \in Seq(V) BY <1>2, HeadTailProperties
    <2> HIDE DEF tail, base
    <2>2. n \in Nat /\ DOMAIN tail = 1..n /\ \A i \in 1..n : tail[i] \in V
        BY <2>1, LenProperties, ElementOfSeq
    <2>3. ASSUME NEW t \in V, NEW v \in V PROVE Op(t, v) \in V
        <3>1. <<"comma", "blank">> \in Seq(Tokens) BY DEF Tokens
        <3>2. t \o <<"comma", "blank">> \in Seq(Tokens) BY <3>1, ConcatProperties
        <3> QED BY <3>2, ConcatProperties
    <2> HIDE DEF Op
    <2>4. G \in [(1..n) \X V -> V] BY <2>2, <2>3
    <2>5. PICK g \in [SUBSET (1..n) -> V] : Iterates(g, n, base, G)
        <3> HIDE DEF G, V, n
        <3> QED BY <2>1, <2>2, <2>4, FoldExists
    <2>6. ASSUME NEW i \in SUBSET (1..n), i # {} PROVE Max(i) \in 1..n
        <3>1. i \in SUBSET (0..n) BY <2>2
        <3> HIDE DEF n
        <3>2. Max(i) \in i BY <2>2, <2>6, <3>1, MaxOfNat
        <3> QED BY <3>2
    <2> HIDE DEF V
    <2>7. Folds(g)
        <3> SUFFICES ASSUME NEW i \in SUBSET (1..n)
                     PROVE  g[i] = IF i = {} THEN base ELSE Op(g[i \ {Max(i)}], tail[Max(i)])
            BY <2>2
        <3>1. CASE i # {}
            <4>1. i \ {Max(i)} \in SUBSET (1..n) OBVIOUS
            <4>2. G[<<Max(i), g[i \ {Max(i)}]>>] = Op(g[i \ {Max(i)}], tail[Max(i)])
                BY <2>6, <3>1, <4>1
            <4> QED BY <2>5, <3>1, <4>2 DEF Iterates
        <3> QED BY <2>5, <3>1 DEF Iterates
    <2>8. Folds(f)
        <3> HIDE DEF Folds
        <3> QED BY <2>7
    <2>9. IteratesIn(f, n, V, base, G)
        <3> HIDE DEF f
        <3>1. f[{}] = base BY <2>2, <2>8
        <3>2. ASSUME NEW i \in SUBSET (1..n), i # {}, f[i \ {Max(i)}] \in V
              PROVE  f[i] = G[<<Max(i), f[i \ {Max(i)}]>>]
            <4>1. f[i] = Op(f[i \ {Max(i)}], tail[Max(i)]) BY <2>2, <2>8, <3>2
            <4> QED BY <2>6, <3>2, <4>1
        <3> HIDE DEF G, n
        <3> QED BY <3>1, <3>2 DEF IteratesIn
    <2>10. f[1..n] \in V
        <3> HIDE DEF f, G, n, Folds
        <3>1. IsChain(f, n, V, base, G) BY <2>1, <2>2, <2>4, <2>9, FoldChain
        <3> QED BY <2>2, <3>1 DEF IsChain
    <2>11. Join(values) = f[1..n]
        BY <1>2, <2>2 DEF Join, FoldLeft, MapThenFoldSet, Op, tail, base
    <2> HIDE DEF f, n
    <2> QED BY <2>10, <2>11 DEF V
<1> QED BY <1>1, <1>2
-----------------------------------------------------------------------------
(* The address the middleware gives to a request                           *)

\* The headers and the limit come from one configuration, or are the default.
HeadersInv ==
    /\ trustedHeaders = <<>> \/ \E c \in Configs : trustedHeaders = c.headers
    /\ forwardLimit \in Nat

LEMMA HeadersAre ==
    ASSUME HeadersInv, NEW r \in Requests
    PROVE  /\ trustedHeaders \in Seq(ToSet(trustedHeaders))
           /\ \A h \in ToSet(trustedHeaders) \ {"X-Forwarded-For"} : r.headers[h] \in Seq(Tokens)
<1>1. CASE trustedHeaders = <<>>
    <2>1. ToSet(trustedHeaders) = {} BY <1>1 DEF ToSet
    <2> QED BY <1>1, <2>1
<1>2. CASE \E c \in Configs : trustedHeaders = c.headers BY <1>2, RealIPAssumption
<1> QED BY <1>1, <1>2 DEF HeadersInv

LEMMA RightEntryStep ==
    ASSUME HeadersInv, NEW r \in Requests, req' = r, addr' = realIPOrForwardedFor(r),
           UNCHANGED <<lists, trustedHeaders, forwardLimit>>
    PROVE  RightEntry'
<1> DEFINE Named(h) == IF h = "X-Forwarded-For" THEN forwardedFor(r.values, forwardLimit)
                       ELSE realIP(r, h)
           I == {i \in 1..Len(trustedHeaders) : Named(trustedHeaders[i]) # Nil}
           found == IF I # {} THEN Min(I) ELSE 0
           text == Join(r.values)
           entries == {i \in DOMAIN text : text[i] \in Addresses /\ CommasAfter(text, i) < forwardLimit}
<1>1. /\ trustedHeaders \in Seq(ToSet(trustedHeaders)) /\ forwardLimit \in Nat
      /\ \A h \in ToSet(trustedHeaders) \ {"X-Forwarded-For"} : r.headers[h] \in Seq(Tokens)
    BY HeadersAre DEF HeadersInv
<1>2. r # Nil /\ text \in Seq(Tokens) BY JoinSeq, RealIPAssumption
<1>3. Len(trustedHeaders) \in Nat /\ ToSet(trustedHeaders) = {trustedHeaders[i] : i \in 1..Len(trustedHeaders)}
    BY <1>1, LenProperties DEF ToSet
<1>4. I # {} => found \in I /\ found # 0
    <2>1. I \in SUBSET Nat /\ 0 \notin I BY <1>3
    <2> HIDE DEF I
    <2> QED BY <2>1, MinOfNat
<1>5. addr' = IF IsTrustedProxy(r.remote) /\ found # 0 THEN Named(trustedHeaders[found]) ELSE r.remote
    BY DEF realIPOrForwardedFor, SelectInSeq
<1>6. /\ trustedHeaders' = trustedHeaders /\ forwardLimit' = forwardLimit
      /\ \A ip : IsTrustedProxy(ip)' = IsTrustedProxy(ip)
    BY DEF lists, IsTrustedProxy, Apps
<1>7. Max({forwardLimit, 1}) = IF forwardLimit = 0 THEN 1 ELSE forwardLimit
    BY <1>1 DEF Max
<1> HIDE DEF Named
<1>8. ASSUME addr' # r.remote
      PROVE  /\ IsTrustedProxy(r.remote)
             /\ \/ \E h \in ToSet(trustedHeaders) \ {"X-Forwarded-For"} : r.headers[h] = <<addr'>>
                \/ /\ "X-Forwarded-For" \in ToSet(trustedHeaders)
                   /\ \E i \in DOMAIN text :
                        text[i] = addr' /\ CommasAfter(text, i) < Max({forwardLimit, 1})
    <2> DEFINE h == trustedHeaders[found]
    <2>1. IsTrustedProxy(r.remote) /\ found # 0 /\ addr' = Named(h) BY <1>5, <1>8
    <2>2. found \in I BY <1>4, <2>1
    <2> HIDE DEF found
    <2>3. h \in ToSet(trustedHeaders) /\ Named(h) # Nil BY <1>3, <2>2
    <2> HIDE DEF h, I
    <2>4. CASE h = "X-Forwarded-For"
        <3>1. addr' = forwardedFor(r.values, forwardLimit) /\ addr' # Nil BY <2>1, <2>3, <2>4 DEF Named
        <3>2. \E i \in DOMAIN text :
                text[i] = addr' /\ CommasAfter(text, i) < (IF forwardLimit = 0 THEN 1 ELSE forwardLimit)
            BY <1>1, <1>2, <3>1, ForwardedWithin
        <3> HIDE DEF text
        <3> QED BY <1>7, <2>1, <2>3, <2>4, <3>2
    <2>5. CASE h # "X-Forwarded-For"
        <3> DEFINE x == r.headers[h]
        <3>1. x \in Seq(Tokens) BY <1>1, <2>3, <2>5
        <3>2. addr' = ParseIP(x) /\ addr' # Nil BY <2>1, <2>3, <2>5 DEF Named, realIP
        <3> HIDE DEF x
        <3>3. Len(x) = 1 /\ addr' = x[1] BY <3>2 DEF ParseIP
        <3>4. x = <<addr'>> BY <3>1, <3>3
        <3> QED BY <2>1, <2>3, <2>5, <3>4 DEF x
    <2> QED BY <2>4, <2>5
<1>9. ASSUME "X-Forwarded-For" \in ToSet(trustedHeaders), WellFormed(text), IsTrustedProxy(r.remote),
             \A h \in ToSet(trustedHeaders) \ {"X-Forwarded-For"} : r.headers[h] = <<>>,
             forwardLimit > 0
      PROVE  addr' = text[Min(entries)]
    <2> DEFINE h == trustedHeaders[found]
    <2>1. /\ forwardedFor(r.values, forwardLimit) \in Addresses
          /\ forwardedFor(r.values, forwardLimit) = text[Min(entries)]
        BY <1>1, <1>2, <1>9, ForwardedEntry
    <2>2. Named("X-Forwarded-For") # Nil BY <2>1, TrustedSourceAssumption DEF Named
    <2>3. I # {} BY <1>3, <1>9, <2>2
    <2>4. found \in I /\ found # 0 BY <1>4, <2>3
    <2> HIDE DEF found
    <2>5. h \in ToSet(trustedHeaders) /\ Named(h) # Nil BY <1>3, <2>4
    <2>6. h = "X-Forwarded-For"
        <3> HIDE DEF h, I
        <3> SUFFICES ASSUME h # "X-Forwarded-For" PROVE FALSE
            OBVIOUS
        <3>1. r.headers[h] = <<>> BY <1>9, <2>5
        <3>2. Len(<<>>) # 1 BY EmptySeq
        <3> QED BY <2>5, <3>1, <3>2 DEF Named, realIP, ParseIP
    <2> HIDE DEF I, text, entries
    <2> QED BY <1>5, <1>9, <2>1, <2>4, <2>6 DEF Named
<1> HIDE DEF I, found, entries
<1> QED BY <1>6, <1>8, <1>9 DEF RightEntry, Forwarded, entries
-----------------------------------------------------------------------------
(* What RealIP keeps                                                       *)

RealIPInv == ListsInv /\ HeadersInv /\ req \in Requests \cup {Nil} /\ RightEntry

LEMMA InitRealIPInv == RealIPInit => RealIPInv
<1> SUFFICES ASSUME RealIPInit PROVE RealIPInv
    OBVIOUS
<1>1. ListsInv BY InitListsInv DEF RealIPInit
<1>2. HeadersInv BY DEF RealIPInit, HeadersInv
<1>3. RightEntry BY DEF RealIPInit, RightEntry, Forwarded
<1> QED BY <1>1, <1>2, <1>3 DEF RealIPInv, RealIPInit

LEMMA NextRealIPInv == RealIPInv /\ [RealIPNext]_realIPVars => RealIPInv'
<1> SUFFICES ASSUME RealIPInv, [RealIPNext]_realIPVars PROVE RealIPInv'
    OBVIOUS
<1> USE DEF RealIPInv
<1>1. req' = Nil => RightEntry' BY DEF RightEntry, Forwarded
<1>2. CASE ClearList
    <2>1. ListsInv' BY <1>2, ClearInv DEF ClearList
    <2>2. HeadersInv' BY <1>2 DEF ClearList, HeadersInv
    <2> QED BY <1>1, <1>2, <2>1, <2>2 DEF ClearList
<1>3. CASE AddEntry
    <2>1. ListsInv' BY <1>3, AddInv DEF AddEntry
    <2>2. HeadersInv' BY <1>3 DEF AddEntry, HeadersInv
    <2> QED BY <1>1, <1>3, <2>1, <2>2 DEF AddEntry
<1>4. CASE ApplyConfig
    <2>1. ListsInv' BY <1>4, ConfigureInv DEF ApplyConfig
    <2>2. HeadersInv' BY <1>4, RealIPAssumption DEF ApplyConfig, HeadersInv
    <2> QED BY <1>1, <1>4, <2>1, <2>2 DEF ApplyConfig
<1>5. CASE RealIP
    <2>1. ListsInv' BY <1>5 DEF RealIP, lists, ListsInv, Apps
    <2>2. HeadersInv' BY <1>5 DEF RealIP, HeadersInv
    <2>3. RightEntry' BY <1>5, RightEntryStep DEF RealIP
    <2> QED BY <1>5, <2>1, <2>2, <2>3 DEF RealIP
<1>6. CASE Served
    <2>1. ListsInv' BY <1>6 DEF Served, lists, ListsInv, Apps
    <2>2. HeadersInv' BY <1>6 DEF Served, HeadersInv
    <2> QED BY <1>1, <1>6, <2>1, <2>2 DEF Served
<1>7. CASE UNCHANGED realIPVars
    <2>1. ListsInv' BY <1>7 DEF realIPVars, lists, ListsInv, Apps
    <2>2. HeadersInv' BY <1>7 DEF realIPVars, HeadersInv
    <2>3. RightEntry'
        BY <1>7 DEF realIPVars, lists, RightEntry, Forwarded, IsTrustedProxy, Apps
    <2> QED BY <1>7, <2>1, <2>2, <2>3 DEF realIPVars
<1> QED BY <1>2, <1>3, <1>4, <1>5, <1>6, <1>7 DEF RealIPNext

\* Whatever sequence of Clear, Add and ApplyConfig the applications of a process
\* run, on any lists, networks and array: a list one of whose entries no append
\* has overwritten trusts exactly the addresses the entries given to it since its
\* last clearing cover (Add and Clear of proxy.go and trusted_source.go).
THEOREM TrustConfigured == RealIPSpec => []TrustIsConfigured
<1>1. RealIPInv => TrustIsConfigured BY HoldsTrust DEF RealIPInv
<1> QED BY <1>1, InitRealIPInv, NextRealIPInv, PTL DEF RealIPSpec

\* For every text of the forwarding headers, every limit and every list of
\* trusted headers the RealIP middleware takes the address of no entry left of
\* ForwardLimit and of no untrusted peer, and from a well-formed header exactly
\* the entry at the limit or the first one (forwardedFor, realIPOrForwardedFor).
THEOREM RightForwardedEntry == RealIPSpec => []RightEntry
<1>1. RealIPInv => RightEntry BY DEF RealIPInv
<1> QED BY <1>1, InitRealIPInv, NextRealIPInv, PTL DEF RealIPSpec
-----------------------------------------------------------------------------
(* The index stays in the list                                             *)

Labels == {"idle", "store", "pick", "do", "headers", "body", "done"}

\* Requests past the first load have an upstream to choose from.
IInv ==
    /\ N \in Nat
    /\ upstreamIndex \in Nat
    /\ pc \in [Reqs -> Labels]
    /\ loaded \in [Reqs -> Nat]
    /\ upstream \in [Reqs -> Nat]
    /\ \A r \in Reqs : pc[r] \notin {"idle", "done"} => N > 0
    /\ UpstreamExists

\* The initial state satisfies the invariant: a list has a length.
LEMMA InitIInv == Init => IInv
<1> SUFFICES ASSUME Init PROVE IInv
    OBVIOUS
<1>1. N \in Nat  BY ConfiguredAssumption DEF Init, N
<1> QED  BY <1>1 DEF Init, IInv, UpstreamExists, Labels

\* The remainder is an index of the list.
LEMMA ModIndex == \A i, n \in Nat : n > 0 => (i + 1) % n \in 0..(n - 1)
<1> QED  OBVIOUS

\* The three steps of the choice.
LEMMA ChoiceStep ==
    ASSUME IInv, NEW r \in Reqs, NoUpstream(r) \/ Load(r) \/ Store(r) \/ Pick(r) PROVE IInv'
<1> USE DEF IInv, UpstreamExists, Labels, At, Goto
<1>1. N' = N
    BY DEF NoUpstream, Load, Store, Pick, choice, N
<1>2. CASE NoUpstream(r)  BY <1>1, <1>2 DEF NoUpstream, BadGateway, choice
<1>3. CASE Load(r)  BY <1>1, <1>3 DEF Load
<1>4. CASE Store(r)
    <2>1. upstreamIndex' \in 0..(N - 1)  BY <1>4, ModIndex DEF Store
    <2> QED  BY <1>1, <1>4, <2>1 DEF Store
<1>5. CASE Pick(r)
    <2>1. upstreamIndex + 1 \in 1..N  BY <1>5 DEF Pick
    <2> QED  BY <1>1, <1>5, <2>1 DEF Pick
<1> QED  BY <1>2, <1>3, <1>4, <1>5

\* The exchange leaves the choice alone.
LEMMA ExchangeStep ==
    ASSUME IInv, NEW r \in Reqs,
           Do(r) \/ DoFails(r) \/ Headers(r) \/ Body(r) \/ Again(r)
    PROVE  IInv'
<1> USE DEF IInv, UpstreamExists, Labels, At, Goto, BadGateway
<1>1. N' = N
    BY DEF Do, DoFails, Headers, Body, Again, choice, N
<1>2. CASE Do(r) \/ DoFails(r) \/ Headers(r) \/ Body(r)
    BY <1>1, <1>2 DEF Do, DoFails, Headers, Body, choice
<1>3. CASE Again(r)
    BY <1>1, <1>3 DEF Again
<1> QED  BY <1>2, <1>3

\* Every step preserves the invariant.
LEMMA NextIInv == IInv /\ [Next]_vars => IInv'
<1> SUFFICES ASSUME IInv, [Next]_vars PROVE IInv'
    OBVIOUS
<1>1. ASSUME NEW r \in Reqs, Handler(r) PROVE IInv'
    BY <1>1, ChoiceStep, ExchangeStep DEF Handler
<1>2. CASE UNCHANGED vars
    BY <1>2 DEF vars, choice, IInv, UpstreamExists, N
<1> QED  BY <1>1, <1>2 DEF Next

\* The upstream a request uses exists, whatever updates of the index other
\* requests make between its load, its store and its second load.
THEOREM IndexInList == Spec => []UpstreamExists
<1>1. IInv => UpstreamExists  BY DEF IInv
<1> QED  BY <1>1, InitIInv, NextIInv, PTL DEF Spec

\* A list of upstreams keeps its length, and a request that goes on to choose
\* has an upstream to choose: an empty list has answered 502 before.
THEOREM Invariance == Spec => []IInv
<1> QED  BY InitIInv, NextIInv, PTL DEF Spec
-----------------------------------------------------------------------------
(* Choices that do not overlap take turns                                  *)

\* What a request has read is an index of the list.
LoadedInList == \A r \in Reqs : pc[r] = "store" => loaded[r] \in 0..(N - 1)

\* The distance of two turns is that of their upstreams, around the list.
InOrder ==
    \A i, j \in 1..Len(turns) : i <= j =>
        \/ turns[j] = turns[i] + (j - i)
        \/ turns[j] = turns[i] + (j - i) - N

After(u) == IF u = N THEN 0 ELSE u

\* The last of the turns is where the index is, unless the one request that
\* is choosing has stored the next one.
LastAt(u) ==
    \/ Choosing = {} /\ upstreamIndex + 1 = u
    \/ \E r \in Reqs :
        /\ Choosing = {r}
        /\ pc[r] = "store" => upstreamIndex + 1 = u /\ loaded[r] + 1 = u
        /\ pc[r] = "pick" => upstreamIndex = After(u)

TurnsInv ==
    /\ LoadedInList
    /\ turns \in Seq(1..N) /\ Len(turns) <= N
    /\ InOrder
    /\ turns # <<>> => LastAt(turns[Len(turns)])

LEMMA InitTurns == Init => TurnsInv
<1> SUFFICES ASSUME Init PROVE TurnsInv
    OBVIOUS
<1>1. N \in Nat BY ConfiguredAssumption DEF Init, N
<1>2. turns = <<>> /\ Len(turns) = 0 BY DEF Init
<1> QED BY <1>1, <1>2 DEF Init, TurnsInv, LoadedInList, InOrder

\* No turns are always in order.
LEMMA NoTurns ==
    ASSUME IInv, turns' = <<>>, N' = N, LoadedInList' PROVE TurnsInv'
<1>1. Len(turns') = 0 BY SMT
<1> QED BY <1>1 DEF TurnsInv, InOrder, IInv

LEMMA NextIndex == \A i, n \in Nat : i + 1 <= n => (i + 1) % n = IF i + 1 = n THEN 0 ELSE i + 1
<1> QED OBVIOUS

LEMMA LoadTurns == ASSUME IInv, TurnsInv, NEW r \in Reqs, Load(r) PROVE TurnsInv'
<1>1. /\ pc[r] = "idle" /\ N > 0 /\ pc' = [pc EXCEPT ![r] = "store"]
      /\ loaded' = [loaded EXCEPT ![r] = upstreamIndex] /\ N' = N /\ upstreamIndex' = upstreamIndex
    BY DEF Load, At, Goto, N
<1>2. LoadedInList'
    BY <1>1 DEF TurnsInv, LoadedInList, IInv, UpstreamExists
<1>3. CASE Choosing = {}
    <2>1. turns' = turns BY <1>3 DEF Load
    <2>2. Choosing' = {r} BY <1>1, <1>3 DEF Choosing, IInv
    <2>3. pc'[r] = "store" /\ loaded'[r] = upstreamIndex BY <1>1 DEF IInv
    <2>4. ASSUME NEW u, LastAt(u) PROVE LastAt(u)'
        BY <1>1, <1>3, <2>2, <2>3, <2>4 DEF LastAt
    <2>5. InOrder' BY <1>1, <2>1 DEF TurnsInv, InOrder
    <2> QED BY <1>1, <1>2, <2>1, <2>4, <2>5 DEF TurnsInv
<1>4. CASE Choosing # {}
    <2>1. turns' = <<>> BY <1>4 DEF Load
    <2> QED BY <1>1, <1>2, <2>1, NoTurns
<1> QED BY <1>3, <1>4

LEMMA StoreTurns == ASSUME IInv, TurnsInv, NEW r \in Reqs, Store(r) PROVE TurnsInv'
<1>1. /\ pc[r] = "store" /\ pc' = [pc EXCEPT ![r] = "pick"] /\ loaded' = loaded /\ N' = N
      /\ turns' = turns /\ upstreamIndex' = (loaded[r] + 1) % N
    BY DEF Store, At, Goto, N
<1>2. N \in Nat /\ N > 0 /\ loaded[r] \in 0..(N - 1)
    BY <1>1 DEF IInv, TurnsInv, LoadedInList
<1>3. upstreamIndex' = IF loaded[r] + 1 = N THEN 0 ELSE loaded[r] + 1
    BY <1>1, <1>2, NextIndex
<1>4. Choosing' = Choosing /\ r \in Choosing BY <1>1 DEF Choosing, IInv
<1>5. pc'[r] = "pick" BY <1>1 DEF IInv
<1>6. ASSUME NEW u, LastAt(u) PROVE LastAt(u)'
    <2>1. PICK q \in Reqs : /\ Choosing = {q}
                            /\ pc[q] = "store" => upstreamIndex + 1 = u /\ loaded[q] + 1 = u
        BY <1>4, <1>6 DEF LastAt
    <2>2. q = r BY <1>4, <2>1
    <2>3. upstreamIndex' = After(u) BY <1>1, <1>3, <2>1, <2>2 DEF After
    <2> QED BY <1>1, <1>4, <1>5, <2>1, <2>2, <2>3 DEF LastAt, After
<1>7. LoadedInList' BY <1>1 DEF TurnsInv, LoadedInList, IInv
<1>8. InOrder' BY <1>1 DEF TurnsInv, InOrder
<1> QED BY <1>1, <1>6, <1>7, <1>8 DEF TurnsInv

\* The turns of which the oldest is forgotten are in order.
LEMMA Forget ==
    ASSUME NEW n \in Nat, NEW s \in Seq(1..n), s # <<>>,
           \A i, j \in 1..Len(s) : i <= j => s[j] = s[i] + (j - i) \/ s[j] = s[i] + (j - i) - n
    PROVE  /\ Tail(s) \in Seq(1..n) /\ Len(Tail(s)) = Len(s) - 1
           /\ \A i, j \in 1..Len(Tail(s)) : i <= j =>
                Tail(s)[j] = Tail(s)[i] + (j - i) \/ Tail(s)[j] = Tail(s)[i] + (j - i) - n
           /\ Tail(s) # <<>> => Tail(s)[Len(Tail(s))] = s[Len(s)]
<1> DEFINE t == Tail(s)
<1>1. t \in Seq(1..n) /\ Len(t) = Len(s) - 1 /\ \A i \in 1..Len(t) : t[i] = s[i + 1]
    BY HeadTailProperties
<1>2. Len(s) \in Nat /\ Len(t) \in Nat BY <1>1, LenProperties
<1>3. t # <<>> => Len(t) \in 1..Len(t) BY <1>1, <1>2, EmptySeq
<1> HIDE DEF t
<1>4. ASSUME NEW i \in 1..Len(t), NEW j \in 1..Len(t), i <= j
      PROVE  t[j] = t[i] + (j - i) \/ t[j] = t[i] + (j - i) - n
    <2>1. t[i] = s[i + 1] /\ t[j] = s[j + 1] BY <1>1
    <2>2. i + 1 \in 1..Len(s) /\ j + 1 \in 1..Len(s) /\ i + 1 <= j + 1 BY <1>1, <1>2, <1>4
    <2>3. (j + 1) - (i + 1) = j - i OBVIOUS
    <2> QED BY <2>1, <2>2, <2>3
<1>5. t # <<>> => t[Len(t)] = s[Len(s)] BY <1>1, <1>2, <1>3
<1> QED BY <1>1, <1>4, <1>5 DEF t

\* One more turn, at the next upstream, is in order.
LEMMA OneMore ==
    ASSUME NEW n \in Nat, NEW s \in Seq(1..n), Len(s) < n,
           \A i, j \in 1..Len(s) : i <= j => s[j] = s[i] + (j - i) \/ s[j] = s[i] + (j - i) - n,
           NEW u \in 1..n,
           s # <<>> => u = IF s[Len(s)] = n THEN 1 ELSE s[Len(s)] + 1
    PROVE  \A i, j \in 1..Len(Append(s, u)) : i <= j =>
                \/ Append(s, u)[j] = Append(s, u)[i] + (j - i)
                \/ Append(s, u)[j] = Append(s, u)[i] + (j - i) - n
<1> DEFINE t == Append(s, u)
<1>1. /\ Len(t) = Len(s) + 1 /\ t[Len(s) + 1] = u
      /\ \A i \in 1..Len(s) : t[i] = s[i]
    BY AppendProperties
<1>2. Len(s) \in Nat /\ \A i \in 1..Len(s) : s[i] \in 1..n BY LenProperties, ElementOfSeq
<1> HIDE DEF t
<1> SUFFICES ASSUME NEW i \in 1..Len(t), NEW j \in 1..Len(t), i <= j
             PROVE  t[j] = t[i] + (j - i) \/ t[j] = t[i] + (j - i) - n
    BY DEF t
<1>3. CASE j <= Len(s)
    <2>1. i \in 1..Len(s) /\ j \in 1..Len(s) BY <1>1, <1>2, <1>3
    <2>2. s[j] = s[i] + (j - i) \/ s[j] = s[i] + (j - i) - n BY <2>1
    <2> QED BY <1>1, <2>1, <2>2
<1>4. CASE j = Len(s) + 1 /\ i = j BY <1>1, <1>4
<1>5. CASE j = Len(s) + 1 /\ i <= Len(s)
    <2> DEFINE l == Len(s)
    <2>1. i \in 1..l /\ l \in 1..l /\ i <= l BY <1>2, <1>5
    <2>2. s # <<>> BY <2>1, EmptySeq
    <2>3. s[l] = s[i] + (l - i) \/ s[l] = s[i] + (l - i) - n BY <2>1
    <2>4. s[i] \in 1..n /\ s[l] \in 1..n BY <1>2, <2>1
    <2>5. u = IF s[l] = n THEN 1 ELSE s[l] + 1 BY <2>2
    <2>6. t[i] = s[i] /\ t[j] = u /\ j = l + 1 BY <1>1, <1>5, <2>1
    <2> HIDE DEF l
    <2>7. l \in Nat /\ l < n BY <1>2 DEF l
    <2>8. CASE s[l] = n
        <3>1. s[l] = s[i] + (l - i) BY <2>1, <2>3, <2>4, <2>7, <2>8
        <3> QED BY <2>1, <2>4, <2>5, <2>6, <2>7, <2>8, <3>1
    <2>9. CASE s[l] # n
        <3>1. u = s[l] + 1 BY <2>5, <2>9
        <3>2. u = s[i] + (l - i) + 1 \/ u = s[i] + (l - i) - n + 1 BY <2>3, <3>1
        <3>3. (l - i) + 1 = j - i BY <2>1, <2>6, <2>7
        <3> QED BY <2>1, <2>4, <2>6, <2>7, <3>2, <3>3
    <2> QED BY <2>8, <2>9
<1> QED BY <1>1, <1>2, <1>3, <1>4, <1>5

LEMMA PickTurns == ASSUME IInv, TurnsInv, NEW r \in Reqs, Pick(r) PROVE TurnsInv'
<1>1. /\ pc[r] = "pick" /\ pc' = [pc EXCEPT ![r] = "do"] /\ loaded' = loaded /\ N' = N
      /\ upstreamIndex' = upstreamIndex
    BY DEF Pick, At, Goto, N
<1>2. N \in Nat /\ N > 0 /\ upstreamIndex + 1 \in 1..N
    BY <1>1 DEF IInv, UpstreamExists
<1>3. LoadedInList' BY <1>1 DEF TurnsInv, LoadedInList, IInv
<1>4. CASE Choosing # {r}
    <2>1. turns' = <<>> BY <1>4 DEF Pick
    <2> QED BY <1>1, <1>3, <2>1, NoTurns
<1>5. CASE Choosing = {r}
    <2> DEFINE s == IF Len(turns) < N THEN turns ELSE Tail(turns)
               u == upstreamIndex + 1
    <2>1. turns' = Append(s, u) BY <1>5 DEF Pick
    <2>2. Choosing' = {} BY <1>1, <1>5 DEF Choosing, IInv
    <2>3. turns # <<>> => u = IF turns[Len(turns)] = N THEN 1 ELSE turns[Len(turns)] + 1
        <3>1. ASSUME NEW v, LastAt(v) PROVE upstreamIndex = After(v)
            BY <1>1, <1>5, <3>1 DEF LastAt
        <3>2. turns # <<>> => turns[Len(turns)] \in Nat
            BY LenProperties, ElementOfSeq, EmptySeq DEF TurnsInv, IInv
        <3>3. turns # <<>> => upstreamIndex = After(turns[Len(turns)]) BY <3>1 DEF TurnsInv
        <3> QED BY <3>2, <3>3 DEF After
    <2>4. turns \in Seq(1..N) /\ Len(turns) \in Nat /\ Len(turns) <= N
        BY LenProperties DEF TurnsInv
    <2>5. /\ s \in Seq(1..N) /\ Len(s) < N
          /\ \A i, j \in 1..Len(s) : i <= j => s[j] = s[i] + (j - i) \/ s[j] = s[i] + (j - i) - N
          /\ s # <<>> => u = IF s[Len(s)] = N THEN 1 ELSE s[Len(s)] + 1
        <3>1. CASE Len(turns) < N BY <2>3, <2>4, <3>1 DEF TurnsInv, InOrder
        <3>2. CASE ~(Len(turns) < N)
            <4>1. turns # <<>> BY <1>2, <2>4, <3>2, EmptySeq
            <4>2. \A i, j \in 1..Len(turns) : i <= j =>
                    turns[j] = turns[i] + (j - i) \/ turns[j] = turns[i] + (j - i) - N
                BY DEF TurnsInv, InOrder
            <4>3. s = Tail(turns) BY <3>2
            <4> HIDE DEF s, u
            <4>4. /\ s \in Seq(1..N) /\ Len(s) = Len(turns) - 1
                  /\ \A i, j \in 1..Len(s) : i <= j =>
                        s[j] = s[i] + (j - i) \/ s[j] = s[i] + (j - i) - N
                  /\ s # <<>> => s[Len(s)] = turns[Len(turns)]
                BY <1>2, <2>4, <4>1, <4>2, <4>3, Forget
            <4> QED BY <1>2, <2>3, <2>4, <4>1, <4>4
        <3> QED BY <3>1, <3>2
    <2> HIDE DEF s
    <2>6. InOrder' BY <1>1, <1>2, <2>1, <2>5, OneMore DEF InOrder
    <2>7. turns' \in Seq(1..N) /\ Len(turns') = Len(s) + 1 /\ turns'[Len(turns')] = u
        BY <1>2, <2>1, <2>5, AppendProperties
    <2>8. Len(turns') <= N BY <1>2, <2>5, <2>7, LenProperties
    <2>9. upstreamIndex' + 1 = turns'[Len(turns')] BY <1>1, <2>7
    <2>10. LastAt(turns[Len(turns)])' BY <2>2, <2>9 DEF LastAt
    <2> QED BY <1>1, <1>3, <2>6, <2>7, <2>8, <2>10 DEF TurnsInv
<1> QED BY <1>4, <1>5

\* The other steps are of requests that are not choosing.
LEMMA OtherTurns ==
    ASSUME IInv, TurnsInv, NEW r \in Reqs,
           NoUpstream(r) \/ Do(r) \/ DoFails(r) \/ Headers(r) \/ Body(r) \/ Again(r)
    PROVE  TurnsInv'
<1> USE DEF NoUpstream, Do, DoFails, Headers, Body, Again, At, Goto, BadGateway, choice
<1>1. N' = N /\ turns' = turns /\ upstreamIndex' = upstreamIndex BY DEF N
<1>2. /\ pc[r] \notin {"store", "pick"} /\ pc'[r] \notin {"store", "pick"}
      /\ \A q \in Reqs \ {r} : pc'[q] = pc[q] /\ loaded'[q] = loaded[q]
    BY DEF IInv
<1>3. Choosing' = Choosing /\ r \notin Choosing BY <1>2 DEF Choosing
<1>4. ASSUME NEW u, LastAt(u) PROVE LastAt(u)'
    <2>1. \A q \in Reqs : Choosing = {q} => q # r BY <1>3
    <2> QED BY <1>1, <1>2, <1>3, <1>4, <2>1 DEF LastAt, After
<1>5. LoadedInList' BY <1>1, <1>2 DEF TurnsInv, LoadedInList
<1>6. InOrder' BY <1>1 DEF TurnsInv, InOrder
<1> QED BY <1>1, <1>4, <1>5, <1>6 DEF TurnsInv

LEMMA NextTurns == IInv /\ TurnsInv /\ [Next]_vars => TurnsInv'
<1> SUFFICES ASSUME IInv, TurnsInv, [Next]_vars PROVE TurnsInv'
    OBVIOUS
<1>1. ASSUME NEW r \in Reqs, Handler(r) PROVE TurnsInv'
    BY <1>1, LoadTurns, StoreTurns, PickTurns, OtherTurns DEF Handler
<1>2. CASE UNCHANGED vars
    BY <1>2 DEF vars, choice, TurnsInv, LoadedInList, InOrder, LastAt, After, Choosing, N
<1> QED BY <1>1, <1>2 DEF Next

\* Of N choices in a row that do not overlap no two take the same upstream,
\* however many requests raced for the index before.
THEOREM TakesTurns == Spec => []RoundRobin
<1>1. IInv /\ TurnsInv => RoundRobin
    <2> SUFFICES ASSUME IInv, TurnsInv, NEW i \in DOMAIN turns, NEW j \in DOMAIN turns,
                        turns[i] = turns[j]
                 PROVE  i = j
        BY DEF RoundRobin
    <2>1. DOMAIN turns = 1..Len(turns) /\ Len(turns) \in Nat BY LenProperties DEF TurnsInv
    <2>2. N \in Nat /\ Len(turns) <= N BY DEF IInv, TurnsInv
    <2>3. turns[i] \in 1..N BY <2>1, ElementOfSeq DEF TurnsInv
    <2>4. CASE i <= j
        <3>1. turns[j] = turns[i] + (j - i) \/ turns[j] = turns[i] + (j - i) - N
            BY <2>1, <2>4 DEF TurnsInv, InOrder
        <3> QED BY <2>1, <2>2, <2>3, <3>1
    <2>5. CASE j <= i
        <3>1. turns[i] = turns[j] + (i - j) \/ turns[i] = turns[j] + (i - j) - N
            BY <2>1, <2>5 DEF TurnsInv, InOrder
        <3> QED BY <2>1, <2>2, <2>3, <3>1
    <2> QED BY <2>1, <2>4, <2>5
<1> QED BY <1>1, Invariance, InitTurns, NextTurns, PTL DEF Spec
-----------------------------------------------------------------------------
(* What is done to an answer                                               *)

\* The answer a as it arrives, and once its headers and cookies are rewritten.
Arrived(a) == [a EXCEPT !.links = {Text(l) : l \in a.links}]
Stripped(secure, recycled, a) ==
    [StripHeaders(Arrived(a)) EXCEPT !.cookies = RewriteCookies(secure, recycled, a.cookies)]

\* What a request holds of its answer at every place.
AnswerAt(r) ==
    /\ pc[r] \in {"idle", "store", "pick", "do"} => answer[r] = None
    /\ answer[r] # None => answer[r] \in Answers
    /\ pc[r] \in {"headers", "body"} => answer[r] # None
    /\ pc[r] = "headers" => resp[r] = Arrived(answer[r])
    /\ pc[r] = "body" =>
        \E recycled \in SUBSET DOMAIN answer[r].cookies :
            resp[r] = Stripped(tls[r], recycled, answer[r])
    /\ (pc[r] = "done" /\ answer[r] # None) =>
        /\ upstream[r] \in 1..N
        /\ \E recycled \in SUBSET DOMAIN answer[r].cookies :
            resp[r] = RewriteResponse(Stripped(tls[r], recycled, answer[r]), upstream[r])

AnswerInv ==
    /\ Upstream \in Configured
    /\ DOMAIN resp = Reqs /\ DOMAIN answer = Reqs
    /\ \A r \in Reqs : AnswerAt(r)

LEMMA InitAnswer == Init => AnswerInv
<1> QED BY DEF Init, AnswerInv, AnswerAt

\* A step that changes nothing of q leaves what it holds.
LEMMA SameAnswer ==
    ASSUME AnswerInv, NEW q \in Reqs, UNCHANGED <<Upstream, tls>>, pc'[q] = pc[q],
           answer'[q] = answer[q], resp'[q] = resp[q], upstream'[q] = upstream[q]
    PROVE  AnswerAt(q)'
<1>1. AnswerAt(q) BY DEF AnswerInv
<1>2. ASSUME pc[q] = "done", answer[q] # None
      PROVE  /\ upstream'[q] \in 1..N'
             /\ \E recycled \in SUBSET DOMAIN answer'[q].cookies :
                    resp'[q] = RewriteResponse(Stripped(tls[q], recycled, answer[q]), upstream[q])'
    <2>1. PICK recycled \in SUBSET DOMAIN answer[q].cookies :
            resp[q] = RewriteResponse(Stripped(tls[q], recycled, answer[q]), upstream[q])
        BY <1>1, <1>2 DEF AnswerAt
    <2>2. RewriteResponse(Stripped(tls[q], recycled, answer[q]), upstream[q])'
            = RewriteResponse(Stripped(tls[q], recycled, answer[q]), upstream[q])
        BY DEF RewriteResponse
    <2>3. upstream'[q] \in 1..N' BY <1>1, <1>2 DEF AnswerAt, N
    <2> QED BY <2>1, <2>2, <2>3
<1>3. pc[q] = "body" =>
        \E recycled \in SUBSET DOMAIN answer'[q].cookies :
            resp'[q] = Stripped(tls'[q], recycled, answer'[q])
    BY <1>1 DEF AnswerAt
<1>4. /\ pc[q] \in {"idle", "store", "pick", "do"} => answer'[q] = None
      /\ answer'[q] # None => answer'[q] \in Answers
      /\ pc[q] \in {"headers", "body"} => answer'[q] # None
      /\ pc[q] = "headers" => resp'[q] = Arrived(answer'[q])
    BY <1>1 DEF AnswerAt
<1> QED BY <1>2, <1>3, <1>4 DEF AnswerAt

\* The answer as it arrives, and stripped, keeps all but the links, and all but
\* the headers and cookies.
LEMMA StrippedKeeps ==
    ASSUME NEW a \in Answers, NEW secure, NEW recycled
    PROVE  LET b == Stripped(secure, recycled, a)
           IN  /\ DOMAIN b = {"links", "rewritable", "encoding", "coded", "hop", "cookies"}
               /\ b.links = {Text(l) : l \in a.links} /\ b.rewritable = a.rewritable
               /\ b.encoding = a.encoding /\ b.coded = a.coded /\ b.hop = FALSE
               /\ b.cookies = RewriteCookies(secure, recycled, a.cookies)
               /\ Arrived(a).cookies = a.cookies /\ StripHeaders(Arrived(a)).cookies = a.cookies
<1>1. a \in [links : {a.links}, rewritable : BOOLEAN, encoding : {a.encoding},
             coded : {a.coded}, hop : BOOLEAN, cookies : Seq(ToSet(a.cookies))]
    BY AnswersAssumption
<1> QED BY <1>1 DEF Stripped, StripHeaders, Arrived

\* A step of r leaves the other requests alone.
LEMMA OthersAnswer ==
    ASSUME IInv, AnswerInv, NEW r \in Reqs, Handler(r), NEW q \in Reqs, q # r
    PROVE  AnswerAt(q)'
<1> USE DEF Handler, NoUpstream, Load, Store, Pick, Do, DoFails, Headers, Body, Again,
            Goto, BadGateway, choice
<1>1. UNCHANGED <<Upstream, tls>> OBVIOUS
<1>2. pc'[q] = pc[q] BY DEF IInv
<1>3. answer'[q] = answer[q] BY DEF AnswerInv
<1>4. resp'[q] = resp[q] BY DEF AnswerInv
<1>5. upstream'[q] = upstream[q] BY DEF IInv
<1> QED BY <1>1, <1>2, <1>3, <1>4, <1>5, SameAnswer

LEMMA OwnAnswer ==
    ASSUME IInv, AnswerInv, NEW r \in Reqs, Handler(r)
    PROVE  AnswerAt(r)' /\ DOMAIN resp' = Reqs /\ DOMAIN answer' = Reqs
<1> USE DEF At, Goto, choice
<1>1. CASE NoUpstream(r) \/ DoFails(r)
    BY <1>1 DEF NoUpstream, DoFails, BadGateway, IInv, AnswerInv, AnswerAt
<1>2. CASE Load(r) \/ Store(r) \/ Pick(r)
    BY <1>2 DEF Load, Store, Pick, IInv, AnswerInv, AnswerAt
<1>3. CASE Do(r)
    <2>1. PICK a \in Answers :
            answer' = [answer EXCEPT ![r] = a] /\ resp' = [resp EXCEPT ![r] = Arrived(a)]
        BY <1>3 DEF Do, Arrived
    <2>2. a # None BY AnswersAssumption
    <2>3. pc'[r] = "headers" BY <1>3 DEF Do, IInv
    <2> QED BY <2>1, <2>2, <2>3 DEF AnswerInv, AnswerAt
<1>4. CASE Headers(r)
    <2>1. pc[r] = "headers" /\ pc'[r] = "body" /\ UNCHANGED <<tls, answer>> BY <1>4 DEF Headers, IInv
    <2>2. resp[r] = Arrived(answer[r]) /\ answer[r] \in Answers BY <2>1 DEF AnswerInv, AnswerAt
    <2> DEFINE h == StripHeaders(resp[r])
    <2>3. PICK recycled \in SUBSET DOMAIN resp[r].cookies :
            resp' = [resp EXCEPT ![r] =
                        [h EXCEPT !.cookies = RewriteCookies(tls[r], recycled, h.cookies)]]
        BY <1>4 DEF Headers
    <2>4. resp[r].cookies = answer[r].cookies /\ h.cookies = answer[r].cookies
        BY <2>2, StrippedKeeps
    <2>5. /\ resp'[r] = Stripped(tls[r], recycled, answer[r]) /\ DOMAIN resp' = Reqs
          /\ recycled \in SUBSET DOMAIN answer[r].cookies
        <3>1. Stripped(tls[r], recycled, answer[r])
                = [h EXCEPT !.cookies = RewriteCookies(tls[r], recycled, answer[r].cookies)]
            BY <2>2 DEF Stripped
        <3> HIDE DEF h
        <3>2. /\ resp'[r] = [h EXCEPT !.cookies = RewriteCookies(tls[r], recycled, h.cookies)]
              /\ DOMAIN resp' = Reqs
            BY <2>3 DEF AnswerInv
        <3> QED BY <2>3, <2>4, <3>1, <3>2
    <2> QED BY <2>1, <2>5 DEF AnswerInv, AnswerAt
<1>5. CASE Body(r)
    <2>1. pc[r] = "body" /\ pc'[r] = "done" /\ UNCHANGED <<tls, answer, Upstream, upstream>>
        BY <1>5 DEF Body, IInv
    <2>2. upstream[r] \in 1..N BY <2>1 DEF IInv, UpstreamExists
    <2>3. PICK recycled \in SUBSET DOMAIN answer[r].cookies :
            resp[r] = Stripped(tls[r], recycled, answer[r])
        BY <2>1 DEF AnswerInv, AnswerAt
    <2>4. /\ resp'[r] = RewriteResponse(Stripped(tls[r], recycled, answer[r]), upstream[r])
          /\ DOMAIN resp' = Reqs
        BY <1>5, <2>3 DEF Body, AnswerInv
    <2> QED BY <2>1, <2>2, <2>4 DEF AnswerInv, AnswerAt, N, RewriteResponse
<1>6. CASE Again(r)
    BY <1>6 DEF Again, IInv, AnswerInv, AnswerAt
<1> QED BY <1>1, <1>2, <1>3, <1>4, <1>5, <1>6 DEF Handler

LEMMA NextAnswer == IInv /\ AnswerInv /\ [Next]_vars => AnswerInv'
<1> SUFFICES ASSUME IInv, AnswerInv, [Next]_vars PROVE AnswerInv'
    OBVIOUS
<1>1. ASSUME NEW r \in Reqs, Handler(r) PROVE AnswerInv'
    <2>1. Upstream' = Upstream
        BY <1>1 DEF Handler, NoUpstream, Load, Store, Pick, Do, DoFails, Headers, Body, Again, choice
    <2> QED BY <1>1, <2>1, OwnAnswer, OthersAnswer DEF AnswerInv
<1>2. CASE UNCHANGED vars
    BY <1>2, SameAnswer DEF vars, choice, AnswerInv
<1> QED BY <1>1, <1>2 DEF Next

\* At every place of the handler the response is the upstream's answer, with
\* exactly those rewritings done that the handler has come past.
THEOREM AnswerInvariance == Spec => []AnswerInv
<1> QED BY Invariance, InitAnswer, NextAnswer, PTL DEF Spec

\* What RewriteResponse of upstream u makes of the answer a, once stripped.
IsRewritten(a, secure, recycled, u, c) ==
    /\ c.hop = FALSE /\ c.cookies = RewriteCookies(secure, recycled, a.cookies)
    /\ c.encoding = a.encoding
    /\ a.coded = a.encoding => c.coded = a.encoding
    /\ (a.rewritable /\ a.coded \in Known) =>
        c.links = {RewriteText(Upstream[u], Text(l)) : l \in a.links}

LEMMA Rewritten ==
    ASSUME NEW a \in Answers, NEW secure, NEW recycled, NEW u
    PROVE  IsRewritten(a, secure, recycled, u, RewriteResponse(Stripped(secure, recycled, a), u))
<1> DEFINE b == Stripped(secure, recycled, a)
<1>1. /\ DOMAIN b = {"links", "rewritable", "encoding", "coded", "hop", "cookies"}
      /\ b.links = {Text(l) : l \in a.links} /\ b.rewritable = a.rewritable
      /\ b.encoding = a.encoding /\ b.coded = a.coded /\ b.hop = FALSE
      /\ b.cookies = RewriteCookies(secure, recycled, a.cookies)
    BY StrippedKeeps
<1> HIDE DEF b
<1> DEFINE c == RewriteResponse(b, u)
<1> SUFFICES IsRewritten(a, secure, recycled, u, c)
    BY DEF b
<1> USE DEF IsRewritten
<1>2. CASE ~a.rewritable \/ getDecodedBody(b) = {}
    <2>1. c = b BY <1>1, <1>2 DEF RewriteResponse
    <2>2. (a.rewritable /\ a.coded \in Known) => a.links = {} BY <1>1, <1>2 DEF getDecodedBody
    <2> QED BY <1>1, <2>1, <2>2
<1>3. CASE ~(~a.rewritable \/ getDecodedBody(b) = {})
    <2> DEFINE ls == {RewriteText(Upstream[u], t) : t \in getDecodedBody(b)}
    <2>1. c = [b EXCEPT !.links = ls, !.coded = b.encoding]
        BY <1>1, <1>3 DEF RewriteResponse, setEncodedBody
    <2>2. getDecodedBody(b) = {Text(l) : l \in a.links} BY <1>1, <1>3 DEF getDecodedBody
    <2>3. ls = {RewriteText(Upstream[u], Text(l)) : l \in a.links} BY <2>2
    <2> HIDE DEF ls, c
    <2> QED BY <1>1, <2>1, <2>3
<1> QED BY <1>2, <1>3

\* A request that has its answer has it rewritten, for the upstream it chose.
LEMMA AnsweredIs ==
    ASSUME AnswerInv, NEW r \in Reqs, Answered(r)
    PROVE  /\ answer[r] \in Answers /\ IsAbsolute(Upstream[upstream[r]])
           /\ \E recycled : IsRewritten(answer[r], tls[r], recycled, upstream[r], resp[r])
<1>1. PICK recycled : /\ answer[r] \in Answers /\ upstream[r] \in 1..N
                      /\ resp[r] = RewriteResponse(Stripped(tls[r], recycled, answer[r]), upstream[r])
    BY DEF AnswerInv, AnswerAt, Answered, At
<1>2. IsAbsolute(Upstream[upstream[r]]) BY <1>1, ConfiguredAssumption DEF AnswerInv, N
<1> QED BY <1>1, <1>2, Rewritten
-----------------------------------------------------------------------------
(* The links                                                               *)

\* One piece of a text, and BytesReplaceAll as the fold of it.
ReplaceStep(text, from, to, s, i) ==
    IF i < s.next THEN s
    ELSE IF OccursAt(text, from, i)
    THEN [out |-> s.out \o to, next |-> i + Len(from)]
    ELSE [out |-> Append(s.out, text[i]), next |-> i + 1]

Written == [out : Seq(Pieces), next : Nat]

IsReplaceFold(text, from, to, f) ==
    f = [s \in SUBSET (1..Len(text)) |->
            IF s = {} THEN [out |-> <<>>, next |-> 1]
            ELSE ReplaceStep(text, from, to, f[s \ {Max(s)}], [i \in 1..Len(text) |-> i][Max(s)])]

LEMMA ReplaceIs ==
    ASSUME NEW text, NEW from, NEW to, DOMAIN text = 1..Len(text)
    PROVE  BytesReplaceAll(text, from, to)
            = (CHOOSE f : IsReplaceFold(text, from, to, f))[1..Len(text)].out
<1> DEFINE ids == [i \in DOMAIN text |-> i]
<1>1. DOMAIN ids = 1..Len(text) OBVIOUS
<1> QED BY <1>1 DEF BytesReplaceAll, FoldLeftDomain, FoldLeft, MapThenFoldSet, ReplaceStep, IsReplaceFold

\* The states the loop goes through.
ReplaceSteps(text, from, to, c) ==
    /\ c \in [0..Len(text) -> Written] /\ c[0] = [out |-> <<>>, next |-> 1]
    /\ \A k \in 1..Len(text) : c[k] = ReplaceStep(text, from, to, c[k - 1], k)
    /\ BytesReplaceAll(text, from, to) = c[Len(text)].out

LEMMA ReplaceChain ==
    ASSUME NEW text \in Seq(Pieces), NEW from \in Seq(Pieces), NEW to \in Seq(Pieces)
    PROVE  \E c : ReplaceSteps(text, from, to, c)
<1> DEFINE n == Len(text)
           base == [out |-> <<>>, next |-> 1]
           G == [x \in (1..n) \X Written |-> ReplaceStep(text, from, to, x[2], x[1])]
           ids == [i \in 1..n |-> i]
           f == CHOOSE f : IsReplaceFold(text, from, to, f)
<1>1. n \in Nat /\ DOMAIN text = 1..n /\ Len(from) \in Nat /\ \A i \in 1..n : text[i] \in Pieces
    BY LenProperties, ElementOfSeq
<1>2. \A s \in Written, i \in 1..n : ReplaceStep(text, from, to, s, i) \in Written
    <2> TAKE s \in Written, i \in 1..n
    <2>1. s.out \o to \in Seq(Pieces) /\ Append(s.out, text[i]) \in Seq(Pieces)
        BY <1>1, ConcatProperties, AppendProperties DEF Written
    <2>2. i \in Nat /\ i + Len(from) \in Nat /\ i + 1 \in Nat BY <1>1
    <2> QED BY <2>1, <2>2 DEF ReplaceStep, Written
<1>3. G \in [(1..n) \X Written -> Written] BY <1>2
<1>4. base \in Written BY EmptySeq DEF Written
<1>5. PICK g \in [SUBSET (1..n) -> Written] : Iterates(g, n, base, G)
    <2> HIDE DEF G, n, base
    <2> QED BY <1>1, <1>3, <1>4, FoldExists
<1>6. ASSUME NEW s \in SUBSET (1..n), s # {} PROVE Max(s) \in 1..n /\ ids[Max(s)] = Max(s)
    <2>1. s \in SUBSET (0..n) BY <1>1
    <2> HIDE DEF n
    <2>2. Max(s) \in s BY <1>1, <1>6, <2>1, MaxOfNat
    <2> QED BY <2>2
<1> HIDE DEF base, ids
<1>7. IsReplaceFold(text, from, to, g)
    <2> SUFFICES ASSUME NEW s \in SUBSET (1..n)
                 PROVE  g[s] = IF s = {} THEN base
                               ELSE ReplaceStep(text, from, to, g[s \ {Max(s)}], ids[Max(s)])
        BY DEF IsReplaceFold, base, ids
    <2>1. CASE s # {}
        <3>1. s \ {Max(s)} \in SUBSET (1..n) OBVIOUS
        <3>2. G[<<Max(s), g[s \ {Max(s)}]>>] = ReplaceStep(text, from, to, g[s \ {Max(s)}], Max(s))
            BY <1>6, <2>1, <3>1
        <3> QED BY <1>5, <1>6, <2>1, <3>2 DEF Iterates
    <2> QED BY <1>5, <2>1 DEF Iterates
<1>8. IsReplaceFold(text, from, to, f) BY <1>7
<1>9. IteratesIn(f, n, Written, base, G)
    <2> HIDE DEF f
    <2>1. f[{}] = base BY <1>8 DEF IsReplaceFold, base
    <2>2. ASSUME NEW s \in SUBSET (1..n), s # {}, f[s \ {Max(s)}] \in Written
          PROVE  f[s] = G[<<Max(s), f[s \ {Max(s)}]>>]
        <3>1. f[s] = ReplaceStep(text, from, to, f[s \ {Max(s)}], Max(s)) BY <1>6, <1>8, <2>2 DEF IsReplaceFold, ids
        <3> QED BY <1>6, <2>2, <3>1
    <2> HIDE DEF G, n
    <2> QED BY <2>1, <2>2 DEF IteratesIn
<1>10. IsChain(f, n, Written, base, G)
    <2> HIDE DEF f, G, n
    <2> QED BY <1>1, <1>3, <1>4, <1>9, FoldChain
<1>11. BytesReplaceAll(text, from, to) = f[1..n].out
    BY <1>1, ReplaceIs
<1> DEFINE c == [k \in 0..n |-> f[1..k]]
<1>12. ReplaceSteps(text, from, to, c)
    <2> HIDE DEF f
    <2>1. c \in [0..n -> Written] BY <1>10 DEF IsChain
    <2>2. c[0] = base /\ c[n] = f[1..n] BY <1>1, <1>10 DEF IsChain
    <2>3. ASSUME NEW k \in 1..n PROVE c[k] = ReplaceStep(text, from, to, c[k - 1], k)
        <3>1. k \in 0..n /\ k - 1 \in 0..n BY <1>1
        <3>2. f[1..k] = G[<<k, f[1..(k - 1)]>>] /\ f[1..(k - 1)] \in Written
            BY <1>10, <3>1 DEF IsChain
        <3>3. G[<<k, f[1..(k - 1)]>>] = ReplaceStep(text, from, to, f[1..(k - 1)], k) BY <3>2
        <3>4. c[k] = f[1..k] /\ c[k - 1] = f[1..(k - 1)] BY <3>1
        <3> HIDE DEF c, G
        <3> QED BY <3>2, <3>3, <3>4
    <2> HIDE DEF c, G
    <2> QED BY <1>11, <2>1, <2>2, <2>3 DEF ReplaceSteps, base
<1> QED BY <1>12

\* A text that occurs once is replaced there.  p is behind the text if it does not occur.
LEMMA Associative == \A x, y, z \in Seq(Pieces) : (x \o y) \o z = x \o (y \o z)
<1> QED BY ConcatAssociative

LEMMA ReplaceOnce ==
    ASSUME NEW text \in Seq(Pieces), NEW from \in Seq(Pieces), NEW to \in Seq(Pieces), from # <<>>,
           NEW p \in 1..(Len(text) + 1),
           \A i \in 1..Len(text) : OccursAt(text, from, i) <=> i = p
    PROVE  BytesReplaceAll(text, from, to) =
            IF p = Len(text) + 1 THEN text
            ELSE SubSeq(text, 1, p - 1) \o to \o SubSeq(text, p + Len(from), Len(text))
<1> DEFINE n == Len(text)
           m == p + Len(from)
           begin == SubSeq(text, 1, p - 1) \o to
           rest(k) == begin \o SubSeq(text, m, k)
           Reached(k) == IF k < p THEN [out |-> SubSeq(text, 1, k), next |-> k + 1]
                    ELSE [out |-> rest(k), next |-> IF k < m THEN m ELSE k + 1]
<1>1. /\ n \in Nat /\ Len(from) \in Nat /\ Len(from) > 0 /\ p \in Nat /\ p > 0 /\ m \in Nat /\ m > p
      /\ \A i \in 1..n : text[i] \in Pieces
    BY LenProperties, EmptySeq, ElementOfSeq
<1>2. p <= n => m <= n + 1
    <2>1. p <= n => OccursAt(text, from, p) BY <1>1
    <2> QED BY <1>1, <2>1 DEF OccursAt
<1>3. PICK c : ReplaceSteps(text, from, to, c) BY ReplaceChain
<1>4. begin \in Seq(Pieces)
    <2>1. SubSeq(text, 1, p - 1) \in Seq(Pieces) BY <1>1, SubSeqProperties
    <2> QED BY <2>1, ConcatProperties
<1>11. \A k \in Nat : k < p => Reached(k) = [out |-> SubSeq(text, 1, k), next |-> k + 1]
    OBVIOUS
<1>12. \A k \in Nat : (k >= p /\ k < m) => Reached(k) = [out |-> rest(k), next |-> m]
    BY <1>1
<1>13. \A k \in Nat : k >= m => Reached(k) = [out |-> rest(k), next |-> k + 1]
    <2> SUFFICES ASSUME NEW k \in Nat, k >= m
                 PROVE  Reached(k) = [out |-> rest(k), next |-> k + 1]
        OBVIOUS
    <2>1. ~(k < p) /\ ~(k < m) BY <1>1
    <2> QED BY <2>1
<1> HIDE DEF begin, m, rest, Reached
<1> DEFINE Good == {k \in Nat : k <= n => c[k] = Reached(k)}
<1>5. 0 \in Good
    <2>1. c[0] = [out |-> <<>>, next |-> 1] BY <1>3 DEF ReplaceSteps
    <2>2. SubSeq(text, 1, 0) = <<>> BY SubSeqEmpty
    <2>3. 0 < p BY <1>1
    <2> QED BY <1>11, <2>1, <2>2, <2>3
<1>6. ASSUME NEW k \in Good PROVE k + 1 \in Good
    <2> SUFFICES ASSUME k + 1 <= n PROVE c[k + 1] = Reached(k + 1)
        OBVIOUS
    <2>1. k \in Nat /\ k + 1 \in 1..n /\ c[k] = Reached(k) BY <1>1
    <2>2. c[k + 1] = ReplaceStep(text, from, to, c[k], k + 1)
        <3>1. c[k + 1] = ReplaceStep(text, from, to, c[(k + 1) - 1], k + 1)
            BY <1>3, <2>1 DEF ReplaceSteps
        <3>2. (k + 1) - 1 = k BY <2>1
        <3> QED BY <3>1, <3>2
    <2>3. OccursAt(text, from, k + 1) <=> k + 1 = p BY <2>1
    <2> HIDE DEF Good, n
    <2>4. CASE k + 1 < p
        <3>1. Append(SubSeq(text, 1, k), text[k + 1]) = SubSeq(text, 1, k + 1)
            <4>1. SubSeq(text, 1, k + 1) = SubSeq(text, 1, (k + 1) - 1) \o <<text[k + 1]>>
                BY <1>1, <2>1, SubSeqRecursiveSecond
            <4>2. (k + 1) - 1 = k BY <2>1
            <4>3. SubSeq(text, 1, k) \in Seq(Pieces) BY <1>1, <2>1, SubSeqProperties
            <4>4. Append(SubSeq(text, 1, k), text[k + 1]) = SubSeq(text, 1, k) \o <<text[k + 1]>>
                BY <1>1, <2>1, <4>3, AppendIsConcat
            <4> QED BY <4>1, <4>2, <4>4
        <3>2. k < p /\ ~(k + 1 < k + 1) /\ k + 1 # p BY <1>1, <2>1, <2>4
        <3>3. c[k] = [out |-> SubSeq(text, 1, k), next |-> k + 1] BY <1>11, <2>1, <3>2
        <3>4. c[k + 1] = [out |-> SubSeq(text, 1, k + 1), next |-> (k + 1) + 1]
            <4>1. c[k].next = k + 1 /\ c[k].out = SubSeq(text, 1, k) BY <2>1, <3>3
            <4> QED BY <2>2, <2>3, <3>1, <3>2, <4>1 DEF ReplaceStep
        <3> QED BY <1>11, <2>1, <2>4, <3>4
    <2>5. CASE k + 1 = p
        <3>1. c[k] = [out |-> SubSeq(text, 1, p - 1), next |-> p]
            <4>1. k < p /\ k = p - 1 /\ k + 1 = p BY <1>1, <2>1, <2>5
            <4>2. c[k] = [out |-> SubSeq(text, 1, k), next |-> k + 1] BY <1>11, <2>1, <4>1
            <4> QED BY <4>1, <4>2
        <3>2. c[k + 1] = [out |-> begin, next |-> m]
            <4>1. c[k].next = p /\ c[k].out = SubSeq(text, 1, p - 1) BY <3>1
            <4>2. ~(k + 1 < p) /\ OccursAt(text, from, k + 1) BY <1>1, <2>3, <2>5
            <4>3. c[k + 1] = [out |-> c[k].out \o to, next |-> (k + 1) + Len(from)]
                BY <2>2, <4>1, <4>2 DEF ReplaceStep
            <4> QED BY <2>5, <4>1, <4>3 DEF begin, m
        <3>3. SubSeq(text, m, k + 1) = <<>> BY <1>1, <2>5, SubSeqEmpty
        <3>4. rest(k + 1) = begin BY <1>4, <3>3, ConcatEmptySeq DEF rest
        <3>5. k + 1 \in Nat /\ k + 1 >= p /\ k + 1 < m BY <1>1, <2>1, <2>5
        <3>6. Reached(k + 1) = [out |-> rest(k + 1), next |-> m] BY <1>12, <3>5
        <3> QED BY <3>2, <3>4, <3>6
    <2>6. CASE k + 1 > p /\ k + 1 < m
        <3>1. c[k] = [out |-> rest(k), next |-> m]
            <4>1. k >= p /\ k < m BY <1>1, <2>1, <2>6
            <4> QED BY <1>12, <2>1, <4>1
        <3>2. c[k + 1] = c[k] BY <2>2, <2>6, <3>1 DEF ReplaceStep
        <3>3. SubSeq(text, m, k) = <<>> /\ SubSeq(text, m, k + 1) = <<>>
            BY <1>1, <2>1, <2>6, SubSeqEmpty
        <3>4. k + 1 \in Nat /\ k + 1 >= p BY <1>1, <2>1, <2>6
        <3>5. Reached(k + 1) = [out |-> rest(k + 1), next |-> m] BY <1>12, <2>6, <3>4
        <3> QED BY <3>1, <3>2, <3>3, <3>5 DEF rest
    <2>7. CASE k + 1 >= m
        <3>1. c[k] = [out |-> rest(k), next |-> k + 1]
            <4>1. CASE k + 1 = m
                <5>1. k >= p /\ k < m BY <1>1, <2>1, <4>1
                <5> QED BY <1>12, <2>1, <4>1, <5>1
            <4>2. CASE k + 1 # m
                <5>1. k >= m BY <1>1, <2>1, <2>7, <4>2
                <5> QED BY <1>13, <2>1, <5>1
            <4> QED BY <4>1, <4>2
        <3>2. c[k + 1] = [out |-> Append(rest(k), text[k + 1]), next |-> (k + 1) + 1]
            <4>1. c[k].next = k + 1 /\ c[k].out = rest(k) BY <2>1, <3>1
            <4>2. ~(k + 1 < k + 1) /\ ~OccursAt(text, from, k + 1) BY <1>1, <2>1, <2>3, <2>7
            <4> QED BY <2>2, <4>1, <4>2 DEF ReplaceStep
        <3>3. SubSeq(text, m, k) \in Seq(Pieces) BY <1>1, <2>1, SubSeqProperties
        <3>4. <<text[k + 1]>> \in Seq(Pieces) BY <1>1, <2>1
        <3>5. SubSeq(text, m, k) \o <<text[k + 1]>> = SubSeq(text, m, k + 1)
            <4>1. m \in 1..n /\ k + 1 \in m..n BY <1>1, <2>1, <2>7
            <4>2. SubSeq(text, m, k + 1) = SubSeq(text, m, (k + 1) - 1) \o <<text[k + 1]>>
                BY <4>1, SubSeqRecursiveSecond DEF n
            <4>3. (k + 1) - 1 = k BY <2>1
            <4> QED BY <4>2, <4>3
        <3>6. Append(rest(k), text[k + 1]) = rest(k + 1)
            <4>1. rest(k) \in Seq(Pieces) BY <1>4, <3>3, ConcatProperties DEF rest
            <4>2. Append(rest(k), text[k + 1])
                    = rest(k) \o <<text[k + 1]>>
                BY <1>1, <2>1, <4>1, AppendIsConcat
            <4>3. rest(k) \o <<text[k + 1]>>
                    = begin \o (SubSeq(text, m, k) \o <<text[k + 1]>>)
                <5> DEFINE A == SubSeq(text, m, k)
                           B == <<text[k + 1]>>
                <5>1. A \in Seq(Pieces) /\ B \in Seq(Pieces) BY <3>3, <3>4
                <5> HIDE DEF A, B
                <5>2. (begin \o A) \o B = begin \o (A \o B) BY <1>4, <5>1, Associative
                <5> QED BY <5>2 DEF A, B, rest
            <4> QED BY <3>5, <4>2, <4>3 DEF rest
        <3>7. k + 1 \in Nat BY <2>1
        <3>8. Reached(k + 1) = [out |-> rest(k + 1), next |-> (k + 1) + 1]
            BY <1>13, <2>7, <3>7
        <3> QED BY <3>2, <3>6, <3>8
    <2> QED BY <1>1, <2>1, <2>4, <2>5, <2>6, <2>7
<1>7. Good = Nat
    <2>1. Good \in SUBSET Nat OBVIOUS
    <2> HIDE DEF Good
    <2> QED BY <1>5, <1>6, <2>1, SetInduction
<1>8. BytesReplaceAll(text, from, to) = Reached(n).out
    <2>1. c[n] = Reached(n)
        <3>1. n \in Good BY <1>1, <1>7
        <3> QED BY <1>1, <3>1
    <2>2. BytesReplaceAll(text, from, to) = c[n].out BY <1>3 DEF ReplaceSteps
    <2> QED BY <2>1, <2>2
<1>9. CASE p = n + 1
    <2>1. n < p BY <1>1, <1>9
    <2>2. Reached(n) = [out |-> SubSeq(text, 1, n), next |-> n + 1] BY <1>1, <1>11, <2>1
    <2>3. SubSeq(text, 1, n) = text BY SubSeqFull
    <2> QED BY <1>8, <1>9, <2>2, <2>3
<1>10. CASE p # n + 1
    <2>1. ~(n < p) BY <1>1, <1>10
    <2>2. Reached(n).out = rest(n)
        <3> HIDE DEF n
        <3>1. n \in Nat /\ n >= p /\ (n < m \/ n >= m) BY <1>1, <2>1
        <3>2. CASE n < m BY <1>12, <3>1, <3>2
        <3>3. CASE n >= m BY <1>13, <3>1, <3>3
        <3> QED BY <3>1, <3>2, <3>3
    <2> QED BY <1>8, <1>10, <2>2 DEF begin, m, rest
<1> QED BY <1>9, <1>10

LEMMA AbsoluteIs ==
    ASSUME NEW u, IsAbsolute(u)
    PROVE  /\ u.scheme \in Seq(Pieces) /\ u.place \in Seq(Pieces)
           /\ Len(u.scheme) = 2 /\ Len(u.place) \in Nat /\ Len(u.place) > 0
<1>1. u \in [scheme : Seq(Pieces), place : Seq(Pieces)] /\ u.place # <<>> /\ Len(u.scheme) = 2
    BY DEF IsAbsolute, IsLink
<1>2. u.scheme \in Seq(Pieces) /\ u.place \in Seq(Pieces) BY <1>1
<1> QED BY <1>1, <1>2, LenProperties, EmptySeq

\* Text puts the place behind the scheme.
LEMMA TextIs ==
    ASSUME NEW s \in Seq(Pieces), NEW t \in Seq(Pieces)
    PROVE  LET x == s \o t
           IN  /\ x \in Seq(Pieces) /\ Len(s) \in Nat /\ Len(t) \in Nat /\ Len(x) = Len(s) + Len(t)
               /\ \A i \in 1..Len(s) : x[i] = s[i]
               /\ \A i \in 1..Len(t) : x[Len(s) + i] = t[i]
<1>1. Len(s) \in Nat /\ Len(t) \in Nat BY LenProperties
<1>2. /\ s \o t \in Seq(Pieces) /\ Len(s \o t) = Len(s) + Len(t)
      /\ \A i \in 1..(Len(s) + Len(t)) :
            (s \o t)[i] = IF i <= Len(s) THEN s[i] ELSE t[i - Len(s)]
    BY ConcatProperties
<1> DEFINE x == s \o t
           n == Len(s)
<1> HIDE DEF x, n
<1>3. ASSUME NEW i \in 1..Len(t) PROVE x[n + i] = t[i]
    <2>1. n + i \in 1..(n + Len(t)) /\ ~(n + i <= n) /\ (n + i) - n = i BY <1>1 DEF n
    <2> QED BY <1>2, <2>1 DEF x, n
<1>4. ASSUME NEW i \in 1..n PROVE x[i] = s[i]
    <2>1. i \in 1..(n + Len(t)) /\ i <= n BY <1>1 DEF n
    <2> QED BY <1>2, <2>1 DEF x, n
<1> QED BY <1>1, <1>2, <1>3, <1>4 DEF x, n

\* The rest of it from any place of t on.
LEMMA RestOfText ==
    ASSUME NEW s \in Seq(Pieces), NEW t \in Seq(Pieces), NEW m \in 1..(Len(t) + 1)
    PROVE  SubSeq(s \o t, Len(s) + m, Len(s \o t)) = SubSeq(t, m, Len(t))
<1> DEFINE x == s \o t
           n == Len(s)
           k == Len(t)
<1>1. /\ n \in Nat /\ k \in Nat /\ Len(x) = n + k
      /\ \A i \in 1..k : x[n + i] = t[i]
      /\ \A i \in 1..k : t[i] \in Pieces
    BY TextIs, ElementOfSeq
<1> HIDE DEF x, n
<1>2. CASE m = k + 1
    <2>1. n + m > n + k /\ m > k /\ n + m \in Int /\ n + k \in Int BY <1>1, <1>2
    <2>2. SubSeq(x, n + m, n + k) = <<>> /\ SubSeq(t, m, k) = <<>>
        <3> HIDE DEF k
        <3> QED BY <1>1, <2>1, SubSeqEmpty
    <2> QED BY <1>1, <2>2 DEF x, n
<1>3. CASE m <= k
    <2> DEFINE a == SubSeq(x, n + m, n + k)
               b == SubSeq(t, m, k)
               l == k - m + 1
    <2> HIDE DEF k
    <2>1. l \in Nat /\ (n + k) - (n + m) + 1 = l /\ m \in Nat /\ m > 0 /\ n + m <= n + k
        BY <1>1, <1>3 DEF k
    <2>2. \A i \in (n + m)..(n + k) : x[i] \in Pieces
        <3> TAKE i \in (n + m)..(n + k)
        <3>1. i - n \in 1..k /\ n + (i - n) = i BY <1>1, <2>1
        <3> QED BY <1>1, <3>1
    <2>3. /\ a \in Seq(Pieces) /\ Len(a) = l
          /\ \A i \in 1..l : a[i] = x[(n + m) + i - 1]
        <3>1. n + m \in Int /\ n + k \in Int BY <1>1, <2>1
        <3> QED BY <2>1, <2>2, <3>1, SubSeqProperties
    <2>4. /\ b \in Seq(Pieces) /\ Len(b) = l
          /\ \A i \in 1..l : b[i] = t[m + i - 1]
        <3>1. m \in Int /\ k \in Int /\ m <= k /\ \A i \in m..k : t[i] \in Pieces BY <1>1, <1>3, <2>1
        <3>2. /\ SubSeq(t, m, k) \in Seq(Pieces)
              /\ Len(SubSeq(t, m, k)) = IF m <= k THEN k - m + 1 ELSE 0
              /\ \A i \in 1..(k - m + 1) : SubSeq(t, m, k)[i] = t[m + i - 1]
            BY <3>1, SubSeqProperties
        <3> QED BY <3>1, <3>2
    <2> HIDE DEF a, b
    <2>5. \A i \in 1..l : a[i] = b[i]
        <3> TAKE i \in 1..l
        <3>1. m + i - 1 \in 1..k /\ (n + m) + i - 1 = n + (m + i - 1) BY <1>1, <2>1
        <3> QED BY <1>1, <2>3, <2>4, <3>1
    <2> HIDE DEF l
    <2>6. a = b BY <2>3, <2>4, <2>5, SeqEqual
    <2> QED BY <1>1, <2>6 DEF a, b, x, n, k
<1> QED BY <1>1, <1>2, <1>3

\* The place of a base URL is what is behind its first colon.
LEMMA TrimIsPlace ==
    ASSUME NEW u, IsAbsolute(u)
    PROVE  trimScheme(Text(u)) = u.place
<1> DEFINE t == Text(u)
           I == {i \in 1..Len(t) : t[i] = ":"}
<1>1. /\ u.scheme \in Seq(Pieces) /\ u.place \in Seq(Pieces) /\ Len(u.scheme) = 2
      /\ Len(u.place) \in Nat /\ u.scheme[1] # ":" /\ u.scheme[2] = ":"
    BY AbsoluteIs DEF IsAbsolute
<1>2. Len(t) = 2 + Len(u.place) /\ t[1] = u.scheme[1] /\ t[2] = u.scheme[2]
    <2> DEFINE x == u.scheme \o u.place
    <2>1. Len(x) = Len(u.scheme) + Len(u.place) /\ \A i \in 1..Len(u.scheme) : x[i] = u.scheme[i]
        BY <1>1, TextIs
    <2> HIDE DEF x
    <2>2. 1 \in 1..Len(u.scheme) /\ 2 \in 1..Len(u.scheme) BY <1>1
    <2>3. Len(x) = 2 + Len(u.place) /\ x[1] = u.scheme[1] /\ x[2] = u.scheme[2] BY <1>1, <2>1, <2>2
    <2> QED BY <2>3 DEF x, Text
<1>3. SelectInSeq(t, LAMBDA x : x = ":") = IF I # {} THEN Min(I) ELSE 0 BY DEF SelectInSeq
<1>4. Min(I) = 2 /\ I # {}
    <2>1. 2 \in I /\ 1 \notin I /\ I \in SUBSET Nat BY <1>1, <1>2
    <2> HIDE DEF I
    <2>2. Min(I) \in I /\ \A y \in I : Min(I) <= y BY <2>1, MinOfNat
    <2>3. Min(I) <= 2 /\ Min(I) # 1 /\ Min(I) \in Nat BY <2>1, <2>2
    <2>4. Min(I) # 0 BY <2>2 DEF I
    <2> QED BY <2>1, <2>3, <2>4
<1>5. trimScheme(t) = SubSeq(t, 2 + 1, Len(t))
    <2> HIDE DEF t, I
    <2> QED BY <1>3, <1>4 DEF trimScheme
<1>6. SubSeq(t, 2 + 1, Len(t)) = SubSeq(u.place, 1, Len(u.place))
    <2>1. 1 \in 1..(Len(u.place) + 1) BY <1>1
    <2>2. SubSeq(u.scheme \o u.place, Len(u.scheme) + 1, Len(u.scheme \o u.place))
            = SubSeq(u.place, 1, Len(u.place))
        BY <1>1, <2>1, RestOfText
    <2> QED BY <1>1, <2>2 DEF Text
<1>7. SubSeq(u.place, 1, Len(u.place)) = u.place BY <1>1, SubSeqFull
<1> QED BY <1>5, <1>6, <1>7

LEMMA ReplaceNone ==
    ASSUME NEW text \in Seq(Pieces), NEW from \in Seq(Pieces), NEW to \in Seq(Pieces), from # <<>>,
           \A i \in 1..Len(text) : ~OccursAt(text, from, i)
    PROVE  BytesReplaceAll(text, from, to) = text
<1> DEFINE p == Len(text) + 1
<1>1. p \in 1..(Len(text) + 1) /\ \A i \in 1..Len(text) : i # p BY LenProperties
<1>2. \A i \in 1..Len(text) : OccursAt(text, from, i) <=> i = p BY <1>1
<1> HIDE DEF p
<1>3. BytesReplaceAll(text, from, to) =
        IF p = Len(text) + 1 THEN text
        ELSE SubSeq(text, 1, p - 1) \o to \o SubSeq(text, p + Len(from), Len(text))
    BY <1>1, <1>2, ReplaceOnce
<1> QED BY <1>3 DEF p

LEMMA LinkIs ==
    ASSUME NEW l, IsLink(l)
    PROVE  /\ l.scheme \in Seq(Pieces) /\ l.place \in Seq(Pieces) /\ Len(l.scheme) \in {0, 2}
           /\ Len(l.place) \in Nat
           /\ Text(l) \in Seq(Pieces) /\ Len(Text(l)) = Len(l.scheme) + Len(l.place)
           /\ \A i \in 1..Len(l.scheme) : Text(l)[i] = l.scheme[i]
           /\ \A i \in 1..Len(l.place) : Text(l)[Len(l.scheme) + i] = l.place[i]
<1>1. l.scheme \in Seq(Pieces) /\ l.place \in Seq(Pieces) /\ Len(l.scheme) \in {0, 2} BY DEF IsLink
<1> QED BY <1>1, TextIs DEF Text

\* Where the whole base URL occurs its place does, behind the scheme.
LEMMA OccursBehind ==
    ASSUME NEW u, IsAbsolute(u), NEW text \in Seq(Pieces), NEW i \in 1..Len(text),
           OccursAt(text, Text(u), i)
    PROVE  /\ i + 2 \in 1..Len(text) /\ OccursAt(text, u.place, i + 2)
           /\ text[i] = u.scheme[1] /\ text[i + 1] = u.scheme[2]
<1> DEFINE t == Text(u)
           n == Len(u.place)
           m == Len(text)
<1>1. /\ Len(t) = 2 + n /\ t[1] = u.scheme[1] /\ t[2] = u.scheme[2]
      /\ \A j \in 1..n : t[2 + j] = u.place[j]
      /\ n \in Nat /\ n > 0
    <2>1. IsLink(u) /\ Len(u.scheme) = 2 /\ n > 0 BY AbsoluteIs DEF IsAbsolute
    <2>2. 1 \in 1..Len(u.scheme) /\ 2 \in 1..Len(u.scheme) BY <2>1
    <2>3. Len(t) = Len(u.scheme) + n /\ t[1] = u.scheme[1] /\ t[2] = u.scheme[2] /\ n \in Nat
        BY <2>1, <2>2, LinkIs
    <2>4. \A j \in 1..n : t[Len(u.scheme) + j] = u.place[j] BY <2>1, LinkIs
    <2> HIDE DEF t, n
    <2> QED BY <2>1, <2>3, <2>4
<1>2. m \in Nat BY LenProperties
<1>3. i + Len(t) <= m + 1 /\ \A j \in 1..Len(t) : text[i + j - 1] = t[j] BY DEF OccursAt
<1> HIDE DEF t, n, m
<1>4. i + 2 \in 1..m /\ (i + 2) + n <= m + 1 BY <1>1, <1>2, <1>3 DEF m
<1>5. ASSUME NEW j \in 1..n PROVE text[(i + 2) + j - 1] = u.place[j]
    <2>1. 2 + j \in 1..Len(t) /\ i + (2 + j) - 1 = (i + 2) + j - 1 BY <1>1, <1>2 DEF m
    <2> QED BY <1>1, <1>3, <2>1
<1>6. text[i] = t[1] /\ text[i + 1] = t[2]
    <2>1. 1 \in 1..Len(t) /\ 2 \in 1..Len(t) /\ i + 1 - 1 = i /\ i + 2 - 1 = i + 1 BY <1>1, <1>2 DEF m
    <2> QED BY <1>3, <2>1
<1> QED BY <1>1, <1>4, <1>5, <1>6 DEF OccursAt, m, n

\* A link below an upstream has its place behind the scheme, and its whole base
\* URL at the beginning if it has its scheme too.
LEMMA BelowOccurs ==
    ASSUME NEW u, IsAbsolute(u), NEW l, IsLink(l), Below(u, l)
    PROVE  /\ Len(u.place) <= Len(l.place)
           /\ OccursAt(Text(l), u.place, Len(l.scheme) + 1)
           /\ l.scheme = u.scheme => OccursAt(Text(l), Text(u), 1)
<1> DEFINE n == Len(u.place)
           s == Len(l.scheme)
           t == Text(l)
<1>1. /\ n \in Nat /\ n > 0 /\ s \in {0, 2} /\ Len(l.place) \in Nat /\ Len(t) = s + Len(l.place)
      /\ \A i \in 1..s : t[i] = l.scheme[i]
      /\ \A i \in 1..Len(l.place) : t[s + i] = l.place[i]
    BY LinkIs, AbsoluteIs
<1>2. u.place \in Seq(Pieces) /\ l.place \in Seq(Pieces) BY LinkIs, AbsoluteIs
<1>3. n <= Len(l.place) /\ SubSeq(u.place, 1, n) = SubSeq(l.place, 1, n) BY DEF Below, IsPrefix
<1>4. ASSUME NEW i \in 1..n PROVE u.place[i] = l.place[i]
    <2> HIDE DEF n
    <2>1. SubSeq(u.place, 1, n)[i] = u.place[i] BY <1>1, <1>2
    <2>2. SubSeq(l.place, 1, n)[i] = l.place[i] BY <1>1, <1>2, <1>3
    <2> QED BY <1>3, <2>1, <2>2
<1> HIDE DEF n, s, t
<1>5. ASSUME NEW j \in 1..n PROVE t[s + 1 + j - 1] = u.place[j]
    <2>1. j \in 1..Len(l.place) /\ s + 1 + j - 1 = s + j BY <1>1, <1>3
    <2> QED BY <1>1, <1>4, <2>1
<1>6. (s + 1) + n <= Len(t) + 1 BY <1>1, <1>3
<1>7. ASSUME l.scheme = u.scheme PROVE OccursAt(t, Text(u), 1)
    <2> DEFINE x == Text(u)
    <2>1. Len(x) = 2 + n /\ s = 2
        <3>1. IsLink(u) /\ Len(u.scheme) = 2 BY AbsoluteIs DEF IsAbsolute
        <3> QED BY <1>7, <3>1, LinkIs DEF s, n
    <2>2. /\ \A i \in 1..2 : x[i] = u.scheme[i]
          /\ \A i \in 1..n : x[2 + i] = u.place[i]
        <3>1. IsLink(u) /\ Len(u.scheme) = 2 BY AbsoluteIs DEF IsAbsolute
        <3>2. /\ \A i \in 1..Len(u.scheme) : x[i] = u.scheme[i]
              /\ \A i \in 1..n : x[Len(u.scheme) + i] = u.place[i]
            BY <3>1, LinkIs DEF n
        <3> QED BY <3>1, <3>2
    <2> HIDE DEF x
    <2>3. ASSUME NEW j \in 1..Len(x) PROVE t[1 + j - 1] = x[j]
        <3>1. 1 + j - 1 = j /\ j \in Nat /\ j <= 2 + n BY <1>1, <2>1
        <3>2. CASE j \in 1..2
            <4>1. t[j] = l.scheme[j] BY <1>1, <2>1, <3>2
            <4> QED BY <1>7, <2>2, <3>1, <3>2, <4>1
        <3>3. CASE j \notin 1..2
            <4>1. j - 2 \in 1..n /\ j - 2 \in 1..Len(l.place) /\ 2 + (j - 2) = j BY <1>1, <1>3, <3>1, <3>3
            <4>2. t[2 + (j - 2)] = l.place[j - 2] BY <1>1, <2>1, <4>1
            <4>3. x[2 + (j - 2)] = u.place[j - 2] BY <2>2, <4>1
            <4> QED BY <1>4, <3>1, <4>1, <4>2, <4>3
        <3> QED BY <3>2, <3>3
    <2>4. 1 + Len(x) <= Len(t) + 1 BY <1>1, <1>3, <2>1
    <2> QED BY <2>3, <2>4 DEF OccursAt, x
<1> QED BY <1>3, <1>5, <1>6, <1>7 DEF OccursAt, n, s, t

\* A text x \o y in which what y begins with is replaced.
LEMMA ReplaceBehind ==
    ASSUME NEW x \in Seq(Pieces), NEW y \in Seq(Pieces), NEW from \in Seq(Pieces),
           NEW to \in Seq(Pieces), from # <<>>, Len(from) <= Len(y),
           \A i \in 1..Len(x \o y) : OccursAt(x \o y, from, i) <=> i = Len(x) + 1
    PROVE  BytesReplaceAll(x \o y, from, to) = x \o to \o SubSeq(y, Len(from) + 1, Len(y))
<1> DEFINE text == x \o y
           p == Len(x) + 1
           n == Len(from)
<1>1. /\ Len(x) \in Nat /\ Len(y) \in Nat /\ text \in Seq(Pieces) /\ Len(text) = Len(x) + Len(y)
      /\ \A i \in 1..Len(x) : text[i] = x[i]
      /\ n \in Nat /\ n > 0
    BY TextIs, LenProperties, EmptySeq
<1>2. \A i \in 1..Len(text) : OccursAt(text, from, i) <=> i = p OBVIOUS
<1> HIDE DEF text, n
<1>3. p \in 1..(Len(text) + 1) /\ p # Len(text) + 1 BY <1>1 DEF n
<1>4. BytesReplaceAll(text, from, to) = SubSeq(text, 1, p - 1) \o to \o SubSeq(text, p + n, Len(text))
    <2> HIDE DEF p
    <2>1. BytesReplaceAll(text, from, to) =
            IF p = Len(text) + 1 THEN text
            ELSE SubSeq(text, 1, p - 1) \o to \o SubSeq(text, p + Len(from), Len(text))
        BY <1>1, <1>2, <1>3, ReplaceOnce
    <2> QED BY <1>3, <2>1 DEF n
<1>5. SubSeq(text, 1, p - 1) = x
    <2>1. p - 1 = Len(x) BY <1>1
    <2> DEFINE z == SubSeq(text, 1, Len(x))
    <2>2. \A i \in 1..Len(x) : text[i] \in Pieces BY <1>1, ElementOfSeq
    <2>3. z \in Seq(Pieces) /\ Len(z) = Len(x) /\ \A i \in 1..Len(x) : z[i] = text[i]
        <3> DEFINE k == Len(x)
        <3>1. k \in Nat /\ 1 \in Int /\ k \in Int /\ \A i \in 1..k : text[i] \in Pieces BY <1>1, <2>2
        <3> HIDE DEF k
        <3>2. /\ SubSeq(text, 1, k) \in Seq(Pieces)
              /\ Len(SubSeq(text, 1, k)) = IF 1 <= k THEN k - 1 + 1 ELSE 0
              /\ \A i \in 1..(k - 1 + 1) : SubSeq(text, 1, k)[i] = text[1 + i - 1]
            BY <3>1, SubSeqProperties
        <3>3. Len(SubSeq(text, 1, k)) = k /\ k - 1 + 1 = k /\ \A i \in 1..k : 1 + i - 1 = i
            BY <3>1, <3>2
        <3>4. \A i \in 1..k : SubSeq(text, 1, k)[i] = text[i] BY <3>2, <3>3
        <3> QED BY <3>2, <3>3, <3>4 DEF k
    <2> HIDE DEF z
    <2>4. z = x BY <1>1, <2>3, SeqEqual
    <2> QED BY <2>1, <2>4 DEF z
<1>6. SubSeq(text, p + n, Len(text)) = SubSeq(y, n + 1, Len(y))
    <2>1. n + 1 \in 1..(Len(y) + 1) /\ p + n = Len(x) + (n + 1) BY <1>1 DEF n
    <2> HIDE DEF p
    <2>2. SubSeq(x \o y, Len(x) + (n + 1), Len(x \o y)) = SubSeq(y, n + 1, Len(y))
        BY <2>1, RestOfText
    <2> QED BY <2>1, <2>2 DEF text
<1> QED BY <1>4, <1>5, <1>6 DEF text, n

\* The two ReplaceAll lead a link to where it should lead, the second of which
\* may hit what the first wrote.
LEMMA RewriteTextTarget ==
    ASSUME NEW u, IsAbsolute(u), NEW l, IsLink(l), ~Stray(u, l), ~Twice(u, l)
    PROVE  RewriteText(u, Text(l)) = Text(Target(u, l))
<1> DEFINE t == Text(l)
           s == l.scheme
           q == BaseURL.place
           rest == SubSeq(l.place, Len(u.place) + 1, Len(l.place))
<1>1. /\ IsLink(u) /\ Len(u.scheme) = 2 /\ u.place \in Seq(Pieces) /\ u.place # <<>>
      /\ Len(u.place) \in Nat
      /\ Text(u) \in Seq(Pieces) /\ Text(u) # <<>> /\ Len(Text(u)) = 2 + Len(u.place)
    <2>1. IsLink(u) /\ Len(u.scheme) = 2 /\ u.place # <<>> BY DEF IsAbsolute
    <2>2. Text(u) \in Seq(Pieces) /\ Len(Text(u)) = Len(u.scheme) + Len(u.place)
          /\ u.place \in Seq(Pieces) /\ Len(u.place) \in Nat
        BY <2>1, LinkIs
    <2>3. Len(Text(u)) = 2 + Len(u.place) BY <2>1, <2>2
    <2>4. Text(u) # <<>>
        <3> DEFINE n == Len(u.place)
        <3> HIDE DEF n
        <3>1. n \in Nat /\ Len(Text(u)) = 2 + n BY <2>2, <2>3 DEF n
        <3>2. Len(Text(u)) # 0 BY <3>1
        <3> QED BY <3>2, EmptySeq
    <2> QED BY <2>1, <2>2, <2>3, <2>4
<1>2. /\ BaseURL.scheme \in Seq(Pieces) /\ BaseURL.place \in Seq(Pieces)
      /\ Len(BaseURL.scheme) = 2 /\ Text(BaseURL) \in Seq(Pieces)
    <2>1. IsAbsolute(BaseURL) /\ IsLink(BaseURL) BY ConfiguredAssumption DEF IsAbsolute
    <2> QED BY <2>1, AbsoluteIs, LinkIs
<1>3. RewriteText(u, t) = BytesReplaceAll(BytesReplaceAll(t, Text(u), Text(BaseURL)),
                                          u.place, BaseURL.place)
    <2>1. trimScheme(Text(u)) = u.place BY TrimIsPlace
    <2>2. trimScheme(Text(BaseURL)) = BaseURL.place BY TrimIsPlace, ConfiguredAssumption
    <2> QED BY <2>1, <2>2 DEF RewriteText
<1>4. /\ t \in Seq(Pieces) /\ l.scheme \in Seq(Pieces) /\ l.place \in Seq(Pieces)
      /\ Len(l.scheme) \in {0, 2} /\ Len(l.place) \in Nat
      /\ Len(t) = Len(l.scheme) + Len(l.place)
      /\ \A i \in 1..Len(l.scheme) : t[i] = l.scheme[i]
      /\ (Len(l.scheme) = 0 \/ Len(l.scheme) = 2) /\ Len(l.scheme) \in Nat /\ Len(t) \in Nat
    <2> DEFINE k == Len(l.scheme)
               m == Len(l.place)
    <2>1. /\ t \in Seq(Pieces) /\ l.scheme \in Seq(Pieces) /\ l.place \in Seq(Pieces)
          /\ k \in {0, 2} /\ m \in Nat /\ Len(t) = k + m
          /\ \A i \in 1..k : t[i] = l.scheme[i]
        BY LinkIs
    <2> HIDE DEF k, m, t
    <2>2. k \in Nat /\ (k = 0 \/ k = 2) /\ Len(t) \in Nat BY <2>1
    <2> QED BY <2>1, <2>2 DEF k, m
<1>5. Occurs(u, l) = {i \in 1..Len(t) : OccursAt(t, u.place, i)} BY DEF Occurs
<1> HIDE DEF t
<1>6. CASE ~Below(u, l)
    <2>1. \A i \in 1..Len(t) : ~OccursAt(t, u.place, i) BY <1>5, <1>6 DEF Stray
    <2>2. \A i \in 1..Len(t) : ~OccursAt(t, Text(u), i) BY <1>4, <2>1, OccursBehind
    <2>3. BytesReplaceAll(t, Text(u), Text(BaseURL)) = t BY <1>1, <1>2, <1>4, <2>2, ReplaceNone
    <2>4. BytesReplaceAll(t, u.place, BaseURL.place) = t BY <1>1, <1>2, <1>4, <2>1, ReplaceNone
    <2>5. Target(u, l) = l BY <1>6 DEF Target
    <2> QED BY <1>3, <2>3, <2>4, <2>5 DEF t
<1>7. ASSUME Below(u, l)
      PROVE  /\ Len(u.place) <= Len(l.place) /\ rest \in Seq(Pieces)
             /\ \A i \in 1..Len(t) : OccursAt(t, u.place, i) => i = Len(l.scheme) + 1
             /\ OccursAt(t, u.place, Len(l.scheme) + 1)
             /\ l.scheme = u.scheme => OccursAt(t, Text(u), 1)
    <2>1. \A i \in 1..Len(t) : OccursAt(t, u.place, i) => i = Len(l.scheme) + 1
        BY <1>5, <1>7 DEF Stray
    <2>2. rest \in Seq(Pieces)
        <3>1. \A i \in (Len(u.place) + 1)..Len(l.place) : l.place[i] \in Pieces
            BY <1>1, <1>4, ElementOfSeq
        <3> QED BY <1>1, <1>4, <3>1, SubSeqProperties
    <2> QED BY <1>7, <2>1, <2>2, BelowOccurs DEF t
<1> HIDE DEF rest
<1>8. CASE Below(u, l) /\ l.scheme = u.scheme
    <2> DEFINE v == Target(u, l)
    <2>1. v = [scheme |-> BaseURL.scheme, place |-> BaseURL.place \o rest] BY <1>8 DEF Target, rest
    <2>2. BaseURL.place \o rest \in Seq(Pieces) BY <1>2, <1>7, <1>8, ConcatProperties
    <2>3. Text(v) = BaseURL.scheme \o (BaseURL.place \o rest) /\ Text(v) \in Seq(Pieces)
        <3>1. Text(v) = v.scheme \o v.place BY DEF Text
        <3> HIDE DEF v
        <3>2. v.scheme = BaseURL.scheme /\ v.place = BaseURL.place \o rest BY <2>1
        <3>3. v.scheme \o v.place \in Seq(Pieces) BY <1>2, <2>2, <3>2, ConcatProperties
        <3> QED BY <3>1, <3>2, <3>3
    <2>4. BytesReplaceAll(t, Text(u), Text(BaseURL)) = Text(v)
        <3>1. \A i \in 1..Len(t) : OccursAt(t, Text(u), i) <=> i = 1
            <4> TAKE i \in 1..Len(t)
            <4>1. ASSUME OccursAt(t, Text(u), i) PROVE i = 1
                <5>1. i + 2 \in 1..Len(t) /\ OccursAt(t, u.place, i + 2)
                    BY <1>4, <4>1, OccursBehind
                <5>2. i + 2 = 2 + 1 BY <1>1, <1>7, <1>8, <5>1
                <5> QED BY <1>4, <5>2
            <4>2. i = 1 => OccursAt(t, Text(u), i) BY <1>7, <1>8
            <4> QED BY <4>1, <4>2
        <3> DEFINE w == l.scheme \o l.place
        <3>2. t = <<>> \o t BY <1>4, ConcatEmptySeq
        <3>3. Len(Text(u)) <= Len(t)
            <4> DEFINE n == Len(u.place)
                       m == Len(l.place)
            <4>1. Len(Text(u)) = 2 + n /\ Len(t) = 2 + m /\ n <= m /\ n \in Nat /\ m \in Nat
                BY <1>1, <1>4, <1>7, <1>8
            <4> HIDE DEF n, m
            <4> QED BY <4>1
        <3>4. BytesReplaceAll(<<>> \o t, Text(u), Text(BaseURL))
                = <<>> \o Text(BaseURL) \o SubSeq(t, Len(Text(u)) + 1, Len(t))
            <4>1. Len(<<>>) = 0 /\ <<>> \in Seq(Pieces) BY EmptySeq
            <4>2. \A i \in 1..Len(<<>> \o t) : OccursAt(<<>> \o t, Text(u), i) <=> i = Len(<<>>) + 1
                BY <3>1, <3>2, <4>1
            <4> DEFINE e == <<>>
            <4>3. /\ e \in Seq(Pieces) /\ t = e \o t
                  /\ \A i \in 1..Len(e \o t) : OccursAt(e \o t, Text(u), i) <=> i = Len(e) + 1
                BY <3>2, <4>1, <4>2
            <4> DEFINE f == Text(u)
                       b == Text(BaseURL)
            <4>4. /\ e \in Seq(Pieces) /\ t \in Seq(Pieces) /\ f \in Seq(Pieces) /\ b \in Seq(Pieces)
                  /\ f # <<>> /\ Len(f) <= Len(t)
                  /\ \A i \in 1..Len(e \o t) : OccursAt(e \o t, f, i) <=> i = Len(e) + 1
                BY <1>1, <1>2, <1>4, <3>3, <4>3
            <4> HIDE DEF e, f, b
            <4>5. BytesReplaceAll(e \o t, f, b) = e \o b \o SubSeq(t, Len(f) + 1, Len(t))
                BY <4>4, ReplaceBehind
            <4> QED BY <4>5 DEF e, f, b
        <3>5. <<>> \o Text(BaseURL) = BaseURL.scheme \o BaseURL.place
            BY <1>2, ConcatEmptySeq DEF Text
        <3>6. SubSeq(t, Len(Text(u)) + 1, Len(t)) = rest
            <4>1. Len(u.place) + 1 \in 1..(Len(l.place) + 1) BY <1>1, <1>4, <1>7, <1>8
            <4>2. SubSeq(w, Len(l.scheme) + (Len(u.place) + 1), Len(w)) = rest
                BY <1>4, <4>1, RestOfText DEF rest
            <4>3. Len(l.scheme) + (Len(u.place) + 1) = Len(Text(u)) + 1
                <5> DEFINE n == Len(u.place)
                <5>1. n \in Nat /\ Len(Text(u)) = 2 + n /\ Len(l.scheme) = 2 BY <1>1, <1>8
                <5> HIDE DEF n
                <5>2. Len(l.scheme) + (n + 1) = Len(Text(u)) + 1 BY <5>1
                <5> QED BY <5>2 DEF n
            <4> QED BY <4>2, <4>3 DEF t, Text
        <3>7. (BaseURL.scheme \o BaseURL.place) \o rest = Text(v)
            BY <1>2, <1>7, <1>8, <2>3, Associative
        <3> QED BY <3>2, <3>4, <3>5, <3>6, <3>7
    <2>5. Occurs(u, v) = {} BY <1>8 DEF Twice
    <2>6. \A i \in 1..Len(Text(v)) : ~OccursAt(Text(v), u.place, i) BY <2>5 DEF Occurs
    <2>7. BytesReplaceAll(Text(v), u.place, BaseURL.place) = Text(v)
        <3> HIDE DEF v
        <3> QED BY <1>1, <1>2, <2>3, <2>6, ReplaceNone
    <2> QED BY <1>3, <2>4, <2>7 DEF t
<1>9. CASE Below(u, l) /\ l.scheme # u.scheme
    <2>1. \A i \in 1..Len(t) : ~OccursAt(t, Text(u), i)
        <3> SUFFICES ASSUME NEW i \in 1..Len(t), OccursAt(t, Text(u), i) PROVE FALSE
            OBVIOUS
        <3>1. /\ i + 2 \in 1..Len(t) /\ OccursAt(t, u.place, i + 2)
              /\ t[i] = u.scheme[1] /\ t[i + 1] = u.scheme[2]
            BY <1>4, OccursBehind
        <3>2. i + 2 = Len(l.scheme) + 1 BY <1>7, <1>9, <3>1
        <3>3. i = 1 /\ Len(l.scheme) = 2
            <4> DEFINE k == Len(l.scheme)
            <4>1. k \in {0, 2} /\ i + 2 = k + 1 /\ i \in Nat /\ i > 0 BY <1>4, <3>2
            <4> HIDE DEF k
            <4>2. i = 1 /\ k = 2 BY <4>1
            <4> QED BY <4>2 DEF k
        <3>4. 1 \in 1..Len(l.scheme) /\ 2 \in 1..Len(l.scheme) BY <3>3
        <3>5. l.scheme[1] = u.scheme[1] /\ l.scheme[2] = u.scheme[2] BY <1>4, <3>1, <3>3, <3>4
        <3>6. u.scheme \in Seq(Pieces) BY AbsoluteIs
        <3>7. \A k \in 1..Len(l.scheme) : l.scheme[k] = u.scheme[k] BY <3>3, <3>5
        <3>8. l.scheme = u.scheme BY <1>1, <1>4, <3>3, <3>6, <3>7, SeqEqual
        <3> QED BY <1>9, <3>8
    <2>2. BytesReplaceAll(t, Text(u), Text(BaseURL)) = t BY <1>1, <1>2, <1>4, <2>1, ReplaceNone
    <2>3. BytesReplaceAll(t, u.place, q) = s \o q \o rest
        <3>1. t = l.scheme \o l.place BY DEF t, Text
        <3>2. \A i \in 1..Len(t) : OccursAt(t, u.place, i) <=> i = Len(l.scheme) + 1 BY <1>7, <1>9
        <3> DEFINE y == l.place
                   f == u.place
        <3>3. /\ s \in Seq(Pieces) /\ y \in Seq(Pieces) /\ f \in Seq(Pieces) /\ q \in Seq(Pieces)
              /\ f # <<>> /\ Len(f) <= Len(y) /\ t = s \o y
              /\ \A i \in 1..Len(s \o y) : OccursAt(s \o y, f, i) <=> i = Len(s) + 1
            BY <1>1, <1>2, <1>4, <1>7, <1>9, <3>1, <3>2
        <3>4. rest = SubSeq(y, Len(f) + 1, Len(y)) BY DEF rest
        <3> HIDE DEF s, q, y, f
        <3>5. BytesReplaceAll(s \o y, f, q) = s \o q \o SubSeq(y, Len(f) + 1, Len(y))
            BY <3>3, ReplaceBehind
        <3>6. BytesReplaceAll(t, f, q) = s \o q \o rest BY <3>3, <3>4, <3>5
        <3> QED BY <3>6 DEF f
    <2>4. Target(u, l) = [scheme |-> l.scheme, place |-> BaseURL.place \o rest]
        BY <1>9 DEF Target, rest
    <2>5. Text(Target(u, l)) = s \o (q \o rest)
        <3> DEFINE v == Target(u, l)
        <3>1. Text(v) = v.scheme \o v.place BY DEF Text
        <3>2. v = [scheme |-> s, place |-> q \o rest] BY <2>4
        <3> HIDE DEF v, s, q
        <3>3. v.scheme = s /\ v.place = q \o rest BY <3>2
        <3> QED BY <3>1, <3>3 DEF v
    <2>6. (s \o q) \o rest = s \o (q \o rest)
        <3>1. s \in Seq(Pieces) /\ q \in Seq(Pieces) /\ rest \in Seq(Pieces) BY <1>2, <1>4, <1>7, <1>9
        <3> HIDE DEF s, q
        <3> QED BY <3>1, Associative
    <2> QED BY <1>3, <2>2, <2>3, <2>5, <2>6 DEF t
<1> QED BY <1>6, <1>8, <1>9

\* For all upstreams, base URLs and answers: a link to the upstream that answered
\* leads to the same place below the proxy, and a link to another place is left
\* alone, unless the upstream's text occurs elsewhere in the link, as the beginning
\* of a longer host or port too, or in its new place; and the body is encoded as
\* its header says.
THEOREM LinksLeadToProxy == Spec => []LinksToProxy
<1>1. AnswerInv => LinksToProxy
    <2> SUFFICES ASSUME AnswerInv, NEW r \in Reqs, Answered(r)
                 PROVE  /\ LinksRewritten(r) =>
                            LET u    == Upstream[upstream[r]]
                                fine == {l \in answer[r].links : ~Stray(u, l) /\ ~Twice(u, l)}
                            IN  /\ Targets(r, fine) \subseteq resp[r].links
                                /\ fine = answer[r].links => resp[r].links = Targets(r, fine)
                        /\ answer[r].coded = answer[r].encoding => resp[r].coded = resp[r].encoding
        BY DEF LinksToProxy
    <2> DEFINE a == answer[r]
               u == Upstream[upstream[r]]
               fine == {l \in a.links : ~Stray(u, l) /\ ~Twice(u, l)}
    <2>1. a \in Answers /\ IsAbsolute(u) BY AnsweredIs
    <2>2. PICK recycled : IsRewritten(a, tls[r], recycled, upstream[r], resp[r]) BY AnsweredIs
    <2>3. \A l \in fine : RewriteText(u, Text(l)) = Text(Target(u, l))
        <3> TAKE l \in fine
        <3>1. IsLink(l) /\ ~Stray(u, l) /\ ~Twice(u, l) BY <2>1, AnswersAssumption
        <3> HIDE DEF u
        <3> QED BY <2>1, <3>1, RewriteTextTarget
    <2>4. ASSUME LinksRewritten(r)
          PROVE  resp[r].links = {RewriteText(u, Text(l)) : l \in a.links}
        BY <2>2, <2>4 DEF IsRewritten, LinksRewritten
    <2>5. Targets(r, fine) = {Text(Target(u, l)) : l \in fine} BY DEF Targets
    <2> HIDE DEF u
    <2>6. {Text(Target(u, l)) : l \in fine} = {RewriteText(u, Text(l)) : l \in fine} BY <2>3
    <2>7. {RewriteText(u, Text(l)) : l \in fine} \subseteq {RewriteText(u, Text(l)) : l \in a.links}
        OBVIOUS
    <2>8. a.coded = a.encoding => resp[r].coded = resp[r].encoding BY <2>2 DEF IsRewritten
    <2> HIDE DEF fine
    <2> QED BY <2>4, <2>5, <2>6, <2>7, <2>8 DEF fine, u
<1> QED BY <1>1, AnswerInvariance, PTL
-----------------------------------------------------------------------------
(* The cookies                                                             *)

\* One cookie, and RewriteCookies as the fold of it.
CookieStep(secure, recycled, cs, i) ==
    IF \E j \in 1..i : cs[j].malformed THEN cs
    ELSE SetCookie(cs, RewriteCookie(secure, i \in recycled, cs[i]))

IsCookieFold(secure, recycled, cookies, f) ==
    f = [s \in SUBSET (1..Len(cookies)) |->
            IF s = {} THEN cookies
            ELSE CookieStep(secure, recycled, f[s \ {Max(s)}], [i \in 1..Len(cookies) |-> i][Max(s)])]

LEMMA CookiesAreFold ==
    ASSUME NEW secure, NEW recycled, NEW cookies, DOMAIN cookies = 1..Len(cookies)
    PROVE  RewriteCookies(secure, recycled, cookies)
            = (CHOOSE f : IsCookieFold(secure, recycled, cookies, f))[1..Len(cookies)]
<1> DEFINE ids == [i \in DOMAIN cookies |-> i]
<1>1. DOMAIN ids = 1..Len(cookies) OBVIOUS
<1> QED BY <1>1 DEF RewriteCookies, FoldLeftDomain, FoldLeft, MapThenFoldSet, CookieStep, IsCookieFold

\* What becomes of the cookies keeps their order, names and faults.
CookieSet(cookies) ==
    [name : {cookies[i].name : i \in DOMAIN cookies}, secure : BOOLEAN,
     domain : {cookies[i].domain : i \in DOMAIN cookies} \cup {None, Host}, malformed : BOOLEAN]
Kin(cookies) ==
    {cs \in Seq(CookieSet(cookies)) :
        /\ Len(cs) = Len(cookies)
        /\ \A i \in 1..Len(cookies) :
            cs[i].name = cookies[i].name /\ cs[i].malformed = cookies[i].malformed}

AreCookies(cookies) ==
    cookies \in Seq(ToSet(cookies)) /\ \A i \in DOMAIN cookies : IsCookie(cookies[i])

\* The first cookie with the name of the i-th.
IsFirst(cookies, i, f) == f \in SameName(cookies, i) /\ \A j \in SameName(cookies, i) : f <= j

\* A step leaves a malformed cookie, or writes to the first of the name.
WritesFirst(secure, recycled, cookies, cs, i, next) ==
    /\ (\E j \in 1..i : cookies[j].malformed) => next = cs
    /\ (\A j \in 1..i : ~cookies[j].malformed) =>
        \E f \in 1..i :
            /\ IsFirst(cookies, i, f)
            /\ next = [cs EXCEPT ![f] = RewriteCookie(secure, i \in recycled, cs[i])]

LEMMA CookieStepIs ==
    ASSUME NEW secure, NEW recycled, NEW cookies, AreCookies(cookies),
           NEW cs \in Kin(cookies), NEW i \in 1..Len(cookies)
    PROVE  /\ CookieStep(secure, recycled, cs, i) \in Kin(cookies)
           /\ WritesFirst(secure, recycled, cookies, cs, i, CookieStep(secure, recycled, cs, i))
<1> USE DEF WritesFirst
<1> DEFINE n == Len(cookies)
           c == RewriteCookie(secure, i \in recycled, cs[i])
           I == {j \in 1..Len(cs) : cs[j].name = c.name}
           f == Min(I)
<1>1. n \in Nat /\ DOMAIN cookies = 1..n BY LenProperties DEF AreCookies
<1>2. /\ cs \in Seq(CookieSet(cookies)) /\ Len(cs) = n
      /\ \A j \in 1..n : /\ cs[j].name = cookies[j].name /\ cs[j].malformed = cookies[j].malformed
                         /\ cs[j] \in CookieSet(cookies)
    BY ElementOfSeq DEF Kin
<1>3. /\ c \in CookieSet(cookies) /\ c.name = cookies[i].name /\ c.malformed = cookies[i].malformed
    BY <1>2 DEF RewriteCookie, CookieSet
<1> HIDE DEF c, n
<1>4. I = SameName(cookies, i) /\ i \in I /\ I \in SUBSET Nat BY <1>1, <1>2, <1>3 DEF SameName, n
<1>5. f \in I /\ \A j \in I : f <= j
    <2> HIDE DEF I
    <2> QED BY <1>4, MinOfNat
<1>6. f \in 1..i /\ f \in 1..n /\ IsFirst(cookies, i, f)
    <2>1. f \in 1..n BY <1>2, <1>5
    <2> HIDE DEF I
    <2>2. f <= i BY <1>4, <1>5
    <2> QED BY <1>4, <1>5, <2>1, <2>2 DEF IsFirst, n
<1>7. SetCookie(cs, c) = [cs EXCEPT ![f] = c]
    <2>1. SelectInSeq(cs, LAMBDA d : d.name = c.name) = IF I # {} THEN Min(I) ELSE 0 BY DEF SelectInSeq
    <2>2. SelectInSeq(cs, LAMBDA d : d.name = c.name) = f BY <1>4, <2>1
    <2> HIDE DEF f
    <2> QED BY <2>2 DEF SetCookie
<1> HIDE DEF f, I
<1>8. CASE \E j \in 1..i : cookies[j].malformed
    <2>1. \E j \in 1..i : cs[j].malformed BY <1>1, <1>2, <1>8 DEF n
    <2>2. CookieStep(secure, recycled, cs, i) = cs BY <2>1 DEF CookieStep
    <2> QED BY <1>8, <2>2
<1>9. CASE \A j \in 1..i : ~cookies[j].malformed
    <2>1. ~ \E j \in 1..i : cs[j].malformed BY <1>1, <1>2, <1>9 DEF n
    <2>2. CookieStep(secure, recycled, cs, i) = SetCookie(cs, c) BY <2>1 DEF CookieStep, c
    <2> DEFINE next == [cs EXCEPT ![f] = c]
    <2>3. /\ next \in Seq(CookieSet(cookies)) /\ Len(next) = n
          /\ \A j \in 1..n : next[j] = IF j = f THEN c ELSE cs[j]
        BY <1>2, <1>3, <1>6, ExceptSeq
    <2>4. ~c.malformed /\ ~cookies[f].malformed /\ c.malformed = cookies[f].malformed
        <3>1. c.malformed \in BOOLEAN /\ cs[f].malformed \in BOOLEAN BY <1>2, <1>3, <1>6 DEF CookieSet
        <3>2. i \in 1..i /\ f \in 1..i BY <1>1, <1>6 DEF n
        <3> QED BY <1>2, <1>3, <1>6, <1>9, <3>1, <3>2
    <2>5. c.name = cookies[f].name BY <1>3, <1>6 DEF IsFirst, SameName
    <2>6. \A j \in 1..n : next[j].name = cookies[j].name /\ next[j].malformed = cookies[j].malformed
        BY <1>2, <2>3, <2>4, <2>5
    <2> HIDE DEF next
    <2>7. next \in Kin(cookies) BY <2>3, <2>6 DEF Kin, n
    <2> QED BY <1>6, <1>7, <1>9, <2>2, <2>7 DEF next, c
<1> QED BY <1>8, <1>9

\* The lists of cookies the loop goes through.
CookieSteps(secure, recycled, cookies, c) ==
    /\ c \in [0..Len(cookies) -> Kin(cookies)] /\ c[0] = cookies
    /\ \A k \in 1..Len(cookies) : c[k] = CookieStep(secure, recycled, c[k - 1], k)
    /\ RewriteCookies(secure, recycled, cookies) = c[Len(cookies)]

LEMMA CookieChain ==
    ASSUME NEW secure, NEW recycled, NEW cookies, AreCookies(cookies)
    PROVE  \E c : CookieSteps(secure, recycled, cookies, c)
<1> DEFINE n == Len(cookies)
           V == Kin(cookies)
           G == [x \in (1..n) \X V |-> CookieStep(secure, recycled, x[2], x[1])]
           ids == [i \in 1..n |-> i]
           f == CHOOSE f : IsCookieFold(secure, recycled, cookies, f)
<1>1. n \in Nat /\ DOMAIN cookies = 1..n BY LenProperties DEF AreCookies
<1>2. \A cs \in V, i \in 1..n : CookieStep(secure, recycled, cs, i) \in V BY CookieStepIs
<1>3. cookies \in V
    <2>1. \A i \in 1..n : cookies[i] \in CookieSet(cookies) BY <1>1 DEF AreCookies, IsCookie, CookieSet
    <2>2. cookies \in [1..n -> CookieSet(cookies)]
        <3>1. cookies = [i \in 1..n |-> cookies[i]] BY <1>1 DEF AreCookies
        <3> QED BY <2>1, <3>1
    <2>3. cookies \in Seq(CookieSet(cookies)) BY <1>1, <2>2, SeqDef
    <2> QED BY <2>3 DEF Kin
<1> HIDE DEF V
<1>4. G \in [(1..n) \X V -> V] BY <1>2
<1>5. PICK g \in [SUBSET (1..n) -> V] : Iterates(g, n, cookies, G)
    <2> HIDE DEF G, n
    <2> QED BY <1>1, <1>3, <1>4, FoldExists
<1>6. ASSUME NEW s \in SUBSET (1..n), s # {} PROVE Max(s) \in 1..n /\ ids[Max(s)] = Max(s)
    <2>1. s \in SUBSET (0..n) BY <1>1
    <2> HIDE DEF n
    <2>2. Max(s) \in s BY <1>1, <1>6, <2>1, MaxOfNat
    <2> QED BY <2>2
<1> HIDE DEF ids
<1>7. IsCookieFold(secure, recycled, cookies, g)
    <2> SUFFICES ASSUME NEW s \in SUBSET (1..n)
                 PROVE  g[s] = IF s = {} THEN cookies
                               ELSE CookieStep(secure, recycled, g[s \ {Max(s)}], ids[Max(s)])
        BY DEF IsCookieFold, ids
    <2>1. CASE s # {}
        <3>1. s \ {Max(s)} \in SUBSET (1..n) OBVIOUS
        <3>2. G[<<Max(s), g[s \ {Max(s)}]>>] = CookieStep(secure, recycled, g[s \ {Max(s)}], Max(s))
            BY <1>6, <2>1, <3>1
        <3> QED BY <1>5, <1>6, <2>1, <3>2 DEF Iterates
    <2> QED BY <1>5, <2>1 DEF Iterates
<1>8. IsCookieFold(secure, recycled, cookies, f) BY <1>7
<1>9. IteratesIn(f, n, V, cookies, G)
    <2> HIDE DEF f
    <2>1. f[{}] = cookies BY <1>8 DEF IsCookieFold
    <2>2. ASSUME NEW s \in SUBSET (1..n), s # {}, f[s \ {Max(s)}] \in V
          PROVE  f[s] = G[<<Max(s), f[s \ {Max(s)}]>>]
        <3>1. f[s] = CookieStep(secure, recycled, f[s \ {Max(s)}], Max(s))
            BY <1>6, <1>8, <2>2 DEF IsCookieFold, ids
        <3> QED BY <1>6, <2>2, <3>1
    <2> HIDE DEF G, n
    <2> QED BY <2>1, <2>2 DEF IteratesIn
<1>10. IsChain(f, n, V, cookies, G)
    <2> HIDE DEF f, G, n
    <2> QED BY <1>1, <1>3, <1>4, <1>9, FoldChain
<1>11. RewriteCookies(secure, recycled, cookies) = f[1..n] BY <1>1, CookiesAreFold
<1> DEFINE c == [k \in 0..n |-> f[1..k]]
<1>12. CookieSteps(secure, recycled, cookies, c)
    <2> HIDE DEF f
    <2>1. c \in [0..n -> V] BY <1>10 DEF IsChain
    <2>2. c[0] = cookies /\ c[n] = f[1..n] BY <1>1, <1>10 DEF IsChain
    <2>3. ASSUME NEW k \in 1..n PROVE c[k] = CookieStep(secure, recycled, c[k - 1], k)
        <3>1. k \in 0..n /\ k - 1 \in 0..n BY <1>1
        <3>2. f[1..k] = G[<<k, f[1..(k - 1)]>>] /\ f[1..(k - 1)] \in V BY <1>10, <3>1 DEF IsChain
        <3>3. G[<<k, f[1..(k - 1)]>>] = CookieStep(secure, recycled, f[1..(k - 1)], k) BY <3>2
        <3>4. c[k] = f[1..k] /\ c[k - 1] = f[1..(k - 1)] BY <3>1
        <3> HIDE DEF c, G
        <3> QED BY <3>2, <3>3, <3>4
    <2> HIDE DEF c, G
    <2> QED BY <1>11, <2>1, <2>2, <2>3 DEF CookieSteps, V
<1> QED BY <1>12

\* What the first k cookies have become, and that the others are as they came.
Parsed(cookies, i) == \A j \in 1..i : ~cookies[j].malformed
MayKeep(secure, c) == c.domain \in {None, Host} /\ (c.secure => secure)
HaveBecome(secure, cookies, cs, k) ==
    /\ \A i \in 1..Len(cookies) : i > k => cs[i] = cookies[i]
    /\ \A i \in 1..k : Parsed(cookies, i) =>
        /\ IsFirst(cookies, i, i) => MayKeep(secure, cs[i])
        /\ SameName(cookies, i) = {i} => cs[i].secure = (cookies[i].secure /\ secure)

LEMMA CookieStepBecomes ==
    ASSUME NEW secure, NEW recycled, NEW cookies, AreCookies(cookies),
           NEW cs \in Kin(cookies), NEW k \in Nat, k + 1 <= Len(cookies),
           HaveBecome(secure, cookies, cs, k)
    PROVE  HaveBecome(secure, cookies, CookieStep(secure, recycled, cs, k + 1), k + 1)
<1> DEFINE n == Len(cookies)
           m == k + 1
           next == CookieStep(secure, recycled, cs, m)
           c == RewriteCookie(secure, m \in recycled, cs[m])
<1>1. n \in Nat /\ DOMAIN cookies = 1..n /\ m \in 1..n BY LenProperties DEF AreCookies
<1>2. /\ (\E j \in 1..m : cookies[j].malformed) => next = cs
      /\ (\A j \in 1..m : ~cookies[j].malformed) =>
            \E f \in 1..m : IsFirst(cookies, m, f) /\ next = [cs EXCEPT ![f] = c]
    <2>1. m \in 1..Len(cookies) BY <1>1
    <2> HIDE DEF m, n
    <2>2. WritesFirst(secure, recycled, cookies, cs, m, next) BY <2>1, CookieStepIs
    <2> HIDE DEF next
    <2> QED BY <2>2 DEF WritesFirst
<1>3. DOMAIN cs = 1..n /\ cs[m] \in CookieSet(cookies) /\ cs[m] = cookies[m]
    BY <1>1, LenProperties, ElementOfSeq DEF Kin, HaveBecome
<1>4. MayKeep(secure, c) /\ c.secure = (cookies[m].secure /\ secure)
    BY <1>3 DEF RewriteCookie, MayKeep, CookieSet
<1> HIDE DEF n, next, c
<1>5. CASE \E j \in 1..m : cookies[j].malformed
    <2>1. next = cs /\ ~Parsed(cookies, m) BY <1>2, <1>5 DEF Parsed
    <2>2. \A i \in 1..m : i = m \/ i \in 1..k BY <1>1
    <2>3. \A i \in 1..n : i > m => i > k BY <1>1
    <2> QED BY <2>1, <2>2, <2>3 DEF HaveBecome, next, n
<1>6. CASE \A j \in 1..m : ~cookies[j].malformed
    <2>1. PICK f \in 1..m : IsFirst(cookies, m, f) /\ next = [cs EXCEPT ![f] = c] BY <1>2, <1>6
    <2>2. \A i \in 1..n : next[i] = IF i = f THEN c ELSE cs[i] BY <1>3, <2>1
    <2>3. ASSUME NEW i \in 1..n, i > m PROVE next[i] = cookies[i]
        <3>1. i > k /\ i # f BY <1>1, <2>3
        <3> QED BY <2>2, <3>1 DEF HaveBecome, n
    <2>4. ASSUME NEW i \in 1..m, Parsed(cookies, i), IsFirst(cookies, i, i)
          PROVE  MayKeep(secure, next[i])
        <3>1. i \in 1..n /\ (i = m \/ i \in 1..k) BY <1>1
        <3>2. CASE i = f BY <1>4, <2>2, <3>1, <3>2
        <3>3. CASE i # f
            <4>1. next[i] = cs[i] BY <2>2, <3>1, <3>3
            <4>2. i # m
                <5> SUFFICES ASSUME i = m PROVE FALSE
                    OBVIOUS
                <5>1. f <= m /\ m <= f BY <1>1, <2>1, <2>4 DEF IsFirst
                <5> QED BY <1>1, <3>3, <5>1
            <4> QED BY <2>4, <3>1, <4>1, <4>2 DEF HaveBecome
        <3> QED BY <3>2, <3>3
    <2>5. ASSUME NEW i \in 1..m, Parsed(cookies, i), SameName(cookies, i) = {i}
          PROVE  next[i].secure = (cookies[i].secure /\ secure)
        <3>1. i \in 1..n /\ (i = m \/ i \in 1..k) BY <1>1
        <3>2. CASE i = m
            <4>1. f = m BY <2>1, <2>5, <3>2 DEF IsFirst
            <4> QED BY <1>4, <2>2, <3>1, <3>2, <4>1
        <3>3. CASE i # m
            <4>1. i # f
                <5> SUFFICES ASSUME i = f PROVE FALSE
                    OBVIOUS
                <5>1. m \in SameName(cookies, i) BY <1>1, <2>1 DEF IsFirst, SameName
                <5> QED BY <2>5, <3>3, <5>1
            <4>2. next[i] = cs[i] /\ i \in 1..k BY <2>2, <3>1, <3>3, <4>1
            <4> QED BY <2>5, <4>2 DEF HaveBecome
        <3> QED BY <3>2, <3>3
    <2> QED BY <2>3, <2>4, <2>5 DEF HaveBecome, next, n
<1> QED BY <1>5, <1>6

\* Of the cookies before the first malformed one the first of every name may be
\* kept by the client; nothing else depends on which objects were recycled.
LEMMA CookiesBecome ==
    ASSUME NEW secure, NEW recycled, NEW cookies, AreCookies(cookies)
    PROVE  LET cs == RewriteCookies(secure, recycled, cookies)
           IN  cs \in Kin(cookies) /\ HaveBecome(secure, cookies, cs, Len(cookies))
<1> DEFINE n == Len(cookies)
<1>1. n \in Nat BY LenProperties DEF AreCookies
<1>2. PICK c : CookieSteps(secure, recycled, cookies, c) BY CookieChain
<1> DEFINE Good == {k \in Nat : k <= n => HaveBecome(secure, cookies, c[k], k)}
<1>3. 0 \in Good
    <2>1. c[0] = cookies BY <1>2 DEF CookieSteps
    <2>2. HaveBecome(secure, cookies, cookies, 0) BY DEF HaveBecome
    <2> QED BY <2>1, <2>2
<1>4. ASSUME NEW k \in Good PROVE k + 1 \in Good
    <2> SUFFICES ASSUME k + 1 <= n PROVE HaveBecome(secure, cookies, c[k + 1], k + 1)
        OBVIOUS
    <2>1. k \in Nat /\ k \in 0..n /\ k + 1 \in 1..n /\ (k + 1) - 1 = k BY <1>1
    <2>2. c[k] \in Kin(cookies) /\ HaveBecome(secure, cookies, c[k], k) BY <1>2, <2>1 DEF CookieSteps
    <2>3. c[k + 1] = CookieStep(secure, recycled, c[(k + 1) - 1], k + 1)
        BY <1>2, <2>1 DEF CookieSteps
    <2> HIDE DEF Good
    <2> QED BY <2>1, <2>2, <2>3, CookieStepBecomes
<1>5. Good = Nat
    <2>1. Good \in SUBSET Nat OBVIOUS
    <2> HIDE DEF Good
    <2> QED BY <1>3, <1>4, <2>1, SetInduction
<1>6. c[n] \in Kin(cookies) /\ HaveBecome(secure, cookies, c[n], n)
    <2>1. n \in Good /\ n \in 0..n BY <1>1, <1>5
    <2> QED BY <1>1, <1>2, <2>1 DEF CookieSteps
<1> QED BY <1>2, <1>6 DEF CookieSteps

\* For all answers: of the cookies before the first that cannot be parsed, the first
\* of every name is neither for another host than the client's nor Secure without
\* TLS, and one with a name of its own keeps Secure with TLS; the second of a name
\* is not claimed.  No cookie appears or disappears, no hop-by-hop header passes.
THEOREM CookiesFitClient == Spec => []CookiesRewritten
<1>1. AnswerInv => CookiesRewritten
    <2> SUFFICES ASSUME AnswerInv, NEW r \in Reqs, Answered(r)
                 PROVE  LET sent == answer[r].cookies
                            got  == resp[r].cookies
                        IN  /\ ~resp[r].hop
                            /\ DOMAIN got = DOMAIN sent
                            /\ \A i \in DOMAIN sent : got[i].name = sent[i].name
                            /\ \A i \in DOMAIN sent : (\A j \in 1..i : ~sent[j].malformed) =>
                                /\ (\A j \in SameName(sent, i) : i <= j) => Fits(r, got[i])
                                /\ SameName(sent, i) = {i} =>
                                    got[i].secure = (sent[i].secure /\ tls[r])
        BY DEF CookiesRewritten
    <2> DEFINE sent == answer[r].cookies
               got == resp[r].cookies
    <2>1. PICK recycled : IsRewritten(answer[r], tls[r], recycled, upstream[r], resp[r]) BY AnsweredIs
    <2>2. ~resp[r].hop /\ got = RewriteCookies(tls[r], recycled, sent) BY <2>1 DEF IsRewritten
    <2>3. AreCookies(sent) BY AnsweredIs, AnswersAssumption DEF AreCookies
    <2> HIDE DEF sent, got
    <2>4. got \in Kin(sent) /\ HaveBecome(tls[r], sent, got, Len(sent)) BY <2>2, <2>3, CookiesBecome
    <2>5. DOMAIN sent = 1..Len(sent) BY <2>3, LenProperties DEF AreCookies
    <2>6. DOMAIN got = 1..Len(sent) BY <2>4, LenProperties DEF Kin
    <2>7. \A i \in DOMAIN sent : got[i].name = sent[i].name BY <2>4, <2>5 DEF Kin
    <2>8. ASSUME NEW i \in DOMAIN sent, \A j \in 1..i : ~sent[j].malformed
          PROVE  /\ (\A j \in SameName(sent, i) : i <= j) => Fits(r, got[i])
                 /\ SameName(sent, i) = {i} => got[i].secure = (sent[i].secure /\ tls[r])
        <3>1. Parsed(sent, i) /\ i \in 1..Len(sent) BY <2>5, <2>8 DEF Parsed
        <3>2. i \in SameName(sent, i) BY DEF SameName
        <3> QED BY <2>4, <3>1, <3>2 DEF HaveBecome, IsFirst, MayKeep, Fits
    <2> QED BY <2>2, <2>5, <2>6, <2>7, <2>8 DEF sent, got
<1> QED BY <1>1, AnswerInvariance, PTL
=============================================================================
