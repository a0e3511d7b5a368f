--------------------------- MODULE HandlersProofs ---------------------------
(***************************************************************************)
(* Proofs about BasePath and Handlers, for every number of handlers, every *)
(* set of jobs and every value of the base path.                           *)
(***************************************************************************)
EXTENDS Handlers, Induction
-----------------------------------------------------------------------------
(* The base path                                                           *)

Fixing == {"leading", "trailing"}
Shared == {"check", "ret"}
Inside == {"assign", "unlock"} \cup Fixing
PC == {"idle", "lock", "pending", "rlock", "done"} \cup Shared \cup Inside

BaseTypes ==
    /\ option \in Raws /\ original \in BOOLEAN /\ changes \in Nat
    /\ pc \in [Callers -> PC]
    /\ DOMAIN ret = Callers

\* writer is the caller between Lock and Unlock, readers are the ones between
\* RLock and RUnlock, and a writer past "pending" has no readers.
LockInv ==
    \A p \in Callers :
        /\ p \in readers <=> pc[p] \in Shared
        /\ writer = p <=> pc[p] \in {"pending"} \cup Inside
        /\ pc[p] \in Inside => readers = {}

\* f is what F makes of a value of the option, and of its present value as long
\* as that has not changed.
Of(F(_), f) == f \in {F(s) : s \in Raws} /\ (changes = 0 => f = F(option))

Same(s) == s

\* While a caller fixes the slashes, how far it has come; the cache is filled
\* and fixed whenever nobody does; so is what a call has returned.
FixedInv ==
    /\ \A p \in Callers :
        /\ pc[p] \in Fixing \cup {"unlock", "rlock", "ret"} => original
        /\ pc[p] = "leading" => Of(Same, fixed)
        /\ pc[p] = "trailing" => Of(AddLeading, fixed)
    /\ (original /\ \A p \in Callers : pc[p] \notin Fixing) => Of(Normalized, fixed)

BaseInv == BaseTypes /\ LockInv /\ FixedInv /\ ReturnsOption

LEMMA InitBase == Init => BaseInv
<1> SUFFICES ASSUME Init PROVE BaseInv
    OBVIOUS
<1> USE BasePathAssumption DEF Init
<1>1. BaseTypes BY DEF BaseTypes, PC
<1>2. LockInv BY DEF LockInv, Shared, Inside, Fixing
<1>3. FixedInv BY DEF FixedInv, Fixing
<1>4. ReturnsOption BY DEF ReturnsOption
<1> QED BY <1>1, <1>2, <1>3, <1>4 DEF BaseInv

\* A step of a call keeps the types and the order of the lock.
LEMMA CallLock ==
    ASSUME BaseTypes, LockInv, NEW p \in Callers, Call(p) PROVE BaseTypes' /\ LockInv'
<1> USE BasePathAssumption DEF BaseTypes, LockInv, PC, Shared, Inside, Fixing,
    Goto, RLock, RUnlock, Announce, ReadersGone, Release
<1>1. CASE Begin(p) BY <1>1 DEF Begin
<1>2. CASE Cached(p) BY <1>2 DEF Cached
<1>3. CASE Uncached(p) BY <1>3 DEF Uncached
<1>4. CASE Lock(p) BY <1>4 DEF Lock
<1>5. CASE Locked(p) BY <1>5 DEF Locked
<1>6. CASE Assign(p) BY <1>6 DEF Assign
<1>7. CASE Leading(p) BY <1>7 DEF Leading
<1>8. CASE Trailing(p) BY <1>8 DEF Trailing
<1>9. CASE Unlock(p) BY <1>9 DEF Unlock
<1>10. CASE RLockAgain(p) BY <1>10 DEF RLockAgain
<1>11. CASE Return(p) BY <1>11 DEF Return
<1> QED BY <1>1, <1>2, <1>3, <1>4, <1>5, <1>6, <1>7, <1>8, <1>9, <1>10, <1>11 DEF Call

\* A step of a call keeps what the cache and the answers hold.
LEMMA CallFixed ==
    ASSUME BaseInv, NEW p \in Callers, Call(p) PROVE FixedInv' /\ ReturnsOption'
<1> USE BasePathAssumption DEF BaseInv, BaseTypes, LockInv, FixedInv, ReturnsOption, Of, Same,
    PC, Shared, Inside, Fixing, Goto, RLock, RUnlock, Announce, ReadersGone, Release
<1>1. CASE Begin(p) BY <1>1 DEF Begin
<1>2. CASE Cached(p) BY <1>2 DEF Cached
<1>3. CASE Uncached(p) BY <1>3 DEF Uncached
<1>4. CASE Lock(p) BY <1>4 DEF Lock
<1>5. CASE Locked(p) BY <1>5 DEF Locked
<1>6. CASE Assign(p) BY <1>6 DEF Assign
<1>7. CASE Leading(p) BY <1>7 DEF Leading
<1>8. CASE Trailing(p) BY <1>8 DEF Trailing, Normalized
<1>9. CASE Unlock(p) BY <1>9 DEF Unlock
<1>10. CASE RLockAgain(p) BY <1>10 DEF RLockAgain
<1>11. CASE Return(p) BY <1>11 DEF Return
<1> QED BY <1>1, <1>2, <1>3, <1>4, <1>5, <1>6, <1>7, <1>8, <1>9, <1>10, <1>11 DEF Call

LEMMA CallBase == ASSUME BaseInv, NEW p \in Callers, Call(p) PROVE BaseInv'
BY CallLock, CallFixed DEF BaseInv

LEMMA SetOptionBase == ASSUME BaseInv, NEW s \in Raws, SetOption(s) PROVE BaseInv'
BY DEF SetOption, BaseInv, BaseTypes, LockInv, FixedInv, ReturnsOption, Of

LEMMA SameBase == ASSUME BaseInv, UNCHANGED vars PROVE BaseInv'
BY DEF vars, BaseInv, BaseTypes, LockInv, FixedInv, ReturnsOption, Of
-----------------------------------------------------------------------------
(* Cookies                                                                 *)

\* The cookie that a handler writes when both calls return the same base path.
Ideal(j) == writeCookie(j, Normalized(option), Normalized(option))

Id(c) == [prefix |-> c.prefix, domain |-> c.domain, path |-> c.path]

Deletes(c) == c.expired /\ ~c.maxAge

PathOf(j) == IF Given(j, "path") = <<>> THEN None ELSE NonEmpty(Given(j, "path")[1])

\* What writeCookie makes of a job, attribute by attribute.
LEMMA CookieShape ==
    ASSUME NEW j, NEW first, NEW second
    PROVE  LET c == writeCookie(j, first, second)
           IN  /\ c.prefix = Prefix(j, first)
               /\ c.maxAge = Choice(j, "maxAge", FALSE)
               /\ c.expired = Choice(j, "expires", j.op = "clear")
               /\ DefaultSecurity(j) =>
                    /\ c.domain = None /\ c.path = NonEmpty(second) /\ c.httpOnly = TRUE
                    /\ c.secure = (Choice(j, "secure", FALSE) \/ Secure(j))
               /\ ~DefaultSecurity(j) =>
                    /\ c.domain = Choice(j, "domain", None)
                    /\ c.path = PathOf(j)
                    /\ c.secure = Choice(j, "secure", FALSE)
BY DEF writeCookie, apply, Setup, Enforce, PathOf

\* The cookie of CookieDefaultSecurity.
LEMMA DefaultShape ==
    ASSUME NEW j, DefaultSecurity(j)
    PROVE  /\ Ideal(j).domain = None /\ Ideal(j).path = NonEmpty(Normalized(option))
           /\ Ideal(j).httpOnly
           /\ Ideal(j).prefix = Prefix(j, Normalized(option))
           /\ Secure(j) => Ideal(j).secure
<1>1. Ideal(j).prefix = Prefix(j, Normalized(option)) BY CookieShape DEF Ideal
<1>2. Ideal(j).domain = None /\ Ideal(j).path = NonEmpty(Normalized(option))
    BY CookieShape DEF Ideal
<1>3. Ideal(j).httpOnly = TRUE BY CookieShape DEF Ideal
<1>4. Ideal(j).secure = (Choice(j, "secure", FALSE) \/ Secure(j)) BY CookieShape DEF Ideal
<1>5. Secure(j) => Ideal(j).secure BY <1>4, Zenon
<1> QED BY <1>1, <1>2, <1>3, <1>5

\* A job that is ready writes the cookie it would write alone.
LEMMA ReadyWrites ==
    ASSUME BaseInv, HandlersAssumption, changes = 0, NEW w \in Writers,
           IsCookie(job[w]), Ready(w)
    PROVE  writeCookie(job[w], ret[<<w, 1>>], ret[<<w, 2>>]) = Ideal(job[w])
<1> DEFINE j == job[w]
<1>1. <<w, 1>> \in Callers /\ <<w, 2>> \in Callers
    BY DEF HandlersAssumption
<1>2. Secure(j) => ret[<<w, 1>>] = Normalized(option)
    BY <1>1 DEF Ready, NeedsFirst, Returned, BaseInv, ReturnsOption
<1>3. DefaultSecurity(j) => ret[<<w, 2>>] = Normalized(option)
    BY <1>1 DEF Ready, NeedsSecond, Returned, BaseInv, ReturnsOption, IsCookie
<1>4. Prefix(j, ret[<<w, 1>>]) = Prefix(j, Normalized(option))
    BY <1>2 DEF Prefix
<1> QED BY <1>3, <1>4 DEF Ideal, writeCookie

\* What undoes a cookie has its name, its place and its security.
LEMMA UndoesSame ==
    ASSUME NEW c, NEW s, Undoes(c, s)
    PROVE  Id(Ideal(c)) = Id(Ideal(s)) /\ (Keeps(Ideal(c)) <=> Keeps(Ideal(s)))
<1>1. Secure(c) <=> Secure(s)
    BY DEF Undoes, Secure
<1>2. Prefix(c, Normalized(option)) = Prefix(s, Normalized(option))
    BY <1>1 DEF Prefix
<1>3. /\ Choice(c, "secure", FALSE) = Choice(s, "secure", FALSE)
      /\ Choice(c, "domain", None) = Choice(s, "domain", None)
      /\ Given(c, "path") = Given(s, "path")
    BY DEF Undoes, Choice
<1>6. Ideal(c).prefix = Ideal(s).prefix
    <2>1. Ideal(c).prefix = Prefix(c, Normalized(option)) BY CookieShape DEF Ideal
    <2>2. Ideal(s).prefix = Prefix(s, Normalized(option)) BY CookieShape DEF Ideal
    <2> QED BY <1>2, <2>1, <2>2
<1>4. CASE DefaultSecurity(c)
    <2>1. DefaultSecurity(s) BY <1>4 DEF Undoes
    <2>2. /\ Ideal(c).domain = None /\ Ideal(c).path = NonEmpty(Normalized(option))
          /\ Ideal(c).secure = (Choice(c, "secure", FALSE) \/ Secure(c))
        BY <1>4, CookieShape DEF Ideal
    <2>3. /\ Ideal(s).domain = None /\ Ideal(s).path = NonEmpty(Normalized(option))
          /\ Ideal(s).secure = (Choice(s, "secure", FALSE) \/ Secure(s))
        BY <2>1, CookieShape DEF Ideal
    <2>4. Ideal(c).secure <=> Ideal(s).secure
        BY <1>1, <1>3, <2>2, <2>3, Zenon
    <2> QED BY <1>6, <2>2, <2>3, <2>4 DEF Id, Keeps
<1>5. CASE ~DefaultSecurity(c)
    <2>1. ~DefaultSecurity(s) BY <1>5 DEF Undoes
    <2>2. ASSUME NEW j, ~DefaultSecurity(j)
          PROVE  /\ Ideal(j).domain = Choice(j, "domain", None) /\ Ideal(j).path = PathOf(j)
                 /\ Ideal(j).secure = Choice(j, "secure", FALSE)
        <3>1. Ideal(j).domain = Choice(j, "domain", None) BY <2>2, CookieShape DEF Ideal
        <3>2. Ideal(j).path = PathOf(j) BY <2>2, CookieShape DEF Ideal
        <3>3. Ideal(j).secure = Choice(j, "secure", FALSE) BY <2>2, CookieShape DEF Ideal
        <3> QED BY <3>1, <3>2, <3>3
    <2>3. PathOf(c) = PathOf(s) BY <1>3 DEF PathOf
    <2>4. /\ Ideal(c).domain = Ideal(s).domain /\ Ideal(c).path = Ideal(s).path
          /\ Ideal(c).secure = Ideal(s).secure
        BY <1>3, <1>5, <2>1, <2>2, <2>3
    <2> QED BY <1>6, <2>4 DEF Id, Keeps
<1> QED BY <1>4, <1>5

\* A Clear without a time to live deletes.
LEMMA ClearDeletes ==
    ASSUME NEW c, c.op = "clear", ~Lasts(c) PROVE Deletes(Ideal(c))
BY CookieShape DEF Ideal, Deletes, Lasts, Choice

\* A cookie that does not delete is that of a Set, or has a time to live.
LEMMA StaysLasts ==
    ASSUME NEW s, IsCookie(s), ~Deletes(Ideal(s))
    PROVE  s.op = "set" \/ (s.op = "clear" /\ Lasts(s))
BY ClearDeletes DEF IsCookie

-----------------------------------------------------------------------------
(* Paging                                                                  *)

LEMMA ModSmall == ASSUME NEW a \in Nat, NEW b \in Nat, a < b PROVE a % b = a
OBVIOUS

\* An int that does not overflow is itself.
LEMMA WrappedSmall == ASSUME NEW n \in Nat, n <= MaxInt PROVE Data!Wrapped(n) = n
<1> DEFINE a == n + MaxInt + 1
           b == 2 * (MaxInt + 1)
<1>1. a \in Nat /\ b \in Nat /\ a < b BY HandlersAssumption
<1>2. Data!Wrapped(n) = (a % b) - MaxInt - 1 BY DEF Data!Wrapped
<1> HIDE DEF b
<1>3. a % b = a
    <2> HIDE DEF a
    <2> QED BY <1>1, ModSmall
<1> QED BY <1>2, <1>3, HandlersAssumption

\* A number that is read is an int, and is in reach of the page it selects.
LEMMA IntInRange ==
    ASSUME NEW d, NEW key
    PROVE  LET r == Data!Int64(d, key) IN r.error = None => r.value \in Int /\ r.value <= MaxInt
<1> USE HandlersAssumption
<1>1. ASSUME NEW text PROVE LET r == Data!ParseInt(text) IN r.error = None => r.value \in Int /\ r.value <= MaxInt
    <2>1. CASE Data!Number(text) /\ text[1].v \in (-MaxInt - 1)..MaxInt
        BY <2>1 DEF Data!ParseInt, Data!Got
    <2>2. CASE ~(Data!Number(text) /\ text[1].v \in (-MaxInt - 1)..MaxInt)
        BY <2>2 DEF Data!ParseInt, Data!Fail
    <2> QED BY <2>1, <2>2
<1> DEFINE s == Data!String(d, key)
<1>2. CASE s.error # None BY <1>2 DEF Data!Int64
<1>3. CASE s.error = None BY <1>1, <1>3 DEF Data!Int64
<1> QED BY <1>2, <1>3

LEMMA PagingFits ==
    ASSUME NEW j, j.conf.size \in Nat \ {0}, j.conf.max \in Nat \ {0}, j.sets \in Seq(Int),
           NEW stored, stored = IF j.sets = <<>> THEN None
                                ELSE Data!SetMaxPageSize(Last(j.sets), j.conf)
    PROVE  FitsLimit(j, Data!Paging(j.data, stored, j.conf))
<1> DEFINE limit == IF j.sets = <<>> \/ Last(j.sets) <= 0 THEN j.conf.max ELSE Last(j.sets)
           size == Data!PageSize(j.data, stored, j.conf)
           page == Data!Page(j.data)
<1> USE HandlersAssumption
<1>1. j.sets # <<>> => Last(j.sets) \in Int BY DEF Last
<1>2. limit \in Nat \ {0} BY <1>1
<1>3. Data!MaxPageSize(stored, j.conf) = limit
    BY <1>1 DEF Data!MaxPageSize, Data!SetMaxPageSize
<1>4. size \in 1..limit
    <2> DEFINE asked == Data!Int64(j.data, "per_page")
               n == IF asked.error # None \/ asked.value <= 0 THEN j.conf.size ELSE asked.value
    <2>1. n \in Nat \ {0}
        <3> HIDE DEF asked
        <3>1. asked.error = None => asked.value \in Int BY IntInRange DEF asked
        <3> QED BY <3>1
    <2>2. size = IF n > limit THEN limit ELSE n BY <1>3 DEF Data!PageSize
    <2> HIDE DEF n, size, limit
    <2> QED BY <1>2, <2>1, <2>2
<1>5. page \in 1..MaxInt
    <2> DEFINE asked == Data!Int64(j.data, "page")
    <2>1. asked.error = None => asked.value \in Int /\ asked.value <= MaxInt BY IntInRange
    <2>2. page = IF asked.error # None \/ asked.value <= 0 THEN 1 ELSE asked.value BY DEF Data!Page
    <2> HIDE DEF asked, page
    <2> QED BY <2>1, <2>2
<1>6. page * size <= MaxInt => Data!Wrapped(page * size) = page * size
    <2>1. page * size \in Nat
        <3> HIDE DEF page, size, limit
        <3> QED BY <1>2, <1>4, <1>5
    <2> HIDE DEF page, size
    <2> QED BY <2>1, WrappedSmall
<1> HIDE DEF limit
<1> QED BY <1>4, <1>5, <1>6 DEF FitsLimit, Data!Paging, limit

-----------------------------------------------------------------------------
(* The Accept header and errors                                            *)

\* The place i of a token in the header, and the marks k and l around it.
Around(h, i, k, l) ==
    /\ k \in 0..(i - 1) /\ (k = 0 \/ h[k] = "comma") /\ \A m \in (k + 1)..(i - 1) : h[m] = "blank"
    /\ l \in (i + 1)..(Len(h) + 1) /\ (l = Len(h) + 1 \/ h[l] \in {"comma", "semicolon"})
    /\ \A m \in (i + 1)..(l - 1) : h[m] = "blank"

Cuts(h) == {0, Len(h) + 1} \cup {i \in DOMAIN h : h[i] = "comma"}

\* What MediaRange leaves of a part: the text before its first "semicolon", trimmed.
Semis(part) == {i \in 1..Len(part) : part[i] = "semicolon"}
Before(part) == IF Semis(part) = {} THEN part ELSE SubSeq(part, 1, Min(Semis(part)) - 1)
Full(s) == {i \in DOMAIN s : s[i] # "blank"}

LEMMA MediaRangeIs == ASSUME NEW part PROVE Data!MediaRange(part) = Data!Trim(Before(part))
<1>1. Data!SelectInSeq(part, LAMBDA t : t = "semicolon")
        = IF Semis(part) # {} THEN Min(Semis(part)) ELSE 0
    BY DEF Min, Data!Min, Data!SelectInSeq, Semis
<1>2. Semis(part) # {} => Min(Semis(part)) # 0
    BY MinOfNat DEF Semis
<1> QED
    <2>1. CASE Semis(part) = {} BY <1>1, <2>1 DEF Data!MediaRange, Before
    <2>2. CASE Semis(part) # {} BY <1>1, <1>2, <2>2 DEF Data!MediaRange, Before
    <2> QED BY <2>1, <2>2

LEMMA TrimIs ==
    ASSUME NEW s PROVE Data!Trim(s) = IF Full(s) = {} THEN <<>> ELSE SubSeq(s, Min(Full(s)), Max(Full(s)))
BY DEF Data!Trim, Full, Min, Max, Data!Min, Data!Max

\* A text is one token between blanks if and only if Trim leaves that token.
LEMMA TrimToken ==
    ASSUME NEW S, NEW s \in Seq(S), NEW t, t # "blank"
    PROVE  Data!Trim(s) = <<t>> <=> \E r \in DOMAIN s : s[r] = t /\ \A m \in DOMAIN s \ {r} : s[m] = "blank"
<1>3. Len(s) \in Nat /\ DOMAIN s = 1..Len(s) /\ \A i \in 1..Len(s) : s[i] \in S
    BY LenProperties
<1> USE <1>3
<1>1. ASSUME Data!Trim(s) = <<t>>
      PROVE  \E r \in DOMAIN s : s[r] = t /\ \A m \in DOMAIN s \ {r} : s[m] = "blank"
    <2> DEFINE lo == Min(Full(s))
               hi == Max(Full(s))
    <2>1. Full(s) # {} BY <1>1, TrimIs
    <2>2. Full(s) \in SUBSET Nat /\ Full(s) \in SUBSET (0..Len(s)) BY DEF Full
    <2>3. lo \in Full(s) /\ \A m \in Full(s) : lo <= m BY <2>1, <2>2, MinOfNat
    <2>4. hi \in Full(s) /\ \A m \in Full(s) : hi >= m BY <2>1, <2>2, MaxOfNat
    <2>5. SubSeq(s, lo, hi) = <<t>> BY <1>1, <2>1, TrimIs
    <2> HIDE DEF lo, hi
    <2>6. lo \in 1..Len(s) /\ hi \in 1..Len(s) /\ lo <= hi BY <2>3, <2>4 DEF Full
    <2>7. Len(SubSeq(s, lo, hi)) = hi - lo + 1 /\ SubSeq(s, lo, hi)[1] = s[lo]
        <3>1. \A i \in lo..hi : s[i] \in S BY <2>6
        <3> QED BY <2>6, <3>1, SubSeqProperties
    <2>8. hi = lo /\ s[lo] = t BY <2>5, <2>6, <2>7
    <2>9. \A m \in DOMAIN s \ {lo} : s[m] = "blank"
        <3> SUFFICES ASSUME NEW m \in DOMAIN s, m # lo, s[m] # "blank" PROVE FALSE
            OBVIOUS
        <3>1. m \in Full(s) BY DEF Full
        <3>2. m \in Nat /\ lo <= m /\ m <= lo BY <2>2, <2>3, <2>4, <2>8, <3>1
        <3> QED BY <2>6, <3>2
    <2> QED BY <2>6, <2>8, <2>9
<1>2. ASSUME NEW r \in DOMAIN s, s[r] = t, \A m \in DOMAIN s \ {r} : s[m] = "blank"
      PROVE  Data!Trim(s) = <<t>>
    <2>1. Full(s) = {r} BY <1>2 DEF Full
    <2>2. r \in 1..Len(s) OBVIOUS
    <2>3. Min({r}) = r /\ Max({r}) = r BY <2>2 DEF Min, Max
    <2>4. SubSeq(s, r, r) = <<t>>
        <3>1. \A i \in r..r : s[i] \in S BY <2>2
        <3>2. SubSeq(s, r, r) \in Seq(S) /\ Len(SubSeq(s, r, r)) = 1 /\ SubSeq(s, r, r)[1] = t
            BY <1>2, <2>2, <3>1, SubSeqProperties
        <3>3. <<t>> \in Seq(S) /\ Len(<<t>>) = 1 /\ <<t>>[1] = t BY <1>2, <2>2
        <3> DEFINE cut == SubSeq(s, r, r)
                   one == <<t>>
        <3>4. Len(cut) = Len(one) /\ \A i \in 1..Len(cut) : cut[i] = one[i] BY <3>2, <3>3
        <3> HIDE DEF cut, one
        <3>5. cut \in Seq(S) /\ one \in Seq(S) BY <3>2, <3>3 DEF cut, one
        <3>6. cut = one BY <3>4, <3>5, SeqEqual
        <3> QED BY <3>6 DEF cut, one
    <2> QED BY <2>1, <2>3, <2>4, TrimIs
<1> QED BY <1>1, <1>2

LEMMA NamesIs ==
    ASSUME NEW h, NEW type
    PROVE  Names(h, type) <=> \E i \in DOMAIN h : h[i] \in {type, "app/*"} /\ \E k, l : Around(h, i, k, l)
<1> DEFINE OpensAt(i, k) == (k = 0 \/ h[k] = "comma") /\ \A m \in (k + 1)..(i - 1) : h[m] = "blank"
           ClosesAt(i, k) == /\ k = Len(h) + 1 \/ h[k] \in {"comma", "semicolon"}
                             /\ \A m \in (i + 1)..(k - 1) : h[m] = "blank"
           Lone(i) == (\E k \in 0..(i - 1) : OpensAt(i, k)) /\ \E k \in (i + 1)..(Len(h) + 1) : ClosesAt(i, k)
<1>1. Names(h, type) <=> \E i \in DOMAIN h : h[i] \in {type, "app/*"} /\ Lone(i)
    BY Zenon DEF Names
<1>2. \A i, k, l : Around(h, i, k, l) <=> /\ k \in 0..(i - 1) /\ OpensAt(i, k)
                                          /\ l \in (i + 1)..(Len(h) + 1) /\ ClosesAt(i, l)
    BY Zenon DEF Around
<1> HIDE DEF OpensAt, ClosesAt
<1>3. \A i : Lone(i) <=> \E k, l : Around(h, i, k, l) BY <1>2, Zenon
<1> HIDE DEF Lone
<1> QED BY <1>1, <1>3, Zenon

LEMMA PartsIs ==
    ASSUME NEW h, NEW p
    PROVE  p \in Data!Parts(h) <=>
            \E a, b \in Cuts(h) : a < b /\ Cuts(h) \cap (a + 1)..(b - 1) = {} /\ p = SubSeq(h, a + 1, b - 1)
<1> DEFINE pairs == {c \in Cuts(h) \X Cuts(h) : c[1] < c[2] /\ Cuts(h) \cap (c[1] + 1)..(c[2] - 1) = {}}
<1>1. Data!Parts(h) = {SubSeq(h, c[1] + 1, c[2] - 1) : c \in pairs} BY DEF Data!Parts, Cuts
<1>2. ASSUME p \in Data!Parts(h)
      PROVE  \E a, b \in Cuts(h) : a < b /\ Cuts(h) \cap (a + 1)..(b - 1) = {} /\ p = SubSeq(h, a + 1, b - 1)
    <2>1. PICK c \in pairs : p = SubSeq(h, c[1] + 1, c[2] - 1) BY <1>1, <1>2
    <2>2. c[1] \in Cuts(h) /\ c[2] \in Cuts(h) OBVIOUS
    <2> WITNESS c[1] \in Cuts(h), c[2] \in Cuts(h)
    <2> QED BY <2>1
<1>3. ASSUME NEW a \in Cuts(h), NEW b \in Cuts(h),
             a < b, Cuts(h) \cap (a + 1)..(b - 1) = {}, p = SubSeq(h, a + 1, b - 1)
      PROVE  p \in Data!Parts(h)
    <2>1. <<a, b>> \in pairs BY <1>3
    <2>2. p = SubSeq(h, <<a, b>>[1] + 1, <<a, b>>[2] - 1) BY <1>3
    <2> HIDE DEF pairs
    <2> QED BY <1>1, <2>1, <2>2
<1> QED BY <1>2, <1>3

Marks == {"comma", "blank", "semicolon"}

\* q is the header from a on, up to the first semicolon or to b.
Covers(h, q, a, b, S) ==
    \E l \in (a + 1)..b :
        /\ q \in Seq(S) /\ Len(q) = l - a - 1 /\ \A i \in 1..(l - a - 1) : q[i] = h[a + i]
        /\ l = b \/ h[l] = "semicolon"
        /\ \A m \in (a + 1)..(l - 1) : h[m] # "semicolon"

\* The text that MediaRange trims, of the part between two cuts.
LEMMA BeforeIs ==
    ASSUME NEW S, NEW h \in Seq(S), NEW a \in 0..Len(h), NEW b \in (a + 1)..(Len(h) + 1)
    PROVE  Covers(h, Before(SubSeq(h, a + 1, b - 1)), a, b, S)
<1> DEFINE p == SubSeq(h, a + 1, b - 1)
<1> SUFFICES Covers(h, Before(p), a, b, S)
    OBVIOUS
<1>1. Len(h) \in Nat /\ \A i \in 1..Len(h) : h[i] \in S BY LenProperties
<1>2. /\ p \in Seq(S) /\ Len(p) = b - a - 1
      /\ \A i \in 1..(b - a - 1) : p[i] = h[a + i]
    <2>1. a + 1 \in Int /\ b - 1 \in Int /\ \A i \in (a + 1)..(b - 1) : h[i] \in S BY <1>1
    <2>2. /\ p \in Seq(S)
          /\ Len(p) = IF a + 1 <= b - 1 THEN (b - 1) - (a + 1) + 1 ELSE 0
          /\ \A i \in 1..((b - 1) - (a + 1) + 1) : p[i] = h[(a + 1) + i - 1]
        BY <2>1, SubSeqProperties
    <2>3. (b - 1) - (a + 1) + 1 = b - a - 1 BY <1>1
    <2>4. \A i \in 1..(b - a - 1) : (a + 1) + i - 1 = a + i BY <1>1
    <2> HIDE DEF p
    <2> QED BY <1>1, <2>2, <2>3, <2>4
<1> HIDE DEF p
<1>3. CASE Semis(p) = {}
    <2>1. Before(p) = p BY <1>3 DEF Before
    <2>2. \A m \in (a + 1)..(b - 1) : h[m] # "semicolon"
        <3> SUFFICES ASSUME NEW m \in (a + 1)..(b - 1) PROVE h[m] # "semicolon"
            OBVIOUS
        <3>1. m - a \in 1..(b - a - 1) /\ a + (m - a) = m BY <1>1
        <3>2. p[m - a] = h[m] BY <1>2, <3>1
        <3> QED BY <1>2, <1>3, <3>1, <3>2 DEF Semis
    <2>3. b \in (a + 1)..b BY <1>1
    <2> QED BY <1>2, <2>1, <2>2, <2>3 DEF Covers
<1>4. CASE Semis(p) # {}
    <2> DEFINE f == Min(Semis(p))
    <2>9. Semis(p) \in SUBSET Nat BY DEF Semis
    <2>1. f \in Semis(p) /\ \A m \in Semis(p) : f <= m BY <1>4, <2>9, MinOfNat
    <2>2. Before(p) = SubSeq(p, 1, f - 1) BY <1>4 DEF Before
    <2> HIDE DEF f
    <2>3. f \in 1..(b - a - 1) /\ h[a + f] = "semicolon" BY <1>2, <2>1 DEF Semis
    <2>4. \A i \in 1..(f - 1) : p[i] \in S BY <1>1, <1>2, <2>3
    <2>5. /\ Before(p) \in Seq(S) /\ Len(Before(p)) = f - 1
          /\ \A i \in 1..(f - 1) : Before(p)[i] = p[i]
        <3>1. f - 1 \in Int /\ 1 \in Int BY <2>3
        <3>2. /\ SubSeq(p, 1, f - 1) \in Seq(S)
              /\ Len(SubSeq(p, 1, f - 1)) = IF 1 <= f - 1 THEN (f - 1) - 1 + 1 ELSE 0
              /\ \A i \in 1..((f - 1) - 1 + 1) : SubSeq(p, 1, f - 1)[i] = p[1 + i - 1]
            BY <2>4, <3>1, SubSeqProperties
        <3>3. (f - 1) - 1 + 1 = f - 1 /\ \A i \in 1..(f - 1) : 1 + i - 1 = i BY <2>3
        <3> QED BY <2>2, <2>3, <3>2, <3>3
    <2>6. \A m \in (a + 1)..(a + f - 1) : h[m] # "semicolon"
        <3> SUFFICES ASSUME NEW m \in (a + 1)..(a + f - 1) PROVE h[m] # "semicolon"
            OBVIOUS
        <3>1. m - a \in 1..(b - a - 1) /\ a + (m - a) = m /\ m - a < f BY <1>1, <2>3
        <3>2. p[m - a] = h[m] BY <1>2, <3>1
        <3>3. m - a \notin Semis(p) BY <2>1, <2>3, <3>1 DEF Semis
        <3> QED BY <1>2, <3>1, <3>2, <3>3 DEF Semis
    <2>7. a + f \in (a + 1)..b /\ (a + f) - a - 1 = f - 1 BY <1>1, <2>3
    <2>8. \A i \in 1..(f - 1) : Before(p)[i] = h[a + i] BY <1>2, <2>3, <2>5
    <2> QED BY <2>3, <2>5, <2>6, <2>7, <2>8 DEF Covers
<1> QED BY <1>3, <1>4

LEMMA ExplicitIsNamed ==
    ASSUME NEW S, NEW h \in Seq(S), NEW t, t \notin Marks,
           NEW p \in Data!Parts(h), Data!MediaRange(p) = <<t>>
    PROVE  \E i \in DOMAIN h : h[i] = t /\ \E k, l : Around(h, i, k, l)
<1>1. Len(h) \in Nat /\ DOMAIN h = 1..Len(h) BY LenProperties
<1>2. PICK a \in Cuts(h), b \in Cuts(h) :
        a < b /\ Cuts(h) \cap (a + 1)..(b - 1) = {} /\ p = SubSeq(h, a + 1, b - 1)
    BY PartsIs
<1>3. a \in 0..Len(h) /\ b \in (a + 1)..(Len(h) + 1) BY <1>1, <1>2 DEF Cuts
<1> DEFINE q == Before(p)
<1>4. PICK l \in (a + 1)..b :
        /\ q \in Seq(S) /\ Len(q) = l - a - 1 /\ \A i \in 1..(l - a - 1) : q[i] = h[a + i]
        /\ l = b \/ h[l] = "semicolon"
    BY <1>2, <1>3, BeforeIs DEF Covers
<1>5. Data!Trim(q) = <<t>> BY MediaRangeIs
<1> HIDE DEF q
<1>6. DOMAIN q = 1..(l - a - 1) BY <1>4, LenProperties
<1>7. PICK r \in DOMAIN q : q[r] = t /\ \A m \in DOMAIN q \ {r} : q[m] = "blank"
    <2>1. q \in Seq(S) /\ t # "blank" BY <1>4 DEF Marks
    <2> QED BY <1>5, <2>1, TrimToken
<1> DEFINE i == a + r
<1>8. r \in 1..(l - a - 1) /\ i \in 1..Len(h) /\ a \in 0..(i - 1) /\ l \in (i + 1)..(Len(h) + 1)
    BY <1>1, <1>3, <1>6
<1>9. h[i] = t BY <1>4, <1>7, <1>8
<1>10. a = 0 \/ h[a] = "comma" BY <1>1, <1>3 DEF Cuts
<1>11. l = Len(h) + 1 \/ h[l] \in {"comma", "semicolon"} BY <1>1, <1>3, <1>4 DEF Cuts
<1>12. ASSUME NEW m \in (a + 1)..(l - 1), m # i PROVE h[m] = "blank"
    <2>1. m - a \in 1..(l - a - 1) /\ m - a # r /\ a + (m - a) = m BY <1>3, <1>8, <1>12
    <2> QED BY <1>4, <1>6, <1>7, <2>1
<1>13. (\A m \in (a + 1)..(i - 1) : h[m] = "blank") /\ (\A m \in (i + 1)..(l - 1) : h[m] = "blank")
    BY <1>3, <1>8, <1>12
<1>14. Around(h, i, a, l) BY <1>8, <1>10, <1>11, <1>13 DEF Around
<1> QED BY <1>1, <1>8, <1>9, <1>14

LEMMA NamedIsExplicit ==
    ASSUME NEW S, NEW h \in Seq(S), NEW i \in DOMAIN h, h[i] \notin Marks,
           NEW k, NEW l, Around(h, i, k, l)
    PROVE  \E p \in Data!Parts(h) : Data!MediaRange(p) = <<h[i]>>
<1>1. Len(h) \in Nat /\ DOMAIN h = 1..Len(h) BY LenProperties
<1>2. i \in 1..Len(h) /\ k \in 0..(i - 1) /\ l \in (i + 1)..(Len(h) + 1)
    BY <1>1 DEF Around
<1>3. \A m \in (k + 1)..(l - 1) : m # i => h[m] = "blank" BY <1>2 DEF Around
<1> DEFINE later == {c \in Cuts(h) : c > i}
           b == Min(later)
           p == SubSeq(h, k + 1, b - 1)
           q == Before(p)
<1>4. b \in later /\ \A c \in later : b <= c
    <2>1. later \in SUBSET Nat BY <1>1 DEF Cuts
    <2>2. Len(h) + 1 \in later BY <1>1, <1>2 DEF Cuts
    <2> QED BY <2>1, <2>2, MinOfNat
<1> HIDE DEF b, p, q
<1>5. b \in Cuts(h) /\ b \in (i + 1)..(Len(h) + 1) BY <1>1, <1>2, <1>4 DEF Cuts
<1>6. k \in Cuts(h) BY <1>1, <1>2 DEF Around, Cuts
<1>7. Cuts(h) \cap (k + 1)..(b - 1) = {}
    <2> SUFFICES ASSUME NEW c \in Cuts(h), c \in (k + 1)..(b - 1) PROVE FALSE
        OBVIOUS
    <2>1. c \in 1..Len(h) /\ h[c] = "comma" BY <1>1, <1>2, <1>5 DEF Cuts
    <2>2. c <= i BY <1>2, <1>4, <1>5, <2>1
    <2>3. c # i BY <2>1 DEF Marks
    <2>4. c \in (k + 1)..(l - 1) BY <1>2, <2>1, <2>2
    <2> QED BY <1>3, <2>1, <2>3, <2>4
<1>8. p \in Data!Parts(h)
    <2>1. k < b BY <1>2, <1>5
    <2> QED BY <1>5, <1>6, <1>7, <2>1, PartsIs DEF p
<1>9. PICK e \in (k + 1)..b :
        /\ q \in Seq(S) /\ Len(q) = e - k - 1 /\ \A j \in 1..(e - k - 1) : q[j] = h[k + j]
        /\ e = b \/ h[e] = "semicolon"
        /\ \A m \in (k + 1)..(e - 1) : h[m] # "semicolon"
    <2>1. k \in 0..Len(h) /\ b \in (k + 1)..(Len(h) + 1) BY <1>1, <1>2, <1>5
    <2>2. Covers(h, q, k, b, S) BY <2>1, BeforeIs DEF p, q
    <2> QED BY <2>2 DEF Covers
<1>10. e = l
    <2>1. ~(e < l)
        <3> SUFFICES ASSUME e < l PROVE FALSE
            OBVIOUS
        <3>1. e \in (k + 1)..(l - 1) BY <1>2, <1>5, <1>9
        <3>2. CASE e = b
            <4>1. e \in 1..Len(h) /\ e # i BY <1>1, <1>2, <1>5, <3>1, <3>2
            <4>2. h[e] = "comma" BY <1>1, <1>5, <3>2, <4>1 DEF Cuts
            <4> QED BY <1>3, <3>1, <4>1, <4>2
        <3>3. CASE h[e] = "semicolon"
            <4>1. e # i BY <3>3 DEF Marks
            <4> QED BY <1>3, <3>1, <3>3, <4>1
        <3> QED BY <1>9, <3>2, <3>3
    <2>2. ~(l < e)
        <3> SUFFICES ASSUME l < e PROVE FALSE
            OBVIOUS
        <3>1. l \in (k + 1)..(e - 1) BY <1>2, <1>9
        <3>2. l = Len(h) + 1 \/ h[l] = "comma" BY <1>9, <3>1 DEF Around
        <3>3. l \in later BY <1>1, <1>2, <3>2 DEF Cuts
        <3> QED BY <1>2, <1>4, <1>5, <1>9, <3>3
    <2> QED BY <1>2, <1>5, <1>9, <2>1, <2>2
<1>11. DOMAIN q = 1..(l - k - 1) BY <1>9, <1>10, LenProperties
<1>12. i - k \in DOMAIN q /\ q[i - k] = h[i]
    <2>1. i - k \in 1..(l - k - 1) /\ k + (i - k) = i BY <1>1, <1>2
    <2> QED BY <1>9, <1>10, <1>11, <2>1
<1>13. \A m \in DOMAIN q \ {i - k} : q[m] = "blank"
    <2> SUFFICES ASSUME NEW m \in 1..(l - k - 1), m # i - k PROVE q[m] = "blank"
        BY <1>11
    <2>1. k + m \in (k + 1)..(l - 1) /\ k + m # i BY <1>1, <1>2
    <2> QED BY <1>3, <1>9, <1>10, <2>1
<1>14. Data!Trim(q) = <<h[i]>>
    <2>1. q \in Seq(S) /\ h[i] # "blank" BY <1>9 DEF Marks
    <2>2. \E r \in DOMAIN q : q[r] = h[i] /\ \A m \in DOMAIN q \ {r} : q[m] = "blank"
        BY <1>12, <1>13
    <2> QED BY <2>1, <2>2, TrimToken
<1>15. Data!MediaRange(p) = <<h[i]>> BY <1>14, MediaRangeIs DEF q
<1> QED BY <1>8, <1>15

\* AcceptsExplicit, which cuts and trims the header, finds what the header names.
LEMMA AcceptsIsNames ==
    ASSUME NEW S, NEW h \in Seq(S), NEW type, type \notin Marks
    PROVE  Data!AcceptsExplicit(h, type) <=> Names(h, type)
<1>1. "app/*" \notin Marks BY DEF Marks
<1>2. ASSUME Data!AcceptsExplicit(h, type) PROVE Names(h, type)
    <2>1. PICK p \in Data!Parts(h) : Data!MediaRange(p) \in {<<type>>, <<"app/*">>}
        BY <1>2 DEF Data!AcceptsExplicit
    <2>2. PICK t \in {type, "app/*"} : Data!MediaRange(p) = <<t>> BY <2>1
    <2>3. \E i \in DOMAIN h : h[i] = t /\ \E k, l : Around(h, i, k, l)
        BY <1>1, <2>2, ExplicitIsNamed
    <2> QED BY <2>3, NamesIs
<1>3. ASSUME Names(h, type) PROVE Data!AcceptsExplicit(h, type)
    <2>1. PICK i \in DOMAIN h : h[i] \in {type, "app/*"} /\ \E k, l : Around(h, i, k, l)
        BY <1>3, NamesIs
    <2>2. PICK k, l : Around(h, i, k, l) BY <2>1
    <2>3. h[i] \notin Marks BY <1>1, <2>1
    <2>4. \E p \in Data!Parts(h) : Data!MediaRange(p) = <<h[i]>>
        BY <2>2, <2>3, NamedIsExplicit
    <2> QED BY <2>1, <2>4 DEF Data!AcceptsExplicit
<1> QED BY <1>2, <1>3

\* What a getter returns has no error, or a known one.
Errors == {"required", "malformed", "numeric", "validation", "own"}
IsResult(r) == r.error \in {None} \cup Errors

LEMMA ReadResult == ASSUME NEW j PROVE IsResult(Read(j))
<1> USE DEF IsResult, Errors, Data!Got, Data!Fail
<1>1. ASSUME NEW v PROVE IsResult(Data!Got(v)) OBVIOUS
<1>2. ASSUME NEW e \in Errors PROVE IsResult(Data!Fail(e)) OBVIOUS
<1>3. ASSUME NEW text PROVE IsResult(Data!ParseInt(text)) BY DEF Data!ParseInt
<1>4. ASSUME NEW d, NEW key PROVE IsResult(Data!String(d, key)) BY DEF Data!String
<1>5. ASSUME NEW d, NEW key PROVE IsResult(Data!Int64(d, key))
    <2> HIDE DEF IsResult
    <2> QED BY <1>3, <1>4 DEF Data!Int64
<1>6. ASSUME NEW d, NEW key PROVE IsResult(Data!ParamsInt64(d, key))
    <2> HIDE DEF IsResult, Data!Got
    <2> QED BY <1>1, <1>3 DEF Data!ParamsInt64
<1>7. ASSUME NEW d, NEW key PROVE IsResult(Data!Int64Optional(d, key))
    <2> HIDE DEF IsResult, Data!Got
    <2> QED BY <1>1, <1>3 DEF Data!Int64Optional
<1>8. ASSUME NEW d, NEW key PROVE IsResult(Data!Bool(d, key)) /\ IsResult(Data!BoolOptional(d, key))
    <2> HIDE DEF IsResult, Data!Got
    <2> QED BY <1>1, <1>4 DEF Data!Bool, Data!BoolOptional
<1>9. ASSUME NEW b, NEW m PROVE IsResult(Data!Body(b, m)) BY DEF Data!Body
<1>10. IsResult(Data!Fail("own")) OBVIOUS
<1> HIDE DEF IsResult, Data!Got, Data!Fail
<1> QED BY <1>1, <1>4, <1>5, <1>6, <1>7, <1>8, <1>9, <1>10 DEF Read

\* The answer to what ReadData got.
LEMMA RefusalFits ==
    ASSUME NEW j, j.accept \in Seq(Range(j.accept)), NEW r, IsResult(r), r.error # None,
           NEW e, e = [error |-> r.error, wrapped |-> j.wrapped, marshals |-> j.marshals],
           NEW o, o.error = r.error, o.status = Data!StatusCode(e),
           o.media = Data!ErrorBody(e, j.ct, j.accept)
    PROVE  FitsClient(j, o)
<1> DEFINE asked == {t \in {"json", "xml"} : j.ct = t \/ Names(j.accept, t)}
<1>1. \A t \in {"json", "xml"} : Data!Wants(j.ct, j.accept, t) <=> t \in asked
    <2> TAKE t \in {"json", "xml"}
    <2>1. t \notin Marks BY DEF Marks
    <2>2. Data!AcceptsExplicit(j.accept, t) <=> Names(j.accept, t) BY <2>1, AcceptsIsNames
    <2> QED BY <2>2 DEF Data!Wants
<1>2. asked \in SUBSET {"json", "xml"} OBVIOUS
<1> HIDE DEF asked
<1>3. o.error # "own" => o.status \in 400..499 BY DEF IsResult, Errors, Data!StatusCode
<1>4. o.media = None => o.error = "own" \/ j.wrapped
    BY HandlersAssumption DEF IsResult, Errors, Data!ErrorBody, Data!NewErrorResponse
<1>5. o.media = "text" => asked = {}
    BY <1>1, <1>2, HandlersAssumption DEF Data!ErrorBody
<1>6. o.media \in {"json", "xml"} => o.media \in asked \/ (asked = {} /\ o.media \in j.marshals)
    BY <1>1, <1>2, HandlersAssumption DEF Data!ErrorBody
<1> QED BY <1>3, <1>4, <1>5, <1>6 DEF FitsClient, asked

-----------------------------------------------------------------------------
(* Users                                                                   *)

\* The place of the first name that has a claim.
LEMMA ClaimIs ==
    ASSUME NEW u, u.names \in Seq(Range(u.names))
    PROVE  LET has == {i \in 1..Len(u.names) : u.names[i] \in DOMAIN u.claims}
           IN  Claim(u, u.names) = IF has = {} THEN <<>> ELSE u.claims[u.names[Min(has)]]
<1> DEFINE has == {i \in 1..Len(u.names) : u.names[i] \in DOMAIN u.claims}
<1>1. SelectInSeq(u.names, LAMBDA n : n \in DOMAIN u.claims) = IF has # {} THEN Min(has) ELSE 0
    BY DEF SelectInSeq
<1>2. has # {} => Min(has) \in has
    <2>1. has \in SUBSET Nat OBVIOUS
    <2> HIDE DEF has
    <2> QED BY <2>1, MinOfNat
<1>3. has # {} => Min(has) # 0
    <2>1. 0 \notin has OBVIOUS
    <2> HIDE DEF has
    <2> QED BY <1>2, <2>1
<1>4. CASE has = {} BY <1>1, <1>4 DEF Claim
<1>5. CASE has # {} BY <1>1, <1>3, <1>5 DEF Claim
<1> QED BY <1>4, <1>5

\* The claim that counts is the one that parseScopes reads.
LEMMA CountingIs ==
    ASSUME NEW u, u.names \in Seq(Range(u.names))
    PROVE  \/ Counting(u) = {} /\ Claim(u, u.names) = <<>>
           \/ Counting(u) = {Claim(u, u.names)} /\ \E n \in DOMAIN u.claims : Claim(u, u.names) = u.claims[n]
<1> DEFINE has == {i \in 1..Len(u.names) : u.names[i] \in DOMAIN u.claims}
           first == {k \in DOMAIN u.names : u.names[k] \in DOMAIN u.claims
                        /\ \A j \in 1..(k - 1) : u.names[j] \notin DOMAIN u.claims}
<1>1. Len(u.names) \in Nat /\ DOMAIN u.names = 1..Len(u.names) BY LenProperties
<1>2. Counting(u) = UNION {{u.claims[u.names[i]]} : i \in first} BY DEF Counting
<1>3. CASE has = {}
    <2>1. first = {} BY <1>1, <1>3
    <2>2. Counting(u) = {} BY <1>2, <2>1
    <2> QED BY <1>3, <2>2, ClaimIs
<1>4. CASE has # {}
    <2>1. Min(has) \in has /\ \A y \in has : Min(has) <= y
        <3>1. has \in SUBSET Nat BY <1>1
        <3> HIDE DEF has
        <3> QED BY <1>4, <3>1, MinOfNat
    <2> DEFINE f == Min(has)
    <2>2. Claim(u, u.names) = u.claims[u.names[f]] BY <1>4, ClaimIs
    <2> HIDE DEF f
    <2>3. f \in 1..Len(u.names) /\ u.names[f] \in DOMAIN u.claims BY <2>1 DEF f
    <2>4. f \in first
        <3>1. \A j \in 1..(f - 1) : u.names[j] \notin DOMAIN u.claims
            <4> SUFFICES ASSUME NEW j \in 1..(f - 1), u.names[j] \in DOMAIN u.claims PROVE FALSE
                OBVIOUS
            <4>1. j \in has BY <1>1, <2>3
            <4>2. f <= j BY <2>1, <4>1 DEF f
            <4> QED BY <2>3, <4>2
        <3> QED BY <1>1, <2>3, <3>1
    <2>5. \A k \in first : k = f
        <3> SUFFICES ASSUME NEW k \in first PROVE k = f
            OBVIOUS
        <3>1. k \in has /\ k \in Nat BY <1>1
        <3>2. f <= k BY <2>1, <3>1 DEF f
        <3>3. ~(f < k) BY <2>3, <3>1
        <3> QED BY <2>3, <3>1, <3>2, <3>3
    <2>6. first = {f} BY <2>4, <2>5
    <2>7. Counting(u) = {u.claims[u.names[f]]}
        <3> HIDE DEF first
        <3> QED BY <1>2, <2>6
    <2> QED BY <2>2, <2>3, <2>7
<1> QED BY <1>3, <1>4

\* The scopes that a list of texts gives.
ScopesOf(texts) ==
    [s \in {CutScope(t) : t \in Range(texts)} |->
        {CutLevel(t) : t \in {x \in Range(texts) : CutScope(x) = s}}]

LEMMA NewIs ==
    ASSUME NEW claims, NEW names, NEW u, u = New(claims, names)
    PROVE  u.claims = claims /\ u.names = names /\ u.scopes = ScopesOf(Split(Claim(u, names)))
<1> DEFINE v == User(claims, names, None)
<1>1. v.claims = claims /\ v.names = names /\ v.scopes = None BY DEF User
<1>2. u = [v EXCEPT !.scopes = ScopesOf(Split(Claim(v, names)))]
    BY <1>1 DEF New, parseScopes, ScopesOf
<1>3. u.claims = claims /\ u.names = names /\ u.scopes = ScopesOf(Split(Claim(v, names)))
    BY <1>2 DEF User
<1>4. Claim(u, names) = Claim(v, names) BY <1>1, <1>3 DEF Claim
<1> QED BY <1>3, <1>4

IsText(t) ==
    /\ t \in Seq(Range(t)) /\ t # <<>>
    /\ \A g \in Range(t) : /\ g \in [scope : {g.scope}, level : {g.level}]
                           /\ g.scope \in Seq(Range(g.scope)) /\ g.scope # <<>>

LEMMA TextOne == ASSUME NEW t, IsText(t) PROVE Len(t) \in Nat \ {0} /\ DOMAIN t = 1..Len(t) /\ t[1] \in Range(t)
<1>1. Len(t) \in Nat /\ DOMAIN t = 1..Len(t) BY LenProperties DEF IsText
<1>2. Len(t) # 0 BY EmptySeq DEF IsText
<1> QED BY <1>1, <1>2 DEF Range

LEMMA Single ==
    ASSUME NEW g, g \in [scope : {g.scope}, level : {g.level}],
           g.scope \in Seq(Range(g.scope)) /\ g.scope # <<>>
    PROVE  IsText(<<g>>)
<1>1. Range(<<g>>) = {g} BY DEF Range
<1> QED BY <1>1 DEF IsText

\* Split keeps every text, or makes one of every grant.
LEMMA SplitIs ==
    ASSUME NEW value, IsValue(value)
    PROVE  /\ \A t \in Range(Split(value)) : IsText(t) /\ t[1] \in Grants(value)
           /\ (Len(value) = 1 \/ \A t \in Range(value) : Len(t) = 1) =>
                \A g \in Grants(value) : <<g>> \in Range(Split(value))
<1>1. \A t \in Range(value) : IsText(t) BY DEF IsValue, IsText
<1>2. CASE Len(value) = 1
    <2> DEFINE text == value[1]
    <2>1. DOMAIN value = {1} BY <1>2, LenProperties DEF IsValue
    <2>2. Range(value) = {text} BY <2>1 DEF Range
    <2>3. Grants(value) = Range(text) BY <2>2 DEF Grants
    <2>4. Split(value) = [j \in DOMAIN text |-> <<text[j]>>] BY <1>2 DEF Split
    <2>5. Range(Split(value)) = {<<g>> : g \in Range(text)} BY <2>4 DEF Range
    <2>6. \A g \in Range(text) : IsText(<<g>>) BY <1>1, <2>2, Single DEF IsText
    <2> HIDE DEF text
    <2> QED BY <2>3, <2>5, <2>6
<1>3. CASE Len(value) # 1
    <2>1. Split(value) = value BY <1>3 DEF Split
    <2>2. \A t \in Range(value) : t[1] \in Grants(value) BY <1>1, TextOne DEF Grants
    <2>3. ASSUME NEW t \in Range(value), Len(t) = 1, NEW g \in Range(t) PROVE t = <<g>>
        <3>1. t \in Seq(Range(t)) /\ DOMAIN t = {1} BY <1>1, <2>3, TextOne DEF IsText
        <3>2. g = t[1] BY <3>1 DEF Range
        <3> QED BY <2>3, <3>1, <3>2
    <2> QED BY <1>1, <1>3, <2>1, <2>2, <2>3 DEF Grants
<1> QED BY <1>2, <1>3

LEMMA GroupOfScope ==
    ASSUME NEW u, NEW s \in DOMAIN u.scopes, s \in Seq(Range(s)), s # <<>>
    PROVE  HasScopeGroup(u, <<s[1]>>)
<1>1. Len(s) \in Nat /\ Len(s) # 0 /\ DOMAIN s = 1..Len(s) /\ \A i \in 1..Len(s) : s[i] \in Range(s)
    BY LenProperties, EmptySeq
<1>2. SubSeq(<<s[1]>>, 1, 1) = SubSeq(s, 1, 1)
    <2> DEFINE x == SubSeq(<<s[1]>>, 1, 1)
               y == SubSeq(s, 1, 1)
    <2>1. /\ x \in Seq(Range(s)) /\ Len(x) = 1
          /\ x[1] = s[1]
        BY <1>1
    <2>2. /\ y \in Seq(Range(s)) /\ Len(y) = 1
          /\ y[1] = s[1]
        <3>1. \A i \in 1..1 : s[i] \in Range(s) BY <1>1
        <3> QED BY <3>1, SubSeqProperties
    <2> HIDE DEF x, y
    <2>3. Len(x) = Len(y) /\ \A i \in 1..Len(x) : x[i] = y[i] BY <2>1, <2>2
    <2>4. x = y BY <2>1, <2>2, <2>3, SeqEqual
    <2> QED BY <2>4 DEF x, y
<1>3. IsPrefix(<<s[1]>>, s) BY <1>1, <1>2 DEF IsPrefix
<1> QED BY <1>3 DEF HasScopeGroup, IsStrictPrefix

LEMMA NewOfItsClaims ==
    ASSUME NEW claims, \A n \in DOMAIN claims : IsValue(claims[n]),
           NEW names, names \in Seq(Range(names)),
           NEW u, u = New(claims, names)
    PROVE  OfItsClaims(u)
<1> DEFINE c == Claim(u, u.names)
           texts == Split(c)
<1>1. u.claims = claims /\ u.names = names /\ u.scopes = ScopesOf(texts) BY NewIs
<1>2. \/ Counting(u) = {} /\ c = <<>>
      \/ Counting(u) = {c} /\ IsValue(c)
    BY <1>1, CountingIs
<1> HIDE DEF c
<1>3. Range(Split(<<>>)) = {} BY DEF Split, Range
<1>4. ASSUME NEW s \in DOMAIN u.scopes, NEW l \in u.scopes[s], l # "comma"
      PROVE  \E v \in Counting(u) : [scope |-> s, level |-> l] \in Grants(v)
    <2>1. PICK t \in Range(texts) : CutScope(t) = s /\ CutLevel(t) = l
        BY <1>1, <1>4 DEF ScopesOf
    <2>2. Counting(u) = {c} /\ IsValue(c) BY <1>2, <1>3, <2>1
    <2>3. IsText(t) /\ t[1] \in Grants(c) BY <2>1, <2>2, SplitIs
    <2>4. Len(t) = 1
        <3>1. Len(t) \in Nat \ {0} BY <2>3, TextOne
        <3>2. ~(Len(t) > 1) BY <1>4, <2>1 DEF CutLevel
        <3> DEFINE n == Len(t)
        <3> SUFFICES n = 1
            OBVIOUS
        <3> HIDE DEF n
        <3>3. n \in Nat \ {0} /\ ~(n > 1) BY <3>1, <3>2 DEF n
        <3> QED BY <3>3
    <2>5. t[1].scope = s /\ t[1].level = l BY <2>1, <2>4 DEF CutScope, CutLevel
    <2>6. t[1] \in [scope : {t[1].scope}, level : {t[1].level}] BY <2>3, TextOne DEF IsText
    <2>7. t[1] = [scope |-> s, level |-> l] BY <2>5, <2>6
    <2> QED BY <2>2, <2>3, <2>7
<1>5. ASSUME NEW v \in Counting(u), Len(v) = 1 \/ \A t \in Range(v) : Len(t) = 1,
             NEW g \in Grants(v)
      PROVE  HasScopeLevel(u, g.scope, g.level) /\ HasScopeGroup(u, <<g.scope[1]>>)
    <2>1. v = c /\ IsValue(c) BY <1>2
    <2>2. <<g>> \in Range(texts) /\ IsText(<<g>>) BY <1>5, <2>1, SplitIs
    <2>3. CutScope(<<g>>) = g.scope /\ CutLevel(<<g>>) = g.level BY DEF CutScope, CutLevel
    <2>4. g.scope \in DOMAIN u.scopes /\ g.level \in u.scopes[g.scope]
        BY <1>1, <2>2, <2>3 DEF ScopesOf
    <2>5. g.scope \in Seq(Range(g.scope)) /\ g.scope # <<>>
        <3>1. g \in Range(<<g>>) BY DEF Range
        <3> QED BY <2>2, <3>1 DEF IsText
    <2> QED BY <2>4, <2>5, GroupOfScope DEF HasScopeLevel, HasScope
<1> QED BY <1>4, <1>5 DEF OfItsClaims

LEMMA ZeroHasNone ==
    ASSUME NEW claims PROVE DOMAIN UnmarshalJSON(NoUser, claims).scopes = {}
<1> DEFINE v == [NoUser EXCEPT !.claims = claims]
<1>1. v.names = <<>> /\ v.scopes = None BY DEF NoUser, User
<1>2. SelectInSeq(<<>>, LAMBDA n : n \in DOMAIN v.claims) = 0 BY DEF SelectInSeq
<1>3. Claim(v, v.names) = <<>> BY <1>1, <1>2 DEF Claim
<1>4. Range(Split(Claim(v, v.names))) = {}
    <2>1. Range(Split(<<>>)) = {} BY DEF Split, Range
    <2> HIDE DEF v
    <2> QED BY <1>3, <2>1
<1>5. UnmarshalJSON(NoUser, claims) = [v EXCEPT !.scopes = ScopesOf(Split(Claim(v, v.names)))]
    BY <1>1 DEF UnmarshalJSON, parseScopes, ScopesOf
<1>6. UnmarshalJSON(NoUser, claims).scopes = ScopesOf(Split(Claim(v, v.names)))
    BY <1>5 DEF NoUser, User
<1> QED BY <1>4, <1>6 DEF ScopesOf

-----------------------------------------------------------------------------
(* Redirects                                                               *)

\* One segment, and path.Clean as the fold of it.
CleanStep(path, s) ==
    CASE s = "."  -> path
      [] s = ".." -> IF path = <<>> THEN path ELSE Front(path)
      [] OTHER    -> Append(path, s)

LEMMA CleanIs ==
    ASSUME NEW segs
    PROVE  Clean(segs) = (CHOOSE f : f = [s \in SUBSET DOMAIN segs |->
                IF s = {} THEN <<>> ELSE CleanStep(f[s \ {Max(s)}], segs[Max(s)])])[DOMAIN segs]
BY DEF Clean, FoldLeft, MapThenFoldSet, CleanStep

\* A cleaned path has no dots left, however many the target begins with.
LEMMA CleanNoDots ==
    ASSUME NEW S, NEW segs \in Seq(S)
    PROVE  Clean(segs) \in Seq(S \ {".", ".."})
<1> DEFINE n == Len(segs)
           V == Seq(S \ {".", ".."})
           G == [x \in (1..n) \X V |-> CleanStep(x[2], segs[x[1]])]
           Folds(f) == f = [s \in SUBSET DOMAIN segs |->
                        IF s = {} THEN <<>> ELSE CleanStep(f[s \ {Max(s)}], segs[Max(s)])]
           f == CHOOSE f : Folds(f)
<1>1. n \in Nat /\ DOMAIN segs = 1..n BY LenProperties
<1>2. \A v \in V, s \in S : CleanStep(v, s) \in V
    <2> TAKE v \in V, s \in S
    <2>1. v # <<>> => Front(v) \in V
        <3> SUFFICES ASSUME v # <<>> PROVE SubSeq(v, 1, Len(v) - 1) \in V
            BY DEF Front
        <3>1. Len(v) \in Nat \ {0} /\ DOMAIN v = 1..Len(v) BY EmptySeq, LenProperties
        <3> QED BY <3>1, SubSeqProperties
    <2>2. s \notin {".", ".."} => Append(v, s) \in V BY AppendProperties
    <2> QED BY <2>1, <2>2 DEF CleanStep
<1>3. G \in [(1..n) \X V -> V] BY <1>1, <1>2, ElementOfSeq
<1>4. <<>> \in V OBVIOUS
<1>5. PICK g \in [SUBSET (1..n) -> V] : Iterates(g, n, <<>>, G)
    <2> HIDE DEF G, V, n
    <2> QED BY <1>1, <1>3, <1>4, FoldExists
<1>6. ASSUME NEW s \in SUBSET (1..n), s # {} PROVE Max(s) \in 1..n
    <2>1. s \in SUBSET (0..n) BY <1>1
    <2> HIDE DEF n
    <2>2. Max(s) \in s BY <1>1, <1>6, <2>1, MaxOfNat
    <2> QED BY <2>2
<1>7. Folds(g)
    <2> SUFFICES ASSUME NEW s \in SUBSET (1..n)
                 PROVE  g[s] = IF s = {} THEN <<>> ELSE CleanStep(g[s \ {Max(s)}], segs[Max(s)])
        BY <1>1
    <2>1. CASE s # {}
        <3>1. s \ {Max(s)} \in SUBSET (1..n) OBVIOUS
        <3>2. G[<<Max(s), g[s \ {Max(s)}]>>] = CleanStep(g[s \ {Max(s)}], segs[Max(s)])
            BY <1>6, <2>1, <3>1
        <3> QED BY <1>5, <2>1, <3>2 DEF Iterates
    <2> QED BY <1>5, <2>1 DEF Iterates
<1>8. Folds(f)
    <2> HIDE DEF Folds
    <2> QED BY <1>7
<1>9. IteratesIn(f, n, V, <<>>, G)
    <2> HIDE DEF f
    <2>1. f[{}] = <<>> BY <1>1, <1>8
    <2>2. ASSUME NEW s \in SUBSET (1..n), s # {}, f[s \ {Max(s)}] \in V
          PROVE  f[s] = G[<<Max(s), f[s \ {Max(s)}]>>]
        <3>1. f[s] = CleanStep(f[s \ {Max(s)}], segs[Max(s)]) BY <1>1, <1>8, <2>2
        <3> QED BY <1>6, <2>2, <3>1
    <2> HIDE DEF V, G, n
    <2> QED BY <2>1, <2>2 DEF IteratesIn
<1>10. f[1..n] \in V
    <2> HIDE DEF f, V, G, n
    <2>1. IsChain(f, n, V, <<>>, G) BY <1>1, <1>3, <1>4, <1>9, FoldChain
    <2> QED BY <1>1, <2>1 DEF IsChain
<1> QED BY <1>1, <1>10, CleanIs
-----------------------------------------------------------------------------
(* The invariant                                                           *)

\* As long as the option has not changed a handler has written the cookie it
\* would write alone, and the browser holds such cookies only.
CookieInv ==
    changes = 0 =>
        /\ \A w \in Writers : (out[w] # None /\ IsCookie(job[w])) => out[w] = Ideal(job[w])
        /\ \A id \in jar : \E v \in Writers :
            /\ IsCookie(job[v]) /\ Keeps(Ideal(job[v])) /\ ~Deletes(Ideal(job[v]))
            /\ id = Id(Ideal(job[v]))

\* What the handlers that write no cookie have answered.
Fits(j, o) ==
    /\ j.op = "redirect" => ".." \notin Range(o.segs) /\ StaysOnOrigin(o, j.req)
    /\ j.op = "user" => OfItsClaims(o.new) /\ DOMAIN o.zero.scopes \subseteq DOMAIN o.new.scopes
    /\ j.op = "read" /\ o.error # None => FitsClient(j, o)
    /\ j.op = "page" => FitsLimit(j, o)

AnswersInv == \A w \in Writers : (out[w] # None /\ ~IsCookie(job[w])) => Fits(job[w], out[w])

\* The inductive invariant.
IInv ==
    /\ BaseInv /\ job \in Jobs /\ DOMAIN out = Writers
    /\ CookieInv /\ ClearRemoves /\ AnswersInv

LEMMA InitIInv == HandlersInit => IInv
<1> SUFFICES ASSUME HandlersInit PROVE IInv
    OBVIOUS
<1> USE DEF HandlersInit
<1>1. BaseInv BY InitBase
<1>2. job \in Jobs /\ DOMAIN out = Writers /\ CookieInv /\ AnswersInv BY DEF CookieInv, AnswersInv
<1>3. ClearRemoves BY DEF ClearRemoves
<1> QED BY <1>1, <1>2, <1>3 DEF IInv

\* What is said about cookies depends on dev, job and the option alone.
LEMMA SameCookies ==
    ASSUME dev' = dev, option' = option, job' = job
    PROVE  /\ \A j : Ideal(j)' = Ideal(j) /\ (Secure(j)' <=> Secure(j))
           /\ \A c, s : Undoes(c, s)' <=> Undoes(c, s)
BY DEF Ideal, writeCookie, Prefix, Enforce, Secure, Undoes

LEMMA SameInv ==
    ASSUME IInv, UNCHANGED <<option, changes, handlers>>, BaseInv' PROVE IInv'
<1> USE DEF handlers
<1>1. CookieInv' BY SameCookies DEF IInv, CookieInv
<1>2. ClearRemoves' BY SameCookies DEF IInv, ClearRemoves
<1>3. AnswersInv' BY DEF IInv, AnswersInv, Fits, StaysOnOrigin
<1> QED BY <1>1, <1>2, <1>3 DEF IInv

LEMMA SetOptionIInv ==
    ASSUME IInv, NEW s \in Raws, SetOption(s), UNCHANGED handlers PROVE IInv'
<1>1. BaseInv' BY SetOptionBase DEF IInv
<1>2. changes' # 0 BY DEF SetOption, IInv, BaseInv, BaseTypes
<1>3. CookieInv' /\ ClearRemoves' BY <1>2 DEF CookieInv, ClearRemoves
<1>4. AnswersInv' BY <1>2 DEF IInv, AnswersInv, Fits, StaysOnOrigin, handlers
<1> QED BY <1>1, <1>3, <1>4 DEF IInv, handlers

\* An answer of a handler that writes no cookie.
LEMMA OtherIInv ==
    ASSUME IInv, NEW w \in Writers, ~IsCookie(job[w]), UNCHANGED jar, NEW o, Answer(w, o),
           Fits(job[w], o)
    PROVE  IInv'
<1> USE DEF Answer
<1>1. BaseInv' BY SameBase DEF IInv
<1>2. DOMAIN out' = Writers BY DEF IInv
<1>3. UNCHANGED <<option, changes, dev, job>> BY DEF vars
<1>4. CookieInv' BY <1>3, SameCookies DEF IInv, CookieInv
<1>5. ClearRemoves' BY <1>3, SameCookies DEF IInv, ClearRemoves, IsCookie
<1>6. AnswersInv' BY <1>3 DEF IInv, AnswersInv, Fits, StaysOnOrigin
<1> QED BY <1>1, <1>2, <1>4, <1>5, <1>6 DEF IInv

LEMMA RedirectIInv == ASSUME IInv, NEW w \in Writers, Redirect(w) PROVE IInv'
<1> DEFINE l == sanitizeRedirect(job[w], ret[<<w, 1>>], ret[<<w, 2>>])
<1>1. <<w, 1>> \in Callers /\ <<w, 2>> \in Callers
    BY HandlersAssumption
<1>2. ret[<<w, 1>>] = Normalized(option) \/ changes # 0
    BY <1>1 DEF Redirect, Ready, NeedsFirst, Returned, IInv, BaseInv, ReturnsOption
<1>3. job[w].target.form # "other" => ret[<<w, 2>>] = Normalized(option) \/ changes # 0
    BY <1>1 DEF Redirect, Ready, NeedsSecond, Returned, IInv, BaseInv, ReturnsOption
<1>4. StaysOnOrigin(l, job[w].req)
    <2>1. CASE job[w].target.form = "path"
        BY <1>3, <2>1 DEF sanitizeRedirect, Location, StaysOnOrigin
    <2>2. CASE job[w].target.form = "absolute" /\ isCurrentOrigin(job[w].target, job[w].req)
        BY <2>2 DEF sanitizeRedirect, Location, StaysOnOrigin, isCurrentOrigin
    <2>3. CASE /\ job[w].target.form # "path"
               /\ ~(job[w].target.form = "absolute" /\ isCurrentOrigin(job[w].target, job[w].req))
        BY <1>2, <2>3 DEF sanitizeRedirect, Location, StaysOnOrigin
    <2> QED BY <2>1, <2>2, <2>3
<1>5. ".." \notin Range(l.segs)
    <2>1. job[w].target.segs \in Seq(Range(job[w].target.segs))
        BY JobsAssumption DEF Redirect, IInv
    <2>2. \A S : \A q \in Seq(S \ {".", ".."}) : ".." \notin Range(q)
        BY LenProperties, ElementOfSeq DEF Range
    <2>3. ".." \notin Range(Clean(job[w].target.segs)) BY <2>1, <2>2, CleanNoDots
    <2>4. ".." \notin Range(<<>>) BY DEF Range
    <2>5. l.segs = Clean(job[w].target.segs) \/ l.segs = <<>> BY DEF sanitizeRedirect, Location
    <2> HIDE DEF l
    <2> QED BY <2>3, <2>4, <2>5
<1> HIDE DEF l
<1> QED BY <1>4, <1>5, OtherIInv DEF Redirect, IsCookie, Fits, l

\* writeCookie keeps the invariant.
LEMMA WriteCookieIInv == ASSUME IInv, NEW w \in Writers, WriteCookie(w) PROVE IInv'
<1> DEFINE c == writeCookie(job[w], ret[<<w, 1>>], ret[<<w, 2>>])
<1>1. IsCookie(job[w]) /\ Ready(w) /\ Answer(w, c) /\ jar' = Received(c)
    BY DEF WriteCookie
<1> HIDE DEF c
<1>2. UNCHANGED <<vars, dev, job>> /\ last' = w /\ out' = [out EXCEPT ![w] = c]
    BY <1>1 DEF Answer
<1>3. BaseInv' BY <1>2, SameBase DEF IInv
<1>4. UNCHANGED <<option, changes, dev, job>> BY <1>2 DEF vars
<1>5. DOMAIN out' = Writers BY <1>2 DEF IInv
<1>6. AnswersInv' BY <1>1, <1>2, <1>4 DEF IInv, AnswersInv, Fits, StaysOnOrigin, IsCookie
<1>7. CASE changes # 0
    <2>1. CookieInv' /\ ClearRemoves' BY <1>4, <1>7 DEF CookieInv, ClearRemoves
    <2> QED BY <1>3, <1>4, <1>5, <1>6, <2>1 DEF IInv
<1>8. CASE changes = 0
    <2>1. c = Ideal(job[w])
        BY <1>1, <1>8, ReadyWrites, HandlersAssumption DEF IInv, c
    <2> DEFINE Held(id, v) == /\ IsCookie(job[v]) /\ Keeps(Ideal(job[v]))
                              /\ ~Deletes(Ideal(job[v])) /\ id = Id(Ideal(job[v]))
    <2>2. \A id \in jar : \E v \in Writers : Held(id, v)
        BY <1>8 DEF IInv, CookieInv
    <2>3. jar' = IF ~Keeps(c) THEN jar ELSE IF Deletes(c) THEN jar \ {Id(c)} ELSE jar \cup {Id(c)}
        BY <1>1 DEF Received, Id, Deletes
    <2>4. \A id \in jar' : \E v \in Writers : Held(id, v)
        BY <1>1, <2>1, <2>2, <2>3
    <2>5. \A v \in Writers : (out'[v] # None /\ IsCookie(job[v])) => out'[v] = Ideal(job[v])
        BY <1>2, <1>8, <2>1 DEF IInv, CookieInv
    <2>6. CookieInv'
        BY <1>4, <2>4, <2>5, SameCookies DEF CookieInv
    <2>7. ASSUME job[w].op = "clear",
                 \A v \in Writers :
                    (job[v].op = "set" \/ (job[v].op = "clear" /\ Lasts(job[v]))) =>
                        Undoes(job[w], job[v])
          PROVE  jar' = {}
        <3>1. \A id \in jar, v \in Writers : Held(id, v) =>
                id = Id(c) /\ Keeps(c) /\ ~Lasts(job[w])
            BY <2>1, <2>7, StaysLasts, UndoesSame DEF Undoes
        <3>2. ASSUME NEW id \in jar' PROVE FALSE
            <4>1. CASE id \in jar
                <5>1. id = Id(c) /\ Keeps(c) /\ ~Lasts(job[w]) BY <2>2, <3>1, <4>1
                <5>2. Deletes(c) BY <2>1, <2>7, <5>1, ClearDeletes
                <5> QED BY <2>3, <3>2, <5>1, <5>2
            <4>2. CASE id \notin jar
                <5>1. id = Id(c) /\ Keeps(c) /\ ~Deletes(c) BY <2>3, <3>2, <4>2
                <5>2. Lasts(job[w]) BY <2>1, <2>7, <5>1, ClearDeletes
                <5>3. Undoes(job[w], job[w]) BY <2>7, <5>2
                <5> QED BY <5>2, <5>3 DEF Undoes
            <4> QED BY <4>1, <4>2
        <3> QED BY <3>2
    <2>8. ClearRemoves'
        BY <1>2, <1>4, <2>7, SameCookies DEF ClearRemoves
    <2> QED BY <1>3, <1>4, <1>5, <1>6, <2>6, <2>8 DEF IInv
<1> QED BY <1>7, <1>8

LEMMA MakeUserIInv == ASSUME IInv, NEW w \in Writers, MakeUser(w) PROVE IInv'
<1> DEFINE j == job[w]
           given == (IF j.id = None THEN {} ELSE {"sub"}) \cup (IF j.scope = <<>> THEN {} ELSE {"scope"})
           claims == [n \in DOMAIN j.claims \cup given |->
                        IF n \notin given THEN j.claims[n] ELSE IF n = "sub" THEN j.id ELSE j.scope]
           u == NewIdentity(j.id, j.scope, j.claims, j.names)
           o == [new |-> u, zero |-> UnmarshalJSON(NoUser, MarshalJSON(u)),
                 into |-> UnmarshalJSON(u, j.other)]
<1>1. j.op = "user" /\ Answer(w, o) /\ UNCHANGED jar BY DEF MakeUser
<1>2. /\ \A n \in DOMAIN j.claims : IsValue(j.claims[n])
      /\ IsValue(j.scope) /\ (j.id # None => IsValue(j.id))
      /\ j.names \in Seq(Range(j.names))
    BY <1>1, JobsAssumption DEF IInv
<1>3. \A n \in DOMAIN claims : IsValue(claims[n]) BY <1>2
<1>4. u = New(claims, j.names) BY DEF NewIdentity
<1>5. OfItsClaims(u)
    <2> HIDE DEF claims, u
    <2> QED BY <1>2, <1>3, <1>4, NewOfItsClaims
<1>6. DOMAIN o.zero.scopes = {} BY ZeroHasNone
<1>7. Fits(j, o)
    <2>1. o.new = u OBVIOUS
    <2> HIDE DEF o, u
    <2> QED BY <1>1, <1>5, <1>6, <2>1 DEF Fits
<1> HIDE DEF o
<1> QED BY <1>1, <1>7, OtherIInv DEF IsCookie

LEMMA ReadDataIInv == ASSUME IInv, NEW w \in Writers, ReadData(w) PROVE IInv'
<1> DEFINE j == job[w]
           r == Read(j)
           e == [error |-> r.error, wrapped |-> j.wrapped, marshals |-> j.marshals]
           o == [value |-> r.value, error |-> r.error,
                 status |-> IF r.error = None THEN 200 ELSE Data!StatusCode(e),
                 media |-> IF r.error = None THEN None ELSE Data!ErrorBody(e, j.ct, j.accept)]
<1>1. j.op = "read" /\ Answer(w, o) /\ UNCHANGED jar BY DEF ReadData
<1>2. j.accept \in Seq(Range(j.accept)) BY <1>1, JobsAssumption DEF IInv
<1>3. IsResult(r) BY ReadResult
<1>4. o.error # None => FitsClient(j, o)
    <2> SUFFICES ASSUME o.error # None PROVE FitsClient(j, o)
        OBVIOUS
    <2>1. /\ o.error = r.error /\ r.error # None /\ o.status = Data!StatusCode(e)
          /\ o.media = Data!ErrorBody(e, j.ct, j.accept)
        OBVIOUS
    <2>2. e = [error |-> r.error, wrapped |-> j.wrapped, marshals |-> j.marshals] OBVIOUS
    <2> HIDE DEF r, e, o
    <2> QED BY <1>2, <1>3, <2>1, <2>2, RefusalFits
<1> HIDE DEF o
<1>5. Fits(j, o) BY <1>1, <1>4 DEF Fits
<1> QED BY <1>1, <1>5, OtherIInv DEF IsCookie

LEMMA ReadPagingIInv == ASSUME IInv, NEW w \in Writers, ReadPaging(w) PROVE IInv'
<1> DEFINE j == job[w]
           stored == IF j.sets = <<>> THEN None ELSE Data!SetMaxPageSize(Last(j.sets), j.conf)
           o == Data!Paging(j.data, stored, j.conf)
<1>1. j.op = "page" /\ Answer(w, o) /\ UNCHANGED jar BY DEF ReadPaging
<1>2. j.conf.size \in Nat \ {0} /\ j.conf.max \in Nat \ {0} /\ j.sets \in Seq(Int)
    BY <1>1, JobsAssumption DEF IInv
<1>3. FitsLimit(j, o) BY <1>2, PagingFits
<1> HIDE DEF o
<1>4. Fits(j, o) BY <1>1, <1>3 DEF Fits
<1> QED BY <1>1, <1>4, OtherIInv DEF IsCookie

LEMMA CallBasePathIInv == ASSUME IInv, NEW w \in Writers, CallBasePath(w) PROVE IInv'
<1>1. <<w, 1>> \in Callers /\ <<w, 2>> \in Callers BY HandlersAssumption
<1>2. PICK p \in Callers : Call(p) BY <1>1 DEF CallBasePath
<1>3. BaseInv' BY <1>2, CallBase DEF IInv
<1>4. UNCHANGED <<option, changes>>
    BY <1>2 DEF Call, Begin, Cached, Uncached, Lock, Locked, Assign, Leading, Trailing, Unlock,
        RLockAgain, Return
<1> QED BY <1>3, <1>4, SameInv DEF CallBasePath

LEMMA NextIInv == IInv /\ [HandlersNext]_<<vars, handlers>> => IInv'
<1> SUFFICES ASSUME IInv, [HandlersNext]_<<vars, handlers>> PROVE IInv'
    OBVIOUS
<1>1. ASSUME NEW w \in Writers, CallBasePath(w) PROVE IInv' BY <1>1, CallBasePathIInv
<1>2. ASSUME NEW w \in Writers, WriteCookie(w) PROVE IInv' BY <1>2, WriteCookieIInv
<1>3. ASSUME NEW w \in Writers, Redirect(w) PROVE IInv' BY <1>3, RedirectIInv
<1>4. ASSUME NEW w \in Writers, MakeUser(w) PROVE IInv' BY <1>4, MakeUserIInv
<1>5. ASSUME NEW w \in Writers, ReadData(w) PROVE IInv' BY <1>5, ReadDataIInv
<1>6. ASSUME NEW w \in Writers, ReadPaging(w) PROVE IInv' BY <1>6, ReadPagingIInv
<1>7. ASSUME NEW s \in Raws, SetOption(s), UNCHANGED handlers PROVE IInv' BY <1>7, SetOptionIInv
<1>8. CASE UNCHANGED <<vars, handlers>>
    <2>1. BaseInv' BY <1>8, SameBase DEF IInv
    <2> QED BY <1>8, <2>1, SameInv DEF vars
<1> QED BY <1>1, <1>2, <1>3, <1>4, <1>5, <1>6, <1>7, <1>8 DEF HandlersNext, HandlersFinished
-----------------------------------------------------------------------------
(* The theorems                                                            *)

\* The invariant holds in every reachable state.
THEOREM Invariance == HandlersSpec => []IInv
<1>1. HandlersInit => IInv BY InitIInv
<1>2. IInv /\ [HandlersNext]_<<vars, handlers>> => IInv' BY NextIInv
<1> QED BY <1>1, <1>2, PTL DEF HandlersSpec

\* mux.BasePath returns a normalized value of the option, however many calls
\* race to fill its cache.
THEOREM BasePathNormalized == HandlersSpec => []ReturnsOption
<1>1. IInv => ReturnsOption BY DEF IInv, BaseInv
<1> QED BY <1>1, Invariance, PTL

\* A cookie of CookieDefaultSecurity cannot be downgraded by other options, nor
\* by a race between the two calls of BasePath in writeCookie.
THEOREM DefaultSecurityKept == HandlersSpec => []DefaultSecurityHolds
<1>1. IInv => DefaultSecurityHolds
    <2> SUFFICES ASSUME IInv, NEW w \in Writers, out[w] # None, IsCookie(job[w]),
                        DefaultSecurity(job[w]), changes = 0
                 PROVE  /\ Keeps(out[w]) /\ out[w].httpOnly /\ out[w].domain = None
                        /\ Secure(job[w]) => out[w].prefix # "" /\ out[w].secure
                        /\ out[w].path = NonEmpty(Normalized(option))
        BY DEF DefaultSecurityHolds, NonEmpty
    <2> DEFINE c == out[w]
               base == Normalized(option)
    <2>1. c = Ideal(job[w]) BY DEF IInv, CookieInv
    <2>2. /\ c.domain = None /\ c.path = NonEmpty(base) /\ c.httpOnly
          /\ c.prefix = Prefix(job[w], base)
          /\ Secure(job[w]) => c.secure
        BY <2>1, DefaultShape
    <2> HIDE DEF c, base
    <2>4. c.prefix # "" => Secure(job[w]) BY <2>2 DEF Prefix
    <2>5. Secure(job[w]) => c.prefix # "" BY <2>2 DEF Prefix
    <2>6. c.prefix = "__Host-" => c.path = <<Slash>> BY <2>2 DEF Prefix, NonEmpty
    <2> QED BY <2>2, <2>4, <2>5, <2>6 DEF Keeps, c, base
<1> QED BY <1>1, Invariance, PTL

\* Clear removes the cookie that a Set with the same options left, whatever
\* other handlers wrote meanwhile.
THEOREM ClearLeavesNone == HandlersSpec => []ClearRemoves
<1>1. IInv => ClearRemoves BY DEF IInv
<1> QED BY <1>1, Invariance, PTL

\* sanitizeRedirect keeps to the origin of the request, and path.Clean leaves no
\* dots that would lead out of the base path, for every target and its segments.
THEOREM RedirectsHome == HandlersSpec => []RedirectStaysHome
<1>1. IInv => RedirectStaysHome BY DEF IInv, AnswersInv, Fits, RedirectStaysHome, IsCookie
<1> QED BY <1>1, Invariance, PTL

\* New of user/basic.go gives a user the scopes of its claims and no others,
\* for any claims.
THEOREM ScopesOfClaims == HandlersSpec => []ScopesAreGranted
<1>1. IInv => ScopesAreGranted BY DEF IInv, AnswersInv, Fits, ScopesAreGranted, IsCookie
<1> QED BY <1>1, Invariance, PTL

\* HandleError answers an error of any getter with a status and a type of body
\* that fit the client, for every Accept header.
THEOREM RefusalFitting == HandlersSpec => []RefusalFitsClient
<1>1. IInv => RefusalFitsClient BY DEF IInv, AnswersInv, Fits, RefusalFitsClient, IsCookie
<1> QED BY <1>1, Invariance, PTL

\* Context.Paging keeps a page within the limits, for every int.
THEOREM PageInLimit == HandlersSpec => []PageWithinLimit
<1>1. IInv => PageWithinLimit BY DEF IInv, AnswersInv, Fits, PageWithinLimit, IsCookie
<1> QED BY <1>1, Invariance, PTL
=============================================================================
