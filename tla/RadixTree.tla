------------------------------ MODULE RadixTree -----------------------------
(***************************************************************************)
(* The router's radix tree (internal/radix): Add, Get and                  *)
(* FindCaseInsensitivePath on nodes that are split and extended as routes  *)
(* are registered.                                                         *)
(*                                                                         *)
(* A path is a sequence of tokens: characters, "/" among them, and in a    *)
(* route also Params (a whole "{name}") and Wilds (a whole "{name:*}").    *)
(* Params with a regular expression and several params in one segment are  *)
(* left out.                                                               *)
(***************************************************************************)
EXTENDS Naturals, Sequences, FiniteSets, SequencesExt

CONSTANTS
    Params, Wilds,  \* tokens "{name}" and "{name:*}"
    Fold            \* the case folding of strings.EqualFold, per character

NoHandler == 0
Slash == "/"

\* What a node holds.  wildcard.path is the token of a wildcard handler.
NewNode(path) ==
    [nType |-> "static", path |-> path, tsr |-> FALSE, handler |-> NoHandler,
     children |-> <<>>, wildcard |-> [path |-> "", handler |-> NoHandler]]

NoWildcard == NewNode(<<>>).wildcard
HasWildcard(n) == n.wildcard.handler # NoHandler

IsWildToken(t) == t \in Params \cup Wilds

Take(s, i) == SubSeq(s, 1, i)
Drop(s, i) == SubSeq(s, i + 1, Len(s))
First(S)   == CHOOSE i \in S : \A j \in S : i <= j
-----------------------------------------------------------------------------
(* utils.go                                                                *)

\* longestCommonPrefix.  Two different wild tokens share their "{".
CommonPrefix(a, b) ==
    IF a = <<>> \/ b = <<>> THEN 0
    ELSE IF IsWildToken(a[1]) /\ IsWildToken(b[1]) THEN 1
    ELSE Len(LongestCommonPrefix({a, b}))

\* segmentEndIndex: where the first segment ends, a last "/" included on demand.
SegmentEnd(path, includeTSR) ==
    LET slashes == {i \in 1..Len(path) : path[i] = Slash}
        end == IF slashes = {} THEN Len(path)
               ELSE First(slashes) - 1
    IN  IF includeTSR /\ Drop(path, end) = <<Slash>> THEN end + 1 ELSE end

\* findWildPath: how many tokens precede the first wild one.
WildStart(path) ==
    LET wild == {i \in 1..Len(path) : IsWildToken(path[i])}
    IN  IF wild = {} THEN Len(path)
        ELSE First(wild) - 1

HasWild(path) == WildStart(path) < Len(path)

\* wp.end of a wild token at the start of the path: a last "/" is included.
WildEnd(path) == IF Len(path) = 2 /\ path[2] = Slash THEN 2 ELSE 1
-----------------------------------------------------------------------------
(* node.go: building the tree.  Every operator returns the new node and    *)
(* the error.                                                              *)

Ok(n)      == [node |-> n, err |-> "none"]
Fail(n, e) == [node |-> n, err |-> e]

\* The tsr child setHandler and insert add below a node.
TSRNode == [NewNode(<<Slash>>) EXCEPT !.tsr = TRUE]

\* A mutated split that leaves the handler on the shortened node as well.
SplitKeepHandler(n, i) ==
    [n EXCEPT !.path = Take(n.path, i), !.tsr = FALSE,
              !.wildcard = NoWildcard,
              !.children = <<[n EXCEPT !.nType = "static", !.path = Drop(n.path, i)]>>]

\* split at i: the clone keeps everything below, n keeps its type.
Split(n, i) ==
    [n EXCEPT !.path = Take(n.path, i), !.handler = NoHandler, !.tsr = FALSE,
              !.wildcard = NoWildcard,
              !.children = <<[n EXCEPT !.nType = "static", !.path = Drop(n.path, i)]>>]

\* The node has a handler already: the error errSetHandler, and the node as
\* Tree.Add updates it when the tree is mutable.  A redirect stays as it is.
Duplicate(n, h) ==
    IF n.tsr THEN Fail(n, "redirect") ELSE Fail([n EXCEPT !.handler = h], "duplicate")

\* A mutated setHandler that gives a redirect node a handler of its own.
SetHandlerOverTSR(n, h) ==
    IF n.handler # NoHandler THEN Duplicate(n, h)
    ELSE LET slash == {i \in 1..Len(n.children) : n.children[i].path = <<Slash>>}
         IN  Ok([n EXCEPT
                  !.handler = h,
                  !.children =
                    IF slash # {}
                    THEN [@ EXCEPT ![First(slash)].tsr = TRUE]
                    ELSE IF n.path # <<Slash>> THEN Append(@, TSRNode) ELSE @])

\* setHandler: refuse a taken node, else make its "/" child a redirect to it.
SetHandler(n, h) ==
    IF n.handler # NoHandler \/ n.tsr THEN Duplicate(n, h)
    ELSE LET slash == {i \in 1..Len(n.children) : n.children[i].path = <<Slash>>}
         IN  Ok([n EXCEPT
                  !.handler = h,
                  !.children =
                    IF slash # {}
                    THEN [@ EXCEPT ![First(slash)].tsr = TRUE]
                    ELSE IF n.path # <<Slash>> THEN Append(@, TSRNode) ELSE @])

WithChild(n, c) == [n EXCEPT !.children = Append(@, c)]
WithChildAt(n, i, c) == [n EXCEPT !.children[i] = c]

\* A wildcard handler below n (insert, case wildcard).
SetWildcard(n, path, h) ==
    IF n.wildcard.handler = NoHandler
    THEN Ok([n EXCEPT !.wildcard = [path |-> path[1], handler |-> h]])
    ELSE IF <<n.wildcard.path>> # path THEN Fail(n, "wildcard conflict")
    ELSE IF n.tsr THEN Fail(n, "redirect")
    ELSE Fail([n EXCEPT !.wildcard.handler = h], "duplicate")

InsertWildcard(n, path, h) ==
    LET end == SegmentEnd(path, TRUE)
    IN  IF Len(path) # end THEN Fail(n, "wildcard not at end")
        ELSE IF Last(n.path) # Slash THEN Fail(n, "no slash before wildcard")
        ELSE IF n.path = <<Slash>> THEN SetWildcard(n, path, h)
        ELSE LET m == [Split(n, Len(n.path) - 1) EXCEPT !.tsr = TRUE]
                 r == SetWildcard(m.children[1], path, h)
             IN  [r EXCEPT !.node = WithChildAt(m, 1, r.node)]

\* The end of insert: the new child gets the handler, and with it the
\* redirect from the path with, or without, the trailing slash.
InsertLeaf(n, child, h) ==
    LET c == [child EXCEPT !.handler = h]
    IN  IF c.path = <<Slash>> THEN Ok([WithChild(n, c) EXCEPT !.tsr = TRUE])
        ELSE IF Last(c.path) = Slash
        THEN Ok(WithChild(n, [Split(c, Len(c.path) - 1) EXCEPT !.tsr = TRUE]))
        ELSE Ok(WithChild(n, WithChild(c, TSRNode)))

\* insert: nothing below n shares a prefix with the path.
RECURSIVE Insert(_, _, _)
Insert(n, path, h) ==
    LET start == WildStart(path)
        Below(child, rest) ==
            LET r == Insert(child, rest, h)
            IN  [r EXCEPT !.node = WithChild(n, r.node)]
    IN  IF ~HasWild(path) THEN InsertLeaf(n, NewNode(path), h)
        ELSE IF start > 0
        THEN Below(NewNode(Take(path, start)), Drop(path, start))
        ELSE IF path[1] \in Wilds THEN InsertWildcard(n, path, h)
        ELSE LET end   == SegmentEnd(path, TRUE)
                 child == [NewNode(Take(path, end)) EXCEPT !.nType = "param"]
             IN  IF Len(path) > WildEnd(path)
                 THEN Below(child, Drop(path, WildEnd(path)))
                 ELSE InsertLeaf(n, child, h)

\* add: descend into the first child that shares a prefix with the path.
RECURSIVE AddTo(_, _, _)
AddTo(n, path, h) ==
    IF path = <<>> THEN SetHandler(n, h)
    ELSE LET shares == {i \in 1..Len(n.children) : CommonPrefix(path, n.children[i].path) > 0}
         IN  IF shares = {} THEN Insert(n, path, h)
             ELSE LET k == First(shares)
                      c == n.children[k]
                      i == CommonPrefix(path, c.path)
                      In(r, m) == [r EXCEPT !.node = WithChildAt(m, k, r.node)]
                      \* line 302: a path that is just "/" makes n a redirect
                      Here(d) == In(SetHandler(d, h),
                                    IF path = <<Slash>> THEN [n EXCEPT !.tsr = TRUE] ELSE n)
                  IN  IF c.nType = "static"
                      THEN LET d == IF Len(c.path) > i THEN Split(c, i) ELSE c
                           IN  IF Len(path) > i THEN In(AddTo(d, Drop(path, i), h), n)
                               ELSE Here(d)
                      ELSE LET same == path[1] = c.path[1]
                           IN  IF Len(path) = WildEnd(path) /\ path[1] \in Params
                                  /\ c.handler # NoHandler
                               THEN IF path = c.path THEN In(Duplicate(c, h), n)
                                    ELSE Fail(n, "wild path conflict")
                               ELSE IF same /\ Len(path) > 1
                               THEN In(AddTo(c, Drop(path, 1), h), n)
                               ELSE IF ~same THEN Insert(n, path, h)
                               ELSE Here(c)

\* A mutated sort that leaves the children in the order they were added.
SortNodeUnsorted(n) == n

\* sort: by type, then by the number of children; Go's sort.Sort is an
\* insertion sort, hence stable, for the few children a node has.
RECURSIVE SortNode(_)
SortNode(n) ==
    LET kids == [i \in DOMAIN n.children |-> SortNode(n.children[i])]
        Rank(c) == IF c.nType = "static" THEN 0 ELSE 1
        Before(i, j) ==
            \/ Rank(kids[i]) < Rank(kids[j])
            \/ /\ Rank(kids[i]) = Rank(kids[j])
               /\ \/ Len(kids[i].children) > Len(kids[j].children)
                  \/ Len(kids[i].children) = Len(kids[j].children) /\ i < j
        order == SetToSortSeq(DOMAIN kids, Before)
    IN  [n EXCEPT !.children = [i \in DOMAIN kids |-> kids[order[i]]]]

\* The end of Tree.Add: an empty root is left out and the tree sorted; a
\* duplicate is an update when the tree is mutable.
Added(r, mutable) ==
    IF r.err = "none"
    THEN Ok(SortNode(IF r.node.path = <<>>
                     THEN [r.node.children[1] EXCEPT !.nType = "root"] ELSE r.node))
    ELSE IF r.err = "duplicate" /\ mutable THEN Ok(r.node)
    ELSE r

\* Tree.Add.
TreeAdd(root, path, h, mutable) ==
    LET i == CommonPrefix(path, root.path)
    IN  Added(AddTo(IF i > 0 /\ Len(root.path) > i THEN Split(root, i) ELSE root,
                    Drop(path, i), h), mutable)

\* New.
EmptyTree == [NewNode(<<>>) EXCEPT !.nType = "root"]
-----------------------------------------------------------------------------
(* Looking a path up.                                                      *)

Miss         == [h |-> NoHandler, tsr |-> FALSE, params |-> {}]
Redirect     == [Miss EXCEPT !.tsr = TRUE]
Hit(h, ps)   == [h |-> h, tsr |-> FALSE, params |-> ps]
Answers(g)   == g.h # NoHandler \/ g.tsr
StartsWith(path, p) == Len(path) > Len(p) /\ Take(path, Len(p)) = p

\* A path that ends at node n (getFromChild 344-356, Tree.Get 84-97).
AtNode(n) ==
    IF n.tsr THEN Redirect
    ELSE IF n.handler # NoHandler THEN Hit(n.handler, {})
    ELSE IF HasWildcard(n) THEN Hit(n.wildcard.handler, {<<n.wildcard.path, <<>>>>})
    ELSE Miss

\* A mutated getFromChild that never tries another child after it has
\* descended into a static one.
RECURSIVE GetFromNoBacktrack(_, _, _)
GetFromNoBacktrack(n, k, path) ==
    IF k > Len(n.children)
    THEN IF HasWildcard(n)
         THEN Hit(n.wildcard.handler, {<<n.wildcard.path, path>>}) ELSE Miss
    ELSE LET c   == n.children[k]
             end == SegmentEnd(path, FALSE)
         IN  IF c.nType = "static"
             THEN IF path = c.path THEN AtNode(c)
                  ELSE IF StartsWith(path, c.path)
                  THEN GetFromNoBacktrack(c, 1, Drop(path, Len(c.path)))
                  ELSE GetFromNoBacktrack(n, k + 1, path)
             ELSE IF Len(path) > end THEN GetFromNoBacktrack(c, 1, Drop(path, end))
             ELSE IF c.tsr THEN Redirect
             ELSE Hit(c.handler, {<<c.path[1], Take(path, end)>>})

\* getFromChild: the children in order, then n's wildcard.  A static child
\* whose path is the whole rest decides, whether it has a handler or not.
RECURSIVE GetFrom(_, _, _)
GetFrom(n, k, path) ==
    IF k > Len(n.children)
    THEN IF HasWildcard(n)
         THEN Hit(n.wildcard.handler, {<<n.wildcard.path, path>>}) ELSE Miss
    ELSE LET c   == n.children[k]
             end == SegmentEnd(path, FALSE)
             arg == {<<c.path[1], Take(path, end)>>}
         IN  IF c.nType = "static"
             THEN IF path = c.path THEN AtNode(c)
                  ELSE LET g == IF StartsWith(path, c.path)
                                THEN GetFrom(c, 1, Drop(path, Len(c.path))) ELSE Miss
                       IN  IF Answers(g) THEN g ELSE GetFrom(n, k + 1, path)
             ELSE IF Len(path) > end
             THEN LET g == GetFrom(c, 1, Drop(path, end))
                  IN  IF g.tsr THEN Redirect
                      ELSE IF g.h # NoHandler THEN Hit(g.h, g.params \cup arg)
                      ELSE GetFrom(n, k + 1, path)
             ELSE IF c.tsr THEN Redirect
             ELSE IF c.handler # NoHandler THEN Hit(c.handler, arg)
             ELSE GetFrom(n, k + 1, path)

\* Tree.Get.
Get(root, path) ==
    IF path = root.path THEN AtNode(root)
    ELSE IF StartsWith(path, root.path) THEN GetFrom(root, 1, Drop(path, Len(root.path)))
    ELSE Miss

EqualFold(a, b) ==
    Len(a) = Len(b) /\ \A i \in DOMAIN a : Fold[a[i]] = Fold[b[i]]

\* What find and findFromChild leave in the buffer.
NotFound    == [found |-> FALSE, tsr |-> FALSE, buf |-> <<>>]
Found(buf)  == [found |-> TRUE, tsr |-> FALSE, buf |-> buf]
Fixed(buf)  == [found |-> TRUE, tsr |-> TRUE, buf |-> buf]
Under(p, f) == IF f.found THEN [f EXCEPT !.buf = p \o @] ELSE f

\* find on the node c and findFromChild on its children from the k-th on.
RECURSIVE FindFrom(_, _, _)
FindNode(c, path) ==
    IF Len(path) > Len(c.path)
    THEN IF EqualFold(Take(path, Len(c.path)), c.path)
         THEN Under(c.path, FindFrom(c, 1, Drop(path, Len(c.path)))) ELSE NotFound
    ELSE IF ~EqualFold(path, c.path) THEN NotFound
    ELSE IF c.tsr THEN Fixed(IF c.path = <<Slash>> THEN <<>> ELSE Append(c.path, Slash))
    ELSE IF c.handler # NoHandler THEN Found(c.path)
    ELSE NotFound

FindFrom(n, k, path) ==
    IF k > Len(n.children)
    THEN IF HasWildcard(n) THEN Found(path) ELSE NotFound
    ELSE LET c   == n.children[k]
             end == SegmentEnd(path, FALSE)
             seg == Take(path, end)
             f   == IF c.nType = "static" THEN FindNode(c, path)
                    ELSE IF Len(path) > end
                    THEN Under(seg, FindFrom(c, 1, Drop(path, end)))
                    ELSE IF c.tsr THEN Fixed(Append(seg, Slash))
                    ELSE IF c.handler # NoHandler THEN Found(seg)
                    ELSE NotFound
         IN  IF f.found THEN f ELSE FindFrom(n, k + 1, path)

\* A mutated lookup that fixes the trailing slash unasked.
FindCaseInsensitivePathAlways(root, path, fixTrailingSlash) == FindNode(root, path)

\* FindCaseInsensitivePath.
FindCaseInsensitivePath(root, path, fixTrailingSlash) ==
    LET f == FindNode(root, path)
    IN  IF f.tsr /\ ~fixTrailingSlash THEN NotFound ELSE f
-----------------------------------------------------------------------------
(* Reference: which paths a route stands for, and with which values.       *)

RECURSIVE Match(_, _)
Match(route, path) ==
    IF route = <<>> THEN IF path = <<>> THEN {{}} ELSE {}
    ELSE IF route[1] \in Wilds THEN {{<<route[1], path>>}}
    ELSE IF path = <<>> THEN {}
    ELSE IF route[1] \in Params
    THEN LET end == SegmentEnd(path, FALSE)
         IN  {b \cup {<<route[1], Take(path, end)>>} :
                  b \in Match(Tail(route), Drop(path, end))}
    ELSE IF route[1] = path[1] THEN Match(Tail(route), Tail(path))
    ELSE {}

Static(route) == ~HasWild(route)

\* The path with, or without, its trailing slash.
Toggle(path) ==
    IF Len(path) > 1 /\ Last(path) = Slash THEN Front(path) ELSE Append(path, Slash)
=============================================================================
