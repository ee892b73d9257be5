----------------------------- MODULE HttpProofs -----------------------------
(***************************************************************************)
(* The HTTP server, proved for every set of connections, paths, headers    *)
(* and statuses, and for every number of requests and frames: the reply    *)
(* that announces the end of a connection is the last, and requests that   *)
(* are read one by one are answered in their order, each by what it asked  *)
(* for and by nothing that an earlier one left behind.                     *)
(***************************************************************************)
EXTENDS Http, SequenceTheorems, WellFoundedInduction, TLAPS

-----------------------------------------------------------------------------
(* parse folds Feed over the parts of a read *)

\* A set of numbers has a least element: induction, as a fact about sets.
LEMMA LeastNat ==
    ASSUME NEW T, T \subseteq Nat, T # {}
    PROVE  \E x \in T : \A y \in T : x <= y
<1>1. PICK x \in T : \A y \in T : ~ (<<y, x>> \in OpToRel(<, Nat))
  BY NatLessThanWellFounded, WFMin
<1>2. \A y \in T : y \in Nat /\ x \in Nat /\ ~ (y < x)
  BY <1>1 DEF OpToRel
<1> QED
  BY <1>2

\* Max of places in a sequence is one of them.
LEMMA MaxIsThere ==
    ASSUME NEW n \in Nat, NEW s, s \subseteq 1 .. n, s # {}
    PROVE  Max(s) \in s /\ \A y \in s : Max(s) >= y
<1> DEFINE U == {u \in Nat : \A y \in s : y <= u}
<1>1. n \in U /\ U \subseteq Nat
  OBVIOUS
<1>2. PICK u \in U : \A v \in U : u <= v
  BY <1>1, LeastNat
<1>3. u \in s
  <2> SUFFICES ASSUME u \notin s PROVE FALSE
    OBVIOUS
  <2>1. u \in Nat /\ \A y \in s : y \in 1 .. n /\ y <= u /\ y # u
    BY <1>2
  <2>2. PICK z \in s : TRUE
    OBVIOUS
  <2>3. u - 1 \in Nat /\ \A y \in s : y <= u - 1
    BY <2>1, <2>2
  <2>4. u - 1 \in U
    BY <2>3
  <2>5. u <= u - 1
    BY <1>2, <2>4
  <2> QED
    BY <2>1, <2>5
<1>4. \E x \in s : \A y \in s : x >= y
  <2>1. \A y \in s : u >= y
    BY <1>2
  <2> QED
    BY <1>3, <2>1
<1> QED
  BY <1>4 DEF Max

\* One turn of the fold: what the parts in s make of b.
FoldTurn(f, s, b, ps) ==
    IF s = {} THEN b ELSE Feed(f[s \ {Max(s)}], ps[Max(s)])
Folds(f, n, b, ps) == f = [s \in SUBSET (1 .. n) |-> FoldTurn(f, s, b, ps)]

\* The recursion of FoldLeft has a solution.
LEMMA FoldExists ==
    ASSUME NEW b, NEW ps, NEW N \in Nat
    PROVE  \E f : Folds(f, N, b, ps)
<1> DEFINE Bad == {n \in Nat : ~ \E f : Folds(f, n, b, ps)}
<1> SUFFICES Bad = {}
  OBVIOUS
<1>1. Bad \subseteq Nat
  OBVIOUS
<1> SUFFICES ASSUME Bad # {} PROVE FALSE
  OBVIOUS
<1>2. PICK n \in Bad : \A m \in Bad : n <= m
  BY <1>1, LeastNat
<1>3. CASE n = 0
  <2> DEFINE f == [s \in SUBSET (1 .. 0) |-> b]
  <2>1. \A s \in SUBSET (1 .. 0) : s = {}
    OBVIOUS
  <2>2. Folds(f, 0, b, ps)
    BY <2>1 DEF Folds, FoldTurn
  <2> QED
    BY <2>2, <1>3
<1>4. CASE n # 0
  <2> DEFINE m == n - 1
  <2>1. m \in Nat /\ n = m + 1 /\ n \in Nat /\ m \notin Bad
    BY <1>2, <1>4
  <2>2. PICK g : Folds(g, m, b, ps)
    BY <2>1
  <2> DEFINE f == [s \in SUBSET (1 .. n) |->
                     IF n \in s THEN Feed(g[s \ {n}], ps[n]) ELSE g[s]]
  <2> HIDE DEF m
  <2>3. ASSUME NEW s \in SUBSET (1 .. n) PROVE f[s] = FoldTurn(f, s, b, ps)
    <3>1. CASE n \in s
      <4>1. s \ {n} \in SUBSET (1 .. m) /\ s \ {n} \in SUBSET (1 .. n) /\ n \notin s \ {n}
        BY <2>1
      <4>2. f[s \ {n}] = g[s \ {n}]
        BY <4>1
      <4>3. Max(s) = n
        <5>1. Max(s) \in s /\ \A y \in s : Max(s) >= y
          BY <2>1, <3>1, MaxIsThere
        <5>2. Max(s) \in 1 .. n /\ Max(s) >= n
          BY <3>1, <5>1
        <5> QED
          BY <5>2, <2>1
      <4> QED
        BY <3>1, <4>2, <4>3 DEF FoldTurn
    <3>2. CASE n \notin s
      <4>1. s \in SUBSET (1 .. m)
        BY <2>1, <3>2
      <4>2. f[s] = g[s] /\ g[s] = FoldTurn(g, s, b, ps)
        BY <2>2, <3>2, <4>1 DEF Folds
      <4>3. CASE s = {}
        BY <4>2, <4>3 DEF FoldTurn
      <4>4. CASE s # {}
        <5>1. s \ {Max(s)} \in SUBSET (1 .. n) /\ n \notin s \ {Max(s)}
          BY <3>2
        <5>2. f[s \ {Max(s)}] = g[s \ {Max(s)}]
          BY <5>1
        <5> QED
          BY <4>2, <4>4, <5>2 DEF FoldTurn
      <4> QED
        BY <4>3, <4>4
    <3> QED
      BY <3>1, <3>2
  <2>4. DOMAIN f = SUBSET (1 .. n) /\ f = [s \in SUBSET (1 .. n) |-> f[s]]
    OBVIOUS
  <2> HIDE DEF f
  <2>5. Folds(f, n, b, ps)
    BY <2>3, <2>4 DEF Folds
  <2> QED
    BY <2>5
<1> QED
  BY <1>3, <1>4

Fed(b, ps) == FoldLeft(Feed, b, ps)

\* So the fold feeds the parts one by one: h[i] is the Ctx after i of them.
LEMMA FeedInTurn ==
    ASSUME NEW b, NEW T, NEW ps \in Seq(T)
    PROVE  \E h : /\ h[0] = b
                  /\ \A i \in 1 .. Len(ps) : h[i] = Feed(h[i - 1], ps[i])
                  /\ Fed(b, ps) = h[Len(ps)]
<1> DEFINE N == Len(ps)
           f == CHOOSE g : Folds(g, N, b, ps)
           h == [i \in 0 .. N |-> f[1 .. i]]
<1>1. N \in Nat /\ DOMAIN ps = 1 .. N
  OBVIOUS
<1>2. Folds(f, N, b, ps)
  BY <1>1, FoldExists
<1>3. Fed(b, ps) = f[1 .. N]
  <2>1. Fed(b, ps) =
          (CHOOSE g : g = [s \in SUBSET (DOMAIN ps) |->
                             IF s = {} THEN b ELSE Feed(g[s \ {Max(s)}], ps[Max(s)])])[DOMAIN ps]
    BY DEF Fed, FoldLeft, MapThenFoldSet
  <2> QED
    BY <2>1, <1>1 DEF Folds, FoldTurn
<1> HIDE DEF f
<1>4. h[0] = b
  <2>1. 1 .. 0 = {} /\ 1 .. 0 \in SUBSET (1 .. N)
    OBVIOUS
  <2>2. f[1 .. 0] = b
    BY <1>2, <2>1 DEF Folds, FoldTurn
  <2> QED
    BY <2>2, <1>1
<1>5. ASSUME NEW i \in 1 .. N PROVE h[i] = Feed(h[i - 1], ps[i])
  <2>1. /\ i \in Nat /\ i \in 1 .. i /\ i \in 0 .. N /\ i - 1 \in 0 .. N
        /\ 1 .. i \subseteq 1 .. N /\ 1 .. i # {} /\ (1 .. i) \ {i} = 1 .. (i - 1)
    <3>1. i \in Nat /\ i \in 1 .. i /\ i \in 0 .. N /\ i - 1 \in 0 .. N
      BY <1>1
    <3>2. 1 .. i \subseteq 1 .. N
      BY <1>1
    <3>3. \A k : k \in (1 .. i) \ {i} <=> k \in 1 .. (i - 1)
      BY <3>1
    <3> QED
      BY <3>1, <3>2, <3>3
  <2>2. Max(1 .. i) = i
    <3>1. Max(1 .. i) \in 1 .. i /\ \A y \in 1 .. i : Max(1 .. i) >= y
      BY <2>1, MaxIsThere
    <3>2. Max(1 .. i) >= i
      BY <2>1, <3>1
    <3> QED
      BY <2>1, <3>1, <3>2
  <2>3. f[1 .. i] = FoldTurn(f, 1 .. i, b, ps)
    BY <1>2, <2>1 DEF Folds
  <2>4. f[1 .. i] = Feed(f[1 .. (i - 1)], ps[i])
    BY <2>1, <2>2, <2>3 DEF FoldTurn
  <2> QED
    BY <2>1, <2>4
<1>6. Fed(b, ps) = h[Len(ps)]
  BY <1>1, <1>3
<1> HIDE DEF h
<1> QED
  BY <1>4, <1>5, <1>6

-----------------------------------------------------------------------------
(* What parse makes of a Ctx *)

Part == [k : {"line", "headers", "body"}, r : Request] \cup {Frame}

\* A part leaves a Ctx, and its status.
LEMMA FeedType ==
    ASSUME NEW x \in Ctx, NEW p \in Part
    PROVE  Feed(x, p) \in Ctx /\ Feed(x, p).status = x.status
<1>1. CASE p = Frame
  BY <1>1 DEF Feed, Frame, Ctx
<1>2. CASE p \in [k : {"line", "headers", "body"}, r : Request]
  <2>1. /\ p.k \in {"line", "headers", "body"} /\ p.r.path \in Paths
        /\ p.r.method \in Methods /\ p.r.headers \subseteq Header /\ p.r.keep \in BOOLEAN
    BY <1>2, HttpConstants DEF Request
  <2>2. CASE x.stop \/ x.expect = "error" \/ p.k # x.expect
    BY <2>2 DEF Feed, Ctx
  <2>c. ASSUME NEW y \in Ctx PROVE Complete(y, p.r) \in Ctx /\ Complete(y, p.r).status = y.status
    <3> DEFINE e == IF p.r.keep THEN "line" ELSE "dead"
               u == "upgrade" \in p.r.headers
    <3>1. e \in {"line", "dead"} /\ u \in BOOLEAN
      OBVIOUS
    <3>2. Complete(y, p.r) = [y EXCEPT !.expect = e, !.stop = u]
      BY DEF Complete
    <3> HIDE DEF e, u
    <3> QED
      BY <2>c, <3>1, <3>2 DEF Ctx
  <2>3. CASE ~ (x.stop \/ x.expect = "error" \/ p.k # x.expect) /\ p.k = "line"
    BY <2>1, <2>3 DEF Feed, Ctx
  <2>4. CASE ~ (x.stop \/ x.expect = "error" \/ p.k # x.expect) /\ p.k = "headers"
    <3> DEFINE y == [x EXCEPT !.headers = @ \cup p.r.headers,
                              !.method = set_http_method(x, p.r.method),
                              !.keep = p.r.keep, !.expect = "body"]
    <3>1. y \in Ctx /\ y.status = x.status
      BY <2>1 DEF Ctx, set_http_method
    <3>2. Feed(x, p) = IF p.r.method = "POST" THEN y ELSE Complete(y, p.r)
      BY <2>4 DEF Feed
    <3> HIDE DEF y
    <3> QED
      BY <3>1, <3>2, <2>c
  <2>5. CASE ~ (x.stop \/ x.expect = "error" \/ p.k # x.expect) /\ p.k = "body"
    BY <2>5, <2>c DEF Feed
  <2> QED
    BY <2>1, <2>2, <2>3, <2>4, <2>5
<1> QED
  BY <1>1, <1>2 DEF Part

\* So does a read.
LEMMA ParseType ==
    ASSUME NEW x \in Ctx, NEW ps \in Seq(Part)
    PROVE  parse(x, ps) \in Ctx /\ parse(x, ps).status = x.status
<1> DEFINE b == [x EXCEPT !.stop = FALSE]
<1>1. b \in Ctx /\ b.status = x.status
  BY DEF Ctx
<1> HIDE DEF b
<1>2. PICK h : /\ h[0] = b
               /\ \A i \in 1 .. Len(ps) : h[i] = Feed(h[i - 1], ps[i])
               /\ Fed(b, ps) = h[Len(ps)]
  BY FeedInTurn
<1>3. Len(ps) \in Nat /\ \A i \in 1 .. Len(ps) : ps[i] \in Part
  OBVIOUS
<1> DEFINE Bad == {i \in 0 .. Len(ps) : ~ (h[i] \in Ctx /\ h[i].status = x.status)}
<1>4. Bad = {}
  <2> SUFFICES ASSUME Bad # {} PROVE FALSE
    OBVIOUS
  <2>1. Bad \subseteq Nat
    BY <1>3
  <2>2. PICK i \in Bad : \A j \in Bad : i <= j
    BY <2>1, LeastNat
  <2>3. i # 0
    BY <2>2, <1>1, <1>2
  <2>4. i \in 1 .. Len(ps) /\ i - 1 \in 0 .. Len(ps) /\ ~ (i <= i - 1)
    BY <2>2, <2>3, <1>3
  <2>5. h[i - 1] \in Ctx /\ h[i - 1].status = x.status
    BY <2>2, <2>4
  <2>6. h[i] \in Ctx /\ h[i].status = x.status
    BY <2>4, <2>5, <1>2, <1>3, FeedType
  <2> QED
    BY <2>2, <2>6
<1>5. h[Len(ps)] \in Ctx /\ h[Len(ps)].status = x.status
  BY <1>3, <1>4
<1> QED
  BY <1>2, <1>5 DEF parse, Fed, b

\* The parts of a request.
LEMMA PartsOf ==
    ASSUME NEW r \in Request
    PROVE  /\ Parts(r) \in Seq(Part) /\ Len(Parts(r)) \in {2, 3}
           /\ Parts(r)[1] = [k |-> "line", r |-> r]
           /\ Parts(r)[2] = [k |-> "headers", r |-> r]
           /\ Len(Parts(r)) = 3 <=> r.method = "POST"
           /\ Len(Parts(r)) = 3 => Parts(r)[3] = [k |-> "body", r |-> r]
<1> DEFINE part(k) == [k |-> k, r |-> r]
           two == <<part("line"), part("headers")>>
           more == IF r.method = "POST" THEN <<part("body")>> ELSE << >>
<1>1. part("line") \in Part /\ part("headers") \in Part /\ part("body") \in Part
  BY DEF Part
<1>2. Parts(r) = two \o more
  BY DEF Parts
<1>3. two \in Seq(Part) /\ Len(two) = 2 /\ two[1] = part("line") /\ two[2] = part("headers")
  BY <1>1
<1>4. more \in Seq(Part) /\ Len(more) \in {0, 1} /\ (Len(more) = 1 => more[1] = part("body"))
      /\ (Len(more) = 1 <=> r.method = "POST")
  BY <1>1
<1> HIDE DEF two, more
<1>5. /\ Parts(r) \in Seq(Part) /\ Len(Parts(r)) = 2 + Len(more)
      /\ Parts(r)[1] = two[1] /\ Parts(r)[2] = two[2]
      /\ Len(more) = 1 => Parts(r)[3] = more[1]
  <2>1. /\ two \o more \in Seq(Part) /\ Len(two \o more) = Len(two) + Len(more)
        /\ \A i \in 1 .. Len(two) + Len(more) :
              (two \o more)[i] = IF i <= Len(two) THEN two[i] ELSE more[i - Len(two)]
    BY <1>3, <1>4, ConcatProperties
  <2>2. /\ 1 \in 1 .. Len(two) + Len(more) /\ 2 \in 1 .. Len(two) + Len(more)
        /\ Len(more) = 1 => 3 \in 1 .. Len(two) + Len(more)
    BY <1>3, <1>4
  <2> QED
    BY <2>1, <2>2, <1>2, <1>3
<1>6. Len(Parts(r)) \in {2, 3} /\ (Len(Parts(r)) = 3 <=> Len(more) = 1)
  <2>1. Len(more) \in {0, 1} /\ Len(Parts(r)) = 2 + Len(more)
    BY <1>4, <1>5
  <2> QED
    BY <2>1
<1> HIDE DEF part
<1>7. /\ Parts(r)[1] = part("line") /\ Parts(r)[2] = part("headers")
      /\ Len(Parts(r)) = 3 => Parts(r)[3] = part("body")
  BY <1>3, <1>4, <1>5, <1>6
<1> QED
  BY <1>4, <1>5, <1>6, <1>7 DEF part

\* The three kinds of part, when they are due.
WithLine(x, r) == [x EXCEPT !.path = r.path, !.expect = "headers"]
WithHeaders(x, r) == [x EXCEPT !.headers = @ \cup r.headers,
                               !.method = set_http_method(x, r.method),
                               !.keep = r.keep, !.expect = "body"]

LEMMA FeedDue ==
    ASSUME NEW x, NEW r, NEW p, p.r = r, ~ x.stop, p.k = x.expect
    PROVE  /\ p.k = "line" => Feed(x, p) = WithLine(x, r)
           /\ p.k = "headers" =>
                 Feed(x, p) = IF r.method = "POST" THEN WithHeaders(x, r)
                              ELSE Complete(WithHeaders(x, r), r)
           /\ p.k = "body" => Feed(x, p) = Complete(x, r)
BY DEF Feed, WithLine, WithHeaders

\* A request that is read whole by a parser that waits for one, into a Ctx
\* without headers: the Ctx is that of this request.
LEMMA ParseWhole ==
    ASSUME NEW x \in Ctx, NEW r \in Request, x.expect = "line", x.headers = {}
    PROVE  LET y == parse(x, Parts(r)) IN
           /\ y.path = r.path /\ y.headers = r.headers
           /\ y.method = set_http_method(x, r.method)
           /\ y.keep = r.keep /\ y.expect = IF r.keep THEN "line" ELSE "dead"
<1> DEFINE b == [x EXCEPT !.stop = FALSE]
           ps == Parts(r)
<1>1. /\ b \in Ctx /\ b.expect = "line" /\ b.headers = {} /\ ~ b.stop
      /\ b.method = x.method
  BY DEF Ctx
<1>2. /\ ps \in Seq(Part) /\ Len(ps) \in {2, 3}
      /\ ps[1] = [k |-> "line", r |-> r] /\ ps[2] = [k |-> "headers", r |-> r]
      /\ Len(ps) = 3 <=> r.method = "POST"
      /\ Len(ps) = 3 => ps[3] = [k |-> "body", r |-> r]
  BY PartsOf
<1> HIDE DEF b, ps
<1>p. ps \in Seq(Part)
  BY <1>2
<1>3. PICK h : /\ h[0] = b
               /\ \A i \in 1 .. Len(ps) : h[i] = Feed(h[i - 1], ps[i])
               /\ Fed(b, ps) = h[Len(ps)]
  BY <1>p, FeedInTurn
<1>4. /\ h[1] = Feed(b, ps[1]) /\ h[2] = Feed(h[1], ps[2])
      /\ Len(ps) = 3 => h[3] = Feed(h[2], ps[3])
  <2>1. 1 \in 1 .. Len(ps) /\ 2 \in 1 .. Len(ps) /\ (Len(ps) = 3 => 3 \in 1 .. Len(ps))
    BY <1>2
  <2> QED
    BY <2>1, <1>3
<1>k. /\ ps[1].k = "line" /\ ps[1].r = r /\ ps[2].k = "headers" /\ ps[2].r = r
      /\ Len(ps) = 3 => ps[3].k = "body" /\ ps[3].r = r
  BY <1>2
<1>5. /\ h[1] \in Ctx /\ h[1].expect = "headers" /\ h[1].headers = {} /\ ~ h[1].stop
      /\ h[1].path = r.path /\ h[1].method = x.method
  <2>1. h[1] = WithLine(b, r)
    BY <1>1, <1>4, <1>k, FeedDue
  <2>2. r.path \in Paths
    BY DEF Request
  <2> QED
    BY <2>1, <2>2, <1>1 DEF Ctx, WithLine
<1> DEFINE y == WithHeaders(h[1], r)
<1>6. /\ y.path = r.path /\ y.headers = r.headers /\ y.keep = r.keep
      /\ y.method = set_http_method(x, r.method)
      /\ y.expect = "body" /\ ~ y.stop /\ y \in Ctx
  <2>1. r.keep \in BOOLEAN /\ r.headers \subseteq Header
    BY HttpConstants DEF Request
  <2>2. y.method \in {Null, "GET", "POST"} /\ y.method = set_http_method(x, r.method)
    BY <1>5 DEF WithHeaders, set_http_method, Ctx
  <2>3. /\ y.path = r.path /\ y.headers = r.headers /\ y.keep = r.keep
        /\ y.expect = "body" /\ ~ y.stop
    BY <1>5 DEF WithHeaders, Ctx
  <2>4. y \in Ctx
    BY <1>5, <2>1, <2>2 DEF WithHeaders, Ctx
  <2> QED
    BY <2>2, <2>3, <2>4
<1> HIDE DEF y
<1>7. h[2] = IF r.method = "POST" THEN y ELSE Complete(y, r)
  BY <1>4, <1>5, <1>k, FeedDue DEF y
<1>8. h[Len(ps)] = Complete(y, r)
  <2>1. CASE r.method = "POST"
    <3>1. Len(ps) = 3 /\ h[2] = y
      BY <2>1, <1>2, <1>7
    <3> QED
      BY <3>1, <1>4, <1>6, <1>k, FeedDue
  <2>2. CASE r.method # "POST"
    <3>1. Len(ps) = 2
      BY <2>2, <1>2
    <3> QED
      BY <2>2, <3>1, <1>7
  <2> QED
    BY <2>1, <2>2
<1>9. parse(x, Parts(r)) = Complete(y, r)
  BY <1>3, <1>8 DEF parse, Fed, b, ps
<1> QED
  BY <1>6, <1>9 DEF Complete, Ctx

-----------------------------------------------------------------------------
(* Types *)

Ats == {"none", "backlog", "recv", "handler", "websocket", "send", "close", "freed"}
Out == [reply : Reply, then : {"loop", "break", "websocket"}]

HttpTypes ==
    /\ serving \in BOOLEAN /\ accepting \in BOOLEAN
    /\ at \in [Conn -> Ats] /\ ctx \in [Conn -> Ctx] /\ out \in [Conn -> Out \cup {<< >>}]
    /\ frame \in [Conn -> {"none", "sent", "other", "phantom"}]
    /\ fault \in {"none", "null path", "negative length", "buffer", "SIGPIPE"}
    /\ client \in [Conn -> {"none", "open", "closed", "reset"}]
    /\ rx \in [Conn -> Seq(Part)] /\ sent \in [Conn -> Seq(Request)]
    /\ replies \in [Conn -> Seq(Reply)] /\ whole \in [Conn -> BOOLEAN]

\* While the process lives: a request is being answered only when it has a
\* path, a coroutine that sends has something to send, and a connection that
\* was never opened has no client.
Answering(c) ==
    /\ at[c] \in {"handler", "send", "websocket"} => ctx[c].path \in Paths
    /\ at[c] = "send" => out[c] \in Out
    /\ at[c] = "none" => client[c] = "none"
TypeInv == HttpTypes /\ (fault = "none" => \A c \in Conn : Answering(c))

\* The statuses the code sets itself are statuses, and so are those of replies.
LEMMA Statuses ==
    /\ {101, 200, 400, 404} \subseteq KnownStatus
    /\ \A s : get_status_message(s) \in KnownStatus
BY DEF KnownStatus, get_status_message

\* What end leaves for conn->send.
LEMMA EndEffect ==
    ASSUME HttpTypes, NEW c \in Conn, NEW x \in Ctx, NEW kind, NEW then, end(c, x, kind, then)
    PROVE  /\ at'[c] = "send" /\ ctx'[c] = x /\ out'[c].then = then
           /\ out'[c].reply.kind = kind /\ out'[c].reply.keep = x.keep
           /\ out'[c].reply.path = x.path /\ fault' = fault
           /\ out'[c].reply.status = get_status_message(x.status)
           /\ at' \in [Conn -> Ats] /\ ctx' \in [Conn -> Ctx]
           /\ \A d \in Conn : d # c => at'[d] = at[d] /\ ctx'[d] = ctx[d] /\ out'[d] = out[d]
           /\ /\ x.path \in Paths /\ kind \in {"file", "page", "404", "400", "101", "frame"}
              /\ then \in {"loop", "break", "websocket"}
              => out'[c] \in Out /\ out' \in [Conn -> Out \cup {<< >>}]
<1> DEFINE a == [kind |-> kind, status |-> get_status_message(x.status),
                 keep |-> x.keep, path |-> x.path]
           o == [reply |-> a, then |-> then]
<1>1. /\ at' = [at EXCEPT ![c] = "send"] /\ ctx' = [ctx EXCEPT ![c] = x]
      /\ out' = [out EXCEPT ![c] = o] /\ fault' = fault
  BY DEF end
<1>2. /\ o.then = then /\ o.reply.kind = kind /\ o.reply.keep = x.keep
      /\ o.reply.path = x.path /\ o.reply.status = get_status_message(x.status)
  OBVIOUS
<1>3. ASSUME x.path \in Paths, kind \in {"file", "page", "404", "400", "101", "frame"},
             then \in {"loop", "break", "websocket"}
      PROVE  o \in Out
  <2>1. x.keep \in BOOLEAN /\ get_status_message(x.status) \in KnownStatus
    BY Statuses DEF Ctx
  <2>2. a \in Reply
    BY <1>3, <2>1 DEF Reply
  <2> QED
    BY <1>3, <2>2 DEF Out
<1> HIDE DEF o
<1>4. out'[c] = o
  BY <1>1 DEF HttpTypes
<1> QED
  BY <1>1, <1>2, <1>3, <1>4 DEF HttpTypes, Ats

\* The answer of property RepliesExplained, taken from the Ctx, and the status
\* that goes with it.
AnswerTo(x) == Answer(x, x.method)
StatusFor(kind, left) ==
    CASE kind = "404" -> 404 [] kind = "400" -> 400 [] kind = "101" -> 101 [] OTHER -> left

\* Where Dispatch sends a request.
LEMMA DispatchCases ==
    ASSUME NEW c \in Conn, NEW x \in Ctx, Dispatch(c, x)
    PROVE  \/ fault' = "null path" /\ UNCHANGED <<at, ctx, out>>
           \/ /\ x.path \in Paths /\ AnswerTo(x) = "page"
              /\ at' = [at EXCEPT ![c] = "handler"] /\ ctx' = [ctx EXCEPT ![c] = x]
              /\ UNCHANGED <<out, fault>>
           \/ /\ x.path \in Paths
              /\ \E y \in Ctx, then \in {"loop", "break", "websocket"} :
                    /\ y.path = x.path /\ y.keep = x.keep /\ y.expect = x.expect
                    /\ y.method = x.method /\ y.status = StatusFor(AnswerTo(x), x.status)
                    /\ then = "break" <=> AnswerTo(x) = "400"
                    /\ AnswerTo(x) \in {"file", "404", "400", "101"}
                    /\ end(c, y, AnswerTo(x), then)
<1> DEFINE As(s) == /\ set_status(x, s) \in Ctx /\ set_status(x, s).path = x.path
                    /\ set_status(x, s).keep = x.keep /\ set_status(x, s).expect = x.expect
                    /\ set_status(x, s).method = x.method /\ set_status(x, s).status = s
<1>s. As(101) /\ As(400) /\ As(404)
  BY Statuses DEF set_status, Ctx
<1> DEFINE Replied == \E y \in Ctx, then \in {"loop", "break", "websocket"} :
                         /\ y.path = x.path /\ y.keep = x.keep /\ y.expect = x.expect
                         /\ y.method = x.method /\ y.status = StatusFor(AnswerTo(x), x.status)
                         /\ then = "break" <=> AnswerTo(x) = "400"
                         /\ AnswerTo(x) \in {"file", "404", "400", "101"}
                         /\ end(c, y, AnswerTo(x), then)
<1>b. ASSUME AnswerTo(x) = "400", send_bad_request_response(c, x) PROVE Replied
  <2> DEFINE y == set_status(x, 400)
  <2>1. /\ y \in Ctx /\ y.path = x.path /\ y.keep = x.keep /\ y.expect = x.expect
        /\ y.method = x.method /\ y.status = 400 /\ end(c, y, "400", "break")
    BY <1>s, <1>b DEF send_bad_request_response
  <2> HIDE DEF y
  <2> QED
    BY <1>b, <2>1 DEF StatusFor
<1>p. x.path # Null => x.path \in Paths
  BY DEF Ctx
<1>1. CASE x.path = Null
  BY <1>1 DEF Dispatch
<1>2. CASE x.path # Null /\ x.path \in Files
  <2>1. end(c, x, "file", "loop") /\ AnswerTo(x) = "file"
    BY <1>2 DEF Dispatch, get_document_absolute_path, AnswerTo, Answer
  <2>2. x.status = StatusFor(AnswerTo(x), x.status)
    BY <2>1 DEF StatusFor
  <2> QED
    BY <1>2, <1>p, <2>1, <2>2
<1>3. CASE x.path # Null /\ x.path \in HttpPaths \ Files
  <2>1. call_http_handler(c, x) /\ AnswerTo(x) = IF "key" \in x.headers THEN "400" ELSE "page"
    BY <1>3 DEF Dispatch, get_document_absolute_path, get_http_handler, AnswerTo, Answer
  <2>2. CASE "key" \in x.headers
    <3>1. Replied
      BY <1>b, <2>1, <2>2 DEF call_http_handler, has_sec_websocket_key
    <3> QED
      BY <1>3, <1>p, <3>1
  <2>3. CASE "key" \notin x.headers
    BY <1>3, <1>p, <2>1, <2>3 DEF call_http_handler, has_sec_websocket_key
  <2> QED
    BY <2>2, <2>3
<1>4. CASE x.path # Null /\ x.path \in WsPaths \ (Files \cup HttpPaths)
  <2>1. /\ call_websocket_handler(c, x)
        /\ AnswerTo(x) = IF x.method = "GET" /\ x.headers = Header THEN "101" ELSE "400"
    BY <1>4 DEF Dispatch, get_document_absolute_path, get_http_handler, get_websocket_handler, AnswerTo, Answer
  <2>2. CASE x.method = "GET" /\ x.headers = Header
    <3> DEFINE y == set_status(x, 101)
    <3>1. /\ y \in Ctx /\ y.path = x.path /\ y.keep = x.keep /\ y.expect = x.expect
          /\ y.method = x.method /\ y.status = 101
          /\ end(c, y, "101", "websocket") /\ AnswerTo(x) = "101"
      BY <1>s, <2>1, <2>2 DEF call_websocket_handler, check_websocket_upgrade
    <3> HIDE DEF y
    <3>2. Replied
      BY <3>1 DEF StatusFor
    <3> QED
      BY <1>4, <1>p, <3>2
  <2>3. CASE ~ (x.method = "GET" /\ x.headers = Header)
    <3>1. Replied
      BY <1>b, <2>1, <2>3 DEF call_websocket_handler, check_websocket_upgrade
    <3> QED
      BY <1>4, <1>p, <3>1
  <2> QED
    BY <2>2, <2>3
<1>5. CASE x.path # Null /\ x.path \notin Files \cup HttpPaths \cup WsPaths
  <2>1. send_not_found_response(c, x) /\ AnswerTo(x) = "404"
    BY <1>5 DEF Dispatch, get_document_absolute_path, get_http_handler, get_websocket_handler, AnswerTo, Answer
  <2> DEFINE y == set_status(x, 404)
  <2>2. /\ y \in Ctx /\ y.path = x.path /\ y.keep = x.keep /\ y.expect = x.expect
        /\ y.method = x.method /\ y.status = 404 /\ end(c, y, "404", "loop")
    BY <1>s, <2>1 DEF send_not_found_response
  <2> HIDE DEF y
  <2>3. Replied
    BY <2>1, <2>2 DEF StatusFor
  <2> QED
    BY <1>5, <1>p, <2>3
<1> QED
  BY <1>1, <1>2, <1>3, <1>4, <1>5

\* A read takes a beginning of what is there.
LEMMA TakeEffect ==
    ASSUME HttpTypes, NEW c \in Conn, NEW n \in Chunks(c), Take(c, n)
    PROVE  /\ n \in 1 .. Len(rx[c]) /\ Len(rx[c]) \in Nat
           /\ SubSeq(rx[c], 1, n) \in Seq(Part) /\ Len(SubSeq(rx[c], 1, n)) = n
           /\ \A i \in 1 .. n : SubSeq(rx[c], 1, n)[i] = rx[c][i]
           /\ rx' \in [Conn -> Seq(Part)] /\ Len(rx'[c]) = Len(rx[c]) - n
           /\ \A i \in 1 .. Len(rx[c]) - n : rx'[c][i] = rx[c][i + n]
           /\ \A d \in Conn : d # c => rx'[d] = rx[d]
<1> DEFINE q == rx[c]
<1>1. q \in Seq(Part) /\ Len(q) \in Nat /\ n \in 1 .. Len(q)
  <2>1. q \in Seq(Part)
    BY DEF HttpTypes
  <2>2. n \in 1 .. Len(q)
    BY DEF Chunks
  <2> QED
    BY <2>1, <2>2
<1> HIDE DEF q
<1>2. SubSeq(q, 1, n) \in Seq(Part) /\ Len(SubSeq(q, 1, n)) = n
      /\ \A i \in 1 .. n : SubSeq(q, 1, n)[i] = q[i]
  BY <1>1, SubSeqProperties
<1>3. /\ SubSeq(q, n + 1, Len(q)) \in Seq(Part) /\ Len(SubSeq(q, n + 1, Len(q))) = Len(q) - n
      /\ \A i \in 1 .. Len(q) - n : SubSeq(q, n + 1, Len(q))[i] = q[i + n]
  BY <1>1, SubSeqProperties
<1>4. rx' = [rx EXCEPT ![c] = SubSeq(q, n + 1, Len(q))]
  BY DEF Take, q
<1> QED
  BY <1>1, <1>2, <1>3, <1>4 DEF HttpTypes, q

\* What follows a reply.
LEMMA AfterSendCases ==
    ASSUME HttpTypes, NEW c \in Conn, out[c] \in Out, AfterSend(c)
    PROVE  /\ at' \in [Conn -> Ats] /\ ctx' \in [Conn -> Ctx]
           /\ \A d \in Conn : d # c => at'[d] = at[d] /\ ctx'[d] = ctx[d]
           /\ \/ /\ at'[c] = "recv" /\ out[c].then = "loop" /\ ctx[c].keep
                 /\ ctx'[c] = clear(ctx[c])
              \/ /\ at'[c] = "close" /\ ctx'[c] = ctx[c]
                 /\ out[c].then = "break" \/ (out[c].then = "loop" /\ ~ ctx[c].keep)
              \/ /\ at'[c] = "websocket" /\ ctx'[c] = ctx[c] /\ out[c].then = "websocket"
<1>1. clear(ctx[c]) \in Ctx
  <2>1. ctx[c] \in Ctx
    BY DEF HttpTypes
  <2> QED
    BY <2>1 DEF clear, Ctx
<1>2. CASE out[c].then = "loop"
  BY <1>1, <1>2 DEF AfterSend, NextTurn, HttpTypes, Ats
<1>3. CASE out[c].then = "break"
  BY <1>3 DEF AfterSend, HttpTypes, Ats
<1>4. CASE out[c].then = "websocket"
  BY <1>4 DEF AfterSend, HttpTypes, Ats
<1> QED
  BY <1>2, <1>3, <1>4 DEF Out

LEMMA NextTurnCases ==
    ASSUME HttpTypes, NEW c \in Conn, NextTurn(c)
    PROVE  /\ at' \in [Conn -> Ats] /\ ctx' \in [Conn -> Ctx]
           /\ \A d \in Conn : d # c => at'[d] = at[d] /\ ctx'[d] = ctx[d]
           /\ \/ at'[c] = "recv" /\ ctx[c].keep /\ ctx'[c] = clear(ctx[c])
              \/ at'[c] = "close" /\ ~ ctx[c].keep /\ ctx'[c] = ctx[c]
<1>1. clear(ctx[c]) \in Ctx
  <2>1. ctx[c] \in Ctx
    BY DEF HttpTypes
  <2> QED
    BY <2>1 DEF clear, Ctx
<1> QED
  BY <1>1 DEF NextTurn, HttpTypes, Ats

\* on_accept: the read, and what Dispatch makes of it.
LEMMA TypeAccept ==
    ASSUME TypeInv, NEW c \in Conn, on_accept(c)
    PROVE  TypeInv'
<1>1. PICK n \in Chunks(c) :
        /\ Take(c, n)
        /\ whole' = [whole EXCEPT ![c] =
                       @ /\ SubSeq(rx[c], 1, n)[1].k = "line"
                         /\ SubSeq(rx[c], 1, n) = Parts(SubSeq(rx[c], 1, n)[1].r)]
        /\ Dispatch(c, parse(ctx[c], SubSeq(rx[c], 1, n)))
  BY DEF on_accept
<1> DEFINE ps == SubSeq(rx[c], 1, n)
           x == parse(ctx[c], ps)
<1>h. HttpTypes /\ Up
  BY DEF TypeInv, on_accept
<1>2. rx' \in [Conn -> Seq(Part)] /\ ps \in Seq(Part)
  BY <1>h, <1>1, TakeEffect
<1>3. ctx[c] \in Ctx
  BY <1>h DEF HttpTypes
<1>4. x \in Ctx
  BY <1>2, <1>3, ParseType
<1> DEFINE w == whole[c] /\ ps[1].k = "line" /\ ps = Parts(ps[1].r)
<1>5. whole' \in [Conn -> BOOLEAN]
  <2>1. w \in BOOLEAN /\ whole' = [whole EXCEPT ![c] = w]
    BY <1>1
  <2> HIDE DEF w
  <2> QED
    BY <1>h, <2>1 DEF HttpTypes
<1>6. Dispatch(c, x)
  BY <1>1
<1> HIDE DEF x, ps
<1>7. UNCHANGED <<serving, accepting, frame, client, sent, frames, replies>>
  BY DEF on_accept, serverVars, clientVars
<1>8. CASE fault' = "null path" /\ UNCHANGED <<at, ctx, out>>
  BY <1>h, <1>2, <1>5, <1>7, <1>8 DEF TypeInv, HttpTypes
<1>9. CASE /\ x.path \in Paths
           /\ at' = [at EXCEPT ![c] = "handler"] /\ ctx' = [ctx EXCEPT ![c] = x]
           /\ UNCHANGED <<out, fault>>
  <2>1. HttpTypes'
    BY <1>h, <1>2, <1>4, <1>5, <1>7, <1>9 DEF HttpTypes, Ats
  <2>2. ASSUME NEW d \in Conn PROVE Answering(d)'
    <3>1. Answering(d)
      BY <1>h DEF TypeInv, Up
    <3> QED
      BY <1>h, <1>7, <1>9, <3>1 DEF Answering, HttpTypes, Ats
  <2> QED
    BY <2>1, <2>2 DEF TypeInv
<1>10. CASE /\ x.path \in Paths
            /\ \E y \in Ctx, then \in {"loop", "break", "websocket"} :
                  /\ y.path = x.path
                  /\ AnswerTo(x) \in {"file", "404", "400", "101"}
                  /\ end(c, y, AnswerTo(x), then)
  <2>1. PICK y \in Ctx, then \in {"loop", "break", "websocket"} :
                  /\ y.path = x.path
                  /\ AnswerTo(x) \in {"file", "404", "400", "101"}
                  /\ end(c, y, AnswerTo(x), then)
    BY <1>10
  <2> DEFINE kind == AnswerTo(x)
  <2> HIDE DEF kind
  <2>k. kind \in {"file", "404", "400", "101"} /\ end(c, y, kind, then)
    BY <2>1 DEF kind
  <2>2. /\ at'[c] = "send" /\ ctx'[c] = y /\ fault' = fault
        /\ at' \in [Conn -> Ats] /\ ctx' \in [Conn -> Ctx]
        /\ \A d \in Conn : d # c => at'[d] = at[d] /\ ctx'[d] = ctx[d] /\ out'[d] = out[d]
        /\ out'[c] \in Out /\ out' \in [Conn -> Out \cup {<< >>}]
    BY <1>h, <1>10, <2>1, <2>k, EndEffect
  <2>3. HttpTypes'
    BY <1>h, <1>2, <1>5, <1>7, <2>2 DEF HttpTypes
  <2>4. ASSUME NEW d \in Conn PROVE Answering(d)'
    <3>1. Answering(d)
      BY <1>h DEF TypeInv, Up
    <3> QED
      BY <1>7, <1>10, <2>1, <2>2, <3>1 DEF Answering
  <2> QED
    BY <2>3, <2>4 DEF TypeInv
<1> QED
  BY <1>4, <1>6, <1>8, <1>9, <1>10, DispatchCases

\* conn->send returns, or fails.
LEMMA TypeSend ==
    ASSUME TypeInv, NEW c \in Conn, send_response(c) \/ send_response_fails(c)
    PROVE  TypeInv'
<1>h. HttpTypes /\ Up /\ at[c] = "send" /\ out[c] \in Out /\ ctx[c].path \in Paths
  BY DEF TypeInv, send_response, send_response_fails, Up, Answering
<1>1. UNCHANGED <<serving, accepting, frame, client, sent, frames, rx, whole>>
  BY DEF send_response, send_response_fails, serverVars, clientVars
<1>2. out' = [out EXCEPT ![c] = << >>]
  BY DEF send_response, send_response_fails
<1>3. replies' \in [Conn -> Seq(Reply)]
  <2>1. out[c].reply \in Reply /\ replies[c] \in Seq(Reply)
    BY <1>h DEF Out, HttpTypes
  <2>2. Append(replies[c], out[c].reply) \in Seq(Reply)
    BY <2>1
  <2> QED
    BY <1>h, <2>2 DEF send_response, send_response_fails, HttpTypes
<1>4. CASE AfterSend(c) /\ UNCHANGED fault
  <2>1. /\ at' \in [Conn -> Ats] /\ ctx' \in [Conn -> Ctx]
        /\ \A d \in Conn : d # c => at'[d] = at[d] /\ ctx'[d] = ctx[d]
        /\ at'[c] \in {"recv", "close"} \/ (at'[c] = "websocket" /\ ctx'[c] = ctx[c])
    BY <1>h, <1>4, AfterSendCases
  <2>2. HttpTypes'
    BY <1>h, <1>1, <1>2, <1>3, <1>4, <2>1 DEF HttpTypes
  <2>3. ASSUME NEW d \in Conn PROVE Answering(d)'
    <3>1. Answering(d)
      BY <1>h DEF TypeInv, Up
    <3>2. d # c => out'[d] = out[d]
      BY <1>h, <1>2 DEF HttpTypes
    <3> QED
      BY <1>h, <1>1, <2>1, <3>1, <3>2 DEF Answering
  <2> QED
    BY <2>2, <2>3 DEF TypeInv
<1>5. CASE fault' = "SIGPIPE" /\ UNCHANGED <<at, ctx>>
  BY <1>h, <1>1, <1>2, <1>3, <1>5 DEF TypeInv, HttpTypes
<1> QED
  BY <1>4, <1>5 DEF send_response, send_response_fails

\* Handlers.
LEMMA TypeHandlers ==
    ASSUME TypeInv, NEW c \in Conn, handler_ends(c) \/ send_frame(c)
    PROVE  TypeInv'
<1>h. HttpTypes /\ Up /\ ctx[c].path \in Paths /\ ctx[c] \in Ctx
  BY DEF TypeInv, handler_ends, send_frame, Up, Answering, HttpTypes
<1>1. UNCHANGED <<serving, accepting, frame, client, sent, frames, rx, replies, whole>>
  BY DEF handler_ends, send_frame, serverVars, clientVars
<1>2. PICK x \in Ctx, kind \in {"page", "frame"}, then \in {"loop", "websocket"} :
         x.path = ctx[c].path /\ end(c, x, kind, then)
  <2>1. CASE handler_ends(c)
    <3>1. PICK x \in {ctx[c]} \cup {set_status(ctx[c], s) : s \in UserStatus} :
             end(c, x, "page", "loop")
      BY <2>1 DEF handler_ends
    <3>2. x \in Ctx /\ x.path = ctx[c].path
      BY <1>h DEF set_status, Ctx
    <3> QED
      BY <3>1, <3>2
  <2>2. CASE send_frame(c)
    <3>1. end(c, ctx[c], "frame", "websocket")
      BY <2>2 DEF send_frame
    <3> QED
      BY <1>h, <3>1
  <2> QED
    BY <2>1, <2>2
<1>3. /\ at'[c] = "send" /\ ctx'[c] = x /\ fault' = fault
      /\ at' \in [Conn -> Ats] /\ ctx' \in [Conn -> Ctx]
      /\ \A d \in Conn : d # c => at'[d] = at[d] /\ ctx'[d] = ctx[d] /\ out'[d] = out[d]
      /\ out'[c] \in Out /\ out' \in [Conn -> Out \cup {<< >>}]
  BY <1>h, <1>2, EndEffect
<1>4. HttpTypes'
  BY <1>h, <1>1, <1>3 DEF HttpTypes
<1>5. ASSUME NEW d \in Conn PROVE Answering(d)'
  <2>1. Answering(d)
    BY <1>h DEF TypeInv, Up
  <2> QED
    BY <1>h, <1>1, <1>2, <1>3, <2>1 DEF Answering
<1> QED
  BY <1>4, <1>5 DEF TypeInv

LEMMA TypeFrame ==
    ASSUME TypeInv, NEW c \in Conn, recv_frame(c)
    PROVE  TypeInv'
<1>h. HttpTypes /\ Up
  BY DEF TypeInv, recv_frame
<1>1. UNCHANGED <<serving, accepting, at, ctx, out, client, sent, frames, replies>>
  BY DEF recv_frame, serverVars, clientVars
<1>2. CASE \E n \in Chunks(c) :
             /\ Take(c, n)
             /\ frame' = [frame EXCEPT ![c] =
                            IF rx[c][1].k = "frame" THEN "sent" ELSE "other"]
             /\ whole' = [whole EXCEPT ![c] =
                            @ /\ \A i \in 1 .. n : rx[c][i].k = "frame"]
             /\ UNCHANGED fault
  <2>1. PICK n \in Chunks(c) :
             /\ Take(c, n)
             /\ frame' = [frame EXCEPT ![c] =
                            IF rx[c][1].k = "frame" THEN "sent" ELSE "other"]
             /\ whole' = [whole EXCEPT ![c] =
                            @ /\ \A i \in 1 .. n : rx[c][i].k = "frame"]
             /\ UNCHANGED fault
    BY <1>2
  <2>2. rx' \in [Conn -> Seq(Part)]
    BY <1>h, <2>1, TakeEffect
  <2> DEFINE w == whole[c] /\ \A i \in 1 .. n : rx[c][i].k = "frame"
             f == IF rx[c][1].k = "frame" THEN "sent" ELSE "other"
  <2>3. /\ w \in BOOLEAN /\ whole' = [whole EXCEPT ![c] = w]
        /\ f \in {"sent", "other"} /\ frame' = [frame EXCEPT ![c] = f]
    BY <2>1
  <2> HIDE DEF w, f
  <2>4. HttpTypes'
    BY <1>h, <1>1, <2>1, <2>2, <2>3 DEF HttpTypes
  <2> QED
    BY <1>1, <2>1, <2>4 DEF TypeInv, Answering
<1>3. CASE /\ frame' = [frame EXCEPT ![c] = "phantom"]
           /\ UNCHANGED <<rx, fault, whole>>
  BY <1>h, <1>1, <1>3 DEF TypeInv, Answering, HttpTypes
<1>4. CASE fault' = "buffer" /\ UNCHANGED <<rx, frame, whole>>
  BY <1>h, <1>1, <1>4 DEF TypeInv, HttpTypes
<1> QED
  BY <1>2, <1>3, <1>4 DEF recv_frame

\* The ends of a connection.
LEMMA TypeEnds ==
    ASSUME TypeInv, NEW c \in Conn,
           \/ on_accept_eof(c) \/ on_accept_error(c) \/ check_client_close(c)
           \/ websocket_handler_returns(c)
    PROVE  TypeInv'
<1>h. HttpTypes /\ Up /\ \A d \in Conn : Answering(d)
  BY DEF TypeInv, Up, on_accept_eof, on_accept_error, check_client_close,
         websocket_handler_returns
<1>1. CASE on_accept_eof(c)
  BY <1>h, <1>1 DEF on_accept_eof, TypeInv, HttpTypes, Answering, Ats, serverVars, clientVars
<1>2. CASE on_accept_error(c)
  BY <1>h, <1>2 DEF on_accept_error, TypeInv, HttpTypes, serverVars, clientVars
<1>3. CASE check_client_close(c)
  <2>1. /\ UNCHANGED <<serving, accepting, ctx, out, frame, fault, client, sent, frames, replies, whole>>
        /\ at' = at \/ at' = [at EXCEPT ![c] = "freed"]
    BY <1>3 DEF check_client_close, serverVars, clientVars
  <2>2. rx' \in [Conn -> Seq(Part)]
    <3>1. CASE \E n \in Chunks(c) : Take(c, n)
      BY <1>h, <3>1, TakeEffect
    <3>2. CASE rx' = rx
      BY <1>h, <3>2 DEF HttpTypes
    <3> QED
      BY <1>3, <3>1, <3>2 DEF check_client_close
  <2> QED
    BY <1>h, <2>1, <2>2 DEF TypeInv, HttpTypes, Answering, Ats
<1>4. CASE websocket_handler_returns(c)
  <2>1. UNCHANGED <<serving, accepting, out, frame, fault, client, sent, frames, rx, replies, whole>>
    BY <1>4 DEF websocket_handler_returns, serverVars, clientVars
  <2>2. /\ at' \in [Conn -> Ats] /\ ctx' \in [Conn -> Ctx] /\ at'[c] \in {"recv", "close"}
        /\ \A d \in Conn : d # c => at'[d] = at[d] /\ ctx'[d] = ctx[d]
    BY <1>h, <1>4, NextTurnCases DEF websocket_handler_returns
  <2>3. HttpTypes'
    BY <1>h, <2>1, <2>2 DEF HttpTypes
  <2>4. \A d \in Conn : Answering(d)'
    BY <1>h, <2>1, <2>2 DEF Answering
  <2> QED
    BY <2>3, <2>4 DEF TypeInv
<1> QED
  BY <1>1, <1>2, <1>3, <1>4

\* accept, shutdown and the clients.
LEMMA TypeClients ==
    ASSUME TypeInv, NEW c \in Conn,
           \/ start(c) \/ client_connects(c) \/ client_requests(c)
           \/ client_sends_frame(c) \/ client_ends(c)
    PROVE  TypeInv'
<1>h. HttpTypes /\ Up /\ \A d \in Conn : Answering(d)
  BY DEF TypeInv, Up, start, client_connects, client_requests, client_sends_frame, client_ends
<1>1. CASE start(c)
  <2>1. PICK k \in BOOLEAN : ctx' = [ctx EXCEPT ![c] = NewCtx(k)]
    BY <1>1 DEF start
  <2>2. NewCtx(k) \in Ctx
    BY Statuses DEF NewCtx, Ctx
  <2>3. /\ at' = [at EXCEPT ![c] = "recv"] /\ accepting' = serving
        /\ UNCHANGED <<serving, out, frame, fault, client, sent, frames, rx, replies, whole>>
    BY <1>1 DEF start, clientVars
  <2> QED
    BY <1>h, <2>1, <2>2, <2>3 DEF TypeInv, HttpTypes, Answering, Ats
<1>2. CASE client_connects(c)
  BY <1>h, <1>2 DEF client_connects, TypeInv, HttpTypes, Answering, Ats, serverVars
<1>3. CASE client_requests(c)
  <2>1. PICK r \in Request :
          /\ sent' = [sent EXCEPT ![c] = Append(@, r)]
          /\ rx' = [rx EXCEPT ![c] = @ \o Parts(r)]
    BY <1>3 DEF client_requests
  <2>2. sent[c] \in Seq(Request) /\ rx[c] \in Seq(Part) /\ Parts(r) \in Seq(Part)
    BY <1>h, PartsOf DEF HttpTypes
  <2>3. Append(sent[c], r) \in Seq(Request) /\ rx[c] \o Parts(r) \in Seq(Part)
    BY <2>2, ConcatProperties
  <2>4. UNCHANGED <<serving, accepting, at, ctx, out, frame, fault, client, replies, whole>>
    BY <1>3 DEF client_requests, serverVars
  <2> QED
    BY <1>h, <2>1, <2>3, <2>4 DEF TypeInv, HttpTypes, Answering
<1>4. CASE client_sends_frame(c)
  <2>1. rx[c] \in Seq(Part) /\ Frame \in Part
    BY <1>h DEF HttpTypes, Part
  <2>2. Append(rx[c], Frame) \in Seq(Part)
    BY <2>1
  <2>3. /\ rx' = [rx EXCEPT ![c] = Append(@, Frame)]
        /\ UNCHANGED <<serving, accepting, at, ctx, out, frame, fault, client, sent, replies, whole>>
    BY <1>4 DEF client_sends_frame, serverVars
  <2> QED
    BY <1>h, <2>2, <2>3 DEF TypeInv, HttpTypes, Answering
<1>5. CASE client_ends(c)
  <2>1. PICK how \in {"closed", "reset"} : client' = [client EXCEPT ![c] = how]
    BY <1>5 DEF client_ends
  <2>2. UNCHANGED <<serving, accepting, at, ctx, out, frame, fault, sent, rx, replies, whole>>
    BY <1>5 DEF client_ends, serverVars
  <2>3. client[c] = "open"
    BY <1>5 DEF client_ends
  <2> QED
    BY <1>h, <2>1, <2>2, <2>3 DEF TypeInv, HttpTypes, Answering
<1> QED
  BY <1>1, <1>2, <1>3, <1>4, <1>5

\* A step of one connection, of whichever party.
ConnNext(c) ==
    \/ start(c) \/ ConnStep(c) \/ recv_frame(c) \/ send_frame(c)
    \/ websocket_handler_returns(c) \/ client_connects(c) \/ client_requests(c)
    \/ client_sends_frame(c) \/ client_ends(c)

LEMMA TypeStep ==
    ASSUME TypeInv, [HttpNext]_vars
    PROVE  TypeInv'
<1>1. CASE shutdown
  BY <1>1 DEF shutdown, TypeInv, HttpTypes, Answering, clientVars
<1>2. ASSUME NEW c \in Conn, ConnNext(c) PROVE TypeInv'
  BY <1>2, TypeAccept, TypeSend, TypeHandlers, TypeFrame, TypeEnds, TypeClients
     DEF ConnNext, ConnStep
<1>3. CASE UNCHANGED vars
  BY <1>3 DEF vars, serverVars, clientVars, TypeInv, HttpTypes, Answering
<1> QED
  BY <1>1, <1>2, <1>3 DEF HttpNext, ConnNext

LEMMA TypeInit ==
    ASSUME HttpInit
    PROVE  TypeInv
<1>1. NewCtx(FALSE) \in Ctx
  BY Statuses DEF NewCtx, Ctx
<1>2. /\ ctx \in [Conn -> Ctx] /\ rx \in [Conn -> Seq(Part)]
      /\ sent \in [Conn -> Seq(Request)] /\ replies \in [Conn -> Seq(Reply)]
  <2>1. << >> \in Seq(Part) /\ << >> \in Seq(Request) /\ << >> \in Seq(Reply)
    OBVIOUS
  <2> QED
    BY <1>1, <2>1 DEF HttpInit
<1>3. out \in [Conn -> Out \cup {<< >>}] /\ at \in [Conn -> Ats]
  BY DEF HttpInit, Ats
<1>4. HttpTypes
  BY <1>2, <1>3 DEF HttpInit, HttpTypes
<1>5. \A c \in Conn : Answering(c)
  BY DEF HttpInit, Answering
<1> QED
  BY <1>4, <1>5 DEF TypeInv

\* The types of the server, whatever the clients send and however it is cut:
\* what conn->send is given is always a complete reply, with a status the
\* code has a message for, to a request that has a path.
THEOREM HttpTypeCorrect == HttpSpec => []HttpTypeOK
<1>1. TypeInv => HttpTypeOK
  <2> SUFFICES ASSUME TypeInv PROVE HttpTypeOK
    OBVIOUS
  <2>1. ASSUME NEW c \in Conn
        PROVE  /\ \A i \in 1 .. Len(sent[c]) : sent[c][i] \in Request
               /\ \A i \in 1 .. Len(replies[c]) : replies[c][i] \in Reply
    <3>1. sent[c] \in Seq(Request) /\ replies[c] \in Seq(Reply)
      BY DEF TypeInv, HttpTypes
    <3> QED
      BY <3>1
  <2>2. \A c \in Conn : at[c] = "send" /\ fault = "none" =>
           out[c].reply \in Reply /\ out[c].then \in {"loop", "break", "websocket"}
    BY DEF TypeInv, Answering, Out
  <2> QED
    BY <2>1, <2>2 DEF TypeInv, HttpTypes, HttpTypeOK, Ats
<1> QED
  BY <1>1, TypeInit, TypeStep, PTL DEF HttpSpec

-----------------------------------------------------------------------------
(* Nothing follows the last reply *)

Final(a) == a.kind = "400" \/ ~ a.keep

\* What a coroutine is sending agrees with what it does next, and once the
\* final reply is out it only closes, or serves a websocket after whose end it
\* closes.
Closing(c) ==
    /\ at[c] = "send" =>
          /\ out[c].reply.keep = ctx[c].keep
          /\ out[c].reply.kind = "400" <=> out[c].then = "break"
          /\ out[c].reply.kind = "frame" => out[c].then = "websocket"
    /\ Len(replies[c]) > 0 /\ Final(replies[c][Len(replies[c])]) =>
          \/ at[c] \in {"close", "freed"}
          \/ /\ ~ ctx[c].keep
             /\ at[c] = "websocket" \/ (at[c] = "send" /\ out[c].reply.kind = "frame")
FinalBut(c) == \A i \in 1 .. Len(replies[c]) - 1 : ~ Final(replies[c][i])
FinalInv == \A c \in Conn : FinalBut(c) /\ (fault = "none" => Closing(c))

\* A step that sends nothing and leaves a connection where it is.
LEMMA FinalSame ==
    ASSUME FinalInv, NEW d \in Conn, fault' = "none" => fault = "none",
           at'[d] = at[d], ctx'[d] = ctx[d], out'[d] = out[d], replies'[d] = replies[d]
    PROVE  FinalBut(d)' /\ (fault' = "none" => Closing(d)')
BY DEF FinalInv, FinalBut, Closing

\* A reply is handed to conn->send.
LEMMA FinalEnd ==
    ASSUME TypeInv, FinalInv, Up, NEW c \in Conn, replies' = replies,
           NEW x \in Ctx, NEW kind, NEW then, end(c, x, kind, then),
           kind = "400" <=> then = "break",
           kind = "frame" => then = "websocket" /\ at[c] = "websocket" /\ x = ctx[c],
           kind # "frame" => at[c] \in {"recv", "handler"}
    PROVE  FinalInv'
<1>1. HttpTypes
  BY DEF TypeInv
<1>2. /\ at'[c] = "send" /\ ctx'[c] = x /\ out'[c].then = then
      /\ out'[c].reply.kind = kind /\ out'[c].reply.keep = x.keep /\ fault' = fault
      /\ \A d \in Conn : d # c => at'[d] = at[d] /\ ctx'[d] = ctx[d] /\ out'[d] = out[d]
  BY <1>1, EndEffect
<1>3. FinalBut(c)' /\ Closing(c)'
  BY <1>2 DEF FinalInv, FinalBut, Closing, Up
<1>4. \A d \in Conn : d # c => FinalBut(d)' /\ (fault' = "none" => Closing(d)')
  BY <1>2, FinalSame
<1> QED
  BY <1>3, <1>4 DEF FinalInv

LEMMA FinalAccept ==
    ASSUME TypeInv, FinalInv, NEW c \in Conn, on_accept(c)
    PROVE  FinalInv'
<1>1. PICK n \in Chunks(c) : Take(c, n) /\ Dispatch(c, parse(ctx[c], SubSeq(rx[c], 1, n)))
  BY DEF on_accept
<1> DEFINE x == parse(ctx[c], SubSeq(rx[c], 1, n))
<1>h. HttpTypes /\ Up /\ at[c] = "recv" /\ replies' = replies
  BY DEF TypeInv, on_accept
<1>2. x \in Ctx /\ Dispatch(c, x)
  <2>1. SubSeq(rx[c], 1, n) \in Seq(Part) /\ ctx[c] \in Ctx
    BY <1>h, <1>1, TakeEffect DEF HttpTypes
  <2> QED
    BY <1>1, <2>1, ParseType
<1> HIDE DEF x
<1>3. CASE fault' = "null path" /\ UNCHANGED <<at, ctx, out>>
  BY <1>h, <1>3 DEF FinalInv, FinalBut
<1>4. CASE /\ at' = [at EXCEPT ![c] = "handler"] /\ ctx' = [ctx EXCEPT ![c] = x]
           /\ UNCHANGED <<out, fault>>
  BY <1>h, <1>4 DEF FinalInv, FinalBut, Closing, Up, HttpTypes
<1>5. CASE \E y \in Ctx, then \in {"loop", "break", "websocket"} :
              /\ then = "break" <=> AnswerTo(x) = "400"
              /\ AnswerTo(x) \in {"file", "404", "400", "101"}
              /\ end(c, y, AnswerTo(x), then)
  <2>1. PICK y \in Ctx, then \in {"loop", "break", "websocket"} :
              /\ then = "break" <=> AnswerTo(x) = "400"
              /\ AnswerTo(x) \in {"file", "404", "400", "101"}
              /\ end(c, y, AnswerTo(x), then)
    BY <1>5
  <2> DEFINE kind == AnswerTo(x)
  <2> HIDE DEF kind
  <2>2. kind # "frame" /\ (kind = "400" <=> then = "break") /\ end(c, y, kind, then)
    BY <2>1 DEF kind
  <2> QED
    BY <1>h, <2>1, <2>2, FinalEnd
<1> QED
  BY <1>2, <1>3, <1>4, <1>5, DispatchCases

LEMMA FinalHandlers ==
    ASSUME TypeInv, FinalInv, NEW c \in Conn, handler_ends(c) \/ send_frame(c)
    PROVE  FinalInv'
<1>h. Up /\ ctx[c] \in Ctx /\ replies' = replies
  BY DEF TypeInv, HttpTypes, handler_ends, send_frame
<1>1. CASE handler_ends(c)
  <2>1. PICK x \in {ctx[c]} \cup {set_status(ctx[c], s) : s \in UserStatus} :
             end(c, x, "page", "loop")
    BY <1>1 DEF handler_ends
  <2>2. x \in Ctx
    BY <1>h DEF set_status, Ctx
  <2> QED
    BY <1>h, <1>1, <2>1, <2>2, FinalEnd DEF handler_ends
<1>2. CASE send_frame(c)
  BY <1>h, <1>2, FinalEnd DEF send_frame
<1> QED
  BY <1>1, <1>2

LEMMA FinalSend ==
    ASSUME TypeInv, FinalInv, NEW c \in Conn, send_response(c) \/ send_response_fails(c)
    PROVE  FinalInv'
<1>h. HttpTypes /\ Up /\ at[c] = "send" /\ out[c] \in Out
  BY DEF TypeInv, send_response, send_response_fails, Up, Answering
<1>1. \A d \in Conn : d # c => out'[d] = out[d] /\ replies'[d] = replies[d]
  BY <1>h DEF send_response, send_response_fails, HttpTypes
<1>2. CASE fault' = "SIGPIPE" /\ replies' = replies
  BY <1>2 DEF FinalInv, FinalBut
<1>3. CASE AfterSend(c) /\ UNCHANGED fault
  <2>1. /\ \A d \in Conn : d # c => at'[d] = at[d] /\ ctx'[d] = ctx[d]
        /\ \/ at'[c] = "recv" /\ out[c].then = "loop" /\ ctx[c].keep
           \/ /\ at'[c] = "close" /\ ctx'[c] = ctx[c]
              /\ out[c].then = "break" \/ (out[c].then = "loop" /\ ~ ctx[c].keep)
           \/ at'[c] = "websocket" /\ ctx'[c] = ctx[c] /\ out[c].then = "websocket"
    BY <1>h, <1>3, AfterSendCases
  <2>2. Closing(c) /\ FinalBut(c)
    BY <1>h DEF FinalInv, Up
  <2>3. FinalBut(c)' /\ Closing(c)'
    <3>1. CASE replies'[c] = replies[c]
      BY <1>h, <2>1, <2>2, <3>1 DEF FinalBut, Closing
    <3>2. CASE out[c].reply.kind # "frame" /\ replies'[c] = Append(replies[c], out[c].reply)
      <4>1. replies[c] \in Seq(Reply) /\ out[c].reply \in Reply
        BY <1>h DEF HttpTypes, Out
      <4> DEFINE q == replies[c]
                 a == out[c].reply
                 p == replies'[c]
      <4>2. /\ Len(q) \in Nat /\ Len(p) = Len(q) + 1 /\ p[Len(p)] = a
            /\ \A i \in 1 .. Len(q) : p[i] = q[i]
        BY <3>2, <4>1
      <4>3. Len(q) > 0 => ~ Final(q[Len(q)])
        BY <1>h, <2>2, <3>2 DEF Closing
      <4>4. \A i \in 1 .. Len(q) : ~ Final(q[i])
        <5>1. \A i \in 1 .. Len(q) - 1 : ~ Final(q[i])
          BY <2>2 DEF FinalBut
        <5>2. \A i \in 1 .. Len(q) : i \in 1 .. Len(q) - 1 \/ (i = Len(q) /\ Len(q) > 0)
          BY <4>2
        <5> QED
          BY <4>3, <5>1, <5>2
      <4>5. FinalBut(c)'
        <5>1. \A i \in 1 .. Len(p) - 1 : ~ Final(p[i])
          BY <4>2, <4>4
        <5> QED
          BY <5>1 DEF FinalBut
      <4>6. Final(a) =>
               \/ at'[c] = "close"
               \/ at'[c] = "websocket" /\ ~ ctx'[c].keep
        BY <1>h, <2>1, <2>2 DEF Final, Closing
      <4>7. Closing(c)'
        BY <2>1, <4>2, <4>6 DEF Closing
      <4> QED
        BY <4>5, <4>7
    <3> QED
      BY <1>h, <3>1, <3>2 DEF send_response, send_response_fails, HttpTypes
  <2>4. \A d \in Conn : d # c => FinalBut(d)' /\ (fault' = "none" => Closing(d)')
    BY <1>1, <1>3, <2>1, FinalSame
  <2> QED
    BY <2>3, <2>4 DEF FinalInv
<1> QED
  BY <1>2, <1>3 DEF send_response, send_response_fails

LEMMA FinalRest ==
    ASSUME TypeInv, FinalInv, NEW c \in Conn,
           \/ on_accept_eof(c) \/ on_accept_error(c) \/ check_client_close(c)
           \/ websocket_handler_returns(c) \/ recv_frame(c) \/ start(c)
           \/ client_connects(c) \/ client_requests(c) \/ client_sends_frame(c)
           \/ client_ends(c)
    PROVE  FinalInv'
<1>h. HttpTypes /\ Up /\ FinalBut(c) /\ Closing(c)
  BY DEF TypeInv, FinalInv, Up, on_accept_eof, on_accept_error, check_client_close,
         websocket_handler_returns, recv_frame, start, client_connects, client_requests,
         client_sends_frame, client_ends
<1>1. CASE websocket_handler_returns(c)
  <2>1. /\ \A d \in Conn : d # c => at'[d] = at[d] /\ ctx'[d] = ctx[d]
        /\ at[c] = "websocket" /\ UNCHANGED <<out, fault, replies>>
        /\ (at'[c] = "recv" /\ ctx[c].keep) \/ at'[c] = "close"
    BY <1>h, <1>1, NextTurnCases DEF websocket_handler_returns
  <2>2. FinalBut(c)' /\ Closing(c)'
    BY <1>h, <2>1 DEF FinalBut, Closing
  <2>3. \A d \in Conn : d # c => FinalBut(d)' /\ (fault' = "none" => Closing(d)')
    BY <2>1, FinalSame
  <2> QED
    BY <2>2, <2>3 DEF FinalInv
<1>2. CASE on_accept_eof(c) \/ check_client_close(c)
  <2>1. /\ at[c] \in {"recv", "close"} /\ UNCHANGED <<ctx, out, fault, replies>>
        /\ at'[c] \in {"close", "freed"} /\ \A d \in Conn : d # c => at'[d] = at[d]
    BY <1>h, <1>2 DEF on_accept_eof, check_client_close, HttpTypes
  <2>2. FinalBut(c)' /\ Closing(c)'
    BY <1>h, <2>1 DEF FinalBut, Closing
  <2>3. \A d \in Conn : d # c => FinalBut(d)' /\ (fault' = "none" => Closing(d)')
    BY <2>1, FinalSame
  <2> QED
    BY <2>2, <2>3 DEF FinalInv
<1>3. CASE start(c) \/ client_connects(c)
  <2>1. /\ at[c] \in {"none", "backlog"} /\ UNCHANGED <<out, fault, replies>>
        /\ at'[c] \in {"recv", "backlog"}
        /\ \A d \in Conn : d # c => at'[d] = at[d] /\ ctx'[d] = ctx[d]
    BY <1>h, <1>3 DEF start, client_connects, HttpTypes
  <2>2. FinalBut(c)' /\ Closing(c)'
    BY <1>h, <2>1 DEF FinalBut, Closing
  <2>3. \A d \in Conn : d # c => FinalBut(d)' /\ (fault' = "none" => Closing(d)')
    BY <2>1, FinalSame
  <2> QED
    BY <2>2, <2>3 DEF FinalInv
<1>4. CASE \/ on_accept_error(c) \/ recv_frame(c) \/ client_requests(c)
           \/ client_sends_frame(c) \/ client_ends(c)
  <2>1. UNCHANGED <<at, ctx, out, replies>>
    BY <1>4 DEF on_accept_error, recv_frame, client_requests, client_sends_frame, client_ends
  <2>2. \A d \in Conn : FinalBut(d)' /\ (fault' = "none" => Closing(d)')
    BY <1>h, <2>1, FinalSame DEF Up
  <2> QED
    BY <2>2 DEF FinalInv
<1> QED
  BY <1>1, <1>2, <1>3, <1>4

LEMMA FinalStep ==
    ASSUME TypeInv, FinalInv, [HttpNext]_vars
    PROVE  FinalInv'
<1>1. CASE shutdown
  BY <1>1 DEF shutdown, FinalInv, FinalBut, Closing
<1>2. ASSUME NEW c \in Conn, ConnNext(c) PROVE FinalInv'
  BY <1>2, FinalAccept, FinalSend, FinalHandlers, FinalRest DEF ConnNext, ConnStep
<1>3. CASE UNCHANGED vars
  BY <1>3 DEF vars, FinalInv, FinalBut, Closing
<1> QED
  BY <1>1, <1>2, <1>3 DEF HttpNext, ConnNext

\* The refusal of a websocket, and a reply that says Connection: Close, end a
\* connection: no client hears anything else after it, however its bytes
\* arrive, whatever it sends, and whatever its websocket handler does before
\* it returns.
THEOREM NothingAfterFinalReply == HttpSpec => []NothingAfterFinal
<1>1. HttpInit => FinalInv
  BY DEF HttpInit, FinalInv, FinalBut, Closing
<1>2. TypeInv /\ FinalInv => NothingAfterFinal
  <2> SUFFICES ASSUME TypeInv, FinalInv PROVE NothingAfterFinal
    OBVIOUS
  <2>1. ASSUME NEW c \in Conn, NEW i \in 1 .. Len(replies[c]) - 1
        PROVE  replies[c][i].kind # "400" /\ replies[c][i].keep
    BY DEF FinalInv, FinalBut, Final
  <2> QED
    BY <2>1 DEF NothingAfterFinal
<1> QED
  BY <1>1, <1>2, TypeInit, TypeStep, FinalStep, PTL DEF HttpSpec

-----------------------------------------------------------------------------
(* Requests that are read one by one are answered in order *)

\* The requests in a stream: g[i] of the requests of s have begun by the i-th
\* part of q, t before its first, and a line begins the next one.
Labels(q, s, t, g) ==
    /\ g \in [0 .. Len(q) -> 0 .. Len(s)] /\ g[0] = t /\ g[Len(q)] = Len(s)
    /\ \A i \in 1 .. Len(q) : g[i] = g[i - 1] + (IF q[i].k = "line" THEN 1 ELSE 0)
    /\ \A i \in 1 .. Len(q) : q[i].k = "line" => q[i].r = s[g[i]]
Pipeline(q, s, t) == \E g : Labels(q, s, t, g)

\* Whether a request has been taken from the stream and not answered.
Pending(c) == IF at[c] = "handler" \/ (at[c] = "send" /\ out[c].reply.kind # "frame")
              THEN 1 ELSE 0
Taken(c) == Len(replies[c]) + Pending(c)

Answered(c) ==
    /\ Len(replies[c]) <= Len(sent[c])
    /\ \A i \in 1 .. Len(replies[c]) : RouteFits(replies[c][i], sent[c], i)

\* While a connection is served: the stream goes on with the request after
\* the last one taken, whose method, or the last known one before it, is that
\* of the Ctx; whoever waits for a request has a Ctx without headers and a
\* parser at the beginning of one; and the request being answered is the last
\* one taken.
Serves(c) ==
    /\ Pipeline(rx[c], sent[c], Taken(c))
    /\ InForce(ctx[c].method, sent[c], Taken(c))
    /\ at[c] \in {"none", "backlog"} => Taken(c) = 0
    /\ at[c] = "recv" => ctx[c].headers = {} /\ ctx[c].expect = "line"
    /\ at[c] \in {"handler", "send", "websocket"} /\ ctx[c].keep => ctx[c].expect = "line"
    /\ at[c] = "handler" =>
          /\ Answer(sent[c][Taken(c)], ctx[c].method) = "page"
          /\ ctx[c].path = sent[c][Taken(c)].path
          /\ ctx[c].keep = sent[c][Taken(c)].keep
    /\ at[c] = "send" /\ out[c].reply.kind # "frame" =>
          RouteFits(out[c].reply, sent[c], Taken(c))
Served(c) == fault = "none" /\ client[c] # "reset" /\ at[c] \notin {"close", "freed"}
RoutedInv == \A c \in Conn : whole[c] => Answered(c) /\ (Served(c) => Serves(c))

\* What is left of a stream.
LEMMA LabelsShift ==
    ASSUME NEW q, NEW s, NEW t, NEW g, NEW n \in Nat, NEW p, Labels(q, s, t, g),
           Len(q) \in Nat, Len(s) \in Nat, n <= Len(q), Len(p) = Len(q) - n,
           \A i \in 1 .. Len(q) - n : p[i] = q[i + n]
    PROVE  Pipeline(p, s, g[n])
<1> DEFINE f == [i \in 0 .. Len(p) |-> g[i + n]]
<1>1. \A i \in 0 .. Len(p) : i + n \in 0 .. Len(q) /\ g[i + n] \in 0 .. Len(s) /\ f[i] = g[i + n]
  BY DEF Labels
<1>2. f \in [0 .. Len(p) -> 0 .. Len(s)]
  BY <1>1
<1>3. f[0] = g[n] /\ f[Len(p)] = Len(s)
  <2>1. 0 \in 0 .. Len(p) /\ Len(p) \in 0 .. Len(p) /\ 0 + n = n /\ Len(p) + n = Len(q)
    OBVIOUS
  <2>2. f[0] = g[0 + n] /\ f[Len(p)] = g[Len(p) + n]
    BY <1>1, <2>1
  <2> QED
    BY <2>1, <2>2 DEF Labels
<1>4. ASSUME NEW i \in 1 .. Len(p)
      PROVE  /\ f[i] = f[i - 1] + (IF p[i].k = "line" THEN 1 ELSE 0)
             /\ p[i].k = "line" => p[i].r = s[f[i]]
  <2>1. /\ i \in 0 .. Len(p) /\ i - 1 \in 0 .. Len(p) /\ i + n \in 1 .. Len(q)
        /\ (i + n) - 1 = (i - 1) + n /\ i \in 1 .. Len(q) - n
    OBVIOUS
  <2>2. f[i] = g[i + n] /\ f[i - 1] = g[(i - 1) + n] /\ p[i] = q[i + n]
    BY <1>1, <2>1
  <2>3. /\ g[i + n] = g[(i + n) - 1] + (IF q[i + n].k = "line" THEN 1 ELSE 0)
        /\ q[i + n].k = "line" => q[i + n].r = s[g[i + n]]
    BY <2>1 DEF Labels
  <2> HIDE DEF f
  <2> QED
    BY <2>1, <2>2, <2>3
<1> HIDE DEF f
<1>5. Labels(p, s, g[n], f)
  BY <1>2, <1>3, <1>4 DEF Labels
<1> QED
  BY <1>5 DEF Pipeline

\* A whole request is read from the stream: it is the next one.
LEMMA PipelineRead ==
    ASSUME NEW q \in Seq(Part), NEW s, Len(s) \in Nat, NEW t, Pipeline(q, s, t),
           NEW r \in Request, NEW n \in 1 .. Len(q), Len(Parts(r)) = n,
           \A i \in 1 .. n : q[i] = Parts(r)[i],
           NEW p, Len(p) = Len(q) - n, \A i \in 1 .. Len(q) - n : p[i] = q[i + n]
    PROVE  t + 1 \in 1 .. Len(s) /\ r = s[t + 1] /\ Pipeline(p, s, t + 1)
<1>1. PICK g : Labels(q, s, t, g)
  BY DEF Pipeline
<1>2. /\ n \in {2, 3} /\ q[1] = [k |-> "line", r |-> r] /\ q[2] = [k |-> "headers", r |-> r]
      /\ n = 3 => q[3] = [k |-> "body", r |-> r]
  <2>1. Len(Parts(r)) \in {2, 3}
    BY PartsOf
  <2>2. n \in {2, 3} /\ 1 \in 1 .. n /\ 2 \in 1 .. n /\ (n = 3 => 3 \in 1 .. n)
    BY <2>1
  <2> QED
    BY <2>2, PartsOf
<1>3. /\ Len(q) \in Nat /\ 0 \in 0 .. Len(q) /\ 1 \in 1 .. Len(q) /\ 2 \in 1 .. Len(q)
      /\ n = 3 => 3 \in 1 .. Len(q)
  BY <1>2
<1> DEFINE L == Len(q)
           M == Len(s)
<1>l. /\ g \in [0 .. L -> 0 .. M] /\ g[0] = t
      /\ \A i \in 1 .. L : g[i] = g[i - 1] + (IF q[i].k = "line" THEN 1 ELSE 0)
      /\ \A i \in 1 .. L : q[i].k = "line" => q[i].r = s[g[i]]
  BY <1>1 DEF Labels
<1>m. /\ L \in Nat /\ M \in Nat /\ 0 \in 0 .. L /\ 1 \in 1 .. L /\ 2 \in 1 .. L
      /\ 1 \in 0 .. L
      /\ n = 3 => 3 \in 1 .. L
  BY <1>3
<1> HIDE DEF L, M
<1>4. t \in 0 .. M /\ g[0] = t /\ g[1] \in 0 .. M
  BY <1>l, <1>m
<1>5. \A i \in 1 .. L : /\ g[i] = g[i - 1] + (IF q[i].k = "line" THEN 1 ELSE 0)
                        /\ q[i].k = "line" => q[i].r = s[g[i]]
  BY <1>l
<1>6. q[1].k = "line" /\ q[1].r = r /\ q[2].k # "line" /\ (n = 3 => q[3].k # "line")
  BY <1>2
<1>7. g[1] = t + 1 /\ r = s[g[1]]
  BY <1>m, <1>4, <1>5, <1>6
<1>8. g[2] = t + 1
  <2>1. g[2] = g[2 - 1] + 0
    BY <1>m, <1>5, <1>6
  <2> QED
    BY <2>1, <1>4, <1>7
<1>9. n = 3 => g[3] = t + 1
  <2>1. n = 3 => g[3] = g[3 - 1] + 0
    BY <1>m, <1>5, <1>6
  <2> QED
    BY <2>1, <1>4, <1>8
<1>10. g[n] = t + 1
  BY <1>2, <1>8, <1>9
<1>11. n \in Nat /\ n <= Len(q)
  BY <1>3
<1>12. Pipeline(p, s, g[n])
  BY <1>1, <1>3, <1>11, LabelsShift
<1>13. t + 1 \in 1 .. M
  BY <1>4, <1>7, <1>m
<1> QED
  BY <1>7, <1>10, <1>12, <1>13 DEF M

\* Frames are read from the stream: the next request is still the next one.
LEMMA PipelineFrames ==
    ASSUME NEW q \in Seq(Part), NEW s, Len(s) \in Nat, NEW t, Pipeline(q, s, t),
           NEW n \in 1 .. Len(q), \A i \in 1 .. n : q[i].k = "frame",
           NEW p, Len(p) = Len(q) - n, \A i \in 1 .. Len(q) - n : p[i] = q[i + n]
    PROVE  Pipeline(p, s, t)
<1>1. PICK g : Labels(q, s, t, g)
  BY DEF Pipeline
<1>l. Len(q) \in Nat
  OBVIOUS
<1> DEFINE Bad == {i \in 0 .. n : g[i] # t}
<1>2. Bad = {}
  <2> SUFFICES ASSUME Bad # {} PROVE FALSE
    OBVIOUS
  <2>1. Bad \subseteq Nat
    BY <1>l
  <2>2. PICK i \in Bad : \A j \in Bad : i <= j
    BY <2>1, LeastNat
  <2>3. i # 0
    BY <2>2, <1>1 DEF Labels
  <2>4. i \in 1 .. n /\ i \in 1 .. Len(q) /\ i - 1 \in 0 .. n /\ i - 1 \in 0 .. Len(q) /\ ~ (i <= i - 1)
    BY <2>2, <2>3, <1>l
  <2>5. g[i - 1] = t /\ g[i - 1] \in 0 .. Len(s)
    BY <2>2, <2>4, <1>1 DEF Labels
  <2>6. g[i] = g[i - 1] + 0
    BY <2>4, <1>1 DEF Labels
  <2> QED
    BY <2>2, <2>5, <2>6
<1>3. g[n] = t
  BY <1>2, <1>l
<1>4. n \in Nat /\ n <= Len(q)
  BY <1>l
<1>5. Pipeline(p, s, g[n])
  BY <1>1, <1>4, <1>l, LabelsShift
<1> QED
  BY <1>3, <1>5

\* A part that begins no request is sent.
LEMMA PipelineMore ==
    ASSUME NEW q \in Seq(Part), NEW s, Len(s) \in Nat, NEW t, Pipeline(q, s, t),
           NEW e, e.k # "line", NEW p, Len(p) = Len(q) + 1, p[Len(q) + 1] = e,
           \A i \in 1 .. Len(q) : p[i] = q[i]
    PROVE  Pipeline(p, s, t)
<1>1. PICK g : Labels(q, s, t, g)
  BY DEF Pipeline
<1> DEFINE L == Len(q)
           f == [i \in 0 .. L + 1 |-> IF i = L + 1 THEN Len(s) ELSE g[i]]
<1>2. L \in Nat
  OBVIOUS
<1>3. /\ g \in [0 .. L -> 0 .. Len(s)] /\ g[0] = t /\ g[L] = Len(s)
      /\ \A i \in 1 .. L : g[i] = g[i - 1] + (IF q[i].k = "line" THEN 1 ELSE 0)
      /\ \A i \in 1 .. L : q[i].k = "line" => q[i].r = s[g[i]]
  BY <1>1 DEF Labels
<1> HIDE DEF L
<1>4. /\ f[L + 1] = Len(s) /\ \A i \in 0 .. L : f[i] = g[i]
  BY <1>2
<1>5. f \in [0 .. L + 1 -> 0 .. Len(s)]
  BY <1>2, <1>3
<1> HIDE DEF f
<1>6. ASSUME NEW i \in 1 .. L + 1
      PROVE  /\ f[i] = f[i - 1] + (IF p[i].k = "line" THEN 1 ELSE 0)
             /\ p[i].k = "line" => p[i].r = s[f[i]]
  <2>1. CASE i = L + 1
    <3>1. p[i].k # "line" /\ i - 1 = L /\ L \in 0 .. L
      BY <1>2, <2>1 DEF L
    <3> QED
      BY <1>3, <1>4, <2>1, <3>1
  <2>2. CASE i # L + 1
    <3>1. i \in 1 .. L /\ i \in 0 .. L /\ i - 1 \in 0 .. L
      BY <1>2, <2>2
    <3>2. p[i] = q[i]
      BY <3>1 DEF L
    <3> QED
      BY <1>3, <1>4, <3>1, <3>2
  <2> QED
    BY <2>1, <2>2
<1>7. Labels(p, s, t, f)
  <2>1. 0 \in 0 .. L
    BY <1>2
  <2>2. Len(p) = L + 1
    BY DEF L
  <2> QED
    BY <1>3, <1>4, <1>5, <1>6, <2>1, <2>2 DEF Labels
<1> QED
  BY <1>7 DEF Pipeline

\* The line of a request is sent.
LEMMA PipelineLine ==
    ASSUME NEW q \in Seq(Part), NEW T, NEW s \in Seq(T), NEW t, Pipeline(q, s, t),
           NEW r \in T, NEW e, e.k = "line", e.r = r,
           NEW p, Len(p) = Len(q) + 1, p[Len(q) + 1] = e, \A i \in 1 .. Len(q) : p[i] = q[i]
    PROVE  Pipeline(p, Append(s, r), t)
<1>1. PICK g : Labels(q, s, t, g)
  BY DEF Pipeline
<1> DEFINE L == Len(q)
           M == Len(s)
           u == Append(s, r)
           f == [i \in 0 .. L + 1 |-> IF i = L + 1 THEN M + 1 ELSE g[i]]
<1>2. /\ L \in Nat /\ M \in Nat /\ Len(u) = M + 1 /\ u[M + 1] = r
      /\ \A j \in 1 .. M : u[j] = s[j]
  OBVIOUS
<1>3. /\ g \in [0 .. L -> 0 .. M] /\ g[0] = t /\ g[L] = M
      /\ \A i \in 1 .. L : g[i] = g[i - 1] + (IF q[i].k = "line" THEN 1 ELSE 0)
      /\ \A i \in 1 .. L : q[i].k = "line" => q[i].r = s[g[i]]
  BY <1>1 DEF Labels
<1> HIDE DEF L, M, u
<1>4. /\ f[L + 1] = M + 1 /\ \A i \in 0 .. L : f[i] = g[i]
  BY <1>2
<1>5. f \in [0 .. L + 1 -> 0 .. M + 1]
  BY <1>2, <1>3
<1> HIDE DEF f
<1>6. ASSUME NEW i \in 1 .. L + 1
      PROVE  /\ f[i] = f[i - 1] + (IF p[i].k = "line" THEN 1 ELSE 0)
             /\ p[i].k = "line" => p[i].r = u[f[i]]
  <2>1. CASE i = L + 1
    <3>1. p[i].k = "line" /\ p[i].r = r /\ i - 1 = L /\ L \in 0 .. L
      BY <1>2, <2>1 DEF L
    <3> QED
      BY <1>2, <1>3, <1>4, <2>1, <3>1
  <2>2. CASE i # L + 1
    <3>1. i \in 1 .. L /\ i \in 0 .. L /\ i - 1 \in 0 .. L
      BY <1>2, <2>2
    <3>2. p[i] = q[i]
      BY <3>1 DEF L
    <3>3. f[i] = f[i - 1] + (IF p[i].k = "line" THEN 1 ELSE 0)
      BY <1>3, <1>4, <3>1, <3>2
    <3>4. p[i].k = "line" => g[i] \in 1 .. M
      <4>1. g[i] \in 0 .. M /\ g[i - 1] \in 0 .. M
        BY <1>3, <3>1
      <4>2. p[i].k = "line" => g[i] = g[i - 1] + 1
        BY <1>3, <3>1, <3>2
      <4> QED
        BY <1>2, <4>1, <4>2
    <3>5. p[i].k = "line" => p[i].r = s[g[i]] /\ u[g[i]] = s[g[i]]
      BY <1>2, <1>3, <3>1, <3>2, <3>4
    <3> QED
      BY <1>4, <3>1, <3>3, <3>5
  <2> QED
    BY <2>1, <2>2
<1>7. Labels(p, u, t, f)
  <2>1. 0 \in 0 .. L
    BY <1>2
  <2>2. Len(p) = L + 1
    BY DEF L
  <2> QED
    BY <1>2, <1>3, <1>4, <1>5, <1>6, <2>1, <2>2 DEF Labels
<1> QED
  BY <1>7 DEF Pipeline, u

\* A request is sent: its line, its headers and perhaps its body.
LEMMA PipelineRequest ==
    ASSUME NEW q \in Seq(Part), NEW s \in Seq(Request), NEW t, Pipeline(q, s, t),
           NEW r \in Request
    PROVE  Pipeline(q \o Parts(r), Append(s, r), t)
<1> DEFINE ps == Parts(r)
           u == Append(s, r)
           L == Len(q)
           q1 == Append(q, ps[1])
           q2 == Append(q1, ps[2])
           q3 == Append(q2, ps[3])
<1>1. /\ ps \in Seq(Part) /\ Len(ps) \in {2, 3} /\ ps[1] = [k |-> "line", r |-> r]
      /\ ps[2] = [k |-> "headers", r |-> r]
      /\ Len(ps) = 3 => ps[3] = [k |-> "body", r |-> r]
  BY PartsOf
<1> HIDE DEF ps
<1>2. /\ ps[1].k = "line" /\ ps[1].r = r /\ ps[2].k # "line" /\ (Len(ps) = 3 => ps[3].k # "line")
  <2>1. ps[1].k = "line" /\ ps[1].r = r /\ ps[2].k = "headers" /\ (Len(ps) = 3 => ps[3].k = "body")
    BY <1>1
  <2> QED
    BY <2>1
<1>3. ps[1] \in Part /\ ps[2] \in Part /\ (Len(ps) = 3 => ps[3] \in Part)
  BY <1>1 DEF Part
<1>4. u \in Seq(Request) /\ Len(u) \in Nat /\ L \in Nat
  OBVIOUS
<1>c. /\ q \o ps \in Seq(Part) /\ Len(q \o ps) = L + Len(ps)
      /\ \A i \in 1 .. L + Len(ps) : (q \o ps)[i] = IF i <= L THEN q[i] ELSE ps[i - L]
  BY <1>1, ConcatProperties
<1> HIDE DEF ps
<1>5. /\ q1 \in Seq(Part) /\ Len(q1) = L + 1 /\ q1[L + 1] = ps[1]
      /\ \A i \in 1 .. L : q1[i] = q[i]
  BY <1>3
<1> HIDE DEF q1
<1>6. /\ q2 \in Seq(Part) /\ Len(q2) = Len(q1) + 1 /\ q2[Len(q1) + 1] = ps[2]
      /\ \A i \in 1 .. Len(q1) : q2[i] = q1[i]
  BY <1>3, <1>5
<1>7. Pipeline(q1, u, t)
  BY <1>2, <1>5, PipelineLine
<1> HIDE DEF u, q2
<1>8. Pipeline(q2, u, t)
  BY <1>2, <1>4, <1>5, <1>6, <1>7, PipelineMore
<1>9. Len(q2) = L + 2
  BY <1>4, <1>5, <1>6
<1>10. \A i \in 1 .. L + 2 : q2[i] = (q \o ps)[i]
  <2> SUFFICES ASSUME NEW i \in 1 .. L + 2 PROVE q2[i] = (q \o ps)[i]
    OBVIOUS
  <2>1. i \in 1 .. L \/ i = L + 1 \/ i = L + 2
    BY <1>4
  <2>2. CASE i \in 1 .. L
    BY <1>1, <1>4, <1>5, <1>6, <1>c, <2>2
  <2>3. CASE i = L + 1
    <3>1. i \in 1 .. Len(q1) /\ i \in 1 .. L + Len(ps) /\ ~ (i <= L) /\ i - L = 1
      BY <1>1, <1>4, <1>5, <2>3
    <3> QED
      BY <1>5, <1>6, <1>c, <2>3, <3>1
  <2>4. CASE i = L + 2
    <3>1. i = Len(q1) + 1 /\ i \in 1 .. L + Len(ps) /\ ~ (i <= L) /\ i - L = 2
      BY <1>1, <1>4, <1>5, <2>4
    <3> QED
      BY <1>6, <1>c, <3>1
  <2> QED
    BY <2>1, <2>2, <2>3, <2>4
<1>11. CASE Len(ps) = 2
  <2>1. q \o ps = q2
    <3>1. Len(q \o ps) = Len(q2) /\ \A i \in 1 .. Len(q2) : q2[i] = (q \o ps)[i]
      BY <1>4, <1>9, <1>10, <1>11, <1>c
    <3> QED
      BY <1>6, <1>c, <3>1, SeqEqual
  <2> QED
    BY <1>8, <2>1 DEF ps, u
<1>12. CASE Len(ps) = 3
  <2>1. Len(q \o ps) = Len(q2) + 1 /\ (q \o ps)[Len(q2) + 1] = ps[3]
    <3>1. L + 3 \in 1 .. L + Len(ps) /\ ~ (L + 3 <= L) /\ (L + 3) - L = 3 /\ Len(q2) + 1 = L + 3
      BY <1>4, <1>9, <1>12
    <3> QED
      BY <1>c, <1>12, <3>1
  <2>2. \A i \in 1 .. Len(q2) : (q \o ps)[i] = q2[i]
    BY <1>9, <1>10
  <2>3. Pipeline(q \o ps, u, t)
    BY <1>2, <1>4, <1>6, <1>8, <1>12, <2>1, <2>2, PipelineMore
  <2> QED
    BY <2>3 DEF ps, u
<1> QED
  BY <1>1, <1>11, <1>12

\* The method in force depends on the requests up to the last one only.
LEMMA InForceSame ==
    ASSUME NEW m, NEW s, NEW u, NEW i \in Nat, \A j \in 1 .. i : s[j] = u[j], InForce(m, s, i)
    PROVE  InForce(m, u, i)
<1>1. CASE m = Null /\ \A j \in 1 .. i : s[j].method \notin Known
  <2>1. \A j \in 1 .. i : u[j].method \notin Known
    BY <1>1
  <2> QED
    BY <1>1, <2>1 DEF InForce
<1>2. ASSUME m \in Known, NEW j \in 1 .. i, s[j].method = m,
             \A k \in (j + 1) .. i : s[k].method \notin Known
      PROVE  InForce(m, u, i)
  <2>1. \A k \in (j + 1) .. i : k \in 1 .. i
    OBVIOUS
  <2>2. u[j].method = m /\ \A k \in (j + 1) .. i : u[k].method \notin Known
    BY <1>2, <2>1
  <2> QED
    BY <1>2, <2>2 DEF InForce
<1> QED
  BY <1>1, <1>2 DEF InForce

\* The next request, with a method the server knows or another one.
LEMMA InForceNext ==
    ASSUME NEW x, NEW s, NEW t \in Nat, InForce(x.method, s, t)
    PROVE  InForce(set_http_method(x, s[t + 1].method), s, t + 1)
<1>1. CASE s[t + 1].method \in Known
  <2>1. t + 1 \in 1 .. (t + 1) /\ \A k \in ((t + 1) + 1) .. (t + 1) : FALSE
    OBVIOUS
  <2>2. set_http_method(x, s[t + 1].method) = s[t + 1].method
    BY <1>1 DEF set_http_method, Known
  <2> QED
    BY <1>1, <2>1, <2>2 DEF InForce
<1>2. CASE s[t + 1].method \notin Known
  <2>1. set_http_method(x, s[t + 1].method) = x.method
    BY <1>2 DEF set_http_method, Known
  <2>2. CASE x.method = Null /\ \A j \in 1 .. t : s[j].method \notin Known
    <3>1. \A j \in 1 .. (t + 1) : j \in 1 .. t \/ j = t + 1
      OBVIOUS
    <3>2. \A j \in 1 .. (t + 1) : s[j].method \notin Known
      BY <1>2, <2>2, <3>1
    <3> QED
      BY <2>1, <2>2, <3>2 DEF InForce
  <2>3. ASSUME x.method \in Known, NEW j \in 1 .. t, s[j].method = x.method,
               \A k \in (j + 1) .. t : s[k].method \notin Known
        PROVE  InForce(x.method, s, t + 1)
    <3>1. j \in 1 .. (t + 1) /\ \A k \in (j + 1) .. (t + 1) : k \in (j + 1) .. t \/ k = t + 1
      OBVIOUS
    <3>2. \A k \in (j + 1) .. (t + 1) : s[k].method \notin Known
      BY <1>2, <2>3, <3>1
    <3> QED
      BY <2>3, <3>1, <3>2 DEF InForce
  <2> QED
    BY <2>1, <2>2, <2>3 DEF InForce
<1> QED
  BY <1>1, <1>2

\* The Ctx of a whole request is answered as the request asks, with the method
\* in force.
LEMMA AnswerWhole ==
    ASSUME NEW x \in Ctx, NEW r \in Request, x.expect = "line", x.headers = {}
    PROVE  LET y == parse(x, Parts(r)) IN
           /\ AnswerTo(y) = Answer(r, y.method) /\ y.path = r.path /\ y.keep = r.keep
           /\ y.method = set_http_method(x, r.method)
           /\ y.keep => y.expect = "line"
<1> DEFINE y == parse(x, Parts(r))
<1>1. /\ y.path = r.path /\ y.headers = r.headers /\ y.keep = r.keep
      /\ y.method = set_http_method(x, r.method)
      /\ y.keep => y.expect = "line"
  BY ParseWhole
<1> HIDE DEF y
<1>2. AnswerTo(y) = Answer(r, y.method)
  BY <1>1 DEF AnswerTo, Answer
<1> QED
  BY <1>1, <1>2 DEF y

\* A connection that a step does not touch, or only kills.
LEMMA RoutedSame ==
    ASSUME RoutedInv, NEW d \in Conn, fault' = "none" => fault = "none",
           at'[d] = at[d], ctx'[d] = ctx[d], out'[d] = out[d], rx'[d] = rx[d],
           sent'[d] = sent[d], replies'[d] = replies[d],
           client'[d] # "reset" => client[d] # "reset", whole'[d] => whole[d]
    PROVE  whole'[d] => Answered(d)' /\ (Served(d)' => Serves(d)')
<1> SUFFICES ASSUME whole'[d] PROVE Answered(d)' /\ (Served(d)' => Serves(d)')
  OBVIOUS
<1>1. Answered(d) /\ (Served(d) => Serves(d))
  BY DEF RoutedInv
<1>2. Answered(d)'
  BY <1>1 DEF Answered
<1>3. Served(d)' => Served(d)
  BY DEF Served
<1>4. Serves(d) => Serves(d)'
  BY DEF Serves, Taken, Pending
<1> QED
  BY <1>1, <1>2, <1>3, <1>4

\* A request is read and dispatched.
LEMMA RoutedAccept ==
    ASSUME TypeInv, RoutedInv, NEW c \in Conn, on_accept(c)
    PROVE  RoutedInv'
<1>1. PICK n \in Chunks(c) :
        /\ Take(c, n)
        /\ whole' = [whole EXCEPT ![c] =
                       @ /\ SubSeq(rx[c], 1, n)[1].k = "line"
                         /\ SubSeq(rx[c], 1, n) = Parts(SubSeq(rx[c], 1, n)[1].r)]
        /\ Dispatch(c, parse(ctx[c], SubSeq(rx[c], 1, n)))
  BY DEF on_accept
<1> DEFINE ps == SubSeq(rx[c], 1, n)
           x == parse(ctx[c], ps)
           w == whole[c] /\ ps[1].k = "line" /\ ps = Parts(ps[1].r)
<1>h. HttpTypes /\ Up /\ at[c] = "recv"
  BY DEF TypeInv, on_accept
<1>u. UNCHANGED <<client, sent, replies>>
  BY DEF on_accept, clientVars
<1>2. /\ n \in 1 .. Len(rx[c]) /\ Len(rx[c]) \in Nat /\ ps \in Seq(Part) /\ Len(ps) = n
      /\ \A i \in 1 .. n : ps[i] = rx[c][i]
      /\ Len(rx'[c]) = Len(rx[c]) - n
      /\ \A i \in 1 .. Len(rx[c]) - n : rx'[c][i] = rx[c][i + n]
      /\ \A d \in Conn : d # c => rx'[d] = rx[d]
  BY <1>h, <1>1, TakeEffect
<1>3. ctx[c] \in Ctx /\ rx[c] \in Seq(Part) /\ sent[c] \in Seq(Request)
  BY <1>h DEF HttpTypes
<1>4. x \in Ctx /\ Dispatch(c, x)
  BY <1>1, <1>2, <1>3, ParseType
<1>5. whole'[c] = w /\ \A d \in Conn : d # c => whole'[d] = whole[d]
  BY <1>h, <1>1 DEF HttpTypes
<1>6. ASSUME NEW d \in Conn, d # c PROVE whole'[d] => Answered(d)' /\ (Served(d)' => Serves(d)')
  <2>1. /\ at'[d] = at[d] /\ ctx'[d] = ctx[d] /\ out'[d] = out[d]
        /\ fault' = "none" => fault = "none"
    <3>1. \A y \in Ctx : \A kind, then : end(c, y, kind, then) =>
             at'[d] = at[d] /\ ctx'[d] = ctx[d] /\ out'[d] = out[d]
      BY <1>h, <1>6 DEF end, HttpTypes
    <3> HIDE DEF x
    <3> QED
      BY <1>h, <1>4, <1>6, <3>1, DispatchCases DEF HttpTypes, Up
  <2> QED
    BY <1>2, <1>5, <1>6, <1>u, <2>1, RoutedSame
<1>7. ASSUME whole'[c] PROVE Answered(c)' /\ (Served(c)' => Serves(c)')
  <2>1. whole[c] /\ ps[1].k = "line" /\ ps = Parts(ps[1].r)
    BY <1>5, <1>7
  <2>2. Answered(c)'
    BY <1>u, <2>1 DEF RoutedInv, Answered
  <2> SUFFICES ASSUME Served(c)' PROVE Serves(c)'
    BY <2>2
  <2>3. Serves(c)
    BY <1>h, <1>u, <2>1 DEF RoutedInv, Served, Up
  <2> DEFINE r == ps[1].r
             t == Len(replies[c])
  <2>4. r \in Request
    <3> HIDE DEF ps
    <3>1. 1 \in 1 .. Len(ps) /\ ps \in Seq(Part)
      BY <1>2
    <3>2. ps[1] \in Part
      BY <3>1
    <3> QED
      BY <2>1, <3>2 DEF Part, Frame
  <2>5. t \in Nat /\ Taken(c) = t
    <3>1. replies[c] \in Seq(Reply)
      BY <1>h DEF HttpTypes
    <3>2. t \in Nat
      BY <3>1
    <3> HIDE DEF t
    <3>3. t + 0 = t
      BY <3>2
    <3> QED
      BY <1>h, <3>2, <3>3 DEF Taken, Pending, t
  <2>6. t + 1 \in 1 .. Len(sent[c]) /\ r = sent[c][t + 1] /\ Pipeline(rx'[c], sent[c], t + 1)
    <3>1. Pipeline(rx[c], sent[c], t) /\ Len(sent[c]) \in Nat
      BY <1>3, <2>3, <2>5 DEF Serves
    <3>2. Len(Parts(r)) = n /\ \A i \in 1 .. n : rx[c][i] = Parts(r)[i]
      BY <1>2, <2>1
    <3> HIDE DEF r, t, ps
    <3> QED
      BY <1>2, <1>3, <2>4, <3>1, <3>2, PipelineRead
  <2>7. /\ AnswerTo(x) = Answer(r, x.method) /\ x.path = r.path /\ x.keep = r.keep
        /\ x.method = set_http_method(ctx[c], r.method)
        /\ x.keep => x.expect = "line"
    <3>1. ctx[c].headers = {} /\ ctx[c].expect = "line"
      BY <1>h, <2>3 DEF Serves
    <3>2. x = parse(ctx[c], Parts(r))
      BY <2>1
    <3> HIDE DEF x, r
    <3> QED
      BY <1>3, <2>4, <3>1, <3>2, AnswerWhole
  <2> HIDE DEF x, r, t, ps, w
  <2>m. x.method \in Known \cup {Null} /\ InForce(x.method, sent[c], t + 1)
    <3>1. InForce(ctx[c].method, sent[c], t)
      BY <2>3, <2>5 DEF Serves
    <3>2. InForce(set_http_method(ctx[c], sent[c][t + 1].method), sent[c], t + 1)
      BY <2>5, <3>1, InForceNext
    <3> QED
      BY <1>4, <2>6, <2>7, <3>2 DEF Ctx, Known
  <2>8. CASE fault' = "null path"
    BY <2>8 DEF Served
  <2>9. CASE /\ AnswerTo(x) = "page"
             /\ at' = [at EXCEPT ![c] = "handler"] /\ ctx' = [ctx EXCEPT ![c] = x]
    <3>1. at'[c] = "handler" /\ ctx'[c] = x
      BY <1>h, <2>9 DEF HttpTypes
    <3>2. Taken(c)' = t + 1
      BY <1>u, <3>1 DEF Taken, Pending, t
    <3> QED
      BY <1>u, <2>6, <2>7, <2>9, <2>m, <3>1, <3>2 DEF Serves
  <2>10. CASE \E y \in Ctx, then \in {"loop", "break", "websocket"} :
                 /\ y.path = x.path /\ y.keep = x.keep /\ y.expect = x.expect
                 /\ y.method = x.method
                 /\ AnswerTo(x) \in {"file", "404", "400", "101"}
                 /\ end(c, y, AnswerTo(x), then)
    <3> DEFINE kind == AnswerTo(x)
    <3> HIDE DEF kind
    <3>1. PICK y \in Ctx, then \in {"loop", "break", "websocket"} :
                 /\ y.path = x.path /\ y.keep = x.keep /\ y.expect = x.expect
                 /\ y.method = x.method
                 /\ kind \in {"file", "404", "400", "101"}
                 /\ end(c, y, kind, then)
      BY <2>10 DEF kind
    <3>2. /\ at'[c] = "send" /\ ctx'[c] = y /\ out'[c].reply.kind = kind
          /\ out'[c].reply.keep = y.keep /\ out'[c].reply.path = y.path
      BY <1>h, <3>1, EndEffect
    <3>3. Taken(c)' = t + 1
      BY <1>u, <3>1, <3>2 DEF Taken, Pending, t
    <3>4. RouteFits(out'[c].reply, sent[c], t + 1)
      <4>1. /\ out'[c].reply.path = r.path /\ out'[c].reply.keep = r.keep
            /\ out'[c].reply.kind = Answer(r, x.method)
        BY <2>7, <3>1, <3>2 DEF kind
      <4> QED
        BY <2>6, <2>m, <4>1 DEF RouteFits
    <3>5. ctx'[c].keep => ctx'[c].expect = "line"
      BY <2>7, <3>1, <3>2
    <3>6. InForce(ctx'[c].method, sent[c], t + 1)
      BY <2>m, <3>1, <3>2
    <3> QED
      BY <1>u, <2>6, <3>2, <3>3, <3>4, <3>5, <3>6 DEF Serves
  <2> QED
    BY <1>4, <2>8, <2>9, <2>10, DispatchCases
<1> QED
  BY <1>6, <1>7 DEF RoutedInv

\* A handler hands its page, or a frame, to conn->send.
LEMMA RoutedHandlers ==
    ASSUME TypeInv, RoutedInv, NEW c \in Conn, handler_ends(c) \/ send_frame(c)
    PROVE  RoutedInv'
<1>h. HttpTypes /\ Up /\ ctx[c] \in Ctx /\ UNCHANGED <<client, sent, rx, replies, whole>>
  BY DEF TypeInv, HttpTypes, handler_ends, send_frame, clientVars
<1>1. PICK x \in Ctx, kind \in {"page", "frame"}, then \in {"loop", "websocket"} :
         /\ x.path = ctx[c].path /\ x.keep = ctx[c].keep /\ x.expect = ctx[c].expect
         /\ x.method = ctx[c].method
         /\ at[c] = IF kind = "page" THEN "handler" ELSE "websocket"
         /\ end(c, x, kind, then)
  <2>1. CASE handler_ends(c)
    <3>1. PICK x \in {ctx[c]} \cup {set_status(ctx[c], s) : s \in UserStatus} :
             end(c, x, "page", "loop")
      BY <2>1 DEF handler_ends
    <3>2. /\ x \in Ctx /\ x.path = ctx[c].path /\ x.keep = ctx[c].keep
          /\ x.expect = ctx[c].expect /\ x.method = ctx[c].method
      BY <1>h DEF set_status, Ctx
    <3> QED
      BY <2>1, <3>1, <3>2 DEF handler_ends
  <2>2. CASE send_frame(c)
    <3>1. end(c, ctx[c], "frame", "websocket") /\ at[c] = "websocket"
      BY <2>2 DEF send_frame
    <3> QED
      BY <1>h, <3>1
  <2> QED
    BY <2>1, <2>2
<1>2. /\ at'[c] = "send" /\ ctx'[c] = x /\ out'[c].reply.kind = kind
      /\ out'[c].reply.keep = x.keep /\ out'[c].reply.path = x.path /\ fault' = fault
      /\ \A d \in Conn : d # c => at'[d] = at[d] /\ ctx'[d] = ctx[d] /\ out'[d] = out[d]
  BY <1>h, <1>1, EndEffect
<1>3. ASSUME NEW d \in Conn, d # c PROVE whole'[d] => Answered(d)' /\ (Served(d)' => Serves(d)')
  BY <1>h, <1>2, <1>3, RoutedSame
<1>4. ASSUME whole'[c] PROVE Answered(c)' /\ (Served(c)' => Serves(c)')
  <2>1. Answered(c)'
    BY <1>h, <1>4 DEF RoutedInv, Answered
  <2> SUFFICES ASSUME Served(c)' PROVE Serves(c)'
    BY <2>1
  <2>2. Serves(c)
    BY <1>h, <1>1, <1>2, <1>4 DEF RoutedInv, Served, Up
  <2>3. Taken(c)' = Taken(c)
    BY <1>h, <1>1, <1>2 DEF Taken, Pending
  <2>4. Pipeline(rx[c], sent[c], Taken(c))' /\ (ctx'[c].keep => ctx'[c].expect = "line")
    BY <1>h, <1>1, <1>2, <2>2, <2>3 DEF Serves
  <2>5. InForce(ctx[c].method, sent[c], Taken(c)) /\ ctx'[c].method = ctx[c].method
    BY <1>1, <1>2, <2>2 DEF Serves
  <2>6. kind = "page" => RouteFits(out'[c].reply, sent[c], Taken(c))
    <3>1. ctx[c].method \in Known \cup {Null}
      BY <1>h DEF Ctx, Known
    <3>2. ASSUME kind = "page"
          PROVE  /\ out'[c].reply.path = sent[c][Taken(c)].path
                 /\ out'[c].reply.keep = sent[c][Taken(c)].keep
                 /\ out'[c].reply.kind = Answer(sent[c][Taken(c)], ctx[c].method)
      BY <1>1, <1>2, <2>2, <3>2 DEF Serves
    <3> QED
      BY <2>5, <3>1, <3>2 DEF RouteFits
  <2>7. InForce(ctx'[c].method, sent'[c], Taken(c)')
    BY <1>h, <2>3, <2>5
  <2> QED
    BY <1>h, <1>1, <1>2, <2>3, <2>4, <2>6, <2>7 DEF Serves
<1> QED
  BY <1>3, <1>4 DEF RoutedInv

\* conn->send returns: the reply is the one that was due.
LEMMA RoutedSend ==
    ASSUME TypeInv, RoutedInv, NEW c \in Conn, send_response(c)
    PROVE  RoutedInv'
<1>h. HttpTypes /\ Up /\ at[c] = "send" /\ out[c] \in Out /\ client[c] # "reset"
  BY DEF TypeInv, send_response, Up, Answering
<1>u. UNCHANGED <<fault, client, sent, rx, whole>>
  BY DEF send_response, clientVars
<1>1. /\ \A d \in Conn : d # c => at'[d] = at[d] /\ ctx'[d] = ctx[d]
      /\ \/ at'[c] = "recv" /\ ctx[c].keep /\ ctx'[c] = clear(ctx[c])
         \/ at'[c] = "close"
         \/ at'[c] = "websocket" /\ ctx'[c] = ctx[c]
  BY <1>h, AfterSendCases DEF send_response
<1>2. \A d \in Conn : d # c => out'[d] = out[d] /\ replies'[d] = replies[d]
  BY <1>h DEF send_response, HttpTypes
<1>3. ASSUME NEW d \in Conn, d # c PROVE whole'[d] => Answered(d)' /\ (Served(d)' => Serves(d)')
  BY <1>u, <1>1, <1>2, <1>3, RoutedSame
<1>4. ASSUME whole'[c] PROVE Answered(c)' /\ (Served(c)' => Serves(c)')
  <2>1. Answered(c) /\ Serves(c)
    BY <1>h, <1>u, <1>4 DEF RoutedInv, Served, Up
  <2> DEFINE m == Len(replies[c])
             a == out[c].reply
  <2>t. replies[c] \in Seq(Reply) /\ a \in Reply /\ m \in Nat /\ Len(sent[c]) \in Nat
    <3>1. replies[c] \in Seq(Reply) /\ a \in Reply /\ sent[c] \in Seq(Request)
      BY <1>h DEF HttpTypes, Out
    <3> QED
      BY <3>1
  <2>2. Taken(c)' = Len(replies'[c]) + 0
    BY <1>1 DEF Taken, Pending
  <2>3. Answered(c)' /\ Taken(c)' = Taken(c)
    <3>1. CASE a.kind = "frame"
      <4>1. replies'[c] = replies[c]
        BY <3>1 DEF send_response
      <4>2. Taken(c) = Len(replies[c]) + 0
        BY <1>h, <3>1 DEF Taken, Pending
      <4> QED
        BY <1>u, <2>1, <2>2, <4>1, <4>2 DEF Answered
    <3>2. CASE a.kind # "frame"
      <4>1. replies'[c] = Append(replies[c], a)
        BY <1>h, <3>2 DEF send_response, HttpTypes
      <4>2. /\ Len(replies'[c]) = m + 1 /\ replies'[c][m + 1] = a
            /\ \A i \in 1 .. m : replies'[c][i] = replies[c][i]
        BY <2>t, <4>1
      <4>3. Taken(c) = m + 1
        BY <1>h, <3>2 DEF Taken, Pending
      <4>4. Taken(c)' = Taken(c)
        <5>1. Taken(c)' = (m + 1) + 0
          BY <2>2, <4>2
        <5> HIDE DEF m
        <5> QED
          BY <2>t, <4>3, <5>1
      <4>5. RouteFits(a, sent[c], m + 1)
        BY <1>h, <2>1, <3>2, <4>3 DEF Serves
      <4>6. m + 1 <= Len(sent[c])
        <5>1. PICK g : Labels(rx[c], sent[c], m + 1, g)
          BY <2>1, <4>3 DEF Serves, Pipeline
        <5>2. Len(rx[c]) \in Nat
          <6>1. rx[c] \in Seq(Part)
            BY <1>h DEF HttpTypes
          <6> QED
            BY <6>1
        <5>3. 0 \in 0 .. Len(rx[c])
          BY <5>2
        <5>4. m + 1 \in 0 .. Len(sent[c])
          BY <5>1, <5>3 DEF Labels
        <5> HIDE DEF m
        <5> QED
          BY <2>t, <5>4
      <4> HIDE DEF m, a
      <4>7. ASSUME NEW i \in 1 .. m + 1 PROVE RouteFits(replies'[c][i], sent[c], i)
        <5>1. CASE i = m + 1
          BY <4>2, <4>5, <5>1
        <5>2. CASE i # m + 1
          <6>1. i \in 1 .. m
            BY <2>t, <5>2
          <6> QED
            BY <2>1, <4>2, <6>1 DEF Answered, m
        <5> QED
          BY <5>1, <5>2
      <4> QED
        BY <1>u, <4>2, <4>4, <4>6, <4>7 DEF Answered
    <3> QED
      BY <3>1, <3>2
  <2>4. ASSUME Served(c)' PROVE Serves(c)'
    <3>1. Pipeline(rx[c], sent[c], Taken(c))'
      BY <1>u, <2>1, <2>3 DEF Serves
    <3>2. at'[c] # "close"
      BY <2>4 DEF Served
    <3>3. ctx[c] \in Ctx /\ (ctx[c].keep => ctx[c].expect = "line")
      BY <1>h, <2>1 DEF Serves, HttpTypes
    <3>m. InForce(ctx[c].method, sent'[c], Taken(c)')
      BY <1>u, <2>1, <2>3 DEF Serves
    <3>4. CASE at'[c] = "recv" /\ ctx[c].keep /\ ctx'[c] = clear(ctx[c])
      <4>1. ctx'[c].headers = {} /\ ctx'[c].expect = "line" /\ ctx'[c].method = ctx[c].method
        BY <3>3, <3>4 DEF clear, Ctx
      <4> QED
        BY <3>1, <3>4, <3>m, <4>1 DEF Serves
    <3>5. CASE at'[c] = "websocket" /\ ctx'[c] = ctx[c]
      BY <3>1, <3>3, <3>5, <3>m DEF Serves
    <3> QED
      BY <1>1, <3>2, <3>4, <3>5
  <2> QED
    BY <2>3, <2>4
<1> QED
  BY <1>3, <1>4 DEF RoutedInv

\* The websocket handler reads frames, or something else, or nothing.
LEMMA RoutedFrame ==
    ASSUME TypeInv, RoutedInv, NEW c \in Conn, recv_frame(c)
    PROVE  RoutedInv'
<1>h. HttpTypes /\ Up /\ at[c] = "websocket"
  BY DEF TypeInv, recv_frame
<1>u. UNCHANGED <<at, ctx, out, client, sent, replies>>
  BY DEF recv_frame, clientVars
<1>1. CASE \E n \in Chunks(c) :
             /\ Take(c, n)
             /\ whole' = [whole EXCEPT ![c] =
                            @ /\ \A i \in 1 .. n : rx[c][i].k = "frame"]
             /\ UNCHANGED fault
  <2>1. PICK n \in Chunks(c) :
             /\ Take(c, n)
             /\ whole' = [whole EXCEPT ![c] =
                            @ /\ \A i \in 1 .. n : rx[c][i].k = "frame"]
             /\ UNCHANGED fault
    BY <1>1
  <2>2. /\ n \in 1 .. Len(rx[c]) /\ Len(rx'[c]) = Len(rx[c]) - n
        /\ \A i \in 1 .. Len(rx[c]) - n : rx'[c][i] = rx[c][i + n]
        /\ \A d \in Conn : d # c => rx'[d] = rx[d]
    BY <1>h, <2>1, TakeEffect
  <2>3. /\ whole'[c] => whole[c] /\ \A i \in 1 .. n : rx[c][i].k = "frame"
        /\ \A d \in Conn : d # c => whole'[d] = whole[d]
    BY <1>h, <2>1 DEF HttpTypes
  <2>4. ASSUME NEW d \in Conn, d # c
        PROVE  whole'[d] => Answered(d)' /\ (Served(d)' => Serves(d)')
    BY <1>u, <2>1, <2>2, <2>3, <2>4, RoutedSame
  <2>5. ASSUME whole'[c] PROVE Answered(c)' /\ (Served(c)' => Serves(c)')
    <3>1. whole[c] /\ \A i \in 1 .. n : rx[c][i].k = "frame"
      BY <2>3, <2>5
    <3>2. Answered(c)'
      BY <1>u, <3>1 DEF RoutedInv, Answered
    <3> SUFFICES ASSUME Served(c)' PROVE Serves(c)'
      BY <3>2
    <3>3. Serves(c)
      BY <1>h, <1>u, <3>1 DEF RoutedInv, Served, Up
    <3>4. Taken(c)' = Taken(c)
      BY <1>u DEF Taken, Pending
    <3>5. Pipeline(rx'[c], sent[c], Taken(c))
      <4>1. rx[c] \in Seq(Part) /\ sent[c] \in Seq(Request) /\ Pipeline(rx[c], sent[c], Taken(c))
        BY <1>h, <3>3 DEF HttpTypes, Serves
      <4>2. Len(sent[c]) \in Nat
        BY <4>1
      <4> QED
        BY <2>2, <3>1, <4>1, <4>2, PipelineFrames
    <3> QED
      BY <1>h, <1>u, <3>3, <3>4, <3>5 DEF Serves
  <2> QED
    BY <2>4, <2>5 DEF RoutedInv
<1>2. CASE UNCHANGED <<rx, whole>>
  <2>1. \A d \in Conn : whole'[d] => Answered(d)' /\ (Served(d)' => Serves(d)')
    BY <1>h, <1>u, <1>2, RoutedSame DEF Up
  <2> QED
    BY <2>1 DEF RoutedInv
<1> QED
  BY <1>1, <1>2 DEF recv_frame

\* A client sends a request, or a frame: it joins the end of the stream.
LEMMA RoutedSent ==
    ASSUME TypeInv, RoutedInv, NEW c \in Conn, client_requests(c) \/ client_sends_frame(c)
    PROVE  RoutedInv'
<1>h. HttpTypes /\ Up /\ UNCHANGED <<at, ctx, out, fault, client, replies, whole>>
  BY DEF TypeInv, client_requests, client_sends_frame
<1>1. rx[c] \in Seq(Part) /\ sent[c] \in Seq(Request) /\ Len(sent[c]) \in Nat
  <2>1. rx[c] \in Seq(Part) /\ sent[c] \in Seq(Request)
    BY <1>h DEF HttpTypes
  <2> QED
    BY <2>1
<1>2. ASSUME NEW d \in Conn, d # c PROVE whole'[d] => Answered(d)' /\ (Served(d)' => Serves(d)')
  <2>1. rx'[d] = rx[d] /\ sent'[d] = sent[d]
    BY <1>h, <1>2 DEF client_requests, client_sends_frame, HttpTypes
  <2> QED
    BY <1>h, <2>1, RoutedSame
<1>3. Taken(c)' = Taken(c) /\ (whole'[c] => whole[c]) /\ (Served(c)' => Served(c))
  BY <1>h DEF Taken, Pending, Served
<1>4. CASE client_sends_frame(c)
  <2>1. rx'[c] = Append(rx[c], Frame) /\ sent' = sent
    BY <1>h, <1>4 DEF client_sends_frame, HttpTypes
  <2>2. Frame \in Part /\ Frame.k # "line"
    BY DEF Part, Frame
  <2>3. /\ Len(rx'[c]) = Len(rx[c]) + 1 /\ rx'[c][Len(rx[c]) + 1] = Frame
        /\ \A i \in 1 .. Len(rx[c]) : rx'[c][i] = rx[c][i]
    BY <1>1, <2>1, <2>2
  <2>4. ASSUME whole'[c] PROVE Answered(c)' /\ (Served(c)' => Serves(c)')
    <3>1. Answered(c)'
      BY <1>h, <2>1, <2>4 DEF RoutedInv, Answered
    <3> SUFFICES ASSUME Served(c)' PROVE Serves(c)'
      BY <3>1
    <3>2. Serves(c)
      BY <1>3, <2>4 DEF RoutedInv
    <3>3. Pipeline(rx'[c], sent[c], Taken(c))
      BY <1>1, <2>2, <2>3, <3>2, PipelineMore DEF Serves
    <3> QED
      BY <1>h, <1>3, <2>1, <3>2, <3>3 DEF Serves
  <2> QED
    BY <1>2, <2>4 DEF RoutedInv
<1>5. CASE client_requests(c)
  <2>1. PICK r \in Request : rx'[c] = rx[c] \o Parts(r) /\ sent'[c] = Append(sent[c], r)
    BY <1>h, <1>5 DEF client_requests, HttpTypes
  <2>2. /\ Len(sent'[c]) = Len(sent[c]) + 1
        /\ \A i \in 1 .. Len(sent[c]) : sent'[c][i] = sent[c][i]
    BY <1>1, <2>1
  <2>3. ASSUME whole'[c] PROVE Answered(c)' /\ (Served(c)' => Serves(c)')
    <3>1. Answered(c)'
      <4>1. Answered(c) /\ replies'[c] = replies[c]
        BY <1>h, <1>3, <2>3 DEF RoutedInv
      <4>2. Len(replies[c]) \in Nat
        <5>1. replies[c] \in Seq(Reply)
          BY <1>h DEF HttpTypes
        <5> QED
          BY <5>1
      <4>3. ASSUME NEW i \in 1 .. Len(replies[c]) PROVE RouteFits(replies[c][i], sent'[c], i)
        <5>1. i \in Nat /\ i \in 1 .. Len(sent[c]) /\ \A j \in 1 .. i : j \in 1 .. Len(sent[c])
          BY <1>1, <4>1, <4>2 DEF Answered
        <5>2. RouteFits(replies[c][i], sent[c], i)
          BY <4>1 DEF Answered
        <5> QED
          BY <2>2, <5>1, <5>2, InForceSame DEF RouteFits
      <4>4. Len(replies[c]) <= Len(sent'[c])
        BY <1>1, <2>2, <4>1, <4>2 DEF Answered
      <4> QED
        BY <4>1, <4>3, <4>4 DEF Answered
    <3> SUFFICES ASSUME Served(c)' PROVE Serves(c)'
      BY <3>1
    <3>2. Serves(c)
      BY <1>3, <2>3 DEF RoutedInv
    <3>3. Pipeline(rx'[c], sent'[c], Taken(c))
      BY <1>1, <2>1, <3>2, PipelineRequest DEF Serves
    <3>4. at[c] \in {"handler", "send"} /\ Taken(c) \in 1 .. Len(sent[c])
             => sent'[c][Taken(c)] = sent[c][Taken(c)]
      BY <2>2
    <3>t. Taken(c) \in Nat /\ \A j \in 1 .. Taken(c) : sent[c][j] = sent'[c][j]
      <4>1. PICK g : Labels(rx[c], sent[c], Taken(c), g)
        BY <3>2 DEF Serves, Pipeline
      <4>2. 0 \in 0 .. Len(rx[c])
        BY <1>1
      <4>3. Taken(c) \in 0 .. Len(sent[c])
        BY <4>1, <4>2 DEF Labels
      <4>4. Taken(c) \in Nat /\ \A j \in 1 .. Taken(c) : j \in 1 .. Len(sent[c])
        BY <1>1, <4>3
      <4> QED
        BY <2>2, <4>4
    <3>m. \A m : InForce(m, sent[c], Taken(c)) => InForce(m, sent'[c], Taken(c))
      BY <3>t, InForceSame
    <3>5. at[c] = "handler" \/ (at[c] = "send" /\ out[c].reply.kind # "frame")
             => Taken(c) \in 1 .. Len(sent[c])
      <4> SUFFICES ASSUME at[c] = "handler" \/ (at[c] = "send" /\ out[c].reply.kind # "frame")
                   PROVE  Taken(c) \in 1 .. Len(sent[c])
        OBVIOUS
      <4>1. PICK g : Labels(rx[c], sent[c], Taken(c), g)
        BY <3>2 DEF Serves, Pipeline
      <4>2. 0 \in 0 .. Len(rx[c])
        BY <1>1
      <4>3. Taken(c) \in 0 .. Len(sent[c])
        BY <4>1, <4>2 DEF Labels
      <4>4. Taken(c) = Len(replies[c]) + 1 /\ Len(replies[c]) \in Nat
        <5>1. replies[c] \in Seq(Reply)
          BY <1>h DEF HttpTypes
        <5>2. Pending(c) = 1
          BY DEF Pending
        <5> QED
          BY <5>1, <5>2 DEF Taken
      <4> QED
        BY <4>3, <4>4, <1>1
    <3>6. at[c] = "send" /\ out[c].reply.kind # "frame"
             => RouteFits(out[c].reply, sent'[c], Taken(c))
      BY <3>2, <3>4, <3>5, <3>m DEF Serves, RouteFits
    <3> QED
      BY <1>h, <1>3, <3>2, <3>3, <3>4, <3>5, <3>6, <3>m DEF Serves
  <2> QED
    BY <1>2, <2>3 DEF RoutedInv
<1> QED
  BY <1>4, <1>5

LEMMA RoutedRest ==
    ASSUME TypeInv, RoutedInv, NEW c \in Conn,
           \/ on_accept_eof(c) \/ on_accept_error(c) \/ check_client_close(c)
           \/ send_response_fails(c) \/ websocket_handler_returns(c) \/ start(c)
           \/ client_connects(c) \/ client_ends(c)
    PROVE  RoutedInv'
<1>h. HttpTypes /\ Up
  BY DEF TypeInv, Up, on_accept_eof, on_accept_error, check_client_close,
         send_response_fails, websocket_handler_returns, start, client_connects, client_ends
<1>u. UNCHANGED <<sent, replies, whole>>
  BY DEF on_accept_eof, on_accept_error, check_client_close, send_response_fails,
         websocket_handler_returns, start, client_connects, client_ends, clientVars
<1>a. \A d \in Conn : whole'[d] => Answered(d)'
  BY <1>u DEF RoutedInv, Answered
<1>1. CASE on_accept_eof(c) \/ check_client_close(c)
  <2>1. /\ UNCHANGED <<ctx, out, fault, client>> /\ at'[c] \in {"close", "freed"}
        /\ \A d \in Conn : d # c => at'[d] = at[d] /\ rx'[d] = rx[d]
    <3>1. CASE on_accept_eof(c)
      BY <1>h, <3>1 DEF on_accept_eof, HttpTypes, clientVars
    <3>2. CASE check_client_close(c)
      BY <1>h, <3>2 DEF check_client_close, Take, HttpTypes, clientVars
    <3> QED
      BY <1>1, <3>1, <3>2
  <2>2. ~ Served(c)'
    BY <2>1 DEF Served
  <2>3. \A d \in Conn : d # c => (whole'[d] /\ Served(d)' => Serves(d)')
    BY <1>u, <2>1, RoutedSame
  <2> QED
    BY <1>a, <2>2, <2>3 DEF RoutedInv
<1>2. CASE send_response_fails(c)
  <2>1. /\ UNCHANGED <<rx, client>> /\ client[c] = "reset"
        /\ fault' = "none" => fault = "none"
        /\ \A d \in Conn : d # c => out'[d] = out[d]
    BY <1>h, <1>2 DEF send_response_fails, HttpTypes, clientVars, Up
  <2>2. \A d \in Conn : d # c => at'[d] = at[d] /\ ctx'[d] = ctx[d]
    <3>1. CASE AfterSend(c)
      <4>1. out[c] \in Out
        BY <1>2 DEF send_response_fails, TypeInv, Up, Answering
      <4> QED
        BY <1>h, <3>1, <4>1, AfterSendCases
    <3>2. CASE UNCHANGED <<at, ctx>>
      BY <3>2
    <3> QED
      BY <1>2, <3>1, <3>2 DEF send_response_fails
  <2>3. ~ Served(c)'
    BY <2>1 DEF Served
  <2>4. \A d \in Conn : d # c => (whole'[d] /\ Served(d)' => Serves(d)')
    BY <1>u, <2>1, <2>2, RoutedSame
  <2> QED
    BY <1>a, <2>3, <2>4 DEF RoutedInv
<1>3. CASE on_accept_error(c) \/ client_ends(c)
  <2>1. /\ UNCHANGED <<at, ctx, out, rx>>
        /\ fault' = "none" => fault = "none"
        /\ \A d \in Conn : client'[d] # "reset" => client[d] # "reset"
    <3>1. CASE on_accept_error(c)
      BY <1>h, <3>1 DEF on_accept_error, clientVars, Up
    <3>2. CASE client_ends(c)
      BY <1>h, <3>2 DEF client_ends, HttpTypes
    <3> QED
      BY <1>3, <3>1, <3>2
  <2>2. \A d \in Conn : whole'[d] /\ Served(d)' => Serves(d)'
    BY <1>u, <2>1, RoutedSame
  <2> QED
    BY <1>a, <2>2 DEF RoutedInv
<1>4. CASE websocket_handler_returns(c)
  <2>1. UNCHANGED <<out, fault, client, rx>> /\ at[c] = "websocket"
    BY <1>4 DEF websocket_handler_returns, clientVars
  <2>2. /\ \A d \in Conn : d # c => at'[d] = at[d] /\ ctx'[d] = ctx[d]
        /\ \/ at'[c] = "recv" /\ ctx[c].keep /\ ctx'[c] = clear(ctx[c])
           \/ at'[c] = "close"
    BY <1>h, <1>4, NextTurnCases DEF websocket_handler_returns
  <2>3. ASSUME whole'[c], Served(c)' PROVE Serves(c)'
    <3>1. at'[c] = "recv" /\ ctx[c].keep /\ ctx'[c] = clear(ctx[c])
      BY <2>2, <2>3 DEF Served
    <3>2. Serves(c) /\ ctx[c] \in Ctx
      BY <1>h, <1>u, <2>1, <2>3 DEF RoutedInv, Served, Up, HttpTypes
    <3>3. Taken(c)' = Taken(c)
      BY <1>u, <2>1, <3>1 DEF Taken, Pending
    <3>4. ctx'[c].headers = {} /\ ctx'[c].expect = "line" /\ ctx'[c].method = ctx[c].method
      BY <2>1, <3>1, <3>2 DEF Serves, clear, Ctx
    <3> QED
      BY <1>u, <2>1, <3>1, <3>2, <3>3, <3>4 DEF Serves
  <2>4. \A d \in Conn : d # c => (whole'[d] /\ Served(d)' => Serves(d)')
    BY <1>u, <2>1, <2>2, RoutedSame
  <2> QED
    BY <1>a, <2>3, <2>4 DEF RoutedInv
<1>5. CASE start(c) \/ client_connects(c)
  <2>1. /\ UNCHANGED <<out, fault, rx>> /\ at[c] \in {"none", "backlog"}
        /\ \/ at'[c] = "backlog" /\ ctx'[c] = ctx[c]
           \/ at'[c] = "recv" /\ \E k \in BOOLEAN : ctx'[c] = NewCtx(k)
        /\ \A d \in Conn : d # c => at'[d] = at[d] /\ ctx'[d] = ctx[d] /\ client'[d] = client[d]
    <3>1. CASE start(c)
      BY <1>h, <3>1 DEF start, HttpTypes, clientVars
    <3>2. CASE client_connects(c)
      BY <1>h, <3>2 DEF client_connects, HttpTypes
    <3> QED
      BY <1>5, <3>1, <3>2
  <2>2. ASSUME whole'[c], Served(c)' PROVE Serves(c)'
    <3>1. Taken(c)' = Taken(c)
      BY <1>u, <2>1 DEF Taken, Pending
    <3>2. at'[c] = "recv" => ctx'[c].headers = {} /\ ctx'[c].expect = "line"
      <4>1. \A k : NewCtx(k).headers = {} /\ NewCtx(k).expect = "line"
        BY DEF NewCtx
      <4> QED
        BY <2>1, <4>1
    <3>3. Serves(c)
      <4>1. client[c] # "reset"
        <5>1. CASE start(c)
          BY <2>2, <5>1 DEF start, clientVars, Served
        <5>2. CASE client_connects(c)
          BY <5>2 DEF client_connects, TypeInv, Up, Answering
        <5> QED
          BY <1>5, <5>1, <5>2
      <4> QED
        BY <1>h, <1>u, <2>1, <2>2, <4>1 DEF RoutedInv, Served, Up
    <3>4. Taken(c) = 0 /\ InForce(ctx'[c].method, sent[c], 0)
      <4>1. Taken(c) = 0 /\ InForce(ctx[c].method, sent[c], 0)
        BY <2>1, <3>3 DEF Serves
      <4>2. InForce(Null, sent[c], 0)
        BY DEF InForce
      <4>3. \A k : NewCtx(k).method = Null
        BY DEF NewCtx
      <4> QED
        BY <2>1, <4>1, <4>2, <4>3
    <3> QED
      BY <1>u, <2>1, <3>1, <3>2, <3>3, <3>4 DEF Serves
  <2>3. \A d \in Conn : d # c => (whole'[d] /\ Served(d)' => Serves(d)')
    BY <1>u, <2>1, RoutedSame
  <2> QED
    BY <1>a, <2>2, <2>3 DEF RoutedInv
<1> QED
  BY <1>1, <1>2, <1>3, <1>4, <1>5

LEMMA RoutedStep ==
    ASSUME TypeInv, RoutedInv, [HttpNext]_vars
    PROVE  RoutedInv'
<1>1. CASE shutdown \/ UNCHANGED vars
  <2>1. UNCHANGED <<at, ctx, out, fault, client, rx, sent, replies, whole>>
    BY <1>1 DEF shutdown, vars, clientVars
  <2>2. \A d \in Conn : whole'[d] => Answered(d)' /\ (Served(d)' => Serves(d)')
    BY <2>1, RoutedSame
  <2> QED
    BY <2>2 DEF RoutedInv
<1>2. ASSUME NEW c \in Conn, ConnNext(c) PROVE RoutedInv'
  BY <1>2, RoutedAccept, RoutedSend, RoutedHandlers, RoutedFrame, RoutedSent, RoutedRest
     DEF ConnNext, ConnStep
<1> QED
  BY <1>1, <1>2 DEF HttpNext, ConnNext

-----------------------------------------------------------------------------
(* The status of a reply *)

\* The status that the replies so far have left.
Left(c) == StatusLeft(c, Len(replies[c]) + 1)

\* While a client is there: the Ctx has the status of the last reply, until
\* the next one sets its own.
Recorded(c) ==
    /\ at[c] \in {"none", "backlog"} => Len(replies[c]) = 0
    /\ \/ at[c] \in {"recv", "handler", "websocket"}
       \/ at[c] = "send" /\ out[c].reply.kind = "frame"
       => get_status_message(ctx[c].status) = Left(c)
    /\ at[c] = "send" => out[c].reply.status = get_status_message(ctx[c].status)
    /\ at[c] = "send" /\ out[c].reply.kind # "frame" => StatusFits(out[c].reply, Left(c))
StatusesFit(c) == \A i \in 1 .. Len(replies[c]) : StatusFits(replies[c][i], StatusLeft(c, i))
StatusInv ==
    \A c \in Conn : /\ StatusesFit(c)
                    /\ fault = "none" /\ client[c] # "reset" => Recorded(c)

\* A connection that a step does not touch, or only kills.
LEMMA StatusSame ==
    ASSUME StatusInv, NEW d \in Conn, fault' = "none" => fault = "none",
           at'[d] = at[d], ctx'[d] = ctx[d], out'[d] = out[d], replies'[d] = replies[d],
           client'[d] # "reset" => client[d] # "reset"
    PROVE  StatusesFit(d)' /\ (fault' = "none" /\ client'[d] # "reset" => Recorded(d)')
<1>1. StatusesFit(d)'
  BY DEF StatusInv, StatusesFit, StatusLeft
<1>2. Recorded(d) => Recorded(d)'
  BY DEF Recorded, Left, StatusLeft
<1> QED
  BY <1>1, <1>2 DEF StatusInv

\* A reply is handed to conn->send, with the status of the Ctx.
LEMMA StatusEnd ==
    ASSUME TypeInv, StatusInv, Up, NEW c \in Conn, UNCHANGED <<replies, client>>,
           NEW x \in Ctx, NEW kind, NEW then, end(c, x, kind, then),
           kind = "frame" => at[c] = "websocket" /\ x = ctx[c],
           kind # "frame" => at[c] \in {"recv", "handler"},
           \A a : a.kind = kind /\ a.status = get_status_message(x.status) /\ kind # "frame"
                     => StatusFits(a, get_status_message(ctx[c].status))
    PROVE  StatusInv'
<1>1. HttpTypes
  BY DEF TypeInv
<1>2. /\ at'[c] = "send" /\ ctx'[c] = x /\ out'[c].reply.kind = kind /\ fault' = fault
      /\ out'[c].reply.status = get_status_message(x.status)
      /\ \A d \in Conn : d # c => at'[d] = at[d] /\ ctx'[d] = ctx[d] /\ out'[d] = out[d]
  BY <1>1, EndEffect
<1>3. StatusesFit(c)' /\ Left(c)' = Left(c)
  BY DEF StatusInv, StatusesFit, StatusLeft, Left
<1>4. ASSUME client[c] # "reset" PROVE Recorded(c)'
  <2>1. Recorded(c)
    BY <1>4 DEF StatusInv, Up
  <2>2. get_status_message(ctx[c].status) = Left(c)
    BY <2>1 DEF Recorded
  <2>3. kind # "frame" => StatusFits(out'[c].reply, Left(c))
    BY <1>2, <2>2
  <2> QED
    BY <1>2, <1>3, <2>2, <2>3 DEF Recorded
<1>5. \A d \in Conn : d # c =>
         StatusesFit(d)' /\ (fault' = "none" /\ client'[d] # "reset" => Recorded(d)')
  BY <1>2, StatusSame
<1> QED
  BY <1>3, <1>4, <1>5 DEF StatusInv

LEMMA StatusAccept ==
    ASSUME TypeInv, StatusInv, NEW c \in Conn, on_accept(c)
    PROVE  StatusInv'
<1>1. PICK n \in Chunks(c) : Take(c, n) /\ Dispatch(c, parse(ctx[c], SubSeq(rx[c], 1, n)))
  BY DEF on_accept
<1> DEFINE x == parse(ctx[c], SubSeq(rx[c], 1, n))
<1>h. HttpTypes /\ Up /\ at[c] = "recv" /\ UNCHANGED <<replies, client>>
  BY DEF TypeInv, on_accept, clientVars
<1>2. x \in Ctx /\ x.status = ctx[c].status /\ Dispatch(c, x)
  <2>1. SubSeq(rx[c], 1, n) \in Seq(Part) /\ ctx[c] \in Ctx
    BY <1>h, <1>1, TakeEffect DEF HttpTypes
  <2> QED
    BY <1>1, <2>1, ParseType
<1> HIDE DEF x
<1>3. CASE fault' = "null path" /\ UNCHANGED <<at, ctx, out>>
  <2>1. \A d \in Conn : StatusesFit(d)' /\ (fault' = "none" /\ client'[d] # "reset" => Recorded(d)')
    BY <1>h, <1>3, StatusSame
  <2> QED
    BY <2>1 DEF StatusInv
<1>4. CASE /\ at' = [at EXCEPT ![c] = "handler"] /\ ctx' = [ctx EXCEPT ![c] = x]
           /\ UNCHANGED <<out, fault>>
  <2>1. /\ at'[c] = "handler" /\ ctx'[c] = x
        /\ \A d \in Conn : d # c => at'[d] = at[d] /\ ctx'[d] = ctx[d]
    BY <1>h, <1>4 DEF HttpTypes
  <2>2. StatusesFit(c)' /\ Left(c)' = Left(c)
    BY <1>h DEF StatusInv, StatusesFit, StatusLeft, Left
  <2>3. client[c] # "reset" => Recorded(c)'
    BY <1>h, <1>2, <2>1, <2>2 DEF StatusInv, Recorded, Up
  <2>4. \A d \in Conn : d # c =>
           StatusesFit(d)' /\ (fault' = "none" /\ client'[d] # "reset" => Recorded(d)')
    BY <1>h, <1>4, <2>1, StatusSame
  <2> QED
    BY <1>h, <2>2, <2>3, <2>4 DEF StatusInv
<1>5. CASE \E y \in Ctx, then \in {"loop", "break", "websocket"} :
              /\ y.status = StatusFor(AnswerTo(x), x.status)
              /\ AnswerTo(x) \in {"file", "404", "400", "101"}
              /\ end(c, y, AnswerTo(x), then)
  <2> DEFINE kind == AnswerTo(x)
  <2> HIDE DEF kind
  <2>1. PICK y \in Ctx, then \in {"loop", "break", "websocket"} :
              /\ y.status = StatusFor(kind, ctx[c].status)
              /\ kind \in {"file", "404", "400", "101"}
              /\ end(c, y, kind, then)
    BY <1>2, <1>5 DEF kind
  <2>2. get_status_message(404) = 404 /\ get_status_message(400) = 400 /\ get_status_message(101) = 101
    BY Statuses DEF get_status_message
  <2>3. ASSUME NEW a, a.kind = kind, a.status = get_status_message(y.status)
        PROVE  StatusFits(a, get_status_message(ctx[c].status))
    BY <2>1, <2>2, <2>3 DEF StatusFits, StatusFor
  <2> QED
    BY <1>h, <2>1, <2>3, StatusEnd
<1> QED
  BY <1>2, <1>3, <1>4, <1>5, DispatchCases

LEMMA StatusHandlers ==
    ASSUME TypeInv, StatusInv, NEW c \in Conn, handler_ends(c) \/ send_frame(c)
    PROVE  StatusInv'
<1>h. Up /\ ctx[c] \in Ctx /\ UNCHANGED <<replies, client>>
  BY DEF TypeInv, HttpTypes, handler_ends, send_frame, clientVars
<1>1. CASE handler_ends(c)
  <2>1. PICK x \in {ctx[c]} \cup {set_status(ctx[c], s) : s \in UserStatus} :
             end(c, x, "page", "loop")
    BY <1>1 DEF handler_ends
  <2>2. x \in Ctx /\ (x.status = ctx[c].status \/ \E s \in UserStatus : x.status = s)
    BY <1>h DEF set_status, Ctx
  <2>3. ASSUME NEW a, a.kind = "page", a.status = get_status_message(x.status)
        PROVE  StatusFits(a, get_status_message(ctx[c].status))
    BY <2>2, <2>3 DEF StatusFits
  <2>4. at[c] = "handler"
    BY <1>1 DEF handler_ends
  <2> QED
    BY <1>h, <2>1, <2>2, <2>3, <2>4, StatusEnd
<1>2. CASE send_frame(c)
  BY <1>h, <1>2, StatusEnd DEF send_frame
<1> QED
  BY <1>1, <1>2

LEMMA StatusSend ==
    ASSUME TypeInv, StatusInv, NEW c \in Conn, send_response(c)
    PROVE  StatusInv'
<1>h. HttpTypes /\ Up /\ at[c] = "send" /\ out[c] \in Out /\ client[c] # "reset"
  BY DEF TypeInv, send_response, Up, Answering
<1>u. UNCHANGED <<fault, client>>
  BY DEF send_response, clientVars
<1>1. /\ \A d \in Conn : d # c => at'[d] = at[d] /\ ctx'[d] = ctx[d]
      /\ at'[c] \in {"recv", "close", "websocket"} /\ ctx'[c].status = ctx[c].status
  <2>1. ctx[c] \in Ctx
    BY <1>h DEF HttpTypes
  <2>2. clear(ctx[c]).status = ctx[c].status
    BY <2>1 DEF clear, Ctx
  <2> QED
    BY <1>h, <2>2, AfterSendCases DEF send_response
<1>2. \A d \in Conn : d # c => out'[d] = out[d] /\ replies'[d] = replies[d]
  BY <1>h DEF send_response, HttpTypes
<1>3. \A d \in Conn : d # c =>
         StatusesFit(d)' /\ (fault' = "none" /\ client'[d] # "reset" => Recorded(d)')
  BY <1>u, <1>1, <1>2, StatusSame
<1>4. StatusesFit(c) /\ Recorded(c)
  BY <1>h DEF StatusInv, Up
<1>5. StatusesFit(c)' /\ Left(c)' = get_status_message(ctx[c].status)
  <2> DEFINE a == out[c].reply
             q == replies[c]
             p == replies'[c]
             m == Len(q)
  <2>t. q \in Seq(Reply) /\ a \in Reply /\ m \in Nat
    <3>1. q \in Seq(Reply) /\ a \in Reply
      BY <1>h DEF HttpTypes, Out
    <3> QED
      BY <3>1
  <2>1. CASE a.kind = "frame"
    <3>1. p = q
      BY <2>1 DEF send_response
    <3> QED
      BY <1>h, <1>4, <2>1, <3>1 DEF Recorded, StatusesFit, StatusLeft, Left
  <2>2. CASE a.kind # "frame"
    <3>1. p = Append(q, a)
      BY <1>h, <2>2 DEF send_response, HttpTypes
    <3>2. /\ Len(p) = m + 1 /\ p[m + 1] = a
          /\ \A i \in 1 .. m : p[i] = q[i]
      BY <2>t, <3>1
    <3>3. StatusFits(a, StatusLeft(c, m + 1)) /\ a.status = get_status_message(ctx[c].status)
      BY <1>h, <1>4, <2>2 DEF Recorded, Left
    <3>4. Left(c)' = a.status
      <4>1. (m + 1) + 1 # 1 /\ ((m + 1) + 1) - 1 = m + 1
        BY <2>t
      <4> QED
        BY <3>2, <4>1 DEF Left, StatusLeft
    <3>5. ASSUME NEW i \in 1 .. m + 1 PROVE StatusFits(p[i], StatusLeft(c, i)')
      <4>1. StatusLeft(c, i)' = StatusLeft(c, i)
        <5>1. i # 1 => i - 1 \in 1 .. m
          BY <2>t
        <5> QED
          BY <3>2, <5>1 DEF StatusLeft
      <4>2. CASE i = m + 1
        BY <3>2, <3>3, <4>1, <4>2
      <4>3. CASE i # m + 1
        <5>1. i \in 1 .. m
          BY <2>t, <4>3
        <5>2. StatusFits(q[i], StatusLeft(c, i))
          BY <1>4, <5>1 DEF StatusesFit
        <5> QED
          BY <3>2, <4>1, <5>1, <5>2
      <4> QED
        BY <4>2, <4>3
    <3> QED
      BY <3>2, <3>3, <3>4, <3>5 DEF StatusesFit
  <2> QED
    BY <2>1, <2>2
<1>6. Recorded(c)'
  BY <1>1, <1>5 DEF Recorded
<1> QED
  BY <1>3, <1>5, <1>6 DEF StatusInv

LEMMA StatusRest ==
    ASSUME TypeInv, StatusInv, NEW c \in Conn,
           \/ on_accept_eof(c) \/ on_accept_error(c) \/ check_client_close(c)
           \/ send_response_fails(c) \/ websocket_handler_returns(c) \/ start(c)
           \/ recv_frame(c) \/ client_connects(c) \/ client_requests(c)
           \/ client_sends_frame(c) \/ client_ends(c)
    PROVE  StatusInv'
<1>h. HttpTypes /\ Up /\ replies' = replies
  BY DEF TypeInv, Up, on_accept_eof, on_accept_error, check_client_close, recv_frame,
         send_response_fails, websocket_handler_returns, start, client_connects,
         client_requests, client_sends_frame, client_ends
<1>a. \A d \in Conn : StatusesFit(d)' /\ Left(d)' = Left(d)
  BY <1>h DEF StatusInv, StatusesFit, StatusLeft, Left
<1>1. CASE on_accept_eof(c) \/ check_client_close(c)
  <2>1. /\ UNCHANGED <<ctx, out, fault, client>> /\ at'[c] \in {"close", "freed"}
        /\ \A d \in Conn : d # c => at'[d] = at[d]
    BY <1>h, <1>1 DEF on_accept_eof, check_client_close, HttpTypes, clientVars
  <2>2. Recorded(c)'
    BY <2>1 DEF Recorded
  <2>3. \A d \in Conn : d # c => (fault' = "none" /\ client'[d] # "reset" => Recorded(d)')
    BY <1>h, <2>1, StatusSame
  <2> QED
    BY <1>a, <2>2, <2>3 DEF StatusInv
<1>2. CASE send_response_fails(c)
  <2>1. /\ client' = client /\ client[c] = "reset"
        /\ fault' = "none" => fault = "none"
        /\ \A d \in Conn : d # c => out'[d] = out[d]
    BY <1>h, <1>2 DEF send_response_fails, HttpTypes, clientVars, Up
  <2>2. \A d \in Conn : d # c => at'[d] = at[d] /\ ctx'[d] = ctx[d]
    <3>1. CASE AfterSend(c)
      <4>1. out[c] \in Out
        BY <1>2 DEF send_response_fails, TypeInv, Up, Answering
      <4> QED
        BY <1>h, <3>1, <4>1, AfterSendCases
    <3>2. CASE UNCHANGED <<at, ctx>>
      BY <3>2
    <3> QED
      BY <1>2, <3>1, <3>2 DEF send_response_fails
  <2>3. \A d \in Conn : d # c => (fault' = "none" /\ client'[d] # "reset" => Recorded(d)')
    BY <1>h, <2>1, <2>2, StatusSame
  <2> QED
    BY <1>a, <2>1, <2>3 DEF StatusInv
<1>3. CASE \/ on_accept_error(c) \/ recv_frame(c) \/ client_requests(c)
           \/ client_sends_frame(c) \/ client_ends(c)
  <2>1. /\ UNCHANGED <<at, ctx, out>>
        /\ fault' = "none" => fault = "none"
        /\ \A d \in Conn : client'[d] # "reset" => client[d] # "reset"
    <3>1. CASE on_accept_error(c) \/ recv_frame(c) \/ client_requests(c) \/ client_sends_frame(c)
      BY <1>h, <3>1 DEF on_accept_error, recv_frame, client_requests, client_sends_frame,
                        clientVars, Up
    <3>2. CASE client_ends(c)
      BY <1>h, <3>2 DEF client_ends, HttpTypes
    <3> QED
      BY <1>3, <3>1, <3>2
  <2>2. \A d \in Conn : fault' = "none" /\ client'[d] # "reset" => Recorded(d)'
    BY <1>h, <2>1, StatusSame
  <2> QED
    BY <1>a, <2>2 DEF StatusInv
<1>4. CASE websocket_handler_returns(c)
  <2>1. UNCHANGED <<out, fault, client>> /\ at[c] = "websocket"
    BY <1>4 DEF websocket_handler_returns, clientVars
  <2>2. /\ \A d \in Conn : d # c => at'[d] = at[d] /\ ctx'[d] = ctx[d]
        /\ at'[c] \in {"recv", "close"} /\ ctx'[c].status = ctx[c].status
    <3>1. ctx[c] \in Ctx
      BY <1>h DEF HttpTypes
    <3>2. clear(ctx[c]).status = ctx[c].status
      BY <3>1 DEF clear, Ctx
    <3> QED
      BY <1>h, <1>4, <3>2, NextTurnCases DEF websocket_handler_returns
  <2>3. client[c] # "reset" => Recorded(c)'
    BY <1>h, <1>a, <2>1, <2>2 DEF StatusInv, Recorded, Up
  <2>4. \A d \in Conn : d # c => (fault' = "none" /\ client'[d] # "reset" => Recorded(d)')
    BY <1>h, <2>1, <2>2, StatusSame
  <2> QED
    BY <1>a, <2>1, <2>3, <2>4 DEF StatusInv
<1>5. CASE start(c) \/ client_connects(c)
  <2>1. /\ UNCHANGED <<out, fault>> /\ at[c] \in {"none", "backlog"}
        /\ \/ at'[c] = "backlog"
           \/ at'[c] = "recv" /\ \E k \in BOOLEAN : ctx'[c] = NewCtx(k)
        /\ \A d \in Conn : d # c => at'[d] = at[d] /\ ctx'[d] = ctx[d] /\ client'[d] = client[d]
    <3>1. CASE start(c)
      BY <1>h, <3>1 DEF start, HttpTypes, clientVars
    <3>2. CASE client_connects(c)
      BY <1>h, <3>2 DEF client_connects, HttpTypes
    <3> QED
      BY <1>5, <3>1, <3>2
  <2>2. ASSUME client'[c] # "reset" PROVE Recorded(c)'
    <3>1. client[c] # "reset"
      <4>1. CASE start(c)
        BY <2>2, <4>1 DEF start, clientVars
      <4>2. CASE client_connects(c)
        BY <4>2 DEF client_connects, TypeInv, Up, Answering
      <4> QED
        BY <1>5, <4>1, <4>2
    <3>2. Len(replies[c]) = 0
      BY <1>h, <2>1, <3>1 DEF StatusInv, Recorded, Up
    <3>3. Left(c)' = 200 /\ Len(replies'[c]) = 0
      <4>1. 0 + 1 = 1
        OBVIOUS
      <4> QED
        BY <1>h, <3>2, <4>1 DEF Left, StatusLeft
    <3>4. at'[c] = "recv" => get_status_message(ctx'[c].status) = 200
      <4>1. \A k : NewCtx(k).status = 200
        BY DEF NewCtx
      <4>2. get_status_message(200) = 200
        BY DEF get_status_message
      <4> QED
        BY <2>1, <4>1, <4>2
    <3> QED
      BY <2>1, <3>3, <3>4 DEF Recorded
  <2>3. \A d \in Conn : d # c => (fault' = "none" /\ client'[d] # "reset" => Recorded(d)')
    BY <1>h, <2>1, StatusSame
  <2> QED
    BY <1>a, <2>2, <2>3 DEF StatusInv
<1> QED
  BY <1>1, <1>2, <1>3, <1>4, <1>5

LEMMA StatusStep ==
    ASSUME TypeInv, StatusInv, [HttpNext]_vars
    PROVE  StatusInv'
<1>1. CASE shutdown \/ UNCHANGED vars
  <2>1. UNCHANGED <<at, ctx, out, fault, client, replies>>
    BY <1>1 DEF shutdown, vars, clientVars
  <2>2. \A d \in Conn : StatusesFit(d)' /\ (fault' = "none" /\ client'[d] # "reset" => Recorded(d)')
    BY <2>1, StatusSame
  <2> QED
    BY <2>2 DEF StatusInv
<1>2. ASSUME NEW c \in Conn, ConnNext(c) PROVE StatusInv'
  BY <1>2, StatusAccept, StatusSend, StatusHandlers, StatusRest DEF ConnNext, ConnStep
<1> QED
  BY <1>1, <1>2 DEF HttpNext, ConnNext

-----------------------------------------------------------------------------

\* For all routes, methods, headers and numbers of connections: requests that
\* are read one by one and whole are answered in their order, each by its own
\* path and headers, and no page of a handler that slept meanwhile and no frame
\* of a websocket comes between a request and its answer. What an earlier
\* request leaves in the Ctx shows in its method, if it is neither GET nor
\* POST, and, however requests are read, in the status of a reply that sets
\* none; in nothing else.
THEOREM RoutedCorrectly == HttpSpec => []RepliesExplained
<1>1. HttpInit => RoutedInv /\ StatusInv
  <2> SUFFICES ASSUME HttpInit, NEW c \in Conn
               PROVE  Answered(c) /\ Serves(c) /\ StatusesFit(c) /\ Recorded(c)
    BY DEF RoutedInv, StatusInv
  <2>1. /\ rx[c] = << >> /\ sent[c] = << >> /\ replies[c] = << >> /\ at[c] = "none"
        /\ ctx[c].method = Null
    BY DEF HttpInit, NewCtx
  <2> DEFINE g == [i \in 0 .. 0 |-> 0]
  <2>2. Labels(<< >>, << >>, 0, g)
    BY DEF Labels
  <2>3. Taken(c) = 0
    BY <2>1 DEF Taken, Pending
  <2>4. InForce(Null, sent[c], 0)
    BY DEF InForce
  <2>5. StatusesFit(c) /\ Recorded(c)
    BY <2>1 DEF StatusesFit, Recorded
  <2> QED
    BY <2>1, <2>2, <2>3, <2>4, <2>5 DEF Answered, Serves, Pipeline
<1>2. RoutedInv /\ StatusInv => RepliesExplained
  BY DEF RoutedInv, Answered, StatusInv, StatusesFit, RepliesExplained
<1>3. TypeInv /\ RoutedInv /\ [HttpNext]_vars => RoutedInv'
  BY RoutedStep
<1>4. TypeInv /\ StatusInv /\ [HttpNext]_vars => StatusInv'
  BY StatusStep
<1> QED
  BY <1>1, <1>2, <1>3, <1>4, TypeInit, TypeStep, PTL DEF HttpSpec
=============================================================================
