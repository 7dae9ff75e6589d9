--------------------------- MODULE ListQueryProofs ---------------------------
(***************************************************************************)
(* The lists of users and of the audit trail answer what was asked, for    *)
(* any tables, searches and writes between the statements.                 *)
(***************************************************************************)
EXTENDS ListQuery, FiniteSetTheorems, TLAPS

USE ListAssumption DEF ListAssumption

-----------------------------------------------------------------------------
(* Sequences *)

\* A sequence is a function on 1..Len, its elements are in the set.
LEMMA SeqElements ==
    ASSUME NEW S, NEW q \in Seq(S)
    PROVE  /\ Len(q) \in Nat /\ DOMAIN q = 1..Len(q) /\ q \in [1..Len(q) -> S]
           /\ \A i \in 1..Len(q) : q[i] \in S
           /\ q # <<>> => Len(q) > 0
  OBVIOUS

\* Such a function is a sequence.
LEMMA FunctionIsSeq ==
    ASSUME NEW S, NEW n \in Nat, NEW f \in [1..n -> S] PROVE f \in Seq(S) /\ Len(f) = n
  OBVIOUS

\* The empty sequence.
LEMMA EmptySeqLength == ASSUME NEW S PROVE <<>> \in Seq(S) /\ Len(<<>>) = 0
  OBVIOUS

\* A part of q that begins at its element m, however far it is to go.
LEMMA SubSeqElements ==
    ASSUME NEW S, NEW q \in Seq(S), NEW m \in Nat \ {0}, NEW n \in Int, n <= Len(q)
    PROVE  /\ SubSeq(q, m, n) \in Seq(S)
           /\ Len(SubSeq(q, m, n)) = IF m <= n THEN n - m + 1 ELSE 0
           /\ \A i \in 1..(n - m + 1) : SubSeq(q, m, n)[i] = q[m + i - 1]
  OBVIOUS

\* One sequence after another.
LEMMA ConcatElements ==
    ASSUME NEW S, NEW p \in Seq(S), NEW q \in Seq(S)
    PROVE  /\ p \o q \in Seq(S)
           /\ Len(p \o q) = Len(p) + Len(q)
           /\ \A i \in 1..(Len(p) + Len(q)) :
                 (p \o q)[i] = IF i <= Len(p) THEN p[i] ELSE q[i - Len(p)]
  OBVIOUS

-----------------------------------------------------------------------------
(* Arithmetic *)

\* The larger of two integers.
LEMMA MaxTwo ==
    ASSUME NEW a \in Int, NEW b \in Int
    PROVE  Max({a, b}) = IF a >= b THEN a ELSE b
  BY DEF Max

\* The smaller of two integers.
LEMMA MinTwo ==
    ASSUME NEW a \in Int, NEW b \in Int
    PROVE  Min({a, b}) = IF a <= b THEN a ELSE b
  BY DEF Min

\* Multiplying by a page size keeps the order.
LEMMA ProductMonotone ==
    ASSUME NEW a \in Int, NEW b \in Int, NEW l \in Nat, a <= b
    PROVE  a * l \in Int /\ b * l \in Int /\ a * l <= b * l
<1>1. (b - a) * l >= 0 OBVIOUS
<1>2. (b - a) * l = b * l - a * l OBVIOUS
<1> QED BY <1>1, <1>2

\* What fits an int is multiplied exactly.
LEMMA WrapExact == ASSUME NEW n \in 0..MaxInt PROVE Wrap(n) = n
<1> DEFINE m == 2 * (MaxInt + 1)
<1>1. m \in Nat /\ n < m /\ 0 <= n /\ m > 0 OBVIOUS
<1>2. n % m = n BY <1>1
<1> QED BY <1>2 DEF Wrap

\* What exceeds an int by less than its range comes out negative.
LEMMA WrapNegative ==
    ASSUME NEW n \in Nat, n > MaxInt, n < 2 * (MaxInt + 1)
    PROVE  Wrap(n) \in Int /\ Wrap(n) < 0
<1> DEFINE m == 2 * (MaxInt + 1)
<1>1. m \in Nat /\ n < m /\ 0 <= n /\ m > 0 OBVIOUS
<1>2. n % m = n BY <1>1
<1> QED BY <1>2 DEF Wrap

\* PageMeta rounds up: n rows fill (n + l - 1) \div l pages of l rows.
LEMMA PagesRoundUp ==
    ASSUME NEW n \in Nat, NEW l \in Nat \ {0}, NEW p \in Nat
    PROVE  LET pages == (n + l - 1) \div l
           IN /\ pages \in Nat
              /\ p < pages => p * l < n
              /\ p >= pages => p * l >= n
<1> DEFINE pages == (n + l - 1) \div l
<1>1. pages \in Int /\ pages * l <= n + l - 1 /\ n + l - 1 < pages * l + l
  OBVIOUS
<1>2. pages \in Nat
  <2>1. SUFFICES ASSUME pages <= -1 PROVE FALSE BY <1>1
  <2>2. pages * l <= -1 * l BY <2>1, <1>1, ProductMonotone
  <2> QED BY <1>1, <2>2
<1> HIDE DEF pages
<1>3. ASSUME p < pages PROVE p * l < n
  <2>1. p + 1 <= pages BY <1>1, <1>3
  <2>2. (p + 1) * l <= pages * l BY <2>1, <1>1, ProductMonotone
  <2>3. (p + 1) * l = p * l + l OBVIOUS
  <2> QED BY <1>1, <2>2, <2>3
<1>4. ASSUME p >= pages PROVE p * l >= n
  <2>1. pages * l <= p * l BY <1>4, <1>1, ProductMonotone
  <2> QED BY <1>1, <2>1, ProductMonotone
<1> QED BY <1>2, <1>3, <1>4 DEF pages

\* Paginate skips the rows of the pages before, at most MaxOffset of them.
LEMMA OffsetExact ==
    ASSUME NEW p \in Nat \ {0}, NEW l \in Nat \ {0}, (p - 1) * l < 2 * (MaxInt + 1)
    PROVE  /\ (p - 1) * l \in Nat
           /\ Offset(p, l) = IF (p - 1) * l > MaxOffset THEN MaxOffset ELSE (p - 1) * l
<1> DEFINE n == (p - 1) * l
<1>1. n \in Nat /\ (p = 1 => n = 0) OBVIOUS
<1>2. n < 2 * (MaxInt + 1) OBVIOUS
<1>3. Offset(p, l) = IF p <= 1 THEN 0
                     ELSE IF Wrap(n) < 0 \/ Wrap(n) > MaxOffset THEN MaxOffset ELSE Wrap(n)
  BY Zenon DEF Offset
<1> HIDE DEF n
<1>4. CASE n <= MaxInt
  <2>1. Wrap(n) = n BY <1>1, <1>4, WrapExact
  <2> QED BY <1>1, <1>3, <2>1 DEF n
<1>5. CASE n > MaxInt
  <2>1. Wrap(n) \in Int /\ Wrap(n) < 0 BY <1>1, <1>2, <1>5, WrapNegative
  <2>2. p > 1 /\ n > MaxOffset BY <1>1, <1>5, ListAssumption DEF ListAssumption
  <2> QED BY <1>1, <1>3, <2>1, <2>2 DEF n
<1> QED BY <1>1, <1>4, <1>5

-----------------------------------------------------------------------------
(* Sanitising *)

\* A request as ApplyFilter, ApplySort and ApplyPagination leave it.
Applied(k, s) ==
    /\ s = [in |-> s.in, date |-> s.date, from |-> s.from, to |-> s.to, actor |-> s.actor,
            by |-> s.by, order |-> s.order, page |-> s.page, limit |-> s.limit]
    /\ s.in = [c \in Columns(k) |-> s.in[c]]
    /\ \A c \in Columns(k) : s.in[c] \subseteq Known[c]
    /\ \A b \in {s.date, s.from, s.to} : b # None => Parsed(b) /\ b.at \in Int
    /\ s.date # None => s.from = None /\ s.to = None
    /\ \/ s.by = None /\ s.order = None
       \/ s.by \in sortFields(k) /\ s.order \in {"ASC", "DESC"}
    /\ s.page \in Nat \ {0} /\ s.limit \in 1..MaxLimit

\* A request a client may start with, and one it may send back.
Request(s) ==
    /\ s.page \in Int /\ s.limit \in Int
    /\ \A b \in {s.date, s.from, s.to} : Parsed(b) => b.at \in Int

\* The query builder after ApplyQuery.
AppliedQuery(s) ==
    [wheres |-> Wheres(s, Bounds(s)), by |-> s.by, order |-> s.order,
     limit |-> s.limit, offset |-> Offset(s.page, s.limit)]

\* The bounds echoed denote the interval of the bounds sent, and are echoed
\* unchanged when they are sent back.
LEMMA BoundsEchoed ==
    ASSUME NEW s, NEW t,
           t.date = Bounds(s).echo.date, t.from = Bounds(s).echo.from, t.to = Bounds(s).echo.to
    PROVE  /\ Bounds(t) = Bounds(s)
           /\ t.date # None => Parsed(t.date) /\ t.date = s.date /\ t.from = None /\ t.to = None
           /\ t.from # None => Parsed(t.from) /\ t.from = s.from
           /\ t.to # None => Parsed(t.to) /\ t.to = s.to
<1> USE DEF Bounds, Canonical
<1>1. ~Parsed(None) BY Zenon DEF Parsed
<1>2. CASE Parsed(s.date)
  <2>1. t.date = s.date /\ t.from = None /\ t.to = None BY Zenon, <1>2
  <2>2. s.date # None BY Zenon, <1>1, <1>2
  <2> QED BY Zenon, <1>2, <2>1, <2>2
<1>3. CASE ~Parsed(s.date)
  <2>1. t.date = None /\ t.from = Canonical(s.from) /\ t.to = Canonical(s.to) BY Zenon, <1>3
  <2>2. Parsed(t.from) <=> Parsed(s.from) BY Zenon, <1>1, <2>1
  <2>3. Parsed(t.to) <=> Parsed(s.to) BY Zenon, <1>1, <2>1
  <2>4. ~Parsed(t.date) BY Zenon, <1>1, <2>1
  <2> QED BY Zenon, <1>3, <2>1, <2>2, <2>3, <2>4
<1> QED BY <1>2, <1>3

\* Sanitising yields an applied request, and the query is built from what it
\* echoes.
LEMMA SanitisedApplied ==
    ASSUME kind \in {"users", "audit"}, NEW s, Request(s)
    PROVE  /\ Applied(kind, Sanitised(s))
           /\ Wheres(Sanitised(s), Bounds(s)) = Wheres(Sanitised(s), Bounds(Sanitised(s)))
           /\ \A b \in {Sanitised(s).date, Sanitised(s).from, Sanitised(s).to} :
                 b # None => Parsed(b) /\ b \in {s.date, s.from, s.to}
<1> DEFINE t == Sanitised(s)
           sort == ApplySort(kind, s.by, s.order)
<1>1. /\ t.in = [c \in Columns(kind) |-> ParseValues(c, s.in[c])]
      /\ t.date = Bounds(s).echo.date /\ t.from = Bounds(s).echo.from
      /\ t.to = Bounds(s).echo.to /\ t.actor = s.actor.name
      /\ t.by = sort.by /\ t.order = sort.order
      /\ t.page = ClampPage(s.page) /\ t.limit = ClampLimit(s.limit)
  BY Zenon DEF Sanitised
<1>2. t = [in |-> t.in, date |-> t.date, from |-> t.from, to |-> t.to, actor |-> t.actor,
           by |-> t.by, order |-> t.order, page |-> t.page, limit |-> t.limit]
  BY Zenon DEF Sanitised
<1> HIDE DEF t, sort
<1>3. t.in = [c \in Columns(kind) |-> t.in[c]]
  BY Zenon, <1>1
<1>4. \A c \in Columns(kind) : t.in[c] \subseteq Known[c]
  BY Zenon, <1>1 DEF ParseValues
<1>5. /\ Bounds(t) = Bounds(s)
      /\ t.date # None => Parsed(t.date) /\ t.date = s.date /\ t.from = None /\ t.to = None
      /\ t.from # None => Parsed(t.from) /\ t.from = s.from
      /\ t.to # None => Parsed(t.to) /\ t.to = s.to
  BY <1>1, BoundsEchoed
<1>6. \A b \in {t.date, t.from, t.to} : b # None => Parsed(b) /\ b.at \in Int
  BY SMTT(60), <1>5 DEF Request
<1>7. \/ t.by = None /\ t.order = None
      \/ t.by \in sortFields(kind) /\ t.order \in {"ASC", "DESC"}
  BY Zenon, <1>1 DEF sort, ApplySort
<1>8. t.page \in Nat \ {0} /\ t.limit \in 1..MaxLimit
  BY <1>1 DEF Request, ClampPage, ClampLimit
<1>9. Applied(kind, t) BY Zenon, <1>2, <1>3, <1>4, <1>5, <1>6, <1>7, <1>8 DEF Applied
<1> QED BY Zenon, <1>5, <1>9 DEF t

\* Sent back with the next page, an applied request is only a page further.
LEMMA ResubmittedApplied ==
    ASSUME kind \in {"users", "audit"}, Applied(kind, search)
    PROVE  /\ Request(Resubmitted)
           /\ Sanitised(Resubmitted) = [search EXCEPT !.page = search.page + 1]
<1> DEFINE t == Resubmitted
           s == search
           u == Sanitised(t)
<1>1. /\ t.in = [c \in Columns(kind) |-> {[name |-> n, canonical |-> TRUE] : n \in s.in[c]}]
      /\ t.actor = [name |-> s.actor, padded |-> FALSE]
      /\ t.page = s.page + 1 /\ t.limit = s.limit
      /\ t.date = s.date /\ t.from = s.from /\ t.to = s.to /\ t.by = s.by /\ t.order = s.order
  BY DEF Resubmitted, Applied
<1> HIDE DEF t
<1>2. Request(t)
  <2>1. s.page + 1 \in Int /\ s.limit \in Int BY DEF Applied
  <2>2. \A b \in {s.date, s.from, s.to} : Parsed(b) => b.at \in Int BY DEF Applied, Parsed
  <2> QED BY Zenon, <1>1, <2>1, <2>2 DEF Request
<1>3. \A c \in Columns(kind) : ParseValues(c, t.in[c]) = s.in[c]
  <2> SUFFICES ASSUME NEW c \in Columns(kind) PROVE ParseValues(c, t.in[c]) = s.in[c] OBVIOUS
  <2>1. t.in[c] = {[name |-> n, canonical |-> TRUE] : n \in s.in[c]} BY <1>1
  <2>2. {v.name : v \in t.in[c]} = s.in[c]
    <3>1. ASSUME NEW n \in s.in[c] PROVE \E v \in t.in[c] : v.name = n
      <4>1. [name |-> n, canonical |-> TRUE] \in t.in[c] BY Zenon, <2>1
      <4>2. [name |-> n, canonical |-> TRUE].name = n OBVIOUS
      <4> QED BY <4>1, <4>2
    <3>2. \A v \in t.in[c] : v.name \in s.in[c] BY <2>1
    <3> QED BY ZenonT(90), <3>1, <3>2
  <2>3. s.in[c] \subseteq Known[c] BY DEF Applied
  <2> QED BY <2>2, <2>3 DEF ParseValues
<1>4. u.in = s.in
  <2>1. u.in = [c \in Columns(kind) |-> ParseValues(c, t.in[c])] BY DEF Sanitised
  <2>2. s.in = [c \in Columns(kind) |-> s.in[c]] BY Zenon DEF Applied
  <2> QED BY Zenon, <1>3, <2>1, <2>2
<1>5. Bounds(t).echo.date = s.date /\ Bounds(t).echo.from = s.from /\ Bounds(t).echo.to = s.to
  <2>1. ~Parsed(None) BY DEF Parsed
  <2>2. /\ \A b \in {s.date, s.from, s.to} : b # None => Parsed(b)
        /\ s.date # None => s.from = None /\ s.to = None
    BY Zenon DEF Applied
  <2> QED BY <1>1, <2>1, <2>2 DEF Bounds, Canonical
<1>6. ApplySort(kind, t.by, t.order).by = s.by /\ ApplySort(kind, t.by, t.order).order = s.order
  BY SMTT(60), <1>1, TablesAssumption DEF Applied, ApplySort, TablesAssumption
<1>7. ClampPage(t.page) = s.page + 1 /\ ClampLimit(t.limit) = s.limit
  BY <1>1 DEF Applied, ClampPage, ClampLimit
<1>8. u = [in |-> s.in, date |-> s.date, from |-> s.from, to |-> s.to, actor |-> s.actor,
           by |-> s.by, order |-> s.order, page |-> s.page + 1, limit |-> s.limit]
  <2>1. u = [in |-> u.in, date |-> u.date, from |-> u.from, to |-> u.to, actor |-> u.actor,
             by |-> u.by, order |-> u.order, page |-> u.page, limit |-> u.limit]
    BY DEF Sanitised
  <2>2. /\ u.date = s.date /\ u.from = s.from /\ u.to = s.to
        /\ u.by = s.by /\ u.order = s.order
        /\ u.page = s.page + 1 /\ u.limit = s.limit
    BY ZenonT(90), <1>5, <1>6, <1>7 DEF Sanitised
  <2>3. u.actor = s.actor BY <1>1 DEF Sanitised
  <2> HIDE DEF u
  <2> QED BY Zenon, <1>4, <2>1, <2>2, <2>3
<1>9. s = [in |-> s.in, date |-> s.date, from |-> s.from, to |-> s.to, actor |-> s.actor,
           by |-> s.by, order |-> s.order, page |-> s.page, limit |-> s.limit]
  BY DEF Applied
<1>10. [s EXCEPT !.page = s.page + 1] = u BY <1>8, <1>9
<1> QED BY <1>2, <1>10 DEF t

-----------------------------------------------------------------------------
(* Filtering *)

\* No bound, and no end of the day a bound names, is Go's zero time.
Bounded(s) == \A b \in {s.date, s.from, s.to} : b # None => 0 \notin {b.at, b.at + Day}

\* A row whose sortable columns hold comparable values.
Sortable(k, r) == \A f \in sortFields(k) \cup {"id"} : f \in DOMAIN r /\ r[f] \in Int

\* The interval of WhereBetween is the one the echoed bounds denote.
LEMMA RangeDenoted ==
    ASSUME kind = "audit", NEW s, Applied(kind, s), Bounded(s), NEW r, r.created_at \in Int
    PROVE  (\A w \in WhereBetween("created_at", Bounds(s).from, Bounds(s).to) : Holds(w, r))
           <=> /\ s.date # None => r.created_at \in s.date.at..(s.date.at + Day - 1)
               /\ Within(s.from, r, TRUE) /\ Within(s.to, r, FALSE)
<1> DEFINE from == Bounds(s).from
           to == Bounds(s).to
           lower == Where("AtLeast", "created_at", from)
           upper == Where("Less", "created_at", to)
<1>1. (\A w \in WhereBetween("created_at", from, to) : Holds(w, r))
      <=> (from # 0 => Holds(lower, r)) /\ (to # 0 => Holds(upper, r))
  BY DEF WhereBetween
<1>2. (Holds(lower, r) <=> r.created_at >= from) /\ (Holds(upper, r) <=> r.created_at < to)
  BY DEF Holds, Where
<1>3. /\ \A b \in {s.date, s.from, s.to} : b # None => Parsed(b) /\ b.at \in Int
      /\ s.date # None => s.from = None /\ s.to = None
      /\ ~Parsed(None)
  BY DEF Applied, Parsed
<1>4. CASE s.date # None
  <2>1. from = s.date.at /\ to = s.date.at + Day BY Zenon, <1>3, <1>4 DEF Bounds
  <2>2. from \in Int /\ from # 0 /\ to # 0 BY Zenon, <1>3, <1>4, <2>1 DEF Bounded
  <2>3. Within(s.from, r, TRUE) /\ Within(s.to, r, FALSE) BY <1>3, <1>4 DEF Within
  <2>4. r.created_at \in s.date.at..(s.date.at + Day - 1)
        <=> r.created_at >= from /\ r.created_at < to
    <3>1. s.date.at \in Int BY <2>1, <2>2
    <3> HIDE DEF from, to
    <3> QED BY <2>1, <3>1
  <2> HIDE DEF from, to, lower, upper
  <2> QED BY ZenonT(90), <1>1, <1>2, <1>4, <2>2, <2>3, <2>4 DEF from, to, lower, upper
<1>5. CASE s.date = None
  <2>1. from = IF s.from = None THEN 0 ELSE s.from.at BY Zenon, <1>3, <1>5 DEF Bounds
  <2>2. to = IF s.to = None THEN 0 ELSE IF s.to.form = "date" THEN s.to.at + Day ELSE s.to.at
    BY Zenon, <1>3, <1>5 DEF Bounds
  <2>3. (from # 0 => Holds(lower, r)) <=> Within(s.from, r, TRUE)
    BY Zenon, <1>2, <1>3, <2>1 DEF Within, Bounded
  <2>4. (to # 0 => Holds(upper, r)) <=> Within(s.to, r, FALSE)
    BY Zenon, <1>2, <1>3, <2>2 DEF Within, Bounded
  <2> QED BY Zenon, <1>1, <1>5, <2>3, <2>4
<1> QED BY Zenon, <1>4, <1>5

\* The actor condition is the one the echoed term denotes.
LEMMA ActorDenoted ==
    ASSUME NEW a, NEW r
    PROVE  (\A w \in WhereActor(a) : Holds(w, r))
           <=> (a # None => r.actor \in IF a \in Users THEN {a} ELSE Like[a])
<1>1. Holds(Where("In", "actor", {a}), r) <=> r.actor \in {a} BY DEF Holds, Where
<1>2. Holds(Where("ILike", "actor", a), r) <=> r.actor \in Like[a] BY DEF Holds, Where
<1>3. WhereIn("actor", {a}) = {Where("In", "actor", {a})} BY DEF WhereIn
<1>4. CASE a = None BY <1>4 DEF WhereActor
<1>5. CASE a # None /\ a \in Users BY <1>1, <1>3, <1>5 DEF WhereActor
<1>6. CASE a # None /\ a \notin Users BY <1>2, <1>6 DEF WhereActor
<1> QED BY <1>4, <1>5, <1>6

\* A WHERE of an applied request selects the rows that the echoed filter
\* denotes.
LEMMA MatchingDenoted ==
    ASSUME kind \in {"users", "audit"}, NEW s, Applied(kind, s), Bounded(s),
           NEW T, \A r \in T : Sortable(kind, r)
    PROVE  Matching(AppliedQuery(s).wheres, T) = Denoted(s, T)
<1> DEFINE W == Wheres(s, Bounds(s))
           In == UNION {WhereIn(c, s.in[c]) : c \in Columns(kind)}
           InRange(r) == \A w \in WhereBetween("created_at", Bounds(s).from, Bounds(s).to) : Holds(w, r)
           OfActor(r) == \A w \in WhereActor(s.actor) : Holds(w, r)
<1>1. AppliedQuery(s).wheres = W BY Zenon DEF AppliedQuery
<1>2. ASSUME NEW r \in T
      PROVE  (\A w \in In : Holds(w, r))
             <=> \A c \in Columns(kind) : s.in[c] # {} => r[c] \in s.in[c]
  <2>1. ASSUME NEW c \in Columns(kind)
        PROVE  (\A w \in WhereIn(c, s.in[c]) : Holds(w, r))
               <=> (s.in[c] # {} => r[c] \in s.in[c])
    <3>1. Holds(Where("In", c, s.in[c]), r) <=> r[c] \in s.in[c] BY Zenon DEF Holds, Where
    <3> QED BY <3>1 DEF WhereIn
  <2> QED BY Zenon, <2>1
<1>3. CASE kind = "users"
  <2>1. W = In \cup {Where("IsNull", "deleted_at", None)} BY <1>3 DEF Wheres
  <2>2. \A r : Holds(Where("IsNull", "deleted_at", None), r) <=> r.deleted_at = None
    BY DEF Holds, Where
  <2> HIDE DEF In, W
  <2>3. ASSUME NEW r \in T
        PROVE  (\A w \in W : Holds(w, r))
               <=> /\ \A c \in Columns(kind) : s.in[c] # {} => r[c] \in s.in[c]
                   /\ r.deleted_at = None
    BY Zenon, <1>2, <2>1, <2>2
  <2> QED BY <1>1, <1>3, <2>3 DEF Matching, Denoted
<1>4. CASE kind = "audit"
  <2>1. W = In \cup (WhereBetween("created_at", Bounds(s).from, Bounds(s).to)
                     \cup WhereActor(s.actor))
    BY <1>4 DEF Wheres
  <2>2. ASSUME NEW r \in T PROVE r.created_at \in Int BY <1>4 DEF Sortable, sortFields
  <2>3. ASSUME NEW r \in T
        PROVE  InRange(r) <=> /\ s.date # None => r.created_at \in s.date.at..(s.date.at + Day - 1)
                            /\ Within(s.from, r, TRUE) /\ Within(s.to, r, FALSE)
    BY Zenon, <1>4, <2>2, RangeDenoted
  <2>4. ASSUME NEW r \in T
        PROVE  OfActor(r) <=> (s.actor # None =>
                                r.actor \in IF s.actor \in Users THEN {s.actor} ELSE Like[s.actor])
    BY Zenon, ActorDenoted
  <2> HIDE DEF In, W
  <2>5. ASSUME NEW r \in T
        PROVE  (\A w \in W : Holds(w, r)) <=> (\A w \in In : Holds(w, r)) /\ InRange(r) /\ OfActor(r)
    BY Zenon, <2>1
  <2> QED BY Zenon, <1>1, <1>2, <1>4, <2>3, <2>4, <2>5 DEF Matching, Denoted
<1> QED BY <1>3, <1>4

-----------------------------------------------------------------------------
(* Ordering and paging *)

\* An enumeration of the indices a..b reaches at most b - a + 1 rows.
LEMMA ImageBound ==
    ASSUME NEW a \in Int, NEW b \in Int, a <= b + 1, NEW o,
           NEW S \in SUBSET {o[j] : j \in a..b}
    PROVE  IsFiniteSet(S) /\ Cardinality(S) \in Nat /\ Cardinality(S) <= b - a + 1
<1> DEFINE I == {o[j] : j \in a..b}
           f == [j \in a..b |-> o[j]]
<1>1. f \in Surjection(a..b, I) BY Zenon DEF Surjection
<1>2. IsFiniteSet(a..b) /\ Cardinality(a..b) = b - a + 1 BY FS_Interval
<1>3. IsFiniteSet(I) /\ Cardinality(I) <= b - a + 1
  <2> HIDE DEF f, I
  <2> QED BY <1>1, <1>2, FS_Surjection
<1> HIDE DEF I
<1>4. S \in SUBSET I BY DEF I
<1> QED BY <1>3, <1>4, FS_Subset, FS_CardinalityType

\* An ORDER BY lists every row once.
LEMMA OrderedLists ==
    ASSUME NEW D, IsFiniteSet(D), NEW by, NEW order, NEW o \in Ordered(by, order, D)
    PROVE  /\ Cardinality(D) \in Nat
           /\ o \in Seq(D) /\ Len(o) = Cardinality(D)
           /\ \A i, j \in 1..Len(o) : o[i] = o[j] => i = j
           /\ \A r \in D : \E i \in 1..Len(o) : o[i] = r
           /\ \A i, j \in 1..Len(o) : i < j => ~Before(by, order, o[j], o[i])
<1> DEFINE n == Cardinality(D)
<1>1. n \in Nat BY FS_CardinalityType
<1>2. /\ o \in [1..n -> D]
      /\ \A i, j \in 1..n : o[i] = o[j] => i = j
      /\ \A i, j \in 1..n : i < j => ~Before(by, order, o[j], o[i])
  BY DEF Ordered, Injection, IsInjective
<1> HIDE DEF n
<1>3. o \in Seq(D) /\ Len(o) = n
  BY <1>1, <1>2, FunctionIsSeq
<1>4. \A r \in D : \E i \in 1..n : o[i] = r
  <2>1. o \in Injection(1..n, D) BY <1>2 DEF Injection, IsInjective
  <2>2. Cardinality(1..n) = n BY SMTT(60), <1>1, FS_Interval
  <2>3. o \in Surjection(1..n, D) BY Zenon, <2>1, <2>2, FS_Injection DEF n
  <2> QED BY <2>3 DEF Surjection
<1> QED BY Zenon, <1>1, <1>2, <1>3, <1>4 DEF n

\* Rows before and after one in the order of a request.
Below(s, D, r) == {q \in D : Before(s.by, s.order, q, r)}
Above(s, D, r) == {q \in D : Before(s.by, s.order, r, q)}

\* R is the page of D that follows the first `first` rows.
IsPage(s, D, first, R) ==
    /\ R \in Seq(D)
    /\ IsInjective(R)
    /\ Len(R) = Max({0, Min({s.limit, Cardinality(D) - first})})
    /\ \A i \in 1..Len(R) :
          /\ Cardinality(Below(s, D, R[i])) < first + i
          /\ first + i <= Cardinality(D) - Cardinality(Above(s, D, R[i]))

\* The rank of a row in an ORDER BY.
LEMMA OrderedRanks ==
    ASSUME NEW D, IsFiniteSet(D), NEW s, \A r \in D : ~Before(s.by, s.order, r, r),
           NEW o \in Ordered(s.by, s.order, D), NEW k \in 1..Cardinality(D)
    PROVE  /\ Cardinality(Below(s, D, o[k])) < k
           /\ k <= Cardinality(D) - Cardinality(Above(s, D, o[k]))
<1> DEFINE n == Cardinality(D)
<1>1. /\ n \in Nat /\ o \in Seq(D) /\ Len(o) = n
      /\ \A r \in D : \E i \in 1..n : o[i] = r
      /\ \A i, j \in 1..n : i < j => ~Before(s.by, s.order, o[j], o[i])
  BY OrderedLists
<1> HIDE DEF n
<1>2. k \in 1..n BY DEF n
<1>3. Below(s, D, o[k]) \subseteq {o[j] : j \in 1..(k - 1)}
  <2> SUFFICES ASSUME NEW q \in D, Before(s.by, s.order, q, o[k])
               PROVE  \E j \in 1..(k - 1) : q = o[j]
    BY Zenon DEF Below
  <2>1. PICK j \in 1..n : o[j] = q BY Zenon, <1>1
  <2>2. ~(k < j) BY Zenon, <1>1, <1>2, <2>1
  <2>3. j # k BY Zenon, <2>1
  <2> QED BY SMTT(60), <1>1, <1>2, <2>1, <2>2, <2>3
<1>4. Above(s, D, o[k]) \subseteq {o[j] : j \in (k + 1)..n}
  <2> SUFFICES ASSUME NEW q \in D, Before(s.by, s.order, o[k], q)
               PROVE  \E j \in (k + 1)..n : q = o[j]
    BY DEF Above
  <2>1. PICK j \in 1..n : o[j] = q BY Zenon, <1>1
  <2>2. ~(j < k) BY Zenon, <1>1, <1>2, <2>1
  <2>3. j # k BY <2>1
  <2> QED BY SMTT(60), <1>1, <1>2, <2>1, <2>2, <2>3
<1>5. Cardinality(Below(s, D, o[k])) \in Nat /\ Cardinality(Below(s, D, o[k])) <= k - 1
  <2> DEFINE B == Below(s, D, o[k])
             a == 1
             b == k - 1
  <2>1. B \in SUBSET {o[j] : j \in a..b} BY Zenon, <1>3
  <2>2. a \in Int /\ b \in Int /\ a <= b + 1 /\ b - a + 1 = k - 1 BY <1>1, <1>2
  <2> HIDE DEF B, a, b
  <2>3. Cardinality(B) \in Nat /\ Cardinality(B) <= b - a + 1 BY ZenonT(90), <2>1, <2>2, ImageBound
  <2> QED BY Zenon, <2>2, <2>3 DEF B
<1>6. Cardinality(Above(s, D, o[k])) \in Nat /\ Cardinality(Above(s, D, o[k])) <= n - k
  <2> DEFINE A == Above(s, D, o[k])
             a == k + 1
  <2>1. A \in SUBSET {o[j] : j \in a..n} BY Zenon, <1>4
  <2>2. a \in Int /\ n \in Int /\ a <= n + 1 /\ n - a + 1 = n - k BY <1>1, <1>2
  <2> HIDE DEF A, a
  <2>3. Cardinality(A) \in Nat /\ Cardinality(A) <= n - a + 1 BY ZenonT(90), <2>1, <2>2, ImageBound
  <2> QED BY <2>2, <2>3 DEF A
<1> QED BY SMTT(60), <1>1, <1>2, <1>5, <1>6 DEF n

\* SelectRows reads a page: the rows after the offset, at most limit of them.
\* An offset that was cut to MaxOffset is past the last row, as the page is.
LEMMA PageOfOrdered ==
    ASSUME NEW D, IsFiniteSet(D), NEW s, \A r \in D : ~Before(s.by, s.order, r, r),
           NEW o \in Ordered(s.by, s.order, D), s.limit \in Nat \ {0},
           NEW first \in Nat, NEW offset \in Nat,
           offset # first => offset >= Cardinality(D) /\ first >= Cardinality(D)
    PROVE  IsPage(s, D, first, SubSeq(o, offset + 1, Min({offset + s.limit, Len(o)})))
<1> DEFINE n == Cardinality(D)
           last == Min({offset + s.limit, Len(o)})
           R == SubSeq(o, offset + 1, last)
<1>1. /\ n \in Nat /\ o \in Seq(D) /\ Len(o) = n
      /\ \A i, j \in 1..n : o[i] = o[j] => i = j
  BY OrderedLists
<1> HIDE DEF n
<1>2. last \in Int /\ last = IF offset + s.limit <= n THEN offset + s.limit ELSE n
  BY SMTT(60), <1>1, MinTwo
<1> HIDE DEF last
<1>3. /\ R \in Seq(D)
      /\ Len(R) = IF offset + 1 <= last THEN last - offset ELSE 0
      /\ \A i \in 1..(last - offset) : R[i] = o[offset + i]
  <2> DEFINE m == offset + 1
  <2>1. m \in Nat \ {0} /\ last - m + 1 = last - offset BY SMTT(60), <1>2
  <2>2. last <= Len(o) BY SMTT(60), <1>1, <1>2
  <2>3. \A i \in Int : m + i - 1 = offset + i BY <1>2
  <2> HIDE DEF m
  <2>4. /\ SubSeq(o, m, last) \in Seq(D)
        /\ Len(SubSeq(o, m, last)) = IF m <= last THEN last - m + 1 ELSE 0
        /\ \A i \in 1..(last - m + 1) : SubSeq(o, m, last)[i] = o[m + i - 1]
    <3>1. o \in Seq(D) /\ m \in Nat \ {0} /\ last \in Int /\ last <= Len(o)
      BY Zenon, <1>1, <1>2, <2>1, <2>2
    <3>2. SubSeq(o, m, last) \in Seq(D) BY Zenon, <3>1, SubSeqElements
    <3>3. Len(SubSeq(o, m, last)) = IF m <= last THEN last - m + 1 ELSE 0 BY SMTT(60), <3>1, SubSeqElements
    <3>4. \A i \in 1..(last - m + 1) : SubSeq(o, m, last)[i] = o[m + i - 1] BY <3>1, SubSeqElements
    <3> QED BY Zenon, <3>2, <3>3, <3>4
  <2> QED BY SMTT(60), <1>2, <2>1, <2>3, <2>4 DEF m
<1> HIDE DEF R
<1>4. Len(R) = Max({0, Min({s.limit, n - first})})
  <2> DEFINE m == Min({s.limit, n - first})
  <2>1. m = IF s.limit <= n - first THEN s.limit ELSE n - first BY SMTT(60), <1>1, MinTwo
  <2>2. m \in Int BY SMTT(60), <1>1, <2>1
  <2> HIDE DEF m
  <2>3. Max({0, m}) = IF 0 >= m THEN 0 ELSE m BY SMTT(60), <2>2, MaxTwo
  <2>4. Len(R) = IF s.limit <= n - first THEN s.limit ELSE IF n >= first THEN n - first ELSE 0
    BY SMTT(60), <1>1, <1>2, <1>3 DEF n
  <2>5. Len(R) = Max({0, m}) BY <1>1, <2>1, <2>3, <2>4
  <2> QED BY <2>5 DEF m
<1>5. \A i \in 1..Len(R) : offset = first /\ offset + i \in 1..n /\ R[i] = o[offset + i]
  BY SMTT(60), <1>1, <1>2, <1>3 DEF n
<1>6. IsInjective(R)
  <2>1. DOMAIN R = 1..Len(R) /\ Len(R) \in Nat BY <1>3, SeqElements
  <2>2. ASSUME NEW i \in 1..Len(R), NEW j \in 1..Len(R), R[i] = R[j] PROVE i = j
    <3>1. offset + i = offset + j BY ZenonT(90), <1>1, <1>5, <2>2
    <3> QED BY SMTT(60), <2>1, <3>1
  <2> QED BY Zenon, <2>1, <2>2 DEF IsInjective
<1>7. ASSUME NEW i \in 1..Len(R)
      PROVE  /\ Cardinality(Below(s, D, R[i])) < first + i
             /\ first + i <= n - Cardinality(Above(s, D, R[i]))
  <2> DEFINE k == offset + i
  <2>1. k \in 1..Cardinality(D) /\ R[i] = o[k] /\ k = first + i BY Zenon, <1>5 DEF n
  <2> HIDE DEF k
  <2>2. /\ Cardinality(Below(s, D, o[k])) < k
        /\ k <= Cardinality(D) - Cardinality(Above(s, D, o[k]))
    BY Zenon, <2>1, OrderedRanks
  <2> QED BY Zenon, <2>1, <2>2 DEF n
<1> QED BY Zenon, <1>3, <1>4, <1>6, <1>7 DEF IsPage, R, n, last

\* The sort tells the rows of D apart.
TellsApart(s, D) ==
    \A r, q \in D : r # q => Before(s.by, s.order, r, q) \/ Before(s.by, s.order, q, r)

\* Where the sort tells the rows apart, a row of a page has exactly the rank
\* of its place.
LEMMA PageRanks ==
    ASSUME NEW D, IsFiniteSet(D), NEW s, TellsApart(s, D), NEW first \in Nat, NEW R,
           IsPage(s, D, first, R)
    PROVE  \A i \in 1..Len(R) : R[i] \in D /\ Cardinality(Below(s, D, R[i])) = first + i - 1
<1> SUFFICES ASSUME NEW i \in 1..Len(R)
             PROVE  R[i] \in D /\ Cardinality(Below(s, D, R[i])) = first + i - 1
  OBVIOUS
<1> DEFINE r == R[i]
           B == Below(s, D, r)
           A == Above(s, D, r)
<1>1. /\ R \in Seq(D)
      /\ Cardinality(B) < first + i
      /\ first + i <= Cardinality(D) - Cardinality(A)
  BY Zenon DEF IsPage
<1>2. r \in D BY <1>1, SeqElements
<1>3. Len(R) \in Nat /\ i \in Nat BY <1>1, SeqElements
<1>4. D \in SUBSET ((B \cup A) \cup {r})
  <2>1. \A q \in D : q # r => Before(s.by, s.order, r, q) \/ Before(s.by, s.order, q, r)
    BY Zenon, <1>2 DEF TellsApart
  <2> HIDE DEF r
  <2> QED BY Zenon, <2>1 DEF Below, Above
<1>5. B \in SUBSET D /\ A \in SUBSET D BY DEF Below, Above
<1> HIDE DEF r, B, A
<1>6. IsFiniteSet(B) /\ IsFiniteSet(A) BY Zenon, <1>5, FS_Subset
<1>7. /\ IsFiniteSet(B \cup A) /\ IsFiniteSet(B \cap A)
      /\ Cardinality(B \cup A) = Cardinality(B) + Cardinality(A) - Cardinality(B \cap A)
  <2>1. B \cap A \in SUBSET B OBVIOUS
  <2> QED BY Zenon, <1>6, <2>1, FS_Union, FS_Subset
<1>8. /\ IsFiniteSet((B \cup A) \cup {r})
      /\ Cardinality((B \cup A) \cup {r}) <= Cardinality(B \cup A) + 1
  <2> DEFINE U == B \cup A
  <2>1. IsFiniteSet(U) BY <1>7
  <2> HIDE DEF U
  <2>2. /\ IsFiniteSet(U \cup {r}) /\ Cardinality(U) \in Nat
        /\ Cardinality(U \cup {r}) = IF r \in U THEN Cardinality(U) ELSE Cardinality(U) + 1
    BY Zenon, <2>1, FS_AddElement, FS_CardinalityType
  <2>3. Cardinality(U \cup {r}) <= Cardinality(U) + 1 BY <2>2
  <2> QED BY Zenon, <2>2, <2>3 DEF U
<1>9. Cardinality(D) <= Cardinality((B \cup A) \cup {r}) BY Zenon, <1>4, <1>8, FS_Subset
<1>10. /\ Cardinality(B) \in Nat /\ Cardinality(A) \in Nat /\ Cardinality(B \cap A) \in Nat
       /\ Cardinality(B \cup A) \in Nat /\ Cardinality(D) \in Nat
       /\ Cardinality((B \cup A) \cup {r}) \in Nat
  BY Zenon, <1>6, <1>7, <1>8, FS_CardinalityType
<1>11. Cardinality(B) = first + i - 1
  <2> DEFINE b == Cardinality(B)
             a == Cardinality(A)
             d == Cardinality(D)
             u == Cardinality(B \cup A)
             v == Cardinality((B \cup A) \cup {r})
             w == Cardinality(B \cap A)
  <2>1. /\ b \in Nat /\ a \in Nat /\ d \in Nat /\ u \in Nat /\ v \in Nat /\ w \in Nat
        /\ u = b + a - w /\ v <= u + 1 /\ d <= v
        /\ b < first + i /\ first + i <= d - a
    BY Zenon, <1>1, <1>7, <1>8, <1>9, <1>10
  <2> HIDE DEF b, a, d, u, v, w
  <2>2. b = first + i - 1 BY SMTT(60), <1>3, <2>1
  <2> QED BY Zenon, <2>2 DEF b
<1> QED BY <1>2, <1>11 DEF B, r

-----------------------------------------------------------------------------
(* The invariants *)

\* A table, or what a statement saw of it.
Stored(k, w, T) ==
    /\ IsFiniteSet(T) /\ \A r \in T : Sortable(k, r)
    /\ Cardinality(T) <= Cardinality(FirstRows[k]) + w

TableInv ==
    /\ kind \in {"users", "audit"} /\ writes \in 0..MaxWrites
    /\ Stored(kind, writes, table) /\ Stored(kind, writes, atSelect)
    /\ Stored(kind, writes, atCount)
    /\ \A r, q \in table : r.id = q.id => r = q

\* The query that runs is the one of the request that is echoed.
RequestInv ==
    /\ stage \in {"idle", "select", "count", "answered"}
    /\ stage = "idle" => query = None /\ walk = <<>>
    /\ stage # "idle" => Applied(kind, search) /\ query = AppliedQuery(search)

FilterInv ==
    /\ stage # "idle" => Bounded(search)
    /\ stage \in {"count", "answered"} => rows \in Seq(Denoted(search, atSelect))
    /\ stage = "answered" => meta = PageMeta(Cardinality(Denoted(search, atCount)))

\* The rows of the pages before the requested one.
First(s) == (s.page - 1) * s.limit

PageInv ==
    stage \in {"count", "answered"} /\ BelowWrap(search) =>
        IsPage(search, Denoted(search, atSelect), First(search), rows)

\* The rows of W are the first of D, in their order.
IsWalk(s, D, W) ==
    /\ W \in Seq(D)
    /\ \A i \in 1..Len(W) : Cardinality(Below(s, D, W[i])) = i - 1

\* How far the walk has come.
WalkLength(n) ==
    IF stage = "select" THEN First(search) <= n /\ Len(walk) = First(search)
    ELSE Len(walk) = Min({First(search) + search.limit, n})

WalkInv ==
    stage # "idle" /\ quiet =>
        /\ stage \in {"count", "answered"} => atSelect = table
        /\ stage = "answered" => atCount = table
        /\ TellsApart(search, Denoted(search, table)) =>
              /\ IsWalk(search, Denoted(search, table), walk)
              /\ WalkLength(Cardinality(Denoted(search, table)))

\* What the echoed filter denotes does not change while the request keeps its
\* filter and the table its rows.
LEMMA DenotedKept ==
    ASSUME kind' = kind, search'.in = search.in, search'.date = search.date,
           search'.from = search.from, search'.to = search.to, search'.actor = search.actor
    PROVE  /\ atSelect' = atSelect => Denoted(search, atSelect)' = Denoted(search, atSelect)
           /\ atSelect' = table => Denoted(search, atSelect)' = Denoted(search, table)
           /\ atCount' = atCount => Denoted(search, atCount)' = Denoted(search, atCount)
           /\ atCount' = table => Denoted(search, atCount)' = Denoted(search, table)
           /\ table' = table => Denoted(search, table)' = Denoted(search, table)
  BY ZenonT(90) DEF Denoted

\* The rows a filter denotes are rows of the table.
LEMMA DenotedStored ==
    ASSUME NEW s, NEW w \in Nat, NEW T, Stored(kind, w, T)
    PROVE  /\ Denoted(s, T) \subseteq T /\ IsFiniteSet(Denoted(s, T))
           /\ Cardinality(Denoted(s, T)) \in Nat /\ Cardinality(T) \in Nat
           /\ Cardinality(Denoted(s, T)) <= Cardinality(T)
<1>1. Denoted(s, T) \in SUBSET T BY Zenon DEF Denoted
<1>2. IsFiniteSet(T) BY Zenon DEF Stored
<1> QED BY <1>1, <1>2, FS_Subset, FS_CardinalityType

\* No row comes before itself.
LEMMA Irreflexive ==
    ASSUME NEW s, Applied(kind, s), NEW T, \A r \in T : Sortable(kind, r)
    PROVE  \A r \in Denoted(s, T) : ~Before(s.by, s.order, r, r)
<1> SUFFICES ASSUME NEW r \in Denoted(s, T), Before(s.by, s.order, r, r) PROVE FALSE
  OBVIOUS
<1>1. s.by \in sortFields(kind) BY Zenon DEF Before, Applied
<1>2. r \in T BY DEF Denoted
<1>3. r[s.by] \in Int BY Zenon, <1>1, <1>2 DEF Sortable
<1> QED BY <1>3 DEF Before

\* Searches a client may start with.
LEMMA SearchRequest ==
    ASSUME kind \in {"users", "audit"}, NEW s \in Searches[kind]
    PROVE  Request(s)
<1>1. -(MaxInt + 1)..MaxInt \subseteq Int BY SMTT(60)
<1> QED BY <1>1, TablesAssumption DEF TablesAssumption, Request

-----------------------------------------------------------------------------
(* Tables *)

\* The tables start as TablesAssumption says.
LEMMA InitTable == Init => TableInv
<1> SUFFICES ASSUME Init PROVE TableInv OBVIOUS
<1>1. kind \in {"users", "audit"} /\ writes = 0 /\ table = FirstRows[kind]
      /\ atSelect = {} /\ atCount = {}
  BY Zenon DEF Init
<1>2. /\ IsFiniteSet(FirstRows[kind]) /\ \A r \in FirstRows[kind] : Sortable(kind, r)
      /\ \A r, q \in FirstRows[kind] : r.id = q.id => r = q
  BY Zenon, <1>1, TablesAssumption DEF TablesAssumption, Sortable
<1>3. Cardinality(FirstRows[kind]) \in Nat BY Zenon, <1>2, FS_CardinalityType
<1>4. IsFiniteSet({}) /\ Cardinality({}) = 0 BY Zenon, FS_EmptySet
<1>5. Stored(kind, 0, {})
  <2>1. \A r \in {} : Sortable(kind, r) BY Zenon
  <2>2. Cardinality({}) <= Cardinality(FirstRows[kind]) + 0 BY SMTT(60), <1>3, <1>4
  <2> QED BY Zenon, <1>4, <2>1, <2>2 DEF Stored
<1>6. Stored(kind, 0, FirstRows[kind])
  <2>1. Cardinality(FirstRows[kind]) <= Cardinality(FirstRows[kind]) + 0 BY <1>3
  <2> QED BY <1>2, <2>1 DEF Stored
<1> QED BY <1>1, <1>2, <1>5, <1>6 DEF TableInv

\* A write replaces the table by one with at most one row more.
LEMMA WriteTable ==
    ASSUME TableInv, NEW T, Write(T), IsFiniteSet(T), \A r \in T : Sortable(kind, r),
           Cardinality(T) <= Cardinality(table) + 1,
           \A r, q \in T : r.id = q.id => r = q
    PROVE  TableInv'
<1>1. /\ kind' = kind /\ writes' = writes + 1 /\ writes < MaxWrites /\ table' = T
      /\ atSelect' = atSelect /\ atCount' = atCount
  BY DEF Write
<1>2. writes \in Nat /\ writes' \in 0..MaxWrites /\ kind \in {"users", "audit"} BY <1>1 DEF TableInv
<1>3. /\ Cardinality(T) \in Nat /\ Cardinality(table) \in Nat /\ Cardinality(atSelect) \in Nat
      /\ Cardinality(atCount) \in Nat /\ Cardinality(FirstRows[kind]) \in Nat
  <2>1. IsFiniteSet(table) /\ IsFiniteSet(atSelect) /\ IsFiniteSet(atCount)
    BY DEF TableInv, Stored
  <2>2. IsFiniteSet(FirstRows[kind]) BY Zenon, <1>2, TablesAssumption DEF TablesAssumption
  <2> QED BY ZenonT(90), <2>1, <2>2, FS_CardinalityType
<1>4. /\ Cardinality(T) <= Cardinality(FirstRows[kind]) + (writes + 1)
      /\ Cardinality(atSelect) <= Cardinality(FirstRows[kind]) + (writes + 1)
      /\ Cardinality(atCount) <= Cardinality(FirstRows[kind]) + (writes + 1)
  <2>1. /\ Cardinality(table) <= Cardinality(FirstRows[kind]) + writes
        /\ Cardinality(atSelect) <= Cardinality(FirstRows[kind]) + writes
        /\ Cardinality(atCount) <= Cardinality(FirstRows[kind]) + writes
    BY Zenon DEF TableInv, Stored
  <2> QED BY <1>2, <1>3, <2>1
<1>5. Stored(kind, writes + 1, T) /\ Stored(kind, writes + 1, atSelect)
      /\ Stored(kind, writes + 1, atCount)
  BY <1>4 DEF TableInv, Stored
<1> QED BY <1>1, <1>2, <1>5 DEF TableInv

\* Only Insert and SoftDelete change the table: one adds a row with a new id,
\* the other keeps ids and the number of rows.
LEMMA TableStep == ASSUME TableInv, [Next]_vars PROVE TableInv'
<1>1. ASSUME kind' = kind, writes' = writes, table' = table,
             atSelect' \in {atSelect, table, {}}, atCount' \in {atCount, table, {}}
      PROVE  TableInv'
  <2>1. Stored(kind, writes, {})
    <3>1. IsFiniteSet({}) /\ Cardinality({}) = 0 BY Zenon, FS_EmptySet
    <3>2. Cardinality(FirstRows[kind]) \in Nat
      BY Zenon, TablesAssumption, FS_CardinalityType DEF TablesAssumption, TableInv
    <3>3. Cardinality({}) <= Cardinality(FirstRows[kind]) + writes
      BY <3>1, <3>2 DEF TableInv
    <3>4. \A r \in {} : Sortable(kind, r) OBVIOUS
    <3> QED BY <3>1, <3>3, <3>4 DEF Stored
  <2>2. Stored(kind, writes, atSelect') /\ Stored(kind, writes, atCount')
    BY Zenon, <1>1, <2>1 DEF TableInv
  <2> QED BY <1>1, <2>2 DEF TableInv
<1>2. ASSUME NEW s \in Searches[kind], List(s) PROVE TableInv'
  BY <1>1, <1>2 DEF List
<1>3. ASSUME NextPage PROVE TableInv' BY ZenonT(90), <1>1, <1>3 DEF NextPage, seen
<1>4. ASSUME SelectRows PROVE TableInv' BY <1>1, <1>4 DEF SelectRows
<1>5. ASSUME CountRows PROVE TableInv' BY <1>1, <1>5 DEF CountRows
<1>6. ASSUME StatementFails PROVE TableInv' BY Zenon, <1>1, <1>6 DEF StatementFails
<1>7. ASSUME NEW r \in NewRows[kind], Insert(r) PROVE TableInv'
  <2> DEFINE T == table \cup {r}
  <2>1. Write(T) /\ \A q \in table : q.id # r.id BY Zenon, <1>7 DEF Insert
  <2>2. /\ IsFiniteSet(table) /\ \A q \in table : Sortable(kind, q)
        /\ \A p, q \in table : p.id = q.id => p = q /\ kind \in {"users", "audit"}
    BY Zenon DEF TableInv, Stored
  <2>3. Sortable(kind, r) BY <2>2, TablesAssumption DEF TablesAssumption, Sortable, TableInv
  <2>4. IsFiniteSet(T) /\ Cardinality(T) <= Cardinality(table) + 1
    <3>1. /\ IsFiniteSet(table \cup {r}) /\ Cardinality(table) \in Nat
          /\ Cardinality(table \cup {r})
                = IF r \in table THEN Cardinality(table) ELSE Cardinality(table) + 1
      BY Zenon, <2>2, FS_AddElement, FS_CardinalityType
    <3> QED BY <3>1
  <2>5. \A q \in T : Sortable(kind, q) BY ZenonT(90), <2>2, <2>3
  <2>6. \A p, q \in T : p.id = q.id => p = q BY Zenon, <2>1, <2>2
  <2> HIDE DEF T
  <2> QED BY Zenon, <2>1, <2>4, <2>5, <2>6, WriteTable
<1>8. ASSUME NEW r \in table, SoftDelete(r) PROVE TableInv'
  <2> DEFINE x == [r EXCEPT !.deleted_at = 1]
             U == table \ {r}
             T == U \cup {x}
  <2>1. Write(T) /\ kind = "users" BY Zenon, <1>8 DEF SoftDelete
  <2>2. /\ IsFiniteSet(table) /\ \A q \in table : Sortable(kind, q)
        /\ \A p, q \in table : p.id = q.id => p = q
    BY DEF TableInv, Stored
  <2>3. Sortable(kind, x) /\ x.id = r.id
    <3>1. \A f \in sortFields(kind) \cup {"id"} : f # "deleted_at" /\ f \in DOMAIN r /\ r[f] \in Int
      BY <2>1, <2>2 DEF Sortable, sortFields
    <3>2. \A f \in sortFields(kind) \cup {"id"} : f \in DOMAIN x /\ x[f] = r[f] BY <3>1
    <3> QED BY <3>1, <3>2 DEF Sortable
  <2> HIDE DEF x
  <2>4. IsFiniteSet(T) /\ Cardinality(T) <= Cardinality(table) + 1
    <3>1. IsFiniteSet(U) /\ Cardinality(U) <= Cardinality(table)
      <4>1. U \in SUBSET table OBVIOUS
      <4> HIDE DEF U
      <4> QED BY <2>2, <4>1, FS_Subset
    <3> HIDE DEF U
    <3>2. /\ IsFiniteSet(U \cup {x}) /\ Cardinality(U) \in Nat /\ Cardinality(table) \in Nat
          /\ Cardinality(U \cup {x}) = IF x \in U THEN Cardinality(U) ELSE Cardinality(U) + 1
      BY Zenon, <2>2, <3>1, FS_AddElement, FS_CardinalityType
    <3> QED BY SMTT(60), <3>1, <3>2
  <2>5. \A q \in T : Sortable(kind, q) BY <2>2, <2>3
  <2>6. \A p, q \in T : p.id = q.id => p = q BY <2>2, <2>3
  <2> HIDE DEF T
  <2> QED BY Zenon, <2>1, <2>4, <2>5, <2>6, WriteTable
<1>9. ASSUME UNCHANGED vars PROVE TableInv' BY <1>1, <1>9 DEF vars, seen
<1> QED BY ZenonT(90), <1>2, <1>3, <1>4, <1>5, <1>6, <1>7, <1>8, <1>9 DEF Next

-----------------------------------------------------------------------------
(* Requests *)

\* Whatever the arithmetic does, OFFSET is not negative.
LEMMA OffsetNatural ==
    ASSUME NEW p \in Int, NEW l \in Int
    PROVE  Offset(p, l) \in Nat /\ Offset(p, l) \in 0..MaxOffset
<1>1. (p - 1) * l \in Int OBVIOUS
<1>2. Wrap((p - 1) * l) \in Int
  <2> DEFINE n == (p - 1) * l
             m == 2 * (MaxInt + 1)
  <2>1. m \in Nat /\ m > 0 /\ n \in Int BY <1>1
  <2> HIDE DEF n
  <2>2. n % m \in Int BY <2>1
  <2>3. Wrap(n) \in Int BY SMTT(60), <2>1, <2>2 DEF Wrap
  <2> QED BY <2>3 DEF n
<1> QED BY <1>2 DEF Offset

\* ApplyQuery leaves an applied request and its query.
LEMMA ApplyQueryApplies ==
    ASSUME kind \in {"users", "audit"}, kind' = kind, NEW s, Request(s), ApplyQuery(s)
    PROVE  /\ search' = Sanitised(s) /\ Applied(kind, search)'
           /\ query' = AppliedQuery(search)'
           /\ \A b \in {search'.date, search'.from, search'.to} :
                 b # None => Parsed(b) /\ b \in {s.date, s.from, s.to}
<1> DEFINE t == Sanitised(s)
<1>1. /\ search' = t
      /\ query' = [wheres |-> Wheres(t, Bounds(s)), by |-> t.by, order |-> t.order,
                   limit |-> t.limit, offset |-> Offset(t.page, t.limit)]
  BY ZenonT(90) DEF ApplyQuery
<1>2. /\ Applied(kind, t) /\ Wheres(t, Bounds(s)) = Wheres(t, Bounds(t))
      /\ \A b \in {t.date, t.from, t.to} : b # None => Parsed(b) /\ b \in {s.date, s.from, s.to}
  BY SanitisedApplied
<1>3. Wheres(search, Bounds(search))' = Wheres(search', Bounds(search')) BY Zenon DEF Wheres
<1> HIDE DEF t
<1>4. query' = AppliedQuery(search)' BY Zenon, <1>1, <1>2, <1>3 DEF AppliedQuery
<1>5. Applied(kind, search)' BY ZenonT(90), <1>1, <1>2
<1> QED BY Zenon, <1>1, <1>2, <1>4, <1>5 DEF t

\* PostgreSQL takes the OFFSET of an applied request.
LEMMA OffsetTaken ==
    ASSUME NEW s, Applied(kind, s), query = AppliedQuery(s)
    PROVE  query.offset = Offset(s.page, s.limit) /\ query.offset \in 0..MaxOffset
<1>1. query.offset = Offset(s.page, s.limit) BY Zenon DEF AppliedQuery
<1>2. s.page \in Int /\ s.limit \in Int BY DEF Applied
<1> QED BY Zenon, <1>1, <1>2, OffsetNatural

\* The query is a function of the request.
LEMMA QueryKept ==
    ASSUME kind' = kind, search' = search PROVE AppliedQuery(search)' = AppliedQuery(search)
  BY DEF AppliedQuery, Wheres

\* A client asks for the next page of what it was told.
LEMMA NextPageApplies ==
    ASSUME TableInv, RequestInv, NextPage
    PROVE  /\ Applied(kind, search) /\ kind' = kind
           /\ search' = [search EXCEPT !.page = search.page + 1]
           /\ search'.in = search.in /\ search'.date = search.date /\ search'.from = search.from
           /\ search'.to = search.to /\ search'.actor = search.actor
           /\ search'.by = search.by /\ search'.order = search.order
           /\ search'.limit = search.limit /\ search'.page = search.page + 1
           /\ Applied(kind, search)' /\ query' = AppliedQuery(search)'
<1>1. /\ kind \in {"users", "audit"} /\ kind' = kind /\ Applied(kind, search)
      /\ ApplyQuery(Resubmitted)
  BY DEF TableInv, RequestInv, NextPage
<1>2. Request(Resubmitted) /\ Sanitised(Resubmitted) = [search EXCEPT !.page = search.page + 1]
  BY <1>1, ResubmittedApplied
<1>3. search' = Sanitised(Resubmitted) /\ Applied(kind, search)' /\ query' = AppliedQuery(search)'
  BY <1>1, <1>2, ApplyQueryApplies
<1>4. search' = [search EXCEPT !.page = search.page + 1] BY <1>2, <1>3
<1>5. /\ search'.in = search.in /\ search'.date = search.date /\ search'.from = search.from
      /\ search'.to = search.to /\ search'.actor = search.actor
      /\ search'.by = search.by /\ search'.order = search.order
      /\ search'.limit = search.limit /\ search'.page = search.page + 1
  BY Zenon, <1>1, <1>4 DEF Applied
<1> QED BY ZenonT(90), <1>1, <1>3, <1>4, <1>5

\* There is no request at first.
LEMMA InitRequest == Init => RequestInv
  BY DEF Init, RequestInv

\* List sanitises what it is given and NextPage what was echoed.
LEMMA RequestStep == ASSUME TableInv, RequestInv, [Next]_vars PROVE RequestInv'
<1>1. ASSUME kind' = kind, search' = search, query' = query, stage # "idle",
             stage' \in {"count", "answered", stage}
      PROVE  RequestInv'
  BY Zenon, <1>1, QueryKept DEF RequestInv
<1>2. ASSUME UNCHANGED <<kind, search, query, stage, walk>> PROVE RequestInv'
  BY Zenon, <1>2, QueryKept DEF RequestInv
<1>3. ASSUME NEW s \in Searches[kind], List(s) PROVE RequestInv'
  <2>1. kind \in {"users", "audit"} /\ kind' = kind /\ ApplyQuery(s) /\ stage' = "select"
    BY Zenon, <1>3 DEF List, TableInv
  <2>2. Applied(kind, search)' /\ query' = AppliedQuery(search)'
    BY Zenon, <2>1, SearchRequest, ApplyQueryApplies
  <2> QED BY <2>1, <2>2 DEF RequestInv
<1>4. ASSUME NextPage PROVE RequestInv'
  <2>1. Applied(kind, search)' /\ query' = AppliedQuery(search)' BY Zenon, <1>4, NextPageApplies
  <2> QED BY <1>4, <2>1 DEF RequestInv, NextPage
<1>5. ASSUME SelectRows PROVE RequestInv' BY <1>1, <1>5 DEF SelectRows
<1>6. ASSUME CountRows PROVE RequestInv' BY Zenon, <1>1, <1>6 DEF CountRows
<1>7. ASSUME StatementFails PROVE RequestInv' BY <1>7 DEF StatementFails, RequestInv
<1>8. ASSUME NEW T, Write(T) PROVE RequestInv' BY <1>2, <1>8 DEF Write, request
<1>9. ASSUME UNCHANGED vars PROVE RequestInv' BY Zenon, <1>2, <1>9 DEF vars, request, seen
<1> QED BY ZenonT(90), <1>3, <1>4, <1>5, <1>6, <1>7, <1>8, <1>9 DEF Next, Insert, SoftDelete

-----------------------------------------------------------------------------
(* The filter *)

\* No bound a client starts with, and no end of the day it names, is Go's zero
\* time, which WhereBetween takes for an open side.
NoZeroTimes ==
    \A k \in {"users", "audit"} : \A s \in Searches[k] : \A b \in {s.date, s.from, s.to} :
        Parsed(b) => 0 \notin {b.at, b.at + Day}

\* The SELECT reads a page of an ordering of the rows that the echoed filter
\* denotes.
LEMMA SelectReads ==
    ASSUME TableInv, RequestInv, Bounded(search), SelectRows
    PROVE  \E o \in Ordered(search.by, search.order, Denoted(search, table)) :
              rows' = SubSeq(o, Offset(search.page, search.limit) + 1,
                             Min({Offset(search.page, search.limit) + search.limit, Len(o)}))
<1>1. /\ kind \in {"users", "audit"} /\ Applied(kind, search) /\ query = AppliedQuery(search)
      /\ \A r \in table : Sortable(kind, r)
  BY DEF TableInv, RequestInv, SelectRows, Stored
<1>2. Matching(query.wheres, table) = Denoted(search, table) BY Zenon, <1>1, MatchingDenoted
<1>3. /\ query.by = search.by /\ query.order = search.order /\ query.limit = search.limit
      /\ query.offset = Offset(search.page, search.limit)
  BY <1>1 DEF AppliedQuery
<1> QED BY ZenonT(90), <1>2, <1>3 DEF SelectRows

\* The COUNT counts the rows that the echoed filter denotes.
LEMMA CountReads ==
    ASSUME TableInv, RequestInv, Bounded(search), CountRows
    PROVE  meta' = PageMeta(Cardinality(Denoted(search, table)))
<1>1. /\ kind \in {"users", "audit"} /\ Applied(kind, search) /\ query = AppliedQuery(search)
      /\ \A r \in table : Sortable(kind, r)
  BY Zenon DEF TableInv, RequestInv, CountRows, Stored
<1>2. Matching(query.wheres, table) = Denoted(search, table) BY <1>1, MatchingDenoted
<1> QED BY ZenonT(90), <1>2 DEF CountRows

\* Nothing was read at first.
LEMMA InitFilter == Init => FilterInv
  BY DEF Init, FilterInv

\* The SELECT and the COUNT read what the echoed filter denotes, and the writes
\* of others do not change what they saw.
LEMMA FilterStep ==
    ASSUME NoZeroTimes, TableInv, RequestInv, FilterInv, [Next]_vars
    PROVE  FilterInv'
<1>1. ASSUME UNCHANGED <<kind, search, rows, meta, stage, atSelect, atCount>> PROVE FilterInv'
  <2>1. /\ Denoted(search, atSelect)' = Denoted(search, atSelect)
        /\ Denoted(search, atCount)' = Denoted(search, atCount)
    BY <1>1, DenotedKept
  <2> QED BY Zenon, <1>1, <2>1 DEF FilterInv, PageMeta
<1>2. ASSUME NEW s \in Searches[kind], List(s) PROVE FilterInv'
  <2>1. kind \in {"users", "audit"} /\ kind' = kind /\ ApplyQuery(s) /\ stage' = "select"
    BY Zenon, <1>2 DEF List, TableInv
  <2>2. \A b \in {search'.date, search'.from, search'.to} :
           b # None => Parsed(b) /\ b \in {s.date, s.from, s.to}
    BY ZenonT(90), <2>1, SearchRequest, ApplyQueryApplies
  <2>3. Bounded(search)' BY Zenon, <2>1, <2>2 DEF Bounded, NoZeroTimes
  <2> QED BY Zenon, <2>1, <2>3 DEF FilterInv
<1>3. ASSUME NextPage PROVE FilterInv'
  <2>1. search'.date = search.date /\ search'.from = search.from /\ search'.to = search.to
    BY <1>3, NextPageApplies
  <2>2. Bounded(search) /\ stage' = "select" BY Zenon, <1>3 DEF FilterInv, NextPage
  <2>3. Bounded(search)' BY Zenon, <2>1, <2>2 DEF Bounded
  <2> QED BY <2>2, <2>3 DEF FilterInv
<1>4. ASSUME SelectRows PROVE FilterInv'
  <2> DEFINE D == Denoted(search, table)
             offset == Offset(search.page, search.limit)
  <2>1. Bounded(search) /\ search' = search /\ kind' = kind /\ stage' = "count"
        /\ atSelect' = table /\ Applied(kind, search) /\ Stored(kind, writes, table) /\ writes \in Nat
    BY <1>4 DEF FilterInv, SelectRows, RequestInv, TableInv
  <2>2. Denoted(search, atSelect)' = D BY Zenon, <2>1, DenotedKept
  <2>3. IsFiniteSet(D) BY ZenonT(90), <2>1, DenotedStored
  <2>4. search.page \in Int /\ search.limit \in Int BY <2>1 DEF Applied
  <2>5. offset \in Nat BY Zenon, <2>4, OffsetNatural
  <2>6. PICK o \in Ordered(search.by, search.order, D) :
               rows' = SubSeq(o, offset + 1, Min({offset + search.limit, Len(o)}))
    BY ZenonT(90), <1>4, <2>1, SelectReads
  <2> HIDE DEF D, offset
  <2>7. o \in Seq(D) /\ Len(o) \in Nat BY <2>3, OrderedLists
  <2>8. rows' \in Seq(D)
    <3> DEFINE m == offset + 1
               last == Min({offset + search.limit, Len(o)})
    <3>1. last \in Int /\ last <= Len(o) /\ m \in Nat \ {0}
      BY SMTT(60), <2>4, <2>5, <2>7, MinTwo
    <3> HIDE DEF m, last
    <3>2. SubSeq(o, m, last) \in Seq(D) BY <2>7, <3>1, SubSeqElements
    <3> QED BY Zenon, <2>6, <3>2 DEF m, last
  <2>9. Bounded(search)' BY Zenon, <2>1
  <2> QED BY ZenonT(90), <2>1, <2>2, <2>8, <2>9 DEF FilterInv
<1>5. ASSUME CountRows PROVE FilterInv'
  <2>1. /\ Bounded(search) /\ search' = search /\ kind' = kind /\ stage' = "answered"
        /\ atSelect' = atSelect /\ atCount' = table /\ rows' = rows
        /\ rows \in Seq(Denoted(search, atSelect))
    BY ZenonT(90), <1>5 DEF FilterInv, CountRows
  <2>2. /\ Denoted(search, atSelect)' = Denoted(search, atSelect)
        /\ Denoted(search, atCount)' = Denoted(search, table)
    BY <2>1, DenotedKept
  <2>3. meta' = PageMeta(Cardinality(Denoted(search, table))) BY Zenon, <1>5, <2>1, CountReads
  <2>4. meta' = PageMeta(Cardinality(Denoted(search, atCount)))' BY Zenon, <2>1, <2>2, <2>3 DEF PageMeta
  <2>5. Bounded(search)' BY <2>1
  <2> QED BY Zenon, <2>1, <2>2, <2>4, <2>5 DEF FilterInv
<1>6. ASSUME StatementFails PROVE FilterInv' BY <1>6 DEF StatementFails, FilterInv
<1>7. ASSUME NEW T, Write(T) PROVE FilterInv' BY Zenon, <1>1, <1>7 DEF Write, request
<1>8. ASSUME UNCHANGED vars PROVE FilterInv' BY <1>1, <1>8 DEF vars, request, seen
<1> QED BY ZenonT(90), <1>2, <1>3, <1>4, <1>5, <1>6, <1>7, <1>8 DEF Next, Insert, SoftDelete

\* Whatever the tables, the searches and the writes of other requests, as long
\* as no bound is the zero time: the rows of an answer are rows that its echoed
\* filter denotes, and the total counts those rows.
THEOREM FilterIsEchoed == NoZeroTimes => (Spec => []FilterEchoed)
<1> SUFFICES ASSUME NoZeroTimes PROVE Spec => []FilterEchoed OBVIOUS
<1> DEFINE Inv == TableInv /\ RequestInv /\ FilterInv
<1>1. Init => Inv BY Zenon, InitTable, InitRequest, InitFilter
<1>2. Inv /\ [Next]_vars => Inv' BY Zenon, TableStep, RequestStep, FilterStep
<1>3. Inv => FilterEchoed
  <2> SUFFICES ASSUME FilterInv, stage = "answered" PROVE FilterEchoed BY DEF FilterEchoed
  <2> DEFINE D == Denoted(search, atSelect)
  <2>1. rows \in Seq(D) BY DEF FilterInv
  <2>2. Range(rows) \subseteq D
    <3> HIDE DEF D
    <3>1. DOMAIN rows = 1..Len(rows) BY <2>1, SeqElements
    <3>2. \A i \in 1..Len(rows) : rows[i] \in D BY Zenon, <2>1, SeqElements
    <3> QED BY <3>1, <3>2 DEF Range
  <2>3. meta.total = Cardinality(Denoted(search, atCount)) BY SMTT(60) DEF FilterInv, PageMeta
  <2> QED BY Zenon, <2>2, <2>3 DEF FilterEchoed
<1> QED BY <1>1, <1>2, <1>3, PTL DEF Spec

-----------------------------------------------------------------------------
(* The page *)

\* The tables hold no more rows than an offset can skip.
TablesFit ==
    \A k \in {"users", "audit"} : Cardinality(FirstRows[k]) + MaxWrites <= MaxOffset

\* A filter denotes no more rows than an offset can skip.
LEMMA DenotedFits ==
    ASSUME TablesFit, TableInv, NEW s, NEW T, Stored(kind, writes, T)
    PROVE  /\ IsFiniteSet(Denoted(s, T)) /\ Cardinality(Denoted(s, T)) \in Nat
           /\ Cardinality(Denoted(s, T)) <= MaxOffset
<1>1. writes \in Nat /\ writes <= MaxWrites /\ kind \in {"users", "audit"} BY DEF TableInv
<1>2. /\ IsFiniteSet(Denoted(s, T)) /\ Cardinality(Denoted(s, T)) \in Nat
      /\ Cardinality(T) \in Nat /\ Cardinality(Denoted(s, T)) <= Cardinality(T)
  BY Zenon, <1>1, DenotedStored
<1>3. Cardinality(T) <= Cardinality(FirstRows[kind]) + writes BY DEF Stored
<1>4. Cardinality(FirstRows[kind]) + MaxWrites <= MaxOffset BY ZenonT(90), <1>1 DEF TablesFit
<1>5. Cardinality(FirstRows[kind]) \in Nat
  BY Zenon, <1>1, TablesAssumption, FS_CardinalityType DEF TablesAssumption
<1> QED BY SMTT(60), <1>1, <1>2, <1>3, <1>4, <1>5

\* The pages before page p + 1 are those before page p and page p.
LEMMA FirstNext ==
    ASSUME NEW p \in Nat \ {0}, NEW l \in Nat
    PROVE  /\ (p - 1) * l \in Nat
           /\ (p + 1 - 1) * l = p * l
           /\ p * l = (p - 1) * l + l
  OBVIOUS

\* total_pages tells whether rows are left after the echoed page.
LEMMA PagesLeft ==
    ASSUME TableInv, RequestInv, FilterInv, stage = "answered"
    PROVE  LET n == Cardinality(Denoted(search, atCount))
           IN /\ n \in Nat /\ meta.total_pages \in Nat
              /\ search.page < meta.total_pages => search.page * search.limit < n
              /\ search.page >= meta.total_pages => search.page * search.limit >= n
<1> DEFINE n == Cardinality(Denoted(search, atCount))
           l == search.limit
           p == search.page
<1>1. p \in Nat /\ l \in Nat \ {0} BY DEF RequestInv, Applied
<1>2. n \in Nat
  <2>1. Stored(kind, writes, atCount) /\ writes \in Nat BY SMTT(60) DEF TableInv
  <2> QED BY Zenon, <2>1, DenotedStored
<1>3. meta.total_pages = (n + l - 1) \div l BY <1>1 DEF FilterInv, PageMeta
<1> HIDE DEF n, l, p
<1>4. LET pages == (n + l - 1) \div l
      IN /\ pages \in Nat
         /\ p < pages => p * l < n
         /\ p >= pages => p * l >= n
  BY Zenon, <1>1, <1>2, PagesRoundUp
<1> QED BY ZenonT(90), <1>2, <1>3, <1>4 DEF n, l, p

\* No page was read at first.
LEMMA InitPage == Init => PageInv
  BY DEF Init, PageInv

\* The SELECT reads the page that the offset and the limit of the query denote.
LEMMA PageStep ==
    ASSUME TablesFit, TableInv, RequestInv, FilterInv, PageInv, [Next]_vars
    PROVE  PageInv'
<1>1. ASSUME UNCHANGED <<kind, search, rows, atSelect>>,
             stage' = stage \/ (stage = "count" /\ stage' = "answered")
      PROVE  PageInv'
  <2>1. Denoted(search, atSelect)' = Denoted(search, atSelect) BY Zenon, <1>1, DenotedKept
  <2> QED BY Zenon, <1>1, <2>1 DEF PageInv
<1>2. ASSUME NEW s \in Searches[kind], List(s) PROVE PageInv' BY <1>2 DEF List, PageInv
<1>3. ASSUME NextPage PROVE PageInv' BY <1>3 DEF NextPage, PageInv
<1>4. ASSUME SelectRows PROVE PageInv'
  <2> DEFINE D == Denoted(search, table)
             offset == Offset(search.page, search.limit)
             first == First(search)
  <2>1. /\ Bounded(search) /\ search' = search /\ kind' = kind /\ stage' = "count"
        /\ atSelect' = table /\ Applied(kind, search)
    BY Zenon, <1>4 DEF FilterInv, SelectRows, RequestInv
  <2> SUFFICES ASSUME BelowWrap(search)
               PROVE  IsPage(search, Denoted(search, atSelect), First(search), rows)'
    BY Zenon, <2>1 DEF PageInv, BelowWrap
  <2>2. Denoted(search, atSelect)' = D BY Zenon, <2>1, DenotedKept
  <2>3. IsFiniteSet(D) /\ Cardinality(D) \in Nat /\ Cardinality(D) <= MaxOffset
    <3>1. Stored(kind, writes, table) BY ZenonT(90) DEF TableInv
    <3> QED BY <3>1, DenotedFits
  <2>4. search.page \in Nat \ {0} /\ search.limit \in Nat \ {0} BY <2>1 DEF Applied
  <2>5. first \in Nat /\ offset = IF first > MaxOffset THEN MaxOffset ELSE first
    BY ZenonT(90), <2>4, OffsetExact DEF First, BelowWrap
  <2>6. \A r \in D : ~Before(search.by, search.order, r, r)
    <3>1. \A r \in table : Sortable(kind, r) BY DEF TableInv, Stored
    <3> QED BY ZenonT(90), <2>1, <3>1, Irreflexive
  <2>7. PICK o \in Ordered(search.by, search.order, D) :
               rows' = SubSeq(o, offset + 1, Min({offset + search.limit, Len(o)}))
    BY Zenon, <1>4, <2>1, SelectReads
  <2> HIDE DEF D, offset, first
  <2>8. offset \in Nat /\ (offset # first => offset >= Cardinality(D) /\ first >= Cardinality(D))
    BY <2>3, <2>5
  <2>9. IsPage(search, D, first, rows') BY ZenonT(90), <2>3, <2>4, <2>5, <2>6, <2>7, <2>8, PageOfOrdered
  <2> QED BY Zenon, <2>1, <2>2, <2>9 DEF First, first
<1>5. ASSUME CountRows PROVE PageInv' BY Zenon, <1>1, <1>5 DEF CountRows
<1>6. ASSUME StatementFails PROVE PageInv' BY <1>6 DEF StatementFails, PageInv
<1>7. ASSUME NEW T, Write(T) PROVE PageInv' BY Zenon, <1>1, <1>7 DEF Write, request
<1>8. ASSUME UNCHANGED vars PROVE PageInv' BY <1>1, <1>8 DEF vars, request, seen
<1> QED BY ZenonT(90), <1>2, <1>3, <1>4, <1>5, <1>6, <1>7, <1>8 DEF Next, Insert, SoftDelete

\* The hypotheses of the theorems about pages, and the invariant they share.
Fits == NoZeroTimes /\ TablesFit

ListInv == TableInv /\ RequestInv /\ FilterInv /\ PageInv

\* The invariant holds at first.
LEMMA InitList == Init => ListInv
  BY ZenonT(90), InitTable, InitRequest, InitFilter, InitPage DEF ListInv

\* Every step preserves it.
LEMMA ListStep == ASSUME Fits, ListInv, [Next]_vars PROVE ListInv'
  BY Zenon, TableStep, RequestStep, FilterStep, PageStep DEF ListInv, Fits

\* Whatever the tables, the searches and the writes of other requests, within
\* the limits of Fits: the rows of an answer are the page that the echoed page,
\* limit and sort denote.
THEOREM PageIsEchoed == Fits => (Spec => []PageEchoed)
<1> SUFFICES ASSUME Fits PROVE Spec => []PageEchoed OBVIOUS
<1>1. Init => ListInv BY InitList
<1>2. ListInv /\ [Next]_vars => ListInv' BY Zenon, ListStep
<1>3. ListInv => PageEchoed
  <2> SUFFICES ASSUME ListInv, stage = "answered" PROVE PageEchoed BY Zenon DEF PageEchoed
  <2>1. BelowWrap(search) => IsPage(search, Denoted(search, atSelect), First(search), rows)
    BY Zenon DEF ListInv, PageInv
  <2>2. search.limit \in 1..MaxLimit BY Zenon DEF ListInv, RequestInv, Applied
  <2>3. query.offset \in 0..MaxOffset BY Zenon, OffsetTaken DEF ListInv, RequestInv
  <2>4. BelowWrap(search) => DOMAIN rows = 1..Len(rows) BY Zenon, <2>1, SeqElements DEF IsPage
  <2> QED BY Zenon, <2>1, <2>2, <2>3, <2>4 DEF PageEchoed, IsPage, First, Below, Above
<1> QED BY <1>1, <1>2, <1>3, PTL DEF Spec

-----------------------------------------------------------------------------
(* The walk *)

\* The rows of the next page continue a walk.
LEMMA WalkExtended ==
    ASSUME NEW D, IsFiniteSet(D), NEW s, TellsApart(s, D), NEW W, IsWalk(s, D, W),
           NEW R, IsPage(s, D, Len(W), R)
    PROVE  IsWalk(s, D, W \o R) /\ Len(W \o R) = Len(W) + Len(R)
<1>1. W \in Seq(D) /\ R \in Seq(D) BY DEF IsWalk, IsPage
<1>2. Len(W) \in Nat /\ Len(R) \in Nat BY ZenonT(90), <1>1, SeqElements
<1>3. \A i \in 1..Len(R) : Cardinality(Below(s, D, R[i])) = Len(W) + i - 1
  <2> DEFINE first == Len(W)
  <2>1. first \in Nat /\ IsPage(s, D, first, R) BY Zenon, <1>2
  <2> HIDE DEF first
  <2>2. \A i \in 1..Len(R) : R[i] \in D /\ Cardinality(Below(s, D, R[i])) = first + i - 1
    BY SMTT(60), <2>1, PageRanks
  <2> QED BY <2>2 DEF first
<1>4. /\ W \o R \in Seq(D) /\ Len(W \o R) = Len(W) + Len(R)
      /\ \A i \in 1..(Len(W) + Len(R)) : (W \o R)[i] = IF i <= Len(W) THEN W[i] ELSE R[i - Len(W)]
  BY ZenonT(90), <1>1, ConcatElements
<1>5. ASSUME NEW i \in 1..Len(W \o R) PROVE Cardinality(Below(s, D, (W \o R)[i])) = i - 1
  <2>1. CASE i <= Len(W)
    <3>1. (W \o R)[i] = W[i] /\ i \in 1..Len(W) BY SMTT(60), <1>2, <1>4, <2>1
    <3> QED BY ZenonT(90), <3>1 DEF IsWalk
  <2>2. CASE i > Len(W)
    <3> DEFINE j == i - Len(W)
    <3>1. (W \o R)[i] = R[j] /\ j \in 1..Len(R) /\ Len(W) + j - 1 = i - 1 BY SMTT(60), <1>2, <1>4, <2>2
    <3> HIDE DEF j
    <3> QED BY ZenonT(90), <1>3, <3>1
  <2> QED BY SMTT(60), <1>2, <1>4, <2>1, <2>2
<1> QED BY ZenonT(90), <1>4, <1>5 DEF IsWalk

\* A walk as long as there are rows has met every row once.
LEMMA WalkWhole ==
    ASSUME NEW D, IsFiniteSet(D), NEW s, NEW W, IsWalk(s, D, W), Len(W) = Cardinality(D)
    PROVE  IsInjective(W) /\ Range(W) = D
<1>1. W \in Seq(D) /\ \A i \in 1..Len(W) : Cardinality(Below(s, D, W[i])) = i - 1 BY Zenon DEF IsWalk
<1>2. Len(W) \in Nat /\ W \in [1..Len(W) -> D] /\ DOMAIN W = 1..Len(W) BY Zenon, <1>1, SeqElements
<1>3. ASSUME NEW i \in 1..Len(W), NEW j \in 1..Len(W), W[i] = W[j] PROVE i = j
  <2>1. i - 1 = j - 1 BY Zenon, <1>1, <1>3
  <2> QED BY SMTT(60), <1>2, <2>1
<1>4. W \in Injection(1..Len(W), D) BY Zenon, <1>2, <1>3 DEF Injection, IsInjective
<1>5. Cardinality(1..Len(W)) = Len(W)
  <2> DEFINE n == Len(W)
  <2>1. n \in Int /\ n >= 0 /\ 1 \in Int BY SMTT(60), <1>2
  <2> HIDE DEF n
  <2>2. Cardinality(1..n) = IF 1 > n THEN 0 ELSE n - 1 + 1 BY Zenon, <2>1, FS_Interval
  <2>3. Cardinality(1..n) = n BY SMTT(60), <2>1, <2>2
  <2> QED BY Zenon, <2>3 DEF n
<1>6. W \in Surjection(1..Len(W), D) BY Zenon, <1>4, <1>5, FS_Injection
<1>7. IsInjective(W) BY <1>4 DEF Injection
<1>8. Range(W) = D BY ZenonT(90), <1>2, <1>6 DEF Range, Surjection
<1> QED BY Zenon, <1>7, <1>8

\* A page further, the rows before are those of one page more.
LEMMA FirstFurther ==
    ASSUME NEW s, NEW t, s.page \in Nat \ {0}, s.limit \in Nat \ {0},
           t.page = s.page + 1, t.limit = s.limit
    PROVE  /\ First(s) \in Nat /\ First(t) = s.page * s.limit
           /\ s.page * s.limit = First(s) + s.limit
<1>1. PICK p \in Nat \ {0} : p = s.page BY Zenon
<1>2. PICK l \in Nat \ {0} : l = s.limit BY Zenon
<1>3. First(s) = (p - 1) * l BY <1>1, <1>2 DEF First
<1>4. t.page = p + 1 /\ t.limit = l BY Zenon, <1>1, <1>2
<1>5. First(t) = (p + 1 - 1) * l BY <1>4 DEF First
<1>6. (p - 1) * l \in Nat /\ (p + 1 - 1) * l = p * l /\ p * l = (p - 1) * l + l
  BY ZenonT(90), FirstNext
<1> QED BY Zenon, <1>1, <1>2, <1>3, <1>5, <1>6

\* No walk has begun at first.
LEMMA InitWalk == Init => WalkInv
  BY DEF Init, WalkInv

\* Each page that is read continues the walk where NextPage left it.
LEMMA WalkStep == ASSUME Fits, ListInv, WalkInv, [Next]_vars PROVE WalkInv'
<1> USE DEF ListInv
<1>1. ASSUME UNCHANGED <<kind, table, search, walk, quiet, atSelect>>, stage # "select",
             \/ stage' = stage /\ atCount' = atCount
             \/ stage = "count" /\ stage' = "answered" /\ atCount' = table
      PROVE  WalkInv'
  <2>1. Denoted(search, table)' = Denoted(search, table) BY <1>1, DenotedKept
  <2>2. stage' # "select" /\ (stage' # "idle" => stage # "idle") BY Zenon, <1>1 DEF RequestInv
  <2>3. WalkLength(Cardinality(Denoted(search, table)))'
        <=> WalkLength(Cardinality(Denoted(search, table)))
    BY Zenon, <1>1, <2>1, <2>2 DEF WalkLength
  <2> QED BY Zenon, <1>1, <2>1, <2>2, <2>3 DEF WalkInv
<1>2. ASSUME UNCHANGED vars PROVE WalkInv'
  <2>1. UNCHANGED <<kind, table, stage, search, walk, quiet, atSelect, atCount>>
    BY Zenon, <1>2 DEF vars, request, seen
  <2>2. Denoted(search, table)' = Denoted(search, table) BY Zenon, <2>1, DenotedKept
  <2>3. WalkLength(Cardinality(Denoted(search, table)))'
        <=> WalkLength(Cardinality(Denoted(search, table)))
    BY Zenon, <2>1, <2>2 DEF WalkLength
  <2> QED BY Zenon, <2>1, <2>2, <2>3 DEF WalkInv
<1>3. ASSUME NEW s \in Searches[kind], List(s) PROVE WalkInv'
  <2>1. /\ kind \in {"users", "audit"} /\ kind' = kind /\ table' = table /\ ApplyQuery(s)
        /\ stage' = "select" /\ quiet' = (search'.page = 1) /\ walk' = walk /\ walk = <<>>
        /\ Stored(kind, writes, table) /\ writes \in Nat
    BY SMTT(60), <1>3 DEF List, TableInv, RequestInv
  <2>2. Applied(kind, search)' BY Zenon, <2>1, SearchRequest, ApplyQueryApplies
  <2> SUFFICES ASSUME quiet'
               PROVE  /\ IsWalk(search, Denoted(search, table), walk)'
                      /\ WalkLength(Cardinality(Denoted(search, table)))'
    BY Zenon, <2>1 DEF WalkInv
  <2>3. search'.page = 1 BY ZenonT(90), <2>1
  <2>4. First(search') = 0 BY SMTT(60), <2>2, <2>3 DEF First, Applied
  <2>5. Cardinality(Denoted(search, table)') \in Nat
    <3>1. Denoted(search, table)' \in SUBSET table BY ZenonT(90), <2>1 DEF Denoted
    <3>2. IsFiniteSet(table) BY Zenon, <2>1 DEF Stored
    <3> QED BY Zenon, <3>1, <3>2, FS_Subset, FS_CardinalityType
  <2>6. walk' = <<>> /\ Len(walk') = 0 BY Zenon, <2>1
  <2>7. IsWalk(search, Denoted(search, table), walk)' BY SMTT(60), <2>6, EmptySeqLength DEF IsWalk
  <2>8. WalkLength(Cardinality(Denoted(search, table)))' BY SMTT(60), <2>1, <2>4, <2>5, <2>6 DEF WalkLength
  <2> QED BY ZenonT(90), <2>7, <2>8
<1>4. ASSUME NextPage PROVE WalkInv'
  <2> DEFINE D == Denoted(search, table)
  <2>1. /\ stage = "answered" /\ stage' = "select" /\ search.page < meta.total_pages
        /\ UNCHANGED <<kind, table, walk, quiet>>
    BY <1>4 DEF NextPage, seen
  <2>2. /\ search'.in = search.in /\ search'.date = search.date /\ search'.from = search.from
        /\ search'.to = search.to /\ search'.actor = search.actor
        /\ search'.by = search.by /\ search'.order = search.order
        /\ search'.limit = search.limit /\ search'.page = search.page + 1
        /\ Applied(kind, search)
    BY Zenon, <1>4, NextPageApplies
  <2>3. Denoted(search, table)' = D BY Zenon, <2>1, <2>2, DenotedKept
  <2> SUFFICES ASSUME quiet, TellsApart(search', D)
               PROVE  IsWalk(search', D, walk) /\ WalkLength(Cardinality(Denoted(search, table)))'
    BY Zenon, <2>1, <2>3 DEF WalkInv
  <2>4. atCount = table /\ IsWalk(search, D, walk) /\ WalkLength(Cardinality(D))
    <3>1. TellsApart(search, D) BY Zenon, <2>2 DEF TellsApart
    <3> QED BY Zenon, <2>1, <3>1 DEF WalkInv
  <2>5. Cardinality(D) \in Nat /\ search.page * search.limit < Cardinality(D)
    BY ZenonT(90), <2>1, <2>4, PagesLeft
  <2>6. search.page \in Nat \ {0} /\ search.limit \in Nat \ {0} BY <2>2 DEF Applied
  <2>7. /\ First(search) \in Nat /\ First(search') = search.page * search.limit
        /\ search.page * search.limit = First(search) + search.limit
    BY ZenonT(90), <2>2, <2>6, FirstFurther
  <2>8. Len(walk) = Min({First(search) + search.limit, Cardinality(D)})
    BY Zenon, <2>1, <2>4 DEF WalkLength
  <2> HIDE DEF D
  <2>9. Len(walk) = First(search') /\ First(search') <= Cardinality(D)
    <3> DEFINE m == First(search) + search.limit
               n == Cardinality(D)
    <3>1. m \in Int /\ n \in Int /\ m < n /\ First(search') = m BY SMTT(60), <2>5, <2>6, <2>7
    <3>2. Len(walk) = Min({m, n}) BY Zenon, <2>8
    <3> HIDE DEF m, n
    <3>3. Min({m, n}) = m BY SMTT(60), <3>1, MinTwo
    <3> QED BY SMTT(60), <3>1, <3>2, <3>3 DEF n
  <2>10. WalkLength(Cardinality(Denoted(search, table)))' BY Zenon, <2>1, <2>3, <2>9 DEF WalkLength
  <2>11. IsWalk(search', D, walk) BY Zenon, <2>2, <2>4 DEF IsWalk, Below
  <2> QED BY Zenon, <2>10, <2>11
<1>5. ASSUME SelectRows PROVE WalkInv'
  <2> DEFINE D == Denoted(search, table)
             n == Cardinality(D)
             first == First(search)
  <2>1. /\ stage = "select" /\ stage' = "count" /\ walk' = walk \o rows' /\ atSelect' = table
        /\ UNCHANGED <<kind, table, search, quiet>> /\ Applied(kind, search)
    BY Zenon, <1>5 DEF SelectRows, RequestInv
  <2>2. Denoted(search, table)' = D /\ Denoted(search, atSelect)' = D BY Zenon, <2>1, DenotedKept
  <2> SUFFICES ASSUME quiet, TellsApart(search, D)
               PROVE  IsWalk(search, D, walk') /\ WalkLength(Cardinality(Denoted(search, table)))'
    BY Zenon, <2>1, <2>2 DEF WalkInv
  <2>3. IsWalk(search, D, walk) /\ first <= n /\ Len(walk) = first
    BY Zenon, <2>1 DEF WalkInv, WalkLength
  <2>4. IsFiniteSet(D) /\ n \in Nat
    <3>1. Stored(kind, writes, table) /\ writes \in Nat BY DEF TableInv
    <3> QED BY Zenon, <3>1, DenotedStored
  <2>5. IsPage(search, D, first, rows')
    <3>1. PageInv' BY ZenonT(90), PageStep DEF Fits
    <3>2. n <= MaxOffset
      <4>1. Stored(kind, writes, table) BY ZenonT(90) DEF TableInv
      <4> QED BY <4>1, DenotedFits DEF Fits
    <3>3. first \in Nat
      <4>1. search.page \in Nat \ {0} /\ search.limit \in Nat BY SMTT(60), <2>1 DEF Applied
      <4> QED BY Zenon, <4>1, FirstNext DEF First
    <3>4. BelowWrap(search)
      <4>1. MaxOffset \in Nat /\ MaxInt \in Nat /\ MaxOffset <= MaxInt
        BY ListAssumption DEF ListAssumption
      <4> HIDE DEF n, first
      <4>2. first < 2 * (MaxInt + 1) BY <2>3, <2>4, <3>2, <3>3, <4>1
      <4> QED BY Zenon, <4>2 DEF BelowWrap, First, first
    <3>5. BelowWrap(search') BY Zenon, <2>1, <3>4
    <3> QED BY Zenon, <2>1, <2>2, <3>1, <3>5 DEF PageInv, BelowWrap
  <2>6. search.page \in Nat \ {0} /\ search.limit \in Nat \ {0} BY SMTT(60), <2>1 DEF Applied
  <2>7. first \in Nat BY Zenon, <2>6, FirstNext DEF First
  <2> HIDE DEF D, first
  <2>8. IsWalk(search, D, walk') /\ Len(walk') = first + Len(rows')
    <3> DEFINE R == rows'
    <3>1. IsPage(search, D, Len(walk), R) BY ZenonT(90), <2>3, <2>5
    <3> HIDE DEF R
    <3>2. IsWalk(search, D, walk \o R) /\ Len(walk \o R) = Len(walk) + Len(R)
      BY SMTT(60), <2>3, <2>4, <3>1, WalkExtended
    <3> QED BY Zenon, <2>1, <2>3, <3>2 DEF R
  <2>9. Len(rows') = Max({0, Min({search.limit, n - first})}) BY ZenonT(90), <2>5 DEF IsPage
  <2> HIDE DEF n
  <2>10. Len(walk') = Min({first + search.limit, n})
    <3> DEFINE m == Min({search.limit, n - first})
    <3>1. m = IF search.limit <= n - first THEN search.limit ELSE n - first
      BY SMTT(60), <2>4, <2>6, <2>7, MinTwo
    <3>2. m \in Int /\ m >= 0 BY SMTT(60), <2>3, <2>4, <2>6, <2>7, <3>1
    <3> HIDE DEF m
    <3>3. Max({0, m}) = m BY <3>2, MaxTwo
    <3>4. Len(walk') = first + m BY ZenonT(90), <2>8, <2>9, <3>3 DEF m
    <3>5. Min({first + search.limit, n})
          = IF first + search.limit <= n THEN first + search.limit ELSE n
      BY SMTT(60), <2>4, <2>6, <2>7, MinTwo
    <3> QED BY SMTT(60), <2>4, <2>6, <2>7, <3>1, <3>4, <3>5
  <2>11. WalkLength(Cardinality(Denoted(search, table)))'
    BY Zenon, <2>1, <2>2, <2>10 DEF WalkLength, n, first
  <2> QED BY Zenon, <2>8, <2>11
<1>6. ASSUME CountRows PROVE WalkInv' BY Zenon, <1>1, <1>6 DEF CountRows
<1>7. ASSUME StatementFails PROVE WalkInv' BY ZenonT(90), <1>7 DEF StatementFails, WalkInv
<1>8. ASSUME NEW T, Write(T) PROVE WalkInv' BY <1>8 DEF Write, WalkInv
<1> QED BY ZenonT(90), <1>2, <1>3, <1>4, <1>5, <1>6, <1>7, <1>8 DEF Next, Insert, SoftDelete

\* A walk that has reached the last page has met every row once.
LEMMA WalkReachesAll ==
    ASSUME ListInv, WalkInv, stage = "answered", quiet,
           search.page = Max({1, meta.total_pages}), TellsApart(search, Denoted(search, table))
    PROVE  IsInjective(walk) /\ Range(walk) = Denoted(search, table)
<1> USE DEF ListInv
<1> DEFINE D == Denoted(search, table)
           n == Cardinality(D)
           m == First(search) + search.limit
<1>1. atCount = table /\ IsWalk(search, D, walk) /\ Len(walk) = Min({m, n})
  BY Zenon DEF WalkInv, WalkLength
<1>2. /\ n \in Nat /\ meta.total_pages \in Nat
      /\ search.page >= meta.total_pages => search.page * search.limit >= n
  BY Zenon, <1>1, PagesLeft
<1>3. search.page >= meta.total_pages
  <2> DEFINE t == meta.total_pages
  <2>1. t \in Int /\ 1 \in Int BY <1>2
  <2> HIDE DEF t
  <2>2. Max({1, t}) = IF 1 >= t THEN 1 ELSE t BY Zenon, <2>1, MaxTwo
  <2>3. Max({1, t}) >= t
    <3> HIDE DEF ListInv
    <3> QED BY SMTT(60), <2>1, <2>2
  <2> QED BY Zenon, <2>3 DEF t
<1>4. search.page \in Nat \ {0} /\ search.limit \in Nat \ {0} BY SMTT(60) DEF RequestInv, Applied
<1>5. m \in Nat /\ search.page * search.limit = m
  <2> DEFINE t == [page |-> search.page + 1, limit |-> search.limit]
  <2>1. t.page = search.page + 1 /\ t.limit = search.limit BY Zenon
  <2> HIDE DEF t
  <2>2. First(search) \in Nat /\ search.page * search.limit = First(search) + search.limit
    BY Zenon, <1>4, <2>1, FirstFurther
  <2> QED BY <1>4, <2>2
<1>6. IsFiniteSet(D)
  <2>1. Stored(kind, writes, table) /\ writes \in Nat BY DEF TableInv
  <2> QED BY Zenon, <2>1, DenotedStored
<1> HIDE DEF m, D
<1>7. Len(walk) = n
  <2>1. m >= n BY ZenonT(90), <1>2, <1>3, <1>5
  <2> HIDE DEF n
  <2>2. Min({m, n}) = n BY SMTT(60), <1>2, <1>5, <2>1, MinTwo
  <2> QED BY Zenon, <1>1, <2>2
<1>8. IsInjective(walk) /\ Range(walk) = D BY <1>1, <1>6, <1>7, WalkWhole
<1> QED BY Zenon, <1>8 DEF D

\* Whatever the tables and the searches, within the limits of Fits: a client
\* that follows total_pages, sorted by a key that tells the rows apart and with
\* no write meanwhile, gets every matching row once.
THEOREM WalkIsComplete == Fits => (Spec => []WalkComplete)
<1> SUFFICES ASSUME Fits PROVE Spec => []WalkComplete OBVIOUS
<1>1. Init => ListInv /\ WalkInv BY InitList, InitWalk
<1>2. ListInv /\ WalkInv /\ [Next]_vars => (ListInv /\ WalkInv)' BY Zenon, ListStep, WalkStep
<1>3. ListInv /\ WalkInv => WalkComplete BY WalkReachesAll DEF WalkComplete, TellsApart
<1> QED BY <1>1, <1>2, <1>3, PTL DEF Spec

\* The same for users sorted by id, where nothing has to be said about the sort:
\* id is the primary key.
WalkById ==
    stage = "answered" /\ quiet /\ search.by = "id" /\ search.page = Max({1, meta.total_pages})
        => IsInjective(walk) /\ Range(walk) = Denoted(search, table)

\* Users listed by id are walked completely, because Insert keeps id a key and
\* SoftDelete keeps the id of a row.
THEOREM WalkByIdIsComplete == Fits => (Spec => []WalkById)
<1> SUFFICES ASSUME Fits PROVE Spec => []WalkById BY Zenon
<1>1. Init => ListInv /\ WalkInv BY InitList, InitWalk
<1>2. ListInv /\ WalkInv /\ [Next]_vars => (ListInv /\ WalkInv)' BY Zenon, ListStep, WalkStep
<1>3. ListInv /\ WalkInv => WalkById
  <2> SUFFICES ASSUME ListInv, WalkInv, stage = "answered", quiet, search.by = "id",
                      search.page = Max({1, meta.total_pages})
               PROVE  IsInjective(walk) /\ Range(walk) = Denoted(search, table)
    BY Zenon DEF WalkById
  <2>1. TellsApart(search, Denoted(search, table))
    <3> SUFFICES ASSUME NEW r \in Denoted(search, table), NEW q \in Denoted(search, table), r # q
                 PROVE  Before(search.by, search.order, r, q) \/ Before(search.by, search.order, q, r)
      BY Zenon DEF TellsApart
    <3>1. r \in table /\ q \in table BY ZenonT(90) DEF Denoted
    <3>2. r.id # q.id /\ r.id \in Int /\ q.id \in Int
      BY <3>1 DEF ListInv, TableInv, Stored, Sortable
    <3>3. search.by # None
      <4>1. None \notin sortFields("users") BY ZenonT(90), TablesAssumption DEF TablesAssumption
      <4> QED BY Zenon, <4>1 DEF sortFields
    <3> QED BY <3>2, <3>3 DEF Before
  <2> QED BY Zenon, <2>1, WalkReachesAll
<1> QED BY <1>1, <1>2, <1>3, PTL DEF Spec

\* The offset is one that PostgreSQL takes, and it saturates as Paginate says as
\* long as the product is below 2^64.
OffsetSaturatesBelow ==
    query # None =>
        /\ query.offset \in 0..MaxOffset
        /\ BelowWrap(search) => query.offset = Min({MaxOffset, First(search)})

\* Whatever the page, however far: only a product of 2^64 or more, and not every
\* product that overflows, can make the offset wrong.
THEOREM OffsetIsSaturated == Spec => []OffsetSaturatesBelow
<1> DEFINE Inv == TableInv /\ RequestInv
<1>1. Init => Inv BY Zenon, InitTable, InitRequest
<1>2. Inv /\ [Next]_vars => Inv' BY Zenon, TableStep, RequestStep
<1>3. Inv => OffsetSaturatesBelow
  <2> SUFFICES ASSUME RequestInv, query # None PROVE OffsetSaturatesBelow
    BY Zenon DEF OffsetSaturatesBelow
  <2>1. Applied(kind, search) /\ query = AppliedQuery(search) BY Zenon DEF RequestInv
  <2>2. query.offset = Offset(search.page, search.limit) /\ query.offset \in 0..MaxOffset
    BY Zenon, <2>1, OffsetTaken
  <2>3. search.page \in Nat \ {0} /\ search.limit \in Nat \ {0} BY SMTT(60), <2>1 DEF Applied
  <2> SUFFICES ASSUME BelowWrap(search) PROVE query.offset = Min({MaxOffset, First(search)})
    BY Zenon, <2>2 DEF OffsetSaturatesBelow
  <2> DEFINE first == First(search)
  <2>4. /\ first \in Nat
        /\ Offset(search.page, search.limit) = IF first > MaxOffset THEN MaxOffset ELSE first
    BY Zenon, <2>3, OffsetExact DEF First, BelowWrap
  <2> HIDE DEF first
  <2>5. MaxOffset \in Int /\ first \in Int BY <2>4
  <2>6. Min({MaxOffset, first}) = IF MaxOffset <= first THEN MaxOffset ELSE first
    BY Zenon, <2>5, MinTwo
  <2>7. query.offset = Min({MaxOffset, first}) BY SMTT(60), <2>2, <2>4, <2>5, <2>6
  <2> QED BY Zenon, <2>7 DEF first
<1> QED BY <1>1, <1>2, <1>3, PTL DEF Spec

\* Below 2^64, "showing X of Y" goes wrong only through a write between the
\* SELECT and the COUNT.
THEOREM ShowingIsTrue == Fits => (Spec => []ShowingUnlessWritten)
<1> SUFFICES ASSUME Fits PROVE Spec => []ShowingUnlessWritten BY Zenon
<1>1. Init => ListInv BY InitList
<1>2. ListInv /\ [Next]_vars => ListInv' BY ListStep
<1>3. ListInv => ShowingUnlessWritten
  <2> SUFFICES ASSUME ListInv, BelowWrap(search), atSelect = atCount, stage = "answered",
                      rows # <<>>
               PROVE  First(search) + Len(rows) <= meta.total
    BY DEF ShowingUnlessWritten, ShowingXofY, First
  <2> DEFINE D == Denoted(search, atSelect)
             n == Cardinality(D)
             first == First(search)
             l == search.limit
  <2>1. IsPage(search, D, first, rows) BY ZenonT(90) DEF ListInv, PageInv
  <2>2. meta.total = n BY DEF ListInv, FilterInv, PageMeta
  <2>3. n \in Nat
    <3>1. Stored(kind, writes, atSelect) /\ writes \in Nat BY SMTT(60) DEF ListInv, TableInv
    <3> QED BY Zenon, <3>1, DenotedStored
  <2>4. search.page \in Nat \ {0} /\ l \in Nat \ {0} BY SMTT(60) DEF ListInv, RequestInv, Applied
  <2>5. first \in Nat BY Zenon, <2>4, FirstNext DEF First
  <2>6. rows \in Seq(D) /\ Len(rows) = Max({0, Min({l, n - first})}) BY Zenon, <2>1 DEF IsPage
  <2> HIDE DEF D, n, first, l
  <2>7. Len(rows) > 0 BY Zenon, <2>6, SeqElements
  <2> DEFINE m == Min({l, n - first})
  <2>8. m = IF l <= n - first THEN l ELSE n - first BY SMTT(60), <2>3, <2>4, <2>5, MinTwo
  <2>9. m \in Int /\ m <= n - first BY SMTT(60), <2>3, <2>4, <2>5, <2>8
  <2>10. Len(rows) = Max({0, m}) BY <2>6
  <2> HIDE DEF m
  <2>11. Max({0, m}) = IF 0 >= m THEN 0 ELSE m BY SMTT(60), <2>9, MaxTwo
  <2>12. first + Len(rows) <= n BY SMTT(60), <2>3, <2>5, <2>7, <2>9, <2>10, <2>11
  <2> QED BY Zenon, <2>2, <2>12 DEF first
<1> QED BY <1>1, <1>2, <1>3, PTL DEF Spec
==============================================================================
