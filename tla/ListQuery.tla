------------------------------ MODULE ListQuery ------------------------------
(***************************************************************************)
(* The list endpoints GET /api/users and GET /api/audit:                   *)
(*   internal/ports/repository     pagination, sorting, date ranges        *)
(*   internal/user/search.go, internal/audit/model.go   the filters        *)
(*   internal/infrastructure/postgres   query builder and the two List     *)
(* A client walks the pages of a search while other requests write.  The   *)
(* page and the total are two statements, without a transaction.           *)
(* MaxInt is the largest int, MaxOffset is math.MaxInt32, a day is Day     *)
(* ticks and 0 is the zero time.                                           *)
(***************************************************************************)
EXTENDS Integers, Sequences, FiniteSetsExt

CONSTANTS
    None,
    MaxInt, MaxOffset,      \* the largest integers, scaled
    DefaultLimit, MaxLimit, \* page sizes, scaled
    Day,
    Users,      \* actor ids
    Like,       \* Like[term]: the actors whose name contains the term
    Searches,   \* Searches[kind]: requests a client may start a walk with
    FirstRows,  \* FirstRows[kind]: the table at first
    NewRows,    \* NewRows[kind]: rows other requests may insert
    MaxWrites, MaxCalls \* bounds

ASSUME ListAssumption ==
    /\ MaxInt \in Nat /\ MaxOffset \in 1..MaxInt
    /\ MaxLimit \in Nat /\ DefaultLimit \in 1..MaxLimit
    /\ Day \in Nat \ {0} /\ MaxWrites \in Nat /\ MaxCalls \in Nat

VARIABLES
    kind,     \* "users" or "audit"
    table,
    stage, search, query, rows, meta,
    writes, calls, \* counters
    atSelect, atCount, \* history: the table each statement saw
    walk,     \* history: rows received since page 1
    quiet     \* history: the walk began at page 1, and no write since

request == <<search, query, rows, meta>>
seen == <<atSelect, atCount, walk, quiet>>
vars == <<kind, table, stage, request, writes, calls, seen>>

-----------------------------------------------------------------------------
(* Sanitising: each part rewrites the request to what it applied *)

Columns(k) == IF k = "users" THEN {"gender", "role"} ELSE {"entity"}

Known == [gender |-> {"M", "F", "O"},
          role   |-> {"admin", "user", "system"},
          entity |-> {"session", "registration_token", "user"}]

sortFields(k) ==
    IF k = "users" THEN {"id", "created_at", "updated_at"} ELSE {"created_at"}

\* ParseGender, ParseRole, ParseEntity: any casing and padding; a raw value is
\* the name it spells and whether it spells it canonically.
ParseValues(column, raw) == {v.name : v \in raw} \cap Known[column]

\* A bound is absent (None), malformed, a bare date or an instant.
Parsed(b) == b # None /\ b.form # "malformed"
Canonical(b) == IF Parsed(b) THEN b ELSE None

\* The columns a list may be sorted by are NOT NULL; page and limit are ints,
\* and what parses is a time.
ASSUME TablesAssumption ==
    \A k \in {"users", "audit"} :
        /\ None \notin sortFields(k)
        /\ IsFiniteSet(FirstRows[k])
        /\ \A r, q \in FirstRows[k] : r.id = q.id => r = q
        /\ \A r \in FirstRows[k] \cup NewRows[k] : \A f \in sortFields(k) \cup {"id"} :
              f \in DOMAIN r /\ r[f] \in Int
        /\ \A s \in Searches[k] :
              /\ s.page \in -(MaxInt + 1)..MaxInt /\ s.limit \in -(MaxInt + 1)..MaxInt
              /\ \A b \in {s.date, s.from, s.to} : Parsed(b) => b.at \in Int

\* Seeded fault: a bare `to` date ends when its day begins.
BoundsShort(d) ==
    IF Parsed(d.date)
    THEN [from |-> d.date.at, to |-> d.date.at + Day,
          echo |-> [date |-> d.date, from |-> None, to |-> None]]
    ELSE [from |-> IF Parsed(d.from) THEN d.from.at ELSE 0,
          to   |-> IF Parsed(d.to) THEN d.to.at ELSE 0,
          echo |-> [date |-> None, from |-> Canonical(d.from), to |-> Canonical(d.to)]]

\* date wins over from and to; a bare `to` date includes its whole day.
Bounds(d) ==
    IF Parsed(d.date)
    THEN [from |-> d.date.at, to |-> d.date.at + Day,
          echo |-> [date |-> d.date, from |-> None, to |-> None]]
    ELSE [from |-> IF Parsed(d.from) THEN d.from.at ELSE 0,
          to   |-> IF ~Parsed(d.to) THEN 0
                   ELSE IF d.to.form = "date" THEN d.to.at + Day ELSE d.to.at,
          echo |-> [date |-> None, from |-> Canonical(d.from), to |-> Canonical(d.to)]]

ApplySort(k, by, order) ==
    IF by \notin sortFields(k) THEN [by |-> None, order |-> None]
    ELSE [by |-> by, order |-> IF order = "DESC" THEN "DESC" ELSE "ASC"]

ClampPage(page) == IF page < 1 THEN 1 ELSE page

ClampLimit(limit) ==
    IF limit < 1 THEN DefaultLimit ELSE IF limit > MaxLimit THEN MaxLimit ELSE limit

Sanitised(s) ==
    LET sort == ApplySort(kind, s.by, s.order)
        range == Bounds(s).echo
    IN [in    |-> [c \in Columns(kind) |-> ParseValues(c, s.in[c])],
        date  |-> range.date, from |-> range.from, to |-> range.to,
        actor |-> s.actor.name,      \* strings.TrimSpace
        by    |-> sort.by, order |-> sort.order,
        page  |-> ClampPage(s.page), limit |-> ClampLimit(s.limit)]

-----------------------------------------------------------------------------
(* The query builder *)

Where(op, column, arg) == [op |-> op, column |-> column, arg |-> arg]

\* An empty list adds no condition.
WhereIn(column, values) == IF values = {} THEN {} ELSE {Where("In", column, values)}

\* A zero bound leaves that side open.
WhereBetween(column, from, to) ==
    (IF from # 0 THEN {Where("AtLeast", column, from)} ELSE {}) \cup
    (IF to # 0 THEN {Where("Less", column, to)} ELSE {})

\* A UUID is matched against the id, anything else against the name.
WhereActor(actor) ==
    IF actor = None THEN {}
    ELSE IF actor \in Users THEN WhereIn("actor", {actor})
    ELSE {Where("ILike", "actor", actor)}

Wheres(s, range) ==
    (UNION {WhereIn(c, s.in[c]) : c \in Columns(kind)}) \cup
    (IF kind = "users" THEN {Where("IsNull", "deleted_at", None)}
     ELSE WhereBetween("created_at", range.from, range.to) \cup WhereActor(s.actor))

\* int64 arithmetic: 2 * (MaxInt + 1) values.
Wrap(n) ==
    LET m == n % (2 * (MaxInt + 1))
    IN IF m > MaxInt THEN m - 2 * (MaxInt + 1) ELSE m

\* Seeded fault: pages counted from zero.
OffsetZeroBased(page, limit) ==
    LET offset == Wrap(page * limit)
    IN IF offset < 0 \/ offset > MaxOffset THEN MaxOffset ELSE offset

Offset(page, limit) ==
    LET offset == Wrap((page - 1) * limit)
    IN IF page <= 1 THEN 0
       ELSE IF offset < 0 \/ offset > MaxOffset THEN MaxOffset ELSE offset

-----------------------------------------------------------------------------
(* PostgreSQL *)

\* The actor column stands for the joined user: NULL matches no term.
Holds(w, r) ==
    CASE w.op = "In" -> r[w.column] \in w.arg
      [] w.op = "IsNull" -> r[w.column] = None
      [] w.op = "AtLeast" -> r[w.column] >= w.arg
      [] w.op = "Less" -> r[w.column] < w.arg
      [] w.op = "ILike" -> r[w.column] \in Like[w.arg]

Matching(wheres, t) == {r \in t : \A w \in wheres : Holds(w, r)}

Before(by, order, r, q) ==
    /\ by # None
    /\ IF order = "DESC" THEN r[by] > q[by] ELSE r[by] < q[by]

\* Rows the ORDER BY does not tell apart come in any order, chosen anew by
\* every statement.
Ordered(by, order, S) ==
    {o \in Injection(1..Cardinality(S), S) :
        \A i, j \in DOMAIN o : i < j => ~Before(by, order, o[j], o[i])}

-----------------------------------------------------------------------------
(* A list request *)

Init ==
    /\ kind \in {"users", "audit"}
    /\ table = FirstRows[kind]
    /\ stage = "idle"
    /\ search = None /\ query = None /\ rows = <<>> /\ meta = None
    /\ writes = 0 /\ calls = 0
    /\ atSelect = {} /\ atCount = {}
    /\ walk = <<>> /\ quiet = TRUE

\* ApplyFilter, ApplySort and ApplyPagination.
ApplyQuery(s) ==
    LET applied == Sanitised(s)
    IN /\ search' = applied
       /\ query' = [wheres |-> Wheres(applied, Bounds(s)),
                    by |-> applied.by, order |-> applied.order,
                    limit |-> applied.limit,
                    offset |-> Offset(applied.page, applied.limit)]

\* A client starts a new walk.
List(s) ==
    /\ stage = "idle"
    /\ calls < MaxCalls
    /\ ApplyQuery(s)
    /\ stage' = "select"
    /\ calls' = calls + 1
    /\ quiet' = (search'.page = 1)
    /\ UNCHANGED <<kind, table, rows, meta, writes, atSelect, atCount, walk>>

\* What the client was told, sent back with the next page: sanitising it again
\* changes nothing.
Resubmitted ==
    [search EXCEPT !.in = [c \in Columns(kind) |->
                              {[name |-> n, canonical |-> TRUE] : n \in search.in[c]}],
                   !.actor = [name |-> search.actor, padded |-> FALSE],
                   !.page = search.page + 1]

NextPage ==
    /\ stage = "answered"
    /\ calls < MaxCalls
    /\ search.page < meta.total_pages
    /\ ApplyQuery(Resubmitted)
    /\ stage' = "select"
    /\ calls' = calls + 1
    /\ rows' = <<>> /\ meta' = None
    /\ UNCHANGED <<kind, table, writes, seen>>

\* SQL() and the SELECT.
SelectRows ==
    /\ stage = "select"
    /\ \E o \in Ordered(query.by, query.order, Matching(query.wheres, table)) :
          rows' = SubSeq(o, query.offset + 1,
                         Min({query.offset + query.limit, Len(o)}))
    /\ atSelect' = table
    /\ walk' = walk \o rows'
    /\ stage' = "count"
    /\ UNCHANGED <<kind, table, search, query, meta, writes, calls, atCount, quiet>>

\* Seeded fault: the number of pages rounded down.
PageMetaDown(total) ==
    [page |-> search.page, limit |-> search.limit, total |-> total,
     total_pages |-> total \div search.limit]

PageMeta(total) ==
    [page |-> search.page, limit |-> search.limit, total |-> total,
     total_pages |-> IF search.limit > 0
                     THEN (total + search.limit - 1) \div search.limit ELSE 0]

\* Seeded fault: the COUNT keeps the LIMIT and the OFFSET of the page.
CountRowsOfPage ==
    /\ stage = "count"
    /\ meta' = PageMeta(Len(rows))
    /\ atCount' = table
    /\ stage' = "answered"
    /\ UNCHANGED <<kind, table, search, query, rows, writes, calls, atSelect, walk, quiet>>

\* CountSQL() and the COUNT, then SetMeta.
CountRows ==
    /\ stage = "count"
    /\ meta' = PageMeta(Cardinality(Matching(query.wheres, table)))
    /\ atCount' = table
    /\ stage' = "answered"
    /\ UNCHANGED <<kind, table, search, query, rows, writes, calls, atSelect, walk, quiet>>

\* Either statement fails: an error, no rows, and the walk ends.
StatementFails ==
    /\ stage \in {"select", "count"}
    /\ stage' = "idle"
    /\ search' = None /\ query' = None /\ rows' = <<>> /\ meta' = None
    /\ atSelect' = {} /\ atCount' = {} /\ walk' = <<>> /\ quiet' = TRUE
    /\ UNCHANGED <<kind, table, writes, calls>>

-----------------------------------------------------------------------------
(* Writes of other requests *)

Write(t) ==
    /\ writes < MaxWrites
    /\ writes' = writes + 1
    /\ table' = t
    /\ quiet' = FALSE
    /\ UNCHANGED <<kind, stage, request, calls, atSelect, atCount, walk>>

\* id is the primary key.
Insert(r) ==
    /\ \A q \in table : q.id # r.id
    /\ Write(table \cup {r})

\* DeleteUser is a soft delete; audit rows are never deleted.
SoftDelete(r) ==
    /\ kind = "users" /\ r.deleted_at = None
    /\ Write((table \ {r}) \cup {[r EXCEPT !.deleted_at = 1]})

Next ==
    \/ \E s \in Searches[kind] : List(s)
    \/ NextPage \/ SelectRows \/ CountRows \/ StatementFails
    \/ \E r \in NewRows[kind] : Insert(r)
    \/ \E r \in table : SoftDelete(r)

Spec == Init /\ [][Next]_vars

-----------------------------------------------------------------------------
(* Properties *)

\* What the echoed search says, read by a client.
Within(b, r, from) ==
    \/ b = None
    \/ IF from THEN r.created_at >= b.at
       ELSE r.created_at < (IF b.form = "date" THEN b.at + Day ELSE b.at)

Denoted(s, t) ==
    {r \in t :
        /\ \A c \in Columns(kind) : s.in[c] # {} => r[c] \in s.in[c]
        /\ IF kind = "users" THEN r.deleted_at = None
           ELSE /\ s.date # None => r.created_at \in s.date.at..(s.date.at + Day - 1)
                /\ Within(s.from, r, TRUE) /\ Within(s.to, r, FALSE)
                /\ s.actor # None =>
                      r.actor \in IF s.actor \in Users THEN {s.actor} ELSE Like[s.actor]}

\* "The query filters on exactly the values Search.SetMeta reports as applied":
\* every row answers to the echoed filter, and the total counts those that do.
FilterEchoed ==
    stage = "answered" =>
        /\ Range(rows) \subseteq Denoted(search, atSelect)
        /\ meta.total = Cardinality(Denoted(search, atCount))

\* The product of Paginate stays below 2^64: what exceeds an int64 is negative.
BelowWrap(s) == (s.page - 1) * s.limit < 2 * (MaxInt + 1)

\* The rows are the page that the echoed page, limit and sort denote: row i of
\* the page has the rank (page - 1) * limit + i among the rows that match, a
\* product that overflows into the negative included (ClampLimit, Paginate).
\* Whatever the page, the limit is one the server allows and the OFFSET one
\* that PostgreSQL takes.
PageEchoed ==
    stage = "answered" =>
        LET D == Denoted(search, atSelect)
            first == (search.page - 1) * search.limit
            Below(r) == {q \in D : Before(search.by, search.order, q, r)}
            Above(r) == {q \in D : Before(search.by, search.order, r, q)}
        IN /\ search.limit \in 1..MaxLimit /\ query.offset \in 0..MaxOffset
           /\ BelowWrap(search) =>
                 /\ IsInjective(rows)
                 /\ Len(rows) = Max({0, Min({search.limit, Cardinality(D) - first})})
                 /\ \A i \in DOMAIN rows :
                       /\ Cardinality(Below(rows[i])) < first + i
                       /\ first + i <= Cardinality(D) - Cardinality(Above(rows[i]))

\* A client that follows total_pages from page 1 to the last, sorted by a key
\* that tells the rows apart and with no write meanwhile, gets every matching
\* row once (Paginate, PageMeta).
WalkComplete ==
    LET D == Denoted(search, table)
    IN (/\ stage = "answered" /\ quiet
        /\ search.page = Max({1, meta.total_pages})
        /\ \A r, q \in D : r # q => Before(search.by, search.order, r, q)
                                    \/ Before(search.by, search.order, q, r))
       => IsInjective(walk) /\ Range(walk) = D

\* "The offset saturates" (query_builder.go, Paginate).
OffsetSaturates ==
    query # None =>
        query.offset = Min({MaxOffset, (search.page - 1) * search.limit})

\* "A client can render an accurate 'showing X of Y' state" (README): the last
\* row shown is not past the total shown.
ShowingXofY ==
    stage = "answered" /\ rows # <<>> =>
        (search.page - 1) * search.limit + Len(rows) <= meta.total

\* The same where no write came between the SELECT and the COUNT of the answer
\* and the product of Paginate stayed below 2^64 (List, CountSQL).
ShowingUnlessWritten ==
    stage = "answered" /\ BelowWrap(search) /\ atSelect = atCount => ShowingXofY
=============================================================================
