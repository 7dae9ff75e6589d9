----------------------------- MODULE MCListQuery -----------------------------
(***************************************************************************)
(* Instances of ListQuery for TLC.                                         *)
(***************************************************************************)
EXTENDS ListQuery

ActorIds == {"u1", "u2"}

ActorNames == [ann |-> {"u1", "u2"}, bob |-> {}]

Row(id, at, gender, role) ==
    [id |-> id, created_at |-> at, updated_at |-> at, gender |-> gender,
     role |-> role, deleted_at |-> None]

Entry(id, at, entity, actor) ==
    [id |-> id, created_at |-> at, entity |-> entity, actor |-> actor]

\* Two users were created at the same instant.
Table ==
    [users |-> {Row(1, 1, "F", "admin"), Row(2, 2, "F", "user"),
                Row(3, 2, "M", "user")},
     audit |-> {Entry(1, 1, "user", "u1"), Entry(2, 2, "session", None),
                Entry(3, 3, "user", "u2"), Entry(4, 5, "session", "u1")}]

Inserted ==
    [users |-> {Row(4, 3, "F", "user")}, audit |-> {Entry(5, 5, "user", "u2")}]

Raw(n, c) == [name |-> n, canonical |-> c]

Bound(form, at) == [form |-> form, at |-> at]

Term(n, padded) == [name |-> n, padded |-> padded]

UserSearch(genders, roles, by, order, page, limit) ==
    [in |-> [gender |-> genders, role |-> roles], date |-> None, from |-> None,
     to |-> None, actor |-> Term(None, FALSE), by |-> by, order |-> order,
     page |-> page, limit |-> limit]

AuditSearch(entities, date, from, to, actor, by, order, page, limit) ==
    [in |-> [entity |-> entities], date |-> date, from |-> from, to |-> to,
     actor |-> actor, by |-> by, order |-> order, page |-> page, limit |-> limit]

\* Values, bounds, sort fields and page sizes of every class.  With page 87 the
\* product overflows: 86 * 2 comes out negative, 86 * 3 as the offset 2.
AllSearches ==
    [users |->
        {UserSearch(g, r, b, o, p, l) :
            g \in {{}, {Raw("F", FALSE), Raw("X", TRUE)}, {Raw("X", TRUE)}},
            r \in {{}, {Raw("user", TRUE)}},
            b \in {"id", "created_at", "password"},
            o \in {"DESC", "down"}, p \in {-1, 2, 7, 87}, l \in {0, 1, 9}},
     audit |->
        {AuditSearch({}, d, f, t, Term(None, TRUE), "created_at", "DESC", 1, 2) :
            d \in {None, Bound("malformed", 0), Bound("date", 2), Bound("instant", 3)},
            f \in {None, Bound("malformed", 0), Bound("date", 2), Bound("instant", 5)},
            t \in {None, Bound("malformed", 0), Bound("date", 2), Bound("instant", 3)}} \cup
        {AuditSearch(e, None, f, None, a, "id", "ASC", p, 1) :
            e \in {{}, {Raw("user", FALSE)}, {Raw("disk", TRUE), Raw("session", TRUE)}},
            f \in {None, Bound("instant", 2)},
            a \in {Term("u1", TRUE), Term("ann", FALSE), Term("bob", FALSE)},
            p \in {1, 2}}]

\* The largest pages an int holds.
HugePages ==
    [users |-> {UserSearch({}, {}, "id", "ASC", p, l) : p \in {2, 63, 65, 127}, l \in 1..4},
     audit |-> {}]

\* The zero time as an instant.
ZeroTime ==
    [users |-> {},
     audit |-> {AuditSearch({}, None, None, Bound("instant", 0), Term(None, FALSE),
                            "created_at", "ASC", 1, 2)}]
=============================================================================
