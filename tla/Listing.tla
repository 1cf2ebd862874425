------------------------------- MODULE Listing -------------------------------
(***************************************************************************)
(* GET /v1/users: what a client sees of iam.users that walks through its   *)
(* pages, from one it names along the links next_page, while other         *)
(* requests write.  package/pagination turns a query string into a page    *)
(* and a total into links, in i64 arithmetic that wraps (a release build); *)
(* PgUserRepository::index asks the pool for the total, for the page, and  *)
(* then for the roles of each row.                                         *)
(*                                                                         *)
(* user_name is unique and never changes; first_name stands for the sort   *)
(* columns that are neither.  status stands for the filters.               *)
(***************************************************************************)
EXTENDS Integers, FiniteSets

CONSTANTS
    User,            \* the users there are, or may come to be
    NameRank,        \* the order of their user names
    FirstName,       \* the first names, as numbers in their order
    Pages, PerPages, SortBys, Orders, Statuses,  \* what query strings name
    DefaultPerPage, MaxPerPage,
    MaxInt,          \* the largest of the integers, for i64::MAX
    MaxChanges,      \* bound on the commits of other requests
    None             \* absent, or not a number

ASSUME ConstantsAssumption ==
    /\ IsFiniteSet(User)
    /\ NameRank \in [User -> Int] /\ \A u, v \in User : NameRank[u] = NameRank[v] => u = v
    /\ FirstName \subseteq Int
    /\ MaxInt \in Nat /\ MaxPerPage \in 1 .. MaxInt /\ DefaultPerPage \in 1 .. MaxPerPage
    /\ None \notin Int \cup Statuses
    /\ Pages \subseteq (-MaxInt - 1 .. MaxInt) \cup {None}
    /\ PerPages \subseteq (-MaxInt - 1 .. MaxInt) \cup {None}
    /\ MaxChanges \in Nat

\* No table is as large as the largest integer.
ASSUME TableAssumption == Cardinality(User) + MaxPerPage <= MaxInt

VARIABLES
    there,    \* the users that exist
    first,    \* iam.users.first_name
    deleted,  \* the users whose status is Deleted
    changes,  \* how many commits there have been
    pc,       \* the query the client's request stands at, or where the client is
    request,  \* ListRequest
    total,    \* the total it has read
    rows,     \* the users on the page it has read, in order
    walk      \* history of the walk, see Walk

table == <<there, first, deleted>>
answer == <<total, rows>>
vars == <<table, changes, pc, request, answer, walk>>

\* What the properties remember of a walk from page 1.
Walk == [linked : BOOLEAN,          \* the present request followed a link
         steady : SUBSET User,      \* listed at every moment of it, at a place of their own
         once : SUBSET User, twice : SUBSET User,  \* of these: seen,
         overtaken : SUBSET User,   \* a row ahead of them went away: they moved forward,
         pushed : SUBSET User,      \* a row came ahead of them: they moved back
         unseen : SUBSET User]      \* ... between the count and the page of the present request

------------------------------------------------------------------------------
(* package/pagination *)

\* What is left of an integer in i64.
Wrap(n) == ((n + MaxInt + 1) % (2 * (MaxInt + 1))) - (MaxInt + 1)

\* Mutant: only what does not parse gives the first page.
NormalizeUnclamped(page, per_page, sort_by, order, status) ==
    [page |-> IF page = None THEN 1 ELSE page,
     per_page |-> IF per_page = None \/ per_page < 1 \/ per_page > MaxPerPage THEN DefaultPerPage
                  ELSE per_page,
     sort_by |-> sort_by, order |-> "", status |-> status]

\* from_query and normalize.  What does not parse is the default.
Normalize(page, per_page, sort_by, order, status) ==
    [page |-> IF page = None \/ page < 1 THEN 1 ELSE page,
     per_page |-> IF per_page = None \/ per_page < 1 \/ per_page > MaxPerPage THEN DefaultPerPage
                  ELSE per_page,
     sort_by |-> sort_by,
     order |-> IF order \in {"asc", "desc"} THEN order ELSE "",
     status |-> status]

\* Mutant: the first page is page 0.
OffsetFromZero(req) == Wrap(Wrap(req.page) * req.per_page)
Offset(req) == Wrap(Wrap(req.page - 1) * req.per_page)

TotalPages(count, per_page) ==
    count \div per_page + IF count % per_page # 0 THEN 1 ELSE 0

\* Mutant: the link is there on the last page, too.
NextPageAlways(page, pages) == Wrap(page + 1)

\* Mutant: the link names the page it is on.
NextPageItself(page, pages) == IF page <= pages THEN page ELSE None
NextPage(page, pages) == IF Wrap(page + 1) <= pages THEN Wrap(page + 1) ELSE None

\* Mutant: the page before is named even when it is beyond the end.
PreviousPageAny(page, pages) == IF page - 1 >= 1 THEN page - 1 ELSE None
PreviousPage(page, pages) == IF page - 1 >= 1 /\ page - 1 <= pages THEN page - 1 ELSE None

------------------------------------------------------------------------------
(* PgUserRepository::index *)

\* push_filters: a status that is none does not filter.
Listed(u, isThere, isDeleted, req) ==
    /\ u \in isThere
    /\ req.status = "Active" => u \notin isDeleted
    /\ req.status = "Deleted" => u \in isDeleted

\* sort_column: what it does not know is user_name.
SortColumn(u, names, req) == IF req.sort_by = "first_name" THEN names[u] ELSE NameRank[u]

\* sort_order: all that is not asc is desc.
Precedes(m, n, req) == IF req.order = "asc" THEN m < n ELSE m > n

Matching == {u \in User : Listed(u, there, deleted, request)}

Before(u, v) == Precedes(SortColumn(u, first, request), SortColumn(v, first, request), request)

\* The ways to put the matching rows in order: PostgreSQL may give rows with equal sort
\* columns in any order, and in another one the next time.
Orderings ==
    {s \in [1 .. Cardinality(Matching) -> Matching] :
        \A i, j \in DOMAIN s : i < j => s[i] # s[j] /\ ~Before(s[j], s[i])}

Least(m, n) == IF m < n THEN m ELSE n

\* Mutant: one row more, to see whether there is a next page, is not taken off again.
SliceOneMore(s, offset, limit) ==
    [i \in 1 .. Least(limit + 1, Cardinality(DOMAIN s) - offset) |-> s[offset + i]]

\* LIMIT per_page OFFSET offset.
Slice(s, offset, limit) ==
    [i \in 1 .. Least(limit, Cardinality(DOMAIN s) - offset) |-> s[offset + i]]

\* service/user.rs: the meta data of the answer, from the count and the request.
Pagination ==
    LET pages == TotalPages(total, request.per_page) IN
    [total_pages |-> pages,
     next_page |-> NextPage(request.page, pages),
     previous_page |-> PreviousPage(request.page, pages)]

------------------------------------------------------------------------------
(* The walk, as the properties remember it. *)

Walking == pc \in {"count", "page", "roles", "read"}

\* The rows at a place of their own: no other row has the same sort column.
Settled == {u \in Matching : \A v \in Matching \ {u} : Before(u, v) \/ Before(v, u)}

Ahead(u) == {v \in Matching \ {u} : ~Before(u, v)}

\* What a commit of another request does to it.
Disturbed ==
    LET steady == {u \in walk.steady \cap Settled' :
                      SortColumn(u, first, request)' = SortColumn(u, first, request)}
        back == {u \in steady : Ahead(u)' \ Ahead(u) # {}} IN
    walk' = [walk EXCEPT
        !.steady = steady,
        !.once = @ \cap steady,
        !.twice = @ \cap steady,
        !.overtaken = {u \in steady : u \in @ \/ Ahead(u) \ Ahead(u)' # {}},
        !.pushed = (@ \cap steady) \cup back,
        !.unseen = (@ \cap steady) \cup IF pc = "page" THEN back ELSE {}]

------------------------------------------------------------------------------
(* Steps *)

Init ==
    /\ there \in SUBSET User
    /\ first \in [User -> FirstName]
    /\ deleted = {}
    /\ changes = 0
    /\ pc = "idle"
    /\ request = Normalize(None, None, "user_name", None, None)
    /\ total = 0 /\ rows = <<>>
    /\ walk = [linked |-> FALSE, steady |-> {}, once |-> {}, twice |-> {},
               overtaken |-> {}, pushed |-> {}, unseen |-> {}]

\* A client asks for a page.
Begin(page, per_page, sort_by, order, status) ==
    /\ pc = "idle"
    /\ pc' = "count"
    /\ request' = Normalize(page, per_page, sort_by, order, status)
    /\ UNCHANGED <<table, changes, answer>>
    /\ walk' = [linked |-> FALSE, steady |-> IF request'.page = 1 THEN Settled' ELSE {},
                once |-> {}, twice |-> {}, overtaken |-> {}, pushed |-> {}, unseen |-> {}]

\* SELECT COUNT(*).
Count ==
    /\ pc = "count"
    /\ pc' = "page"
    /\ total' = Cardinality(Matching)
    /\ UNCHANGED <<table, changes, request, rows, walk>>

\* SELECT ... ORDER BY ... LIMIT ... OFFSET.
ReadPage ==
    /\ pc = "page" /\ Offset(request) >= 0
    /\ pc' = "roles"
    /\ \E s \in Orderings : rows' = Slice(s, Offset(request), request.per_page)
    /\ UNCHANGED <<table, changes, request, total, walk>>

\* get_user_roles of every row, and the rows and the meta data reach the client.
Answer ==
    /\ pc = "roles"
    /\ pc' = "read"
    /\ LET seen == {rows[i] : i \in DOMAIN rows} \cap walk.steady IN
       walk' = [walk EXCEPT !.once = @ \cup seen, !.twice = @ \cup (walk.once \cap seen)]
    /\ UNCHANGED <<table, changes, request, answer>>

\* The client asks for the page the link names, ...
Follow ==
    /\ pc = "read" /\ Pagination.next_page # None
    /\ pc' = "count"
    /\ request' = Normalize(Pagination.next_page, request.per_page, request.sort_by, request.order,
                            request.status)
    /\ walk' = [walk EXCEPT !.linked = TRUE, !.unseen = {}]
    /\ total' = 0 /\ rows' = <<>>
    /\ UNCHANGED <<table, changes>>

\* ... or there is none.
Finish ==
    /\ pc = "read" /\ Pagination.next_page = None
    /\ pc' = "done"
    /\ total' = 0 /\ rows' = <<>>
    /\ UNCHANGED <<table, changes, request, walk>>

\* A query fails, as one with a negative OFFSET always does: the client gives up.
Fail ==
    /\ pc \in {"count", "page"} \/ (pc = "roles" /\ rows # <<>>)
    /\ pc' = "failed"
    /\ total' = 0 /\ rows' = <<>>
    /\ UNCHANGED <<table, changes, request, walk>>

\* Another request commits.  Before the walk that would only change where it starts.
Changes ==
    /\ Walking /\ changes < MaxChanges
    /\ changes' = changes + 1
    /\ UNCHANGED <<pc, request, answer>>

Insert(u) ==
    /\ Changes
    /\ u \notin there
    /\ there' = there \cup {u}
    /\ \E name \in FirstName : first' = [first EXCEPT ![u] = name]
    /\ deleted' = deleted
    /\ Disturbed

Rename(u, name) ==
    /\ Changes
    /\ u \in there
    /\ first' = [first EXCEPT ![u] = name]
    /\ UNCHANGED <<there, deleted>>
    /\ Disturbed

SetStatus(u, isDeleted) ==
    /\ Changes
    /\ u \in there
    /\ deleted' = IF isDeleted THEN deleted \cup {u} ELSE deleted \ {u}
    /\ UNCHANGED <<there, first>>
    /\ Disturbed

Request == Count \/ ReadPage \/ Answer \/ Follow \/ Finish \/ Fail

Next ==
    \/ \E page \in Pages, per_page \in PerPages, sort_by \in SortBys, order \in Orders,
          status \in Statuses : Begin(page, per_page, sort_by, order, status)
    \/ Request
    \/ \E u \in User :
          \/ Insert(u)
          \/ \E name \in FirstName : Rename(u, name)
          \/ \E isDeleted \in BOOLEAN : SetStatus(u, isDeleted)

Spec == Init /\ [][Next]_vars

\* A task that has sent a query is answered or fails; a client that walks goes on.
FairSpec == Spec /\ WF_vars(Request)

------------------------------------------------------------------------------
(* Properties *)

ListRequest ==
    [page : 1 .. MaxInt, per_page : 1 .. MaxPerPage, sort_by : SortBys \cup {"user_name"},
     order : {"asc", "desc", ""}, status : Statuses \cup {None}]

\* Every variable holds a value of its type: what reaches the repository is a page from 1 on and
\* a page size within the limits, whatever the query string or the link said.
TypeOK ==
    /\ there \in SUBSET User /\ first \in [User -> FirstName] /\ deleted \in SUBSET there
    /\ changes \in 0 .. MaxChanges
    /\ pc \in {"count", "page", "roles", "read", "idle", "done", "failed"}
    /\ request \in ListRequest
    /\ total \in 0 .. Cardinality(User)
    /\ DOMAIN rows = 1 .. Cardinality(DOMAIN rows)
    /\ Cardinality(DOMAIN rows) <= request.per_page
    /\ \A i \in DOMAIN rows : rows[i] \in User
    /\ walk \in Walk

\* A walk from page 1 to the page without a link misses nobody who was listed all along, at a
\* place of his own in the order, unless a row ahead of him went away, which moves him to a page
\* already read, or one came ahead of him between the count and the page of the last request.
WalkMissesNobody ==
    pc = "done" => walk.steady \subseteq walk.once \cup walk.overtaken \cup walk.unseen

\* It shows nobody twice who was listed all along, at a place of his own in the order, unless a row
\* came ahead of him.
WalkShowsNobodyTwice == walk.twice \subseteq walk.pushed

\* The links are right: there is a next page exactly if rows remain after this one; a link leads to
\* a page with rows.  (The page after the largest integer is another matter.)
LinksLeadToPages ==
    pc = "read" /\ request.page < MaxInt =>
        /\ Pagination.next_page # None <=> request.page * request.per_page < total
        /\ \A page \in {Pagination.next_page, Pagination.previous_page} \ {None} :
              page >= 1 /\ (page - 1) * request.per_page < total

\* Who follows links never makes the offset wrap, so a walk is neither refused for a negative
\* OFFSET nor thrown back to rows of another page: only a page the client named itself can be.
LinksNeverOverflow ==
    Walking /\ walk.linked => Offset(request) = (request.page - 1) * request.per_page

\* A walk ends: the links do not lead in a circle, whatever other requests write meanwhile.
WalkEnds == Walking ~> ~Walking

=============================================================================
