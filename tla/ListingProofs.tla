----------------------------- MODULE ListingProofs -----------------------------
(***************************************************************************)
(* Theorems about Listing: whatever the table, the query strings and the   *)
(* width of the integers, what reaches the repository is within its        *)
(* limits, and links lead to pages with rows, without an overflow.         *)
(*                                                                         *)
(* What a walk through the pages shows and misses rests on an invariant    *)
(* that the properties do not say (WalkInv): who has been seen stands      *)
(* behind the rows the pages have covered, who has not stands before them, *)
(* and only the rows that come or go ahead of someone change his place.    *)
(***************************************************************************)
EXTENDS Listing, FiniteSetTheorems, TLAPS

------------------------------------------------------------------------------
(* Arithmetic *)

\* A quotient and its remainder.
LEMMA Division ==
    ASSUME NEW a \in Int, NEW b \in Nat \ {0}
    PROVE  /\ a \div b \in Int /\ a % b \in 0 .. b - 1
           /\ a = b * (a \div b) + (a % b)
BY SMT

LEMMA Monotone ==
    ASSUME NEW a \in Int, NEW b \in Int, NEW c \in Nat, a <= b
    PROVE  a * c <= b * c
BY SMT

LEMMA SmallRemainder == ASSUME NEW b \in Nat, NEW a \in 0 .. b - 1 PROVE a % b = a
BY SMT

\* An integer that fits does not wrap; the first one that does not is the smallest.
LEMMA WrapFits ==
    ASSUME ConstantsAssumption, NEW n \in Int
    PROVE  /\ n \in -MaxInt - 1 .. MaxInt => Wrap(n) = n
           /\ n = MaxInt + 1 => Wrap(n) = -MaxInt - 1
<1> DEFINE b == 2 * (MaxInt + 1)
           a == n + MaxInt + 1
<1>1. b \in Nat \ {0} /\ a \in Int /\ Wrap(n) = (a % b) - (MaxInt + 1)
  BY SMT DEF ConstantsAssumption, Wrap
<1>2. n \in -MaxInt - 1 .. MaxInt => a \in 0 .. b - 1
  BY SMT DEF ConstantsAssumption
<1>3. CASE n = MaxInt + 1
  <2>1. a = b
    BY <1>3, SMT DEF ConstantsAssumption
  <2> HIDE DEF a, b
  <2>2. a % b = 0
    <3>1. b = b * (b \div b) + (b % b) /\ b % b \in 0 .. b - 1 /\ b \div b \in Int
      BY <1>1, Division
    <3>2. b * (b \div b) = (b \div b) * b
      BY <1>1, <3>1, SMT
    <3>3. CASE b \div b <= 0
      BY <1>1, <3>1, <3>2, <3>3, Monotone, SMT
    <3>4. CASE b \div b >= 2
      BY <1>1, <3>1, <3>2, <3>4, Monotone, SMT
    <3>5. CASE b \div b = 1
      BY <1>1, <2>1, <3>1, <3>5, SMT
    <3> QED  BY <3>1, <3>3, <3>4, <3>5, SMT
  <2>3. Wrap(n) = -MaxInt - 1
    BY <1>1, <2>2, SMT DEF ConstantsAssumption
  <2> QED  BY <1>3, <2>3, SMT DEF ConstantsAssumption
<1>4. CASE n \in -MaxInt - 1 .. MaxInt
  <2> HIDE DEF a, b
  <2>1. a % b = a
    BY <1>1, <1>2, <1>4, SmallRemainder
  <2> QED  BY <1>1, <1>4, <2>1, SMT DEF ConstantsAssumption, a
<1> QED  BY <1>3, <1>4

LEMMA WrapIsInteger == ASSUME ConstantsAssumption, NEW n \in Int PROVE Wrap(n) \in Int
<1> DEFINE b == 2 * (MaxInt + 1)
           a == n + MaxInt + 1
<1>1. b \in Nat \ {0} /\ a \in Int /\ Wrap(n) = (a % b) - (MaxInt + 1)
  BY SMT DEF ConstantsAssumption, Wrap
<1> HIDE DEF a, b
<1>2. a % b \in 0 .. b - 1
  BY <1>1, Division
<1> QED  BY <1>1, <1>2, SMT DEF ConstantsAssumption

\* total_pages is the number of pages with rows: page k + 1 is one of them exactly if rows
\* remain after k pages.
LEMMA PagesHaveRows ==
    ASSUME NEW c \in Nat, NEW p \in Nat \ {0}
    PROVE  /\ TotalPages(c, p) \in Nat
           /\ \A k \in Nat : k + 1 <= TotalPages(c, p) <=> k * p < c
<1> DEFINE q == c \div p
           r == c % p
<1>1. q \in Int /\ r \in 0 .. p - 1 /\ c = p * q + r
  BY Division
<1>2. TotalPages(c, p) = q + IF r # 0 THEN 1 ELSE 0
  BY DEF TotalPages
<1> HIDE DEF q, r
<1>3. p * q = q * p
  BY <1>1, SMT
<1>4. q >= 0
  <2> SUFFICES ASSUME q <= -1 PROVE FALSE
    BY <1>1, SMT
  <2>1. q * p <= (-1) * p
    BY <1>1, Monotone, SMT
  <2> QED  BY <1>1, <1>3, <2>1, SMT
<1>5. ASSUME NEW k \in Nat PROVE k + 1 <= TotalPages(c, p) <=> k * p < c
  <2>1. CASE k + 1 <= q
    <3>1. (k + 1) * p <= q * p /\ (k + 1) * p = k * p + p /\ k * p \in Int
      BY <1>1, <2>1, Monotone, SMT
    <3> QED  BY <1>1, <1>2, <1>3, <2>1, <3>1, SMT
  <2>2. CASE k = q
    BY <1>1, <1>2, <1>3, <2>2, SMT
  <2>3. CASE k >= q + 1
    <3>1. (q + 1) * p <= k * p /\ (q + 1) * p = q * p + p /\ k * p \in Int /\ q * p \in Int
      BY <1>1, <2>3, Monotone, SMT
    <3> QED  BY <1>1, <1>2, <1>3, <2>3, <3>1, SMT
  <2> QED  BY <1>1, <2>1, <2>2, <2>3, SMT
<1> QED  BY <1>1, <1>2, <1>4, <1>5, SMT

------------------------------------------------------------------------------
(* The invariant *)

\* Nothing is left of an answer where a client begins.
IdleIsEmpty == pc = "idle" => rows = <<>>

\* A page that a link names starts at a row whose number is an integer.
LinkedPagesFit ==
    Walking /\ walk.linked => (request.page - 1) * request.per_page \in 0 .. MaxInt

IInv == TypeOK /\ IdleIsEmpty /\ LinkedPagesFit

\* What normalize returns is within the limits, whatever it is given.
LEMMA NormalizeBounds ==
    ASSUME ConstantsAssumption,
           NEW page \in (-MaxInt - 1 .. MaxInt) \cup {None},
           NEW per_page \in (-MaxInt - 1 .. MaxInt) \cup {None},
           NEW sort_by \in SortBys \cup {"user_name"}, NEW order, NEW status \in Statuses \cup {None}
    PROVE  Normalize(page, per_page, sort_by, order, status) \in ListRequest
<1> DEFINE req == Normalize(page, per_page, sort_by, order, status)
<1>1. req.page \in 1 .. MaxInt
  BY SMT DEF ConstantsAssumption, Normalize
<1>2. req.per_page \in 1 .. MaxPerPage
  BY SMT DEF ConstantsAssumption, Normalize
<1>3. req.order \in {"asc", "desc", ""}
  BY Zenon DEF Normalize
<1> QED  BY <1>1, <1>2, <1>3, Zenon DEF Normalize, ListRequest

LEMMA Limits ==
    ASSUME ConstantsAssumption, TableAssumption
    PROVE  /\ Cardinality(User) \in Nat /\ Cardinality(User) <= MaxInt
           /\ MaxPerPage \in Nat \ {0} /\ DefaultPerPage \in Nat \ {0} /\ MaxInt \in Nat \ {0}
<1>1. Cardinality(User) \in Nat
  BY FS_CardinalityType DEF ConstantsAssumption
<1> QED  BY <1>1, SMT DEF ConstantsAssumption, TableAssumption

LEMMA RequestBounds ==
    ASSUME ConstantsAssumption, TableAssumption, NEW req \in ListRequest
    PROVE  /\ req.page \in 1 .. MaxInt /\ req.page \in Nat \ {0}
           /\ req.per_page \in 1 .. MaxPerPage /\ req.per_page \in Nat \ {0}
<1>1. req.page \in 1 .. MaxInt /\ req.per_page \in 1 .. MaxPerPage
  BY DEF ListRequest
<1> QED  BY <1>1, Limits, SMT

LEMMA NoRows == DOMAIN <<>> = 1 .. Cardinality(DOMAIN <<>>) /\ Cardinality(DOMAIN <<>>) = 0
<1>1. DOMAIN <<>> = {}
  BY SMT
<1> QED  BY <1>1, FS_EmptySet, SMT

LEMMA MatchingCount ==
    ASSUME ConstantsAssumption
    PROVE  Cardinality(Matching) \in 0 .. Cardinality(User)
<1>1. Matching \subseteq User
  BY DEF Matching
<1>2. /\ IsFiniteSet(Matching) /\ Cardinality(Matching) <= Cardinality(User)
      /\ IsFiniteSet(User)
  BY <1>1, FS_Subset DEF ConstantsAssumption
<1>3. Cardinality(Matching) \in Nat /\ Cardinality(User) \in Nat
  BY <1>2, FS_CardinalityType
<1> QED  BY <1>2, <1>3, SMT

\* A page has at most as many rows as asked for, each of them a user.
LEMMA SliceBounds ==
    ASSUME ConstantsAssumption, NEW s \in Orderings, NEW offset \in Nat, NEW limit \in Nat
    PROVE  LET page == Slice(s, offset, limit) IN
           /\ DOMAIN page = 1 .. Cardinality(DOMAIN page)
           /\ Cardinality(DOMAIN page) <= limit
           /\ \A i \in DOMAIN page : page[i] \in User
<1> DEFINE n == Cardinality(Matching)
           page == Slice(s, offset, limit)
           m == Least(limit, n - offset)
<1>1. n \in Nat
  <2>1. n \in 0 .. Cardinality(User) /\ Cardinality(User) \in Nat
    BY MatchingCount, FS_CardinalityType DEF ConstantsAssumption
  <2> QED  BY <2>1, SMT
<1>2. s \in [1 .. n -> Matching] /\ DOMAIN s = 1 .. n /\ Matching \subseteq User
  BY DEF Orderings, Matching
<1>3. Cardinality(DOMAIN s) = n
  <2>1. Cardinality(1 .. n) = IF 1 > n THEN 0 ELSE n - 1 + 1
    BY <1>1, FS_Interval
  <2> QED  BY <1>1, <1>2, <2>1, SMT
<1>4. page = [i \in 1 .. m |-> s[offset + i]]
  BY <1>3 DEF Slice
<1>5. m \in Int /\ m <= limit /\ m <= n - offset
  BY <1>1, SMT DEF Least
<1> HIDE DEF n, page, m
<1>6. DOMAIN page = 1 .. m
  BY <1>4
<1>7. Cardinality(1 .. m) = IF 1 > m THEN 0 ELSE m - 1 + 1
  BY <1>5, FS_Interval
<1>8. DOMAIN page = 1 .. Cardinality(DOMAIN page) /\ Cardinality(DOMAIN page) <= limit
  BY <1>5, <1>6, <1>7, SMT
<1>9. ASSUME NEW i \in 1 .. m PROVE page[i] \in User
  <2>1. offset + i \in 1 .. n
    BY <1>1, <1>5, SMT
  <2> QED  BY <1>2, <1>4, <2>1
<1> QED  BY <1>6, <1>8, <1>9 DEF page

\* A link to a next page names one that has rows, except on the page after which there is no
\* integer.
LEMMA NextPageHasRows ==
    ASSUME ConstantsAssumption, TableAssumption, TypeOK
    PROVE  LET next == Pagination.next_page IN
           /\ next \in (-MaxInt - 1 .. MaxInt) \cup {None}
           /\ request.page < MaxInt =>
                 /\ next # None => next = request.page + 1
                 /\ next # None <=> request.page * request.per_page < total
           /\ request.page = MaxInt /\ next # None => next = -MaxInt - 1
<1> DEFINE pages == TotalPages(total, request.per_page)
           next == Pagination.next_page
<1>1. /\ request.page \in 1 .. MaxInt /\ request.per_page \in 1 .. MaxPerPage
      /\ total \in 0 .. Cardinality(User)
  BY DEF TypeOK, ListRequest
<1>2. /\ request.page \in Nat /\ request.per_page \in Nat \ {0} /\ total \in Nat
      /\ request.page + 1 \in Int /\ MaxInt \in Nat /\ None \notin Int
  BY <1>1, Limits, SMT DEF ConstantsAssumption
<1>3. pages \in Nat /\ (request.page + 1 <= pages <=> request.page * request.per_page < total)
  BY <1>2, PagesHaveRows
<1>4. next = IF Wrap(request.page + 1) <= pages THEN Wrap(request.page + 1) ELSE None
  BY DEF Pagination, NextPage
<1>5. CASE request.page < MaxInt
  <2>1. request.page + 1 \in -MaxInt - 1 .. MaxInt
    BY <1>2, <1>5, SMT
  <2>2. Wrap(request.page + 1) = request.page + 1
    BY <1>2, <2>1, WrapFits
  <2> HIDE DEF pages, next
  <2>3. next = IF request.page + 1 <= pages THEN request.page + 1 ELSE None
    BY <1>4, <2>2
  <2> QED  BY <1>2, <1>3, <1>5, <2>1, <2>3, SMT DEF next
<1>6. CASE request.page = MaxInt
  <2>1. Wrap(request.page + 1) = -MaxInt - 1
    BY <1>2, <1>6, WrapFits
  <2> HIDE DEF pages, next
  <2> QED  BY <1>2, <1>3, <1>4, <1>6, <2>1, SMT DEF next
<1> QED  BY <1>1, <1>2, <1>5, <1>6, SMT

LEMMA InitInv == ASSUME ConstantsAssumption, TableAssumption, Init PROVE IInv
<1>1. request \in ListRequest
  BY NormalizeBounds, Zenon DEF Init
<1>2. request.per_page \in Nat
  BY <1>1, RequestBounds
<1>3. DOMAIN rows = 1 .. Cardinality(DOMAIN rows) /\ Cardinality(DOMAIN rows) <= request.per_page
  BY <1>2, NoRows, SMT DEF Init
<1>4. total \in 0 .. Cardinality(User) /\ changes \in 0 .. MaxChanges
  BY Limits, SMT DEF Init, ConstantsAssumption
<1>5. walk \in Walk /\ ~walk.linked
  BY DEF Init, Walk
<1>6. \A i \in DOMAIN rows : rows[i] \in User
  BY NoRows, SMT DEF Init
<1> QED
  BY <1>1, <1>3, <1>4, <1>5, <1>6 DEF Init, IInv, TypeOK, IdleIsEmpty, LinkedPagesFit

\* A commit of another request leaves the client's request as it is.
LEMMA DisturbedInv ==
    ASSUME ConstantsAssumption, IInv, Changes, Disturbed,
           there' \in SUBSET User, first' \in [User -> FirstName], deleted' \in SUBSET there'
    PROVE  IInv'
<1>1. walk' \in Walk /\ walk'.linked = walk.linked
  <2> USE DEF IInv, TypeOK, Walk
  <2> DEFINE steady == {u \in walk.steady \cap Settled' :
                           SortColumn(u, first, request)' = SortColumn(u, first, request)}
             back == {u \in steady : Ahead(u)' \ Ahead(u) # {}}
             overtaken == {u \in steady : u \in walk.overtaken \/ Ahead(u) \ Ahead(u)' # {}}
             unseen == (walk.unseen \cap steady) \cup IF pc = "page" THEN back ELSE {}
  <2>1. walk' = [walk EXCEPT !.steady = steady, !.once = @ \cap steady, !.twice = @ \cap steady,
                             !.overtaken = overtaken, !.pushed = (@ \cap steady) \cup back,
                             !.unseen = unseen]
    BY DEF Disturbed
  <2>2. steady \in SUBSET User /\ back \in SUBSET User /\ overtaken \in SUBSET User
    OBVIOUS
  <2>3. unseen \in SUBSET User
    BY <2>2
  <2> HIDE DEF steady, back, overtaken, unseen
  <2> QED  BY <2>1, <2>2, <2>3
<1>2. changes' \in 0 .. MaxChanges
  BY SMT DEF Changes, IInv, TypeOK, ConstantsAssumption
<1>3. UNCHANGED <<pc, request, total, rows>>
  BY DEF Changes, answer
<1> QED  BY <1>1, <1>2, <1>3 DEF IInv, TypeOK, IdleIsEmpty, LinkedPagesFit, Walking

LEMMA InvNext ==
    ASSUME ConstantsAssumption, TableAssumption, IInv, [Next]_vars
    PROVE  IInv'
<1> USE DEF IInv, table, answer
<1>1. ASSUME NEW page \in Pages, NEW per_page \in PerPages, NEW sort_by \in SortBys,
             NEW order \in Orders, NEW status \in Statuses,
             Begin(page, per_page, sort_by, order, status)
      PROVE  IInv'
  <2>1. request' \in ListRequest
    <3>1. /\ page \in (-MaxInt - 1 .. MaxInt) \cup {None}
          /\ per_page \in (-MaxInt - 1 .. MaxInt) \cup {None}
      BY DEF ConstantsAssumption
    <3> QED  BY <1>1, <3>1, NormalizeBounds DEF Begin
  <2>2. rows' = <<>>
    BY <1>1 DEF Begin, IdleIsEmpty
  <2>3. request'.per_page \in Nat
    BY <2>1, RequestBounds
  <2>4. /\ DOMAIN rows' = 1 .. Cardinality(DOMAIN rows')
        /\ Cardinality(DOMAIN rows') <= request'.per_page
    BY <2>2, <2>3, NoRows, SMT
  <2>5. walk' \in Walk /\ ~walk'.linked
    BY <1>1 DEF Begin, Walk, Settled, Matching
  <2>6. \A i \in DOMAIN rows' : rows'[i] \in User
    BY <2>2, NoRows, SMT
  <2> QED
    BY <1>1, <2>1, <2>4, <2>5, <2>6 DEF Begin, TypeOK, IdleIsEmpty, LinkedPagesFit
<1>2. ASSUME Count PROVE IInv'
  BY <1>2, MatchingCount DEF Count, TypeOK, IdleIsEmpty, LinkedPagesFit, Walking
<1>3. ASSUME ReadPage PROVE IInv'
  <2>1. Offset(request) \in Nat /\ request.per_page \in Nat
    <3>1. request.page \in Int /\ request.per_page \in Nat
      BY RequestBounds DEF TypeOK
    <3>2. Wrap(request.page - 1) \in Int
      <4>1. request.page - 1 \in Int
        BY <3>1, SMT
      <4> QED  BY <4>1, WrapIsInteger
    <3>3. Wrap(request.page - 1) * request.per_page \in Int
      BY <3>1, <3>2, SMT
    <3>4. Offset(request) \in Int
      BY <3>3, WrapIsInteger DEF Offset
    <3> QED  BY <1>3, <3>1, <3>4, SMT DEF ReadPage
  <2>2. PICK s \in Orderings : rows' = Slice(s, Offset(request), request.per_page)
    BY <1>3 DEF ReadPage
  <2>3. /\ DOMAIN rows' = 1 .. Cardinality(DOMAIN rows')
        /\ Cardinality(DOMAIN rows') <= request.per_page
        /\ \A i \in DOMAIN rows' : rows'[i] \in User
    BY <2>1, <2>2, SliceBounds
  <2> QED  BY <1>3, <2>3 DEF ReadPage, TypeOK, IdleIsEmpty, LinkedPagesFit, Walking
<1>4. ASSUME Answer PROVE IInv'
  <2>1. walk' \in Walk /\ walk'.linked = walk.linked
    BY <1>4 DEF Answer, TypeOK, Walk
  <2> QED  BY <1>4, <2>1 DEF Answer, TypeOK, IdleIsEmpty, LinkedPagesFit, Walking
<1>5. ASSUME Follow PROVE IInv'
  <2> DEFINE next == Pagination.next_page
  <2>1. next \in (-MaxInt - 1 .. MaxInt) /\ request \in ListRequest
    BY <1>5, NextPageHasRows DEF Follow, TypeOK
  <2>2. /\ request.per_page \in 1 .. MaxPerPage /\ request.per_page \in Nat \ {0}
        /\ request.page \in 1 .. MaxInt /\ MaxPerPage <= MaxInt /\ MaxInt \in Nat \ {0}
    BY <2>1, Limits, RequestBounds DEF ConstantsAssumption
  <2>3. request' \in ListRequest
    <3>1. request.per_page \in (-MaxInt - 1 .. MaxInt) \cup {None}
      BY <2>2, SMT
    <3> QED  BY <1>5, <2>1, <3>1, NormalizeBounds DEF Follow, ListRequest
  <2>4. request'.per_page = request.per_page /\ request'.page = IF next < 1 THEN 1 ELSE next
    <3>1. request.per_page # None /\ next # None
      BY <2>1, <2>2, SMT DEF ConstantsAssumption
    <3> HIDE DEF next
    <3>2. request' = Normalize(next, request.per_page, request.sort_by, request.order,
                               request.status)
      BY <1>5 DEF Follow, next
    <3>3. request'.page = IF next = None \/ next < 1 THEN 1 ELSE next
      BY <3>2, Zenon DEF Normalize
    <3>4. request'.per_page = IF \/ request.per_page = None
                                 \/ request.per_page < 1 \/ request.per_page > MaxPerPage
                              THEN DefaultPerPage ELSE request.per_page
      BY <3>2, Zenon DEF Normalize
    <3> QED  BY <2>2, <3>1, <3>3, <3>4, Limits, SMT
  <2>5. (request'.page - 1) * request'.per_page \in 0 .. MaxInt
    <3>1. CASE request.page = MaxInt
      <4>1. request'.page = 1
        BY <1>5, <2>2, <2>4, <3>1, NextPageHasRows, SMT DEF Follow
      <4> QED  BY <2>2, <2>4, <4>1, SMT
    <3>2. CASE request.page < MaxInt
      <4>1. next = request.page + 1 /\ request.page * request.per_page < total
        BY <1>5, <3>2, NextPageHasRows DEF Follow
      <4>2. request'.page = request.page + 1
        BY <2>2, <2>4, <4>1, SMT
      <4>3. total \in 0 .. Cardinality(User)
        BY DEF TypeOK
      <4>4. request.page * request.per_page \in Nat
        BY <2>2, SMT
      <4>5. request'.page - 1 = request.page
        BY <2>2, <4>2, SMT
      <4> QED  BY <2>4, <4>1, <4>3, <4>4, <4>5, Limits, SMT
    <3> QED  BY <2>2, <3>1, <3>2, SMT
  <2>6. rows' = <<>> /\ total' \in 0 .. Cardinality(User)
    BY <1>5, Limits, SMT DEF Follow
  <2>7. /\ DOMAIN rows' = 1 .. Cardinality(DOMAIN rows')
        /\ Cardinality(DOMAIN rows') <= request'.per_page
        /\ \A i \in DOMAIN rows' : rows'[i] \in User
    BY <2>2, <2>4, <2>6, NoRows, SMT
  <2>8. walk' \in Walk
    BY <1>5 DEF Follow, TypeOK, Walk
  <2> QED
    BY <1>5, <2>3, <2>5, <2>6, <2>7, <2>8 DEF Follow, TypeOK, IdleIsEmpty, LinkedPagesFit
<1>6. ASSUME Finish \/ Fail PROVE IInv'
  <2>1. rows' = <<>> /\ total' \in 0 .. Cardinality(User) /\ request' = request
    BY <1>6, Limits, SMT DEF Finish, Fail
  <2>2. request.per_page \in Nat
    BY RequestBounds DEF TypeOK
  <2>3. /\ DOMAIN rows' = 1 .. Cardinality(DOMAIN rows')
        /\ Cardinality(DOMAIN rows') <= request'.per_page
        /\ \A i \in DOMAIN rows' : rows'[i] \in User
    BY <2>1, <2>2, NoRows, SMT
  <2> QED
    BY <1>6, <2>1, <2>3 DEF Finish, Fail, TypeOK, IdleIsEmpty, LinkedPagesFit, Walking
<1>7. ASSUME NEW u \in User, Insert(u) PROVE IInv'
  BY <1>7, DisturbedInv DEF Insert, TypeOK
<1>8. ASSUME NEW u \in User, NEW name \in FirstName, Rename(u, name) PROVE IInv'
  BY <1>8, DisturbedInv DEF Rename, TypeOK
<1>9. ASSUME NEW u \in User, NEW isDeleted \in BOOLEAN, SetStatus(u, isDeleted) PROVE IInv'
  BY <1>9, DisturbedInv DEF SetStatus, TypeOK
<1>10. CASE UNCHANGED vars
  BY <1>10 DEF vars, TypeOK, IdleIsEmpty, LinkedPagesFit, Walking
<1> QED
  BY <1>1, <1>2, <1>3, <1>4, <1>5, <1>6, <1>7, <1>8, <1>9, <1>10 DEF Next, Request

\* All of it holds in every state.
THEOREM Invariant == Spec => []IInv
<1>1. Init => IInv
  BY InitInv, ConstantsAssumption, TableAssumption
<1>2. IInv /\ [Next]_vars => IInv'
  BY InvNext, ConstantsAssumption, TableAssumption
<1> QED  BY <1>1, <1>2, PTL DEF Spec

------------------------------------------------------------------------------
(* The order *)

\* How many rows come before a row in the order.
Place(u) == Cardinality(Ahead(u))

\* A row at a place of its own comes, in every order PostgreSQL may give the rows, after just
\* those that are ahead of it.
LEMMA PlaceInOrder ==
    ASSUME ConstantsAssumption, NEW s \in Orderings, NEW u \in Settled
    PROVE  \E p \in 1 .. Cardinality(Matching) : s[p] = u /\ Place(u) = p - 1
<1> DEFINE n == Cardinality(Matching)
<1>1. n \in Nat /\ IsFiniteSet(Matching)
  <2>1. Matching \subseteq User
    BY DEF Matching
  <2> QED  BY <2>1, FS_Subset, FS_CardinalityType DEF ConstantsAssumption
<1>2. /\ s \in [1 .. n -> Matching]
      /\ \A i, j \in 1 .. n : i < j => s[i] # s[j] /\ ~Before(s[j], s[i])
  BY DEF Orderings
<1> HIDE DEF n
<1>3. IsFiniteSet(1 .. n) /\ Cardinality(1 .. n) = n
  <2>1. IsFiniteSet(1 .. n) /\ Cardinality(1 .. n) = IF 1 > n THEN 0 ELSE n - 1 + 1
    BY <1>1, FS_Interval
  <2> QED  BY <1>1, <2>1, SMT
<1>4. \A i, j \in 1 .. n : s[i] = s[j] => i = j
  <2>1. \A i, j \in 1 .. n : i = j \/ i < j \/ j < i
    BY <1>1, SMT
  <2> QED  BY <1>2, <2>1
<1>5. s \in Injection(1 .. n, Matching)
  BY <1>2, <1>4 DEF Injection, IsInjective
<1>6. s \in Surjection(1 .. n, Matching)
  BY <1>1, <1>3, <1>5, FS_Injection DEF n
<1>7. PICK p \in 1 .. n : s[p] = u
  BY <1>6 DEF Surjection, Settled
<1>8. p - 1 \in Nat /\ 1 .. p - 1 \subseteq 1 .. n
  BY <1>1, SMT
<1>9. \A j \in 1 .. n : s[j] \in Ahead(u) <=> j \in 1 .. p - 1
  <2> TAKE j \in 1 .. n
  <2>1. j < p \/ j = p \/ p < j
    BY <1>1, SMT
  <2>2. j \in 1 .. p - 1 <=> j < p
    BY <1>1, SMT
  <2>3. CASE j < p
    BY <1>2, <1>7, <2>2, <2>3 DEF Ahead
  <2>4. CASE j = p
    BY <1>1, <1>7, <2>2, <2>4, SMT DEF Ahead
  <2>5. CASE p < j
    <3>1. s[j] \in Matching \ {u} /\ ~Before(s[j], u) /\ ~(j < p)
      BY <1>1, <1>2, <1>7, <2>5, SMT
    <3>2. Before(u, s[j])
      BY <3>1 DEF Settled
    <3> QED  BY <2>2, <3>1, <3>2 DEF Ahead
  <2> QED  BY <2>1, <2>3, <2>4, <2>5
<1>10. [j \in 1 .. p - 1 |-> s[j]] \in Bijection(1 .. p - 1, Ahead(u))
  <2> DEFINE f == [j \in 1 .. p - 1 |-> s[j]]
  <2>1. f \in [1 .. p - 1 -> Ahead(u)]
    BY <1>8, <1>9
  <2>2. \A i, j \in 1 .. p - 1 : f[i] = f[j] => i = j
    BY <1>4, <1>8
  <2>3. ASSUME NEW v \in Ahead(u) PROVE \E j \in 1 .. p - 1 : f[j] = v
    <3>1. PICK j \in 1 .. n : s[j] = v
      BY <1>6 DEF Surjection, Ahead
    <3> QED  BY <1>9, <3>1
  <2> HIDE DEF f
  <2>4. IsInjective(f)
    BY <2>1, <2>2 DEF IsInjective
  <2> QED  BY <2>1, <2>3, <2>4 DEF Bijection, Injection, Surjection, f
<1>11. IsFiniteSet(1 .. p - 1) /\ Cardinality(1 .. p - 1) = p - 1
  <2>1. IsFiniteSet(1 .. p - 1) /\ Cardinality(1 .. p - 1) = IF 1 > p - 1 THEN 0 ELSE p - 1 - 1 + 1
    BY <1>8, FS_Interval
  <2> QED  BY <1>8, <2>1, SMT
<1>12. Cardinality(Ahead(u)) = p - 1
  BY <1>10, <1>11, FS_Bijection DEF ExistsBijection
<1> QED  BY <1>7, <1>12 DEF n, Place

\* A row comes before others, of which there are fewer than there are rows.
LEMMA PlaceBounds ==
    ASSUME ConstantsAssumption, NEW u \in Matching
    PROVE  Place(u) \in Nat /\ Place(u) < Cardinality(Matching)
<1>1. IsFiniteSet(User) /\ Matching \subseteq User /\ Ahead(u) \subseteq Matching \ {u}
  BY DEF ConstantsAssumption, Matching, Ahead
<1>2. IsFiniteSet(Matching) /\ IsFiniteSet(Matching \ {u})
  BY <1>1, FS_Subset
<1>3. Cardinality(Matching \ {u}) = Cardinality(Matching) - 1
  BY <1>2, FS_RemoveElement
<1>4. IsFiniteSet(Ahead(u)) /\ Cardinality(Ahead(u)) <= Cardinality(Matching \ {u})
  BY <1>1, <1>2, FS_Subset
<1>5. Cardinality(Matching) \in Nat /\ Cardinality(Ahead(u)) \in Nat
  BY <1>2, <1>4, FS_CardinalityType
<1> QED  BY <1>3, <1>4, <1>5, SMT DEF Place

\* A part of the users has no more members than the whole.
LEMMA Smaller ==
    ASSUME ConstantsAssumption, NEW S \in SUBSET User, NEW T \in SUBSET S
    PROVE  Cardinality(T) <= Cardinality(S) /\ Cardinality(S) \in Nat /\ Cardinality(T) \in Nat
<1>1. IsFiniteSet(S)
  BY FS_Subset DEF ConstantsAssumption
<1> QED  BY <1>1, FS_Subset, FS_CardinalityType

\* The rows of a page are those at its places.
LEMMA RowsOfPage ==
    ASSUME ConstantsAssumption, NEW s \in Orderings, NEW u \in Settled,
           NEW offset \in Nat, NEW limit \in Nat
    PROVE  LET page == Slice(s, offset, limit) IN
           (\E i \in DOMAIN page : page[i] = u) <=> offset <= Place(u) /\ Place(u) < offset + limit
<1> DEFINE n == Cardinality(Matching)
           m == Least(limit, n - offset)
           page == Slice(s, offset, limit)
<1>1. n \in Nat
  <2>1. n \in 0 .. Cardinality(User) /\ Cardinality(User) \in Nat
    BY MatchingCount, FS_CardinalityType DEF ConstantsAssumption
  <2> QED  BY <2>1, SMT
<1>2. /\ s \in [1 .. n -> Matching] /\ DOMAIN s = 1 .. n
      /\ \A i, j \in 1 .. n : i < j => s[i] # s[j]
  BY DEF Orderings
<1>3. Cardinality(DOMAIN s) = n
  <2>1. Cardinality(1 .. n) = IF 1 > n THEN 0 ELSE n - 1 + 1
    BY <1>1, FS_Interval
  <2> QED  BY <1>1, <1>2, <2>1, SMT
<1>4. PICK p \in 1 .. n : s[p] = u /\ Place(u) = p - 1
  BY PlaceInOrder
<1>5. page = [i \in 1 .. m |-> s[offset + i]]
  BY <1>3 DEF Slice
<1>6. m \in Int /\ (\A k \in Int : k <= m <=> k <= limit /\ k <= n - offset)
  BY <1>1, SMT DEF Least
<1> HIDE DEF n, m, page
<1>7. ASSUME NEW i \in 1 .. m, s[offset + i] = u
      PROVE  offset <= Place(u) /\ Place(u) < offset + limit
  <2>1. offset + i \in 1 .. n /\ i \in 1 .. limit
    BY <1>1, <1>6, SMT
  <2>2. offset + i = p
    <3>1. offset + i < p \/ offset + i = p \/ p < offset + i
      BY <1>1, <2>1, SMT
    <3> QED  BY <1>2, <1>4, <1>7, <2>1, <3>1
  <2> QED  BY <1>1, <1>4, <2>1, <2>2, SMT
<1>8. ASSUME offset <= Place(u), Place(u) < offset + limit
      PROVE  \E i \in 1 .. m : s[offset + i] = u
  <2>1. p - offset \in 1 .. m /\ offset + (p - offset) = p
    BY <1>1, <1>4, <1>6, <1>8, SMT
  <2> QED  BY <1>4, <2>1
<1>9. (\E i \in DOMAIN page : page[i] = u) <=> \E i \in 1 .. m : s[offset + i] = u
  BY <1>5
<1> QED  BY <1>7, <1>8, <1>9 DEF page

------------------------------------------------------------------------------
(* The walk *)

\* The page that is on its way to the client.
Shown == {rows[i] : i \in DOMAIN rows}

\* Those the walk has been shown, the page in flight included, ...
Seen == walk.once \cup IF pc = "roles" THEN Shown \cap walk.steady ELSE {}

\* ... and the number of places its pages have covered.
Behind == IF pc \in {"roles", "read"} THEN request.page * request.per_page
          ELSE (request.page - 1) * request.per_page

\* Who has been seen stands behind the client, unless a row came ahead of him; who has not stands
\* before it, unless one that was ahead of him went away.
InPlace(u) ==
    /\ u \in Seen => u \in walk.pushed \/ Place(u) < Behind
    /\ u \notin Seen => u \in walk.overtaken \/ Behind <= Place(u)

\* What is left behind is covered by the pages read, what lies ahead is not, and between its count
\* and the end of its request a page knows of everyone whether there is another one for him.
WalkInv ==
    /\ walk.once \subseteq walk.steady
    /\ walk.twice \subseteq walk.pushed
    /\ Walking => walk.steady \subseteq Settled
    /\ Walking /\ walk.steady # {} => (request.page - 1) * request.per_page < Cardinality(User)
    /\ Walking => \A u \in walk.steady : InPlace(u)
    /\ pc = "roles" => Shown \cap walk.once \subseteq walk.pushed
    /\ pc = "page" => \A u \in walk.steady \ walk.unseen : Place(u) < total
    /\ pc \in {"roles", "read"} /\ request.page * request.per_page >= total =>
          walk.steady \subseteq Seen \cup walk.overtaken \cup walk.unseen
    /\ pc = "done" => walk.steady \subseteq walk.once \cup walk.overtaken \cup walk.unseen

\* Pages in a row cover the places in a row.
LEMMA PageNumbers ==
    ASSUME ConstantsAssumption, TableAssumption, TypeOK
    PROVE  /\ request.page \in Nat \ {0} /\ request.per_page \in Nat \ {0}
           /\ (request.page - 1) * request.per_page \in Nat
           /\ request.page * request.per_page =
                 (request.page - 1) * request.per_page + request.per_page
           /\ Behind \in Nat
<1>1. request.page \in Nat \ {0} /\ request.per_page \in Nat \ {0}
  BY RequestBounds DEF TypeOK
<1> DEFINE k == request.page - 1
           p == request.per_page
<1>2. k \in Nat /\ p \in Nat \ {0} /\ request.page = k + 1
  BY <1>1, SMT
<1> HIDE DEF k, p
<1>3. k * p \in Nat /\ (k + 1) * p = k * p + p
  BY <1>2, SMT
<1>4. (k + 1) * p \in Nat
  BY <1>2, <1>3, SMT
<1> QED  BY <1>1, <1>2, <1>3, <1>4 DEF k, p, Behind

\* A walk that shows somebody is far from the largest integer: its pages and offsets do not wrap.
LEMMA NoWrap ==
    ASSUME ConstantsAssumption, TableAssumption, TypeOK,
           (request.page - 1) * request.per_page < Cardinality(User)
    PROVE  request.page < MaxInt /\ Offset(request) = (request.page - 1) * request.per_page
<1> DEFINE k == request.page - 1
           p == request.per_page
           n == k * p
<1>1. p \in Nat \ {0} /\ k \in Nat /\ request.page = k + 1 /\ n \in Nat /\ p <= MaxPerPage
  <2>1. request.page \in Nat \ {0} /\ p \in Nat \ {0} /\ n \in Nat /\ p \in 1 .. MaxPerPage
    BY PageNumbers, RequestBounds DEF TypeOK
  <2> QED  BY <2>1, Limits, SMT
<1>2. k <= n
  <2> HIDE DEF k, p, n
  <2>1. k * 1 <= k * p
    BY <1>1, SMT
  <2> QED  BY <1>1, <2>1, SMT DEF n
<1>3. n < Cardinality(User) /\ Cardinality(User) + MaxPerPage <= MaxInt
  BY TableAssumption
<1>4. request.page < MaxInt /\ k \in -MaxInt - 1 .. MaxInt /\ n \in -MaxInt - 1 .. MaxInt
  <2> HIDE DEF k, p, n
  <2> QED  BY <1>1, <1>2, <1>3, Limits, SMT
<1>5. k \in Int /\ n \in Int
  BY <1>1, SMT
<1>6. Wrap(k) = k /\ Wrap(n) = n
  BY <1>4, <1>5, WrapFits
<1> QED  BY <1>4, <1>6 DEF Offset

\* The order is the same as long as the table and the request are.
LEMMA SameOrder ==
    ASSUME UNCHANGED table, request'.sort_by = request.sort_by, request'.order = request.order,
           request'.status = request.status
    PROVE  /\ Matching' = Matching /\ Settled' = Settled
           /\ \A u : Ahead(u)' = Ahead(u) /\ Place(u)' = Place(u)
BY DEF table, Matching, Listed, Settled, Before, Precedes, SortColumn, Ahead, Place

\* A commit of another request: whoever stays in the walk, and is not marked, has not moved the
\* wrong way.
LEMMA DisturbedWalk ==
    ASSUME ConstantsAssumption, TableAssumption, IInv, WalkInv, Changes, Disturbed
    PROVE  WalkInv'
<1> USE DEF IInv, TypeOK, Walk
<1> DEFINE steady == {u \in walk.steady \cap Settled' :
                         SortColumn(u, first, request)' = SortColumn(u, first, request)}
           back == {u \in steady : Ahead(u)' \ Ahead(u) # {}}
           overtaken == {u \in steady : u \in walk.overtaken \/ Ahead(u) \ Ahead(u)' # {}}
           unseen == (walk.unseen \cap steady) \cup IF pc = "page" THEN back ELSE {}
<1>1. walk' = [walk EXCEPT !.steady = steady, !.once = @ \cap steady, !.twice = @ \cap steady,
                           !.overtaken = overtaken, !.pushed = (@ \cap steady) \cup back,
                           !.unseen = unseen]
  BY DEF Disturbed
<1>2. /\ walk'.steady = steady /\ walk'.once = walk.once \cap steady
      /\ walk'.twice = walk.twice \cap steady /\ walk'.overtaken = overtaken
      /\ walk'.pushed = (walk.pushed \cap steady) \cup back /\ walk'.unseen = unseen
  <2> HIDE DEF steady, back, overtaken, unseen
  <2> QED  BY <1>1
<1>3. UNCHANGED <<pc, request, total, rows>> /\ Walking
  BY DEF Changes, answer
<1>4. steady \subseteq walk.steady /\ steady \subseteq Settled'
  OBVIOUS
<1>5. /\ Shown' = Shown /\ Behind' = Behind /\ Seen' = Seen \cap steady /\ Walking'
  <2> HIDE DEF steady, back, overtaken, unseen
  <2> QED  BY <1>2, <1>3, <1>4 DEF Shown, Behind, Seen, Walking
<1>6. ASSUME NEW u \in steady, u \notin walk'.pushed
      PROVE  u \notin walk.pushed /\ Place(u)' <= Place(u)
  <2>1. u \notin walk.pushed /\ Ahead(u)' \subseteq Ahead(u)
    BY <1>2, <1>6
  <2>2. Ahead(u) \in SUBSET User
    BY DEF Ahead, Matching
  <2> QED  BY <2>1, <2>2, Smaller DEF Place
<1>7. ASSUME NEW u \in steady, u \notin walk'.overtaken
      PROVE  u \notin walk.overtaken /\ Place(u) <= Place(u)'
  <2>1. u \notin walk.overtaken /\ Ahead(u) \subseteq Ahead(u)'
    BY <1>2, <1>7
  <2>2. Ahead(u)' \in SUBSET User
    BY DEF Ahead, Matching
  <2> QED  BY <2>1, <2>2, Smaller DEF Place
<1>8. ASSUME NEW u \in steady, pc = "page", u \notin walk'.unseen
      PROVE  u \notin walk.unseen /\ Place(u)' <= Place(u)
  <2>1. u \notin walk.unseen /\ Ahead(u)' \subseteq Ahead(u)
    BY <1>2, <1>8
  <2>2. Ahead(u) \in SUBSET User
    BY DEF Ahead, Matching
  <2> QED  BY <2>1, <2>2, Smaller DEF Place
<1>9. \A u \in steady : Place(u) \in Nat /\ Place(u)' \in Nat
  <2> TAKE u \in steady
  <2>1. Ahead(u) \in SUBSET User /\ Ahead(u)' \in SUBSET User
    BY DEF Ahead, Matching
  <2> QED  BY <2>1, Smaller DEF Place
<1>10. Behind \in Nat /\ total \in Nat
  <2>1. total \in 0 .. Cardinality(User)
    OBVIOUS
  <2> QED  BY <2>1, PageNumbers, Limits, SMT
<1> HIDE DEF steady, back, overtaken, IInv, TypeOK, Walk
<1>11. \A u \in steady : InPlace(u)'
  <2> TAKE u \in steady
  <2>1. InPlace(u) /\ (u \in Seen' <=> u \in Seen)
    BY <1>3, <1>5, <1>4 DEF WalkInv
  <2>2. u \in Seen /\ u \notin walk'.pushed => Place(u)' < Behind
    <3> SUFFICES ASSUME u \in Seen, u \notin walk'.pushed PROVE Place(u)' < Behind
      OBVIOUS
    <3>1. Place(u) < Behind /\ Place(u)' <= Place(u)
      BY <1>6, <2>1 DEF InPlace
    <3> QED  BY <3>1, <1>9, <1>10, SMT
  <2>3. u \notin Seen /\ u \notin walk'.overtaken => Behind <= Place(u)'
    <3> SUFFICES ASSUME u \notin Seen, u \notin walk'.overtaken PROVE Behind <= Place(u)'
      OBVIOUS
    <3>1. Behind <= Place(u) /\ Place(u) <= Place(u)'
      BY <1>7, <2>1 DEF InPlace
    <3> QED  BY <3>1, <1>9, <1>10, SMT
  <2> QED  BY <1>5, <2>1, <2>2, <2>3 DEF InPlace
<1>12. pc = "page" => \A u \in steady \ walk'.unseen : Place(u)' < total
  <2> SUFFICES ASSUME pc = "page", NEW u \in steady, u \notin walk'.unseen PROVE Place(u)' < total
    OBVIOUS
  <2>1. Place(u) < total /\ Place(u)' <= Place(u)
    BY <1>4, <1>8 DEF WalkInv
  <2> QED  BY <2>1, <1>9, <1>10, SMT
<1>13. /\ walk'.once \subseteq steady /\ walk'.twice \subseteq walk'.pushed
       /\ pc = "roles" => Shown \cap walk'.once \subseteq walk'.pushed
  BY <1>2, <1>3 DEF WalkInv
<1>14. pc # "done" /\ (steady # {} => walk.steady # {})
  BY <1>3, <1>4 DEF Walking
<1>15. steady \cap (walk.overtaken \cup walk.unseen) \subseteq walk'.overtaken \cup walk'.unseen
  BY <1>2 DEF overtaken
<1>16. pc \in {"roles", "read"} /\ request.page * request.per_page >= total =>
          steady \subseteq Seen' \cup walk'.overtaken \cup walk'.unseen
  BY <1>5, <1>4, <1>15 DEF WalkInv
<1>17. /\ walk'.steady = steady /\ steady \subseteq Settled'
       /\ Walking /\ steady # {} => (request.page - 1) * request.per_page < Cardinality(User)
  BY <1>2, <1>4, <1>14 DEF WalkInv
<1> HIDE DEF unseen
<1> QED
  BY <1>3, <1>5, <1>11, <1>12, <1>13, <1>14, <1>16, <1>17 DEF WalkInv

\* A walk begins with nobody seen, and everybody ahead.
LEMMA BeginWalk ==
    ASSUME ConstantsAssumption, TableAssumption, IInv, IInv', WalkInv,
           NEW page, NEW per_page, NEW sort_by, NEW order, NEW status,
           Begin(page, per_page, sort_by, order, status)
    PROVE  WalkInv'
<1>1. /\ walk'.once = {} /\ walk'.twice = {} /\ pc' = "count" /\ walk'.steady \subseteq Settled'
      /\ walk'.steady # {} => request'.page = 1
  BY DEF Begin
<1>2. Seen' = {} /\ Behind' = (request'.page - 1) * request'.per_page
  BY <1>1 DEF Seen, Behind
<1>3. request'.per_page \in Nat
  BY RequestBounds DEF IInv, TypeOK
<1>4. ASSUME walk'.steady # {} PROVE (request'.page - 1) * request'.per_page = 0
  BY <1>1, <1>3, <1>4, SMT
<1>5. ASSUME NEW u \in walk'.steady PROVE InPlace(u)' /\ 0 < Cardinality(User)
  <2>1. u \in User /\ Ahead(u)' \in SUBSET User
    BY <1>1, <1>5 DEF Settled, Ahead, Matching
  <2>2. Place(u)' \in Nat
    BY <2>1, Smaller DEF Place
  <2>3. 0 < Cardinality(User)
    <3>1. Cardinality(User) \in Nat /\ User # {}
      BY <2>1, Limits
    <3>2. Cardinality(User) # 0
      BY <3>1, FS_EmptySet DEF ConstantsAssumption
    <3> QED  BY <3>1, <3>2, SMT
  <2>4. Behind' = 0
    BY <1>2, <1>4, <1>5
  <2> QED  BY <1>2, <2>2, <2>3, <2>4, SMT DEF InPlace
<1> QED
  BY <1>1, <1>4, <1>5 DEF WalkInv

\* The count is of all whom the pages are about to show.
LEMMA CountWalk ==
    ASSUME ConstantsAssumption, TableAssumption, IInv, WalkInv, Count
    PROVE  WalkInv'
<1>1. pc = "count" /\ pc' = "page" /\ UNCHANGED <<table, request, rows, walk>>
      /\ total' = Cardinality(Matching)
  BY DEF Count
<1>2. Settled' = Settled /\ \A u : Place(u)' = Place(u)
  BY <1>1, SameOrder
<1>3. Seen' = Seen /\ Behind' = Behind /\ Walking
  BY <1>1 DEF Seen, Behind, Walking
<1>4. \A u \in walk.steady : InPlace(u)'
  BY <1>1, <1>2, <1>3 DEF InPlace, WalkInv
<1>5. \A u \in walk.steady : Place(u)' < total'
  BY <1>1, <1>2, <1>3, PlaceBounds DEF WalkInv, Settled
<1> QED
  BY <1>1, <1>2, <1>3, <1>4, <1>5 DEF WalkInv

\* A page shows just those whose places it covers.
LEMMA ReadPageWalk ==
    ASSUME ConstantsAssumption, TableAssumption, IInv, WalkInv, ReadPage
    PROVE  WalkInv'
<1> DEFINE offset == (request.page - 1) * request.per_page
           limit == request.per_page
<1>1. pc = "page" /\ pc' = "roles" /\ UNCHANGED <<table, request, total, walk>>
  BY DEF ReadPage
<1>2. Settled' = Settled /\ \A u : Place(u)' = Place(u)
  BY <1>1, SameOrder
<1>3. /\ offset \in Nat /\ limit \in Nat /\ Behind = offset /\ Behind' = offset + limit
      /\ request.page * request.per_page = offset + limit
  BY <1>1, PageNumbers DEF IInv, Behind
<1> HIDE DEF limit
<1>4. Seen = walk.once /\ Seen' = walk.once \cup (Shown' \cap walk.steady)
  BY <1>1 DEF Seen
<1>5. ASSUME NEW u \in walk.steady
      PROVE  /\ u \in Shown' <=> offset <= Place(u) /\ Place(u) < offset + limit
             /\ u \in walk.once => u \in walk.pushed \/ Place(u) < offset
             /\ u \notin walk.once => u \in walk.overtaken \/ offset <= Place(u)
             /\ Place(u) \in Nat
             /\ u \in walk.unseen \/ Place(u) < total
  <2>1. u \in Settled /\ offset < Cardinality(User) /\ InPlace(u)
    BY <1>1, <1>5 DEF WalkInv, Walking
  <2>2. Offset(request) = offset
    BY <2>1, NoWrap DEF IInv
  <2>3. PICK s \in Orderings : rows' = Slice(s, offset, limit)
    BY <2>2 DEF ReadPage, limit
  <2>4. u \in Shown' <=> \E i \in DOMAIN rows' : rows'[i] = u
    BY DEF Shown
  <2>5. u \in Shown' <=> offset <= Place(u) /\ Place(u) < offset + limit
    <3> HIDE DEF offset
    <3> QED  BY <1>3, <2>1, <2>3, <2>4, RowsOfPage
  <2>6. Place(u) \in Nat
    BY <2>1, PlaceBounds DEF Settled
  <2>7. u \in walk.unseen \/ Place(u) < total
    BY <1>1, <1>5 DEF WalkInv
  <2>8. /\ u \in walk.once => u \in walk.pushed \/ Place(u) < Behind
        /\ u \notin walk.once => u \in walk.overtaken \/ Behind <= Place(u)
    BY <1>4, <2>1, Zenon DEF InPlace
  <2> HIDE DEF offset
  <2> QED  BY <1>3, <2>5, <2>6, <2>7, <2>8
<1> HIDE DEF offset
<1>6. \A u \in walk.steady : InPlace(u)'
  <2> TAKE u \in walk.steady
  <2>1. u \in Seen' <=> u \in walk.once \/ (offset <= Place(u) /\ Place(u) < offset + limit)
    BY <1>4, <1>5
  <2>2. /\ u \in walk.once => u \in walk.pushed \/ Place(u) < offset
        /\ u \notin walk.once => u \in walk.overtaken \/ offset <= Place(u)
        /\ Place(u) \in Nat
    BY <1>5
  <2>3. /\ u \in Seen' => u \in walk.pushed \/ Place(u) < offset + limit
        /\ u \notin Seen' => u \in walk.overtaken \/ offset + limit <= Place(u)
    BY <1>3, <2>1, <2>2, SMT
  <2> QED  BY <1>1, <1>2, <1>3, <2>3 DEF InPlace
<1>7. Shown' \cap walk.once \subseteq walk.pushed
  <2> SUFFICES ASSUME NEW u \in walk.once, u \in Shown', u \notin walk.pushed PROVE FALSE
    OBVIOUS
  <2>1. u \in walk.steady
    BY DEF WalkInv
  <2>2. Place(u) \in Nat /\ offset <= Place(u) /\ Place(u) < offset
    BY <1>5, <2>1
  <2> QED  BY <1>3, <2>2, SMT
<1>8. ASSUME offset + limit >= total
      PROVE  walk.steady \subseteq Seen' \cup walk.overtaken \cup walk.unseen
  <2> SUFFICES ASSUME NEW u \in walk.steady, u \notin walk.overtaken, u \notin walk.unseen
               PROVE  u \in Seen'
    OBVIOUS
  <2>1. /\ u \notin walk.once => offset <= Place(u)
        /\ Place(u) \in Nat /\ Place(u) < total
    BY <1>5
  <2>2. total \in Nat
    <3>1. total \in 0 .. Cardinality(User)
      BY DEF IInv, TypeOK
    <3> QED  BY <3>1, Limits, SMT
  <2>3. Place(u) < offset + limit
    BY <1>3, <1>8, <2>1, <2>2, SMT
  <2> QED  BY <1>4, <1>5, <2>1, <2>3
<1>9. Walking /\ Walking'
  BY <1>1 DEF Walking
<1> QED
  BY <1>1, <1>2, <1>3, <1>6, <1>7, <1>8, <1>9 DEF WalkInv, offset

\* What was on its way arrives.
LEMMA AnswerWalk ==
    ASSUME ConstantsAssumption, TableAssumption, IInv, WalkInv, Answer
    PROVE  WalkInv'
<1>1. pc = "roles" /\ pc' = "read" /\ UNCHANGED <<table, request, total, rows>>
  BY DEF Answer, answer
<1>2. /\ walk'.once = walk.once \cup (Shown \cap walk.steady)
      /\ walk'.twice = walk.twice \cup (walk.once \cap Shown \cap walk.steady)
      /\ walk'.steady = walk.steady /\ walk'.pushed = walk.pushed
      /\ walk'.overtaken = walk.overtaken /\ walk'.unseen = walk.unseen
  BY DEF Answer, Shown, IInv, TypeOK, Walk
<1>3. Settled' = Settled /\ \A u : Place(u)' = Place(u)
  BY <1>1, SameOrder
<1>4. Seen' = Seen /\ Behind' = Behind /\ Walking
  BY <1>1, <1>2 DEF Seen, Behind, Walking
<1>5. \A u \in walk.steady : InPlace(u)'
  BY <1>2, <1>3, <1>4 DEF InPlace, WalkInv
<1> QED
  BY <1>1, <1>2, <1>3, <1>4, <1>5 DEF WalkInv

\* The next page starts where this one has ended.
LEMMA FollowWalk ==
    ASSUME ConstantsAssumption, TableAssumption, IInv, IInv', WalkInv, Follow
    PROVE  WalkInv'
<1> DEFINE next == Pagination.next_page
<1>1. /\ pc = "read" /\ pc' = "count" /\ UNCHANGED table /\ next # None
      /\ request' = Normalize(next, request.per_page, request.sort_by, request.order,
                              request.status)
  BY DEF Follow
<1>2. /\ walk'.once = walk.once /\ walk'.twice = walk.twice
      /\ walk'.steady = walk.steady /\ walk'.pushed = walk.pushed
      /\ walk'.overtaken = walk.overtaken
  BY DEF Follow, IInv, TypeOK, Walk
<1> HIDE DEF next
<1>3. request.per_page \in 1 .. MaxPerPage /\ request.order \in {"asc", "desc", ""}
  BY DEF IInv, TypeOK, ListRequest
<1>4. /\ request'.sort_by = request.sort_by /\ request'.order = request.order
      /\ request'.status = request.status
  BY <1>1, <1>3, Zenon DEF Normalize
<1>5. Settled' = Settled /\ \A u : Place(u)' = Place(u)
  BY <1>1, <1>4, SameOrder
<1>6. Seen = walk.once /\ Seen' = walk.once /\ Walking /\ Walking'
  BY <1>1, <1>2 DEF Seen, Walking
<1>7. ASSUME walk.steady # {}
      PROVE  /\ Behind' = Behind
             /\ (request'.page - 1) * request'.per_page < Cardinality(User)
  <2>1. /\ request.page \in Nat \ {0} /\ request.per_page \in Nat \ {0} /\ None \notin Int
        /\ MaxPerPage \in Nat
    BY PageNumbers, Limits DEF IInv, ConstantsAssumption
  <2>2. request.page < MaxInt
    BY <1>6, <1>7, NoWrap DEF IInv, WalkInv
  <2>3. next = request.page + 1 /\ request.page * request.per_page < total
    BY <1>1, <2>2, NextPageHasRows DEF IInv, next
  <2>4. request'.page = IF next = None \/ next < 1 THEN 1 ELSE next
    BY <1>1, Zenon DEF Normalize
  <2>5. request'.page = request.page + 1
    BY <1>1, <2>1, <2>3, <2>4, SMT
  <2>6. request'.per_page = IF \/ request.per_page = None
                               \/ request.per_page < 1 \/ request.per_page > MaxPerPage
                            THEN DefaultPerPage ELSE request.per_page
    BY <1>1, Zenon DEF Normalize
  <2>7. request'.per_page = request.per_page
    <3>1. request.per_page \in 1 .. MaxPerPage
      BY <1>3
    <3>2. request.per_page # None /\ ~(request.per_page < 1) /\ ~(request.per_page > MaxPerPage)
      BY <2>1, <3>1, SMT
    <3> QED  BY <2>6, <3>2
  <2>8. request'.page - 1 = request.page
    BY <2>1, <2>5, SMT
  <2>9. Behind' = request.page * request.per_page /\ Behind = request.page * request.per_page
    BY <1>1, <2>7, <2>8 DEF Behind
  <2>10. total \in 0 .. Cardinality(User) /\ Cardinality(User) \in Nat /\ Behind \in Nat
    BY Limits, PageNumbers DEF IInv, TypeOK
  <2>11. request.page * request.per_page < Cardinality(User)
    BY <2>3, <2>9, <2>10, SMT
  <2> QED  BY <2>7, <2>8, <2>9, <2>11
<1>8. \A u \in walk.steady : InPlace(u)'
  <2> TAKE u \in walk.steady
  <2>1. InPlace(u) /\ Behind' = Behind
    BY <1>6, <1>7 DEF WalkInv
  <2> QED  BY <1>2, <1>5, <1>6, <2>1 DEF InPlace
<1> QED
  BY <1>1, <1>2, <1>5, <1>6, <1>7, <1>8 DEF WalkInv

\* Without a link there is nobody left.
LEMMA FinishWalk ==
    ASSUME ConstantsAssumption, TableAssumption, IInv, WalkInv, Finish \/ Fail
    PROVE  WalkInv'
<1>1. walk' = walk /\ ~Walking' /\ pc' \in {"done", "failed"} /\ (pc' = "done" => Finish)
  BY DEF Finish, Fail, Walking
<1>2. ASSUME Finish
      PROVE  walk.steady \subseteq walk.once \cup walk.overtaken \cup walk.unseen
  <2>1. pc = "read" /\ Pagination.next_page = None /\ Walking /\ Seen = walk.once
    BY <1>2 DEF Finish, Walking, Seen
  <2>2. CASE walk.steady = {}
    BY <2>2
  <2>3. CASE walk.steady # {}
    <3>1. request.page < MaxInt
      BY <2>1, <2>3, NoWrap DEF IInv, WalkInv
    <3>2. ~(request.page * request.per_page < total)
      BY <2>1, <3>1, NextPageHasRows DEF IInv
    <3>3. request.page * request.per_page \in Nat /\ total \in Nat
      <4>1. total \in 0 .. Cardinality(User) /\ Cardinality(User) \in Nat
        BY Limits DEF IInv, TypeOK
      <4>2. Behind \in Nat /\ Behind = request.page * request.per_page
        BY <2>1, PageNumbers DEF IInv, Behind
      <4> QED  BY <4>1, <4>2, SMT
    <3>4. request.page * request.per_page >= total
      BY <3>2, <3>3, SMT
    <3> QED  BY <2>1, <3>4 DEF WalkInv
  <2> QED  BY <2>2, <2>3
<1> QED
  BY <1>1, <1>2 DEF WalkInv, Walking

\* All steps keep what a walk has seen and where it stands.
LEMMA WalkNext ==
    ASSUME ConstantsAssumption, TableAssumption, IInv, IInv', WalkInv, [Next]_vars
    PROVE  WalkInv'
<1>1. CASE UNCHANGED vars
  <2>1. UNCHANGED <<table, pc, request, total, rows, walk>>
    BY <1>1 DEF vars, answer
  <2>2. Settled' = Settled /\ \A u : Place(u)' = Place(u)
    BY <2>1, SameOrder
  <2>3. /\ Shown' = Shown /\ Seen' = Seen /\ Behind' = Behind /\ Walking' = Walking
        /\ \A u : InPlace(u)' = InPlace(u)
    BY <2>1, <2>2 DEF Shown, Seen, Behind, Walking, InPlace
  <2> QED  BY <2>1, <2>2, <2>3 DEF WalkInv
<1>2. CASE Next
  BY <1>2, BeginWalk, CountWalk, ReadPageWalk, AnswerWalk, FollowWalk, FinishWalk, DisturbedWalk
     DEF Next, Request, Insert, Rename, SetStatus
<1> QED  BY <1>1, <1>2

\* What a walk has seen and where it stands, in every state.
THEOREM WalkInvariant == Spec => []WalkInv
<1>1. Init => WalkInv
  BY DEF Init, WalkInv, Walking
<1>2. IInv /\ IInv' /\ WalkInv /\ [Next]_vars => WalkInv'
  BY WalkNext, ConstantsAssumption, TableAssumption
<1> QED  BY <1>1, <1>2, Invariant, PTL DEF Spec

------------------------------------------------------------------------------
(* Theorems *)

\* Whatever the query string or the link says, the repository is asked for a page from 1 on, of a
\* size within the limits, and reads no more rows than that.
THEOREM TypeCorrect == Spec => []TypeOK
<1>1. IInv => TypeOK
  BY DEF IInv
<1> QED  BY <1>1, Invariant, PTL

\* Links lead to pages with rows, and there is a next one exactly if rows remain.
THEOREM LinksLead == Spec => []LinksLeadToPages
<1>1. ASSUME TypeOK, request.page < MaxInt
      PROVE  /\ Pagination.next_page # None <=> request.page * request.per_page < total
             /\ \A page \in {Pagination.next_page, Pagination.previous_page} \ {None} :
                   page >= 1 /\ (page - 1) * request.per_page < total
  <2> DEFINE pages == TotalPages(total, request.per_page)
             next == Pagination.next_page
             previous == Pagination.previous_page
  <2>1. /\ request.page \in Nat \ {0} /\ request.per_page \in Nat \ {0} /\ total \in Nat
    <3>1. request.page \in Nat \ {0} /\ request.per_page \in Nat \ {0}
      BY <1>1, RequestBounds, ConstantsAssumption, TableAssumption DEF TypeOK
    <3>2. Cardinality(User) \in Nat /\ total \in 0 .. Cardinality(User)
      BY <1>1, Limits, ConstantsAssumption, TableAssumption DEF TypeOK
    <3> QED  BY <3>1, <3>2, SMT
  <2>2. /\ next # None => next = request.page + 1
        /\ next # None <=> request.page * request.per_page < total
    BY <1>1, NextPageHasRows, ConstantsAssumption, TableAssumption
  <2>3. ASSUME next # None PROVE next >= 1 /\ (next - 1) * request.per_page < total
    <3>1. next = request.page + 1 /\ request.page * request.per_page < total
      BY <2>2, <2>3
    <3> HIDE DEF next
    <3>2. next - 1 = request.page /\ next >= 1
      BY <2>1, <3>1, SMT
    <3> QED  BY <3>1, <3>2
  <2>4. ASSUME previous # None PROVE previous >= 1 /\ (previous - 1) * request.per_page < total
    <3>1. previous = request.page - 1 /\ previous >= 1 /\ previous <= pages
      BY <2>4 DEF Pagination, PreviousPage
    <3> DEFINE k == request.page - 2
    <3>2. k \in Nat /\ previous - 1 = k /\ k + 1 <= pages
      <4> HIDE DEF previous, pages
      <4> QED  BY <2>1, <3>1, SMT
    <3>3. k * request.per_page < total
      <4> HIDE DEF k
      <4> QED  BY <2>1, <3>2, PagesHaveRows
    <3> QED  BY <3>1, <3>2, <3>3
  <2> QED  BY <2>2, <2>3, <2>4
<1>2. IInv => LinksLeadToPages
  BY <1>1 DEF IInv, LinksLeadToPages
<1> QED  BY <1>2, Invariant, PTL

\* Who follows links never makes the offset overflow, however many rows there are.
THEOREM LinksFit == Spec => []LinksNeverOverflow
<1>1. IInv => LinksNeverOverflow
  <2> SUFFICES ASSUME IInv, Walking, walk.linked
               PROVE  Offset(request) = (request.page - 1) * request.per_page
    BY DEF LinksNeverOverflow
  <2> DEFINE n == (request.page - 1) * request.per_page
  <2>1. request.page \in 1 .. MaxInt /\ MaxInt \in Nat /\ n \in 0 .. MaxInt
    BY Limits, ConstantsAssumption, TableAssumption DEF IInv, TypeOK, ListRequest, LinkedPagesFit
  <2>2. request.page - 1 \in Int /\ request.page - 1 \in -MaxInt - 1 .. MaxInt
    BY <2>1, SMT
  <2>3. Wrap(request.page - 1) = request.page - 1
    BY <2>2, WrapFits, ConstantsAssumption
  <2>4. Wrap(n) = n
    <3> HIDE DEF n
    <3>1. n \in Int /\ n \in -MaxInt - 1 .. MaxInt
      BY <2>1, SMT
    <3> QED  BY <3>1, WrapFits, ConstantsAssumption
  <2> QED  BY <2>3, <2>4 DEF Offset
<1> QED  BY <1>1, Invariant, PTL

\* A walk shows nobody twice who was listed all along at a place of his own, unless a row came
\* ahead of him, whatever the order of equal rows on each page.
THEOREM NobodyTwice == Spec => []WalkShowsNobodyTwice
<1>1. WalkInv => WalkShowsNobodyTwice
  BY DEF WalkInv, WalkShowsNobodyTwice
<1> QED  BY <1>1, WalkInvariant, PTL

\* A walk to the last page misses nobody who was listed all along at a place of his own, unless
\* a row ahead of him went away, or one came ahead of him after the last count.
THEOREM NobodyMissed == Spec => []WalkMissesNobody
<1>1. WalkInv => WalkMissesNobody
  BY DEF WalkInv, WalkMissesNobody
<1> QED  BY <1>1, WalkInvariant, PTL

=============================================================================
