--------------------------- MODULE ServiceListing ---------------------------
(***************************************************************************)
(* A client reads the services page by page.  For every page the manager   *)
(* asks Docker for all services, in whatever order Docker lists them,      *)
(* keeps those that match, sorts them and cuts the page out.               *)
(*                                                                         *)
(* A text is [rank |-> n, form |-> f]: texts of the same rank differ only  *)
(* in case or accents, which the order ignores and equality does not; the  *)
(* empty text has rank 0.  A date is a text whose rank is its time.        *)
(***************************************************************************)
EXTENDS Integers, FiniteSets, Sequences, SequencesExt

CONSTANTS
    Services,      \* the services in Docker, as the manager maps them
    Queries,       \* what a client may ask for
    NoValue,       \* null: a service without it, a filter without a value
    NotADate,      \* the form of a text that is no date
    Substrings     \* pairs of ranks: the first holds the second, case aside

\* Whoever asks for a page of less than one service is given pages of one.
ASSUME ListingAssumption ==
    /\ IsFiniteSet(Services)
    /\ \A s \in Services :
          \A field \in {"id", "name", "stack", "nameWithTag", "createdAt", "updatedAt"} :
             s[field] # NoValue => s[field].rank \in Int
    /\ \A q \in Queries :
          /\ DOMAIN q = {"stack", "filters", "search", "orderBy", "order", "limit"}
          /\ q.limit \in Nat \ {0}

VARIABLES
    query,         \* what the client pages through
    pages,         \* the pages read so far
    refused        \* the request failed before Docker was asked

listVars == <<query, pages, refused>>

Empty == [rank |-> 0, form |-> "lower"]
OrEmpty(text) == IF text = NoValue THEN Empty ELSE text
Includes(text, needle) ==
    needle.rank = 0 \/ <<OrEmpty(text).rank, needle.rank>> \in Substrings

-----------------------------------------------------------------------------
(* Filters.  A value is [array |-> b, of |-> texts]: null and a scalar are *)
(* the arrays of no and of one text that are not arrays.                   *)

Fields == {"id", "name", "stack", "image", "ports", "createdAt", "updatedAt"}
Operators == {"eq", "like", "empty", "ne", "gt", "lt", "gte", "lte", "in", "nin"}

parseServiceFilters(filters) ==
    \A filter \in Range(filters) : filter.field \in Fields /\ filter.operator \in Operators

isEmptyFilterValue(value) ==
    value.of = <<>> \/ (~value.array /\ value.of[1] = Empty)

serviceFilterValue(service, field) ==
    IF field = "image" THEN service.nameWithTag ELSE service[field]

equalFilterValue(actual, expected) == OrEmpty(actual) = expected

\* Dates are compared as times and everything else as text; what is no date
\* compares with nothing.
Comparable(actual, expected, field) ==
    field \in {"createdAt", "updatedAt"} =>
        actual # NoValue /\ NotADate \notin {actual.form, expected.form}
compareFilterValue(actual, expected) == OrEmpty(actual).rank - expected.rank

\* A filter without a value lets everything pass, except "empty", which needs
\* none.
matchesServiceFilter(service, filter) ==
    LET actual == serviceFilterValue(service, filter.field)
        values == filter.value.of
        first == values[1]
        Compares(Holds(_)) == /\ Comparable(actual, first, filter.field)
                              /\ Holds(compareFilterValue(actual, first))
    IN  CASE filter.operator = "empty" -> actual \in {NoValue, Empty}
          [] OTHER ->
             isEmptyFilterValue(filter.value) \/
             CASE filter.operator = "in" ->
                    \E v \in Range(values) : equalFilterValue(actual, v)
               [] filter.operator = "nin" ->
                    \A v \in Range(values) : ~equalFilterValue(actual, v)
               [] filter.operator = "eq" -> equalFilterValue(actual, first)
               [] filter.operator = "ne" -> ~equalFilterValue(actual, first)
               [] filter.operator = "like" ->
                    \/ Includes(actual, first)
                    \/ filter.field = "image" /\ Includes(service.fullname, first)
               [] filter.operator = "gt" -> Compares(LAMBDA c : c > 0)
               [] filter.operator = "gte" -> Compares(LAMBDA c : c >= 0)
               [] filter.operator = "lt" -> Compares(LAMBDA c : c < 0)
               [] filter.operator = "lte" -> Compares(LAMBDA c : c <= 0)

matchesServiceFilters(service, filters) ==
    \A filter \in Range(filters) : matchesServiceFilter(service, filter)

\* The stacks Docker itself is asked to select.  An array is written as one
\* text, which names a stack only if it has one member.
NoStack == [rank |-> 0, form |-> "no stack"]
\* Defect: any filter on the stack selects it.
buildDockerListFiltersAny(q) ==
    (IF q.stack = NoValue THEN {} ELSE {q.stack}) \cup
    {IF Len(filter.value.of) = 1 THEN filter.value.of[1] ELSE NoStack :
        filter \in {f \in Range(q.filters) :
                       f.field = "stack" /\ ~isEmptyFilterValue(f.value)}}
buildDockerListFilters(q) ==
    (IF q.stack = NoValue THEN {} ELSE {q.stack}) \cup
    {IF Len(filter.value.of) = 1 THEN filter.value.of[1] ELSE NoStack :
        filter \in {f \in Range(q.filters) :
                       /\ f.field = "stack" /\ f.operator = "eq"
                       /\ f.value.array \/ ~isEmptyFilterValue(f.value)}}

-----------------------------------------------------------------------------
(* Pages.                                                                  *)

serviceOrderValue(service, orderBy) ==
    CASE orderBy \in {"id", "name", "stack", "createdAt", "updatedAt"} -> service[orderBy]
      [] orderBy = "image.nameWithTag" -> service.nameWithTag
      [] OTHER -> NoValue

\* Services without the value come last, in either order.
Before(left, right, q) ==
    LET l == serviceOrderValue(left, q.orderBy)
        r == serviceOrderValue(right, q.orderBy)
    IN  /\ l # NoValue
        /\ r # NoValue => IF q.order = "desc" THEN l.rank > r.rank ELSE l.rank < r.rank

Searched(service, search) == Includes(service.name, search)

\* The places of a listing whose services match, and their order: the sort is
\* stable, so those that order alike stay as Docker listed them.
Selected(listing, q) ==
    {i \in DOMAIN listing : /\ matchesServiceFilters(listing[i], q.filters)
                           /\ Searched(listing[i], q.search)}
Precedes(listing, q, j, i) ==
    \/ Before(listing[j], listing[i], q)
    \/ j <= i /\ ~Before(listing[i], listing[j], q)
Place(listing, q, i) ==
    Cardinality({j \in Selected(listing, q) : Precedes(listing, q, j, i)})
SortStable(listing, q) ==
    [p \in 1 .. Cardinality(Selected(listing, q)) |->
        listing[CHOOSE i \in Selected(listing, q) : Place(listing, q, i) = p]]

paginateServices(listing, q, page) ==
    LET sorted == SortStable(listing, q)
        start == (page - 1) * q.limit
    IN  [total |-> Len(sorted),
         items |-> SubSeq(sorted, start + 1,
                          IF start + q.limit < Len(sorted) THEN start + q.limit
                                                           ELSE Len(sorted))]

\* The filters a page sends: those that name a field.
paginateServiceList(filters) == SelectSeq(filters, LAMBDA f : f.field # "")

ListInit == /\ query \in Queries
            /\ pages = <<>>
            /\ refused = FALSE

Request == [query EXCEPT !.filters = paginateServiceList(query.filters)]

\* Docker lists the services of the stacks it was asked for, in any order.
Listings(q) == SetToSeqs({s \in Services :
                  \A stack \in buildDockerListFilters(q) : s.stack = stack})

ReadPage ==
    /\ ~refused
    /\ pages # <<>> => Len(pages) * query.limit < Last(pages).total
    /\ parseServiceFilters(Request.filters)
    /\ \E listing \in Listings(Request) :
          pages' = Append(pages, paginateServices(listing, Request, Len(pages) + 1))
    /\ UNCHANGED <<query, refused>>

Refuse == /\ ~refused
          /\ ~parseServiceFilters(Request.filters)
          /\ refused' = TRUE
          /\ UNCHANGED <<query, pages>>

ListNext == ReadPage \/ Refuse

-----------------------------------------------------------------------------
ListTypeOK == /\ query \in Queries
              /\ refused \in BOOLEAN
              /\ \A p \in Range(pages) : Range(p.items) \subseteq Services

Matching == {s \in Services :
                /\ query.stack \in {NoValue, s.stack}
                /\ Searched(s, query.search)
                /\ matchesServiceFilters(s, Request.filters)}

\* Docker selects by the stacks as the filters do.  A list of several stacks, of
\* none or of the empty text is the exception: the filters take the first of it,
\* nothing, or a service without a stack, and Docker finds no service at all.
SelectsAlike ==
    \A f \in Range(Request.filters) :
        f.field = "stack" /\ f.operator = "eq" =>
            \/ Len(f.value.of) = 1 /\ (f.value.array => f.value.of[1] # Empty)
            \/ f.value.of = <<>> /\ ~f.value.array

Distinct == \A s, t \in Matching :
    s # t => Before(s, t, query) \/ Before(t, s, query)

(* The pages together are the list: of the services that match, each page   *)
(* has its share, no more and no less, each once and none before one that   *)
(* it is ordered after; and when none order alike this holds from one page  *)
(* to the next as well, so that no service is met twice and none is left    *)
(* out, although Docker selects by stack on its own and may list in another *)
(* order for every page.  Services that order alike are the exception:      *)
(* nothing fixes their order between two pages.                             *)
PagesAreTheList ==
    SelectsAlike =>
    \A p \in DOMAIN pages :
        LET total == Cardinality(Matching)
            left == total - (p - 1) * query.limit
        IN  /\ pages[p].total = total
            /\ left > 0 \/ p = 1
            /\ Len(pages[p].items) = IF left > query.limit THEN query.limit ELSE left
            /\ Range(pages[p].items) \subseteq Matching
            /\ \A i, j \in DOMAIN pages[p].items :
                  i < j => /\ pages[p].items[i] # pages[p].items[j]
                           /\ ~Before(pages[p].items[j], pages[p].items[i], query)
            /\ Distinct =>
                  \A o \in DOMAIN pages :
                  \A i \in DOMAIN pages[o].items, j \in DOMAIN pages[p].items :
                     o < p \/ (o = p /\ i < j) =>
                        Before(pages[o].items[i], pages[p].items[j], query)
=============================================================================
