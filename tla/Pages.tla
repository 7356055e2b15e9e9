--------------------------------- MODULE Pages ---------------------------------
(***************************************************************************)
(* A list of articles read page by page, while articles come, go and are   *)
(* read.  Each page is a statement of its own, and a token, made from the  *)
(* last article of a page, says where the next one starts.                 *)
(*                                                                         *)
(* The database keeps published_at as text, "2024-05-01 07:30:00+00:00".   *)
(* A token holds it as RFC 3339, "2024-05-01T07:30:00Z", and the two are   *)
(* compared as texts.  They differ at the latest after the date, where the *)
(* stored one has a space, the lesser character: every article of the      *)
(* token's own day is less than the token, and the ids that should break   *)
(* ties never matter.                                                      *)
(***************************************************************************)
EXTENDS Naturals, FiniteSets

CONSTANTS
  Ids,          \* articles, numbered in the order of (published_at, id)
  Day,          \* the day each was published
  Requested,    \* page sizes clients ask for; 0 is none in particular
  DefaultPageSize,
  MaxPageSize,
  NoToken       \* the empty token: from the start

ASSUME IdsAssumption == Ids \subseteq Nat /\ IsFiniteSet(Ids)
ASSUME DayAssumption ==
  /\ Day \in [Ids -> Nat]
  /\ \A i, j \in Ids : i <= j => Day[i] <= Day[j]
ASSUME NoTokenAssumption == NoToken \notin Ids
ASSUME SizesAssumption ==
  /\ Requested \subseteq Nat
  /\ MaxPageSize \in Nat /\ DefaultPageSize \in 1..MaxPageSize

Views == {"all", "unread"}

VARIABLES
  \* table "articles"
  present,   \* rows that exist
  gone,      \* rows that were deleted
  unread,    \* is_read is false
  \* the client
  view, newest, size,  \* what it asks for: filter, order, rows in a page
  stage,     \* "closed", "reading", "end" (the last page is there)
  token,     \* the article it was made from
  got,       \* articles on the pages so far
  \* history: read by no action
  again,     \* articles that were on two of them
  wanted     \* articles that were in the view all the time since it was opened

table  == <<present, gone, unread>>
asked  == <<view, newest, size>>
scroll == <<asked, stage, token, got, again>>
vars   == <<table, scroll, wanted>>

\* Faulty variant: no upper bound.
NormalizeUnbounded(n) == IF n = 0 THEN DefaultPageSize ELSE n

\* NormalizePageSize.
Normalize(n) ==
  IF n = 0 THEN DefaultPageSize ELSE IF n > MaxPageSize THEN MaxPageSize ELSE n

TypeOK ==
  /\ present \subseteq Ids /\ gone \subseteq Ids
  /\ unread \subseteq present
  /\ view \in Views /\ newest \in BOOLEAN
  /\ size \in 1..MaxPageSize
  /\ stage \in {"closed", "reading", "end"}
  /\ token \in Ids \cup {NoToken}
  /\ got \subseteq Ids /\ again \subseteq got
  /\ wanted \subseteq present

Init ==
  /\ present = {} /\ gone = {} /\ unread = {}
  /\ view \in Views /\ newest \in BOOLEAN
  /\ size \in {Normalize(n) : n \in Requested}
  /\ stage = "closed" /\ token = NoToken /\ got = {} /\ again = {} /\ wanted = {}

-----------------------------------------------------------------------------
(* ArticleStore.List.                                                      *)

\* The filter of a view.
InView(v, i) == i \in present /\ (v = "unread" => i \in unread)

\* Faulty variant: one order for both.
PrecedesNewest(i, j) == i > j

\* ORDER BY.
Precedes(i, j) == IF newest THEN i > j ELSE i < j

\* Faulty variant: the token's day is not compared with itself.
BeyondDay(i) ==
  \/ token = NoToken
  \/ token # NoToken /\ IF newest THEN Day[i] < Day[token] ELSE Day[i] > Day[token]

\* Faulty variant: both orders go on where the token is.
BeyondEither(i) ==
  \/ token = NoToken
  \/ token # NoToken /\ IF newest THEN Day[i] <= Day[token] ELSE Day[i] >= Day[token]

\* WHERE (published_at, id) < token, or > token, as texts.
Beyond(i) ==
  \/ token = NoToken
  \/ token # NoToken /\ IF newest THEN Day[i] <= Day[token] ELSE Day[i] > Day[token]

\* LIMIT.
IsPage(page, rows) ==
  IF Cardinality(rows) <= size THEN page = rows
  ELSE /\ Cardinality(page) = size
       /\ \A i \in page, j \in rows \ page : Precedes(i, j)

Last(i, page) == i \in page /\ \A j \in page \ {i} : Precedes(j, i)

\* Faulty variant: there is a token unless the page is empty.
NextTokenUnlessEmpty(page, t) == IF page = {} THEN t = NoToken ELSE Last(t, page)

\* Faulty variant: the token is made from the first article of the page.
NextTokenOfFirst(page, t) ==
  IF Cardinality(page) = size THEN t \in page /\ \A j \in page \ {t} : Precedes(t, j)
  ELSE t = NoToken

\* A full page has a token.
NextToken(page, t) ==
  IF Cardinality(page) = size THEN Last(t, page) ELSE t = NoToken

\* ListArticles: a page, and the token of the next one.
FetchPage ==
  /\ stage = "reading"
  /\ LET rows == {i \in Ids : InView(view, i) /\ Beyond(i)} IN
     \E page \in SUBSET rows, t \in Ids \cup {NoToken} :
       /\ IsPage(page, rows)
       /\ NextToken(page, t)
       /\ token' = t
       /\ stage' = IF t = NoToken THEN "end" ELSE "reading"
       /\ got' = got \cup page
       /\ again' = again \cup (got \cap page)
  /\ UNCHANGED <<table, asked, wanted>>

\* The client starts to read a list.
Open(v, new, n) ==
  /\ stage # "reading"
  /\ view' = v /\ newest' = new /\ size' = Normalize(n)
  /\ stage' = "reading" /\ token' = NoToken /\ got' = {} /\ again' = {}
  /\ wanted' = {i \in Ids : InView(v, i)}
  /\ UNCHANGED table

-----------------------------------------------------------------------------
(* What others do meanwhile.                                               *)

\* What leaves the view is not missed.
StillWanted == wanted' = {i \in wanted : InView(view, i)'}

\* A refresh brings an article, of whatever date.
Insert(i) ==
  /\ i \notin present \cup gone
  /\ present' = present \cup {i} /\ unread' = unread \cup {i}
  /\ UNCHANGED <<gone, scroll, wanted>>

\* Retention, or the feed is given up.
Delete(i) ==
  /\ i \in present
  /\ present' = present \ {i} /\ gone' = gone \cup {i} /\ unread' = unread \ {i}
  /\ UNCHANGED scroll
  /\ StillWanted

\* MarkRead of one article, MarkAllRead of some.
MarkRead(scope) ==
  /\ unread' = unread \ scope
  /\ UNCHANGED <<present, gone, scroll>>
  /\ StillWanted

\* MarkRead(i, false).
MarkUnread(i) ==
  /\ i \in present
  /\ unread' = unread \cup {i}
  /\ UNCHANGED <<present, gone, scroll>>
  /\ StillWanted

Next ==
  \/ FetchPage
  \/ \E v \in Views, new \in BOOLEAN, n \in Requested : Open(v, new, n)
  \/ \E i \in Ids : Insert(i) \/ Delete(i) \/ MarkUnread(i)
  \/ \E scope \in SUBSET unread : MarkRead(scope)

Spec == Init /\ [][Next]_vars
=============================================================================
