------------------------------ MODULE ArticleList ------------------------------
(***************************************************************************)
(* The list of articles on the screen, against the server they were read   *)
(* from.  The client is one thread of callbacks; between a request and its *)
(* answer others run.  A request reaches the server once or not at all,    *)
(* and its answer may be lost.                                             *)
(***************************************************************************)
EXTENDS Naturals, Sequences, FiniteSets

CONSTANTS
  Ids,        \* articles of the feed or folder on the screen, newest last
  PageSize,
  MaxRows,    \* bound: rows after which nobody scrolls any further
  NoVal

ASSUME NumbersAssumption ==
  Ids \subseteq Nat /\ IsFiniteSet(Ids) /\ PageSize \in Nat \ {0} /\ MaxRows \in Nat
ASSUME NoValAssumption == NoVal \notin Nat

VARIABLES
  \* the server
  present,     \* articles there are
  unread,
  \* ArticleListNotifier
  rows,        \* state.articles: id, and isRead of the copy
  isLoading, hasMore, token,
  unreadOnly,  \* _params
  load,        \* the listArticles under way
  mark,        \* the mark-as-read or -unread under way for an article
  mine,        \* marks asked for by this notifier, not one it replaced
  markAll,     \* the mark-all-as-read under way, of the toolbar or the sidebar
  \* history: read by no action
  owed,        \* articles of the answers shown that have not been marked read since
  behind,      \* articles read since those answers were computed
  lag,         \* the same, for the answer that is on its way
  missed       \* since the last reload began, one was dropped or failed

server  == <<present, unread>>
list    == <<rows, isLoading, hasMore, token, unreadOnly, load>>
marks   == <<mark, mine>>
history == <<owed, behind, lag, missed>>
vars    == <<server, list, marks, markAll, history>>

Row == [id : Ids, read : BOOLEAN]
NoLoad ==
  [stage |-> "none", refresh |-> TRUE, view |-> TRUE, token |-> NoVal, page |-> <<>>]
Sent(refresh, view, tok) ==
  [stage |-> "sent", refresh |-> refresh, view |-> view, token |-> tok, page |-> <<>>]

Loads == [stage : {"none", "sent", "answered"}, refresh : BOOLEAN, view : BOOLEAN,
          token : Ids \cup {NoVal}, page : Seq(Row)]

TypeOK ==
  /\ present \subseteq Ids /\ unread \subseteq Ids
  /\ rows \in Seq(Row) /\ isLoading \in BOOLEAN /\ hasMore \in BOOLEAN
  /\ token \in Ids \cup {NoVal} /\ (token # NoVal => hasMore) /\ unreadOnly \in BOOLEAN
  /\ load \in Loads
  /\ mark \in [Ids -> {"none", "reading", "read", "unreading", "unread"}]
  /\ mine \subseteq Ids
  /\ markAll \in {"none", "list", "listServed", "sidebar", "sidebarServed"}
  /\ owed \subseteq Ids /\ behind \subseteq Ids /\ lag \subseteq Ids /\ missed \in BOOLEAN

\* The notifiers have just been made and have asked for what they show.
Init ==
  /\ present \in SUBSET Ids /\ unread \in SUBSET present
  /\ rows = <<>> /\ isLoading = TRUE /\ hasMore = TRUE /\ token = NoVal
  /\ unreadOnly \in BOOLEAN
  /\ load = Sent(TRUE, unreadOnly, NoVal)
  /\ mark = [i \in Ids |-> "none"] /\ mine = {}
  /\ markAll = "none"
  /\ owed = {} /\ behind = {} /\ lag = {} /\ missed = FALSE

-----------------------------------------------------------------------------
(* The server.                                                             *)

\* A refresh of a feed inserts an article.
Arrive(i) ==
  /\ i \notin present
  /\ present' = present \cup {i} /\ unread' = unread \cup {i}
  /\ UNCHANGED <<list, marks, markAll, history>>

\* Articles S become read.
BecomeRead(S) ==
  /\ unread' = unread \ S
  /\ owed' = owed \ S
  /\ behind' = behind \cup (S \cap unread)
  /\ lag' = IF load.stage = "answered" THEN lag \cup (S \cap unread) ELSE lag

\* The page that ListArticles returns: newest first; Pages has the comparison
\* with the token, of which this is the case of articles of different days.
IsPage(page, view, tok) ==
  LET wanted == {i \in present : (view => i \in unread) /\ (tok # NoVal => i <= tok)}
      n == IF Cardinality(wanted) < PageSize THEN Cardinality(wanted) ELSE PageSize
  IN /\ page \in [1 .. n -> Row]
     /\ \A k \in 1 .. n : page[k].id \in wanted /\ (page[k].read <=> page[k].id \notin unread)
     /\ \A j, k \in 1 .. n : j < k => page[j].id > page[k].id
     /\ \A i \in wanted : (\E k \in 1 .. n : page[k].id = i) \/ i < page[n].id

\* A full page has a token.
NextToken(page) == IF Len(page) = PageSize THEN page[PageSize].id ELSE NoVal

\* Faulty variant: a full page is taken for the last one.
HasMoreStrict(page) == Len(page) > PageSize

HasMore(page) == NextToken(page) # NoVal

-----------------------------------------------------------------------------
(* Loading.                                                                *)

IdsOf(page) == {page[k].id : k \in DOMAIN page}
Shown == IdsOf(rows)
First(i) == CHOOSE k \in DOMAIN rows : rows[k].id = i /\ \A j \in 1 .. k - 1 : rows[j].id # i

\* _load, up to its request: state.copyWith(isLoading: true), which drops the
\* token, and then state.nextPageToken.  Nothing happens if a load is under way.
StartLoad(refresh, view) ==
  IF isLoading
    THEN /\ missed' = (missed \/ refresh)
         /\ UNCHANGED <<isLoading, token, load>>
    ELSE /\ missed' = (missed /\ ~refresh)
         /\ isLoading' = TRUE /\ token' = NoVal
         /\ load' = Sent(refresh, view, IF refresh THEN NoVal ELSE token')

Refresh ==
  /\ StartLoad(TRUE, unreadOnly)
  /\ UNCHANGED <<server, rows, hasMore, unreadOnly, marks, markAll, owed, behind, lag>>

\* Faulty variant: the filter changes and the rows stay.
ToggleQuietly ==
  /\ unreadOnly' = ~unreadOnly
  /\ UNCHANGED <<server, rows, isLoading, hasMore, token, load, marks, markAll, history>>

ToggleUnreadFilter ==
  /\ unreadOnly' = ~unreadOnly
  /\ StartLoad(TRUE, ~unreadOnly)
  /\ UNCHANGED <<server, rows, hasMore, marks, markAll, owed, behind, lag>>

\* _loadingMore holds as long as the load does, so isLoading says it all.
LoadMore ==
  /\ hasMore /\ ~isLoading
  /\ Len(rows) + PageSize <= MaxRows
  /\ StartLoad(FALSE, unreadOnly)
  /\ UNCHANGED <<server, rows, hasMore, unreadOnly, marks, markAll, owed, behind, lag>>

ServeLoad ==
  /\ load.stage = "sent"
  /\ \E page \in UNION {[1 .. n -> Row] : n \in 0 .. PageSize} :
       /\ IsPage(page, load.view, load.token)
       /\ load' = [load EXCEPT !.stage = "answered", !.page = page]
  /\ lag' = {}
  /\ UNCHANGED <<server, rows, isLoading, hasMore, token, unreadOnly, marks, markAll,
                 owed, behind, missed>>

LoadEnds == isLoading' = FALSE /\ load' = NoLoad /\ lag' = {}

ApplyLoad ==
  /\ load.stage = "answered"
  /\ rows' = IF load.refresh THEN load.page ELSE rows \o load.page
  /\ token' = NextToken(load.page)
  /\ hasMore' = HasMore(load.page)
  /\ owed' = IF load.refresh THEN IdsOf(load.page) \ lag ELSE owed \cup (IdsOf(load.page) \ lag)
  /\ behind' = IF load.refresh THEN lag ELSE behind \cup lag
  /\ LoadEnds
  /\ UNCHANGED <<server, unreadOnly, marks, markAll, missed>>

\* Faulty variant: the error is shown, and the list goes on loading.
LoadFailsLoading ==
  /\ load.stage \in {"sent", "answered"}
  /\ load' = NoLoad /\ lag' = {} /\ token' = NoVal
  /\ missed' = (missed \/ load.refresh)
  /\ UNCHANGED <<server, rows, isLoading, hasMore, unreadOnly, marks, markAll, owed, behind>>

LoadFails ==
  /\ load.stage \in {"sent", "answered"}
  /\ token' = NoVal
  /\ missed' = (missed \/ load.refresh)
  /\ LoadEnds
  /\ UNCHANGED <<server, rows, hasMore, unreadOnly, marks, markAll, owed, behind>>

-----------------------------------------------------------------------------
(* Marking.  Bound: one mark at a time for an article.                     *)

\* state.articles.where((a) => a.id != id).
RemoveArticle(i) ==
  LET kept == {k \in DOMAIN rows : rows[k].id # i}
      n == Cardinality(kept)
  IN \E place \in [1 .. n -> kept] :
       /\ \A k \in kept : \E j \in 1 .. n : place[j] = k
       /\ \A j, k \in 1 .. n : j < k => place[j] < place[k]
       /\ rows' = [k \in 1 .. n |-> rows[place[k]]]

MarkAsRead(i) ==
  /\ mark[i] = "none" /\ i \in Shown
  /\ mark' = [mark EXCEPT ![i] = "reading"]
  /\ mine' = mine \cup {i}
  /\ IF unreadOnly
       THEN RemoveArticle(i) /\ token' = NoVal
       ELSE UNCHANGED <<rows, token>>
  /\ UNCHANGED <<server, isLoading, hasMore, unreadOnly, load, markAll, history>>

\* Only the detail of an article that is read offers it.
MarkAsUnread(i) ==
  /\ mark[i] = "none" /\ i \in Shown /\ rows[First(i)].read
  /\ mark' = [mark EXCEPT ![i] = "unreading"]
  /\ mine' = mine \cup {i}
  /\ UNCHANGED <<server, list, markAll, history>>

ServeMark(i) ==
  /\ \/ /\ mark[i] = "reading"
        /\ mark' = [mark EXCEPT ![i] = "read"]
        /\ BecomeRead({i})
     \/ /\ mark[i] = "unreading"
        /\ mark' = [mark EXCEPT ![i] = "unread"]
        /\ unread' = unread \cup {i}
        /\ UNCHANGED <<owed, behind, lag>>
  /\ UNCHANGED <<present, list, mine, markAll, missed>>

MarkEnds(i) ==
  /\ mark' = [mark EXCEPT ![i] = "none"]
  /\ mine' = mine \ {i}

UpdateArticle(i, read) ==
  /\ rows' = [k \in DOMAIN rows |-> IF rows[k].id = i THEN [id |-> i, read |-> read] ELSE rows[k]]
  /\ token' = NoVal

\* The filter may have changed since the mark was asked for.
MarkedAsRead(i) ==
  /\ mark[i] = "read" /\ MarkEnds(i)
  /\ IF i \in mine /\ ~unreadOnly
       THEN UpdateArticle(i, TRUE)
       ELSE UNCHANGED <<rows, token>>
  /\ UNCHANGED <<server, isLoading, hasMore, unreadOnly, load, markAll, history>>

\* Faulty variant: the optimistic removal is not taken back.
MarkFailsQuietly(i) ==
  /\ mark[i] \in {"reading", "read"} /\ MarkEnds(i)
  /\ UNCHANGED <<server, list, markAll, history>>

MarkAsReadFails(i) ==
  /\ mark[i] \in {"reading", "read"} /\ MarkEnds(i)
  /\ IF i \in mine THEN StartLoad(TRUE, unreadOnly) ELSE UNCHANGED <<isLoading, token, load, missed>>
  /\ UNCHANGED <<server, rows, hasMore, unreadOnly, markAll, owed, behind, lag>>

MarkedAsUnread(i) ==
  /\ mark[i] = "unread" /\ MarkEnds(i)
  /\ IF i \in mine THEN UpdateArticle(i, FALSE) ELSE UNCHANGED <<rows, token>>
  /\ UNCHANGED <<server, isLoading, hasMore, unreadOnly, load, markAll, history>>

MarkAsUnreadFails(i) ==
  /\ mark[i] \in {"unreading", "unread"} /\ MarkEnds(i)
  /\ UNCHANGED <<server, list, markAll, history>>

-----------------------------------------------------------------------------
(* Marking all.  Bound: one at a time.                                     *)

\* The toolbar's button, or an entry of the sidebar's menus.
MarkAllAsRead ==
  /\ markAll = "none"
  /\ markAll' \in {"list", "sidebar"}
  /\ UNCHANGED <<server, list, marks, history>>

ServeMarkAll ==
  /\ \/ markAll = "list" /\ markAll' = "listServed"
     \/ markAll = "sidebar" /\ markAll' = "sidebarServed"
  /\ BecomeRead(present)
  /\ UNCHANGED <<present, list, marks, missed>>

MarkAllFails ==
  /\ markAll \in {"list", "listServed", "sidebar", "sidebarServed"}
  /\ markAll' = "none"
  /\ UNCHANGED <<server, list, marks, history>>

\* The counts, which are loaded next, are Sidebar's.
ReloadAfterMarkAll ==
  /\ markAll = "listServed"
  /\ markAll' = "none"
  /\ StartLoad(TRUE, unreadOnly)
  /\ UNCHANGED <<server, rows, hasMore, unreadOnly, marks, owed, behind, lag>>

\* The signal: a new notifier, with the filter of its key, which starts unread.
\* What the old one waits for is not applied.
Recreate ==
  /\ markAll = "sidebarServed"
  /\ markAll' = "none"
  /\ rows' = <<>> /\ isLoading' = TRUE /\ hasMore' = TRUE /\ token' = NoVal
  /\ unreadOnly' = TRUE
  /\ load' = Sent(TRUE, TRUE, NoVal)
  /\ mine' = {} /\ owed' = {} /\ behind' = {} /\ lag' = {} /\ missed' = FALSE
  /\ UNCHANGED <<server, mark>>

-----------------------------------------------------------------------------

User ==
  \/ Refresh \/ ToggleUnreadFilter \/ LoadMore \/ MarkAllAsRead
  \/ \E i \in Ids : MarkAsRead(i) \/ MarkAsUnread(i)

Loading == ServeLoad \/ ApplyLoad \/ LoadFails
Marking(i) ==
  ServeMark(i) \/ MarkedAsRead(i) \/ MarkAsReadFails(i) \/ MarkedAsUnread(i) \/ MarkAsUnreadFails(i)
MarkingAll == ServeMarkAll \/ MarkAllFails \/ ReloadAfterMarkAll \/ Recreate

Next ==
  \/ User \/ Loading \/ MarkingAll
  \/ \E i \in Ids : Arrive(i) \/ Marking(i)

Spec == Init /\ [][Next]_vars
=============================================================================
