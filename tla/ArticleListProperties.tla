------------------------- MODULE ArticleListProperties -------------------------
(***************************************************************************)
(* What the list and the count owe their reader, whatever requests are     *)
(* under way, dropped or lost.                                             *)
(***************************************************************************)
EXTENDS ArticleList

\* The list says that it loads exactly while a load is under way: a list that
\* said so for ever would drop every later load (_load: "if (state.isLoading)").
LoadingIsReal == isLoading <=> load.stage # "none"

\* The optimistic removal of markAsRead is taken back if the mark is lost: an
\* article that the list was given and the server still holds unread is on the
\* screen, unless its mark is under way or a reload was dropped or failed.
UnreadNotHidden ==
  ~isLoading /\ ~missed =>
    \A i \in owed \cap unread : i \in Shown \/ mark[i] # "none"

\* With the unread filter on, an article that is read is on the screen only if
\* it became read after the answer shown was computed, or if a reload was
\* dropped (isLoading) or failed.
ReadRowsExplained ==
  unreadOnly /\ ~isLoading /\ ~missed => Shown \subseteq unread \cup behind

-----------------------------------------------------------------------------

\* docs/architecture.md:190: pagination by token "avoids duplicates when new
\* articles are inserted between pages".  The list scrolls without a token.
NoArticleTwice ==
  \A j, k \in DOMAIN rows : rows[j].id = rows[k].id => j = k
=============================================================================
