-------------------------------- MODULE Sidebar --------------------------------
(***************************************************************************)
(* The unread count of a feed in the sidebar: FeedNotifier, which loads    *)
(* it, polls it, and lowers it when the list says that an article was      *)
(* marked as read.  Of the list (module ArticleList) only its filter and   *)
(* its marks are here: any article may be on it, in a copy old or new.     *)
(***************************************************************************)
EXTENDS Naturals, FiniteSets

CONSTANTS
  Ids,     \* articles of the feed
  NoVal

ASSUME IdsAssumption == IsFiniteSet(Ids) /\ NoVal \notin Nat

VARIABLES
  present, unread,   \* the server's articles
  unreadOnly,        \* the filter of the list
  mark,              \* the mark-as-read under way for an article
  mine,              \* marks the notifier of the list on the screen asked for
  wasUnread,         \* marks whose copy of the article was unread
  markAll,           \* a mark-all-as-read that will reload the feeds
  badge,             \* the count shown, NoVal if there is none
  asked,             \* requests of FeedNotifier that the server has not answered
  answer             \* answers not yet applied

server == <<present, unread>>
list   == <<unreadOnly, mark, mine, wasUnread, markAll>>
counts == <<badge, asked, answer>>
vars   == <<server, list, counts>>

\* _silentReload, loadFeeds and updateFeed.
Requests == {"poll", "reload", "update"}

TypeOK ==
  /\ present \subseteq Ids /\ unread \subseteq present
  /\ unreadOnly \in BOOLEAN
  /\ mark \in [Ids -> {"none", "sent", "served"}]
  /\ mine \subseteq {i \in Ids : mark[i] # "none"}
  /\ wasUnread \subseteq {i \in Ids : mark[i] # "none"}
  /\ markAll \in {"none", "sent", "served"}
  /\ badge \in 0 .. Cardinality(Ids) \cup {NoVal}
  /\ asked \subseteq Requests
  /\ answer \in [Requests -> 0 .. Cardinality(Ids) \cup {NoVal}]
  /\ \A r \in asked : answer[r] = NoVal

Init ==
  /\ present \in SUBSET Ids /\ unread \in SUBSET present
  /\ unreadOnly \in BOOLEAN
  /\ mark = [i \in Ids |-> "none"] /\ mine = {} /\ wasUnread = {}
  /\ markAll = "none"
  /\ badge = NoVal /\ asked = {"reload"}
  /\ answer = [r \in Requests |-> NoVal]

-----------------------------------------------------------------------------
(* Loading the count.                                                      *)

Idle(r) == r \notin asked /\ answer[r] = NoVal

\* Bound: one request of a kind at a time.
Ask(r) ==
  /\ Idle(r)
  /\ asked' = asked \cup {r}
  /\ UNCHANGED <<server, answer>>

\* The timer of 60 seconds.
Poll == Ask("poll") /\ UNCHANGED <<list, badge>>

\* The state is "loading", and no count is shown.
Reload == Ask("reload") /\ badge' = NoVal
LoadFeeds == Reload /\ UNCHANGED list

\* A feed is edited, or made a favourite.
UpdateFeed == Ask("update") /\ UNCHANGED <<list, badge>>

Answers(r, n) ==
  /\ r \in asked
  /\ asked' = asked \ {r}
  /\ answer' = [answer EXCEPT ![r] = n]
  /\ UNCHANGED <<server, list, badge>>

\* ListFeeds and UpdateFeed of the server count after they have read the row.
Serve(r) == Answers(r, Cardinality(unread))

\* The error of GetUnreadCountsByFeed is ignored: there are no counts.
ServeUncounted(r) == Answers(r, 0)

\* Faulty variant: a poll replaces data only.
ApplyToData(r) ==
  /\ answer[r] # NoVal
  /\ badge' = IF r \in {"poll", "update"} /\ badge = NoVal THEN badge ELSE answer[r]
  /\ answer' = [answer EXCEPT ![r] = NoVal]
  /\ UNCHANGED <<server, list, asked>>

\* The feed updated is looked for among those shown.
Apply(r) ==
  /\ answer[r] # NoVal
  /\ badge' = IF r = "update" /\ badge = NoVal THEN badge ELSE answer[r]
  /\ answer' = [answer EXCEPT ![r] = NoVal]
  /\ UNCHANGED <<server, list, asked>>

\* Only loadFeeds shows an error.
Fails(r) ==
  /\ ~Idle(r)
  /\ asked' = asked \ {r} /\ answer' = [answer EXCEPT ![r] = NoVal]
  /\ badge' = IF r = "reload" THEN NoVal ELSE badge
  /\ UNCHANGED <<server, list>>

-----------------------------------------------------------------------------
(* What the list does.                                                     *)

\* Faulty variant: nothing keeps the count from falling below zero.
DecrementOnly == badge' = IF badge = NoVal THEN badge ELSE badge - 1

DecrementUnread ==
  badge' = IF badge = NoVal \/ badge = 0 THEN badge ELSE badge - 1

ToggleUnreadFilter ==
  /\ unreadOnly' = ~unreadOnly
  /\ UNCHANGED <<server, mark, mine, wasUnread, markAll, counts>>

\* With the filter on the count falls at once.
MarkAsRead(i) ==
  /\ i \in present /\ mark[i] = "none"
  /\ mark' = [mark EXCEPT ![i] = "sent"]
  /\ mine' = mine \cup {i}
  /\ \/ wasUnread' = wasUnread \cup {i}
     \/ UNCHANGED wasUnread
  /\ IF unreadOnly THEN DecrementUnread ELSE UNCHANGED badge
  /\ UNCHANGED <<server, unreadOnly, markAll, asked, answer>>

ServeMark(i) ==
  /\ mark[i] = "sent"
  /\ mark' = [mark EXCEPT ![i] = "served"]
  /\ unread' = unread \ {i}
  /\ UNCHANGED <<present, unreadOnly, mine, wasUnread, markAll, counts>>

MarkEnds(i) ==
  /\ mark' = [mark EXCEPT ![i] = "none"]
  /\ mine' = mine \ {i} /\ wasUnread' = wasUnread \ {i}
  /\ UNCHANGED <<server, unreadOnly, markAll, asked, answer>>

\* With the filter off, by now, it falls when the server has agreed.
MarkedAsRead(i) ==
  /\ mark[i] = "served"
  /\ IF i \in mine \cap wasUnread /\ ~unreadOnly THEN DecrementUnread ELSE UNCHANGED badge
  /\ MarkEnds(i)

\* The list is loaded again; the count stays as low as it is.
MarkAsReadFails(i) ==
  /\ mark[i] # "none"
  /\ MarkEnds(i)
  /\ UNCHANGED badge

MarkAllAsRead ==
  /\ markAll = "none" /\ markAll' = "sent"
  /\ UNCHANGED <<server, unreadOnly, mark, mine, wasUnread, counts>>

ServeMarkAll ==
  /\ markAll = "sent" /\ markAll' = "served"
  /\ unread' = {}
  /\ UNCHANGED <<present, unreadOnly, mark, mine, wasUnread, counts>>

MarkAllFails ==
  /\ markAll # "none" /\ markAll' = "none"
  /\ UNCHANGED <<server, unreadOnly, mark, mine, wasUnread, counts>>

\* From the toolbar; from the sidebar, which also has the list made anew.
CountAfterMarkAll ==
  /\ markAll = "served" /\ markAll' = "none"
  /\ Reload
  /\ \/ UNCHANGED <<unreadOnly, mine>>
     \/ unreadOnly' = TRUE /\ mine' = {}
  /\ UNCHANGED <<mark, wasUnread>>

-----------------------------------------------------------------------------
(* What else changes articles: a refresh inserts one, retention deletes    *)
(* one, a reader marks one as unread.                                      *)

Arrive(i) ==
  /\ i \notin present
  /\ present' = present \cup {i} /\ unread' = unread \cup {i}
  /\ UNCHANGED <<list, counts>>

Expire(i) ==
  /\ i \in present
  /\ present' = present \ {i} /\ unread' = unread \ {i}
  /\ UNCHANGED <<list, counts>>

MarkAsUnread(i) ==
  /\ i \in present \ unread
  /\ unread' = unread \cup {i}
  /\ UNCHANGED <<present, list, counts>>

-----------------------------------------------------------------------------

Next ==
  \/ Poll \/ LoadFeeds \/ UpdateFeed
  \/ \E r \in Requests : Serve(r) \/ ServeUncounted(r) \/ Apply(r) \/ Fails(r)
  \/ ToggleUnreadFilter
  \/ MarkAllAsRead \/ ServeMarkAll \/ MarkAllFails \/ CountAfterMarkAll
  \/ \E i \in Ids :
       \/ MarkAsRead(i) \/ ServeMark(i) \/ MarkedAsRead(i) \/ MarkAsReadFails(i)
       \/ Arrive(i) \/ Expire(i) \/ MarkAsUnread(i)

Spec == Init /\ [][Next]_vars
=============================================================================
