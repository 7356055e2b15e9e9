# PlexReader in TLA+

PlexReader is a single-user RSS/Atom reader: a Go backend with one SQLite
database, a Flutter client, and a scheduler that fetches feeds in the
background.  This directory holds TLA+ models of the parts of it in which
several activities meet, the TLC configurations that check them on small
instances, and TLAPS proofs of what holds for every instance.

## 1. The system

| Component | State | Operations | Meets |
|---|---|---|---|
| Refresh scheduler (`scheduler.go`) | the goroutines of a cycle, its semaphore, the cycle's context | `runCycle`, `RefreshFeed`, `refreshOne`, `runRetention`, `Start`, `Stop` | fetcher, feed store, article store, preferences |
| Fetcher (`fetcher.go`) | validators (ETag, Last-Modified) cached per URL, in memory | `Fetch` | publishers; shared by all refreshes |
| Feed store (`feed_store.go`) | table `feeds`: URL, last fetch, backoff, error counter | create, get, list, update, delete, record an attempt, list what is due | scheduler, feed service |
| Article store (`article_store.go`) | table `articles`: one row per feed and GUID, with read, star and save flags | bulk insert, list by page, mark, star, save, delete by feed, delete expired | scheduler, article service |
| Feed service (`feed_service.go`) | none | create, update, delete, refresh, OPML import and export; create and import start a background refresh | UI, scheduler, stores |
| Folder store and service | table `folders` | create, rename, reorder, delete | feeds refer to folders by id |
| Preferences | one row | whole-row update | read by each cycle and each retention sweep |
| Pagination | opaque cursors | encode, decode | feed list, article list, OPML export |
| UI article list (`article_provider.dart`) | articles on screen, page token, loading flags | load, load more, mark, star, save, filter | article service, sidebar |
| UI sidebar (`feed_provider.dart`, `folder_provider.dart`) | feeds with unread counters | load, poll every 60 s, local decrement | feed and folder services |
| Parser, auth, conversion, configuration, generated code, widgets, extension | none that lasts | | |

Hard behaviours, all of which come from the same fact, that a refresh is a
sequence of statements and network waits with no transaction around it:

* a cycle's goroutine, a manual refresh and the background refresh of a new
  feed work on one feed at once and share its error counter and its cached
  validators;
* users delete feeds while they are being fetched, and subscribe again;
* errors of `UpdateLastFetched`, `DeleteByFeedID` and `Delete` are ignored;
* `Stop` cancels the cycle's context but not the background refreshes; a crash
  keeps the database and loses the cache;
* the semaphore's queue does not watch the context.

What makes each component correct: a feed is removed by the program only when
it has earned it; slots never leak and `Stop` returns; the cache never hides an
article; articles on screen are those of the filter, each once; a starred
article survives retention; a feed's folder exists.  `PROJECT.json` lists the
hazards one by one with the properties that cover them.

## 2. Modules

| Module | What it is |
|---|---|
| `Scheduler` | the core: feeds, articles, fetcher cache, publishers, and every goroutine that refreshes a feed |
| `SchedulerProperties` | its safety properties, fairness and liveness, the refinement of `Subscription`, and one claim the code does not keep |
| `Subscription` | abstract specification: what a subscription is to its user; `Scheduler` and `Folders` implement it |
| `Scheduler_proofs` | TLAPS proofs |
| `Library` | articles under their readers, refreshes that insert them, and the retention sweep |
| `LibraryProperties` | its properties, fairness, the refinement of `Shelf`, and one claim the code does not keep |
| `Shelf` | abstract specification: what the articles of a feed are to their readers; `Library` implements it |
| `Library_proofs` | TLAPS proofs |
| `Pages` | a list of articles read page by page while it changes |
| `PagesProperties` | what the pages hold together, and fairness |
| `Pages_proofs` | TLAPS proofs |
| `Folders` | folders and the feeds filed in them, under OPML imports and exports and all other requests |
| `Opml` | what `ParseOPML` and `GenerateOPML` make of outlines, as operators |
| `FoldersProperties` | properties of imports, exports and deletions, the refinement of `Subscription`, fairness, and one claim the code does not keep |
| `Folders_proofs`, `Opml_proofs` | TLAPS proofs; the second that a file which is read back says what was exported |
| `ArticleList` | the list of articles on the screen against the server it was read from |
| `ArticleListProperties` | its properties, and one claim the code does not keep |
| `ArticleList_proofs` | TLAPS proofs |
| `Sidebar` | the unread count of a feed, polled, reloaded and lowered locally |
| `SidebarProperties`, `Sidebar_proofs` | fairness and liveness; TLAPS proof of its types |
| `MCScheduler`, `MCLibrary`, `MCPages`, `MCFolders`, `MCArticleList`, `MCSidebar` | instances for TLC |

Two abstract specifications say what the parts are for.  `Subscription` is what
becomes of a feed, and has two implementations that see different ways to
change it: fetching, failing and removing in `Scheduler`, requests and imports
in `Folders`.  `Shelf` is what becomes of an article, and `Library` implements it.

The models meet at tables.  `Scheduler` sees of an article only that its row
exists (`stored`), `Library` sees of a refresh only that it inserts, and
`ArticleList` and `Sidebar` see of both only which articles are unread.
`Folders` sees of a refresh nothing: it writes none of the columns in question.
Inside `Scheduler` three callers of `refreshOne` are composed, as are in `Folders`
the requests of one statement and those of many.  A module that held the
scheduler and the readers at once would add nothing that `Insert` and
`PurgeFeed` of `Library`, which may be taken at any time, do not allow already.

### Scheduler

*State.*  `status`, `url`, `due`, `backoff`, `errorCount` are the row of a feed
(`due` says that `last_fetched_at` is older than the interval, `backoff` that
`backoff_until` lies ahead); `stored` are the GUIDs of its articles.
`published` is the world outside.  `cache` is `Fetcher.cache`.  `sem`, `pc`,
`target`, `res`, `doc` describe the goroutines; `phase` says whether `Stop` has
cancelled the cycle's context, `cancelled` which RPCs lost their client.
`failures`, `permSeen` and `lossy` are history: no action reads them.

*Goroutines.*  The goroutine of the cycle for feed `f` is called `f` itself;
`Rpcs` are handlers of the RefreshFeed RPC and `Spawned` the background refreshes that
`CreateFeed` (and `importFeed`, which does the same) starts.

| Code | Action |
|---|---|
| `runCycle` lists the due feeds and starts a goroutine for each | `StartCycle` |
| `sem <- struct{}{}` | `Acquire` |
| `Scheduler.RefreshFeed`: `feedStore.Get` | `Load` |
| `validateFeedURL` fails | `RejectUrl` |
| `Fetch` reads the cache and sends the request | `SendRequest` |
| the publisher answers 304, 200, or otherwise | `AnswerNotModified`, `AnswerOK`, `AnswerError` |
| `Fetch` caches the headers, then parses | `Receive`, `ReceiveGarbage` |
| `BulkCreate` | `StoreOK`, `StoreFails` |
| `UpdateLastFetched` | `Record` |
| after a permanent error: `Get`, `DeleteByFeedID`, `Delete` | `Check`, `Purge`, `Drop` |
| `CreateFeed`, `DeleteFeed`, the RefreshFeed RPC | `CreateFeed`, `DeleteFeed`, `RefreshRequest`, `Disconnect` |
| `Stop`; crash or exit and next start | `Stop`, `Restart` |

*Abstractions.*  SQLite has one connection, so a statement is one atomic step.
A document is the set of its items' GUIDs and doubles as its ETag.  Error
classes are those of `classifyError`.  A statement on a cancelled context
fails; other statements fail only where `DbMayFail` allows it.  Times are
Booleans that the clock sets, so that a cycle may come at any moment after the
interval.  A run of the preferences query fails only with the cycle's context;
then the cycle does not start, which is what not taking `StartCycle` says.

*Publishers that send no validators* are in the model: a 200 caches an entry
without a tag, which is a cache entry that sends no condition.

### Library

*State.*  One feed's rows of table `articles`: `life` and `guid` say which rows
exist and which items they stand for, `flagged` holds the pairs of an article
and a flag that is set, `opened` the rows whose `read_at` is not NULL, `age` the
days since `created_at`.  `limit` is `retention_days`; `sweep` is a sweep
between its two statements and `call` a client's request between its two.
`promised` and `since` are history: what clients were told is set, and the
limits in force since the sweep began.

| Code | Action |
|---|---|
| `BulkCreate`, for one item that is not there | `Insert` |
| `DeleteByFeedID`, when the scheduler removes the feed | `PurgeFeed` |
| a request to mark, star or save; its `UPDATE` | `Ask`, `Update` |
| the `SELECT` that answers it | `Answer` |
| either statement fails, or the client goes away | `Abort` |
| `MarkAllRead` | `MarkAllRead` |
| `UpdatePreferences` | `SetLimit` |
| `runRetention`: preferences read, `DeleteExpired`, an error | `BeginSweep`, `DeleteExpired`, `SweepFails` |
| crash or exit and next start | `Restart` |

*Abstractions.*  The columns `is_starred` and `is_saved_for_later` are treated
alike by every statement, so they are two members of `Bookmarks`.  The scope of
`MarkAllRead` (all, a feed, a folder) is any set of articles.  Ages saturate at
`MaxAge`, above every limit.  An article that is deleted and published again
comes back under an id never used before, as a fresh ULID does.

### Pages

*State.*  `present`, `gone` and `unread` describe table `articles`; an article is
numbered by its place in the order of `(published_at, id)`, and `Day` says when
it was published.  The client has asked for a `view`, an order (`newest`) and a
`size`; `token` and `stage` say how far it is, `got` what it has seen.  `again`
and `wanted` are history.

| Code | Action |
|---|---|
| `ListArticles` and `ArticleStore.List`, with a token or without | `FetchPage` |
| the client's first request | `Open` |
| `BulkCreate`; `DeleteExpired` or `DeleteByFeedID` | `Insert`; `Delete` |
| `MarkRead`, `MarkAllRead` | `MarkRead`, `MarkUnread` |

*The comparison of tokens* is modelled by what it does.  A token is made with
`time.RFC3339`, the column holds what the SQLite driver writes for a
`time.Time`, and SQLite compares the two as text, because `COALESCE` takes the
column's affinity away.  At the eleventh character one has a `T` and the other
a space, so all times of the token's day are less than the token.

*Abstractions.*  Filters by feed, folder, star and date narrow the view as
"unread" does.  The count of all rows, the statement before the page's, only
reaches the answer's `total_count`.  Recently Read is left out: its pages are
ordered by `read_at`, its tokens compare `published_at`, and there is nothing
one could state of them.

### Folders and Opml

*State.*  `name` is table `folders`, where a folder that is not there has none;
`url`, `filed` and `title` are the columns of `feeds` that matter here, `spent`
the ULIDs that were drawn.  Of a handler, `pc` says where it is; `doc`, `at`, `idOf` and
`outcome` are the locals of `ImportOPML` (the document in the order the
loops walk it, the place in it, `folderMap`, the counters and errors), `cursor`, `listed`
and `sheet` those of `ExportOPML` (the first two are cleared when the last page
has been read, after which nothing uses them).  `there`, `seen`, `steady`, `twice` and `late`
are history.

| Code | Action |
|---|---|
| `CreateFolder`, `UpdateFolder`, `DeleteFolder` | the same names |
| `CreateFeed`, `UpdateFeed`; `DeleteFeed` or the scheduler's removal | the same names |
| `ImportOPML` lists the folders | `ImportOPML` |
| a folder of the file, found or created; its creation fails | `ImportFolder`; `ImportFolderFails` |
| `importFeed`: `GetByXMLURL`; `Create`, or its failure | `LookUpFeed`; `ImportFeed`, `ImportFeedFails` |
| the loops are over | `ImportDone` |
| `ExportOPML` begins; a page of feeds; the folders | `ExportOPML`; `FetchPage`; `ListFolders` |
| a handler answers; an export fails | `Respond`; `ExportFails` |

*Abstractions.*  `folderStore.Delete` is one transaction and the database has one
connection, so it is one step.  A feed's id is its place in the order of
ULIDs, a title its place in the order of texts.  `Opml` keeps the nesting of outlines
and the attributes `isFeed` and the folder's name depend on, and drops XML
syntax; `MCFolders` has TLC compute what `ParseOPML` makes of two files, with a folder in
a folder and attributes missing, and compares it with the documents of the run.
The empty result of a failed listing of folders is a request that
did not happen.

### ArticleList

*State.*  `present` and `unread` are the server's articles of one feed or folder.
`rows`, `isLoading`, `hasMore` and `token` are `ArticleListState`, `unreadOnly` the
filter of `_params`.  `load`, `mark` and `markAll` are the requests under way, each
with the stage it has reached; `mine` are the marks asked for by the notifier
that is mounted.  `owed`, `behind`, `lag` and `missed` are history.

| Code | Action |
|---|---|
| `refresh`, `toggleUnreadFilter`, `loadMore` (from `_onScroll`) | `Refresh`, `ToggleUnreadFilter`, `LoadMore` |
| `_load`: up to its request; the server; its answer; its `catch` | `StartLoad` in each of them; `ServeLoad`; `ApplyLoad`; `LoadFails` |
| `markAsRead`: up to its request; the answer; its `catch` | `MarkAsRead`; `MarkedAsRead`; `MarkAsReadFails` |
| `markAsUnread`, likewise | `MarkAsUnread`; `MarkedAsUnread`; `MarkAsUnreadFails` |
| the server marks an article, or all | `ServeMark`; `ServeMarkAll` |
| `markAllAsRead` of the toolbar or the sidebar; its reload; its `catch` | `MarkAllAsRead`; `ReloadAfterMarkAll`; `MarkAllFails` |
| the refresh signal: a new notifier | `Recreate` |
| a refresh stores an article | `Arrive` |

*Abstractions.*  Dart runs one callback at a time, so what lies between two
`await`s is one step.  Every request may be lost before or after the server
acted.  `IsPage` is what `Pages` says of a list, newest first, for articles of
different days; `ArticleList_proofs` proves that the two agree (`ServesPages`).

### Sidebar

*State.*  `present` and `unread` are the server's articles of one feed, `badge` the
count shown.  `asked` and `answer` are the requests of `FeedNotifier`: the poll,
`loadFeeds` and `updateFeed`.  `mark`, `mine`, `wasUnread`, `unreadOnly` and
`markAll` are what of `ArticleList` reaches the count.

| Code | Action |
|---|---|
| the timer, `loadFeeds`, `updateFeed` | `Poll`, `LoadFeeds`, `UpdateFeed` |
| `ListFeeds` or `UpdateFeed` of the server; its count fails | `Serve`; `ServeUncounted` |
| the answer; the error | `Apply`; `Fails` |
| `markAsRead`: up to its request; the server; the answer; its `catch` | `MarkAsRead`; `ServeMark`; `MarkedAsRead`; `MarkAsReadFails` |
| mark-all-as-read: request, server, error, reload | `MarkAllAsRead`, `ServeMarkAll`, `MarkAllFails`, `CountAfterMarkAll` |
| refresh, retention, `markAsUnread` | `Arrive`, `Expire`, `MarkAsUnread` |

*Abstractions.*  Whether a row of the list is an old or a new copy of its article
is left open (`wasUnread`), which allows more than `ArticleList` does.  One feed
is followed; `listFeeds` asks for the first 200 and never for more, and the feed
is one of them.

## 3. Runs

| Run | Instance | Shows |
|---|---|---|
| `safety` | one feed, one RPC, one background refresh, fetches that fail in each of the three ways, two failures to remove | `TypeOK`, `RemovalNeedsMaxErrors`, `TransientNeverRemoves`, `ImplementsSubscription` |
| `live_cycle` | two feeds with a URL each, one slot, publishers that answer 403 or 429 at times | `SlotsHeldByRunners`, `StopDrains`, `DueFeedGetsItsTurn` |
| `live_feed` | one feed, two documents, two failures to remove | `CachedDocumentAccountedFor`, `DeadFeedsDoNotLinger`, `ArticlesArrive` |
| `library` | one item, two ids, two clients, a limit of 0 or 2 days | `TypeOK`, `PromisesKept`, `SweepObeysALimit`, `ImplementsShelf`, `ExpiredArticlesGo` |
| `pages` | four articles on three days, two of them on one; pages of two or three | `TypeOK`, `NewestSkipsNothing`, `OldestRepeatsNothing`, `OldestSkipsOnlyOfADay`, `PagesMoveOn`, `ScrollEnds` |
| `folders` | two folders of one name, two feeds, one to a page; one handler; statements fail | `TypeOK`, `EveryEntryAccountedFor`, `ImportMakesNoDuplicateFolders`, `OnlyLateWritesDangle`, `ExportFaithful`, `ExportReadsBack`, `FeedsAreSubscriptions`, `RequestsEnd` |
| `articlelist` | two articles, one to a page, a list of at most two rows when scrolling | `TypeOK`, `LoadingIsReal`, `UnreadNotHidden`, `ReadRowsExplained` |
| `sidebar` | a feed with one article | `TypeOK`, `CountHeals` |
| `claim_*` | the smallest instance that shows the behaviour | a violation each, see section 6 |

*Bounds and why they are enough.*  A feed has at most three kinds of goroutines
working for it (cycle, RPC, background); one of each meets every pair and
triple of kinds.  `MaxErrors` is 5 in the code; 2 is the least value at which
an error can be one too few and at which a mixture of causes can add up.
`ErrorCap` saturates the counters at `MaxErrors`: no action distinguishes
larger values.  Two feeds and one slot are the least that make one wait.  Two
documents let a publisher change and change back, as cached validators that
match again require.  `live_cycle` sets `MaxErrors` to 1 and has one
document, without items: its properties depend on neither.  The proofs cover all of these bounds.
`safety` has a `VIEW`, so that all three classes of errors (permanent, 403 or
429, of the moment) fit into one run.  It leaves out what no later step of a state
depends on and no property of that run mentions: the history `lossy`, the
cancellation of a request that is over, what a fetch brought once only its success
is still to be recorded, and `published`.  The last is read by the publisher's
answers, but where a fetch may fail in every way a page that has vanished allows
nothing that one which is there does not; TLC finds exactly twice the states
when the view tells the two apart.

In `library` one GUID with two ids is the least with which a pruned item
returns as another row; two clients, with the sweep and `MarkAllRead`, meet on
one article; `DefaultDays` is 1 (90 in the code) and the other limit 2, so that a
sweep that takes one for the other is seen; `MaxAge` is 3, beyond both.  One bookmark stands
for the two that are treated alike; the proofs are for any set of them.

In `pages` two articles of one day fill a page of two but not one of three, so
that both the list that ends and the one that turns in a circle are there; with
three days two full pages follow one another also where no day fills a page.  The size
asked for is none (the default, two) or one above the maximum (three).

In `folders` one handler meets any number of one-statement requests between its
statements, and other imports differ from those only in making several
requests; the proofs are for any number of handlers.  Two folder ids of one
name are the least with which an import could make a folder twice, and run
out of ids; two feeds with two titles on pages of one move across the cursor in both
directions.  One document has a folder twice with a feed between, the other a
feed without a URL and one with, both at the root.

In `articlelist` two articles on pages of one are the least for a second page;
`MaxRows` ends scrolling, which could otherwise repeat the first page for ever.
One mark at a time for an article and one mark-all at a time are bounds of the
model.  In `sidebar` one article suffices to be counted twice, not at all, or
late; liveness with two is out of TLC's reach in reasonable time, and the
proof of `TypeOK` is for any number.

*Fairness of the scheduler.*  `FairSpec` describes a stretch without a crash.  Weak fairness of
`Step(t)` stands for the Go scheduler and for the 30-second timeout of the HTTP
client, after which a request that is not answered fails; of `Acquire` for a
channel whose blocked senders are served; of `StartCycle` for the ticker; of
`IntervalElapses` and `BackoffElapses` for the clock.  Nothing is assumed of
users, publishers or `Stop`.  Acquiring a slot needs no strong fairness: the
goroutines of one cycle are finitely many and each waits for a slot once.

*Fairness of the library.*  Weak fairness of `BeginSweep` stands for the hourly
ticker.  `DeleteExpired` is strongly fair: single sweeps may fail or meet a
crash, and the property is about a process in which not every one does.
Nothing is assumed of clients.  In `Pages`, weak fairness of `FetchPage` is a
client that goes on reading.

*Fairness of folders.*  Weak fairness of a handler's next statement, which either
succeeds or fails; clients need do nothing.

*Fairness of the sidebar.*  Weak fairness of the 60-second timer and of the end
of a poll; strong fairness of the server's answer with counts, since not every
poll meets a failing count, and of the arrival of an answer that is still
current, since not every poll is lost or overtaken.  Nothing is assumed of the
user, and `CountHeals` is about a count that in the end stays the same.

*What liveness does not say.*  A user who refreshes a feed by hand within every
interval can keep the cycle, the only place that removes feeds, from ever
trying it; `live_feed` therefore has no RPCs.  `ArticlesArrive` excepts the
feeds in `lossy`, for which the code does lose articles.

## 4. Proofs

`Scheduler_proofs` proves, for any sets of feeds (finite), goroutines, URLs and
documents and any `MaxErrors`, `Concurrency`, `Flakes` and `DbMayFail` within
the named assumptions of `Scheduler`:

* `TypeCorrect`, from `Base`: types, that the columns of a row that is not there
  say nothing, however late a goroutine writes to them, and that a goroutine under
  way works for a feed that was created and has a URL.
* `RemovalSafe` and `TransientSafe`.  The obvious invariant, that a goroutine
  about to remove a feed still finds `errorCount >= MaxErrors`, is false: a
  manual refresh may succeed between `Check` and `Drop` and reset the counter.
  What persists is history.  `Verdict` says that the counter never exceeds the
  recorded failures, that a goroutine at `check` or later has a permanent error
  on record for its feed, and that one past `check` has `MaxErrors` failures on
  record; these are never taken back, whatever else happens to the row.
* `SchedulerImplementsSubscription`: with `RemovalInv` as the invariant, each
  step of the scheduler maps to a step or a stutter of `Subscription`.
* `SlotsSafe`: the holders of slots are the running goroutines, hence no leak
  and never more than `Concurrency`.
* `CacheSafe`: the account of the cache, with one lemma for the steps that
  leave it alone and a case for each step that does not.

`Library_proofs` proves, for any sets of articles, items, clients and
bookmarks, any limits and any default:

* `LibraryTypeCorrect`: types, and that an item without a row is of no article and
  has neither flags nor an age.
* `PromisesSafe`.  `PromisesKept` is not inductive: a request to clear a flag
  that was sent before the flag was promised would break it.  The
  strengthening `Unthreatened` says that no such request is still to be
  applied for a promise, which `Ask` and `Answer` establish.
* `SweepSafe`, from `SweepKnown`: the days of the sweep under way are those of a
  limit in `since`.
* `LibraryImplementsShelf`: each step of the library maps to a step or a stutter of
  `Shelf`.  What needs an invariant is that a sweep takes nothing that was
  promised (`PromisesKept` and `Unthreatened` again), and that the item of a row
  that went is free (`TypeOK`), so that what is inserted again is not
  there twice.

`Pages_proofs` proves, for any articles (finitely many), days and page sizes:

* `PagesTypeCorrect`: types.
* `NewestSafe`, `OldestSafe` and `OldestSkipsSafe`, all from `PagesInv`.  What has
  to be known while a list is being read is that what
  lies before the token is accounted for: newest first, all wanted articles of
  later days are on a page; oldest first, so is every one up to the token's
  day, or an earlier one of its day is.  The page is any set that `LIMIT`
  allows, so no induction over sorting is needed.
* `PagesProgress`: newest first, a further page ends on an earlier day than the
  one before, if no day fills a page.  A full page cannot lie within the token's
  day, which is too small for it, and every row beyond the token is of that
  day or an earlier one.  This is the variant behind `ScrollEnds`: there are
  finitely many days.  Oldest first a page begins after the token's day anyway.

`Folders_proofs` proves, for any ids, names, URLs, titles, documents and
handlers and any page size:

* `FoldersTypeCorrect`, with `PlaceInv`, what a handler knows where it is: that it
  inserts only an entry with a URL, and that a feed of a folder is
  reached only with that folder's id in the map.
* `EntriesAccountedFor`.  A feed that was found may be deleted the moment after;
  what persists is `SeenInv`, that every subscription is among the URLs seen
  since the import began.  The entries passed over with their folder form a
  stretch that ends before the next folder, which is what `DocumentsAssumption`
  says of a document.
* `FoldersMadeOnce`, from `MapInv`: the map has the folders that were there and
  those that were made.
* `DeletionLeavesNothingBehind`, from `RowInv`: an id in use was drawn before, so that
  a new folder never adopts a feed of a deleted one.
* `ExportsAreFaithful`, from `ExportInv`: of the steady feeds exactly those up to
  the cursor are on the pages, with the folder they still have.
* `FoldersImplementSubscription`: each step maps to a step or a stutter of
  `Subscription`, in which nothing is fetched.  The unique index makes a
  `Subscribe` of every insertion, and `RowInv` tells a new id from one that was
  used, so that an import that looked a URL up before another request
  subscribed to it does not subscribe to it twice.

`Opml_proofs` proves, for the same constants, what composes the export with the
reader of its file:

* `RoundTrip`: whatever finite set of feeds and folders is written out by
  `GenerateOPML`, `ParseOPML` reads the same feeds in the same folders from it.
  The definitions of `Opml` pick the elements of a sequence that satisfy a
  condition without recursion (`Pick`, `Nth`: the one with so many before it),
  so what they yield follows from counting an interval, and no induction is
  needed.  It does need that the empty text is neither a URL nor the type of an
  outline (`DistinctAssumption`), because an outline with neither is a folder to the
  parser.
* `ExportsReadBack`: so what an export has answered reads back, since what it has
  on its sheet is finite at every moment (`FiniteInv`).

`ArticleList_proofs` proves, for any set of articles and any page size:

* `ArticleListTypeCorrect` and `LoadingSafe`, together.
* `NothingUnreadHidden`, from `OwedOnScreen`, which says of the list at any moment
  what the property says when nothing is under way: a failed mark always
  leads to a reload or to one that was dropped.
* `ReadRowsSafe`, from `Explained`: a load that no dropped or failed one followed
  asks with the current filter, its answer holds read articles only from `lag`,
  and so the rows hold them only from `behind`.
* `ServesPages`: for any articles, filter and token, a page that satisfies
  `ArticleList`'s `IsPage` is one of `Pages`, and `NextToken` gives the token
  `Pages` gives; what is proved of `Pages` is therefore about the pages the list is
  served.

`Sidebar_proofs` proves `SidebarTypeCorrect`: the count stays between zero and the number
of articles.

The constants are assumed to be what the code makes them: feeds and articles are
finitely many, a folder's id is no feed's (both are ULIDs), an empty text is no
URL.  Every assumption has a name, stands in the module that declares the
constants, and is evaluated by TLC for the instances of section 3.

Only model-checked are the liveness properties (`StopDrains`,
`DueFeedGetsItsTurn`, `DeadFeedsDoNotLinger`, `ArticlesArrive`, `ExpiredArticlesGo`,
`ScrollEnds`, `RequestsEnd`, `CountHeals`): they rest on fairness, hence on
`ENABLED`, which the prover does not handle.  Every invariant and action
property that a run checks, and all three refinements, are proved.

## 5. Not modelled

* *Generated code* (`backend/gen/`): three quarters of the Go code in the
  repository are message types, Connect stubs and validators generated from
  the `.proto` files.  They hold no state of the system; the validators are not
  called by any handler.  The models cover the code written by hand.
* *Parser, conversions, error mapping, authentication, configuration, health
  probe, CORS*: functions of their input.  The models see their outcome: a parse that
  succeeds with some items or fails, a request that is admitted.
* *Database set-up* (`db.go`): migrations, the first row of preferences and the
  full-text index, run once before anything else starts.  What matters of it, that there is one
  connection, is in every model.  Full-text search is a filter of a list.
* *The fetcher's address checks* are one more reason for a request to fail.
* *Recently Read* (section 2, Pages).
* *`ReorderFolders`*: one transaction on a column that nothing here reads.
* *Other preferences* than the retention limit and their whole-row update: the
  last writer wins, and no document says otherwise.
* *Stars, saves, selection and sort order of the UI's list*, folders and favourites of the
  sidebar, navigation and all rendering; `deleteFeed` and `createFeed` of
  `feed_provider.dart` change the list of feeds, of which `Sidebar` follows one.
* *Chrome extension*: a badge per tab and a frame around the web client.

## 6. Findings

With a run of their own:

* `claim_lost`: validators are cached before the articles are stored, so a
  failed insertion is followed by 304s and the articles never arrive.
* `claim_forever`: `preferences.proto` calls a retention of 0 "keep forever";
  the sweep takes it for its default and deletes.
* `claim_dangling`: a feed is filed in a folder that is gone by any request
  that has the folder's id from before; it is in no group of the sidebar.
* `claim_loadmore`: `copyWith` drops the page token before `_load` reads it, so
  scrolling appends the first page again and never reaches the second.

Shown by runs that pass, because their properties say what the code does where a
document says something else:

* `safety`: `DeleteFeed` leaves the articles behind that `feed.proto:101` and the
  dialog of `sidebar.dart:650` say are deleted.  `Subscription` says that
  unsubscribing changes nothing of what is stored (`Unsubscribe`), and the refinement
  `ImplementsSubscription` fails for a `DeleteFeed` that empties it.
* `folders`: `feeds_skipped` of an import's response counts the feeds that failed, not
  those that already existed, as `feed.proto:121` and `user-guide.md:56` say.
  `EveryEntryAccountedFor` holds of a feed that was found because it is there;
  the response says nothing of it.  The test at `service_test.go:417` counts as the code does.

Met while modelling; the models contain the behaviour, but no run is devoted to it:

* The validators outlive the subscription: whoever subscribes to a URL again is
  answered 304 and sees nothing until the publisher changes the document,
  against `user-guide.md:72`.  `lossy` names it as one of the ways an article is lost.
* The counter compared with `maxErrorsBeforeDelete` is not one of consecutive
  permanent errors, as `scheduler.go:19` says: it counts 403s, 429s and timeouts.
  `RemovalNeedsMaxErrors` and `TransientNeverRemoves` say what does hold.
* The server's pages repeat the articles of the day they ended in, newest first, though
  `architecture.md:190` says that tokens avoid duplicates; `OldestRepeatsNothing`
  is confined to the other order for that reason.
* The reload after mark-all-as-read is dropped if a load is under way, though
  the comment at `article_provider.dart:198` counts on it; `missed` records it.
* The unread count is lowered twice, or not at all, when the filter is toggled
  while a mark is under way, and becomes zero when the server's count fails; the next
  poll heals it (`CountHeals`).
* `UpdateFeed` and `UpdateFolder` ignore the `update_mask` of their requests.
