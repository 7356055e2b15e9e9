-------------------------------- MODULE Folders --------------------------------
(***************************************************************************)
(* The catalogue: folders, the feeds filed in them, and the requests that  *)
(* change it.  Importing and exporting an OPML file are requests of many   *)
(* statements with no transaction around them, so that other requests fall *)
(* between any two.  SQLite has one connection: a statement, or a          *)
(* transaction, is one step.                                               *)
(***************************************************************************)
EXTENDS Naturals, FiniteSets, Sequences

CONSTANTS
  FolderIds,   \* ids that rows of table "folders" may get
  FeedIds,     \* ids that rows of table "feeds" may get, in the order of ULIDs
  Names,       \* of folders
  Urls,        \* of feeds
  Titles,      \* of feeds, in the order of their text
  Handlers,    \* goroutines that serve ImportOPML or ExportOPML
  Documents,   \* what ParseOPML returns, in the order ImportOPML walks it
  PageSize,    \* rows to a page of an export
  DbMayFail,   \* statements may fail, those of a client that went away too
  Root,        \* the empty folder id
  Blank,       \* the empty URL
  NoVal

\* An entry of a document is a folder (url = NoVal) or a feed in it; the feeds
\* of Root come last.  A folder is followed by its feeds.
Entry == [folder : Names \cup {Root}, url : Urls \cup {Blank, NoVal}]
IsFolder(e) == e.url = NoVal

ASSUME NumbersAssumption ==
  /\ FeedIds \subseteq Nat /\ Titles \subseteq Nat /\ PageSize \in Nat \ {0}
  /\ Titles # {} /\ IsFiniteSet(FeedIds)
ASSUME FlagsAssumption == DbMayFail \in BOOLEAN
ASSUME DistinctAssumption ==
  /\ Root \notin FolderIds \cup Names /\ Blank \notin Urls \cup {"rss", "atom"}
  /\ NoVal \notin FolderIds \cup Names \cup Urls \cup {Root, Blank}
  /\ NoVal \notin Titles \X FeedIds
  /\ FolderIds \cap FeedIds = {}
ASSUME DocumentsAssumption ==
  /\ Documents \subseteq Seq(Entry)
  /\ \A d \in Documents : \A i \in DOMAIN d :
       /\ IsFolder(d[i]) => d[i].folder # Root
       /\ ~IsFolder(d[i]) /\ d[i].folder # Root =>
            \E j \in 1 .. i - 1 :
              /\ IsFolder(d[j]) /\ d[j].folder = d[i].folder
              /\ \A k \in j + 1 .. i : ~IsFolder(d[k]) /\ d[k].folder = d[i].folder

VARIABLES
  \* tables
  name,        \* of a folder, NoVal if there is no such row
  url,         \* of a feed, NoVal if there is no such row
  filed,       \* folder_id of a feed
  title,       \* of a feed
  spent,       \* ids that were ever given to a row
  \* handlers
  pc,          \* "idle", "import", "insert", "imported", "page", "list", "exported"
  doc,         \* ImportOPML: the document,
  at,          \*   the entry it is at,
  idOf,        \*   folderMap,
  outcome,     \*   what became of the entries
  cursor,      \* ExportOPML: title and id of the last row read,
  listed,      \*   the rows read, until they are on the sheet,
  sheet,       \*   the exported entries: feed, URL, and folder or Root
  \* history: read by no action
  there,       \* folder names that existed when the handler listed them
  seen,        \* URLs subscribed at some time since it began
  steady,      \* feeds whose row, and folder's row, are as when it began
  twice,       \* feeds on two pages
  late         \* feeds written with the id of a folder already deleted

tables   == <<name, url, filed, title, spent>>
importer == <<doc, at, idOf, outcome, there, seen>>
exporter == <<cursor, listed, sheet, twice>>
vars     == <<tables, pc, importer, exporter, steady, late>>

Outcomes == {"todo", "made", "found", "failed", "dropped"}
Places == UNION {DOMAIN d : d \in Documents}
Untouched == [i \in Places |-> "todo"]
NoFolders == [n \in Names |-> NoVal]

Subscribed == {f \in FeedIds : url[f] # NoVal}
Exists(g) == g \in FolderIds /\ name[g] # NoVal
Importing(h) == pc[h] \in {"import", "insert", "imported"}
Known == {g \in FolderIds : g \in spent} \cup {Root}

TypeOK ==
  /\ name \in [FolderIds -> Names \cup {NoVal}]
  /\ url \in [FeedIds -> Urls \cup {NoVal}]
  /\ filed \in [FeedIds -> FolderIds \cup {Root}]
  /\ title \in [FeedIds -> Titles]
  /\ spent \subseteq FolderIds \cup FeedIds
  /\ pc \in [Handlers ->
       {"idle", "import", "insert", "imported", "page", "list", "exported"}]
  /\ doc \in [Handlers -> Documents \cup {<<>>}]
  /\ at \in [Handlers -> Nat \ {0}]
  /\ idOf \in [Handlers -> [Names -> FolderIds \cup {NoVal}]]
  /\ outcome \in [Handlers -> [Places -> Outcomes]]
  /\ cursor \in [Handlers -> (Titles \X FeedIds) \cup {NoVal}]
  /\ listed \in [Handlers -> SUBSET (FeedIds \X Urls \X (FolderIds \cup {Root}))]
  /\ sheet \in [Handlers -> SUBSET (FeedIds \X Urls \X (Names \cup {Root}))]
  /\ there \in [Handlers -> SUBSET Names] /\ seen \in [Handlers -> SUBSET Urls]
  /\ steady \in [Handlers -> SUBSET FeedIds] /\ twice \in [Handlers -> SUBSET FeedIds]
  /\ late \subseteq FeedIds

AnyTitle == CHOOSE t \in Titles : TRUE

Init ==
  /\ name = [g \in FolderIds |-> NoVal]
  /\ url = [f \in FeedIds |-> NoVal]
  /\ filed = [f \in FeedIds |-> Root]
  /\ title = [f \in FeedIds |-> AnyTitle]
  /\ spent = {}
  /\ pc = [h \in Handlers |-> "idle"]
  /\ doc = [h \in Handlers |-> <<>>] /\ at = [h \in Handlers |-> 1]
  /\ idOf = [h \in Handlers |-> NoFolders]
  /\ outcome = [h \in Handlers |-> Untouched]
  /\ cursor = [h \in Handlers |-> NoVal]
  /\ listed = [h \in Handlers |-> {}] /\ sheet = [h \in Handlers |-> {}]
  /\ there = [h \in Handlers |-> {}] /\ seen = [h \in Handlers |-> {}]
  /\ steady = [h \in Handlers |-> {}] /\ twice = [h \in Handlers |-> {}]
  /\ late = {}

-----------------------------------------------------------------------------
(* Rows of the two tables.                                                 *)

\* A request wrote folder id g to feed f; it does not ask whether g exists.
Written(f, g) ==
  late' = IF g = Root \/ Exists(g) THEN late \ {f} ELSE late \cup {f}

\* folderStore.Create.
InsertFolder(g, n) ==
  /\ g \notin spent
  /\ name' = [name EXCEPT ![g] = n]
  /\ spent' = spent \cup {g}

\* Faulty variant: xml_url is not unique.
InsertFeedAnyUrl(f, u, g, t) ==
  /\ f \notin spent
  /\ url' = [url EXCEPT ![f] = u]
  /\ filed' = [filed EXCEPT ![f] = g]
  /\ title' = [title EXCEPT ![f] = t]
  /\ spent' = spent \cup {f}
  /\ Written(f, g)
  /\ seen' = [h \in Handlers |-> IF Importing(h) THEN seen[h] \cup {u} ELSE seen[h]]

\* feedStore.Create: xml_url is unique.
InsertFeed(f, u, g, t) ==
  /\ f \notin spent
  /\ \A e \in FeedIds : url[e] # u
  /\ url' = [url EXCEPT ![f] = u]
  /\ filed' = [filed EXCEPT ![f] = g]
  /\ title' = [title EXCEPT ![f] = t]
  /\ spent' = spent \cup {f}
  /\ Written(f, g)
  /\ seen' = [h \in Handlers |-> IF Importing(h) THEN seen[h] \cup {u} ELSE seen[h]]

\* The rows of these feeds changed, or those of their folders.
Disturb(feeds) == steady' = [h \in Handlers |-> steady[h] \ feeds]
Within(g) == {f \in Subscribed : filed[f] = g}

-----------------------------------------------------------------------------
(* Requests of one statement.  A client names any folder it has ever seen. *)

CreateFolder(g, n) ==
  /\ InsertFolder(g, n)
  /\ UNCHANGED <<url, filed, title, pc, importer, exporter, steady, late>>

\* The whole row is written; its position and parent are not modelled.
UpdateFolder(g, n) ==
  /\ Exists(g)
  /\ name' = [name EXCEPT ![g] = n]
  /\ Disturb(Within(g))
  /\ UNCHANGED <<url, filed, title, spent, pc, importer, exporter, late>>

\* Faulty variant: the feeds are left where they were.
DeleteFolderOnly(g) ==
  /\ g \in spent
  /\ name' = [name EXCEPT ![g] = NoVal]
  /\ Disturb(Within(g))
  /\ UNCHANGED <<url, title, spent, filed, late, pc, importer, exporter>>

\* One transaction, which does not ask whether the folder is there.
DeleteFolder(g) ==
  /\ g \in spent
  /\ filed' = [f \in FeedIds |-> IF f \in Within(g) THEN Root ELSE filed[f]]
  /\ late' = late \ Within(g)
  /\ name' = [name EXCEPT ![g] = NoVal]
  /\ Disturb(Within(g))
  /\ UNCHANGED <<url, title, spent, pc, importer, exporter>>

CreateFeed(f, u, g, t) ==
  /\ InsertFeed(f, u, g, t)
  /\ UNCHANGED <<name, pc, doc, at, idOf, outcome, there, exporter, steady>>

\* Every column of the client's copy is written, its folder_id too.
UpdateFeed(f, g, t) ==
  /\ f \in Subscribed
  /\ filed' = [filed EXCEPT ![f] = g]
  /\ title' = [title EXCEPT ![f] = t]
  /\ Written(f, g)
  /\ Disturb({f})
  /\ UNCHANGED <<name, url, spent, pc, importer, exporter>>

\* DeleteFeed, or the scheduler that removes a dead feed.
DeleteFeed(f) ==
  /\ f \in Subscribed
  /\ url' = [url EXCEPT ![f] = NoVal]
  /\ filed' = [filed EXCEPT ![f] = Root]
  /\ title' = [title EXCEPT ![f] = AnyTitle]
  /\ late' = late \ {f}
  /\ Disturb({f})
  /\ UNCHANGED <<name, spent, pc, importer, exporter>>

-----------------------------------------------------------------------------
(* ImportOPML.                                                             *)

Goes(h, stage) == pc' = [pc EXCEPT ![h] = stage]
Here(h) == doc[h][at[h]]
AtEntry(h) == pc[h] = "import" /\ at[h] \in DOMAIN doc[h]

\* The folders there are, by name; of two with one name the map keeps one.
\* If they cannot be listed, the request fails and nothing has happened.
ImportOPML(h, d) ==
  /\ pc[h] = "idle"
  /\ Goes(h, "import")
  /\ doc' = [doc EXCEPT ![h] = d]
  /\ \E known \in [Names -> FolderIds \cup {NoVal}] :
       /\ \A n \in Names :
            IF \E g \in FolderIds : name[g] = n
              THEN known[n] # NoVal /\ name[known[n]] = n
              ELSE known[n] = NoVal
       /\ idOf' = [idOf EXCEPT ![h] = known]
       /\ there' = [there EXCEPT ![h] = {n \in Names : known[n] # NoVal}]
  /\ seen' = [seen EXCEPT ![h] = {url[f] : f \in Subscribed}]
  /\ UNCHANGED <<tables, at, outcome, exporter, steady, late>>

\* The entry is done with.
Ends(h, result) ==
  /\ outcome' = [outcome EXCEPT ![h][at[h]] = result]
  /\ at' = [at EXCEPT ![h] = @ + 1]

\* Faulty variant: the map is not asked.
ImportAnyFolder(h) ==
  /\ AtEntry(h) /\ IsFolder(Here(h))
  /\ \E g \in FolderIds :
       /\ InsertFolder(g, Here(h).folder)
       /\ idOf' = [idOf EXCEPT ![h][Here(h).folder] = g]
       /\ Ends(h, "made")
  /\ UNCHANGED <<url, filed, title, pc, doc, there, seen, exporter, steady, late>>

\* A folder of the document: the map is asked whether it is there.
ImportFolder(h) ==
  /\ AtEntry(h) /\ IsFolder(Here(h))
  /\ \/ /\ idOf[h][Here(h).folder] # NoVal
        /\ Ends(h, "found")
        /\ UNCHANGED <<name, spent, idOf>>
     \/ /\ idOf[h][Here(h).folder] = NoVal
        /\ \E g \in FolderIds :
             /\ InsertFolder(g, Here(h).folder)
             /\ idOf' = [idOf EXCEPT ![h][Here(h).folder] = g]
             /\ Ends(h, "made")
  /\ UNCHANGED <<url, filed, title, pc, doc, there, seen, exporter, steady, late>>

\* "continue": the feeds of the folder are passed over.
FeedOfFolder(e) == ~IsFolder(e) /\ e.folder # Root
NextFolder(h, j) ==
  /\ \A i \in at[h] + 1 .. j - 1 : FeedOfFolder(doc[h][i])
  /\ j \in DOMAIN doc[h] => ~FeedOfFolder(doc[h][j])

ImportFolderFails(h) ==
  /\ DbMayFail
  /\ AtEntry(h) /\ IsFolder(Here(h)) /\ idOf[h][Here(h).folder] = NoVal
  /\ \E j \in at[h] + 1 .. Len(doc[h]) + 1 :
       /\ NextFolder(h, j)
       /\ at' = [at EXCEPT ![h] = j]
       /\ outcome' = [outcome EXCEPT ![h] =
            [i \in Places |-> IF i = at[h] THEN "failed"
                              ELSE IF i \in at[h] + 1 .. j - 1 THEN "dropped" ELSE @[i]]]
  /\ UNCHANGED <<tables, pc, doc, idOf, there, seen, exporter, steady, late>>

\* Faulty variant: any error of the query is taken for a feed that is there.
LookUpTrusting(h) ==
  /\ AtEntry(h) /\ ~IsFolder(Here(h))
  /\ \/ Here(h).url = Blank /\ Ends(h, "failed") /\ UNCHANGED pc
     \/ DbMayFail /\ Here(h).url # Blank /\ Ends(h, "found") /\ UNCHANGED pc
     \/ /\ Here(h).url # Blank
        /\ IF \E f \in FeedIds : url[f] = Here(h).url
             THEN Ends(h, "found") /\ UNCHANGED pc
             ELSE Goes(h, "insert") /\ UNCHANGED <<outcome, at>>
  /\ UNCHANGED <<tables, doc, idOf, there, seen, exporter, steady, late>>

\* importFeed, up to its first statement.
LookUpFeed(h) ==
  /\ AtEntry(h) /\ ~IsFolder(Here(h))
  /\ \/ (Here(h).url = Blank \/ DbMayFail) /\ Ends(h, "failed") /\ UNCHANGED pc
     \/ /\ Here(h).url # Blank
        /\ IF \E f \in FeedIds : url[f] = Here(h).url
             THEN Ends(h, "found") /\ UNCHANGED pc
             ELSE Goes(h, "insert") /\ UNCHANGED <<outcome, at>>
  /\ UNCHANGED <<tables, doc, idOf, there, seen, exporter, steady, late>>

\* folderMap[of.Name], or none.
FolderOf(h, e) == IF e.folder = Root THEN Root ELSE idOf[h][e.folder]

\* Its second statement; the title is the document's, of which nothing is known.
\* The background refresh that follows is one of Scheduler's.
ImportFeed(h) ==
  /\ pc[h] = "insert"
  /\ \E f \in FeedIds, t \in Titles : InsertFeed(f, Here(h).url, FolderOf(h, Here(h)), t)
  /\ Ends(h, "made") /\ Goes(h, "import")
  /\ UNCHANGED <<name, doc, idOf, there, exporter, steady>>

\* Another request subscribed to the URL since, or the statement failed.
ImportFeedFails(h) ==
  /\ pc[h] = "insert"
  /\ DbMayFail \/ \E f \in FeedIds : url[f] = Here(h).url
  /\ Ends(h, "failed") /\ Goes(h, "import")
  /\ UNCHANGED <<tables, doc, idOf, there, seen, exporter, steady, late>>

\* The loops are over: what was counted is the response.
ImportDone(h) ==
  /\ pc[h] = "import" /\ at[h] \notin DOMAIN doc[h]
  /\ Goes(h, "imported")
  /\ UNCHANGED <<tables, importer, exporter, steady, late>>

-----------------------------------------------------------------------------
(* ExportOPML.                                                             *)

ExportOPML(h) ==
  /\ pc[h] = "idle"
  /\ Goes(h, "page")
  /\ steady' = [steady EXCEPT ![h] = Subscribed]
  /\ UNCHANGED <<tables, importer, exporter, late>>

\* ORDER BY title, id.
Before(t, f, u, e) == t < u \/ (t = u /\ f < e)

\* Faulty variant: the title alone is compared.
AfterTitle(h, f) == cursor[h] = NoVal \/ cursor[h][1] < title[f]

\* Faulty variant: the last row is read again.
AfterOrAt(h, f) ==
  cursor[h] = NoVal \/ ~Before(title[f], f, cursor[h][1], cursor[h][2])

\* WHERE (title, id) > cursor.
After(h, f) ==
  cursor[h] = NoVal \/ Before(cursor[h][1], cursor[h][2], title[f], f)

\* feedStore.List, with the page sizes of this export.
IsPage(page, rows) ==
  IF Cardinality(rows) <= PageSize THEN page = rows
  ELSE /\ Cardinality(page) = PageSize
       /\ \A f \in page, e \in rows \ page : Before(title[f], f, title[e], e)

Last(f, page) == f \in page /\ \A e \in page \ {f} : Before(title[e], e, title[f], f)

Read(h) == {r[1] : r \in listed[h]}

FetchPage(h) ==
  /\ pc[h] = "page"
  /\ \E page \in SUBSET {f \in Subscribed : After(h, f)} :
       /\ IsPage(page, {f \in Subscribed : After(h, f)})
       /\ IF Cardinality(page) = PageSize
            THEN /\ \E f \in page : Last(f, page) /\ cursor' = [cursor EXCEPT ![h] = <<title[f], f>>]
                 /\ UNCHANGED pc
            ELSE Goes(h, "list") /\ UNCHANGED cursor
       /\ listed' = [listed EXCEPT ![h] = @ \cup {<<f, url[f], filed[f]>> : f \in page}]
       /\ twice' = [twice EXCEPT ![h] = @ \cup (Read(h) \cap page)]
  /\ UNCHANGED <<tables, importer, sheet, steady, late>>

\* Faulty variant: a feed whose folder is not there is left out.
HeadingStrict(g) == IF Exists(g) THEN name[g] ELSE NoVal

\* Under its folder's name, or at the root if there is no such folder.
Heading(g) == IF Exists(g) THEN name[g] ELSE Root

ListFolders(h) ==
  /\ pc[h] = "list"
  /\ Goes(h, "exported")
  /\ sheet' = [sheet EXCEPT ![h] = {<<r[1], r[2], Heading(r[3])>> : r \in listed[h]}]
  /\ listed' = [listed EXCEPT ![h] = {}] /\ cursor' = [cursor EXCEPT ![h] = NoVal]
  /\ UNCHANGED <<tables, importer, twice, steady, late>>

\* The handler returns.
Returns(h) ==
  /\ Goes(h, "idle")
  /\ doc' = [doc EXCEPT ![h] = <<>>] /\ at' = [at EXCEPT ![h] = 1]
  /\ idOf' = [idOf EXCEPT ![h] = NoFolders]
  /\ outcome' = [outcome EXCEPT ![h] = Untouched]
  /\ there' = [there EXCEPT ![h] = {}] /\ seen' = [seen EXCEPT ![h] = {}]
  /\ cursor' = [cursor EXCEPT ![h] = NoVal]
  /\ listed' = [listed EXCEPT ![h] = {}] /\ sheet' = [sheet EXCEPT ![h] = {}]
  /\ steady' = [steady EXCEPT ![h] = {}] /\ twice' = [twice EXCEPT ![h] = {}]
  /\ UNCHANGED <<tables, late>>

Respond(h) == pc[h] \in {"imported", "exported"} /\ Returns(h)

\* A page, or the folders, cannot be read.
ExportFails(h) == DbMayFail /\ pc[h] \in {"page", "list"} /\ Returns(h)

-----------------------------------------------------------------------------

Handle(h) ==
  \/ ImportFolder(h) \/ ImportFolderFails(h)
  \/ LookUpFeed(h) \/ ImportFeed(h) \/ ImportFeedFails(h) \/ ImportDone(h)
  \/ FetchPage(h) \/ ListFolders(h) \/ Respond(h)

Client ==
  \/ \E g \in FolderIds, n \in Names : CreateFolder(g, n) \/ UpdateFolder(g, n)
  \/ \E g \in FolderIds : DeleteFolder(g)
  \/ \E f \in FeedIds, g \in Known, t \in Titles :
       UpdateFeed(f, g, t) \/ \E u \in Urls : CreateFeed(f, u, g, t)
  \/ \E f \in FeedIds : DeleteFeed(f)
  \/ \E h \in Handlers : ExportOPML(h) \/ \E d \in Documents : ImportOPML(h, d)

Next == Client \/ \E h \in Handlers : Handle(h) \/ ExportFails(h)

Spec == Init /\ [][Next]_vars
=============================================================================
