--------------------------- MODULE FoldersProperties ---------------------------
(***************************************************************************)
(* What imports, exports and folders are meant to guarantee while other    *)
(* requests change the same tables between their statements.               *)
(***************************************************************************)
EXTENDS Folders

Opml == INSTANCE Opml
Seqs == INSTANCE SequencesExt

\* Nothing of an imported file vanishes without a trace.  An entry that the
\* loops have passed is there, or was at some time since the request began, or
\* is reported: by an error of its own, or by that of its folder, with which it
\* was passed over (ImportOPML, importFeed).  Of the response's counters, "made"
\* entries are in feeds_created and folders_created, "failed" feeds in
\* feeds_skipped, and "found" ones in none: feeds_skipped does not count the
\* feeds that already existed, as feed.proto:121 says it does, so a reader of the
\* response learns of them only by looking.
EntryAccountedFor(h, i) ==
  LET e == doc[h][i] IN
  /\ outcome[h][i] # "todo"
  /\ outcome[h][i] \in {"made", "found"} => IsFolder(e) \/ e.url \in seen[h]
  /\ outcome[h][i] = "failed" => DbMayFail \/ ~IsFolder(e)
  /\ outcome[h][i] = "dropped" =>
       ~IsFolder(e) /\ \E j \in 1 .. i - 1 :
         /\ IsFolder(doc[h][j]) /\ outcome[h][j] = "failed"
         /\ \A k \in j + 1 .. i : outcome[h][k] = "dropped" /\ doc[h][k].folder = e.folder

EveryEntryAccountedFor ==
  \A h \in Handlers : \A i \in DOMAIN doc[h] : i < at[h] => EntryAccountedFor(h, i)

\* An import makes no folder of a name that was there when it began, nor two of
\* one name, although names are not unique in the table and a file may repeat
\* them: the map read once and kept up by hand is enough (ImportOPML).
MadeFolders(h) == {i \in DOMAIN doc[h] : IsFolder(doc[h][i]) /\ outcome[h][i] = "made"}

ImportMakesNoDuplicateFolders ==
  \A h \in Handlers : \A i \in MadeFolders(h) :
    /\ doc[h][i].folder \notin there[h]
    /\ \A j \in MadeFolders(h) : doc[h][i].folder = doc[h][j].folder => i = j

\* No deletion of a folder leaves a feed behind in it: a feed is filed in a
\* folder that does not exist only if a request wrote it there after the folder
\* was gone, with an id from before (folderStore.Delete).
Dangling == {f \in Subscribed : filed[f] # Root /\ ~Exists(filed[f])}

OnlyLateWritesDangle == Dangling \subseteq late

\* An export is no snapshot: its pages and its list of folders are statements of
\* their own.  Still a feed whose row, and folder, nobody touched meanwhile is
\* on it once, under its folder (ExportOPML).
ExportFaithful ==
  \A h \in Handlers : pc[h] = "exported" =>
    \A f \in steady[h] :
      /\ {r \in sheet[h] : r[1] = f} = {<<f, url[f], Heading(filed[f])>>}
      /\ f \notin twice[h]

\* The file of an export, read back, has the feeds of the sheet under the names
\* of their folders, and no others (GenerateOPML, ParseOPML).
Group(h, heading) == Seqs!SetToSeq({r[2] : r \in {r \in sheet[h] : r[3] = heading}})

Headings(h) == Seqs!SetToSeq({r[3] : r \in sheet[h]} \ {Root})

DocumentOf(h) ==
  [folders |-> [i \in DOMAIN Headings(h) |->
                  [name |-> Headings(h)[i], feeds |-> Group(h, Headings(h)[i])]],
   feeds |-> Group(h, Root)]

\* The feeds of a document and where they are: <<URL, folder's name or Root>>.
Filing(d) ==
  {<<u, Root>> : u \in Seqs!ToSet(d.feeds)} \cup
  UNION {{<<u, g.name>> : u \in Seqs!ToSet(g.feeds)} : g \in Seqs!ToSet(d.folders)}

ExportReadsBack ==
  \A h \in Handlers : pc[h] = "exported" =>
    Filing(Opml!ParseOPML(Opml!GenerateOPML(DocumentOf(h)))) = {<<r[2], r[3]>> : r \in sheet[h]}

-----------------------------------------------------------------------------
(* Subscriptions.  What becomes of their articles is Scheduler's matter.    *)

FeedStatus ==
  [f \in FeedIds |-> IF f \notin spent THEN "new"
                     ELSE IF url[f] # NoVal THEN "live" ELSE "deleted"]

Subscr == INSTANCE Subscription
  WITH Documents <- {}, MaxErrors <- 1, ErrorCap <- 0,
       status <- FeedStatus, url <- url,
       stored <- [f \in FeedIds |-> {}], failures <- [f \in FeedIds |-> 0],
       permSeen <- {}

\* However imports look a URL up in one statement and insert it in a later one,
\* and others subscribe and unsubscribe between the two: every step is one of
\* Subscription, so that no URL is subscribed to twice at a time and no feed comes
\* back under the id of one that ended (CreateFeed, importFeed, DeleteFeed).
FeedsAreSubscriptions == Subscr!Spec

-----------------------------------------------------------------------------
(* The statements of a request return; clients need do nothing, and exports *)
(* need not fail.                                                          *)

FairSpec == Spec /\ \A h \in Handlers : WF_vars(Handle(h))

\* An import and an export end, whatever others do between their statements: an
\* export is not kept reading pages by feeds that are added or retitled.
RequestsEnd == \A h \in Handlers : pc[h] # "idle" ~> pc[h] = "idle"

-----------------------------------------------------------------------------
\* "Feeds in the folder become uncategorized" when it is deleted, says the API
\* (DeleteFolder in folder.proto): no feed is in a folder that is not there.
NoFeedInDeletedFolder == Dangling = {}
=============================================================================
