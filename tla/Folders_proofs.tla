---------------------------- MODULE Folders_proofs ----------------------------
(***************************************************************************)
(* Theorems about folders, imports and exports, for any number of rows,    *)
(* requests and documents, and pages of any size.                          *)
(***************************************************************************)
EXTENDS FoldersProperties, TLAPS

-----------------------------------------------------------------------------
(* Entries.                                                                *)

\* The title of a row that is not there is a title.
LEMMA AnyTitleType == AnyTitle \in Titles
BY NumbersAssumption DEF AnyTitle

\* Every entry of a document ParseOPML returns is a folder with a name, or a
\* feed of a folder or of the root.
LEMMA DocType ==
  ASSUME NEW d \in Documents, NEW i \in DOMAIN d
  PROVE  /\ d[i] \in Entry /\ i \in Places /\ i \in Nat \ {0}
         /\ IsFolder(d[i]) => d[i].folder \in Names
         /\ d[i].url # Blank /\ ~IsFolder(d[i]) => d[i].url \in Urls
         /\ d[i].folder \in Names \cup {Root}
<1>1. d \in Seq(Entry)
  BY DocumentsAssumption
<1>2. d[i] \in Entry /\ i \in Nat \ {0}
  BY <1>1
<1>3. i \in Places
  BY DEF Places
<1>4. IsFolder(d[i]) => d[i].folder # Root
  BY DocumentsAssumption
<1> QED BY <1>2, <1>3, <1>4 DEF Entry, IsFolder

\* The entry a handler is at.
LEMMA HereType ==
  ASSUME TypeOK, NEW h \in Handlers, at[h] \in DOMAIN doc[h]
  PROVE  /\ doc[h] \in Documents /\ doc[h] \in Seq(Entry)
         /\ Here(h) \in Entry /\ at[h] \in Places /\ at[h] \in Nat \ {0}
         /\ IsFolder(Here(h)) => Here(h).folder \in Names
         /\ Here(h).url # Blank /\ ~IsFolder(Here(h)) => Here(h).url \in Urls
         /\ Here(h).folder \in Names \cup {Root}
<1>1. doc[h] \in Documents
  BY DEF TypeOK
<1> QED BY <1>1, DocType, DocumentsAssumption DEF Here

\* Being done with an entry keeps outcomes and places of their types.
LEMMA EndsType ==
  ASSUME TypeOK, NEW h \in Handlers, at[h] \in Places, NEW r \in Outcomes, Ends(h, r)
  PROVE  /\ outcome' \in [Handlers -> [Places -> Outcomes]]
         /\ at' \in [Handlers -> Nat \ {0}]
BY DEF TypeOK, Ends

\* A feed under a folder comes after that folder, or after another feed of it.
LEMMA FeedFollows ==
  ASSUME NEW d \in Documents, NEW i \in Nat, i \in DOMAIN d, i + 1 \in DOMAIN d,
         FeedOfFolder(d[i + 1])
  PROVE  d[i].folder = d[i + 1].folder
<1>1. PICK j \in 1 .. (i + 1) - 1 :
        /\ IsFolder(d[j]) /\ d[j].folder = d[i + 1].folder
        /\ \A k \in j + 1 .. i + 1 : ~IsFolder(d[k]) /\ d[k].folder = d[i + 1].folder
  BY DocumentsAssumption DEF FeedOfFolder
<1>2. CASE j = i
  BY <1>1, <1>2
<1>3. CASE j < i
  BY <1>1, <1>3
<1> QED BY <1>1, <1>2, <1>3

\* A feed of a folder follows the entry of that folder, with only feeds of it
\* between them (ImportOPML walks folder by folder).
LEMMA HeadingOf ==
  ASSUME NEW d \in Documents, NEW i \in DOMAIN d, FeedOfFolder(d[i])
  PROVE  \E j \in 1 .. i - 1 :
           /\ IsFolder(d[j]) /\ d[j].folder = d[i].folder
           /\ \A k \in j + 1 .. i : ~IsFolder(d[k]) /\ d[k].folder = d[i].folder
BY DocumentsAssumption DEF FeedOfFolder

\* A document does not begin with a feed of a folder.
LEMMA FirstIsNoFeedOfFolder ==
  ASSUME NEW d \in Documents, 1 \in DOMAIN d
  PROVE  ~FeedOfFolder(d[1])
BY DocumentsAssumption DEF FeedOfFolder

-----------------------------------------------------------------------------
\* Where a handler may be: what its loops have established when they get there.
PlaceInv ==
  \A h \in Handlers :
    /\ pc[h] = "insert" =>
         at[h] \in DOMAIN doc[h] /\ ~IsFolder(Here(h)) /\ Here(h).url # Blank
    /\ Importing(h) /\ at[h] \in DOMAIN doc[h] /\ FeedOfFolder(Here(h)) =>
         idOf[h][Here(h).folder] # NoVal
    /\ ~Importing(h) => at[h] = 1 /\ outcome[h] = Untouched

\* Every step keeps the types.
LEMMA TypeStep == TypeOK /\ PlaceInv /\ [Next]_vars => TypeOK'
<1> SUFFICES ASSUME TypeOK, PlaceInv, [Next]_vars PROVE TypeOK'
  OBVIOUS
<1> USE DEF tables, importer, exporter
<1>1. ASSUME NEW g \in FolderIds, NEW n \in Names, CreateFolder(g, n) PROVE TypeOK'
  BY <1>1 DEF TypeOK, CreateFolder, InsertFolder
<1>2. ASSUME NEW g \in FolderIds, NEW n \in Names, UpdateFolder(g, n) PROVE TypeOK'
  BY <1>2 DEF TypeOK, UpdateFolder, Disturb
<1>3. ASSUME NEW g \in FolderIds, DeleteFolder(g) PROVE TypeOK'
  BY <1>3 DEF TypeOK, DeleteFolder, Disturb
<1>4. ASSUME NEW f \in FeedIds, NEW g \in Known, NEW t \in Titles, UpdateFeed(f, g, t)
      PROVE  TypeOK'
  BY <1>4 DEF TypeOK, UpdateFeed, Disturb, Known, Written
<1>5. ASSUME NEW f \in FeedIds, NEW g \in Known, NEW t \in Titles, NEW u \in Urls,
             CreateFeed(f, u, g, t)
      PROVE  TypeOK'
  BY <1>5 DEF TypeOK, CreateFeed, InsertFeed, Known, Written
<1>6. ASSUME NEW f \in FeedIds, DeleteFeed(f) PROVE TypeOK'
  BY <1>6, AnyTitleType DEF TypeOK, DeleteFeed, Disturb
<1>7. ASSUME NEW h \in Handlers, ExportOPML(h) PROVE TypeOK'
  BY <1>7 DEF TypeOK, ExportOPML, Goes, Subscribed
<1>8. ASSUME NEW h \in Handlers, NEW d \in Documents, ImportOPML(h, d) PROVE TypeOK'
  <2>1. {url[f] : f \in Subscribed} \subseteq Urls
    BY DEF TypeOK, Subscribed
  <2> QED BY <1>8, <2>1 DEF TypeOK, ImportOPML, Goes
<1>9. ASSUME NEW h \in Handlers, ImportFolder(h) PROVE TypeOK'
  <2>1. at[h] \in Places /\ Here(h).folder \in Names
    BY <1>9, HereType DEF ImportFolder, AtEntry
  <2>2. "found" \in Outcomes /\ "made" \in Outcomes
    BY DEF Outcomes
  <2>3. /\ outcome' \in [Handlers -> [Places -> Outcomes]]
        /\ at' \in [Handlers -> Nat \ {0}]
    BY <1>9, <2>1, <2>2, EndsType DEF ImportFolder
  <2>4. /\ name' \in [FolderIds -> Names \cup {NoVal}]
        /\ spent' \subseteq FolderIds \cup FeedIds
        /\ idOf' \in [Handlers -> [Names -> FolderIds \cup {NoVal}]]
    <3>1. CASE UNCHANGED <<name, spent, idOf>>
      BY <3>1 DEF TypeOK
    <3>2. ASSUME NEW g \in FolderIds, InsertFolder(g, Here(h).folder),
                 idOf' = [idOf EXCEPT ![h][Here(h).folder] = g]
          PROVE  /\ name' \in [FolderIds -> Names \cup {NoVal}]
                 /\ spent' \subseteq FolderIds \cup FeedIds
                 /\ idOf' \in [Handlers -> [Names -> FolderIds \cup {NoVal}]]
      BY <3>2, <2>1 DEF TypeOK, InsertFolder
    <3> QED BY <1>9, <3>1, <3>2 DEF ImportFolder
  <2> QED BY <1>9, <2>3, <2>4 DEF TypeOK, ImportFolder
<1>10. ASSUME NEW h \in Handlers, ImportFolderFails(h) PROVE TypeOK'
  <2>1. doc[h] \in Seq(Entry) /\ at[h] \in Nat \ {0}
    BY <1>10, HereType DEF ImportFolderFails, AtEntry
  <2>2. PICK j \in at[h] + 1 .. Len(doc[h]) + 1 :
          /\ at' = [at EXCEPT ![h] = j]
          /\ outcome' = [outcome EXCEPT ![h] =
               [i \in Places |-> IF i = at[h] THEN "failed"
                  ELSE IF i \in at[h] + 1 .. j - 1 THEN "dropped" ELSE @[i]]]
    BY <1>10 DEF ImportFolderFails
  <2>3. Len(doc[h]) \in Nat /\ j \in Nat \ {0}
    BY <2>1, <2>2
  <2>4. outcome' \in [Handlers -> [Places -> Outcomes]]
    BY <2>2 DEF TypeOK, Outcomes
  <2> QED BY <1>10, <2>2, <2>3, <2>4 DEF TypeOK, ImportFolderFails
<1>11. ASSUME NEW h \in Handlers, LookUpFeed(h) PROVE TypeOK'
  <2>1. at[h] \in Places /\ at[h] \in Nat \ {0}
    BY <1>11, HereType DEF LookUpFeed, AtEntry
  <2>2. "found" \in Outcomes /\ "failed" \in Outcomes
    BY DEF Outcomes
  <2>3. /\ outcome' \in [Handlers -> [Places -> Outcomes]]
        /\ at' \in [Handlers -> Nat \ {0}]
    BY <1>11, <2>1, <2>2, EndsType DEF LookUpFeed, TypeOK
  <2> QED BY <1>11, <2>3 DEF TypeOK, LookUpFeed, Goes
<1>12. ASSUME NEW h \in Handlers, ImportFeed(h) PROVE TypeOK'
  <2>1. at[h] \in DOMAIN doc[h] /\ ~IsFolder(Here(h)) /\ Here(h).url # Blank
    BY <1>12 DEF ImportFeed, PlaceInv
  <2>2. at[h] \in Places /\ Here(h).url \in Urls /\ Here(h).folder \in Names \cup {Root}
    BY <2>1, HereType
  <2>3. Here(h).folder # Root => idOf[h][Here(h).folder] # NoVal
    BY <1>12, <2>1 DEF ImportFeed, PlaceInv, FeedOfFolder, Importing
  <2>4. FolderOf(h, Here(h)) \in FolderIds \cup {Root}
    BY <2>2, <2>3 DEF FolderOf, TypeOK
  <2>5. "made" \in Outcomes
    BY DEF Outcomes
  <2>6. /\ outcome' \in [Handlers -> [Places -> Outcomes]]
        /\ at' \in [Handlers -> Nat \ {0}]
    BY <1>12, <2>2, <2>5, EndsType DEF ImportFeed
  <2>7. PICK f \in FeedIds, t \in Titles : InsertFeed(f, Here(h).url, FolderOf(h, Here(h)), t)
    BY <1>12 DEF ImportFeed
  <2>8. /\ url' \in [FeedIds -> Urls \cup {NoVal}]
        /\ filed' \in [FeedIds -> FolderIds \cup {Root}]
        /\ title' \in [FeedIds -> Titles]
        /\ spent' \subseteq FolderIds \cup FeedIds
        /\ late' \subseteq FeedIds
    BY <2>2, <2>4, <2>7 DEF TypeOK, InsertFeed, Written
  <2>9. seen' \in [Handlers -> SUBSET Urls]
    BY <2>2, <2>7 DEF TypeOK, InsertFeed
  <2> QED BY <1>12, <2>6, <2>8, <2>9 DEF TypeOK, ImportFeed, Goes
<1>13. ASSUME NEW h \in Handlers, ImportFeedFails(h) PROVE TypeOK'
  <2>1. at[h] \in Places
    BY <1>13, HereType DEF ImportFeedFails, PlaceInv
  <2>2. "failed" \in Outcomes
    BY DEF Outcomes
  <2>3. /\ outcome' \in [Handlers -> [Places -> Outcomes]]
        /\ at' \in [Handlers -> Nat \ {0}]
    BY <1>13, <2>1, <2>2, EndsType DEF ImportFeedFails
  <2> QED BY <1>13, <2>3 DEF TypeOK, ImportFeedFails, Goes
<1>14. ASSUME NEW h \in Handlers, ImportDone(h) PROVE TypeOK'
  BY <1>14 DEF TypeOK, ImportDone, Goes
<1>15. ASSUME NEW h \in Handlers, FetchPage(h) PROVE TypeOK'
  <2>1. PICK page \in SUBSET {f \in Subscribed : After(h, f)} :
          /\ IF Cardinality(page) = PageSize
               THEN /\ \E f \in page : Last(f, page) /\ cursor' = [cursor EXCEPT ![h] = <<title[f], f>>]
                    /\ UNCHANGED pc
               ELSE Goes(h, "list") /\ UNCHANGED cursor
          /\ listed' = [listed EXCEPT ![h] = @ \cup {<<f, url[f], filed[f]>> : f \in page}]
          /\ twice' = [twice EXCEPT ![h] = @ \cup (Read(h) \cap page)]
    BY <1>15 DEF FetchPage
  <2>2. page \subseteq FeedIds /\ \A f \in page : url[f] \in Urls
    BY DEF TypeOK, Subscribed
  <2>3. {<<f, url[f], filed[f]>> : f \in page} \subseteq FeedIds \X Urls \X (FolderIds \cup {Root})
    BY <2>2 DEF TypeOK
  <2>4. pc' \in [Handlers ->
          {"idle", "import", "insert", "imported", "page", "list", "exported"}]
    BY <2>1 DEF TypeOK, Goes
  <2>5. cursor' \in [Handlers -> (Titles \X FeedIds) \cup {NoVal}]
    <3>1. \A f \in page : <<title[f], f>> \in Titles \X FeedIds
      BY <2>2 DEF TypeOK
    <3>2. cursor' = cursor \/ \E c \in Titles \X FeedIds : cursor' = [cursor EXCEPT ![h] = c]
      BY <2>1, <3>1
    <3> QED BY <3>2 DEF TypeOK
  <2>6. /\ listed' \in [Handlers -> SUBSET (FeedIds \X Urls \X (FolderIds \cup {Root}))]
        /\ twice' \in [Handlers -> SUBSET FeedIds]
    BY <2>1, <2>2, <2>3 DEF TypeOK
  <2> QED BY <1>15, <2>4, <2>5, <2>6 DEF TypeOK, FetchPage
<1>16. ASSUME NEW h \in Handlers, ListFolders(h) PROVE TypeOK'
  <2>1. \A r \in listed[h] : <<r[1], r[2], Heading(r[3])>> \in FeedIds \X Urls \X (Names \cup {Root})
    BY DEF TypeOK, Heading, Exists
  <2>2. {<<r[1], r[2], Heading(r[3])>> : r \in listed[h]} \subseteq FeedIds \X Urls \X (Names \cup {Root})
    BY <2>1
  <2> QED BY <1>16, <2>2 DEF TypeOK, ListFolders, Goes
<1>17. ASSUME NEW h \in Handlers, Respond(h) \/ ExportFails(h) PROVE TypeOK'
  <2>1. /\ NoFolders \in [Names -> FolderIds \cup {NoVal}]
        /\ Untouched \in [Places -> Outcomes]
    BY DEF NoFolders, Untouched, Outcomes
  <2>2. Returns(h)
    BY <1>17 DEF Respond, ExportFails
  <2> QED BY <2>1, <2>2 DEF TypeOK, Returns, Goes
<1>18. CASE UNCHANGED vars
  BY <1>18 DEF TypeOK, vars
<1> QED BY <1>1, <1>2, <1>3, <1>4, <1>5, <1>6, <1>7, <1>8, <1>9, <1>10, <1>11, <1>12,
           <1>13, <1>14, <1>15, <1>16, <1>17, <1>18 DEF Next, Client, Handle

\* Every step keeps what is known of the place a handler is at.
LEMMA PlaceStep == TypeOK /\ PlaceInv /\ [Next]_vars => PlaceInv'
<1> SUFFICES ASSUME TypeOK, PlaceInv, [Next]_vars, NEW k \in Handlers
             PROVE  PlaceInv!(k)'
  BY DEF PlaceInv
<1> USE DEF importer, Here, Importing
\* Nothing of this handler changes.
<1>1. CASE /\ pc'[k] = pc[k] /\ doc'[k] = doc[k] /\ at'[k] = at[k]
           /\ idOf'[k] = idOf[k] /\ outcome'[k] = outcome[k]
  BY <1>1 DEF PlaceInv
\* It is not importing.
<1>2. CASE pc'[k] \notin {"import", "insert", "imported"} /\ at'[k] = 1 /\ outcome'[k] = Untouched
  BY <1>2
\* It goes on to the next entry: of the same folder, unless that is a folder itself.
<1>3. ASSUME pc'[k] = "import", doc'[k] = doc[k],
             at[k] \in DOMAIN doc[k], at'[k] = at[k] + 1,
             Here(k).folder # Root => idOf'[k][Here(k).folder] # NoVal
      PROVE  PlaceInv!(k)'
  <2>1. doc[k] \in Documents /\ at[k] \in Nat
    BY <1>3, HereType
  <2> SUFFICES ASSUME at'[k] \in DOMAIN doc[k], FeedOfFolder(doc[k][at'[k]])
               PROVE  idOf'[k][doc[k][at'[k]].folder] # NoVal
    BY <1>3
  <2>2. doc[k][at[k]].folder = doc[k][at[k] + 1].folder
    BY <1>3, <2>1, FeedFollows
  <2> QED BY <1>3, <2>2 DEF FeedOfFolder
<1>4. ASSUME NEW h \in Handlers, NEW d \in Documents, ImportOPML(h, d) PROVE PlaceInv!(k)'
  <2>1. CASE h = k
    <3>1. pc'[k] = "import" /\ doc'[k] = d /\ at'[k] = 1
      BY <1>4, <2>1 DEF ImportOPML, Goes, PlaceInv, TypeOK
    <3> QED BY <3>1, FirstIsNoFeedOfFolder
  <2>2. CASE h # k
    BY <1>1, <1>4, <2>2 DEF ImportOPML, Goes, TypeOK
  <2> QED BY <2>1, <2>2
<1>5. ASSUME NEW h \in Handlers, ImportFolder(h) PROVE PlaceInv!(k)'
  <2>1. CASE h = k
    <3>1. /\ Here(k).folder \in Names /\ at[k] \in DOMAIN doc[k]
          /\ pc'[k] = "import" /\ doc'[k] = doc[k]
      BY <1>5, <2>1, HereType DEF ImportFolder, AtEntry
    <3>2. at'[k] = at[k] + 1
      BY <1>5, <2>1 DEF ImportFolder, Ends, TypeOK
    <3>3. idOf'[k][Here(k).folder] # NoVal
      BY <1>5, <2>1, <3>1, DistinctAssumption DEF ImportFolder, TypeOK
    <3> QED BY <1>3, <3>1, <3>2, <3>3
  <2>2. CASE h # k
    BY <1>1, <1>5, <2>2 DEF ImportFolder, Ends, TypeOK
  <2> QED BY <2>1, <2>2
<1>6. ASSUME NEW h \in Handlers, ImportFolderFails(h) PROVE PlaceInv!(k)'
  <2>1. PICK j \in at[h] + 1 .. Len(doc[h]) + 1 :
          /\ NextFolder(h, j)
          /\ at' = [at EXCEPT ![h] = j]
          /\ outcome' = [outcome EXCEPT ![h] =
               [i \in Places |-> IF i = at[h] THEN "failed"
                  ELSE IF i \in at[h] + 1 .. j - 1 THEN "dropped" ELSE @[i]]]
    BY <1>6 DEF ImportFolderFails
  <2>2. CASE h = k
    <3>1. pc'[k] = "import" /\ at'[k] = j /\ doc'[k] = doc[k] /\ pc[k] = "import"
      BY <1>6, <2>1, <2>2 DEF ImportFolderFails, AtEntry, TypeOK
    <3> QED BY <2>1, <2>2, <3>1 DEF NextFolder
  <2>3. CASE h # k
    BY <1>1, <1>6, <2>1, <2>3 DEF ImportFolderFails, TypeOK
  <2> QED BY <2>2, <2>3
<1>7. ASSUME NEW h \in Handlers, LookUpFeed(h) PROVE PlaceInv!(k)'
  <2>1. CASE h = k
    <3>1. /\ at[k] \in DOMAIN doc[k] /\ pc[k] = "import" /\ ~IsFolder(Here(k))
          /\ doc' = doc /\ idOf' = idOf
      BY <1>7, <2>1 DEF LookUpFeed, AtEntry
    <3>2. Here(k).folder # Root => idOf'[k][Here(k).folder] # NoVal
      BY <3>1 DEF PlaceInv, FeedOfFolder
    <3>3. \/ at'[k] = at[k] + 1 /\ pc' = pc
          \/ /\ pc'[k] = "insert" /\ at' = at /\ Here(k).url # Blank
      BY <1>7, <2>1 DEF LookUpFeed, Ends, Goes, TypeOK
    <3>4. CASE at'[k] = at[k] + 1 /\ pc' = pc
      BY <1>3, <3>1, <3>2, <3>4
    <3>5. CASE pc'[k] = "insert" /\ at' = at /\ Here(k).url # Blank
      BY <3>1, <3>2, <3>5 DEF FeedOfFolder
    <3> QED BY <3>3, <3>4, <3>5
  <2>2. CASE h # k
    BY <1>1, <1>7, <2>2 DEF LookUpFeed, Ends, Goes, TypeOK
  <2> QED BY <2>1, <2>2
<1>8. ASSUME NEW h \in Handlers, ImportFeed(h) \/ ImportFeedFails(h) PROVE PlaceInv!(k)'
  <2>1. CASE h = k
    <3>1. /\ at[k] \in DOMAIN doc[k] /\ pc[k] = "insert" /\ ~IsFolder(Here(k))
          /\ doc' = doc /\ idOf' = idOf
      BY <1>8, <2>1 DEF ImportFeed, ImportFeedFails, PlaceInv
    <3>2. Here(k).folder # Root => idOf'[k][Here(k).folder] # NoVal
      BY <3>1 DEF PlaceInv, FeedOfFolder
    <3>3. at'[k] = at[k] + 1 /\ pc'[k] = "import"
      BY <1>8, <2>1 DEF ImportFeed, ImportFeedFails, Ends, Goes, TypeOK
    <3> QED BY <1>3, <3>1, <3>2, <3>3
  <2>2. CASE h # k
    BY <1>1, <1>8, <2>2 DEF ImportFeed, ImportFeedFails, Ends, Goes, TypeOK
  <2> QED BY <2>1, <2>2
<1>9. ASSUME NEW h \in Handlers, ImportDone(h) PROVE PlaceInv!(k)'
  BY <1>9 DEF ImportDone, Goes, TypeOK, PlaceInv
<1>10. ASSUME NEW h \in Handlers, ExportOPML(h) \/ FetchPage(h) \/ ListFolders(h)
       PROVE  PlaceInv!(k)'
  <2>1. doc' = doc /\ at' = at /\ idOf' = idOf /\ outcome' = outcome
    BY <1>10 DEF ExportOPML, FetchPage, ListFolders
  <2>2. CASE h = k
    <3>1. pc[k] \in {"idle", "page", "list"} /\ pc'[k] \in {"page", "list", "exported"}
      BY <1>10, <2>2 DEF ExportOPML, FetchPage, ListFolders, Goes, TypeOK
    <3> QED BY <1>2, <2>1, <3>1 DEF PlaceInv
  <2>3. CASE h # k
    <3>1. pc'[k] = pc[k]
      BY <1>10, <2>3 DEF ExportOPML, FetchPage, ListFolders, Goes, TypeOK
    <3> QED BY <1>1, <2>1, <3>1
  <2> QED BY <2>2, <2>3
<1>11. ASSUME NEW h \in Handlers, Respond(h) \/ ExportFails(h) PROVE PlaceInv!(k)'
  <2>1. Returns(h)
    BY <1>11 DEF Respond, ExportFails
  <2>2. CASE h = k
    BY <1>2, <2>1, <2>2 DEF Returns, Goes, TypeOK
  <2>3. CASE h # k
    BY <1>1, <2>1, <2>3 DEF Returns, Goes, TypeOK
  <2> QED BY <2>2, <2>3
<1>12. ASSUME NEW g \in FolderIds, NEW n \in Names, CreateFolder(g, n) \/ UpdateFolder(g, n)
       PROVE  PlaceInv!(k)'
  BY <1>1, <1>12 DEF CreateFolder, UpdateFolder
<1>13. ASSUME NEW g \in FolderIds, DeleteFolder(g) PROVE PlaceInv!(k)'
  BY <1>1, <1>13 DEF DeleteFolder
<1>14. ASSUME NEW f \in FeedIds, NEW g, NEW t, UpdateFeed(f, g, t) PROVE PlaceInv!(k)'
  BY <1>1, <1>14 DEF UpdateFeed
<1>15. ASSUME NEW f \in FeedIds, NEW g, NEW t, NEW u, CreateFeed(f, u, g, t) PROVE PlaceInv!(k)'
  BY <1>1, <1>15 DEF CreateFeed
<1>16. ASSUME NEW f \in FeedIds, DeleteFeed(f) PROVE PlaceInv!(k)'
  BY <1>1, <1>16 DEF DeleteFeed
<1>17. CASE UNCHANGED vars
  BY <1>1, <1>17 DEF vars
<1> QED BY <1>4, <1>5, <1>6, <1>7, <1>8, <1>9, <1>10, <1>11, <1>12, <1>13, <1>14, <1>15, <1>16,
           <1>17 DEF Next, Client, Handle

\* Types and places hold when nothing has been asked yet.
LEMMA PlaceInit == Init => TypeOK /\ PlaceInv
BY AnyTitleType DEF Init, TypeOK, PlaceInv, Importing, NoFolders, Untouched, Outcomes

\* The variables keep their types, whatever requests do to the same tables.
THEOREM FoldersTypeCorrect == Spec => []TypeOK
<1>1. TypeOK /\ PlaceInv /\ [Next]_vars => TypeOK' /\ PlaceInv'
  BY TypeStep, PlaceStep
<1> QED BY <1>1, PlaceInit, PTL DEF Spec

-----------------------------------------------------------------------------
(* What becomes of the entries of a file.                                  *)

\* Every URL that is subscribed has been seen by each import under way.
SeenInv == \A h \in Handlers : Importing(h) => \A f \in Subscribed : url[f] \in seen[h]

\* Every step keeps the record of the URLs seen during an import.
LEMMA SeenStep == TypeOK /\ SeenInv /\ [Next]_vars => SeenInv'
<1> SUFFICES ASSUME TypeOK, SeenInv, [Next]_vars, NEW k \in Handlers, Importing(k)',
                    NEW e \in FeedIds, url'[e] # NoVal
             PROVE  url'[e] \in seen'[k]
  BY DEF SeenInv, Subscribed
<1> USE DEF importer, tables
\* No feed is added.
<1>1. CASE Importing(k) /\ url'[e] \in {url[e], NoVal} /\ seen[k] \subseteq seen'[k]
  BY <1>1 DEF SeenInv, Subscribed
<1>2. ASSUME NEW f \in FeedIds, NEW u, NEW g, NEW t, InsertFeed(f, u, g, t), Importing(k)
      PROVE  url'[e] \in seen'[k]
  <2>1. seen'[k] = seen[k] \cup {u}
    BY <1>2 DEF InsertFeed, TypeOK
  <2>2. url'[e] \in {url[e], u}
    BY <1>2 DEF InsertFeed, TypeOK
  <2> QED BY <1>2, <2>1, <2>2 DEF SeenInv, Subscribed
<1>3. ASSUME NEW h \in Handlers, NEW d \in Documents, ImportOPML(h, d)
      PROVE  url'[e] \in seen'[k]
  <2>1. CASE h = k
    BY <1>3, <2>1 DEF ImportOPML, Subscribed, TypeOK
  <2>2. CASE h # k
    BY <1>1, <1>3, <2>2 DEF ImportOPML, Goes, Importing, TypeOK
  <2> QED BY <2>1, <2>2
<1>4. ASSUME NEW h \in Handlers,
             \/ ImportFolder(h) \/ ImportFolderFails(h) \/ LookUpFeed(h)
             \/ ImportFeedFails(h) \/ ImportDone(h)
      PROVE  url'[e] \in seen'[k]
  <2>1. url' = url /\ seen' = seen
    BY <1>4 DEF ImportFolder, ImportFolderFails, LookUpFeed, ImportFeedFails, ImportDone
  <2>2. Importing(k)
    <3>1. pc[h] \in {"import", "insert"}
      BY <1>4 DEF ImportFolder, ImportFolderFails, LookUpFeed, ImportFeedFails, ImportDone, AtEntry
    <3>2. h # k => pc'[k] = pc[k]
      BY <1>4 DEF ImportFolder, ImportFolderFails, LookUpFeed, ImportFeedFails, ImportDone,
                  Goes, TypeOK
    <3> QED BY <3>1, <3>2 DEF Importing
  <2> QED BY <1>1, <2>1, <2>2
<1>5. ASSUME NEW h \in Handlers, ImportFeed(h) PROVE url'[e] \in seen'[k]
  <2>1. Importing(k)
    BY <1>5 DEF ImportFeed, Goes, Importing, TypeOK
  <2> QED BY <1>2, <1>5, <2>1 DEF ImportFeed
<1>6. ASSUME NEW h \in Handlers, ExportOPML(h) \/ FetchPage(h) \/ ListFolders(h)
      PROVE  url'[e] \in seen'[k]
  <2>1. h # k
    BY <1>6 DEF ExportOPML, FetchPage, ListFolders, Goes, Importing, TypeOK
  <2>2. pc'[k] = pc[k]
    BY <1>6, <2>1 DEF ExportOPML, FetchPage, ListFolders, Goes, TypeOK
  <2>3. url' = url /\ seen' = seen
    BY <1>6 DEF ExportOPML, FetchPage, ListFolders
  <2> QED BY <1>1, <2>2, <2>3 DEF Importing
<1>7. ASSUME NEW h \in Handlers, Respond(h) \/ ExportFails(h) PROVE url'[e] \in seen'[k]
  <2>1. Returns(h)
    BY <1>7 DEF Respond, ExportFails
  <2>2. h # k
    BY <2>1 DEF Returns, Goes, Importing, TypeOK
  <2> QED BY <1>1, <2>1, <2>2 DEF Returns, Goes, Importing, TypeOK
<1>8. ASSUME NEW g \in FolderIds, NEW n \in Names, CreateFolder(g, n) \/ UpdateFolder(g, n)
      PROVE  url'[e] \in seen'[k]
  BY <1>1, <1>8 DEF CreateFolder, UpdateFolder, Importing
<1>9. ASSUME NEW g \in FolderIds, DeleteFolder(g) PROVE url'[e] \in seen'[k]
  BY <1>1, <1>9 DEF DeleteFolder, Importing
<1>10. ASSUME NEW f \in FeedIds, NEW g, NEW t, UpdateFeed(f, g, t) PROVE url'[e] \in seen'[k]
  BY <1>1, <1>10 DEF UpdateFeed, Importing
<1>11. ASSUME NEW f \in FeedIds, NEW g, NEW t, NEW u, CreateFeed(f, u, g, t)
       PROVE  url'[e] \in seen'[k]
  BY <1>2, <1>11 DEF CreateFeed, Importing
<1>12. ASSUME NEW f \in FeedIds, DeleteFeed(f) PROVE url'[e] \in seen'[k]
  BY <1>1, <1>12 DEF DeleteFeed, Importing, TypeOK
<1>13. CASE UNCHANGED vars
  BY <1>1, <1>13 DEF vars, Importing
<1> QED BY <1>3, <1>4, <1>5, <1>6, <1>7, <1>8, <1>9, <1>10, <1>11, <1>12, <1>13
        DEF Next, Client, Handle

EntryInv ==
  \A h \in Handlers : \A i \in DOMAIN doc[h] :
    /\ i < at[h] => EntryAccountedFor(h, i)
    /\ i >= at[h] => outcome[h][i] = "todo"

\* An entry stays accounted for while it and those before it keep their outcomes.
LEMMA SameEntry ==
  ASSUME NEW h \in Handlers, NEW i \in Nat \ {0}, doc'[h] = doc[h], seen[h] \subseteq seen'[h],
         \A m \in 1 .. i : outcome'[h][m] = outcome[h][m],
         EntryAccountedFor(h, i)
  PROVE  EntryAccountedFor(h, i)'
<1>1. outcome'[h][i] = outcome[h][i]
  OBVIOUS
<1>2. ASSUME NEW j \in 1 .. i - 1,
             IsFolder(doc[h][j]) /\ outcome[h][j] = "failed",
             \A k \in j + 1 .. i : outcome[h][k] = "dropped" /\ doc[h][k].folder = doc[h][i].folder
      PROVE  /\ IsFolder(doc'[h][j]) /\ outcome'[h][j] = "failed"
             /\ \A k \in j + 1 .. i :
                  outcome'[h][k] = "dropped" /\ doc'[h][k].folder = doc'[h][i].folder
  BY <1>2
<1> QED BY <1>1, <1>2 DEF EntryAccountedFor

\* Every step keeps the account of the entries: one step per action.
LEMMA EntryStep == TypeOK /\ PlaceInv /\ SeenInv /\ EntryInv /\ [Next]_vars => EntryInv'
<1> SUFFICES ASSUME TypeOK, PlaceInv, SeenInv, EntryInv, [Next]_vars,
                    NEW k \in Handlers, NEW i \in DOMAIN doc'[k]
             PROVE  EntryInv!(k)!(i)'
  BY DEF EntryInv
<1> USE DEF importer
\* Nothing of this handler changes, except that feeds are added.
<1>1. CASE /\ doc'[k] = doc[k] /\ at'[k] = at[k] /\ outcome'[k] = outcome[k]
           /\ seen[k] \subseteq seen'[k]
  <2>1. i \in DOMAIN doc[k] /\ EntryInv!(k)!(i)
    BY <1>1 DEF EntryInv
  <2> QED BY <1>1, <2>1 DEF EntryAccountedFor
\* It is done with the entry it is at.
<1>2. ASSUME NEW r \in {"made", "found", "failed"}, at[k] \in DOMAIN doc[k],
             doc'[k] = doc[k], Ends(k, r), seen[k] \subseteq seen'[k],
             r # "failed" => IsFolder(Here(k)) \/ Here(k).url \in seen'[k],
             r = "failed" => ~IsFolder(Here(k))
      PROVE  EntryInv!(k)!(i)'
  <2>1. /\ doc[k] \in Seq(Entry) /\ at[k] \in Nat /\ at[k] \in Places
        /\ i \in DOMAIN doc[k] /\ i \in Nat \ {0} /\ i \in Places
    BY <1>2, HereType, DocType
  <2>2. /\ at'[k] = at[k] + 1
        /\ outcome'[k] = [outcome[k] EXCEPT ![at[k]] = r]
    BY <1>2 DEF Ends, TypeOK
  <2>3. outcome[k] \in [Places -> Outcomes]
    BY DEF TypeOK
  <2>4. EntryInv!(k)!(i)
    BY <2>1 DEF EntryInv
  <2>5. CASE i < at[k]
    <3>1. EntryAccountedFor(k, i)
      BY <2>4, <2>5
    <3>2. \A m \in 1 .. i : outcome'[k][m] = outcome[k][m]
      BY <2>1, <2>2, <2>3, <2>5
    <3>3. EntryAccountedFor(k, i)'
      BY <1>2, <2>1, <3>1, <3>2, SameEntry
    <3> QED BY <2>1, <2>2, <2>5, <3>3
  <2>6. CASE i = at[k]
    <3>1. outcome'[k][i] = r /\ doc'[k][i] = Here(k)
      BY <1>2, <2>1, <2>2, <2>3, <2>6 DEF Here
    <3>2. EntryAccountedFor(k, i)'
      BY <1>2, <3>1 DEF EntryAccountedFor
    <3> QED BY <2>1, <2>2, <2>6, <3>2
  <2>7. CASE i > at[k]
    BY <2>1, <2>2, <2>3, <2>4, <2>7
  <2> QED BY <2>1, <2>5, <2>6, <2>7
<1>3. ASSUME NEW h \in Handlers, NEW d \in Documents, ImportOPML(h, d)
      PROVE  EntryInv!(k)!(i)'
  <2>1. CASE h = k
    <3>1. doc'[k] = d /\ at'[k] = 1 /\ outcome'[k] = Untouched
      BY <1>3, <2>1 DEF ImportOPML, PlaceInv, Importing, TypeOK
    <3>2. i \in Places /\ i \in Nat \ {0}
      BY <3>1, DocType
    <3> QED BY <3>1, <3>2 DEF Untouched
  <2>2. CASE h # k
    BY <1>1, <1>3, <2>2 DEF ImportOPML, TypeOK
  <2> QED BY <2>1, <2>2
<1>4. ASSUME NEW h \in Handlers, ImportFolder(h) PROVE EntryInv!(k)!(i)'
  <2>1. CASE h = k
    <3>1. at[k] \in DOMAIN doc[k] /\ IsFolder(Here(k)) /\ doc' = doc /\ seen' = seen
      BY <1>4, <2>1 DEF ImportFolder, AtEntry
    <3>2. Ends(k, "made") \/ Ends(k, "found")
      BY <1>4, <2>1 DEF ImportFolder
    <3> QED BY <1>2, <3>1, <3>2
  <2>2. CASE h # k
    BY <1>1, <1>4, <2>2 DEF ImportFolder, Ends, TypeOK
  <2> QED BY <2>1, <2>2
<1>5. ASSUME NEW h \in Handlers, ImportFolderFails(h) PROVE EntryInv!(k)!(i)'
  <2>1. PICK j \in at[h] + 1 .. Len(doc[h]) + 1 :
          /\ NextFolder(h, j)
          /\ at' = [at EXCEPT ![h] = j]
          /\ outcome' = [outcome EXCEPT ![h] =
               [m \in Places |-> IF m = at[h] THEN "failed"
                  ELSE IF m \in at[h] + 1 .. j - 1 THEN "dropped" ELSE @[m]]]
    BY <1>5 DEF ImportFolderFails
  <2>2. CASE h = k
    <3>1. /\ doc'[k] = doc[k] /\ at'[k] = j /\ seen' = seen /\ DbMayFail
          /\ at[k] \in DOMAIN doc[k] /\ IsFolder(Here(k))
          /\ outcome'[k] = [m \in Places |-> IF m = at[k] THEN "failed"
               ELSE IF m \in at[k] + 1 .. j - 1 THEN "dropped" ELSE outcome[k][m]]
      BY <1>5, <2>1, <2>2 DEF ImportFolderFails, AtEntry, TypeOK
    <3>2. /\ doc[k] \in Documents /\ doc[k] \in Seq(Entry) /\ at[k] \in Nat \ {0}
          /\ at[k] \in Places /\ i \in DOMAIN doc[k] /\ i \in Nat \ {0} /\ i \in Places
      BY <3>1, HereType, DocType
    <3>3. \A m \in 1 .. i : m \in DOMAIN doc[k] /\ m \in Places
      BY <3>2, DocType
    <3>4. EntryInv!(k)!(i)
      BY <3>2 DEF EntryInv
    <3>5. j \in Nat /\ j > at[k]
      BY <2>1, <2>2, <3>2
    <3>6. CASE i < at[k]
      <4>1. \A m \in 1 .. i : outcome'[k][m] = outcome[k][m]
        BY <3>1, <3>2, <3>3, <3>5, <3>6
      <4>2. EntryAccountedFor(k, i)
        BY <3>4, <3>6
      <4>3. EntryAccountedFor(k, i)'
        BY <3>1, <3>2, <4>1, <4>2, SameEntry
      <4> QED BY <3>1, <3>2, <3>5, <3>6, <4>3
    <3>7. CASE i = at[k]
      <4>1. outcome'[k][i] = "failed"
        BY <3>1, <3>2, <3>7
      <4>2. EntryAccountedFor(k, i)'
        BY <3>1, <4>1 DEF EntryAccountedFor
      <4> QED BY <3>1, <3>2, <3>5, <3>7, <4>2
    <3>8. CASE i \in at[k] + 1 .. j - 1
      <4>1. \A m \in at[k] + 1 .. i : FeedOfFolder(doc[k][m]) /\ outcome'[k][m] = "dropped"
        BY <2>1, <2>2, <3>1, <3>2, <3>3, <3>5, <3>8 DEF NextFolder
      <4>2. FeedOfFolder(doc[k][i])
        BY <3>2, <3>8, <4>1
      <4>3. PICK j0 \in 1 .. i - 1 :
              /\ IsFolder(doc[k][j0]) /\ doc[k][j0].folder = doc[k][i].folder
              /\ \A m \in j0 + 1 .. i : ~IsFolder(doc[k][m]) /\ doc[k][m].folder = doc[k][i].folder
        BY <3>2, <4>2, HeadingOf
      <4>4. j0 <= at[k]
        BY <3>2, <4>1, <4>3 DEF FeedOfFolder
      <4>5. j0 >= at[k]
        BY <3>1, <3>2, <3>8, <4>3 DEF Here
      <4>6. j0 = at[k]
        BY <3>2, <4>3, <4>4, <4>5
      <4>7. outcome'[k][j0] = "failed"
        BY <3>1, <3>2, <4>6
      <4>8. /\ outcome'[k][i] = "dropped"
            /\ \A m \in j0 + 1 .. i : outcome'[k][m] = "dropped"
        BY <3>2, <3>8, <4>1, <4>6
      <4>9. EntryAccountedFor(k, i)'
        BY <3>1, <4>2, <4>3, <4>7, <4>8 DEF EntryAccountedFor, FeedOfFolder
      <4> QED BY <3>1, <3>2, <3>5, <3>8, <4>9
    <3>9. CASE i >= j
      BY <3>1, <3>2, <3>4, <3>5, <3>9
    <3> QED BY <3>2, <3>5, <3>6, <3>7, <3>8, <3>9
  <2>3. CASE h # k
    BY <1>1, <1>5, <2>1, <2>3 DEF ImportFolderFails, TypeOK
  <2> QED BY <2>2, <2>3
<1>6. ASSUME NEW h \in Handlers, LookUpFeed(h) PROVE EntryInv!(k)!(i)'
  <2>1. CASE h = k
    <3>1. /\ at[k] \in DOMAIN doc[k] /\ ~IsFolder(Here(k)) /\ doc' = doc /\ seen' = seen
      BY <1>6, <2>1 DEF LookUpFeed, AtEntry
    <3>2. CASE Ends(k, "failed")
      BY <1>2, <3>1, <3>2
    <3>3. CASE Ends(k, "found") /\ \E f \in FeedIds : url[f] = Here(k).url
      <4>1. Here(k).url \in seen[k]
        <5>1. PICK f \in FeedIds : url[f] = Here(k).url
          BY <3>3
        <5>2. url[f] # NoVal /\ Importing(k)
          BY <1>6, <2>1, <3>1, <5>1 DEF IsFolder, LookUpFeed, AtEntry, Importing
        <5> QED BY <5>1, <5>2 DEF SeenInv, Subscribed
      <4> QED BY <1>2, <3>1, <3>3, <4>1
    <3>4. CASE UNCHANGED <<outcome, at>>
      BY <1>1, <3>1, <3>4
    <3> QED BY <1>6, <2>1, <3>2, <3>3, <3>4 DEF LookUpFeed
  <2>2. CASE h # k
    BY <1>1, <1>6, <2>2 DEF LookUpFeed, Ends, TypeOK
  <2> QED BY <2>1, <2>2
<1>7. ASSUME NEW h \in Handlers, ImportFeed(h) PROVE EntryInv!(k)!(i)'
  <2>1. PICK f \in FeedIds, t \in Titles : InsertFeed(f, Here(h).url, FolderOf(h, Here(h)), t)
    BY <1>7 DEF ImportFeed
  <2>2. seen[k] \subseteq seen'[k]
    BY <2>1 DEF InsertFeed, TypeOK
  <2>3. CASE h = k
    <3>1. at[k] \in DOMAIN doc[k] /\ doc' = doc /\ Ends(k, "made")
      BY <1>7, <2>3 DEF ImportFeed, PlaceInv
    <3>2. Here(k).url \in seen'[k]
      BY <1>7, <2>1, <2>3 DEF ImportFeed, InsertFeed, Importing, TypeOK
    <3> QED BY <1>2, <2>2, <3>1, <3>2
  <2>4. CASE h # k
    BY <1>1, <1>7, <2>2, <2>4 DEF ImportFeed, Ends, TypeOK
  <2> QED BY <2>3, <2>4
<1>8. ASSUME NEW h \in Handlers, ImportFeedFails(h) PROVE EntryInv!(k)!(i)'
  <2>1. CASE h = k
    BY <1>2, <1>8, <2>1 DEF ImportFeedFails, PlaceInv
  <2>2. CASE h # k
    BY <1>1, <1>8, <2>2 DEF ImportFeedFails, Ends, TypeOK
  <2> QED BY <2>1, <2>2
<1>9. ASSUME NEW h \in Handlers,
             ImportDone(h) \/ ExportOPML(h) \/ FetchPage(h) \/ ListFolders(h)
      PROVE  EntryInv!(k)!(i)'
  BY <1>1, <1>9 DEF ImportDone, ExportOPML, FetchPage, ListFolders
<1>10. ASSUME NEW h \in Handlers, Respond(h) \/ ExportFails(h) PROVE EntryInv!(k)!(i)'
  <2>1. Returns(h)
    BY <1>10 DEF Respond, ExportFails
  <2>2. h # k
    <3>1. h = k => doc'[k] = <<>>
      BY <2>1 DEF Returns, TypeOK
    <3> QED BY <3>1
  <2> QED BY <1>1, <2>1, <2>2 DEF Returns, TypeOK
<1>11. ASSUME NEW g \in FolderIds, NEW n \in Names, CreateFolder(g, n) \/ UpdateFolder(g, n)
       PROVE  EntryInv!(k)!(i)'
  BY <1>1, <1>11 DEF CreateFolder, UpdateFolder
<1>12. ASSUME NEW g \in FolderIds, DeleteFolder(g) PROVE EntryInv!(k)!(i)'
  BY <1>1, <1>12 DEF DeleteFolder
<1>13. ASSUME NEW f \in FeedIds, NEW g, NEW t, UpdateFeed(f, g, t) PROVE EntryInv!(k)!(i)'
  BY <1>1, <1>13 DEF UpdateFeed
<1>14. ASSUME NEW f \in FeedIds, NEW g, NEW t, NEW u, CreateFeed(f, u, g, t)
       PROVE  EntryInv!(k)!(i)'
  BY <1>1, <1>14 DEF CreateFeed, InsertFeed, TypeOK
<1>15. ASSUME NEW f \in FeedIds, DeleteFeed(f) PROVE EntryInv!(k)!(i)'
  BY <1>1, <1>15 DEF DeleteFeed
<1>16. CASE UNCHANGED vars
  BY <1>1, <1>16 DEF vars
<1> QED BY <1>3, <1>4, <1>5, <1>6, <1>7, <1>8, <1>9, <1>10, <1>11, <1>12, <1>13, <1>14, <1>15,
           <1>16 DEF Next, Client, Handle

\* There is nothing to account for at first.
LEMMA EntryInit == Init => SeenInv /\ EntryInv
BY DEF Init, SeenInv, EntryInv, Subscribed

\* Every entry an import has passed is there, was there, or is reported.
THEOREM EntriesAccountedFor == Spec => []EveryEntryAccountedFor
<1>1. /\ TypeOK /\ PlaceInv /\ SeenInv /\ EntryInv /\ [Next]_vars
         => TypeOK' /\ PlaceInv' /\ SeenInv' /\ EntryInv'
  BY TypeStep, PlaceStep, SeenStep, EntryStep
<1>2. EntryInv => EveryEntryAccountedFor
  BY DEF EntryInv, EveryEntryAccountedFor
<1> QED BY <1>1, <1>2, PlaceInit, EntryInit, PTL DEF Spec

-----------------------------------------------------------------------------
(* The map of folders.                                                     *)

MapInv ==
  \A h \in Handlers : Importing(h) =>
    /\ \A n \in there[h] : idOf[h][n] # NoVal
    /\ \A i \in MadeFolders(h) :
         /\ doc[h][i].folder \in Names /\ idOf[h][doc[h][i].folder] # NoVal
         /\ doc[h][i].folder \notin there[h]
         /\ \A j \in MadeFolders(h) : doc[h][i].folder = doc[h][j].folder => i = j

\* Every step keeps what folderMap knows: one step per action.
LEMMA MapStep == TypeOK /\ PlaceInv /\ MapInv /\ [Next]_vars => MapInv'
<1> SUFFICES ASSUME TypeOK, PlaceInv, MapInv, [Next]_vars,
                    NEW k \in Handlers, Importing(k)'
             PROVE  MapInv!(k)!2'
  BY DEF MapInv
<1> USE DEF importer
\* No folder is made.
<1>1. CASE /\ Importing(k) /\ doc'[k] = doc[k] /\ idOf'[k] = idOf[k] /\ there'[k] = there[k]
           /\ \A i \in DOMAIN doc[k] :
                outcome'[k][i] = "made" => outcome[k][i] = "made" \/ ~IsFolder(doc[k][i])
  <2>1. MadeFolders(k)' \subseteq MadeFolders(k)
    BY <1>1 DEF MadeFolders
  <2> QED BY <1>1, <2>1 DEF MapInv
<1>2. ASSUME Importing(k), at[k] \in DOMAIN doc[k], doc'[k] = doc[k], idOf'[k] = idOf[k],
             there'[k] = there[k],
             NEW r, Ends(k, r), r = "made" => ~IsFolder(Here(k))
      PROVE  MapInv!(k)!2'
  <2>1. \A i \in DOMAIN doc[k] : outcome'[k][i] = "made" =>
          outcome[k][i] = "made" \/ ~IsFolder(doc[k][i])
    <3> TAKE i \in DOMAIN doc[k]
    <3>1. i \in Places
      BY <1>2, HereType, DocType
    <3> QED BY <1>2, <3>1 DEF Ends, Here, TypeOK
  <2> QED BY <1>1, <1>2, <2>1
<1>3. ASSUME NEW h \in Handlers, NEW d \in Documents, ImportOPML(h, d)
      PROVE  MapInv!(k)!2'
  <2>1. CASE h = k
    <3>1. doc'[k] = d /\ outcome'[k] = Untouched
      BY <1>3, <2>1 DEF ImportOPML, PlaceInv, Importing, TypeOK
    <3>2. \A i \in DOMAIN d : i \in Places
      BY DocType
    <3>3. MadeFolders(k)' = {}
      BY <3>1, <3>2 DEF MadeFolders, Untouched
    <3>4. \A n \in there'[k] : idOf'[k][n] # NoVal
      BY <1>3, <2>1 DEF ImportOPML, TypeOK
    <3> QED BY <3>3, <3>4
  <2>2. CASE h # k
    BY <1>1, <1>3, <2>2 DEF ImportOPML, Goes, Importing, TypeOK
  <2> QED BY <2>1, <2>2
<1>4. ASSUME NEW h \in Handlers, ImportFolder(h) PROVE MapInv!(k)!2'
  <2>1. CASE h = k
    <3>1. /\ at[k] \in DOMAIN doc[k] /\ IsFolder(Here(k)) /\ doc' = doc /\ there' = there
          /\ pc[k] = "import" /\ Importing(k)
      BY <1>4, <2>1 DEF ImportFolder, AtEntry, Importing
    <3>2. CASE Ends(k, "found") /\ idOf' = idOf
      BY <1>2, <3>1, <3>2
    <3>3. ASSUME idOf[k][Here(k).folder] = NoVal, NEW g \in FolderIds,
                 idOf' = [idOf EXCEPT ![k][Here(k).folder] = g], Ends(k, "made")
          PROVE  MapInv!(k)!2'
      <4>1. /\ at[k] \in Places /\ doc[k] \in Documents /\ Here(k).folder \in Names
            /\ \A i \in DOMAIN doc[k] : i \in Places
        BY <3>1, HereType, DocType
      <4>2. g # NoVal
        BY DistinctAssumption
      <4>3. \A n \in Names : idOf'[k][n] = IF n = Here(k).folder THEN g ELSE idOf[k][n]
        BY <3>3, <4>1 DEF TypeOK
      <4>4. MadeFolders(k)' \subseteq MadeFolders(k) \cup {at[k]}
        BY <3>1, <3>3, <4>1 DEF MadeFolders, Ends, TypeOK
      <4>5. \A n \in there[k] : idOf'[k][n] # NoVal
        BY <3>1, <4>2, <4>3 DEF MapInv, TypeOK
      <4>6. Here(k).folder \notin there[k]
        BY <3>1, <3>3 DEF MapInv
      <4>7. \A i \in MadeFolders(k) : doc[k][i].folder # Here(k).folder
        BY <3>1, <3>3 DEF MapInv
      <4>8. doc[k][at[k]].folder = Here(k).folder
        BY DEF Here
      <4> QED BY <3>1, <4>1, <4>2, <4>3, <4>4, <4>5, <4>6, <4>7, <4>8 DEF MapInv
    <3> QED BY <1>4, <2>1, <3>2, <3>3 DEF ImportFolder
  <2>2. CASE h # k
    BY <1>1, <1>4, <2>2 DEF ImportFolder, Ends, Importing, TypeOK
  <2> QED BY <2>1, <2>2
<1>5. ASSUME NEW h \in Handlers, ImportFolderFails(h) PROVE MapInv!(k)!2'
  <2>1. doc' = doc /\ idOf' = idOf /\ there' = there /\ Importing(k)
    BY <1>5 DEF ImportFolderFails, Importing
  <2>2. PICK j : outcome' = [outcome EXCEPT ![h] =
          [i \in Places |-> IF i = at[h] THEN "failed"
             ELSE IF i \in at[h] + 1 .. j - 1 THEN "dropped" ELSE @[i]]]
    BY <1>5 DEF ImportFolderFails
  <2>3. \A i \in DOMAIN doc[k] : outcome'[k][i] = "made" => outcome[k][i] = "made"
    <3> TAKE i \in DOMAIN doc[k]
    <3>0. doc[k] \in Documents
      BY DEF TypeOK
    <3>1. i \in Places
      BY <3>0, DocType
    <3> QED BY <2>2, <3>1 DEF TypeOK
  <2> QED BY <1>1, <2>1, <2>3
<1>6. ASSUME NEW h \in Handlers, LookUpFeed(h) \/ ImportFeed(h) \/ ImportFeedFails(h)
      PROVE  MapInv!(k)!2'
  <2>1. doc' = doc /\ idOf' = idOf /\ there' = there
    BY <1>6 DEF LookUpFeed, ImportFeed, ImportFeedFails
  <2>2. CASE h = k
    <3>1. at[k] \in DOMAIN doc[k] /\ ~IsFolder(Here(k)) /\ Importing(k)
      BY <1>6, <2>2 DEF LookUpFeed, AtEntry, ImportFeed, ImportFeedFails, PlaceInv, Importing
    <3>2. outcome' = outcome \/ \E r : Ends(k, r)
      BY <1>6, <2>2 DEF LookUpFeed, ImportFeed, ImportFeedFails
    <3>3. CASE outcome' = outcome
      BY <1>1, <2>1, <3>1, <3>3
    <3> QED BY <1>2, <2>1, <3>1, <3>2, <3>3
  <2>3. CASE h # k
    <3>1. outcome'[k] = outcome[k] /\ pc'[k] = pc[k]
      BY <1>6, <2>3 DEF LookUpFeed, ImportFeed, ImportFeedFails, Ends, Goes, TypeOK
    <3> QED BY <1>1, <2>1, <3>1 DEF Importing
  <2> QED BY <2>2, <2>3
<1>7. ASSUME NEW h \in Handlers, ImportDone(h) PROVE MapInv!(k)!2'
  BY <1>1, <1>7 DEF ImportDone, Goes, Importing, TypeOK
<1>8. ASSUME NEW h \in Handlers, ExportOPML(h) \/ FetchPage(h) \/ ListFolders(h)
      PROVE  MapInv!(k)!2'
  <2>1. h # k
    BY <1>8 DEF ExportOPML, FetchPage, ListFolders, Goes, Importing, TypeOK
  <2>2. pc'[k] = pc[k]
    BY <1>8, <2>1 DEF ExportOPML, FetchPage, ListFolders, Goes, TypeOK
  <2>3. UNCHANGED importer
    BY <1>8 DEF ExportOPML, FetchPage, ListFolders
  <2> QED BY <1>1, <2>2, <2>3 DEF Importing
<1>9. ASSUME NEW h \in Handlers, Respond(h) \/ ExportFails(h) PROVE MapInv!(k)!2'
  <2>1. Returns(h)
    BY <1>9 DEF Respond, ExportFails
  <2>2. h # k
    BY <2>1 DEF Returns, Goes, Importing, TypeOK
  <2> QED BY <1>1, <2>1, <2>2 DEF Returns, Goes, Importing, TypeOK
<1>10. ASSUME NEW g \in FolderIds, NEW n \in Names, CreateFolder(g, n) \/ UpdateFolder(g, n)
       PROVE  MapInv!(k)!2'
  BY <1>1, <1>10 DEF CreateFolder, UpdateFolder, Importing
<1>11. ASSUME NEW g \in FolderIds, DeleteFolder(g) PROVE MapInv!(k)!2'
  BY <1>1, <1>11 DEF DeleteFolder, Importing
<1>12. ASSUME NEW f \in FeedIds, NEW g, NEW t, UpdateFeed(f, g, t) PROVE MapInv!(k)!2'
  BY <1>1, <1>12 DEF UpdateFeed, Importing
<1>13. ASSUME NEW f \in FeedIds, NEW g, NEW t, NEW u, CreateFeed(f, u, g, t)
       PROVE  MapInv!(k)!2'
  BY <1>1, <1>13 DEF CreateFeed, Importing
<1>14. ASSUME NEW f \in FeedIds, DeleteFeed(f) PROVE MapInv!(k)!2'
  BY <1>1, <1>14 DEF DeleteFeed, Importing
<1>15. CASE UNCHANGED vars
  BY <1>1, <1>15 DEF vars, Importing
<1> QED BY <1>3, <1>4, <1>5, <1>6, <1>7, <1>8, <1>9, <1>10, <1>11, <1>12, <1>13, <1>14, <1>15
        DEF Next, Client, Handle

\* An import makes no folder there is already, and none twice.
THEOREM FoldersMadeOnce == Spec => []ImportMakesNoDuplicateFolders
<1>1. Init => MapInv
  BY DEF Init, MapInv, Importing
<1>2. TypeOK /\ PlaceInv /\ MapInv /\ [Next]_vars => TypeOK' /\ PlaceInv' /\ MapInv'
  BY TypeStep, PlaceStep, MapStep
<1>3. TypeOK /\ PlaceInv /\ MapInv => ImportMakesNoDuplicateFolders
  <2> SUFFICES ASSUME TypeOK, PlaceInv, MapInv, NEW h \in Handlers, NEW i \in MadeFolders(h)
               PROVE  ImportMakesNoDuplicateFolders!(h)!(i)
    BY DEF ImportMakesNoDuplicateFolders
  <2>1. i \in DOMAIN doc[h] /\ outcome[h][i] = "made"
    BY DEF MadeFolders
  <2>2. i \in Places
    <3>1. doc[h] \in Documents
      BY <2>1 DEF TypeOK
    <3> QED BY <2>1, <3>1, DocType
  <2>3. Importing(h)
    BY <2>1, <2>2 DEF PlaceInv, Untouched
  <2> QED BY <2>3 DEF MapInv
<1> QED BY <1>1, <1>2, <1>3, PlaceInit, PTL DEF Spec

-----------------------------------------------------------------------------
(* Folders that are gone.                                                  *)

\* Rows, and the map of an import, have ids that were given out.
RowInv ==
  /\ \A f \in FeedIds : filed[f] \in spent \cup {Root} /\ (url[f] # NoVal => f \in spent)
  /\ \A g \in FolderIds : name[g] # NoVal => g \in spent
  /\ \A h \in Handlers : \A n \in Names : idOf[h][n] \in spent \cup {NoVal}

\* The folder that an import files a feed in has an id, if it has one.
LEMMA FolderOfType ==
  ASSUME TypeOK, PlaceInv, RowInv, NEW h \in Handlers, pc[h] = "insert"
  PROVE  FolderOf(h, Here(h)) \in (FolderIds \cap spent) \cup {Root}
<1>1. at[h] \in DOMAIN doc[h] /\ ~IsFolder(Here(h))
  BY DEF PlaceInv
<1>2. Here(h).folder \in Names \cup {Root}
  BY <1>1, HereType
<1>3. Here(h).folder # Root => idOf[h][Here(h).folder] # NoVal
  BY <1>1 DEF PlaceInv, FeedOfFolder, Importing
<1> QED BY <1>2, <1>3 DEF FolderOf, TypeOK, RowInv

\* Every step keeps the ids in use among those that were given out.
LEMMA RowStep == TypeOK /\ PlaceInv /\ RowInv /\ [Next]_vars => RowInv'
<1> SUFFICES ASSUME TypeOK, PlaceInv, RowInv, [Next]_vars PROVE RowInv'
  OBVIOUS
<1> USE DEF importer, tables
<1>1. CASE /\ spent \subseteq spent' /\ idOf' = idOf
           /\ \A f \in FeedIds : filed'[f] \in spent' \cup {Root} /\ (url'[f] # NoVal => f \in spent')
           /\ \A g \in FolderIds : name'[g] # NoVal => g \in spent'
  BY <1>1 DEF RowInv
<1>2. ASSUME NEW g \in FolderIds, NEW n \in Names, CreateFolder(g, n) \/ UpdateFolder(g, n)
      PROVE  RowInv'
  BY <1>1, <1>2 DEF CreateFolder, UpdateFolder, InsertFolder, Exists, RowInv, TypeOK
<1>3. ASSUME NEW g \in FolderIds, DeleteFolder(g) PROVE RowInv'
  BY <1>1, <1>3 DEF DeleteFolder, RowInv, TypeOK
<1>4. ASSUME NEW f \in FeedIds, NEW g \in Known, NEW t, UpdateFeed(f, g, t) PROVE RowInv'
  BY <1>1, <1>4 DEF UpdateFeed, Known, RowInv, TypeOK
<1>5. ASSUME NEW f \in FeedIds, NEW u, NEW g \in Known, NEW t, InsertFeed(f, u, g, t),
             name' = name, idOf' = idOf
      PROVE  RowInv'
  BY <1>1, <1>5 DEF InsertFeed, Known, RowInv, TypeOK
<1>6. ASSUME NEW f \in FeedIds, NEW g \in Known, NEW t, NEW u, CreateFeed(f, u, g, t)
      PROVE  RowInv'
  BY <1>5, <1>6 DEF CreateFeed
<1>7. ASSUME NEW f \in FeedIds, DeleteFeed(f) PROVE RowInv'
  BY <1>1, <1>7 DEF DeleteFeed, RowInv, TypeOK
<1>8. ASSUME NEW h \in Handlers, ImportFeed(h) PROVE RowInv'
  <2>1. FolderOf(h, Here(h)) \in Known
    BY <1>8, FolderOfType DEF ImportFeed, Known
  <2> QED BY <1>5, <1>8, <2>1 DEF ImportFeed
<1>9. ASSUME NEW h \in Handlers, NEW d \in Documents, ImportOPML(h, d) PROVE RowInv'
  <2>1. PICK known \in [Names -> FolderIds \cup {NoVal}] :
          /\ \A n \in Names : known[n] = NoVal \/ name[known[n]] = n
          /\ idOf' = [idOf EXCEPT ![h] = known]
    BY <1>9 DEF ImportOPML
  <2>2. \A n \in Names : known[n] \in spent \cup {NoVal}
    BY <2>1, DistinctAssumption DEF RowInv
  <2> QED BY <1>9, <2>1, <2>2 DEF ImportOPML, RowInv, TypeOK
<1>10. ASSUME NEW h \in Handlers, ImportFolder(h) PROVE RowInv'
  <2>1. CASE UNCHANGED <<name, spent, idOf>>
    BY <1>1, <1>10, <2>1 DEF ImportFolder, RowInv
  <2>2. ASSUME NEW g \in FolderIds, InsertFolder(g, Here(h).folder),
               idOf' = [idOf EXCEPT ![h][Here(h).folder] = g]
        PROVE  RowInv'
    <3>1. url' = url /\ filed' = filed
      BY <1>10 DEF ImportFolder
    <3>2. \A m \in Handlers, n \in Names : idOf'[m][n] \in {idOf[m][n], g}
      BY <2>2 DEF TypeOK
    <3> QED BY <2>2, <3>1, <3>2 DEF InsertFolder, RowInv, TypeOK
  <2> QED BY <1>10, <2>1, <2>2 DEF ImportFolder
<1>11. ASSUME NEW h \in Handlers,
              \/ ImportFolderFails(h) \/ LookUpFeed(h) \/ ImportFeedFails(h) \/ ImportDone(h)
              \/ ExportOPML(h) \/ FetchPage(h) \/ ListFolders(h)
       PROVE  RowInv'
  BY <1>11 DEF ImportFolderFails, LookUpFeed, ImportFeedFails, ImportDone, ExportOPML,
               FetchPage, ListFolders, RowInv
<1>12. ASSUME NEW h \in Handlers, Respond(h) \/ ExportFails(h) PROVE RowInv'
  <2>1. Returns(h)
    BY <1>12 DEF Respond, ExportFails
  <2> QED BY <2>1 DEF Returns, NoFolders, RowInv, TypeOK
<1>13. CASE UNCHANGED vars
  BY <1>13 DEF vars, RowInv
<1> QED BY <1>2, <1>3, <1>4, <1>6, <1>7, <1>8, <1>9, <1>10, <1>11, <1>12, <1>13
        DEF Next, Client, Handle

\* Every step keeps feeds out of deleted folders, except by a late write.
LEMMA FilingStep ==
  TypeOK /\ PlaceInv /\ RowInv /\ OnlyLateWritesDangle /\ [Next]_vars => OnlyLateWritesDangle'
<1> SUFFICES ASSUME TypeOK, PlaceInv, RowInv, OnlyLateWritesDangle, [Next]_vars,
                    NEW e \in FeedIds, url'[e] # NoVal, filed'[e] # Root, ~Exists(filed[e])'
             PROVE  e \in late'
  BY DEF OnlyLateWritesDangle, Dangling, Subscribed
<1> USE DEF importer, tables
\* The feed stays where it is, and so do the folders.
<1>1. CASE /\ url[e] # NoVal /\ filed'[e] = filed[e] /\ (e \in late => e \in late')
           /\ \A g \in FolderIds : name[g] # NoVal => name'[g] # NoVal
  BY <1>1 DEF OnlyLateWritesDangle, Dangling, Subscribed, Exists
<1>2. ASSUME NEW g \in FolderIds, NEW n \in Names, InsertFolder(g, n),
             UNCHANGED <<url, filed, late>>
      PROVE  e \in late'
  BY <1>1, <1>2, DistinctAssumption DEF InsertFolder, TypeOK
<1>3. ASSUME NEW f \in FeedIds, NEW g \in Known, Written(f, g), name' = name,
             filed' = [filed EXCEPT ![f] = g], e # f => url'[e] = url[e]
      PROVE  e \in late'
  <2>1. CASE e = f
    BY <1>3, <2>1 DEF Written, Exists, TypeOK
  <2>2. CASE e # f
    BY <1>1, <1>3, <2>2 DEF Written, TypeOK
  <2> QED BY <2>1, <2>2
<1>4. ASSUME NEW g \in FolderIds, NEW n \in Names, CreateFolder(g, n) \/ UpdateFolder(g, n)
      PROVE  e \in late'
  <2>1. CASE CreateFolder(g, n)
    BY <1>2, <2>1 DEF CreateFolder
  <2>2. CASE UpdateFolder(g, n)
    BY <1>1, <2>2, DistinctAssumption DEF UpdateFolder, TypeOK
  <2> QED BY <1>4, <2>1, <2>2
<1>5. ASSUME NEW g \in FolderIds, DeleteFolder(g) PROVE e \in late'
  <2>1. e \notin Within(g) /\ filed'[e] = filed[e] /\ url' = url /\ filed[e] # g
    BY <1>5, DistinctAssumption DEF DeleteFolder, Within, Subscribed, TypeOK
  <2>2. filed[e] \in FolderIds => name'[filed[e]] = name[filed[e]]
    BY <1>5, <2>1 DEF DeleteFolder, TypeOK
  <2>3. late' = late \ Within(g)
    BY <1>5 DEF DeleteFolder
  <2> QED BY <2>1, <2>2, <2>3 DEF OnlyLateWritesDangle, Dangling, Subscribed, Exists
<1>6. ASSUME NEW f \in FeedIds, NEW g \in Known, NEW t, UpdateFeed(f, g, t) PROVE e \in late'
  BY <1>3, <1>6 DEF UpdateFeed
<1>7. ASSUME NEW f \in FeedIds, NEW g \in Known, NEW t, NEW u, CreateFeed(f, u, g, t)
      PROVE  e \in late'
  BY <1>3, <1>7 DEF CreateFeed, InsertFeed, TypeOK
<1>8. ASSUME NEW f \in FeedIds, DeleteFeed(f) PROVE e \in late'
  <2>1. e # f
    BY <1>8 DEF DeleteFeed, TypeOK
  <2> QED BY <1>1, <1>8, <2>1 DEF DeleteFeed, TypeOK
<1>9. ASSUME NEW h \in Handlers, ImportFeed(h) PROVE e \in late'
  <2>1. FolderOf(h, Here(h)) \in Known
    BY <1>9, FolderOfType DEF ImportFeed, Known
  <2>2. PICK f \in FeedIds, t \in Titles : InsertFeed(f, Here(h).url, FolderOf(h, Here(h)), t)
    BY <1>9 DEF ImportFeed
  <2> QED BY <1>3, <1>9, <2>1, <2>2 DEF ImportFeed, InsertFeed, TypeOK
<1>10. ASSUME NEW h \in Handlers, ImportFolder(h) PROVE e \in late'
  <2>1. AtEntry(h) /\ IsFolder(Here(h)) /\ UNCHANGED <<url, filed, late>>
    BY <1>10 DEF ImportFolder
  <2>2. Here(h).folder \in Names
    BY <2>1, HereType DEF AtEntry
  <2>3. CASE UNCHANGED name
    BY <1>1, <2>1, <2>3
  <2>4. CASE \E g \in FolderIds : InsertFolder(g, Here(h).folder)
    BY <1>2, <2>1, <2>2, <2>4
  <2> QED BY <1>10, <2>3, <2>4 DEF ImportFolder
<1>11. ASSUME NEW h \in Handlers,
              \/ ImportFolderFails(h) \/ LookUpFeed(h) \/ ImportFeedFails(h) \/ ImportDone(h)
              \/ ExportOPML(h) \/ FetchPage(h) \/ ListFolders(h)
       PROVE  e \in late'
  BY <1>1, <1>11 DEF ImportFolderFails, LookUpFeed, ImportFeedFails, ImportDone, ExportOPML,
                     FetchPage, ListFolders
<1>12. \A h \in Handlers, d \in Documents : ImportOPML(h, d) => e \in late'
  BY <1>1 DEF ImportOPML
<1>13. \A h \in Handlers : Respond(h) \/ ExportFails(h) => e \in late'
  BY <1>1 DEF Respond, ExportFails, Returns
<1>14. CASE UNCHANGED vars
  BY <1>1, <1>14 DEF vars
<1> QED BY <1>4, <1>5, <1>6, <1>7, <1>8, <1>9, <1>10, <1>11, <1>12, <1>13, <1>14
        DEF Next, Client, Handle

\* At first no row exists.
LEMMA RowInit == Init => RowInv /\ OnlyLateWritesDangle
BY DEF Init, RowInv, OnlyLateWritesDangle, Dangling, Subscribed, NoFolders

\* Only a write that came after a folder was deleted can leave a feed in it.
THEOREM DeletionLeavesNothingBehind == Spec => []OnlyLateWritesDangle
<1>1. /\ TypeOK /\ PlaceInv /\ RowInv /\ OnlyLateWritesDangle /\ [Next]_vars
         => TypeOK' /\ PlaceInv' /\ RowInv' /\ OnlyLateWritesDangle'
  BY TypeStep, PlaceStep, RowStep, FilingStep
<1> QED BY <1>1, PlaceInit, RowInit, PTL DEF Spec

-----------------------------------------------------------------------------
(* An export reads every steady feed once: the pages cut the order of the  *)
(* titles and ids, in which such a feed does not move.                     *)

Row(f) == <<f, url[f], filed[f]>>

ExportInv ==
  \A h \in Handlers :
    /\ pc[h] \notin {"page", "list", "exported"} =>
         listed[h] = {} /\ twice[h] = {} /\ cursor[h] = NoVal /\ steady[h] = {}
    /\ \A f \in steady[h] :
         /\ url[f] # NoVal /\ f \notin twice[h]
         /\ pc[h] \in {"page", "list"} => \A r \in listed[h] : r[1] = f => r = Row(f)
         /\ pc[h] = "page" => (After(h, f) <=> f \notin Read(h))
         /\ pc[h] = "list" => f \in Read(h)
         /\ pc[h] = "exported" =>
              {r \in sheet[h] : r[1] = f} = {<<f, url[f], Heading(filed[f])>>}

\* Nothing happens to a handler, nor to the feeds that are still steady.
LEMMA Undisturbed ==
  ASSUME TypeOK, ExportInv, NEW h \in Handlers,
         pc'[h] = pc[h], listed'[h] = listed[h], twice'[h] = twice[h],
         cursor'[h] = cursor[h], sheet'[h] = sheet[h], steady'[h] \subseteq steady[h],
         \A f \in steady'[h] : /\ url'[f] = url[f] /\ filed'[f] = filed[f] /\ title'[f] = title[f]
                               /\ Heading(filed[f])' = Heading(filed[f])
  PROVE  ExportInv!(h)'
<1>1. ExportInv!(h)
  BY DEF ExportInv
<1>2. Read(h)' = Read(h)
  BY DEF Read
<1>3. \A f \in steady'[h] : Row(f)' = Row(f) /\ After(h, f)' = After(h, f)
  BY DEF Row, After, Before
<1>4. pc'[h] \notin {"page", "list", "exported"} =>
         listed'[h] = {} /\ twice'[h] = {} /\ cursor'[h] = NoVal /\ steady'[h] = {}
  BY <1>1
<1>5. ASSUME NEW f \in steady'[h]
      PROVE  ExportInv!(h)!2!(f)'
  BY <1>1, <1>2, <1>3, <1>5
<1> QED BY <1>4, <1>5

\* The order of an export is total, and its cursor is a place in it.
LEMMA Order ==
  ASSUME TypeOK, NEW e \in FeedIds, NEW f \in FeedIds
  PROVE  /\ title[e] \in Nat /\ e \in Nat
         /\ e = f \/ Before(title[e], e, title[f], f) \/ Before(title[f], f, title[e], e)
         /\ ~(Before(title[e], e, title[f], f) /\ Before(title[f], f, title[e], e))
         /\ ~Before(title[e], e, title[e], e)
<1>1. title[e] \in Nat /\ e \in Nat /\ title[f] \in Nat /\ f \in Nat
  BY NumbersAssumption DEF TypeOK
<1> QED BY <1>1 DEF Before

\* The order of the pages, by title and then id, is transitive.
LEMMA BeforeTransitive ==
  ASSUME NEW t \in Nat, NEW u \in Nat, NEW v \in Nat, NEW e \in Nat, NEW f \in Nat, NEW g \in Nat,
         Before(t, e, u, f), Before(u, f, v, g)
  PROVE  Before(t, e, v, g)
BY DEF Before

\* A page adds to an export what lies after its cursor, and nothing twice.
LEMMA FetchPageStep ==
  ASSUME TypeOK, ExportInv, NEW h \in Handlers, FetchPage(h)
  PROVE  ExportInv!(h)'
<1> DEFINE rows == {f \in Subscribed : After(h, f)}
<1>1. PICK page \in SUBSET rows :
        /\ IsPage(page, rows)
        /\ IF Cardinality(page) = PageSize
             THEN /\ \E f \in page : Last(f, page) /\ cursor' = [cursor EXCEPT ![h] = <<title[f], f>>]
                  /\ UNCHANGED pc
             ELSE Goes(h, "list") /\ UNCHANGED cursor
        /\ listed' = [listed EXCEPT ![h] = @ \cup {<<f, url[f], filed[f]>> : f \in page}]
        /\ twice' = [twice EXCEPT ![h] = @ \cup (Read(h) \cap page)]
  BY DEF FetchPage
<1>2. /\ pc[h] = "page" /\ UNCHANGED tables /\ steady' = steady
      /\ page \subseteq Subscribed /\ Subscribed \subseteq FeedIds
      /\ listed'[h] = listed[h] \cup {Row(f) : f \in page}
      /\ twice'[h] = twice[h] \cup (Read(h) \cap page)
  BY <1>1 DEF FetchPage, TypeOK, Row, Subscribed
<1>3. Read(h)' = Read(h) \cup page
  <2>1. \A f : Row(f)[1] = f
    BY DEF Row
  <2>2. {r[1] : r \in {Row(f) : f \in page}} = page
    BY <2>1
  <2> QED BY <1>2, <2>2 DEF Read
<1>4. \A f \in steady[h] : ExportInv!(h)!2!(f)
  BY DEF ExportInv
<1>5. \A f \in steady[h] : f \in FeedIds /\ f \in Subscribed
  BY <1>4 DEF Subscribed, TypeOK
<1>6. ASSUME NEW f \in steady[h]
      PROVE  f \notin twice'[h] /\ \A r \in listed'[h] : r[1] = f => r = Row(f)
  <2>1. f \in page => f \notin Read(h)
    BY <1>1, <1>2, <1>4
  <2>2. \A e \in page : Row(e)[1] = f => e = f
    BY DEF Row
  <2> QED BY <1>2, <1>4, <2>1, <2>2
<1>7. \A f \in steady[h] : Row(f)' = Row(f)
  BY <1>2 DEF Row, tables
<1>8. CASE Cardinality(page) = PageSize
  <2>1. PICK l \in page : Last(l, page) /\ cursor' = [cursor EXCEPT ![h] = <<title[l], l>>]
    BY <1>1, <1>8
  <2>2. /\ cursor'[h] = <<title[l], l>> /\ cursor'[h] # NoVal /\ pc' = pc
        /\ l \in FeedIds /\ After(h, l)
    <3>1. l \in FeedIds /\ After(h, l)
      BY <1>2, <2>1
    <3>2. <<title[l], l>> \in Titles \X FeedIds
      BY <3>1 DEF TypeOK
    <3> QED BY <1>1, <1>8, <2>1, <3>1, <3>2, DistinctAssumption DEF TypeOK
  <2>3. ASSUME NEW f \in steady[h]
        PROVE  After(h, f)' <=> f \notin Read(h)'
    <3>1. After(h, f)' <=> Before(title[l], l, title[f], f)
      BY <1>2, <2>2 DEF After, Before, tables
    <3>2. CASE f \in Read(h)
      <4>1. ~After(h, f)
        BY <1>2, <1>4, <3>2
      <4>2. cursor[h] \in Titles \X FeedIds
        BY <4>1 DEF After, TypeOK
      <4>3. /\ cursor[h][1] \in Nat /\ cursor[h][2] \in Nat /\ cursor[h] # NoVal
            /\ title[l] \in Nat /\ l \in Nat /\ title[f] \in Nat /\ f \in Nat
        <5>1. cursor[h] # NoVal
          BY <4>1 DEF After
        <5>2. cursor[h][1] \in Nat /\ cursor[h][2] \in Nat
          BY <4>2, NumbersAssumption
        <5>3. title[l] \in Nat /\ l \in Nat /\ title[f] \in Nat /\ f \in Nat
          BY <1>5, <2>2, Order
        <5> QED BY <5>1, <5>2, <5>3
      <4>4. /\ Before(cursor[h][1], cursor[h][2], title[l], l)
            /\ ~Before(cursor[h][1], cursor[h][2], title[f], f)
        BY <2>2, <4>1, <4>3 DEF After
      <4>5. ~Before(title[l], l, title[f], f)
        BY <4>3, <4>4, BeforeTransitive
      <4> QED BY <1>3, <3>1, <3>2, <4>5
    <3>3. CASE f \in page
      <4>1. ~Before(title[l], l, title[f], f)
        BY <1>5, <2>1, <2>2, <3>3, Order DEF Last
      <4> QED BY <1>3, <3>1, <3>3, <4>1
    <3>4. CASE f \notin Read(h) /\ f \notin page
      <4>1. f \in rows \ page
        BY <1>2, <1>4, <1>5, <3>4
      <4>2. Before(title[l], l, title[f], f)
        BY <1>1, <4>1 DEF IsPage
      <4> QED BY <1>3, <3>1, <3>4, <4>2
    <3> QED BY <3>2, <3>3, <3>4
  <2> QED BY <1>2, <1>4, <1>6, <1>7, <2>2, <2>3 DEF tables
<1>9. CASE Cardinality(page) # PageSize
  <2>1. page = rows
    BY <1>1, <1>9 DEF IsPage
  <2>2. pc'[h] = "list"
    BY <1>1, <1>9 DEF Goes, TypeOK
  <2>3. \A f \in steady[h] : f \in Read(h)'
    BY <1>2, <1>3, <1>4, <1>5, <2>1
  <2> QED BY <1>2, <1>4, <1>6, <1>7, <2>2, <2>3 DEF tables
<1> QED BY <1>8, <1>9

\* The folders listed last give each steady feed its heading.
LEMMA ListFoldersStep ==
  ASSUME TypeOK, ExportInv, NEW h \in Handlers, ListFolders(h)
  PROVE  ExportInv!(h)'
<1>1. /\ pc[h] = "list" /\ pc'[h] = "exported" /\ UNCHANGED tables
      /\ steady' = steady /\ twice' = twice
      /\ sheet'[h] = {<<r[1], r[2], Heading(r[3])>> : r \in listed[h]}
  BY DEF ListFolders, Goes, TypeOK
<1>2. \A f \in steady[h] : ExportInv!(h)!2!(f)
  BY DEF ExportInv
<1>3. ASSUME NEW f \in steady[h]
      PROVE  {r \in sheet'[h] : r[1] = f} = {<<f, url[f], Heading(filed[f])>>}
  <2>1. Row(f) \in listed[h] /\ \A r \in listed[h] : r[1] = f => r = Row(f)
    BY <1>1, <1>2 DEF Read
  <2>2. <<f, url[f], Heading(filed[f])>> \in sheet'[h]
    BY <1>1, <2>1 DEF Row
  <2>3. \A s \in sheet'[h] : s[1] = f => s = <<f, url[f], Heading(filed[f])>>
    BY <1>1, <2>1 DEF Row
  <2> QED BY <2>2, <2>3
<1>4. \A f \in steady[h] : url'[f] = url[f] /\ Heading(filed[f])' = Heading(filed[f])
  BY <1>1 DEF tables, Heading, Exists
<1> QED BY <1>1, <1>2, <1>3, <1>4

\* Every step keeps the account of the exports.
LEMMA ExportStep == TypeOK /\ PlaceInv /\ RowInv /\ ExportInv /\ [Next]_vars => ExportInv'
<1> SUFFICES ASSUME TypeOK, PlaceInv, RowInv, ExportInv, [Next]_vars, NEW k \in Handlers
             PROVE  ExportInv!(k)'
  BY DEF ExportInv
<1> USE DEF exporter, tables
<1>1. steady[k] \subseteq FeedIds /\ \A f \in steady[k] : f \in Subscribed /\ f \in spent
  BY DEF ExportInv, RowInv, Subscribed, TypeOK
\* The tables do not change.
<1>2. ASSUME UNCHANGED <<tables, exporter, steady>>, pc'[k] = pc[k] PROVE ExportInv!(k)'
  BY <1>2, Undisturbed DEF Heading, Exists
\* A folder is made: no feed was in it.
<1>3. ASSUME NEW g \in FolderIds, NEW n, InsertFolder(g, n), pc'[k] = pc[k],
             UNCHANGED <<url, filed, title, exporter, steady>>
      PROVE  ExportInv!(k)'
  <2>1. \A f \in steady[k] : filed[f] # g
    BY <1>1, <1>3, DistinctAssumption DEF InsertFolder, RowInv
  <2>2. \A f \in steady[k] : Heading(filed[f])' = Heading(filed[f])
    BY <1>1, <1>3, <2>1 DEF InsertFolder, Heading, Exists, TypeOK
  <2> QED BY <1>3, <2>2, Undisturbed
\* A feed is made: it was not steady.
<1>4. ASSUME NEW f \in FeedIds, NEW u, NEW g, NEW t, InsertFeed(f, u, g, t), pc'[k] = pc[k],
             UNCHANGED <<name, exporter, steady>>
      PROVE  ExportInv!(k)'
  <2>1. f \notin steady[k]
    BY <1>1, <1>4 DEF InsertFeed
  <2>2. \A e \in steady[k] : url'[e] = url[e] /\ filed'[e] = filed[e] /\ title'[e] = title[e]
    BY <1>1, <1>4, <2>1 DEF InsertFeed, TypeOK
  <2> QED BY <1>4, <2>2, Undisturbed DEF Heading, Exists
<1>5. ASSUME NEW g \in FolderIds, DeleteFolder(g) \/ \E n \in Names : UpdateFolder(g, n)
      PROVE  ExportInv!(k)'
  <2>1. steady'[k] = steady[k] \ Within(g)
    BY <1>5 DEF UpdateFolder, DeleteFolder, Disturb
  <2>2. \A e \in steady'[k] : filed[e] # g /\ e \notin Within(g)
    BY <1>1, <2>1 DEF Within
  <2>3. \A e \in steady'[k] : filed'[e] = filed[e] /\ url'[e] = url[e] /\ title'[e] = title[e]
    BY <1>1, <1>5, <2>1, <2>2 DEF UpdateFolder, DeleteFolder
  <2>4. \A e \in steady'[k] : Heading(filed[e])' = Heading(filed[e])
    BY <1>5, <2>2, <2>3 DEF UpdateFolder, DeleteFolder, Heading, Exists, TypeOK
  <2> QED BY <1>5, <2>1, <2>3, <2>4, Undisturbed DEF UpdateFolder, DeleteFolder
<1>6. ASSUME NEW f \in FeedIds, NEW g, NEW t, UpdateFeed(f, g, t) \/ DeleteFeed(f)
      PROVE  ExportInv!(k)'
  <2>1. steady'[k] = steady[k] \ {f}
    BY <1>6 DEF UpdateFeed, DeleteFeed, Disturb
  <2>2. \A e \in steady'[k] : filed'[e] = filed[e] /\ url'[e] = url[e] /\ title'[e] = title[e]
    BY <1>1, <1>6, <2>1 DEF UpdateFeed, DeleteFeed, TypeOK
  <2> QED BY <1>6, <2>1, <2>2, Undisturbed DEF UpdateFeed, DeleteFeed, Heading, Exists
<1>7. ASSUME NEW f \in FeedIds, NEW g, NEW t, NEW u, CreateFeed(f, u, g, t)
      PROVE  ExportInv!(k)'
  BY <1>4, <1>7 DEF CreateFeed
<1>8. ASSUME NEW g \in FolderIds, NEW n \in Names, CreateFolder(g, n) PROVE ExportInv!(k)'
  BY <1>3, <1>8 DEF CreateFolder
<1>9. ASSUME NEW h \in Handlers, ImportFolder(h) PROVE ExportInv!(k)'
  BY <1>2, <1>3, <1>9 DEF ImportFolder
\* A handler that neither exports nor will has read nothing.
<1>10. ASSUME pc[k] \notin {"page", "list", "exported"}, pc'[k] \notin {"page", "list", "exported"},
              UNCHANGED <<exporter, steady>>
       PROVE  ExportInv!(k)'
  BY <1>10 DEF ExportInv
<1>11. ASSUME NEW h \in Handlers, ImportFeed(h) PROVE ExportInv!(k)'
  <2>1. CASE h = k
    BY <1>10, <1>11, <2>1 DEF ImportFeed, Goes, TypeOK
  <2>2. CASE h # k
    BY <1>4, <1>11, <2>2 DEF ImportFeed, Goes, TypeOK
  <2> QED BY <2>1, <2>2
<1>12. ASSUME NEW h \in Handlers,
              \/ ImportFolderFails(h) \/ LookUpFeed(h) \/ ImportFeedFails(h) \/ ImportDone(h)
              \/ \E d \in Documents : ImportOPML(h, d)
       PROVE  ExportInv!(k)'
  <2>1. UNCHANGED <<tables, exporter, steady>>
    BY <1>12 DEF ImportFolderFails, LookUpFeed, ImportFeedFails, ImportDone, ImportOPML
  <2>2. CASE pc'[k] = pc[k]
    BY <1>2, <2>1, <2>2
  <2>3. CASE pc'[k] # pc[k]
    <3>1. pc[k] \in {"idle", "import", "insert"} /\ pc'[k] \in {"import", "insert", "imported"}
      BY <1>12, <2>3 DEF ImportFolderFails, LookUpFeed, ImportFeedFails, ImportDone, ImportOPML,
                         AtEntry, Goes, TypeOK
    <3> QED BY <1>10, <2>1, <3>1
  <2> QED BY <2>2, <2>3
<1>13. ASSUME NEW h \in Handlers, ExportOPML(h) PROVE ExportInv!(k)'
  <2>1. CASE h = k
    <3>1. /\ pc[k] = "idle" /\ pc'[k] = "page" /\ steady'[k] = Subscribed
          /\ UNCHANGED <<tables, exporter>>
      BY <1>13, <2>1 DEF ExportOPML, Goes, TypeOK
    <3>2. listed[k] = {} /\ twice[k] = {} /\ cursor[k] = NoVal
      BY <3>1 DEF ExportInv
    <3>3. Read(k)' = {}
      BY <3>1, <3>2 DEF Read
    <3>4. \A f : After(k, f)'
      BY <3>1, <3>2 DEF After
    <3> QED BY <3>1, <3>2, <3>3, <3>4 DEF Subscribed
  <2>2. CASE h # k
    <3>1. pc'[k] = pc[k] /\ steady'[k] = steady[k] /\ UNCHANGED <<tables, exporter>>
      BY <1>13, <2>2 DEF ExportOPML, Goes, TypeOK
    <3> QED BY <3>1, Undisturbed DEF Heading, Exists
  <2> QED BY <2>1, <2>2
<1>14. ASSUME NEW h \in Handlers, FetchPage(h) \/ ListFolders(h) PROVE ExportInv!(k)'
  <2>1. CASE h = k
    BY <1>14, <2>1, FetchPageStep, ListFoldersStep
  <2>2. CASE h # k
    <3>1. /\ pc'[k] = pc[k] /\ steady' = steady /\ UNCHANGED tables /\ cursor'[k] = cursor[k]
          /\ listed'[k] = listed[k] /\ sheet'[k] = sheet[k] /\ twice'[k] = twice[k]
      <4>1. CASE FetchPage(h)
        BY <2>2, <4>1 DEF FetchPage, Goes, TypeOK
      <4>2. CASE ListFolders(h)
        BY <2>2, <4>2 DEF ListFolders, Goes, TypeOK
      <4> QED BY <1>14, <4>1, <4>2
    <3> QED BY <3>1, Undisturbed DEF Heading, Exists
  <2> QED BY <2>1, <2>2
<1>15. ASSUME NEW h \in Handlers, Respond(h) \/ ExportFails(h) PROVE ExportInv!(k)'
  <2>1. Returns(h)
    BY <1>15 DEF Respond, ExportFails
  <2>2. CASE h = k
    <3>1. /\ pc'[k] = "idle" /\ listed'[k] = {} /\ twice'[k] = {} /\ cursor'[k] = NoVal
          /\ steady'[k] = {}
      BY <2>1, <2>2 DEF Returns, Goes, TypeOK
    <3> QED BY <3>1
  <2>3. CASE h # k
    <3>1. /\ pc'[k] = pc[k] /\ steady'[k] = steady[k] /\ UNCHANGED tables /\ cursor'[k] = cursor[k]
          /\ listed'[k] = listed[k] /\ sheet'[k] = sheet[k] /\ twice'[k] = twice[k]
      BY <2>1, <2>3 DEF Returns, Goes, TypeOK
    <3> QED BY <3>1, Undisturbed DEF Heading, Exists
  <2> QED BY <2>2, <2>3
<1>16. CASE UNCHANGED vars
  BY <1>2, <1>16 DEF vars
<1> QED BY <1>5, <1>6, <1>7, <1>8, <1>9, <1>11, <1>12, <1>13, <1>14, <1>15, <1>16
        DEF Next, Client, Handle

\* A feed that nobody touched is on the export once, under its folder.
THEOREM ExportsAreFaithful == Spec => []ExportFaithful
<1>1. Init => ExportInv
  BY DEF Init, ExportInv
<1>2. /\ TypeOK /\ PlaceInv /\ RowInv /\ ExportInv /\ [Next]_vars
         => TypeOK' /\ PlaceInv' /\ RowInv' /\ ExportInv'
  BY TypeStep, PlaceStep, RowStep, ExportStep
<1>3. ExportInv => ExportFaithful
  BY DEF ExportInv, ExportFaithful
<1> QED BY <1>1, <1>2, <1>3, PlaceInit, RowInit, PTL DEF Spec

-----------------------------------------------------------------------------
(* Subscriptions.                                                          *)

\* A row that no statement touches is the same subscription as before.
LEMMA SameSubscriptions ==
  ASSUME url' = url, \A f \in FeedIds : f \in spent' <=> f \in spent
  PROVE  UNCHANGED Subscr!svars
BY DEF Subscr!svars, FeedStatus

\* A row that is inserted is a subscription that begins.
LEMMA InsertSubscribes ==
  ASSUME TypeOK, RowInv, NEW f \in FeedIds, NEW u \in Urls, NEW g, NEW t, InsertFeed(f, u, g, t)
  PROVE  Subscr!Subscribe(f, u)
<1>1. url[f] = NoVal /\ f \notin spent /\ u # NoVal
  BY DistinctAssumption DEF InsertFeed, RowInv
<1>2. FeedStatus' = [FeedStatus EXCEPT ![f] = "live"]
  BY <1>1 DEF InsertFeed, FeedStatus, TypeOK
<1> QED BY <1>1, <1>2 DEF InsertFeed, FeedStatus, Subscr!Subscribe

\* A row that is deleted is a subscription that ends.
LEMMA DeleteUnsubscribes ==
  ASSUME TypeOK, RowInv, NEW f \in FeedIds, DeleteFeed(f)
  PROVE  Subscr!Unsubscribe(f)
<1>1. url[f] # NoVal /\ f \in spent
  BY DEF DeleteFeed, Subscribed, RowInv
<1>2. FeedStatus' = [FeedStatus EXCEPT ![f] = "deleted"]
  BY <1>1 DEF DeleteFeed, FeedStatus, TypeOK
<1> QED BY <1>1, <1>2 DEF DeleteFeed, FeedStatus, Subscr!Unsubscribe, Subscr!Ends

\* Every step is one of Subscription, or changes nothing that it speaks of.
LEMMA SubscriptionStep ==
  TypeOK /\ PlaceInv /\ RowInv /\ [Next]_vars => [Subscr!Next]_(Subscr!svars)
<1> SUFFICES ASSUME TypeOK, PlaceInv, RowInv, [Next]_vars
             PROVE  [Subscr!Next]_(Subscr!svars)
  OBVIOUS
<1> USE DEF tables
<1>1. ASSUME NEW g \in FolderIds, NEW n, InsertFolder(g, n), url' = url
      PROVE  UNCHANGED Subscr!svars
  <2>1. \A f \in FeedIds : f \in spent' <=> f \in spent
    BY <1>1, DistinctAssumption DEF InsertFolder
  <2> QED BY <1>1, <2>1, SameSubscriptions
<1>2. ASSUME NEW g \in FolderIds, NEW n \in Names, CreateFolder(g, n)
      PROVE  UNCHANGED Subscr!svars
  BY <1>1, <1>2 DEF CreateFolder
<1>3. ASSUME NEW h \in Handlers, ImportFolder(h)
      PROVE  UNCHANGED Subscr!svars
  BY <1>1, <1>3, SameSubscriptions DEF ImportFolder
<1>4. ASSUME NEW f \in FeedIds, NEW u \in Urls, NEW g \in Known, NEW t, CreateFeed(f, u, g, t)
      PROVE  Subscr!Next
  BY <1>4, InsertSubscribes DEF CreateFeed, Subscr!Next
\* The look-up is a statement of its own, but the insertion is refused if
\* another request subscribed to the URL since.
<1>5. ASSUME NEW h \in Handlers, ImportFeed(h) PROVE Subscr!Next
  <2>1. Here(h).url \in Urls
    BY <1>5, HereType DEF ImportFeed, PlaceInv
  <2>2. PICK f \in FeedIds, t \in Titles : InsertFeed(f, Here(h).url, FolderOf(h, Here(h)), t)
    BY <1>5 DEF ImportFeed
  <2>3. Subscr!Subscribe(f, Here(h).url)
    BY <2>1, <2>2, InsertSubscribes
  <2> QED BY <2>1, <2>3 DEF Subscr!Next
<1>6. ASSUME NEW f \in FeedIds, DeleteFeed(f) PROVE Subscr!Next
  BY <1>6, DeleteUnsubscribes DEF Subscr!Next
<1>7. ASSUME UNCHANGED <<url, spent>> PROVE UNCHANGED Subscr!svars
  BY <1>7, SameSubscriptions
<1>8. ASSUME \/ \E g \in FolderIds : DeleteFolder(g) \/ \E n \in Names : UpdateFolder(g, n)
             \/ \E f \in FeedIds, g \in Known, t \in Titles : UpdateFeed(f, g, t)
      PROVE  UNCHANGED Subscr!svars
  BY <1>7, <1>8 DEF DeleteFolder, UpdateFolder, UpdateFeed
<1>9. ASSUME NEW h \in Handlers,
             \/ ImportFolderFails(h) \/ LookUpFeed(h) \/ ImportFeedFails(h) \/ ImportDone(h)
             \/ ExportOPML(h) \/ FetchPage(h) \/ ListFolders(h)
             \/ \E d \in Documents : ImportOPML(h, d)
      PROVE  UNCHANGED Subscr!svars
  BY <1>7, <1>9 DEF ImportFolderFails, LookUpFeed, ImportFeedFails, ImportDone, ExportOPML,
                    FetchPage, ListFolders, ImportOPML
<1>10. ASSUME NEW h \in Handlers, Respond(h) \/ ExportFails(h)
       PROVE  UNCHANGED Subscr!svars
  BY <1>7, <1>10 DEF Respond, ExportFails, Returns
<1>11. CASE UNCHANGED vars
  BY <1>7, <1>11 DEF vars
<1> QED BY <1>2, <1>3, <1>4, <1>5, <1>6, <1>8, <1>9, <1>10, <1>11 DEF Next, Client, Handle

\* Requests that subscribe and unsubscribe, imports among them, implement
\* Subscription: one subscription to a URL at a time, and no id used again.
THEOREM FoldersImplementSubscription == Spec => FeedsAreSubscriptions
<1>1. Init => Subscr!Init
  BY DEF Init, FeedStatus, Subscr!Init
<1>2. /\ TypeOK /\ PlaceInv /\ RowInv /\ [Next]_vars
         => TypeOK' /\ PlaceInv' /\ RowInv' /\ [Subscr!Next]_(Subscr!svars)
  BY TypeStep, PlaceStep, RowStep, SubscriptionStep
<1> QED BY <1>1, <1>2, PlaceInit, RowInit, PTL DEF Spec, FeedsAreSubscriptions, Subscr!Spec
=============================================================================
