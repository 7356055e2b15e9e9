------------------------------- MODULE MCFolders -------------------------------
(* Instances of Folders for TLC: files as ParseOPML reads them. *)
EXTENDS FoldersProperties

CONSTANTS n1, u1, u2

FeedOutline(u) == [type |-> "rss", xmlUrl |-> u]

\* A folder in a folder, whose feed is lost, and the folder again; and a file
\* without folders, with a feed that has no URL.
MCOutlines ==
  { << [text |-> n1,
        children |-> << FeedOutline(u1),
                        [text |-> n1, children |-> <<FeedOutline(u2)>>] >>],
       [title |-> n1] >>,
    << [type |-> "atom"], FeedOutline(u2) >> }

\* What ParseOPML makes of them.
HeadingEntry(n) == [folder |-> n, url |-> NoVal]
FeedEntry(n, u) == [folder |-> n, url |-> u]

MCDocuments ==
  { << HeadingEntry(n1), FeedEntry(n1, u1), HeadingEntry(n1) >>,
    << FeedEntry(Root, Blank), FeedEntry(Root, u2) >> }

ASSUME ParsedAssumption == MCDocuments = {Opml!Entries(Opml!ParseOPML(o)) : o \in MCOutlines}
=============================================================================
