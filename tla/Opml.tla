---------------------------------- MODULE Opml ----------------------------------
(***************************************************************************)
(* What an OPML file means: its outlines, and the folders and feeds that   *)
(* ParseOPML finds in them and that GenerateOPML writes.  XML syntax, and  *)
(* the limit of 1 MiB, are left out.                                       *)
(***************************************************************************)
EXTENDS Naturals, FiniteSets, Sequences, SequencesExt

CONSTANTS Root, NoVal,
  Blank    \* the text of an attribute that is not there

\* An outline: text, title, type and xmlUrl, and the outlines in it.  Titles of
\* feeds, which nothing depends on, are left out of the document.
Attr(o, a) == IF a \in DOMAIN o THEN o[a] ELSE Blank
Inside(o) == IF "children" \in DOMAIN o THEN o.children ELSE <<>>

\* isFeed.
IsFeed(o) == Attr(o, "type") \in {"rss", "atom"} \/ Attr(o, "xmlUrl") # Blank

\* What a loop that skips the others collects: the members of s at these places,
\* in their order.  The n-th of them is that with n - 1 of them before it.
Nth(places, n) == CHOOSE i \in places : Cardinality({j \in places : j < i}) = n - 1
Pick(s, places) == [n \in 1 .. Cardinality(places) |-> s[Nth(places, n)]]

\* outlineToFeed.
OutlineToFeed(o) == Attr(o, "xmlUrl")
FeedsOf(outlines) ==
  LET feeds == Pick(outlines, {i \in DOMAIN outlines : IsFeed(outlines[i])}) IN
  [i \in DOMAIN feeds |-> OutlineToFeed(feeds[i])]

\* The outlines in a folder that are no feeds are dropped, with what is in them.
FolderOf(o) ==
  [name |-> IF Attr(o, "text") # Blank THEN Attr(o, "text") ELSE Attr(o, "title"),
   feeds |-> FeedsOf(Inside(o))]

ParseOPML(outlines) ==
  LET groups == Pick(outlines, {i \in DOMAIN outlines : ~IsFeed(outlines[i])}) IN
  [folders |-> [i \in DOMAIN groups |-> FolderOf(groups[i])],
   feeds |-> FeedsOf(outlines)]

\* feedToOutline.
FeedToOutline(u) == [type |-> "rss", xmlUrl |-> u]
Outlines(feeds) == [i \in DOMAIN feeds |-> FeedToOutline(feeds[i])]

\* Faulty variant: the feeds of a folder follow it instead of being in it.
GenerateFlat(d) ==
  FlattenSeq([i \in DOMAIN d.folders |->
    <<[text |-> d.folders[i].name, title |-> d.folders[i].name]>>
      \o Outlines(d.folders[i].feeds)])
  \o Outlines(d.feeds)

\* GenerateOPML.
GenerateOPML(d) ==
  [i \in DOMAIN d.folders |->
     [text |-> d.folders[i].name, title |-> d.folders[i].name,
      children |-> Outlines(d.folders[i].feeds)]]
  \o Outlines(d.feeds)

\* A document as ImportOPML walks it: each folder and its feeds, then the rest.
EntriesOf(folder, feeds) == [i \in DOMAIN feeds |-> [folder |-> folder, url |-> feeds[i]]]
Entries(d) ==
  FlattenSeq([i \in DOMAIN d.folders |->
    <<[folder |-> d.folders[i].name, url |-> NoVal]>>
      \o EntriesOf(d.folders[i].name, d.folders[i].feeds)])
  \o EntriesOf(Root, d.feeds)
=============================================================================
