------------------------------ MODULE Opml_proofs ------------------------------
(***************************************************************************)
(* What an export writes is what an import of the file reads, for any      *)
(* number of folders and feeds.                                            *)
(***************************************************************************)
EXTENDS Folders_proofs, FiniteSetTheorems

-----------------------------------------------------------------------------
(* Sequences.                                                              *)

\* The instances count as everybody does.
LEMMA SameCardinality ==
  \A S : Opml!Cardinality(S) = Cardinality(S) /\ Seqs!Cardinality(S) = Cardinality(S)
BY DEF Opml!Cardinality, Seqs!Cardinality, Cardinality

\* Of the places m + 1, m + 2, ... the n-th is m + n.
LEMMA NthOfInterval ==
  ASSUME NEW m \in Nat, NEW k \in Nat, NEW n \in 1 .. k
  PROVE  Opml!Nth(m + 1 .. m + k, n) = m + n
<1>1. ASSUME NEW i \in m + 1 .. m + k
      PROVE  Cardinality({j \in m + 1 .. m + k : j < i}) = i - (m + 1)
  <2>1. {j \in m + 1 .. m + k : j < i} = m + 1 .. i - 1
    OBVIOUS
  <2>2. /\ m + 1 \in Int /\ i - 1 \in Int /\ (m + 1 > i - 1 => i - (m + 1) = 0)
        /\ (i - 1) - (m + 1) + 1 = i - (m + 1)
    OBVIOUS
  <2>3. Cardinality(m + 1 .. i - 1) = i - (m + 1)
    BY <2>2, FS_Interval
  <2> QED BY <2>1, <2>3
<1>2. m + n \in m + 1 .. m + k
  OBVIOUS
<1>3. \A i \in m + 1 .. m + k :
        Cardinality({j \in m + 1 .. m + k : j < i}) = n - 1 <=> i = m + n
  BY <1>1
<1> QED BY <1>2, <1>3, SameCardinality DEF Opml!Nth

\* The k places after the first m.
Following(m, k) == m + 1 .. m + k

\* A loop that skips none of k members after the first m collects these.
LEMMA PickInterval ==
  ASSUME NEW s, NEW m \in Nat, NEW k \in Nat
  PROVE  /\ DOMAIN Opml!Pick(s, Following(m, k)) = 1 .. k
         /\ \A n \in 1 .. k : Opml!Pick(s, Following(m, k))[n] = s[m + n]
<1>1. Cardinality(m + 1 .. m + k) = k
  <2>1. /\ m + 1 \in Int /\ m + k \in Int /\ (m + 1 > m + k => k = 0)
        /\ (m + k) - (m + 1) + 1 = k
    OBVIOUS
  <2> QED BY <2>1, FS_Interval
<1>2. \A n \in 1 .. k : Opml!Nth(m + 1 .. m + k, n) = m + n
  BY NthOfInterval
<1> QED BY <1>1, <1>2, SameCardinality DEF Opml!Pick, Following

\* A loop that skips none at all.
LEMMA PickAll ==
  ASSUME NEW s, NEW k \in Nat
  PROVE  /\ DOMAIN Opml!Pick(s, 1 .. k) = 1 .. k
         /\ \A n \in 1 .. k : Opml!Pick(s, 1 .. k)[n] = s[n]
<1>1. PICK z \in Nat : z = 0
  OBVIOUS
<1>2. /\ DOMAIN Opml!Pick(s, Following(z, k)) = 1 .. k
      /\ \A n \in 1 .. k : Opml!Pick(s, Following(z, k))[n] = s[z + n]
  BY PickInterval, Zenon
<1>3. Following(z, k) = 1 .. k /\ \A n \in 1 .. k : z + n = n
  BY <1>1 DEF Following
<1> QED BY <1>2, <1>3

\* The members of a finite set can be put in a sequence.
LEMMA SetToSeqOf ==
  ASSUME NEW S, IsFiniteSet(S)
  PROVE  Seqs!SetToSeq(S) \in Seq(S) /\ Seqs!ToSet(Seqs!SetToSeq(S)) = S
<1> DEFINE n == Cardinality(S)
           q == Seqs!SetToSeq(S)
<1>1. n \in Nat /\ ExistsBijection(1 .. n, S)
  BY FS_CardinalityType
<1>2. PICK f \in [1 .. n -> S] : \A a, b \in DOMAIN f : f[a] = f[b] => a = b
  BY <1>1 DEF ExistsBijection, Bijection, Injection, IsInjective
<1>3. q \in [1 .. n -> S] /\ \A a, b \in DOMAIN q : q[a] = q[b] => a = b
  BY <1>2, SameCardinality DEF Seqs!SetToSeq, Seqs!IsInjective
<1>4. q \in Injection(1 .. n, S)
  BY <1>3 DEF Injection, IsInjective
<1>5. Cardinality(1 .. n) = n /\ IsFiniteSet(1 .. n)
  BY <1>1, FS_Interval
<1>6. q \in Surjection(1 .. n, S)
  BY <1>4, <1>5, FS_Injection
<1> QED BY <1>1, <1>3, <1>6 DEF Surjection, Seqs!ToSet

-----------------------------------------------------------------------------
(* GenerateOPML and ParseOPML.                                             *)

\* feedToOutline makes a feed of the URL it is given.
LEMMA FeedOutlines ==
  ASSUME NEW u
  PROVE  /\ Opml!IsFeed(Opml!FeedToOutline(u))
         /\ Opml!OutlineToFeed(Opml!FeedToOutline(u)) = u
BY DEF Opml!IsFeed, Opml!OutlineToFeed, Opml!FeedToOutline, Opml!Attr

\* The outlines of feeds are read as these feeds.
LEMMA FeedsReadBack ==
  ASSUME NEW U, NEW r \in Seq(U)
  PROVE  Opml!FeedsOf(Opml!Outlines(r)) = r
<1> DEFINE os == Opml!Outlines(r)
<1>1. DOMAIN os = 1 .. Len(r) /\ \A i \in 1 .. Len(r) : os[i] = Opml!FeedToOutline(r[i])
  BY DEF Opml!Outlines
<1>2. {i \in DOMAIN os : Opml!IsFeed(os[i])} = 1 .. Len(r)
  BY <1>1, FeedOutlines
<1>3. /\ DOMAIN Opml!Pick(os, 1 .. Len(r)) = 1 .. Len(r)
      /\ \A n \in 1 .. Len(r) : Opml!Pick(os, 1 .. Len(r))[n] = os[n]
  BY PickAll
<1>4. Opml!FeedsOf(os) = [n \in 1 .. Len(r) |-> Opml!OutlineToFeed(os[n])]
  BY <1>2, <1>3 DEF Opml!FeedsOf
<1>5. \A n \in 1 .. Len(r) : Opml!OutlineToFeed(os[n]) = r[n]
  BY <1>1, FeedOutlines
<1> QED BY <1>4, <1>5

\* What GenerateOPML writes for folder g.
Outline(g) == [text |-> g.name, title |-> g.name, children |-> Opml!Outlines(g.feeds)]

\* The outline of a folder is no feed, and is read as that folder: even one whose
\* name is empty, which is no text and no title either.
LEMMA FolderReadsBack ==
  ASSUME NEW N, NEW U, NEW g \in [name : N, feeds : Seq(U)]
  PROVE  ~Opml!IsFeed(Outline(g)) /\ Opml!FolderOf(Outline(g)) = g
<1>1. /\ Opml!Attr(Outline(g), "type") = Blank /\ Opml!Attr(Outline(g), "xmlUrl") = Blank
      /\ Opml!Attr(Outline(g), "text") = g.name /\ Opml!Attr(Outline(g), "title") = g.name
      /\ Opml!Inside(Outline(g)) = Opml!Outlines(g.feeds)
  BY DEF Opml!Attr, Opml!Inside, Outline
<1>2. ~Opml!IsFeed(Outline(g))
  BY <1>1, DistinctAssumption DEF Opml!IsFeed
<1>3. Opml!FeedsOf(Opml!Outlines(g.feeds)) = g.feeds
  BY FeedsReadBack
<1>4. Opml!FolderOf(Outline(g)) = [name |-> g.name, feeds |-> g.feeds]
  BY <1>1, <1>3 DEF Opml!FolderOf
<1> QED BY <1>2, <1>4

\* ParseOPML reads the document that GenerateOPML was given, in its order: the
\* folders with their feeds, and the feeds of the root.
THEOREM RoundTrip ==
  ASSUME NEW N, NEW U, NEW F \in Seq([name : N, feeds : Seq(U)]), NEW R \in Seq(U)
  PROVE  LET d == [folders |-> F, feeds |-> R] IN Opml!ParseOPML(Opml!GenerateOPML(d)) = d
<1> DEFINE d == [folders |-> F, feeds |-> R]
           os == Opml!GenerateOPML(d)
           m == Len(F)
           k == Len(R)
<1>1. m \in Nat /\ k \in Nat
  OBVIOUS
<1>11. /\ DOMAIN F = 1 .. m /\ F = [i \in 1 .. m |-> F[i]] /\ R = [i \in 1 .. k |-> R[i]]
       /\ Opml!Outlines(R) = [i \in 1 .. k |-> Opml!FeedToOutline(R[i])]
  BY DEF Opml!Outlines
<1>2. os = [i \in 1 .. m |-> Outline(F[i])] \o Opml!Outlines(R)
  <2>1. d.folders = F /\ d.feeds = R
    OBVIOUS
  <2>2. os = [i \in DOMAIN F |-> Outline(F[i])] \o Opml!Outlines(R)
    BY <2>1 DEF Opml!GenerateOPML, Outline
  <2> QED BY <1>11, <2>2
<1>21. \A i \in 1 .. m : F[i] \in [name : N, feeds : Seq(U)]
  <2>1. \A S : \A s \in Seq(S) : \A i \in 1 .. Len(s) : s[i] \in S
    OBVIOUS
  <2> QED BY <2>1
<1> HIDE DEF os, m, k
<1>3. /\ DOMAIN os = 1 .. m + k
      /\ \A i \in 1 .. m : os[i] = Outline(F[i])
      /\ \A i \in m + 1 .. m + k : os[i] = Opml!FeedToOutline(R[i - m])
  BY <1>1, <1>11, <1>2
<1>4. \A i \in 1 .. m : ~Opml!IsFeed(os[i]) /\ Opml!FolderOf(os[i]) = F[i]
  BY <1>3, <1>21, FolderReadsBack
<1>5. \A i \in m + 1 .. m + k : Opml!IsFeed(os[i]) /\ Opml!OutlineToFeed(os[i]) = R[i - m]
  BY <1>3, FeedOutlines
<1>6. /\ {i \in DOMAIN os : ~Opml!IsFeed(os[i])} = 1 .. m
      /\ {i \in DOMAIN os : Opml!IsFeed(os[i])} = Following(m, k)
  <2>1. /\ 1 .. m + k = (1 .. m) \cup (m + 1 .. m + k)
        /\ (1 .. m) \cap (m + 1 .. m + k) = {}
    BY <1>1
  <2> QED BY <1>3, <1>4, <1>5, <2>1 DEF Following
<1>7. /\ DOMAIN Opml!Pick(os, 1 .. m) = 1 .. m
      /\ \A n \in 1 .. m : Opml!Pick(os, 1 .. m)[n] = os[n]
  BY <1>1, PickAll
<1>71. /\ DOMAIN Opml!Pick(os, Following(m, k)) = 1 .. k
       /\ \A n \in 1 .. k : Opml!Pick(os, Following(m, k))[n] = os[m + n]
  BY <1>1, PickInterval, Zenon
<1>8. Opml!FeedsOf(os) = R
  <2>1. Opml!FeedsOf(os) = [n \in 1 .. k |-> Opml!OutlineToFeed(os[m + n])]
    BY <1>6, <1>71 DEF Opml!FeedsOf
  <2>2. \A n \in 1 .. k : Opml!OutlineToFeed(os[m + n]) = R[n]
    <3>1. \A n \in 1 .. k : m + n \in m + 1 .. m + k /\ (m + n) - m = n
      BY <1>1
    <3> QED BY <1>5, <3>1
  <2> QED BY <1>11, <2>1, <2>2
<1>9. Opml!ParseOPML(os).folders = F
  <2>1. Opml!ParseOPML(os).folders = [n \in 1 .. m |-> Opml!FolderOf(os[n])]
    BY <1>6, <1>7 DEF Opml!ParseOPML
  <2> QED BY <1>11, <1>4, <2>1
<1>10. Opml!ParseOPML(os) = [folders |-> Opml!ParseOPML(os).folders, feeds |-> Opml!FeedsOf(os)]
  BY DEF Opml!ParseOPML
<1> QED BY <1>8, <1>9, <1>10 DEF os

-----------------------------------------------------------------------------
(* The file of an export.                                                  *)

\* What is read, and what is put on the sheet, is finite.
FiniteInv == \A h \in Handlers : IsFiniteSet(listed[h]) /\ IsFiniteSet(sheet[h])

\* What is computed from the members of a finite set is finite.
LEMMA ImageFinite ==
  ASSUME NEW S, IsFiniteSet(S), NEW T, NEW f \in [S -> T], \A y \in T : \E x \in S : f[x] = y
  PROVE  IsFiniteSet(T)
<1>1. f \in Surjection(S, T)
  BY DEF Surjection
<1> QED BY <1>1, FS_Surjection

\* Every step keeps them finite.
LEMMA FiniteStep == TypeOK /\ FiniteInv /\ [Next]_vars => FiniteInv'
<1> SUFFICES ASSUME TypeOK, FiniteInv, [Next]_vars PROVE FiniteInv'
  OBVIOUS
<1> USE DEF FiniteInv
<1>1. ASSUME UNCHANGED exporter PROVE FiniteInv'
  BY <1>1 DEF exporter
<1>2. ASSUME NEW h \in Handlers, FetchPage(h) PROVE FiniteInv'
  <2>1. PICK page \in SUBSET {f \in Subscribed : After(h, f)} :
          listed' = [listed EXCEPT ![h] = @ \cup {<<f, url[f], filed[f]>> : f \in page}]
    BY <1>2 DEF FetchPage
  <2>2. IsFiniteSet(page)
    <3>1. page \in SUBSET FeedIds
      BY DEF Subscribed
    <3> QED BY <3>1, NumbersAssumption, FS_Subset
  <2>3. IsFiniteSet({<<f, url[f], filed[f]>> : f \in page})
    <3> DEFINE T == {<<f, url[f], filed[f]>> : f \in page}
               row == [f \in page |-> <<f, url[f], filed[f]>>]
    <3>1. row \in [page -> T] /\ \A y \in T : \E x \in page : row[x] = y
      OBVIOUS
    <3> HIDE DEF T, row
    <3>2. IsFiniteSet(T)
      BY <2>2, <3>1, ImageFinite
    <3> QED BY <3>2 DEF T
  <2>4. IsFiniteSet(listed[h] \cup {<<f, url[f], filed[f]>> : f \in page})
    BY <2>3, FS_Union
  <2>5. sheet' = sheet
    BY <1>2 DEF FetchPage
  <2> QED BY <2>1, <2>4, <2>5 DEF TypeOK
<1>3. ASSUME NEW h \in Handlers, ListFolders(h) PROVE FiniteInv'
  <2>2. IsFiniteSet({<<r[1], r[2], Heading(r[3])>> : r \in listed[h]})
    <3> DEFINE T == {<<r[1], r[2], Heading(r[3])>> : r \in listed[h]}
               line == [r \in listed[h] |-> <<r[1], r[2], Heading(r[3])>>]
    <3>1. line \in [listed[h] -> T] /\ \A y \in T : \E x \in listed[h] : line[x] = y
      OBVIOUS
    <3> HIDE DEF T, line
    <3>2. IsFiniteSet(T)
      BY <3>1, ImageFinite
    <3> QED BY <3>2 DEF T
  <2>3. IsFiniteSet({})
    BY FS_EmptySet
  <2> QED BY <1>3, <2>2, <2>3 DEF ListFolders, TypeOK
<1>4. ASSUME NEW h \in Handlers, Respond(h) \/ ExportFails(h) PROVE FiniteInv'
  <2>1. Returns(h)
    BY <1>4 DEF Respond, ExportFails
  <2>2. IsFiniteSet({})
    BY FS_EmptySet
  <2> QED BY <2>1, <2>2 DEF Returns, TypeOK
<1>5. ASSUME \/ \E g \in FolderIds, n \in Names : CreateFolder(g, n) \/ UpdateFolder(g, n)
             \/ \E g \in FolderIds : DeleteFolder(g)
             \/ \E f \in FeedIds, g \in Known, t \in Titles :
                  UpdateFeed(f, g, t) \/ \E u \in Urls : CreateFeed(f, u, g, t)
             \/ \E f \in FeedIds : DeleteFeed(f)
      PROVE  FiniteInv'
  BY <1>1, <1>5 DEF CreateFolder, UpdateFolder, DeleteFolder, UpdateFeed, CreateFeed, DeleteFeed
<1>6. ASSUME NEW h \in Handlers,
             \/ ImportFolder(h) \/ ImportFolderFails(h) \/ LookUpFeed(h) \/ ImportFeed(h)
             \/ ImportFeedFails(h) \/ ImportDone(h) \/ ExportOPML(h)
             \/ \E d \in Documents : ImportOPML(h, d)
      PROVE  FiniteInv'
  BY <1>1, <1>6 DEF ImportFolder, ImportFolderFails, LookUpFeed, ImportFeed, ImportFeedFails,
                    ImportDone, ExportOPML, ImportOPML
<1>7. CASE UNCHANGED vars
  BY <1>1, <1>7 DEF vars
<1> QED BY <1>2, <1>3, <1>4, <1>5, <1>6, <1>7 DEF Next, Client, Handle

\* The feeds of the sheet under one heading, in some order.
LEMMA GroupOf ==
  ASSUME TypeOK, FiniteInv, NEW h \in Handlers, NEW x
  PROVE  /\ Group(h, x) \in Seq(Urls)
         /\ Seqs!ToSet(Group(h, x)) = {r[2] : r \in {r \in sheet[h] : r[3] = x}}
<1> DEFINE S == {r \in sheet[h] : r[3] = x}
           T == {r[2] : r \in S}
           second == [r \in S |-> r[2]]
<1>1. IsFiniteSet(S)
  <2>1. S \in SUBSET sheet[h] /\ IsFiniteSet(sheet[h])
    BY DEF FiniteInv
  <2> QED BY <2>1, FS_Subset
<1>2. IsFiniteSet(T)
  <2>1. second \in [S -> T] /\ \A y \in T : \E r \in S : second[r] = y
    OBVIOUS
  <2> HIDE DEF S, T, second
  <2> QED BY <1>1, <2>1, ImageFinite
<1>3. T \subseteq Urls
  BY DEF TypeOK
<1>4. Group(h, x) \in Seq(T) /\ Seqs!ToSet(Group(h, x)) = T
  BY <1>2, SetToSeqOf DEF Group
<1>5. Seq(T) \subseteq Seq(Urls)
  BY <1>3
<1> QED BY <1>4, <1>5

\* The names of its folders, in some order.
LEMMA HeadingsOf ==
  ASSUME TypeOK, FiniteInv, NEW h \in Handlers
  PROVE  /\ Headings(h) \in Seq(Names)
         /\ Seqs!ToSet(Headings(h)) = {r[3] : r \in sheet[h]} \ {Root}
<1> DEFINE T == {r[3] : r \in sheet[h]}
           third == [r \in sheet[h] |-> r[3]]
<1>1. IsFiniteSet(T)
  <2>1. third \in [sheet[h] -> T] /\ \A y \in T : \E x \in sheet[h] : third[x] = y
    OBVIOUS
  <2> HIDE DEF T, third
  <2> QED BY <2>1, ImageFinite DEF FiniteInv
<1>2. IsFiniteSet(T \ {Root})
  BY <1>1, FS_RemoveElement
<1>3. T \ {Root} \subseteq Names
  BY DEF TypeOK
<1>4. Headings(h) \in Seq(T \ {Root}) /\ Seqs!ToSet(Headings(h)) = T \ {Root}
  BY <1>2, SetToSeqOf DEF Headings
<1>5. Seq(T \ {Root}) \subseteq Seq(Names)
  BY <1>3
<1> QED BY <1>4, <1>5

\* The document of an export files each feed where the sheet does.
LEMMA DocumentFiles ==
  ASSUME TypeOK, FiniteInv, NEW h \in Handlers
  PROVE  Filing(DocumentOf(h)) = {<<r[2], r[3]>> : r \in sheet[h]}
<1> DEFINE q == Headings(h)
           fs == DocumentOf(h).folders
<1>1. /\ \A i \in DOMAIN q : fs[i] = [name |-> q[i], feeds |-> Group(h, q[i])]
      /\ DOMAIN fs = DOMAIN q
      /\ DocumentOf(h).feeds = Group(h, Root)
  BY DEF DocumentOf
<1>2. {q[i] : i \in DOMAIN q} = {r[3] : r \in sheet[h]} \ {Root}
  BY HeadingsOf DEF Seqs!ToSet
<1>3. \A x : Seqs!ToSet(Group(h, x)) = {r[2] : r \in {r \in sheet[h] : r[3] = x}}
  BY GroupOf
<1> HIDE DEF q, fs
<1>4. Seqs!ToSet(fs) = {[name |-> x, feeds |-> Group(h, x)] : x \in {r[3] : r \in sheet[h]} \ {Root}}
  <2>1. Seqs!ToSet(fs) = {[name |-> q[i], feeds |-> Group(h, q[i])] : i \in DOMAIN q}
    BY <1>1 DEF Seqs!ToSet
  <2>2. {[name |-> q[i], feeds |-> Group(h, q[i])] : i \in DOMAIN q}
          = {[name |-> x, feeds |-> Group(h, x)] : x \in {q[i] : i \in DOMAIN q}}
    OBVIOUS
  <2> QED BY <1>2, <2>1, <2>2
<1>5. UNION {{<<u, g.name>> : u \in Seqs!ToSet(g.feeds)} : g \in Seqs!ToSet(fs)}
        = {<<r[2], r[3]>> : r \in {r \in sheet[h] : r[3] # Root}}
  <2> DEFINE K == {r[3] : r \in sheet[h]} \ {Root}
             In(x) == Seqs!ToSet(Group(h, x))
  <2>1. UNION {{<<u, g.name>> : u \in Seqs!ToSet(g.feeds)} : g \in Seqs!ToSet(fs)}
          = UNION {{<<u, x>> : u \in In(x)} : x \in K}
    <3> DEFINE Rec(x) == [name |-> x, feeds |-> Group(h, x)]
               Of(g) == {<<u, g.name>> : u \in Seqs!ToSet(g.feeds)}
               Pairs(x) == {<<u, x>> : u \in In(x)}
    <3>1. \A x : Of(Rec(x)) = Pairs(x)
      OBVIOUS
    <3>2. Seqs!ToSet(fs) = {Rec(x) : x \in K}
      BY <1>4
    <3> HIDE DEF Of, Rec, K, In, Pairs
    <3>3. {Of(g) : g \in {Rec(x) : x \in K}} = {Pairs(x) : x \in K}
      BY <3>1
    <3> QED BY <3>2, <3>3 DEF Of, Pairs
  <2>2. \A p : (\E x \in K : \E u \in In(x) : p = <<u, x>>)
               <=> \E r \in sheet[h] : r[3] # Root /\ p = <<r[2], r[3]>>
    BY <1>3
  <2> HIDE DEF K, In
  <2> QED BY <2>1, <2>2
<1>6. {<<u, Root>> : u \in Seqs!ToSet(Group(h, Root))}
        = {<<r[2], r[3]>> : r \in {r \in sheet[h] : r[3] = Root}}
  BY <1>3
<1> QED BY <1>1, <1>5, <1>6 DEF Filing, fs

\* Whatever is on the sheet, the file written from it is read back as the same
\* feeds under the same names of folders.
THEOREM ExportsReadBack == Spec => []ExportReadsBack
<1>1. Init => FiniteInv
  BY FS_EmptySet DEF Init, FiniteInv
<1>2. TypeOK /\ FiniteInv => ExportReadsBack
  <2> SUFFICES ASSUME TypeOK, FiniteInv, NEW h \in Handlers
               PROVE  Filing(Opml!ParseOPML(Opml!GenerateOPML(DocumentOf(h))))
                        = {<<r[2], r[3]>> : r \in sheet[h]}
    BY DEF ExportReadsBack
  <2> DEFINE F == DocumentOf(h).folders
             R == DocumentOf(h).feeds
  <2>1. R \in Seq(Urls)
    BY GroupOf DEF DocumentOf
  <2>2. F \in Seq([name : Names, feeds : Seq(Urls)])
    <3>1. F = [i \in DOMAIN Headings(h) |->
                 [name |-> Headings(h)[i], feeds |-> Group(h, Headings(h)[i])]]
      BY DEF DocumentOf
    <3>2. /\ Headings(h) \in Seq(Names)
          /\ \A i \in DOMAIN Headings(h) : Headings(h)[i] \in Names
      BY HeadingsOf
    <3>3. \A i \in DOMAIN Headings(h) : Group(h, Headings(h)[i]) \in Seq(Urls)
      BY GroupOf
    <3> DEFINE S == [name : Names, feeds : Seq(Urls)]
               m == Len(Headings(h))
    <3>4. m \in Nat /\ DOMAIN Headings(h) = 1 .. m
      BY <3>2
    <3>5. F \in [1 .. m -> S]
      BY <3>1, <3>2, <3>3, <3>4
    <3> HIDE DEF F, S, m
    <3>6. F \in Seq(S)
      BY <3>4, <3>5
    <3> QED BY <3>6 DEF S
  <2>3. DocumentOf(h) = [folders |-> F, feeds |-> R]
    BY DEF DocumentOf
  <2>4. Opml!ParseOPML(Opml!GenerateOPML(DocumentOf(h))) = DocumentOf(h)
    <3> HIDE DEF F, R
    <3> QED BY <2>1, <2>2, <2>3, RoundTrip
  <2> QED BY <2>4, DocumentFiles
<1>3. TypeOK /\ PlaceInv /\ FiniteInv /\ [Next]_vars => TypeOK' /\ PlaceInv' /\ FiniteInv'
  BY TypeStep, PlaceStep, FiniteStep
<1> QED BY <1>1, <1>2, <1>3, PlaceInit, PTL DEF Spec
=============================================================================
