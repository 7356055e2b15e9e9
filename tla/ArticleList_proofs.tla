--------------------------- MODULE ArticleList_proofs ---------------------------
(***************************************************************************)
(* Theorems about the list of articles, for any articles and page sizes.   *)
(***************************************************************************)
EXTENDS ArticleListProperties, FiniteSetTheorems, TLAPS

\* A page has no more rows than are asked for, and they are rows.
LEMMA PageType ==
  ASSUME NEW page, NEW n \in 0 .. PageSize, page \in [1 .. n -> Row]
  PROVE  page \in Seq(Row) /\ Len(page) = n /\ NextToken(page) \in Ids \cup {NoVal}
<1>1. PageSize \in Nat \ {0}
  BY NumbersAssumption
<1>2. n \in Nat
  BY <1>1
<1>3. page \in Seq(Row) /\ Len(page) = n
  BY <1>2
<1>4. n = PageSize => page[PageSize].id \in Ids
  BY <1>1, <1>3 DEF Row
<1> QED BY <1>3, <1>4 DEF NextToken

\* What is left of the rows when an article is removed: the other rows.
LEMMA Removed ==
  ASSUME NEW i, rows \in Seq(Row), RemoveArticle(i)
  PROVE  rows' \in Seq(Row) /\ IdsOf(rows') = IdsOf(rows) \ {i}
<1> DEFINE kept == {k \in DOMAIN rows : rows[k].id # i}
           n == Cardinality(kept)
<1>1. DOMAIN rows = 1 .. Len(rows) /\ Len(rows) \in Nat
  OBVIOUS
<1>2. IsFiniteSet(kept)
  <2>1. IsFiniteSet(1 .. Len(rows))
    BY <1>1, FS_Interval
  <2> QED BY <1>1, <2>1, FS_Subset
<1>3. n \in Nat
  BY <1>2, FS_CardinalityType
<1>4. PICK place \in [1 .. n -> kept] :
        /\ \A k \in kept : \E j \in 1 .. n : place[j] = k
        /\ rows' = [k \in 1 .. n |-> rows[place[k]]]
  BY DEF RemoveArticle
<1>5. \A k \in 1 .. n : place[k] \in 1 .. Len(rows) /\ rows[place[k]] \in Row
                        /\ rows[place[k]].id # i
  BY <1>1, <1>4
<1>6. rows' \in [1 .. n -> Row]
  BY <1>4, <1>5
<1>7. rows' \in Seq(Row) /\ DOMAIN rows' = 1 .. n
  <2> HIDE DEF n
  <2> QED BY <1>3, <1>6
<1>8. ASSUME NEW a \in IdsOf(rows') PROVE a \in IdsOf(rows) \ {i}
  <2>1. PICK k \in 1 .. n : a = rows'[k].id
    BY <1>7, <1>8 DEF IdsOf
  <2>2. rows'[k] = rows[place[k]]
    BY <1>4
  <2> QED BY <1>1, <1>5, <2>1, <2>2 DEF IdsOf
<1>9. ASSUME NEW a \in IdsOf(rows) \ {i} PROVE a \in IdsOf(rows')
  <2>1. PICK k \in DOMAIN rows : a = rows[k].id
    BY <1>9 DEF IdsOf
  <2>2. k \in kept
    BY <1>9, <2>1
  <2>3. PICK j \in 1 .. n : place[j] = k
    BY <1>4, <2>2
  <2>4. rows'[j].id = a
    BY <1>4, <2>1, <2>3
  <2> QED BY <1>7, <2>4 DEF IdsOf
<1> QED BY <1>7, <1>8, <1>9

\* An update in place changes no article for another.
LEMMA Updated ==
  ASSUME NEW i \in Ids, NEW read \in BOOLEAN, rows \in Seq(Row), UpdateArticle(i, read)
  PROVE  rows' \in Seq(Row) /\ IdsOf(rows') = IdsOf(rows) /\ token' = NoVal
<1>1. [id |-> i, read |-> read] \in Row
  BY DEF Row
<1>2. DOMAIN rows = 1 .. Len(rows) /\ Len(rows) \in Nat /\ \A k \in DOMAIN rows : rows[k] \in Row
  OBVIOUS
<1>3. rows' = [k \in DOMAIN rows |-> IF rows[k].id = i THEN [id |-> i, read |-> read] ELSE rows[k]]
  BY DEF UpdateArticle
<1>4. rows' \in [1 .. Len(rows) -> Row]
  BY <1>1, <1>2, <1>3
<1>5. rows' \in Seq(Row) /\ DOMAIN rows' = DOMAIN rows
  BY <1>2, <1>3, <1>4
<1>6. \A k \in DOMAIN rows : rows'[k].id = rows[k].id
  BY <1>3
<1>7. IdsOf(rows') = IdsOf(rows)
  BY <1>5, <1>6 DEF IdsOf
<1> QED BY <1>5, <1>7 DEF UpdateArticle

\* The articles of two lists put together.
LEMMA Appended ==
  ASSUME NEW s \in Seq(Row), NEW t \in Seq(Row)
  PROVE  s \o t \in Seq(Row) /\ IdsOf(s \o t) = IdsOf(s) \cup IdsOf(t)
<1>1. s \o t \in Seq(Row) /\ Len(s \o t) = Len(s) + Len(t)
  OBVIOUS
<1>2. \A k \in 1 .. Len(s) : (s \o t)[k] = s[k]
  OBVIOUS
<1>3. \A k \in 1 .. Len(t) : (s \o t)[Len(s) + k] = t[k] /\ Len(s) + k \in DOMAIN (s \o t)
  OBVIOUS
<1>4. DOMAIN s = 1 .. Len(s) /\ DOMAIN t = 1 .. Len(t) /\ DOMAIN (s \o t) = 1 .. Len(s) + Len(t)
      /\ Len(s) \in Nat /\ Len(t) \in Nat
  BY <1>1
<1>5. ASSUME NEW a \in IdsOf(s \o t) PROVE a \in IdsOf(s) \cup IdsOf(t)
  <2>1. PICK k \in DOMAIN (s \o t) : a = (s \o t)[k].id
    BY <1>5 DEF IdsOf
  <2>2. CASE k <= Len(s)
    BY <1>2, <1>4, <2>1, <2>2 DEF IdsOf
  <2>3. CASE k > Len(s)
    <3>1. k - Len(s) \in 1 .. Len(t) /\ k = Len(s) + (k - Len(s))
      BY <1>4, <2>1, <2>3
    <3>2. a = t[k - Len(s)].id
      BY <1>3, <2>1, <3>1
    <3> QED BY <1>4, <3>1, <3>2 DEF IdsOf
  <2> QED BY <1>4, <2>1, <2>2, <2>3
<1>6. ASSUME NEW a \in IdsOf(s) PROVE a \in IdsOf(s \o t)
  <2>1. PICK k \in DOMAIN s : a = s[k].id
    BY <1>6 DEF IdsOf
  <2>2. k \in DOMAIN (s \o t) /\ (s \o t)[k].id = a
    BY <1>2, <1>4, <2>1
  <2> QED BY <2>2 DEF IdsOf
<1>7. ASSUME NEW a \in IdsOf(t) PROVE a \in IdsOf(s \o t)
  <2>1. PICK k \in DOMAIN t : a = t[k].id
    BY <1>7 DEF IdsOf
  <2>2. Len(s) + k \in DOMAIN (s \o t) /\ (s \o t)[Len(s) + k].id = a
    BY <1>3, <1>4, <2>1
  <2> QED BY <2>2 DEF IdsOf
<1> QED BY <1>1, <1>5, <1>6, <1>7

-----------------------------------------------------------------------------
(* Types, and what isLoading means.                                        *)

Base == TypeOK /\ LoadingIsReal

\* The load that is none, and a load just sent, are loads.
LEMMA LoadTypes ==
  /\ NoLoad \in Loads /\ NoLoad.stage = "none"
  /\ \A refresh, view \in BOOLEAN :
       Sent(refresh, view, NoVal) \in Loads /\ Sent(refresh, view, NoVal).stage = "sent"
<1>1. <<>> \in Seq(Row)
  OBVIOUS
<1> QED BY <1>1 DEF NoLoad, Sent, Loads

\* The rows of a list, and its articles, are of their types.
LEMMA RowTypes ==
  ASSUME NEW s \in Seq(Row)
  PROVE  /\ Len(s) \in Nat /\ DOMAIN s = 1 .. Len(s)
         /\ \A k \in DOMAIN s : s[k] \in Row /\ s[k].id \in Ids
         /\ IdsOf(s) \subseteq Ids
<1>1. Len(s) \in Nat /\ DOMAIN s = 1 .. Len(s) /\ \A k \in DOMAIN s : s[k] \in Row
  OBVIOUS
<1>2. \A r \in Row : r.id \in Ids
  BY DEF Row
<1> QED BY <1>1, <1>2 DEF IdsOf

\* A load that starts is one with the types of a load.
LEMMA StartLoadBase ==
  ASSUME Base, NEW refresh \in BOOLEAN, NEW view \in BOOLEAN, StartLoad(refresh, view)
  PROVE  /\ isLoading' \in BOOLEAN /\ token' \in Ids \cup {NoVal} /\ missed' \in BOOLEAN
         /\ token' # NoVal => token' = token
         /\ load' \in Loads
         /\ isLoading' <=> load'.stage # "none"
<1>1. CASE isLoading
  BY <1>1 DEF StartLoad, Base, TypeOK, LoadingIsReal
<1>2. CASE ~isLoading
  <2>1. token' = NoVal /\ load' = Sent(refresh, view, NoVal) /\ isLoading' /\ missed' \in BOOLEAN
    BY <1>2 DEF StartLoad, Base, TypeOK
  <2> QED BY <2>1, LoadTypes
<1> QED BY <1>1, <1>2

\* The first load is under way when the list is made.
LEMMA BaseInit == Init => Base
<1>1. <<>> \in Seq(Row)
  OBVIOUS
<1> QED BY <1>1, LoadTypes DEF Init, Base, TypeOK, LoadingIsReal

\* Every step keeps the types, and isLoading true to the load.
LEMMA BaseStep == Base /\ [Next]_vars => Base'
<1> SUFFICES ASSUME Base, [Next]_vars PROVE Base'
  OBVIOUS
<1> USE DEF Base, TypeOK, LoadingIsReal, server, list, marks, history
<1>1. CASE Refresh
  BY <1>1, StartLoadBase DEF Refresh
<1>2. CASE ToggleUnreadFilter
  BY <1>2, StartLoadBase DEF ToggleUnreadFilter
<1>3. CASE LoadMore
  BY <1>3, StartLoadBase DEF LoadMore
<1>4. CASE MarkAllAsRead
  BY <1>4 DEF MarkAllAsRead
<1>5. ASSUME NEW i \in Ids, MarkAsRead(i) PROVE Base'
  <2>1. CASE unreadOnly
    <3>1. rows' \in Seq(Row)
      BY <1>5, <2>1, Removed DEF MarkAsRead
    <3> QED BY <1>5, <2>1, <3>1 DEF MarkAsRead
  <2>2. CASE ~unreadOnly
    BY <1>5, <2>2 DEF MarkAsRead
  <2> QED BY <2>1, <2>2
<1>6. ASSUME NEW i \in Ids, MarkAsUnread(i) PROVE Base'
  BY <1>6 DEF MarkAsUnread
<1>7. CASE ServeLoad
  <2>1. PICK page \in UNION {[1 .. n -> Row] : n \in 0 .. PageSize} :
          load' = [load EXCEPT !.stage = "answered", !.page = page]
    BY <1>7 DEF ServeLoad
  <2>2. PICK n \in 0 .. PageSize : page \in [1 .. n -> Row]
    OBVIOUS
  <2>3. page \in Seq(Row)
    BY <2>2, PageType
  <2>4. load' \in Loads /\ load'.stage = "answered"
    BY <2>1, <2>3 DEF Loads
  <2> QED BY <1>7, <2>4 DEF ServeLoad
<1>8. CASE ApplyLoad
  <2>1. load.page \in Seq(Row) /\ load.refresh \in BOOLEAN
    BY DEF Loads
  <2>2. rows' \in Seq(Row)
    BY <1>8, <2>1, Appended DEF ApplyLoad
  <2>3. IdsOf(load.page) \subseteq Ids
    BY <2>1, RowTypes
  <2>4. NextToken(load.page) \in Ids \cup {NoVal}
    <3>1. Len(load.page) = PageSize => PageSize \in DOMAIN load.page
      BY <2>1, NumbersAssumption, RowTypes
    <3> QED BY <2>1, <3>1, RowTypes DEF NextToken
  <2> QED BY <1>8, <2>1, <2>2, <2>3, <2>4, LoadTypes DEF ApplyLoad, LoadEnds, HasMore
<1>9. CASE LoadFails
  <2>1. load.refresh \in BOOLEAN
    BY DEF Loads
  <2> QED BY <1>9, <2>1, LoadTypes DEF LoadFails, LoadEnds
<1>10. CASE ServeMarkAll
  BY <1>10 DEF ServeMarkAll, BecomeRead
<1>11. CASE MarkAllFails
  BY <1>11 DEF MarkAllFails
<1>12. CASE ReloadAfterMarkAll
  BY <1>12, StartLoadBase DEF ReloadAfterMarkAll
<1>13. CASE Recreate
  <2>1. <<>> \in Seq(Row)
    OBVIOUS
  <2> QED BY <1>13, <2>1, LoadTypes DEF Recreate
<1>14. ASSUME NEW i \in Ids, Arrive(i) PROVE Base'
  BY <1>14 DEF Arrive
<1>15. ASSUME NEW i \in Ids, ServeMark(i) PROVE Base'
  <2>1. CASE mark[i] = "reading"
    BY <1>15, <2>1 DEF ServeMark, BecomeRead
  <2>2. CASE mark[i] = "unreading"
    BY <1>15, <2>2 DEF ServeMark
  <2> QED BY <1>15, <2>1, <2>2 DEF ServeMark
<1>16. ASSUME NEW i \in Ids, MarkedAsRead(i) PROVE Base'
  <2>1. CASE i \in mine /\ ~unreadOnly
    BY <1>16, <2>1, Updated DEF MarkedAsRead, MarkEnds
  <2>2. CASE ~(i \in mine /\ ~unreadOnly)
    BY <1>16, <2>2 DEF MarkedAsRead, MarkEnds
  <2> QED BY <2>1, <2>2
<1>17. ASSUME NEW i \in Ids, MarkAsReadFails(i) PROVE Base'
  <2>1. CASE i \in mine
    BY <1>17, <2>1, StartLoadBase DEF MarkAsReadFails, MarkEnds
  <2>2. CASE i \notin mine
    BY <1>17, <2>2 DEF MarkAsReadFails, MarkEnds
  <2> QED BY <2>1, <2>2
<1>18. ASSUME NEW i \in Ids, MarkedAsUnread(i) PROVE Base'
  <2>1. CASE i \in mine
    BY <1>18, <2>1, Updated DEF MarkedAsUnread, MarkEnds
  <2>2. CASE i \notin mine
    BY <1>18, <2>2 DEF MarkedAsUnread, MarkEnds
  <2> QED BY <2>1, <2>2
<1>19. ASSUME NEW i \in Ids, MarkAsUnreadFails(i) PROVE Base'
  BY <1>19 DEF MarkAsUnreadFails, MarkEnds
<1>20. CASE UNCHANGED vars
  BY <1>20 DEF vars
<1> QED BY <1>1, <1>2, <1>3, <1>4, <1>5, <1>6, <1>7, <1>8, <1>9, <1>10, <1>11, <1>12,
           <1>13, <1>14, <1>15, <1>16, <1>17, <1>18, <1>19, <1>20
        DEF Next, User, Loading, MarkingAll, Marking

\* The types of the list's state, whatever is loaded, marked, dropped or lost.
THEOREM ArticleListTypeCorrect == Spec => []TypeOK
<1>1. Base => TypeOK
  BY DEF Base
<1> QED BY <1>1, BaseInit, BaseStep, PTL DEF Spec

\* isLoading is true exactly while a load is under way (_load).
THEOREM LoadingSafe == Spec => []LoadingIsReal
<1>1. Base => LoadingIsReal
  BY DEF Base
<1> QED BY <1>1, BaseInit, BaseStep, PTL DEF Spec

-----------------------------------------------------------------------------
(* Why nothing unread is hidden.  Of an article that is owed and not on    *)
(* the screen it is not enough to know that its mark is under way: it has  *)
(* to be the mark that removed it, not yet served, of the notifier that is *)
(* there to take the removal back.  While a reload is under way nothing is *)
(* known of the rows it replaces.                                          *)

Reloading == load.stage # "none" /\ load.refresh

Removing(i) == i \in mine /\ mark[i] = "reading"

OwedOnScreen == missed \/ Reloading \/ \A i \in owed : i \in Shown \/ Removing(i)

\* A reload that was asked for is under way, or was dropped.
LEMMA ReloadStarts ==
  ASSUME Base, NEW view \in BOOLEAN, StartLoad(TRUE, view)
  PROVE  missed' \/ Reloading'
<1>1. CASE isLoading
  BY <1>1 DEF StartLoad
<1>2. CASE ~isLoading
  BY <1>2 DEF StartLoad, Reloading, Sent
<1> QED BY <1>1, <1>2

\* No request of the user, answer or failure hides an article that is owed.
LEMMA OwedStep == Base /\ OwedOnScreen /\ [Next]_vars => OwedOnScreen'
<1> SUFFICES ASSUME Base, OwedOnScreen, [Next]_vars PROVE OwedOnScreen'
  OBVIOUS
<1> USE DEF Base, TypeOK, OwedOnScreen, Shown, server, list, marks, history
<1>a. ASSUME UNCHANGED <<rows, load, mark, mine, owed, missed>> PROVE OwedOnScreen'
  BY <1>a DEF Reloading, Removing, IdsOf
<1>1. CASE Refresh
  BY <1>1, ReloadStarts DEF Refresh
<1>2. CASE ToggleUnreadFilter
  BY <1>2, ReloadStarts DEF ToggleUnreadFilter
<1>3. CASE LoadMore
  <2>1. ~isLoading /\ missed' = missed /\ UNCHANGED <<rows, mark, mine, owed>>
    BY <1>3 DEF LoadMore, StartLoad
  <2>2. ~Reloading
    BY <2>1 DEF LoadingIsReal, Reloading
  <2> QED BY <2>1, <2>2 DEF Removing, IdsOf
<1>4. CASE MarkAllAsRead
  BY <1>4, <1>a DEF MarkAllAsRead
<1>5. ASSUME NEW i \in Ids, MarkAsRead(i) PROVE OwedOnScreen'
  <2>1. IdsOf(rows) \ {i} \subseteq IdsOf(rows')
    <3>1. CASE unreadOnly
      BY <1>5, <3>1, Removed DEF MarkAsRead
    <3>2. CASE ~unreadOnly
      BY <1>5, <3>2 DEF MarkAsRead
    <3> QED BY <3>1, <3>2
  <2>2. Removing(i)' /\ \A j \in Ids : Removing(j) => Removing(j)'
    BY <1>5 DEF MarkAsRead, Removing
  <2>3. UNCHANGED <<load, owed, missed>>
    BY <1>5 DEF MarkAsRead
  <2> QED BY <2>1, <2>2, <2>3 DEF Reloading
<1>6. ASSUME NEW i \in Ids, MarkAsUnread(i) PROVE OwedOnScreen'
  <2>1. \A j \in Ids : Removing(j) => Removing(j)'
    BY <1>6 DEF MarkAsUnread, Removing
  <2> QED BY <1>6, <2>1 DEF MarkAsUnread, Reloading, IdsOf
<1>7. CASE ServeLoad
  <2>1. load'.refresh = load.refresh /\ load'.stage = "answered" /\ load.stage # "none"
    BY <1>7 DEF ServeLoad, Loads
  <2> QED BY <1>7, <2>1 DEF ServeLoad, Reloading, Removing, IdsOf
<1>8. CASE ApplyLoad
  <2>1. load.page \in Seq(Row) /\ load.refresh \in BOOLEAN
    BY DEF Loads
  <2>2. UNCHANGED <<mark, mine, missed>> /\ load.stage = "answered"
    BY <1>8 DEF ApplyLoad
  <2>3. CASE load.refresh
    BY <1>8, <2>3 DEF ApplyLoad
  <2>4. CASE ~load.refresh
    <3>1. owed' \subseteq owed \cup IdsOf(load.page)
      BY <1>8, <2>4 DEF ApplyLoad
    <3>2. IdsOf(rows') = IdsOf(rows) \cup IdsOf(load.page)
      BY <1>8, <2>1, <2>4, Appended DEF ApplyLoad
    <3> QED BY <2>2, <2>4, <3>1, <3>2 DEF Reloading, Removing
  <2> QED BY <2>1, <2>3, <2>4
<1>9. CASE LoadFails
  <2>1. CASE load.refresh
    BY <1>9, <2>1 DEF LoadFails
  <2>2. CASE ~load.refresh
    BY <1>9, <2>2 DEF LoadFails, Reloading, Removing, IdsOf
  <2> QED BY <2>1, <2>2 DEF Loads
<1>10. CASE ServeMarkAll
  <2>1. owed' \subseteq owed /\ UNCHANGED <<list, marks, missed>>
    BY <1>10 DEF ServeMarkAll, BecomeRead
  <2> QED BY <2>1 DEF Reloading, Removing, IdsOf
<1>11. CASE MarkAllFails
  BY <1>11, <1>a DEF MarkAllFails
<1>12. CASE ReloadAfterMarkAll
  BY <1>12, ReloadStarts DEF ReloadAfterMarkAll
<1>13. CASE Recreate
  BY <1>13 DEF Recreate
<1>14. ASSUME NEW i \in Ids, Arrive(i) PROVE OwedOnScreen'
  BY <1>14, <1>a DEF Arrive
<1>15. ASSUME NEW i \in Ids, ServeMark(i) PROVE OwedOnScreen'
  <2>1. UNCHANGED <<list, mine, missed>>
    BY <1>15 DEF ServeMark
  <2>2. CASE mark[i] = "reading"
    <3>1. owed' = owed \ {i} /\ \A j \in Ids \ {i} : Removing(j) => Removing(j)'
      BY <1>15, <2>2 DEF ServeMark, BecomeRead, Removing
    <3> QED BY <2>1, <3>1 DEF Reloading, IdsOf
  <2>3. CASE mark[i] = "unreading"
    <3>1. owed' = owed /\ \A j \in Ids : Removing(j) => Removing(j)'
      BY <1>15, <2>3 DEF ServeMark, Removing
    <3> QED BY <2>1, <3>1 DEF Reloading, IdsOf
  <2> QED BY <1>15, <2>2, <2>3 DEF ServeMark
<1>16. ASSUME NEW i \in Ids, MarkedAsRead(i) PROVE OwedOnScreen'
  <2>1. IdsOf(rows') = IdsOf(rows)
    <3>1. CASE i \in mine /\ ~unreadOnly
      BY <1>16, <3>1, Updated DEF MarkedAsRead
    <3>2. CASE ~(i \in mine /\ ~unreadOnly)
      BY <1>16, <3>2 DEF MarkedAsRead
    <3> QED BY <3>1, <3>2
  <2>2. \A j \in Ids : Removing(j) => Removing(j)'
    BY <1>16 DEF MarkedAsRead, MarkEnds, Removing
  <2> QED BY <1>16, <2>1, <2>2 DEF MarkedAsRead, Reloading
<1>17. ASSUME NEW i \in Ids, MarkAsReadFails(i) PROVE OwedOnScreen'
  <2>1. CASE i \in mine
    BY <1>17, <2>1, ReloadStarts DEF MarkAsReadFails
  <2>2. CASE i \notin mine
    <3>1. \A j \in Ids : Removing(j) => Removing(j)'
      BY <1>17, <2>2 DEF MarkAsReadFails, MarkEnds, Removing
    <3> QED BY <1>17, <2>2, <3>1 DEF MarkAsReadFails, Reloading, IdsOf
  <2> QED BY <2>1, <2>2
<1>18. ASSUME NEW i \in Ids, MarkedAsUnread(i) PROVE OwedOnScreen'
  <2>1. IdsOf(rows') = IdsOf(rows)
    <3>1. CASE i \in mine
      BY <1>18, <3>1, Updated DEF MarkedAsUnread
    <3>2. CASE i \notin mine
      BY <1>18, <3>2 DEF MarkedAsUnread
    <3> QED BY <3>1, <3>2
  <2>2. \A j \in Ids : Removing(j) => Removing(j)'
    BY <1>18 DEF MarkedAsUnread, MarkEnds, Removing
  <2> QED BY <1>18, <2>1, <2>2 DEF MarkedAsUnread, Reloading
<1>19. ASSUME NEW i \in Ids, MarkAsUnreadFails(i) PROVE OwedOnScreen'
  <2>1. \A j \in Ids : Removing(j) => Removing(j)'
    BY <1>19 DEF MarkAsUnreadFails, MarkEnds, Removing
  <2> QED BY <1>19, <2>1 DEF MarkAsUnreadFails, Reloading, IdsOf
<1>20. CASE UNCHANGED vars
  BY <1>20, <1>a DEF vars
<1> QED BY <1>1, <1>2, <1>3, <1>4, <1>5, <1>6, <1>7, <1>8, <1>9, <1>10, <1>11, <1>12,
           <1>13, <1>14, <1>15, <1>16, <1>17, <1>18, <1>19, <1>20
        DEF Next, User, Loading, MarkingAll, Marking

\* The optimistic removal of markAsRead is taken back if the mark is lost
\* (catch: _load(refresh: true)), unless that reload is dropped or fails.
THEOREM NothingUnreadHidden == Spec => []UnreadNotHidden
<1> DEFINE I == Base /\ OwedOnScreen
<1>1. Init => I
  BY BaseInit DEF Init, OwedOnScreen
<1>2. I /\ [Next]_vars => I'
  BY BaseStep, OwedStep
<1>3. I => UnreadNotHidden
  BY DEF Base, TypeOK, LoadingIsReal, OwedOnScreen, Reloading, Removing, UnreadNotHidden
<1> QED BY <1>1, <1>2, <1>3, PTL DEF Spec

-----------------------------------------------------------------------------
(* Why rows that are read are explained.  A load under way is one of the   *)
(* present filter, since a change of the filter while it is under way asks *)
(* for a reload and counts as missed; and what the answer to a load of     *)
(* unread articles holds has been read, if at all, since it was computed.  *)

LoadOfFilter == load.stage # "none" /\ ~missed => load.view = unreadOnly

AnswerExplained ==
  load.stage = "answered" /\ load.view => IdsOf(load.page) \subseteq unread \cup lag

RowsExplained ==
  unreadOnly /\ ~missed /\ ~Reloading => Shown \subseteq unread \cup behind

Explained == LoadOfFilter /\ AnswerExplained /\ RowsExplained

\* A load that starts is one of the filter it is started with.
LEMMA ExplainedStart ==
  ASSUME Base, Explained, NEW refresh \in BOOLEAN, StartLoad(refresh, unreadOnly'),
         UNCHANGED <<rows, unread, behind, lag>>,
         refresh \/ (~isLoading /\ UNCHANGED unreadOnly)
  PROVE  Explained'
<1> USE DEF Explained, LoadOfFilter, AnswerExplained, RowsExplained, Reloading, Shown, IdsOf
<1>1. CASE isLoading
  BY <1>1 DEF StartLoad
<1>2. CASE ~isLoading
  <2>1. load' = Sent(refresh, unreadOnly', NoVal) /\ missed' = (missed /\ ~refresh)
    BY <1>2 DEF StartLoad
  <2>2. load'.stage = "sent" /\ load'.view = unreadOnly' /\ load'.refresh = refresh
    BY <2>1 DEF Sent
  <2>3. ~Reloading
    BY <1>2 DEF Base, LoadingIsReal
  <2>4. LoadOfFilter' /\ AnswerExplained'
    BY <2>2
  <2>5. CASE refresh
    BY <2>2, <2>4, <2>5
  <2>6. CASE ~refresh
    <3>1. UNCHANGED unreadOnly /\ (missed' <=> missed)
      BY <2>1, <2>6
    <3> QED BY <2>3, <2>4, <3>1
  <2> QED BY <2>5, <2>6
<1> QED BY <1>1, <1>2

\* Rows may go and articles may become unread; articles that become read are
\* noted, and the load under way is the same.
LEMMA ExplainedStays ==
  ASSUME Explained, UNCHANGED <<load, unreadOnly, missed>>,
         IdsOf(rows') \subseteq IdsOf(rows),
         unread \cup behind \subseteq unread' \cup behind',
         load.stage = "answered" => unread \cup lag \subseteq unread' \cup lag'
  PROVE  Explained'
BY DEF Explained, LoadOfFilter, AnswerExplained, RowsExplained, Reloading, Shown, IdsOf

\* No request, answer or failure leaves an unexplained row.
LEMMA ExplainedStep == Base /\ Explained /\ [Next]_vars => Explained'
<1> SUFFICES ASSUME Base, Explained, [Next]_vars PROVE Explained'
  OBVIOUS
<1> USE DEF Base, TypeOK, server, list, marks, history
<1>a. IdsOf(rows) \subseteq IdsOf(rows)
  OBVIOUS
<1>1. CASE Refresh
  BY <1>1, ExplainedStart DEF Refresh
<1>2. CASE ToggleUnreadFilter
  BY <1>2, ExplainedStart DEF ToggleUnreadFilter
<1>3. CASE LoadMore
  BY <1>3, ExplainedStart DEF LoadMore
<1>4. CASE MarkAllAsRead
  BY <1>4, ExplainedStays DEF MarkAllAsRead
<1>5. ASSUME NEW i \in Ids, MarkAsRead(i) PROVE Explained'
  <2>1. IdsOf(rows') \subseteq IdsOf(rows)
    <3>1. CASE unreadOnly
      BY <1>5, <3>1, Removed DEF MarkAsRead
    <3>2. CASE ~unreadOnly
      BY <1>5, <3>2 DEF MarkAsRead
    <3> QED BY <3>1, <3>2
  <2> QED BY <1>5, <2>1, ExplainedStays DEF MarkAsRead
<1>6. ASSUME NEW i \in Ids, MarkAsUnread(i) PROVE Explained'
  BY <1>6, ExplainedStays DEF MarkAsUnread
<1>7. CASE ServeLoad
  <2>1. PICK page \in UNION {[1 .. n -> Row] : n \in 0 .. PageSize} :
          /\ IsPage(page, load.view, load.token)
          /\ load' = [load EXCEPT !.stage = "answered", !.page = page]
    BY <1>7 DEF ServeLoad
  <2>2. /\ load'.stage = "answered" /\ load'.page = page
        /\ load'.refresh = load.refresh /\ load'.view = load.view
    BY <2>1 DEF Loads
  <2>3. load.view => IdsOf(page) \subseteq unread
    BY <2>1 DEF IsPage, IdsOf
  <2>4. load.stage # "none" /\ UNCHANGED <<rows, unread, behind, unreadOnly, missed>>
    BY <1>7 DEF ServeLoad
  <2> QED BY <2>2, <2>3, <2>4
          DEF Explained, LoadOfFilter, AnswerExplained, RowsExplained, Reloading, Shown, IdsOf
<1>8. CASE ApplyLoad
  <2>1. load.page \in Seq(Row) /\ load.refresh \in BOOLEAN
    BY DEF Loads
  <2>2. load'.stage = "none" /\ UNCHANGED <<unread, unreadOnly, missed>> /\ load.stage = "answered"
    BY <1>8, LoadTypes DEF ApplyLoad, LoadEnds
  <2>3. ASSUME unreadOnly, ~missed PROVE IdsOf(rows') \subseteq unread' \cup behind'
    <3>1. IdsOf(load.page) \subseteq unread \cup lag
      BY <2>2, <2>3 DEF Explained, LoadOfFilter, AnswerExplained
    <3>2. CASE load.refresh
      BY <1>8, <2>2, <3>1, <3>2 DEF ApplyLoad
    <3>3. CASE ~load.refresh
      <4>1. IdsOf(rows') = IdsOf(rows) \cup IdsOf(load.page) /\ behind' = behind \cup lag
        BY <1>8, <2>1, <3>3, Appended DEF ApplyLoad
      <4>2. IdsOf(rows) \subseteq unread \cup behind
        BY <2>3, <3>3 DEF Explained, RowsExplained, Reloading, Shown
      <4> QED BY <2>2, <3>1, <4>1, <4>2
    <3> QED BY <2>1, <3>2, <3>3
  <2> QED BY <2>2, <2>3
          DEF Explained, LoadOfFilter, AnswerExplained, RowsExplained, Reloading, Shown, IdsOf
<1>9. CASE LoadFails
  <2>1. /\ load'.stage = "none" /\ load.stage # "none" /\ missed' = (missed \/ load.refresh)
        /\ UNCHANGED <<rows, unread, behind, unreadOnly>>
    BY <1>9, LoadTypes DEF LoadFails, LoadEnds
  <2>2. load.refresh \in BOOLEAN
    BY DEF Loads
  <2> QED BY <2>1, <2>2
          DEF Explained, LoadOfFilter, AnswerExplained, RowsExplained, Reloading, Shown, IdsOf
<1>b. ASSUME NEW S, BecomeRead(S)
      PROVE  /\ unread \cup behind \subseteq unread' \cup behind'
             /\ load.stage = "answered" => unread \cup lag \subseteq unread' \cup lag'
  BY <1>b DEF BecomeRead
<1>10. CASE ServeMarkAll
  BY <1>10, <1>b, ExplainedStays DEF ServeMarkAll
<1>11. CASE MarkAllFails
  BY <1>11, ExplainedStays DEF MarkAllFails
<1>12. CASE ReloadAfterMarkAll
  BY <1>12, ExplainedStart DEF ReloadAfterMarkAll
<1>13. CASE Recreate
  BY <1>13 DEF Recreate, Sent, Explained, LoadOfFilter, AnswerExplained, RowsExplained, Reloading
<1>14. ASSUME NEW i \in Ids, Arrive(i) PROVE Explained'
  BY <1>14, ExplainedStays DEF Arrive
<1>15. ASSUME NEW i \in Ids, ServeMark(i) PROVE Explained'
  <2>1. CASE mark[i] = "reading"
    BY <1>15, <1>b, <2>1, ExplainedStays DEF ServeMark
  <2>2. CASE mark[i] = "unreading"
    BY <1>15, <2>2, ExplainedStays DEF ServeMark
  <2> QED BY <1>15, <2>1, <2>2 DEF ServeMark
<1>16. ASSUME NEW i \in Ids, MarkedAsRead(i) PROVE Explained'
  <2>1. IdsOf(rows') \subseteq IdsOf(rows)
    <3>1. CASE i \in mine /\ ~unreadOnly
      BY <1>16, <3>1, Updated DEF MarkedAsRead
    <3>2. CASE ~(i \in mine /\ ~unreadOnly)
      BY <1>16, <3>2 DEF MarkedAsRead
    <3> QED BY <3>1, <3>2
  <2> QED BY <1>16, <2>1, ExplainedStays DEF MarkedAsRead
<1>17. ASSUME NEW i \in Ids, MarkAsReadFails(i) PROVE Explained'
  <2>1. CASE i \in mine
    BY <1>17, <2>1, ExplainedStart DEF MarkAsReadFails
  <2>2. CASE i \notin mine
    BY <1>17, <2>2, ExplainedStays DEF MarkAsReadFails
  <2> QED BY <2>1, <2>2
<1>18. ASSUME NEW i \in Ids, MarkedAsUnread(i) PROVE Explained'
  <2>1. IdsOf(rows') \subseteq IdsOf(rows)
    <3>1. CASE i \in mine
      BY <1>18, <3>1, Updated DEF MarkedAsUnread
    <3>2. CASE i \notin mine
      BY <1>18, <3>2 DEF MarkedAsUnread
    <3> QED BY <3>1, <3>2
  <2> QED BY <1>18, <2>1, ExplainedStays DEF MarkedAsUnread
<1>19. ASSUME NEW i \in Ids, MarkAsUnreadFails(i) PROVE Explained'
  BY <1>19, ExplainedStays DEF MarkAsUnreadFails
<1>20. CASE UNCHANGED vars
  BY <1>20, ExplainedStays DEF vars
<1> QED BY <1>1, <1>2, <1>3, <1>4, <1>5, <1>6, <1>7, <1>8, <1>9, <1>10, <1>11, <1>12,
           <1>13, <1>14, <1>15, <1>16, <1>17, <1>18, <1>19, <1>20
        DEF Next, User, Loading, MarkingAll, Marking

\* With the unread filter on, a row is of an article that is read only if it
\* became so after the answer was computed, or if a reload was dropped or failed.
THEOREM ReadRowsSafe == Spec => []ReadRowsExplained
<1> DEFINE I == Base /\ Explained
<1>1. Init => I
  <2>1. Init => Explained
    BY DEF Init, Sent, Explained, LoadOfFilter, AnswerExplained, RowsExplained, Reloading
  <2> QED BY <2>1, BaseInit
<1>2. I /\ [Next]_vars => I'
  BY BaseStep, ExplainedStep
<1>3. I => ReadRowsExplained
  BY DEF Base, LoadingIsReal, Explained, RowsExplained, Reloading, ReadRowsExplained
<1> QED BY <1>1, <1>2, <1>3, PTL DEF Spec

-----------------------------------------------------------------------------
(* The list and the store.  What a page is ArticleList says in its own way, *)
(* for articles of different days.  It is what Pages says, so that what is *)
(* proved of Pages holds of the pages the list is given.                   *)

View == IF load.view THEN "unread" ELSE "all"

\* The store that the list asks, as Pages has it, every article on a day of its own.
Store == INSTANCE Pages WITH
  Day <- [i \in Ids |-> i], Requested <- {PageSize}, DefaultPageSize <- PageSize,
  MaxPageSize <- PageSize, NoToken <- NoVal,
  gone <- {}, view <- View, newest <- TRUE, size <- PageSize,
  stage <- "reading", token <- load.token, got <- {}, again <- {}, wanted <- {}

\* The rows that the request is about.
Requested == {i \in Ids : Store!InView(View, i) /\ Store!Beyond(i)}

\* The rows of a page are as many articles, for each is older than the one
\* before it.
LEMMA PageSizes ==
  ASSUME NEW n \in Nat, NEW page \in [1 .. n -> Row],
         \A j, k \in 1 .. n : j < k => page[j].id > page[k].id
  PROVE  /\ IdsOf(page) = {page[k].id : k \in 1 .. n} /\ IdsOf(page) \subseteq Ids
         /\ IsFiniteSet(IdsOf(page)) /\ Cardinality(IdsOf(page)) = n
<1>1. Ids \subseteq Nat /\ \A k \in 1 .. n : page[k].id \in Ids
  BY NumbersAssumption DEF Row
<1>2. IdsOf(page) = {page[k].id : k \in 1 .. n} /\ IdsOf(page) \subseteq Ids
  BY <1>1 DEF IdsOf
<1> DEFINE f == [k \in 1 .. n |-> page[k].id]
<1>3. ASSUME NEW j \in 1 .. n, NEW k \in 1 .. n, f[j] = f[k] PROVE j = k
  <2>1. page[j].id = page[k].id /\ page[j].id \in Nat
    BY <1>1, <1>3
  <2>2. ~ (j < k) /\ ~ (k < j)
    BY <2>1
  <2> QED BY <2>2
<1>4. f \in Bijection(1 .. n, IdsOf(page))
  <2>1. f \in [1 .. n -> IdsOf(page)]
    BY <1>2
  <2>2. \A i \in IdsOf(page) : \E k \in 1 .. n : f[k] = i
    BY <1>2
  <2> QED BY <1>3, <2>1, <2>2 DEF Bijection, Injection, Surjection, IsInjective
<1>5. ExistsBijection(1 .. n, IdsOf(page))
  BY <1>4 DEF ExistsBijection
<1> QED BY <1>2, <1>5, FS_CountingElements, FS_NatBijection

\* Pages counts as FiniteSets does.
LEMMA StoreCounts == \A S : Store!Cardinality(S) = Cardinality(S)
BY DEF Store!Cardinality, Cardinality, Store!IsFiniteSet, IsFiniteSet

\* Whatever articles there are and are unread, and whatever filter and token a
\* request has, a page that the list is answered with, and the token it makes of
\* it, are those of Pages (ListArticles, articleStore.List).
THEOREM ServesPages ==
  ASSUME TypeOK, NEW n \in 0 .. PageSize, NEW page \in [1 .. n -> Row],
         IsPage(page, load.view, load.token)
  PROVE  Store!IsPage(IdsOf(page), Requested) /\ Store!NextToken(IdsOf(page), NextToken(page))
<1> DEFINE ids == IdsOf(page)
           wanted == {i \in present : (load.view => i \in unread)
                                         /\ (load.token # NoVal => i <= load.token)}
<1>1. /\ Ids \subseteq Nat /\ IsFiniteSet(Ids) /\ PageSize \in Nat \ {0} /\ NoVal \notin Nat
      /\ present \subseteq Ids /\ load.view \in BOOLEAN /\ load.token \in Ids \cup {NoVal}
  BY NumbersAssumption, NoValAssumption DEF TypeOK, Loads
<1>2. wanted = Requested
  BY <1>1 DEF Requested, View, Store!InView, Store!Beyond
<1>3. IsFiniteSet(wanted) /\ Cardinality(wanted) \in Nat
  BY <1>1, FS_Subset, FS_CardinalityType
<1>4. n \in Nat /\ Len(page) = n
  BY <1>1, PageType
<1>5. /\ wanted \subseteq Nat
      /\ n = IF Cardinality(wanted) < PageSize THEN Cardinality(wanted) ELSE PageSize
      /\ \A k \in 1 .. n : page[k].id \in wanted
      /\ \A j, k \in 1 .. n : j < k => page[j].id > page[k].id
      /\ \A i \in wanted : (\E k \in 1 .. n : page[k].id = i) \/ i < page[n].id
  <2> DEFINE m == IF Cardinality(wanted) < PageSize THEN Cardinality(wanted) ELSE PageSize
  <2>1. page \in [1 .. m -> Row] /\ m \in Nat
    BY <1>1, <1>3 DEF IsPage
  <2>2. 1 .. m = 1 .. n
    BY <2>1
  <2>3. m = n
    BY <1>4, <2>1, <2>2
  <2>4. wanted \subseteq Nat
    BY <1>1
  <2> QED BY <2>3, <2>4 DEF IsPage
<1>a. \A k \in 1 .. n : page[k].id \in wanted /\ page[k].id \in Nat
  BY <1>5
<1>b. \A k \in 1 .. n : k < n => page[k].id > page[n].id
  <2> SUFFICES ASSUME NEW k \in 1 .. n, k < n PROVE page[k].id > page[n].id
    OBVIOUS
  <2>1. n \in 1 .. n
    BY <1>4
  <2> QED BY <1>5, <2>1
<1> HIDE DEF wanted
<1>6. ids = {page[k].id : k \in 1 .. n} /\ ids \subseteq wanted /\ IsFiniteSet(ids)
        /\ Cardinality(ids) = n
  <2>1. ids = {page[k].id : k \in 1 .. n} /\ IsFiniteSet(ids) /\ Cardinality(ids) = n
    BY <1>4, <1>5, PageSizes
  <2> QED BY <1>5, <2>1
<1> HIDE DEF ids
<1>7. \A i \in ids : n > 0 /\ i >= page[n].id
  <2> SUFFICES ASSUME NEW k \in 1 .. n PROVE n > 0 /\ page[k].id >= page[n].id
    BY <1>6
  <2>1. n > 0 /\ (k = n \/ k < n) /\ n \in 1 .. n
    BY <1>4
  <2>2. page[k].id \in Nat /\ page[n].id \in Nat
    BY <1>a, <2>1
  <2> QED BY <1>b, <2>1, <2>2
<1>8. Store!IsPage(ids, Requested)
  <2>1. CASE Cardinality(wanted) <= PageSize
    <3>1. Cardinality(wanted) = n
      BY <1>1, <1>3, <1>5, <2>1
    <3>2. ids = wanted
      BY <1>3, <1>6, <3>1, FS_Subset
    <3> QED BY <1>2, <2>1, <3>2, StoreCounts DEF Store!IsPage
  <2>2. CASE ~ (Cardinality(wanted) <= PageSize)
    <3>1. n = PageSize
      BY <1>1, <1>3, <1>5, <2>2
    <3>2. ASSUME NEW i \in ids, NEW j \in wanted \ ids PROVE i > j
      <4>1. j < page[n].id
        BY <1>5, <1>6, <3>2
      <4>2. i \in Nat /\ j \in Nat /\ page[n].id \in Nat
        <5>1. n \in 1 .. n
          BY <1>1, <3>1
        <5> QED BY <1>5, <1>6, <1>a, <5>1
      <4> QED BY <1>7, <4>1, <4>2
    <3> QED BY <1>2, <1>6, <2>2, <3>1, <3>2, StoreCounts DEF Store!IsPage, Store!Precedes
  <2> QED BY <2>1, <2>2
<1>9. Store!NextToken(ids, NextToken(page))
  <2>1. CASE n = PageSize
    <3>1. NextToken(page) = page[n].id /\ page[n].id \in ids
      BY <1>1, <1>4, <1>6, <2>1 DEF NextToken
    <3>2. ASSUME NEW j \in ids \ {page[n].id} PROVE j > page[n].id
      <4>1. j \in Nat /\ page[n].id \in Nat
        BY <1>5, <1>6, <3>1
      <4>2. j >= page[n].id /\ j # page[n].id
        BY <1>7
      <4> QED BY <4>1, <4>2
    <3> QED BY <1>6, <2>1, <3>1, <3>2, StoreCounts DEF Store!NextToken, Store!Last, Store!Precedes
  <2>2. CASE n # PageSize
    BY <1>4, <1>6, <2>2, StoreCounts DEF NextToken, Store!NextToken
  <2> QED BY <2>1, <2>2
<1> QED BY <1>8, <1>9 DEF ids
=============================================================================
