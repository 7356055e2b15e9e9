------------------------------ MODULE Pages_proofs ------------------------------
(***************************************************************************)
(* What pages hold, for any articles, days and page sizes.                 *)
(***************************************************************************)
EXTENDS PagesProperties, FiniteSetTheorems, TLAPS

USE IdsAssumption, DayAssumption, SizesAssumption, NoTokenAssumption

(* Page sizes asked for are brought within bounds.                         *)
LEMMA NormalizeBounds == \A n \in Requested : Normalize(n) \in 1..MaxPageSize
  BY DEF Normalize

(* Every variable keeps its type.                                          *)
THEOREM PagesTypeCorrect == Spec => []TypeOK
<1>1. Init => TypeOK
  BY NormalizeBounds DEF Init, TypeOK
<1>2. TypeOK /\ [Next]_vars => TypeOK'
  <2> SUFFICES ASSUME TypeOK, [Next]_vars PROVE TypeOK'
    OBVIOUS
  <2> USE DEF TypeOK, table, scroll, asked
  <2>1. CASE FetchPage
    <3>1. PICK page \in SUBSET {i \in Ids : InView(view, i) /\ Beyond(i)},
               t \in Ids \cup {NoToken} :
            /\ token' = t
            /\ stage' = IF t = NoToken THEN "end" ELSE "reading"
            /\ got' = got \cup page
            /\ again' = again \cup (got \cap page)
      BY <2>1 DEF FetchPage
    <3> QED BY <2>1, <3>1 DEF FetchPage
  <2>2. ASSUME NEW v \in Views, NEW new \in BOOLEAN, NEW n \in Requested, Open(v, new, n)
        PROVE  TypeOK'
    BY <2>2, NormalizeBounds DEF Open, InView
  <2>3. ASSUME NEW i \in Ids, Insert(i) PROVE TypeOK'
    BY <2>3 DEF Insert
  <2>4. ASSUME NEW i \in Ids, Delete(i) PROVE TypeOK'
    BY <2>4 DEF Delete, StillWanted, InView
  <2>5. ASSUME NEW i \in Ids, MarkUnread(i) PROVE TypeOK'
    BY <2>5 DEF MarkUnread, StillWanted, InView
  <2>6. ASSUME NEW scope \in SUBSET unread, MarkRead(scope) PROVE TypeOK'
    BY <2>6 DEF MarkRead, StillWanted, InView
  <2>7. CASE UNCHANGED vars
    BY <2>7 DEF vars
  <2> QED BY <2>1, <2>2, <2>3, <2>4, <2>5, <2>6, <2>7 DEF Next
<1> QED BY <1>1, <1>2, PTL DEF Spec

-----------------------------------------------------------------------------
(* An article is accounted for if it is on a page, or follows another of    *)
(* its day that is, in a list that is read from the oldest on.             *)
Accounted(i) ==
  i \in got \/ (~newest /\ \E j \in got : j < i /\ Day[j] = Day[i])

(* Where the list goes on after the token, everything before it has been   *)
(* accounted for: newest first, what was published on later days than the  *)
(* token's; oldest first, also on that day.                                *)
Passed(i) == IF newest THEN Day[i] > Day[token] ELSE Day[i] <= Day[token]

PagesInv ==
  /\ TypeOK
  /\ \A i \in wanted : InView(view, i)
  /\ stage = "reading" /\ token # NoToken =>
       \A i \in wanted : Passed(i) => Accounted(i)
  /\ stage = "end" => \A i \in wanted : Accounted(i)
  /\ ~newest => again = {}
  /\ ~newest /\ stage = "reading" =>
       /\ token = NoToken => got = {}
       /\ token # NoToken => \A i \in got : Day[i] <= Day[token]

(* The parts of the invariant other than types.                            *)
LEMMA PagesInit == Init => PagesInv
  BY NormalizeBounds DEF Init, PagesInv, TypeOK

(* A page accounts for what is before its token, or for all that is left.  *)
LEMMA FetchAccounts == PagesInv /\ TypeOK' /\ FetchPage => PagesInv'
<1> SUFFICES ASSUME PagesInv, TypeOK', FetchPage PROVE PagesInv'
  OBVIOUS
<1> DEFINE rows == {i \in Ids : InView(view, i) /\ Beyond(i)}
<1>1. PICK page \in SUBSET rows, t \in Ids \cup {NoToken} :
        /\ IsPage(page, rows)
        /\ NextToken(page, t)
        /\ token' = t
        /\ stage' = IF t = NoToken THEN "end" ELSE "reading"
        /\ got' = got \cup page
        /\ again' = again \cup (got \cap page)
  BY DEF FetchPage
<1>2. /\ UNCHANGED <<present, gone, unread, view, newest, size, wanted>>
      /\ stage = "reading"
  BY DEF FetchPage, table, asked
<1>3. /\ wanted \subseteq Ids /\ got \subseteq Ids /\ page \subseteq Ids
      /\ newest \in BOOLEAN /\ token \in Ids \cup {NoToken}
  BY DEF PagesInv, TypeOK
<1>4. \A i \in wanted : Accounted(i) => Accounted(i)'
  BY <1>1, <1>2 DEF Accounted
<1>5. ASSUME NEW i \in wanted, ~Accounted(i) PROVE i \in rows
  <2>1. InView(view, i)
    BY DEF PagesInv
  <2>2. CASE token = NoToken
    BY <2>1, <2>2, <1>3 DEF Beyond
  <2>3. CASE token # NoToken
    <3>1. ~Passed(i)
      BY <1>2, <1>5, <2>3 DEF PagesInv
    <3>2. Day[i] \in Nat /\ Day[token] \in Nat
      BY <1>3, <2>3
    <3> QED BY <2>1, <2>3, <3>1, <3>2, <1>3 DEF Passed, Beyond
  <2> QED BY <2>2, <2>3
<1>6. CASE t = NoToken
  <2>1. page = rows
    <3>1. Cardinality(page) # size
      BY <1>1, <1>6 DEF NextToken, Last
    <3> QED BY <1>1, <3>1 DEF IsPage
  <2>2. \A i \in wanted : Accounted(i)'
    BY <1>1, <1>2, <1>4, <1>5, <2>1 DEF Accounted
  <2>3. ~newest => again' = {}
    <3> SUFFICES ASSUME ~newest PROVE got \cap page = {}
      BY <1>1 DEF PagesInv
    <3>1. CASE token = NoToken
      BY <1>2, <3>1 DEF PagesInv
    <3>2. CASE token # NoToken
      <4> SUFFICES ASSUME NEW i \in got, i \in page PROVE FALSE
        OBVIOUS
      <4>1. Day[i] <= Day[token] /\ Day[i] > Day[token]
        BY <1>1, <1>2, <3>2 DEF PagesInv, Beyond
      <4> QED BY <4>1, <3>2, <1>3
    <3> QED BY <3>1, <3>2
  <2> QED BY <1>1, <1>2, <1>6, <2>2, <2>3 DEF PagesInv, InView
<1>7. CASE t # NoToken
  <2>1. Last(t, page) /\ t \in Ids /\ Day[t] \in Nat
    BY <1>1, <1>7, NoTokenAssumption DEF NextToken
  <2>2. \A i \in page : IF newest THEN i >= t ELSE i <= t
    BY <2>1, <1>3 DEF Last, Precedes
  <2>3. ASSUME NEW i \in wanted, ~Accounted(i), i \notin page
        PROVE  IF newest THEN t > i ELSE t < i
    BY <1>1, <1>5, <2>1, <2>3 DEF IsPage, Last, Precedes
  <2>4. ASSUME NEW i \in wanted, Passed(i)' PROVE Accounted(i)'
    <3>1. CASE Accounted(i)
      BY <1>4, <3>1
    <3>2. CASE i \in page
      BY <1>1, <3>2 DEF Accounted
    <3>3. CASE ~Accounted(i) /\ i \notin page
      <4>1. i \in Ids /\ Day[i] \in Nat /\ t \in got'
        BY <1>1, <1>3, <2>1 DEF Last
      <4>2. CASE newest
        BY <1>1, <1>2, <2>1, <2>3, <2>4, <3>3, <4>1, <4>2 DEF Passed
      <4>3. CASE ~newest
        <5>1. t < i
          BY <2>3, <3>3, <4>3
        <5>2. Day[t] <= Day[i]
          BY <5>1, <4>1, <2>1
        <5>3. Day[i] <= Day[t]
          BY <1>1, <1>2, <2>4, <4>3 DEF Passed
        <5>4. Day[t] = Day[i]
          BY <5>2, <5>3, <4>1, <2>1
        <5> QED BY <5>1, <5>4, <4>1, <4>3, <1>2 DEF Accounted
      <4> QED BY <4>2, <4>3
    <3> QED BY <3>1, <3>2, <3>3
  <2>5. ASSUME ~newest PROVE again' = {} /\ \A i \in got' : Day[i] <= Day[t]
    <3>1. ASSUME NEW i \in page PROVE i \notin got /\ Day[i] <= Day[t]
      <4>1. Day[i] <= Day[t]
        BY <2>1, <2>2, <2>5, <1>3
      <4>2. CASE token = NoToken
        BY <1>2, <2>5, <4>1, <4>2 DEF PagesInv
      <4>3. CASE token # NoToken
        <5>1. Day[i] > Day[token]
          BY <2>5, <4>3 DEF Beyond
        <5>2. i \in got => Day[i] <= Day[token]
          BY <1>2, <2>5, <4>3 DEF PagesInv
        <5> QED BY <4>1, <4>3, <5>1, <5>2, <1>3
      <4> QED BY <4>2, <4>3
    <3>2. ASSUME NEW i \in got PROVE Day[i] <= Day[t]
      <4>1. token # NoToken /\ Day[i] <= Day[token]
        BY <1>2, <2>5 DEF PagesInv
      <4>2. Day[t] > Day[token]
        BY <1>1, <2>1, <2>5, <4>1 DEF Last, Beyond
      <4> QED BY <4>1, <4>2, <2>1, <1>3
    <3> QED BY <1>1, <2>5, <3>1, <3>2 DEF PagesInv
  <2> QED BY <1>1, <1>2, <1>7, <2>4, <2>5 DEF PagesInv, InView
<1> QED BY <1>6, <1>7

(* The other steps leave the pages alone and only shrink what is wanted.   *)
LEMMA OthersAccount ==
  PagesInv /\ TypeOK' /\ UNCHANGED scroll
    /\ wanted' \subseteq {i \in wanted : InView(view, i)'} => PagesInv'
  BY DEF PagesInv, scroll, asked, Accounted, Passed

(* Every step keeps the account.                                           *)
LEMMA PagesStep == PagesInv /\ TypeOK' /\ [Next]_vars => PagesInv'
<1> SUFFICES ASSUME PagesInv, TypeOK', [Next]_vars PROVE PagesInv'
  OBVIOUS
<1>1. CASE FetchPage
  BY <1>1, FetchAccounts
<1>2. ASSUME NEW v \in Views, NEW new \in BOOLEAN, NEW n \in Requested, Open(v, new, n)
      PROVE  PagesInv'
  BY <1>2 DEF Open, PagesInv, InView, table
<1>3. ASSUME NEW i \in Ids, Insert(i) PROVE PagesInv'
  BY <1>3, OthersAccount DEF Insert, InView, PagesInv, scroll, asked
<1>4. ASSUME NEW i \in Ids, Delete(i) PROVE PagesInv'
  BY <1>4, OthersAccount DEF Delete, StillWanted
<1>5. ASSUME NEW i \in Ids, MarkUnread(i) PROVE PagesInv'
  BY <1>5, OthersAccount DEF MarkUnread, StillWanted
<1>6. ASSUME NEW scope \in SUBSET unread, MarkRead(scope) PROVE PagesInv'
  BY <1>6, OthersAccount DEF MarkRead, StillWanted
<1>7. CASE UNCHANGED vars
  <2>1. wanted' \subseteq {i \in wanted : InView(view, i)'} /\ UNCHANGED scroll
    BY <1>7 DEF vars, table, scroll, asked, PagesInv, InView
  <2> QED BY <2>1, OthersAccount
<1> QED BY <1>1, <1>2, <1>3, <1>4, <1>5, <1>6, <1>7 DEF Next

(* The account is kept in every behaviour.                                 *)
LEMMA PagesAccount == Spec => []PagesInv
  BY PagesInit, PagesStep, PagesTypeCorrect, PTL DEF Spec

(* Newest first, if no day fills a page, each page ends on another day than *)
(* the last one.  Were its last article of the token's day, the whole page  *)
(* would be, since it lies between the two; but the page is full, and the   *)
(* day is not.                                                              *)
THEOREM PagesProgress == Spec => PagesMoveOn
<1>1. TypeOK /\ [Next]_vars =>
        [FetchPage /\ FewADay /\ newest /\ token # NoToken /\ token' # NoToken
           => Day[token'] < Day[token]]_vars
  <2> SUFFICES ASSUME TypeOK, FetchPage, FewADay, newest, token # NoToken, token' # NoToken
               PROVE  Day[token'] < Day[token]
    OBVIOUS
  <2> DEFINE rows == {i \in Ids : InView(view, i) /\ Beyond(i)}
  <2>1. PICK page \in SUBSET rows, t \in Ids \cup {NoToken} :
          NextToken(page, t) /\ token' = t
    BY DEF FetchPage
  <2>2. /\ Last(t, page) /\ Cardinality(page) = size
        /\ t \in Ids /\ token \in Ids
        /\ page \subseteq present /\ present \subseteq Ids /\ size \in Nat
    BY <2>1 DEF NextToken, Last, TypeOK, InView
  <2>3. Day[t] \in Nat /\ Day[token] \in Nat /\ \A j \in page : Day[j] \in Nat
    BY <2>2
  <2>4. \A j \in page : Day[j] <= Day[token]
    BY <2>1 DEF Beyond
  <2> SUFFICES ASSUME Day[t] = Day[token] PROVE FALSE
    BY <2>1, <2>2, <2>3, <2>4 DEF Last
  <2> DEFINE day == {j \in present : Day[j] = Day[t]}
  <2>5. \A j \in page : j >= t
    BY <2>2 DEF Last, Precedes
  <2>6. page \subseteq day
    <3> SUFFICES ASSUME NEW j \in page PROVE Day[j] = Day[t]
      BY <2>2
    <3>1. Day[t] <= Day[j]
      BY <2>2, <2>5
    <3>2. Day[j] <= Day[t]
      BY <2>4
    <3> QED BY <2>3, <3>1, <3>2
  <2>7. IsFiniteSet(day)
    BY <2>2, FS_Subset
  <2>8. Cardinality(page) <= Cardinality(day) /\ Cardinality(day) \in Nat
    BY <2>6, <2>7, FS_Subset, FS_CardinalityType
  <2>9. Cardinality(day) < size
    BY <2>2 DEF FewADay, Last
  <2> QED BY <2>2, <2>8, <2>9
<1> QED BY <1>1, PagesTypeCorrect, PTL DEF Spec, PagesMoveOn

(* Reading newest first misses no article that was there all along.        *)
THEOREM NewestSafe == Spec => []NewestSkipsNothing
<1>1. PagesInv => NewestSkipsNothing
  BY DEF PagesInv, Accounted, NewestSkipsNothing
<1> QED BY <1>1, PagesAccount, PTL

(* Reading oldest first repeats no article.                                *)
THEOREM OldestSafe == Spec => []OldestRepeatsNothing
<1>1. PagesInv => OldestRepeatsNothing
  BY DEF PagesInv, OldestRepeatsNothing
<1> QED BY <1>1, PagesAccount, PTL

(* Reading oldest first misses only articles that follow another one of    *)
(* their day.                                                              *)
THEOREM OldestSkipsSafe == Spec => []OldestSkipsOnlyOfADay
<1>1. PagesInv => OldestSkipsOnlyOfADay
  BY DEF PagesInv, Accounted, OldestSkipsOnlyOfADay
<1> QED BY <1>1, PagesAccount, PTL
=============================================================================
