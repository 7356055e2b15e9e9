---------------------------- MODULE Sidebar_proofs ----------------------------
(* Theorems about the unread count, for a feed of any size. *)
EXTENDS SidebarProperties, FiniteSetTheorems, TLAPS

\* What the server counts is between none and all of the articles.
LEMMA CountBounds ==
  ASSUME NEW S, S \subseteq Ids
  PROVE  Cardinality(S) \in 0 .. Cardinality(Ids) /\ Cardinality(Ids) \in Nat
<1>1. IsFiniteSet(S) /\ Cardinality(S) <= Cardinality(Ids)
  BY IdsAssumption, FS_Subset
<1>2. Cardinality(S) \in Nat /\ Cardinality(Ids) \in Nat
  BY <1>1, IdsAssumption, FS_CardinalityType
<1> QED BY <1>1, <1>2

\* However many decrements, polls and reloads overtake one another, the count
\* shown is one that the feed could have (clamp; GetUnreadCountsByFeed).
THEOREM SidebarTypeCorrect == Spec => []TypeOK
<1> DEFINE Counts == 0 .. Cardinality(Ids)
<1>a. Cardinality(Ids) \in Nat /\ NoVal \notin Counts
  BY CountBounds, IdsAssumption
<1>b. \A n \in Counts : n # 0 => n - 1 \in Counts
  BY <1>a
<1>1. Init => TypeOK
  <2> SUFFICES ASSUME Init PROVE TypeOK
    OBVIOUS
  <2> USE DEF Init
  <2>1. present \subseteq Ids /\ unread \subseteq present /\ unreadOnly \in BOOLEAN
    OBVIOUS
  <2>2. mark \in [Ids -> {"none", "sent", "served"}] /\ markAll \in {"none", "sent", "served"}
    OBVIOUS
  <2>3. asked \subseteq Requests /\ answer \in [Requests -> Counts \cup {NoVal}]
        /\ \A r \in asked : answer[r] = NoVal
    BY DEF Requests
  <2> QED BY <2>1, <2>2, <2>3 DEF TypeOK
<1>2. TypeOK /\ [Next]_vars => TypeOK'
  <2> SUFFICES ASSUME TypeOK, [Next]_vars PROVE TypeOK'
    OBVIOUS
  <2>a. ASSUME DecrementUnread PROVE badge' \in Counts \cup {NoVal}
    BY <1>b, <2>a DEF DecrementUnread, TypeOK
  <2> USE DEF TypeOK, server, list, counts
  <2>1. CASE Poll
    BY <2>1 DEF Poll, Ask, Idle, Requests
  <2>2. CASE LoadFeeds
    BY <2>2 DEF LoadFeeds, Reload, Ask, Idle, Requests
  <2>3. CASE UpdateFeed
    BY <2>3 DEF UpdateFeed, Ask, Idle, Requests
  <2>4. ASSUME NEW r \in Requests, NEW n \in Counts, Answers(r, n) PROVE TypeOK'
    BY <2>4 DEF Answers
  <2>5. ASSUME NEW r \in Requests, Serve(r) PROVE TypeOK'
    <3>1. Cardinality(unread) \in Counts
      BY CountBounds
    <3> QED BY <2>4, <2>5, <3>1 DEF Serve
  <2>6. ASSUME NEW r \in Requests, ServeUncounted(r) PROVE TypeOK'
    BY <1>a, <2>4, <2>6 DEF ServeUncounted
  <2>7. ASSUME NEW r \in Requests, Apply(r) PROVE TypeOK'
    BY <2>7 DEF Apply
  <2>8. ASSUME NEW r \in Requests, Fails(r) PROVE TypeOK'
    BY <2>8 DEF Fails
  <2>9. CASE ToggleUnreadFilter
    BY <2>9 DEF ToggleUnreadFilter
  <2>10. CASE MarkAllAsRead
    BY <2>10 DEF MarkAllAsRead
  <2>11. CASE ServeMarkAll
    BY <2>11 DEF ServeMarkAll
  <2>12. CASE MarkAllFails
    BY <2>12 DEF MarkAllFails
  <2>13. CASE CountAfterMarkAll
    BY <2>13 DEF CountAfterMarkAll, Reload, Ask, Idle, Requests
  <2>14. ASSUME NEW i \in Ids, MarkAsRead(i) PROVE TypeOK'
    BY <2>a, <2>14 DEF MarkAsRead
  <2>15. ASSUME NEW i \in Ids, ServeMark(i) PROVE TypeOK'
    BY <2>15 DEF ServeMark
  <2>16. ASSUME NEW i \in Ids, MarkedAsRead(i) PROVE TypeOK'
    BY <2>a, <2>16 DEF MarkedAsRead, MarkEnds
  <2>17. ASSUME NEW i \in Ids, MarkAsReadFails(i) PROVE TypeOK'
    BY <2>17 DEF MarkAsReadFails, MarkEnds
  <2>18. ASSUME NEW i \in Ids, Arrive(i) \/ Expire(i) \/ MarkAsUnread(i) PROVE TypeOK'
    BY <2>18 DEF Arrive, Expire, MarkAsUnread
  <2>19. CASE UNCHANGED vars
    BY <2>19 DEF vars
  <2> QED BY <2>1, <2>2, <2>3, <2>5, <2>6, <2>7, <2>8, <2>9, <2>10, <2>11, <2>12, <2>13,
             <2>14, <2>15, <2>16, <2>17, <2>18, <2>19 DEF Next
<1> QED BY <1>1, <1>2, PTL DEF Spec
=============================================================================
