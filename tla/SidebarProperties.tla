--------------------------- MODULE SidebarProperties ---------------------------
(* What the count in the sidebar owes its reader. *)
EXTENDS Sidebar

\* The timer ticks and polls end; of the polls, not all are left without counts, and of those
\* with the counts of the moment not all are lost.  Nothing is assumed of the user.
FairSpec ==
  /\ Spec
  /\ WF_vars(Poll) /\ WF_vars(Apply("poll") \/ Fails("poll")) /\ SF_vars(Serve("poll"))
  /\ SF_vars(Apply("poll") /\ answer["poll"] = Cardinality(unread))

\* However local decrements, polls, reloads and updates overtake one another,
\* the count is the server's again once that stays the same (feed_provider.dart,
\* "so sidebar unread counts stay in sync with the backend").
CountHeals ==
  \A n \in 0 .. Cardinality(Ids) :
    <>[](Cardinality(unread) = n) => []<>(badge = n)
=============================================================================
