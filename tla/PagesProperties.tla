---------------------------- MODULE PagesProperties ----------------------------
(***************************************************************************)
(* What reading a list page by page yields, whatever happens in between.   *)
(***************************************************************************)
EXTENDS Pages

\* Newest first, the pages together hold every article that was in the view
\* all along: a token skips nothing (article_store.go, List).
NewestSkipsNothing ==
  stage = "end" /\ newest => wanted \subseteq got

\* Oldest first, no article is on two pages, whatever was inserted meanwhile.
OldestRepeatsNothing == again # {} => newest

\* Oldest first, the pages may lack an article, but only an article that was
\* published after another one of its day that they hold.
OldestSkipsOnlyOfADay ==
  stage = "end" /\ ~newest
    => \A i \in wanted \ got : \E j \in got : j < i /\ Day[j] = Day[i]

\* No day has rows enough to fill a page, as things are.
FewADay ==
  \A i \in present : Cardinality({j \in present : Day[j] = Day[i]}) < size

\* Then, newest first, every further page ends on an earlier day than the one
\* before, though it begins with that page's last day again and whatever came,
\* went or was read in between: the list cannot turn in a circle (NextToken,
\* List).  Oldest first a page begins after that day.
PagesMoveOn ==
  [][FetchPage /\ FewADay /\ newest /\ token # NoToken /\ token' # NoToken
       => Day[token'] < Day[token]]_vars

FairSpec == Spec /\ WF_vars(FetchPage)

\* Reading comes to an end, unless in the middle of it some day fills a page.
ScrollEnds ==
  stage = "reading" ~> (stage = "end" \/ ~FewADay)
=============================================================================
