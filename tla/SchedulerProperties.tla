------------------------- MODULE SchedulerProperties -------------------------
(***************************************************************************)
(* What the refresh scheduler is meant to guarantee, whatever the order in *)
(* which cycles, manual refreshes, deletions, failures and crashes happen. *)
(***************************************************************************)
EXTENDS Scheduler

\* The cycle removes a feed only after at least maxErrorsBeforeDelete recorded
\* failures, although it reads the counter in another statement than the one
\* that increments it and other refreshes move it in between (runCycle).
RemovalNeedsMaxErrors ==
  \A f \in FeedIds : status[f] = "removed" => failures[f] >= MaxErrors

\* A feed whose every failure was a 403, a 429, a timeout or a storage error
\* is never removed: "never auto-remove" in classifyError's comment.
TransientNeverRemoves ==
  \A f \in FeedIds : status[f] = "removed" => f \in permSeen

\* A slot of the semaphore is held by exactly the goroutines of the cycle that
\* have begun and not ended: no path through runCycle leaks one or returns one
\* it does not hold, and no cycle starts while another has goroutines left.
SlotsHeldByRunners ==
  /\ sem = {t \in FeedIds : pc[t] \notin {"idle", "waiting"}}
  /\ Cardinality(sem) <= Concurrency

\* The document a refresh of f has received and is about to store.
InFlight(f) == UNION {doc[t] : t \in {t \in Tasks : pc[t] = "store" /\ target[t] = f}}

\* The document that the fetcher's cache lets a publisher answer with 304 has
\* been stored for the live feed of that URL, or is just being stored, unless
\* one of the known ways to lose it happened (lossy): a 200 whose body or
\* storing failed, a purge whose feed survived, or a subscription to a URL
\* another subscription had fetched.  Nothing else loses articles.
CachedDocumentAccountedFor ==
  \A f \in FeedIds :
    Live(f) /\ f \notin lossy /\ cache[url[f]] # NoVal
      => cache[url[f]] \subseteq stored[f] \cup InFlight(f)

\* The url of a row that is gone, which goroutines under way still use, is that
\* of no subscription.
SubscribedUrl == [f \in FeedIds |-> IF Live(f) THEN url[f] ELSE NoVal]

\* Scheduler implements Subscription: every step is one of a subscription's
\* life, or invisible to its user.  In particular DeleteFeed leaves the articles
\* of the feed where they are, although feed.proto:101 and the dialog of
\* sidebar.dart:650 say that they are deleted: Unsubscribe changes nothing of
\* stored, and a DeleteFeed that did would not implement it.
Subscr == INSTANCE Subscription
  WITH FeedIds <- FeedIds, Urls <- Urls, Documents <- Documents, NoVal <- NoVal,
       MaxErrors <- MaxErrors, ErrorCap <- ErrorCap,
       status <- status, url <- SubscribedUrl,
       stored <- stored, failures <- failures, permSeen <- permSeen
ImplementsSubscription == Subscr!Spec

-----------------------------------------------------------------------------
(* Liveness of a stretch without a crash.  The network answers or times    *)
(* out (http.Client.Timeout), goroutines are scheduled, the ticker ticks.  *)

Steady ==
  \/ Environment \/ User
  \/ StartCycle \/ \E f \in FeedIds : Acquire(f)
  \/ \E t \in Tasks : Step(t)
  \/ Stop

Fairness ==
  /\ \A t \in Tasks : WF_vars(Step(t))
  /\ \A f \in FeedIds : WF_vars(Acquire(f))
  /\ \A f \in FeedIds : WF_vars(IntervalElapses(f)) /\ WF_vars(BackoffElapses(f))
  /\ WF_vars(StartCycle)

FairSpec == Init /\ [][Steady]_vars /\ Fairness

\* Stop returns: every goroutine of the cycle ends, those that still queue for
\* a slot when the context is cancelled included (Stop, wg.Wait).
StopDrains ==
  phase = "stopping" ~> \A f \in FeedIds : pc[f] = "idle"

\* A feed that is due and not backing off gets its turn, however many feeds
\* share the semaphore, unless a manual refresh or a deletion comes first.
DueFeedGetsItsTurn ==
  \A f \in FeedIds :
    (f \in DueFeeds /\ phase = "running")
      ~> (pc[f] \notin {"idle", "waiting"} \/ f \notin DueFeeds \/ phase = "stopping")

\* A feed whose URL is gone for good does not stay subscribed for ever: its
\* permanent errors add up and the cycle removes it.
DeadFeedsDoNotLinger ==
  \A f \in FeedIds :
    []<>(~(Live(f) /\ published[url[f]] = NoVal) \/ phase = "stopping")

\* A document that stays published is in the end stored for a feed that stays
\* subscribed, unless that feed has lost it to the cache.
ArticlesArrive ==
  \A f \in FeedIds, d \in Documents :
    []<>( \/ ~(Live(f) /\ published[url[f]] = d)
          \/ d \subseteq stored[f] \/ f \in lossy \/ phase = "stopping")

-----------------------------------------------------------------------------
\* fetcher.go:112 "NotModified ... true when the feed hasn't changed since last
\* fetch": after a 304 there is nothing to store.  The tag is cached before the
\* body is parsed and stored, so it may stand for a document that was lost.
NotModifiedMeansStored ==
  \A t \in Tasks :
    pc[t] = "record" /\ res[t] = "unchanged"
      => doc[t] \subseteq stored[target[t]] \cup InFlight(target[t])
=============================================================================
