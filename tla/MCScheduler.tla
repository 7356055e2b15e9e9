----------------------------- MODULE MCScheduler -----------------------------
(* Instances of Scheduler for TLC.                                          *)
EXTENDS SchedulerProperties, TLC

\* Feeds are interchangeable, and so are URLs: nothing orders them.
Symmetry == Permutations(FeedIds) \cup Permutations(Urls)

\* The process has just started on a database with a healthy feed for each URL.
InitSubscribed ==
  /\ status = [f \in FeedIds |-> "live"]
  /\ url \in {m \in [FeedIds -> Urls] : \A f, g \in FeedIds : m[f] = m[g] => f = g}
  /\ due \in [FeedIds -> BOOLEAN]
  /\ backoff = [f \in FeedIds |-> FALSE]
  /\ errorCount = [f \in FeedIds |-> 0]
  /\ stored = [f \in FeedIds |-> {}]
  /\ published \in [Urls -> Documents]
  /\ phase = "running"
  /\ cache = [u \in Urls |-> NoVal]
  /\ sem = {} /\ cancelled = {}
  /\ pc = [t \in Tasks |-> "idle"]
  /\ target = NoTarget
  /\ res = [t \in Tasks |-> "none"]
  /\ doc = [t \in Tasks |-> NoVal]
  /\ failures = [f \in FeedIds |-> 0]
  /\ permSeen = {} /\ lossy = {}

\* What run safety tells states apart by: all but what makes no difference to
\* the later steps and is not mentioned by a property of that run.  That is lossy,
\* whether a request that is over lost its client, and, once a fetch is to be
\* recorded, whether it succeeded with a 200 or a 304 and with which document.
\* It is also published: the run begins with a document at the URL, where every
\* fetch may fail in every way (Flakes) that it may fail in where there is none.
SafetyView ==
  <<db, phase, cache, sem, pc, target, failures, permSeen,
    {t \in cancelled : pc[t] # "idle"},
    [t \in Tasks |-> IF res[t] = "unchanged" THEN "ok" ELSE res[t]],
    [t \in Tasks |-> IF pc[t] = "record" THEN NoVal ELSE doc[t]]>>

FairSubscribedSpec == InitSubscribed /\ [][Steady]_vars /\ Fairness
=============================================================================
