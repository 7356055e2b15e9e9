--------------------------- MODULE Scheduler_proofs ---------------------------
(***************************************************************************)
(* Theorems about the refresh scheduler, for any number of feeds,          *)
(* goroutines, URLs and documents, and any MaxErrors and Concurrency.      *)
(***************************************************************************)
EXTENDS SchedulerProperties, FiniteSetTheorems, TLAPS

\* A goroutine that is under way works for a feed that has been created; the
\* cycle's goroutine for a feed never works for another.
Targets ==
  \A t \in Tasks :
    /\ t \in FeedIds => target[t] = t
    /\ pc[t] # "idle" => target[t] \in FeedIds /\ status[target[t]] # "new"

UrlKnown == \A f \in FeedIds : status[f] # "new" => url[f] \in Urls

\* What was received is a document.
Received == \A t \in Tasks : pc[t] \in {"answered", "store"} => doc[t] \in Documents

Base == TypeOK /\ Targets /\ UrlKnown /\ Received

\* A saturating counter (error_count) stays within its bound.
LEMMA BumpType == ASSUME NEW n \in 0..ErrorCap PROVE Bump(n) \in 0..ErrorCap
BY BoundsAssumption DEF Bump

\* A process starting on an empty database is well typed, and nothing is under way.
LEMMA BaseInit == Init => Base
BY BoundsAssumption
   DEF Init, Base, TypeOK, Targets, UrlKnown, Received, NoTarget, Tasks, PCs, Results, Guids

\* No statement, answer, request or crash spoils a type, gives a goroutine a
\* feed that was never created, or a subscription no URL.
LEMMA BaseStep == Base /\ [Next]_vars => Base'
<1> SUFFICES ASSUME Base, [Next]_vars PROVE Base'
  OBVIOUS
<1> USE DEF Base, TypeOK, Targets, UrlKnown, Received
<1>1. CASE UNCHANGED vars
  BY <1>1 DEF vars, db, task, hist, Tasks
<1>2. CASE Environment
  <2>1. ASSUME NEW u \in Urls, NEW d \in Documents, Publish(u, d) PROVE Base'
    <3>1. published' \in [Urls -> {NoVal} \cup Documents]
      BY <2>1 DEF Publish
    <3> QED BY <2>1, <3>1 DEF Publish, db, task, hist
  <2>2. ASSUME NEW u \in Urls, Vanish(u) PROVE Base'
    BY <2>2 DEF Vanish, db, task, hist
  <2>3. ASSUME NEW f \in FeedIds, IntervalElapses(f) PROVE Base'
    BY <2>3 DEF IntervalElapses, Live, task, hist
  <2>4. ASSUME NEW f \in FeedIds, BackoffElapses(f) PROVE Base'
    BY <2>4 DEF BackoffElapses, Live, task, hist
  <2> QED BY <1>2, <2>1, <2>2, <2>3, <2>4 DEF Environment
<1>3. ASSUME NEW f \in FeedIds, NEW u \in Urls, NEW t \in Spawned, CreateFeed(f, u, t)
      PROVE Base'
  <2>1. t \in Tasks /\ t \notin FeedIds
    BY TasksAssumption DEF Tasks
  <2>2. TypeOK'
    BY <1>3, <2>1 DEF CreateFeed, Goto, PCs
  <2>3. Targets' /\ UrlKnown' /\ Received'
    BY <1>3, <2>1 DEF CreateFeed, Goto
  <2> QED BY <2>2, <2>3
<1>4. ASSUME NEW f \in FeedIds, DeleteFeed(f) PROVE Base'
  BY <1>4, BoundsAssumption DEF DeleteFeed, DeleteRow, Live, task, hist
<1>5. ASSUME NEW f \in FeedIds, NEW t \in Rpcs, RefreshRequest(t, f) PROVE Base'
  <2>1. t \in Tasks /\ t \notin FeedIds
    BY TasksAssumption DEF Tasks
  <2> QED BY <1>5, <2>1 DEF RefreshRequest, Goto, Live, db, hist, PCs
<1>6. ASSUME NEW t \in Rpcs, Disconnect(t) PROVE Base'
  BY <1>6 DEF Disconnect, db, task, hist
<1>7. CASE StartCycle
  BY <1>7 DEF StartCycle, DueFeeds, Live, db, hist, PCs, Tasks
<1>8. ASSUME NEW t \in FeedIds, Acquire(t) PROVE Base'
  BY <1>8 DEF Acquire, Goto, db, hist, PCs, Tasks
<1>9. ASSUME NEW t \in Tasks, Step(t) PROVE Base'
  <2>0. Goto(t, "idle") /\ target' = [target EXCEPT ![t] = NoTarget[t]]
        /\ res' = [res EXCEPT ![t] = "none"] /\ doc' = [doc EXCEPT ![t] = NoVal]
        /\ sem' = sem \ {t}
        => /\ pc' \in [Tasks -> PCs] /\ target' \in [Tasks -> FeedIds \cup {NoVal}]
           /\ res' \in [Tasks -> Results] /\ doc' \in [Tasks -> {NoVal} \cup Documents]
           /\ sem' \subseteq FeedIds
    BY DEF Goto, NoTarget, PCs, Results
  <2>1. CASE Load(t)
    BY <2>1, <2>0 DEF Load, Finish, Goto, NoTarget, db, hist, PCs
  <2>2. CASE RejectUrl(t)
    BY <2>2, FailureAssumption DEF RejectUrl, Ends, Errors, Goto, db, hist, PCs, Results, ErrorClasses
  <2>3. CASE SendRequest(t)
    BY <2>3 DEF SendRequest, Goto, Url, db, hist, PCs
  <2>4. CASE AnswerNotModified(t)
    BY <2>4 DEF AnswerNotModified, Ends, Goto, db, hist, PCs, Results
  <2>5. CASE AnswerError(t)
    BY <2>5, FailureAssumption DEF AnswerError, Ends, Errors, Goto, db, hist, PCs, Results, ErrorClasses
  <2>6. CASE AnswerOK(t)
    BY <2>6 DEF AnswerOK, Goto, Url, db, hist, PCs
  <2>7. ASSUME NEW tag \in {NoVal} \cup Documents, Receive(t, tag) PROVE Base'
    BY <2>7 DEF Receive, CacheHeaders, LiveAt, Goto, Url, db, PCs
  <2>8. ASSUME NEW tag \in {NoVal} \cup Documents, ReceiveGarbage(t, tag) PROVE Base'
    BY <2>8, FailureAssumption
       DEF ReceiveGarbage, CacheHeaders, LiveAt, Ends, Goto, Url, db, PCs, Results, ErrorClasses
  <2>9. CASE StoreOK(t)
    <3>1. doc[t] \subseteq Guids
      BY <2>9 DEF StoreOK, Guids
    <3> QED BY <2>9, <3>1 DEF StoreOK, Ends, Goto, hist, PCs, Results
  <2>10. CASE StoreFails(t)
    BY <2>10 DEF StoreFails, Ends, Goto, db, PCs, Results, ErrorClasses
  <2>11. CASE Record(t)
    <3>1. target[t] \in FeedIds /\ status[target[t]] # "new"
      BY <2>11 DEF Record
    <3>a. \/ Live(target[t]) /\ UpdateLastFetched(target[t], res[t])
          \/ UNCHANGED <<due, backoff, errorCount, failures>>
      BY <2>11 DEF Record
    <3>2. /\ due' \in [FeedIds -> BOOLEAN] /\ backoff' \in [FeedIds -> BOOLEAN]
          /\ errorCount' \in [FeedIds -> 0..ErrorCap] /\ failures' \in [FeedIds -> 0..ErrorCap]
          /\ \A f \in FeedIds :
               status[f] # "live" => ~due'[f] /\ ~backoff'[f] /\ errorCount'[f] = 0
      <4>1. CASE Live(target[t]) /\ UpdateLastFetched(target[t], res[t])
        <5>1. /\ due' \in [FeedIds -> BOOLEAN] /\ backoff' \in [FeedIds -> BOOLEAN]
              /\ errorCount' \in [FeedIds -> 0..ErrorCap] /\ failures' \in [FeedIds -> 0..ErrorCap]
          BY <4>1, <3>1, BumpType, BoundsAssumption DEF UpdateLastFetched
        <5>2. ASSUME NEW f \in FeedIds, status[f] # "live"
              PROVE  ~due'[f] /\ ~backoff'[f] /\ errorCount'[f] = 0
          BY <4>1, <5>2 DEF UpdateLastFetched, Live
        <5> QED BY <5>1, <5>2
      <4>2. CASE UNCHANGED <<due, backoff, errorCount, failures>>
        BY <4>2
      <4> QED BY <3>a, <4>1, <4>2
    <3>3. permSeen' \subseteq FeedIds
      BY <2>11, <3>1 DEF Record
    <3>4. /\ pc' \in [Tasks -> PCs] /\ target' \in [Tasks -> FeedIds \cup {NoVal}]
          /\ res' \in [Tasks -> Results] /\ doc' \in [Tasks -> {NoVal} \cup Documents]
          /\ sem' \subseteq FeedIds
      BY <2>11, <2>0 DEF Record, Finish, Goto, PCs
    <3>5. Targets' /\ UrlKnown' /\ Received'
      BY <2>11, <3>1 DEF Record, Finish, Goto, NoTarget
    <3> QED BY <2>11, <3>2, <3>3, <3>4, <3>5 DEF Record
  <2>12. CASE Check(t)
    BY <2>12, <2>0 DEF Check, Finish, Goto, NoTarget, db, hist, PCs
  <2>13. CASE Purge(t)
    <3>0. target[t] \in FeedIds
      BY <2>13 DEF Purge
    <3>a. stored' \in [FeedIds -> SUBSET Guids]
      BY <2>13 DEF Purge
    <3>b. lossy' \subseteq FeedIds
      BY <2>13, <3>0 DEF Purge
    <3>1. pc' \in [Tasks -> PCs]
      BY <2>13 DEF Purge, Goto, PCs
    <3>2. Targets' /\ UrlKnown' /\ Received'
      BY <2>13 DEF Purge, Goto
    <3>3. UNCHANGED <<status, url, due, backoff, errorCount, published, phase,
                      cache, sem, cancelled, target, res, doc, failures, permSeen>>
      BY <2>13 DEF Purge
    <3> QED BY <3>a, <3>b, <3>1, <3>2, <3>3
  <2>14. CASE Drop(t)
    <3>0. target[t] \in FeedIds /\ status[target[t]] # "new"
      BY <2>14 DEF Drop
    <3>a. DeleteRow(target[t], "removed") \/ UNCHANGED <<status, due, backoff, errorCount>>
      BY <2>14 DEF Drop
    <3>1. /\ status' \in [FeedIds -> {"new", "live", "deleted", "removed"}]
          /\ due' \in [FeedIds -> BOOLEAN] /\ backoff' \in [FeedIds -> BOOLEAN]
          /\ errorCount' \in [FeedIds -> 0..ErrorCap]
          /\ \A f \in FeedIds : (status'[f] = "new") <=> (status[f] = "new")
          /\ \A f \in FeedIds :
               status'[f] # "live" => ~due'[f] /\ ~backoff'[f] /\ errorCount'[f] = 0
      <4>1. CASE DeleteRow(target[t], "removed")
        BY <4>1, <3>0, BoundsAssumption DEF DeleteRow
      <4>2. CASE UNCHANGED <<status, due, backoff, errorCount>>
        BY <4>2
      <4> QED BY <3>a, <4>1, <4>2
    <3>2. /\ Goto(t, "idle") /\ target' = [target EXCEPT ![t] = NoTarget[t]]
          /\ res' = [res EXCEPT ![t] = "none"] /\ doc' = [doc EXCEPT ![t] = NoVal]
          /\ sem' = sem \ {t}
          /\ UNCHANGED <<url, stored, published, phase, cache, cancelled, hist>>
      BY <2>14 DEF Drop, Finish
    <3>3. TypeOK'
      BY <2>0, <3>1, <3>2 DEF hist
    <3>4. Targets' /\ UrlKnown' /\ Received'
      BY <3>1, <3>2 DEF Goto, NoTarget
    <3> QED BY <3>3, <3>4
  <2> QED BY <1>9, <2>1, <2>2, <2>3, <2>4, <2>5, <2>6, <2>7, <2>8, <2>9, <2>10,
             <2>11, <2>12, <2>13, <2>14 DEF Step
<1>10. CASE Stop
  BY <1>10 DEF Stop, db, task, hist
<1>11. CASE Restart
  BY <1>11 DEF Restart, NoTarget, db, PCs, Results, Tasks
<1> QED BY <1>1, <1>2, <1>3, <1>4, <1>5, <1>6, <1>7, <1>8, <1>9, <1>10, <1>11 DEF Next, User

\* The variables keep their types, whatever happens.
THEOREM TypeCorrect == Spec => []TypeOK
<1>1. Base => TypeOK
  BY DEF Base
<1> QED BY <1>1, BaseInit, BaseStep, PTL DEF Spec

-----------------------------------------------------------------------------
(* Why the cycle never removes a feed too early.  The counter of the row   *)
(* may be reset after Check has read it, so no bound on errorCount holds   *)
(* in Purge and Drop; the failures ever recorded, of which the counter is  *)
(* never more, carry the argument instead.                                 *)

Verdict ==
  /\ \A f \in FeedIds : errorCount[f] <= failures[f]
  /\ \A t \in Tasks : pc[t] \in {"check", "purge", "drop"} => target[t] \in permSeen
  /\ \A t \in Tasks : pc[t] \in {"purge", "drop"} => failures[target[t]] >= MaxErrors
  /\ \A f \in FeedIds : status[f] = "removed" => failures[f] >= MaxErrors /\ f \in permSeen

RemovalInv == Base /\ Verdict

\* No step takes back a recorded failure.
LEMMA HistoryGrows ==
  ASSUME Base, NEW t \in Tasks, Record(t)
  PROVE  /\ permSeen \subseteq permSeen'
         /\ \A f \in FeedIds : failures[f] \in Nat /\ failures'[f] \in Nat /\ failures[f] <= failures'[f]
<1>1. target[t] \in FeedIds
  BY DEF Base, Targets, Record
<1>2. UpdateLastFetched(target[t], res[t]) \/ UNCHANGED <<due, backoff, errorCount, failures>>
  BY DEF Record
<1>3. \A f \in FeedIds : failures[f] \in Nat /\ failures'[f] \in Nat /\ failures[f] <= failures'[f]
  <2>1. CASE UpdateLastFetched(target[t], res[t])
    BY <2>1, <1>1, BoundsAssumption DEF UpdateLastFetched, Bump, Base, TypeOK
  <2>2. CASE UNCHANGED <<due, backoff, errorCount, failures>>
    BY <2>2, BoundsAssumption DEF Base, TypeOK
  <2> QED BY <1>2, <2>1, <2>2
<1>4. permSeen \subseteq permSeen'
  BY DEF Record
<1> QED BY <1>3, <1>4

\* Whatever resets the counter between the statements of a removal, the recorded
\* failures that justify the removal remain (runCycle, UpdateLastFetched).
LEMMA VerdictStep == RemovalInv /\ [Next]_vars => Verdict'
<1> SUFFICES ASSUME RemovalInv, [Next]_vars PROVE Verdict'
  OBVIOUS
<1> USE DEF RemovalInv, Base, TypeOK, Targets, Verdict
<1>1. CASE UNCHANGED vars
  BY <1>1 DEF vars, db, task, hist
<1>2. CASE Environment
  BY <1>2 DEF Environment, Publish, Vanish, IntervalElapses, BackoffElapses, db, task, hist
<1>3. ASSUME NEW f \in FeedIds, NEW u \in Urls, NEW t \in Spawned, CreateFeed(f, u, t)
      PROVE Verdict'
  BY <1>3, TasksAssumption DEF CreateFeed, Goto, Tasks
<1>4. ASSUME NEW f \in FeedIds, DeleteFeed(f) PROVE Verdict'
  BY <1>4, BoundsAssumption DEF DeleteFeed, DeleteRow, task, hist
<1>5. ASSUME NEW f \in FeedIds, NEW t \in Rpcs, RefreshRequest(t, f) PROVE Verdict'
  BY <1>5, TasksAssumption DEF RefreshRequest, Goto, db, hist, Tasks
<1>6. ASSUME NEW t \in Rpcs, Disconnect(t) PROVE Verdict'
  BY <1>6 DEF Disconnect, db, task, hist
<1>7. CASE StartCycle
  BY <1>7 DEF StartCycle, db, hist
<1>8. ASSUME NEW t \in FeedIds, Acquire(t) PROVE Verdict'
  BY <1>8 DEF Acquire, Goto, db, hist, Tasks
<1>9. ASSUME NEW t \in Tasks, Step(t) PROVE Verdict'
  <2>1. CASE Load(t)
    BY <2>1 DEF Load, Finish, Goto, NoTarget, db, hist
  <2>2. CASE RejectUrl(t) \/ SendRequest(t) \/ AnswerNotModified(t) \/ AnswerError(t) \/ AnswerOK(t)
    BY <2>2 DEF RejectUrl, SendRequest, AnswerNotModified, AnswerError, AnswerOK,
                Ends, Goto, db, hist
  <2>3. ASSUME NEW tag \in {NoVal} \cup Documents, Receive(t, tag) \/ ReceiveGarbage(t, tag)
        PROVE Verdict'
    BY <2>3 DEF Receive, ReceiveGarbage, Ends, Goto, db
  <2>4. CASE StoreOK(t) \/ StoreFails(t)
    BY <2>4 DEF StoreOK, StoreFails, Ends, Goto, db, hist
  <2>5. CASE Record(t)
    <3>1. /\ permSeen \subseteq permSeen'
          /\ \A f \in FeedIds : failures[f] \in Nat /\ failures'[f] \in Nat /\ failures[f] <= failures'[f]
      BY <2>5, HistoryGrows
    <3>2. target[t] \in FeedIds
      BY <2>5 DEF Record
    <3>3. \A f \in FeedIds : errorCount'[f] <= failures'[f]
      <4>1. CASE UpdateLastFetched(target[t], res[t])
        BY <4>1, <3>2, BoundsAssumption DEF UpdateLastFetched, Bump
      <4>2. CASE UNCHANGED <<due, backoff, errorCount, failures>>
        BY <4>2
      <4> QED BY <2>5, <4>1, <4>2 DEF Record
    <3>4. \A s \in Tasks : pc'[s] \in {"check", "purge", "drop"} => target'[s] \in permSeen'
      BY <2>5, <3>1, <3>2 DEF Record, Finish, Goto, NoTarget
    <3>5. \A s \in Tasks : pc'[s] \in {"purge", "drop"} => pc[s] = pc'[s] /\ target'[s] = target[s]
      BY <2>5 DEF Record, Finish, Goto, NoTarget
    <3>6. \A s \in Tasks : pc'[s] \in {"purge", "drop"} => failures'[target'[s]] >= MaxErrors
      BY <3>1, <3>5, BoundsAssumption
    <3>7. status' = status
      BY <2>5 DEF Record
    <3>8. \A f \in FeedIds : status'[f] = "removed" => failures'[f] >= MaxErrors /\ f \in permSeen'
      BY <3>1, <3>7, BoundsAssumption
    <3> QED BY <3>3, <3>4, <3>6, <3>8
  <2>6. CASE Check(t)
    <3>1. target[t] \in FeedIds
      BY <2>6 DEF Check
    <3>2. CASE errorCount[target[t]] >= MaxErrors
      <4>1. failures[target[t]] >= MaxErrors
        BY <3>1, <3>2, BoundsAssumption
      <4> QED BY <2>6, <3>1, <4>1 DEF Check, Finish, Goto, NoTarget, db, hist
    <3>3. CASE ~(errorCount[target[t]] >= MaxErrors)
      BY <2>6, <3>3 DEF Check, Finish, Goto, NoTarget, db, hist
    <3> QED BY <3>2, <3>3
  <2>7. CASE Purge(t)
    BY <2>7 DEF Purge, Goto
  <2>8. CASE Drop(t)
    <3>1. target[t] \in FeedIds /\ failures[target[t]] >= MaxErrors /\ target[t] \in permSeen
      BY <2>8 DEF Drop
    <3>2. DeleteRow(target[t], "removed") \/ UNCHANGED <<status, due, backoff, errorCount>>
      BY <2>8 DEF Drop
    <3>3. UNCHANGED <<failures, permSeen>>
      BY <2>8 DEF Drop, hist
    <3>4. /\ \A f \in FeedIds : errorCount'[f] <= failures'[f]
          /\ \A f \in FeedIds : status'[f] = "removed" => failures'[f] >= MaxErrors /\ f \in permSeen'
      <4>1. CASE DeleteRow(target[t], "removed")
        BY <4>1, <3>1, <3>3, BoundsAssumption DEF DeleteRow
      <4>2. CASE UNCHANGED <<status, due, backoff, errorCount>>
        BY <4>2, <3>3
      <4> QED BY <3>2, <4>1, <4>2
    <3> QED BY <2>8, <3>3, <3>4 DEF Drop, Finish, Goto, NoTarget
  <2> QED BY <1>9, <2>1, <2>2, <2>3, <2>4, <2>5, <2>6, <2>7, <2>8 DEF Step
<1>10. CASE Stop
  BY <1>10 DEF Stop, db, task, hist
<1>11. CASE Restart
  BY <1>11 DEF Restart, db
<1> QED BY <1>1, <1>2, <1>3, <1>4, <1>5, <1>6, <1>7, <1>8, <1>9, <1>10, <1>11 DEF Next, User

\* The cycle proceeds to purge and drop only with failures enough on record, and
\* at every later moment they are still on record.
THEOREM RemovalInvariant == Spec => []RemovalInv
<1>1. Init => RemovalInv
  <2>1. Init => Verdict
    BY BoundsAssumption DEF Init, Verdict
  <2> QED BY <2>1, BaseInit DEF RemovalInv
<1>2. RemovalInv /\ [Next]_vars => RemovalInv'
  BY BaseStep, VerdictStep DEF RemovalInv
<1> QED BY <1>1, <1>2, PTL DEF Spec

\* A feed is removed by the cycle only after MaxErrors recorded failures.
THEOREM RemovalSafe == Spec => []RemovalNeedsMaxErrors
<1>1. RemovalInv => RemovalNeedsMaxErrors
  BY DEF RemovalInv, Verdict, RemovalNeedsMaxErrors
<1> QED BY <1>1, RemovalInvariant, PTL

\* A feed that only ever failed transiently is never removed by the cycle.
THEOREM TransientSafe == Spec => []TransientNeverRemoves
<1>1. RemovalInv => TransientNeverRemoves
  BY DEF RemovalInv, Verdict, TransientNeverRemoves
<1> QED BY <1>1, RemovalInvariant, PTL

-----------------------------------------------------------------------------
(* Scheduler implements Subscription: the refinement mapping is the        *)
(* identity on status, stored, failures and permSeen.                      *)

\* Every step of the scheduler is a step of a subscription's life, or changes
\* nothing its user sees.
LEMMA RefinesStep == RemovalInv /\ [Next]_vars => [Subscr!Next]_(Subscr!svars)
<1> SUFFICES ASSUME RemovalInv, [Next]_vars PROVE [Subscr!Next]_(Subscr!svars)
  OBVIOUS
<1> USE DEF RemovalInv, Base, TypeOK, Targets, Subscr!svars
<1>0. UNCHANGED <<status, url>> => UNCHANGED SubscribedUrl
  BY DEF SubscribedUrl, Live
<1>1. CASE UNCHANGED vars
  BY <1>0, <1>1 DEF vars, db, hist
<1>2. CASE Environment
  BY <1>0, <1>2 DEF Environment, Publish, Vanish, IntervalElapses, BackoffElapses, db, hist
<1>3. ASSUME NEW f \in FeedIds, NEW u \in Urls, NEW t \in Spawned, CreateFeed(f, u, t)
      PROVE [Subscr!Next]_(Subscr!svars)
  <2>1. SubscribedUrl' = [SubscribedUrl EXCEPT ![f] = u]
    BY <1>3 DEF CreateFeed, SubscribedUrl, Live
  <2>2. \A g \in FeedIds : SubscribedUrl[g] # u
    BY <1>3, NoValAssumption DEF CreateFeed, LiveAt, SubscribedUrl, Live
  <2>3. Subscr!Subscribe(f, u)
    BY <1>3, <2>1, <2>2 DEF CreateFeed, Subscr!Subscribe
  <2> QED BY <2>3 DEF Subscr!Next
<1>4. ASSUME NEW f \in FeedIds, DeleteFeed(f) PROVE [Subscr!Next]_(Subscr!svars)
  <2>1. SubscribedUrl' = [SubscribedUrl EXCEPT ![f] = NoVal]
    BY <1>4 DEF DeleteFeed, DeleteRow, SubscribedUrl, Live
  <2>2. Subscr!Unsubscribe(f)
    BY <1>4, <2>1 DEF DeleteFeed, DeleteRow, Live, hist, Subscr!Unsubscribe, Subscr!Ends
  <2> QED BY <2>2 DEF Subscr!Next
<1>5. ASSUME NEW f \in FeedIds, NEW t \in Rpcs, RefreshRequest(t, f)
      PROVE [Subscr!Next]_(Subscr!svars)
  BY <1>0, <1>5 DEF RefreshRequest, db, hist
<1>6. ASSUME NEW t \in Rpcs, Disconnect(t) PROVE [Subscr!Next]_(Subscr!svars)
  BY <1>0, <1>6 DEF Disconnect, db, hist
<1>7. CASE StartCycle
  BY <1>0, <1>7 DEF StartCycle, db, hist
<1>8. ASSUME NEW t \in FeedIds, Acquire(t) PROVE [Subscr!Next]_(Subscr!svars)
  BY <1>0, <1>8 DEF Acquire, db, hist
<1>9. ASSUME NEW t \in Tasks, Step(t) PROVE [Subscr!Next]_(Subscr!svars)
  <2>1. CASE Load(t)
    BY <1>0, <2>1 DEF Load, db, hist
  <2>2. CASE RejectUrl(t) \/ SendRequest(t) \/ AnswerNotModified(t) \/ AnswerError(t) \/ AnswerOK(t)
    BY <1>0, <2>2 DEF RejectUrl, SendRequest, AnswerNotModified, AnswerError, AnswerOK, db, hist
  <2>3. ASSUME NEW tag \in {NoVal} \cup Documents, Receive(t, tag) \/ ReceiveGarbage(t, tag)
        PROVE [Subscr!Next]_(Subscr!svars)
    BY <1>0, <2>3 DEF Receive, ReceiveGarbage, db
  <2>4. CASE StoreOK(t)
    <3>1. target[t] \in FeedIds /\ status[target[t]] # "new" /\ doc[t] \in Documents
      BY <2>4 DEF StoreOK, Received
    <3>2. Subscr!Collect(target[t], doc[t])
      BY <1>0, <2>4, <3>1 DEF StoreOK, hist, Subscr!Collect
    <3> QED BY <3>1, <3>2 DEF Subscr!Next
  <2>5. CASE StoreFails(t)
    BY <1>0, <2>5 DEF StoreFails, db
  <2>6. CASE Record(t)
    <3>1. target[t] \in FeedIds /\ status[target[t]] # "new"
      BY <2>6 DEF Record
    <3>2. permSeen' \in {permSeen, permSeen \cup {target[t]}} /\ UNCHANGED <<status, SubscribedUrl, stored>>
      BY <1>0, <2>6 DEF Record
    <3>3. \/ failures' = failures
          \/ failures[target[t]] < ErrorCap
             /\ failures' = [failures EXCEPT ![target[t]] = @ + 1]
      <4>1. CASE UpdateLastFetched(target[t], res[t])
        BY <4>1, <3>1, BoundsAssumption DEF UpdateLastFetched, Bump
      <4>2. CASE UNCHANGED <<due, backoff, errorCount, failures>>
        BY <4>2
      <4> QED BY <2>6, <4>1, <4>2 DEF Record
    <3>4. Subscr!Fail(target[t])
      BY <3>1, <3>2, <3>3 DEF Subscr!Fail
    <3> QED BY <3>1, <3>4 DEF Subscr!Next
  <2>7. CASE Check(t)
    BY <1>0, <2>7 DEF Check, db, hist
  <2>8. CASE Purge(t)
    <3>1. target[t] \in FeedIds /\ Subscr!Condemned(target[t])
      BY <2>8 DEF Purge, Verdict, Subscr!Condemned
    <3>2. CASE stored' = [stored EXCEPT ![target[t]] = {}]
      <4>1. Subscr!Discard(target[t])
        BY <1>0, <2>8, <3>1, <3>2 DEF Purge, Subscr!Discard
      <4> QED BY <3>1, <4>1 DEF Subscr!Next
    <3>3. CASE UNCHANGED stored
      BY <1>0, <2>8, <3>3 DEF Purge
    <3> QED BY <2>8, <3>2, <3>3 DEF Purge
  <2>9. CASE Drop(t)
    <3>1. target[t] \in FeedIds /\ Subscr!Condemned(target[t])
      BY <2>9 DEF Drop, Verdict, Subscr!Condemned
    <3>2. UNCHANGED <<url, stored, failures, permSeen>>
      BY <2>9 DEF Drop, hist
    <3>3. CASE Live(target[t]) /\ DeleteRow(target[t], "removed")
      <4>1. SubscribedUrl' = [SubscribedUrl EXCEPT ![target[t]] = NoVal]
        BY <3>1, <3>2, <3>3 DEF DeleteRow, SubscribedUrl, Live
      <4>2. Subscr!Remove(target[t])
        BY <3>1, <3>2, <3>3, <4>1 DEF DeleteRow, Live, Subscr!Remove, Subscr!Ends
      <4> QED BY <3>1, <4>2 DEF Subscr!Next
    <3>4. CASE UNCHANGED status
      BY <1>0, <3>2, <3>4
    <3> QED BY <2>9, <3>3, <3>4 DEF Drop
  <2> QED BY <1>9, <2>1, <2>2, <2>3, <2>4, <2>5, <2>6, <2>7, <2>8, <2>9 DEF Step
<1>10. CASE Stop
  BY <1>0, <1>10 DEF Stop, db, hist
<1>11. CASE Restart
  BY <1>0, <1>11 DEF Restart, db
<1> QED BY <1>1, <1>2, <1>3, <1>4, <1>5, <1>6, <1>7, <1>8, <1>9, <1>10, <1>11 DEF Next, User

\* Whatever the goroutines do, the user sees the life of a Subscription.
THEOREM SchedulerImplementsSubscription == Spec => ImplementsSubscription
<1>1. Init => Subscr!Init
  BY DEF Init, Subscr!Init, SubscribedUrl, Live
<1> QED BY <1>1, RefinesStep, RemovalInvariant, PTL DEF Spec, ImplementsSubscription, Subscr!Spec

-----------------------------------------------------------------------------
(* The semaphore of a cycle.                                               *)

SlotInv == Base /\ SlotsHeldByRunners

\* Giving a slot back (the deferred receive from sem) keeps the semaphore within
\* its capacity.
LEMMA SlotFreed ==
  ASSUME SlotInv, NEW t
  PROVE  Cardinality(sem \ {t}) <= Concurrency
<1>1. IsFiniteSet(sem)
  BY TasksAssumption, FS_Subset DEF SlotInv, Base, TypeOK
<1>2. Cardinality(sem \ {t}) <= Cardinality(sem)
  BY <1>1, FS_Subset
<1>3. IsFiniteSet(sem \ {t}) /\ Cardinality(sem) \in Nat /\ Cardinality(sem \ {t}) \in Nat
  BY <1>1, FS_Subset, FS_CardinalityType
<1> QED BY <1>2, <1>3, BoundsAssumption DEF SlotInv, SlotsHeldByRunners

\* Only Acquire takes a slot, only the end of a goroutine of the cycle returns one.
LEMMA SlotsStep == SlotInv /\ [Next]_vars => SlotsHeldByRunners'
<1> SUFFICES ASSUME SlotInv, [Next]_vars PROVE SlotsHeldByRunners'
  OBVIOUS
<1> USE DEF SlotInv, Base, TypeOK, SlotsHeldByRunners, Tasks
<1>0. ASSUME NEW t \in Tasks, Finish(t) PROVE SlotsHeldByRunners'
  BY <1>0, SlotFreed DEF Finish, Goto
<1>1. CASE UNCHANGED vars
  BY <1>1 DEF vars, task
<1>2. CASE Environment
  BY <1>2 DEF Environment, Publish, Vanish, IntervalElapses, BackoffElapses, task
<1>3. ASSUME NEW f \in FeedIds, NEW u \in Urls, NEW t \in Spawned, CreateFeed(f, u, t)
      PROVE SlotsHeldByRunners'
  BY <1>3, TasksAssumption DEF CreateFeed, Goto, Tasks
<1>4. ASSUME NEW f \in FeedIds, DeleteFeed(f) PROVE SlotsHeldByRunners'
  BY <1>4 DEF DeleteFeed, task
<1>5. ASSUME NEW f \in FeedIds, NEW t \in Rpcs, RefreshRequest(t, f)
      PROVE SlotsHeldByRunners'
  BY <1>5, TasksAssumption DEF RefreshRequest, Goto, Tasks
<1>6. ASSUME NEW t \in Rpcs, Disconnect(t) PROVE SlotsHeldByRunners'
  BY <1>6 DEF Disconnect, task
<1>7. CASE StartCycle
  BY <1>7 DEF StartCycle, Tasks
<1>8. ASSUME NEW t \in FeedIds, Acquire(t) PROVE SlotsHeldByRunners'
  <2>1. IsFiniteSet(sem) /\ Cardinality(sem) \in Nat
    BY TasksAssumption, FS_Subset, FS_CardinalityType
  <2>2. Cardinality(sem \cup {t}) \in {Cardinality(sem), Cardinality(sem) + 1}
    BY <2>1, FS_AddElement
  <2>4. Cardinality(sem') <= Concurrency
    BY <1>8, <2>1, <2>2, BoundsAssumption DEF Acquire
  <2> QED BY <1>8, <2>4 DEF Acquire, Goto, Tasks
<1>9. ASSUME NEW t \in Tasks, Step(t) PROVE SlotsHeldByRunners'
  <2>1. CASE Load(t)
    <3>1. CASE Finish(t)
      BY <3>1, <1>0
    <3>2. CASE Goto(t, "send") /\ UNCHANGED sem
      BY <2>1, <3>2 DEF Load, Goto
    <3> QED BY <2>1, <3>1, <3>2 DEF Load
  <2>2. CASE RejectUrl(t) \/ SendRequest(t) \/ AnswerNotModified(t) \/ AnswerError(t) \/ AnswerOK(t)
    BY <2>2 DEF RejectUrl, SendRequest, AnswerNotModified, AnswerError, AnswerOK, Ends, Goto
  <2>3. ASSUME NEW tag \in {NoVal} \cup Documents, Receive(t, tag) \/ ReceiveGarbage(t, tag)
        PROVE SlotsHeldByRunners'
    BY <2>3 DEF Receive, ReceiveGarbage, Ends, Goto
  <2>4. CASE StoreOK(t) \/ StoreFails(t)
    BY <2>4 DEF StoreOK, StoreFails, Ends, Goto
  <2>5. CASE Record(t)
    BY <2>5, <1>0 DEF Record, Goto
  <2>6. CASE Check(t)
    BY <2>6, <1>0 DEF Check, Goto
  <2>7. CASE Purge(t)
    BY <2>7 DEF Purge, Goto
  <2>8. CASE Drop(t)
    BY <2>8, <1>0 DEF Drop
  <2> QED BY <1>9, <2>1, <2>2, <2>3, <2>4, <2>5, <2>6, <2>7, <2>8 DEF Step
<1>10. CASE Stop
  BY <1>10 DEF Stop, task
<1>11. CASE Restart
  BY <1>11, FS_EmptySet, BoundsAssumption DEF Restart, Tasks
<1> QED BY <1>1, <1>2, <1>3, <1>4, <1>5, <1>6, <1>7, <1>8, <1>9, <1>10, <1>11 DEF Next, User

\* Slots are held by exactly the goroutines of the cycle that are running, and
\* never more than Concurrency of them.
THEOREM SlotsSafe == Spec => []SlotsHeldByRunners
<1>1. Init => SlotInv
  <2>1. Init => SlotsHeldByRunners
    BY FS_EmptySet, BoundsAssumption DEF Init, SlotsHeldByRunners, Tasks
  <2> QED BY <2>1, BaseInit DEF SlotInv
<1>2. SlotInv /\ [Next]_vars => SlotInv'
  BY BaseStep, SlotsStep DEF SlotInv
<1>3. SlotInv => SlotsHeldByRunners
  BY DEF SlotInv
<1> QED BY <1>1, <1>2, <1>3, PTL DEF Spec

-----------------------------------------------------------------------------
(* What the fetcher's cache stands for.                                    *)

CacheInv == Base /\ CachedDocumentAccountedFor

\* A step leaves the account of f as it was: same cached document, no article
\* less.
Kept(f) ==
  /\ Live(f) /\ f \notin lossy
  /\ cache'[url'[f]] = cache[url[f]]
  /\ stored[f] \subseteq stored'[f]

\* What some goroutine is about to store, it is still about to store.
StillInFlight ==
  \A t \in Tasks :
    pc[t] = "store" => pc'[t] = "store" /\ target'[t] = target[t] /\ doc'[t] = doc[t]

\* While no goroutine leaves "store", no document in flight is lost.
LEMMA InFlightStays == StillInFlight => \A f \in FeedIds : InFlight(f) \subseteq InFlight(f)'
BY DEF StillInFlight, InFlight

\* A step that keeps the cached document, the articles and what is in flight
\* keeps the account of the feed.
LEMMA KeptAccounted ==
  ASSUME CacheInv, NEW f \in FeedIds, Kept(f), cache[url[f]] # NoVal, StillInFlight
  PROVE  cache'[url'[f]] \subseteq stored'[f] \cup InFlight(f)'
BY InFlightStays DEF CacheInv, CachedDocumentAccountedFor, Kept

\* Every step that caches headers, stores or purges articles, or moves a
\* subscription to a URL, keeps the account of the cache or marks the feed lossy.
LEMMA CacheStep == CacheInv /\ [Next]_vars => CachedDocumentAccountedFor'
<1> SUFFICES ASSUME CacheInv, [Next]_vars,
                    NEW f \in FeedIds, Live(f)', f \notin lossy', cache'[url'[f]] # NoVal
             PROVE  cache'[url'[f]] \subseteq stored'[f] \cup InFlight(f)'
  BY DEF CachedDocumentAccountedFor
<1> DEFINE Goal == cache'[url'[f]] \subseteq stored'[f] \cup InFlight(f)'
<1>0. ASSUME Kept(f), StillInFlight PROVE Goal
  BY <1>0, KeptAccounted DEF Kept
<1> HIDE DEF Goal
<1>a. f \notin lossy'
  OBVIOUS
<1>b. status'[f] = "live"
  BY DEF Live
<1> USE DEF CacheInv, Base, TypeOK, Targets, UrlKnown, Received, Live
<1>c. ASSUME UNCHANGED <<status, url, stored, cache, lossy, task>> PROVE Goal
  BY <1>c, <1>0, <1>a, <1>b DEF task, Kept, StillInFlight
<1>1. CASE UNCHANGED vars
  BY <1>1, <1>c DEF vars, db, hist, Goal
<1>2. CASE Environment
  BY <1>2, <1>c DEF Environment, Publish, Vanish, IntervalElapses, BackoffElapses, db, hist, Goal
<1>3. ASSUME NEW g \in FeedIds, NEW u \in Urls, NEW t \in Spawned, CreateFeed(g, u, t)
      PROVE Goal
  <2>1. StillInFlight
    BY <1>3, TasksAssumption DEF CreateFeed, Goto, Tasks, StillInFlight
  <2>2. f # g
    BY <1>3, <1>a DEF CreateFeed
  <2>3. Kept(f)
    BY <1>3, <1>a, <1>b, <2>2 DEF CreateFeed, Kept
  <2> QED BY <1>0, <2>1, <2>3
<1>4. ASSUME NEW g \in FeedIds, DeleteFeed(g) PROVE Goal
  BY <1>4, <1>0, <1>a, <1>b DEF DeleteFeed, DeleteRow, task, hist, Kept, StillInFlight
<1>5. ASSUME NEW g \in FeedIds, NEW t \in Rpcs, RefreshRequest(t, g) PROVE Goal
  BY <1>5, <1>0, <1>a, <1>b DEF RefreshRequest, Goto, db, hist, Tasks, Kept, StillInFlight
<1>6. ASSUME NEW t \in Rpcs, Disconnect(t) PROVE Goal
  BY <1>6, <1>0, <1>a, <1>b DEF Disconnect, db, task, hist, Kept, StillInFlight
<1>7. CASE StartCycle
  <2>1. StillInFlight
    BY <1>7 DEF StartCycle, DueFeeds, Tasks, StillInFlight
  <2>2. Kept(f)
    BY <1>7, <1>a, <1>b DEF StartCycle, db, hist, Kept
  <2> QED BY <1>0, <2>1, <2>2 DEF Goal
<1>8. ASSUME NEW t \in FeedIds, Acquire(t) PROVE Goal
  BY <1>8, <1>0, <1>a, <1>b DEF Acquire, Goto, db, hist, Tasks, Kept, StillInFlight
<1>9. ASSUME NEW t \in Tasks, Step(t) PROVE Goal
  <2>1. CASE Load(t)
    BY <2>1, <1>0, <1>a, <1>b DEF Load, Finish, Goto, db, hist, Kept, StillInFlight
  <2>2. CASE RejectUrl(t) \/ SendRequest(t) \/ AnswerNotModified(t) \/ AnswerError(t) \/ AnswerOK(t)
    BY <2>2, <1>0, <1>a, <1>b
       DEF RejectUrl, SendRequest, AnswerNotModified, AnswerError, AnswerOK,
           Ends, Goto, db, hist, Kept, StillInFlight
  <2>3. ASSUME NEW tag \in {NoVal} \cup Documents, Receive(t, tag) PROVE Goal
    <3>1. StillInFlight
      BY <2>3 DEF Receive, Goto, StillInFlight
    <3>2. url' = url /\ stored' = stored /\ status' = status /\ Url(t) \in Urls /\ url[f] \in Urls
      BY <2>3, <1>b DEF Receive, db, Url
    <3>3. CASE url[f] # Url(t)
      <4>1. f \notin lossy
        <5>1. f # target[t]
          BY <2>3, <3>3 DEF Receive, Url
        <5> QED BY <2>3, <3>3, <5>1, <1>a DEF Receive, LiveAt
      <4>2. Kept(f)
        BY <2>3, <3>2, <3>3, <4>1, <1>b DEF Receive, CacheHeaders, Kept
      <4> QED BY <1>0, <3>1, <4>2
    <3>4. CASE url[f] = Url(t)
      <4>1. cache'[url'[f]] = tag
        BY <2>3, <3>2, <3>4 DEF Receive, CacheHeaders
      <4>2. tag = doc[t] /\ target[t] = f
        BY <2>3, <4>1, <3>2, <3>4, <1>a, <1>b DEF Receive, LiveAt
      <4>3. pc'[t] = "store" /\ target'[t] = f /\ doc'[t] = tag
        BY <2>3, <4>2 DEF Receive, Goto
      <4>4. doc'[t] \subseteq InFlight(f)'
        BY <4>3 DEF InFlight
      <4> QED BY <4>1, <4>3, <4>4 DEF Goal
    <3> QED BY <3>3, <3>4
  <2>4. ASSUME NEW tag \in {NoVal} \cup Documents, ReceiveGarbage(t, tag) PROVE Goal
    <3>1. StillInFlight
      BY <2>4 DEF ReceiveGarbage, Ends, Goto, StillInFlight
    <3>2. url' = url /\ stored' = stored /\ status' = status /\ Url(t) \in Urls /\ url[f] \in Urls
      BY <2>4, <1>b DEF ReceiveGarbage, db, Url
    <3>3. url[f] # Url(t)
      <4>1. CASE tag = NoVal
        BY <2>4, <4>1, <3>2 DEF ReceiveGarbage, CacheHeaders
      <4>2. CASE tag # NoVal
        BY <2>4, <4>2, <3>2, <1>a, <1>b DEF ReceiveGarbage, LiveAt
      <4> QED BY <4>1, <4>2
    <3>4. f \notin lossy
      BY <2>4, <3>3, <1>a DEF ReceiveGarbage, LiveAt
    <3>5. Kept(f)
      BY <2>4, <3>2, <3>3, <3>4, <1>b DEF ReceiveGarbage, CacheHeaders, Kept
    <3> QED BY <1>0, <3>1, <3>5
  <2>5. CASE StoreOK(t)
    <3>1. UNCHANGED <<url, status, cache, lossy, target>> /\ target[t] \in FeedIds
      BY <2>5 DEF StoreOK, hist
    <3>2. cache[url[f]] \subseteq stored[f] \cup InFlight(f)
      BY <3>1, <1>a, <1>b DEF CachedDocumentAccountedFor
    <3>3. stored[f] \subseteq stored'[f]
      BY <2>5, <3>1 DEF StoreOK
    <3>4. InFlight(f) \subseteq stored'[f] \cup InFlight(f)'
      <4> SUFFICES ASSUME NEW g, NEW s \in Tasks, pc[s] = "store", target[s] = f, g \in doc[s]
                   PROVE  g \in stored'[f] \cup InFlight(f)'
        BY DEF InFlight
      <4>1. CASE s = t
        BY <2>5, <3>1, <4>1 DEF StoreOK
      <4>2. CASE s # t
        <5>1. pc'[s] = "store" /\ target'[s] = f /\ doc'[s] = doc[s]
          BY <2>5, <4>2 DEF StoreOK, Ends, Goto
        <5> QED BY <5>1 DEF InFlight
      <4> QED BY <4>1, <4>2
    <3> QED BY <3>1, <3>2, <3>3, <3>4 DEF Goal
  <2>6. CASE StoreFails(t)
    <3>1. f # target[t] /\ f \notin lossy
      BY <2>6, <1>a DEF StoreFails
    <3>2. Kept(f)
      BY <2>6, <3>1, <1>b DEF StoreFails, db, Kept
    <3>3. \A s \in Tasks \ {t} : pc'[s] = pc[s] /\ target'[s] = target[s] /\ doc'[s] = doc[s]
      BY <2>6 DEF StoreFails, Ends, Goto
    <3>4. InFlight(f) \subseteq InFlight(f)'
      BY <3>1, <3>3 DEF InFlight
    <3> QED BY <3>2, <3>4 DEF Kept, Goal, CachedDocumentAccountedFor
  <2>7. CASE Record(t)
    BY <2>7, <1>0, <1>a, <1>b DEF Record, Finish, Goto, Kept, StillInFlight
  <2>8. CASE Check(t)
    BY <2>8, <1>0, <1>a, <1>b DEF Check, Finish, Goto, db, hist, Kept, StillInFlight
  <2>9. CASE Purge(t)
    BY <2>9, <1>0, <1>a, <1>b DEF Purge, Goto, Kept, StillInFlight
  <2>10. CASE Drop(t)
    <3>1. Live(f) /\ f \notin lossy
      BY <2>10, <1>a, <1>b DEF Drop, DeleteRow, hist
    <3>2. Kept(f) /\ StillInFlight
      BY <2>10, <3>1 DEF Drop, Finish, Goto, Kept, StillInFlight
    <3> QED BY <1>0, <3>2
  <2> QED BY <1>9, <2>1, <2>2, <2>3, <2>4, <2>5, <2>6, <2>7, <2>8, <2>9, <2>10 DEF Step
<1>10. CASE Stop
  BY <1>10, <1>c DEF Stop, db, hist, Goal
<1>11. CASE Restart
  BY <1>11, <1>b DEF Restart, db
<1> QED BY <1>1, <1>2, <1>3, <1>4, <1>5, <1>6, <1>7, <1>8, <1>9, <1>10, <1>11
        DEF Next, User, Goal

\* The cache never stands for a document that got lost in any other way than
\* those that lossy names.
THEOREM CacheSafe == Spec => []CachedDocumentAccountedFor
<1>1. Init => CacheInv
  <2>1. Init => CachedDocumentAccountedFor
    BY DEF Init, CachedDocumentAccountedFor, Live
  <2> QED BY <2>1, BaseInit DEF CacheInv
<1>2. CacheInv /\ [Next]_vars => CacheInv'
  BY BaseStep, CacheStep DEF CacheInv
<1>3. CacheInv => CachedDocumentAccountedFor
  BY DEF CacheInv
<1> QED BY <1>1, <1>2, <1>3, PTL DEF Spec
=============================================================================
