------------------------------ MODULE Scheduler ------------------------------
(***************************************************************************)
(* The refresh scheduler of PlexReader's backend and everything it races   *)
(* with: the goroutines of a refresh cycle, the RefreshFeed RPC, the       *)
(* background refresh that CreateFeed spawns, users who delete feeds,      *)
(* publishers who change their feeds, Stop, and a crash of the process.    *)
(*                                                                         *)
(* A refresh is a goroutine that walks through                             *)
(*   load -> send -> sent -> answered -> store -> record                   *)
(* and, in a cycle and after a permanent error,                            *)
(*   -> check -> purge -> drop.                                            *)
(* SQLite has one connection (main.go), so each statement is one atomic    *)
(* step and everything else may happen between two of them.                *)
(*                                                                         *)
(* A feed's document is the set of GUIDs of its items.  Its ETag is        *)
(* modelled by the document itself: equal tags mean equal documents.       *)
(***************************************************************************)
EXTENDS Naturals, FiniteSets

CONSTANTS
  FeedIds,      \* feed ULIDs; also names the cycle's goroutine for the feed
  Rpcs,         \* handlers of the RefreshFeed RPC
  Spawned,      \* background goroutines started by CreateFeed
  Urls,         \* xml_url values
  Documents,    \* sets of item GUIDs that publishers may serve
  MaxErrors,    \* maxErrorsBeforeDelete
  ErrorCap,     \* bound: counters of errors saturate here
  Concurrency,  \* capacity of the cycle's semaphore
  Flakes,       \* error classes that any request may run into
  DbMayFail,    \* may a statement fail although its context is alive?
  NoVal         \* NULL: no document, no tag, no url, no target

ErrorClasses == {"permanent", "backoff", "transient"}
Guids        == UNION Documents
Tasks        == FeedIds \cup Rpcs \cup Spawned

ASSUME TasksAssumption ==
  /\ FeedIds \cap Rpcs = {} /\ FeedIds \cap Spawned = {} /\ Rpcs \cap Spawned = {}
  /\ IsFiniteSet(FeedIds)
ASSUME NoValAssumption == NoVal \notin FeedIds \cup Urls /\ \A d \in Documents : d # NoVal
ASSUME BoundsAssumption ==
  /\ MaxErrors \in Nat \ {0} /\ Concurrency \in Nat \ {0}
  /\ ErrorCap \in Nat /\ MaxErrors <= ErrorCap
ASSUME FailureAssumption == Flakes \subseteq ErrorClasses /\ DbMayFail \in BOOLEAN

VARIABLES
  \* the database: one row of "feeds" per live feed, and "articles"
  status,      \* "new" (id not yet drawn), "live", "deleted" by the user, "removed" by the cycle
  url,         \* xml_url
  due,         \* last_fetched_at is NULL or older than the refresh interval
  backoff,     \* backoff_until lies in the future
  errorCount,  \* error_count
  stored,      \* GUIDs inserted for the feed and not deleted with it
  \* the web
  published,   \* document served at a URL, NoVal once it answers 404/410/NXDOMAIN
  \* the process
  phase,       \* "running", or "stopping" after Stop has cancelled the cycle
  cache,       \* Fetcher.cache: tag of the last 200 response from a URL
  sem,         \* goroutines of the cycle that hold a slot of the semaphore
  cancelled,   \* RPCs whose client has gone away
  pc, target,  \* what a goroutine does next, and its feed
  res,         \* how its fetch ended
  doc,         \* tag it sent, then the document it received
  \* history: read by no action
  failures,    \* failed attempts recorded for the feed
  permSeen,    \* feeds for which some attempt ended in a permanent error
  lossy        \* feeds that never got the document the cache stands for

db   == <<status, url, due, backoff, errorCount, stored>>
task == <<pc, target, res, doc>>
hist == <<failures, permSeen, lossy>>
vars == <<db, published, phase, cache, sem, cancelled, task, hist>>

PCs     == {"idle", "waiting", "load", "send", "sent", "answered", "store",
            "record", "check", "purge", "drop"}
Results == ErrorClasses \cup {"none", "ok", "unchanged"}

TypeOK ==
  /\ status \in [FeedIds -> {"new", "live", "deleted", "removed"}]
  /\ url \in [FeedIds -> Urls \cup {NoVal}]
  /\ due \in [FeedIds -> BOOLEAN] /\ backoff \in [FeedIds -> BOOLEAN]
  /\ errorCount \in [FeedIds -> 0..ErrorCap]
  /\ \A f \in FeedIds :  \* the columns of a row that is not there
       status[f] # "live" => ~due[f] /\ ~backoff[f] /\ errorCount[f] = 0
  /\ stored \in [FeedIds -> SUBSET Guids]
  /\ published \in [Urls -> {NoVal} \cup Documents]
  /\ phase \in {"running", "stopping"}
  /\ cache \in [Urls -> {NoVal} \cup Documents]
  /\ sem \subseteq FeedIds /\ cancelled \subseteq Rpcs
  /\ pc \in [Tasks -> PCs]
  /\ target \in [Tasks -> FeedIds \cup {NoVal}]
  /\ res \in [Tasks -> Results]
  /\ doc \in [Tasks -> {NoVal} \cup Documents]
  /\ failures \in [FeedIds -> 0..ErrorCap]
  /\ permSeen \subseteq FeedIds /\ lossy \subseteq FeedIds

NoTarget == [t \in Tasks |-> IF t \in FeedIds THEN t ELSE NoVal]

Init ==
  /\ status = [f \in FeedIds |-> "new"]
  /\ url = [f \in FeedIds |-> NoVal]
  /\ due = [f \in FeedIds |-> FALSE]
  /\ backoff = [f \in FeedIds |-> FALSE]
  /\ errorCount = [f \in FeedIds |-> 0]
  /\ stored = [f \in FeedIds |-> {}]
  /\ published \in [Urls -> Documents]
  /\ phase = "running"
  /\ cache = [u \in Urls |-> NoVal]
  /\ sem = {} /\ cancelled = {}
  /\ pc = [t \in Tasks |-> "idle"]
  /\ target = NoTarget
  /\ res = [t \in Tasks |-> "none"]
  /\ doc = [t \in Tasks |-> NoVal]
  /\ failures = [f \in FeedIds |-> 0]
  /\ permSeen = {} /\ lossy = {}

-----------------------------------------------------------------------------
(* Contexts, the database and the semaphore.                               *)

\* Stop cancels the context of the cycle; a client that leaves cancels that
\* of its RPC; the background goroutines run on context.Background().
Dead(t) == t \in cancelled \/ (t \in FeedIds /\ phase = "stopping")

\* A statement on a cancelled context fails.
DbOutcomes(t) == IF Dead(t) THEN {FALSE} ELSE IF DbMayFail THEN BOOLEAN ELSE {TRUE}

Live(f)  == status[f] = "live"
LiveAt(u) == {f \in FeedIds : Live(f) /\ url[f] = u}
Url(t)   == url[target[t]]
Bump(n)  == IF n < ErrorCap THEN n + 1 ELSE n

\* The goroutine goes on at step p.
Goto(t, p) == pc' = [pc EXCEPT ![t] = p]

\* Faulty variant: the slot is not given back.
FinishKeepsSlot(t) ==
  /\ Goto(t, "idle")
  /\ target' = [target EXCEPT ![t] = NoTarget[t]]
  /\ res' = [res EXCEPT ![t] = "none"]
  /\ doc' = [doc EXCEPT ![t] = NoVal]
  /\ sem' = sem

\* The goroutine ends; a goroutine of the cycle gives its slot back.
Finish(t) ==
  /\ Goto(t, "idle")
  /\ target' = [target EXCEPT ![t] = NoTarget[t]]
  /\ res' = [res EXCEPT ![t] = "none"]
  /\ doc' = [doc EXCEPT ![t] = NoVal]
  /\ sem' = sem \ {t}

\* The fetch ends with result r, which is recorded next.
Ends(t, r) ==
  /\ Goto(t, "record")
  /\ res' = [res EXCEPT ![t] = r]

-----------------------------------------------------------------------------
(* Publishers and the clock.                                               *)

Publish(u, d) ==
  /\ published[u] # d
  /\ published' = [published EXCEPT ![u] = d]
  /\ UNCHANGED <<db, phase, cache, sem, cancelled, task, hist>>

Vanish(u) ==
  /\ published[u] # NoVal
  /\ published' = [published EXCEPT ![u] = NoVal]
  /\ UNCHANGED <<db, phase, cache, sem, cancelled, task, hist>>

IntervalElapses(f) ==
  /\ Live(f) /\ ~due[f]
  /\ due' = [due EXCEPT ![f] = TRUE]
  /\ UNCHANGED <<status, url, backoff, errorCount, stored, published, phase,
                 cache, sem, cancelled, task, hist>>

BackoffElapses(f) ==
  /\ Live(f) /\ backoff[f]
  /\ backoff' = [backoff EXCEPT ![f] = FALSE]
  /\ UNCHANGED <<status, url, due, errorCount, stored, published, phase,
                 cache, sem, cancelled, task, hist>>

-----------------------------------------------------------------------------
(* Requests of the user.                                                   *)

CreateFeed(f, u, t) ==
  /\ phase = "running" /\ status[f] = "new" /\ LiveAt(u) = {} /\ pc[t] = "idle"
  /\ status' = [status EXCEPT ![f] = "live"]
  /\ url' = [url EXCEPT ![f] = u]
  /\ due' = [due EXCEPT ![f] = TRUE]
  /\ Goto(t, "load")
  /\ target' = [target EXCEPT ![t] = f]
  /\ lossy' = IF cache[u] = NoVal THEN lossy ELSE lossy \cup {f}
  /\ UNCHANGED <<backoff, errorCount, stored, published, phase, cache, sem,
                 cancelled, res, doc, failures, permSeen>>

\* feedStore.Delete: the row of f goes, its articles stay.
DeleteRow(f, why) ==
  /\ status' = [status EXCEPT ![f] = why]
  /\ due' = [due EXCEPT ![f] = FALSE]
  /\ backoff' = [backoff EXCEPT ![f] = FALSE]
  /\ errorCount' = [errorCount EXCEPT ![f] = 0]

DeleteFeed(f) ==
  /\ phase = "running" /\ Live(f)
  /\ DeleteRow(f, "deleted")
  /\ UNCHANGED <<url, stored, published, phase, cache, sem, cancelled, task, hist>>

RefreshRequest(t, f) ==
  /\ phase = "running" /\ pc[t] = "idle" /\ Live(f)
  /\ Goto(t, "load")
  /\ target' = [target EXCEPT ![t] = f]
  /\ cancelled' = cancelled \ {t}
  /\ UNCHANGED <<db, published, phase, cache, sem, res, doc, hist>>

Disconnect(t) ==
  /\ pc[t] # "idle" /\ t \notin cancelled
  /\ cancelled' = cancelled \cup {t}
  /\ UNCHANGED <<db, published, phase, cache, sem, task, hist>>

-----------------------------------------------------------------------------
(* The refresh of one feed.                                                *)

\* RefreshFeed loads the row; without it the refresh ends.
Load(t) ==
  /\ pc[t] = "load"
  /\ \E ok \in DbOutcomes(t) :
       IF ok /\ Live(target[t])
       THEN Goto(t, "send") /\ UNCHANGED <<target, res, doc, sem>>
       ELSE Finish(t)
  /\ UNCHANGED <<db, published, phase, cache, cancelled, hist>>

\* Faulty variant: failing feeds are not tried again.
HealthyDueFeeds == {f \in FeedIds : Live(f) /\ due[f] /\ ~backoff[f] /\ errorCount[f] = 0}

\* Feeds whose interval has passed and that are not backing off.
DueFeeds == {f \in FeedIds : Live(f) /\ due[f] /\ ~backoff[f]}

\* The loop runs one cycle at a time: the next one starts after wg.Wait.
StartCycle ==
  /\ phase = "running"
  /\ \A f \in FeedIds : pc[f] = "idle"
  /\ DueFeeds # {}
  /\ pc' = [t \in Tasks |-> IF t \in DueFeeds THEN "waiting" ELSE pc[t]]
  /\ UNCHANGED <<db, published, phase, cache, sem, cancelled, target, res, doc, hist>>

Acquire(t) ==
  /\ pc[t] = "waiting" /\ Cardinality(sem) < Concurrency
  /\ sem' = sem \cup {t}
  /\ Goto(t, "send")
  /\ UNCHANGED <<db, published, phase, cache, cancelled, target, res, doc, hist>>

\* How a request to u may fail.
Errors(u) == Flakes \cup (IF published[u] = NoVal THEN {"permanent"} ELSE {})

\* The URL is validated (a DNS lookup that ignores the context) ...
RejectUrl(t) ==
  /\ pc[t] = "send"
  /\ \E r \in Errors(Url(t)) \ {"backoff"} : Ends(t, r)
  /\ UNCHANGED <<db, published, phase, cache, sem, cancelled, target, doc, hist>>

\* ... and the request carries the tag cached for the URL.
SendRequest(t) ==
  /\ pc[t] = "send"
  /\ Goto(t, "sent")
  /\ doc' = [doc EXCEPT ![t] = cache[Url(t)]]
  /\ UNCHANGED <<db, published, phase, cache, sem, cancelled, target, res, hist>>

\* 304: the tag is that of the document served now.
AnswerNotModified(t) ==
  /\ pc[t] = "sent" /\ ~Dead(t)
  /\ doc[t] # NoVal /\ doc[t] = published[Url(t)]
  /\ Ends(t, "unchanged")
  /\ UNCHANGED <<db, published, phase, cache, sem, cancelled, target, doc, hist>>

\* No answer, or one that is neither 200 nor 304.
AnswerError(t) ==
  /\ pc[t] = "sent"
  /\ \E r \in IF Dead(t) THEN {"transient"} ELSE Errors(Url(t)) : Ends(t, r)
  /\ doc' = [doc EXCEPT ![t] = NoVal]
  /\ UNCHANGED <<db, published, phase, cache, sem, cancelled, target, hist>>

\* 200 with the document served now.
AnswerOK(t) ==
  /\ pc[t] = "sent" /\ ~Dead(t)
  /\ published[Url(t)] # NoVal
  /\ Goto(t, "answered")
  /\ doc' = [doc EXCEPT ![t] = published[Url(t)]]
  /\ UNCHANGED <<db, published, phase, cache, sem, cancelled, target, res, hist>>

\* The headers of a 200 are cached under the URL before the body is read;
\* a publisher that sends no validators leaves an entry without a tag.
CacheHeaders(t, tag) == cache' = [cache EXCEPT ![Url(t)] = tag]

\* Other feeds that now hold the URL are served 304 for a document they never got.
Receive(t, tag) ==
  /\ pc[t] = "answered" /\ tag \in {doc[t], NoVal}
  /\ CacheHeaders(t, tag)
  /\ Goto(t, "store")
  /\ lossy' = IF tag = NoVal THEN lossy \ LiveAt(Url(t))
              ELSE (lossy \cup LiveAt(Url(t))) \ {target[t]}
  /\ UNCHANGED <<db, published, phase, sem, cancelled, target, res, doc,
                 failures, permSeen>>

\* The body breaks off, or is no feed.
ReceiveGarbage(t, tag) ==
  /\ pc[t] = "answered" /\ tag \in {doc[t], NoVal}
  /\ CacheHeaders(t, tag)
  /\ \E r \in IF Dead(t) THEN {"permanent", "transient"} ELSE Flakes \ {"backoff"} : Ends(t, r)
  /\ doc' = [doc EXCEPT ![t] = NoVal]
  /\ lossy' = IF tag = NoVal THEN lossy \ LiveAt(Url(t)) ELSE lossy \cup LiveAt(Url(t))
  /\ UNCHANGED <<db, published, phase, sem, cancelled, target, failures, permSeen>>

\* Faulty variant: what is no longer served is deleted.
StoreOKReplaces(t) ==
  /\ pc[t] = "store" /\ (TRUE \in DbOutcomes(t) \/ doc[t] = {})
  /\ stored' = [stored EXCEPT ![target[t]] = doc[t]]
  /\ Ends(t, "ok")
  /\ doc' = [doc EXCEPT ![t] = NoVal]
  /\ UNCHANGED <<status, url, due, backoff, errorCount, published, phase,
                 cache, sem, cancelled, target, hist>>

\* BulkCreate does not ask whether the feed still exists; with no items it
\* returns before it touches the database.
StoreOK(t) ==
  /\ pc[t] = "store" /\ (TRUE \in DbOutcomes(t) \/ doc[t] = {})
  /\ stored' = [stored EXCEPT ![target[t]] = @ \cup doc[t]]
  /\ Ends(t, "ok")
  /\ doc' = [doc EXCEPT ![t] = NoVal]
  /\ UNCHANGED <<status, url, due, backoff, errorCount, published, phase,
                 cache, sem, cancelled, target, hist>>

StoreFails(t) ==
  /\ pc[t] = "store" /\ FALSE \in DbOutcomes(t) /\ doc[t] # {}
  /\ Ends(t, "transient")
  /\ doc' = [doc EXCEPT ![t] = NoVal]
  /\ lossy' = lossy \cup {target[t]}
  /\ UNCHANGED <<db, published, phase, cache, sem, cancelled, target, failures, permSeen>>

\* Faulty variant: permanent errors are not counted.
UpdateLastFetchedUncounted(f, r) ==
  LET failed == r \in {"backoff", "transient"} IN
  /\ due' = [due EXCEPT ![f] = FALSE]
  /\ backoff' = [backoff EXCEPT ![f] = (r = "backoff")]
  /\ errorCount' = [errorCount EXCEPT ![f] = IF failed THEN Bump(@) ELSE 0]
  /\ failures' = [failures EXCEPT ![f] = IF failed THEN Bump(@) ELSE @]

\* UpdateLastFetched on the row of f, if there is one.
UpdateLastFetched(f, r) ==
  LET failed == r \in ErrorClasses IN
  /\ due' = [due EXCEPT ![f] = FALSE]
  /\ backoff' = [backoff EXCEPT ![f] = (r = "backoff")]
  /\ errorCount' = [errorCount EXCEPT ![f] = IF failed THEN Bump(@) ELSE 0]
  /\ failures' = [failures EXCEPT ![f] = IF failed THEN Bump(@) ELSE @]

\* Faulty variant: the row is saved anew if a deletion came before.
RecordAnyRow(t) ==
  /\ pc[t] = "record"
  /\ \E ok \in DbOutcomes(t) :
       IF ok
       THEN UpdateLastFetched(target[t], res[t])
       ELSE UNCHANGED <<due, backoff, errorCount, failures>>
  /\ permSeen' = IF res[t] = "permanent" THEN permSeen \cup {target[t]} ELSE permSeen
  /\ IF t \in FeedIds /\ res[t] = "permanent"
     THEN Goto(t, "check") /\ UNCHANGED <<target, res, doc, sem>>
     ELSE Finish(t)
  /\ UNCHANGED <<status, url, stored, published, phase, cache, cancelled, lossy>>

\* Faulty variant: every error may remove the feed.
RecordJudgesAllErrors(t) ==
  /\ pc[t] = "record"
  /\ \E ok \in DbOutcomes(t) :
       IF ok /\ Live(target[t])
       THEN UpdateLastFetched(target[t], res[t])
       ELSE UNCHANGED <<due, backoff, errorCount, failures>>
  /\ permSeen' = IF res[t] = "permanent" THEN permSeen \cup {target[t]} ELSE permSeen
  /\ IF t \in FeedIds /\ res[t] \in ErrorClasses
     THEN Goto(t, "check") /\ UNCHANGED <<target, res, doc, sem>>
     ELSE Finish(t)
  /\ UNCHANGED <<status, url, stored, published, phase, cache, cancelled, lossy>>

\* The outcome is recorded, and an error of UpdateLastFetched ignored.  Only
\* a cycle goes on to ask whether a permanent error was one too many.
Record(t) ==
  /\ pc[t] = "record"
  /\ \E ok \in DbOutcomes(t) :
       IF ok /\ Live(target[t])
       THEN UpdateLastFetched(target[t], res[t])
       ELSE UNCHANGED <<due, backoff, errorCount, failures>>
  /\ permSeen' = IF res[t] = "permanent" THEN permSeen \cup {target[t]} ELSE permSeen
  /\ IF t \in FeedIds /\ res[t] = "permanent"
     THEN Goto(t, "check") /\ UNCHANGED <<target, res, doc, sem>>
     ELSE Finish(t)
  /\ UNCHANGED <<status, url, stored, published, phase, cache, cancelled, lossy>>

\* Faulty variant: one error too few.
CheckOffByOne(t) ==
  /\ pc[t] = "check"
  /\ \E ok \in DbOutcomes(t) :
       IF ok /\ Live(target[t]) /\ errorCount[target[t]] + 1 >= MaxErrors
       THEN Goto(t, "purge") /\ UNCHANGED <<target, res, doc, sem>>
       ELSE Finish(t)
  /\ UNCHANGED <<db, published, phase, cache, cancelled, hist>>

\* The row is read again: its counter may have been moved by other refreshes.
Check(t) ==
  /\ pc[t] = "check"
  /\ \E ok \in DbOutcomes(t) :
       IF ok /\ Live(target[t]) /\ errorCount[target[t]] >= MaxErrors
       THEN Goto(t, "purge") /\ UNCHANGED <<target, res, doc, sem>>
       ELSE Finish(t)
  /\ UNCHANGED <<db, published, phase, cache, cancelled, hist>>

\* DeleteByFeedID; its error is ignored.
Purge(t) ==
  /\ pc[t] = "purge"
  /\ \/ /\ TRUE \in DbOutcomes(t)
        /\ stored' = [stored EXCEPT ![target[t]] = {}]
        /\ lossy' = lossy \cup {target[t]}
     \/ FALSE \in DbOutcomes(t) /\ UNCHANGED <<stored, lossy>>
  /\ Goto(t, "drop")
  /\ UNCHANGED <<status, url, due, backoff, errorCount, published, phase,
                 cache, sem, cancelled, target, res, doc, failures, permSeen>>

\* feedStore.Delete; its error is ignored.
Drop(t) ==
  /\ pc[t] = "drop"
  /\ \E ok \in DbOutcomes(t) :
       IF ok /\ Live(target[t])
       THEN DeleteRow(target[t], "removed")
       ELSE UNCHANGED <<status, due, backoff, errorCount>>
  /\ Finish(t)
  /\ UNCHANGED <<url, stored, published, phase, cache, cancelled, hist>>

-----------------------------------------------------------------------------
(* The life of the process.                                                *)

Stop ==
  /\ phase = "running"
  /\ phase' = "stopping"
  /\ UNCHANGED <<db, published, cache, sem, cancelled, task, hist>>

\* A crash, or the exit after Stop, and the next start: the database is all
\* that survives.
Restart ==
  /\ phase' = "running"
  /\ cache' = [u \in Urls |-> NoVal]
  /\ sem' = {} /\ cancelled' = {}
  /\ pc' = [t \in Tasks |-> "idle"]
  /\ target' = NoTarget
  /\ res' = [t \in Tasks |-> "none"]
  /\ doc' = [t \in Tasks |-> NoVal]
  /\ lossy' = {}
  /\ UNCHANGED <<db, published, failures, permSeen>>

-----------------------------------------------------------------------------
\* The steps a goroutine takes on its own.
Step(t) ==
  \/ Load(t) \/ RejectUrl(t) \/ SendRequest(t)
  \/ AnswerNotModified(t) \/ AnswerError(t) \/ AnswerOK(t)
  \/ \E tag \in {NoVal} \cup Documents : Receive(t, tag) \/ ReceiveGarbage(t, tag)
  \/ StoreOK(t) \/ StoreFails(t) \/ Record(t) \/ Check(t) \/ Purge(t) \/ Drop(t)

User ==
  \/ \E f \in FeedIds, u \in Urls, t \in Spawned : CreateFeed(f, u, t)
  \/ \E f \in FeedIds : DeleteFeed(f)
  \/ \E t \in Rpcs, f \in FeedIds : RefreshRequest(t, f)
  \/ \E t \in Rpcs : Disconnect(t)

Environment ==
  \/ \E u \in Urls, d \in Documents : Publish(u, d)
  \/ \E u \in Urls : Vanish(u)
  \/ \E f \in FeedIds : IntervalElapses(f) \/ BackoffElapses(f)

Next ==
  \/ Environment \/ User
  \/ StartCycle \/ \E f \in FeedIds : Acquire(f)
  \/ \E t \in Tasks : Step(t)
  \/ Stop \/ Restart

Spec == Init /\ [][Next]_vars
=============================================================================
