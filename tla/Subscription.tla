----------------------------- MODULE Subscription -----------------------------
(***************************************************************************)
(* What a subscription is to its user, whatever goroutines work on it: it  *)
(* is made once and ends once, by the user or by PlexReader; no two are to *)
(* one URL at a time; its articles only accumulate, except that PlexReader *)
(* may throw them away together with a feed it has seen fail MaxErrors     *)
(* times and permanently at least once.  This is what the code does, not   *)
(* what is said of it: feed.proto:101 and sidebar.dart:650 have the        *)
(* articles go when the user unsubscribes, and they stay (Unsubscribe).    *)
(* Scheduler implements this specification, and so does Folders, which     *)
(* sees more ways to subscribe and nothing of the fetching.                *)
(***************************************************************************)
EXTENDS Naturals

CONSTANTS FeedIds, Urls, Documents, MaxErrors, ErrorCap, NoVal

VARIABLES
  status,    \* "new", "live", "deleted" by the user, "removed" by PlexReader
  url,       \* of a live subscription, else NoVal
  stored, failures, permSeen

svars == <<status, url, stored, failures, permSeen>>

Init ==
  /\ status = [f \in FeedIds |-> "new"]
  /\ url = [f \in FeedIds |-> NoVal]
  /\ stored = [f \in FeedIds |-> {}]
  /\ failures = [f \in FeedIds |-> 0]
  /\ permSeen = {}

Condemned(f) == failures[f] >= MaxErrors /\ f \in permSeen

\* A URL is subscribed to once at a time.
Subscribe(f, u) ==
  /\ status[f] = "new" /\ \A g \in FeedIds : url[g] # u
  /\ status' = [status EXCEPT ![f] = "live"]
  /\ url' = [url EXCEPT ![f] = u]
  /\ UNCHANGED <<stored, failures, permSeen>>

\* A subscription ends once: its id is never used again.
Ends(f, how) ==
  /\ status[f] = "live"
  /\ status' = [status EXCEPT ![f] = how]
  /\ url' = [url EXCEPT ![f] = NoVal]
  /\ UNCHANGED <<stored, failures, permSeen>>

\* The articles outlive the subscription, unlike those of a feed that PlexReader
\* discards: FeedStore.Delete deletes one row of one table, and no foreign key
\* and no other statement takes its articles.
Unsubscribe(f) == Ends(f, "deleted")

\* An attempt brought new articles; one that ends late brings them to a feed
\* that is no longer subscribed.
Collect(f, d) ==
  /\ status[f] # "new"
  /\ stored' = [stored EXCEPT ![f] = @ \cup d]
  /\ UNCHANGED <<status, url, failures, permSeen>>

\* An attempt failed; what is known of the feed becomes worse, or stays.
Fail(f) ==
  /\ status[f] # "new"
  /\ \/ failures' = failures
     \/ failures[f] < ErrorCap /\ failures' = [failures EXCEPT ![f] = @ + 1]
  /\ permSeen' \in {permSeen, permSeen \cup {f}}
  /\ UNCHANGED <<status, url, stored>>

\* The articles go first, then the feed; the second step may fail.
Discard(f) ==
  /\ Condemned(f)
  /\ stored' = [stored EXCEPT ![f] = {}]
  /\ UNCHANGED <<status, url, failures, permSeen>>

Remove(f) == Condemned(f) /\ Ends(f, "removed")

Next ==
  \E f \in FeedIds :
    \/ \E u \in Urls : Subscribe(f, u)
    \/ Unsubscribe(f)
    \/ \E d \in Documents : Collect(f, d)
    \/ Fail(f) \/ Discard(f) \/ Remove(f)

Spec == Init /\ [][Next]_svars
=============================================================================
