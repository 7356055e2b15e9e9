--------------------------- MODULE LibraryProperties ---------------------------
(***************************************************************************)
(* What readers may rely on while retention deletes under their hands.     *)
(***************************************************************************)
EXTENDS Library

\* An article that its readers were told is starred, saved or unread stays, and
\* stays so, until one of them asks otherwise or the feed itself is given up:
\* no sweep, no concurrent request and no refresh takes it away ("Starred
\* articles are never deleted by the retention policy", user-guide.md).
PromisesKept ==
  \A p \in promised : Present(p[1]) /\ KeptBy(p[1], p[2])

\* A sweep deletes only what was too old under a limit that was in force while
\* it ran, though it deletes in another statement than it reads the limit in.
SweepObeysALimit ==
  [][\A i \in Ids : Present(i) /\ life'[i] = "pruned"
       => \E l \in since : age[i] > Days(l)]_vars

Readers == INSTANCE Shelf

\* Whatever statements interleave, the articles are what Shelf says: an item
\* that retention deleted may come back, but as another article and never beside
\* the first; none goes of which something was promised; and a feed's articles
\* are given up all at once (BulkCreate, DeleteExpired, DeleteByFeedID).
ImplementsShelf == Readers!Spec

\* Sweeps are hourly, and start with the process.  A sweep that is tried again
\* and again gets through: neither a failure nor a crash hits every one.
FairSpec == Spec /\ WF_vars(BeginSweep) /\ SF_vars(DeleteExpired)

\* Read articles do not stay for ever: what is read, has no bookmark and is
\* older than the limit is deleted, or someone changes that.
ExpiredArticlesGo ==
  \A i \in Ids : []<>(~Expired(i, Days(limit)))

\* preferences.proto:33 "0 = keep forever": a sweep during which the limit was
\* 0 all the time deletes nothing.  The sweep takes 0 for its default.
ZeroKeepsForever ==
  [][\A i \in Ids : Present(i) /\ life'[i] = "pruned" => since # {0}]_vars
=============================================================================
