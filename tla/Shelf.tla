--------------------------------- MODULE Shelf ---------------------------------
(***************************************************************************)
(* What the articles of a feed are to its readers, whatever requests,      *)
(* refreshes and sweeps work on them.  An article comes once and goes once; *)
(* the item it stands for is not there twice.  It goes by itself only      *)
(* while nothing was promised about it, or with all the others, when the   *)
(* feed is given up.  Library implements this specification.               *)
(***************************************************************************)
CONSTANTS Ids, Guids, Flags, NoVal

VARIABLES
  life,      \* "unborn", "present", "pruned", "purged"
  guid,      \* the item of an article that is present, else NoVal
  promised   \* <<id, flag>> that readers rely on

svars == <<life, guid, promised>>

There(i) == life[i] = "present"

Init ==
  /\ life = [i \in Ids |-> "unborn"]
  /\ guid = [i \in Ids |-> NoVal]
  /\ promised = {}

\* An item is published, or published again after its article went.
Appear(i, g) ==
  /\ life[i] = "unborn" /\ \A j \in Ids : guid[j] # g
  /\ life' = [life EXCEPT ![i] = "present"]
  /\ guid' = [guid EXCEPT ![i] = g]
  /\ UNCHANGED promised

\* A reader is told that the article is unread, starred or saved.
Promise(i, f) ==
  /\ There(i)
  /\ promised' = promised \cup {<<i, f>>}
  /\ UNCHANGED <<life, guid>>

\* Readers ask otherwise.
Withdraw ==
  /\ UNCHANGED <<life, guid>>
  /\ promised' \subseteq promised

Go(S, why) ==
  /\ life' = [i \in Ids |-> IF i \in S THEN why ELSE life[i]]
  /\ guid' = [i \in Ids |-> IF i \in S THEN NoVal ELSE guid[i]]

\* Some articles expire, of which nothing was promised.
Expire(S) ==
  /\ \A i \in S : There(i) /\ \A f \in Flags : <<i, f>> \notin promised
  /\ Go(S, "pruned")
  /\ UNCHANGED promised

\* The feed is given up.
GiveUp == Go({i \in Ids : There(i)}, "purged") /\ promised' = {}

Next ==
  \/ Withdraw
  \/ \E i \in Ids, f \in Flags : Promise(i, f)
  \/ \E i \in Ids, g \in Guids : Appear(i, g)
  \/ \E S \in SUBSET Ids : Expire(S)
  \/ GiveUp

Spec == Init /\ [][Next]_svars
=============================================================================
