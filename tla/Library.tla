-------------------------------- MODULE Library --------------------------------
(***************************************************************************)
(* The articles of a feed: clients that read, star and save them, refreshes *)
(* that insert them, and the retention sweep that deletes old ones.         *)
(*                                                                         *)
(* A request to change an article is two statements, an UPDATE and the     *)
(* SELECT that answers the client; a sweep is two as well, one that reads  *)
(* the limit from the preferences and one that deletes.  Anything may      *)
(* happen in between.  Articles are inserted under new ids, so one that    *)
(* was deleted and is still published comes back as another row.           *)
(***************************************************************************)
EXTENDS Naturals

CONSTANTS
  Ids,          \* article ULIDs
  Guids,        \* GUIDs of the feed's items
  Clients,      \* browsers and the extension
  Bookmarks,    \* flags that keep an article: "starred", "saved"
  Limits,       \* values of retention_days; 0 among them
  DefaultDays,  \* what the sweep takes 0 for
  MaxAge,       \* bound: an article's age in days saturates here
  NoVal         \* no guid, no call, no sweep

Flags == Bookmarks \cup {"read"}

ASSUME FlagsAssumption == "read" \notin Bookmarks
ASSUME DaysAssumption ==
  /\ Limits \subseteq Nat /\ DefaultDays \in Nat \ {0}
  /\ MaxAge \in Nat /\ DefaultDays < MaxAge /\ \A l \in Limits : l < MaxAge
Calls == [id : Ids, flag : Flags, on : BOOLEAN, step : {"update", "select"}]
ASSUME NoValAssumption == NoVal \notin Guids \cup Calls \cup Nat

VARIABLES
  \* table "articles"
  life,      \* "unborn" (id not yet drawn), "present", "pruned" by a sweep, "purged" with the feed
  guid,      \* the item the row stands for
  flagged,   \* set of <<id, flag>>: is_read, is_starred, is_saved_for_later
  opened,    \* rows whose read_at is not NULL
  age,       \* days since created_at
  \* table "user_preferences"
  limit,     \* retention_days
  \* the process
  sweep,     \* days of the sweep under way, between its two statements
  call,      \* request of each client that is under way
  \* history: read by no action
  promised,  \* <<id, flag>> that keep an article and that its clients were told are set
  since      \* limits in force since the sweep under way began

rows == <<life, guid, flagged, opened, age>>
vars == <<rows, limit, sweep, call, promised, since>>

Present(i) == life[i] = "present"

\* An unread article is kept, and one with a bookmark.
Keeps(f, on)   == on = (f # "read")
Has(i, f)      == <<i, f>> \in flagged
KeptBy(i, f)   == Keeps(f, Has(i, f))

TypeOK ==
  /\ life \in [Ids -> {"unborn", "present", "pruned", "purged"}]
  /\ guid \in [Ids -> Guids \cup {NoVal}]
  /\ flagged \subseteq Ids \X Flags
  /\ opened \subseteq Ids
  /\ age \in [Ids -> 0..MaxAge]
  /\ \A i \in Ids :  \* the columns of a row that is not there
       ~Present(i) => /\ guid[i] = NoVal /\ age[i] = 0 /\ i \notin opened
                      /\ \A f \in Flags : ~Has(i, f)
  /\ limit \in Limits
  /\ sweep \in Nat \cup {NoVal}
  /\ call \in [Clients -> Calls \cup {NoVal}]
  /\ promised \subseteq Ids \X Flags
  /\ since \subseteq Limits

Init ==
  /\ life = [i \in Ids |-> "unborn"]
  /\ guid = [i \in Ids |-> NoVal]
  /\ flagged = {} /\ opened = {}
  /\ age = [i \in Ids |-> 0]
  /\ limit \in Limits
  /\ sweep = NoVal
  /\ call = [c \in Clients |-> NoVal]
  /\ promised = {} /\ since = {}

-----------------------------------------------------------------------------
(* Refreshes.                                                              *)

\* Faulty variant: only the id is unique.
InsertAgain(i, g) ==
  /\ life[i] = "unborn"
  /\ life' = [life EXCEPT ![i] = "present"]
  /\ guid' = [guid EXCEPT ![i] = g]
  /\ UNCHANGED <<flagged, opened, age, limit, sweep, call, promised, since>>

\* BulkCreate inserts an item unless its GUID is there: unread, no bookmark.
Insert(i, g) ==
  /\ life[i] = "unborn"
  /\ ~ \E j \in Ids : Present(j) /\ guid[j] = g
  /\ life' = [life EXCEPT ![i] = "present"]
  /\ guid' = [guid EXCEPT ![i] = g]
  /\ UNCHANGED <<flagged, opened, age, limit, sweep, call, promised, since>>

\* The rows of some articles are deleted.
DeleteRows(gone, why) ==
  /\ life' = [i \in Ids |-> IF i \in gone THEN why ELSE life[i]]
  /\ guid' = [i \in Ids |-> IF i \in gone THEN NoVal ELSE guid[i]]
  /\ flagged' = {x \in flagged : x[1] \notin gone}
  /\ opened' = opened \ gone
  /\ age' = [i \in Ids |-> IF i \in gone THEN 0 ELSE age[i]]

\* DeleteByFeedID, when the scheduler gives the feed up.
PurgeFeed ==
  /\ \E i \in Ids : Present(i)
  /\ DeleteRows({i \in Ids : Present(i)}, "purged")
  /\ promised' = {}
  /\ UNCHANGED <<limit, sweep, call, since>>

\* A day passes.
Day ==
  /\ \E i \in Ids : Present(i) /\ age[i] < MaxAge
  /\ age' = [i \in Ids |-> IF Present(i) /\ age[i] < MaxAge THEN age[i] + 1 ELSE age[i]]
  /\ UNCHANGED <<life, guid, flagged, opened, limit, sweep, call, promised, since>>

-----------------------------------------------------------------------------
(* Clients.                                                                *)

\* The client asks to set or clear a flag of an article it has seen.
Ask(c, i, f, on) ==
  /\ call[c] = NoVal /\ life[i] # "unborn"
  /\ call' = [call EXCEPT ![c] = [id |-> i, flag |-> f, on |-> on, step |-> "update"]]
  /\ promised' = IF Keeps(f, on) THEN promised ELSE promised \ {<<i, f>>}
  /\ UNCHANGED <<rows, limit, sweep, since>>

\* Faulty variant: the whole row is written, as the client believes it to be.
UpdateWholeRow(c) ==
  LET r == call[c] IN
  /\ r # NoVal /\ r.step = "update"
  /\ IF Present(r.id)
     THEN /\ flagged' = {x \in flagged : x[1] # r.id}
                          \cup (IF r.on THEN {<<r.id, r.flag>>} ELSE {})
          /\ opened' = IF r.flag # "read" THEN opened
                       ELSE IF r.on THEN opened \cup {r.id} ELSE opened \ {r.id}
     ELSE UNCHANGED <<flagged, opened>>
  /\ call' = [call EXCEPT ![c] = IF Present(r.id) \/ r.flag # "read"
                                 THEN [r EXCEPT !.step = "select"] ELSE NoVal]
  /\ UNCHANGED <<life, guid, age, limit, sweep, promised, since>>

\* Faulty variant: the row is saved anew if a sweep has deleted it.
UpdateAnyRow(c) ==
  LET r == call[c] IN
  /\ r # NoVal /\ r.step = "update"
  /\ flagged' = IF r.on THEN flagged \cup {<<r.id, r.flag>>}
                ELSE flagged \ {<<r.id, r.flag>>}
  /\ opened' = IF r.flag # "read" THEN opened
               ELSE IF r.on THEN opened \cup {r.id} ELSE opened \ {r.id}
  /\ call' = [call EXCEPT ![c] = [r EXCEPT !.step = "select"]]
  /\ UNCHANGED <<life, guid, age, limit, sweep, promised, since>>

\* MarkRead, SetStarred, SetSavedForLater: the UPDATE.  read_at goes with
\* is_read.  Only MarkRead asks whether it found the row.
Update(c) ==
  LET r == call[c] IN
  /\ r # NoVal /\ r.step = "update"
  /\ IF Present(r.id)
     THEN /\ flagged' = IF r.on THEN flagged \cup {<<r.id, r.flag>>}
                        ELSE flagged \ {<<r.id, r.flag>>}
          /\ opened' = IF r.flag # "read" THEN opened
                       ELSE IF r.on THEN opened \cup {r.id} ELSE opened \ {r.id}
     ELSE UNCHANGED <<flagged, opened>>
  /\ call' = [call EXCEPT ![c] = IF Present(r.id) \/ r.flag # "read"
                                 THEN [r EXCEPT !.step = "select"] ELSE NoVal]
  /\ UNCHANGED <<life, guid, age, limit, sweep, promised, since>>

\* Nobody is about to take away flag f of article i.
Uncontested(i, f) ==
  ~ \E c \in Clients :
      call[c] # NoVal /\ call[c].step = "update"
        /\ call[c].id = i /\ call[c].flag = f /\ ~Keeps(f, call[c].on)

\* The SELECT: the client learns what has become of the article, or that it
\* is not found.
Answer(c) ==
  LET r == call[c] IN
  /\ r # NoVal /\ r.step = "select"
  /\ promised' = IF Present(r.id) /\ KeptBy(r.id, r.flag) /\ Uncontested(r.id, r.flag)
                 THEN promised \cup {<<r.id, r.flag>>} ELSE promised
  /\ call' = [call EXCEPT ![c] = NoVal]
  /\ UNCHANGED <<rows, limit, sweep, since>>

\* The statement fails, or the client goes away.
Abort(c) ==
  /\ call[c] # NoVal
  /\ call' = [call EXCEPT ![c] = NoVal]
  /\ UNCHANGED <<rows, limit, sweep, promised, since>>

\* MarkAllRead on the articles of some scope; read_at stays NULL.
MarkAllRead(scope) ==
  /\ flagged' = flagged \cup {<<i, "read">> : i \in {i \in scope : Present(i)}}
  /\ promised' = promised \ {<<i, "read">> : i \in scope}
  /\ UNCHANGED <<life, guid, opened, age, limit, sweep, call, since>>

\* UpdatePreferences.
SetLimit(l) ==
  /\ l # limit
  /\ limit' = l
  /\ since' = IF sweep = NoVal THEN since ELSE since \cup {l}
  /\ UNCHANGED <<rows, sweep, call, promised>>

-----------------------------------------------------------------------------
(* runRetention, at start and then every hour.                             *)

Days(l) == IF l = 0 THEN DefaultDays ELSE l

\* Faulty variant: the user's limit is ignored.
BeginSweepWithDefault ==
  /\ sweep = NoVal
  /\ sweep' = DefaultDays
  /\ since' = {limit}
  /\ UNCHANGED <<rows, limit, call, promised>>

\* The limit is read.
BeginSweep ==
  /\ sweep = NoVal
  /\ sweep' = Days(limit)
  /\ since' = {limit}
  /\ UNCHANGED <<rows, limit, call, promised>>

\* Read, no bookmark, and older than the limit.
Expired(i, days) ==
  /\ Present(i) /\ age[i] > days
  /\ \A f \in Flags : ~KeptBy(i, f)

\* Faulty variant: articles marked read in bulk, which have no read_at, stay.
DeleteExpiredOpened ==
  /\ sweep # NoVal
  /\ DeleteRows({i \in opened : Expired(i, sweep)}, "pruned")
  /\ sweep' = NoVal
  /\ since' = {}
  /\ UNCHANGED <<limit, call, promised>>

\* DeleteExpired.
DeleteExpired ==
  /\ sweep # NoVal
  /\ DeleteRows({i \in Ids : Expired(i, sweep)}, "pruned")
  /\ sweep' = NoVal
  /\ since' = {}
  /\ UNCHANGED <<limit, call, promised>>

\* A statement fails: the sweep ends until the next hour.
SweepFails ==
  /\ sweep # NoVal
  /\ sweep' = NoVal
  /\ since' = {}
  /\ UNCHANGED <<rows, limit, call, promised>>

\* A crash or a restart: the sweep and the requests under way are lost.
Restart ==
  /\ sweep' = NoVal
  /\ call' = [c \in Clients |-> NoVal]
  /\ since' = {}
  /\ UNCHANGED <<rows, limit, promised>>

-----------------------------------------------------------------------------
Next ==
  \/ \E i \in Ids, g \in Guids : Insert(i, g)
  \/ PurgeFeed \/ Day
  \/ \E c \in Clients, i \in Ids, f \in Flags, on \in BOOLEAN : Ask(c, i, f, on)
  \/ \E c \in Clients : Update(c) \/ Answer(c) \/ Abort(c)
  \/ \E scope \in SUBSET Ids : MarkAllRead(scope)
  \/ \E l \in Limits : SetLimit(l)
  \/ BeginSweep \/ DeleteExpired \/ SweepFails
  \/ Restart

Spec == Init /\ [][Next]_vars
=============================================================================
