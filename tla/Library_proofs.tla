----------------------------- MODULE Library_proofs -----------------------------
(***************************************************************************)
(* Theorems about the library, for any number of articles, clients and     *)
(* bookmarks, and any limits.                                              *)
(***************************************************************************)
EXTENDS LibraryProperties, TLAPS

\* The variables keep their types, whatever clients, sweeps and refreshes do.
THEOREM LibraryTypeCorrect == Spec => []TypeOK
<1>1. Init => TypeOK
  BY NoValAssumption, DaysAssumption DEF Init, TypeOK, Present, Has
<1>2. TypeOK /\ [Next]_vars => TypeOK'
  <2> SUFFICES ASSUME TypeOK, [Next]_vars PROVE TypeOK'
    OBVIOUS
  <2> USE DEF TypeOK, rows, Present, Has
  <2>1. ASSUME NEW i \in Ids, NEW g \in Guids, Insert(i, g) PROVE TypeOK'
    BY <2>1 DEF Insert
  <2>2. CASE PurgeFeed
    BY <2>2, DaysAssumption DEF PurgeFeed, DeleteRows
  <2>3. CASE Day
    BY <2>3, DaysAssumption DEF Day
  <2>4. ASSUME NEW c \in Clients, NEW i \in Ids, NEW f \in Flags, NEW on \in BOOLEAN,
               Ask(c, i, f, on)
        PROVE  TypeOK'
    <3>1. [id |-> i, flag |-> f, on |-> on, step |-> "update"] \in Calls
      BY DEF Calls
    <3> QED BY <2>4, <3>1 DEF Ask
  <2>5. ASSUME NEW c \in Clients, Update(c) PROVE TypeOK'
    <3>1. call[c] \in Calls
      BY <2>5 DEF Update
    <3>2. [call[c] EXCEPT !.step = "select"] \in Calls /\ <<call[c].id, call[c].flag>> \in Ids \X Flags
      BY <3>1 DEF Calls
    <3> QED BY <2>5, <3>1, <3>2 DEF Update, Calls
  <2>6. ASSUME NEW c \in Clients, Answer(c) PROVE TypeOK'
    <3>1. call[c] \in Calls
      BY <2>6 DEF Answer
    <3> QED BY <2>6, <3>1 DEF Answer, Calls
  <2>7. ASSUME NEW c \in Clients, Abort(c) PROVE TypeOK'
    BY <2>7 DEF Abort
  <2>8. ASSUME NEW scope \in SUBSET Ids, MarkAllRead(scope) PROVE TypeOK'
    BY <2>8 DEF MarkAllRead, Flags
  <2>9. ASSUME NEW l \in Limits, SetLimit(l) PROVE TypeOK'
    BY <2>9 DEF SetLimit
  <2>10. CASE BeginSweep
    BY <2>10, DaysAssumption DEF BeginSweep, Days
  <2>11. CASE DeleteExpired
    BY <2>11, DaysAssumption DEF DeleteExpired, DeleteRows
  <2>12. CASE SweepFails
    BY <2>12 DEF SweepFails
  <2>13. CASE Restart
    BY <2>13 DEF Restart
  <2>14. CASE UNCHANGED vars
    BY <2>14 DEF vars
  <2> HIDE DEF TypeOK, rows, Present, Has
  <2> QED BY <2>1, <2>2, <2>3, <2>4, <2>5, <2>6, <2>7, <2>8, <2>9, <2>10, <2>11, <2>12,
             <2>13, <2>14 DEF Next
<1> QED BY <1>1, <1>2, PTL DEF Spec

-----------------------------------------------------------------------------
(* Why a promise holds.  That promised articles are kept is not inductive: *)
(* an UPDATE under way could take back what another client was just told.  *)
(* No promise is made, and none stands, while such an UPDATE is pending.   *)

Unthreatened ==
  \A c \in Clients :
    call[c] # NoVal /\ call[c].step = "update" /\ ~Keeps(call[c].flag, call[c].on)
      => <<call[c].id, call[c].flag>> \notin promised

PromiseInv == TypeOK /\ PromisesKept /\ Unthreatened

\* A sweep, a bulk mark, an insertion or a request of another client leaves
\* alone what the readers of an article were told (DeleteExpired, MarkRead,
\* SetStarred, SetSavedForLater, MarkAllRead, BulkCreate).
LEMMA PromisesStep == PromiseInv /\ [Next]_vars => PromisesKept' /\ Unthreatened'
<1> SUFFICES ASSUME PromiseInv, [Next]_vars PROVE PromisesKept' /\ Unthreatened'
  OBVIOUS
<1> USE DEF PromiseInv, TypeOK
<1>a. \A p \in promised : p = <<p[1], p[2]>> /\ p[1] \in Ids /\ p[2] \in Flags
  OBVIOUS
<1>1. ASSUME NEW i \in Ids, NEW g \in Guids, Insert(i, g)
      PROVE  PromisesKept' /\ Unthreatened'
  BY <1>1, <1>a DEF Insert, PromisesKept, Unthreatened, Present, KeptBy, Keeps, Has
<1>2. CASE PurgeFeed
  BY <1>2 DEF PurgeFeed, PromisesKept, Unthreatened
<1>3. CASE Day
  BY <1>3 DEF Day, PromisesKept, Unthreatened, Present, KeptBy, Keeps, Has
<1>4. ASSUME NEW c \in Clients, NEW i \in Ids, NEW f \in Flags, NEW on \in BOOLEAN,
             Ask(c, i, f, on)
      PROVE  PromisesKept' /\ Unthreatened'
  <2>1. promised' \subseteq promised
    BY <1>4 DEF Ask
  <2>2. PromisesKept'
    BY <1>4, <2>1 DEF Ask, rows, PromisesKept, Present, KeptBy, Keeps, Has
  <2>3. ASSUME NEW d \in Clients, call'[d] # NoVal, call'[d].step = "update",
               ~Keeps(call'[d].flag, call'[d].on)
        PROVE  <<call'[d].id, call'[d].flag>> \notin promised'
    <3>1. CASE d = c
      BY <1>4, <2>3, <3>1 DEF Ask
    <3>2. CASE d # c
      BY <1>4, <2>1, <2>3, <3>2 DEF Ask, Unthreatened
    <3> QED BY <3>1, <3>2
  <2> QED BY <2>2, <2>3 DEF Unthreatened, Keeps
<1>5. ASSUME NEW c \in Clients, Update(c) PROVE PromisesKept' /\ Unthreatened'
  <2> DEFINE r == call[c]
  <2>1. r \in Calls /\ r # NoVal /\ r.step = "update"
    BY <1>5 DEF Update
  <2>2. ASSUME NEW p \in promised PROVE (Present(p[1]) /\ KeptBy(p[1], p[2]))'
    <3>1. Present(p[1]) /\ KeptBy(p[1], p[2])
      BY DEF PromisesKept
    <3>2. CASE p = <<r.id, r.flag>>
      <4>1. Keeps(r.flag, r.on)
        BY <2>1, <3>2 DEF Unthreatened
      <4>2. Has(r.id, r.flag)' = r.on
        BY <1>5, <2>1, <3>1, <3>2 DEF Update, Has, Calls
      <4> QED BY <1>5, <3>1, <3>2, <4>1, <4>2 DEF Update, Present, KeptBy, Keeps
    <3>3. CASE p # <<r.id, r.flag>>
      <4>1. <<p[1], p[2]>> # <<r.id, r.flag>>
        BY <1>a, <3>3
      <4>2. Has(p[1], p[2])' = Has(p[1], p[2])
        BY <1>5, <4>1 DEF Update, Has
      <4> QED BY <1>5, <3>1, <4>2 DEF Update, Present, KeptBy, Keeps
    <3> QED BY <3>2, <3>3
  <2>3. Unthreatened'
    BY <1>5 DEF Update, Unthreatened, Keeps
  <2> QED BY <1>5, <2>2, <2>3 DEF Update, PromisesKept
<1>6. ASSUME NEW c \in Clients, Answer(c) PROVE PromisesKept' /\ Unthreatened'
  <2> DEFINE r == call[c]
  <2>1. r \in Calls
    BY <1>6 DEF Answer
  <2>2. ASSUME NEW p \in promised' PROVE (Present(p[1]) /\ KeptBy(p[1], p[2]))'
    <3>1. p \in promised \/ (p = <<r.id, r.flag>> /\ Present(r.id) /\ KeptBy(r.id, r.flag))
      BY <1>6 DEF Answer
    <3>2. Present(p[1]) /\ KeptBy(p[1], p[2])
      BY <3>1 DEF PromisesKept
    <3>3. UNCHANGED <<life, flagged>>
      BY <1>6 DEF Answer, rows
    <3> QED BY <3>2, <3>3 DEF Present, KeptBy, Keeps, Has
  <2>3. ASSUME NEW d \in Clients, call'[d] # NoVal, call'[d].step = "update",
               ~Keeps(call'[d].flag, call'[d].on)
        PROVE  <<call'[d].id, call'[d].flag>> \notin promised'
    <3>1. call'[d] = call[d]
      BY <1>6, <2>3 DEF Answer
    <3>2. <<call[d].id, call[d].flag>> \notin promised
      BY <2>3, <3>1 DEF Unthreatened
    <3>3. ~ (call[d].id = r.id /\ call[d].flag = r.flag /\ Uncontested(r.id, r.flag))
      BY <2>3, <3>1 DEF Uncontested
    <3> QED BY <1>6, <3>1, <3>2, <3>3 DEF Answer
  <2> QED BY <2>2, <2>3 DEF PromisesKept, Unthreatened, Keeps
<1>7. ASSUME NEW c \in Clients, Abort(c) PROVE PromisesKept' /\ Unthreatened'
  BY <1>7 DEF Abort, rows, PromisesKept, Unthreatened, Present, KeptBy, Keeps, Has
<1>8. ASSUME NEW scope \in SUBSET Ids, MarkAllRead(scope)
      PROVE  PromisesKept' /\ Unthreatened'
  <2>1. ASSUME NEW p \in promised' PROVE (Present(p[1]) /\ KeptBy(p[1], p[2]))'
    <3>1. p \in promised /\ ~ (p[1] \in scope /\ p[2] = "read")
      BY <1>8, <1>a DEF MarkAllRead
    <3>2. Has(p[1], p[2])' = Has(p[1], p[2])
      BY <1>8, <3>1 DEF MarkAllRead, Has
    <3> QED BY <1>8, <3>1, <3>2 DEF MarkAllRead, PromisesKept, Present, KeptBy, Keeps
  <2>2. Unthreatened'
    BY <1>8 DEF MarkAllRead, Unthreatened, Keeps
  <2> QED BY <2>1, <2>2 DEF PromisesKept
<1>9. ASSUME NEW l \in Limits, SetLimit(l) PROVE PromisesKept' /\ Unthreatened'
  BY <1>9 DEF SetLimit, rows, PromisesKept, Unthreatened, Present, KeptBy, Keeps, Has
<1>10. CASE BeginSweep
  BY <1>10 DEF BeginSweep, rows, PromisesKept, Unthreatened, Present, KeptBy, Keeps, Has
<1>11. CASE DeleteExpired
  <2>1. ASSUME NEW p \in promised PROVE (Present(p[1]) /\ KeptBy(p[1], p[2]))'
    <3>1. Present(p[1]) /\ KeptBy(p[1], p[2])
      BY DEF PromisesKept
    <3>2. ~Expired(p[1], sweep)
      BY <1>a, <3>1 DEF Expired
    <3>3. Present(p[1])'
      BY <1>11, <1>a, <3>1, <3>2 DEF DeleteExpired, DeleteRows, Present
    <3>4. Has(p[1], p[2])' = Has(p[1], p[2])
      BY <1>11, <3>2 DEF DeleteExpired, DeleteRows, Has
    <3> QED BY <3>1, <3>3, <3>4 DEF KeptBy, Keeps
  <2> QED BY <1>11, <2>1 DEF DeleteExpired, PromisesKept, Unthreatened, Keeps
<1>12. CASE SweepFails
  BY <1>12 DEF SweepFails, rows, PromisesKept, Unthreatened, Present, KeptBy, Keeps, Has
<1>13. CASE Restart
  BY <1>13 DEF Restart, rows, PromisesKept, Unthreatened, Present, KeptBy, Keeps, Has
<1>14. CASE UNCHANGED vars
  BY <1>14 DEF vars, rows, PromisesKept, Unthreatened, Present, KeptBy, Keeps, Has
<1> QED BY <1>1, <1>2, <1>3, <1>4, <1>5, <1>6, <1>7, <1>8, <1>9, <1>10, <1>11, <1>12,
           <1>13, <1>14 DEF Next

\* What readers were told is starred, saved or unread survives every sweep.
THEOREM PromisesSafe == Spec => []PromisesKept
<1>1. Init => PromisesKept /\ Unthreatened
  BY DEF Init, PromisesKept, Unthreatened
<1>2. TypeOK /\ PromisesKept /\ Unthreatened /\ [Next]_vars => PromisesKept' /\ Unthreatened'
  BY PromisesStep DEF PromiseInv
<1> QED BY <1>1, <1>2, LibraryTypeCorrect, PTL DEF Spec

-----------------------------------------------------------------------------
(* The limit a sweep works with was in force while it ran.                 *)

SweepKnown == sweep # NoVal => \E l \in since : sweep = Days(l)

\* However the preferences change under a sweep, it deletes only what was too
\* old under one of the limits it ran under.
THEOREM SweepSafe == Spec => SweepObeysALimit
<1>1. Init => SweepKnown
  BY DEF Init, SweepKnown
<1>2. TypeOK /\ SweepKnown /\ [Next]_vars => SweepKnown'
  <2> SUFFICES ASSUME TypeOK, SweepKnown, [Next]_vars PROVE SweepKnown'
    OBVIOUS
  <2>1. CASE BeginSweep
    BY <2>1 DEF BeginSweep, SweepKnown, TypeOK
  <2>2. CASE DeleteExpired \/ SweepFails \/ Restart
    BY <2>2 DEF DeleteExpired, SweepFails, Restart, SweepKnown
  <2>3. ASSUME NEW l \in Limits, SetLimit(l) PROVE SweepKnown'
    BY <2>3 DEF SetLimit, SweepKnown
  <2>4. ASSUME sweep' = sweep, since' = since PROVE SweepKnown'
    BY <2>4 DEF SweepKnown
  <2> QED BY <2>1, <2>2, <2>3, <2>4
          DEF Next, vars, Insert, PurgeFeed, Day, Ask, Update, Answer, Abort, MarkAllRead
<1>3. TypeOK /\ SweepKnown /\ [Next]_vars
        => [\A i \in Ids : Present(i) /\ life'[i] = "pruned"
              => \E l \in since : age[i] > Days(l)]_vars
  <2> SUFFICES ASSUME TypeOK, SweepKnown, Next,
                      NEW i \in Ids, Present(i), life'[i] = "pruned"
               PROVE  \E l \in since : age[i] > Days(l)
    OBVIOUS
  <2>1. DeleteExpired
    BY DEF Next, TypeOK, rows, Present, Insert, PurgeFeed, DeleteRows, Day, Ask, Update, Answer,
           Abort, MarkAllRead, SetLimit, BeginSweep, SweepFails, Restart
  <2>2. Expired(i, sweep) /\ sweep # NoVal
    BY <2>1 DEF DeleteExpired, DeleteRows, Present
  <2> QED BY <2>2 DEF Expired, SweepKnown
<1> QED BY <1>1, <1>2, <1>3, LibraryTypeCorrect, PTL DEF Spec, SweepObeysALimit

-----------------------------------------------------------------------------
(* The library implements Shelf.  Only two things are not plain: that the  *)
(* rows a sweep deletes are of no promise, which is PromiseInv's doing, and *)
(* that an item without a row is that of no article that went, as TypeOK    *)
(* says.                                                                   *)

\* A sweep deletes no article of which something was promised (DeleteExpired).
LEMMA ExpireStep == PromiseInv /\ DeleteExpired => \E S \in SUBSET Ids : Readers!Expire(S)
<1> SUFFICES ASSUME PromiseInv, DeleteExpired PROVE \E S \in SUBSET Ids : Readers!Expire(S)
  OBVIOUS
<1> DEFINE S == {i \in Ids : Expired(i, sweep)}
<1>1. Readers!Go(S, "pruned") /\ UNCHANGED promised
  BY DEF DeleteExpired, DeleteRows, Readers!Go
<1>2. ASSUME NEW i \in S, NEW f \in Flags, <<i, f>> \in promised PROVE FALSE
  <2>1. KeptBy(i, f)
    BY <1>2 DEF PromiseInv, PromisesKept
  <2> QED BY <1>2, <2>1 DEF Expired
<1>3. \A i \in S : Readers!There(i)
  BY DEF Expired, Present, Readers!There
<1> QED BY <1>1, <1>2, <1>3 DEF Readers!Expire

\* Every step of the library is one of Shelf, or nothing to it.
LEMMA ShelfStep ==
  PromiseInv /\ [Next]_vars => [Readers!Next]_(Readers!svars)
<1> SUFFICES ASSUME PromiseInv, [Next]_vars
             PROVE  Readers!Next \/ UNCHANGED <<life, guid, promised>>
  BY DEF Readers!svars
<1>1. ASSUME NEW i \in Ids, NEW g \in Guids, Insert(i, g) PROVE Readers!Next
  <2>1. \A j \in Ids : guid[j] # g
    BY <1>1, NoValAssumption DEF Insert, PromiseInv, TypeOK
  <2>2. Readers!Appear(i, g)
    BY <1>1, <2>1 DEF Insert, Readers!Appear
  <2> QED BY <2>2 DEF Readers!Next
<1>2. CASE PurgeFeed
  BY <1>2 DEF PurgeFeed, DeleteRows, Present, Readers!Next, Readers!GiveUp, Readers!Go, Readers!There
<1>3. ASSUME NEW c \in Clients, NEW i \in Ids, NEW f \in Flags, NEW on \in BOOLEAN,
             Ask(c, i, f, on)
      PROVE  Readers!Next
  BY <1>3 DEF Ask, rows, Readers!Next, Readers!Withdraw
<1>4. ASSUME NEW c \in Clients, Answer(c)
      PROVE  Readers!Next \/ UNCHANGED <<life, guid, promised>>
  <2>1. call[c].id \in Ids /\ call[c].flag \in Flags
    BY <1>4 DEF Answer, PromiseInv, TypeOK, Calls
  <2>2. CASE UNCHANGED promised
    BY <1>4, <2>2 DEF Answer, rows
  <2>3. CASE Present(call[c].id) /\ promised' = promised \cup {<<call[c].id, call[c].flag>>}
    <3>1. Readers!Promise(call[c].id, call[c].flag)
      BY <1>4, <2>3 DEF Answer, rows, Present, Readers!Promise, Readers!There
    <3> QED BY <2>1, <3>1 DEF Readers!Next
  <2> QED BY <1>4, <2>2, <2>3 DEF Answer
<1>5. ASSUME NEW scope \in SUBSET Ids, MarkAllRead(scope) PROVE Readers!Next
  BY <1>5 DEF MarkAllRead, Readers!Next, Readers!Withdraw
<1>6. CASE DeleteExpired
  BY <1>6, ExpireStep DEF Readers!Next
<1>7. ASSUME NEW c \in Clients, Update(c) \/ Abort(c) PROVE UNCHANGED <<life, guid, promised>>
  BY <1>7 DEF Update, Abort, rows
<1>8. ASSUME \/ Day \/ BeginSweep \/ SweepFails \/ Restart \/ UNCHANGED vars
             \/ \E l \in Limits : SetLimit(l)
      PROVE  UNCHANGED <<life, guid, promised>>
  BY <1>8 DEF Day, BeginSweep, SweepFails, Restart, SetLimit, vars, rows
<1> QED BY <1>1, <1>2, <1>3, <1>4, <1>5, <1>6, <1>7, <1>8 DEF Next

\* However requests, refreshes, sweeps and crashes interleave, the articles of a
\* feed are to their readers what Shelf says: none goes that was promised, no
\* item is there twice, and no article comes back under its id.
THEOREM LibraryImplementsShelf == Spec => ImplementsShelf
<1>1. Init => PromisesKept /\ Unthreatened /\ Readers!Init
  BY DEF Init, PromisesKept, Unthreatened, Readers!Init
<1>2. TypeOK /\ PromisesKept /\ Unthreatened /\ [Next]_vars
        => PromisesKept' /\ Unthreatened' /\ [Readers!Next]_(Readers!svars)
  BY PromisesStep, ShelfStep DEF PromiseInv
<1> QED BY <1>1, <1>2, LibraryTypeCorrect, PTL DEF Spec, ImplementsShelf, Readers!Spec
=============================================================================
