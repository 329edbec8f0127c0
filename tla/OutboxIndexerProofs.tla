------------------------- MODULE OutboxIndexerProofs -------------------------
(***************************************************************************)
(* Proofs about OutboxIndexer, for any number of workers, events and       *)
(* revisions and any bounds.  The argument has three parts: the state is   *)
(* well typed; the locales an event is due are either indexed or in the    *)
(* hands of every worker that has the event (Covered); and a worker that   *)
(* has an event holds its lease until the lease runs out (Leased).         *)
(***************************************************************************)
EXTENDS OutboxIndexer, TLAPS

WorkerState == [batch : SUBSET created, item : created \cup {NoEvent},
                todo : SUBSET Todo]

-----------------------------------------------------------------------------
(* Types.                                                                  *)
LEMMA CreatedEvents == ASSUME TypeOK PROVE created \subseteq Events
  BY DEF TypeOK, created

LEMMA CreatedGrows ==
  ASSUME order \in Seq(Events), NEW e \in Events, order' = Append(order, e)
  PROVE  /\ order' \in Seq(Events) /\ created' = created \cup {e}
         /\ Len(order) \in Nat /\ Len(order') = Len(order) + 1
         /\ order'[Len(order) + 1] = e
         /\ \A i \in 1..Len(order) : order'[i] = order[i]
<1>1. /\ Len(order') = Len(order) + 1 /\ Len(order) \in Nat
      /\ order'[Len(order) + 1] = e
      /\ \A i \in 1..Len(order) : order'[i] = order[i]
  OBVIOUS
<1>2. 1..Len(order') = 1..Len(order) \cup {Len(order) + 1}
  BY <1>1
<1>3. created' = {order'[i] : i \in 1..Len(order')}
  BY DEF created
<1>4. created' = created \cup {e}
  BY <1>1, <1>2, <1>3 DEF created
<1> QED
  BY <1>1, <1>4

LEMMA EmitTyped ==
  ASSUME TypeOK, NEW e \in Events, NEW locales \in SUBSET Locales, Emit(e, locales),
         text' \in [Locales -> 0..MaxText], current' \in Revisions \cup {NoRev}
  PROVE  TypeOK'
<1>1. /\ order' \in Seq(Events) /\ created' = created \cup {e}
      /\ Len(order) \in Nat /\ Len(order') = Len(order) + 1
      /\ order'[Len(order) + 1] = e
      /\ \A i \in 1..Len(order) : order'[i] = order[i]
  BY CreatedGrows DEF Emit, TypeOK
<1>2. worker' \in [Workers -> WorkerState']
  BY <1>1 DEF Emit, TypeOK, WorkerState
<1>3. due' \in [Events -> SUBSET Locales]
  BY DEF Emit, TypeOK
<1>4. \A i, j \in 1..Len(order') : order'[i] = order'[j] => i = j
  <2>1. \A i \in 1..Len(order) : order[i] # e
    BY DEF Emit, created
  <2>2. \A i \in 1..Len(order') : i \in 1..Len(order) \/ i = Len(order) + 1
    BY <1>1
  <2> QED
    BY <1>1, <2>1, <2>2 DEF TypeOK
<1> QED
  BY <1>1, <1>2, <1>3, <1>4 DEF Emit, TypeOK, WorkerState

LEMMA RowsAreLocales ==
  ASSUME NEW r \in Revisions
  PROVE  RowsOf(r) \subseteq Locales /\ <<r, "en">> \in Locales /\ <<r, "ru">> \in Locales
  BY DEF RowsOf, Locales

LEMMA WriteRow ==
  ASSUME TypeOK, NEW l \in Locales, NEW n \in 1..MaxText,
         text' = [text EXCEPT ![l] = n]
  PROVE  text' \in [Locales -> 0..MaxText]
<1>1. n \in 0..MaxText
  BY ConstantsAssumption
<1> QED
  BY <1>1 DEF TypeOK

LEMMA ProduceTyped ==
  ASSUME TypeOK, NEW e \in Events, Produce(e)
  PROVE  TypeOK'
<1>1. RevOf[e] \in Revisions
  BY ConstantsAssumption
<1>2. CASE Publish(e)
  <2>1. PICK langs \in {{"en"}, {"en", "ru"}} :
           /\ text' = [l \in Locales |-> IF l \in {RevOf[e]} \X langs THEN 1 ELSE text[l]]
           /\ Emit(e, {RevOf[e]} \X langs)
    BY <1>2 DEF Publish
  <2>2. {RevOf[e]} \X langs \in SUBSET Locales
    <3>1. langs \subseteq {"en", "ru"}
      OBVIOUS
    <3> QED
      BY <1>1, <3>1 DEF Locales
  <2>3. text' \in [Locales -> 0..MaxText]
    <3>1. 1 \in 0..MaxText
      BY ConstantsAssumption
    <3>2. \A l \in Locales : text[l] \in 0..MaxText
      BY DEF TypeOK
    <3> QED
      BY <2>1, <3>1, <3>2
  <2>4. current' \in Revisions \cup {NoRev}
    BY <1>1, <1>2 DEF Publish
  <2> DEFINE written == {RevOf[e]} \X langs
  <2> HIDE DEF written
  <2>5. Emit(e, written)
    BY <2>1 DEF written
  <2>6. written \in SUBSET Locales
    BY <2>2 DEF written
  <2> QED
    BY <2>3, <2>4, <2>5, <2>6, EmitTyped
<1>3. CASE RollBack(e)
  BY <1>1, <1>3, EmitTyped, RowsAreLocales DEF RollBack, TypeOK
<1>4. CASE StoreTranslation(e)
  <2>1. text' \in [Locales -> 0..MaxText]
    <3> DEFINE l == <<RevOf[e], "ru">>
    <3>1. l \in Locales
      BY <1>1, RowsAreLocales
    <3>2. 1 \in 1..MaxText
      BY ConstantsAssumption
    <3>3. text' = [text EXCEPT ![l] = 1]
      BY <1>4 DEF StoreTranslation
    <3> QED
      BY <3>1, <3>2, <3>3, WriteRow
  <2>2. RowsOf(RevOf[e]) \cup {<<RevOf[e], "ru">>} \in SUBSET Locales
    BY <1>1, RowsAreLocales
  <2> QED
    BY <1>4, <2>1, <2>2, EmitTyped DEF StoreTranslation, TypeOK
<1>5. CASE RepairPrompt(e)
  <2>1. text' \in [Locales -> 0..MaxText]
    <3> DEFINE l == <<RevOf[e], "ru">>
    <3>1. l \in Locales
      BY <1>1, RowsAreLocales
    <3>2. text[l] + 1 \in 1..MaxText
      BY <1>5, ConstantsAssumption DEF RepairPrompt
    <3>3. text' = [text EXCEPT ![l] = text[l] + 1]
      BY <1>5 DEF RepairPrompt
    <3> QED
      BY <3>1, <3>2, <3>3, WriteRow
  <2> QED
    BY <1>1, <1>5, <2>1, EmitTyped, RowsAreLocales DEF RepairPrompt, TypeOK
<1>6. CASE ReleaseGraph(e)
  BY <1>6, EmitTyped DEF ReleaseGraph, TypeOK, content
<1> QED
  BY <1>2, <1>3, <1>4, <1>5, <1>6 DEF Produce

LEMMA TodoTyped ==
  ASSUME TypeOK
  PROVE  /\ \A r \in Revisions : RevisionLocales(r) \subseteq Todo
         /\ LocalesMissingEmbedding \subseteq Todo
<1>1. \A l \in Locales : text[l] > 0 => text[l] \in 1..MaxText
  BY ConstantsAssumption DEF TypeOK
<1> QED
  BY <1>1 DEF RevisionLocales, RowsOf, LocalesMissingEmbedding, Todo

(* What a worker's own record becomes; the other workers keep theirs.      *)
LEMMA WorkerStep ==
  ASSUME TypeOK, NEW w \in Workers, NEW batch \in SUBSET created,
         NEW item \in created \cup {NoEvent}, NEW todo \in SUBSET Todo,
         Becomes(w, batch, item, todo)
  PROVE  /\ worker' \in [Workers -> WorkerState]
         /\ worker'[w].batch = batch /\ worker'[w].item = item /\ worker'[w].todo = todo
         /\ \A v \in Workers \ {w} : worker'[v] = worker[v]
<1>1. [batch |-> batch, item |-> item, todo |-> todo] \in WorkerState
  BY DEF WorkerState
<1>2. worker \in [Workers -> WorkerState]
  BY DEF TypeOK, WorkerState
<1> QED
  BY <1>1, <1>2 DEF Becomes

LEMMA EmptyHands ==
  {} \in SUBSET created /\ {} \in SUBSET Todo /\ NoEvent \in created \cup {NoEvent}
  OBVIOUS

LEMMA WorkerHas ==
  ASSUME TypeOK, NEW w \in Workers
  PROVE  /\ worker[w].batch \in SUBSET created
         /\ worker[w].item \in created \cup {NoEvent}
         /\ worker[w].todo \in SUBSET Todo
  BY DEF TypeOK

(* A step of a worker, or of time, that touches neither rows nor events.   *)
LEMMA QueueTyped ==
  ASSUME TypeOK, UNCHANGED <<content, order, due>>,
         published' \subseteq created, backoff' \subseteq created,
         expired' \subseteq created,
         claim' \in [Events -> {"free", "held", "expired"}],
         \A e \in Events \ created : claim'[e] = "free",
         vector' \in [Locales -> 0..MaxText],
         worker' \in [Workers -> WorkerState],
         faults' \in 0..MaxFaults
  PROVE  TypeOK'
<1>1. created' = created
  BY DEF created
<1> QED
  BY <1>1 DEF TypeOK, WorkerState, content

LEMMA MarkTyped ==
  ASSUME TypeOK, NEW e \in created, MarkOutboxPublished(e) \/ MarkOutboxFailed(e)
  PROVE  /\ published' \subseteq created /\ backoff' \subseteq created
         /\ claim' \in [Events -> {"free", "held", "expired"}]
         /\ \A f \in Events \ created : claim'[f] = "free"
         /\ order' = order
  BY DEF MarkOutboxPublished, MarkOutboxFailed, TypeOK

LEMMA ClaimTyped ==
  ASSUME TypeOK, NEW w \in Workers, ClaimOutbox(w)
  PROVE  TypeOK'
<1>1. Claimed \in SUBSET created
  BY DEF Claimed, Claimable
<1>2. worker' \in [Workers -> WorkerState]
  <2>1. Becomes(w, Claimed, NoEvent, {})
    BY DEF ClaimOutbox
  <2> QED
    BY <1>1, <2>1, EmptyHands, WorkerStep
<1>3. /\ claim' \in [Events -> {"free", "held", "expired"}]
      /\ \A e \in Events \ created : claim'[e] = "free"
  BY <1>1 DEF ClaimOutbox, TypeOK
<1> QED
  BY <1>2, <1>3, QueueTyped DEF ClaimOutbox, TypeOK

LEMMA TakeTyped ==
  ASSUME TypeOK, NEW w \in Workers, NEW e \in worker[w].batch, TakeItem(w, e)
  PROVE  TypeOK'
<1>1. e \in created /\ e \in Events /\ worker[w].batch \ {e} \in SUBSET created
  BY CreatedEvents, WorkerHas
<1>2. CASE Resolvable(e)
  <2>1. RevisionLocales(RevOf[e]) \in SUBSET Todo
    BY <1>1, TodoTyped, ConstantsAssumption
  <2>2. worker' \in [Workers -> WorkerState]
    BY <1>1, <1>2, <2>1, WorkerStep DEF TakeItem
  <2> QED
    BY <1>2, <2>2, QueueTyped DEF TakeItem, TypeOK, queue
<1>3. CASE ~Resolvable(e)
  <2>1. worker' \in [Workers -> WorkerState]
    <3>1. Becomes(w, worker[w].batch \ {e}, NoEvent, {})
      BY <1>3 DEF TakeItem
    <3> QED
      BY <1>1, <3>1, EmptyHands, WorkerStep
  <2> QED
    BY <1>1, <1>3, <2>1, MarkTyped, QueueTyped DEF TakeItem, TypeOK
<1> QED
  BY <1>2, <1>3

LEMMA EmbedTyped ==
  ASSUME TypeOK, NEW w \in Workers, NEW t \in worker[w].todo, EmbedLocale(w, t)
  PROVE  TypeOK' /\ t.locale \in Locales /\ t.text \in 1..MaxText
<1>1. t \in Todo
  BY WorkerHas
<1>2. t.locale \in Locales /\ t.text \in 1..MaxText /\ t.text \in 0..MaxText
  BY <1>1, ConstantsAssumption DEF Todo
<1>3. vector' \in [Locales -> 0..MaxText]
  BY <1>2 DEF EmbedLocale, UpsertEmbedding, TypeOK
<1>4. worker' \in [Workers -> WorkerState]
  <2>1. Becomes(w, worker[w].batch, worker[w].item, worker[w].todo \ {t})
    BY DEF EmbedLocale
  <2>2. worker[w].todo \ {t} \in SUBSET Todo
    BY WorkerHas
  <2> QED
    BY <2>1, <2>2, WorkerHas, WorkerStep
<1> QED
  BY <1>2, <1>3, <1>4, QueueTyped DEF EmbedLocale, TypeOK, queue

LEMMA CompleteTyped ==
  ASSUME TypeOK, NEW w \in Workers, CompleteItem(w)
  PROVE  TypeOK'
<1>1. worker[w].item \in created
  BY WorkerHas DEF CompleteItem, HasItem
<1>2. worker' \in [Workers -> WorkerState]
  BY WorkerHas, WorkerStep DEF CompleteItem
<1>3. MarkOutboxPublished(worker[w].item)
  BY DEF CompleteItem
<1> QED
  BY <1>1, <1>2, <1>3, MarkTyped, QueueTyped DEF CompleteItem, TypeOK

LEMMA FaultTyped ==
  ASSUME TypeOK, NEW w \in Workers, FailItem(w) \/ LoseMark(w) \/ Crash(w)
  PROVE  TypeOK'
<1>1. faults' \in 0..MaxFaults /\ UNCHANGED <<content, vector, due, expired>>
  BY ConstantsAssumption DEF FailItem, LoseMark, Crash, Fault, TypeOK
<1>2. worker' \in [Workers -> WorkerState]
  <2>1. CASE Becomes(w, worker[w].batch, NoEvent, {})
    BY <2>1, EmptyHands, WorkerHas, WorkerStep
  <2>2. CASE Becomes(w, {}, NoEvent, {})
    BY <2>2, EmptyHands, WorkerStep
  <2> QED
    BY <2>1, <2>2 DEF FailItem, LoseMark, Crash
<1>3. CASE FailItem(w)
  <2>1. worker[w].item \in created /\ MarkOutboxFailed(worker[w].item)
    BY <1>3, WorkerHas DEF FailItem, HasItem
  <2> QED
    BY <1>1, <1>2, <2>1, MarkTyped, QueueTyped DEF TypeOK
<1>4. CASE LoseMark(w) \/ Crash(w)
  BY <1>1, <1>2, <1>4, QueueTyped DEF LoseMark, Crash, TypeOK, queue
<1> QED
  BY <1>3, <1>4

LEMMA BackfillTyped ==
  ASSUME TypeOK, NEW w \in Workers, StartBackfill(w)
  PROVE  TypeOK'
<1>1. LocalesMissingEmbedding \in SUBSET Todo
  BY TodoTyped
<1>2. worker' \in [Workers -> WorkerState]
  BY <1>1, WorkerStep DEF StartBackfill
<1> QED
  BY <1>2, QueueTyped DEF StartBackfill, TypeOK, queue

LEMMA TimeTyped ==
  ASSUME TypeOK, NEW e \in Events, ExpireLease(e) \/ EndBackoff(e)
  PROVE  TypeOK'
<1>1. CASE ExpireLease(e)
  <2>1. e \in created
    BY <1>1 DEF ExpireLease, TypeOK
  <2> QED
    BY <1>1, <2>1, QueueTyped DEF ExpireLease, TypeOK, WorkerState
<1>2. CASE EndBackoff(e)
  BY <1>2, QueueTyped DEF EndBackoff, TypeOK, WorkerState
<1> QED
  BY <1>1, <1>2

LEMMA RepublishTyped ==
  ASSUME TypeOK, NEW r \in Revisions, Republish(r)
  PROVE  TypeOK'
<1>1. text' \in [Locales -> 0..MaxText]
  <2> DEFINE l == <<r, "en">>
  <2>1. l \in Locales
    BY RowsAreLocales
  <2>2. text[l] + 1 \in 1..MaxText
    BY ConstantsAssumption DEF Republish
  <2>3. text' = [text EXCEPT ![l] = text[l] + 1]
    BY DEF Republish
  <2> QED
    BY <2>1, <2>2, <2>3, WriteRow
<1>2. created' = created
  BY DEF Republish, queue, created
<1> QED
  BY <1>1, <1>2 DEF Republish, TypeOK, queue

LEMMA InitTyped == Init => TypeOK
<1> SUFFICES ASSUME Init PROVE TypeOK
  OBVIOUS
<1>1. order = <<>> /\ Len(order) = 0 /\ created = {}
  BY DEF Init, created
<1>2. 0 \in 0..MaxText /\ 0 \in 0..MaxFaults
  BY ConstantsAssumption
<1>3. IdleWorker \in WorkerState
  BY EmptyHands DEF IdleWorker, WorkerState
<1> QED
  BY <1>1, <1>2, <1>3 DEF Init, TypeOK, WorkerState

LEMMA NextTyped ==
  ASSUME TypeOK, [Next]_vars
  PROVE  TypeOK'
<1>1. CASE \E e \in Events : Produce(e) \/ ExpireLease(e) \/ EndBackoff(e)
  BY <1>1, ProduceTyped, TimeTyped
<1>2. CASE \E r \in Revisions : Republish(r)
  BY <1>2, RepublishTyped
<1>3. CASE \E w \in Workers : Work(w)
  BY <1>3, ClaimTyped, TakeTyped, EmbedTyped, CompleteTyped DEF Work
<1>4. CASE \E w \in Workers : FailItem(w) \/ LoseMark(w) \/ Crash(w) \/ StartBackfill(w)
  BY <1>4, FaultTyped, BackfillTyped
<1>5. CASE UNCHANGED vars
  BY <1>5 DEF vars, content, queue, TypeOK, created
<1> QED
  BY <1>1, <1>2, <1>3, <1>4, <1>5 DEF Next

(* Every reachable state is well typed; in particular an event is only     *)
(* claimed, held, published or postponed after its row was inserted.       *)
THEOREM TypesHold == Spec => []TypeOK
  BY InitTyped, NextTyped, PTL DEF Spec

-----------------------------------------------------------------------------
(* Leases.                                                                 *)
LeaseHeld ==
    \A w \in Workers : \A e \in created \ expired : Owns(w, e) => claim[e] = "held"
ExpiryRecorded == \A e \in Events : claim[e] = "expired" => e \in expired
ItemApart == \A w \in Workers : worker[w].item \notin worker[w].batch

Leased == LeaseHeld /\ ExpiryRecorded /\ ItemApart /\ LeaseExclusive

(* A step after which nobody has an event they did not have before.        *)
LEMMA KeepLeases ==
  ASSUME TypeOK, Leased, created' = created, expired \subseteq expired', ItemApart',
         ExpiryRecorded',
         \A v \in Workers : \A e \in created \ expired' :
             Owns(v, e)' => Owns(v, e) /\ claim'[e] = claim[e]
  PROVE  Leased'
  BY DEF Leased, LeaseHeld, LeaseExclusive

LEMMA EmitKeepsLeases ==
  ASSUME TypeOK, Leased, NEW e \in Events, NEW locales, Emit(e, locales)
  PROVE  Leased'
<1>1. created' = created \cup {e} /\ e \notin created
  BY CreatedGrows DEF Emit, TypeOK
<1>2. UNCHANGED <<claim, worker, expired>>
  BY DEF Emit
<1>3. e # NoEvent
  BY ConstantsAssumption
<1>4. \A w \in Workers : ~Owns(w, e)
  BY <1>1, <1>3, WorkerHas DEF Owns
<1> QED
  BY <1>1, <1>2, <1>4 DEF Leased, LeaseHeld, LeaseExclusive, ExpiryRecorded,
                          ItemApart, Owns

LEMMA ClaimKeepsLeases ==
  ASSUME TypeOK, Leased, NEW w \in Workers, ClaimOutbox(w)
  PROVE  Leased'
<1>1. Claimed \in SUBSET created
  BY DEF Claimed, Claimable
<1>2. /\ worker'[w].batch = Claimed /\ worker'[w].item = NoEvent
      /\ \A v \in Workers \ {w} : worker'[v] = worker[v]
  <2>1. Becomes(w, Claimed, NoEvent, {})
    BY DEF ClaimOutbox
  <2> QED
    BY <1>1, <2>1, EmptyHands, WorkerStep
<1>3. /\ created' = created /\ expired' = expired
      /\ claim' = [e \in Events |-> IF e \in Claimed THEN "held" ELSE claim[e]]
  BY DEF ClaimOutbox, created
<1>4. created \subseteq Events /\ NoEvent \notin created
  BY CreatedEvents, ConstantsAssumption
<1>5. \A e \in Claimed \ expired : \A v \in Workers : ~Owns(v, e)
  <2>1. \A e \in Claimed : claim[e] \in {"free", "expired"}
    BY DEF Claimed, Claimable
  <2> QED
    BY <1>1, <1>4, <2>1 DEF Leased, LeaseHeld, ExpiryRecorded
<1>6. \A e \in created : Owns(w, e)' <=> e \in Claimed
  BY <1>2, <1>4 DEF Owns
<1>7. \A v \in Workers \ {w} : \A e \in created : Owns(v, e)' <=> Owns(v, e)
  BY <1>2 DEF Owns
<1>8. LeaseHeld' /\ LeaseExclusive'
  BY <1>3, <1>4, <1>5, <1>6, <1>7 DEF Leased, LeaseHeld, LeaseExclusive
<1>9. ExpiryRecorded' /\ ItemApart'
  BY <1>1, <1>2, <1>3, <1>4 DEF Leased, ExpiryRecorded, ItemApart
<1> QED
  BY <1>8, <1>9 DEF Leased

(* A worker that takes, loses or puts down events keeps or frees leases.   *)
LEMMA WorkKeepsLeases ==
  ASSUME TypeOK, Leased, NEW w \in Workers, UNCHANGED <<order, expired>>,
         NEW batch \in SUBSET worker[w].batch, NEW item \in created \cup {NoEvent},
         NEW todo \in SUBSET Todo, Becomes(w, batch, item, todo),
         item \notin batch,
         item \in {NoEvent, worker[w].item} \cup worker[w].batch,
         NEW freed, freed \in {NoEvent, worker[w].item} \cup worker[w].batch,
         freed \notin batch \cup {item} \/ freed = NoEvent,
         \A e \in Events : claim'[e] = IF e = freed THEN "free" ELSE claim[e]
  PROVE  Leased'
<1>1. created' = created /\ created \subseteq Events /\ NoEvent \notin created
  BY CreatedEvents, ConstantsAssumption DEF created
<1>2. /\ worker'[w].batch = batch /\ worker'[w].item = item
      /\ \A v \in Workers \ {w} : worker'[v] = worker[v]
  BY DEF Becomes, TypeOK
<1>3. ItemApart'
  BY <1>2 DEF Leased, ItemApart
<1>4. ExpiryRecorded'
  BY DEF Leased, ExpiryRecorded
<1>5. \A v \in Workers : \A e \in created : Owns(v, e)' => Owns(v, e)
  BY <1>1, <1>2 DEF Owns
<1>6. \A v \in Workers : \A e \in created \ expired : Owns(v, e)' => e # freed
  <2>1. SUFFICES ASSUME NEW v \in Workers, NEW e \in created \ expired, Owns(v, e)',
                        e = freed
                 PROVE  FALSE
    OBVIOUS
  <2>2. freed # NoEvent /\ Owns(w, freed)
    BY <1>1, <2>1 DEF Owns
  <2>3. v = w
    BY <1>5, <2>1, <2>2 DEF Leased, LeaseExclusive
  <2> QED
    BY <1>2, <2>1, <2>2, <2>3 DEF Owns
<1> QED
  BY <1>1, <1>3, <1>4, <1>5, <1>6, KeepLeases

LEMMA WorkersKeepLeases ==
  ASSUME TypeOK, Leased, NEW w \in Workers,
         Work(w) \/ FailItem(w) \/ LoseMark(w) \/ Crash(w) \/ StartBackfill(w)
  PROVE  Leased'
<1>1. \A e \in Events : claim[e] = IF e = NoEvent THEN "free" ELSE claim[e]
  BY ConstantsAssumption
<1>2. CASE ClaimOutbox(w)
  BY <1>2, ClaimKeepsLeases
<1>3. ASSUME NEW e \in worker[w].batch, TakeItem(w, e)
      PROVE  Leased'
  <2>1. /\ e \in created /\ e # NoEvent /\ worker[w].item = NoEvent
        /\ worker[w].batch \subseteq created /\ RevOf[e] \in Revisions
    BY <1>3, WorkerHas, CreatedEvents, ConstantsAssumption DEF TakeItem, HasItem
  <2>2. UNCHANGED <<order, expired>>
    BY <1>3 DEF TakeItem, queue, MarkOutboxPublished
  <2>3. CASE Resolvable(e)
    <3>1. RevisionLocales(RevOf[e]) \in SUBSET Todo
      BY <2>1, TodoTyped
    <3>2. Becomes(w, worker[w].batch \ {e}, e, RevisionLocales(RevOf[e]))
      BY <1>3, <2>3 DEF TakeItem
    <3>3. claim' = claim
      BY <1>3, <2>3 DEF TakeItem, queue
    <3> QED
      BY <1>1, <2>1, <2>2, <3>1, <3>2, <3>3, WorkKeepsLeases
  <2>4. CASE ~Resolvable(e)
    <3> DEFINE rest == worker[w].batch \ {e}
    <3>1. Becomes(w, rest, NoEvent, {})
      BY <1>3, <2>4 DEF TakeItem
    <3>2. \A f \in Events : claim'[f] = IF f = e THEN "free" ELSE claim[f]
      BY <1>3, <2>4 DEF TakeItem, MarkOutboxPublished, TypeOK
    <3>3. /\ NoEvent \notin rest /\ rest \in SUBSET worker[w].batch
          /\ e \notin rest \cup {NoEvent}
          /\ e \in {NoEvent, worker[w].item} \cup worker[w].batch
      BY <2>1, CreatedEvents, ConstantsAssumption
    <3> HIDE DEF rest
    <3> QED
      BY <2>2, <3>1, <3>2, <3>3, EmptyHands, WorkKeepsLeases
  <2> QED
    BY <2>3, <2>4
<1>4. ASSUME NEW t \in worker[w].todo, EmbedLocale(w, t)
      PROVE  Leased'
  <2>1. Becomes(w, worker[w].batch, worker[w].item, worker[w].todo \ {t})
    BY <1>4 DEF EmbedLocale
  <2>2. UNCHANGED <<order, expired, claim>>
    BY <1>4 DEF EmbedLocale, queue
  <2>3. worker[w].todo \ {t} \in SUBSET Todo
    BY WorkerHas
  <2>4. worker[w].item \notin worker[w].batch
    BY DEF Leased, ItemApart
  <2> QED
    BY <1>1, <2>1, <2>2, <2>3, <2>4, WorkerHas, WorkKeepsLeases
<1>5. NoEvent \notin worker[w].batch
  BY WorkerHas, CreatedEvents, ConstantsAssumption
<1>6. CASE CompleteItem(w) \/ FailItem(w)
  <2>1. Becomes(w, worker[w].batch, NoEvent, {}) /\ HasItem(w)
    BY <1>6 DEF CompleteItem, FailItem
  <2>2. UNCHANGED <<order, expired>>
    BY <1>6 DEF CompleteItem, FailItem, Fault, MarkOutboxPublished, MarkOutboxFailed
  <2>3. \A e \in Events :
            claim'[e] = IF e = worker[w].item THEN "free" ELSE claim[e]
    BY <1>6 DEF CompleteItem, FailItem, MarkOutboxPublished, MarkOutboxFailed, TypeOK
  <2>4. worker[w].item \notin worker[w].batch /\ worker[w].item # NoEvent
    BY <2>1 DEF Leased, ItemApart, HasItem
  <2> QED
    BY <1>5, <2>1, <2>2, <2>3, <2>4, EmptyHands, WorkKeepsLeases
<1>7. CASE LoseMark(w)
  <2>1. Becomes(w, worker[w].batch, NoEvent, {}) /\ UNCHANGED <<order, expired, claim>>
    BY <1>7 DEF LoseMark, Fault, queue
  <2> QED
    BY <1>1, <1>5, <2>1, EmptyHands, WorkKeepsLeases
<1>8. CASE Crash(w)
  <2>1. Becomes(w, {}, NoEvent, {}) /\ UNCHANGED <<order, expired, claim>>
    BY <1>8 DEF Crash, Fault, queue
  <2> QED
    BY <1>1, <2>1, EmptyHands, WorkKeepsLeases
<1>9. CASE StartBackfill(w)
  <2>1. /\ Becomes(w, {}, NoEvent, LocalesMissingEmbedding)
        /\ UNCHANGED <<order, expired, claim>>
    BY <1>9 DEF StartBackfill, queue
  <2> QED
    BY <1>1, <2>1, EmptyHands, TodoTyped, WorkKeepsLeases
<1> QED
  BY <1>2, <1>3, <1>4, <1>6, <1>7, <1>8, <1>9 DEF Work

LEMMA ProducersKeepLeases ==
  ASSUME TypeOK, Leased, NEW e \in Events, Produce(e)
  PROVE  Leased'
<1>1. \E locales : Emit(e, locales)
  BY DEF Produce, Publish, RollBack, StoreTranslation, RepairPrompt, ReleaseGraph
<1> QED
  BY <1>1, EmitKeepsLeases

LEMMA TimeKeepsLeases ==
  ASSUME TypeOK, Leased, NEW e \in Events, ExpireLease(e) \/ EndBackoff(e)
  PROVE  Leased'
<1>1. worker' = worker /\ created' = created
  BY DEF ExpireLease, EndBackoff, created
<1>2. CASE ExpireLease(e)
  <2>1. /\ expired' = expired \cup {e}
        /\ \A f \in Events : claim'[f] = IF f = e THEN "expired" ELSE claim[f]
    BY <1>2 DEF ExpireLease, TypeOK
  <2>2. created \subseteq Events
    BY CreatedEvents
  <2>3. ItemApart' /\ ExpiryRecorded'
    BY <1>1, <2>1 DEF Leased, ItemApart, ExpiryRecorded
  <2>4. \A v \in Workers : \A f \in created \ expired' :
            Owns(v, f)' => Owns(v, f) /\ claim'[f] = claim[f]
    BY <1>1, <2>1, <2>2 DEF Owns
  <2> QED
    BY <1>1, <2>1, <2>3, <2>4, KeepLeases
<1>3. CASE EndBackoff(e)
  BY <1>1, <1>3 DEF EndBackoff, Leased, LeaseHeld, ExpiryRecorded, ItemApart,
                    LeaseExclusive, Owns
<1> QED
  BY <1>2, <1>3

LEMMA NextKeepsLeases ==
  ASSUME TypeOK, Leased, [Next]_vars
  PROVE  Leased'
<1>1. CASE \E r \in Revisions : Republish(r)
  BY <1>1 DEF Republish, queue, created, Leased, LeaseHeld, ExpiryRecorded, ItemApart,
              LeaseExclusive, Owns
<1>2. CASE UNCHANGED vars
  BY <1>2 DEF vars, queue, created, Leased, LeaseHeld, ExpiryRecorded, ItemApart,
              LeaseExclusive, Owns
<1> QED
  BY <1>1, <1>2, ProducersKeepLeases, TimeKeepsLeases, WorkersKeepLeases DEF Next

LEMMA InitLeased == Init => Leased
<1> SUFFICES ASSUME Init PROVE Leased
  OBVIOUS
<1>1. created = {}
  BY DEF Init, created
<1> QED
  BY <1>1 DEF Init, IdleWorker, Leased, LeaseHeld, ExpiryRecorded, ItemApart,
              LeaseExclusive

(* Two workers have the same event only after one of its leases ran out,   *)
(* although the rows hold no name of the worker that claimed them.         *)
THEOREM LeasesExclude == Spec => []LeaseExclusive
<1>1. Init => TypeOK /\ Leased
  BY InitTyped, InitLeased
<1>2. TypeOK /\ Leased /\ [Next]_vars => (TypeOK /\ Leased)'
  BY NextTyped, NextKeepsLeases
<1>3. Leased => LeaseExclusive
  BY DEF Leased
<1> QED
  BY <1>1, <1>2, <1>3, PTL DEF Spec

-----------------------------------------------------------------------------
(* Delivery.                                                               *)
DueStored == \A e \in created : due[e] \subseteq RowsOf(RevOf[e])
GraphDueNothing == \A e \in created : ~Resolvable(e) => due[e] = {}
ItemCovered(w) ==
    HasItem(w) =>
        due[worker[w].item] \subseteq indexed \cup {t.locale : t \in worker[w].todo}

Covered == DueStored /\ GraphDueNothing /\ \A w \in Workers : ItemCovered(w)

LEMMA EmitDelivers ==
  ASSUME TypeOK, Covered, NEW e \in Events, NEW locales \in SUBSET Locales,
         Emit(e, locales),
         \A l \in Locales : text[l] > 0 => text'[l] > 0,
         \A l \in locales : l[1] = RevOf[e] /\ text'[l] > 0,
         ~Resolvable(e) => locales = {}
  PROVE  Covered' /\ Delivery!Create(e, locales)
<1>1. created' = created \cup {e} /\ e \notin created
  BY CreatedGrows DEF Emit, TypeOK
<1>2. /\ due' = [due EXCEPT ![e] = locales]
      /\ UNCHANGED <<published, vector, worker>> /\ indexed' = indexed
  BY DEF Emit, indexed
<1>3. \A f \in created : due'[f] = due[f]
  BY <1>1, <1>2, CreatedEvents DEF TypeOK
<1>4. due'[e] = locales
  BY <1>2 DEF TypeOK
<1>5. DueStored'
  <2>1. \A f \in created : due'[f] \subseteq RowsOf(RevOf[f])'
    BY <1>3 DEF Covered, DueStored, RowsOf
  <2>2. due'[e] \subseteq RowsOf(RevOf[e])'
    BY <1>4 DEF RowsOf
  <2> QED
    BY <1>1, <2>1, <2>2 DEF DueStored
<1>6. GraphDueNothing'
  BY <1>1, <1>3, <1>4 DEF Covered, GraphDueNothing, Resolvable
<1>7. \A w \in Workers : ItemCovered(w)'
  <2>1. \A w \in Workers : HasItem(w) => worker[w].item \in created
    BY WorkerHas DEF HasItem
  <2> QED
    BY <1>2, <1>3, <2>1 DEF Covered, ItemCovered, HasItem
<1> QED
  BY <1>1, <1>2, <1>5, <1>6, <1>7 DEF Covered, Delivery!Create

LEMMA ProducersDeliver ==
  ASSUME TypeOK, Covered, NEW e \in Events, Produce(e)
  PROVE  Covered' /\ \E L \in SUBSET Locales : Delivery!Create(e, L)
<1>1. RevOf[e] \in Revisions
  BY ConstantsAssumption
<1>2. \A l \in Locales : text[l] \in Nat
  BY DEF TypeOK
<1>3. \A r \in Revisions : RowsOf(r) \in SUBSET Locales
  BY RowsAreLocales
<1>4. CASE Publish(e)
  <2>1. PICK langs \in {{"en"}, {"en", "ru"}} :
           /\ text' = [l \in Locales |-> IF l \in {RevOf[e]} \X langs THEN 1 ELSE text[l]]
           /\ Emit(e, {RevOf[e]} \X langs)
    BY <1>4 DEF Publish
  <2> DEFINE written == {RevOf[e]} \X langs
  <2>2. written \in SUBSET Locales
    <3>1. langs \subseteq {"en", "ru"}
      OBVIOUS
    <3> QED
      BY <1>1, <3>1 DEF Locales
  <2>3. \A l \in written : l[1] = RevOf[e]
    OBVIOUS
  <2>4. Emit(e, written)
    BY <2>1
  <2>5. \A l \in Locales : text'[l] = IF l \in written THEN 1 ELSE text[l]
    BY <2>1
  <2>6. Resolvable(e)
    BY <1>4 DEF Publish, Resolvable
  <2> HIDE DEF written
  <2>7. /\ \A l \in Locales : text[l] > 0 => text'[l] > 0
        /\ \A l \in written : l[1] = RevOf[e] /\ text'[l] > 0
    BY <1>2, <2>2, <2>3, <2>5
  <2>8. Covered' /\ Delivery!Create(e, written)
    BY <2>2, <2>4, <2>6, <2>7, EmitDelivers
  <2> QED
    BY <2>2, <2>8
<1>5. CASE RollBack(e)
  <2>1. Emit(e, RowsOf(RevOf[e])) /\ text' = text /\ Resolvable(e)
    BY <1>5 DEF RollBack, Resolvable
  <2>2. \A l \in RowsOf(RevOf[e]) : l[1] = RevOf[e] /\ text'[l] > 0
    BY <2>1 DEF RowsOf
  <2> QED
    BY <1>1, <1>3, <2>1, <2>2, EmitDelivers
<1>6. CASE StoreTranslation(e) \/ RepairPrompt(e)
  <2> DEFINE l == <<RevOf[e], "ru">>
             known == IF StoreTranslation(e) THEN RowsOf(RevOf[e]) \cup {l}
                                             ELSE RowsOf(RevOf[e])
  <2>1. l \in Locales /\ l[1] = RevOf[e]
    BY <1>1, RowsAreLocales
  <2>2. known \in SUBSET Locales
    BY <1>1, <1>3, <2>1
  <2>3. Resolvable(e)
    BY <1>6 DEF StoreTranslation, RepairPrompt, Resolvable
  <2>4. /\ text' = [text EXCEPT ![l] = IF StoreTranslation(e) THEN 1 ELSE text[l] + 1]
        /\ Emit(e, known)
    <3>1. CASE StoreTranslation(e)
      BY <3>1 DEF StoreTranslation
    <3>2. CASE ~StoreTranslation(e)
      BY <1>6, <3>2 DEF RepairPrompt
    <3> QED
      BY <3>1, <3>2
  <2>5. \A k \in known : k = l \/ k \in RowsOf(RevOf[e])
    OBVIOUS
  <2> HIDE DEF known
  <2>6. \A k \in Locales : text[k] > 0 \/ k = l => text'[k] > 0
    BY <1>2, <2>1, <2>4 DEF TypeOK
  <2> HIDE DEF l
  <2>7. \A k \in known : k[1] = RevOf[e] /\ text'[k] > 0
    BY <2>1, <2>2, <2>5, <2>6 DEF RowsOf
  <2>8. Covered' /\ Delivery!Create(e, known)
    BY <2>2, <2>3, <2>4, <2>6, <2>7, EmitDelivers
  <2> QED
    BY <2>2, <2>8
<1>7. CASE ReleaseGraph(e)
  BY <1>7, EmitDelivers DEF ReleaseGraph, content
<1> QED
  BY <1>4, <1>5, <1>6, <1>7 DEF Produce

(* A step that neither writes rows nor events.                             *)
LEMMA QueueCovered ==
  ASSUME TypeOK, Covered, UNCHANGED <<text, order, due>>, indexed \subseteq indexed',
         \A w \in Workers : worker'[w] = worker[w] \/ ItemCovered(w)'
  PROVE  Covered'
<1>1. DueStored' /\ GraphDueNothing'
  BY DEF Covered, DueStored, GraphDueNothing, created, RowsOf, Resolvable
<1>2. \A w \in Workers : ItemCovered(w)'
  BY DEF Covered, ItemCovered, HasItem
<1> QED
  BY <1>1, <1>2 DEF Covered

LEMMA WorkersDeliver ==
  ASSUME TypeOK, Covered, NEW w \in Workers,
         Work(w) \/ FailItem(w) \/ LoseMark(w) \/ Crash(w) \/ StartBackfill(w)
  PROVE  Covered' /\ [Delivery!Next]_(Delivery!vars)
<1>1. ASSUME NEW batch \in SUBSET created, NEW todo \in SUBSET Todo,
             Becomes(w, batch, NoEvent, todo), UNCHANGED <<text, vector, order, due>>
      PROVE  Covered' /\ UNCHANGED <<due, created, indexed>>
  <2>1. worker'[w].item = NoEvent /\ \A v \in Workers \ {w} : worker'[v] = worker[v]
    BY <1>1, WorkerStep
  <2>2. ItemCovered(w)'
    BY <2>1 DEF ItemCovered, HasItem
  <2>3. indexed' = indexed /\ created' = created
    BY <1>1 DEF indexed, created
  <2> QED
    BY <1>1, <2>1, <2>2, <2>3, QueueCovered
<1>2. CASE ClaimOutbox(w)
  <2>1. Claimed \in SUBSET created
    BY DEF Claimed, Claimable
  <2>2. Becomes(w, Claimed, NoEvent, {}) /\ UNCHANGED <<text, vector, order, due, published>>
    BY <1>2 DEF ClaimOutbox, content
  <2> QED
    BY <1>1, <2>1, <2>2, EmptyHands DEF Delivery!vars
<1>3. ASSUME NEW e \in worker[w].batch, TakeItem(w, e)
      PROVE  Covered' /\ [Delivery!Next]_(Delivery!vars)
  <2>1. e \in created /\ e \in Events /\ RevOf[e] \in Revisions
    BY WorkerHas, CreatedEvents, ConstantsAssumption
  <2>2. UNCHANGED <<text, vector, order, due>>
    BY <1>3 DEF TakeItem, content, queue, MarkOutboxPublished
  <2>3. created' = created /\ indexed' = indexed
    BY <2>2 DEF created, indexed
  <2> DEFINE rest == worker[w].batch \ {e}
             read == RevisionLocales(RevOf[e])
  <2>4. rest \in SUBSET created /\ read \in SUBSET Todo
    BY <2>1, WorkerHas, TodoTyped
  <2>5. RowsOf(RevOf[e]) \subseteq {t.locale : t \in read}
    <3>1. SUFFICES ASSUME NEW l \in RowsOf(RevOf[e])
                   PROVE  \E t \in read : t.locale = l
      OBVIOUS
    <3> DEFINE t == [locale |-> l, text |-> text[l]]
    <3>2. t \in read
      BY DEF RevisionLocales
    <3>3. t.locale = l
      OBVIOUS
    <3> HIDE DEF t, read
    <3> QED
      BY <3>2, <3>3
  <2> HIDE DEF rest, read
  <2>6. CASE Resolvable(e)
    <3>1. Becomes(w, rest, e, read) /\ published' = published
      BY <1>3, <2>6 DEF TakeItem, queue, rest, read
    <3>2. /\ worker'[w].item = e /\ worker'[w].todo = read
          /\ \A v \in Workers \ {w} : worker'[v] = worker[v]
      BY <2>1, <2>4, <3>1, WorkerStep
    <3>3. ItemCovered(w)'
      BY <2>1, <2>2, <2>5, <3>2 DEF Covered, DueStored, ItemCovered
    <3> QED
      BY <2>2, <2>3, <3>1, <3>2, <3>3, QueueCovered DEF Delivery!vars
  <2>7. CASE ~Resolvable(e)
    <3>1. Becomes(w, rest, NoEvent, {}) /\ published' = published \cup {e}
      BY <1>3, <2>7 DEF TakeItem, MarkOutboxPublished, rest
    <3>2. due[e] = {}
      BY <2>1, <2>7 DEF Covered, GraphDueNothing
    <3>3. Delivery!Finish(e)
      BY <2>1, <2>2, <2>3, <3>1, <3>2 DEF Delivery!Finish
    <3> QED
      BY <1>1, <2>1, <2>2, <2>4, <3>1, <3>3, EmptyHands DEF Delivery!Next
  <2> QED
    BY <2>6, <2>7
<1>4. ASSUME NEW t \in worker[w].todo, EmbedLocale(w, t)
      PROVE  Covered' /\ [Delivery!Next]_(Delivery!vars)
  <2>1. t \in Todo
    BY WorkerHas
  <2>2. t.locale \in Locales /\ t.text \in 1..MaxText /\ t.text # 0
    BY <2>1, ConstantsAssumption DEF Todo
  <2>3. UNCHANGED <<text, order, due, published>> /\ created' = created
    BY <1>4 DEF EmbedLocale, content, queue, created
  <2>4. indexed' = indexed \cup {t.locale}
    <3>1. \A l \in Locales : vector'[l] # 0 <=> vector[l] # 0 \/ l = t.locale
      BY <1>4, <2>2 DEF EmbedLocale, UpsertEmbedding, TypeOK
    <3> QED
      BY <2>2, <3>1 DEF indexed
  <2> DEFINE rest == worker[w].todo \ {t}
  <2>5. Becomes(w, worker[w].batch, worker[w].item, rest) /\ rest \in SUBSET Todo
    BY <1>4, WorkerHas DEF EmbedLocale
  <2>6. {s.locale : s \in worker[w].todo} \subseteq {s.locale : s \in rest} \cup {t.locale}
    OBVIOUS
  <2> HIDE DEF rest
  <2>7. /\ worker'[w].item = worker[w].item /\ worker'[w].todo = rest
        /\ \A v \in Workers \ {w} : worker'[v] = worker[v]
    BY <2>5, WorkerHas, WorkerStep
  <2>8. ItemCovered(w)'
    <3>1. ItemCovered(w)
      BY DEF Covered
    <3> QED
      BY <2>3, <2>4, <2>6, <2>7, <3>1 DEF ItemCovered, HasItem
  <2>9. Delivery!Index(t.locale)
    BY <2>3, <2>4 DEF Delivery!Index
  <2> QED
    BY <2>2, <2>3, <2>4, <2>7, <2>8, <2>9, QueueCovered DEF Delivery!Next
<1>5. CASE CompleteItem(w)
  <2>1. worker[w].item \in created /\ worker[w].item \in Events
    BY <1>5, WorkerHas, CreatedEvents DEF CompleteItem, HasItem
  <2>2. /\ Becomes(w, worker[w].batch, NoEvent, {})
        /\ UNCHANGED <<text, vector, order, due>>
        /\ published' = published \cup {worker[w].item}
    BY <1>5 DEF CompleteItem, content, MarkOutboxPublished
  <2>3. due[worker[w].item] \subseteq indexed
    <3>1. ItemCovered(w)
      BY DEF Covered
    <3> QED
      BY <1>5, <3>1 DEF CompleteItem, ItemCovered
  <2>4. Covered' /\ UNCHANGED <<due, created, indexed>>
    BY <1>1, <2>2, EmptyHands, WorkerHas
  <2>5. Delivery!Finish(worker[w].item)
    BY <2>1, <2>2, <2>3, <2>4 DEF Delivery!Finish
  <2> QED
    BY <2>1, <2>4, <2>5 DEF Delivery!Next
<1>6. CASE FailItem(w) \/ LoseMark(w) \/ Crash(w)
  <2>1. UNCHANGED <<text, vector, order, due, published>>
    BY <1>6 DEF FailItem, LoseMark, Crash, Fault, content, queue, MarkOutboxFailed
  <2>2. CASE Becomes(w, worker[w].batch, NoEvent, {})
    BY <1>1, <2>1, <2>2, EmptyHands, WorkerHas DEF Delivery!vars
  <2>3. CASE Becomes(w, {}, NoEvent, {})
    BY <1>1, <2>1, <2>3, EmptyHands DEF Delivery!vars
  <2> QED
    BY <1>6, <2>2, <2>3 DEF FailItem, LoseMark, Crash
<1>7. CASE StartBackfill(w)
  <2>1. /\ Becomes(w, {}, NoEvent, LocalesMissingEmbedding)
        /\ UNCHANGED <<text, vector, order, due, published>>
    BY <1>7 DEF StartBackfill, content, queue
  <2> QED
    BY <1>1, <2>1, EmptyHands, TodoTyped DEF Delivery!vars
<1> QED
  BY <1>2, <1>3, <1>4, <1>5, <1>6, <1>7 DEF Work

LEMMA NextDelivers ==
  ASSUME TypeOK, Covered, [Next]_vars
  PROVE  Covered' /\ [Delivery!Next]_(Delivery!vars)
<1>1. CASE \E e \in Events : Produce(e)
  BY <1>1, ProducersDeliver DEF Delivery!Next
<1>2. CASE \E e \in Events : ExpireLease(e) \/ EndBackoff(e)
  <2>1. UNCHANGED <<text, vector, order, due, published, worker>>
    BY <1>2 DEF ExpireLease, EndBackoff, content
  <2>2. created' = created /\ indexed' = indexed
    BY <2>1 DEF created, indexed
  <2> QED
    BY <2>1, <2>2, QueueCovered DEF Delivery!vars
<1>3. CASE \E r \in Revisions : Republish(r)
  <2>1. UNCHANGED <<vector, order, due, published, worker>>
    BY <1>3 DEF Republish, queue
  <2>2. created' = created /\ indexed' = indexed
    BY <2>1 DEF created, indexed
  <2>3. \A l \in Locales : text[l] > 0 => text'[l] > 0
    <3>1. \A l \in Locales : text[l] \in Nat
      BY DEF TypeOK
    <3>2. PICK r \in Revisions : Republish(r)
      BY <1>3
    <3> DEFINE k == <<r, "en">>
    <3>3. text' = [text EXCEPT ![k] = text[k] + 1]
      BY <3>2 DEF Republish
    <3>4. k \in Locales
      BY RowsAreLocales
    <3> HIDE DEF k
    <3>5. \A l \in Locales : text'[l] = IF l = k THEN text[k] + 1 ELSE text[l]
      BY <3>3 DEF TypeOK
    <3> QED
      BY <3>1, <3>4, <3>5
  <2>4. Covered'
    BY <2>1, <2>2, <2>3 DEF Covered, DueStored, GraphDueNothing, ItemCovered, HasItem,
                            Resolvable, RowsOf
  <2> QED
    BY <2>1, <2>2, <2>4 DEF Delivery!vars
<1>4. CASE \E w \in Workers : Work(w) \/ FailItem(w) \/ LoseMark(w) \/ Crash(w)
                              \/ StartBackfill(w)
  BY <1>4, WorkersDeliver
<1>5. CASE UNCHANGED vars
  <2>1. UNCHANGED <<text, vector, order, due, published, worker>>
    BY <1>5 DEF vars, content, queue
  <2>2. created' = created /\ indexed' = indexed
    BY <2>1 DEF created, indexed
  <2> QED
    BY <2>1, <2>2, QueueCovered DEF Delivery!vars
<1> QED
  BY <1>1, <1>2, <1>3, <1>4, <1>5 DEF Next

LEMMA InitDelivers == Init => Covered /\ Delivery!Init
<1> SUFFICES ASSUME Init PROVE Covered /\ Delivery!Init
  OBVIOUS
<1>1. created = {} /\ indexed = {}
  BY DEF Init, created, indexed
<1> QED
  BY <1>1 DEF Init, IdleWorker, Covered, DueStored, GraphDueNothing, ItemCovered,
              HasItem, Delivery!Init

(* The queue with its leases, retries, crashes and late marks keeps the    *)
(* promise of EmbeddingDelivery: nothing is marked published before every  *)
(* locale it was due is indexed, and neither is undone.                    *)
THEOREM DeliveryHolds == Spec => DeliversSafely
<1>1. Init => TypeOK /\ Covered /\ Delivery!Init
  BY InitTyped, InitDelivers
<1>2. /\ TypeOK /\ Covered /\ [Next]_vars => (TypeOK /\ Covered)'
      /\ TypeOK /\ Covered /\ [Next]_vars => [Delivery!Next]_(Delivery!vars)
  BY NextTyped, NextDelivers
<1> QED
  BY <1>1, <1>2, PTL DEF Spec, DeliversSafely, Delivery!Safe

=============================================================================
