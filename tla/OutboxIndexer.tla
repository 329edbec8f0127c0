---------------------------- MODULE OutboxIndexer ----------------------------
(***************************************************************************)
(* The outbox of internal/store and the workers of cmd/qb-index.  An event *)
(* is claimed for five minutes by writing claimed_at; nothing identifies   *)
(* the claimer, so a worker that is late marks an event that another one   *)
(* holds by then.  A worker reads the text of every locale of the event's  *)
(* revision, embeds the texts one after the other, stores each vector and  *)
(* marks the event.  It may crash anywhere, a provider call or a mark may  *)
(* fail, and a lease may expire under a worker that is only slow.          *)
(*                                                                         *)
(* Time is abstracted: a lease expires and a backoff ends at some time.    *)
(* The text of a locale is abstracted to the number of times it was        *)
(* written, a vector to the text it was computed from.                     *)
(***************************************************************************)
EXTENDS Naturals, Sequences, FiniteSets

CONSTANTS
    Workers,        \* indexer processes
    Revisions,      \* question revisions
    Events,         \* rows the outbox may come to hold
    KindOf,         \* what each event announces
    RevOf,          \* the revision each event names
    NoRev, NoEvent, \* a null current_revision_id, no event in hand
    BatchSize,      \* the limit of a claim
    MaxText,        \* bound: times a locale is written
    MaxFaults       \* bound: crashes, failed calls and failed marks

Kinds == {"publication", "rollback", "translation", "repair", "graph"}

ASSUME ConstantsAssumption ==
    /\ KindOf \in [Events -> Kinds]
    /\ RevOf \in [Events -> Revisions]
    /\ NoRev \notin Revisions
    /\ NoEvent \notin Events
    /\ BatchSize \in Nat \ {0}
    /\ MaxText \in Nat \ {0} /\ MaxFaults \in Nat

Locales == Revisions \X {"en", "ru"}

VARIABLES
    text,       \* question_locale: times the row was written, 0 for no row
    current,    \* content.question.current_revision_id of the question
    order,      \* outbox_event by created_at
    published,  \* the events with a published_at
    claim,      \* claimed_at: null, within five minutes, or older
    backoff,    \* the events whose available_at is in the future
    vector,     \* question_embedding: the text a vector was made from, or 0
    worker,     \* per process: claimed events, event in hand, texts to embed
    faults,     \* crashes and failures so far
    due,        \* history: locales that existed when the event was written
    expired     \* history: events a lease of which has expired

content == <<text, current>>
queue == <<order, published, claim, backoff>>
vars == <<content, queue, vector, worker, faults, due, expired>>

created == {order[i] : i \in 1..Len(order)}
RowsOf(r) == {l \in Locales : l[1] = r /\ text[l] > 0}

Becomes(w, batch, item, todo) ==
    worker' = [worker EXCEPT ![w] = [batch |-> batch, item |-> item, todo |-> todo]]
IdleWorker == [batch |-> {}, item |-> NoEvent, todo |-> {}]
Todo == [locale : Locales, text : 1..MaxText]

-----------------------------------------------------------------------------
(* Producers.  Each writes its event in the transaction of its change.     *)
Emit(e, locales) ==
    /\ e \notin created
    /\ order' = Append(order, e)
    /\ due' = [due EXCEPT ![e] = locales]
    /\ UNCHANGED <<published, claim, backoff, vector, worker, faults, expired>>

Publish(e) ==
    /\ KindOf[e] = "publication" /\ RowsOf(RevOf[e]) = {}
    /\ \E langs \in {{"en"}, {"en", "ru"}} :
          LET written == {RevOf[e]} \X langs
          IN  /\ text' = [l \in Locales |-> IF l \in written THEN 1 ELSE text[l]]
              /\ Emit(e, written)
    /\ current' = RevOf[e]

RollBack(e) ==
    /\ KindOf[e] = "rollback" /\ RowsOf(RevOf[e]) # {}
    /\ current' = RevOf[e]
    /\ Emit(e, RowsOf(RevOf[e]))
    /\ UNCHANGED text

StoreTranslation(e) ==
    LET l == <<RevOf[e], "ru">> IN
    /\ KindOf[e] = "translation" /\ RowsOf(RevOf[e]) # {} /\ text[l] = 0
    /\ text' = [text EXCEPT ![l] = 1]
    /\ Emit(e, RowsOf(RevOf[e]) \cup {l})
    /\ UNCHANGED current

RepairPrompt(e) ==
    LET l == <<RevOf[e], "ru">> IN
    /\ KindOf[e] = "repair" /\ text[l] \in 1..(MaxText - 1)
    /\ text' = [text EXCEPT ![l] = @ + 1]
    /\ Emit(e, RowsOf(RevOf[e]))
    /\ UNCHANGED current

ReleaseGraph(e) ==
    /\ KindOf[e] = "graph"
    /\ Emit(e, {})
    /\ UNCHANGED content

(* A card of a known revision that comes from another source rewrites the  *)
(* body of its English locale and writes no event.                         *)
Republish(r) ==
    /\ text[<<r, "en">>] \in 1..(MaxText - 1)
    /\ text' = [text EXCEPT ![<<r, "en">>] = @ + 1]
    /\ current' = r
    /\ UNCHANGED <<queue, vector, worker, faults, due, expired>>

-----------------------------------------------------------------------------
(* Faulty: an expired lease is not taken over.                             *)
ClaimableOnce(e) == e \in created \ (published \cup backoff) /\ claim[e] = "free"
(* Faulty: claimed_at is not looked at.                                    *)
ClaimableByAnyone(e) == e \in created \ (published \cup backoff)
Claimable(e) ==
    e \in created \ (published \cup backoff) /\ claim[e] \in {"free", "expired"}

(* The oldest claimable events, up to the limit.                           *)
Older(e) == {order[i] : i \in {j \in 1..Len(order) :
                \E k \in 1..Len(order) : j < k /\ order[k] = e}}
Claimed == LET open == {e \in Events : Claimable(e)}
           IN  {e \in open : Cardinality(Older(e) \cap open) < BatchSize}

ClaimOutbox(w) ==
    /\ worker[w] = IdleWorker
    /\ Claimed # {}
    /\ claim' = [e \in Events |-> IF e \in Claimed THEN "held" ELSE claim[e]]
    /\ Becomes(w, Claimed, NoEvent, {})
    /\ UNCHANGED <<content, order, published, backoff, vector, faults, due, expired>>

(* The updates name the row by its id alone, whoever holds it.             *)
MarkOutboxPublished(e) ==
    /\ published' = published \cup {e}
    /\ claim' = [claim EXCEPT ![e] = "free"]
    /\ UNCHANGED <<order, backoff>>

(* Faulty: an event that failed is done.                                   *)
MarkOutboxGivenUp(e) ==
    /\ published' = published \cup {e}
    /\ claim' = [claim EXCEPT ![e] = "free"]
    /\ UNCHANGED <<order, backoff>>
MarkOutboxFailed(e) ==
    /\ claim' = [claim EXCEPT ![e] = "free"]
    /\ backoff' = backoff \cup {e}
    /\ UNCHANGED <<order, published>>

(* Graph releases name no revision and need no vector.                     *)
Resolvable(e) == KindOf[e] # "graph"

(* Faulty: a language without a row is read as well.                       *)
AllLanguages(r) == {[locale |-> l, text |-> text[l]] : l \in {r} \X {"en", "ru"}}
RevisionLocales(r) == {[locale |-> l, text |-> text[l]] : l \in RowsOf(r)}

HasItem(w) == worker[w].item # NoEvent

(* The next claimed event: a skipped type is finished at once, any other   *)
(* has the current text of all its locales read.                           *)
TakeItem(w, e) ==
    /\ e \in worker[w].batch /\ ~HasItem(w)
    /\ IF Resolvable(e)
       THEN /\ Becomes(w, worker[w].batch \ {e}, e, RevisionLocales(RevOf[e]))
            /\ UNCHANGED queue
       ELSE /\ Becomes(w, worker[w].batch \ {e}, NoEvent, {})
            /\ MarkOutboxPublished(e)
    /\ UNCHANGED <<content, vector, faults, due, expired>>

(* A vector is stored once per locale and content hash; a second one is    *)
(* ignored, and the hash of a revision never changes.                      *)
UpsertEmbedding(t) ==
    vector' = [vector EXCEPT ![t.locale] = IF @ = 0 THEN t.text ELSE @]

EmbedLocale(w, t) ==
    /\ t \in worker[w].todo
    /\ UpsertEmbedding(t)
    /\ Becomes(w, worker[w].batch, worker[w].item, worker[w].todo \ {t})
    /\ UNCHANGED <<content, queue, faults, due, expired>>

CompleteItem(w) ==
    /\ HasItem(w) /\ worker[w].todo = {}
    /\ MarkOutboxPublished(worker[w].item)
    /\ Becomes(w, worker[w].batch, NoEvent, {})
    /\ UNCHANGED <<content, vector, faults, due, expired>>

Fault ==
    /\ faults < MaxFaults
    /\ faults' = faults + 1
    /\ UNCHANGED <<content, vector, due, expired>>

(* A locale that cannot be embedded or stored ends the event.              *)
FailItem(w) ==
    /\ Fault
    /\ HasItem(w) /\ worker[w].todo # {}
    /\ MarkOutboxFailed(worker[w].item)
    /\ Becomes(w, worker[w].batch, NoEvent, {})

(* A mark that fails is not repeated: the row keeps its lease.             *)
LoseMark(w) ==
    /\ Fault
    /\ HasItem(w)
    /\ Becomes(w, worker[w].batch, NoEvent, {})
    /\ UNCHANGED queue

(* The process ends and another one takes its place.                       *)
Crash(w) ==
    /\ Fault
    /\ worker[w] # IdleWorker
    /\ Becomes(w, {}, NoEvent, {})
    /\ UNCHANGED queue

(* runBackfill: every current locale without a vector, with its text.      *)
LocalesMissingEmbedding ==
    {[locale |-> l, text |-> text[l]] : l \in {k \in Locales :
        k[1] = current /\ text[k] > 0 /\ vector[k] = 0}}

StartBackfill(w) ==
    /\ worker[w] = IdleWorker
    /\ LocalesMissingEmbedding # {}
    /\ Becomes(w, {}, NoEvent, LocalesMissingEmbedding)
    /\ UNCHANGED <<content, queue, vector, faults, due, expired>>

-----------------------------------------------------------------------------
(* Five minutes pass, or the backoff does.                                 *)
ExpireLease(e) ==
    /\ claim[e] = "held"
    /\ claim' = [claim EXCEPT ![e] = "expired"]
    /\ expired' = expired \cup {e}
    /\ UNCHANGED <<content, order, published, backoff, vector, worker, faults, due>>

EndBackoff(e) ==
    /\ e \in backoff
    /\ backoff' = backoff \ {e}
    /\ UNCHANGED <<content, order, published, claim, vector, worker, faults, due,
                   expired>>

-----------------------------------------------------------------------------
Init ==
    /\ text = [l \in Locales |-> 0]
    /\ current = NoRev
    /\ order = <<>>
    /\ published = {}
    /\ claim = [e \in Events |-> "free"]
    /\ backoff = {}
    /\ vector = [l \in Locales |-> 0]
    /\ worker = [w \in Workers |-> IdleWorker]
    /\ faults = 0
    /\ due = [e \in Events |-> {}]
    /\ expired = {}

Produce(e) ==
    \/ Publish(e)
    \/ RollBack(e)
    \/ StoreTranslation(e)
    \/ RepairPrompt(e)
    \/ ReleaseGraph(e)

Work(w) ==
    \/ ClaimOutbox(w)
    \/ \E e \in worker[w].batch : TakeItem(w, e)
    \/ \E t \in worker[w].todo : EmbedLocale(w, t)
    \/ CompleteItem(w)

Next ==
    \/ \E e \in Events : Produce(e) \/ ExpireLease(e) \/ EndBackoff(e)
    \/ \E r \in Revisions : Republish(r)
    \/ \E w \in Workers : Work(w) \/ FailItem(w) \/ LoseMark(w) \/ Crash(w)
                          \/ StartBackfill(w)

Spec == Init /\ [][Next]_vars

(* A worker that runs takes its next step, a crashed one is restarted by   *)
(* Compose, and time passes.                                               *)
Fairness ==
    /\ \A w \in Workers : WF_vars(Work(w))
    /\ \A e \in Events : WF_vars(ExpireLease(e)) /\ WF_vars(EndBackoff(e))

FairSpec == Spec /\ Fairness

-----------------------------------------------------------------------------
TypeOK ==
    /\ text \in [Locales -> 0..MaxText]
    /\ current \in Revisions \cup {NoRev}
    /\ order \in Seq(Events)
    /\ \A i, j \in 1..Len(order) : order[i] = order[j] => i = j
    /\ published \subseteq created /\ backoff \subseteq created
    /\ claim \in [Events -> {"free", "held", "expired"}]
    /\ \A e \in Events \ created : claim[e] = "free"
    /\ vector \in [Locales -> 0..MaxText]
    /\ worker \in [Workers -> [batch : SUBSET created, item : created \cup {NoEvent},
                               todo : SUBSET Todo]]
    /\ faults \in 0..MaxFaults
    /\ due \in [Events -> SUBSET Locales]
    /\ expired \subseteq created

Owns(w, e) == e \in worker[w].batch \cup {worker[w].item}

(* Nobody works on an event that another worker still has, unless a lease  *)
(* of that event has run out: skip locked, claimed_at and the marks keep   *)
(* two workers apart for as long as neither is slow.                       *)
LeaseExclusive ==
    \A e \in created \ expired : \A v, w \in Workers :
        Owns(v, e) /\ Owns(w, e) => v = w

(* The queue keeps the promises of EmbeddingDelivery: an event is marked   *)
(* published only with every locale of its revision indexed, and nothing   *)
(* published or indexed is undone, whatever crashed, failed or expired and *)
(* whichever worker's mark came late.                                      *)
indexed == {l \in Locales : vector[l] # 0}
Delivery == INSTANCE EmbeddingDelivery WITH finished <- published
DeliversSafely == Delivery!Safe

(* Every event is finished in the end, after any finite number of crashes, *)
(* failed calls, failed marks and slow workers.                            *)
EveryEventFinishes == \A e \in Events : e \in created ~> e \in published

-----------------------------------------------------------------------------
(* A statement of the repository's documents that the code does not keep;  *)
(* the README has its trace.                                               *)

(* When the queue is drained, the vectors are those of the stored texts.   *)
DrainedVectorsFresh ==
    created = published /\ (\A w \in Workers : worker[w] = IdleWorker)
    => \A l \in Locales : vector[l] \in {0, text[l]}
=============================================================================
