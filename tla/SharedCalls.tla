----------------------------- MODULE SharedCalls -----------------------------
(***************************************************************************)
(* The two in-process caches that share one computation between callers:   *)
(* the query vectors of internal/store/postgres.go (queryEmbedding, called *)
(* by Search) and the quality reports of internal/httpapi/server.go.  What *)
(* is done between Lock and Unlock is one action.  Whoever finds neither a *)
(* fresh entry nor a call in flight becomes the producer and computes      *)
(* without the lock, under its own context; others wait for its call or    *)
(* for the end of their own context.                                       *)
(*                                                                         *)
(* A vector never changes, a report is the version of the content it was   *)
(* read from; a report that takes several reads counts as one.  The time   *)
(* to live is the action Expire, a deadline or a client that leaves the    *)
(* action Stop.                                                            *)
(***************************************************************************)
EXTENDS Naturals, FiniteSets

CONSTANTS
    Callers,        \* goroutines that serve a request
    Queries,        \* keys of the vector cache: profile and query
    Scopes,         \* keys of the report cache: workspace and fixtures
    Capacity,       \* queryEmbeddingCacheMaxEntries, maxQualityCacheEntries
    MaxVersion,     \* bound on the changes of the content
    Nobody, NoEntry

Keys == Queries \cup Scopes

ASSUME ConstantsAssumption ==
    /\ Queries \cap Scopes = {}
    /\ IsFiniteSet(Keys)
    /\ Capacity \in Nat \ {0}
    /\ MaxVersion \in Nat
    /\ Nobody \notin Callers

VARIABLES
    version,    \* of the content in the database
    cache,      \* the entry of each key
    inFlight,   \* the producer of the call of each key
    caller,     \* where each caller is, and the result it has
    served      \* history: the newest version returned for each key

vars == <<version, cache, inFlight, caller, served>>

Versions == 0..MaxVersion
Entry == [version : Versions, fresh : BOOLEAN]
ASSUME EntryAssumption == NoEntry \notin Entry

Idle == [step |-> "idle"]
Producing == {"computing", "read", "failed"}
Busy == [step : Producing \cup {"waiting", "answered"}, key : Keys, ok : BOOLEAN,
         version : Versions, stopped : BOOLEAN, floor : Versions]

At(c, step) == caller[c].step = step
Key(c) == caller[c].key
(* What a computation that reads now finds.                                *)
Content(k) == IF k \in Scopes THEN version ELSE 0

-----------------------------------------------------------------------------
Begin(c, k, step, v) ==
    caller' = [caller EXCEPT ![c] =
        [step |-> step, key |-> k, ok |-> TRUE, version |-> v, stopped |-> FALSE,
         floor |-> served[k]]]

(* Faulty: a call in flight is not looked up.                              *)
Unshared(k) == FALSE
Shared(k) == inFlight[k] # Nobody

(* The lookup.  The vector cache drops an entry that has expired.          *)
Ask(c, k) ==
    /\ caller[c] = Idle
    /\ IF cache[k] # NoEntry /\ cache[k].fresh
       THEN Begin(c, k, "answered", cache[k].version) /\ UNCHANGED <<cache, inFlight>>
       ELSE /\ cache' = IF k \in Queries THEN [cache EXCEPT ![k] = NoEntry] ELSE cache
            /\ IF Shared(k)
               THEN Begin(c, k, "waiting", 0) /\ UNCHANGED inFlight
               ELSE /\ Begin(c, k, "computing", 0)
                    /\ inFlight' = [inFlight EXCEPT ![k] = c]
    /\ UNCHANGED <<version, served>>

(* The provider or the database answers, or fails, or the context ends.    *)
Read(c) ==
    /\ At(c, "computing")
    /\ caller' = [caller EXCEPT ![c].step = "read", ![c].version = Content(Key(c))]
    /\ UNCHANGED <<version, cache, inFlight, served>>

Fail(c) ==
    /\ caller[c].step \in {"computing", "read"}
    /\ caller' = [caller EXCEPT ![c].step = "failed", ![c].version = 0]
    /\ UNCHANGED <<version, cache, inFlight, served>>

-----------------------------------------------------------------------------
Held(S) == {k \in S : cache[k] # NoEntry}
Expired(S) == {k \in S : cache[k] # NoEntry /\ ~cache[k].fresh}

(* After a vector was stored under k: what has expired goes first, then    *)
(* anything, the new entry included, until the cache fits.                 *)
VectorsKept(k) ==
    LET fresh == {k} \cup (Held(Queries) \ Expired(Queries))
    IN  IF Cardinality({k} \cup Held(Queries)) <= Capacity
        THEN {{k} \cup Held(Queries)}
        ELSE IF Cardinality(fresh) <= Capacity THEN {fresh}
        ELSE {S \in SUBSET fresh : Cardinality(S) = Capacity}

(* Faulty: a full cache loses an expired report, if there is one.          *)
ExpiredDropped(k) ==
    IF Cardinality(Held(Scopes)) < Capacity THEN {{k} \cup Held(Scopes)}
    ELSE IF Expired(Scopes) # {} THEN {{k} \cup (Held(Scopes) \ {x}) : x \in Expired(Scopes)}
    ELSE {{k} \cup Held(Scopes)}
(* Before a report is stored a full cache loses one that expired, or else  *)
(* any one.                                                                *)
ReportsKept(k) ==
    IF Cardinality(Held(Scopes)) < Capacity THEN {{k} \cup Held(Scopes)}
    ELSE LET leaving == IF Expired(Scopes) # {} THEN Expired(Scopes) ELSE Held(Scopes)
         IN  {{k} \cup (Held(Scopes) \ {x}) : x \in leaving}

Kept(k) == IF k \in Queries THEN VectorsKept(k) ELSE ReportsKept(k)

(* Faulty: the call stays registered when the producer has failed.         *)
KeptOnFailure(c) == IF At(c, "read") THEN [inFlight EXCEPT ![Key(c)] = Nobody] ELSE inFlight
Unregistered(c) == [inFlight EXCEPT ![Key(c)] = Nobody]

(* The end of a call, in one critical section: an error is not stored, and *)
(* every waiter has the result, whatever the cache keeps.                  *)
Complete(c) ==
    LET k == Key(c)
        ok == At(c, "read")
        entry == [version |-> caller[c].version, fresh |-> TRUE]
        S == IF k \in Queries THEN Queries ELSE Scopes
    IN  /\ caller[c].step \in {"read", "failed"}
        /\ IF ok
           THEN \E kept \in Kept(k) :
                   cache' = [x \in Keys |-> IF x \in S /\ x \notin kept THEN NoEntry
                                            ELSE IF x = k THEN entry ELSE cache[x]]
           ELSE UNCHANGED cache
        /\ inFlight' = Unregistered(c)
        /\ caller' = [d \in Callers |->
              IF d = c \/ (At(d, "waiting") /\ Key(d) = k)
              THEN [caller[d] EXCEPT !.step = "answered", !.ok = ok,
                                     !.version = caller[c].version, !.stopped = FALSE]
              ELSE caller[d]]
        /\ UNCHANGED <<version, served>>

(* A waiter whose own context ends returns its error.                      *)
GiveUp(c) ==
    /\ At(c, "waiting") /\ caller[c].stopped
    /\ caller' = [caller EXCEPT ![c] = Idle]
    /\ UNCHANGED <<version, cache, inFlight, served>>

(* Search goes on without a vector after an error, quality reports it.     *)
Return(c) ==
    /\ At(c, "answered")
    /\ caller' = [caller EXCEPT ![c] = Idle]
    /\ served' = IF caller[c].ok /\ caller[c].version > served[Key(c)]
                 THEN [served EXCEPT ![Key(c)] = caller[c].version] ELSE served
    /\ UNCHANGED <<version, cache, inFlight>>

-----------------------------------------------------------------------------
(* The environment: contexts end, entries expire, the content changes.     *)
Stop(c) ==
    /\ caller[c].step \in {"computing", "waiting"} /\ ~caller[c].stopped
    /\ caller' = [caller EXCEPT ![c].stopped = TRUE]
    /\ UNCHANGED <<version, cache, inFlight, served>>

Expire(k) ==
    /\ cache[k] # NoEntry /\ cache[k].fresh
    /\ cache' = [cache EXCEPT ![k].fresh = FALSE]
    /\ UNCHANGED <<version, inFlight, caller, served>>

ChangeContent ==
    /\ version < MaxVersion
    /\ version' = version + 1
    /\ UNCHANGED <<cache, inFlight, caller, served>>

Init ==
    /\ version = 0
    /\ cache = [k \in Keys |-> NoEntry]
    /\ inFlight = [k \in Keys |-> Nobody]
    /\ caller = [c \in Callers |-> Idle]
    /\ served = [k \in Keys |-> 0]

Work(c) == Complete(c) \/ GiveUp(c) \/ Return(c)

Next ==
    \/ \E c \in Callers : \/ \E k \in Keys : Ask(c, k)
                          \/ Read(c) \/ Fail(c) \/ Work(c) \/ Stop(c)
    \/ \E k \in Keys : Expire(k)
    \/ ChangeContent

Spec == Init /\ [][Next]_vars

(* A search has a deadline, which the provider's client obeys; a report    *)
(* has none, there the database answers or fails.                          *)
Deadline(c) == caller[c] # Idle /\ Key(c) \in Queries /\ Stop(c)
Obeyed(c) == /\ At(c, "computing")
             /\ Key(c) \in Queries => caller[c].stopped
             /\ Read(c) \/ Fail(c)
FairSpec == /\ Spec
            /\ \A c \in Callers : WF_vars(Work(c)) /\ WF_vars(Deadline(c)) /\ WF_vars(Obeyed(c))

-----------------------------------------------------------------------------
TypeOK ==
    /\ version \in Versions
    /\ cache \in [Keys -> Entry \cup {NoEntry}]
    /\ inFlight \in [Keys -> Callers \cup {Nobody}]
    /\ \A k \in Keys : inFlight[k] # Nobody =>
          caller[inFlight[k]].step \in Producing /\ Key(inFlight[k]) = k
    /\ caller \in [Callers -> Busy \cup {Idle}]
    /\ served \in [Keys -> Versions]

(* One computation per key at a time, by the caller that is registered for *)
(* it, and nobody waits for a call that has ended: the lookup and the      *)
(* registration, and the end and its announcement, are not separable.      *)
CallsAccounted ==
    \A c \in Callers :
        /\ caller[c].step \in Producing => inFlight[Key(c)] = c
        /\ At(c, "waiting") => inFlight[Key(c)] # Nobody

(* Memory is bounded whatever keys clients ask for: each cache holds at    *)
(* most Capacity entries, expired ones included.                           *)
Bounded == Cardinality(Held(Queries)) <= Capacity /\ Cardinality(Held(Scopes)) <= Capacity

(* Of two requests for one report that follow each other the second never  *)
(* gets an older one, whether from the cache, from a call it joined half   *)
(* way, or as a waiter that wakes up late.                                 *)
NeverGoesBack ==
    \A c \in Callers : At(c, "answered") /\ caller[c].ok => caller[c].version >= caller[c].floor

(* Every caller returns: a search even if the provider never answers,      *)
(* a waiter even if its producer failed or its entry was evicted at once.  *)
EveryCallerReturns == \A c \in Callers : caller[c] # Idle ~> caller[c] = Idle
=============================================================================
