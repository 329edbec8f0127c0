-------------------------- MODULE SharedCallsProofs --------------------------
(***************************************************************************)
(* Proofs about SharedCalls, for any callers, keys, capacity and number of *)
(* changes.  One producer per key at a time is what the rest needs: with   *)
(* it computations of a key are ordered, and what was cached or returned   *)
(* before a computation reads is never newer than what it reads.           *)
(***************************************************************************)
EXTENDS SharedCalls, FiniteSetTheorems, TLAPS

Answered(c) == At(c, "answered") /\ caller[c].ok

(* A key's answers and its entry in the order of the reads they came from. *)
Ordered ==
    /\ \A k \in Keys : served[k] <= Content(k)
    /\ \A k \in Keys : cache[k] # NoEntry =>
          served[k] <= cache[k].version /\ cache[k].version <= Content(k)
    /\ \A c \in Callers : caller[c] # Idle => caller[c].floor <= served[Key(c)]
    /\ \A c \in Callers : Answered(c) =>
          /\ caller[c].floor <= caller[c].version
          /\ caller[c].version <= Content(Key(c))
          /\ cache[Key(c)] # NoEntry => caller[c].version <= cache[Key(c)].version
    /\ \A p \in Callers : At(p, "read") =>
          /\ served[Key(p)] <= caller[p].version
          /\ caller[p].version <= Content(Key(p))
          /\ cache[Key(p)] # NoEntry => cache[Key(p)].version <= caller[p].version
          /\ \A c \in Callers : Answered(c) /\ Key(c) = Key(p) =>
                caller[c].version <= caller[p].version

-----------------------------------------------------------------------------
(* Types, and who computes for whom.                                       *)
Calls == TypeOK /\ CallsAccounted

LEMMA ContentTyped ==
  ASSUME TypeOK, NEW k \in Keys
  PROVE  Content(k) \in Versions
  BY ConstantsAssumption DEF TypeOK, Content, Versions

LEMMA BusyFields ==
  ASSUME TypeOK, NEW c \in Callers, caller[c].step # "idle"
  PROVE  /\ caller[c] # Idle /\ caller[c] \in Busy /\ Key(c) \in Keys
         /\ caller[c].version \in Versions /\ caller[c].floor \in Versions
         /\ caller[c].ok \in BOOLEAN
  BY DEF TypeOK, Busy, Idle, Key

(* A caller that begins: its record, and those of the others.              *)
LEMMA BeginTyped ==
  ASSUME TypeOK, NEW c \in Callers, NEW k \in Keys, NEW v \in Versions,
         NEW step \in Producing \cup {"waiting", "answered"}, Begin(c, k, step, v)
  PROVE  /\ caller' \in [Callers -> Busy \cup {Idle}]
         /\ caller'[c].step = step /\ caller'[c].key = k /\ caller'[c].ok
         /\ caller'[c].version = v /\ caller'[c].floor = served[k]
         /\ caller'[c] # Idle
         /\ \A d \in Callers \ {c} : caller'[d] = caller[d]
<1> DEFINE made == [step |-> step, key |-> k, ok |-> TRUE, version |-> v,
                    stopped |-> FALSE, floor |-> served[k]]
<1>1. made \in Busy
  BY DEF TypeOK, Busy
<1>2. made.step = step /\ made.key = k /\ made.ok /\ made.version = v
      /\ made.floor = served[k] /\ step # "idle"
  BY DEF Producing
<1>3. caller' = [caller EXCEPT ![c] = made]
  BY DEF Begin
<1> HIDE DEF made
<1> QED
  BY <1>1, <1>2, <1>3 DEF TypeOK, Idle

(* The three outcomes of a lookup.                                         *)
LEMMA AskOutcome ==
  ASSUME Calls, NEW c \in Callers, NEW k \in Keys, Ask(c, k)
  PROVE  /\ caller[c] = Idle /\ UNCHANGED <<version, served>>
         /\ \/ /\ cache[k] # NoEntry /\ cache[k].version \in Versions
               /\ Begin(c, k, "answered", cache[k].version)
               /\ UNCHANGED <<cache, inFlight>>
            \/ /\ \E x \in {cache[k], NoEntry} : cache' = [cache EXCEPT ![k] = x]
               /\ \/ /\ inFlight[k] # Nobody /\ UNCHANGED inFlight
                     /\ Begin(c, k, "waiting", 0)
                  \/ /\ inFlight[k] = Nobody
                     /\ inFlight' = [inFlight EXCEPT ![k] = c]
                     /\ Begin(c, k, "computing", 0)
<1>1. cache[k] # NoEntry => cache[k].version \in Versions
  BY DEF Calls, TypeOK, Entry
<1>2. [cache EXCEPT ![k] = cache[k]] = cache
  BY DEF Calls, TypeOK
<1>3. CASE cache[k] # NoEntry /\ cache[k].fresh
  BY <1>1, <1>3 DEF Ask
<1>4. CASE ~(cache[k] # NoEntry /\ cache[k].fresh)
  <2>1. \E x \in {cache[k], NoEntry} : cache' = [cache EXCEPT ![k] = x]
    BY <1>2, <1>4 DEF Ask
  <2> QED
    BY <1>4, <2>1 DEF Ask, Shared
<1> QED
  BY <1>3, <1>4 DEF Ask

LEMMA AskCalls ==
  ASSUME Calls, NEW c \in Callers, NEW k \in Keys, Ask(c, k)
  PROVE  Calls'
<1>1. 0 \in Versions
  BY ConstantsAssumption DEF Versions
<1>2. caller[c].step = "idle"
  BY AskOutcome DEF Idle
<1>3. CASE cache[k] # NoEntry /\ Begin(c, k, "answered", cache[k].version)
           /\ cache[k].version \in Versions /\ UNCHANGED <<cache, inFlight>>
  BY <1>2, <1>3, BeginTyped, AskOutcome
     DEF Calls, TypeOK, CallsAccounted, At, Key, Producing
<1>4. CASE /\ \E x \in {cache[k], NoEntry} : cache' = [cache EXCEPT ![k] = x]
           /\ inFlight[k] # Nobody /\ UNCHANGED inFlight /\ Begin(c, k, "waiting", 0)
  <2>1. cache' \in [Keys -> Entry \cup {NoEntry}]
    BY <1>4 DEF Calls, TypeOK
  <2>2. /\ caller' \in [Callers -> Busy \cup {Idle}]
        /\ caller'[c].step = "waiting" /\ caller'[c].key = k
        /\ \A d \in Callers \ {c} : caller'[d] = caller[d]
    BY <1>1, <1>4, BeginTyped DEF Calls
  <2>3. \A x \in Keys : inFlight[x] # Nobody =>
           caller'[inFlight[x]].step \in Producing /\ caller'[inFlight[x]].key = x
    BY <1>2, <2>2 DEF Calls, TypeOK, Key, Producing
  <2>4. TypeOK'
    BY <1>4, <2>1, <2>2, <2>3, AskOutcome DEF Calls, TypeOK, Key
  <2>5. CallsAccounted'
    BY <1>4, <2>2 DEF Calls, CallsAccounted, Key, At, Producing
  <2> QED
    BY <2>4, <2>5 DEF Calls
<1>5. CASE /\ \E x \in {cache[k], NoEntry} : cache' = [cache EXCEPT ![k] = x]
           /\ inFlight[k] = Nobody /\ inFlight' = [inFlight EXCEPT ![k] = c]
           /\ Begin(c, k, "computing", 0)
  <2>1. cache' \in [Keys -> Entry \cup {NoEntry}]
    BY <1>5 DEF Calls, TypeOK
  <2>2. /\ caller' \in [Callers -> Busy \cup {Idle}]
        /\ caller'[c].step = "computing" /\ caller'[c].key = k
        /\ \A d \in Callers \ {c} : caller'[d] = caller[d]
    BY <1>1, <1>5, BeginTyped DEF Calls, Producing
  <2>3. /\ inFlight' \in [Keys -> Callers \cup {Nobody}]
        /\ \A x \in Keys : inFlight'[x] = IF x = k THEN c ELSE inFlight[x]
    BY <1>5 DEF Calls, TypeOK
  <2>4. \A x \in Keys : inFlight'[x] # Nobody =>
           caller'[inFlight'[x]].step \in Producing /\ caller'[inFlight'[x]].key = x
    BY <1>2, <2>2, <2>3 DEF Calls, TypeOK, Key, Producing
  <2>5. TypeOK'
    BY <2>1, <2>2, <2>3, <2>4, AskOutcome DEF Calls, TypeOK, Key
  <2>6. CallsAccounted'
    <3> SUFFICES ASSUME NEW d \in Callers
                 PROVE  /\ caller'[d].step \in Producing => inFlight'[caller'[d].key] = d
                        /\ caller'[d].step = "waiting" => inFlight'[caller'[d].key] # Nobody
      BY DEF CallsAccounted, At, Key
    <3>1. CASE d = c
      BY <2>2, <2>3, <3>1
    <3>2. CASE d # c
      <4>1. caller[d].step # "idle" => Key(d) \in Keys
        BY BusyFields DEF Calls
      <4>2. c # Nobody
        BY ConstantsAssumption
      <4> QED
        BY <1>5, <2>2, <2>3, <3>2, <4>1, <4>2, ConstantsAssumption
           DEF Calls, CallsAccounted, Key, At, Producing
    <3> QED
      BY <3>1, <3>2
  <2> QED
    BY <2>5, <2>6 DEF Calls
<1> QED
  BY <1>3, <1>4, <1>5, AskOutcome

(* One field of one caller changes.                                        *)
LEMMA ComputeCalls ==
  ASSUME Calls, NEW c \in Callers, Read(c) \/ Fail(c) \/ Stop(c)
  PROVE  /\ Calls' /\ UNCHANGED <<version, cache, inFlight, served>>
         /\ caller'[c].key = caller[c].key /\ caller'[c].floor = caller[c].floor
         /\ caller'[c].ok = caller[c].ok /\ caller'[c] # Idle /\ caller[c] # Idle
         /\ \A d \in Callers \ {c} : caller'[d] = caller[d]
<1>1. /\ caller[c].step \in {"computing", "read", "waiting"}
      /\ UNCHANGED <<version, cache, inFlight, served>>
  BY DEF Read, Fail, Stop, At
<1>2. /\ caller[c] \in Busy /\ Key(c) \in Keys /\ 0 \in Versions /\ caller[c] # Idle
  BY <1>1, BusyFields, ConstantsAssumption DEF Calls, Versions
<1>3. Content(Key(c)) \in Versions
  BY <1>2, ContentTyped DEF Calls
<1>4. /\ caller' \in [Callers -> Busy \cup {Idle}]
      /\ caller'[c].key = caller[c].key /\ caller'[c].floor = caller[c].floor
      /\ caller'[c].ok = caller[c].ok /\ caller'[c] # Idle
      /\ caller'[c].step \in Producing \cup {"waiting"}
      /\ caller'[c].step \in Producing <=> caller[c].step \in Producing
      /\ \A d \in Callers \ {c} : caller'[d] = caller[d]
  <2> DEFINE Becomes(r) == caller' = [caller EXCEPT ![c] = r]
  <2>1. \E r \in Busy : /\ Becomes(r) /\ r.key = caller[c].key /\ r.floor = caller[c].floor
                        /\ r.ok = caller[c].ok /\ r.step \in Producing \cup {"waiting"}
                        /\ r.step \in Producing <=> caller[c].step \in Producing
    <3>1. CASE Read(c)
      <4>1. Becomes([caller[c] EXCEPT !.step = "read", !.version = Content(Key(c))])
        BY <3>1 DEF Read
      <4> QED
        BY <1>2, <1>3, <3>1, <4>1 DEF Busy, Producing, Read, At
    <3>2. CASE Fail(c)
      <4>1. Becomes([caller[c] EXCEPT !.step = "failed", !.version = 0])
        BY <3>2 DEF Fail
      <4> QED
        BY <1>2, <3>2, <4>1 DEF Busy, Producing, Fail
    <3>3. CASE Stop(c)
      <4>1. Becomes([caller[c] EXCEPT !.stopped = TRUE])
        BY <3>3 DEF Stop
      <4> QED
        <5> DEFINE r == [caller[c] EXCEPT !.stopped = TRUE]
        <5>1. /\ r \in Busy /\ r.step = caller[c].step /\ r.key = caller[c].key
              /\ r.floor = caller[c].floor /\ r.ok = caller[c].ok
          BY <1>2 DEF Busy
        <5>2. r.step \in Producing \cup {"waiting"}
          BY <3>3, <5>1 DEF Producing, Stop
        <5> HIDE DEF r, Becomes
        <5> QED
          BY <4>1, <5>1, <5>2 DEF r
    <3> QED
      BY <3>1, <3>2, <3>3
  <2>2. PICK r \in Busy : /\ Becomes(r) /\ r.key = caller[c].key
                          /\ r.floor = caller[c].floor /\ r.ok = caller[c].ok
                          /\ r.step \in Producing \cup {"waiting"}
                          /\ r.step \in Producing <=> caller[c].step \in Producing
    BY <2>1
  <2>3. caller'[c] = r /\ r # Idle
    BY <2>2 DEF Calls, TypeOK, Idle, Producing
  <2> QED
    BY <2>2, <2>3 DEF Calls, TypeOK
<1>5. \A k \in Keys : inFlight[k] # Nobody =>
         caller'[inFlight[k]].step \in Producing /\ caller'[inFlight[k]].key = k
  BY <1>4 DEF Calls, TypeOK, Key
<1>6. TypeOK'
  BY <1>1, <1>4, <1>5 DEF Calls, TypeOK, Key
<1>7. CallsAccounted'
  BY <1>1, <1>4 DEF Calls, CallsAccounted, Key, At, Producing
<1> QED
  BY <1>1, <1>2, <1>4, <1>6, <1>7 DEF Calls

(* The end of a call: the producer and its waiters have the result.        *)
Told(c, d) == d = c \/ (At(d, "waiting") /\ Key(d) = Key(c))

LEMMA CompleteEffect ==
  ASSUME Calls, NEW c \in Callers, Complete(c)
  PROVE  /\ caller[c].step \in {"read", "failed"} /\ Key(c) \in Keys
         /\ caller[c].version \in Versions /\ caller[c] # Idle
         /\ caller' \in [Callers -> Busy \cup {Idle}]
         /\ \A d \in Callers : Told(c, d) =>
               /\ caller'[d].step = "answered" /\ caller'[d].key = Key(c)
               /\ caller'[d].ok = At(c, "read") /\ caller'[d].version = caller[c].version
               /\ caller'[d].floor = caller[d].floor
               /\ caller[d].key = Key(c) /\ caller[d] # Idle
         /\ \A d \in Callers : ~Told(c, d) => caller'[d] = caller[d]
         /\ inFlight' = [inFlight EXCEPT ![Key(c)] = Nobody]
         /\ UNCHANGED <<version, served>>
<1>1. /\ caller[c].step \in {"read", "failed"} /\ caller[c] # Idle
      /\ caller[c] \in Busy /\ Key(c) \in Keys /\ caller[c].version \in Versions
  BY BusyFields DEF Complete, Calls
<1>2. /\ inFlight' = [inFlight EXCEPT ![Key(c)] = Nobody]
      /\ UNCHANGED <<version, served>>
  BY DEF Complete, Unregistered
<1> DEFINE ok == At(c, "read")
           told(d) == [caller[d] EXCEPT !.step = "answered", !.ok = ok,
                                        !.version = caller[c].version, !.stopped = FALSE]
<1>3. caller' = [d \in Callers |-> IF Told(c, d) THEN told(d) ELSE caller[d]]
  BY DEF Complete, Told
<1>4. ASSUME NEW d \in Callers, Told(c, d)
      PROVE  /\ caller[d] \in Busy /\ caller[d] # Idle /\ caller[d].key = Key(c)
  BY <1>1, <1>4, BusyFields DEF Told, At, Key, Calls
<1>5. ok \in BOOLEAN
  BY DEF At
<1> HIDE DEF ok
<1>6. ASSUME NEW d \in Callers, Told(c, d)
      PROVE  /\ told(d) \in Busy /\ told(d).step = "answered"
             /\ told(d).key = caller[d].key /\ told(d).ok = ok
             /\ told(d).version = caller[c].version /\ told(d).floor = caller[d].floor
  BY <1>1, <1>4, <1>5, <1>6 DEF Busy
<1> HIDE DEF told
<1>7. \A d \in Callers : caller'[d] = IF Told(c, d) THEN told(d) ELSE caller[d]
  BY <1>3
<1>8. caller' \in [Callers -> Busy \cup {Idle}]
  BY <1>3, <1>6 DEF Calls, TypeOK
<1> QED
  BY <1>1, <1>2, <1>4, <1>6, <1>7, <1>8 DEF ok

LEMMA CompleteCache ==
  ASSUME Calls, NEW c \in Callers, Complete(c)
  PROVE  /\ cache' \in [Keys -> Entry \cup {NoEntry}]
         /\ \A k \in Keys : cache'[k] # NoEntry =>
               \/ cache'[k] = cache[k] /\ (k = Key(c) => ~At(c, "read"))
               \/ k = Key(c) /\ At(c, "read") /\ cache'[k].version = caller[c].version
<1> DEFINE entry == [version |-> caller[c].version, fresh |-> TRUE]
           S == IF Key(c) \in Queries THEN Queries ELSE Scopes
<1>1. entry \in Entry /\ entry.version = caller[c].version
  BY CompleteEffect DEF Entry
<1>2. CASE At(c, "read")
  <2>1. PICK kept \in Kept(Key(c)) :
           cache' = [x \in Keys |-> IF x \in S /\ x \notin kept THEN NoEntry
                                    ELSE IF x = Key(c) THEN entry ELSE cache[x]]
    BY <1>2 DEF Complete
  <2> HIDE DEF entry, S
  <2> QED
    BY <1>1, <1>2, <2>1 DEF Calls, TypeOK
<1>3. CASE ~At(c, "read")
  BY <1>3 DEF Complete, Calls, TypeOK
<1> QED
  BY <1>2, <1>3

LEMMA CompleteCalls ==
  ASSUME Calls, NEW c \in Callers, Complete(c)
  PROVE  Calls'
<1>1. \A x \in Keys : inFlight'[x] = IF x = Key(c) THEN Nobody ELSE inFlight[x]
  BY CompleteEffect DEF Calls, TypeOK
<1>2. inFlight' \in [Keys -> Callers \cup {Nobody}]
  BY CompleteEffect DEF Calls, TypeOK
<1>3. \A x \in Keys : inFlight'[x] # Nobody =>
         caller'[inFlight'[x]].step \in Producing /\ caller'[inFlight'[x]].key = x
  <2> SUFFICES ASSUME NEW x \in Keys, x # Key(c), inFlight[x] # Nobody
               PROVE  caller'[inFlight[x]].step \in Producing /\ caller'[inFlight[x]].key = x
    BY <1>1
  <2>1. /\ inFlight[x] \in Callers /\ caller[inFlight[x]].step \in Producing
        /\ Key(inFlight[x]) = x
    BY DEF Calls, TypeOK
  <2>2. ~Told(c, inFlight[x])
    BY <2>1 DEF Told, At, Producing
  <2> QED
    BY <2>1, <2>2, CompleteEffect DEF Key
<1>4. TypeOK'
  BY <1>2, <1>3, CompleteEffect, CompleteCache DEF Calls, TypeOK, Key
<1>5. CallsAccounted'
  <2> SUFFICES ASSUME NEW d \in Callers
               PROVE  /\ caller'[d].step \in Producing => inFlight'[caller'[d].key] = d
                      /\ caller'[d].step = "waiting" => inFlight'[caller'[d].key] # Nobody
    BY DEF CallsAccounted, At, Key
  <2>1. CASE Told(c, d)
    BY <2>1, CompleteEffect DEF Producing
  <2>2. CASE ~Told(c, d)
    <3>1. caller'[d] = caller[d] /\ d # c
      BY <2>2, CompleteEffect DEF Told
    <3>2. inFlight[Key(c)] = c
      BY CompleteEffect DEF Calls, CallsAccounted, Producing
    <3>3. caller[d].step # "idle" => Key(d) \in Keys
      BY BusyFields DEF Calls
    <3>4. caller[d].step \in Producing => Key(d) # Key(c)
      BY <3>1, <3>2 DEF Calls, CallsAccounted
    <3>5. At(d, "waiting") => Key(d) # Key(c)
      BY <2>2 DEF Told
    <3> QED
      BY <1>1, <3>1, <3>3, <3>4, <3>5 DEF Calls, CallsAccounted, Key, At, Producing
  <2> QED
    BY <2>1, <2>2
<1> QED
  BY <1>4, <1>5 DEF Calls

(* A caller that leaves, the clock, the content.                           *)
LEMMA LeaveCalls ==
  ASSUME Calls, NEW c \in Callers, GiveUp(c) \/ Return(c)
  PROVE  /\ Calls' /\ UNCHANGED <<version, cache, inFlight>>
         /\ caller'[c] = Idle /\ caller[c].step \in {"waiting", "answered"}
         /\ \A d \in Callers \ {c} : caller'[d] = caller[d]
<1>1. /\ UNCHANGED <<version, cache, inFlight>> /\ caller' = [caller EXCEPT ![c] = Idle]
      /\ caller[c].step \in {"waiting", "answered"}
  BY DEF GiveUp, Return, At
<1>2. /\ caller'[c] = Idle /\ \A d \in Callers \ {c} : caller'[d] = caller[d]
      /\ caller' \in [Callers -> Busy \cup {Idle}]
  BY <1>1 DEF Calls, TypeOK
<1>3. caller[c].version \in Versions
  BY <1>1, BusyFields DEF Calls
<1>4. served' \in [Keys -> Versions]
  BY <1>3 DEF GiveUp, Return, Calls, TypeOK
<1>5. \A k \in Keys : inFlight[k] # Nobody =>
         caller'[inFlight[k]].step \in Producing /\ caller'[inFlight[k]].key = k
  BY <1>1, <1>2 DEF Calls, TypeOK, Key, Producing
<1>6. TypeOK'
  BY <1>1, <1>2, <1>4, <1>5 DEF Calls, TypeOK, Key
<1>7. CallsAccounted'
  BY <1>1, <1>2 DEF Calls, CallsAccounted, Key, At, Producing, Idle
<1> QED
  BY <1>1, <1>2, <1>6, <1>7 DEF Calls

LEMMA QuietCalls ==
  ASSUME Calls, ChangeContent \/ (\E k \in Keys : Expire(k)) \/ UNCHANGED vars
  PROVE  /\ Calls' /\ UNCHANGED <<inFlight, caller, served>>
         /\ version <= version'
         /\ \A k \in Keys : /\ (cache'[k] # NoEntry <=> cache[k] # NoEntry)
                            /\ cache[k] # NoEntry => cache'[k].version = cache[k].version
<1>1. UNCHANGED <<inFlight, caller, served>>
  BY DEF ChangeContent, Expire, vars
<1>2. version' \in Versions /\ version <= version'
  BY ConstantsAssumption DEF ChangeContent, Expire, vars, Calls, TypeOK, Versions
<1>3. /\ cache' \in [Keys -> Entry \cup {NoEntry}]
      /\ \A k \in Keys : /\ (cache'[k] # NoEntry <=> cache[k] # NoEntry)
                         /\ cache[k] # NoEntry => cache'[k].version = cache[k].version
  <2>1. ASSUME NEW k \in Keys, Expire(k)
        PROVE  cache' \in [Keys -> Entry \cup {NoEntry}] /\ cache'[k].version = cache[k].version
               /\ cache'[k] \in Entry /\ \A x \in Keys \ {k} : cache'[x] = cache[x]
    <3>1. cache[k] \in Entry /\ cache' = [cache EXCEPT ![k] = [cache[k] EXCEPT !.fresh = FALSE]]
      BY <2>1 DEF Expire, Calls, TypeOK
    <3>2. /\ [cache[k] EXCEPT !.fresh = FALSE] \in Entry
          /\ [cache[k] EXCEPT !.fresh = FALSE].version = cache[k].version
      BY <3>1 DEF Entry
    <3> QED
      BY <3>1, <3>2 DEF Calls, TypeOK
  <2>2. CASE \E k \in Keys : Expire(k)
    BY <2>1, <2>2, EntryAssumption DEF Expire
  <2>3. CASE UNCHANGED cache
    BY <2>3 DEF Calls, TypeOK
  <2> QED
    BY <2>2, <2>3 DEF ChangeContent, vars
<1> QED
  BY <1>1, <1>2, <1>3 DEF Calls, TypeOK, CallsAccounted, Key, At

LEMMA CallsInit == Init => Calls
  BY ConstantsAssumption DEF Init, Calls, TypeOK, CallsAccounted, Versions, Idle,
     Producing, At

LEMMA CallsStay == Spec => []Calls
<1>1. Calls /\ [Next]_vars => Calls'
  BY AskCalls, ComputeCalls, CompleteCalls, LeaveCalls, QuietCalls DEF Next, Work
<1> QED
  BY <1>1, CallsInit, PTL DEF Spec

(* Shapes of the calls, the waiters and the two caches.                    *)
THEOREM TypesHold == Spec => []TypeOK
<1>1. Calls => TypeOK
  BY DEF Calls
<1> QED
  BY <1>1, CallsStay, PTL

(* For any number of callers and keys there is one computation per key at  *)
(* a time, registered by who does it, and every waiter has a call to wait  *)
(* for: lookups and ends of calls exclude each other by the mutex.         *)
THEOREM CallsHold == Spec => []CallsAccounted
<1>1. Calls => CallsAccounted
  BY DEF Calls
<1> QED
  BY <1>1, CallsStay, PTL

-----------------------------------------------------------------------------
(* The order of what was read.                                             *)
LEMMA Numbers ==
  ASSUME TypeOK
  PROVE  /\ \A k \in Keys : Content(k) \in Nat /\ served[k] \in Nat
         /\ \A k \in Keys : cache[k] # NoEntry => cache[k].version \in Nat
         /\ \A c \in Callers : caller[c] # Idle =>
               Key(c) \in Keys /\ caller[c].version \in Nat /\ caller[c].floor \in Nat
<1>1. Versions \subseteq Nat
  BY DEF Versions
<1>2. \A k \in Keys : Content(k) \in Nat /\ served[k] \in Nat
  BY <1>1, ContentTyped DEF TypeOK
<1>3. \A k \in Keys : cache[k] # NoEntry => cache[k].version \in Nat
  BY <1>1 DEF TypeOK, Entry
<1>4. \A c \in Callers : caller[c] # Idle =>
         Key(c) \in Keys /\ caller[c].version \in Nat /\ caller[c].floor \in Nat
  BY <1>1 DEF TypeOK, Busy, Key
<1> QED
  BY <1>2, <1>3, <1>4

LEMMA StepIsBusy == \A c \in Callers : At(c, "answered") \/ At(c, "read") => caller[c] # Idle
  BY DEF At, Idle

LEMMA AskOrdered ==
  ASSUME Calls, Ordered, NEW c \in Callers, NEW k \in Keys, Ask(c, k)
  PROVE  Ordered'
<1>1. \A x \in Keys : Content(x)' = Content(x) /\ served'[x] = served[x]
  BY AskOutcome DEF Content
<1>2. \A x \in Keys : cache'[x] # NoEntry => cache'[x] = cache[x]
  BY AskOutcome DEF Calls, TypeOK
<1>3. \A d \in Callers \ {c} : caller'[d] = caller[d]
  BY AskOutcome, BeginTyped, ConstantsAssumption DEF Calls, Versions, Producing
<1>4. /\ caller'[c].key = k /\ caller'[c].floor = served[k]
      /\ caller'[c].step \in {"answered", "waiting", "computing"}
      /\ caller'[c].step = "answered" =>
            cache[k] # NoEntry /\ caller'[c].version = cache[k].version
  BY AskOutcome, BeginTyped, ConstantsAssumption DEF Calls, Versions, Producing
<1>5. caller'[c].step # "read"
  BY <1>4
<1> QED
  BY <1>1, <1>2, <1>3, <1>4, <1>5, Numbers, StepIsBusy
     DEF Calls, Ordered, Answered, At, Key

LEMMA ComputeOrdered ==
  ASSUME Calls, Ordered, NEW c \in Callers, Read(c) \/ Fail(c) \/ Stop(c)
  PROVE  Ordered'
<1>1. /\ UNCHANGED <<version, cache, inFlight, served>>
      /\ caller'[c].key = caller[c].key /\ caller'[c].floor = caller[c].floor
      /\ caller[c] # Idle /\ \A d \in Callers \ {c} : caller'[d] = caller[d]
  BY ComputeCalls
<1>2. /\ caller'[c].step # "answered"
      /\ caller'[c].step = "read" => caller'[c].version = Content(Key(c))
  <2>1. CASE Read(c)
    BY <2>1, BusyFields DEF Read, At, Calls, TypeOK, Busy
  <2>2. CASE Fail(c)
    BY <2>2, BusyFields DEF Fail, Calls, TypeOK, Busy
  <2>3. CASE Stop(c)
    BY <2>3, BusyFields DEF Stop, Calls, TypeOK, Busy
  <2> QED
    BY <2>1, <2>2, <2>3
<1>3. \A x \in Keys : Content(x)' = Content(x)
  BY <1>1 DEF Content
<1> QED
  BY <1>1, <1>2, <1>3, Numbers, StepIsBusy DEF Calls, Ordered, Answered, At, Key

LEMMA CompleteOrdered ==
  ASSUME Calls, Ordered, NEW c \in Callers, Complete(c)
  PROVE  Ordered'
<1> DEFINE k == Key(c)
           v == caller[c].version
<1>1. k \in Keys /\ caller[c] # Idle /\ UNCHANGED <<version, served>>
  BY CompleteEffect
<1>2. \A x \in Keys : Content(x)' = Content(x)
  BY <1>1 DEF Content
<1>3. \A d \in Callers : ~Told(c, d) => caller'[d] = caller[d]
  BY CompleteEffect
<1>4. \A d \in Callers : Told(c, d) =>
         /\ caller'[d].step = "answered" /\ caller'[d].key = k
         /\ caller'[d].ok = At(c, "read") /\ caller'[d].version = v
         /\ caller'[d].floor = caller[d].floor /\ caller[d].key = k /\ caller[d] # Idle
  BY CompleteEffect
<1>5. \A x \in Keys : cache'[x] # NoEntry =>
         \/ cache'[x] = cache[x] /\ (x = k => ~At(c, "read"))
         \/ x = k /\ At(c, "read") /\ cache'[x].version = v
  BY CompleteCache
<1>6. At(c, "read") => served[k] <= v /\ v <= Content(k)
  BY DEF Ordered
<1>7. At(c, "read") => \A d \in Callers : Answered(d) /\ Key(d) = k => caller[d].version <= v
  BY DEF Ordered
<1>8. \A p \in Callers : At(p, "read") /\ ~Told(c, p) => Key(p) # k
  <2>1. inFlight[k] = c
    BY CompleteEffect DEF Calls, CallsAccounted, Producing
  <2> QED
    BY <2>1 DEF Calls, CallsAccounted, At, Producing, Told
<1>9. v \in Nat
  BY <1>1, Numbers DEF Calls
<1> HIDE DEF k, v
<1>10. \A x \in Keys : cache'[x] # NoEntry =>
          served'[x] <= cache'[x].version /\ cache'[x].version <= Content(x)'
  BY <1>1, <1>2, <1>5, <1>6 DEF Ordered
<1>11. \A d \in Callers : caller'[d] # Idle => caller'[d].floor <= served'[caller'[d].key]
  BY <1>1, <1>3, <1>4 DEF Ordered, Key
<1>12. ASSUME NEW d \in Callers, caller'[d].step = "answered" /\ caller'[d].ok
       PROVE  /\ caller'[d].floor <= caller'[d].version
              /\ caller'[d].version <= Content(caller'[d].key)
              /\ cache'[caller'[d].key] # NoEntry =>
                    caller'[d].version <= cache'[caller'[d].key].version
  <2>1. CASE Told(c, d)
    <3>1. At(c, "read") /\ caller'[d].version = v /\ caller'[d].key = k
      BY <1>4, <1>12, <2>1
    <3>2. caller'[d].floor <= served[k] /\ caller'[d].floor \in Nat
      BY <1>4, <2>1, Numbers DEF Ordered, Key, Calls
    <3>3. served[k] \in Nat /\ Content(k) \in Nat
      BY <1>1, Numbers DEF Calls
    <3> QED
      BY <1>1, <1>2, <1>5, <1>6, <1>9, <3>1, <3>2, <3>3
  <2>2. CASE ~Told(c, d)
    <3>1. caller'[d] = caller[d] /\ Answered(d) /\ Key(d) \in Keys
      BY <1>3, <1>12, <2>2, StepIsBusy, Numbers DEF Answered, At, Calls
    <3> QED
      BY <1>2, <1>5, <1>7, <3>1 DEF Ordered, Key
  <2> QED
    BY <2>1, <2>2
<1>13. ASSUME NEW p \in Callers, caller'[p].step = "read"
       PROVE  /\ caller'[p] = caller[p] /\ At(p, "read") /\ Key(p) # k /\ Key(p) \in Keys
              /\ \A d \in Callers : caller'[d].step = "answered" /\ caller'[d].ok
                    /\ caller'[d].key = Key(p) => caller'[d] = caller[d]
  <2>1. ~Told(c, p)
    BY <1>4, <1>13
  <2>2. caller'[p] = caller[p] /\ At(p, "read") /\ Key(p) # k
    BY <1>3, <1>8, <1>13, <2>1 DEF At
  <2>3. Key(p) \in Keys
    BY <2>2, StepIsBusy, Numbers DEF Calls
  <2> QED
    BY <1>3, <1>4, <2>2, <2>3
<1>14. ASSUME NEW p \in Callers, caller'[p].step = "read"
       PROVE  /\ served'[caller'[p].key] <= caller'[p].version
              /\ caller'[p].version <= Content(caller'[p].key)
              /\ cache'[caller'[p].key] # NoEntry =>
                    cache'[caller'[p].key].version <= caller'[p].version
              /\ \A d \in Callers : caller'[d].step = "answered" /\ caller'[d].ok
                    /\ caller'[d].key = caller'[p].key =>
                       caller'[d].version <= caller'[p].version
  BY <1>1, <1>2, <1>5, <1>13, <1>14 DEF Ordered, Answered, At, Key
<1> QED
  BY <1>1, <1>2, <1>10, <1>11, <1>12, <1>14 DEF Ordered, Answered, At, Key, Content

LEMMA LeaveOrdered ==
  ASSUME Calls, Ordered, NEW c \in Callers, GiveUp(c) \/ Return(c)
  PROVE  Ordered'
<1>1. /\ UNCHANGED <<version, cache>> /\ caller'[c] = Idle
      /\ \A d \in Callers \ {c} : caller'[d] = caller[d]
  BY LeaveCalls
<1>2. \A x \in Keys : Content(x)' = Content(x)
  BY <1>1 DEF Content
<1>3. \A x \in Keys : \/ served'[x] = served[x]
                      \/ /\ Answered(c) /\ x = Key(c)
                         /\ served'[x] = caller[c].version /\ served[x] <= caller[c].version
  <2>1. CASE Return(c) /\ Answered(c) /\ caller[c].version > served[Key(c)]
    <3>1. Key(c) \in Keys /\ caller[c].version \in Nat
      BY <2>1, StepIsBusy, Numbers DEF Answered, Calls
    <3> QED
      BY <2>1, <3>1, Numbers DEF Return, Answered, Calls, TypeOK
  <2> QED
    BY <2>1 DEF GiveUp, Return, Answered
<1>4. Idle.step = "idle"
  BY DEF Idle
<1>5. \A x \in Keys : served[x] <= served'[x] /\ served'[x] \in Nat
  <2>1. Answered(c) => caller[c].version \in Nat
    BY StepIsBusy, Numbers DEF Answered, Calls
  <2> QED
    BY <1>3, <2>1, Numbers DEF Calls
<1> QED
  BY <1>1, <1>2, <1>3, <1>4, <1>5, Numbers, StepIsBusy
     DEF Calls, Ordered, Answered, At, Key

LEMMA QuietOrdered ==
  ASSUME Calls, Ordered, ChangeContent \/ (\E k \in Keys : Expire(k)) \/ UNCHANGED vars
  PROVE  Ordered'
<1>1. \A x \in Keys : Content(x) <= Content(x)' /\ Content(x)' \in Nat
  BY QuietCalls DEF Content, Calls, TypeOK, Versions
<1> QED
  BY <1>1, QuietCalls, Numbers, StepIsBusy DEF Calls, Ordered, Answered, At, Key

(* Whatever is cached, evicted, shared or delivered late: a request that   *)
(* begins after another one has returned never gets an older report.       *)
THEOREM OrderHolds == Spec => []NeverGoesBack
<1>1. Init => Ordered
  BY DEF Init, Ordered, Answered, At, Idle, Content
<1>2. Calls /\ Ordered /\ [Next]_vars => Ordered'
  BY AskOrdered, ComputeOrdered, CompleteOrdered, LeaveOrdered, QuietOrdered
     DEF Next, Work
<1>3. Calls /\ Ordered => NeverGoesBack
  BY Numbers, StepIsBusy DEF Calls, Ordered, NeverGoesBack, Answered
<1> QED
  BY <1>1, <1>2, <1>3, CallsStay, PTL DEF Spec

-----------------------------------------------------------------------------
(* The size of the caches.                                                 *)
LEMMA HeldFinite ==
  ASSUME NEW S \in {Queries, Scopes}
  PROVE  /\ IsFiniteSet(Held(S)) /\ Cardinality(Held(S)) \in Nat
         /\ IsFiniteSet(S)
<1>1. S \subseteq Keys /\ Held(S) \subseteq S
  BY DEF Keys, Held
<1> QED
  BY <1>1, ConstantsAssumption, FS_Subset, FS_CardinalityType

LEMMA WithinCapacity ==
  ASSUME NEW A, NEW B, A \subseteq B, IsFiniteSet(B), Cardinality(B) <= Capacity
  PROVE  Cardinality(A) <= Capacity
<1>1. /\ IsFiniteSet(A) /\ Cardinality(A) <= Cardinality(B)
      /\ Cardinality(A) \in Nat /\ Cardinality(B) \in Nat
  BY FS_Subset, FS_CardinalityType
<1> QED
  BY <1>1, ConstantsAssumption

LEMMA VectorsFit ==
  ASSUME NEW k \in Queries, NEW kept \in VectorsKept(k)
  PROVE  IsFiniteSet(kept) /\ Cardinality(kept) <= Capacity
<1> DEFINE all == {k} \cup Held(Queries)
           fresh == {k} \cup (Held(Queries) \ Expired(Queries))
<1>1. IsFiniteSet(all) /\ IsFiniteSet(fresh)
  BY HeldFinite, FS_AddElement, FS_Subset
<1>2. Capacity \in Nat
  BY ConstantsAssumption
<1>3. CASE Cardinality(all) <= Capacity
  BY <1>1, <1>3 DEF VectorsKept
<1>4. CASE ~(Cardinality(all) <= Capacity) /\ Cardinality(fresh) <= Capacity
  BY <1>1, <1>4 DEF VectorsKept
<1>5. CASE ~(Cardinality(all) <= Capacity) /\ ~(Cardinality(fresh) <= Capacity)
  <2>1. kept \in SUBSET fresh /\ Cardinality(kept) = Capacity
    BY <1>5 DEF VectorsKept
  <2> QED
    BY <1>1, <1>2, <2>1, FS_Subset
<1> QED
  BY <1>3, <1>4, <1>5

LEMMA ReportsFit ==
  ASSUME Bounded, NEW k \in Scopes, NEW kept \in ReportsKept(k)
  PROVE  IsFiniteSet(kept) /\ Cardinality(kept) <= Capacity
<1> DEFINE held == Held(Scopes)
<1>1. IsFiniteSet(held) /\ Cardinality(held) \in Nat /\ Cardinality(held) <= Capacity
  BY HeldFinite DEF Bounded
<1>2. Capacity \in Nat
  BY ConstantsAssumption
<1>3. ASSUME NEW T, IsFiniteSet(T), Cardinality(T) < Capacity
      PROVE  IsFiniteSet({k} \cup T) /\ Cardinality({k} \cup T) <= Capacity
  <2>1. /\ IsFiniteSet(T \cup {k})
        /\ Cardinality(T \cup {k}) = IF k \in T THEN Cardinality(T) ELSE Cardinality(T) + 1
    BY <1>3, FS_AddElement
  <2>2. Cardinality(T) \in Nat
    BY <1>3, FS_CardinalityType
  <2>3. Cardinality(T \cup {k}) <= Capacity
    BY <1>2, <1>3, <2>1, <2>2
  <2>4. {k} \cup T = T \cup {k}
    OBVIOUS
  <2> QED
    BY <2>1, <2>3, <2>4, Zenon
<1>4. CASE Cardinality(held) < Capacity
  BY <1>1, <1>3, <1>4 DEF ReportsKept
<1>5. CASE ~(Cardinality(held) < Capacity)
  <2>1. PICK x \in held : kept = {k} \cup (held \ {x})
    BY <1>5 DEF ReportsKept, Expired, Held
  <2>2. IsFiniteSet(held \ {x}) /\ Cardinality(held \ {x}) = Cardinality(held) - 1
    BY <1>1, <2>1, FS_RemoveElement
  <2>3. Cardinality(held \ {x}) < Capacity
    BY <1>1, <1>2, <2>2
  <2> QED
    BY <1>3, <2>1, <2>2, <2>3
<1> QED
  BY <1>4, <1>5

LEMMA CompleteBounded ==
  ASSUME Calls, Bounded, NEW c \in Callers, Complete(c)
  PROVE  Bounded'
<1> DEFINE k == Key(c)
           S == IF k \in Queries THEN Queries ELSE Scopes
           entry == [version |-> caller[c].version, fresh |-> TRUE]
<1>1. k \in Keys /\ cache' \in [Keys -> Entry \cup {NoEntry}]
  BY CompleteEffect, CompleteCache
<1>2. CASE ~At(c, "read")
  BY <1>2 DEF Complete, Bounded, Held
<1>3. CASE At(c, "read")
  <2>1. PICK kept \in Kept(k) :
           cache' = [x \in Keys |-> IF x \in S /\ x \notin kept THEN NoEntry
                                    ELSE IF x = k THEN entry ELSE cache[x]]
    BY <1>3 DEF Complete
  <2>2. CASE k \in Queries
    <3>1. Held(Queries)' \subseteq kept /\ Held(Scopes)' \subseteq Held(Scopes)
      BY <2>1, <2>2, ConstantsAssumption DEF Held, Keys
    <3>2. IsFiniteSet(kept) /\ Cardinality(kept) <= Capacity
      BY <2>1, <2>2, VectorsFit DEF Kept
    <3> QED
      BY <3>1, <3>2, WithinCapacity, HeldFinite DEF Bounded
  <2>3. CASE k \notin Queries
    <3>1. k \in Scopes /\ S = Scopes
      BY <1>1, <2>3 DEF Keys
    <3>2. Held(Scopes)' \subseteq kept /\ Held(Queries)' \subseteq Held(Queries)
      BY <2>1, <3>1, ConstantsAssumption DEF Held, Keys
    <3>3. IsFiniteSet(kept) /\ Cardinality(kept) <= Capacity
      BY <2>1, <2>3, <3>1, ReportsFit DEF Kept
    <3> QED
      BY <3>2, <3>3, WithinCapacity, HeldFinite DEF Bounded
  <2> QED
    BY <2>2, <2>3
<1> QED
  BY <1>2, <1>3

LEMMA OthersBounded ==
  ASSUME Calls, Bounded, \A k \in Keys : cache'[k] # NoEntry => cache[k] # NoEntry
  PROVE  Bounded'
<1>1. Held(Queries)' \subseteq Held(Queries) /\ Held(Scopes)' \subseteq Held(Scopes)
  BY DEF Held, Keys
<1> QED
  BY <1>1, WithinCapacity, HeldFinite DEF Bounded

(* No sequence of keys that clients ask for makes a cache outgrow its      *)
(* capacity, although the two caches make room at different moments.       *)
THEOREM SizeHolds == Spec => []Bounded
<1>1. Init => Bounded
  <2> SUFFICES ASSUME Init PROVE Bounded
    OBVIOUS
  <2>1. Held(Queries) = {} /\ Held(Scopes) = {}
    BY DEF Init, Held, Keys
  <2> QED
    BY <2>1, FS_EmptySet, ConstantsAssumption DEF Bounded
<1>2. ASSUME Calls, Bounded, [Next]_vars PROVE Bounded'
  <2>1. CASE \E c \in Callers : Complete(c)
    BY <1>2, <2>1, CompleteBounded
  <2>2. CASE \E c \in Callers, k \in Keys : Ask(c, k)
    <3>1. \A k \in Keys : cache'[k] # NoEntry => cache[k] # NoEntry
      BY <1>2, <2>2, AskOutcome DEF Calls, TypeOK
    <3> QED
      BY <1>2, <3>1, OthersBounded
  <2>3. CASE \E c \in Callers : Read(c) \/ Fail(c) \/ Stop(c) \/ GiveUp(c) \/ Return(c)
    BY <1>2, <2>3, ComputeCalls, LeaveCalls, OthersBounded
  <2>4. CASE ChangeContent \/ (\E k \in Keys : Expire(k)) \/ UNCHANGED vars
    BY <1>2, <2>4, QuietCalls, OthersBounded
  <2> QED
    BY <1>2, <2>1, <2>2, <2>3, <2>4 DEF Next, Work
<1> QED
  BY <1>1, <1>2, CallsStay, PTL DEF Spec
=============================================================================
