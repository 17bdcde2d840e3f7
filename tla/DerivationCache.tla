-------------------------- MODULE DerivationCache --------------------------
(***************************************************************************)
(* The write-invalidated cache of derived answers, one per replica, in     *)
(* front of documents all replicas share (src/src/domain/service/cache.rs  *)
(* and the writes that call invalidate).                                   *)
(*                                                                         *)
(* One cache key: the keys of the code name the scope and the filters, and *)
(* entries under different keys only meet in put, which drops the ones of  *)
(* other generations.  A derived value is the version of every document it *)
(* was computed from; documents are read one at a time, without the lock.  *)
(* Age is counted in ticks since the entry was put, up to MAX_AGE.         *)
(***************************************************************************)
EXTENDS Integers

CONSTANTS
    Replicas,
    Threads,    \* request threads
    Home,       \* the replica each thread runs in
    Documents,  \* documents the derived value is computed from
    MaxWrites,  \* bound on the version of a document
    MAX_AGE,    \* in ticks
    NoEntry

ASSUME CacheAssumption ==
    /\ Home \in [Threads -> Replicas]
    /\ MaxWrites \in Nat /\ MAX_AGE \in Nat \ {0}

VARIABLES
    store,       \* the version of each document on the shared volume
    generation,  \* each replica's generation counter
    entry,       \* each replica's cached value
    pc,          \* where each thread is
    loaded,      \* the generation a thread loaded before taking the map's lock
    value,       \* the versions a thread has read so far, answered with, or written
    acked,       \* the writes each replica has acknowledged: document versions
    since,       \* what was acknowledged locally when a thread's request came in
    began,       \* ... and when the computation of its value began
    ended        \* ... and when put loaded the generation for that value

\* What a property looks back to; the code keeps none of it.
ghosts == <<acked, since, began, ended>>
cacheVars == <<store, generation, entry, pc, loaded, value, ghosts>>

Nothing == [d \in {} |-> 0]

\* The document versions in f are at least those in g.
Covers(f, g) == \A d \in DOMAIN g : d \in DOMAIN f /\ f[d] >= g[d]

Goto(t, phase) == pc' = [pc EXCEPT ![t] = phase]

(* ------------------------------- readers -------------------------------- *)

\* A derived endpoint is asked; get loads the generation first.
Ask(t) ==
    /\ pc[t] = "idle"
    /\ Goto(t, "get")
    /\ loaded' = [loaded EXCEPT ![t] = generation[Home[t]]]
    /\ since' = [since EXCEPT ![t] = acked[Home[t]]]
    /\ UNCHANGED <<store, generation, entry, value, acked, began, ended>>

\* Faults of get: an entry of any generation answers, or one of any age.
HitAnyGeneration(t) ==
    LET e == entry[Home[t]]
    IN  e # NoEntry /\ e.age < MAX_AGE

HitAnyAge(t) ==
    LET e == entry[Home[t]]
    IN  e # NoEntry /\ e.generation = loaded[t]

\* An entry answers while its generation is current and it is young enough.
Hit(t) ==
    LET e == entry[Home[t]]
    IN  e # NoEntry /\ e.generation = loaded[t] /\ e.age < MAX_AGE

\* A hit answers; a miss computes.
Get(t) ==
    /\ pc[t] = "get"
    /\ \/ /\ Hit(t)
          /\ value' = [value EXCEPT ![t] = entry[Home[t]].value]
          /\ began' = [began EXCEPT ![t] = entry[Home[t]].began]
          /\ ended' = [ended EXCEPT ![t] = entry[Home[t]].ended]
          /\ Goto(t, "answered")
       \/ /\ ~Hit(t)
          /\ Goto(t, "compute")
          /\ began' = [began EXCEPT ![t] = acked[Home[t]]]
          /\ UNCHANGED <<value, ended>>
    /\ UNCHANGED <<store, generation, entry, loaded, acked, since>>

\* The computation reads the documents one by one.
Compute(t) ==
    /\ pc[t] = "compute"
    /\ \E d \in Documents \ DOMAIN value[t] :
         value' = [value EXCEPT ![t] =
                     [c \in DOMAIN value[t] \union {d} |->
                        IF c = d THEN store[d] ELSE value[t][c]]]
    /\ IF DOMAIN value'[t] = Documents THEN Goto(t, "put") ELSE UNCHANGED pc
    /\ UNCHANGED <<store, generation, entry, loaded, ghosts>>

\* The computation answers an error; nothing is cached.
ComputeFails(t) ==
    /\ pc[t] = "compute"
    /\ Goto(t, "failed")
    /\ UNCHANGED <<store, generation, entry, loaded, value, ghosts>>

\* put loads the generation that is current now ...
PutLoad(t) ==
    /\ pc[t] = "put"
    /\ loaded' = [loaded EXCEPT ![t] = generation[Home[t]]]
    /\ ended' = [ended EXCEPT ![t] = acked[Home[t]]]
    /\ Goto(t, "insert")
    /\ UNCHANGED <<store, generation, entry, value, acked, since, began>>

\* ... and then stores the value under it.
PutInsert(t) ==
    /\ pc[t] = "insert"
    /\ entry' = [entry EXCEPT ![Home[t]] =
                   [generation |-> loaded[t], age |-> 0, value |-> value[t],
                    began |-> began[t], ended |-> ended[t]]]
    /\ Goto(t, "answered")
    /\ UNCHANGED <<store, generation, loaded, value, ghosts>>

\* The answer leaves the server.
Return(t) ==
    /\ pc[t] \in {"answered", "failed"}
    /\ Goto(t, "idle")
    /\ value' = [value EXCEPT ![t] = Nothing]
    /\ loaded' = [loaded EXCEPT ![t] = 0]
    /\ since' = [since EXCEPT ![t] = Nothing]
    /\ began' = [began EXCEPT ![t] = Nothing]
    /\ ended' = [ended EXCEPT ![t] = Nothing]
    /\ UNCHANGED <<store, generation, entry, acked>>

(* ------------------------------- writers -------------------------------- *)

\* A domain write publishes its document under the file lock.
Write(t, d) ==
    /\ pc[t] = "idle" /\ store[d] < MaxWrites
    /\ store' = [store EXCEPT ![d] = @ + 1]
    /\ Goto(t, "written")
    /\ value' = [value EXCEPT ![t] = [c \in {d} |-> store[d] + 1]]
    /\ UNCHANGED <<generation, entry, loaded, ghosts>>

\* It then retires every entry of its own replica and is acknowledged.
Invalidate(t) ==
    /\ pc[t] = "written"
    /\ generation' = [generation EXCEPT ![Home[t]] = @ + 1]
    /\ acked' = [acked EXCEPT ![Home[t]] =
                   [d \in Documents |->
                      IF d \in DOMAIN value[t] /\ @[d] < value[t][d]
                      THEN value[t][d] ELSE @[d]]]
    /\ Goto(t, "idle")
    /\ value' = [value EXCEPT ![t] = Nothing]
    /\ UNCHANGED <<store, entry, loaded, since, began, ended>>

(* ------------------------------ environment ----------------------------- *)

Tick ==
    /\ entry' = [p \in Replicas |->
                   IF entry[p] = NoEntry \/ entry[p].age = MAX_AGE
                   THEN entry[p]
                   ELSE [entry[p] EXCEPT !.age = @ + 1]]
    /\ UNCHANGED <<store, generation, pc, loaded, value, ghosts>>

CacheInit ==
    /\ store = [d \in Documents |-> 0]
    /\ generation = [p \in Replicas |-> 0]
    /\ entry = [p \in Replicas |-> NoEntry]
    /\ pc = [t \in Threads |-> "idle"]
    /\ loaded = [t \in Threads |-> 0]
    /\ value = [t \in Threads |-> Nothing]
    /\ acked = [p \in Replicas |-> [d \in Documents |-> 0]]
    /\ since = [t \in Threads |-> Nothing]
    /\ began = [t \in Threads |-> Nothing]
    /\ ended = [t \in Threads |-> Nothing]

Serve(t) == Get(t) \/ Compute(t) \/ PutLoad(t) \/ PutInsert(t) \/ Return(t) \/ Invalidate(t)

CacheNext ==
    \/ \E t \in Threads :
         Ask(t) \/ Serve(t) \/ ComputeFails(t) \/ \E d \in Documents : Write(t, d)
    \/ Tick

CacheSpec == CacheInit /\ [][CacheNext]_cacheVars

\* Threads that have work do it, and time passes.
FairCacheSpec == CacheSpec /\ WF_cacheVars(Tick) /\ \A t \in Threads : WF_cacheVars(Serve(t))

(* ------------------------------ properties ------------------------------ *)

\* "Exactly stale on the local replica": an answer shows every write its
\* replica had acknowledged when the request came in (get, put, invalidate).
\* The code does not keep this: put loads the generation after the computation.
LocallyExact ==
    \A t \in Threads : pc[t] = "answered" => Covers(value[t], since[t])

\* What the code does keep, whatever the threads of a replica do to one another:
\* an answer, computed or cached, shows every write its replica had acknowledged
\* when the computation behind it began, and of what was acknowledged when the
\* request came in it can miss only what was acknowledged during that computation
\* (the window of put; an entry filled before a later write is never served).
LocallyBounded ==
    \A t \in Threads : pc[t] = "answered" =>
        Covers(value[t], began[t]) /\ Covers(ended[t], since[t])

\* "Bounded stale across replicas": once the writes are over, stale answers
\* stop, on every replica, however the fills and the writes were interleaved.
EventuallyFresh ==
    <>[](\A t \in Threads : pc[t] = "answered" => value[t] = store)
=============================================================================
