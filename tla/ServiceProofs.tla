--------------------------- MODULE ServiceProofs ---------------------------
(***************************************************************************)
(* Theorems about Service for any number of requests, any settings, any    *)
(* size of the pool and any number of starts and faults of the volume; and *)
(* about DerivationCache, the cache each such process keeps.               *)
(***************************************************************************)
EXTENDS Service, DerivationCache, FiniteSetTheorems, TLAPS

(* ------------------------ the inductive invariant ----------------------- *)

Stages == Booting \union {"off", "refused", "serving", "draining", "stopping"}
Phases == {"new", "body", "parked", "answered", "gone"}
Works == {None, "queued", "running", "revoking", "revoked", "locked", "written", "locking", "holding", "writing",
          "scratched", "ended", "discarded"}
Outcomes == {None, "rejected", "panicked", "failed", "busy", "stored", "ready", "not_ready"}
Answers == {None, "at_limit", "too_large", "unauthenticated", "cut_off", "ok", "internal",
            "rejected", "busy", "ready", "not_ready"}
Users == {Anonymous} \union {Actor[r] : r \in Requests}
SpanNotes == [what : {"span"}, user : Users, outcome : Answers, start : Nat]
AuditNotes == [what : {"audit"}, user : Users, outcome : {"success", "failure"}]
RevocationNotes == [what : {"revocation"}, user : {None}, outcome : {"success", "failure"}]
Notes == SpanNotes \union AuditNotes \union RevocationNotes

TypeOK ==
    /\ stage \in Stages
    /\ starts \in Nat
    /\ limits.cap \in Nat
    /\ available \in Int
    /\ phase \in [Requests -> Phases]
    /\ answer \in [Requests -> Answers]
    /\ work \in [Requests -> Works]
    /\ outcome \in [Requests -> Outcomes]
    /\ subject \in [Requests -> Users]
    /\ applied \in [Requests -> {0, 1}]
    /\ forgotten \subseteq Requests
    /\ trail \in [Requests -> Seq(Notes)]
    /\ counts \in [Classes -> Nat]
    /\ disk \in {"ok", "readonly", "missing"}
    /\ scratch \subseteq Requests
    /\ doubted \subseteq Requests

\* Only a serving process has requests in flight.
FlightInv == (~Serving => InFlight = {}) /\ PermitsBoundRequests

\* The environment of the start under way is one of the deployments.
DepInv == stage \in Booting => dep \in Deployments

\* Work that is queued or on a thread of the pool.
Pending(r) == work[r] \notin {None, "ended", "discarded"}

\* Where a request's work may be, and the kinds of work.
WorkOK(r) ==
    /\ phase[r] \in {"new", "body"} => work[r] = None
    /\ phase[r] = "parked" => work[r] \notin {None, "discarded"}
    /\ Pending(r) => Alive
    /\ work[r] = "queued" => Serving
    /\ work[r] \in {"revoking", "revoked", "locked", "written"} => Kind[r] = "write"
    /\ work[r] \in {"locking", "holding", "writing", "scratched"} => Kind[r] = "probe"
    /\ applied[r] = 1 => work[r] \in {"written", "ended", "discarded"}
    /\ work[r] = "written" => applied[r] = 1

WorkInv == \A r \in Requests : WorkOK(r)

\* What the work came to says what it did.
OutcomeOK(r) ==
    /\ phase[r] = "parked" /\ work[r] = "ended" => outcome[r] # None
    /\ Kind[r] = "write" =>
          /\ outcome[r] # None => work[r] = "ended"
          /\ outcome[r] \notin {"ready", "not_ready"}
    /\ Kind[r] = "probe" => outcome[r] \in {None, "ready", "not_ready"}
    /\ work[r] \in {"holding", "writing", "scratched"} => outcome[r] # None
    /\ outcome[r] = "stored" => applied[r] = 1
    /\ outcome[r] \in {"rejected", "busy"} => applied[r] = 0

OutcomeInv == \A r \in Requests : OutcomeOK(r)

\* An answer is given once, and says what became of the work.
AnswerInv ==
    \A r \in Requests :
        /\ phase[r] = "answered" <=> answer[r] # None
        /\ answer[r] \in {"at_limit", "too_large", "unauthenticated"} => work[r] = None
        /\ answer[r] \in {"rejected", "busy"} => work[r] = "ended" /\ applied[r] = 0
        /\ answer[r] = "ok" => applied[r] = 1

\* A probe that runs on a volume in trouble is doubted, and so is its verdict.
ProbeOK(r) ==
    /\ Kind[r] = "probe" /\ r \in Busy /\ disk # "ok" => r \in doubted
    /\ outcome[r] = "not_ready" \/ answer[r] = "not_ready" => r \in doubted
    /\ r \in scratch => work[r] \in {"scratched", "discarded"} \/ r \in doubted

ProbeInv == \A r \in Requests : ProbeOK(r)

\* What is recorded of a request, by how far it and its work are.
TrailOK(r) ==
    /\ phase[r] = "new" => trail[r] = <<>>
    /\ IF phase[r] = "answered"
       THEN \E i \in DOMAIN trail[r] : Entries(r, "span") = {i}
       ELSE Entries(r, "span") = {}
    /\ \/ Entries(r, "audit") = {}
       \/ /\ \E i \in DOMAIN trail[r] : Entries(r, "audit") = {i}
          /\ work[r] \in {"written", "ended", "discarded"}
    /\ \/ Entries(r, "revocation") = {}
       \/ /\ \E i \in DOMAIN trail[r] : Entries(r, "revocation") = {i}
          /\ work[r] \in {"revoked", "locked", "written", "ended", "discarded"}
    /\ Pending(r) => \A i \in Entries(r, "revocation") : trail[r][i].outcome = "success"
    /\ \A i \in Entries(r, "revocation"), j \in Entries(r, "audit") :
          i < j /\ trail[r][i].outcome = "success"
    /\ applied[r] = 1 <=> Succeeds(r, "audit")
    /\ r \in forgotten <=> Succeeds(r, "revocation")

TrailInv == \A r \in Requests : TrailOK(r)

\* The span and the audit line of a request name the caller its work runs for.
ActorOK(r) ==
    /\ Pending(r) => subject[r] = CurrentActor(r)
    /\ \A i \in Entries(r, "span"), j \in Entries(r, "audit") :
          trail[r][i].user = trail[r][j].user
    /\ phase[r] \in {"body", "parked"} \/ Pending(r) =>
          \A i \in Entries(r, "span") \union Entries(r, "audit") :
             trail[r][i].user = CurrentActor(r)

ActorInv == \A r \in Requests : ActorOK(r)

\* The counters belong to one process.
CountInv ==
    /\ \A r \in Requests : \A i \in Entries(r, "span") :
          /\ trail[r][i].start <= starts
          /\ stage \in Booting => trail[r][i].start < starts
    /\ ~Alive => counts = [c \in Classes |-> 0]
    /\ Serving => \A c \in Classes : counts[c] = Cardinality(CountedAs(c))

IInv ==
    /\ TypeOK /\ DepInv /\ FlightInv /\ WorkInv /\ OutcomeInv /\ AnswerInv
    /\ OrphansAreCutOff /\ ProbeInv /\ TrailInv /\ ActorInv /\ CountInv

(* -------------------------- facts about the rules ----------------------- *)

\* A concurrency bound that was read is a number, zero for no bound.
LEMMA CapType ==
    ASSUME NEW d \in Deployments, BoundsRead(d)
    PROVE  Guardrails(d).cap \in Nat
  <1> DEFINE raw == d.max_concurrency
  <1>1. raw \in {Unset, Blank, Junk} \/ (raw.is = "number" /\ raw.n \in Nat)
    BY DeploymentsAssumption DEF IsBound
  <1>2. ~IsErr(MaxConcurrencyFrom(raw))
    BY DEF BoundsRead
  <1> HIDE DEF raw
  <1>3. CASE raw \in {Unset, Blank}
    <2>1. raw # Junk /\ raw # Number(0)
      BY <1>3 DEF Unset, Blank, Junk, Number
    <2>2. MaxConcurrencyFrom(raw) = Ok(DefaultConcurrency)
      BY <1>3, <2>1 DEF MaxConcurrencyFrom, Bound
    <2> QED BY <2>2 DEF Ok, DefaultConcurrency, Guardrails, raw
  <1>4. CASE raw \notin {Unset, Blank} /\ raw = Junk
    <2>1. raw # Number(0)
      BY <1>4 DEF Junk, Number
    <2>2. MaxConcurrencyFrom(raw) = Err("not_a_number")
      BY <1>4, <2>1 DEF MaxConcurrencyFrom, Bound
    <2> QED BY <1>2, <2>2 DEF IsErr, Err
  <1>5. CASE raw \notin {Unset, Blank, Junk} /\ raw = Number(0)
    BY <1>5 DEF MaxConcurrencyFrom, Bound, Ok, NoBound, Guardrails, raw
  <1>6. CASE raw \notin {Unset, Blank, Junk} /\ raw # Number(0)
    <2>1. MaxConcurrencyFrom(raw) = Ok(raw.n)
      BY <1>6 DEF MaxConcurrencyFrom, Bound
    <2>2. raw.n \in Nat
      BY <1>1, <1>6
    <2> QED BY <2>1, <2>2 DEF Ok, Guardrails, raw
  <1> QED BY <1>3, <1>4, <1>5, <1>6

\* A log grows at its end.
LEMMA AppendFacts ==
    ASSUME NEW S, NEW s \in Seq(S), NEW x \in S
    PROVE  /\ Append(s, x) \in Seq(S)
           /\ Len(s) \in Nat
           /\ DOMAIN s = 1 .. Len(s)
           /\ DOMAIN Append(s, x) = DOMAIN s \union {Len(s) + 1}
           /\ Len(s) + 1 \notin DOMAIN s
           /\ \A i \in DOMAIN s : Append(s, x)[i] = s[i]
           /\ Append(s, x)[Len(s) + 1] = x
  OBVIOUS

\* What one request records adds to the entries of its kind, and to nobody else's.
LEMMA NoteFacts ==
    ASSUME TypeOK, NEW r \in Requests, NEW l \in Notes, Note(r, l)
    PROVE  /\ trail' \in [Requests -> Seq(Notes)]
           /\ \A q \in Requests \ {r} : trail'[q] = trail[q]
           /\ DOMAIN trail'[r] = DOMAIN trail[r] \union {Len(trail[r]) + 1}
           /\ \A i \in DOMAIN trail[r] : trail'[r][i] = trail[r][i] /\ i < Len(trail[r]) + 1
           /\ trail'[r][Len(trail[r]) + 1] = l
           /\ Len(trail[r]) + 1 \notin DOMAIN trail[r]
  <1>1. trail[r] \in Seq(Notes)
    BY DEF TypeOK
  <1>2. trail'[r] = Append(trail[r], l) /\ \A q \in Requests \ {r} : trail'[q] = trail[q]
    BY DEF TypeOK, Note
  <1>3. /\ trail'[r] \in Seq(Notes)
        /\ DOMAIN trail'[r] = DOMAIN trail[r] \union {Len(trail[r]) + 1}
        /\ Len(trail[r]) + 1 \notin DOMAIN trail[r]
        /\ \A i \in DOMAIN trail[r] : trail'[r][i] = trail[r][i]
        /\ trail'[r][Len(trail[r]) + 1] = l
    BY <1>1, <1>2, AppendFacts
  <1>4. \A i \in DOMAIN trail[r] : i < Len(trail[r]) + 1
    BY <1>1
  <1>5. trail' = [trail EXCEPT ![r] = Append(@, l)]
    BY DEF Note
  <1>6. trail' \in [Requests -> Seq(Notes)]
    BY <1>2, <1>3, <1>5 DEF TypeOK
  <1> QED BY <1>2, <1>3, <1>4, <1>6

\* The entries of each kind after that.
LEMMA EntryFacts ==
    ASSUME TypeOK, NEW r \in Requests, NEW l \in Notes, Note(r, l), NEW what
    PROVE  /\ Entries(r, what)' =
                IF l.what = what THEN Entries(r, what) \union {Len(trail[r]) + 1} ELSE Entries(r, what)
           /\ Succeeds(r, what)' <=>
                Succeeds(r, what) \/ (l.what = what /\ l.outcome = "success")
           /\ \A q \in Requests \ {r} : /\ Entries(q, what)' = Entries(q, what)
                                        /\ Succeeds(q, what)' <=> Succeeds(q, what)
  <1>1. /\ \A q \in Requests \ {r} : trail'[q] = trail[q]
        /\ DOMAIN trail'[r] = DOMAIN trail[r] \union {Len(trail[r]) + 1}
        /\ \A i \in DOMAIN trail[r] : trail'[r][i] = trail[r][i]
        /\ trail'[r][Len(trail[r]) + 1] = l
        /\ Len(trail[r]) + 1 \notin DOMAIN trail[r]
    BY NoteFacts
  <1>2. Entries(r, what)' =
           IF l.what = what THEN Entries(r, what) \union {Len(trail[r]) + 1} ELSE Entries(r, what)
    <2>1. \A i : i \in Entries(r, what)' <=>
             i \in Entries(r, what) \/ (i = Len(trail[r]) + 1 /\ l.what = what)
      BY <1>1 DEF Entries
    <2> QED BY <2>1
  <1>3. Entries(r, what) \subseteq DOMAIN trail[r]
    BY DEF Entries
  <1>4. Succeeds(r, what)' <=>
           Succeeds(r, what) \/ (l.what = what /\ l.outcome = "success")
    BY <1>1, <1>2, <1>3 DEF Succeeds
  <1>5. \A q \in Requests \ {r} : Entries(q, what)' = Entries(q, what)
    BY <1>1 DEF Entries
  <1>6. \A q \in Requests \ {r} : Succeeds(q, what)' <=> Succeeds(q, what)
    BY <1>1, <1>5 DEF Succeeds
  <1> QED BY <1>2, <1>4, <1>5, <1>6

\* The entry of a span has its fields.
LEMMA SpanTyped ==
    ASSUME TypeOK, NEW r \in Requests, NEW i \in Entries(r, "span")
    PROVE  trail[r][i] \in SpanNotes /\ trail[r][i].start \in Nat
  <1>1. trail[r][i] \in Notes /\ trail[r][i].what = "span"
    BY DEF TypeOK, Entries
  <1>2. trail[r][i] \in SpanNotes
    BY <1>1 DEF Notes, AuditNotes, RevocationNotes
  <1> QED BY <1>2 DEF SpanNotes

\* What is recorded stays as it is.
LEMMA SameTrail ==
    ASSUME UNCHANGED trail, NEW r, NEW what
    PROVE  Entries(r, what)' = Entries(r, what) /\ (Succeeds(r, what)' <=> Succeeds(r, what))
  BY DEF Entries, Succeeds

\* A step that records nothing and applies nothing.
LEMMA TrailFrame ==
    ASSUME UNCHANGED <<trail, applied, forgotten>>, NEW r, TrailOK(r),
           phase'[r] = "new" => phase[r] = "new",
           phase'[r] = "answered" <=> phase[r] = "answered",
           Pending(r)' => Pending(r) \/ work[r] = None,
           work[r] \in {"written", "ended", "discarded"} =>
              work'[r] \in {"written", "ended", "discarded"},
           work[r] \in {"revoked", "locked"} =>
              work'[r] \in {"revoked", "locked", "written", "ended", "discarded"}
    PROVE  TrailOK(r)'
  <1>1. \A what : Entries(r, what)' = Entries(r, what) /\ (Succeeds(r, what)' <=> Succeeds(r, what))
    BY SameTrail
  <1>2. work[r] = None => Entries(r, "revocation") = {}
    BY DEF TrailOK, None
  <1> QED BY <1>1, <1>2, SMTT(40) DEF TrailOK

\* A line of the audit trail counts for no status class.
LEMMA AuditUncounted ==
    ASSUME TypeOK, NEW r \in Requests, NEW l \in AuditNotes \union RevocationNotes,
           starts' = starts, Note(r, l), NEW c
    PROVE  CountedAs(c)' = CountedAs(c)
  <1>1. l.what # "span" /\ l \in Notes
    BY DEF AuditNotes, RevocationNotes, Notes
  <1>2. \A q \in Requests : Entries(q, "span")' = Entries(q, "span")
    BY <1>1, EntryFacts
  <1>3. \A q \in Requests : \A i \in Entries(q, "span") : trail'[q][i] = trail[q][i]
    BY <1>1, NoteFacts DEF Entries
  <1> QED BY <1>2, <1>3 DEF CountedAs, StatusClass

\* The fields of a span count once, for the class of the answer.
LEMMA RequestCounted ==
    ASSUME TypeOK, NEW r \in Requests, NEW l \in SpanNotes, starts' = starts,
           l.start = starts, Note(r, l), NEW c
    PROVE  CountedAs(c)' = IF c = StatusClass(l.outcome) THEN CountedAs(c) \union {r}
                                                         ELSE CountedAs(c)
  <1>1. l.what = "span" /\ l \in Notes
    BY DEF SpanNotes, Notes
  <1>2. \A q \in Requests \ {r} : q \in CountedAs(c)' <=> q \in CountedAs(c)
    <2>1. \A q \in Requests \ {r} : Entries(q, "span")' = Entries(q, "span")
      BY <1>1, EntryFacts
    <2>2. \A q \in Requests \ {r} : trail'[q] = trail[q]
      BY <1>1, NoteFacts
    <2> QED BY <2>1, <2>2 DEF CountedAs
  <1>3. r \in CountedAs(c)' <=> r \in CountedAs(c) \/ c = StatusClass(l.outcome)
    <2>1. /\ Entries(r, "span")' = Entries(r, "span") \union {Len(trail[r]) + 1}
          /\ trail'[r][Len(trail[r]) + 1] = l
      BY <1>1, EntryFacts, NoteFacts
    <2>2. \A i \in Entries(r, "span") : trail'[r][i] = trail[r][i]
      BY <1>1, NoteFacts DEF Entries
    <2> QED BY <2>1, <2>2 DEF CountedAs
  <1>4. CountedAs(c) \subseteq Requests /\ CountedAs(c)' \subseteq Requests
    BY DEF CountedAs
  <1> QED BY <1>2, <1>3, <1>4

\* Requests, and any set of them, are finitely many.
LEMMA FiniteRequests ==
    /\ IsFiniteSet(InFlight) /\ Cardinality(InFlight) \in Nat
    /\ \A c : IsFiniteSet(CountedAs(c)) /\ Cardinality(CountedAs(c)) \in Nat
  <1>1. \A S : S \subseteq Requests => IsFiniteSet(S) /\ Cardinality(S) \in Nat
    BY ServiceConstants, FS_Subset, FS_CardinalityType
  <1>2. InFlight \subseteq Requests /\ \A c : CountedAs(c) \subseteq Requests
    BY DEF InFlight, CountedAs
  <1> QED BY <1>1, <1>2

(* ---------------------------- starts and stops -------------------------- *)

\* A process that was never started.
LEMMA InitInv == Init => IInv
  <1> SUFFICES ASSUME Init PROVE IInv
    OBVIOUS
  <1>1. <<>> \in Seq(Notes) /\ DOMAIN <<>> = {}
    OBVIOUS
  <1>2. TypeOK
    BY <1>1 DEF Init, TypeOK, Stages, NoLimits, NoBound, Phases, Answers, Works, Outcomes, Users
  <1>3. DepInv /\ FlightInv
    BY DEF Init, DepInv, FlightInv, Booting, Serving, InFlight, PermitsBoundRequests
  <1>4. WorkInv /\ OutcomeInv /\ AnswerInv /\ OrphansAreCutOff
    BY DEF Init, WorkInv, WorkOK, OutcomeInv, OutcomeOK, AnswerInv, OrphansAreCutOff, Pending, None
  <1>5. ProbeInv
    BY DEF Init, ProbeInv, ProbeOK, None
  <1>6. \A r \in Requests : \A what : Entries(r, what) = {}
    BY <1>1 DEF Init, Entries
  <1>7. TrailInv
    BY <1>6 DEF Init, TrailInv, TrailOK, Succeeds
  <1>8. ActorInv /\ CountInv
    BY <1>6 DEF Init, ActorInv, ActorOK, CountInv, Pending, Serving
  <1> QED BY <1>2, <1>3, <1>4, <1>5, <1>6, <1>7, <1>8 DEF IInv

\* The steps of a start touch no request, whose futures and work are all gone.
LEMMA BootFrame ==
    ASSUME IInv, ~Alive, UNCHANGED <<starts, phase, answer, counts, pool, volume, trail>>,
           stage' \in Booting \union {"refused", "serving"},
           stage' \in Booting \union {"refused"} => UNCHANGED <<limits, available>>,
           stage' \in Booting => dep' \in Deployments,
           stage \in Booting,
           stage' = "serving" => /\ limits'.cap \in Nat /\ available' \in Int
                                 /\ limits'.cap # NoBound => available' = limits'.cap
    PROVE  IInv'
  <1>1. UNCHANGED <<work, outcome, subject, applied, forgotten, lock, disk, faults, scratch, doubted>>
    BY DEF pool, volume
  <1>2. TypeOK'
    BY <1>1 DEF IInv, TypeOK, Stages
  <1>3. DepInv'
    BY DEF DepInv
  <1>4. InFlight = {} /\ InFlight' = {}
    BY DEF IInv, FlightInv, InFlight, Alive, Serving
  <1>5. FlightInv'
    <2>1. Cardinality(InFlight') = 0
      BY <1>4, FS_EmptySet
    <2>2. Serving' => stage' = "serving"
      BY DEF Serving, Booting
    <2> QED BY <1>4, <2>1, <2>2 DEF FlightInv, PermitsBoundRequests
  <1>6. \A r \in Requests : ~Pending(r) /\ ~Pending(r)' /\ phase[r] \notin {"body", "parked"}
    BY <1>1, <1>4 DEF IInv, WorkInv, WorkOK, Pending, InFlight
  <1>7. WorkInv' /\ OutcomeInv' /\ AnswerInv'
    BY <1>1, <1>6 DEF IInv, WorkInv, WorkOK, OutcomeInv, OutcomeOK, AnswerInv, Pending, None
  <1>8. OrphansAreCutOff'
    BY <1>1, <1>6 DEF IInv, OrphansAreCutOff
  <1>9. ProbeInv'
    BY <1>1 DEF IInv, ProbeInv, ProbeOK, Busy
  <1>10. TrailInv'
    BY <1>1, <1>6, TrailFrame DEF IInv, TrailInv
  <1>11. ActorInv'
    BY <1>1, <1>6, SameTrail DEF IInv, ActorInv, ActorOK
  <1>12. CountInv'
    <2>1. \A c \in Classes : CountedAs(c) = {} /\ CountedAs(c)' = {}
      BY SameTrail DEF IInv, TypeOK, CountInv, CountedAs, SpanNotes, Entries
    <2>2. \A c \in Classes : counts'[c] = 0 /\ Cardinality(CountedAs(c)') = 0
      BY <2>1, FS_EmptySet DEF IInv, CountInv
    <2>3. counts' = [c \in Classes |-> 0]
      BY DEF IInv, CountInv
    <2>4. \A r \in Requests : \A i \in Entries(r, "span")' :
             trail'[r][i].start <= starts' /\ trail'[r][i].start < starts'
      BY SameTrail DEF IInv, CountInv
    <2> QED BY <2>2, <2>3, <2>4 DEF CountInv
  <1> QED
    BY <1>2, <1>3, <1>5, <1>7, <1>8, <1>9, <1>10, <1>11, <1>12 DEF IInv

\* Whatever a start makes of its settings and its volume, the invariant stays.
LEMMA BootStepInv ==
    ASSUME IInv, BootStep
    PROVE  IInv'
  <1>1. stage \in Booting /\ ~Alive /\ dep \in Deployments
    BY DEF IInv, DepInv, BootStep, LoadSettings, OpenRepository, Configure,
           EnsureBootstrapUser, Bind, Booting, Alive, Serving
  <1>2. CASE LoadSettings
    BY <1>1, <1>2, BootFrame DEF LoadSettings, Refuse, Proceed, Booting, front
  <1>3. CASE OpenRepository
    BY <1>1, <1>3, BootFrame DEF OpenRepository, Refuse, Proceed, Booting, front
  <1>4. CASE Configure
    BY <1>1, <1>4, BootFrame DEF Configure, Refuse, Booting, front
  <1>5. CASE EnsureBootstrapUser
    BY <1>1, <1>5, BootFrame DEF EnsureBootstrapUser, Refuse, Proceed, Booting, front
  <1>6. ASSUME NEW free \in BOOLEAN, Bind(free) PROVE IInv'
    <2>1. CASE BoundsRead(dep) /\ free
      <3>1. Uncapped \in Nat
        BY ServiceConstants, FS_CardinalityType DEF Uncapped
      <3>2. limits'.cap \in Nat /\ limits' = Guardrails(dep)
        BY <1>1, <1>6, <2>1, CapType DEF Bind
      <3> QED BY <1>1, <1>6, <2>1, <3>1, <3>2, BootFrame DEF Bind, Booting
    <2>2. CASE ~(BoundsRead(dep) /\ free)
      BY <1>1, <1>6, <2>2, BootFrame DEF Bind, Refuse, Booting
    <2> QED BY <2>1, <2>2
  <1> QED BY <1>2, <1>3, <1>4, <1>5, <1>6 DEF BootStep

\* A new start counts from zero: no line logged so far is of it.
LEMMA StartInv ==
    ASSUME IInv, NEW d \in Deployments, Start(d)
    PROVE  IInv'
  <1>1. /\ stage \in {"off", "refused"} /\ stage' = "start" /\ dep' = d
        /\ starts \in Nat /\ starts' = starts + 1 /\ ~Alive
        /\ UNCHANGED <<auth, limits, available, phase, answer, counts, work, outcome, subject,
                       applied, forgotten, lock, disk, faults, scratch, doubted, trail>>
    BY DEF IInv, TypeOK, Start, Alive, Serving, front, pool, volume
  <1>2. TypeOK'
    BY <1>1 DEF IInv, TypeOK, Stages, Booting
  <1>3. DepInv' /\ FlightInv'
    BY <1>1 DEF IInv, DepInv, FlightInv, PermitsBoundRequests, Serving, InFlight
  <1>4. \A r \in Requests : ~Pending(r) /\ ~Pending(r)' /\ phase[r] \notin {"body", "parked"}
    BY <1>1 DEF IInv, FlightInv, WorkInv, WorkOK, Pending, InFlight, Serving
  <1>5. WorkInv' /\ OutcomeInv' /\ AnswerInv'
    BY <1>1, <1>4 DEF IInv, WorkInv, WorkOK, OutcomeInv, OutcomeOK, AnswerInv, Pending, None
  <1>6. OrphansAreCutOff'
    BY <1>1, <1>4 DEF IInv, OrphansAreCutOff
  <1>7. ProbeInv' /\ TrailInv'
    BY <1>1, <1>4, TrailFrame DEF IInv, ProbeInv, ProbeOK, Busy, TrailInv
  <1>8. ActorInv'
    BY <1>1, <1>4, SameTrail DEF IInv, ActorInv, ActorOK
  <1>9. CountInv'
    <2>1. \A r \in Requests : \A i \in Entries(r, "span")' :
             trail'[r][i].start <= starts' /\ trail'[r][i].start < starts'
      <3>1. \A r \in Requests : \A i \in Entries(r, "span") :
               trail[r][i].start \in Nat /\ trail[r][i].start <= starts
        BY SpanTyped DEF IInv, CountInv
      <3> QED BY <1>1, <3>1, SameTrail
    <2> QED BY <1>1, <2>1 DEF IInv, CountInv, Serving
  <1> QED BY <1>2, <1>3, <1>5, <1>6, <1>7, <1>8, <1>9 DEF IInv

\* The signal closes the door and touches nothing in flight.
LEMMA ShutdownSignalInv ==
    ASSUME IInv, ShutdownSignal
    PROVE  IInv'
  <1>1. /\ stage = "serving" /\ stage' = "draining"
        /\ UNCHANGED <<starts, auth, limits, available, phase, answer, counts, work, outcome,
                       subject, applied, forgotten, lock, disk, faults, scratch, doubted, trail>>
    BY DEF ShutdownSignal, front, pool, volume
  <1>2. Serving /\ Serving' /\ Alive /\ Alive'
    BY <1>1 DEF Serving, Alive
  <1>3. TypeOK' /\ DepInv'
    BY <1>1 DEF IInv, TypeOK, Stages, DepInv, Booting
  <1>4. FlightInv'
    BY <1>1, <1>2 DEF IInv, FlightInv, PermitsBoundRequests, InFlight
  <1>5. WorkInv' /\ OutcomeInv' /\ AnswerInv' /\ OrphansAreCutOff'
    BY <1>1, <1>2 DEF IInv, WorkInv, WorkOK, OutcomeInv, OutcomeOK, AnswerInv, OrphansAreCutOff, Pending
  <1>6. ProbeInv' /\ TrailInv'
    BY <1>1, TrailFrame DEF IInv, ProbeInv, ProbeOK, Busy, TrailInv, Pending
  <1>7. ActorInv'
    BY <1>1, SameTrail DEF IInv, ActorInv, ActorOK, Pending, CurrentActor
  <1>8. CountInv'
    BY <1>1, <1>2, SameTrail DEF IInv, CountInv, CountedAs, Booting
  <1> QED BY <1>3, <1>4, <1>5, <1>6, <1>7, <1>8 DEF IInv

\* The last connection ended: what no thread has begun belongs to requests that
\* were cut off or left.
LEMMA DrainedInv ==
    ASSUME IInv, Drained
    PROVE  IInv'
  <1>1. /\ stage = "draining" /\ stage' = "stopping" /\ InFlight = {}
        /\ work' = [r \in Requests |-> IF work[r] = "queued" THEN "discarded" ELSE work[r]]
        /\ UNCHANGED <<starts, auth, limits, available, phase, answer, counts, outcome,
                       subject, applied, forgotten, lock, disk, faults, scratch, doubted, trail>>
    BY DEF Drained, front, volume
  <1>2. Serving /\ ~Serving' /\ Alive /\ Alive'
    BY <1>1 DEF Serving, Alive
  <1>3. TypeOK' /\ DepInv'
    BY <1>1 DEF IInv, TypeOK, Stages, Works, DepInv, Booting
  <1>4. FlightInv'
    BY <1>1, <1>2 DEF IInv, FlightInv, PermitsBoundRequests, InFlight
  <1>5. \A r \in Requests : phase[r] \notin {"body", "parked"}
    BY <1>1 DEF InFlight
  <1>6. WorkInv' /\ OutcomeInv'
    BY <1>1, <1>2, <1>5 DEF IInv, TypeOK, WorkInv, WorkOK, OutcomeInv, OutcomeOK, Pending, None
  <1>7. AnswerInv' /\ OrphansAreCutOff'
    BY <1>1, <1>5 DEF IInv, AnswerInv, OrphansAreCutOff, None
  <1>8. ProbeInv'
    BY <1>1 DEF IInv, ProbeInv, ProbeOK, Busy, None
  <1>9. TrailInv'
    BY <1>1, TrailFrame DEF IInv, TrailInv, Pending
  <1>10. ActorInv'
    BY <1>1, <1>5, SameTrail DEF IInv, ActorInv, ActorOK, Pending, CurrentActor
  <1>11. CountInv'
    BY <1>1, <1>2, SameTrail DEF IInv, CountInv, Booting
  <1> QED
    BY <1>3, <1>4, <1>6, <1>7, <1>8, <1>9, <1>10, <1>11 DEF IInv

\* The process is gone and its counters with it; nothing is in flight or at work.
LEMMA DownFrame ==
    ASSUME IInv, Down, UNCHANGED <<starts, answer, applied, forgotten, volume, trail>>,
           phase' \in [Requests -> Phases], work' \in [Requests -> Works],
           outcome' \in [Requests -> Outcomes], subject' \in [Requests -> Users],
           \A r \in Requests :
              /\ phase'[r] \notin {"body", "parked"}
              /\ phase'[r] = phase[r] \/ (phase'[r] = "gone" /\ phase[r] \in {"body", "parked"})
              /\ IF Pending(r) THEN work'[r] = "discarded" ELSE work'[r] = work[r]
              /\ outcome'[r] = None \/ (outcome'[r] = outcome[r] /\ ~Pending(r))
    PROVE  IInv'
  <1>1. /\ stage' = "off" /\ available' = 0 /\ counts' = [c \in Classes |-> 0]
        /\ limits'.cap \in Nat
        /\ UNCHANGED <<disk, faults, scratch, doubted>>
    BY DEF Down, NoLimits, NoBound, volume
  <1>2. ~Serving' /\ ~Alive' /\ stage' \notin Booting
    BY <1>1 DEF Serving, Alive, Booting
  <1>3. TypeOK' /\ DepInv'
    BY <1>1, <1>2 DEF IInv, TypeOK, Stages, DepInv
  <1>4. FlightInv'
    BY <1>2 DEF FlightInv, PermitsBoundRequests, InFlight
  <1>5. WorkInv'
    BY <1>2 DEF IInv, WorkInv, WorkOK, Pending, None
  <1>6. OutcomeInv'
    BY DEF IInv, WorkInv, WorkOK, OutcomeInv, OutcomeOK, Pending, None
  <1>7. AnswerInv'
    BY DEF IInv, AnswerInv, Pending, None
  <1>8. OrphansAreCutOff'
    BY DEF IInv, OrphansAreCutOff, AnswerInv, Pending, None
  <1>9. ProbeInv'
    BY <1>1 DEF IInv, ProbeInv, ProbeOK, Busy, Pending, None
  <1>10. TrailInv'
    BY TrailFrame DEF IInv, TrailInv, Pending
  <1>11. ActorInv'
    BY SameTrail DEF IInv, ActorInv, ActorOK, Pending
  <1>12. CountInv'
    BY SameTrail, <1>1, <1>2 DEF IInv, CountInv
  <1> QED
    BY <1>3, <1>4, <1>5, <1>6, <1>7, <1>8, <1>9, <1>10, <1>11, <1>12 DEF IInv

\* A drained process exits when its threads are done.
LEMMA ExitInv ==
    ASSUME IInv, Exit
    PROVE  IInv'
  <1>1. /\ stage = "stopping" /\ Busy = {} /\ Down
        /\ UNCHANGED <<starts, phase, answer, work, outcome, subject, applied, forgotten, volume, trail>>
    BY DEF Exit, pool
  <1>2. \A r \in Requests : ~Pending(r) /\ phase[r] \notin {"body", "parked"}
    BY <1>1 DEF IInv, FlightInv, WorkInv, WorkOK, Pending, InFlight, Serving, Busy, None
  <1> QED BY <1>1, <1>2, DownFrame DEF IInv, TypeOK

\* A killed process takes every future and every closure with it.
LEMMA KillInv ==
    ASSUME IInv, Kill
    PROVE  IInv'
  <1>1. \A r \in Requests : Pending(r) <=> r \in Busy \/ work[r] = "queued"
    BY DEF Pending, Busy, None
  <1>2. \A r \in Requests : r \in InFlight <=> phase[r] \in {"body", "parked"}
    BY DEF InFlight
  <1>3. /\ phase' = [r \in Requests |-> IF r \in InFlight THEN "gone" ELSE phase[r]]
        /\ work' = [r \in Requests |-> IF Pending(r) THEN "discarded" ELSE work[r]]
        /\ outcome' = [r \in Requests |-> None] /\ subject' = [r \in Requests |-> Anonymous]
        /\ Down /\ UNCHANGED <<starts, answer, applied, forgotten, volume, trail>>
    BY <1>1 DEF Kill
  <1>4. /\ phase' \in [Requests -> Phases] /\ work' \in [Requests -> Works]
        /\ outcome' \in [Requests -> Outcomes] /\ subject' \in [Requests -> Users]
    BY <1>3 DEF IInv, TypeOK, Phases, Works, Outcomes, Users
  <1> QED BY <1>2, <1>3, <1>4, DownFrame

\* The volume changes under the process: every probe under way is doubted.
LEMMA DiskChangesInv ==
    ASSUME IInv, NEW to \in {"ok", "readonly", "missing"}, DiskChanges(to)
    PROVE  IInv'
  <1>1. /\ disk' = to /\ doubted' = doubted \union Probing
        /\ UNCHANGED <<stage, dep, starts, auth, limits, available, phase, answer, counts, work,
                       outcome, subject, applied, forgotten, scratch, trail>>
    BY DEF DiskChanges, boot, front, pool
  <1>2. TypeOK' /\ DepInv'
    BY <1>1 DEF IInv, TypeOK, DepInv, Probing, Busy
  <1>3. FlightInv' /\ WorkInv' /\ OutcomeInv' /\ AnswerInv' /\ OrphansAreCutOff'
    BY <1>1 DEF IInv, FlightInv, PermitsBoundRequests, InFlight, WorkInv, WorkOK, OutcomeInv, OutcomeOK, AnswerInv,
                OrphansAreCutOff, Pending, Serving, Alive
  <1>4. ProbeInv'
    BY <1>1 DEF IInv, ProbeInv, ProbeOK, Probing, Busy
  <1>5. TrailInv' /\ ActorInv'
    BY <1>1, TrailFrame, SameTrail DEF IInv, TrailInv, ActorInv, ActorOK, Pending, CurrentActor
  <1>6. CountInv'
    <2>1. \A c : CountedAs(c)' = CountedAs(c)
      BY <1>1, SameTrail DEF CountedAs
    <2> QED BY <1>1, <2>1, SameTrail DEF IInv, CountInv, Serving, Alive
  <1> QED BY <1>2, <1>3, <1>4, <1>5, <1>6 DEF IInv

\* Nothing happens.
LEMMA StutterInv ==
    ASSUME IInv, UNCHANGED vars
    PROVE  IInv'
  <1>1. UNCHANGED <<stage, dep, starts, auth, limits, available, phase, answer, counts, work,
                    outcome, subject, applied, forgotten, disk, scratch, doubted, trail>>
    BY DEF vars, boot, front, pool, volume
  <1>2. TypeOK' /\ DepInv' /\ ProbeInv'
    BY <1>1 DEF IInv, TypeOK, DepInv, ProbeInv, ProbeOK, Busy
  <1>3. FlightInv' /\ WorkInv' /\ OutcomeInv' /\ AnswerInv' /\ OrphansAreCutOff'
    BY <1>1 DEF IInv, FlightInv, PermitsBoundRequests, InFlight, WorkInv, WorkOK, OutcomeInv, OutcomeOK, AnswerInv,
                OrphansAreCutOff, Pending, Serving, Alive
  <1>4. TrailInv' /\ ActorInv'
    BY <1>1, TrailFrame, SameTrail DEF IInv, TrailInv, ActorInv, ActorOK, Pending, CurrentActor
  <1>5. CountInv'
    <2>1. \A c : CountedAs(c)' = CountedAs(c)
      BY <1>1, SameTrail DEF CountedAs
    <2> QED BY <1>1, <2>1, SameTrail DEF IInv, CountInv, Serving, Alive
  <1> QED BY <1>2, <1>3, <1>4, <1>5 DEF IInv

(* ------------------------------- requests ------------------------------- *)

\* A request that leaves gives its permit back, and one that never had a permit
\* gives none.
LEMMA ReleaseFacts ==
    ASSUME IInv, NEW r \in Requests, Serving, Release(r), UNCHANGED <<stage, limits>>,
           NEW to \in {"answered", "gone"}, phase' = [phase EXCEPT ![r] = to]
    PROVE  FlightInv' /\ available' \in Int
  <1>1. InFlight' = InFlight \ {r}
    BY DEF IInv, TypeOK, InFlight
  <1>2. /\ Cardinality(InFlight) \in Nat
        /\ Cardinality(InFlight') = IF r \in InFlight THEN Cardinality(InFlight) - 1
                                                      ELSE Cardinality(InFlight)
    BY <1>1, FiniteRequests, FS_RemoveElement
  <1>3. Holds(r) <=> r \in InFlight /\ limits.cap # NoBound
    BY DEF Holds, InFlight
  <1>4. available \in Int /\ limits.cap \in Nat /\ PermitsBoundRequests
    BY DEF IInv, TypeOK, FlightInv
  <1>5. available' = IF Holds(r) THEN available + 1 ELSE available
    BY DEF Release
  <1> QED
    BY <1>2, <1>3, <1>4, <1>5 DEF FlightInv, PermitsBoundRequests, Serving

\* An answer, whatever it is: the permit goes back, one line is logged and one
\* counter moves.
LEMMA AnswerFrame ==
    ASSUME IInv, NEW r \in Requests, Serving, phase[r] \in {"new", "body", "parked"},
           NEW a \in Answers \ {None}, Answer(r, a),
           UNCHANGED <<boot, work, subject, applied, forgotten, volume>>,
           outcome' \in [Requests -> Outcomes],
           \A q \in Requests : q # r => outcome'[q] = outcome[q],
           outcome'[r] \in {outcome[r], None},
           a \in {"at_limit", "too_large", "unauthenticated"} => work[r] = None,
           a \in {"rejected", "busy"} => work[r] = "ended" /\ applied[r] = 0,
           a = "ok" => applied[r] = 1,
           a = "not_ready" => r \in doubted,
           work[r] \in {None, "ended"} \/ a = "cut_off",
           work[r] \notin {"holding", "writing", "scratched"} \/ UNCHANGED outcome
    PROVE  IInv'
  <1> DEFINE l == SpanFields(r, a)
  <1>1. /\ UNCHANGED <<stage, dep, starts, auth, limits, disk, scratch, doubted>>
        /\ phase' = [phase EXCEPT ![r] = "answered"]
        /\ answer' = [answer EXCEPT ![r] = a]
        /\ counts' = [counts EXCEPT ![StatusClass(a)] = @ + 1]
        /\ Note(r, l)
        /\ Release(r)
    BY DEF Answer, Record, boot, volume
  <1>2. TypeOK /\ CurrentActor(r) \in Users /\ starts \in Nat /\ StatusClass(a) \in Classes
    BY DEF IInv, TypeOK, CurrentActor, Users, StatusClass, Classes
  <1>3. /\ l \in SpanNotes /\ l \in Notes /\ l.what = "span" /\ l.user = CurrentActor(r)
        /\ l.outcome = a /\ l.start = starts
    BY <1>2 DEF SpanFields, SpanNotes, Notes
  <1> HIDE DEF l
  <1>4. FlightInv' /\ available' \in Int
    BY <1>1, ReleaseFacts
  <1>5. TypeOK'
    <2>1. trail' \in [Requests -> Seq(Notes)]
      BY <1>1, <1>2, <1>3, NoteFacts
    <2> QED BY <1>1, <1>2, <1>4, <2>1 DEF TypeOK, Phases
  <1>6. DepInv'
    BY <1>1 DEF IInv, DepInv
  <1>7. \A q \in Requests : q # r => phase'[q] = phase[q] /\ answer'[q] = answer[q]
    BY <1>1, <1>2 DEF TypeOK
  <1>8. phase'[r] = "answered" /\ answer'[r] = a
    BY <1>1, <1>2 DEF TypeOK
  <1>9. WorkInv'
    BY <1>1, <1>7, <1>8 DEF IInv, WorkInv, WorkOK, Pending, Alive, Serving
  <1>10. OutcomeInv'
    BY <1>1, <1>7, <1>8 DEF IInv, OutcomeInv, OutcomeOK, None
  <1>11. AnswerInv' /\ OrphansAreCutOff'
    BY <1>1, <1>7, <1>8 DEF IInv, AnswerInv, OrphansAreCutOff, Serving
  <1>12. ProbeInv'
    BY <1>1, <1>7, <1>8 DEF IInv, ProbeInv, ProbeOK, Busy, None
  <1>13. /\ Entries(r, "span") = {} /\ Entries(r, "span")' = {Len(trail[r]) + 1}
         /\ Entries(r, "audit")' = Entries(r, "audit")
         /\ Entries(r, "revocation")' = Entries(r, "revocation")
         /\ Succeeds(r, "audit")' <=> Succeeds(r, "audit")
         /\ Succeeds(r, "revocation")' <=> Succeeds(r, "revocation")
         /\ DOMAIN trail'[r] = DOMAIN trail[r] \union {Len(trail[r]) + 1}
         /\ \A i \in DOMAIN trail[r] : trail'[r][i] = trail[r][i]
         /\ trail'[r][Len(trail[r]) + 1] = l
    <2>1. Entries(r, "span") = {}
      BY DEF IInv, TrailInv, TrailOK
    <2>2. Entries(r, "span")' = Entries(r, "span") \union {Len(trail[r]) + 1}
      BY <1>1, <1>2, <1>3, EntryFacts
    <2>3. /\ DOMAIN trail'[r] = DOMAIN trail[r] \union {Len(trail[r]) + 1}
          /\ \A i \in DOMAIN trail[r] : trail'[r][i] = trail[r][i]
          /\ trail'[r][Len(trail[r]) + 1] = l
      BY <1>1, <1>2, <1>3, NoteFacts
    <2>4. Entries(r, "audit")' = Entries(r, "audit") /\ (Succeeds(r, "audit")' <=> Succeeds(r, "audit"))
      BY <1>1, <1>2, <1>3, EntryFacts
    <2>5. /\ Entries(r, "revocation")' = Entries(r, "revocation")
          /\ Succeeds(r, "revocation")' <=> Succeeds(r, "revocation")
      BY <1>1, <1>2, <1>3, EntryFacts
    <2> QED BY <2>1, <2>2, <2>3, <2>4, <2>5
  <1>14. \A q \in Requests \ {r} :
            /\ trail'[q] = trail[q]
            /\ \A what : /\ Entries(q, what)' = Entries(q, what)
                         /\ Succeeds(q, what)' <=> Succeeds(q, what)
    BY <1>1, <1>2, <1>3, NoteFacts, EntryFacts
  <1>15. TrailInv'
    <2>1. TrailOK(r)'
      <3>1. \A i \in Entries(r, "audit") \union Entries(r, "revocation") : trail'[r][i] = trail[r][i]
        BY <1>13 DEF Entries
      <3>2. TrailOK(r)
        BY DEF IInv, TrailInv
      <3>3. (Pending(r)' <=> Pending(r)) /\ UNCHANGED <<work, applied, forgotten>>
        BY <1>1 DEF Pending
      <3> QED BY <1>8, <1>13, <3>1, <3>2, <3>3, SMTT(40) DEF TrailOK
    <2>2. ASSUME NEW q \in Requests, q # r PROVE TrailOK(q)'
      <3>1. TrailOK(q) /\ phase'[q] = phase[q] /\ (Pending(q)' <=> Pending(q))
        BY <1>7, <2>2 DEF IInv, TrailInv, Pending
      <3> QED BY <1>14, <2>2, <3>1, SMTT(40) DEF TrailOK
    <2> QED BY <2>1, <2>2 DEF TrailInv
  <1>16. ActorInv'
    <2>1. \A q \in Requests : CurrentActor(q)' = CurrentActor(q) /\ (Pending(q)' <=> Pending(q))
      BY <1>1 DEF CurrentActor, Pending
    <2>2. \A i \in Entries(r, "audit") : trail[r][i].user = CurrentActor(r)
      BY <1>2 DEF IInv, TrailInv, TrailOK, ActorInv, ActorOK, Entries
    <2>3. \A i \in Entries(r, "span")' \union Entries(r, "audit")' : trail'[r][i].user = CurrentActor(r)
      BY <1>3, <1>13, <2>2 DEF Entries
    <2>4. ActorOK(r)'
      BY <2>1, <2>3 DEF IInv, ActorInv, ActorOK
    <2>5. ASSUME NEW q \in Requests, q # r PROVE ActorOK(q)'
      BY <1>7, <1>14, <2>1, <2>5 DEF IInv, ActorInv, ActorOK
    <2> QED BY <2>4, <2>5 DEF ActorInv
  <1>17. CountInv'
    <2>1. \A c \in Classes : r \notin CountedAs(c)
      BY <1>13 DEF CountedAs
    <2>2. \A c \in Classes : Cardinality(CountedAs(c)') =
             IF c = StatusClass(a) THEN Cardinality(CountedAs(c)) + 1 ELSE Cardinality(CountedAs(c))
      <3> SUFFICES ASSUME NEW c \in Classes
                   PROVE  Cardinality(CountedAs(c)') = IF c = StatusClass(a)
                                                       THEN Cardinality(CountedAs(c)) + 1
                                                       ELSE Cardinality(CountedAs(c))
        OBVIOUS
      <3>1. CountedAs(c)' = IF c = StatusClass(a) THEN CountedAs(c) \union {r} ELSE CountedAs(c)
        BY <1>1, <1>2, <1>3, RequestCounted
      <3>2. IsFiniteSet(CountedAs(c))
        BY FiniteRequests
      <3>3. Cardinality(CountedAs(c) \union {r}) = Cardinality(CountedAs(c)) + 1
        BY <2>1, <3>2, FS_AddElement
      <3>4. CASE c = StatusClass(a)
        BY <3>1, <3>3, <3>4
      <3>5. CASE c # StatusClass(a)
        BY <3>1, <3>5
      <3> QED BY <3>4, <3>5
    <2>3. \A c \in Classes : counts'[c] = IF c = StatusClass(a) THEN counts[c] + 1 ELSE counts[c]
      BY <1>1, <1>2 DEF TypeOK
    <2>4. \A q \in Requests : \A i \in Entries(q, "span")' : trail'[q][i].start <= starts
      BY <1>2, <1>3, <1>13, <1>14 DEF IInv, CountInv
    <2>5. stage' \notin Booting /\ Serving' /\ Alive'
      BY <1>1 DEF Serving, Booting, Alive
    <2> QED BY <1>1, <2>2, <2>3, <2>4, <2>5 DEF IInv, CountInv
  <1> QED
    BY <1>4, <1>5, <1>6, <1>9, <1>10, <1>11, <1>12, <1>15, <1>16, <1>17 DEF IInv

\* A step of a request's future that answers nothing: it takes a permit, parks
\* its work, or is dropped.
LEMMA FutureFrame ==
    ASSUME IInv, NEW r \in Requests, Serving, phase[r] \in {"new", "body", "parked"},
           NEW to \in {"body", "parked", "gone"}, phase' = [phase EXCEPT ![r] = to],
           UNCHANGED <<boot, answer, counts, outcome, applied, forgotten, volume, trail>>,
           available' \in Int, FlightInv',
           work' \in [Requests -> Works], subject' \in [Requests -> Users],
           \A q \in Requests : q # r => work'[q] = work[q] /\ subject'[q] = subject[q],
           \/ to = "body" /\ phase[r] = "new" /\ UNCHANGED <<work, subject>>
           \/ to = "parked" /\ phase[r] = "body" /\ work'[r] = "queued"
              /\ subject'[r] = CurrentActor(r)
           \/ to = "gone" /\ phase[r] # "new" /\ UNCHANGED <<work, subject>>
    PROVE  IInv'
  <1>1. UNCHANGED <<stage, dep, starts, auth, limits, disk, scratch, doubted>>
    BY DEF boot, volume
  <1>2. TypeOK'
    BY <1>1 DEF IInv, TypeOK, Phases
  <1>3. DepInv'
    BY <1>1 DEF IInv, DepInv
  <1>4. phase'[r] = to /\ \A q \in Requests : q # r => phase'[q] = phase[q]
    BY DEF IInv, TypeOK
  <1>5. WorkInv'
    <2>1. Alive /\ Alive' /\ Serving'
      BY <1>1 DEF Alive, Serving
    <2>2. work'[r] = "queued" \/ work'[r] = work[r]
      OBVIOUS
    <2>3. applied[r] = 1 => phase[r] # "body"
      BY DEF IInv, WorkInv, WorkOK, None
    <2> QED BY <1>1, <1>4, <2>1, <2>2, <2>3 DEF IInv, WorkInv, WorkOK, Pending, None
  <1>6. OutcomeInv'
    BY <1>1, <1>4 DEF IInv, WorkInv, WorkOK, OutcomeInv, OutcomeOK, None
  <1>7. AnswerInv'
    BY <1>1, <1>4 DEF IInv, AnswerInv, None
  <1>8. OrphansAreCutOff'
    BY <1>1, <1>4 DEF IInv, WorkInv, WorkOK, OrphansAreCutOff, Serving
  <1>9. ProbeInv'
    BY <1>1, <1>4 DEF IInv, WorkInv, WorkOK, ProbeInv, ProbeOK, Busy, None
  <1>10. TrailInv'
    <2>1. work[r] = None \/ UNCHANGED work
      BY DEF IInv, WorkInv, WorkOK
    <2>2. \A q \in Requests : UNCHANGED work[q] \/ work[q] = None
      BY <2>1
    <2> QED BY <1>1, <1>4, <2>2, TrailFrame DEF IInv, TrailInv, Pending, None
  <1>11. ActorInv'
    <2>1. phase[r] = "new" => DOMAIN trail[r] = {}
      BY DEF IInv, TrailInv, TrailOK
    <2>2. phase[r] = "new" => \A what : Entries(r, what) = {}
      BY <2>1 DEF Entries
    <2> QED BY <1>1, <1>4, <2>2, SameTrail DEF IInv, ActorInv, ActorOK, Pending, CurrentActor
  <1>12. CountInv'
    <2>1. \A c : CountedAs(c)' = CountedAs(c)
      BY <1>1, SameTrail DEF CountedAs
    <2>2. Alive /\ Alive' /\ Serving'
      BY <1>1 DEF Alive, Serving
    <2> QED BY <1>1, <2>1, <2>2, SameTrail DEF IInv, CountInv
  <1> QED
    BY <1>2, <1>3, <1>5, <1>6, <1>7, <1>8, <1>9, <1>10, <1>11, <1>12 DEF IInv

\* At the limit a request is refused; below it, it takes a permit.
LEMMA ArriveInv ==
    ASSUME IInv, NEW r \in Requests, Arrive(r)
    PROVE  IInv'
  <1>1. /\ Serving /\ phase[r] = "new" /\ work[r] = None /\ r \notin InFlight
        /\ UNCHANGED <<boot, pool, volume>> /\ UNCHANGED <<stage, limits>>
    BY DEF IInv, WorkInv, WorkOK, Arrive, Serving, InFlight, boot
  <1>2. available \in Int /\ limits.cap \in Nat /\ PermitsBoundRequests
    BY DEF IInv, TypeOK, FlightInv
  <1>3. UNCHANGED <<work, outcome, subject, applied, forgotten>>
    BY <1>1 DEF pool
  <1>4. CASE limits.cap # NoBound /\ available <= 0
    <2>1. Answer(r, "at_limit")
      BY <1>1, <1>2, <1>4 DEF Arrive, Answer, Release, Holds
    <2> QED BY <1>1, <1>3, <2>1, AnswerFrame DEF IInv, TypeOK, Answers, None
  <1>5. CASE limits.cap = NoBound \/ available > 0
    <2>1. /\ phase' = [phase EXCEPT ![r] = "body"] /\ UNCHANGED <<answer, counts, trail>>
          /\ available' = IF limits.cap = NoBound THEN available ELSE available - 1
      BY <1>2, <1>5 DEF Arrive
    <2>2. InFlight' = InFlight \union {r}
      BY <1>1, <2>1 DEF IInv, TypeOK, InFlight
    <2>3. Cardinality(InFlight') = Cardinality(InFlight) + 1 /\ Cardinality(InFlight) \in Nat
      BY <1>1, <2>2, FiniteRequests, FS_AddElement
    <2>4. FlightInv' /\ available' \in Int
      BY <1>1, <1>2, <1>5, <2>1, <2>3 DEF FlightInv, PermitsBoundRequests, Serving
    <2> QED BY <1>1, <1>3, <2>1, <2>4, FutureFrame DEF IInv, TypeOK
  <1> QED BY <1>2, <1>4, <1>5

\* A body that is too large and a caller that is unknown are answered before any
\* work is parked.
LEMMA AnswerDirectlyInv ==
    ASSUME IInv, NEW r \in Requests, AnswerDirectly(r)
    PROVE  IInv'
  <1>1. Serving /\ phase[r] = "body" /\ work[r] = None /\ UNCHANGED <<boot, pool, volume>>
    BY DEF IInv, WorkInv, WorkOK, AnswerDirectly
  <1>2. UNCHANGED <<work, outcome, subject, applied, forgotten>>
    BY <1>1 DEF pool
  <1>3. PICK a \in {"too_large", "unauthenticated"} : Answer(r, a)
    BY DEF AnswerDirectly
  <1> QED BY <1>1, <1>2, <1>3, AnswerFrame DEF IInv, TypeOK, Answers, None

\* Work is parked in the name of its caller.
LEMMA ParkInv ==
    ASSUME IInv, NEW r \in Requests, Park(r)
    PROVE  IInv'
  <1>1. Serving /\ phase[r] = "body" /\ UNCHANGED <<stage, limits, available>>
    BY DEF Park, boot
  <1>2. CurrentActor(r) \in Users
    BY DEF CurrentActor, Users
  <1>3. InFlight' = InFlight
    BY <1>1 DEF IInv, TypeOK, Park, InFlight
  <1>4. FlightInv' /\ available' \in Int
    BY <1>1, <1>3 DEF IInv, TypeOK, FlightInv, PermitsBoundRequests, Serving
  <1> QED BY <1>1, <1>2, <1>4, FutureFrame DEF Park, IInv, TypeOK, Works

\* A dropped future gives its permit back; the work it parked goes on.
LEMMA HangUpInv ==
    ASSUME IInv, NEW r \in Requests, HangUp(r)
    PROVE  IInv'
  <1>1. /\ Serving /\ phase[r] \in {"body", "parked"} /\ UNCHANGED <<stage, limits>>
        /\ UNCHANGED <<boot, answer, counts, work, outcome, subject, applied, forgotten, volume, trail>>
        /\ phase' = [phase EXCEPT ![r] = "gone"]
    BY DEF HangUp, boot, pool
  <1>2. FlightInv' /\ available' \in Int
    BY <1>1, ReleaseFacts DEF HangUp
  <1> QED BY <1>1, <1>2, FutureFrame DEF IInv, TypeOK

\* The timeout answers and drops the future; the work it parked goes on.
LEMMA TimeoutInv ==
    ASSUME IInv, NEW r \in Requests, Timeout(r)
    PROVE  IInv'
  <1>1. Serving /\ phase[r] \in {"body", "parked"} /\ UNCHANGED <<boot, pool, volume>>
    BY DEF Timeout
  <1>2. UNCHANGED <<work, outcome, subject, applied, forgotten>>
    BY <1>1 DEF pool
  <1> QED BY <1>1, <1>2, AnswerFrame DEF Timeout, IInv, TypeOK, Answers, None

\* Finished work is answered with what it came to.
LEMMA RespondInv ==
    ASSUME IInv, NEW r \in Requests, Respond(r)
    PROVE  IInv'
  <1>1. /\ Serving /\ phase[r] = "parked" /\ work[r] = "ended" /\ Answer(r, AnswerOf(r))
        /\ outcome' = [outcome EXCEPT ![r] = None]
        /\ UNCHANGED <<boot, work, subject, applied, forgotten, volume>>
    BY DEF Respond
  <1>2. outcome[r] \in Outcomes \ {None}
    BY <1>1 DEF IInv, TypeOK, OutcomeInv, OutcomeOK
  <1>3. Kind[r] \in {"write", "probe"}
    BY ServiceConstants
  <1>4. /\ AnswerOf(r) \in {"ok", "internal", "rejected", "busy", "ready", "not_ready"}
        /\ AnswerOf(r) = "ok" <=> outcome[r] = "stored"
        /\ AnswerOf(r) \in {"rejected", "busy", "not_ready"} => outcome[r] = AnswerOf(r)
    BY <1>2 DEF AnswerOf, Outcomes
  <1>5. /\ outcome' \in [Requests -> Outcomes] /\ outcome'[r] = None
        /\ \A q \in Requests : q # r => outcome'[q] = outcome[q]
    BY <1>1 DEF IInv, TypeOK, Outcomes
  <1>6. /\ AnswerOf(r) \in {"rejected", "busy"} => applied[r] = 0
        /\ AnswerOf(r) = "ok" => applied[r] = 1
        /\ AnswerOf(r) = "not_ready" => r \in doubted
    BY <1>4 DEF IInv, OutcomeInv, OutcomeOK, ProbeInv, ProbeOK
  <1> QED BY <1>1, <1>4, <1>5, <1>6, AnswerFrame DEF Answers, None

(* --------------------------- the blocking pool -------------------------- *)

\* A step of one request's work: the other requests' work, every future and the
\* stage of the process stay, and it suffices to look at that one request.
LEMMA PoolFrame ==
    ASSUME IInv, NEW r \in Requests, Pending(r), UNCHANGED <<boot, front>>, TypeOK',
           \A q \in Requests : q # r =>
              /\ work'[q] = work[q] /\ outcome'[q] = outcome[q] /\ subject'[q] = subject[q]
              /\ applied'[q] = applied[q] /\ (q \in scratch' <=> q \in scratch),
           disk' = disk, doubted \subseteq doubted',
           work'[r] \notin {None, "queued", "discarded"},
           subject'[r] = subject[r] \/ work'[r] = "ended",
           WorkOK(r)', OutcomeOK(r)', ProbeOK(r)',
           \/ /\ UNCHANGED <<trail, applied, forgotten>>
              /\ work[r] = "written" => work'[r] = "ended"
              /\ work[r] \in {"revoked", "locked"} => work'[r] \in {"locked", "ended"}
           \/ /\ work[r] \in {"running", "revoked", "locked"} /\ work'[r] \in {"written", "ended"}
              /\ UNCHANGED forgotten
              /\ \E ok \in BOOLEAN : Note(r, AuditLine(r, ok)) /\ (applied'[r] = 1 <=> ok)
           \/ /\ work[r] \in {"running", "revoking"} /\ UNCHANGED applied
              /\ \E ok \in BOOLEAN :
                    /\ Note(r, RevocationLine(ok))
                    /\ forgotten' = IF ok THEN forgotten \union {r} ELSE forgotten
                    /\ work'[r] = IF ok THEN "revoked" ELSE "ended"
    PROVE  IInv'
  <1>1. UNCHANGED <<stage, dep, starts, auth, limits, available, phase, answer, counts>>
    BY DEF boot, front
  <1>2. DepInv' /\ FlightInv'
    BY <1>1 DEF IInv, DepInv, FlightInv, PermitsBoundRequests, InFlight, Serving
  <1>3. \A q \in Requests : q # r => (Pending(q)' <=> Pending(q))
    BY DEF Pending
  <1>4. WorkInv'
    BY <1>1, <1>3 DEF IInv, WorkInv, WorkOK, Alive, Serving
  <1>5. OutcomeInv'
    BY <1>1 DEF IInv, OutcomeInv, OutcomeOK
  <1>6. ProbeInv'
    BY <1>1 DEF IInv, ProbeInv, ProbeOK, Busy
  <1>7. \/ phase[r] = "parked" /\ Serving
        \/ phase[r] = "gone"
        \/ answer[r] = "cut_off"
    BY DEF IInv, OrphansAreCutOff, Pending
  <1>8. OrphansAreCutOff'
    BY <1>1, <1>7 DEF IInv, OrphansAreCutOff, Serving
  <1>9. AnswerInv'
    BY <1>1, <1>7 DEF IInv, AnswerInv, None
  <1>10. TrailOK(r) /\ ActorOK(r) /\ phase'[r] # "new"
    BY <1>1, <1>7 DEF IInv, TrailInv, ActorInv, AnswerInv, None
  <1>11. CASE /\ UNCHANGED <<trail, applied, forgotten>>
              /\ work[r] = "written" => work'[r] = "ended"
              /\ work[r] \in {"revoked", "locked"} => work'[r] \in {"locked", "ended"}
    <2>1. \A q \in Requests : TrailOK(q)'
      <3>1. TrailOK(r)'
        BY <1>1, <1>10, <1>11, TrailFrame DEF Pending
      <3>2. ASSUME NEW q \in Requests, q # r PROVE TrailOK(q)'
        BY <1>1, <1>3, <1>11, <3>2, TrailFrame DEF IInv, TrailInv
      <3> QED BY <3>1, <3>2
    <2>2. ActorInv'
      BY <1>1, <1>3, <1>11, SameTrail DEF IInv, ActorInv, ActorOK, Pending, CurrentActor
    <2>3. \A c : CountedAs(c)' = CountedAs(c)
      BY <1>1, <1>11, SameTrail DEF CountedAs
    <2>4. CountInv'
      BY <1>1, <1>11, <2>3, SameTrail DEF IInv, CountInv, Serving, Alive
    <2> QED
      BY <1>2, <1>4, <1>5, <1>6, <1>8, <1>9, <2>1, <2>2, <2>4 DEF IInv, TrailInv
  <1>12. ASSUME NEW l \in AuditNotes \union RevocationNotes, Note(r, l), TrailOK(r)', ActorOK(r)',
                \A q \in Requests : q # r => (q \in forgotten' <=> q \in forgotten)
         PROVE  IInv'
    <2>1. TypeOK /\ l \in Notes /\ l.what # "span"
      BY DEF IInv, Notes, AuditNotes, RevocationNotes
    <2>2. \A q \in Requests \ {r} :
             /\ trail'[q] = trail[q]
             /\ \A what : /\ Entries(q, what)' = Entries(q, what)
                          /\ Succeeds(q, what)' <=> Succeeds(q, what)
      BY <1>12, <2>1, NoteFacts, EntryFacts
    <2>3. TrailInv'
      <3>1. ASSUME NEW q \in Requests, q # r PROVE TrailOK(q)'
        <4>1. TrailOK(q) /\ phase'[q] = phase[q] /\ (Pending(q)' <=> Pending(q))
          BY <1>1, <1>3, <3>1 DEF IInv, TrailInv
        <4> QED BY <1>12, <2>2, <3>1, <4>1, SMTT(40) DEF TrailOK
      <3> QED BY <1>12, <3>1 DEF TrailInv
    <2>4. ActorInv'
      <3>1. ASSUME NEW q \in Requests, q # r PROVE ActorOK(q)'
        BY <1>1, <1>3, <2>2, <3>1 DEF IInv, ActorInv, ActorOK, CurrentActor
      <3> QED BY <1>12, <3>1 DEF ActorInv
    <2>5. CountInv'
      <3>1. \A c : CountedAs(c)' = CountedAs(c)
        BY <1>1, <1>12, <2>1, AuditUncounted
      <3>2. \A q \in Requests : /\ Entries(q, "span")' = Entries(q, "span")
                                /\ \A i \in Entries(q, "span") : trail'[q][i] = trail[q][i]
        BY <1>12, <2>1, NoteFacts, EntryFacts DEF Entries
      <3> QED BY <1>1, <3>1, <3>2 DEF IInv, CountInv, Serving, Alive
    <2> QED
      BY <1>2, <1>4, <1>5, <1>6, <1>8, <1>9, <2>3, <2>4, <2>5 DEF IInv
  <1>13. subject[r] \in Users /\ subject[r] = CurrentActor(r) /\ CurrentActor(r)' = CurrentActor(r)
    BY <1>1, <1>10 DEF IInv, TypeOK, ActorOK, CurrentActor
  <1>14. ASSUME NEW ok \in BOOLEAN, work[r] \in {"running", "revoked", "locked"},
                work'[r] \in {"written", "ended"}, UNCHANGED forgotten,
                Note(r, AuditLine(r, ok)), applied'[r] = 1 <=> ok
         PROVE  IInv'
    <2> DEFINE l == AuditLine(r, ok)
               n == Len(trail[r]) + 1
    <2>1. /\ l \in AuditNotes /\ l \in Notes /\ l.what = "audit" /\ l.user = subject[r]
          /\ l.outcome = "success" <=> ok
      BY <1>13 DEF AuditLine, Said, AuditNotes, Notes
    <2>2. Note(r, l) /\ TypeOK
      BY <1>14 DEF IInv
    <2> HIDE DEF l
    <2>3. /\ DOMAIN trail'[r] = DOMAIN trail[r] \union {n} /\ trail'[r][n] = l
          /\ \A i \in DOMAIN trail[r] : trail'[r][i] = trail[r][i] /\ i < n
          /\ Entries(r, "audit")' = Entries(r, "audit") \union {n}
          /\ Succeeds(r, "audit")' <=> Succeeds(r, "audit") \/ ok
          /\ Entries(r, "span")' = Entries(r, "span")
          /\ Entries(r, "revocation")' = Entries(r, "revocation")
          /\ Succeeds(r, "revocation")' <=> Succeeds(r, "revocation")
      <3>1. /\ Entries(r, "audit")' = Entries(r, "audit") \union {n}
            /\ Succeeds(r, "audit")' <=> Succeeds(r, "audit") \/ ok
        BY <2>1, <2>2, EntryFacts
      <3>2. /\ Entries(r, "revocation")' = Entries(r, "revocation")
            /\ Succeeds(r, "revocation")' <=> Succeeds(r, "revocation")
        BY <2>1, <2>2, EntryFacts
      <3>3. Entries(r, "span")' = Entries(r, "span")
        BY <2>1, <2>2, EntryFacts
      <3>4. /\ DOMAIN trail'[r] = DOMAIN trail[r] \union {n} /\ trail'[r][n] = l
            /\ \A i \in DOMAIN trail[r] : trail'[r][i] = trail[r][i] /\ i < n
        BY <2>1, <2>2, NoteFacts
      <3> QED BY <3>1, <3>2, <3>3, <3>4
    <2> HIDE DEF n
    <2>4. Entries(r, "audit") = {} /\ ~Succeeds(r, "audit")
      <3>1. Entries(r, "audit") = {}
        BY <1>10, <1>14 DEF TrailOK
      <3> QED BY <3>1 DEF Succeeds
    <2>5. \A i \in Entries(r, "revocation") :
             i < n /\ trail'[r][i] = trail[r][i] /\ trail[r][i].outcome = "success"
      BY <1>10, <2>3 DEF TrailOK, Entries
    <2>6. TrailOK(r)'
      <3>1. Entries(r, "audit")' = {n} /\ n \in DOMAIN trail'[r] /\ (Succeeds(r, "audit")' <=> ok)
        BY <2>3, <2>4
      <3>2. \A i \in Entries(r, "revocation")' : i < n /\ trail'[r][i].outcome = "success"
        BY <2>3, <2>5
      <3>3. IF phase'[r] = "answered"
            THEN \E i \in DOMAIN trail'[r] : Entries(r, "span")' = {i}
            ELSE Entries(r, "span")' = {}
        BY <1>1, <1>10, <2>3 DEF TrailOK
      <3>4. /\ Entries(r, "revocation")' = {} \/ \E i \in DOMAIN trail'[r] : Entries(r, "revocation")' = {i}
            /\ r \in forgotten' <=> Succeeds(r, "revocation")'
        BY <1>10, <1>14, <2>3 DEF TrailOK
      <3> QED BY <1>10, <1>14, <3>1, <3>2, <3>3, <3>4 DEF TrailOK
    <2>7. ActorOK(r)'
      <3>1. \A i \in Entries(r, "span") : trail'[r][i] = trail[r][i] /\ trail[r][i].user = CurrentActor(r)
        BY <1>10, <2>3 DEF ActorOK, Entries
      <3>2. trail'[r][n].user = CurrentActor(r)
        BY <1>13, <2>1, <2>3
      <3>3. Pending(r)' => subject'[r] = CurrentActor(r)
        BY <1>13 DEF Pending
      <3>4. \A i \in Entries(r, "span")' \union Entries(r, "audit")' : trail'[r][i].user = CurrentActor(r)
        BY <2>3, <2>4, <3>1, <3>2
      <3> QED BY <1>13, <3>3, <3>4 DEF ActorOK
    <2> QED BY <1>12, <1>14, <2>1, <2>2, <2>6, <2>7
  <1>15. ASSUME NEW ok \in BOOLEAN, work[r] \in {"running", "revoking"}, UNCHANGED applied,
                Note(r, RevocationLine(ok)),
                forgotten' = IF ok THEN forgotten \union {r} ELSE forgotten,
                work'[r] = IF ok THEN "revoked" ELSE "ended"
         PROVE  IInv'
    <2> DEFINE l == RevocationLine(ok)
               n == Len(trail[r]) + 1
    <2>1. /\ l \in RevocationNotes /\ l \in Notes /\ l.what = "revocation"
          /\ l.outcome = "success" <=> ok
      BY DEF RevocationLine, Said, RevocationNotes, Notes
    <2>2. Note(r, l) /\ TypeOK
      BY <1>15 DEF IInv
    <2> HIDE DEF l
    <2>3. /\ DOMAIN trail'[r] = DOMAIN trail[r] \union {n} /\ trail'[r][n] = l
          /\ \A i \in DOMAIN trail[r] : trail'[r][i] = trail[r][i]
          /\ Entries(r, "revocation")' = Entries(r, "revocation") \union {n}
          /\ Succeeds(r, "revocation")' <=> Succeeds(r, "revocation") \/ ok
          /\ Entries(r, "span")' = Entries(r, "span")
          /\ Entries(r, "audit")' = Entries(r, "audit")
          /\ Succeeds(r, "audit")' <=> Succeeds(r, "audit")
      <3>1. /\ Entries(r, "revocation")' = Entries(r, "revocation") \union {n}
            /\ Succeeds(r, "revocation")' <=> Succeeds(r, "revocation") \/ ok
        BY <2>1, <2>2, EntryFacts
      <3>2. /\ Entries(r, "audit")' = Entries(r, "audit")
            /\ Succeeds(r, "audit")' <=> Succeeds(r, "audit")
        BY <2>1, <2>2, EntryFacts
      <3>3. Entries(r, "span")' = Entries(r, "span")
        BY <2>1, <2>2, EntryFacts
      <3>4. /\ DOMAIN trail'[r] = DOMAIN trail[r] \union {n} /\ trail'[r][n] = l
            /\ \A i \in DOMAIN trail[r] : trail'[r][i] = trail[r][i] /\ i < n
        BY <2>1, <2>2, NoteFacts
      <3> QED BY <3>1, <3>2, <3>3, <3>4
    <2> HIDE DEF n
    <2>4. /\ Entries(r, "audit") = {} /\ Entries(r, "revocation") = {}
          /\ ~Succeeds(r, "revocation") /\ r \notin forgotten
      <3>1. Entries(r, "audit") = {} /\ Entries(r, "revocation") = {}
        BY <1>10, <1>15 DEF TrailOK
      <3> QED BY <1>10, <3>1 DEF Succeeds, TrailOK
    <2>5. /\ Pending(r)' <=> ok
          /\ r \in forgotten' <=> ok
      BY <1>15, <2>4 DEF Pending, None
    <2>6. TrailOK(r)'
      <3>1. \A i \in Entries(r, "revocation")' : i = n /\ (ok => trail'[r][i].outcome = "success")
        BY <2>1, <2>3, <2>4
      <3>2. work'[r] \in {"revoked", "ended"} /\ UNCHANGED <<applied, phase>>
        BY <1>1, <1>15
      <3>3. Entries(r, "revocation")' = {n} /\ n \in DOMAIN trail'[r]
        BY <2>3, <2>4
      <3>4. /\ IF phase'[r] = "answered"
               THEN \E i \in DOMAIN trail'[r] : Entries(r, "span")' = {i}
               ELSE Entries(r, "span")' = {}
            /\ Entries(r, "audit")' = {}
            /\ applied'[r] = 1 <=> Succeeds(r, "audit")'
        <4>1. /\ IF phase[r] = "answered"
                 THEN \E i \in DOMAIN trail[r] : Entries(r, "span") = {i}
                 ELSE Entries(r, "span") = {}
              /\ applied[r] = 1 <=> Succeeds(r, "audit")
          BY <1>10 DEF TrailOK
        <4> QED BY <2>3, <2>4, <3>2, <4>1
      <3>5. r \in forgotten' <=> Succeeds(r, "revocation")'
        BY <2>3, <2>4, <2>5
      <3> QED BY <1>10, <2>5, <3>1, <3>2, <3>3, <3>4, <3>5 DEF TrailOK
    <2>7. ActorOK(r)'
      <3>1. \A i \in Entries(r, "span") : trail'[r][i] = trail[r][i] /\ trail[r][i].user = CurrentActor(r)
        BY <1>10, <2>3 DEF ActorOK, Entries
      <3>2. Pending(r)' => subject'[r] = CurrentActor(r)
        BY <1>13 DEF Pending
      <3>3. \A i \in Entries(r, "span")' \union Entries(r, "audit")' : trail'[r][i].user = CurrentActor(r)
        BY <2>3, <2>4, <3>1
      <3> QED BY <1>13, <3>2, <3>3 DEF ActorOK
    <2> QED BY <1>12, <1>15, <2>1, <2>2, <2>6, <2>7
  <1> QED BY <1>11, <1>14, <1>15

\* A closure that ends: its result reaches the request that still waits for it.

LEMMA EndFacts ==
    ASSUME TypeOK, NEW r \in Requests, NEW o \in Outcomes, End(r, o)
    PROVE  /\ work' \in [Requests -> Works] /\ outcome' \in [Requests -> Outcomes]
           /\ subject' \in [Requests -> Users]
           /\ work'[r] = "ended" /\ subject'[r] = Anonymous
           /\ outcome'[r] = IF phase[r] = "parked" THEN o ELSE None
           /\ \A q \in Requests : q # r =>
                 work'[q] = work[q] /\ outcome'[q] = outcome[q] /\ subject'[q] = subject[q]
  BY DEF TypeOK, End, Works, Outcomes, Users

\* A thread of the pool takes the closure.
LEMMA StartWorkInv ==
    ASSUME IInv, NEW r \in Requests, StartWork(r)
    PROVE  IInv'
  <1>1. /\ work[r] = "queued" /\ work' = [work EXCEPT ![r] = "running"] /\ Alive
        /\ UNCHANGED <<boot, front, outcome, subject, applied, forgotten, disk, scratch, trail>>
        /\ doubted' = IF disk # "ok" THEN doubted \union {r} ELSE doubted
        /\ UNCHANGED <<stage, limits, starts, available, phase, answer, counts>>
    BY DEF StartWork, boot, front
  <1>2. TypeOK'
    BY <1>1 DEF IInv, TypeOK, Works
  <1>3. work'[r] = "running" /\ \A q \in Requests : q # r => work'[q] = work[q]
    BY <1>1 DEF IInv, TypeOK
  <1>4. WorkOK(r)'
    BY <1>1, <1>3 DEF IInv, WorkInv, WorkOK, Pending, Alive, Serving, None
  <1>5. OutcomeOK(r)' /\ ProbeOK(r)'
    BY <1>1, <1>3 DEF IInv, OutcomeInv, OutcomeOK, ProbeInv, ProbeOK, Busy, None
  <1> QED BY <1>1, <1>2, <1>3, <1>4, <1>5, PoolFrame DEF Pending, None

\* A closure ends without a line: refused before the write, done with it, or
\* panicked on either side of it.
LEMMA QuietEnd ==
    ASSUME IInv, NEW r \in Requests, work[r] \in {"running", "written"}, Kind[r] = "write", Alive,
           NEW o \in {"rejected", "panicked", "stored"}, End(r, o),
           o = "stored" => work[r] = "written", o = "rejected" => work[r] = "running",
           UNCHANGED <<boot, front, applied, forgotten, lock, volume, trail>>
    PROVE  IInv'
  <1>1. /\ UNCHANGED <<stage, limits, starts, available, phase, answer, counts>>
        /\ UNCHANGED <<disk, scratch, doubted>>
    BY DEF boot, front, volume
  <1>2. /\ work' \in [Requests -> Works] /\ outcome' \in [Requests -> Outcomes]
        /\ subject' \in [Requests -> Users]
        /\ work'[r] = "ended" /\ outcome'[r] = IF phase[r] = "parked" THEN o ELSE None
        /\ \A q \in Requests : q # r =>
              work'[q] = work[q] /\ outcome'[q] = outcome[q] /\ subject'[q] = subject[q]
    BY EndFacts DEF IInv, Outcomes
  <1>3. TypeOK'
    BY <1>1, <1>2 DEF IInv, TypeOK
  <1>4. applied[r] = IF work[r] = "written" THEN 1 ELSE 0
    BY DEF IInv, TypeOK, WorkInv, WorkOK
  <1>5. phase[r] \notin {"new", "body"}
    BY DEF IInv, WorkInv, WorkOK, None
  <1>6. WorkOK(r)'
    BY <1>1, <1>2, <1>5 DEF WorkOK, Pending, None
  <1>7. OutcomeOK(r)'
    BY <1>1, <1>2, <1>4 DEF OutcomeOK, None
  <1>8. ProbeOK(r)'
    BY <1>1, <1>2 DEF IInv, ProbeInv, ProbeOK, Busy, None
  <1> QED BY <1>1, <1>2, <1>3, <1>6, <1>7, <1>8, PoolFrame DEF Pending, None

\* A refusal by the rules, or a panic before the write, leaves no line.
LEMMA RejectInv ==
    ASSUME IInv, NEW r \in Requests, Reject(r)
    PROVE  IInv'
  BY QuietEnd DEF Reject

\* The closure returns with its answer, or panics after the write.
LEMMA FinishWorkInv ==
    ASSUME IInv, NEW r \in Requests, FinishWork(r)
    PROVE  IInv'
  <1>1. Kind[r] = "write"
    BY DEF IInv, WorkInv, WorkOK, FinishWork
  <1> QED BY <1>1, QuietEnd DEF FinishWork

\* A step inside a closure: no result and no line yet.
LEMMA InnerStep ==
    ASSUME IInv, NEW r \in Requests, Alive,
           work[r] \in {"running", "revoked", "locking", "holding", "writing"},
           NEW w \in {"locked", "revoking", "locking", "holding", "writing", "scratched"},
           w \in {"locked", "revoking"} <=> Kind[r] = "write", work[r] = "revoked" => w = "locked",
           work' = [work EXCEPT ![r] = w], outcome' \in [Requests -> Outcomes],
           \A q \in Requests : q # r => outcome'[q] = outcome[q],
           outcome'[r] \in {outcome[r], "ready", "not_ready"},
           outcome'[r] # outcome[r] => Kind[r] = "probe",
           outcome'[r] = "not_ready" => r \in doubted,
           w \in {"holding", "writing", "scratched"} => outcome'[r] # None,
           UNCHANGED <<boot, front, subject, applied, forgotten, disk, doubted, trail>>,
           scratch' = scratch \/ (w = "scratched" /\ scratch' = scratch \union {r})
    PROVE  IInv'
  <1>1. UNCHANGED <<stage, limits, starts, available, phase, answer, counts>>
    BY DEF boot, front
  <1>2. TypeOK'
    BY <1>1 DEF IInv, TypeOK, Works
  <1>3. work'[r] = w /\ \A q \in Requests : q # r => work'[q] = work[q]
    BY DEF IInv, TypeOK
  <1>4. applied[r] = 0 /\ phase[r] \notin {"new", "body"} /\ Kind[r] \in {"write", "probe"}
    BY ServiceConstants DEF IInv, TypeOK, WorkInv, WorkOK, None
  <1>5. WorkOK(r)'
    BY <1>1, <1>3, <1>4 DEF WorkOK, Pending, Alive, Serving, None
  <1>6. OutcomeOK(r)'
    BY <1>1, <1>3, <1>4 DEF IInv, OutcomeInv, OutcomeOK, None
  <1>7. ProbeOK(r)'
    BY <1>1, <1>3 DEF IInv, ProbeInv, ProbeOK, Busy, None
  <1> QED BY <1>1, <1>2, <1>3, <1>5, <1>6, <1>7, PoolFrame DEF Pending, None

\* The write takes the lock.
LEMMA TakeLockInv ==
    ASSUME IInv, NEW r \in Requests, TakeLock(r)
    PROVE  IInv'
  <1>1. outcome \in [Requests -> Outcomes] /\ (outcome[r] = "not_ready" => r \in doubted)
    BY DEF IInv, TypeOK, ProbeInv, ProbeOK
  <1> QED BY <1>1, InnerStep DEF TakeLock, AtWrite, volume

\* The write fails for want of the lock or of the volume: one line of failure.
\* So does the revocation that a delete begins with.
LEMMA TakeGrantLockInv ==
    ASSUME IInv, NEW r \in Requests, TakeGrantLock(r)
    PROVE  IInv'
  <1>1. outcome \in [Requests -> Outcomes] /\ (outcome[r] = "not_ready" => r \in doubted)
    BY DEF IInv, TypeOK, ProbeInv, ProbeOK
  <1> QED BY <1>1, InnerStep DEF TakeGrantLock, volume

\* A write ends with a failure that is not the rules': one line says so.
LEMMA FailedEnd ==
    ASSUME IInv, NEW r \in Requests, Alive, Kind[r] = "write",
           NEW o \in {"failed", "busy"}, End(r, o), NEW l \in {AuditLine(r, FALSE), RevocationLine(FALSE)},
           IF l = RevocationLine(FALSE) THEN work[r] \in {"running", "revoking"}
                                        ELSE work[r] \in {"running", "revoked"},
           Note(r, l), UNCHANGED <<boot, front, applied, forgotten, volume>>
    PROVE  IInv'
  <1>1. /\ UNCHANGED <<stage, limits, starts, available, phase, answer, counts>>
        /\ UNCHANGED <<disk, scratch, doubted>>
    BY DEF volume, boot, front
  <1>2. /\ work' \in [Requests -> Works] /\ outcome' \in [Requests -> Outcomes]
        /\ subject' \in [Requests -> Users]
        /\ work'[r] = "ended" /\ outcome'[r] = IF phase[r] = "parked" THEN o ELSE None
        /\ \A q \in Requests : q # r =>
              work'[q] = work[q] /\ outcome'[q] = outcome[q] /\ subject'[q] = subject[q]
    BY EndFacts DEF IInv, Outcomes
  <1>3. l \in Notes
    <2>1. AuditLine(r, FALSE) \in AuditNotes /\ RevocationLine(FALSE) \in RevocationNotes
      BY DEF IInv, TypeOK, AuditLine, AuditNotes, RevocationLine, RevocationNotes, Said
    <2> QED BY <2>1 DEF Notes
  <1>4. TypeOK'
    <2>1. trail' \in [Requests -> Seq(Notes)]
      BY <1>3, NoteFacts DEF IInv
    <2> QED BY <1>1, <1>2, <2>1 DEF IInv, TypeOK
  <1>5. applied[r] = 0 /\ phase[r] \notin {"new", "body"} /\ work[r] \in {"running", "revoking", "revoked"}
    BY DEF IInv, TypeOK, WorkInv, WorkOK, None
  <1>6. WorkOK(r)'
    BY <1>1, <1>2, <1>5 DEF WorkOK, Pending, None
  <1>7. OutcomeOK(r)'
    BY <1>1, <1>2, <1>5 DEF OutcomeOK, None
  <1>8. ProbeOK(r)'
    BY <1>1, <1>2 DEF IInv, ProbeInv, ProbeOK, Busy, None
  <1>9. Pending(r) /\ (applied'[r] = 1 <=> FALSE)
    BY <1>5 DEF Pending, None
  <1>10. CASE l = RevocationLine(FALSE)
    BY <1>1, <1>2, <1>4, <1>6, <1>7, <1>8, <1>9, <1>10, PoolFrame DEF None
  <1>11. CASE l # RevocationLine(FALSE)
    <2>1. Note(r, AuditLine(r, FALSE)) /\ work[r] \in {"running", "revoked"}
      BY <1>11
    <2> QED BY <1>1, <1>2, <1>4, <1>6, <1>7, <1>8, <1>9, <2>1, PoolFrame DEF None
  <1> QED BY <1>10, <1>11

\* The revocation fails for want of the lock or of the volume, and the delete ends.
LEMMA MissGrantLockInv ==
    ASSUME IInv, NEW r \in Requests, MissGrantLock(r)
    PROVE  IInv'
  <1> DEFINE o == IF disk # "ok" THEN "failed" ELSE "busy"
  <1>1. o \in {"failed", "busy"} /\ End(r, o)
    BY DEF MissGrantLock, RevocationFails
  <1> HIDE DEF o
  <1> QED BY <1>1, FailedEnd DEF MissGrantLock, RevocationFails

\* The grant file goes and a line says so, or there is none, or the delete ends.
LEMMA RevokeGrantsInv ==
    ASSUME IInv, NEW r \in Requests, RevokeGrants(r)
    PROVE  IInv'
  <1>1. /\ Alive /\ work[r] = "revoking" /\ Kind[r] = "write"
        /\ UNCHANGED <<boot, front, applied, volume>>
        /\ UNCHANGED <<disk, scratch, doubted>>
        /\ UNCHANGED <<stage, limits, starts, available, phase, answer, counts>>
    BY DEF IInv, WorkInv, WorkOK, RevokeGrants, volume, boot, front
  <1>2. CASE RevocationFails(r, "failed") /\ UNCHANGED forgotten
    BY <1>1, <1>2, FailedEnd DEF RevocationFails
  <1>3. CASE /\ work' = [work EXCEPT ![r] = "revoked"] /\ UNCHANGED <<outcome, subject>>
             /\ \/ UNCHANGED <<forgotten, trail>>
                \/ forgotten' = forgotten \union {r} /\ Note(r, RevocationLine(TRUE))
    <2>1. applied[r] = 0 /\ phase[r] \notin {"new", "body"}
      BY <1>1 DEF IInv, TypeOK, WorkInv, WorkOK, None
    <2>2. work' \in [Requests -> Works] /\ work'[r] = "revoked" /\ \A q \in Requests : q # r => work'[q] = work[q]
      BY <1>3 DEF IInv, TypeOK, Works
    <2>3. trail' \in [Requests -> Seq(Notes)]
      <3>1. RevocationLine(TRUE) \in Notes
        BY DEF RevocationLine, RevocationNotes, Notes, Said
      <3> QED BY <1>3, <3>1, NoteFacts DEF IInv, TypeOK
    <2>4. TypeOK'
      BY <1>1, <1>3, <2>2, <2>3 DEF IInv, TypeOK
    <2>5. WorkOK(r)'
      BY <1>1, <2>1, <2>2 DEF WorkOK, Pending, Alive, Serving, None
    <2>6. OutcomeOK(r)' /\ ProbeOK(r)'
      BY <1>1, <1>3, <2>2 DEF IInv, OutcomeInv, OutcomeOK, ProbeInv, ProbeOK, Busy, None
    <2>7. Pending(r)
      BY <1>1 DEF Pending, None
    <2> QED BY <1>1, <1>3, <2>2, <2>4, <2>5, <2>6, <2>7, PoolFrame DEF None
  <1> QED BY <1>2, <1>3 DEF RevokeGrants

LEMMA MissLockInv ==
    ASSUME IInv, NEW r \in Requests, MissLock(r)
    PROVE  IInv'
  <1> DEFINE o == IF disk # "ok" THEN "failed" ELSE "busy"
  <1>1. o \in {"failed", "busy"} /\ End(r, o)
    BY DEF MissLock
  <1> HIDE DEF o
  <1>2. AuditLine(r, FALSE) # RevocationLine(FALSE)
    <2>1. AuditLine(r, FALSE).what = "audit" /\ RevocationLine(FALSE).what = "revocation"
      BY DEF AuditLine, RevocationLine
    <2> QED BY <2>1
  <1> QED BY <1>1, <1>2, FailedEnd DEF MissLock, AtWrite

\* The document is replaced or it is not, and the line says which.
LEMMA CommitInv ==
    ASSUME IInv, NEW r \in Requests, Commit(r)
    PROVE  IInv'
  <1>1. PICK stored \in BOOLEAN :
           /\ applied' = [applied EXCEPT ![r] = IF stored THEN @ + 1 ELSE @]
           /\ Note(r, AuditLine(r, stored))
           /\ IF stored
              THEN work' = [work EXCEPT ![r] = "written"] /\ UNCHANGED <<outcome, subject>>
              ELSE \E o \in {"rejected", "failed"} : End(r, o)
    BY DEF Commit
  <1>2. /\ Alive /\ work[r] = "locked" /\ Kind[r] = "write"
        /\ UNCHANGED <<boot, front, forgotten, disk, scratch, doubted>>
        /\ UNCHANGED <<stage, limits, starts, available, phase, answer, counts>>
    BY DEF IInv, WorkInv, WorkOK, Commit, volume, boot, front
  <1>3. applied[r] = 0 /\ phase[r] \notin {"new", "body"} /\ outcome[r] = None
    BY <1>2 DEF IInv, TypeOK, WorkInv, WorkOK, OutcomeInv, OutcomeOK, None
  <1>4. /\ applied' \in [Requests -> {0, 1}]
        /\ applied'[r] = IF stored THEN 1 ELSE 0
        /\ \A q \in Requests : q # r => applied'[q] = applied[q]
    BY <1>1, <1>3 DEF IInv, TypeOK
  <1>5. /\ work' \in [Requests -> Works] /\ outcome' \in [Requests -> Outcomes]
        /\ subject' \in [Requests -> Users]
        /\ work'[r] = IF stored THEN "written" ELSE "ended"
        /\ subject'[r] = subject[r] \/ work'[r] = "ended"
        /\ IF stored THEN outcome'[r] = None
           ELSE outcome'[r] \in IF phase[r] = "parked" THEN {"rejected", "failed"} ELSE {None}
        /\ \A q \in Requests : q # r =>
              work'[q] = work[q] /\ outcome'[q] = outcome[q] /\ subject'[q] = subject[q]
    <2>1. CASE stored
      BY <1>1, <1>3, <2>1 DEF IInv, TypeOK, Works
    <2>2. CASE ~stored
      <3>1. PICK o \in {"rejected", "failed"} : End(r, o)
        BY <1>1, <2>2
      <3>2. o \in Outcomes
        BY DEF Outcomes
      <3> QED BY <2>2, <3>1, <3>2, EndFacts DEF IInv
    <2> QED BY <2>1, <2>2
  <1>6. AuditLine(r, stored) \in Notes
    BY DEF IInv, TypeOK, AuditLine, AuditNotes, Notes, Said
  <1>7. TypeOK'
    <2>1. trail' \in [Requests -> Seq(Notes)]
      BY <1>1, <1>6, NoteFacts DEF IInv
    <2> QED BY <1>2, <1>4, <1>5, <2>1 DEF IInv, TypeOK
  <1>8. WorkOK(r)'
    BY <1>2, <1>3, <1>4, <1>5 DEF WorkOK, Pending, Alive, Serving, None
  <1>9. OutcomeOK(r)'
    BY <1>2, <1>3, <1>4, <1>5 DEF OutcomeOK, None
  <1>10. ProbeOK(r)'
    BY <1>2, <1>5 DEF IInv, ProbeInv, ProbeOK, Busy, None
  <1>11. Pending(r) /\ (applied'[r] = 1 <=> stored) /\ work'[r] \in {"written", "ended"}
    BY <1>2, <1>4, <1>5 DEF Pending, None
  <1> QED
    BY <1>1, <1>2, <1>4, <1>5, <1>7, <1>8, <1>9, <1>10, <1>11, PoolFrame DEF None

\* A probe ends with its verdict: a bad one only after the volume was doubted, and
\* its scratch file is gone unless the volume was.
LEMMA ProbeEnd ==
    ASSUME IInv, NEW r \in Requests, Kind[r] = "probe", Alive,
           work[r] \in {"running", "writing", "scratched"},
           NEW o \in {"ready", "not_ready"}, End(r, o), o = "not_ready" => r \in doubted,
           UNCHANGED <<boot, front, applied, forgotten, disk, doubted, trail>>,
           scratch' \in {scratch, scratch \ {r}}, r \in scratch' => r \in doubted
    PROVE  IInv'
  <1>1. UNCHANGED <<stage, limits, starts, available, phase, answer, counts>>
    BY DEF boot, front
  <1>2. /\ work' \in [Requests -> Works] /\ outcome' \in [Requests -> Outcomes]
        /\ subject' \in [Requests -> Users]
        /\ work'[r] = "ended" /\ outcome'[r] = IF phase[r] = "parked" THEN o ELSE None
        /\ \A q \in Requests : q # r =>
              work'[q] = work[q] /\ outcome'[q] = outcome[q] /\ subject'[q] = subject[q]
    BY EndFacts DEF IInv, Outcomes
  <1>3. TypeOK'
    BY <1>1, <1>2 DEF IInv, TypeOK
  <1>4. applied[r] = 0 /\ phase[r] \notin {"new", "body"}
    BY DEF IInv, TypeOK, WorkInv, WorkOK, None
  <1>5. WorkOK(r)'
    BY <1>1, <1>2, <1>4 DEF WorkOK, Pending, None
  <1>6. OutcomeOK(r)'
    BY <1>1, <1>2, <1>4 DEF OutcomeOK, None
  <1>7. ProbeOK(r)'
    BY <1>1, <1>2 DEF IInv, ProbeInv, ProbeOK, Busy, None
  <1> QED BY <1>1, <1>2, <1>3, <1>5, <1>6, <1>7, PoolFrame DEF Pending, None

\* A probe on a thread whose volume is in trouble is doubted; so is one that left
\* its scratch file; and its verdict so far is one of the two.
LEMMA ProbeFacts ==
    ASSUME IInv, NEW r \in Requests, Kind[r] = "probe",
           work[r] \in {"running", "locking", "holding", "writing", "scratched"}
    PROVE  /\ disk # "ok" => r \in doubted
           /\ outcome[r] = "not_ready" => r \in doubted
           /\ work[r] # "scratched" /\ r \in scratch => r \in doubted
           /\ work[r] \in {"holding", "writing", "scratched"} => outcome[r] \in {"ready", "not_ready"}
           /\ outcome \in [Requests -> Outcomes]
  BY DEF IInv, TypeOK, ProbeInv, ProbeOK, OutcomeInv, OutcomeOK, Busy, None

\* The root is looked at first.
LEMMA ProbeRootInv ==
    ASSUME IInv, NEW r \in Requests, ProbeRoot(r)
    PROVE  IInv'
  <1>1. /\ Alive /\ Kind[r] = "probe" /\ work[r] = "running"
        /\ UNCHANGED <<boot, front, applied, forgotten, disk, scratch, doubted, trail>>
    BY DEF ProbeRoot, ProbeAt, volume
  <1>2. CASE disk = "missing"
    BY <1>1, <1>2, ProbeFacts, ProbeEnd DEF ProbeRoot
  <1>3. CASE disk # "missing"
    BY <1>1, <1>3, ProbeFacts, InnerStep DEF ProbeRoot, ProbeStep
  <1> QED BY <1>2, <1>3

\* A lock another holds is no sign of trouble; one that cannot be opened is.
LEMMA ProbeLockInv ==
    ASSUME IInv, NEW r \in Requests, ProbeLock(r)
    PROVE  IInv'
  <1>1. /\ Alive /\ Kind[r] = "probe" /\ work[r] = "locking"
        /\ UNCHANGED <<boot, front, subject, applied, forgotten, disk, scratch, doubted, trail>>
        /\ outcome' = [outcome EXCEPT ![r] = IF disk = "ok" THEN "ready" ELSE "not_ready"]
    BY DEF ProbeLock, ProbeAt, volume
  <1>2. PICK w \in {"holding", "writing"} : work' = [work EXCEPT ![r] = w]
    BY DEF ProbeLock, ProbeStep
  <1>3. /\ outcome' \in [Requests -> Outcomes]
        /\ outcome'[r] = IF disk = "ok" THEN "ready" ELSE "not_ready"
        /\ \A q \in Requests : q # r => outcome'[q] = outcome[q]
    BY <1>1, ProbeFacts DEF Outcomes
  <1> QED BY <1>1, <1>2, <1>3, ProbeFacts, InnerStep DEF None

\* The probe lets the lock go before it writes.
LEMMA ProbeUnlockInv ==
    ASSUME IInv, NEW r \in Requests, ProbeUnlock(r)
    PROVE  IInv'
  <1>1. /\ Alive /\ Kind[r] = "probe" /\ work[r] = "holding"
        /\ UNCHANGED <<boot, front, outcome, subject, applied, forgotten, disk, scratch, doubted, trail>>
        /\ work' = [work EXCEPT ![r] = "writing"]
    BY DEF ProbeUnlock, ProbeAt, ProbeStep, volume
  <1> QED BY <1>1, ProbeFacts, InnerStep DEF None

\* A scratch file is written where the volume lets it be.
LEMMA ProbeWritableInv ==
    ASSUME IInv, NEW r \in Requests, ProbeWritable(r)
    PROVE  IInv'
  <1>1. /\ Alive /\ Kind[r] = "probe" /\ work[r] = "writing"
        /\ UNCHANGED <<boot, front, applied, forgotten, disk, doubted, trail>>
    BY DEF ProbeWritable, ProbeAt
  <1>2. CASE disk = "ok"
    BY <1>1, <1>2, ProbeFacts, InnerStep DEF ProbeWritable, ProbeStep, None
  <1>3. CASE disk # "ok"
    BY <1>1, <1>3, ProbeFacts, ProbeEnd DEF ProbeWritable
  <1> QED BY <1>2, <1>3

\* And removed again, if the volume still lets it.
LEMMA ProbeRemoveInv ==
    ASSUME IInv, NEW r \in Requests, ProbeRemove(r)
    PROVE  IInv'
  <1>1. /\ Alive /\ Kind[r] = "probe" /\ work[r] = "scratched" /\ End(r, outcome[r])
        /\ UNCHANGED <<boot, front, applied, forgotten, disk, doubted, trail>>
        /\ scratch' = IF disk = "ok" THEN scratch \ {r} ELSE scratch
    BY DEF ProbeRemove, ProbeAt
  <1> QED BY <1>1, ProbeFacts, ProbeEnd

(* ------------------------------- theorems ------------------------------- *)

\* Every step of the process, of its requests and of its surroundings preserves
\* the invariant.
LEMMA NextInv == IInv /\ [Next]_vars => IInv'
  <1> SUFFICES ASSUME IInv, [Next]_vars PROVE IInv'
    OBVIOUS
  <1>1. ASSUME NEW r \in Requests, WorkStep(r) PROVE IInv'
    BY <1>1, RejectInv, TakeGrantLockInv, MissGrantLockInv, RevokeGrantsInv, TakeLockInv,
       MissLockInv, CommitInv, FinishWorkInv, ProbeRootInv, ProbeLockInv, ProbeUnlockInv, ProbeWritableInv, ProbeRemoveInv DEF WorkStep
  <1>2. ASSUME NEW r \in Requests,
               \/ Arrive(r) \/ AnswerDirectly(r) \/ Park(r)
               \/ Respond(r) \/ Timeout(r) \/ HangUp(r) \/ StartWork(r)
        PROVE  IInv'
    BY <1>2, ArriveInv, AnswerDirectlyInv, ParkInv, RespondInv, TimeoutInv, HangUpInv,
       StartWorkInv
  <1>3. CASE \E d \in Deployments : Start(d)
    BY <1>3, StartInv
  <1>4. CASE \E to \in {"ok", "readonly", "missing"} : DiskChanges(to)
    BY <1>4, DiskChangesInv
  <1>5. CASE UNCHANGED vars
    BY <1>5, StutterInv
  <1> QED
    BY <1>1, <1>2, <1>3, <1>4, <1>5, BootStepInv, ShutdownSignalInv, DrainedInv, ExitInv, KillInv
    DEF Next, Rest

\* Futures, closures, permits, counters and log lines agree in every reachable
\* state.
THEOREM Invariant == Spec => []IInv
  BY InitInv, NextInv, PTL DEF Spec

\* However requests are answered, cut off, abandoned or killed, the permits and
\* the requests in flight add up to max_concurrency (guardrails::concurrency).
THEOREM Permits == Spec => []PermitsBoundRequests
  <1>1. IInv => PermitsBoundRequests
    BY DEF IInv, FlightInv
  <1> QED BY <1>1, Invariant, PTL

\* A success means one write, a refusal none, ever (on_blocking, park).
THEOREM Telling == Spec => []AnswersTell
  <1>1. IInv => AnswersTell
    <2> SUFFICES ASSUME IInv, NEW r \in Requests
                 PROVE  /\ applied[r] <= 1
                        /\ answer[r] = "ok" => applied[r] = 1
                        /\ answer[r] \in {"at_limit", "too_large", "unauthenticated", "rejected", "busy"}
                              => applied[r] = 0 /\ work[r] \in {None, "ended"}
      BY DEF AnswersTell
    <2>1. applied[r] \in {0, 1} /\ (work[r] = None => applied[r] = 0)
      BY DEF IInv, TypeOK, WorkInv, WorkOK, None
    <2> QED BY <2>1 DEF IInv, AnswerInv
  <1> QED BY <1>1, Invariant, PTL

\* Work without a waiting request belongs to one that was cut off or left, through
\* timeouts, hang-ups, graceful stops and kills (axum::serve, the timeout layer).
THEOREM Orphans == Spec => []OrphansAreCutOff
  <1>1. IInv => OrphansAreCutOff
    BY DEF IInv
  <1> QED BY <1>1, Invariant, PTL

\* The probe blames the volume only when the volume was in trouble, never a peer's
\* lock, and leaves no scratch file on a healthy one (probe_readiness).
THEOREM Readiness == Spec => []ProbeHonest
  <1>1. IInv => ProbeHonest
    BY DEF IInv, ProbeInv, ProbeOK, ProbeHonest
  <1> QED BY <1>1, Invariant, PTL

\* A span has its fields exactly when its request was answered; at most one audit
\* line per request, of success exactly when the write is stored and in the name
\* the span has; at most one line about a project's grants, of success exactly
\* when some were removed, before the line of the removal, which follows no failed
\* one; and counters that are the answers of this process (record_outcome, track,
\* audited, revoke_project_grants).
THEOREM Logging == Spec => []TrailTruthful
  <1>1. IInv => TrailTruthful
    <2> SUFFICES ASSUME IInv PROVE TrailTruthful
      OBVIOUS
    <2>1. Serving => \A c \in Classes : counts[c] = Cardinality(CountedAs(c))
      BY DEF IInv, CountInv
    <2>2. ASSUME NEW r \in Requests
          PROVE  /\ applied[r] = 1 <=> Succeeds(r, "audit")
                 /\ r \in forgotten <=> Succeeds(r, "revocation")
                 /\ \A i \in Entries(r, "revocation"), j \in Entries(r, "audit") :
                       i < j /\ trail[r][i].outcome = "success"
                 /\ \A i \in Entries(r, "span"), j \in Entries(r, "audit") :
                       trail[r][i].user = trail[r][j].user
      BY DEF IInv, TrailInv, TrailOK, ActorInv, ActorOK
    <2>3. ASSUME NEW r \in Requests
          PROVE  Cardinality(Entries(r, "span")) = IF phase[r] = "answered" THEN 1 ELSE 0
      <3>1. CASE phase[r] = "answered"
        <4>1. PICK i \in DOMAIN trail[r] : Entries(r, "span") = {i}
          BY <3>1 DEF IInv, TrailInv, TrailOK
        <4> QED BY <3>1, <4>1, FS_Singleton
      <3>2. CASE phase[r] # "answered"
        <4>1. Entries(r, "span") = {}
          BY <3>2 DEF IInv, TrailInv, TrailOK
        <4> QED BY <3>2, <4>1, FS_EmptySet
      <3> QED BY <3>1, <3>2
    <2>4. ASSUME NEW r \in Requests, NEW what \in {"audit", "revocation"}
          PROVE  Cardinality(Entries(r, what)) <= 1
      <3>1. Entries(r, what) = {} \/ \E i : Entries(r, what) = {i}
        BY DEF IInv, TrailInv, TrailOK
      <3>2. Cardinality(Entries(r, what)) \in {0, 1}
        BY <3>1, FS_EmptySet, FS_Singleton
      <3> QED BY <3>2
    <2> QED BY <2>1, <2>2, <2>3, <2>4 DEF TrailTruthful
  <1> QED BY <1>1, Invariant, PTL
-----------------------------------------------------------------------------
(* What a start makes of its environment: the operators of Startup accept   *)
(* exactly the sound environments, and read the documented settings.        *)

\* A result is a value or an error.
LEMMA Results ==
    ASSUME NEW v
    PROVE  ~IsErr(Ok(v)) /\ IsErr(Err(v)) /\ Ok(v).val = v
  BY DEF IsErr, Ok, Err

\* The texts differ.
LEMMA Texts ==
    /\ Unset # Blank /\ Unset # Junk /\ Blank # Junk
    /\ \A n : Number(n) \notin {Unset, Blank, Junk} /\ Number(n).n = n
    /\ Unset.is = "unset" /\ Junk.is = "junk" /\ Blank.is = "blank"
    /\ \A b : Flag(b).is = "flag" /\ Flag(b).on = b
    /\ "entries" \notin DOMAIN Unset /\ "doc" \notin DOMAIN Unset
  BY DEF Unset, Blank, Junk, Number, Flag

\* A bound is refused as a text that is no number, or as the zero it refuses.
LEMMA BoundFacts ==
    ASSUME NEW t, IsBound(t), NEW default, NEW zero
    PROVE  /\ t = Junk => IsErr(Bound(t, default, zero))
           /\ t = Number(0) => Bound(t, default, zero) = zero
           /\ t # Junk /\ t # Number(0) => ~IsErr(Bound(t, default, zero))
  <1>1. CASE t \in {Unset, Blank}
    <2>1. t # Junk /\ t # Number(0)
      BY <1>1, Texts
    <2>2. Bound(t, default, zero) = Ok(default)
      BY <1>1, <2>1 DEF Bound
    <2> QED BY <2>1, <2>2, Results
  <1>2. CASE t = Junk
    <2>1. t \notin {Unset, Blank} /\ t # Number(0)
      BY <1>2, Texts
    <2>2. Bound(t, default, zero) = Err("not_a_number")
      BY <1>2, <2>1 DEF Bound
    <2> QED BY <1>2, <2>1, <2>2, Results
  <1>3. CASE t = Number(0)
    <2>1. t \notin {Unset, Blank} /\ t # Junk
      BY <1>3, Texts
    <2>2. Bound(t, default, zero) = zero
      BY <1>3, <2>1 DEF Bound
    <2> QED BY <2>1, <1>3, <2>2
  <1>4. CASE t \notin {Unset, Blank} /\ t # Junk /\ t # Number(0)
    <2>1. Bound(t, default, zero) = Ok(t.n)
      BY <1>4 DEF Bound
    <2> QED BY <1>4, <2>1, Results
  <1> QED BY <1>1, <1>2, <1>3, <1>4

\* What the request bounds refuse is what a sound environment may not have.
LEMMA BoundsFacts ==
    ASSUME NEW d \in Deployments
    PROVE  /\ IsErr(LockTimeoutFrom(d.lock_timeout)) <=> d.lock_timeout = Junk
           /\ BoundsRead(d) <=> /\ Junk \notin {d.max_body, d.request_timeout, d.max_concurrency}
                                /\ d.max_body.is = "number" => d.max_body.n > 0
  <1>1. \A t \in {d.lock_timeout, d.max_body, d.request_timeout, d.max_concurrency} : IsBound(t)
    BY DeploymentsAssumption
  <1>2. Number(0) # Junk
    BY Texts
  <1>3. IsErr(LockTimeoutFrom(d.lock_timeout)) <=> d.lock_timeout = Junk
    BY <1>1, <1>2, BoundFacts, Results DEF LockTimeoutFrom
  <1>4. IsErr(RequestTimeoutFrom(d.request_timeout)) <=> d.request_timeout = Junk
    BY <1>1, <1>2, BoundFacts, Results DEF RequestTimeoutFrom
  <1>5. IsErr(MaxConcurrencyFrom(d.max_concurrency)) <=> d.max_concurrency = Junk
    BY <1>1, <1>2, BoundFacts, Results DEF MaxConcurrencyFrom
  <1>6. IsErr(MaxBodyBytesFrom(d.max_body)) <=> d.max_body = Junk \/ d.max_body = Number(0)
    BY <1>1, <1>2, BoundFacts, Results DEF MaxBodyBytesFrom
  <1>7. d.max_body # Junk =>
           (d.max_body = Number(0) <=> ~(d.max_body.is = "number" => d.max_body.n > 0))
    <2> DEFINE t == d.max_body
    <2>1. t \in {Unset, Blank, Junk} \/ (t.is = "number" /\ t = Number(t.n) /\ t.n \in Nat)
      BY <1>1 DEF IsBound
    <2> HIDE DEF t
    <2>2. Number(0).is = "number" /\ Number(0).n = 0
      BY DEF Number
    <2>3. t \in {Unset, Blank, Junk} => t.is # "number"
      BY Texts
    <2>4. CASE t \in {Unset, Blank, Junk}
      BY <2>2, <2>3, <2>4 DEF t
    <2>5. CASE t.is = "number" /\ t = Number(t.n) /\ t.n \in Nat
      <3>1. t = Number(0) <=> t.n = 0
        BY <2>2, <2>5
      <3> QED BY <2>5, <3>1 DEF t
    <2> QED BY <2>1, <2>4, <2>5
  <1> QED BY <1>3, <1>4, <1>5, <1>6, <1>7 DEF BoundsRead

\* The subscriber is refused for the texts a sound environment may not have.
LEMMA LogFacts ==
    ASSUME NEW d
    PROVE  /\ IsErr(LogFilterFrom(d.log)) <=> d.log = Junk
           /\ IsErr(LogFormatFrom(d.log_format)) <=>
                 d.log_format \notin {Unset, Blank, Word("compact"), Word("json")}
           /\ d.log_format \in {Unset, Blank, Word("compact"), Word("json")} => d.log_format # Junk
  <1>1. Word("compact") # Junk /\ Word("json") # Junk
    BY DEF Word, Junk
  <1> QED BY <1>1, Results, Texts DEF LogFilterFrom, LogFormatFrom

\* A legacy layout is a document in a collection a project now has.
LEMMA LayoutFacts ==
    ASSUME NEW d \in Deployments
    PROVE  ~RefuseLegacyLayout(d.root) <=>
              \A c \in DOMAIN d.root : Document \in d.root[c] => c \notin ReservedProjectChildren
  <1>1. \A c \in DOMAIN d.root :
           d.root[c] \subseteq [file : BOOLEAN, json : BOOLEAN, dotted : BOOLEAN]
    BY DeploymentsAssumption
  <1>2. \A e \in [file : BOOLEAN, json : BOOLEAN, dotted : BOOLEAN] :
           e.file /\ e.json /\ ~e.dotted <=> e = Document
    BY DEF Document
  <1> QED BY <1>1, <1>2 DEF RefuseLegacyLayout

\* The key ring is got unless the file cannot be read or has a key of another
\* length.
LEMMA RingLoads ==
    ASSUME NEW f, IsKeyFile(f)
    PROVE  /\ IsErr(LoadKeyRing(f)) <=>
                 ~(/\ f \notin {Blank, Junk}
                   /\ "entries" \in DOMAIN f => \A e \in ToSet(f.entries) : e.length = KeyLength)
           /\ ~IsErr(LoadKeyRing(f)) =>
                 LoadKeyRing(f).val = IF "entries" \in DOMAIN f THEN f.entries ELSE NoRing
  <1>1. CASE f = Unset
    <2>1. LoadKeyRing(f) = Ok(NoRing)
      BY <1>1, Texts DEF LoadKeyRing
    <2> QED BY <1>1, <2>1, Results, Texts
  <1>2. CASE f = Junk
    <2>1. LoadKeyRing(f) = Err("key_file_malformed")
      BY <1>2, Texts DEF LoadKeyRing
    <2> QED BY <1>2, <2>1, Results
  <1>3. CASE f = Blank
    <2>1. LoadKeyRing(f) = Err("key_file_unreadable")
      BY <1>3, Texts DEF LoadKeyRing
    <2> QED BY <1>3, <2>1, Results
  <1>4. CASE f \notin {Unset, Blank, Junk}
    <2>1. "entries" \in DOMAIN f /\ f.entries \in Seq(ToSet(f.entries))
      BY <1>4 DEF IsKeyFile
    <2>2. LoadKeyRing(f) = ParseKeyRing(f.entries)
      BY <1>4 DEF LoadKeyRing
    <2>3. (\A e \in ToSet(f.entries) : e.length = KeyLength) <=>
             {i \in DOMAIN f.entries : f.entries[i].length # KeyLength} = {}
      BY DEF ToSet
    <2>4. CASE {i \in DOMAIN f.entries : f.entries[i].length # KeyLength} = {}
      <3>1. LoadKeyRing(f) = Ok(f.entries)
        BY <2>2, <2>4 DEF ParseKeyRing
      <3> QED BY <1>4, <2>1, <2>3, <2>4, <3>1, Results
    <2>5. CASE {i \in DOMAIN f.entries : f.entries[i].length # KeyLength} # {}
      <3>1. IsErr(LoadKeyRing(f))
        BY <2>2, <2>5, Results DEF ParseKeyRing
      <3> QED BY <1>4, <2>1, <2>3, <2>5, <3>1
    <2> QED BY <2>4, <2>5
  <1> QED BY <1>1, <1>2, <1>3, <1>4

\* A nonempty set of naturals has a least element.
LEMMA Least == ASSUME NEW T \in SUBSET Nat, T # {} PROVE \E x \in T : \A y \in T : x <= y
  <1>1. PICK n \in T : TRUE
    OBVIOUS
  <1> DEFINE I(k) == T \cap (0..k)
             C == {I(k) : k \in T}
  <1>2. \A k \in T : I(k) \in FiniteSubsetsOf(Nat)
    <2> SUFFICES ASSUME NEW k \in T PROVE IsFiniteSet(I(k))
      BY DEF FiniteSubsetsOf
    <2>1. IsFiniteSet(0..k)
      BY FS_Interval
    <2> QED BY <2>1, FS_Intersection
  <1>3. C \subseteq FiniteSubsetsOf(Nat) /\ C # {}
    BY <1>1, <1>2
  <1>4. IsWellFoundedOn(StrictSubsetOrdering(Nat), FiniteSubsetsOf(Nat))
    BY FS_StrictSubsetOrderingWellFounded
  <1>5. PICK U \in C : \A V \in C : ~(<<V, U>> \in StrictSubsetOrdering(Nat))
    <2> HIDE DEF C
    <2> QED BY <1>3, <1>4, WFMin
  <1>6. PICK k \in T : U = I(k)
    OBVIOUS
  <1>7. ASSUME NEW y \in T, y < k PROVE FALSE
    <2>1. I(y) \in C /\ I(y) \subseteq I(k) /\ k \in I(k) /\ k \notin I(y)
      BY <1>7
    <2>2. I(y) \in SUBSET Nat /\ I(k) \in SUBSET Nat /\ I(y) # I(k)
      BY <2>1
    <2>3. <<I(y), I(k)>> \in StrictSubsetOrdering(Nat)
      <3> HIDE DEF I, C
      <3> QED BY <2>1, <2>2 DEF StrictSubsetOrdering
    <2> QED BY <1>5, <1>6, <2>1, <2>3
  <1> QED BY <1>7

\* The key a ring answers with for a name is the first one filed under it.
LEMMA RingAnswers ==
    ASSUME NEW ring, NEW S, ring \in Seq(S), NEW id, NEW key
    PROVE  RingHas(ring, id) /\ RingGet(ring, id) = key <=>
              \E i \in DOMAIN ring :
                 /\ ring[i].id = id /\ ring[i].key = key
                 /\ \A j \in DOMAIN ring : ring[j].id = id => i <= j
  <1> DEFINE First(i) == ring[i].id = id /\ \A j \in 1..(i - 1) : ring[j].id # id
  <1>1. DOMAIN ring = 1 .. Len(ring) /\ Len(ring) \in Nat
    OBVIOUS
  <1>2. \A i \in DOMAIN ring :
           First(i) <=> ring[i].id = id /\ \A j \in DOMAIN ring : ring[j].id = id => i <= j
    <2> SUFFICES ASSUME NEW i \in DOMAIN ring, ring[i].id = id
                 PROVE  (\A j \in 1..(i - 1) : ring[j].id # id) <=>
                        \A j \in DOMAIN ring : ring[j].id = id => i <= j
      OBVIOUS
    <2>1. i \in Nat /\ \A j \in 1 .. (i - 1) : j \in DOMAIN ring /\ ~(i <= j)
      BY <1>1
    <2>2. \A j \in DOMAIN ring : ~(i <= j) => j \in 1 .. (i - 1)
      BY <1>1
    <2> QED BY <2>1, <2>2
  <1>3. \A i, k \in DOMAIN ring : First(i) /\ First(k) => i = k
    <2> SUFFICES ASSUME NEW i \in DOMAIN ring, NEW k \in DOMAIN ring, First(i), First(k)
                 PROVE  i = k
      OBVIOUS
    <2>1. i <= k /\ k <= i
      BY <1>2
    <2> QED BY <1>1, <2>1
  <1>4. RingHas(ring, id) => \E i \in DOMAIN ring : First(i)
    <2> SUFFICES ASSUME RingHas(ring, id) PROVE \E i \in DOMAIN ring : First(i)
      OBVIOUS
    <2> DEFINE T == {i \in DOMAIN ring : ring[i].id = id}
    <2>1. T # {} /\ T \in SUBSET Nat
      BY <1>1 DEF RingHas
    <2>2. \E i \in T : \A j \in T : i <= j
      BY <2>1, Least
    <2> QED BY <1>2, <2>2
  <1>5. RingGet(ring, id) = ring[CHOOSE i \in DOMAIN ring : First(i)].key
    BY DEF RingGet
  <1>6. \A i \in DOMAIN ring : First(i) => ring[i].id = id
    OBVIOUS
  <1> HIDE DEF First
  <1>7. \A i \in DOMAIN ring : First(i) => RingGet(ring, id) = ring[i].key /\ RingHas(ring, id)
    <2> SUFFICES ASSUME NEW i \in DOMAIN ring, First(i)
                 PROVE  RingGet(ring, id) = ring[i].key /\ RingHas(ring, id)
      OBVIOUS
    <2>1. (CHOOSE k \in DOMAIN ring : First(k)) = i
      BY <1>3
    <2> QED BY <1>5, <1>6, <2>1 DEF RingHas
  <1> QED BY <1>2, <1>4, <1>7

\* A value of the file resolves unless it is an envelope that does not open.
LEMMA SecretResolves ==
    ASSUME NEW v, NEW ring, NEW S, ring \in Seq(S)
    PROVE  /\ v.type # "object" => ResolveSecret(v, ring) = Ok(v)
           /\ v.type = "object" =>
                 /\ ~IsErr(ResolveSecret(v, ring)) <=>
                       /\ v.version = 1 /\ v.algorithm = "aes-256-gcm" /\ v.intact
                       /\ \E i \in DOMAIN ring :
                             /\ ring[i].id = v.id /\ ring[i].key = v.key
                             /\ \A j \in DOMAIN ring : ring[j].id = v.id => i <= j
                 /\ ~IsErr(ResolveSecret(v, ring)) =>
                       ResolveSecret(v, ring) = Ok(Json("string", v.text))
  <1> DEFINE Opens == /\ v.version = 1 /\ v.algorithm = "aes-256-gcm" /\ v.intact
                      /\ RingHas(ring, v.id) /\ RingGet(ring, v.id) = v.key
  <1>1. v.type # "object" => ResolveSecret(v, ring) = Ok(v)
    BY DEF ResolveSecret
  <1>2. v.type = "object" /\ Opens => ResolveSecret(v, ring) = Ok(Json("string", v.text))
    BY DEF ResolveSecret
  <1>3. v.type = "object" /\ ~Opens => IsErr(ResolveSecret(v, ring))
    BY Results DEF ResolveSecret
  <1>4. Opens <=> /\ v.version = 1 /\ v.algorithm = "aes-256-gcm" /\ v.intact
                  /\ \E i \in DOMAIN ring :
                        /\ ring[i].id = v.id /\ ring[i].key = v.key
                        /\ \A j \in DOMAIN ring : ring[j].id = v.id => i <= j
    <2>1. RingHas(ring, v.id) /\ RingGet(ring, v.id) = v.key <=>
             \E i \in DOMAIN ring :
                /\ ring[i].id = v.id /\ ring[i].key = v.key
                /\ \A j \in DOMAIN ring : ring[j].id = v.id => i <= j
      BY ONLY ring \in Seq(S), RingAnswers, Zenon
    <2> QED BY <2>1
  <1> HIDE DEF Opens
  <1> QED BY <1>1, <1>2, <1>3, <1>4, Results

\* What a sound environment says of its key ring and its file.
RingSound(d) ==
    /\ d.key_file \notin {Blank, Junk}
    /\ "entries" \in DOMAIN d.key_file =>
          \A e \in ToSet(d.key_file.entries) : e.length = KeyLength

ValueSound(d, key, v) ==
    \/ v.type = "null"
    \/ v.type = "object" /\ key \in SecretKeys /\ Sealed(d, v)
    \/ v.type = "boolean" /\ key = "auth_required"
    \/ v.type = "string" /\ key # "auth_required"

DocSound(d) ==
    /\ DOMAIN d.file.doc \subseteq KnownKeys
    /\ "version" \in DOMAIN d.file.doc /\ d.file.doc["version"] = Json("number", Number(1))
    /\ \A key \in DOMAIN d.file.doc \ {"version"} : ValueSound(d, key, d.file.doc[key])

FileSound(d) ==
    /\ d.file \notin {Blank, Junk}
    /\ "doc" \in DOMAIN d.file => DocSound(d)

\* A document passes its checks when its values are of their keys' types.
LEMMA DocParses ==
    ASSUME NEW f, IsFile(f), f \notin {Unset, Blank, Junk}
    PROVE  /\ ~IsErr(ConfigParse(f)) <=>
                 CheckShape(f.doc) /\ Typed(f.doc) /\ f.doc["version"].text = Number(1)
           /\ ~IsErr(ConfigParse(f)) => ConfigParse(f) = Ok(f.doc)
  <1>1. ConfigParse(f) = IF ~CheckShape(f.doc) \/ ~Typed(f.doc) THEN Err("file_malformed")
                         ELSE IF f.doc["version"].text # Number(1) THEN Err("file_version")
                         ELSE Ok(f.doc)
    BY DEF ConfigParse
  <1> HIDE DEF ConfigParse
  <1> QED BY <1>1, Results

\* The file and its ring load exactly when the ring and the document are sound.
LEMMA DocLoads ==
    ASSUME NEW d \in Deployments, RingSound(d), "doc" \in DOMAIN d.file,
           NEW ring, ring = IF "entries" \in DOMAIN d.key_file THEN d.key_file.entries ELSE NoRing
    PROVE  (/\ CheckShape(d.file.doc) /\ Typed(d.file.doc) /\ d.file.doc["version"].text = Number(1)
            /\ \A key \in DOMAIN d.file.doc \intersect SecretKeys :
                  ~IsErr(ResolveSecret(d.file.doc[key], ring)))
           <=> DocSound(d)
  <1> DEFINE doc == d.file.doc
  <1>1. IsFile(d.file) /\ IsKeyFile(d.key_file)
    BY DeploymentsAssumption
  <1>2. d.file \notin {Unset, Blank, Junk}
    BY DEF Unset, Blank, Junk
  <1>3. \A key \in DOMAIN doc : doc[key].type # "object" => doc[key] = Json(doc[key].type, doc[key].text)
    BY <1>1, <1>2 DEF IsFile
  <1>4. ring \in Seq(ToSet(ring)) /\ (\A v : Sealed(d, v) => "entries" \in DOMAIN d.key_file)
    <2>1. CASE "entries" \in DOMAIN d.key_file
      <3>1. d.key_file \notin {Unset, Blank, Junk}
        BY <2>1 DEF Unset, Blank, Junk
      <3> QED BY <1>1, <2>1, <3>1 DEF IsKeyFile
    <2>2. CASE "entries" \notin DOMAIN d.key_file
      BY <2>2 DEF NoRing, Sealed
    <2> QED BY <2>1, <2>2
  <1>5. \A v : v.type = "object" =>
           (Sealed(d, v) <=> v.well /\ ~IsErr(ResolveSecret(v, ring)))
    <2> SUFFICES ASSUME NEW v, v.type = "object"
                 PROVE  Sealed(d, v) <=> v.well /\ ~IsErr(ResolveSecret(v, ring))
      OBVIOUS
    <2>1. ~IsErr(ResolveSecret(v, ring)) <=>
             /\ v.version = 1 /\ v.algorithm = "aes-256-gcm" /\ v.intact
             /\ \E i \in DOMAIN ring :
                   /\ ring[i].id = v.id /\ ring[i].key = v.key
                   /\ \A j \in DOMAIN ring : ring[j].id = v.id => i <= j
      BY <1>4, SecretResolves
    <2>2. CASE "entries" \in DOMAIN d.key_file
      <3>1. ring = d.key_file.entries
        BY <2>2
      <3> QED BY <2>1, <2>2, <3>1 DEF Sealed
    <2>3. CASE "entries" \notin DOMAIN d.key_file
      <3>1. DOMAIN ring = {}
        BY <2>3 DEF NoRing
      <3> QED BY <2>1, <2>3, <3>1 DEF Sealed
    <2> QED BY <2>2, <2>3
  <1>6. \A v : v.type # "object" => ~IsErr(ResolveSecret(v, ring))
    BY <1>4, SecretResolves, Results
  <1>7. \A key \in DOMAIN doc \ {"version"} :
           ValueSound(d, key, doc[key]) <=>
              /\ CheckField(key, doc[key])
              /\ key \in SecretKeys => (doc[key].type = "object" => doc[key].well)
              /\ key \in SecretKeys => ~IsErr(ResolveSecret(doc[key], ring))
    <2> SUFFICES ASSUME NEW key \in DOMAIN doc \ {"version"}
                 PROVE  ValueSound(d, key, doc[key]) <=>
                          /\ CheckField(key, doc[key])
                          /\ key \in SecretKeys => (doc[key].type = "object" => doc[key].well)
                          /\ key \in SecretKeys => ~IsErr(ResolveSecret(doc[key], ring))
      OBVIOUS
    <2> DEFINE v == doc[key]
    <2>1. "auth_required" \notin SecretKeys
      BY DEF SecretKeys
    <2>2. v.type = "object" => (Sealed(d, v) <=> v.well /\ ~IsErr(ResolveSecret(v, ring)))
      BY <1>5
    <2>3. v.type # "object" => ~IsErr(ResolveSecret(v, ring))
      BY <1>6
    <2> HIDE DEF v
    <2> QED BY <2>1, <2>2, <2>3 DEF ValueSound, CheckField, v
  <1>8. "version" \notin SecretKeys
    BY DEF SecretKeys
  <1>9. "version" \in DOMAIN doc =>
           (doc["version"] = Json("number", Number(1)) <=>
              doc["version"].type = "number" /\ doc["version"].text = Number(1))
    <2>1. Json("number", Number(1)).type = "number" /\ Json("number", Number(1)).text = Number(1)
      BY DEF Json
    <2> QED BY <1>3, <2>1
  <1> HIDE DEF doc
  <1>10. (/\ CheckShape(doc) /\ Typed(doc) /\ doc["version"].text = Number(1)
          /\ \A key \in DOMAIN doc \intersect SecretKeys : ~IsErr(ResolveSecret(doc[key], ring)))
         <=> /\ DOMAIN doc \subseteq KnownKeys
             /\ "version" \in DOMAIN doc /\ doc["version"] = Json("number", Number(1))
             /\ \A key \in DOMAIN doc \ {"version"} : ValueSound(d, key, doc[key])
    BY <1>7, <1>8, <1>9 DEF CheckShape, Typed
  <1> QED BY <1>10 DEF DocSound, doc

\* The file and the ring load exactly when both are sound, and then the settings
\* looked up are the documented ones.
LEMMA Loads ==
    ASSUME NEW d \in Deployments
    PROVE  LET got == LoadFromEnv(d.key_file, d.file) IN
           /\ ~IsErr(got) <=> RingSound(d) /\ FileSound(d)
           /\ ~IsErr(got) =>
                 \A key : Lookup(d.env, got.val, key) = Documented(d, key)
  <1> DEFINE got == LoadFromEnv(d.key_file, d.file)
             ring == LoadKeyRing(d.key_file)
  <1>1. IsKeyFile(d.key_file) /\ IsFile(d.file)
    BY DeploymentsAssumption
  <1>2. /\ ~IsErr(ring) <=> RingSound(d)
        /\ ~IsErr(ring) =>
              ring.val = IF "entries" \in DOMAIN d.key_file THEN d.key_file.entries ELSE NoRing
    BY <1>1, RingLoads DEF RingSound
  <1> HIDE DEF ring
  <1>3. got = IF IsErr(ring) THEN ring
                 ELSE IF d.file = Unset THEN Ok(NoDocument)
                 ELSE LET doc == ConfigParse(d.file) IN
                      IF IsErr(doc) THEN doc ELSE ResolveSecrets(doc.val, ring.val)
    BY DEF LoadFromEnv, ring
  <1> HIDE DEF got
  <1>4. CASE IsErr(ring)
    BY <1>2, <1>3, <1>4 DEF got
  <1>5. CASE ~IsErr(ring) /\ d.file = Unset
    <2>1. got = Ok(NoDocument)
      BY <1>3, <1>5
    <2>2. ~IsErr(got) /\ got.val = NoDocument
      BY <2>1, Results
    <2>3. d.file \notin {Blank, Junk} /\ "doc" \notin DOMAIN d.file
      BY <1>5, Texts
    <2>4. \A key : Lookup(d.env, NoDocument, key) = Documented(d, key)
      BY <2>3 DEF Lookup, FileText, NoDocument, Documented
    <2> QED BY <1>2, <1>5, <2>2, <2>3, <2>4 DEF FileSound, got
  <1>6. CASE ~IsErr(ring) /\ d.file \in {Blank, Junk}
    <2>1. d.file # Unset
      BY <1>6, Texts
    <2>2. ConfigParse(d.file) \in {Err("file_unreadable"), Err("file_malformed")}
      <3>1. CASE d.file = Blank
        <4>1. d.file # Junk
          BY <3>1, Texts
        <4>2. ConfigParse(d.file) = Err("file_unreadable")
          BY <3>1, <4>1 DEF ConfigParse
        <4> QED BY <4>2
      <3>2. CASE d.file = Junk
        <4>1. d.file # Blank
          BY <3>2, Texts
        <4>2. ConfigParse(d.file) = Err("file_malformed")
          BY <3>2, <4>1 DEF ConfigParse
        <4> QED BY <4>2
      <3> QED BY <1>6, <3>1, <3>2
    <2>3. IsErr(got)
      BY <1>3, <1>6, <2>1, <2>2, Results
    <2> QED BY <1>6, <2>3 DEF FileSound, got
  <1>7. CASE ~IsErr(ring) /\ d.file \notin {Unset, Blank, Junk}
    <2> DEFINE doc == d.file.doc
               resolved == [key \in DOMAIN doc |->
                               IF key \in SecretKeys THEN ResolveSecret(doc[key], ring.val)
                               ELSE Ok(doc[key])]
    <2>1. "doc" \in DOMAIN d.file /\ RingSound(d)
      BY <1>1, <1>2, <1>7 DEF IsFile
    <2>2. (/\ CheckShape(doc) /\ Typed(doc) /\ doc["version"].text = Number(1)
           /\ \A key \in DOMAIN doc \intersect SecretKeys :
                 ~IsErr(ResolveSecret(doc[key], ring.val))) <=> FileSound(d)
      <3>1. ring.val = IF "entries" \in DOMAIN d.key_file THEN d.key_file.entries ELSE NoRing
        BY <1>2, <1>7
      <3> QED BY <1>7, <2>1, <3>1, DocLoads DEF FileSound
    <2>3. /\ ~IsErr(ConfigParse(d.file)) <=>
                CheckShape(doc) /\ Typed(doc) /\ doc["version"].text = Number(1)
          /\ ~IsErr(ConfigParse(d.file)) => ConfigParse(d.file).val = doc
      BY <1>1, <1>7, DocParses, Results
    <2>4. CASE IsErr(ConfigParse(d.file))
      <3>1. IsErr(got)
        BY <1>3, <1>7, <2>4
      <3> QED BY <2>2, <2>3, <2>4, <3>1 DEF got
    <2>5. CASE ~IsErr(ConfigParse(d.file))
      <3>1. got = IF \E key \in DOMAIN doc : IsErr(resolved[key])
                     THEN Err("file_secret")
                     ELSE Ok([key \in DOMAIN doc |-> resolved[key].val])
        BY <1>3, <1>7, <2>3, <2>5 DEF ResolveSecrets
      <3>2. \A key \in DOMAIN doc :
               IsErr(resolved[key]) <=> key \in SecretKeys /\ IsErr(ResolveSecret(doc[key], ring.val))
        BY Results
      <3>3. \A key \in DOMAIN doc : ~IsErr(resolved[key]) =>
               /\ resolved[key].val.type # "null" <=> doc[key].type # "null"
               /\ doc[key].type # "null" => resolved[key].val.text = doc[key].text
        <4> SUFFICES ASSUME NEW key \in DOMAIN doc, ~IsErr(resolved[key])
                     PROVE  /\ resolved[key].val.type # "null" <=> doc[key].type # "null"
                            /\ doc[key].type # "null" => resolved[key].val.text = doc[key].text
          OBVIOUS
        <4>1. resolved[key] \in {Ok(doc[key])} \/
              (doc[key].type = "object" /\ resolved[key] = Ok(Json("string", doc[key].text)))
          <5>1. ring.val \in Seq(ToSet(ring.val))
            <6>1. CASE "entries" \in DOMAIN d.key_file
              <7>1. d.key_file \notin {Unset, Blank, Junk}
                BY <6>1 DEF Unset, Blank, Junk
              <7> QED BY <1>1, <1>2, <1>7, <6>1, <7>1 DEF IsKeyFile
            <6>2. CASE "entries" \notin DOMAIN d.key_file
              <7>1. ring.val = <<>>
                BY <1>2, <1>7, <6>2 DEF NoRing
              <7>2. \A T : <<>> \in Seq(T)
                OBVIOUS
              <7> QED BY <7>1, <7>2
            <6> QED BY <6>1, <6>2
          <5>2. /\ doc[key].type # "object" => ResolveSecret(doc[key], ring.val) = Ok(doc[key])
                /\ doc[key].type = "object" =>
                      (~IsErr(ResolveSecret(doc[key], ring.val)) =>
                         ResolveSecret(doc[key], ring.val) = Ok(Json("string", doc[key].text)))
            BY <5>1, SecretResolves
          <5> QED BY <3>2, <5>2
        <4>2. \A t : Json("string", t).type = "string" /\ Json("string", t).text = t
          BY DEF Json
        <4> QED BY <4>1, <4>2, Results, SMTT(40)
      <3> HIDE DEF resolved, doc
      <3>4. ~IsErr(got) <=> FileSound(d)
        <4>1. ~IsErr(got) <=> \A key \in DOMAIN doc : ~IsErr(resolved[key])
          BY <3>1, Results
        <4> QED BY <2>2, <2>3, <2>5, <3>2, <4>1
      <3>5. ASSUME ~IsErr(got), NEW key PROVE Lookup(d.env, got.val, key) = Documented(d, key)
        <4>1. got.val = [k \in DOMAIN doc |-> resolved[k].val]
              /\ \A k \in DOMAIN doc : ~IsErr(resolved[k])
          BY <3>1, <3>5, Results
        <4>2. FileText(got.val, key) =
                 IF key \in DOMAIN doc /\ doc[key].type # "null" THEN doc[key].text ELSE Unset
          BY <3>3, <4>1 DEF FileText
        <4> QED BY <2>1, <4>2 DEF Lookup, Documented, doc
      <3> QED BY <2>1, <3>4, <3>5, SMTT(40) DEF got
    <2> QED BY <2>4, <2>5
  <1> QED BY <1>4, <1>5, <1>6, <1>7

\* A documented setting is a text of its key.
LEMMA DocumentedType ==
    ASSUME NEW d \in Deployments, NEW key \in KnownKeys \ {"version"}
    PROVE  IsSetting(key, Documented(d, key))
  <1>1. IsSetting(key, d.env[key]) /\ IsFile(d.file)
    BY DeploymentsAssumption
  <1>2. IsSetting(key, Unset)
    BY DEF IsSetting, IsSecret
  <1>3. CASE "doc" \in DOMAIN d.file
    <2>1. d.file \notin {Unset, Blank, Junk}
      BY <1>3 DEF Unset, Blank, Junk
    <2>2. \A k \in DOMAIN d.file.doc : IsSetting(k, d.file.doc[k].text)
      BY <1>1, <2>1 DEF IsFile
    <2> QED BY <1>1, <1>2, <2>2 DEF Documented
  <1>4. CASE "doc" \notin DOMAIN d.file
    BY <1>1, <1>2, <1>4 DEF Documented
  <1> QED BY <1>3, <1>4

\* What a sound environment says of the authentication settings.
AuthSound(d) ==
    LET S(key) == Documented(d, key) IN
    /\ S("auth_required").is \in {"unset", "flag"}
    /\ \A key \in {"access_token_ttl", "refresh_token_ttl"} :
          S(key) = Unset \/ (S(key).is = "span" /\ S(key).n * S(key).scale \in 1..MaxSeconds)
    /\ ~(S("jwt_secret") # Unset /\ S("jwt_secret_file") # Unset)
    /\ \A key \in {"jwt_secret", "jwt_secret_file"} :
          S(key) = Unset \/ (S(key) # Junk /\ S(key).length >= MinSecretBytes)
    /\ S("auth_required") = Flag(TRUE) =>
          S("jwt_secret") # Unset \/ S("jwt_secret_file") # Unset
    /\ S("bootstrap_username") = Unset <=> S("bootstrap_password") = Unset

\* A flag is read unless it is no flag.
LEMMA FlagFacts ==
    ASSUME NEW t, IsSetting("auth_required", t)
    PROVE  LET required == Or(t, ParseBool(t), FALSE) IN
           /\ ~IsErr(required) <=> t.is \in {"unset", "flag"}
           /\ ~IsErr(required) => required.val = (t = Flag(TRUE))
  <1>1. t \in {Unset, Junk, Flag(TRUE), Flag(FALSE)}
    BY DEF IsSetting
  <1>2. Flag(TRUE) # Unset /\ Flag(FALSE) # Unset /\ Flag(FALSE) # Flag(TRUE)
    BY DEF Flag, Unset
  <1>3. CASE t = Unset
    <2>1. Or(t, ParseBool(t), FALSE) = Ok(FALSE) /\ t.is = "unset"
      BY <1>3, Texts DEF Or
    <2> QED BY <1>2, <1>3, <2>1, Results
  <1>4. CASE t = Junk
    <2>1. Or(t, ParseBool(t), FALSE) = Err("not_a_flag") /\ t.is = "junk"
      BY <1>4, Texts DEF Or, ParseBool
    <2> QED BY <2>1, Results
  <1>5. CASE t = Flag(TRUE)
    <2>1. Or(t, ParseBool(t), FALSE) = Ok(TRUE) /\ t.is = "flag"
      BY <1>2, <1>5, Texts DEF Or, ParseBool
    <2> QED BY <1>5, <2>1, Results
  <1>6. CASE t = Flag(FALSE)
    <2>1. Or(t, ParseBool(t), FALSE) = Ok(FALSE) /\ t.is = "flag"
      BY <1>2, <1>6, Texts DEF Or, ParseBool
    <2> QED BY <1>2, <1>6, <2>1, Results
  <1> QED BY <1>1, <1>3, <1>4, <1>5, <1>6

\* A duration is read unless it is none, zero or beyond what seconds can count.
LEMMA DurationFacts ==
    ASSUME NEW t, NEW default,
           t \in {Unset, Junk} \/ (t.is = "span" /\ t.n \in Nat /\ t.scale \in Nat \ {0})
    PROVE  ~IsErr(Or(t, ParseDuration(t), default)) <=>
              t = Unset \/ (t.is = "span" /\ t.n * t.scale \in 1..MaxSeconds)
  <1>1. CASE t = Unset
    BY <1>1, Results DEF Or
  <1>2. CASE t = Junk
    <2>1. t # Unset /\ t.is = "junk"
      BY <1>2, Texts
    <2> QED BY <2>1, Results DEF Or, ParseDuration
  <1>3. CASE t.is = "span" /\ t.n \in Nat /\ t.scale \in Nat \ {0}
    <2>1. t # Unset
      BY <1>3, Texts
    <2>2. t.n * t.scale \in Nat /\ (t.n * t.scale = 0 <=> t.n = 0)
      <3>1. \A a, b \in Nat : a * b \in Nat /\ (b # 0 => (a * b = 0 <=> a = 0))
        OBVIOUS
      <3> QED BY <1>3, <3>1
    <2>3. ~IsErr(ParseDuration(t)) <=> ~(t.n = 0 \/ t.n * t.scale > MaxSeconds)
      BY <1>3, Results DEF ParseDuration
    <2> QED BY <1>3, <2>1, <2>2, <2>3, StartupConstants DEF Or
  <1> QED BY <1>1, <1>2, <1>3

\* A signing secret is one text, long enough, where authentication needs one.
LEMMA SecretFacts ==
    ASSUME NEW inline, NEW path, NEW required \in BOOLEAN,
           IsSecret(inline), path = Junk \/ IsSecret(path)
    PROVE  ~IsErr(SigningSecret(inline, path, required)) <=>
              /\ ~(inline # Unset /\ path # Unset)
              /\ inline = Unset \/ (inline # Junk /\ inline.length >= MinSecretBytes)
              /\ path = Unset \/ (path # Junk /\ path.length >= MinSecretBytes)
              /\ required => inline # Unset \/ path # Unset
  <1>1. inline # Junk
    BY Texts DEF IsSecret
  <1>2. IsErr(ReadSecretFile(path)) <=> path = Junk
    BY Results DEF ReadSecretFile
  <1>3. CASE inline # Unset /\ path # Unset
    <2>1. SigningSecret(inline, path, required) = Err("secret_conflict")
      BY <1>3 DEF SigningSecret
    <2> QED BY <1>3, <2>1, Results
  <1>4. CASE inline = Unset /\ path = Unset
    <2>1. path # Junk
      BY <1>4, Texts
    <2>2. SigningSecret(inline, path, required) =
             IF required THEN Err("secret_missing") ELSE Ok(Unset)
      BY <1>2, <1>4, <2>1 DEF SigningSecret
    <2> QED BY <1>4, <2>2, Results
  <1>5. CASE inline = Unset /\ path = Junk
    <2>1. path # Unset
      BY <1>5, Texts
    <2>2. SigningSecret(inline, path, required) = ReadSecretFile(path)
      BY <1>2, <1>5, <2>1 DEF SigningSecret
    <2> QED BY <1>2, <1>5, <2>1, <2>2
  <1>6. CASE inline = Unset /\ path # Unset /\ path # Junk
    <2>1. SigningSecret(inline, path, required) =
             IF path.length < MinSecretBytes THEN Err("secret_short") ELSE Ok(path)
      BY <1>2, <1>6 DEF SigningSecret
    <2>2. path.length \in Nat
      BY <1>6 DEF IsSecret
    <2> QED BY <1>6, <2>1, <2>2, Results, StartupConstants
  <1>7. CASE inline # Unset /\ path = Unset
    <2>1. SigningSecret(inline, path, required) =
             IF inline.length < MinSecretBytes THEN Err("secret_short") ELSE Ok(inline)
      BY <1>7 DEF SigningSecret
    <2>2. inline.length \in Nat
      BY <1>7 DEF IsSecret
    <2> QED BY <1>1, <1>7, <2>1, <2>2, Results, StartupConstants
  <1> QED BY <1>3, <1>4, <1>5, <1>6, <1>7

\* The settings are accepted exactly when they are sound, and say what is
\* documented.
LEMMA AuthFacts ==
    ASSUME NEW d \in Deployments, NEW doc,
           \A key : Lookup(d.env, doc, key) = Documented(d, key)
    PROVE  LET config == AuthConfig(d.env, doc) IN
           /\ ~IsErr(config) <=> AuthSound(d)
           /\ ~IsErr(config) =>
                 /\ config.val.required = (Documented(d, "auth_required") = Flag(TRUE))
                 /\ config.val.bootstrap_username = Documented(d, "bootstrap_username")
  <1> DEFINE At(key) == Lookup(d.env, doc, key)
             required == Or(At("auth_required"), ParseBool(At("auth_required")), FALSE)
             access == Or(At("access_token_ttl"), ParseDuration(At("access_token_ttl")),
                          DefaultAccessTtl)
             refresh == Or(At("refresh_token_ttl"), ParseDuration(At("refresh_token_ttl")),
                           DefaultRefreshTtl)
             secret == IF IsErr(required) THEN required
                       ELSE SigningSecret(At("jwt_secret"), At("jwt_secret_file"), required.val)
             name == At("bootstrap_username")
             bootstrap == IF (name # Unset) # (At("bootstrap_password") # Unset)
                          THEN Err("bootstrap_incomplete") ELSE Ok(name)
             results == <<required, access, refresh, secret, bootstrap>>
             config == AuthConfig(d.env, doc)
             good == [required |-> required.val, access_ttl |-> access.val,
                      refresh_ttl |-> refresh.val, jwt_secret |-> secret.val,
                      bootstrap_username |-> name]
  <1>1. config = IF \E i \in DOMAIN results : IsErr(results[i]) THEN FirstError(results) ELSE Ok(good)
    BY DEF AuthConfig
  <1>2. \A key : At(key) = Documented(d, key)
    OBVIOUS
  <1>3. \A key \in KnownKeys \ {"version"} : IsSetting(key, At(key))
    BY <1>2, DocumentedType
  <1>4. /\ IsSetting("auth_required", At("auth_required"))
        /\ IsSetting("access_token_ttl", At("access_token_ttl"))
        /\ IsSetting("refresh_token_ttl", At("refresh_token_ttl"))
        /\ IsSetting("jwt_secret", At("jwt_secret"))
        /\ IsSetting("jwt_secret_file", At("jwt_secret_file"))
    BY <1>3 DEF KnownKeys
  <1> HIDE DEF At
  <1>5. /\ ~IsErr(required) <=> At("auth_required").is \in {"unset", "flag"}
        /\ ~IsErr(required) => required.val = (At("auth_required") = Flag(TRUE))
    BY <1>4, FlagFacts
  <1>6. \A key \in {"access_token_ttl", "refresh_token_ttl"} :
           At(key) \in {Unset, Junk}
           \/ (At(key).is = "span" /\ At(key).n \in Nat /\ At(key).scale \in Nat \ {0})
    BY <1>4 DEF IsSetting
  <1>7. ~IsErr(access) <=>
           \/ At("access_token_ttl") = Unset
           \/ /\ At("access_token_ttl").is = "span"
              /\ At("access_token_ttl").n * At("access_token_ttl").scale \in 1..MaxSeconds
    BY <1>6, DurationFacts
  <1>8. ~IsErr(refresh) <=>
           \/ At("refresh_token_ttl") = Unset
           \/ /\ At("refresh_token_ttl").is = "span"
              /\ At("refresh_token_ttl").n * At("refresh_token_ttl").scale \in 1..MaxSeconds
    BY <1>6, DurationFacts
  <1> HIDE DEF required, access, refresh
  <1>9. ~IsErr(secret) <=>
           /\ ~IsErr(required)
           /\ ~(At("jwt_secret") # Unset /\ At("jwt_secret_file") # Unset)
           /\ \A key \in {"jwt_secret", "jwt_secret_file"} :
                 At(key) = Unset \/ (At(key) # Junk /\ At(key).length >= MinSecretBytes)
           /\ At("auth_required") = Flag(TRUE) =>
                 At("jwt_secret") # Unset \/ At("jwt_secret_file") # Unset
    <2>1. CASE IsErr(required)
      BY <2>1
    <2>2. CASE ~IsErr(required)
      <3>1. IsSecret(At("jwt_secret")) /\ (At("jwt_secret_file") = Junk \/ IsSecret(At("jwt_secret_file")))
        BY <1>4 DEF IsSetting
      <3>2. required.val \in BOOLEAN /\ (required.val <=> At("auth_required") = Flag(TRUE))
        BY <1>5, <2>2
      <3>3. secret = SigningSecret(At("jwt_secret"), At("jwt_secret_file"), required.val)
        BY <2>2
      <3> HIDE DEF secret
      <3>4. ~IsErr(secret) <=>
               /\ ~(At("jwt_secret") # Unset /\ At("jwt_secret_file") # Unset)
               /\ \/ At("jwt_secret") = Unset
                  \/ At("jwt_secret") # Junk /\ At("jwt_secret").length >= MinSecretBytes
               /\ \/ At("jwt_secret_file") = Unset
                  \/ At("jwt_secret_file") # Junk /\ At("jwt_secret_file").length >= MinSecretBytes
               /\ required.val => At("jwt_secret") # Unset \/ At("jwt_secret_file") # Unset
        BY <3>1, <3>2, <3>3, SecretFacts
      <3> QED BY <2>2, <3>2, <3>4
    <2> QED BY <2>1, <2>2
  <1>10. ~IsErr(bootstrap) <=> (At("bootstrap_username") = Unset <=> At("bootstrap_password") = Unset)
    BY Results
  <1> HIDE DEF secret, bootstrap, name
  <1>11. (\E i \in DOMAIN results : IsErr(results[i])) <=>
            IsErr(required) \/ IsErr(access) \/ IsErr(refresh) \/ IsErr(secret) \/ IsErr(bootstrap)
    <2>1. DOMAIN results = 1 .. 5
      OBVIOUS
    <2>2. /\ results[1] = required /\ results[2] = access /\ results[3] = refresh
          /\ results[4] = secret /\ results[5] = bootstrap
      OBVIOUS
    <2>3. \A i \in 1 .. 5 : i = 1 \/ i = 2 \/ i = 3 \/ i = 4 \/ i = 5
      OBVIOUS
    <2> HIDE DEF results
    <2>4. 1 \in 1 .. 5 /\ 2 \in 1 .. 5 /\ 3 \in 1 .. 5 /\ 4 \in 1 .. 5 /\ 5 \in 1 .. 5
      OBVIOUS
    <2> QED BY <2>1, <2>2, <2>3, <2>4
  <1>12. (\E i \in DOMAIN results : IsErr(results[i])) => IsErr(FirstError(results))
    <2> SUFFICES ASSUME \E i \in DOMAIN results : IsErr(results[i])
                 PROVE  IsErr(FirstError(results))
      OBVIOUS
    <2>1. DOMAIN results = 1 .. 5
      OBVIOUS
    <2> HIDE DEF results
    <2> DEFINE T == {i \in DOMAIN results : IsErr(results[i])}
    <2>2. T # {} /\ T \in SUBSET Nat
      BY <2>1
    <2>3. PICK i \in T : \A j \in T : i <= j
      BY <2>2, Least
    <2>4. i \in DOMAIN results /\ IsErr(results[i])
      BY <2>3
    <2>5. \A j \in 1..(i - 1) : ~IsErr(results[j])
      <3> SUFFICES ASSUME NEW j \in 1..(i - 1), IsErr(results[j]) PROVE FALSE
        OBVIOUS
      <3>1. j \in DOMAIN results /\ ~(i <= j)
        BY <2>1, <2>4
      <3> QED BY <2>3, <3>1
    <2>6. \E k \in DOMAIN results : IsErr(results[k]) /\ \A j \in 1..(k - 1) : ~IsErr(results[j])
      BY <2>4, <2>5
    <2> QED BY <2>6 DEF FirstError
  <1> HIDE DEF results
  <1>13. ~IsErr(config) <=>
            ~(IsErr(required) \/ IsErr(access) \/ IsErr(refresh) \/ IsErr(secret) \/ IsErr(bootstrap))
    BY <1>1, <1>11, <1>12, Results
  <1>14. ~IsErr(config) => config.val = good
    BY <1>1, <1>12, Results
  <1>15. ~IsErr(config) => /\ config.val.required = (At("auth_required") = Flag(TRUE))
                           /\ config.val.bootstrap_username = At("bootstrap_username")
    <2>1. good.required = required.val /\ good.bootstrap_username = At("bootstrap_username")
      BY DEF name
    <2> HIDE DEF good, config
    <2>2. ~IsErr(config) => required.val = (At("auth_required") = Flag(TRUE))
      BY <1>5, <1>13
    <2> QED BY <1>14, <2>1, <2>2, Zenon
  <1>16. ~IsErr(config) <=>
            /\ At("auth_required").is \in {"unset", "flag"}
            /\ \A key \in {"access_token_ttl", "refresh_token_ttl"} :
                  At(key) = Unset \/ (At(key).is = "span" /\ At(key).n * At(key).scale \in 1..MaxSeconds)
            /\ ~(At("jwt_secret") # Unset /\ At("jwt_secret_file") # Unset)
            /\ \A key \in {"jwt_secret", "jwt_secret_file"} :
                  At(key) = Unset \/ (At(key) # Junk /\ At(key).length >= MinSecretBytes)
            /\ At("auth_required") = Flag(TRUE) =>
                  At("jwt_secret") # Unset \/ At("jwt_secret_file") # Unset
            /\ At("bootstrap_username") = Unset <=> At("bootstrap_password") = Unset
    BY <1>5, <1>7, <1>8, <1>9, <1>10, <1>13
  <1>17. ~IsErr(config) <=> AuthSound(d)
    BY <1>2, <1>16 DEF AuthSound
  <1> QED BY <1>2, <1>15, <1>17

\* What LoadSettings and Configure look at.
Accepted(d) ==
    /\ d.command = None
    /\ ~IsErr(LogFilterFrom(d.log)) /\ ~IsErr(LogFormatFrom(d.log_format))
    /\ ~IsErr(LoadFromEnv(d.key_file, d.file))
    /\ ~IsErr(LockTimeoutFrom(d.lock_timeout))

Config(d) == AuthConfig(d.env, LoadFromEnv(d.key_file, d.file).val)

\* A sound environment is one that every step of a start accepts, and its settings
\* are the documented ones.
LEMMA SoundIsAccepted ==
    ASSUME NEW d \in Deployments
    PROVE  /\ Sound(d) <=> /\ Accepted(d) /\ ~RefuseLegacyLayout(d.root)
                           /\ ~IsErr(Config(d)) /\ BoundsRead(d)
           /\ Accepted(d) /\ ~IsErr(Config(d)) =>
                 /\ Config(d).val.required = (Documented(d, "auth_required") = Flag(TRUE))
                 /\ Config(d).val.bootstrap_username = Documented(d, "bootstrap_username")
  <1>1. Sound(d) <=>
           /\ d.command = None
           /\ \A c \in DOMAIN d.root : Document \in d.root[c] => c \notin ReservedProjectChildren
           /\ Junk \notin {d.log, d.log_format, d.lock_timeout, d.max_body, d.request_timeout,
                           d.max_concurrency}
           /\ d.log_format \in {Unset, Blank, Word("compact"), Word("json")}
           /\ d.max_body.is = "number" => d.max_body.n > 0
           /\ RingSound(d) /\ FileSound(d) /\ AuthSound(d)
    <2>1. \A key, v :
             (CASE v.type = "null" -> TRUE
                [] v.type = "object" -> key \in SecretKeys /\ Sealed(d, v)
                [] v.type = "boolean" -> key = "auth_required"
                [] v.type = "string" -> key # "auth_required"
                [] OTHER -> FALSE)
             <=> ValueSound(d, key, v)
      BY DEF ValueSound
    <2> QED BY <2>1, Zenon DEF Sound, RingSound, FileSound, DocSound, AuthSound
  <1> DEFINE got == LoadFromEnv(d.key_file, d.file)
  <1>2. /\ ~IsErr(got) <=> RingSound(d) /\ FileSound(d)
        /\ ~IsErr(got) => \A key : Lookup(d.env, got.val, key) = Documented(d, key)
    BY Loads
  <1>3. ~IsErr(got) =>
           /\ ~IsErr(Config(d)) <=> AuthSound(d)
           /\ ~IsErr(Config(d)) =>
                 /\ Config(d).val.required = (Documented(d, "auth_required") = Flag(TRUE))
                 /\ Config(d).val.bootstrap_username = Documented(d, "bootstrap_username")
    <2> SUFFICES ASSUME ~IsErr(got)
                 PROVE  /\ ~IsErr(Config(d)) <=> AuthSound(d)
                        /\ ~IsErr(Config(d)) =>
                              /\ Config(d).val.required = (Documented(d, "auth_required") = Flag(TRUE))
                              /\ Config(d).val.bootstrap_username = Documented(d, "bootstrap_username")
      OBVIOUS
    <2>1. \A key : Lookup(d.env, got.val, key) = Documented(d, key)
      BY <1>2
    <2>2. Config(d) = AuthConfig(d.env, got.val)
      BY DEF Config
    <2> HIDE DEF got
    <2> QED BY <2>1, <2>2, AuthFacts, ZenonT(60)
  <1>4. /\ ~IsErr(LockTimeoutFrom(d.lock_timeout)) <=> d.lock_timeout # Junk
        /\ BoundsRead(d) <=> /\ Junk \notin {d.max_body, d.request_timeout, d.max_concurrency}
                             /\ d.max_body.is = "number" => d.max_body.n > 0
    BY BoundsFacts
  <1>5. /\ ~IsErr(LogFilterFrom(d.log)) <=> d.log # Junk
        /\ ~IsErr(LogFormatFrom(d.log_format)) <=>
              d.log_format \in {Unset, Blank, Word("compact"), Word("json")}
        /\ d.log_format \in {Unset, Blank, Word("compact"), Word("json")} => d.log_format # Junk
    BY LogFacts
  <1>6. ~RefuseLegacyLayout(d.root) <=>
           \A c \in DOMAIN d.root : Document \in d.root[c] => c \notin ReservedProjectChildren
    BY LayoutFacts
  <1>7. Accepted(d) <=>
           /\ d.command = None /\ d.log # Junk /\ d.lock_timeout # Junk
           /\ d.log_format \in {Unset, Blank, Word("compact"), Word("json")}
           /\ RingSound(d) /\ FileSound(d)
    BY <1>2, <1>4, <1>5 DEF Accepted
  <1>8. Accepted(d) => ~IsErr(got)
    BY DEF Accepted
  <1> HIDE DEF got
  <1>9. Sound(d) <=> /\ Accepted(d) /\ ~RefuseLegacyLayout(d.root)
                     /\ AuthSound(d) /\ BoundsRead(d)
    BY <1>1, <1>4, <1>5, <1>6, <1>7
  <1> QED BY <1>3, <1>8, <1>9

(* ------------------------ a start, step by step -------------------------- *)

\* What the steps of a start that lie behind it found.
BootInv ==
    /\ stage \in {"open", "configure", "accounts", "bind"} => Accepted(dep)
    /\ stage \in {"configure", "accounts", "bind"} => ~RefuseLegacyLayout(dep.root)
    /\ stage \in {"accounts", "bind"} => ~IsErr(Config(dep)) /\ auth = Config(dep).val

\* What ServesAsConfigured says of one step.
ServesStep ==
    /\ stage' = "serving" /\ stage # "serving" =>
          Sound(dep) /\ auth'.required = (Documented(dep, "auth_required") = Flag(TRUE))
    /\ stage' = "refused" /\ stage \in Booting /\ disk = "ok" /\ Sound(dep) =>
          \/ stage = "bind"
          \/ /\ stage = "accounts" /\ accounts = {}
             /\ Documented(dep, "bootstrap_username") = Unset
             /\ Documented(dep, "auth_required") = Flag(TRUE)
    /\ accounts' # accounts => accounts = {}

\* The steps of a start accept what they must and remember it.
LEMMA BootStepServes ==
    ASSUME IInv, BootInv, BootStep
    PROVE  BootInv' /\ ServesStep
  <1>1. stage \in Booting => dep \in Deployments
    BY DEF IInv, DepInv
  <1>2. CASE LoadSettings
    <2>1. /\ stage = "start" /\ UNCHANGED accounts
          /\ \/ Accepted(dep) /\ stage' = "open" /\ UNCHANGED <<dep, auth>>
             \/ ~Accepted(dep) /\ stage' = "refused"
      BY <1>2 DEF LoadSettings, Accepted, Refuse, Proceed
    <2>2. Sound(dep) => Accepted(dep)
      BY <1>1, <2>1, SoundIsAccepted DEF Booting
    <2> QED BY <2>1, <2>2 DEF BootInv, ServesStep
  <1>3. CASE OpenRepository
    <2>1. /\ stage = "open" /\ UNCHANGED accounts
          /\ \/ /\ ~RefuseLegacyLayout(dep.root) /\ stage' = "configure" /\ UNCHANGED <<dep, auth>>
             \/ (disk = "ok" => RefuseLegacyLayout(dep.root)) /\ stage' = "refused"
      BY <1>3 DEF OpenRepository, CanMake, Refuse, Proceed
    <2>2. Sound(dep) => ~RefuseLegacyLayout(dep.root)
      BY <1>1, <2>1, SoundIsAccepted DEF Booting
    <2> QED BY <2>1, <2>2 DEF BootInv, ServesStep
  <1>4. CASE Configure
    <2>1. /\ stage = "configure" /\ UNCHANGED accounts
          /\ \/ ~IsErr(Config(dep)) /\ stage' = "accounts" /\ auth' = Config(dep).val /\ UNCHANGED dep
             \/ (disk = "ok" => IsErr(Config(dep))) /\ stage' = "refused"
      BY <1>4 DEF Configure, Config, CanMake, Refuse
    <2>2. Sound(dep) => ~IsErr(Config(dep))
      BY <1>1, <2>1, SoundIsAccepted DEF Booting
    <2> QED BY <2>1, <2>2 DEF BootInv, ServesStep
  <1>5. CASE EnsureBootstrapUser
    <2> DEFINE name == auth.bootstrap_username
    <2>1. stage = "accounts" /\ dep \in Deployments
      BY <1>1, <1>5 DEF EnsureBootstrapUser, Booting
    <2>2. name = Documented(dep, "bootstrap_username")
      BY <2>1, SoundIsAccepted DEF BootInv
    <2> HIDE DEF name
    <2>3. CASE disk # "missing" /\ (accounts # {} \/ (name = Unset /\ ~auth.required))
      <3>1. stage' = "bind" /\ UNCHANGED <<dep, auth, accounts>>
        BY <1>5, <2>3 DEF EnsureBootstrapUser, Proceed, name
      <3> QED BY <2>1, <3>1 DEF BootInv, ServesStep
    <2>4. CASE disk = "ok" /\ accounts = {} /\ name # Unset
      <3>1. stage' = "bind" /\ UNCHANGED <<dep, auth>>
        BY <1>5, <2>4 DEF EnsureBootstrapUser, Proceed, name
      <3> QED BY <2>1, <2>4, <3>1 DEF BootInv, ServesStep
    <2>5. CASE /\ ~(disk # "missing" /\ (accounts # {} \/ (name = Unset /\ ~auth.required)))
               /\ ~(disk = "ok" /\ accounts = {} /\ name # Unset)
      <3>1. stage' = "refused" /\ UNCHANGED accounts
        BY <1>5, <2>5 DEF EnsureBootstrapUser, Refuse, name
      <3>2. auth.required = (Documented(dep, "auth_required") = Flag(TRUE))
        BY <2>1, SoundIsAccepted DEF BootInv
      <3>3. disk = "ok" => accounts = {} /\ name = Unset /\ auth.required
        BY <2>5
      <3> QED BY <2>1, <2>2, <3>1, <3>2, <3>3 DEF ServesStep, BootInv
    <2> QED BY <2>3, <2>4, <2>5
  <1>6. ASSUME NEW free \in BOOLEAN, Bind(free) PROVE BootInv' /\ ServesStep
    <2>1. /\ stage = "bind" /\ UNCHANGED accounts
          /\ \/ BoundsRead(dep) /\ stage' = "serving" /\ UNCHANGED auth
             \/ stage' = "refused"
      BY <1>6 DEF Bind, Refuse
    <2>2. dep \in Deployments
      BY <1>1, <2>1 DEF Booting
    <2>3. BoundsRead(dep) =>
             Sound(dep) /\ auth.required = (Documented(dep, "auth_required") = Flag(TRUE))
      BY <2>1, <2>2, SoundIsAccepted DEF BootInv
    <2> QED BY <2>1, <2>3 DEF BootInv, ServesStep
  <1> QED BY <1>2, <1>3, <1>4, <1>5, <1>6 DEF BootStep

\* Every other step leaves the start alone or ends it.
LEMMA NextServes == IInv /\ BootInv /\ [Next]_vars => BootInv' /\ ServesStep
  <1> SUFFICES ASSUME IInv, BootInv, [Next]_vars PROVE BootInv' /\ ServesStep
    OBVIOUS
  <1>1. ASSUME UNCHANGED boot PROVE BootInv' /\ ServesStep
    <2>1. UNCHANGED <<stage, dep, accounts, auth>>
      BY <1>1 DEF boot
    <2>2. stage # "refused" \/ stage \notin Booting
      BY DEF Booting
    <2> QED BY <2>1, <2>2 DEF BootInv, ServesStep
  <1>2. ASSUME UNCHANGED accounts, stage' \in {"start", "draining", "stopping", "off"}
        PROVE  BootInv' /\ ServesStep
    BY <1>2 DEF BootInv, ServesStep
  <1>3. ASSUME NEW r \in Requests, WorkStep(r) PROVE UNCHANGED boot
    BY <1>3 DEF WorkStep, Reject, TakeGrantLock, MissGrantLock, RevokeGrants, TakeLock, MissLock, Commit, FinishWork, ProbeRoot, ProbeLock,
                ProbeUnlock, ProbeWritable, ProbeRemove
  <1>4. ASSUME NEW r \in Requests,
               \/ Arrive(r) \/ AnswerDirectly(r) \/ Park(r)
               \/ Respond(r) \/ Timeout(r) \/ HangUp(r) \/ StartWork(r)
        PROVE  UNCHANGED boot
    BY <1>4 DEF Arrive, AnswerDirectly, Park, Respond, Timeout, HangUp, StartWork
  <1>5. CASE \E d \in Deployments : Start(d)
    BY <1>2, <1>5 DEF Start
  <1>6. CASE ShutdownSignal \/ Drained \/ Exit \/ Kill
    BY <1>2, <1>6 DEF ShutdownSignal, Drained, Exit, Kill, Down
  <1>7. CASE (\E to \in {"ok", "readonly", "missing"} : DiskChanges(to)) \/ Rest \/ UNCHANGED vars
    BY <1>1, <1>7 DEF DiskChanges, Rest, vars
  <1> QED
    BY <1>1, <1>3, <1>4, <1>5, <1>6, <1>7, BootStepServes DEF Next

\* A process binds exactly with the settings its environment documents, refuses a
\* sound one only for its volume, its port or a missing first account, and mints
\* an account only into an empty store (main, AuthConfig::from_single_lookup,
\* ensure_bootstrap_user).
THEOREM Configured == Spec => ServesAsConfigured
  <1>1. Init => BootInv
    BY DEF Init, BootInv
  <1>2. IInv /\ BootInv /\ [Next]_vars => BootInv' /\ [ServesStep]_vars
    BY NextServes
  <1>3. [][ServesStep]_vars => ServesAsConfigured
    BY PTL DEF ServesAsConfigured, ServesStep
  <1> QED BY <1>1, <1>2, <1>3, Invariant, PTL DEF Spec
-----------------------------------------------------------------------------
(* The cache of derived answers, which the process keeps in memory: for any *)
(* number of replicas, of threads in each, of documents and writes, and any *)
(* maximal age.                                                             *)

(* ------------------- the cache: its inductive invariant ------------------ *)

CachePhases == {"idle", "get", "compute", "put", "insert", "answered", "failed", "written"}

\* What a thread has read or written: the versions of some documents, or of all.
Some == UNION {[D -> Nat] : D \in SUBSET Documents}
Full == [Documents -> Nat]

CacheEntries ==
    [generation : Nat, age : 0 .. MAX_AGE, value : Full, began : Full, ended : Full]

CacheTypeOK ==
    /\ store \in Full
    /\ generation \in [Replicas -> Nat]
    /\ entry \in [Replicas -> CacheEntries \union {NoEntry}]
    /\ pc \in [Threads -> CachePhases]
    /\ loaded \in [Threads -> Nat]
    /\ value \in [Threads -> Some]
    /\ acked \in [Replicas -> Full]
    /\ since \in [Threads -> Some]
    /\ began \in [Threads -> Some]
    /\ ended \in [Threads -> Some]

\* What was acknowledged was stored.
AckedInv == \A p \in Replicas, d \in Documents : acked[p][d] <= store[d]

\* A ledger says what each replica had acknowledged in each of its generations.
\* One exists because only invalidate acknowledges, and it opens a generation.
Ledgers == [Replicas -> [Nat -> Full]]

\* No entry is of a generation to come; its value shows what was acknowledged
\* when its computation began, and its generation is the one it was put in.
EntryOK(G, p) ==
    entry[p] # NoEntry =>
        /\ entry[p].generation <= generation[p]
        /\ Covers(entry[p].value, entry[p].began)
        /\ entry[p].ended = G[p][entry[p].generation]

\* A thread's generation says what was acknowledged when it loaded it; what it has
\* read is no older than what was acknowledged when it began to read.
ThreadOK(G, t) ==
    /\ pc[t] \in {"idle", "get"} => value[t] = Nothing
    /\ pc[t] \in {"get", "insert"} => loaded[t] <= generation[Home[t]]
    /\ pc[t] = "get" => since[t] = G[Home[t]][loaded[t]]
    /\ pc[t] = "insert" => ended[t] = G[Home[t]][loaded[t]]
    /\ pc[t] \in {"get", "compute", "put"} => Covers(acked[Home[t]], since[t])
    /\ pc[t] = "compute" =>
         /\ Covers(acked[Home[t]], began[t])
         /\ \A d \in DOMAIN value[t] : value[t][d] >= began[t][d]
    /\ pc[t] \in {"compute", "put", "insert", "answered"} => began[t] \in Full
    /\ pc[t] \in {"put", "insert", "answered"} => value[t] \in Full /\ Covers(value[t], began[t])
    /\ pc[t] \in {"insert", "answered"} => ended[t] \in Full /\ Covers(ended[t], since[t])
    /\ pc[t] = "written" => \A d \in DOMAIN value[t] : value[t][d] <= store[d]

Fits(G) ==
    /\ \A p \in Replicas : G[p][generation[p]] = acked[p]
    /\ \A p \in Replicas : EntryOK(G, p)
    /\ \A t \in Threads : ThreadOK(G, t)

CacheIInv == CacheTypeOK /\ AckedInv /\ \E G \in Ledgers : Fits(G)

(* ------------------ the cache: every action preserves it ----------------- *)

LEMMA NothingSome == Nothing \in Some
  <1>1. Nothing \in [{} -> Nat]
    BY DEF Nothing
  <1> QED BY <1>1 DEF Some

LEMMA FullSome == Full \subseteq Some
  BY DEF Full, Some

\* Versions that cover others cover what those cover.
LEMMA CoversTransitive ==
    ASSUME NEW f \in Full, NEW g \in Full, NEW h \in Some, Covers(f, g), Covers(g, h)
    PROVE  Covers(f, h)
  <1>1. \A d \in DOMAIN h : d \in Documents /\ h[d] \in Nat
    BY DEF Some
  <1> QED BY <1>1 DEF Covers, Full

LEMMA CoversReflexive ==
    ASSUME NEW f \in Full
    PROVE  Covers(f, f)
  BY DEF Covers, Full

\* Nothing has been read yet, stored or acknowledged.
LEMMA CacheInitInv == CacheInit => CacheIInv
  <1> SUFFICES ASSUME CacheInit PROVE CacheIInv
    OBVIOUS
  <1> DEFINE G == [p \in Replicas |-> [n \in Nat |-> [d \in Documents |-> 0]]]
  <1>1. CacheTypeOK
    BY NothingSome DEF CacheInit, CacheTypeOK, Full, CachePhases
  <1>2. AckedInv
    BY DEF CacheInit, AckedInv
  <1>3. G \in Ledgers
    BY DEF Ledgers, Full
  <1>4. \A p \in Replicas : G[p][generation[p]] = acked[p]
    BY DEF CacheInit
  <1>5. \A p \in Replicas : EntryOK(G, p)
    BY DEF CacheInit, EntryOK
  <1>6. \A t \in Threads : ThreadOK(G, t)
    BY DEF CacheInit, ThreadOK
  <1>7. Fits(G)
    BY <1>4, <1>5, <1>6 DEF Fits
  <1> QED BY <1>1, <1>2, <1>3, <1>7 DEF CacheIInv

\* A thread that does not move stays as the invariant says while documents get
\* newer, acknowledgements grow and generations are opened.
LEMMA StillOK ==
    ASSUME CacheTypeOK, CacheTypeOK', NEW G \in Ledgers, NEW H \in Ledgers,
           NEW u \in Threads, ThreadOK(G, u),
           pc'[u] = pc[u], loaded'[u] = loaded[u], value'[u] = value[u],
           since'[u] = since[u], began'[u] = began[u], ended'[u] = ended[u],
           generation[Home[u]] <= generation'[Home[u]],
           Covers(acked'[Home[u]], acked[Home[u]]), Covers(store', store),
           \A n \in Nat : n <= generation[Home[u]] => H[Home[u]][n] = G[Home[u]][n]
    PROVE  ThreadOK(H, u)'
  <1>1. Home[u] \in Replicas
    BY CacheAssumption
  <1>2. /\ loaded[u] \in Nat /\ generation[Home[u]] \in Nat /\ generation'[Home[u]] \in Nat
        /\ acked[Home[u]] \in Full /\ acked'[Home[u]] \in Full
        /\ since[u] \in Some /\ began[u] \in Some /\ store \in Full /\ store' \in Full
        /\ value[u] \in Some
    BY <1>1 DEF CacheTypeOK
  <1>3. pc[u] \in {"get", "insert"} =>
          loaded[u] <= generation'[Home[u]] /\ H[Home[u]][loaded[u]] = G[Home[u]][loaded[u]]
    BY <1>2 DEF ThreadOK
  <1>4. pc[u] \in {"get", "compute", "put"} => Covers(acked'[Home[u]], since[u])
    BY <1>2, CoversTransitive DEF ThreadOK
  <1>5. pc[u] = "compute" => Covers(acked'[Home[u]], began[u])
    BY <1>2, CoversTransitive DEF ThreadOK
  <1>6. pc[u] = "written" => \A d \in DOMAIN value[u] : value[u][d] <= store'[d]
    <2>1. \A d \in DOMAIN value[u] : d \in Documents /\ value[u][d] \in Nat
      BY <1>2 DEF Some
    <2>2. \A d \in Documents : store'[d] \in Nat /\ store[d] \in Nat /\ store'[d] >= store[d]
      BY <1>2 DEF Covers, Full
    <2> QED BY <2>1, <2>2 DEF ThreadOK
  <1> QED BY <1>3, <1>4, <1>5, <1>6 DEF ThreadOK

\* A step of one thread that acknowledges nothing and leaves the entries alone.
LEMMA ReaderInv ==
    ASSUME CacheTypeOK, AckedInv, CacheTypeOK', NEW G \in Ledgers, Fits(G), NEW t \in Threads,
           \A u \in Threads : u # t =>
              /\ pc'[u] = pc[u] /\ loaded'[u] = loaded[u] /\ value'[u] = value[u]
              /\ since'[u] = since[u] /\ began'[u] = began[u] /\ ended'[u] = ended[u],
           UNCHANGED <<store, generation, entry, acked>>,
           ThreadOK(G, t)'
    PROVE  CacheIInv'
  <1>1. AckedInv'
    BY DEF AckedInv
  <1>2. ASSUME NEW u \in Threads PROVE ThreadOK(G, u)'
    <2>1. CASE u = t
      BY <2>1
    <2>2. CASE u # t
      <3>1. /\ pc'[u] = pc[u] /\ loaded'[u] = loaded[u] /\ value'[u] = value[u]
            /\ since'[u] = since[u] /\ began'[u] = began[u] /\ ended'[u] = ended[u]
        BY <2>2
      <3>2. /\ generation[Home[u]] <= generation'[Home[u]]
            /\ acked[Home[u]] \in Full /\ store \in Full
        BY CacheAssumption DEF CacheTypeOK
      <3>3. Covers(acked'[Home[u]], acked[Home[u]]) /\ Covers(store', store)
        BY <3>2, CoversReflexive
      <3>4. ThreadOK(G, u)
        BY DEF Fits
      <3> QED BY <3>1, <3>2, <3>3, <3>4, StillOK
    <2> QED BY <2>1, <2>2
  <1>3. \A p \in Replicas : EntryOK(G, p)' /\ G[p][generation'[p]] = acked'[p]
    BY DEF Fits, EntryOK
  <1>4. Fits(G)'
    BY <1>2, <1>3 DEF Fits
  <1> QED BY <1>1, <1>4 DEF CacheIInv

\* A request comes in.
LEMMA AskInv ==
    ASSUME CacheIInv, NEW t \in Threads, Ask(t)
    PROVE  CacheIInv'
  <1>1. /\ pc[t] = "idle" /\ pc' = [pc EXCEPT ![t] = "get"]
        /\ loaded' = [loaded EXCEPT ![t] = generation[Home[t]]]
        /\ since' = [since EXCEPT ![t] = acked[Home[t]]]
        /\ UNCHANGED <<store, generation, entry, value, acked, began, ended>>
    BY DEF Ask, Goto
  <1>2. PICK G \in Ledgers : Fits(G)
    BY DEF CacheIInv
  <1>3. /\ Home[t] \in Replicas /\ acked[Home[t]] \in Full /\ acked[Home[t]] \in Some
        /\ generation[Home[t]] \in Nat
    BY CacheAssumption, FullSome DEF CacheIInv, CacheTypeOK
  <1>4. CacheTypeOK'
    BY <1>1, <1>3 DEF CacheIInv, CacheTypeOK, CachePhases
  <1>5. /\ pc'[t] = "get" /\ loaded'[t] = generation[Home[t]] /\ since'[t] = acked[Home[t]]
        /\ value'[t] = Nothing
    BY <1>1, <1>2 DEF CacheIInv, CacheTypeOK, Fits, ThreadOK
  <1>6. /\ loaded'[t] <= generation'[Home[t]] /\ since'[t] = G[Home[t]][loaded'[t]]
        /\ Covers(acked'[Home[t]], since'[t])
    BY <1>1, <1>2, <1>3, <1>5, CoversReflexive DEF Fits
  <1>7. ThreadOK(G, t)'
    BY <1>5, <1>6 DEF ThreadOK
  <1>8. \A u \in Threads : u # t =>
              /\ pc'[u] = pc[u] /\ loaded'[u] = loaded[u] /\ value'[u] = value[u]
              /\ since'[u] = since[u] /\ began'[u] = began[u] /\ ended'[u] = ended[u]
    BY <1>1 DEF CacheIInv, CacheTypeOK
  <1> QED BY <1>1, <1>2, <1>4, <1>7, <1>8, ReaderInv DEF CacheIInv

\* A hit answers with an entry of the generation loaded when the request came in,
\* so it was put when nothing had been acknowledged that was not acknowledged then.
LEMMA GetInv ==
    ASSUME CacheIInv, NEW t \in Threads, Get(t)
    PROVE  CacheIInv'
  <1>1. pc[t] = "get" /\ UNCHANGED <<store, generation, entry, loaded, acked, since>>
    BY DEF Get
  <1>2. PICK G \in Ledgers : Fits(G)
    BY DEF CacheIInv
  <1>3. ThreadOK(G, t) /\ Home[t] \in Replicas /\ acked[Home[t]] \in Full
    BY <1>2, CacheAssumption DEF Fits, CacheIInv, CacheTypeOK
  <1>4. value[t] = Nothing /\ since[t] = G[Home[t]][loaded[t]] /\ Covers(acked[Home[t]], since[t])
    BY <1>1, <1>3 DEF ThreadOK
  <1>5. CASE /\ Hit(t) /\ value' = [value EXCEPT ![t] = entry[Home[t]].value]
             /\ began' = [began EXCEPT ![t] = entry[Home[t]].began]
             /\ ended' = [ended EXCEPT ![t] = entry[Home[t]].ended]
             /\ Goto(t, "answered")
    <2> DEFINE e == entry[Home[t]]
    <2>1. e # NoEntry /\ e.generation = loaded[t]
      BY <1>5 DEF Hit
    <2>2. e.value \in Full /\ e.began \in Full /\ e.ended \in Full
      BY <1>3, <2>1 DEF CacheIInv, CacheTypeOK, CacheEntries
    <2>3. Covers(e.value, e.began) /\ e.ended = G[Home[t]][loaded[t]]
      BY <1>2, <1>3, <2>1 DEF Fits, EntryOK
    <2>4. Covers(e.ended, since[t])
      BY <1>4, <2>2, <2>3, CoversReflexive
    <2>5. e.value \in Some /\ e.began \in Some /\ e.ended \in Some
      BY <2>2, FullSome
    <2>6. /\ pc' = [pc EXCEPT ![t] = "answered"] /\ value' = [value EXCEPT ![t] = e.value]
          /\ began' = [began EXCEPT ![t] = e.began] /\ ended' = [ended EXCEPT ![t] = e.ended]
      BY <1>5 DEF Goto
    <2> HIDE DEF e
    <2>7. CacheTypeOK'
      BY <1>1, <2>5, <2>6 DEF CacheIInv, CacheTypeOK, CachePhases
    <2>8. /\ pc'[t] = "answered" /\ value'[t] = e.value /\ began'[t] = e.began
          /\ ended'[t] = e.ended /\ since'[t] = since[t]
      BY <1>1, <2>6 DEF CacheIInv, CacheTypeOK
    <2>9. ThreadOK(G, t)'
      BY <2>2, <2>3, <2>4, <2>8 DEF ThreadOK
    <2>10. \A u \in Threads : u # t =>
              /\ pc'[u] = pc[u] /\ loaded'[u] = loaded[u] /\ value'[u] = value[u]
              /\ since'[u] = since[u] /\ began'[u] = began[u] /\ ended'[u] = ended[u]
      BY <1>1, <2>6 DEF CacheIInv, CacheTypeOK
    <2> QED BY <1>1, <1>2, <2>7, <2>9, <2>10, ReaderInv DEF CacheIInv
  <1>6. CASE /\ Goto(t, "compute") /\ began' = [began EXCEPT ![t] = acked[Home[t]]]
             /\ UNCHANGED <<value, ended>>
    <2>1. pc' = [pc EXCEPT ![t] = "compute"] /\ acked[Home[t]] \in Some
      BY <1>3, <1>6, FullSome DEF Goto
    <2>2. CacheTypeOK'
      BY <1>1, <1>6, <2>1 DEF CacheIInv, CacheTypeOK, CachePhases
    <2>3. /\ pc'[t] = "compute" /\ value'[t] = Nothing /\ began'[t] = acked[Home[t]]
          /\ since'[t] = since[t]
      BY <1>1, <1>4, <1>6, <2>1 DEF CacheIInv, CacheTypeOK
    <2>4. Covers(acked'[Home[t]], began'[t]) /\ Covers(acked'[Home[t]], since'[t])
      BY <1>1, <1>3, <1>4, <2>3, CoversReflexive
    <2>5. \A d \in DOMAIN value'[t] : value'[t][d] >= began'[t][d]
      BY <2>3 DEF Nothing
    <2>6. ThreadOK(G, t)'
      BY <1>3, <2>3, <2>4, <2>5 DEF ThreadOK
    <2>7. \A u \in Threads : u # t =>
              /\ pc'[u] = pc[u] /\ loaded'[u] = loaded[u] /\ value'[u] = value[u]
              /\ since'[u] = since[u] /\ began'[u] = began[u] /\ ended'[u] = ended[u]
      BY <1>1, <1>6, <2>1 DEF CacheIInv, CacheTypeOK
    <2> QED BY <1>1, <1>2, <2>2, <2>6, <2>7, ReaderInv DEF CacheIInv
  <1> QED BY <1>5, <1>6 DEF Get

\* One more document is read, no older than what was acknowledged by then.
LEMMA ComputeInv ==
    ASSUME CacheIInv, NEW t \in Threads, Compute(t)
    PROVE  CacheIInv'
  <1>1. pc[t] = "compute" /\ UNCHANGED <<store, generation, entry, loaded, acked, since, began, ended>>
    BY DEF Compute, ghosts
  <1>2. PICK d \in Documents \ DOMAIN value[t] :
           value' = [value EXCEPT ![t] =
                       [c \in DOMAIN value[t] \union {d} |-> IF c = d THEN store[d] ELSE value[t][c]]]
    BY DEF Compute
  <1> DEFINE v == [c \in DOMAIN value[t] \union {d} |-> IF c = d THEN store[d] ELSE value[t][c]]
  <1>3. PICK G \in Ledgers : Fits(G)
    BY DEF CacheIInv
  <1>4. /\ Home[t] \in Replicas /\ acked[Home[t]] \in Full /\ began[t] \in Full
        /\ Covers(acked[Home[t]], since[t]) /\ Covers(acked[Home[t]], began[t])
        /\ \A c \in DOMAIN value[t] : value[t][c] >= began[t][c]
    BY <1>1, <1>3, CacheAssumption DEF Fits, ThreadOK, CacheIInv, CacheTypeOK
  <1>5. DOMAIN value[t] \subseteq Documents /\ value[t] \in [DOMAIN value[t] -> Nat]
    BY DEF CacheIInv, CacheTypeOK, Some
  <1>6. DOMAIN v \subseteq Documents /\ v \in [DOMAIN v -> Nat]
    BY <1>5 DEF CacheIInv, CacheTypeOK, Full
  <1>7. v \in Some /\ (DOMAIN v = Documents => v \in Full)
    BY <1>6 DEF Some, Full
  <1>8. \A c \in DOMAIN v : v[c] >= began[t][c]
    <2>1. store[d] >= began[t][d]
      <3>1. acked[Home[t]][d] <= store[d] /\ acked[Home[t]][d] >= began[t][d]
        BY <1>4 DEF CacheIInv, AckedInv, Covers, Full
      <3>2. acked[Home[t]][d] \in Nat /\ store[d] \in Nat /\ began[t][d] \in Nat
        BY <1>4 DEF CacheIInv, CacheTypeOK, Full
      <3> QED BY <3>1, <3>2
    <2> QED BY <1>4, <2>1
  <1>9. value'[t] = v /\ value' = [value EXCEPT ![t] = v]
    BY <1>2 DEF CacheIInv, CacheTypeOK
  <1> HIDE DEF v
  <1>10. began'[t] = began[t] /\ since'[t] = since[t] /\ acked'[Home[t]] = acked[Home[t]]
    BY <1>1
  <1>11. CASE DOMAIN v = Documents /\ Goto(t, "put")
    <2>1. pc' = [pc EXCEPT ![t] = "put"] /\ pc'[t] = "put"
      BY <1>11 DEF Goto, CacheIInv, CacheTypeOK
    <2>2. Covers(v, began[t])
      BY <1>4, <1>8, <1>11 DEF Covers, Full
    <2>3. CacheTypeOK'
      BY <1>1, <1>7, <1>9, <2>1 DEF CacheIInv, CacheTypeOK, CachePhases
    <2>4. ThreadOK(G, t)'
      BY <1>4, <1>7, <1>9, <1>10, <1>11, <2>1, <2>2 DEF ThreadOK
    <2>5. \A u \in Threads : u # t =>
              /\ pc'[u] = pc[u] /\ loaded'[u] = loaded[u] /\ value'[u] = value[u]
              /\ since'[u] = since[u] /\ began'[u] = began[u] /\ ended'[u] = ended[u]
      BY <1>1, <1>9, <2>1 DEF CacheIInv, CacheTypeOK
    <2> QED BY <1>1, <1>3, <2>3, <2>4, <2>5, ReaderInv DEF CacheIInv
  <1>12. CASE UNCHANGED pc
    <2>1. pc'[t] = "compute"
      BY <1>1, <1>12
    <2>2. CacheTypeOK'
      BY <1>1, <1>7, <1>9, <1>12 DEF CacheIInv, CacheTypeOK
    <2>3. ThreadOK(G, t)'
      BY <1>4, <1>8, <1>9, <1>10, <2>1 DEF ThreadOK
    <2>4. \A u \in Threads : u # t =>
              /\ pc'[u] = pc[u] /\ loaded'[u] = loaded[u] /\ value'[u] = value[u]
              /\ since'[u] = since[u] /\ began'[u] = began[u] /\ ended'[u] = ended[u]
      BY <1>1, <1>9, <1>12 DEF CacheIInv, CacheTypeOK
    <2> QED BY <1>1, <1>3, <2>2, <2>3, <2>4, ReaderInv DEF CacheIInv
  <1> QED BY <1>9, <1>11, <1>12 DEF Compute

\* A computation that fails caches nothing.
LEMMA ComputeFailsInv ==
    ASSUME CacheIInv, NEW t \in Threads, ComputeFails(t)
    PROVE  CacheIInv'
  <1>1. /\ pc' = [pc EXCEPT ![t] = "failed"]
        /\ UNCHANGED <<store, generation, entry, loaded, value, acked, since, began, ended>>
    BY DEF ComputeFails, Goto, ghosts
  <1>2. PICK G \in Ledgers : Fits(G)
    BY DEF CacheIInv
  <1>3. CacheTypeOK'
    BY <1>1 DEF CacheIInv, CacheTypeOK, CachePhases
  <1>4. pc'[t] = "failed"
    BY <1>1 DEF CacheIInv, CacheTypeOK
  <1>5. ThreadOK(G, t)'
    BY <1>4 DEF ThreadOK
  <1>6. \A u \in Threads : u # t => pc'[u] = pc[u]
    BY <1>1 DEF CacheIInv, CacheTypeOK
  <1> QED BY <1>1, <1>2, <1>3, <1>5, <1>6, ReaderInv DEF CacheIInv

\* put loads the generation that is current by then, whatever the value was
\* computed from.
LEMMA PutLoadInv ==
    ASSUME CacheIInv, NEW t \in Threads, PutLoad(t)
    PROVE  CacheIInv'
  <1>1. /\ pc[t] = "put" /\ pc' = [pc EXCEPT ![t] = "insert"]
        /\ loaded' = [loaded EXCEPT ![t] = generation[Home[t]]]
        /\ ended' = [ended EXCEPT ![t] = acked[Home[t]]]
        /\ UNCHANGED <<store, generation, entry, value, acked, since, began>>
    BY DEF PutLoad, Goto
  <1>2. PICK G \in Ledgers : Fits(G)
    BY DEF CacheIInv
  <1>3. /\ Home[t] \in Replicas /\ generation[Home[t]] \in Nat
        /\ acked[Home[t]] \in Full /\ acked[Home[t]] \in Some
    BY CacheAssumption, FullSome DEF CacheIInv, CacheTypeOK
  <1>4. CacheTypeOK'
    BY <1>1, <1>3 DEF CacheIInv, CacheTypeOK, CachePhases
  <1>5. /\ pc'[t] = "insert" /\ loaded'[t] = generation[Home[t]] /\ ended'[t] = acked[Home[t]]
        /\ value'[t] = value[t] /\ since'[t] = since[t] /\ began'[t] = began[t]
    BY <1>1 DEF CacheIInv, CacheTypeOK
  <1>6. /\ value[t] \in Full /\ began[t] \in Full /\ Covers(value[t], began[t])
        /\ Covers(acked[Home[t]], since[t])
    BY <1>1, <1>2 DEF Fits, ThreadOK
  <1>7. loaded'[t] <= generation'[Home[t]] /\ ended'[t] = G[Home[t]][loaded'[t]]
    BY <1>1, <1>2, <1>3, <1>5 DEF Fits
  <1>8. ThreadOK(G, t)'
    BY <1>3, <1>5, <1>6, <1>7 DEF ThreadOK
  <1>9. \A u \in Threads : u # t =>
              /\ pc'[u] = pc[u] /\ loaded'[u] = loaded[u] /\ value'[u] = value[u]
              /\ since'[u] = since[u] /\ began'[u] = began[u] /\ ended'[u] = ended[u]
    BY <1>1 DEF CacheIInv, CacheTypeOK
  <1> QED BY <1>1, <1>2, <1>4, <1>8, <1>9, ReaderInv DEF CacheIInv

\* The answer leaves.
LEMMA ReturnInv ==
    ASSUME CacheIInv, NEW t \in Threads, Return(t)
    PROVE  CacheIInv'
  <1>1. /\ pc' = [pc EXCEPT ![t] = "idle"] /\ value' = [value EXCEPT ![t] = Nothing]
        /\ loaded' = [loaded EXCEPT ![t] = 0] /\ since' = [since EXCEPT ![t] = Nothing]
        /\ began' = [began EXCEPT ![t] = Nothing] /\ ended' = [ended EXCEPT ![t] = Nothing]
        /\ UNCHANGED <<store, generation, entry, acked>>
    BY DEF Return, Goto
  <1>2. PICK G \in Ledgers : Fits(G)
    BY DEF CacheIInv
  <1>3. CacheTypeOK'
    BY <1>1, NothingSome DEF CacheIInv, CacheTypeOK, CachePhases
  <1>4. pc'[t] = "idle" /\ value'[t] = Nothing
    BY <1>1 DEF CacheIInv, CacheTypeOK
  <1>5. ThreadOK(G, t)'
    BY <1>4 DEF ThreadOK
  <1>6. \A u \in Threads : u # t =>
              /\ pc'[u] = pc[u] /\ loaded'[u] = loaded[u] /\ value'[u] = value[u]
              /\ since'[u] = since[u] /\ began'[u] = began[u] /\ ended'[u] = ended[u]
    BY <1>1 DEF CacheIInv, CacheTypeOK
  <1> QED BY <1>1, <1>2, <1>3, <1>5, <1>6, ReaderInv DEF CacheIInv

\* The value goes in under the generation put loaded, over any other entry.
LEMMA PutInsertInv ==
    ASSUME CacheIInv, NEW t \in Threads, PutInsert(t)
    PROVE  CacheIInv'
  <1> DEFINE e == [generation |-> loaded[t], age |-> 0, value |-> value[t],
                   began |-> began[t], ended |-> ended[t]]
  <1>1. /\ pc[t] = "insert" /\ pc' = [pc EXCEPT ![t] = "answered"]
        /\ entry' = [entry EXCEPT ![Home[t]] = e]
        /\ UNCHANGED <<store, generation, loaded, value, acked, since, began, ended>>
    BY DEF PutInsert, Goto, ghosts
  <1>2. PICK G \in Ledgers : Fits(G)
    BY DEF CacheIInv
  <1>3. /\ Home[t] \in Replicas /\ loaded[t] \in Nat /\ loaded[t] <= generation[Home[t]]
        /\ ended[t] = G[Home[t]][loaded[t]] /\ ended[t] \in Full /\ Covers(ended[t], since[t])
        /\ value[t] \in Full /\ began[t] \in Full /\ Covers(value[t], began[t])
    BY <1>1, <1>2, CacheAssumption DEF CacheIInv, CacheTypeOK, Fits, ThreadOK
  <1>4. /\ e \in CacheEntries /\ e.generation = loaded[t] /\ e.value = value[t]
        /\ e.began = began[t] /\ e.ended = ended[t]
    BY <1>3, CacheAssumption DEF CacheEntries
  <1> HIDE DEF e
  <1>5. CacheTypeOK'
    BY <1>1, <1>4 DEF CacheIInv, CacheTypeOK, CachePhases
  <1>6. AckedInv'
    BY <1>1 DEF CacheIInv, AckedInv
  <1>7. ASSUME NEW p \in Replicas PROVE EntryOK(G, p)'
    <2>1. CASE p = Home[t]
      <3>1. entry'[p] = e
        BY <1>1, <2>1 DEF CacheIInv, CacheTypeOK
      <3> QED BY <1>1, <1>3, <1>4, <2>1, <3>1 DEF EntryOK
    <2>2. CASE p # Home[t]
      <3>1. entry'[p] = entry[p]
        BY <1>1, <2>2 DEF CacheIInv, CacheTypeOK
      <3> QED BY <1>1, <1>2, <3>1 DEF Fits, EntryOK
    <2> QED BY <2>1, <2>2
  <1>8. pc'[t] = "answered"
    BY <1>1 DEF CacheIInv, CacheTypeOK
  <1>9. ASSUME NEW u \in Threads PROVE ThreadOK(G, u)'
    <2>1. CASE u = t
      BY <1>1, <1>3, <1>8, <2>1 DEF ThreadOK
    <2>2. CASE u # t
      <3>1. pc'[u] = pc[u]
        BY <1>1, <2>2 DEF CacheIInv, CacheTypeOK
      <3> QED BY <1>1, <1>2, <3>1 DEF Fits, ThreadOK
    <2> QED BY <2>1, <2>2
  <1>10. Fits(G)'
    BY <1>1, <1>2, <1>7, <1>9 DEF Fits
  <1> QED BY <1>5, <1>6, <1>10 DEF CacheIInv

\* A document is published; nothing is acknowledged yet.
LEMMA WriteInv ==
    ASSUME CacheIInv, NEW t \in Threads, NEW d \in Documents, Write(t, d)
    PROVE  CacheIInv'
  <1> DEFINE v == [c \in {d} |-> store[d] + 1]
  <1>1. /\ pc[t] = "idle" /\ pc' = [pc EXCEPT ![t] = "written"]
        /\ store' = [store EXCEPT ![d] = @ + 1] /\ value' = [value EXCEPT ![t] = v]
        /\ UNCHANGED <<generation, entry, loaded, acked, since, began, ended>>
    BY DEF Write, Goto, ghosts
  <1>2. PICK G \in Ledgers : Fits(G)
    BY DEF CacheIInv
  <1>3. store[d] \in Nat /\ v \in [{d} -> Nat]
    BY DEF CacheIInv, CacheTypeOK, Full
  <1>4. v \in Some
    BY <1>3 DEF Some
  <1>5. store' \in Full /\ store'[d] = store[d] + 1 /\ \A c \in Documents : store'[c] >= store[c]
    BY <1>1, <1>3 DEF CacheIInv, CacheTypeOK, Full
  <1>6. CacheTypeOK'
    BY <1>1, <1>4, <1>5 DEF CacheIInv, CacheTypeOK, CachePhases
  <1>7. AckedInv'
    BY <1>1, <1>5 DEF CacheIInv, AckedInv, CacheTypeOK, Full
  <1>8. pc'[t] = "written" /\ value'[t] = v
    BY <1>1 DEF CacheIInv, CacheTypeOK
  <1>9. \A c \in DOMAIN value'[t] : value'[t][c] <= store'[c]
    BY <1>3, <1>5, <1>8
  <1>10. Covers(store', store)
    BY <1>5 DEF Covers, CacheIInv, CacheTypeOK, Full
  <1>11. ASSUME NEW u \in Threads PROVE ThreadOK(G, u)'
    <2>1. CASE u = t
      BY <1>8, <1>9, <2>1 DEF ThreadOK
    <2>2. CASE u # t
      <3>1. pc'[u] = pc[u] /\ value'[u] = value[u]
        BY <1>1, <2>2 DEF CacheIInv, CacheTypeOK
      <3>2. generation[Home[u]] \in Nat /\ acked[Home[u]] \in Full
        BY CacheAssumption DEF CacheIInv, CacheTypeOK
      <3>3. /\ Covers(acked'[Home[u]], acked[Home[u]])
            /\ generation[Home[u]] <= generation'[Home[u]]
        BY <1>1, <3>2, CoversReflexive
      <3>4. ThreadOK(G, u)
        BY <1>2 DEF Fits
      <3> QED BY <1>1, <1>6, <1>10, <3>1, <3>2, <3>3, <3>4, StillOK DEF CacheIInv
    <2> QED BY <2>1, <2>2
  <1>12. \A p \in Replicas : EntryOK(G, p)' /\ G[p][generation'[p]] = acked'[p]
    BY <1>1, <1>2 DEF Fits, EntryOK
  <1>13. Fits(G)'
    BY <1>11, <1>12 DEF Fits
  <1> QED BY <1>6, <1>7, <1>13 DEF CacheIInv

\* The write's replica retires its entries and acknowledges: the ledger of its next
\* generation is what is acknowledged now.
LEMMA InvalidateInv ==
    ASSUME CacheIInv, NEW t \in Threads, Invalidate(t)
    PROVE  CacheIInv'
  <1> DEFINE h == Home[t]
             a == [d \in Documents |->
                     IF d \in DOMAIN value[t] /\ acked[h][d] < value[t][d]
                     THEN value[t][d] ELSE acked[h][d]]
  <1>1. h \in Replicas /\ generation[h] \in Nat /\ acked[h] \in Full
    BY CacheAssumption DEF CacheIInv, CacheTypeOK
  <1>2. /\ pc[t] = "written" /\ pc' = [pc EXCEPT ![t] = "idle"]
        /\ generation' = [generation EXCEPT ![h] = generation[h] + 1]
        /\ acked' = [acked EXCEPT ![h] = a]
        /\ value' = [value EXCEPT ![t] = Nothing]
        /\ UNCHANGED <<store, entry, loaded, since, began, ended>>
    BY <1>1 DEF Invalidate, Goto, CacheIInv, CacheTypeOK
  <1>3. PICK G \in Ledgers : Fits(G)
    BY DEF CacheIInv
  <1>4. \A d \in DOMAIN value[t] : d \in Documents /\ value[t][d] \in Nat /\ value[t][d] <= store[d]
    BY <1>2, <1>3 DEF CacheIInv, CacheTypeOK, Some, Fits, ThreadOK
  <1>5. a \in Full /\ \A d \in Documents : a[d] <= store[d]
    BY <1>1, <1>4 DEF Full, CacheIInv, AckedInv
  <1>6. Covers(a, acked[h])
    BY <1>1, <1>4 DEF Covers, Full
  <1> HIDE DEF a
  <1>7. CacheTypeOK'
    BY <1>1, <1>2, <1>5, NothingSome DEF CacheIInv, CacheTypeOK, CachePhases
  <1>8. AckedInv'
    BY <1>1, <1>2, <1>5 DEF CacheIInv, AckedInv, CacheTypeOK
  <1>9. PICK H \in Ledgers : \A p \in Replicas :
           /\ H[p][generation'[p]] = acked'[p]
           /\ \A n \in Nat : n <= generation[p] => H[p][n] = G[p][n]
    <2> DEFINE row == [n \in Nat |-> IF n = generation[h] + 1 THEN a ELSE G[h][n]]
               H == [p \in Replicas |-> IF p = h THEN row ELSE G[p]]
    <2>1. row \in [Nat -> Full]
      BY <1>1, <1>3, <1>5 DEF Ledgers
    <2>2. H \in Ledgers
      BY <1>3, <2>1 DEF Ledgers
    <2>3. ASSUME NEW p \in Replicas
          PROVE  /\ H[p][generation'[p]] = acked'[p]
                 /\ \A n \in Nat : n <= generation[p] => H[p][n] = G[p][n]
      <3>1. CASE p = h
        <4>1. generation'[p] = generation[p] + 1 /\ acked'[p] = a /\ H[p] = row
          BY <1>1, <1>2, <3>1 DEF CacheIInv, CacheTypeOK
        <4>2. row[generation[h] + 1] = a /\ \A n \in Nat : n <= generation[h] => row[n] = G[h][n]
          BY <1>1
        <4> QED BY <3>1, <4>1, <4>2
      <3>2. CASE p # h
        <4>1. generation'[p] = generation[p] /\ acked'[p] = acked[p] /\ H[p] = G[p]
          BY <1>1, <1>2, <3>2 DEF CacheIInv, CacheTypeOK
        <4>2. G[p][generation[p]] = acked[p]
          BY <1>3 DEF Fits
        <4> QED BY <4>1, <4>2
      <3> QED BY <3>1, <3>2
    <2> HIDE DEF H
    <2> QED BY <2>2, <2>3
  <1>10. ASSUME NEW p \in Replicas
         PROVE  /\ generation[p] \in Nat /\ generation'[p] \in Nat /\ generation[p] <= generation'[p]
                /\ Covers(acked'[p], acked[p])
    <2>1. CASE p = h
      <3>1. generation'[p] = generation[p] + 1 /\ acked'[p] = a
        BY <1>1, <1>2, <2>1 DEF CacheIInv, CacheTypeOK
      <3> QED BY <1>1, <1>6, <2>1, <3>1
    <2>2. CASE p # h
      <3>1. generation'[p] = generation[p] /\ acked'[p] = acked[p]
        BY <1>1, <1>2, <2>2 DEF CacheIInv, CacheTypeOK
      <3>2. generation[p] \in Nat /\ acked[p] \in Full
        BY DEF CacheIInv, CacheTypeOK
      <3> QED BY <3>1, <3>2, CoversReflexive
    <2> QED BY <2>1, <2>2
  <1>11. ASSUME NEW p \in Replicas PROVE EntryOK(H, p)'
    <2> SUFFICES ASSUME entry[p] # NoEntry
                 PROVE  /\ entry[p].generation <= generation'[p]
                        /\ Covers(entry[p].value, entry[p].began)
                        /\ entry[p].ended = H[p][entry[p].generation]
      BY <1>2 DEF EntryOK
    <2>1. entry[p].generation \in Nat /\ entry[p].generation <= generation[p]
      BY <1>3 DEF CacheIInv, CacheTypeOK, CacheEntries, Fits, EntryOK
    <2>2. Covers(entry[p].value, entry[p].began) /\ entry[p].ended = G[p][entry[p].generation]
      BY <1>3 DEF Fits, EntryOK
    <2>3. generation[p] \in Nat /\ generation'[p] \in Nat /\ generation[p] <= generation'[p]
      BY <1>10
    <2>4. H[p][entry[p].generation] = G[p][entry[p].generation]
      BY <1>9, <2>1
    <2> QED BY <2>1, <2>2, <2>3, <2>4
  <1>12. pc'[t] = "idle" /\ value'[t] = Nothing
    BY <1>2 DEF CacheIInv, CacheTypeOK
  <1>13. ASSUME NEW u \in Threads PROVE ThreadOK(H, u)'
    <2>1. CASE u = t
      BY <1>12, <2>1 DEF ThreadOK
    <2>2. CASE u # t
      <3>1. /\ pc'[u] = pc[u] /\ value'[u] = value[u] /\ loaded'[u] = loaded[u]
            /\ since'[u] = since[u] /\ began'[u] = began[u] /\ ended'[u] = ended[u]
        BY <1>2, <2>2 DEF CacheIInv, CacheTypeOK
      <3>2. Home[u] \in Replicas
        BY CacheAssumption
      <3>3. /\ generation[Home[u]] <= generation'[Home[u]]
            /\ Covers(acked'[Home[u]], acked[Home[u]])
            /\ \A n \in Nat : n <= generation[Home[u]] => H[Home[u]][n] = G[Home[u]][n]
        BY <1>9, <1>10, <3>2
      <3>4. store \in Full
        BY DEF CacheIInv, CacheTypeOK
      <3>5. Covers(store', store)
        BY <1>2, <3>4, CoversReflexive
      <3>6. ThreadOK(G, u) /\ CacheTypeOK
        BY <1>3 DEF Fits, CacheIInv
      <3> QED BY <1>3, <1>7, <1>9, <3>1, <3>3, <3>5, <3>6, StillOK
    <2> QED BY <2>1, <2>2
  <1>14. \A p \in Replicas : H[p][generation'[p]] = acked'[p]
    BY <1>9
  <1>15. Fits(H)'
    BY <1>11, <1>13, <1>14 DEF Fits
  <1> QED BY <1>7, <1>8, <1>9, <1>15 DEF CacheIInv

\* Entries grow older, and keep what they say.
LEMMA TickInv ==
    ASSUME CacheIInv, Tick
    PROVE  CacheIInv'
  <1>1. /\ entry' = [p \in Replicas |->
                       IF entry[p] = NoEntry \/ entry[p].age = MAX_AGE THEN entry[p]
                       ELSE [entry[p] EXCEPT !.age = @ + 1]]
        /\ UNCHANGED <<store, generation, pc, loaded, value, acked, since, began, ended>>
    BY DEF Tick, ghosts
  <1>2. PICK G \in Ledgers : Fits(G)
    BY DEF CacheIInv
  <1>3. ASSUME NEW p \in Replicas
        PROVE  /\ entry'[p] \in CacheEntries \union {NoEntry}
               /\ entry'[p] # NoEntry =>
                    /\ entry[p] # NoEntry
                    /\ entry'[p].generation = entry[p].generation
                    /\ entry'[p].value = entry[p].value
                    /\ entry'[p].began = entry[p].began
                    /\ entry'[p].ended = entry[p].ended
    <2>1. CASE entry[p] = NoEntry \/ entry[p].age = MAX_AGE
      BY <1>1, <2>1 DEF CacheIInv, CacheTypeOK
    <2>2. CASE ~(entry[p] = NoEntry \/ entry[p].age = MAX_AGE)
      <3>1. entry[p] \in CacheEntries /\ entry[p].age \in 0 .. MAX_AGE /\ entry[p].age # MAX_AGE
        BY <2>2 DEF CacheIInv, CacheTypeOK, CacheEntries
      <3>2. entry[p].age + 1 \in 0 .. MAX_AGE
        BY <3>1, CacheAssumption
      <3>3. entry'[p] = [entry[p] EXCEPT !.age = entry[p].age + 1]
        BY <1>1, <2>2
      <3> QED BY <2>2, <3>1, <3>2, <3>3 DEF CacheEntries
    <2> QED BY <2>1, <2>2
  <1>4. CacheTypeOK'
    <2>1. entry' \in [Replicas -> CacheEntries \union {NoEntry}]
      BY <1>1, <1>3
    <2> QED BY <1>1, <2>1 DEF CacheIInv, CacheTypeOK
  <1>5. AckedInv'
    BY <1>1 DEF CacheIInv, AckedInv
  <1>6. \A p \in Replicas : EntryOK(G, p)' /\ G[p][generation'[p]] = acked'[p]
    BY <1>1, <1>2, <1>3 DEF Fits, EntryOK
  <1>7. \A t \in Threads : ThreadOK(G, t)'
    BY <1>1, <1>2 DEF Fits, ThreadOK
  <1>8. Fits(G)'
    BY <1>6, <1>7 DEF Fits
  <1> QED BY <1>4, <1>5, <1>8 DEF CacheIInv

\* Every step preserves the invariant.
LEMMA CacheNextInv == CacheIInv /\ [CacheNext]_cacheVars => CacheIInv'
  <1> SUFFICES ASSUME CacheIInv, [CacheNext]_cacheVars PROVE CacheIInv'
    OBVIOUS
  <1>1. CASE CacheNext
    BY <1>1, AskInv, GetInv, ComputeInv, ComputeFailsInv, PutLoadInv, PutInsertInv, ReturnInv,
       WriteInv, InvalidateInv, TickInv DEF CacheNext, Serve
  <1>2. CASE UNCHANGED cacheVars
    <2>1. PICK G \in Ledgers : Fits(G)
      BY DEF CacheIInv
    <2>2. UNCHANGED <<store, generation, entry, pc, loaded, value, acked, since, began, ended>>
      BY <1>2 DEF cacheVars, ghosts
    <2>3. CacheTypeOK' /\ AckedInv'
      BY <2>2 DEF CacheIInv, CacheTypeOK, AckedInv
    <2>4. Fits(G)'
      BY <2>1, <2>2 DEF Fits, EntryOK, ThreadOK
    <2> QED BY <2>3, <2>4 DEF CacheIInv
  <1> QED BY <1>1, <1>2

(* -------------------------- the cache: theorems -------------------------- *)

\* However many threads fill and invalidate a replica's cache side by side,
\* generations, entries and threads fit one ledger of what was acknowledged in
\* which generation, as CacheIInv says (get, put and invalidate of the cache).
THEOREM CacheInvariant == CacheSpec => []CacheIInv
  <1> QED BY CacheInitInv, CacheNextInv, PTL DEF CacheSpec

\* How stale an answer may be on the replica that wrote: it shows every write its
\* replica had acknowledged when the computation behind it began, and of those
\* acknowledged when the request came in it misses at most what was acknowledged
\* during that computation (get and put, for racing fills and writes).
THEOREM LocalAnswers == CacheSpec => []LocallyBounded
  <1>1. CacheIInv => LocallyBounded
    BY DEF CacheIInv, Fits, ThreadOK, LocallyBounded
  <1> QED BY CacheInvariant, <1>1, PTL
=============================================================================
