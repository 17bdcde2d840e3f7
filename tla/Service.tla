------------------------------ MODULE Service ------------------------------
(***************************************************************************)
(* One server process over its life: a start that resolves the settings    *)
(* and opens the volume, requests that pass the guardrails and park their  *)
(* disk work on the blocking pool, the readiness probe, the counters and   *)
(* the audit trail, a graceful stop, a kill, and the next start.           *)
(*                                                                         *)
(* A request is a future that can be dropped (the client hangs up, or the  *)
(* timeout layer cuts it off) while the work it parked goes on: phase is   *)
(* the future, work is the closure on the pool.  Passage of time is not    *)
(* modelled: a timer may fire whenever it is armed.                        *)
(***************************************************************************)
EXTENDS Startup

CONSTANTS
    Requests,           \* the requests clients send, each at most once
    Kind,               \* [Requests -> {"write", "probe"}]
    Actor,              \* [Requests -> the subject of the token, or Anonymous]
    Deployments,        \* the environments the process may be started with
    Restarts,           \* bound: those it is started with once more
    PoolThreads,        \* threads of the blocking pool
    MaxStarts,          \* bound: starts of the process
    MaxFaults           \* bound: changes of the volume's health

Anonymous == "-"
None == "none"

ASSUME ServiceConstants ==
    /\ Kind \in [Requests -> {"write", "probe"}]
    /\ IsFiniteSet(Requests) /\ None \notin Requests
    /\ Restarts \subseteq Deployments
    /\ PoolThreads \in Nat \ {0}
    /\ MaxStarts \in Nat
    /\ MaxFaults \in Nat

VARIABLES
    stage,      \* how far the process is
    dep,        \* the environment of the start under way
    starts,     \* how often it was started
    dirs,       \* which directories of the volume were made
    accounts,   \* the login names of users.json
    auth,       \* the authentication settings of this start
    limits,     \* the guardrails of this start
    available,  \* permits left in the semaphore
    phase,      \* [Requests -> where the request's future is]
    answer,     \* [Requests -> what the client was answered]
    work,       \* [Requests -> where the request's blocking work is]
    outcome,    \* [Requests -> what the blocking work came to, for its request]
    subject,    \* [Requests -> the actor installed around the work]
    applied,    \* [Requests -> how often its write reached the store]
    forgotten,  \* deletes that removed the grants of their project
    trail,      \* [Requests -> what is recorded of it, in order]
    counts,     \* [status class -> the counter of /metrics]
    lock,       \* the holder of .tatu.lock
    disk,       \* the health of the volume
    faults,     \* how often that changed
    scratch,    \* probe scratch files on the volume
    doubted     \* probes during which the volume was not healthy

boot == <<stage, dep, starts, dirs, accounts, auth, limits>>
front == <<available, phase, answer, counts>>
pool == <<work, outcome, subject, applied, forgotten, lock>>
volume == <<disk, faults, scratch, doubted>>
vars == <<boot, front, pool, volume, trail>>

Booting == {"start", "open", "configure", "accounts", "bind"}
Classes == {"2xx", "4xx", "5xx"}
NoDep == [command |-> None]
NoAuth == [required |-> FALSE]
NoLimits == [body |-> DefaultBody, timeout |-> NoBound, cap |-> NoBound]

Init ==
    /\ stage = "off" /\ dep = NoDep /\ starts = 0 /\ dirs = {} /\ accounts = {}
    /\ auth = NoAuth /\ limits = NoLimits
    /\ available = 0
    /\ phase = [r \in Requests |-> "new"]
    /\ answer = [r \in Requests |-> None]
    /\ counts = [c \in Classes |-> 0]
    /\ work = [r \in Requests |-> None]
    /\ outcome = [r \in Requests |-> None]
    /\ subject = [r \in Requests |-> Anonymous]
    /\ applied = [r \in Requests |-> 0]
    /\ forgotten = {}
    /\ lock = None
    /\ disk = "ok" /\ faults = 0 /\ scratch = {} /\ doubted = {}
    /\ trail = [r \in Requests |-> <<>>]

Serving == stage \in {"serving", "draining"}

-----------------------------------------------------------------------------
(* Starting.  Each step may refuse the start; what earlier steps did to the *)
(* volume stays.                                                            *)

Refuse == stage' = "refused" /\ dep' = NoDep /\ auth' = NoAuth

Proceed(to) == stage' = to /\ UNCHANGED <<dep, auth>>

\* create_private_dir_all: a directory that is there needs no writing.
CanMake(name) == disk = "ok" \/ (disk = "readonly" /\ name \in dirs)
MakeDir(name) == dirs' = dirs \union {name}

\* A subcommand never serves (Seeding models the two); then the subscriber,
\* the configuration file and the lock timeout.
Start(d) ==
    /\ stage \in {"off", "refused"} /\ starts < MaxStarts
    /\ starts = 0 \/ d \in Restarts
    /\ starts' = starts + 1
    /\ stage' = "start" /\ dep' = d
    /\ UNCHANGED <<dirs, accounts, auth, limits, front, pool, volume, trail>>

LoadSettings ==
    /\ stage = "start"
    /\ IF \/ dep.command # None
          \/ IsErr(LogFilterFrom(dep.log)) \/ IsErr(LogFormatFrom(dep.log_format))
          \/ IsErr(LoadFromEnv(dep.key_file, dep.file))
          \/ IsErr(LockTimeoutFrom(dep.lock_timeout))
       THEN Refuse
       ELSE Proceed("open")
    /\ UNCHANGED <<starts, dirs, accounts, limits, front, pool, volume, trail>>

Document == [file |-> TRUE, json |-> TRUE, dotted |-> FALSE]

ReservedProjectChildren == {"test_runs", "milestones", "configurations", "workflows"}

\* Documents of the flat layout: *.json files in one of the former collections of
\* the root; a folder or a temporary of an atomic write is none.
RefuseLegacyLayout(root) ==
    \E c \in ReservedProjectChildren \intersect DOMAIN root :
        \E e \in root[c] : e.file /\ e.json /\ ~e.dotted

\* FileRepository::new, which makes the root's collection and then looks for
\* such documents.
OpenRepository ==
    /\ stage = "open"
    /\ IF CanMake("projects") THEN MakeDir("projects") ELSE UNCHANGED dirs
    /\ IF CanMake("projects") /\ ~RefuseLegacyLayout(dep.root) THEN Proceed("configure") ELSE Refuse
    /\ UNCHANGED <<starts, accounts, limits, front, pool, volume, trail>>

\* The settings, then AuthStore::new.
Configure ==
    /\ stage = "configure"
    /\ LET config == AuthConfig(dep.env, LoadFromEnv(dep.key_file, dep.file).val) IN
       IF ~IsErr(config) /\ CanMake("grants")
       THEN MakeDir("grants") /\ stage' = "accounts" /\ auth' = config.val /\ UNCHANGED dep
       ELSE Refuse /\ UNCHANGED dirs
    /\ UNCHANGED <<starts, accounts, limits, front, pool, volume, trail>>

\* An enforcing server with no account and no credentials for one is refused.
EnsureBootstrapUser ==
    /\ stage = "accounts"
    /\ LET name == auth.bootstrap_username IN
       CASE disk # "missing" /\ (accounts # {} \/ (name = Unset /\ ~auth.required)) ->
               Proceed("bind") /\ UNCHANGED accounts
         [] disk = "ok" /\ accounts = {} /\ name # Unset ->
               Proceed("bind") /\ accounts' = {name.word}
         [] OTHER -> Refuse /\ UNCHANGED accounts
    /\ UNCHANGED <<starts, dirs, limits, front, pool, volume, trail>>

\* The guardrails are read last, then the listener binds; the port may be
\* another process's.
Guardrails(d) ==
    [body |-> MaxBodyBytesFrom(d.max_body).val,
     timeout |-> RequestTimeoutFrom(d.request_timeout).val,
     cap |-> MaxConcurrencyFrom(d.max_concurrency).val]

BoundsRead(d) ==
    /\ ~IsErr(MaxBodyBytesFrom(d.max_body))
    /\ ~IsErr(RequestTimeoutFrom(d.request_timeout))
    /\ ~IsErr(MaxConcurrencyFrom(d.max_concurrency))

Uncapped == Cardinality(Requests)

Bind(free) ==
    /\ stage = "bind"
    /\ IF BoundsRead(dep) /\ free
       THEN /\ stage' = "serving" /\ dep' = NoDep /\ UNCHANGED auth
            /\ limits' = Guardrails(dep)
            /\ available' = IF limits'.cap = NoBound THEN Uncapped ELSE limits'.cap
       ELSE Refuse /\ UNCHANGED <<limits, available>>
    /\ UNCHANGED <<starts, dirs, accounts, phase, answer, counts, pool, volume, trail>>

-----------------------------------------------------------------------------
(* Requests.  The layers from outside in: the counters, the request id, the *)
(* span, the actor, the permit, the timeout, the body limit, the handler.   *)

StatusClass(a) ==
    CASE a \in {"ok", "ready"} -> "2xx"
      [] a \in {"unauthenticated", "too_large", "rejected"} -> "4xx"
      [] OTHER -> "5xx"

\* The actor layer: a verified token's subject where authentication is
\* enforced, and nothing where it is not.
CurrentActor(r) == IF auth.required THEN Actor[r] ELSE Anonymous

Note(r, entry) == trail' = [trail EXCEPT ![r] = Append(@, entry)]

\* The fields the request's span ends with.  They are no line of the log: the
\* subscriber prints the events inside a span and nothing at its end.  The
\* start tells the processes apart.
SpanFields(r, a) == [what |-> "span", user |-> CurrentActor(r), outcome |-> a, start |-> starts]

Said(ok) == IF ok THEN "success" ELSE "failure"

\* The line of the audit trail around a write, in the name of the actor the
\* thread works for.
AuditLine(r, ok) == [what |-> "audit", user |-> subject[r], outcome |-> Said(ok)]

\* The line of a project's delete about its grants, in nobody's name.
RevocationLine(ok) == [what |-> "revocation", user |-> None, outcome |-> Said(ok)]

\* The answer passes the span's record_outcome and the counter of track.
Record(r, a) ==
    /\ answer' = [answer EXCEPT ![r] = a]
    /\ counts' = [counts EXCEPT ![StatusClass(a)] = @ + 1]
    /\ Note(r, SpanFields(r, a))

Holds(r) == phase[r] \in {"body", "parked"} /\ limits.cap # NoBound

\* A release the timeout path misses: the permit moved into the parked work.
ReleaseUnlessParked(r) ==
    available' = IF Holds(r) /\ work[r] \notin {"queued", "running"}
                 THEN available + 1 ELSE available

\* The permit is dropped with the future that owns it.
Release(r) == available' = IF Holds(r) THEN available + 1 ELSE available

\* The request arrives and takes a permit, or is refused at the limit.
Arrive(r) ==
    /\ stage = "serving" /\ phase[r] = "new"
    /\ IF limits.cap = NoBound
       THEN /\ phase' = [phase EXCEPT ![r] = "body"]
            /\ UNCHANGED <<available, answer, counts, trail>>
       ELSE IF available > 0
       THEN /\ phase' = [phase EXCEPT ![r] = "body"]
            /\ available' = available - 1
            /\ UNCHANGED <<answer, counts, trail>>
       ELSE /\ phase' = [phase EXCEPT ![r] = "answered"]
            /\ Record(r, "at_limit")
            /\ UNCHANGED available
    /\ UNCHANGED <<boot, pool, volume>>

Answer(r, a) ==
    /\ phase' = [phase EXCEPT ![r] = "answered"]
    /\ Release(r)
    /\ Record(r, a)

\* The body limit, and a token that is missing, or expired since the actor
\* layer read it.
AnswerDirectly(r) ==
    /\ Serving /\ phase[r] = "body"
    /\ Kind[r] = "write"
    /\ \/ Answer(r, "too_large")
       \/ auth.required /\ Answer(r, "unauthenticated")
    /\ UNCHANGED <<boot, pool, volume>>

\* Park that leaves the pool thread without the actor.
ParkUnattributed(r) ==
    /\ Serving /\ phase[r] = "body"
    /\ phase' = [phase EXCEPT ![r] = "parked"]
    /\ work' = [work EXCEPT ![r] = "queued"]
    /\ UNCHANGED <<boot, available, answer, counts, outcome, subject, applied, forgotten, lock, volume, trail>>

\* on_blocking and park: the actor is captured before the work is spawned.
Park(r) ==
    /\ Serving /\ phase[r] = "body"
    /\ phase' = [phase EXCEPT ![r] = "parked"]
    /\ work' = [work EXCEPT ![r] = "queued"]
    /\ subject' = [subject EXCEPT ![r] = CurrentActor(r)]
    /\ UNCHANGED <<boot, available, answer, counts, outcome, applied, forgotten, lock, volume, trail>>

\* What a finished closure is answered with; a panic is an Internal error.
AnswerOf(r) ==
    CASE outcome[r] = "stored" -> "ok"
      [] outcome[r] \in {"panicked", "failed"} -> "internal"
      [] OTHER -> outcome[r]

Respond(r) ==
    /\ Serving /\ phase[r] = "parked" /\ work[r] = "ended"
    /\ Answer(r, AnswerOf(r))
    /\ outcome' = [outcome EXCEPT ![r] = None]
    /\ UNCHANGED <<boot, work, subject, applied, forgotten, lock, volume>>

\* A timer that runs only once the body is in.
TimeoutHandlerOnly(r) ==
    /\ Serving /\ phase[r] = "parked" /\ limits.timeout # NoBound
    /\ Answer(r, "cut_off")
    /\ UNCHANGED <<boot, pool, volume>>

\* A timer that stops with the listener.
TimeoutWhileServing(r) ==
    /\ stage = "serving" /\ phase[r] \in {"body", "parked"} /\ limits.timeout # NoBound
    /\ Answer(r, "cut_off")
    /\ UNCHANGED <<boot, pool, volume>>

\* The timeout layer drops everything inside it.
Timeout(r) ==
    /\ Serving /\ phase[r] \in {"body", "parked"} /\ limits.timeout # NoBound
    /\ Answer(r, "cut_off")
    /\ UNCHANGED <<boot, pool, volume>>

\* The client hangs up: the whole stack is dropped and nothing is counted.
HangUp(r) ==
    /\ Serving /\ phase[r] \in {"body", "parked"}
    /\ phase' = [phase EXCEPT ![r] = "gone"]
    /\ Release(r)
    /\ UNCHANGED <<boot, answer, counts, pool, volume, trail>>

-----------------------------------------------------------------------------
(* The blocking pool.  It runs while the process does; a queued closure     *)
(* waits for a thread, a write waits for the lock until its timeout.        *)

Alive == Serving \/ stage = "stopping"
Busy == {r \in Requests : work[r] \notin {None, "queued", "ended", "discarded"}}

\* The actor's scope ends with the closure, and the result reaches the request
\* if it still waits for it.
End(r, o) ==
    /\ work' = [work EXCEPT ![r] = "ended"]
    /\ subject' = [subject EXCEPT ![r] = Anonymous]
    /\ outcome' = [outcome EXCEPT ![r] = IF phase[r] = "parked" THEN o ELSE None]

StartWork(r) ==
    /\ Alive /\ work[r] = "queued" /\ Cardinality(Busy) < PoolThreads
    /\ stage # "stopping"
    /\ work' = [work EXCEPT ![r] = "running"]
    /\ doubted' = IF disk # "ok" THEN doubted \union {r} ELSE doubted
    /\ UNCHANGED <<boot, front, outcome, subject, applied, forgotten, lock, disk, faults, scratch, trail>>

\* Validation, the guards and unresolved names refuse before any write, and
\* code before or after the write may panic: neither writes an audit line.
Reject(r) ==
    /\ Alive /\ Kind[r] = "write" /\ work[r] = "running"
    /\ \E o \in {"rejected", "panicked"} : End(r, o)
    /\ UNCHANGED <<boot, front, applied, forgotten, lock, volume, trail>>

-----------------------------------------------------------------------------
(* A write may be the delete of a project, which first forgets who had      *)
(* access to it, in a transaction of its own under the same lock.           *)

TakeGrantLock(r) ==
    /\ Alive /\ Kind[r] = "write" /\ work[r] = "running" /\ lock = None /\ disk = "ok"
    /\ lock' = r
    /\ work' = [work EXCEPT ![r] = "revoking"]
    /\ UNCHANGED <<boot, front, outcome, subject, applied, forgotten, volume, trail>>

\* A revocation that fails ends the delete before it touched the project.
RevocationFails(r, o) ==
    /\ End(r, o)
    /\ Note(r, RevocationLine(FALSE))

MissGrantLock(r) ==
    /\ Alive /\ Kind[r] = "write" /\ work[r] = "running"
    /\ lock # None \/ disk # "ok"
    /\ RevocationFails(r, IF disk # "ok" THEN "failed" ELSE "busy")
    /\ UNCHANGED <<boot, front, applied, forgotten, lock, volume>>

\* The grant file goes, or there is none (then no line is written), or the
\* volume refuses.
RevokeGrants(r) ==
    /\ Alive /\ work[r] = "revoking"
    /\ lock' = None
    /\ \/ /\ disk = "ok"
          /\ forgotten' = forgotten \union {r}
          /\ Note(r, RevocationLine(TRUE))
          /\ work' = [work EXCEPT ![r] = "revoked"] /\ UNCHANGED <<outcome, subject>>
       \/ /\ work' = [work EXCEPT ![r] = "revoked"]
          /\ UNCHANGED <<outcome, subject, forgotten, trail>>
       \/ RevocationFails(r, "failed") /\ UNCHANGED forgotten
    /\ UNCHANGED <<boot, front, applied, volume>>

-----------------------------------------------------------------------------
(* The write itself, or the removal of the project.                         *)

AtWrite(r) == Kind[r] = "write" /\ work[r] \in {"running", "revoked"}

TakeLock(r) ==
    /\ Alive /\ AtWrite(r) /\ lock = None /\ disk = "ok"
    /\ lock' = r
    /\ work' = [work EXCEPT ![r] = "locked"]
    /\ UNCHANGED <<boot, front, outcome, subject, applied, forgotten, volume, trail>>

\* The lock stays another's until the deadline, or cannot be opened at all.
MissLock(r) ==
    /\ Alive /\ AtWrite(r)
    /\ lock # None \/ disk # "ok"
    /\ End(r, IF disk # "ok" THEN "failed" ELSE "busy")
    /\ Note(r, AuditLine(r, FALSE))
    /\ UNCHANGED <<boot, front, applied, forgotten, lock, volume>>

\* Commit that drops the error of a write.
CommitUnchecked(r) ==
    /\ Alive /\ work[r] = "locked"
    /\ lock' = None
    /\ work' = [work EXCEPT ![r] = "written"]
    /\ \E stored \in BOOLEAN :
          /\ applied' = [applied EXCEPT ![r] = IF stored THEN @ + 1 ELSE @]
          /\ Note(r, AuditLine(r, stored))
    /\ UNCHANGED <<boot, front, outcome, subject, forgotten, volume>>

\* The atomic write, or the removal of the folder, then one line.  A failed
\* precondition writes nothing; a removal that stops midway is a failure.
Commit(r) ==
    /\ Alive /\ work[r] = "locked"
    /\ lock' = None
    /\ \E stored \in BOOLEAN :
          /\ stored => disk = "ok"
          /\ applied' = [applied EXCEPT ![r] = IF stored THEN @ + 1 ELSE @]
          /\ Note(r, AuditLine(r, stored))
          /\ IF stored
             THEN work' = [work EXCEPT ![r] = "written"] /\ UNCHANGED <<outcome, subject>>
             ELSE \E o \in {"rejected", "failed"} : End(r, o)
    /\ UNCHANGED <<boot, front, forgotten, volume>>

\* The rest of the closure: the answer is built, or it panics.
FinishWork(r) ==
    /\ Alive /\ work[r] = "written"
    /\ \E o \in {"stored", "panicked"} : End(r, o)
    /\ UNCHANGED <<boot, front, applied, forgotten, lock, volume, trail>>

-----------------------------------------------------------------------------
(* The readiness probe, step by step: the root, the lock, a scratch file.   *)

ProbeAt(r, at) == Alive /\ Kind[r] = "probe" /\ work[r] = at

ProbeStep(r, to) == work' = [work EXCEPT ![r] = to]

ProbeRoot(r) ==
    /\ ProbeAt(r, "running")
    /\ IF disk = "missing" THEN End(r, "not_ready")
       ELSE ProbeStep(r, "locking") /\ UNCHANGED <<outcome, subject>>
    /\ UNCHANGED <<boot, front, applied, forgotten, lock, volume, trail>>

\* ProbeLock that takes a busy lock for a broken one.
ProbeLockIdle(r) ==
    /\ ProbeAt(r, "locking")
    /\ IF disk = "ok" /\ lock = None
       THEN ProbeStep(r, "holding") /\ lock' = r
       ELSE ProbeStep(r, "writing") /\ UNCHANGED lock
    /\ outcome' = [outcome EXCEPT ![r] = IF disk = "ok" /\ lock = None THEN "ready" ELSE "not_ready"]
    /\ UNCHANGED <<boot, front, subject, applied, forgotten, volume, trail>>

\* A lock that a peer holds is available and held, not missing.  A lock file
\* that cannot be opened settles the answer; the probe goes on all the same.
ProbeLock(r) ==
    /\ ProbeAt(r, "locking")
    /\ IF disk = "ok" /\ lock = None
       THEN ProbeStep(r, "holding") /\ lock' = r
       ELSE ProbeStep(r, "writing") /\ UNCHANGED lock
    /\ outcome' = [outcome EXCEPT ![r] = IF disk = "ok" THEN "ready" ELSE "not_ready"]
    /\ UNCHANGED <<boot, front, subject, applied, forgotten, volume, trail>>

ProbeUnlock(r) ==
    /\ ProbeAt(r, "holding")
    /\ lock' = None
    /\ ProbeStep(r, "writing")
    /\ UNCHANGED <<boot, front, outcome, subject, applied, forgotten, volume, trail>>

ProbeWritable(r) ==
    /\ ProbeAt(r, "writing")
    /\ IF disk = "ok"
       THEN ProbeStep(r, "scratched") /\ scratch' = scratch \union {r} /\ UNCHANGED <<outcome, subject>>
       ELSE End(r, "not_ready") /\ UNCHANGED scratch
    /\ UNCHANGED <<boot, front, applied, forgotten, lock, disk, faults, doubted, trail>>

\* What was written counts; removing the scratch file may fail unnoticed.
ProbeRemove(r) ==
    /\ ProbeAt(r, "scratched")
    /\ scratch' = IF disk = "ok" THEN scratch \ {r} ELSE scratch
    /\ End(r, outcome[r])
    /\ UNCHANGED <<boot, front, applied, forgotten, lock, disk, faults, doubted, trail>>

-----------------------------------------------------------------------------
(* The end of a process, and its surroundings.                              *)

\* SIGTERM or Ctrl-C: no new connection is accepted.
ShutdownSignal ==
    /\ stage = "serving"
    /\ stage' = "draining"
    /\ UNCHANGED <<dep, starts, dirs, accounts, auth, limits, front, pool, volume, trail>>

InFlight == {r \in Requests : phase[r] \in {"body", "parked"}}

\* Drained that leaves as soon as the signal arrived.
DrainedAtOnce ==
    /\ stage = "draining"
    /\ stage' = "stopping"
    /\ work' = [r \in Requests |-> IF work[r] = "queued" THEN "discarded" ELSE work[r]]
    /\ UNCHANGED <<dep, starts, dirs, accounts, auth, limits, front, outcome, subject, applied, forgotten, lock, volume, trail>>

\* axum::serve returns when the last connection ended, and the runtime is
\* dropped: closures no thread has begun are discarded, the others finish.
Drained ==
    /\ stage = "draining" /\ InFlight = {}
    /\ stage' = "stopping"
    /\ work' = [r \in Requests |-> IF work[r] = "queued" THEN "discarded" ELSE work[r]]
    /\ UNCHANGED <<dep, starts, dirs, accounts, auth, limits, front, outcome, subject, applied, forgotten, lock, volume, trail>>

Down ==
    /\ stage' = "off" /\ dep' = NoDep /\ auth' = NoAuth /\ limits' = NoLimits
    /\ available' = 0 /\ counts' = [c \in Classes |-> 0]

Exit ==
    /\ stage = "stopping" /\ Busy = {}
    /\ Down
    /\ UNCHANGED <<starts, dirs, accounts, phase, answer, pool, volume, trail>>

\* The process is killed: every future and every closure is gone at once, and
\* the operating system releases the lock.
Kill ==
    /\ stage \notin {"off", "refused"}
    /\ Down
    /\ phase' = [r \in Requests |-> IF r \in InFlight THEN "gone" ELSE phase[r]]
    /\ work' = [r \in Requests |-> IF r \in Busy \/ work[r] = "queued" THEN "discarded" ELSE work[r]]
    /\ lock' = None
    /\ outcome' = [r \in Requests |-> None]
    /\ subject' = [r \in Requests |-> Anonymous]
    /\ UNCHANGED <<starts, dirs, accounts, answer, applied, forgotten, volume, trail>>

Probing == {r \in Busy : Kind[r] = "probe"}

DiskChanges(to) ==
    /\ faults < MaxFaults /\ to # disk
    /\ disk' = to /\ faults' = faults + 1
    /\ doubted' = doubted \union Probing
    /\ UNCHANGED <<boot, front, pool, scratch, trail>>

\* The process may rest for good once no start is left.
Rest == stage \in {"off", "refused"} /\ starts = MaxStarts /\ UNCHANGED vars

BootStep ==
    \/ LoadSettings \/ OpenRepository \/ Configure \/ EnsureBootstrapUser
    \/ \E free \in BOOLEAN : Bind(free)

WorkStep(r) ==
    \/ Reject(r) \/ TakeGrantLock(r) \/ MissGrantLock(r) \/ RevokeGrants(r) \/ TakeLock(r) \/ MissLock(r)
    \/ Commit(r) \/ FinishWork(r)
    \/ ProbeRoot(r) \/ ProbeLock(r) \/ ProbeUnlock(r) \/ ProbeWritable(r) \/ ProbeRemove(r)

Next ==
    \/ \E d \in Deployments : Start(d)
    \/ BootStep
    \/ \E r \in Requests :
          \/ Arrive(r) \/ AnswerDirectly(r) \/ Park(r)
          \/ Respond(r) \/ Timeout(r) \/ HangUp(r)
          \/ StartWork(r) \/ WorkStep(r)
    \/ ShutdownSignal \/ Drained \/ Exit \/ Kill
    \/ \E to \in {"ok", "readonly", "missing"} : DiskChanges(to)
    \/ Rest

\* The executor polls what is ready, the pool runs what it began, the timer
\* fires.  Nothing is assumed of clients, operators or the volume.
Fairness ==
    /\ \A r \in Requests :
          /\ WF_vars(Respond(r))
          /\ WF_vars(Timeout(r))
          /\ WF_vars(StartWork(r))
          /\ WF_vars(WorkStep(r))
    /\ WF_vars(Drained)
    /\ WF_vars(Exit)

Spec == Init /\ [][Next]_vars /\ Fairness

-----------------------------------------------------------------------------
(* What the texts of an environment may be.                                 *)

IsBound(t) == t \in {Unset, Blank, Junk} \/ (t.is = "number" /\ t = Number(t.n) /\ t.n \in Nat)

IsSecret(t) == t = Unset \/ (t.is = "secret" /\ t.length \in Nat)

\* A text as the parser of its key tells texts apart.
IsSetting(key, t) ==
    /\ key = "auth_required" => t \in {Unset, Junk, Flag(TRUE), Flag(FALSE)}
    /\ key = "jwt_secret" => IsSecret(t)
    /\ key = "jwt_secret_file" => t = Junk \/ IsSecret(t)
    /\ key \in {"access_token_ttl", "refresh_token_ttl"} =>
          t \in {Unset, Junk} \/ (t.is = "span" /\ t.n \in Nat /\ t.scale \in Nat \ {0})

IsKeyFile(f) ==
    f \in {Unset, Blank, Junk} \/ ("entries" \in DOMAIN f /\ f.entries \in Seq(ToSet(f.entries)))

\* A value that is no object is its type and its text.
IsFile(f) ==
    \/ f \in {Unset, Blank, Junk}
    \/ /\ "doc" \in DOMAIN f
       /\ \A key \in DOMAIN f.doc :
             /\ f.doc[key].type # "object" => f.doc[key] = Json(f.doc[key].type, f.doc[key].text)
             /\ IsSetting(key, f.doc[key].text)

ASSUME DeploymentsAssumption ==
    \A d \in Deployments :
        /\ \A t \in {d.lock_timeout, d.max_body, d.request_timeout, d.max_concurrency} : IsBound(t)
        /\ IsKeyFile(d.key_file) /\ IsFile(d.file)
        /\ \A key \in KnownKeys \ {"version"} : IsSetting(key, d.env[key])
        /\ \A c \in DOMAIN d.root :
              d.root[c] \subseteq [file : BOOLEAN, json : BOOLEAN, dotted : BOOLEAN]

-----------------------------------------------------------------------------
(* Properties.                                                              *)

\* A success says the write is in the store, once.  Every refusal (at the
\* limit, of the body, of the caller, by the domain, by a busy lock) says it
\* is not and never will be, whatever the pool still runs.  Only a cut-off, a
\* hang-up or an internal error leaves it open, and never twice.  For a delete
\* this is about the project; its grants may be gone already (api/crud.rs).
AnswersTell ==
    \A r \in Requests :
        /\ applied[r] <= 1
        /\ answer[r] = "ok" => applied[r] = 1
        /\ answer[r] \in {"at_limit", "too_large", "unauthenticated", "rejected", "busy"}
              => applied[r] = 0 /\ work[r] \in {None, "ended"}

\* However requests are answered, cut off or abandoned, every permit is held
\* by one request in flight or back in the semaphore, so that never more than
\* max_concurrency requests are in flight and the server never wedges at its
\* limit.
PermitsBoundRequests ==
    Serving /\ limits.cap # NoBound =>
        /\ available + Cardinality(InFlight) = limits.cap
        /\ available >= 0

\* The permits bound requests, not the work they leave behind: blocking work
\* that runs, waits or was discarded without a request waiting for it belongs
\* to a request that was cut off with 504 or whose client is gone.  A graceful
\* stop abandons no other.
OrphansAreCutOff ==
    \A r \in Requests :
        work[r] \notin {None, "ended"} =>
            \/ phase[r] = "parked" /\ Serving
            \/ phase[r] = "gone"
            \/ answer[r] = "cut_off"

Entries(r, what) == {i \in DOMAIN trail[r] : trail[r][i].what = what}
Succeeds(r, what) == \E i \in Entries(r, what) : trail[r][i].outcome = "success"
CountedAs(class) ==
    {r \in Requests : \E i \in Entries(r, "span") :
        trail[r][i].start = starts /\ StatusClass(trail[r][i].outcome) = class}

\* What is recorded is so.  A span has its fields once the request is answered
\* and none for a client that left.  There is at most one audit line per
\* request, one of success exactly when the write is in the store (even when
\* it lands after the answer, from another thread), in the name the span has.
\* A delete also has at most one line about grants, of success exactly when it
\* removed some, before the line of the removal; no removal is tried after a
\* failed revocation.  The counters of this process are the answers it gave.
TrailTruthful ==
    /\ \A r \in Requests :
          /\ Cardinality(Entries(r, "span")) = IF phase[r] = "answered" THEN 1 ELSE 0
          /\ \A what \in {"audit", "revocation"} : Cardinality(Entries(r, what)) <= 1
          /\ applied[r] = 1 <=> Succeeds(r, "audit")
          /\ r \in forgotten <=> Succeeds(r, "revocation")
          /\ \A i \in Entries(r, "revocation"), j \in Entries(r, "audit") :
                i < j /\ trail[r][i].outcome = "success"
          /\ \A i \in Entries(r, "span"), j \in Entries(r, "audit") :
                trail[r][i].user = trail[r][j].user
    /\ Serving => \A c \in Classes : counts[c] = Cardinality(CountedAs(c))

\* The probe calls the store not ready only if the volume really was in
\* trouble while it looked, never because a write or another probe had the
\* lock, and a probe that ended on a healthy volume left no scratch file.
ProbeHonest ==
    \A r \in Requests :
        /\ answer[r] = "not_ready" => r \in doubted
        /\ r \in scratch /\ work[r] = "ended" => r \in doubted

\* The documented settings of an environment: the environment over the file,
\* key by key, a null is no setting, and an encrypted value is its plaintext.
Documented(d, key) ==
    IF d.env[key] # Unset THEN d.env[key]
    ELSE IF "doc" \in DOMAIN d.file /\ key \in DOMAIN d.file.doc /\ d.file.doc[key].type # "null"
    THEN d.file.doc[key].text
    ELSE Unset

\* An encrypted value opens with the key it names, the first of that name.
Sealed(d, v) ==
    /\ v.well /\ v.version = 1 /\ v.algorithm = "aes-256-gcm" /\ v.intact
    /\ "entries" \in DOMAIN d.key_file
    /\ \E i \in DOMAIN d.key_file.entries :
          /\ d.key_file.entries[i].id = v.id /\ d.key_file.entries[i].key = v.key
          /\ \A j \in DOMAIN d.key_file.entries : d.key_file.entries[j].id = v.id => i <= j

\* An environment that can serve.
Sound(d) ==
    LET S(key) == Documented(d, key)
        Positive(t) == t.is = "number" => t.n > 0 IN
    /\ d.command = None
    /\ \A c \in DOMAIN d.root : Document \in d.root[c] => c \notin ReservedProjectChildren
    /\ Junk \notin {d.log, d.log_format, d.lock_timeout, d.max_body, d.request_timeout,
                    d.max_concurrency}
    /\ d.log_format \in {Unset, Blank, Word("compact"), Word("json")}
    /\ Positive(d.max_body)
    /\ d.key_file \notin {Blank, Junk}
    /\ "entries" \in DOMAIN d.key_file =>
          \A e \in ToSet(d.key_file.entries) : e.length = KeyLength
    /\ d.file \notin {Blank, Junk}
    /\ "doc" \in DOMAIN d.file =>
          /\ DOMAIN d.file.doc \subseteq KnownKeys
          /\ "version" \in DOMAIN d.file.doc /\ d.file.doc["version"] = Json("number", Number(1))
          /\ \A key \in DOMAIN d.file.doc \ {"version"} :
                LET v == d.file.doc[key] IN
                CASE v.type = "null" -> TRUE
                  [] v.type = "object" -> key \in SecretKeys /\ Sealed(d, v)
                  [] v.type = "boolean" -> key = "auth_required"
                  [] v.type = "string" -> key # "auth_required"
                  [] OTHER -> FALSE
    /\ S("auth_required").is \in {"unset", "flag"}
    /\ \A key \in {"access_token_ttl", "refresh_token_ttl"} :
          S(key) = Unset \/ (S(key).is = "span" /\ S(key).n * S(key).scale \in 1..MaxSeconds)
    /\ ~(S("jwt_secret") # Unset /\ S("jwt_secret_file") # Unset)
    /\ \A key \in {"jwt_secret", "jwt_secret_file"} :
          S(key) = Unset \/ (S(key) # Junk /\ S(key).length >= MinSecretBytes)
    /\ S("auth_required") = Flag(TRUE) =>
          S("jwt_secret") # Unset \/ S("jwt_secret_file") # Unset
    /\ S("bootstrap_username") = Unset <=> S("bootstrap_password") = Unset

\* A process serves exactly with the settings its environment documents: it
\* binds only a sound environment, with authentication enforced when and only
\* when that says so; it refuses a sound one only for its volume, for the port
\* or for want of a first account; and it mints an account only into an empty
\* store, so that no later change of the variables makes a second
\* administrator.
ServesAsConfigured ==
    [][ /\ stage' = "serving" /\ stage # "serving" =>
              Sound(dep) /\ auth'.required = (Documented(dep, "auth_required") = Flag(TRUE))
        /\ stage' = "refused" /\ stage \in Booting /\ disk = "ok" /\ Sound(dep) =>
              \/ stage = "bind"
              \/ /\ stage = "accounts" /\ accounts = {}
                 /\ Documented(dep, "bootstrap_username") = Unset
                 /\ Documented(dep, "auth_required") = Flag(TRUE)
        /\ accounts' # accounts => accounts = {} ]_vars

\* A request that parked its work is answered or its client leaves, whatever
\* the lock, the pool and the volume do; one whose body never comes is too,
\* where a timeout is configured.
EveryRequestEnds ==
    \A r \in Requests :
        phase[r] = "parked" \/ (phase[r] = "body" /\ limits.timeout # NoBound)
            ~> phase[r] \in {"answered", "gone"}

\* A stop ends: once signalled, the process exits by itself, with every client
\* that stayed answered, provided a timeout bounds the bodies still to come.
DrainEnds ==
    stage = "draining" /\ limits.timeout # NoBound
        ~> stage = "off" /\ InFlight = {}
=============================================================================
