---------------------------- MODULE DelegatedJobs ----------------------------
(***************************************************************************)
(* Jobs that run on behalf of the actor who dispatched them                *)
(* (packages/authorization and authorization-queue): at admission an       *)
(* issuer puts a credential in the metadata of the job; before a job runs, *)
(* installQueueDelegation has the credential verified, compares its claims *)
(* with the job at hand, has the actor authenticated, and binds what       *)
(* RequireAuthorization then authorizes.                                   *)
(*                                                                         *)
(* Between two of these steps time passes and the application changes: an  *)
(* actor is revoked, an ability is taken away, a job that waits is moved   *)
(* to another queue, renamed by a deployment or has its payload replaced.  *)
(* The verifier answers with the claims it was issued; it and the          *)
(* authenticator may also be unavailable.                                  *)
(***************************************************************************)
EXTENDS Integers, FiniteSets

CONSTANTS
    Dispatches,     \* the jobs that are dispatched
    CanonicalOf,    \* the registry: the canonical name of every serialized name, "none" if unregistered
    DispatchName,   \* the serialized name under which they are dispatched
    Selections,     \* options.jobs: the canonical names that may be configured to need a credential
    Actors,         \* who may dispatch
    CredentialLife, \* how long the issuer makes a credential valid
    ClockSkew,      \* options.clockSkewMs
    JobTries,       \* tries of a job
    LastTick,       \* bound: the clock
    MaxOutages,     \* bound: calls of the verifier, authenticator or policy that fail
    MaxAdministration  \* bound: revocations, moves, renames and edits

ASSUME DelegationAssumption ==
    /\ DispatchName \in DOMAIN CanonicalOf /\ CanonicalOf[DispatchName] # "none"
    /\ Selections \subseteq SUBSET {CanonicalOf[n] : n \in DOMAIN CanonicalOf}
    /\ \A selection \in Selections : "none" \notin selection
    /\ CredentialLife \in Nat \ {0} /\ ClockSkew \in Nat /\ JobTries \in Nat \ {0} /\ LastTick \in Nat
    /\ "none" \notin Actors \cup Dispatches

VARIABLES
    selected,   \* the canonical names that need a credential
    present,    \* the clock
    message,    \* message[j]: the job as the queue holds it
    work,       \* the run of the worker
    trusted,    \* the actors the authenticator vouches for
    able,       \* the actors whose ability the policy grants
    outages, administration,  \* how much of the bounds is used up
    runs        \* history: the runs of handlers and what they were based on

delegationVars == <<selected, present, message, work, trusted, able, outages, administration, runs>>

JobNames == DOMAIN CanonicalOf
NoClaims == [actor |-> "none", job |-> "none", name |-> DispatchName, queue |-> "none", payload |-> "none", issued |-> 0, expires |-> 0]
NotDispatched == [state |-> "none", queue |-> "q1", name |-> DispatchName, payload |-> "p1", tries |-> 0,
                  fingerprint |-> "none", credential |-> NoClaims, by |-> "none", ended |-> "none"]
NoWork == [pc |-> "idle", job |-> "none", claims |-> NoClaims, actor |-> "none", verdict |-> "none",
           taken |-> 0, checked |-> 0]

DelegationInit ==
    /\ selected \in Selections
    /\ present = 0
    /\ message = [j \in Dispatches |-> NotDispatched]
    /\ work = NoWork
    /\ trusted = Actors /\ able = Actors
    /\ outages = 0 /\ administration = 0
    /\ runs = {}

\* What a serialized name needs is decided wherever the name is met: at the dispatch, and
\* anew by every run, from the canonical name of the job as the queue then holds it.
Registered(name) == CanonicalOf[name] # "none"
Needs(name) == CanonicalOf[name] \in selected

(***************************************************************************)
(* Admission                                                               *)
(***************************************************************************)

\* The contributor of installQueueDelegation: the issuer signs the admission of a
\* selected job, with the actor of the dispatching context and the identity of the
\* dispatch, which the metadata of the job carries as well.
issue(j, actor) ==
    [actor |-> actor, job |-> j, name |-> DispatchName, queue |-> "q1", payload |-> "p1",
     issued |-> present, expires |-> present + CredentialLife]

admit(j, actor) ==
    /\ message[j].state = "none"
    /\ message' = [message EXCEPT ![j] = [@ EXCEPT !.state = "waiting", !.by = actor, !.fingerprint = "p1",
                                          !.credential = IF Needs(DispatchName) THEN issue(j, actor) ELSE NoClaims]]
    /\ UNCHANGED <<present, work, trusted, able, outages, administration, runs>>

\* A job that was dispatched before delegation was installed has neither an identity
\* nor a credential.
admitLegacy(j) ==
    /\ message[j].state = "none"
    /\ message' = [message EXCEPT ![j] = [@ EXCEPT !.state = "waiting"]]
    /\ UNCHANGED <<present, work, trusted, able, outages, administration, runs>>

(***************************************************************************)
(* The scope of a run                                                      *)
(***************************************************************************)
Rests == <<present, message, trusted, able, outages, administration, runs>>
Working(pc) == work.pc = pc
Continues(pc) == work' = [work EXCEPT !.pc = pc]
WorkEnds(verdict) == work' = [work EXCEPT !.pc = "ending", !.verdict = verdict]

\* JobRunner.prepare, verifyDispatchIdentity: the payload is the one the identity names.
IdentityHolds(j) == message[j].fingerprint \in {"none", message[j].payload}

\* readJobDispatchIdentity, readCredential
Carries(j) == message[j].fingerprint # "none" /\ message[j].credential # NoClaims

\* The queue hands a job over.  A payload that is not the dispatched one is refused before
\* any contributor runs; a name that is not registered is misconfigured; a job that is not
\* selected under the name it has now gets no principal, whatever it carries; a selected
\* one without an identity or a credential is denied.
takeJob(j) ==
    /\ Working("idle") /\ message[j].state = "waiting"
    /\ LET name == message[j].name
           started(pc, verdict) == work' = [NoWork EXCEPT !.job = j, !.taken = present, !.pc = pc, !.verdict = verdict]
       IN \/ ~IdentityHolds(j) /\ started("ending", "invalid")
          \/ IdentityHolds(j) /\ ~Registered(name) /\ started("ending", "misconfigured")
          \/ IdentityHolds(j) /\ Registered(name) /\ ~Needs(name) /\ started("handling", "none")
          \/ IdentityHolds(j) /\ Registered(name) /\ Needs(name) /\ ~Carries(j) /\ started("ending", "denied")
          \/ IdentityHolds(j) /\ Registered(name) /\ Needs(name) /\ Carries(j) /\ started("verifying", "none")
    /\ message' = [message EXCEPT ![j].state = "active"]
    /\ UNCHANGED <<present, trusted, able, outages, administration, runs>>

\* mutant: the identity of the dispatch is not part of what is compared.
matchesAnyDispatch(claims, j) ==
    /\ claims.queue = message[j].queue /\ claims.name = message[j].name
    /\ claims.issued <= present + ClockSkew /\ claims.expires > present - ClockSkew

\* matchesExpected: the queue, the names, the identity of the dispatch (its id and the
\* fingerprint of its payload) and the time.
matchesExpected(claims, j) ==
    /\ claims.queue = message[j].queue /\ claims.name = message[j].name
    /\ claims.job = j /\ claims.payload = message[j].fingerprint
    /\ claims.issued <= present + ClockSkew /\ claims.expires > present - ClockSkew

\* verifier.verify answers with the claims, which are compared when the answer is there.
verify ==
    /\ Working("verifying")
    /\ LET claims == message[work.job].credential IN
       IF matchesExpected(claims, work.job)
       THEN work' = [work EXCEPT !.pc = "authenticating", !.claims = claims, !.checked = present]
       ELSE WorkEnds("denied")
    /\ UNCHANGED Rests

\* normalizeClaims, a QueueDelegationDeniedError: the verifier does not recognise the credential.
verifierDenies ==
    /\ Working("verifying") /\ outages < MaxOutages
    /\ outages' = outages + 1
    /\ WorkEnds("denied")
    /\ UNCHANGED <<present, message, trusted, able, administration, runs>>

\* The verifier, the authenticator or the policy throws: that is retried.
unavailable ==
    /\ work.pc \in {"verifying", "authenticating", "authorizing"} /\ outages < MaxOutages
    /\ outages' = outages + 1
    /\ WorkEnds("unavailable")
    /\ UNCHANGED <<present, message, trusted, able, administration, runs>>

\* resolveTrustedQueueContext: only a resolution of trustQueuePrincipal has an identity.
resolveTrustedQueueContext(resolution) == IF resolution.branded THEN resolution.actor ELSE "none"

\* external: the authenticator vouches for the actors it trusts.
Resolutions(actor) ==
    IF actor \in trusted THEN {[actor |-> actor, branded |-> TRUE]} ELSE {[actor |-> "none", branded |-> FALSE]}

\* authenticate: no identity, and one that is not that of the claims, are denied.
authenticate ==
    /\ Working("authenticating")
    /\ \E resolution \in Resolutions(work.claims.actor) :
          IF resolveTrustedQueueContext(resolution) = work.claims.actor
          THEN work' = [work EXCEPT !.pc = "authorizing", !.actor = work.claims.actor]
          ELSE WorkEnds("denied")
    /\ UNCHANGED Rests

\* The authenticator answers for someone else, or with a principal it does not vouch for.
authenticatorErrs ==
    /\ Working("authenticating") /\ outages < MaxOutages
    /\ outages' = outages + 1
    /\ \E resolution \in [actor : Actors, branded : BOOLEAN] :
          /\ resolution # [actor |-> work.claims.actor, branded |-> TRUE]
          /\ IF resolveTrustedQueueContext(resolution) = work.claims.actor
             THEN work' = [work EXCEPT !.pc = "authorizing", !.actor = work.claims.actor]
             ELSE WorkEnds("denied")
    /\ UNCHANGED <<present, message, trusted, able, administration, runs>>

\* Authorization.inspect: nobody is not authenticated; otherwise the before hook and the
\* action of the policy, or the ability, decide.
inspect(actor) == actor # "none" /\ actor \in able

\* RequireAuthorization.handle: a denial, or an ability that is not defined, is final.
authorize ==
    /\ Working("authorizing")
    /\ IF inspect(work.actor) THEN Continues("handling") ELSE WorkEnds("denied")
    /\ UNCHANGED Rests

\* next(): the handler runs as the principal, or without one, and ends well, or throws, or
\* throws what is not retried.
Endings == {"ok", "threw", "final"}
handle ==
    /\ Working("handling")
    /\ \E ending \in Endings :
          /\ LET m == message[work.job] IN
             runs' = runs \cup {[job |-> work.job, attempt |-> m.tries + 1, ending |-> ending, as |-> work.actor,
                                 name |-> m.name, queue |-> m.queue, payload |-> m.payload,
                                 taken |-> work.taken, checked |-> work.checked, issued |-> work.claims.issued]}
          /\ WorkEnds(ending)
    /\ UNCHANGED <<present, message, trusted, able, outages, administration>>

\* A NonRetryableJobError ends the job; anything else is tried again.
endJob ==
    /\ Working("ending")
    /\ LET tries == message[work.job].tries + 1
           state == IF work.verdict = "ok" THEN "done"
                    ELSE IF work.verdict \in {"threw", "unavailable"} /\ tries < JobTries THEN "waiting" ELSE "failed"
       IN message' = [message EXCEPT ![work.job] = [@ EXCEPT !.state = state, !.tries = tries, !.ended = work.verdict]]
    /\ work' = NoWork
    /\ UNCHANGED <<present, trusted, able, outages, administration, runs>>

(***************************************************************************)
(* Time and the application                                                *)
(***************************************************************************)
ticks ==
    /\ present < LastTick
    /\ present' = present + 1
    /\ UNCHANGED <<message, work, trusted, able, outages, administration, runs>>

Administers == administration < MaxAdministration /\ administration' = administration + 1

revoke(actor) ==
    /\ Administers
    /\ \/ actor \in trusted /\ trusted' = trusted \ {actor} /\ UNCHANGED able
       \/ actor \in able /\ able' = able \ {actor} /\ UNCHANGED trusted
    /\ UNCHANGED <<present, message, work, outages, runs>>

\* A job that waits, for its first run or for a retry, is moved, renamed or edited and keeps
\* its metadata, or it is given the credential of another job.
changeWaiting(j) ==
    /\ message[j].state = "waiting" /\ Administers
    /\ message' \in {[message EXCEPT ![j].queue = "q2"], [message EXCEPT ![j].payload = "p2"]}
                    \cup {[message EXCEPT ![j].name = name] : name \in JobNames}
                    \cup {[message EXCEPT ![j].credential = message[k].credential] : k \in Dispatches}
    /\ message' # message
    /\ UNCHANGED <<present, work, trusted, able, outages, runs>>

DelegationStep ==
    \/ ticks \/ verify \/ verifierDenies \/ unavailable \/ authenticate \/ authenticatorErrs
    \/ authorize \/ handle \/ endJob
    \/ \E actor \in Actors : revoke(actor)
    \/ \E j \in Dispatches :
          admitLegacy(j) \/ takeJob(j) \/ changeWaiting(j) \/ \E actor \in Actors : admit(j, actor)

DelegationNext == DelegationStep /\ UNCHANGED selected

DelegationSpec == DelegationInit /\ [][DelegationNext]_delegationVars

\* Types.
DelegationTypeOK ==
    /\ present \in 0..LastTick /\ trusted \subseteq Actors /\ able \subseteq Actors
    /\ \A j \in Dispatches : message[j].state \in {"none", "waiting", "active", "done", "failed"}
    /\ work.pc \in {"idle", "verifying", "authenticating", "authorizing", "handling", "ending"}

\* Whom a job runs as (installQueueDelegation, RequireAuthorization), whatever happens to
\* it while it waits, in every attempt: under a name that needs a credential it runs as the
\* actor who dispatched it, with the name and the payload and on the queue of its dispatch,
\* and its credential was compared in that very attempt and was valid then; under any other
\* name, even one it was given later, it runs as nobody, and an unregistered name never
\* runs.  An attempt runs once.  A job is done only by the last attempt it made; one that
\* is denied, misconfigured or invalid got no handler in its last attempt, whatever its
\* earlier attempts did, for the reason it names; any other failure is the handler's own
\* final one, or uses up the tries.
DelegationIsExact ==
    /\ \A r \in runs :
          /\ Registered(r.name)
          /\ IF Needs(r.name)
             THEN /\ r.as = message[r.job].by /\ r.as # "none"
                  /\ r.name = DispatchName /\ r.payload = "p1" /\ r.queue = "q1"
                  /\ r.taken <= r.checked /\ r.checked < r.issued + CredentialLife + ClockSkew
             ELSE r.as = "none"
          /\ \A q \in runs : q.job = r.job /\ q.attempt = r.attempt => q = r
    /\ \A j \in Dispatches :
          LET m == message[j]
              last == {r \in runs : r.job = j /\ r.attempt = m.tries} IN
          /\ m.state = "done" => \E r \in last : r.ending = "ok"
          /\ m.state = "failed" =>
                \/ m.ended = "denied" /\ Needs(m.name) /\ last = {}
                \/ m.ended = "misconfigured" /\ ~Registered(m.name) /\ last = {}
                \/ m.ended = "invalid" /\ ~IdentityHolds(j) /\ last = {}
                \/ m.ended = "final" /\ \E r \in last : r.ending = "final"
                \/ m.ended \in {"threw", "unavailable"} /\ m.tries = JobTries
=============================================================================
