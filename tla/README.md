# Ambit in TLA+

Ambit is an identity and access manager for AI agents: agents ask for scoped,
short-lived tokens, a human operator approves or denies, a gateway checks every
use, holders may delegate narrower tokens, and everything is written to a
hash-chained log. It is one Node process (Express), its state is in memory in
Maps and, when `AMBIT_DATA_DIR` is set, in append-only JSONL files.

Beside the server there are an SDK for agents, which times out and retries, and a
browser console for operators, which polls.

The models are written from the code under `src/`. They say where that code keeps
its promises, and where it does not.

## 1. Inventory

In the server concurrency comes from one source: the event loop. A handler is atomic from one
real `await` (scrypt on the thread pool, a timer) to the next, so a step of a
model is one such segment. The hard places are the values a handler reads before
an `await` and uses after it, and the files, which a crash or a full disk may
leave with half a line. Around the server they are calls that are lost or late, in
the SDK and in the console.

| Component | State | Operations | Talks to | Correct when | Hard because |
|---|---|---|---|---|---|
| Token gateway (`token.ts`, `tokenStore.ts`, `delegation.ts`) | `#tokens` Map | issue, enforce, delegate, revoke with cascade, lineage | breaker, audit log, policies | delegation narrows, a revocation is final and seen by later calls, the log tells the same story | two awaits in a delegation, one in enforce and in issue |
| Consent (`tokenRequest.ts`, `requestStore.ts`) | `#requests` Map, transient secrets | submit, approve, deny, escalate, claim | gateway, audit log, anomaly detector | one decision and one token per request, one request per key, one claim | approve awaits and then saves an old copy; escalation races it |
| Circuit breaker (`circuitBreaker.ts`) | state, failures, openedAt, outage | execute, simulateOutage | wraps token and policy stores; its callback writes the audit log | fails closed, opens after a streak, spaces probes, recovers | callback that throws inside `execute` |
| JSONL files (`jsonlStore.ts`) | the files | append, rehydrate | every store | last line wins, one bad line costs one entry | torn lines, crash and restart |
| Audit log (`auditLog.ts`) | `#entries`, active file, segments, line counter | record, rotate, rehydrate, verify | everyone writes to it | order, bounded segments, chain means something | three things change in turn and each can be the last |
| Agent identities (`agentIdentity.ts`) | Map, file | register, authenticate | `/requests` routes | one identity per subject, only logged ones authenticate | hash between the check and the save |
| Operator login (`operatorDirectory.ts`, `totp.ts`, `sessionToken.ts`) | TOTP replay guard per secret | login, verify session | approve, deny, revoke | a code is used once and only by its owner, a session ends with its time or its secret | password await between what is read and the guard, cache per process |
| Rate limiter (`rateLimiter.ts`) | windows per key | check | every route | bounded per window | window edges, two limiters on one route |
| Policies (`policy.ts`) | Map, file | create, modify | approval | the policy of the approval governs the token | change during the hash |
| Anomaly detector (`anomalyDetector.ts`) | submission times | check | submit | alert exactly above the thresholds | sliding window |
| Mock access (`mockEndpointAccess.ts`, `mockEndpoints.ts`) | down flags | access with timeout and retries | enforce, audit log | every access ends, the answer, the log and the endpoint agree | a timed-out attempt is not cancelled, the log entry is inside the retried part |
| Redaction and customer data | rules | create rule, redact, read | enforce, audit log | no field that a rule names leaves unmasked | overlapping rules |
| SDK (`sdk/ambitClient.ts`) | none | submit, poll, claim, retry | HTTP | a retry changes nothing twice, a failure is told as one | lost and late attempts and answers |
| Console (`public/js`) | last answers, open forms, fields filled in | refresh, render, edit, submit, decide | HTTP | shows the newest state and spares what is being typed | overlapping refreshes, one flag for all forms, none for the fields of the Requests tab |

`PROJECT.json` lists the hazards, each at its line with the properties that watch it.

## 2. What is modelled

### TokenGateway
State: `store` (TokenStore), `call` (one record per HTTP call: where it is
suspended and what it carries across the await), `audit` (approvals, delegations,
uses, revocations, each with the segment or *turn* that wrote it), `turn`, `clock`.

| Action | Code |
|---|---|
| `IssueBegin`, `IssueEnd`, `IssueUnavailable` | `issueToken` before and after the hash, with the continuation in `approveRequest` |
| `EnforceBegin`, `EnforceEnd` | `enforceToken` before and after `verifyPassword`; `Decide` is `decide()` |
| `DelegateBegin`, `DelegateVerified`, `DelegateEnd` | `delegateToken`'s three segments |
| `Revoke` | `revokeToken` with `cascadeRevoke`, one segment |
| `Tick` | the clock |

`Cascade(t)` is the least set the recursion of `cascadeRevoke` reaches. It is written
as a least fixed point, not as a RECURSIVE operator, so that it can be used in proofs.
The breaker is present by its effect: the first store call of a segment may be
refused. A denial changes nothing; the log entry it leaves appears as the outcome
of the call. Subjects and secret values are left out: possession of
the secret is a Boolean the caller brings.
Store calls later in a segment are taken to succeed once the first one has: `IssueEnd`
saves the token, the request and the log entry at once. What an append that fails between
them leaves, a token without its approval entry among other things, is Recovery's matter.

### Consent
State: `reqs` (RequestStore), `minted` (tokens by the request they were issued for),
`decision` (approve and deny calls, with the copy approve holds across its await),
`audit`, `turn`, `clock`. A decision runs
`checkRequestTimeout` first, in the same segment, as both routes do. `ApproveBegin`
covers every way to be refused; a policy, the scope or the policy store may block it.
An attempt by somebody the request is not assigned to is logged (`Refuse`, "rejected"), and so
is an approval that is stopped, before the hash or by the breaker after it (`ApproveBegin`,
`ApproveFails`, "blocked"): the code writes `request_denied` of it, as of a denial, but with
another action, and the request stays pending.
`ApproveEnd` writes the copy read before the await. A token's life after it is
issued is TokenGateway's matter; what files and crashes do to requests is Recovery's.

### CircuitBreaker and FailClosed
`execute()` is synchronous: one call is one step, split by what happens in it
(`FailFast`, `Succeed`, `FailInOutage`, `FailInStore`). Time is the cooldown that is
left. The callback that writes the audit log may throw, which `execute` sees as a
failure of the call. FailClosed is what the callers rely on: an operation that is
answered with `CircuitOpenError` was not run, and refusing ends only by running one.
CircuitBreaker implements it (`Gate == INSTANCE FailClosed WITH ...`).

### JsonlFile and Recovery
JsonlFile is a file of physical lines, each holding one entry or nothing that parses,
and whether the last one lacks its newline. `AppendLine` is `appendJsonLine`: after a
torn line both pieces share one line. `PartlyAppended` is what a failed or killed
append may leave. `Rehydrate` reads the entries back in order, `EntriesOf` for a store that
keeps them by id and writes each once, `Replay` for one where the last line of an id wins.
AuditLog, AgentIdentity and Recovery use it.

Recovery composes the token store and the request store over such files. A step is one save
with the log entry that follows it; it `Completes`, or `Throws` in one of the appends, with
its Map ahead of its file, or the process `Dies` in one. An operation of several saves goes
on in the same turn of the event loop, so nothing else runs between two of them (`Idle`), but
a crash may come there. `approving` is an approval that has saved its token and not yet its
request (`ApproveEnd`, then `ApproveSave`). An approval that is stopped writes its entry and
nothing else (`ApproveBlocked`, `ApproveRefused`, both `LogsOnly`). `path` is the stack of the calls of
`cascadeRevoke`, depth first as in the code: `Revoke` saves and logs the token,
`CascadeRevoke` the first active child of the innermost call that has one, and
`RevokeReturns` ends them all. Approvals and delegations wait for
their hash between two steps, and may overlap. `Restart` rebuilds both Maps. `lost` is history: the ids a save of which may
be on no line, so that a property can say what else may not be lost. The log here only
keeps what was recorded; what its own files lose is the matter of AuditLog.

### AuditLog
`entries`, the archived segments, the active file, the line counter. `Record` pushes to
memory, rotates, appends and counts; `RecordFails` stops in the rename or the append
with the entry already in memory; `CrashInRecord` stops at any of the points between.
Hashes are collision free, so a link is the number of the entry it was
computed from, and nobody but the program touches the files.
The test in `#rotateIfNeeded` for a missing active file is left out: a counter that has
reached the limit belongs to a file that exists, and a crash just after the rename
starts the next process with the counter at 0.

### AgentIdentity
Registration and authentication with one await each, over a Map and a JsonlFile.
`RegisterFails` is a save, or the log entry after it, that throws.

### Login
`POST /auth/login` behind both rate limiters, `findAuthenticatedOperator` with its password
await, a `TotpVerifier` per operator, session tokens and `requireSession`.

| Action | Code |
|---|---|
| `Limited` | `RateLimiter.check`, general then login, answers 429 |
| `LoginBegin` | the route up to `await verifyPassword` |
| `LoginRefused`, `LoginAllowed`, `LoginUnlogged` | the rest: no match; match, log, session; match and a log that throws |
| `UseSession` | `requireSession` with `verifySessionToken` |
| `RotateSecret`, `Restart` | `SESSION_SIGNING_SECRET` changes; windows and TOTP guards are forgotten, calls in flight die |

A code is the time-step it belongs to: two steps are taken never to share one. A
call carries the version of the secret it read on arrival. A login that is refused or dies
with its process leaves its name, password and code behind nowhere (`Ended`).

### Access
`POST /tokens/:id/access` and `/customer-data`, both behind `enforceToken`. An attempt at an
endpoint is in `running` until the endpoint answers, whether or not anybody still waits
(`TimeOut`, `AnswerDropped`); the entry for a success is written inside the `try`, so a log
that throws makes a retry (`Answer` with `logs` FALSE). `Masked` is `applyRedaction`. A token is
its status and scope here.

### SdkClient
`requestToken` and `claimTokenSecret` over a network that delays and loses either direction.
`wire` holds the attempts the server has not handled, abandoned ones included;
`answers` what the client has not read. The timer runs until the body is read, so an
abort may fall between headers and body (`Aborted`), and a body that breaks makes of a
success one without payload. The server's part are the two routes as `tokenRequest.ts`
handles them; a 5xx may come with the effect (`Submits`, `Claims`) or without
(`TurnedAway`). `getRequest` changes nothing and is left out.

### Console
`tick()` of `app.js`, `refreshAll` of `state.js`, `render`, the forms of policies, redaction rules
and tokens, and the fields of the Requests tab. Ticks overlap, up
to the number of slots; each `Get` of a tick reads what the server has then; `Settle`
stores the answers and renders unless a form is open or a field has the focus. A collection is
the number of its changes. Forms raise a flag (`Open`), fields of the Requests tab do
not (`Fill`, and `registerTestAgent`, which fills one and focuses it for that reason): the focus
is all that guards them. `exposed` is history: the forms that were open when another was closed or
saved, which drops the one flag that guards them all, and the fields that were filled in when the
focus went. The admin key of the System tab and the filter of the Audit tab are
guarded like those fields, and not modelled besides.

## 3. What the runs show

| Run | Bounds | Shows |
|---|---|---|
| `gateway_safety` | 3 ids, 3 calls, the empty scope and a chain of 3, ttls 0 to 2, 1 tick, no revocation after turn 4 | `NarrowsParent`, `RecordMatchesTrail`, `CascadeLoggedOnce`, `LateCallsAreDenied`, `OrphansPostdateRevocation`, `LineageHasOneOrigin`, `StoredTokenOnlyRevoked` |
| `consent_safety` | 2 requests, 2 tokens, 3 decisions, 2 operators, 1 key, a window of 1 tick | `OneRequestPerKey`, `DecisionsOfOneRequestOverlap`, `EscalationTakesAuthority`, `RequestMatchesTrail`, `EscalationSticks` |
| `consent_double_issue` | 1 request, 2 tokens, 2 decisions | the violation of `OneTokenPerRequest` |
| `breaker` | threshold 3, cooldown 3 | `OpensAfterStreak`, `ProbesAreSpaced`, `FailsClosed`, `Recovers` |
| `audit_log` | segments of 2 lines, 6 records | `Chronological`, `SegmentsBounded`, `BreaksOnlyAtUnfinishedWrite`, `LossFollowsTear` |
| `agent_identity` | 3 ids, 2 subjects, 4 calls, 4 saves and restarts | `DuplicatesOverlap`, `AuthenticatedWasLogged` |
| `login` | 4 calls, 2 operators, 1 address, steps of 2 ticks with a drift of 1, 2 ticks, 1 restart or rotation, limits 2 per 2 ticks and 2 per 3 ticks | `LessThanTwiceTheLimit`, `CodesAcceptedInOrder`, `OnlyTheOperatorSpendsCodes`, `SessionsAreBacked` |
| `access` | 1 token, 1 system, 2 calls, 2 attempts, 3 revocations and outages | `RepeatedOnlyWhenLate`, `TrailMatchesAnswer`, `EveryCallEnds` |
| `recovery` | 1 request, 3 tokens, 2 revocations, 2 failed appends or crashes | `RevocationStays`, `StoresAgree`, `SecretEndsWithProcess`, `OneClaimPerRequest` |
| `recovery_revocation_undone` | the same with 1 fault | the violation of `RevokedWithDescendants` |
| `sdk_client` | 2 submissions, 1 claim, 1 key, 2 attempts | `OneRequestPerCall`, `ClaimsAreTold`, `EveryCallEnds` |
| `console` | 1 collection that changes twice, 2 ticks at once, 3 places, 3 forms and a field, 1 failed refresh | `PollSparesForms`, `DataCatchesUp`, `PageCatchesUp` |

Type invariants: the run `breaker` checks its one, and those of all components are proved.
They hold under the same cfg files as well when they are added to their INVARIANTS.

Why the bounds are enough. Three ids are a root, a child and a grandchild, so a
cascade can pass through a revoked generation; three calls are two that race and one
that looks at the result; a chain of scopes allows each strict narrowing. One tick
is enough for a token to expire between two segments of a call, with a ttl of 1.
Three decisions are two that overlap and one after them. Six records
over segments of two hold a torn line, the line it swallows, a second tear after a
restart, and two rotations. In Recovery two faults are a torn line and a crash later; what
the next append swallows is no fault of its own. Three tokens and two revocations let a child
be revoked first and its parent
later, with a delegation in flight. Two logins may wait with one code while a third call uses
a session. Four requests are the burst across the edge of a window with a limit of
two: one opens the window, one comes late in it and two just after it, three within the length
of one window (with windows that open at fixed times, as in the mutant, there may be four).
Two operators show that a login moves no guard but its own; they share nothing but the
limiters, which count addresses. The theorems are about any number. Two attempts
are one that is given up and one beside it. Two slots are two refreshes
that overtake each other; more would only repeat that. A collection that changes twice has an
old, a middle and a new answer to overtake; several collections would add only answers that
are partly old, which the next refresh replaces as it does old ones. A form of a console is
not submitted again before its answer.

Runs that use `CHECK_DEADLOCK FALSE` are those where the system really stops: calls
and decisions happen once and the clock, the turns and the saves are bounded, so every
behaviour comes to an end. The breaker, AuditLog and Console never stop and are checked for
deadlock.

Symmetry is used where ids, calls and requests are interchangeable and the run has
no liveness property.

### Fairness
Only the liveness properties need it.
* CircuitBreaker: weak fairness of `Tick` (time passes) and of `Execute` (calls keep
  coming); the end of the outage is a hypothesis of `Recovers`, not fairness.
* Access: `Decided` (scrypt ends, the handler goes on) and `TimerFires` (`setTimeout`). An
  endpoint owes nothing, so every call must end by its timeouts and its cap.
* SdkClient: `TimerFires`, the client's own timers. The server and the network owe nothing.
* Console: `Poll` (`setInterval`), `Get` (a GET is answered in the end), `Settle` (promises
  resolve). The operator owes nothing; failed refreshes and changes are finitely many.

## 4. Where the code and its comments part

Runs that end in a counterexample, with the quote in `PROJECT.json`:

* `OneTokenPerRequest`. Two approvals overlap in the hash and both issue. The
  same race lets an approval overwrite a denial. What does hold:
  `DecisionsOfOneRequestOverlap`.
* `RevokedWithDescendants`. `cascadeRevoke` looks only at active children, so it stops at a
  child that is revoked already, and below that an active token may be left: a
  delegation in flight while its parent was revoked saved it after that cascade, or a
  cascade was cut short by an append that threw and is called again. Revoking the root
  afterwards returns and leaves it active. What does hold: `RevocationStays` (the token, and
  its children, stay revoked through every restart) and `OrphansPostdateRevocation`.

Found on the way and described by what holds instead, not kept as runs:
* `enforceToken` decides on the token it read before `await verifyPassword`: an allowed use may
  follow a revocation in the log (`token.ts` 205, against 255-256). A call that *starts* after
  the revocation is denied (`LateCallsAreDenied`, proved).
* A retried `POST /requests` under a known key is answered with the stored request, its
  unclaimed secret included (`server.ts` 450, against `tokenRequest.ts` 203-205).
* A crash tears the last line of the log, the next entry shares it and is gone after one more
  restart, and `verify()` is true (`LossFollowsTear` says what a loss needs).
* The SDK makes an answer whose body breaks off a success without payload
  (`ambitClient.ts` 150, against 27-30), and takes a 429 on a retry for final although the
  first attempt may have made the request.
* The tick after a delegation is forced and re-renders the page on which the child's secret
  has just been put (`delegate.js` 82-83).
* The lineage of a token is written into the page of whichever token is open when it comes
  (`detail.js` 139, against 125-128).
* An approval whose token is in the store and whose append then fails ends in an error: the
  request stays pending, no approval is logged, and the lineage of the active token has no
  origin, which `token.ts` 338-340 says should not happen. Recovery reaches it (`ApproveEnd` that
  `Throws`); `LineageHasOneOrigin` is what holds as long as no append fails.
* A poll wipes what was filled in on the Requests tab once the focus has gone
  (`requests.js` 26-43, against `state.js` 90-93, which names "submit request" among the forms whose
  input must never be wiped); `PollSparesForms` is what holds.
* An access that is retried after a pause does not look at its token again
  (`mockEndpointAccess.ts` 78).
* A restart forgets which TOTP codes were used; within one process they are accepted in order.

Smaller ones: a gap left by a *failed* append makes
`verify()` false after a restart although nobody touched the files
(`BreaksOnlyAtUnfinishedWrite` says what such a break can mean); an archived segment can be
shorter than `maxLinesPerSegment` after a torn line was counted at a restart
(`SegmentsBounded` is what holds); a child capped to its parent's expiry can be saved after that
expiry; two overlapping registrations of one subject both succeed
(`DuplicatesOverlap`); with only `BACKUP_APPROVER_USERNAME` set a request escalates to
somebody who cannot log in.

## 5. What is proved

With TLAPS, for every value of the constants that satisfies the named assumptions. Sets of
ids, calls, operators or keys may be infinite, and every bound of a run is a number of any
size. Every safety invariant and every safety action property that a run checks and does not
refute is a theorem, and so is the refinement of FailClosed.

Few of the invariants are inductive as they stand, because the code acts on copies, or
because memory and files change at different times. Each proof module states the
strengthening as `IInv`, a conjunction of named parts, and each part is carried through every
action of `Next`, in the same order throughout: `InitInv`, one lemma per action or
per kind of step, then `Invariance`, from which the theorems are read off. TLC finds every
`IInv`, and the gateway's `HInv`, invariant under the cfg files of the runs too, when its
definitions are added to the run's module.

Two proof modules are about two components each: the gateway and the breaker in front of its
store, and the two clients of the server. They extend both modules, so that the
definitions every specification has (`Init`, `Next`, `Spec`, `TypeOK`, ...) bear the
component's name in CircuitBreaker (`BreakerInit`, ...) and in Console (`ConsoleInit`, ...).

| Module | Assumptions | Theorems on properties of the runs |
|---|---|---|
| TokenGatewayProofs | `ScopeAssumption`, `TtlAssumption`, `NoneAssumption` | `NarrowsParent`, `LateCallsAreDenied`, `StoredTokenOnlyRevoked`, `RecordMatchesTrail`, `CascadeLoggedOnce`, `OrphansPostdateRevocation`, `LineageHasOneOrigin` |
| ConsentProofs | `NoneAssumption` | `OneRequestPerKey`, `DecisionsOfOneRequestOverlap`, `EscalationTakesAuthority`, `RequestMatchesTrail`, `EscalationSticks` |
| TokenGatewayProofs, the breaker | `ConfigAssumption` | `BreakerTypeOK`, `OpensAfterStreak`, `ProbesAreSpaced`, `FailsClosed` |
| RecoveryProofs | `RecoveryAssumption`, `NoneAssumption` | `RevocationStays`, `StoresAgree`, `SecretEndsWithProcess`, `OneClaimPerRequest` |
| AuditLogProofs | `BoundsAssumption` | `Chronological`, `SegmentsBounded`, `BreaksOnlyAtUnfinishedWrite`, `LossFollowsTear` |
| AgentIdentityProofs | `NoneAssumption`, `MaxTurnAssumption` | `DuplicatesOverlap`, `AuthenticatedWasLogged` |
| LoginProofs | `NoneAssumption`, `TimeAssumption` | `LessThanTwiceTheLimit`, `CodesAcceptedInOrder`, `OnlyTheOperatorSpendsCodes`, `SessionsAreBacked` |
| AccessProofs | `AccessAssumption` | `RepeatedOnlyWhenLate`, `TrailMatchesAnswer` |
| SdkClientProofs | `SdkAssumption` | `OneRequestPerCall`, `ClaimsAreTold` |
| SdkClientProofs, the console | `ConsoleAssumption` | `PollSparesForms` |

Each of them proves the type invariants as well. The assumptions say that `None` is no id, that durations and
bounds are natural numbers, that a scope is a set of permissions, and that a threshold, a
window, a segment or a number of attempts is at least 1.

**TokenGatewayProofs**, in two parts. What holds of calls rests on `IInv`:
* `Copies`: the copy read before verifying agrees with the store on scope and expiry, and
  if it shows `active` no revocation was logged before the call began;
* `Drafts`: a child that waits for its hash still fits under the stored parent;
* `Trail`: entries of the log are of earlier turns and a logged revocation is in the store;
* `Allowed`: an allowed use is of a real token.

`Copies` survives because a stored token only ever changes its status (`StoreStep`), `Drafts`
follows from `Copies` when a delegation passes its checks (`IntoHash`), and the two
properties follow from them when the child is saved (`NarrowsStep`) and when a use is
allowed (`LateCallsStep`).

What holds of log, cascade and lineage rests on `HInv`. To it, a step of the program
is one of three: a token is saved and logged (`Granted`), a cascade revokes a set of tokens
and logs each, or nothing changes. `LatestEntry` names the newest revocation
of a token and its reason, `Logged` keeps the log to saved tokens, `OneRoot` says that all
walks to the parents of a token end in the same root, and `Approved` that a root has one approval. A
cascade is the least set closed under active children and a lineage the least set
closed under parents. Only closure and leastness are used, so no induction over
trees is needed and trees of any depth are meant.

**ConsentProofs.** `approveRequest` saves, after its await, the request it read before.
`Waiting` says what that copy may still be trusted with: its subject and key are those
of the stored request, every decision of that request that has ended did so after this one began,
and so did an escalation if somebody else than the backup is deciding. `Handover` keeps
an escalated, undecided request with the backup; `Decided` and `Trail` tie decisions,
tokens and claims to the log; `Absence` keeps both away from slots that are free. The entries
of attempts that were stopped or rejected are in the log beside the others; a step that writes
none but those (`Attempts`) changes nothing that `Trail` and `Decided` rest on.

**TokenGatewayProofs, the breaker.** `Counts` (the breaker never counts more failures than its
callers saw) and `Cools` (what is left of the cooldown and the time since opening make up a
full cooldown). The refinement is shown for the initial state and step by step.

**RecoveryProofs.** After a crash there is nothing but the files, so the invariant states the
properties of what they would give a new process (`OnDisk`), not of the Maps:
* `FilesAgree`: a submission, a decision, a delegation or a revocation that the log has is
  in its file, a stopped approval has a request there, whatever became of it, and a
  request approved there names a token that is there; `Stays`: a revoked one is revoked there;
  `Handed`: a claimed token is the one its request names there;
* `Mirror` carries this to the Maps: a Map and its file differ by secrets, and
  by the ids in `lost`;
* `Lines` and `Maps`: no line and no Map holds what no save can have written (`Credible`);
* `Secrets`: a secret in a Map has not been claimed and is of this process;
* `Waiting`: a request whose approval waits for a hash is not approved meanwhile, unless two
  approvals overlapped or a save was lost; `Approving`: between the two saves of an
  approval its token is saved, new and unclaimed; `Cascading`: a token that a running
  cascade was called for is active no more.

The lemmas come in three layers. On files: what an append does to what `Replay` finds,
when it is whole, stops half-way, or meets a torn line (`LineAdded`, `LineSpoilt`, `FileStep`).
`Replay` takes the greatest index of a finite set (`Greatest`), so no recursion is involved. On a
save: however it ends, the id it is about has on disk what was saved or what was there
before, or it is in `lost` (`Saves`, with the process `Goes` on or `Falls`); `TokenSaved` and
`RequestSaved` turn that into what holds of the stores. On operations: each action
is a save of one kind, a step of memory alone, a crash or a restart. A revocation is
proved step by step along `path`, so trees of any depth are meant.

**AuditLogProofs.** What the files give back is a log too, but its last line may be torn and
its entry is then gone when the next line is glued to it; `Kept` is the log without
it. `Sound` says what holds of that log whatever the disk and the kills did to it: it is in
order, `Kept` is all of it but what the torn line holds (`Unfinished`), an entry is missing only
together with the one before it, whose write did not finish (`Lost`), and an entry whose
predecessor is there is linked to it (`Linked`). `Agrees` says the same kind of things of the
log in memory, whose newest entry is the last of the file if the file has it. A restart
turns the first into the second (`AgreesReread`). `Counted` bounds what the line counter may
miss by the torn line, which is why no file outgrows its limit.
`FlattenSeq`, which rehydration is made of, is a recursive function. That it appends what is
appended to its argument is shown without induction: there would be a least index at which
the defining equations fail (`Least`, from the library's theorem about well-founded relations).

**AgentIdentityProofs.** `Hashing`: while a registration waits for its hash, an
identity of the same agent can only have been saved since it began. `Backed`: the file gives back
nothing but what the store held, so a restart can lose identities and never change one.
`HeldWasLogged`: a secret is handed out after its log entry.

**LoginProofs.** Of the verifiers, `Accepted` says that each has come as far as
the newest code accepted in this process; `Backed` that a session was given to a login
that is logged and whose secret was the same on arrival and on signing. `Paced` counts,
for each limiter and client, what was let through against the present window: since the window opened, after
the instant it opened, and in any shorter stretch before it. The last lacks the request
that opened the window before, which is what makes the bound *less than* twice the limit; the
proof counts finite sets, of any size.

**AccessProofs.** `Attempts`: as long as no attempt of a call was late and the log
refused none of its results, the endpoint has at most the awaited attempt in hand
and has carried out nothing but the success the call was answered with. `Trail`: the decision
that let a call through is in the log, and so is what it was answered.

**SdkClientProofs.** `Traces`: an attempt is on the wire, or handled with an answer
on the way, never both, and none is ahead of its call. `Calls`: a call without a key has one
attempt. `Told`: once a claim has taken a secret, no attempt of it is on the wire and
no refusal is on its way to its caller.

**SdkClientProofs, the console.** `Guarded`: a form that is not `exposed` has the flag up, and a
field that is not has the flag or the focus, so a tick that renders unforced finds
neither. `Fetches`: what a tick holds came from the
server. That one step ends at most one tick is what relates the property, which speaks
of any tick, to the step of one.

Model-checked only:
* the liveness properties `Recovers`, `EveryCallEnds` (Access and SdkClient), `DataCatchesUp`
  and `PageCatchesUp`: fairness and ENABLED are out of the prover's reach.

## 6. Not modelled, and the plan

Not modelled, and why:
* **Policies**: create and update are synchronous, and a policy is a record of limits. An approval
  checks it before the hash and saves the token after it, so a policy that is changed in between
  does not govern that token; the versions of a policy are not modelled, only that one may stop an
  approval (`ApproveBegin` of Consent, `ApproveBlocked` of Recovery).
* **Anomaly detector**: it counts submissions and writes a log entry that nothing reads back.
* **Authoring of redaction rules**: a validation and a save; the route uses the default rule.
* **Console**: the claim panel (`tabs/requests.js`), the lineage panel and the session in the
  browser. They are single panels that write what an answer brought.
* **Logger, constant-time comparison**: output, and equality.
* HTTP parsing and status codes, HTML, log wording, the scrypt, HMAC and SHA-256 computations,
  which are taken to be what they claim.

Left in the plan: the claim panel of the console, with a claim whose answer races a new
submission.
