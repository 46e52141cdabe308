---------------------------- MODULE TokenGateway ----------------------------
(***************************************************************************)
(* The token store and the four operations on it: issueToken (token.ts),   *)
(* delegateToken (delegation.ts), enforceToken and revokeToken (token.ts). *)
(*                                                                         *)
(* The server is one Node process.  A handler runs without interruption    *)
(* from one `await` to the next, so every action below is one such         *)
(* segment; between two segments of a call (scrypt runs on a thread pool)  *)
(* any other call, and the clock, may move.  What a call carries over an   *)
(* `await' is in its record: the Token object it read (seen), the time it  *)
(* started (now) and, while hashing the secret, the dates already computed *)
(* (issuedAt, expiresAt).                                                  *)
(*                                                                         *)
(* The circuit breaker in front of the store appears here by its effect:   *)
(* the first store call of a segment may throw CircuitOpenError.           *)
(***************************************************************************)
EXTENDS Naturals, FiniteSets

CONSTANTS
    Id,             \* token ids, the UUIDs issueToken may draw
    Call,           \* HTTP requests to enforce, delegate or issue
    Perm,           \* permissions, the elements of a scope
    Scope,          \* the scopes callers ask for
    Ttl,            \* the ttlSeconds callers ask for, 0 included
    None,           \* "no token id": the parent of a root token
    MaxTime,        \* bound on the clock
    MaxTurn         \* revocations stop once the log has had this many turns

ASSUME ScopeAssumption == Scope \subseteq SUBSET Perm
ASSUME TtlAssumption   == Ttl \subseteq Nat
ASSUME NoneAssumption  == None \notin Id
ASSUME BoundAssumption == MaxTime \in Nat /\ MaxTurn \in Nat

VARIABLES
    store,          \* TokenStore: the current record of every id
    call,           \* the calls in flight and the ones that have ended
    audit,          \* AuditLog: its approvals, delegations, uses, revocations
    turn,           \* number of segments that have written to audit
    clock           \* the process's Date

vars == <<store, call, audit, turn, clock>>

-----------------------------------------------------------------------------
(* Tokens, calls and audit entries.                                        *)
(*                                                                         *)
(* A definition named Buggy... is a plausible mistake in the definition    *)
(* that follows it; no specification uses it.  PROJECT.json says which     *)
(* property each of them breaks.                                           *)

TokenRec ==
    [status    : {"absent", "active", "revoked"},
     scope     : SUBSET Perm,
     issuedAt  : Nat,
     expiresAt : Nat,
     parent    : Id \cup {None},
     reason    : {"none", "operator", "parent_revoked"}]

Absent ==
    [status |-> "absent", scope |-> {}, issuedAt |-> 0, expiresAt |-> 0,
     parent |-> None, reason |-> "none"]

Present(t) == store[t].status # "absent"

Denial == {"store_unavailable", "unknown_token", "invalid_credential",
           "revoked", "expired", "out_of_scope", "parent_invalid",
           "empty_scope", "exceeds_parent_scope", "not_narrower"}

Outcome == {"none", "allowed", "issued", "rejected"} \cup Denial

CallRec ==
    [pc        : {"idle", "verify", "hash", "done"},
     op        : {"none", "issue", "enforce", "delegate"},
     token     : Id \cup {None},     \* the token presented
     want      : SUBSET Perm,        \* the scope, or {action} to enforce
     ttl       : Nat,
     now       : Nat,                \* `now', taken when the call started
     begun     : Nat,                \* history: the turn the call started in
     seen      : TokenRec,           \* the Token object read before verifying
     issuedAt  : Nat,
     expiresAt : Nat,
     outcome   : Outcome]

Idle ==
    [pc |-> "idle", op |-> "none", token |-> None, want |-> {}, ttl |-> 0,
     now |-> 0, begun |-> 0, seen |-> Absent, issuedAt |-> 0,
     expiresAt |-> 0, outcome |-> "none"]

EntryRec ==
    [turn     : Nat,
     token    : Id,
     action   : {"approve_request", "enforce", "delegate", "revoke"},
     decision : {"request_approved", "allowed", "revoked"},
     reason   : {"none", "operator", "parent_revoked"}]

Entry(t, action, decision, reason) ==
    [turn |-> turn, token |-> t, action |-> action,
     decision |-> decision, reason |-> reason]

\* auditLog.record() in the running segment; its entries share the turn.
Record(entries) == audit' = audit \cup entries /\ turn' = turn + 1

NoRecord == UNCHANGED <<audit, turn>>

-----------------------------------------------------------------------------
(* Calls.                                                                  *)

Start(op, t, want, ttl) ==
    [Idle EXCEPT !.op = op, !.token = t, !.want = want, !.ttl = ttl,
                 !.now = clock, !.begun = turn]

Suspend(c, at, rec) == call' = [call EXCEPT ![c] = [rec EXCEPT !.pc = at]]

\* The end of a call.  Its request is forgotten, unless it was allowed a use
\* of its token: that is what the properties look back at.
Finish(c, rec, outcome) ==
    call' = [call EXCEPT ![c] =
                IF outcome = "allowed"
                THEN [rec EXCEPT !.pc = "done", !.outcome = outcome, !.seen = Absent]
                ELSE [Idle EXCEPT !.pc = "done", !.op = rec.op, !.outcome = outcome]]

\* A denial changes nothing; the one log entry it leaves is the outcome.
Deny(c, rec, reason) ==
    Finish(c, rec, reason) /\ NoRecord /\ UNCHANGED <<store, clock>>

-----------------------------------------------------------------------------
(* issueToken: guards and dates before the await, the save after it.       *)

\* The expiry of a child is cut to its parent's, read from the store here.
BuggyExpiry(t, ttl) == clock + ttl

Expiry(t, ttl) ==
    IF t # None /\ clock + ttl > store[t].expiresAt
    THEN store[t].expiresAt
    ELSE clock + ttl

Drafted(rec) ==
    [rec EXCEPT !.issuedAt = clock, !.expiresAt = Expiry(rec.token, rec.ttl),
                !.seen = Absent]

BuggyNewToken(rec) ==
    [status |-> "active", scope |-> rec.want, issuedAt |-> rec.issuedAt,
     expiresAt |-> rec.expiresAt, parent |-> None, reason |-> "none"]

NewToken(rec) ==
    [status |-> "active", scope |-> rec.want, issuedAt |-> rec.issuedAt,
     expiresAt |-> rec.expiresAt, parent |-> rec.token, reason |-> "none"]

\* A random UUID is one the store does not hold.
BuggyFresh(t) == TRUE

Fresh(t) == ~Present(t)

Save(c, t) ==
    /\ Fresh(t)
    /\ store' = [store EXCEPT ![t] = NewToken(call[c])]
    /\ UNCHANGED clock

\* A root token: approveRequest calls issueToken with no parent.
IssueBegin(c, scope, ttl) ==
    LET rec == Start("issue", None, scope, ttl) IN
    /\ call[c].pc = "idle"
    /\ \/ (scope = {} \/ ttl = 0) /\ Finish(c, rec, "rejected")
       \/ (scope # {} /\ ttl > 0) /\ Suspend(c, "hash", Drafted(rec))
    /\ NoRecord /\ UNCHANGED <<store, clock>>

IssueEnd(c) ==
    /\ call[c].pc = "hash" /\ call[c].op = "issue"
    /\ \E t \in Id :
          /\ Save(c, t)
          /\ Record({Entry(t, "approve_request", "request_approved", "none")})
          /\ Finish(c, call[c], "issued")

\* store.save throws: nothing is stored, and the approval is logged as denied.
IssueUnavailable(c) ==
    /\ call[c].pc = "hash" /\ call[c].op = "issue"
    /\ Deny(c, call[c], "store_unavailable")

-----------------------------------------------------------------------------
(* enforceToken.                                                           *)

EnforceBegin(c, t, action) ==
    LET rec == Start("enforce", t, {action}, 0) IN
    /\ call[c].pc = "idle"
    /\ \/ Deny(c, rec, "store_unavailable")
       \/ ~Present(t) /\ Deny(c, rec, "unknown_token")
       \/ /\ Present(t)
          /\ Suspend(c, "verify", [rec EXCEPT !.seen = store[t]])
          /\ NoRecord /\ UNCHANGED <<store, clock>>

\* decide() on a token that is known: the first of its tests that fails.
BuggyDecide(token, want, now) ==
    CASE now >= token.expiresAt       -> "expired"
      [] ~(want \subseteq token.scope) -> "out_of_scope"
      [] OTHER                         -> "allowed"

Decide(token, want, now) ==
    CASE token.status # "active"      -> "revoked"
      [] now >= token.expiresAt       -> "expired"
      [] ~(want \subseteq token.scope) -> "out_of_scope"
      [] OTHER                         -> "allowed"

EnforceEnd(c, possessed) ==
    LET rec == call[c]
        decision == Decide(rec.seen, rec.want, rec.now) IN
    /\ rec.pc = "verify" /\ rec.op = "enforce"
    /\ \/ ~possessed /\ Deny(c, rec, "invalid_credential")
       \/ possessed /\ decision # "allowed" /\ Deny(c, rec, decision)
       \/ /\ possessed /\ decision = "allowed"
          /\ Finish(c, rec, "allowed")
          /\ Record({Entry(rec.token, "enforce", "allowed", "none")})
          /\ UNCHANGED <<store, clock>>

-----------------------------------------------------------------------------
(* delegateToken: one await to verify the parent's secret, a second one in *)
(* issueToken to hash the child's.                                         *)

DelegateBegin(c, p, scope, ttl) ==
    LET rec == Start("delegate", p, scope, ttl) IN
    /\ call[c].pc = "idle"
    /\ \/ Deny(c, rec, "store_unavailable")
       \/ ~Present(p) /\ Deny(c, rec, "parent_invalid")
       \/ /\ Present(p)
          /\ Suspend(c, "verify", [rec EXCEPT !.seen = store[p]])
          /\ NoRecord /\ UNCHANGED <<store, clock>>

\* The checks on the Token object read before the await, in their order.
DelegationDefect(parent, want, now) ==
    CASE parent.status # "active" \/ now >= parent.expiresAt -> "parent_invalid"
      [] want = {}                                           -> "empty_scope"
      [] ~(want \subseteq parent.scope)              -> "exceeds_parent_scope"
      [] want = parent.scope                                 -> "not_narrower"
      [] OTHER                                               -> "none"

DelegateVerified(c, possessed) ==
    LET rec == call[c]
        defect == DelegationDefect(rec.seen, rec.want, rec.now) IN
    /\ rec.pc = "verify" /\ rec.op = "delegate"
    /\ \/ ~possessed /\ Deny(c, rec, "invalid_credential")
       \/ possessed /\ defect # "none" /\ Deny(c, rec, defect)
       \/ /\ possessed /\ defect = "none" /\ rec.ttl = 0
          /\ Finish(c, rec, "rejected")      \* InvalidScopeError, not caught
          /\ NoRecord /\ UNCHANGED <<store, clock>>
       \/ /\ possessed /\ defect = "none" /\ rec.ttl > 0
          /\ \/ Deny(c, rec, "store_unavailable")
             \/ /\ Suspend(c, "hash", Drafted(rec))
                /\ NoRecord /\ UNCHANGED <<store, clock>>

DelegateEnd(c) ==
    /\ call[c].pc = "hash" /\ call[c].op = "delegate"
    /\ \/ Deny(c, call[c], "store_unavailable")
       \/ \E t \in Id :
             /\ Save(c, t)
             /\ Record({Entry(t, "delegate", "allowed", "none")})
             /\ Finish(c, call[c], "issued")

-----------------------------------------------------------------------------
(* revokeToken and cascadeRevoke, one segment: no await in either.         *)

Children(t) == {d \in Id : Present(d) /\ store[d].parent = t}

\* cascadeRevoke descends from t through children that are still active; a
\* child that is already revoked is skipped together with all below it.
BuggyCascadeShallow(t) == {d \in Children(t) : store[d].status = "active"}

BuggyCascadeRepeats(t) == Children(t)

Cascade(t) ==
    {d \in Id : \A S \in SUBSET Id :
        (\A p \in S \cup {t} : \A e \in Children(p) :
            store[e].status = "active" => e \in S) => d \in S}

RevokedRec(rec, reason) == [rec EXCEPT !.status = "revoked", !.reason = reason]

StoreAfterRevoke(t) ==
    [d \in Id |-> CASE d = t            -> RevokedRec(store[d], "operator")
                    [] d # t /\ d \in Cascade(t)
                                        -> RevokedRec(store[d], "parent_revoked")
                    [] OTHER            -> store[d]]

\* No status test: a revoked token can be revoked again, and is logged again.
BuggyRevoke(t) ==
    /\ Present(t) /\ turn < MaxTurn
    /\ store' = StoreAfterRevoke(t)
    /\ Record({Entry(t, "revoke", "revoked", "operator")})
    /\ UNCHANGED <<call, clock>>

Revoke(t) ==
    /\ Present(t) /\ turn < MaxTurn
    /\ store' = StoreAfterRevoke(t)
    /\ Record({Entry(t, "revoke", "revoked", "operator")} \cup
              {Entry(d, "revoke", "revoked", "parent_revoked") :
                  d \in Cascade(t) \ {t}})
    /\ UNCHANGED <<call, clock>>

Tick == clock < MaxTime /\ clock' = clock + 1 /\ UNCHANGED <<store, call, audit, turn>>

-----------------------------------------------------------------------------
Init ==
    /\ store = [t \in Id |-> Absent]
    /\ call = [c \in Call |-> Idle]
    /\ audit = {}
    /\ turn = 0
    /\ clock = 0

Arrive(c) ==
    \/ \E s \in Scope, l \in Ttl : IssueBegin(c, s, l)
    \/ \E t \in Id, a \in Perm : EnforceBegin(c, t, a)
    \/ \E t \in Id, s \in Scope, l \in Ttl : DelegateBegin(c, t, s, l)

Resume(c) ==
    \/ IssueEnd(c)
    \/ IssueUnavailable(c)
    \/ \E ok \in BOOLEAN : EnforceEnd(c, ok)
    \/ \E ok \in BOOLEAN : DelegateVerified(c, ok)
    \/ DelegateEnd(c)

Next ==
    \/ \E c \in Call : Arrive(c) \/ Resume(c)
    \/ \E t \in Id : Revoke(t)
    \/ Tick

Spec == Init /\ [][Next]_vars

-----------------------------------------------------------------------------
(* Properties.                                                             *)

\* Every variable stays in its type.
TypeOK ==
    /\ store \in [Id -> TokenRec]
    /\ call \in [Call -> CallRec]
    /\ audit \subseteq EntryRec
    /\ turn \in Nat
    /\ clock \in Nat

\* A delegated token never outgrows the token it came from: its scope is a
\* strict subset of its parent's and it expires no later, although the checks
\* ran on a copy of the parent read two awaits before the child was saved
\* (delegation.ts 64-83, token.ts 116-121).
NarrowsParent ==
    \A t \in Id : Present(t) /\ store[t].parent # None =>
        LET p == store[t].parent IN
        /\ Present(p)
        /\ store[t].scope \subseteq store[p].scope
        /\ store[t].scope # store[p].scope
        /\ store[t].expiresAt <= store[p].expiresAt

\* The trail of revocations in the log.
Revocations(t) == {e \in audit : e.decision = "revoked" /\ e.token = t}

LatestReason(t) ==
    (CHOOSE e \in Revocations(t) :
        \A f \in Revocations(t) : f.turn <= e.turn).reason

\* The store and the log agree about every revocation: a token is revoked
\* exactly when the log says so, and the reason it carries is the reason of
\* the latest entry (token.ts 40-44, 279-289, 303-312).
RecordMatchesTrail ==
    \A t \in Id :
        /\ (store[t].status = "revoked") <=> (Revocations(t) # {})
        /\ Revocations(t) # {} => store[t].reason = LatestReason(t)

\* A cascade logs a token at most once in the token's life, and only a token
\* nobody had revoked before (token.ts 302, "don't double-log").
CascadeLoggedOnce ==
    \A t \in Id : \A e \in Revocations(t) :
        e.reason = "parent_revoked" =>
            \A f \in Revocations(t) : f # e => f.turn > e.turn

\* What revocation does guarantee about a use of the token that overlaps it:
\* a call that started after the revocation was logged is never allowed, nor
\* is one whose permission or time lies outside the token (token.ts 161-164).
LateCallsAreDenied ==
    \A c \in Call : call[c].op = "enforce" /\ call[c].outcome = "allowed" =>
        /\ Present(call[c].token)
        /\ \A e \in Revocations(call[c].token) : e.turn >= call[c].begun
        /\ call[c].want \subseteq store[call[c].token].scope
        /\ call[c].now < store[call[c].token].expiresAt

\* An active token under a revoked parent was minted by a delegation that
\* was in flight: the log shows the delegation after the first revocation
\* of the parent, so the cascade never misses a child it could have seen.
OrphansPostdateRevocation ==
    \A t \in Id : store[t].status = "active" /\ store[t].parent # None =>
        \A r \in Revocations(store[t].parent) :
            \E e \in audit : e.action = "delegate" /\ e.decision = "allowed"
                             /\ e.token = t /\ e.turn > r.turn

\* The smallest set with t that holds the parent of each of its members.
Lineage(t) ==
    {a \in Id : \A S \in SUBSET Id :
        (t \in S /\ \A d \in S : store[d].parent \in Id => store[d].parent \in S)
            => a \in S}

\* Walking up from any token ends in one root, and the log holds exactly one
\* approval of that root: the origin getTokenLineage looks for is never null
\* (token.ts 334-341, 351-368).
LineageHasOneOrigin ==
    \A t \in Id : Present(t) =>
        LET roots == {a \in Lineage(t) : store[a].parent = None} IN
        /\ Cardinality(roots) = 1
        /\ \A r \in roots :
              Cardinality({e \in audit : e.token = r
                               /\ e.decision = "request_approved"}) = 1

\* No step brings a revoked token back, or changes the scope, the dates or
\* the parent of a stored token: every save of an existing id is a revocation
\* built from the current record (token.ts 278, 303).
StoredTokenOnlyRevoked ==
    [][\A t \in Id : Present(t) =>
          /\ store'[t].status \in {store[t].status, "revoked"}
          /\ store'[t].scope = store[t].scope
          /\ store'[t].issuedAt = store[t].issuedAt
          /\ store'[t].expiresAt = store[t].expiresAt
          /\ store'[t].parent = store[t].parent]_vars
=============================================================================
