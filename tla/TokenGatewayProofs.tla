------------------------- MODULE TokenGatewayProofs -------------------------
(***************************************************************************)
(* Proofs about TokenGateway, for any sets of tokens, calls, permissions   *)
(* and any bounds, and at the end about the CircuitBreaker in front of its *)
(* store, whose definitions bear its name.                                 *)
(*                                                                         *)
(* The inductive invariant says what a call in flight may still rely on    *)
(* after an await: the copy of the parent it holds agrees with the store   *)
(* on everything but the status (Copies), and a child that waits for its   *)
(* hash still fits under the stored parent (Drafts); the log never runs    *)
(* ahead of the store (Trail).                                             *)
(***************************************************************************)
EXTENDS TokenGateway, CircuitBreaker, FiniteSetTheorems, TLAPS

\* The status a copy shows was true when the call started.
Copies ==
    \A c \in Call : call[c].pc = "verify" =>
        /\ call[c].token \in Id
        /\ Present(call[c].token)
        /\ call[c].begun <= turn
        /\ call[c].seen.scope = store[call[c].token].scope
        /\ call[c].seen.expiresAt = store[call[c].token].expiresAt
        /\ call[c].seen.status = "active" =>
              \A e \in audit : e.decision = "revoked" /\ e.token = call[c].token
                                  => e.turn >= call[c].begun

Drafts ==
    \A c \in Call : call[c].pc = "hash" =>
        /\ call[c].op = "issue" => call[c].token = None
        /\ call[c].op = "delegate" =>
              /\ call[c].token \in Id
              /\ Present(call[c].token)
              /\ call[c].want \subseteq store[call[c].token].scope
              /\ call[c].want # store[call[c].token].scope
              /\ call[c].expiresAt <= store[call[c].token].expiresAt

Trail ==
    \A e \in audit :
        /\ e.turn < turn
        /\ e.decision = "revoked" => store[e.token].status = "revoked"

\* An allowed use is of a real token and started in the past.
Allowed ==
    \A c \in Call : call[c].op = "enforce" /\ call[c].outcome = "allowed" =>
        call[c].token \in Id /\ call[c].begun <= turn

IInv == /\ TypeOK /\ Copies /\ Drafts /\ Trail /\ Allowed
        /\ NarrowsParent /\ LateCallsAreDenied

-----------------------------------------------------------------------------
\* The invariant holds in the initial state.
LEMMA InitInv == Init => IInv
  BY NoneAssumption DEF Init, IInv, TypeOK, TokenRec, CallRec, Absent, Idle, Outcome,
     Copies, Drafts, Trail, Allowed, NarrowsParent, LateCallsAreDenied, Present

\* The record that stands for "no token" is a token record.
LEMMA AbsentType == Absent \in TokenRec
  BY DEF Absent, TokenRec

\* The record of a call that starts is a call record.
LEMMA StartType ==
  ASSUME TypeOK, NEW op \in {"issue", "enforce", "delegate"},
         NEW t \in Id \cup {None}, NEW want \in SUBSET Perm, NEW ttl \in Nat
  PROVE  Start(op, t, want, ttl) \in CallRec
  BY AbsentType DEF Start, Idle, CallRec, Outcome, TypeOK

\* Ending a call keeps the type of the calls.
LEMMA FinishType ==
  ASSUME TypeOK, NEW c \in Call, NEW rec \in CallRec, NEW o \in Outcome,
         Finish(c, rec, o)
  PROVE  call' \in [Call -> CallRec]
  BY AbsentType DEF Finish, Idle, CallRec, Outcome, TypeOK

\* So does suspending one at an await.
LEMMA SuspendType ==
  ASSUME TypeOK, NEW c \in Call, NEW at \in {"verify", "hash"}, NEW rec \in CallRec,
         Suspend(c, at, rec)
  PROVE  call' \in [Call -> CallRec]
  BY DEF Suspend, CallRec, TypeOK

\* A denial keeps every type.
LEMMA DenyType ==
  ASSUME TypeOK, NEW c \in Call, NEW rec \in CallRec, NEW o \in Outcome,
         Deny(c, rec, o)
  PROVE  TypeOK'
  BY FinishType DEF Deny, NoRecord, TypeOK

\* What the handlers log is an audit entry.
LEMMA EntryType ==
  ASSUME TypeOK, NEW t \in Id,
         NEW a \in {"approve_request", "enforce", "delegate", "revoke"},
         NEW d \in {"request_approved", "allowed", "revoked"},
         NEW r \in {"none", "operator", "parent_revoked"}
  PROVE  Entry(t, a, d, r) \in EntryRec
  BY DEF Entry, EntryRec, TypeOK

\* A draft of a token is kept in a call record.
LEMMA DraftedType ==
  ASSUME TypeOK, NEW rec \in CallRec
  PROVE  Drafted(rec) \in CallRec
<1>1. rec.token # None => store[rec.token].expiresAt \in Nat
  BY DEF CallRec, TypeOK, TokenRec
<1>2. Expiry(rec.token, rec.ttl) \in Nat
  BY <1>1 DEF Expiry, CallRec, TypeOK
<1>. QED BY <1>2, AbsentType DEF Drafted, CallRec, TypeOK

\* Saving a new token keeps the type of the store.
LEMMA SaveType ==
  ASSUME TypeOK, NEW c \in Call, NEW t \in Id, Save(c, t)
  PROVE  store' \in [Id -> TokenRec] /\ clock' \in Nat
  BY DEF Save, NewToken, CallRec, TokenRec, TypeOK

\* decide() ends in one of the outcomes.
LEMMA DecideType ==
  ASSUME NEW token, NEW want, NEW now
  PROVE  Decide(token, want, now) \in Outcome
  BY DEF Decide, Outcome, Denial

\* So do the checks of a delegation that find a defect.
LEMMA DefectType ==
  ASSUME NEW token, NEW want, NEW now, DelegationDefect(token, want, now) # "none"
  PROVE  DelegationDefect(token, want, now) \in Outcome
  BY DEF DelegationDefect, Outcome, Denial

\* A revoked record is a token record.
LEMMA RevokedRecType ==
  ASSUME NEW rec \in TokenRec, NEW r \in {"operator", "parent_revoked"}
  PROVE  RevokedRec(rec, r) \in TokenRec
  BY DEF RevokedRec, TokenRec

\* Every action keeps the types.
LEMMA TypeStep == TypeOK /\ Copies /\ [Next]_vars => TypeOK'
<1>. SUFFICES ASSUME TypeOK, Copies, [Next]_vars PROVE TypeOK'
  OBVIOUS
<1>. USE DEF Outcome, Denial
<1>1. ASSUME NEW c \in Call, NEW s \in Scope, NEW l \in Ttl, IssueBegin(c, s, l)
      PROVE  TypeOK'
  <2>1. s \in SUBSET Perm /\ l \in Nat
    BY ScopeAssumption, TtlAssumption
  <2>2. Start("issue", None, s, l) \in CallRec
    BY <2>1, StartType
  <2>3. call' \in [Call -> CallRec]
    BY <1>1, <2>2, FinishType, SuspendType, DraftedType DEF IssueBegin
  <2>. QED BY <1>1, <2>3 DEF IssueBegin, NoRecord, TypeOK
<1>2. ASSUME NEW c \in Call, NEW t \in Id, NEW a \in Perm, EnforceBegin(c, t, a)
      PROVE  TypeOK'
  <2>. DEFINE rec == Start("enforce", t, {a}, 0)
  <2>1. rec \in CallRec
    BY StartType
  <2>2. [rec EXCEPT !.seen = store[t]] \in CallRec
    BY <2>1 DEF CallRec, TypeOK
  <2>3. CASE \E o \in {"store_unavailable", "unknown_token"} : Deny(c, rec, o)
    BY <2>1, <2>3, DenyType
  <2>4. CASE /\ Suspend(c, "verify", [rec EXCEPT !.seen = store[t]])
             /\ NoRecord /\ UNCHANGED <<store, clock>>
    BY <2>2, <2>4, SuspendType DEF NoRecord, TypeOK
  <2>. QED BY <1>2, <2>3, <2>4 DEF EnforceBegin
<1>3. ASSUME NEW c \in Call, NEW t \in Id, NEW s \in Scope, NEW l \in Ttl,
             DelegateBegin(c, t, s, l)
      PROVE  TypeOK'
  <2>. DEFINE rec == Start("delegate", t, s, l)
  <2>1. rec \in CallRec
    BY StartType, ScopeAssumption, TtlAssumption
  <2>2. [rec EXCEPT !.seen = store[t]] \in CallRec
    BY <2>1 DEF CallRec, TypeOK
  <2>3. CASE \E o \in {"store_unavailable", "parent_invalid"} : Deny(c, rec, o)
    BY <2>1, <2>3, DenyType
  <2>4. CASE /\ Suspend(c, "verify", [rec EXCEPT !.seen = store[t]])
             /\ NoRecord /\ UNCHANGED <<store, clock>>
    BY <2>2, <2>4, SuspendType DEF NoRecord, TypeOK
  <2>. QED BY <1>3, <2>3, <2>4 DEF DelegateBegin
<1>4. ASSUME NEW c \in Call, IssueEnd(c) PROVE TypeOK'
  <2>1. PICK t \in Id :
            /\ Save(c, t)
            /\ Record({Entry(t, "approve_request", "request_approved", "none")})
            /\ Finish(c, call[c], "issued")
    BY <1>4 DEF IssueEnd
  <2>2. call[c] \in CallRec
    BY DEF TypeOK
  <2>. QED BY <2>1, <2>2, SaveType, FinishType, EntryType DEF Record, TypeOK
<1>5. ASSUME NEW c \in Call, IssueUnavailable(c) PROVE TypeOK'
  BY <1>5, DenyType DEF IssueUnavailable, TypeOK
<1>6. ASSUME NEW c \in Call, NEW ok \in BOOLEAN, EnforceEnd(c, ok) PROVE TypeOK'
  <2>. DEFINE rec == call[c]
              o   == Decide(rec.seen, rec.want, rec.now)
  <2>1. rec \in CallRec /\ rec.token \in Id
    BY <1>6 DEF TypeOK, Copies, EnforceEnd
  <2>2. CASE \E d \in Outcome : Deny(c, rec, d)
    BY <2>1, <2>2, DenyType
  <2>3. CASE /\ Finish(c, rec, "allowed")
             /\ Record({Entry(rec.token, "enforce", "allowed", "none")})
             /\ UNCHANGED <<store, clock>>
    <3>1. call' \in [Call -> CallRec]
      BY <2>1, <2>3, FinishType
    <3>2. audit' \subseteq EntryRec /\ turn' \in Nat
      BY <2>1, <2>3, EntryType DEF Record, TypeOK
    <3>. QED BY <2>3, <3>1, <3>2 DEF TypeOK
  <2>4. o \in Outcome
    BY DecideType
  <2>. QED BY <1>6, <2>2, <2>3, <2>4 DEF EnforceEnd
<1>7. ASSUME NEW c \in Call, NEW ok \in BOOLEAN, DelegateVerified(c, ok)
      PROVE  TypeOK'
  <2>. DEFINE rec == call[c]
              o   == DelegationDefect(rec.seen, rec.want, rec.now)
  <2>1. rec \in CallRec
    BY DEF TypeOK
  <2>2. CASE \E d \in Outcome : Deny(c, rec, d)
    BY <2>1, <2>2, DenyType
  <2>3. CASE (Finish(c, rec, "rejected") \/ Suspend(c, "hash", Drafted(rec)))
             /\ NoRecord /\ UNCHANGED <<store, clock>>
    <3>1. call' \in [Call -> CallRec]
      BY <2>1, <2>3, FinishType, SuspendType, DraftedType
    <3>. QED BY <2>3, <3>1 DEF NoRecord, TypeOK
  <2>4. o # "none" => o \in Outcome
    BY DefectType
  <2>. QED BY <1>7, <2>2, <2>3, <2>4 DEF DelegateVerified
<1>8. ASSUME NEW c \in Call, DelegateEnd(c) PROVE TypeOK'
  <2>1. call[c] \in CallRec
    BY DEF TypeOK
  <2>2. CASE Deny(c, call[c], "store_unavailable")
    BY <2>1, <2>2, DenyType
  <2>3. ASSUME NEW t \in Id, Save(c, t), Finish(c, call[c], "issued"),
               Record({Entry(t, "delegate", "allowed", "none")})
        PROVE  TypeOK'
    BY <2>1, <2>3, SaveType, FinishType, EntryType DEF Record, TypeOK
  <2>. QED BY <1>8, <2>2, <2>3 DEF DelegateEnd
<1>9. ASSUME NEW t \in Id, Revoke(t) PROVE TypeOK'
  <2>1. store' \in [Id -> TokenRec]
    BY <1>9, RevokedRecType DEF Revoke, StoreAfterRevoke, TypeOK
  <2>2. Cascade(t) \subseteq Id
    BY DEF Cascade
  <2>3. audit' \subseteq EntryRec /\ turn' \in Nat
    BY <1>9, <2>2, EntryType DEF Revoke, Record, TypeOK
  <2>. QED BY <1>9, <2>1, <2>3 DEF Revoke, TypeOK
<1>10. CASE Tick
  BY <1>10 DEF Tick, TypeOK
<1>11. CASE UNCHANGED vars
  BY <1>11 DEF vars, TypeOK
<1>. QED
  BY <1>1, <1>2, <1>3, <1>4, <1>5, <1>6, <1>7, <1>8, <1>9, <1>10, <1>11
  DEF Next, Arrive, Resume

-----------------------------------------------------------------------------
(* What a step does to the store.                                          *)

\* The three actions that save, and nothing else, change the store.
StoreChange ==
    \/ UNCHANGED store
    \/ \E c \in Call : IssueEnd(c) \/ DelegateEnd(c)
    \/ \E t \in Id : Revoke(t)

\* Only three operations write to the store.
LEMMA StoreChanges == [Next]_vars => StoreChange
  BY DEF Next, Arrive, Resume, vars, StoreChange, IssueBegin, EnforceBegin,
     DelegateBegin, IssueUnavailable, EnforceEnd, DelegateVerified, Deny, Tick

\* A step keeps a stored token as it is, or revokes it.
Keeps(t) ==
    /\ store'[t].status \in {store[t].status, "revoked"}
    /\ store'[t].scope = store[t].scope
    /\ store'[t].issuedAt = store[t].issuedAt
    /\ store'[t].expiresAt = store[t].expiresAt
    /\ store'[t].parent = store[t].parent

\* A revocation changes nothing of a stored token but its status and reason.
LEMMA RevokeKeeps ==
  ASSUME TypeOK, NEW r \in Id, Revoke(r), NEW t \in Id
  PROVE  Keeps(t)
<1>1. store[t] \in TokenRec
  BY DEF TypeOK
<1>2. store'[t] \in {store[t], RevokedRec(store[t], "operator"),
                     RevokedRec(store[t], "parent_revoked")}
  BY DEF Revoke, StoreAfterRevoke
<1>. QED BY <1>1, <1>2 DEF RevokedRec, TokenRec, Keeps

\* Saving a new token leaves the stored ones alone.
LEMMA SaveKeeps ==
  ASSUME TypeOK, NEW c \in Call, NEW n \in Id, Save(c, n), NEW t \in Id, Present(t)
  PROVE  Keeps(t)
  BY DEF Save, Fresh, Keeps, TypeOK, TokenRec

\* The step form of StoredTokenOnlyRevoked.
LEMMA StoreStep ==
  ASSUME TypeOK, [Next]_vars, NEW t \in Id, Present(t)
  PROVE  Keeps(t) /\ Present(t)'
<1>1. ASSUME UNCHANGED store
      PROVE  Keeps(t)
  BY <1>1 DEF Keeps
<1>2. ASSUME NEW c \in Call, IssueEnd(c) \/ DelegateEnd(c)
      PROVE  Keeps(t)
  BY <1>2, SaveKeeps DEF IssueEnd, DelegateEnd, Deny, Keeps
<1>3. ASSUME NEW r \in Id, Revoke(r)
      PROVE  Keeps(t)
  BY <1>3, RevokeKeeps
<1>4. Keeps(t)
  BY <1>1, <1>2, <1>3, StoreChanges DEF StoreChange
<1>. QED BY <1>4 DEF Keeps, Present

\* A cascade only reaches tokens the store holds.
LEMMA CascadePresent ==
  ASSUME NEW r \in Id, NEW d \in Cascade(r)
  PROVE  d \in Id /\ Present(d)
<1>. DEFINE S == {e \in Id : Present(e)}
<1>1. \A p \in S \cup {r} : \A e \in Children(p) :
          store[e].status = "active" => e \in S
  BY DEF Children
<1>. QED BY <1>1 DEF Cascade

\* A new token is the draft of a call that was hashing.
LEMMA NewTokenStep ==
  ASSUME TypeOK, [Next]_vars, NEW t \in Id, ~Present(t), Present(t)'
  PROVE  \E c \in Call :
            /\ IssueEnd(c) \/ DelegateEnd(c)
            /\ call[c].pc = "hash"
            /\ store' = [store EXCEPT ![t] = NewToken(call[c])]
<1>1. ASSUME NEW r \in Id, Revoke(r)
      PROVE  FALSE
  BY <1>1, CascadePresent DEF Revoke, StoreAfterRevoke, Present
<1>2. PICK c \in Call : IssueEnd(c) \/ DelegateEnd(c)
  BY <1>1, StoreChanges DEF StoreChange, Present
<1>3. PICK n \in Id : Save(c, n)
  BY <1>2 DEF IssueEnd, DelegateEnd, Deny, Present
<1>4. n = t
  BY <1>3 DEF Save, TypeOK, Present
<1>. QED BY <1>2, <1>3, <1>4 DEF Save, IssueEnd, DelegateEnd

\* Every step keeps NarrowsParent.
LEMMA NarrowsStep ==
  TypeOK /\ Drafts /\ NarrowsParent /\ [Next]_vars => NarrowsParent'
<1>. DEFINE Under(t, p) ==
              /\ store'[p].status # "absent"
              /\ store'[t].scope \subseteq store'[p].scope
              /\ store'[t].scope # store'[p].scope
              /\ store'[t].expiresAt <= store'[p].expiresAt
<1>. SUFFICES ASSUME TypeOK, Drafts, NarrowsParent, [Next]_vars,
                     NEW t \in Id, Present(t)', store'[t].parent # None
              PROVE  Under(t, store'[t].parent)
  BY DEF NarrowsParent, Present
\* A token that was there keeps its parent, and so does its parent.
<1>1. CASE Present(t)
  <2>1. Keeps(t)
    BY <1>1, StoreStep
  <2>2. PICK p \in Id : p = store[t].parent /\ Present(p)
    BY <1>1, <2>1 DEF Keeps, NarrowsParent, TypeOK, TokenRec
  <2>3. Keeps(p) /\ Present(p)'
    BY <2>2, StoreStep
  <2>4. Under(t, p)
    BY <1>1, <2>1, <2>2, <2>3 DEF Keeps, NarrowsParent, Present
  <2>. QED BY <2>1, <2>2, <2>4 DEF Keeps
\* A new one comes from a draft that still fits under the stored parent.
<1>2. CASE ~Present(t)
  <2>1. PICK c \in Call : /\ IssueEnd(c) \/ DelegateEnd(c)
                          /\ call[c].pc = "hash"
                          /\ store' = [store EXCEPT ![t] = NewToken(call[c])]
    BY <1>2, NewTokenStep
  <2>2. store'[t] = NewToken(call[c])
    BY <2>1 DEF TypeOK
  <2>3. call[c].op = "delegate"
    BY <2>1, <2>2 DEF IssueEnd, DelegateEnd, NewToken, Drafts
  <2>4. PICK p \in Id : p = call[c].token
    BY <2>1, <2>3 DEF Drafts
  <2>5. store'[p] = store[p] /\ Present(p)
    BY <1>2, <2>1, <2>3, <2>4 DEF Drafts, TypeOK
  <2>6. Under(t, p)
    BY <2>1, <2>2, <2>3, <2>4, <2>5 DEF Drafts, NewToken, Present
  <2>. QED BY <2>2, <2>4, <2>6 DEF NewToken
<1>. QED BY <1>1, <1>2

-----------------------------------------------------------------------------
(* What calls in flight may rely on.                                       *)

\* One step of one call: it leaves every other call alone.
LEMMA OtherCalls ==
  ASSUME TypeOK, [Next]_vars
  PROVE  \/ UNCHANGED call
         \/ \E c \in Call : /\ Arrive(c) \/ Resume(c)
                            /\ \A d \in Call \ {c} : call'[d] = call[d]
<1>1. ASSUME NEW c \in Call, Arrive(c) \/ Resume(c)
      PROVE  \A d \in Call \ {c} : call'[d] = call[d]
  BY <1>1 DEF TypeOK, Arrive, Resume, IssueBegin, EnforceBegin, DelegateBegin,
     IssueEnd, IssueUnavailable, EnforceEnd, DelegateVerified, DelegateEnd,
     Deny, Finish, Suspend
<1>2. (\E t \in Id : Revoke(t)) \/ Tick \/ UNCHANGED vars => UNCHANGED call
  BY DEF Revoke, Tick, vars
<1>. QED BY <1>1, <1>2 DEF Next

\* The log only grows, by entries of the running turn, and a revocation it
\* shows has been written to the store.
LEMMA AuditStep ==
  ASSUME TypeOK, [Next]_vars
  PROVE  /\ turn <= turn' /\ audit \subseteq audit'
         /\ \A e \in audit' \ audit :
               /\ e.turn = turn /\ turn < turn'
               /\ e.decision = "revoked" => store'[e.token].status = "revoked"
<1>. DEFINE Grows ==
         /\ turn <= turn' /\ audit \subseteq audit'
         /\ \A e \in audit' \ audit :
               /\ e.turn = turn /\ turn < turn'
               /\ e.decision = "revoked" => store'[e.token].status = "revoked"
<1>1. CASE UNCHANGED <<audit, turn>>
  BY <1>1 DEF TypeOK
<1>2. ASSUME NEW t \in Id, Revoke(t)
      PROVE  Grows
  <2>1. /\ store'[t].status = "revoked"
        /\ \A d \in Cascade(t) : d \in Id /\ store'[d].status = "revoked"
    <3>1. \A d \in Id : store[d] \in TokenRec
      BY DEF TypeOK
    <3>. QED
      BY <1>2, <3>1, CascadePresent DEF Revoke, StoreAfterRevoke, RevokedRec, TokenRec
  <2>2. \A e \in audit' \ audit :
          /\ e.turn = turn
          /\ e.token = t \/ e.token \in Cascade(t)
    BY <1>2 DEF Revoke, Record, Entry
  <2>. QED BY <1>2, <2>1, <2>2 DEF Revoke, Record, TypeOK
<1>3. ASSUME NEW t, NEW a, NEW d \in {"request_approved", "allowed"},
             Record({Entry(t, a, d, "none")})
      PROVE  Grows
  BY <1>3 DEF Record, Entry, TypeOK
<1>4. ASSUME NEW c \in Call, Arrive(c) \/ Resume(c)
      PROVE  Grows
  <2>1. CASE UNCHANGED <<audit, turn>>
    BY <1>1, <2>1
  <2>2. CASE \E t \in Id \cup {None} :
               \/ Record({Entry(t, "approve_request", "request_approved", "none")})
               \/ Record({Entry(t, "delegate", "allowed", "none")})
               \/ Record({Entry(t, "enforce", "allowed", "none")})
    BY <1>3, <2>2
  <2>3. call[c] \in CallRec
    BY DEF TypeOK
  <2>4. Arrive(c) => UNCHANGED <<audit, turn>>
    BY DEF Arrive, IssueBegin, EnforceBegin, DelegateBegin, Deny, NoRecord
  <2>5. call[c].token \in Id \cup {None}
    BY <2>3 DEF CallRec
  <2>. QED
    BY <1>4, <2>1, <2>2, <2>4, <2>5
    DEF Resume, IssueEnd, IssueUnavailable, EnforceEnd, DelegateVerified,
        DelegateEnd, Deny, NoRecord
<1>. QED BY <1>1, <1>2, <1>4 DEF Next, Tick, vars

\* Every step keeps Trail.
LEMMA TrailStep == TypeOK /\ TypeOK' /\ Trail /\ [Next]_vars => Trail'
<1>. SUFFICES ASSUME TypeOK, TypeOK', Trail, [Next]_vars, NEW e \in audit'
              PROVE  /\ e.turn < turn'
                     /\ e.decision = "revoked" => store'[e.token].status = "revoked"
  BY DEF Trail
<1>1. CASE e \in audit
  <2>1. e.turn \in Nat /\ e.token \in Id
    BY <1>1 DEF TypeOK, EntryRec
  <2>2. e.decision = "revoked" => Present(e.token) /\ store[e.token].status = "revoked"
    BY <1>1 DEF Trail, Present
  <2>3. PICK t \in Id : t = e.token
    BY <2>1
  <2>4. Present(t) => Keeps(t)
    BY StoreStep
  <2>5. e.turn < turn'
    BY <1>1, <2>1, AuditStep DEF Trail, TypeOK
  <2>. QED BY <2>2, <2>3, <2>4, <2>5 DEF Keeps
<1>2. CASE e \notin audit
  BY <1>2, AuditStep
<1>. QED BY <1>1, <1>2

\* What is left in the record of a call that has ended.
LEMMA FinishEffect ==
  ASSUME TypeOK, NEW c \in Call, NEW rec \in CallRec, NEW o \in Outcome,
         Finish(c, rec, o)
  PROVE  /\ call'[c].pc = "done" /\ call'[c].outcome = o /\ call'[c].op = rec.op
         /\ o = "allowed" => /\ call'[c].token = rec.token
                             /\ call'[c].want = rec.want
                             /\ call'[c].now = rec.now
                             /\ call'[c].begun = rec.begun
  BY DEF Finish, Idle, CallRec, TypeOK

\* What is in the record of a call that has been suspended.
LEMMA SuspendEffect ==
  ASSUME TypeOK, NEW c \in Call, NEW at, NEW rec \in CallRec, Suspend(c, at, rec)
  PROVE  /\ call'[c].pc = at
         /\ \A f \in {"op", "token", "want", "begun", "seen", "expiresAt", "outcome"} :
               call'[c][f] = rec[f]
  BY DEF Suspend, CallRec, TypeOK

\* What is in the record of a call that starts.
LEMMA StartEffect ==
  ASSUME NEW op, NEW t, NEW want, NEW ttl
  PROVE  LET rec == Start(op, t, want, ttl) IN
         /\ rec.op = op /\ rec.token = t /\ rec.want = want
         /\ rec.begun = turn /\ rec.outcome = "none"
  BY DEF Start, Idle

\* What the two readers of the store leave in the call: the current record.
LEMMA ReadEffect ==
  ASSUME TypeOK, NEW c \in Call, NEW op \in {"enforce", "delegate"}, NEW t \in Id,
         NEW want \in SUBSET Perm, NEW ttl \in Nat,
         Suspend(c, "verify", [Start(op, t, want, ttl) EXCEPT !.seen = store[t]])
  PROVE  /\ call'[c].token = t /\ call'[c].seen = store[t]
         /\ call'[c].begun = turn /\ call'[c].outcome = "none"
<1>. DEFINE rec == Start(op, t, want, ttl)
<1>1. rec \in CallRec
  BY StartType
<1>2. rec.token = t /\ rec.begun = turn /\ rec.outcome = "none"
  BY StartEffect
<1>. HIDE DEF rec
<1>3. [rec EXCEPT !.seen = store[t]] \in CallRec
  BY <1>1 DEF CallRec, TypeOK
<1>4. LET r == [rec EXCEPT !.seen = store[t]] IN
      r.token = t /\ r.begun = turn /\ r.outcome = "none" /\ r.seen = store[t]
  BY <1>1, <1>2 DEF CallRec
<1>5. Suspend(c, "verify", [rec EXCEPT !.seen = store[t]])
  BY DEF rec
<1>. QED BY <1>3, <1>4, <1>5, SuspendEffect

\* A call that waits for verifyPassword was waiting, or has just read its
\* token from the store.
LEMMA IntoVerify ==
  ASSUME TypeOK, [Next]_vars, NEW c \in Call, call'[c].pc = "verify"
  PROVE  \/ call'[c] = call[c]
         \/ /\ UNCHANGED <<store, audit, turn>>
            /\ \E t \in Id : /\ Present(t)
                             /\ call'[c].token = t
                             /\ call'[c].seen = store[t]
                             /\ call'[c].begun = turn
<1>. DEFINE Read ==
       /\ UNCHANGED <<store, audit, turn>>
       /\ \E t \in Id : /\ Present(t)
                        /\ call'[c].token = t
                        /\ call'[c].seen = store[t]
                        /\ call'[c].begun = turn
<1>1. ASSUME NEW t \in Id, NEW a \in Perm, EnforceBegin(c, t, a)
      PROVE  Read
  <2>1. Start("enforce", t, {a}, 0) \in CallRec
    BY StartType
  <2>2. ~ \E o \in Outcome : Finish(c, Start("enforce", t, {a}, 0), o)
    BY <2>1, FinishEffect
  <2>. QED BY <1>1, <2>2, ReadEffect DEF EnforceBegin, Deny, NoRecord, Outcome, Denial
<1>2. ASSUME NEW t \in Id, NEW s \in Scope, NEW l \in Ttl, DelegateBegin(c, t, s, l)
      PROVE  Read
  <2>1. s \in SUBSET Perm /\ l \in Nat
    BY ScopeAssumption, TtlAssumption
  <2>2. Start("delegate", t, s, l) \in CallRec
    BY <2>1, StartType
  <2>3. ~ \E o \in Outcome : Finish(c, Start("delegate", t, s, l), o)
    BY <2>2, FinishEffect
  <2>. QED
    BY <1>2, <2>1, <2>3, ReadEffect DEF DelegateBegin, Deny, NoRecord, Outcome, Denial
<1>3. ASSUME NEW s \in Scope, NEW l \in Ttl, IssueBegin(c, s, l)
      PROVE  FALSE
  <2>1. Start("issue", None, s, l) \in CallRec
    BY StartType, ScopeAssumption, TtlAssumption
  <2>. QED
    BY <1>3, <2>1, FinishEffect, SuspendEffect, DraftedType DEF IssueBegin, Outcome
<1>4. ASSUME Resume(c)
      PROVE  FALSE
  <2>1. call[c] \in CallRec /\ Drafted(call[c]) \in CallRec
    BY DraftedType DEF TypeOK
  <2>2. ~ \E o \in Outcome : Finish(c, call[c], o)
    BY <2>1, FinishEffect
  <2>3. ~ Suspend(c, "hash", Drafted(call[c]))
    BY <2>1, SuspendEffect
  <2>4. \A o : Deny(c, call[c], o) => Finish(c, call[c], o)
    BY DEF Deny
  <2>5. ~ IssueEnd(c) /\ ~ IssueUnavailable(c) /\ ~ DelegateEnd(c)
    BY <2>2, <2>4 DEF IssueEnd, IssueUnavailable, DelegateEnd, Outcome, Denial
  <2>6. \A ok \in BOOLEAN : ~ EnforceEnd(c, ok)
    BY <2>2, <2>4, DecideType DEF EnforceEnd, Outcome, Denial
  <2>7. \A ok \in BOOLEAN : ~ DelegateVerified(c, ok)
    BY <2>2, <2>3, <2>4, DefectType DEF DelegateVerified, Outcome, Denial
  <2>. QED BY <1>4, <2>5, <2>6, <2>7 DEF Resume
<1>. QED BY <1>1, <1>2, <1>3, <1>4, OtherCalls DEF Arrive

\* Every step keeps Copies.
LEMMA CopiesStep == TypeOK /\ TypeOK' /\ Copies /\ Trail /\ [Next]_vars => Copies'
<1>. SUFFICES ASSUME TypeOK, TypeOK', Copies, Trail, [Next]_vars,
                     NEW c \in Call, call'[c].pc = "verify"
              PROVE
        /\ call'[c].token \in Id
        /\ store'[call'[c].token].status # "absent"
        /\ call'[c].begun <= turn'
        /\ call'[c].seen.scope = store'[call'[c].token].scope
        /\ call'[c].seen.expiresAt = store'[call'[c].token].expiresAt
        /\ call'[c].seen.status = "active" =>
              \A e \in audit' : e.decision = "revoked" /\ e.token = call'[c].token
                                   => e.turn >= call'[c].begun
  BY DEF Copies, Present
\* Still waiting: only the status of the stored token may have moved on.
<1>1. CASE call'[c] = call[c]
  <2>1. PICK t \in Id : t = call[c].token /\ Present(t)
    BY <1>1 DEF Copies
  <2>2. Keeps(t) /\ Present(t)'
    BY <2>1, StoreStep
  <2>3. call[c].begun \in Nat /\ call[c].begun <= turn
    BY <1>1 DEF Copies, TypeOK, CallRec
  <2>4. ASSUME NEW e \in audit', e.decision = "revoked", e.token = t,
               call[c].seen.status = "active"
        PROVE  e.turn >= call[c].begun
    <3>1. CASE e \in audit
      BY <1>1, <2>1, <2>4, <3>1 DEF Copies
    <3>2. CASE e \notin audit
      BY <2>3, <3>2, AuditStep DEF TypeOK
    <3>. QED BY <3>1, <3>2
  <2>5. call[c].begun <= turn'
    BY <2>3, AuditStep DEF TypeOK
  <2>. QED BY <1>1, <2>1, <2>2, <2>4, <2>5 DEF Copies, Keeps, Present
\* Just read: an active token has no revocation in the log.
<1>2. CASE call'[c] # call[c]
  <2>1. /\ UNCHANGED <<store, audit, turn>>
        /\ \E t \in Id : /\ Present(t)
                         /\ call'[c].token = t
                         /\ call'[c].seen = store[t]
                         /\ call'[c].begun = turn
    BY <1>2, IntoVerify
  <2>2. \A e \in audit : e.decision = "revoked" => store[e.token].status # "active"
    BY DEF Trail
  <2>. QED BY <2>1, <2>2 DEF Present, TypeOK
<1>. QED BY <1>1, <1>2

\* Drafting changes only the dates and the copy of the token.
LEMMA DraftedEffect ==
  ASSUME NEW rec \in CallRec
  PROVE  /\ Drafted(rec).op = rec.op /\ Drafted(rec).token = rec.token
         /\ Drafted(rec).want = rec.want /\ Drafted(rec).outcome = rec.outcome
         /\ Drafted(rec).expiresAt = Expiry(rec.token, rec.ttl)
  BY DEF Drafted, CallRec

\* The expiry of a delegated token is at most its parent's.
LEMMA ExpiryCapped ==
  ASSUME TypeOK, NEW p \in Id, NEW ttl \in Nat
  PROVE  Expiry(p, ttl) <= store[p].expiresAt
<1>1. store[p].expiresAt \in Nat /\ p # None
  BY NoneAssumption DEF TypeOK, TokenRec
<1>. QED BY <1>1 DEF Expiry, TypeOK

\* A call that hashes was hashing, or is a root issuance, or has just been
\* checked against its copy of the parent.
LEMMA IntoHash ==
  ASSUME TypeOK, [Next]_vars, NEW c \in Call, call'[c].pc = "hash"
  PROVE  \/ call'[c] = call[c]
         \/ call'[c].op = "issue" /\ call'[c].token = None
         \/ /\ UNCHANGED store
            /\ call[c].pc = "verify" /\ call'[c].op = "delegate"
            /\ call'[c].token = call[c].token /\ call'[c].want = call[c].want
            /\ DelegationDefect(call[c].seen, call[c].want, call[c].now) = "none"
            /\ call'[c].expiresAt = Expiry(call[c].token, call[c].ttl)
<1>. DEFINE Checked ==
            /\ UNCHANGED store
            /\ call[c].pc = "verify" /\ call'[c].op = "delegate"
            /\ call'[c].token = call[c].token /\ call'[c].want = call[c].want
            /\ DelegationDefect(call[c].seen, call[c].want, call[c].now) = "none"
            /\ call'[c].expiresAt = Expiry(call[c].token, call[c].ttl)
<1>. \A rec, o : Deny(c, rec, o) => Finish(c, rec, o)
  BY DEF Deny
<1>1. ASSUME NEW t \in Id, NEW a \in Perm, EnforceBegin(c, t, a)
      PROVE  FALSE
  <2>. DEFINE rec == Start("enforce", t, {a}, 0)
  <2>1. rec \in CallRec
    BY StartType
  <2>. HIDE DEF rec
  <2>2. [rec EXCEPT !.seen = store[t]] \in CallRec
    BY <2>1 DEF CallRec, TypeOK
  <2>3. ~ \E o \in Outcome : Finish(c, rec, o)
    BY <2>1, FinishEffect
  <2>4. ~ Suspend(c, "verify", [rec EXCEPT !.seen = store[t]])
    BY <2>2, SuspendEffect
  <2>. QED BY <1>1, <2>3, <2>4 DEF EnforceBegin, Outcome, Denial, rec
<1>2. ASSUME NEW t \in Id, NEW s \in Scope, NEW l \in Ttl, DelegateBegin(c, t, s, l)
      PROVE  FALSE
  <2>. DEFINE rec == Start("delegate", t, s, l)
  <2>1. rec \in CallRec
    BY StartType, ScopeAssumption, TtlAssumption
  <2>. HIDE DEF rec
  <2>2. [rec EXCEPT !.seen = store[t]] \in CallRec
    BY <2>1 DEF CallRec, TypeOK
  <2>3. ~ \E o \in Outcome : Finish(c, rec, o)
    BY <2>1, FinishEffect
  <2>4. ~ Suspend(c, "verify", [rec EXCEPT !.seen = store[t]])
    BY <2>2, SuspendEffect
  <2>. QED BY <1>2, <2>3, <2>4 DEF DelegateBegin, Outcome, Denial, rec
<1>3. ASSUME NEW s \in Scope, NEW l \in Ttl, IssueBegin(c, s, l)
      PROVE  call'[c].op = "issue" /\ call'[c].token = None
  <2>. DEFINE rec == Start("issue", None, s, l)
  <2>1. rec \in CallRec
    BY StartType, ScopeAssumption, TtlAssumption
  <2>2. rec.op = "issue" /\ rec.token = None
    BY StartEffect
  <2>. HIDE DEF rec
  <2>3. ~ Finish(c, rec, "rejected")
    BY <2>1, FinishEffect DEF Outcome
  <2>4. Suspend(c, "hash", Drafted(rec))
    BY <1>3, <2>3 DEF IssueBegin, rec
  <2>5. /\ call'[c]["op"] = Drafted(rec)["op"]
        /\ call'[c]["token"] = Drafted(rec)["token"]
    BY <2>1, <2>4, DraftedType, SuspendEffect
  <2>. QED BY <2>1, <2>2, <2>5, DraftedEffect
<1>4. ASSUME Resume(c)
      PROVE  Checked
  <2>1. call[c] \in CallRec /\ Drafted(call[c]) \in CallRec
    BY DraftedType DEF TypeOK
  <2>2. ~ \E o \in Outcome : Finish(c, call[c], o)
    BY <2>1, FinishEffect
  <2>5. ~ IssueEnd(c) /\ ~ IssueUnavailable(c) /\ ~ DelegateEnd(c)
    BY <2>2 DEF IssueEnd, IssueUnavailable, DelegateEnd, Outcome, Denial
  <2>6. \A ok \in BOOLEAN : ~ EnforceEnd(c, ok)
    BY <2>2, DecideType DEF EnforceEnd, Outcome, Denial
  <2>7. PICK ok \in BOOLEAN : DelegateVerified(c, ok)
    BY <1>4, <2>5, <2>6 DEF Resume
  <2>8. /\ call[c].pc = "verify" /\ call[c].op = "delegate"
        /\ DelegationDefect(call[c].seen, call[c].want, call[c].now) = "none"
        /\ Suspend(c, "hash", Drafted(call[c])) /\ UNCHANGED store
    BY <2>2, <2>7, DefectType DEF DelegateVerified, Outcome, Denial
  <2>9. /\ call'[c]["op"] = Drafted(call[c])["op"]
        /\ call'[c]["token"] = Drafted(call[c])["token"]
        /\ call'[c]["want"] = Drafted(call[c])["want"]
        /\ call'[c]["expiresAt"] = Drafted(call[c])["expiresAt"]
    BY <2>1, <2>8, SuspendEffect
  <2>. QED BY <2>1, <2>8, <2>9, DraftedEffect
<1>. QED BY <1>1, <1>2, <1>3, <1>4, OtherCalls DEF Arrive

\* Every step keeps Drafts.
LEMMA DraftsStep == TypeOK /\ Copies /\ Drafts /\ [Next]_vars => Drafts'
<1>. SUFFICES ASSUME TypeOK, Copies, Drafts, [Next]_vars,
                     NEW c \in Call, call'[c].pc = "hash"
              PROVE
        /\ call'[c].op = "issue" => call'[c].token = None
        /\ call'[c].op = "delegate" =>
              /\ call'[c].token \in Id
              /\ store'[call'[c].token].status # "absent"
              /\ call'[c].want \subseteq store'[call'[c].token].scope
              /\ call'[c].want # store'[call'[c].token].scope
              /\ call'[c].expiresAt <= store'[call'[c].token].expiresAt
  BY DEF Drafts, Present
<1>1. CASE call'[c] = call[c]
  <2>1. CASE call[c].op = "delegate"
    <3>1. PICK p \in Id : p = call[c].token /\ Present(p)
      BY <1>1, <2>1 DEF Drafts
    <3>2. Keeps(p) /\ Present(p)'
      BY <3>1, StoreStep
    <3>. QED BY <1>1, <2>1, <3>1, <3>2 DEF Drafts, Keeps, Present
  <2>2. CASE call[c].op # "delegate"
    BY <1>1, <2>2 DEF Drafts
  <2>. QED BY <2>1, <2>2
<1>2. CASE call'[c].op = "issue" /\ call'[c].token = None
  BY <1>2
<1>3. CASE /\ UNCHANGED store
           /\ call[c].pc = "verify" /\ call'[c].op = "delegate"
           /\ call'[c].token = call[c].token /\ call'[c].want = call[c].want
           /\ DelegationDefect(call[c].seen, call[c].want, call[c].now) = "none"
           /\ call'[c].expiresAt = Expiry(call[c].token, call[c].ttl)
  <2>1. PICK p \in Id : p = call[c].token /\ Present(p)
    BY <1>3 DEF Copies
  <2>2. call[c].ttl \in Nat
    BY DEF TypeOK, CallRec
  <2>3. call[c].want \subseteq call[c].seen.scope /\ call[c].want # call[c].seen.scope
    BY <1>3 DEF DelegationDefect
  <2>4. call[c].seen.scope = store[p].scope
    BY <1>3, <2>1 DEF Copies
  <2>5. Expiry(p, call[c].ttl) <= store[p].expiresAt
    BY <2>2, ExpiryCapped
  <2>. QED BY <1>3, <2>1, <2>3, <2>4, <2>5 DEF Present
<1>. QED BY <1>1, <1>2, <1>3, IntoHash

\* A call is allowed a use in one way: its copy of the token passed decide().
LEMMA IntoAllowed ==
  ASSUME TypeOK, [Next]_vars, NEW c \in Call,
         call'[c].op = "enforce", call'[c].outcome = "allowed"
  PROVE  \/ call'[c] = call[c]
         \/ /\ UNCHANGED store /\ call[c].pc = "verify"
            /\ Decide(call[c].seen, call[c].want, call[c].now) = "allowed"
            /\ audit' = audit \cup {Entry(call[c].token, "enforce", "allowed", "none")}
            /\ call'[c].token = call[c].token /\ call'[c].want = call[c].want
            /\ call'[c].now = call[c].now /\ call'[c].begun = call[c].begun
<1>. DEFINE Decided ==
            /\ UNCHANGED store /\ call[c].pc = "verify"
            /\ Decide(call[c].seen, call[c].want, call[c].now) = "allowed"
            /\ audit' = audit \cup {Entry(call[c].token, "enforce", "allowed", "none")}
            /\ call'[c].token = call[c].token /\ call'[c].want = call[c].want
            /\ call'[c].now = call[c].now /\ call'[c].begun = call[c].begun
<1>. \A rec, o : Deny(c, rec, o) => Finish(c, rec, o)
  BY DEF Deny
<1>1. ASSUME NEW t \in Id, NEW a \in Perm, EnforceBegin(c, t, a)
      PROVE  FALSE
  <2>1. Start("enforce", t, {a}, 0) \in CallRec
    BY StartType
  <2>2. ~ \E o \in Outcome \ {"allowed"} : Finish(c, Start("enforce", t, {a}, 0), o)
    BY <2>1, FinishEffect
  <2>. QED BY <1>1, <2>2, ReadEffect DEF EnforceBegin, Outcome, Denial
<1>2. ASSUME NEW t \in Id, NEW s \in Scope, NEW l \in Ttl, DelegateBegin(c, t, s, l)
      PROVE  FALSE
  <2>1. s \in SUBSET Perm /\ l \in Nat
    BY ScopeAssumption, TtlAssumption
  <2>2. Start("delegate", t, s, l) \in CallRec
    BY <2>1, StartType
  <2>3. ~ \E o \in Outcome \ {"allowed"} : Finish(c, Start("delegate", t, s, l), o)
    BY <2>2, FinishEffect
  <2>. QED BY <1>2, <2>1, <2>3, ReadEffect DEF DelegateBegin, Outcome, Denial
<1>3. ASSUME NEW s \in Scope, NEW l \in Ttl, IssueBegin(c, s, l)
      PROVE  FALSE
  <2>. DEFINE rec == Start("issue", None, s, l)
  <2>1. rec \in CallRec
    BY StartType, ScopeAssumption, TtlAssumption
  <2>2. rec.op = "issue"
    BY StartEffect
  <2>. HIDE DEF rec
  <2>3. ~ Finish(c, rec, "rejected")
    BY <2>1, FinishEffect DEF Outcome
  <2>4. Suspend(c, "hash", Drafted(rec))
    BY <1>3, <2>3 DEF IssueBegin, rec
  <2>5. call'[c]["op"] = Drafted(rec)["op"]
    BY <2>1, <2>4, DraftedType, SuspendEffect
  <2>. QED BY <2>1, <2>2, <2>5, DraftedEffect
<1>4. ASSUME Resume(c)
      PROVE  Decided
  <2>1. call[c] \in CallRec /\ Drafted(call[c]) \in CallRec
    BY DraftedType DEF TypeOK
  <2>2. ~ \E o \in Outcome \ {"allowed"} : Finish(c, call[c], o)
    BY <2>1, FinishEffect
  <2>3. ~ IssueEnd(c) /\ ~ IssueUnavailable(c) /\ ~ DelegateEnd(c)
    BY <2>2 DEF IssueEnd, IssueUnavailable, DelegateEnd, Outcome, Denial
  <2>4. ~ (call[c].op = "delegate" /\ Suspend(c, "hash", Drafted(call[c])))
    <3>1. ASSUME Suspend(c, "hash", Drafted(call[c]))
          PROVE  call'[c]["op"] = Drafted(call[c])["op"]
      BY <2>1, <3>1, SuspendEffect
    <3>. QED BY <2>1, <3>1, DraftedEffect
  <2>5. \A ok \in BOOLEAN : ~ DelegateVerified(c, ok)
    <3>1. DelegationDefect(call[c].seen, call[c].want, call[c].now) # "allowed"
      BY DEF DelegationDefect
    <3>. QED BY <2>2, <2>4, <3>1, DefectType DEF DelegateVerified, Outcome, Denial
  <2>6. PICK ok \in BOOLEAN : EnforceEnd(c, ok)
    BY <1>4, <2>3, <2>5 DEF Resume
  <2>7. /\ call[c].pc = "verify" /\ UNCHANGED store
        /\ Decide(call[c].seen, call[c].want, call[c].now) = "allowed"
        /\ Finish(c, call[c], "allowed")
        /\ audit' = audit \cup {Entry(call[c].token, "enforce", "allowed", "none")}
    BY <2>2, <2>6, DecideType DEF EnforceEnd, Record, Outcome, Denial
  <2>. QED BY <2>1, <2>7, FinishEffect DEF Outcome
<1>. QED BY <1>1, <1>2, <1>3, <1>4, OtherCalls DEF Arrive

\* Every step keeps Allowed and LateCallsAreDenied.
LEMMA LateCallsStep ==
  IInv /\ TypeOK' /\ [Next]_vars => Allowed' /\ LateCallsAreDenied'
<1>. SUFFICES ASSUME IInv, TypeOK', [Next]_vars, NEW c \in Call,
                     call'[c].op = "enforce", call'[c].outcome = "allowed"
              PROVE  /\ call'[c].token \in Id /\ call'[c].begun <= turn'
                     /\ store'[call'[c].token].status # "absent"
                     /\ \A e \in audit' :
                           e.decision = "revoked" /\ e.token = call'[c].token
                               => e.turn >= call'[c].begun
                     /\ call'[c].want \subseteq store'[call'[c].token].scope
                     /\ call'[c].now < store'[call'[c].token].expiresAt
  BY DEF Allowed, LateCallsAreDenied, Revocations, Present
<1>. USE DEF IInv
\* Allowed before: whatever is revoked now is logged in a later turn.
<1>1. CASE call'[c] = call[c]
  <2>1. PICK t \in Id : t = call[c].token /\ Present(t)
    BY <1>1 DEF Allowed, LateCallsAreDenied
  <2>2. Keeps(t) /\ Present(t)'
    BY <2>1, StoreStep
  <2>3. call[c].begun \in Nat /\ call[c].begun <= turn
    BY <1>1 DEF Allowed, TypeOK, CallRec
  <2>4. ASSUME NEW e \in audit', e.decision = "revoked", e.token = t
        PROVE  e.turn >= call[c].begun
    <3>1. CASE e \in audit
      BY <1>1, <2>1, <2>4, <3>1 DEF LateCallsAreDenied, Revocations
    <3>2. CASE e \notin audit
      BY <2>3, <3>2, AuditStep DEF TypeOK
    <3>. QED BY <3>1, <3>2
  <2>5. call[c].begun <= turn'
    BY <2>3, AuditStep DEF TypeOK
  <2>. QED BY <1>1, <2>1, <2>2, <2>4, <2>5 DEF LateCallsAreDenied, Keeps, Present
\* Allowed by this step: the copy was active, so no earlier revocation.
<1>2. CASE call'[c] # call[c]
  <2>1. /\ UNCHANGED store /\ call[c].pc = "verify"
        /\ Decide(call[c].seen, call[c].want, call[c].now) = "allowed"
        /\ audit' = audit \cup {Entry(call[c].token, "enforce", "allowed", "none")}
        /\ call'[c].token = call[c].token /\ call'[c].want = call[c].want
        /\ call'[c].now = call[c].now /\ call'[c].begun = call[c].begun
    BY <1>2, IntoAllowed
  <2>2. /\ call[c].seen.status = "active" /\ call[c].want \subseteq call[c].seen.scope
        /\ ~(call[c].now >= call[c].seen.expiresAt)
    BY <2>1 DEF Decide
  <2>3. PICK t \in Id : t = call[c].token /\ Present(t)
    BY <2>1 DEF Copies
  <2>4. \A e \in audit' : e.decision = "revoked" => e \in audit
    BY <2>1 DEF Entry
  <2>5. call[c].now \in Nat /\ call[c].begun \in Nat /\ store[t].expiresAt \in Nat
    BY DEF TypeOK, CallRec, TokenRec
  <2>6. call[c].begun <= turn /\ turn <= turn'
    BY <2>1, AuditStep DEF Copies
  <2>7. call[c].begun <= turn'
    BY <2>5, <2>6 DEF TypeOK
  <2>. QED BY <2>1, <2>2, <2>3, <2>4, <2>5, <2>7 DEF Copies, Present
<1>. QED BY <1>1, <1>2

-----------------------------------------------------------------------------
(* The theorems.                                                           *)

\* Every step keeps the inductive invariant.
LEMMA InvStep == IInv /\ [Next]_vars => IInv'
<1>. SUFFICES ASSUME IInv, [Next]_vars PROVE IInv'
  OBVIOUS
<1>1. TypeOK'
  BY TypeStep DEF IInv
<1>. QED
  BY <1>1, CopiesStep, DraftsStep, TrailStep, NarrowsStep, LateCallsStep DEF IInv

\* The inductive invariant holds in every reachable state.
THEOREM Invariance == Spec => []IInv
  BY InitInv, InvStep, PTL DEF Spec

\* Types are kept by every operation of the gateway.
THEOREM TypeCorrect == Spec => []TypeOK
<1>1. IInv => TypeOK
  BY DEF IInv
<1>. QED BY <1>1, Invariance, PTL

\* For every tree of delegations, of any depth, made by any interleaving of
\* delegateToken's three segments with other calls and revocations, a child's
\* scope stays strictly inside its parent's and its expiry at or before it.
THEOREM DelegationNarrows == Spec => []NarrowsParent
<1>1. IInv => NarrowsParent
  BY DEF IInv
<1>. QED BY <1>1, Invariance, PTL

\* A call of enforceToken that starts after a revocation was logged is never
\* allowed, nor one outside the scope or the lifetime of the token.
THEOREM RevocationSeenByLaterCalls == Spec => []LateCallsAreDenied
<1>1. IInv => LateCallsAreDenied
  BY DEF IInv
<1>. QED BY <1>1, Invariance, PTL

\* No operation un-revokes a token or rewrites its scope, dates or parent.
THEOREM TokensAreOnlyRevoked == Spec => StoredTokenOnlyRevoked
<1>1. TypeOK /\ [Next]_vars =>
        [\A t \in Id : Present(t) =>
          /\ store'[t].status \in {store[t].status, "revoked"}
          /\ store'[t].scope = store[t].scope
          /\ store'[t].issuedAt = store[t].issuedAt
          /\ store'[t].expiresAt = store[t].expiresAt
          /\ store'[t].parent = store[t].parent]_vars
  BY StoreStep DEF Keeps
<1>. QED BY <1>1, TypeCorrect, PTL DEF Spec, StoredTokenOnlyRevoked

-----------------------------------------------------------------------------
(* The trail in the log and the lineage of a token, on top of IInv.  What  *)
(* is added: each revoked token has one latest revocation, with its reason *)
(* (LatestEntry); the log speaks only of tokens the store holds (Logged);  *)
(* every walk from a token to its parents ends in one root (OneRoot),      *)
(* which was approved once (Approved).  A cascade is the least set closed  *)
(* under active children and a lineage the least set closed under parents: *)
(* both are used by closure and leastness only, so trees of any depth and  *)
(* stores of any size are meant.                                           *)

LatestEntry ==
    \A t \in Id : store[t].status = "revoked" =>
        \E e \in Revocations(t) :
            /\ e.reason = store[t].reason
            /\ \A f \in Revocations(t) : f = e \/ f.turn < e.turn

Logged == \A e \in audit : Present(e.token)

Roots(t) == {a \in Lineage(t) : store[a].parent = None}

OneRoot == \A t \in Id : Present(t) => \E r \in Id : Present(r) /\ Roots(t) = {r}

Approvals(r) == {e \in audit : e.token = r /\ e.decision = "request_approved"}

Approved ==
    \A r \in Id : Present(r) /\ store[r].parent = None => \E e \in audit : Approvals(r) = {e}

HInv == /\ LatestEntry /\ CascadeLoggedOnce /\ OrphansPostdateRevocation
        /\ Logged /\ OneRoot /\ Approved

-----------------------------------------------------------------------------
(* The steps that the store and the log see.                                *)

\* A token t with parent p is saved and logged.
Granted(t, p) ==
    /\ ~Present(t) /\ (p # None => p \in Id /\ Present(p))
    /\ store'[t].status = "active" /\ store'[t].parent = p
    /\ \A d \in Id : d # t => store'[d] = store[d]
    /\ audit' = audit \cup
          {IF p = None THEN Entry(t, "approve_request", "request_approved", "none")
           ELSE Entry(t, "delegate", "allowed", "none")}

Used(t) ==
    /\ Present(t) /\ UNCHANGED store
    /\ audit' = audit \cup {Entry(t, "enforce", "allowed", "none")}

\* Saving the draft of a call, with the entry its operation writes.
LEMMA SaveGrants ==
  ASSUME IInv, NEW c \in Call, call[c].pc = "hash", NEW t \in Id, Save(c, t),
         \/ /\ call[c].op = "issue"
            /\ Record({Entry(t, "approve_request", "request_approved", "none")})
         \/ call[c].op = "delegate" /\ Record({Entry(t, "delegate", "allowed", "none")})
  PROVE  Granted(t, call[c].token)
<1>1. /\ store'[t] = NewToken(call[c]) /\ ~Present(t)
      /\ \A d \in Id : d # t => store'[d] = store[d]
  BY DEF Save, Fresh, IInv, TypeOK
<1>2. store'[t].status = "active" /\ store'[t].parent = call[c].token
  BY <1>1 DEF NewToken
<1>3. /\ call[c].op = "issue" => call[c].token = None
      /\ call[c].op = "delegate" => call[c].token \in Id /\ Present(call[c].token)
  BY DEF IInv, Drafts
<1>4. audit' = audit \cup
          {IF call[c].token = None
           THEN Entry(t, "approve_request", "request_approved", "none")
           ELSE Entry(t, "delegate", "allowed", "none")}
  BY <1>3, NoneAssumption DEF Record
<1>. QED BY <1>1, <1>2, <1>3, <1>4, NoneAssumption DEF Granted

\* Every step is a grant, a use, a revocation, or one they do not see.
LEMMA Steps ==
  ASSUME IInv, [Next]_vars
  PROVE  \/ UNCHANGED <<store, audit>>
         \/ \E t \in Id : Used(t)
         \/ \E t \in Id, p \in Id \cup {None} : Granted(t, p)
         \/ \E t \in Id : Revoke(t)
<1>. DEFINE Seen == \/ UNCHANGED <<store, audit>>
                    \/ \E t \in Id : Used(t)
                    \/ \E t \in Id, p \in Id \cup {None} : Granted(t, p)
<1>1. ASSUME NEW c \in Call, IssueEnd(c) \/ DelegateEnd(c) PROVE Seen
  <2>1. CASE \E t \in Id : /\ call[c].pc = "hash" /\ Save(c, t)
              /\ \/ /\ call[c].op = "issue"
                    /\ Record({Entry(t, "approve_request", "request_approved", "none")})
                 \/ /\ call[c].op = "delegate"
                    /\ Record({Entry(t, "delegate", "allowed", "none")})
    <3>1. PICK t \in Id : Granted(t, call[c].token)
      BY <2>1, SaveGrants
    <3>2. call[c].token \in Id \cup {None}
      BY DEF IInv, TypeOK, CallRec
    <3>. HIDE DEF Seen
    <3>. QED BY <3>1, <3>2 DEF Seen
  <2>2. CASE UNCHANGED <<store, audit>>
    BY <2>2
  <2>. QED BY <1>1, <2>1, <2>2 DEF IssueEnd, DelegateEnd, Deny, NoRecord
<1>2. ASSUME NEW c \in Call, NEW ok \in BOOLEAN, EnforceEnd(c, ok) PROVE Seen
  <2>1. call[c].token \in Id /\ Present(call[c].token)
    BY <1>2 DEF EnforceEnd, IInv, Copies
  <2>2. UNCHANGED <<store, audit>> \/ Used(call[c].token)
    BY <1>2, <2>1 DEF EnforceEnd, Deny, NoRecord, Record, Used
  <2>. QED BY <2>1, <2>2
<1>3. ASSUME NEW c \in Call, Arrive(c) \/ IssueUnavailable(c)
                             \/ \E ok \in BOOLEAN : DelegateVerified(c, ok)
      PROVE  UNCHANGED <<store, audit>>
  BY <1>3 DEF Arrive, IssueBegin, EnforceBegin, DelegateBegin, IssueUnavailable,
     DelegateVerified, Deny, NoRecord
<1>4. Tick \/ UNCHANGED vars => UNCHANGED <<store, audit>>
  BY DEF Tick, vars
<1>. QED BY <1>1, <1>2, <1>3, <1>4 DEF Next, Resume

-----------------------------------------------------------------------------
(* Cascades.                                                                *)

\* A cascade is closed under active children, and holds active tokens only.
LEMMA CascadeClosed ==
  ASSUME NEW r \in Id, NEW p \in Cascade(r) \cup {r}, NEW d \in Id,
         Present(d), store[d].parent = p, store[d].status = "active"
  PROVE  d \in Cascade(r)
<1>1. d \in Children(p)
  BY DEF Children
<1>. QED BY <1>1 DEF Cascade

\* A token that is revoked already is not reached by a cascade.
LEMMA CascadeActive ==
  ASSUME NEW r \in Id, NEW d \in Cascade(r)
  PROVE  store[d].status = "active"
<1>. DEFINE S == {e \in Id : store[e].status = "active"}
<1>1. \A p \in S \cup {r} : \A e \in Children(p) :
          store[e].status = "active" => e \in S
  BY DEF Children
<1>. QED BY <1>1 DEF Cascade

\* What a revocation of r does to a token t: r is revoked by the operator, the
\* cascade by its parent, and each gets one entry; the others get nothing.
LEMMA RevokeEffect ==
  ASSUME IInv, NEW r \in Id, Revoke(r), NEW t \in Id
  PROVE  /\ t = r => /\ store'[t].status = "revoked" /\ store'[t].reason = "operator"
                     /\ Revocations(t)' = Revocations(t) \cup
                            {Entry(t, "revoke", "revoked", "operator")}
         /\ t # r /\ t \in Cascade(r) =>
                     /\ store'[t].status = "revoked" /\ store'[t].reason = "parent_revoked"
                     /\ Revocations(t)' = Revocations(t) \cup
                            {Entry(t, "revoke", "revoked", "parent_revoked")}
         /\ t # r /\ t \notin Cascade(r) =>
                     store'[t] = store[t] /\ Revocations(t)' = Revocations(t)
<1>1. /\ store' = StoreAfterRevoke(r)
      /\ audit' = audit \cup ({Entry(r, "revoke", "revoked", "operator")} \cup
             {Entry(d, "revoke", "revoked", "parent_revoked") : d \in Cascade(r) \ {r}})
  BY DEF Revoke, Record
<1>2. store[t] \in TokenRec
  BY DEF IInv, TypeOK
<1>3. /\ t = r => store'[t] = RevokedRec(store[t], "operator")
      /\ t # r /\ t \in Cascade(r) => store'[t] = RevokedRec(store[t], "parent_revoked")
      /\ t # r /\ t \notin Cascade(r) => store'[t] = store[t]
  BY <1>1 DEF StoreAfterRevoke
<1>4. \A reason : /\ RevokedRec(store[t], reason).status = "revoked"
                  /\ RevokedRec(store[t], reason).reason = reason
  BY <1>2 DEF RevokedRec, TokenRec
<1>5. \A d, reason : /\ Entry(d, "revoke", "revoked", reason).token = d
                     /\ Entry(d, "revoke", "revoked", reason).decision = "revoked"
  BY DEF Entry
<1>6. Revocations(t)' = Revocations(t) \cup
          {e \in {Entry(r, "revoke", "revoked", "operator")} \cup
                 {Entry(d, "revoke", "revoked", "parent_revoked") :
                     d \in Cascade(r) \ {r}} : e.token = t}
  BY <1>1, <1>5 DEF Revocations
<1>7. {e \in {Entry(r, "revoke", "revoked", "operator")} \cup
             {Entry(d, "revoke", "revoked", "parent_revoked") :
                 d \in Cascade(r) \ {r}} : e.token = t}
      = (IF t = r THEN {Entry(t, "revoke", "revoked", "operator")}
         ELSE IF t \in Cascade(r) THEN {Entry(t, "revoke", "revoked", "parent_revoked")}
         ELSE {})
  BY <1>5
<1>. QED BY <1>3, <1>4, <1>6, <1>7

\* A grant or a use writes no revocation.
LEMMA RevocationsKept ==
  ASSUME NEW t,
         \/ UNCHANGED audit
         \/ \E d : Used(d)
         \/ \E d, p : Granted(d, p)
  PROVE  Revocations(t)' = Revocations(t)
<1>1. \A d, a, o : o \in {"allowed", "request_approved"} =>
          Entry(d, a, o, "none").decision # "revoked"
  BY DEF Entry
<1>. QED BY <1>1 DEF Used, Granted, Revocations

-----------------------------------------------------------------------------
(* The log and the store.                                                   *)

\* Every step keeps LatestEntry: a revocation is later than those before it,
\* and it is the only one of its token in its turn.
LEMMA LatestStep ==
  IInv /\ LatestEntry /\ [Next]_vars => LatestEntry'
<1>. SUFFICES ASSUME IInv, LatestEntry, [Next]_vars, NEW t \in Id,
                     store'[t].status = "revoked"
              PROVE  \E e \in Revocations(t)' :
                        /\ e.reason = store'[t].reason
                        /\ \A f \in Revocations(t)' : f = e \/ f.turn < e.turn
  BY DEF LatestEntry
<1>1. CASE store'[t] = store[t] /\ Revocations(t)' = Revocations(t)
  BY <1>1 DEF LatestEntry
<1>2. ASSUME NEW reason \in {"operator", "parent_revoked"},
             NEW e, e = Entry(t, "revoke", "revoked", reason),
             store'[t].reason = reason, Revocations(t)' = Revocations(t) \cup {e}
      PROVE  \E g \in Revocations(t)' :
                /\ g.reason = store'[t].reason
                /\ \A f \in Revocations(t)' : f = g \/ f.turn < g.turn
  <2>1. e.turn = turn /\ e.reason = reason
    BY <1>2 DEF Entry
  <2>2. \A f \in Revocations(t) : f.turn < turn
    BY DEF IInv, Trail, Revocations
  <2>. QED BY <1>2, <2>1, <2>2
<1>3. CASE \E r \in Id : Revoke(r)
  BY <1>1, <1>2, <1>3, RevokeEffect
<1>4. CASE \E d \in Id, p \in Id \cup {None} : Granted(d, p)
  <2>1. PICK d \in Id, p \in Id \cup {None} : Granted(d, p)
    BY <1>4
  <2>2. store'[t] = store[t]
    BY <2>1 DEF Granted
  <2>. QED BY <1>1, <2>1, <2>2, RevocationsKept
<1>5. CASE UNCHANGED <<store, audit>> \/ \E d \in Id : Used(d)
  BY <1>1, <1>5, RevocationsKept DEF Used
<1>. QED BY <1>3, <1>4, <1>5, Steps

\* Every step keeps CascadeLoggedOnce: a cascade reaches active tokens, which
\* have no revocation in the log, and whatever follows is later.
LEMMA OnceStep ==
  IInv /\ LatestEntry /\ CascadeLoggedOnce /\ [Next]_vars => CascadeLoggedOnce'
<1>. SUFFICES ASSUME IInv, CascadeLoggedOnce, [Next]_vars, NEW t \in Id,
                     NEW e \in Revocations(t)', e.reason = "parent_revoked",
                     NEW f \in Revocations(t)', f # e
              PROVE  f.turn > e.turn
  BY DEF CascadeLoggedOnce
<1>1. CASE Revocations(t)' = Revocations(t)
  BY <1>1 DEF CascadeLoggedOnce
<1>2. ASSUME NEW r \in Id, Revoke(r) PROVE f.turn > e.turn
  <2>1. CASE t = r
    <3>1. Revocations(t)' = Revocations(t) \cup {Entry(t, "revoke", "revoked", "operator")}
      BY <1>2, <2>1, RevokeEffect
    <3>2. /\ Entry(t, "revoke", "revoked", "operator").reason = "operator"
          /\ Entry(t, "revoke", "revoked", "operator").turn = turn
      BY DEF Entry
    <3>3. e \in Revocations(t) /\ e.turn < turn /\ e.turn \in Nat /\ turn \in Nat
      BY <3>1, <3>2 DEF IInv, TypeOK, EntryRec, Trail, Revocations
    <3>4. CASE f \in Revocations(t)
      BY <3>3, <3>4 DEF CascadeLoggedOnce
    <3>5. CASE f = Entry(t, "revoke", "revoked", "operator")
      BY <3>2, <3>3, <3>5
    <3>. QED BY <3>1, <3>4, <3>5
  <2>2. CASE t # r /\ t \in Cascade(r)
    <3>1. Revocations(t)' =
             Revocations(t) \cup {Entry(t, "revoke", "revoked", "parent_revoked")}
      BY <1>2, <2>2, RevokeEffect
    <3>2. Revocations(t) = {}
      BY <2>2, CascadeActive DEF IInv, Trail, Revocations
    <3>. QED BY <3>1, <3>2
  <2>3. CASE t # r /\ t \notin Cascade(r)
    BY <1>1, <1>2, <2>3, RevokeEffect
  <2>. QED BY <2>1, <2>2, <2>3
<1>3. CASE UNCHANGED <<store, audit>> \/ (\E d \in Id : Used(d))
           \/ \E d \in Id, p \in Id \cup {None} : Granted(d, p)
  BY <1>1, <1>3, RevocationsKept
<1>. QED BY <1>2, <1>3, Steps

\* The delegation of an active token t in the log, later than entry r.
Delegated(t, r) ==
    \E e \in audit : /\ e.action = "delegate" /\ e.decision = "allowed"
                     /\ e.token = t /\ e.turn > r.turn

\* Every step keeps OrphansPostdateRevocation: a revocation takes with it the
\* active children that are there, and a grant is later than what is logged.
LEMMA OrphansStep ==
  IInv /\ OrphansPostdateRevocation /\ [Next]_vars => OrphansPostdateRevocation'
<1>0. IInv /\ [Next]_vars =>
        \A t \in Id : store'[t].parent # None => store'[t].parent \in Id
  BY TypeStep DEF IInv, TypeOK, TokenRec
<1>. SUFFICES ASSUME IInv, OrphansPostdateRevocation, [Next]_vars, NEW t \in Id,
                     store'[t].status = "active", NEW p \in Id, p = store'[t].parent,
                     NEW r \in Revocations(p)'
              PROVE  Delegated(t, r)'
  BY <1>0 DEF OrphansPostdateRevocation, Delegated, Revocations
<1>1. ASSUME store'[t] = store[t], r \in Revocations(p) PROVE Delegated(t, r)'
  <2>1. Delegated(t, r)
    BY <1>1, NoneAssumption DEF OrphansPostdateRevocation, Delegated
  <2>2. audit \subseteq audit'
    BY AuditStep DEF IInv
  <2>. QED BY <2>1, <2>2 DEF Delegated
<1>2. ASSUME NEW d \in Id, NEW q \in Id \cup {None}, Granted(d, q) PROVE Delegated(t, r)'
  <2>1. r \in Revocations(p)
    BY <1>2, RevocationsKept
  <2>2. CASE t = d
    <3>1. q = p /\ audit' = audit \cup {Entry(t, "delegate", "allowed", "none")}
      BY <1>2, <2>2, NoneAssumption DEF Granted
    <3>2. LET e == Entry(t, "delegate", "allowed", "none") IN
          e.action = "delegate" /\ e.decision = "allowed" /\ e.token = t /\ e.turn = turn
      BY DEF Entry
    <3>3. r.turn < turn /\ r.turn \in Nat /\ turn \in Nat
      BY <2>1 DEF IInv, TypeOK, EntryRec, Trail, Revocations
    <3>4. turn > r.turn
      BY <3>3
    <3>. QED BY <3>1, <3>2, <3>4 DEF Delegated
  <2>3. CASE t # d
    BY <1>1, <1>2, <2>1, <2>3 DEF Granted
  <2>. QED BY <2>2, <2>3
<1>3. ASSUME NEW d \in Id, Revoke(d) PROVE Delegated(t, r)'
  <2>1. t # d /\ t \notin Cascade(d) /\ store'[t] = store[t]
    BY <1>3, RevokeEffect
  <2>2. p # d /\ p \notin Cascade(d)
    BY <2>1, CascadeClosed DEF Present
  <2>3. r \in Revocations(p)
    BY <1>3, <2>2, RevokeEffect
  <2>. QED BY <1>1, <2>1, <2>3
<1>4. CASE UNCHANGED <<store, audit>> \/ \E d \in Id : Used(d)
  BY <1>1, <1>4, RevocationsKept DEF Used
<1>. QED BY <1>2, <1>3, <1>4, Steps

\* Every step keeps Logged.
LEMMA LoggedStep ==
  IInv /\ Logged /\ [Next]_vars => Logged'
<1>. SUFFICES ASSUME IInv, Logged, [Next]_vars, NEW e \in audit', NEW t, t = e.token
              PROVE  t \in Id /\ Present(t)'
  BY DEF Logged
<1>1. \A d, a, o, w : Entry(d, a, o, w).token = d
  BY DEF Entry
<1>2. ASSUME t \in Id, Present(t) PROVE Present(t)'
  BY <1>2, StoreStep DEF IInv
<1>3. CASE e \in audit
  BY <1>2, <1>3 DEF IInv, TypeOK, EntryRec, Logged
<1>4. ASSUME e \notin audit, NEW d \in Id, Used(d) PROVE t \in Id /\ Present(t)'
  BY <1>1, <1>2, <1>4 DEF Used
<1>5. ASSUME e \notin audit, NEW d \in Id, NEW p \in Id \cup {None}, Granted(d, p)
      PROVE  t \in Id /\ Present(t)'
  <2>1. t = d
    BY <1>1, <1>5 DEF Granted
  <2>. QED BY <1>5, <2>1 DEF Granted, Present
<1>6. ASSUME e \notin audit, NEW d \in Id, Revoke(d) PROVE t \in Id /\ Present(t)'
  <2>1. t = d \/ t \in Cascade(d)
    BY <1>1, <1>6 DEF Revoke, Record
  <2>2. Present(d)
    BY <1>6 DEF Revoke
  <2>. QED BY <1>2, <2>1, <2>2, CascadePresent
<1>. QED BY <1>3, <1>4, <1>5, <1>6, Steps

\* Every step keeps Approved: only the approval of a new root is an approval.
LEMMA ApprovedStep ==
  IInv /\ Logged /\ Approved /\ [Next]_vars => Approved'
<1>. SUFFICES ASSUME IInv, Logged, Approved, [Next]_vars, NEW r \in Id,
                     Present(r)', store'[r].parent = None
              PROVE  \E e \in audit' : Approvals(r)' = {e}
  BY DEF Approved
<1>1. ASSUME Present(r), store'[r].parent = store[r].parent,
             Approvals(r)' = Approvals(r)
      PROVE  \E e \in audit' : Approvals(r)' = {e}
  <2>1. audit \subseteq audit'
    BY AuditStep DEF IInv
  <2>. QED BY <1>1, <2>1 DEF Approved
<1>2. \A d, a, o, w : Entry(d, a, o, w).token = d /\ Entry(d, a, o, w).decision = o
  BY DEF Entry
<1>3. ASSUME NEW d \in Id, NEW p \in Id \cup {None}, Granted(d, p)
      PROVE  \E e \in audit' : Approvals(r)' = {e}
  <2>1. CASE r = d
    <3>1. p = None /\ audit' = audit \cup
              {Entry(r, "approve_request", "request_approved", "none")}
      BY <1>3, <2>1 DEF Granted
    <3>2. \A e \in audit : e.token # r
      BY <1>3, <2>1 DEF Granted, Logged
    <3>3. Approvals(r)' = {Entry(r, "approve_request", "request_approved", "none")}
      BY <1>2, <3>1, <3>2 DEF Approvals
    <3>. QED BY <3>1, <3>3
  <2>2. CASE r # d
    <3>1. store'[r] = store[r] /\ Present(r)
      BY <1>3, <2>2 DEF Granted, Present
    <3>2. Approvals(r)' = Approvals(r)
      BY <1>2, <1>3, <2>2 DEF Granted, Approvals
    <3>. QED BY <1>1, <3>1, <3>2
  <2>. QED BY <2>1, <2>2
<1>4. ASSUME NEW d \in Id, Used(d) PROVE \E e \in audit' : Approvals(r)' = {e}
  <2>1. Approvals(r)' = Approvals(r)
    BY <1>2, <1>4 DEF Used, Approvals
  <2>. QED BY <1>1, <1>4, <2>1 DEF Used, Present
<1>5. ASSUME NEW d \in Id, Revoke(d) PROVE \E e \in audit' : Approvals(r)' = {e}
  <2>1. \A e \in audit' : e \in audit \/ e.decision = "revoked"
    BY <1>2, <1>5 DEF Revoke, Record
  <2>2. Approvals(r)' = Approvals(r)
    BY <1>5, <2>1 DEF Revoke, Record, Approvals
  <2>3. Present(r)
    <3>1. Present(d) /\ \A c \in Cascade(d) : Present(c)
      BY <1>5, CascadePresent DEF Revoke
    <3>2. r = d \/ r \in Cascade(d) \/ store'[r] = store[r]
      BY <1>5, RevokeEffect
    <3>. QED BY <3>1, <3>2 DEF Present
  <2>4. Keeps(r)
    BY <2>3, StoreStep DEF IInv
  <2>. QED BY <1>1, <2>2, <2>3, <2>4 DEF Keeps
<1>6. CASE UNCHANGED <<store, audit>>
  BY <1>1, <1>6 DEF Present, Approvals
<1>. QED BY <1>3, <1>4, <1>5, <1>6, Steps

-----------------------------------------------------------------------------
(* Lineages.                                                                *)

\* A lineage holds its token and the parent of each of its members, and is the
\* least set that does.
LEMMA LineageLeast ==
  ASSUME NEW t \in Id
  PROVE  /\ t \in Lineage(t) /\ Lineage(t) \subseteq Id
         /\ \A a \in Lineage(t) : store[a].parent \in Id =>
               store[a].parent \in Lineage(t)
         /\ \A S \in SUBSET Id :
               (t \in S /\ \A d \in S : store[d].parent \in Id => store[d].parent \in S)
                  => Lineage(t) \subseteq S
  BY DEF Lineage

\* The lineage of a stored token consists of stored tokens.
LEMMA LineagePresent ==
  ASSUME IInv, NEW t \in Id, Present(t), NEW a \in Lineage(t)
  PROVE  a \in Id /\ Present(a)
<1>. DEFINE S == {d \in Id : Present(d)}
<1>1. \A d \in S : store[d].parent \in Id => store[d].parent \in S
  BY NoneAssumption DEF IInv, NarrowsParent
<1>. QED BY <1>1, LineageLeast

\* A step keeps the lineage of a stored token.
LEMMA LineageKept ==
  ASSUME IInv, [Next]_vars, NEW t \in Id, Present(t)
  PROVE  Lineage(t)' = Lineage(t)
<1>1. \A d \in Id : Present(d) => store'[d].parent = store[d].parent
  BY StoreStep DEF IInv, Keeps
<1>2. \A a \in Lineage(t) : a \in Id /\ Present(a)
  BY LineagePresent
<1>3. Lineage(t)' \subseteq Lineage(t)
  <2>1. \A a \in Lineage(t) : store'[a].parent \in Id => store'[a].parent \in Lineage(t)
    BY <1>1, <1>2, LineageLeast
  <2>2. t \in Lineage(t) /\ Lineage(t) \in SUBSET Id
    BY LineageLeast
  <2>. QED BY <2>1, <2>2 DEF Lineage
<1>4. Lineage(t) \subseteq Lineage(t)'
  <2>. DEFINE S == {a \in Lineage(t)' : a \in Lineage(t)}
  <2>1. t \in Lineage(t)' /\ \A a \in Lineage(t)' : store'[a].parent \in Id =>
                                store'[a].parent \in Lineage(t)'
    BY DEF Lineage
  <2>2. \A a \in S : store[a].parent \in Id => store[a].parent \in S
    BY <1>1, <1>2, <2>1, LineageLeast
  <2>3. t \in S /\ S \in SUBSET Id
    BY <1>2, <2>1, LineageLeast
  <2>4. Lineage(t) \subseteq S
    BY <2>2, <2>3, LineageLeast
  <2>. QED BY <2>4
<1>. QED BY <1>3, <1>4

\* The lineage of a new token is the token and its parent's lineage.
LEMMA LineageGrown ==
  ASSUME IInv, [Next]_vars, NEW t \in Id, NEW p \in Id, Granted(t, p)
  PROVE  Lineage(t)' = {t} \cup Lineage(p)
<1>1. /\ Present(p) /\ store'[t].parent = p /\ ~Present(t)
      /\ Lineage(p)' = Lineage(p)
  BY NoneAssumption, LineageKept DEF Granted
<1>2. \A a \in Lineage(p) : a \in Id /\ Present(a)
  BY <1>1, LineagePresent
<1>3. \A a \in Lineage(p) : store'[a].parent = store[a].parent
  BY <1>2, StoreStep DEF IInv, Keeps
<1>4. Lineage(t)' \subseteq {t} \cup Lineage(p)
  <2>. DEFINE S == {t} \cup Lineage(p)
  <2>1. \A d \in S : store'[d].parent \in Id => store'[d].parent \in S
    BY <1>1, <1>3, LineageLeast
  <2>2. t \in S /\ S \in SUBSET Id
    BY <1>2
  <2>. HIDE DEF S
  <2>3. Lineage(t)' \subseteq S
    BY <2>1, <2>2 DEF Lineage
  <2>. QED BY <2>3 DEF S
<1>5. {t} \cup Lineage(p) \subseteq Lineage(t)'
  <2>1. t \in Lineage(t)' /\ \A a \in Lineage(t)' : store'[a].parent \in Id =>
                                store'[a].parent \in Lineage(t)'
    BY DEF Lineage
  <2>2. p \in Lineage(t)' /\ Lineage(t)' \in SUBSET Id
    BY <1>1, <2>1 DEF Lineage
  <2>3. Lineage(p)' \subseteq Lineage(t)'
    BY <2>1, <2>2 DEF Lineage
  <2>. QED BY <1>1, <2>1, <2>3
<1>. QED BY <1>4, <1>5

\* Every step keeps OneRoot.
LEMMA OneRootStep ==
  IInv /\ OneRoot /\ [Next]_vars => OneRoot'
<1>. SUFFICES ASSUME IInv, OneRoot, [Next]_vars, NEW t \in Id, Present(t)'
              PROVE  \E r \in Id : Present(r)' /\ Roots(t)' = {r}
  BY DEF OneRoot
\* The roots of a stored token, and of what is built on it.
<1>1. ASSUME NEW p \in Id, Present(p)
      PROVE  \E r \in Id : /\ Present(r)'
                           /\ {a \in Lineage(p) : store'[a].parent = None} = {r}
  <2>1. PICK r \in Id : Present(r) /\ Roots(p) = {r}
    BY <1>1 DEF OneRoot
  <2>2. \A a \in Lineage(p) : store'[a].parent = store[a].parent
    BY <1>1, LineagePresent, StoreStep DEF IInv, Keeps
  <2>3. {a \in Lineage(p) : store'[a].parent = None} = Roots(p)
    BY <2>2 DEF Roots
  <2>. QED BY <2>1, <2>3, StoreStep DEF IInv
<1>2. CASE Present(t)
  BY <1>1, <1>2, LineageKept DEF Roots
<1>3. CASE ~Present(t)
  <2>1. PICK p \in Id \cup {None} : Granted(t, p)
    <3>1. ~ \E r \in Id : Revoke(r)
      <4>1. ASSUME NEW r \in Id, Revoke(r) PROVE FALSE
        <5>1. t # r /\ t \notin Cascade(r)
          BY <1>3, <4>1, CascadePresent DEF Revoke
        <5>. QED BY <1>3, <4>1, <5>1, RevokeEffect DEF Present
      <4>. QED BY <4>1
    <3>. QED BY <1>3, <3>1, Steps DEF Used, Granted, Present
  <2>2. CASE p = None
    <3>1. store'[t].parent = None
      BY <2>1, <2>2 DEF Granted
    <3>2. Lineage(t)' = {t}
      BY <3>1, NoneAssumption DEF Lineage
    <3>. QED BY <3>1, <3>2 DEF Roots
  <2>3. CASE p # None
    <3>1. p \in Id /\ Present(p) /\ Lineage(t)' = {t} \cup Lineage(p)
      BY <2>1, <2>3, LineageGrown DEF Granted
    <3>2. store'[t].parent # None
      BY <2>1, <2>3 DEF Granted
    <3>3. Roots(t)' = {a \in Lineage(p) : store'[a].parent = None}
      BY <3>1, <3>2 DEF Roots
    <3>. QED BY <1>1, <3>1, <3>3
  <2>. QED BY <2>2, <2>3
<1>. QED BY <1>2, <1>3

-----------------------------------------------------------------------------
(* The theorems.                                                           *)

\* The invariant of the trail holds in the initial state.
LEMMA TrailInit == Init => HInv
  BY DEF Init, HInv, Absent, Present, LatestEntry, CascadeLoggedOnce, Revocations,
     OrphansPostdateRevocation, Logged, OneRoot, Approved

\* It holds in every reachable state, together with the first one.
THEOREM TrailInvariance == Spec => [](IInv /\ HInv)
<1>1. IInv /\ HInv /\ [Next]_vars => (IInv /\ HInv)'
  BY InvStep, LatestStep, OnceStep, OrphansStep, LoggedStep, OneRootStep, ApprovedStep
  DEF HInv
<1>. QED BY <1>1, InitInv, TrailInit, PTL DEF Spec

\* The store and the log agree about every revocation of every token, and
\* about the reason of the latest one.
THEOREM RecordsMatchTrail == Spec => []RecordMatchesTrail
<1>1. IInv /\ HInv => RecordMatchesTrail
  <2>. SUFFICES ASSUME IInv, HInv, NEW t \in Id
                PROVE  /\ (store[t].status = "revoked") <=> (Revocations(t) # {})
                       /\ Revocations(t) # {} => store[t].reason = LatestReason(t)
    BY DEF RecordMatchesTrail
  <2>1. Revocations(t) # {} => store[t].status = "revoked"
    BY DEF IInv, Trail, Revocations
  <2>2. ASSUME store[t].status = "revoked"
        PROVE  Revocations(t) # {} /\ store[t].reason = LatestReason(t)
    <3>1. PICK e \in Revocations(t) : /\ e.reason = store[t].reason
                                      /\ \A f \in Revocations(t) : f = e \/ f.turn < e.turn
      BY <2>2 DEF HInv, LatestEntry
    <3>2. \A f \in Revocations(t) : f.turn \in Nat
      BY DEF IInv, TypeOK, EntryRec, Revocations
    <3>3. \A f \in Revocations(t) : f.turn <= e.turn
      BY <3>1, <3>2
    <3>4. \A g \in Revocations(t) :
              (\A f \in Revocations(t) : f.turn <= g.turn) => g = e
      BY <3>1, <3>2
    <3>5. (CHOOSE g \in Revocations(t) :
              \A f \in Revocations(t) : f.turn <= g.turn) = e
      BY <3>3, <3>4
    <3>. QED BY <3>1, <3>5 DEF LatestReason
  <2>. QED BY <2>1, <2>2
<1>. QED BY <1>1, TrailInvariance, PTL

\* However often its ancestors are revoked, a token gets at most one entry
\* from a cascade, and as its first.
THEOREM CascadesLogOnce == Spec => []CascadeLoggedOnce
<1>1. IInv /\ HInv => CascadeLoggedOnce
  BY DEF HInv
<1>. QED BY <1>1, TrailInvariance, PTL

\* In trees of any depth, an active token under a revoked parent was delegated
\* after every revocation of the parent that the log shows.
THEOREM OrphansAreLate == Spec => []OrphansPostdateRevocation
<1>1. IInv /\ HInv => OrphansPostdateRevocation
  BY DEF HInv
<1>. QED BY <1>1, TrailInvariance, PTL

\* Every walk up a tree of delegations, however deep, ends in one root, and
\* the log holds one approval of it.
THEOREM LineageOrigin == Spec => []LineageHasOneOrigin
<1>1. IInv /\ HInv => LineageHasOneOrigin
  <2>. SUFFICES ASSUME IInv, HInv, NEW t \in Id, Present(t)
                PROVE  /\ Cardinality(Roots(t)) = 1
                       /\ \A r \in Roots(t) : Cardinality(Approvals(r)) = 1
    BY DEF LineageHasOneOrigin, Roots, Approvals
  <2>1. PICK r \in Id : Present(r) /\ Roots(t) = {r}
    BY DEF HInv, OneRoot
  <2>2. store[r].parent = None
    BY <2>1 DEF Roots
  <2>3. PICK e : Approvals(r) = {e}
    BY <2>1, <2>2 DEF HInv, Approved
  <2>. QED BY <2>1, <2>3, FS_Singleton
<1>. QED BY <1>1, TrailInvariance, PTL

-----------------------------------------------------------------------------
(* The circuit breaker, for every threshold and cooldown.  The invariant   *)
(* relates its own counters to what its callers and the clock have seen:   *)
(* its count of failures never exceeds theirs (Counts), and the cooldown   *)
(* that is left plus the time since the circuit opened never falls below a *)
(* full cooldown (Cools).                                                  *)

\* Callers may see more failures in a row than the breaker counts: a closing
\* that cannot be logged is an error to the caller and restarts the count.
Counts == failures <= streak

Cools == state = "open" => gap + wait >= Cooldown

BreakerInv == /\ BreakerTypeOK /\ Counts /\ Cools
        /\ OpensAfterStreak /\ ProbesAreSpaced

-----------------------------------------------------------------------------
\* The invariant holds in the initial state.
LEMMA BreakerInitInv == BreakerInit => BreakerInv
<1>. SUFFICES ASSUME BreakerInit PROVE BreakerInv
  OBVIOUS
<1>1. Threshold \in Nat /\ Cooldown \in Nat
  BY ConfigAssumption
<1>2. BreakerTypeOK
  <2>1. Cooldown \in 0..Cooldown /\ 0 \in 0..Threshold /\ 0 \in 0..Cooldown
    BY <1>1
  <2>2. last \in [ran : BOOLEAN, error : {"none", "circuit_open", "write"},
                 gap : 0..Cooldown]
    BY <2>1 DEF BreakerInit
  <2>3. outage \in BOOLEAN /\ disk \in BOOLEAN
    BY DEF BreakerInit
  <2>. QED BY <2>1, <2>2, <2>3 DEF BreakerInit, BreakerTypeOK
<1>3. Counts /\ Cools /\ OpensAfterStreak /\ ProbesAreSpaced
  BY DEF BreakerInit, Counts, Cools, OpensAfterStreak, ProbesAreSpaced
<1>. QED BY <1>2, <1>3 DEF BreakerInv

\* Counting saturates at a bound and stays a natural number.
LEMMA UptoBounds ==
  ASSUME NEW bound \in Nat, NEW n \in 0..bound
  PROVE  /\ Upto(n + 1, bound) \in 0..bound
         /\ Upto(n + 1, bound) >= n
         /\ Upto(n + 1, bound) < bound => Upto(n + 1, bound) = n + 1
  BY DEF Upto

\* The record of the last call and the callers' streak keep their types.
LEMMA AnswerType ==
  ASSUME BreakerTypeOK, NEW didRun \in BOOLEAN, NEW probe \in BOOLEAN,
         NEW error \in {"none", "circuit_open", "write"},
         Answer(didRun, error, probe)
  PROVE  /\ last' \in [ran : BOOLEAN, error : {"none", "circuit_open", "write"},
                       gap : 0..Cooldown]
         /\ streak' \in 0..Threshold
<1>1. Threshold \in Nat /\ Cooldown \in Nat
  BY ConfigAssumption
<1>2. last' \in [ran : BOOLEAN, error : {"none", "circuit_open", "write"},
                 gap : 0..Cooldown]
  <2>1. (IF probe THEN gap ELSE Cooldown) \in 0..Cooldown
    BY <1>1 DEF BreakerTypeOK
  <2>. QED BY <2>1 DEF Answer
<1>3. streak' \in 0..Threshold
  <2>1. Upto(streak + 1, Threshold) \in 0..Threshold
    BY <1>1, UptoBounds DEF BreakerTypeOK
  <2>. QED BY <1>1, <2>1 DEF Answer
<1>. QED BY <1>2, <1>3

\* A trial call comes a full cooldown after the circuit opened or was probed.
LEMMA AnswerSpaced ==
  ASSUME BreakerInv, Passes, NEW didRun, NEW error, Answer(didRun, error, Probe)
  PROVE  ProbesAreSpaced'
<1>1. CASE Probe
  <2>1. gap = Cooldown
    BY <1>1, ConfigAssumption DEF Probe, Passes, BreakerInv, BreakerTypeOK, Cools
  <2>. QED BY <1>1, <2>1, ConfigAssumption DEF Answer, ProbesAreSpaced
<1>2. CASE ~Probe
  BY <1>2 DEF Answer, ProbesAreSpaced
<1>. QED BY <1>1, <1>2

\* A call that is let through and fails, in an outage or in the store.
LEMMA FailedCall ==
  ASSUME BreakerInv, Passes, OnFailure, UNCHANGED <<outage, disk>>,
         NEW didRun \in BOOLEAN, NEW error \in {"circuit_open", "write"},
         Answer(didRun, error, Probe)
  PROVE  BreakerInv'
<1>. DEFINE f == Upto(failures + 1, Threshold)
            s == Upto(streak + 1, Threshold)
<1>1. Threshold \in Nat /\ Cooldown \in Nat /\ BreakerTypeOK
  BY ConfigAssumption DEF BreakerInv
<1>2. f \in 0..Threshold /\ s \in 0..Threshold /\ s >= streak
  BY <1>1, UptoBounds DEF BreakerTypeOK
<1>3. f <= s
  BY <1>1 DEF BreakerInv, Counts, BreakerTypeOK, Upto
<1>4. failures' = f /\ streak' = s
  BY DEF OnFailure, Answer
<1>5. Probe \in BOOLEAN
  BY DEF Probe
<1>6. BreakerTypeOK'
  <2>1. /\ last' \in [ran : BOOLEAN, error : {"none", "circuit_open", "write"},
                      gap : 0..Cooldown]
        /\ streak' \in 0..Threshold
    BY <1>1, <1>5, AnswerType
  <2>2. state' \in {"closed", "open"} /\ wait' \in 0..Cooldown /\ gap' \in 0..Cooldown
    BY <1>1 DEF BreakerTypeOK, OnFailure
  <2>. QED BY <1>1, <1>2, <1>4, <2>1, <2>2 DEF BreakerTypeOK
<1>7. Counts'
  BY <1>3, <1>4 DEF Counts
<1>8. Cools'
  BY <1>1 DEF BreakerInv, Cools, OnFailure, BreakerTypeOK
<1>9. OpensAfterStreak'
  <2>1. CASE Probe
    <3>1. streak = Threshold
      BY <2>1 DEF Probe, BreakerInv, OpensAfterStreak
    <3>. QED BY <1>1, <1>2, <1>4, <3>1 DEF OpensAfterStreak
  <2>2. CASE ~Probe
    BY <1>1, <1>2, <1>3, <1>4, <2>2 DEF OnFailure, Probe, OpensAfterStreak
  <2>. QED BY <2>1, <2>2
<1>10. ProbesAreSpaced'
  BY AnswerSpaced
<1>. QED BY <1>6, <1>7, <1>8, <1>9, <1>10 DEF BreakerInv

\* A call that succeeds, or whose closing of the circuit cannot be logged.
LEMMA SucceededCall == ASSUME BreakerInv, Succeed PROVE BreakerInv'
<1>1. Threshold \in Nat \ {0} /\ Cooldown \in Nat \ {0} /\ BreakerTypeOK /\ Probe \in BOOLEAN
  BY ConfigAssumption DEF BreakerInv, Probe
<1>2. PICK error \in {"none", "write"} :
        /\ Answer(TRUE, error, Probe)
        /\ error = "none" => state' = "closed" /\ failures' = 0 /\ wait' = wait
        /\ error = "write" =>
              /\ Probe
              /\ failures' = Upto(1, Threshold)
              /\ IF failures' >= Threshold
                 THEN state' = "open" /\ wait' = Cooldown
                 ELSE state' = "closed" /\ wait' = wait
  <2>1. CASE state' = "closed" /\ failures' = 0 /\ Answer(TRUE, "none", Probe) /\ wait' = wait
    BY <2>1
  <2>2. CASE /\ Probe
             /\ failures' = Upto(1, Threshold)
             /\ IF failures' >= Threshold
                THEN state' = "open" /\ wait' = Cooldown
                ELSE state' = "closed" /\ wait' = wait
             /\ Answer(TRUE, "write", TRUE)
    <3>1. Answer(TRUE, "write", Probe)
      BY <2>2 DEF Answer
    <3>. QED BY <2>2, <3>1
  <2>. QED BY <2>1, <2>2 DEF Succeed
<1>3. /\ last' \in [ran : BOOLEAN, error : {"none", "circuit_open", "write"},
                    gap : 0..Cooldown]
      /\ streak' \in 0..Threshold
  BY <1>1, <1>2, AnswerType
<1>4. gap' \in 0..Cooldown /\ gap' = (IF Probe THEN 0 ELSE gap) /\ UNCHANGED <<outage, disk>>
  BY <1>1 DEF Succeed, BreakerTypeOK
<1>5. ProbesAreSpaced'
  BY <1>2, AnswerSpaced DEF Succeed
<1>6. CASE error = "none"
  <2>1. BreakerTypeOK'
    BY <1>1, <1>2, <1>3, <1>4, <1>6 DEF BreakerTypeOK
  <2>2. Counts' /\ Cools' /\ OpensAfterStreak'
    BY <1>1, <1>2, <1>3, <1>6 DEF Counts, Cools, OpensAfterStreak
  <2>. QED BY <1>5, <2>1, <2>2 DEF BreakerInv
<1>7. CASE error = "write"
  <2>1. streak = Threshold
    BY <1>2, <1>7 DEF Probe, BreakerInv, OpensAfterStreak
  <2>2. streak' = Threshold
    BY <1>1, <1>2, <1>7, <2>1 DEF Answer, Upto
  <2>3. failures' \in 0..Threshold
    BY <1>1, <1>2, <1>7 DEF Upto
  <2>4. state' \in {"closed", "open"} /\ wait' \in 0..Cooldown
    BY <1>1, <1>2, <1>7 DEF BreakerTypeOK
  <2>5. BreakerTypeOK'
    BY <1>1, <1>3, <1>4, <2>3, <2>4 DEF BreakerTypeOK
  <2>6. Cools'
    BY <1>1, <1>2, <1>4, <1>7 DEF Cools
  <2>. QED BY <1>1, <1>5, <2>2, <2>3, <2>5, <2>6 DEF BreakerInv, Counts, OpensAfterStreak
<1>. QED BY <1>2, <1>6, <1>7

\* A call that is refused.
LEMMA RefusedCall == ASSUME BreakerInv, FailFast PROVE BreakerInv'
<1>1. Threshold \in Nat /\ Cooldown \in Nat /\ BreakerTypeOK
  BY ConfigAssumption DEF BreakerInv
<1>2. Answer(FALSE, "circuit_open", FALSE) /\ UNCHANGED <<state, failures, wait, outage, disk, gap>>
  BY DEF FailFast
<1>3. BreakerTypeOK'
  BY <1>1, <1>2, AnswerType DEF BreakerTypeOK
<1>4. streak = Threshold /\ streak' = Upto(streak + 1, Threshold)
  BY <1>2 DEF FailFast, BreakerInv, OpensAfterStreak, Answer
<1>5. streak' = Threshold
  BY <1>1, <1>4 DEF Upto
<1>6. Counts' /\ Cools' /\ OpensAfterStreak'
  BY <1>1, <1>2, <1>4, <1>5 DEF BreakerInv, Counts, Cools, OpensAfterStreak, BreakerTypeOK
<1>7. ProbesAreSpaced'
  BY <1>2 DEF Answer, ProbesAreSpaced
<1>. QED BY <1>3, <1>6, <1>7 DEF BreakerInv

\* Time passes.
LEMMA BreakerTickStep == ASSUME BreakerInv, BreakerTick PROVE BreakerInv'
<1>1. Threshold \in Nat /\ Cooldown \in Nat /\ BreakerTypeOK
  BY ConfigAssumption DEF BreakerInv
<1>2. /\ wait' = IF wait > 0 THEN wait - 1 ELSE 0
      /\ gap' = Upto(gap + 1, Cooldown)
      /\ UNCHANGED <<state, failures, outage, disk, last, streak>>
  BY DEF BreakerTick
<1>3. wait' \in 0..Cooldown /\ gap' \in 0..Cooldown
  BY <1>1, <1>2 DEF BreakerTypeOK, Upto
<1>4. BreakerTypeOK'
  BY <1>1, <1>2, <1>3 DEF BreakerTypeOK
<1>5. Cools'
  BY <1>1, <1>2 DEF BreakerInv, Cools, BreakerTypeOK, Upto
<1>6. Counts' /\ OpensAfterStreak' /\ ProbesAreSpaced'
  BY <1>2 DEF BreakerInv, Counts, OpensAfterStreak, ProbesAreSpaced
<1>. QED BY <1>4, <1>5, <1>6 DEF BreakerInv

\* Every step keeps the invariant.
LEMMA BreakerStep == BreakerInv /\ [BreakerNext]_breaker => BreakerInv'
<1>. SUFFICES ASSUME BreakerInv, [BreakerNext]_breaker PROVE BreakerInv'
  OBVIOUS
<1>1. CASE FailFast
  BY <1>1, RefusedCall
<1>2. CASE Succeed
  BY <1>2, SucceededCall
<1>3. CASE FailInOutage
  <2>1. CASE Answer(FALSE, "circuit_open", Probe)
    BY <1>3, <2>1, FailedCall DEF FailInOutage
  <2>2. CASE Answer(FALSE, "write", Probe)
    BY <1>3, <2>2, FailedCall DEF FailInOutage
  <2>. QED BY <1>3, <2>1, <2>2 DEF FailInOutage
<1>4. CASE FailInStore
  BY <1>4, FailedCall DEF FailInStore
<1>5. CASE \E down \in BOOLEAN : SimulateOutage(down)
  BY <1>5 DEF SimulateOutage, BreakerInv, BreakerTypeOK, Counts, Cools, OpensAfterStreak,
              ProbesAreSpaced
<1>6. CASE \E ok \in BOOLEAN : DiskChanges(ok)
  BY <1>6 DEF DiskChanges, BreakerInv, BreakerTypeOK, Counts, Cools, OpensAfterStreak,
              ProbesAreSpaced
<1>7. CASE BreakerTick
  BY <1>7, BreakerTickStep
<1>8. CASE UNCHANGED breaker
  BY <1>8 DEF breaker, BreakerInv, BreakerTypeOK, Counts, Cools, OpensAfterStreak, ProbesAreSpaced
<1>. QED BY <1>1, <1>2, <1>3, <1>4, <1>5, <1>6, <1>7, <1>8 DEF BreakerNext, Execute

-----------------------------------------------------------------------------
\* The breaker's counters are never out of step with its callers and the clock.
THEOREM BreakerInvariance == BreakerSpec => []BreakerInv
<1>1. BreakerInit => BreakerInv
  BY BreakerInitInv
<1>2. BreakerInv /\ [BreakerNext]_breaker => BreakerInv'
  BY BreakerStep
<1>. QED BY <1>1, <1>2, PTL DEF BreakerSpec

\* Every variable stays in its type; at rest the circuit is open or closed.
THEOREM BreakerTypeCorrect == BreakerSpec => []BreakerTypeOK
<1>1. BreakerInv => BreakerTypeOK
  BY DEF BreakerInv
<1>. QED BY <1>1, BreakerInvariance, PTL

\* The circuit opens only after Threshold errors in a row.
THEOREM OpeningNeedsStreak == BreakerSpec => []OpensAfterStreak
<1>1. BreakerInv => OpensAfterStreak
  BY DEF BreakerInv
<1>. QED BY <1>1, BreakerInvariance, PTL

\* Two trial calls are a full cooldown apart.
THEOREM ProbesSpaced == BreakerSpec => []ProbesAreSpaced
<1>1. BreakerInv => ProbesAreSpaced
  BY DEF BreakerInv
<1>. QED BY <1>1, BreakerInvariance, PTL

-----------------------------------------------------------------------------
(* The breaker implements FailClosed.                                      *)

\* A call that runs nothing but fails keeps a refusing gate refusing.
LEMMA OnFailureKeepsOpen == ASSUME OnFailure, state = "open" PROVE state' = "open"
  BY DEF OnFailure, Probe

\* One step of the breaker is a step or a stutter of the gate.
LEMMA GateStep ==
  BreakerTypeOK /\ BreakerTypeOK' /\ [BreakerNext]_breaker => [Gate!Next]_(Gate!vars)
<1>. SUFFICES ASSUME BreakerTypeOK, BreakerTypeOK', [BreakerNext]_breaker
              PROVE  [Gate!Next]_(Gate!vars)
  OBVIOUS
<1>. USE DEF Gate!Next, Gate!Run, Gate!NotRun, Gate!vars
<1>1. CASE FailFast
  BY <1>1 DEF FailFast, Answer
<1>2. CASE Succeed
  BY <1>2 DEF Succeed, Answer
<1>3. CASE FailInOutage
  <2>1. state = "open" => state' = "open"
    BY <1>3, OnFailureKeepsOpen DEF FailInOutage
  <2>. QED BY <1>3, <2>1 DEF FailInOutage, Answer
<1>4. CASE FailInStore
  BY <1>4 DEF FailInStore, Answer
<1>5. CASE \E down \in BOOLEAN : SimulateOutage(down)
  BY <1>5 DEF SimulateOutage
<1>6. CASE \E ok \in BOOLEAN : DiskChanges(ok)
  BY <1>6 DEF DiskChanges
<1>7. CASE BreakerTick
  BY <1>7 DEF BreakerTick
<1>8. CASE UNCHANGED breaker
  BY <1>8 DEF breaker
<1>. QED BY <1>1, <1>2, <1>3, <1>4, <1>5, <1>6, <1>7, <1>8 DEF BreakerNext, Execute

\* The circuit breaker is a fail-closed gate: what it refuses it has not run,
\* and it stops refusing only by running an operation.
THEOREM BreakerFailsClosed == BreakerSpec => FailsClosed
<1>1. BreakerInit => Gate!Init
  BY DEF BreakerInit, Gate!Init
<1>2. BreakerTypeOK /\ BreakerTypeOK' /\ [BreakerNext]_breaker => [Gate!Next]_(Gate!vars)
  BY GateStep
<1>. QED BY <1>1, <1>2, BreakerTypeCorrect, PTL DEF BreakerSpec, FailsClosed, Gate!Spec
=============================================================================
