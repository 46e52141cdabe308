------------------------------ MODULE Consent ------------------------------
(***************************************************************************)
(* Human approval of token requests: requestToken, approveRequest,         *)
(* denyRequest, checkRequestTimeout and claimTokenSecret (tokenRequest.ts) *)
(* over RequestStore, as the routes of server.ts call them.                *)
(*                                                                         *)
(* approveRequest is the one operation with an await inside: it reads the  *)
(* request, waits in issueToken for the hash of the new token's secret and *)
(* then saves the request it read, decided.  All the others run in one     *)
(* segment of the event loop.  A decision is a call: it starts at most     *)
(* once, and remembers as history the turns of the log between which it    *)
(* ran: begun is the first turn after its first segment, ended the turn of *)
(* its last one.                                                           *)
(***************************************************************************)
EXTENDS Naturals, FiniteSets

CONSTANTS
    Req,            \* request ids
    Tok,            \* token ids
    Subject,        \* agents with a registered credential
    Key,            \* idempotency keys
    Operator,       \* operators who hold a session
    Primary,        \* ADMIN_USERNAME when a request is submitted, or None
    Backup,         \* BACKUP_APPROVER_USERNAME, or None
    Decision,       \* approve and deny calls
    Window,         \* REQUEST_DECISION_WINDOW_MS
    None,
    MaxTime         \* bound on the clock

ASSUME NoneAssumption ==
    /\ None \notin Req /\ None \notin Tok /\ None \notin Subject
    /\ None \notin Key /\ None \notin Operator
ASSUME TimeAssumption == Window \in Nat /\ MaxTime \in Nat

VARIABLES
    reqs,           \* RequestStore
    minted,         \* TokenStore, as the request each token was issued for
    decision,       \* the approve and deny calls
    audit,          \* AuditLog: escalations, attempts to decide, claims
    turn,           \* number of segments that have written to audit
    clock

vars == <<reqs, minted, decision, audit, turn, clock>>

-----------------------------------------------------------------------------
(* Requests, decisions and audit entries.                                  *)
(*                                                                         *)
(* A definition named Buggy... is a plausible mistake in the definition    *)
(* that follows it; no specification uses it.                              *)

ReqRec ==
    [status      : {"absent", "pending", "approved", "denied"},
     subject     : Subject \cup {None},
     key         : Key \cup {None},
     assigned    : Operator \cup {Primary, Backup, None},   \* assignedApprover
     requestedAt : Nat,
     tokenId     : Tok \cup {None},
     secret      : Tok \cup {None}]      \* tokenSecret, named by its token

NoReq ==
    [status |-> "absent", subject |-> None, key |-> None, assigned |-> None,
     requestedAt |-> 0, tokenId |-> None, secret |-> None]

DecisionRec ==
    [pc      : {"idle", "hash", "done"},
     req     : Req \cup {None},
     by      : Operator \cup {None},
     copy    : ReqRec,                   \* the request read before the await
     begun   : Nat,
     ended   : Nat,
     outcome : {"none", "not_pending", "not_assigned", "blocked",
                "approved", "denied"}]

Idle ==
    [pc |-> "idle", req |-> None, by |-> None, copy |-> NoReq, begun |-> 0,
     ended |-> 0, outcome |-> "none"]

\* decision of an entry, and its action where two write the same decision: the
\* log says request_denied of a denial ("denied": of action deny_request) and of
\* an approval that was stopped ("blocked": of action approve_request).
EntryRec ==
    [turn  : Nat, req : Req,
     what  : {"escalated", "rejected", "blocked", "approved", "denied", "claimed"},
     token : Tok \cup {None}]

Entry(r, what, t) == [turn |-> turn, req |-> r, what |-> what, token |-> t]

Record(entries) == audit' = audit \cup entries /\ turn' = turn + 1

NoRecord == UNCHANGED <<audit, turn>>

End(d, r, o, begun, outcome) ==
    decision' = [decision EXCEPT ![d] =
        [Idle EXCEPT !.pc = "done", !.req = r, !.by = o, !.begun = begun,
                     !.ended = turn, !.outcome = outcome]]

-----------------------------------------------------------------------------
(* POST /requests.                                                         *)

\* findByIdempotencyKey: the request this subject already made under the key.
BuggyExisting(s, k) ==
    {r \in Req : reqs[r].status = "pending" /\ reqs[r].subject = s /\ reqs[r].key = k}

Existing(s, k) ==
    {r \in Req : reqs[r].status # "absent" /\ reqs[r].subject = s /\ reqs[r].key = k}

NewRequest(s, k) ==
    [NoReq EXCEPT !.status = "pending", !.subject = s, !.key = k,
                  !.assigned = Primary, !.requestedAt = clock]

\* A retry under the same key changes nothing: it is answered with the stored
\* request, and with its secret too if that is approved and not claimed.
Submit(s, k) ==
    /\ k = None \/ Existing(s, k) = {}
    /\ \E r \in Req :
          /\ reqs[r].status = "absent"
          /\ reqs' = [reqs EXCEPT ![r] = NewRequest(s, k)]
    /\ NoRecord /\ UNCHANGED <<minted, decision, clock>>

-----------------------------------------------------------------------------
(* POST /requests/:id/approve and /deny.                                   *)

\* checkRequestTimeout, run by both routes just before the decision.
Due(r) ==
    /\ Backup # None
    /\ reqs[r].status = "pending"
    /\ reqs[r].assigned # Backup
    /\ clock - reqs[r].requestedAt >= Window

Timed(r) ==
    IF Due(r) THEN [reqs[r] EXCEPT !.assigned = Backup] ELSE reqs[r]

Escalation(r) == IF Due(r) THEN {Entry(r, "escalated", None)} ELSE {}

\* What the route writes when the decision itself changes nothing, with the
\* entries that say why.
Undecided(r, entries) ==
    /\ reqs' = [reqs EXCEPT ![r] = Timed(r)]
    /\ IF Escalation(r) \cup entries = {}
       THEN NoRecord
       ELSE Record(Escalation(r) \cup entries)

TurnAfter(r, entries) ==
    IF Escalation(r) \cup entries = {} THEN turn ELSE turn + 1

\* assertEligibleDecider.
Eligible(req, o) == req.assigned = None \/ req.assigned = o

\* getPending and assertEligibleDecider, shared by both routes; the second
\* logs request_decision_rejected.
Refuse(d, r, o) ==
    LET rejected == {Entry(r, "rejected", None)} IN
    /\ \/ /\ Timed(r).status # "pending"
          /\ Undecided(r, {})
          /\ End(d, r, o, TurnAfter(r, {}), "not_pending")
       \/ /\ Timed(r).status = "pending" /\ ~Eligible(Timed(r), o)
          /\ Undecided(r, rejected)
          /\ End(d, r, o, TurnAfter(r, rejected), "not_assigned")
    /\ UNCHANGED <<minted, clock>>

BuggyDecidableTwice(r, o) == Timed(r).status # "denied" /\ Eligible(Timed(r), o)

BuggyDecidableEarly(r, o) == reqs[r].status = "pending" /\ Eligible(reqs[r], o)

Decidable(r, o) == Timed(r).status = "pending" /\ Eligible(Timed(r), o)

\* issueToken's checks run, then the call waits for the hash; or a policy, the
\* scope or the policy store stops it: that is logged, and the request stays
\* pending.
ApproveBegin(d, r, o) ==
    LET blocked == {Entry(r, "blocked", None)} IN
    /\ decision[d].pc = "idle" /\ reqs[r].status # "absent"
    /\ \/ Refuse(d, r, o)
       \/ /\ Decidable(r, o)
          /\ Undecided(r, blocked)
          /\ End(d, r, o, TurnAfter(r, blocked), "blocked")
          /\ UNCHANGED <<minted, clock>>
       \/ /\ Decidable(r, o)
          /\ Undecided(r, {})
          /\ decision' = [decision EXCEPT ![d] =
                [Idle EXCEPT !.pc = "hash", !.req = r, !.by = o,
                             !.copy = Timed(r), !.begun = TurnAfter(r, {})]]
          /\ UNCHANGED <<minted, clock>>

\* The save after the await writes the copy read before it: no second look
\* at the request.
ApproveEnd(d) ==
    LET dec == decision[d] IN
    /\ dec.pc = "hash"
    /\ \E t \in Tok :
          /\ minted[t] = None
          /\ minted' = [minted EXCEPT ![t] = dec.req]
          /\ reqs' = [reqs EXCEPT ![dec.req] =
                [dec.copy EXCEPT !.status = "approved", !.tokenId = t, !.secret = t]]
          /\ Record({Entry(dec.req, "approved", t)})
    /\ End(d, dec.req, dec.by, dec.begun, "approved")
    /\ UNCHANGED clock

BuggyApproveFails(d) ==
    /\ decision[d].pc = "hash"
    /\ End(d, decision[d].req, decision[d].by, decision[d].begun, "blocked")
    /\ reqs' = [reqs EXCEPT ![decision[d].req] = decision[d].copy]
    /\ Record({Entry(decision[d].req, "blocked", None)})
    /\ UNCHANGED <<minted, clock>>

\* tokenStore.save throws CircuitOpenError: that is logged, and the request is
\* left as it is, even if it has been decided meanwhile.
ApproveFails(d) ==
    /\ decision[d].pc = "hash"
    /\ End(d, decision[d].req, decision[d].by, decision[d].begun, "blocked")
    /\ Record({Entry(decision[d].req, "blocked", None)})
    /\ UNCHANGED <<reqs, minted, clock>>

BuggyDenyRequest(d, r, o) ==
    /\ decision[d].pc = "idle" /\ reqs[r].status # "absent"
    /\ \/ Refuse(d, r, o)
       \/ /\ Decidable(r, o)
          /\ Record(Escalation(r) \cup {Entry(r, "denied", None)})
          /\ End(d, r, o, turn + 1, "denied")
          /\ UNCHANGED <<reqs, minted, clock>>

DenyRequest(d, r, o) ==
    /\ decision[d].pc = "idle" /\ reqs[r].status # "absent"
    /\ \/ Refuse(d, r, o)
       \/ /\ Decidable(r, o)
          /\ reqs' = [reqs EXCEPT ![r] = [Timed(r) EXCEPT !.status = "denied"]]
          /\ Record(Escalation(r) \cup {Entry(r, "denied", None)})
          /\ End(d, r, o, turn + 1, "denied")
          /\ UNCHANGED <<minted, clock>>

-----------------------------------------------------------------------------
(* POST /requests/:id/token-secret.  The refusals change nothing here.     *)

Cleared(req) == [req EXCEPT !.secret = None]

ClaimTokenSecret(r, s) ==
    /\ reqs[r].subject = s
    /\ reqs[r].status = "approved" /\ reqs[r].tokenId # None
    /\ reqs[r].secret # None
    /\ reqs' = [reqs EXCEPT ![r] = Cleared(reqs[r])]
    /\ Record({Entry(r, "claimed", reqs[r].tokenId)})
    /\ UNCHANGED <<minted, decision, clock>>

Tick == /\ clock < MaxTime /\ clock' = clock + 1
        /\ UNCHANGED <<reqs, minted, decision, audit, turn>>

-----------------------------------------------------------------------------
Init ==
    /\ reqs = [r \in Req |-> NoReq]
    /\ minted = [t \in Tok |-> None]
    /\ decision = [d \in Decision |-> Idle]
    /\ audit = {} /\ turn = 0 /\ clock = 0

Requester ==
    \E s \in Subject :
        \/ \E k \in Key \cup {None} : Submit(s, k)
        \/ \E r \in Req : ClaimTokenSecret(r, s)

Decides(d) ==
    \E r \in Req, o \in Operator : ApproveBegin(d, r, o) \/ DenyRequest(d, r, o)

Next ==
    \/ Requester
    \/ \E d \in Decision : Decides(d) \/ ApproveEnd(d) \/ ApproveFails(d)
    \/ Tick

Spec == Init /\ [][Next]_vars

-----------------------------------------------------------------------------
(* Properties.                                                             *)

\* Every variable stays in its type.
TypeOK ==
    /\ reqs \in [Req -> ReqRec]
    /\ minted \in [Tok -> Req \cup {None}]
    /\ decision \in [Decision -> DecisionRec]
    /\ audit \subseteq EntryRec
    /\ turn \in Nat /\ clock \in Nat

\* A retried submission never makes a second request, whatever has happened
\* to the first one meanwhile (tokenRequest.ts 123-130, requestStore.ts 58-65).
OneRequestPerKey ==
    \A q, r \in Req :
        /\ reqs[q].key # None /\ reqs[q].key = reqs[r].key
        /\ reqs[q].subject = reqs[r].subject
        => q = r

\* The decision guard holds between calls that do not overlap: a call that
\* decides a request, or is stopped in an attempt to approve it, had read it
\* before any other decision of it was over.  So of two calls that decided one
\* request, one is an approval that was waiting for its hash
\* (tokenRequest.ts 216, 227-245, 279, 383-392).
DecisionsOfOneRequestOverlap ==
    \A d, e \in Decision :
        /\ d # e /\ decision[d].req = decision[e].req
        /\ decision[d].outcome \in {"approved", "denied"}
        /\ decision[e].outcome \in {"approved", "denied", "blocked"}
        => decision[e].begun <= decision[d].ended

Entries(r, what) == {e \in audit : e.req = r /\ e.what = what}

\* After an escalation the primary is out: a decision by anyone but the
\* backup was read before the escalation (tokenRequest.ts 168-190, 303-328,
\* server.ts 524, 562: the timeout is checked before the decision).
EscalationTakesAuthority ==
    \A d \in Decision :
        /\ decision[d].outcome \in {"approved", "denied"}
        /\ decision[d].by # Backup
        => \A e \in Entries(decision[d].req, "escalated") : e.turn >= decision[d].begun

\* A request says what the log says: it names the token of its latest
\* approval and has lost its secret exactly if that token's was claimed, it is
\* denied only if deny_request denied it and it was never approved, and while
\* it is pending it has neither an approval nor a denial.  What its log may
\* hold besides are the request_denied entries of approvals that were stopped:
\* those decide nothing (tokenRequest.ts 227-245, 246-259, 282-292, 367-380).
RequestMatchesTrail ==
    \A r \in Req :
        LET approvals == Entries(r, "approved") IN
        /\ reqs[r].status = "pending" =>
              approvals = {} /\ Entries(r, "denied") = {}
        /\ reqs[r].status = "denied" =>
              approvals = {} /\ Entries(r, "denied") # {}
        /\ reqs[r].status = "approved" =>
              \E e \in approvals :
                 /\ e.token = reqs[r].tokenId /\ minted[e.token] = r
                 /\ \A f \in approvals : f.turn <= e.turn
                 /\ reqs[r].secret = None <=>
                       \E c \in Entries(r, "claimed") : c.token = e.token

\* A pending request that has been handed to the backup stays with the
\* backup: no copy taken before the escalation is ever written back over a
\* request that is still undecided.
EscalationSticks ==
    [][\A r \in Req :
          reqs[r].status = "pending" /\ Entries(r, "escalated") # {} =>
              \/ reqs'[r].status # "pending"
              \/ reqs'[r].assigned = Backup]_vars

-----------------------------------------------------------------------------
(* What comments of the source promise and interleavings break.            *)

\* "This is what makes double-approving the same request fail instead of
\* silently issuing two tokens for one request" (requestStore.ts 1-4).
OneTokenPerRequest ==
    \A t, u \in Tok : minted[t] # None /\ minted[t] = minted[u] => t = u
=============================================================================
