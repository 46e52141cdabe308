--------------------------- MODULE ConsentProofs ---------------------------
(***************************************************************************)
(* Proofs about Consent, for any sets of requests, tokens, agents, keys    *)
(* and operators, any number of decisions and any window.                  *)
(*                                                                         *)
(* approveRequest saves, after its await, the request it read before.  The *)
(* inductive invariant says what that copy may still be trusted with: its  *)
(* owner and its key are those of the stored request (Waiting), and every  *)
(* decision of the same request that is already over has been made since   *)
(* (Waiting).  What was decided is in the log (Decided), the log names     *)
(* only tokens that exist (Trail), and an escalated request is in the      *)
(* backup's hands until it is decided (Handover).  An attempt that is      *)
(* rejected or stopped is logged too and settles nothing (Attempts).       *)
(***************************************************************************)
EXTENDS Consent, TLAPS

HasDecided(d) == decision[d].outcome \in {"approved", "denied"}

\* A call that decided or was stopped: it had got past the guard of a decision.
Settled(d) == decision[d].outcome \in {"approved", "denied", "blocked"}

\* Entries of the present turn that say why a call left a request undecided.
Attempts(r, entries) ==
    \A e \in entries : /\ e \in EntryRec /\ e.turn = turn /\ e.req = r
                       /\ e.what \in {"rejected", "blocked"}

\* A free slot of the store holds nothing, and the log knows nothing of it.
Absence ==
    \A r \in Req : reqs[r].status = "absent" =>
        reqs[r] = NoReq /\ \A e \in audit : e.req # r

\* The log is behind the present turn; approvals and claims name the token
\* that was issued for their request.
Trail ==
    \A e \in audit :
        /\ e.turn < turn
        /\ e.what = "escalated" => Backup # None
        /\ e.what \in {"approved", "claimed"} =>
              e.token \in Tok /\ minted[e.token] = e.req

Handover ==
    \A r \in Req :
        reqs[r].status = "pending" /\ Entries(r, "escalated") # {}
            => reqs[r].assigned = Backup

\* An approval that waits for its hash.
Waiting ==
    \A d \in Decision : decision[d].pc = "hash" =>
        /\ decision[d].req \in Req
        /\ reqs[decision[d].req].status # "absent"
        /\ decision[d].copy.subject = reqs[decision[d].req].subject
        /\ decision[d].copy.key = reqs[decision[d].req].key
        /\ decision[d].outcome = "none"
        /\ decision[d].begun <= turn
        /\ \A e \in Decision :
              HasDecided(e) /\ decision[e].req = decision[d].req
                  => decision[d].begun <= decision[e].ended
        /\ decision[d].by # Backup =>
              \A e \in Entries(decision[d].req, "escalated") :
                  e.turn >= decision[d].begun

\* A decision that is over was logged.
Decided ==
    /\ \A d \in Decision : Settled(d) => decision[d].begun <= turn
    /\ \A d \in Decision : HasDecided(d) =>
          /\ decision[d].req \in Req
          /\ \E e \in audit : /\ e.req = decision[d].req
                              /\ e.what \in {"approved", "denied"}

IInv == /\ TypeOK /\ Absence /\ Trail /\ Handover /\ Waiting /\ Decided
        /\ OneRequestPerKey /\ DecisionsOfOneRequestOverlap
        /\ EscalationTakesAuthority /\ RequestMatchesTrail

-----------------------------------------------------------------------------
\* The invariant holds in the initial state.
LEMMA InitInv == Init => IInv
<1>. SUFFICES ASSUME Init PROVE IInv
  OBVIOUS
<1>1. NoReq \in ReqRec /\ Idle \in DecisionRec
  BY DEF NoReq, ReqRec, Idle, DecisionRec
<1>2. TypeOK
  BY <1>1 DEF Init, TypeOK
<1>3. Absence /\ Trail /\ Handover /\ Waiting /\ Decided
  BY DEF Init, Absence, Trail, Handover, Waiting, Decided, HasDecided, Settled, Entries,
     NoReq, Idle
<1>4. OneRequestPerKey /\ DecisionsOfOneRequestOverlap /\ EscalationTakesAuthority
  BY DEF Init, OneRequestPerKey, DecisionsOfOneRequestOverlap,
     EscalationTakesAuthority, NoReq, Idle
<1>5. RequestMatchesTrail
  BY DEF Init, RequestMatchesTrail, NoReq
<1>. QED BY <1>2, <1>3, <1>4, <1>5 DEF IInv

-----------------------------------------------------------------------------
(* What the helpers of the decisions return.                               *)

\* A call that ends remembers what it did; the other calls are as they were.
LEMMA EndEffect ==
  ASSUME TypeOK, NEW d \in Decision, NEW r \in Req, NEW o \in Operator \cup {None},
         NEW begun \in Nat,
         NEW outcome \in {"not_pending", "not_assigned", "blocked", "approved", "denied"},
         End(d, r, o, begun, outcome)
  PROVE  /\ decision' \in [Decision -> DecisionRec]
         /\ \A e \in Decision : e # d => decision'[e] = decision[e]
         /\ decision'[d].pc = "done" /\ decision'[d].outcome = outcome
         /\ decision'[d].req = r /\ decision'[d].by = o
         /\ decision'[d].begun = begun /\ decision'[d].ended = turn
  BY DEF End, Idle, NoReq, DecisionRec, ReqRec, TypeOK

\* A request that went through its timeout check is the same request, perhaps
\* in other hands.
LEMMA TimedRequest ==
  ASSUME TypeOK, NEW r \in Req
  PROVE  /\ Timed(r) \in ReqRec
         /\ Timed(r).status = reqs[r].status
         /\ Timed(r).subject = reqs[r].subject
         /\ Timed(r).key = reqs[r].key
         /\ Timed(r).tokenId = reqs[r].tokenId
         /\ Timed(r).secret = reqs[r].secret
         /\ Due(r) => Timed(r).assigned = Backup
         /\ ~Due(r) => Timed(r) = reqs[r]
<1>1. reqs[r] \in ReqRec
  BY DEF TypeOK
<1>. QED BY <1>1 DEF Timed, ReqRec

\* An escalation is logged in the present turn.
LEMMA EscalationEntry ==
  ASSUME TypeOK, NEW r \in Req, NEW e \in Escalation(r)
  PROVE  /\ e \in EntryRec /\ Due(r)
         /\ e.turn = turn /\ e.req = r /\ e.what = "escalated"
  BY DEF Escalation, Entry, EntryRec, TypeOK

\* The entries of an attempt settle nothing.
LEMMA AttemptEntries ==
  ASSUME TypeOK, NEW r \in Req
  PROVE  /\ Attempts(r, {})
         /\ Attempts(r, {Entry(r, "rejected", None)})
         /\ Attempts(r, {Entry(r, "blocked", None)})
  BY DEF Attempts, Entry, EntryRec, TypeOK

\* What a route that leaves the request undecided leaves behind.
LEMMA UndecidedEffect ==
  ASSUME TypeOK, NEW r \in Req, NEW entries, Undecided(r, entries)
  PROVE  /\ reqs' \in [Req -> ReqRec]
         /\ reqs'[r] = Timed(r)
         /\ \A q \in Req : q # r => reqs'[q] = reqs[q]
         /\ audit' = audit \cup Escalation(r) \cup entries
         /\ turn' = TurnAfter(r, entries) /\ turn' \in Nat /\ turn' >= turn
         /\ Due(r) \/ entries # {} => turn' = turn + 1
<1>1. reqs' = [reqs EXCEPT ![r] = Timed(r)]
  BY DEF Undecided
<1>2. /\ audit' = audit \cup Escalation(r) \cup entries
      /\ turn' = TurnAfter(r, entries)
  BY DEF Undecided, Record, NoRecord, TurnAfter
<1>3. Due(r) => Escalation(r) # {}
  BY DEF Escalation
<1>4. turn' \in Nat /\ turn' >= turn /\ (Due(r) \/ entries # {} => turn' = turn + 1)
  BY <1>2, <1>3 DEF TurnAfter, TypeOK
<1>. QED BY <1>1, <1>2, <1>4, TimedRequest DEF TypeOK

-----------------------------------------------------------------------------
(* The steps of the requester.                                              *)

\* A submission takes a free slot.
LEMMA SubmitStep ==
  ASSUME IInv, NEW s \in Subject, NEW k \in Key \cup {None}, Submit(s, k)
  PROVE  IInv'
<1>1. PICK r \in Req : /\ reqs[r].status = "absent"
                       /\ reqs' = [reqs EXCEPT ![r] = NewRequest(s, k)]
  BY DEF Submit
<1>. DEFINE new == NewRequest(s, k)
<1>2. UNCHANGED <<minted, decision, audit, turn, clock>> /\ TypeOK
  BY DEF Submit, NoRecord, IInv
<1>3. /\ new \in ReqRec /\ new.status = "pending"
      /\ new.subject = s /\ new.key = k
  BY <1>2 DEF NewRequest, NoReq, ReqRec, TypeOK
<1>4. reqs'[r] = new /\ \A q \in Req : q # r => reqs'[q] = reqs[q]
  BY <1>1, <1>2 DEF TypeOK
<1>5. TypeOK'
  BY <1>1, <1>2, <1>3 DEF TypeOK
<1>6. reqs[r] = NoReq /\ \A e \in audit : e.req # r
  BY <1>1 DEF IInv, Absence
<1>7. Absence' /\ Trail' /\ Decided'
  BY <1>2, <1>3, <1>4 DEF IInv, Absence, Trail, Decided, HasDecided, Settled
<1>8. Handover'
  BY <1>2, <1>4, <1>6 DEF IInv, Handover, Entries
<1>9. Waiting'
  BY <1>1, <1>2, <1>4 DEF IInv, Waiting, HasDecided, Entries
<1>10. OneRequestPerKey'
  <2>1. ASSUME NEW q \in Req, q # r, k # None, reqs[q].key = k, reqs[q].subject = s
        PROVE  FALSE
    <3>1. reqs[q].status # "absent"
      BY <2>1 DEF IInv, Absence, NoReq
    <3>. QED BY <2>1, <3>1 DEF Submit, Existing
  <2>. QED BY <1>3, <1>4, <2>1 DEF IInv, OneRequestPerKey
<1>11. DecisionsOfOneRequestOverlap' /\ EscalationTakesAuthority'
  BY <1>2 DEF IInv, DecisionsOfOneRequestOverlap, EscalationTakesAuthority, Entries
<1>12. RequestMatchesTrail'
  BY <1>2, <1>3, <1>4, <1>6 DEF IInv, RequestMatchesTrail, Entries
<1>. QED BY <1>5, <1>7, <1>8, <1>9, <1>10, <1>11, <1>12 DEF IInv

\* A claim takes the secret off the request and logs it.
LEMMA ClaimStep ==
  ASSUME IInv, NEW s \in Subject, NEW r \in Req, ClaimTokenSecret(r, s)
  PROVE  IInv'
<1>. DEFINE t == reqs[r].tokenId
            entry == Entry(r, "claimed", t)
<1>1. TypeOK /\ reqs[r] \in ReqRec /\ turn \in Nat
  BY DEF IInv, TypeOK
<1>2. /\ reqs[r].status = "approved" /\ t \in Tok /\ reqs[r].secret # None
      /\ reqs' = [reqs EXCEPT ![r] = Cleared(reqs[r])]
      /\ audit' = audit \cup {entry} /\ turn' = turn + 1
      /\ UNCHANGED <<minted, decision, clock>>
  BY <1>1 DEF ClaimTokenSecret, Record, ReqRec
<1>3. /\ entry \in EntryRec /\ entry.turn = turn /\ entry.req = r
      /\ entry.what = "claimed" /\ entry.token = t
  BY <1>1, <1>2 DEF Entry, EntryRec
<1>4. /\ reqs'[r] \in ReqRec
      /\ reqs'[r].status = "approved" /\ reqs'[r].tokenId = t
      /\ reqs'[r].subject = reqs[r].subject /\ reqs'[r].key = reqs[r].key
      /\ reqs'[r].secret = None
      /\ \A q \in Req : q # r => reqs'[q] = reqs[q]
  BY <1>1, <1>2 DEF Cleared, ReqRec, TypeOK
<1>5. TypeOK'
  BY <1>1, <1>2, <1>3, <1>4 DEF TypeOK
<1>6. minted[t] = r
  BY <1>2 DEF IInv, RequestMatchesTrail
<1>7. Absence'
  BY <1>2, <1>3, <1>4 DEF IInv, Absence
<1>8. Trail'
  <2>1. \A e \in audit : e.turn \in Nat
    BY <1>1 DEF TypeOK, EntryRec
  <2>. QED BY <1>1, <1>2, <1>3, <1>6, <2>1 DEF IInv, Trail
<1>9. \A q \in Req : Entries(q, "escalated")' = Entries(q, "escalated")
  BY <1>2, <1>3 DEF Entries
<1>10. Handover'
  BY <1>4, <1>9 DEF IInv, Handover
<1>11. Waiting'
  <2>1. \A d \in Decision : decision[d].begun \in Nat
    BY <1>1 DEF TypeOK, DecisionRec
  <2>2. ASSUME NEW q \in Req, reqs[q].status # "absent"
        PROVE  /\ reqs'[q].status # "absent"
               /\ reqs'[q].subject = reqs[q].subject /\ reqs'[q].key = reqs[q].key
    BY <1>4, <2>2
  <2>. QED BY <1>1, <1>2, <1>9, <2>1, <2>2 DEF IInv, Waiting, HasDecided
<1>12. Decided'
  <2>1. \A d \in Decision : decision[d].begun \in Nat
    BY <1>1 DEF TypeOK, DecisionRec
  <2>. QED BY <1>1, <1>2, <2>1 DEF IInv, Decided, HasDecided, Settled
<1>13. OneRequestPerKey'
  BY <1>4 DEF IInv, OneRequestPerKey
<1>14. DecisionsOfOneRequestOverlap'
  BY <1>2 DEF IInv, DecisionsOfOneRequestOverlap
<1>15. EscalationTakesAuthority'
  BY <1>2, <1>3 DEF IInv, EscalationTakesAuthority, Entries
<1>16. RequestMatchesTrail'
  BY <1>2, <1>3, <1>4 DEF IInv, RequestMatchesTrail, Entries
<1>. QED BY <1>5, <1>7, <1>8, <1>10, <1>11, <1>12, <1>13, <1>14, <1>15, <1>16 DEF IInv

-----------------------------------------------------------------------------
(* The steps of the deciders.                                               *)

\* The timeout check, and the entry of an attempt, keep what the invariant says
\* of the store and the log.
LEMMA UndecidedKeeps ==
  ASSUME IInv, NEW r \in Req, reqs[r].status # "absent",
         NEW entries, Attempts(r, entries), Undecided(r, entries),
         minted' = minted
  PROVE  /\ Absence' /\ Trail' /\ Handover' /\ OneRequestPerKey'
         /\ RequestMatchesTrail'
         /\ \A q \in Req : reqs[q].status # "absent" =>
               /\ reqs'[q].status # "absent"
               /\ reqs'[q].subject = reqs[q].subject /\ reqs'[q].key = reqs[q].key
<1>1. TypeOK /\ turn \in Nat /\ \A e \in audit : e.turn \in Nat
  BY DEF IInv, TypeOK, EntryRec
<1>2. /\ reqs'[r] = Timed(r) /\ \A q \in Req : q # r => reqs'[q] = reqs[q]
      /\ audit' = audit \cup Escalation(r) \cup entries
      /\ turn' \in Nat /\ turn' >= turn
      /\ Due(r) \/ entries # {} => turn' = turn + 1
  BY <1>1, UndecidedEffect
<1>3. /\ Timed(r).status = reqs[r].status
      /\ Timed(r).subject = reqs[r].subject /\ Timed(r).key = reqs[r].key
      /\ Timed(r).tokenId = reqs[r].tokenId /\ Timed(r).secret = reqs[r].secret
      /\ Due(r) => Timed(r).assigned = Backup
      /\ ~Due(r) => Timed(r) = reqs[r]
  BY <1>1, TimedRequest
<1>4. \A e \in Escalation(r) :
          Due(r) /\ e.turn = turn /\ e.req = r /\ e.what = "escalated"
  BY <1>1, EscalationEntry
<1>0. \A e \in entries : /\ e.turn = turn /\ e.req = r
                         /\ e.what \in {"rejected", "blocked"}
  BY DEF Attempts
<1>5. Absence'
  BY <1>0, <1>2, <1>3, <1>4 DEF IInv, Absence
<1>6. Trail'
  <2>1. Due(r) => Backup # None
    BY DEF Due
  <2>. QED BY <1>0, <1>1, <1>2, <1>4, <2>1 DEF IInv, Trail
<1>7. Handover'
  <2>1. ASSUME NEW q \in Req, reqs'[q].status = "pending",
               NEW e \in audit', e.req = q, e.what = "escalated"
        PROVE  reqs'[q].assigned = Backup
    <3>1. CASE q = r /\ Due(r)
      BY <1>2, <1>3, <3>1
    <3>2. CASE ~(q = r /\ Due(r))
      <4>1. reqs'[q] = reqs[q] /\ e \in audit
        BY <1>0, <1>2, <1>3, <1>4, <2>1, <3>2
      <4>. QED BY <2>1, <4>1 DEF IInv, Handover, Entries
    <3>. QED BY <3>1, <3>2
  <2>. QED BY <2>1 DEF Handover, Entries
<1>8. OneRequestPerKey'
  BY <1>2, <1>3 DEF IInv, OneRequestPerKey
<1>9. RequestMatchesTrail'
  <2>1. \A q \in Req, w \in {"approved", "denied", "claimed"} :
            Entries(q, w)' = Entries(q, w)
    BY <1>0, <1>2, <1>4 DEF Entries
  <2>2. \A q \in Req : /\ reqs'[q].status = reqs[q].status
                        /\ reqs'[q].tokenId = reqs[q].tokenId
                        /\ reqs'[q].secret = reqs[q].secret
    BY <1>2, <1>3
  <2>. QED BY <2>1, <2>2 DEF IInv, RequestMatchesTrail
<1>. QED BY <1>2, <1>3, <1>5, <1>6, <1>7, <1>8, <1>9

\* Only the backup can decide a request that has been escalated.
LEMMA DecidableBy ==
  ASSUME IInv, NEW r \in Req, NEW o \in Operator, Decidable(r, o), o # Backup
  PROVE  ~Due(r) /\ Entries(r, "escalated") = {}
<1>1. TypeOK
  BY DEF IInv
<1>2. /\ reqs[r].status = "pending"
      /\ Due(r) => Timed(r).assigned = Backup
      /\ ~Due(r) => Timed(r) = reqs[r]
  BY <1>1, TimedRequest DEF Decidable
<1>3. Timed(r).assigned = None \/ Timed(r).assigned = o
  BY DEF Decidable, Eligible
<1>4. ~Due(r)
  BY <1>2, <1>3 DEF Due
<1>5. ASSUME NEW e \in Entries(r, "escalated") PROVE FALSE
  <2>1. Backup # None
    BY DEF IInv, Trail, Entries
  <2>2. reqs[r].assigned = Backup
    BY <1>2, <1>5 DEF IInv, Handover
  <2>. QED BY <1>2, <1>3, <1>4, <2>1, <2>2
<1>. QED BY <1>4, <1>5

\* A request that is pending has no decision behind it.
LEMMA PendingIsOpen ==
  ASSUME IInv, NEW r \in Req, reqs[r].status = "pending",
         NEW d \in Decision, decision[d].req = r
  PROVE  ~HasDecided(d)
  BY DEF IInv, RequestMatchesTrail, Decided, Entries

\* A call that decides nothing, or an approval that starts to wait, changes the
\* request only by the timeout check.
LEMMA UndecidedStep ==
  ASSUME IInv, NEW d \in Decision, NEW r \in Req, NEW o \in Operator,
         reqs[r].status # "absent", UNCHANGED <<minted, clock>>,
         NEW entries, Attempts(r, entries), Undecided(r, entries),
         decision' \in [Decision -> DecisionRec],
         \A e \in Decision : e # d => decision'[e] = decision[e],
         decision'[d].outcome \notin {"approved", "denied"},
         decision'[d].outcome = "blocked" =>
            /\ Decidable(r, o)
            /\ decision'[d].req = r /\ decision'[d].begun = turn',
         decision'[d].pc = "hash" =>
            /\ Decidable(r, o)
            /\ decision'[d].req = r /\ decision'[d].by = o
            /\ decision'[d].copy = Timed(r) /\ decision'[d].begun = turn'
            /\ decision'[d].outcome = "none"
  PROVE  IInv'
<1>1. TypeOK /\ turn \in Nat /\ \A e \in Decision : decision[e].begun \in Nat
  BY DEF IInv, TypeOK, DecisionRec
<1>2. /\ reqs' \in [Req -> ReqRec] /\ reqs'[r] = Timed(r)
      /\ audit' = audit \cup Escalation(r) \cup entries
      /\ turn' \in Nat /\ turn' >= turn
  BY <1>1, UndecidedEffect
<1>3. \A e \in Escalation(r) : e \in EntryRec /\ Due(r) /\ e.turn = turn
                               /\ e.req = r /\ e.what = "escalated"
  BY <1>1, EscalationEntry
<1>0. \A e \in entries : /\ e \in EntryRec /\ e.turn = turn /\ e.req = r
                         /\ e.what \in {"rejected", "blocked"}
  BY DEF Attempts
<1>4. TypeOK'
  BY <1>0, <1>1, <1>2, <1>3 DEF TypeOK
<1>5. /\ Absence' /\ Trail' /\ Handover' /\ OneRequestPerKey' /\ RequestMatchesTrail'
      /\ \A q \in Req : reqs[q].status # "absent" =>
            /\ reqs'[q].status # "absent"
            /\ reqs'[q].subject = reqs[q].subject /\ reqs'[q].key = reqs[q].key
  BY UndecidedKeeps
<1>6. \A e \in Decision :
          HasDecided(e)' => e # d /\ HasDecided(e) /\ decision'[e] = decision[e]
  BY DEF HasDecided
<1>7. Waiting'
  <2>1. ASSUME NEW e \in Decision, e # d, decision[e].pc = "hash"
        PROVE  /\ decision[e].req \in Req
               /\ reqs'[decision[e].req].status # "absent"
               /\ decision[e].copy.subject = reqs'[decision[e].req].subject
               /\ decision[e].copy.key = reqs'[decision[e].req].key
               /\ decision[e].outcome = "none"
               /\ decision[e].begun <= turn'
               /\ \A f \in Decision :
                     HasDecided(f)' /\ decision'[f].req = decision[e].req
                         => decision[e].begun <= decision'[f].ended
    <3>1. \A f \in Decision : HasDecided(f) /\ decision[f].req = decision[e].req
                                 => decision[e].begun <= decision[f].ended
      BY <2>1 DEF IInv, Waiting
    <3>2. \A f \in Decision : HasDecided(f)' /\ decision'[f].req = decision[e].req
                                 => decision[e].begun <= decision'[f].ended
      BY <1>6, <3>1
    <3>. QED BY <1>1, <1>2, <1>5, <2>1, <3>2 DEF IInv, Waiting
  <2>2. ASSUME NEW e \in Decision, e # d, decision[e].pc = "hash",
               decision[e].by # Backup,
               NEW x \in audit', x.req = decision[e].req, x.what = "escalated"
        PROVE  x.turn >= decision[e].begun
    <3>1. CASE x \in audit
      BY <2>2, <3>1 DEF IInv, Waiting, Entries
    <3>2. CASE x \in Escalation(r)
      BY <1>3, <2>2, <3>2 DEF IInv, Waiting
    <3>. QED BY <1>0, <1>2, <2>2, <3>1, <3>2
  <2>3. CASE decision'[d].pc = "hash"
    <3>1. reqs[r].status = "pending" /\ Timed(r).status = "pending"
      BY <1>1, <2>3, TimedRequest DEF Decidable
    <3>2. \A f \in Decision : ~(HasDecided(f)' /\ decision'[f].req = r)
      BY <1>6, <3>1, PendingIsOpen
    <3>3. ASSUME o # Backup, NEW x \in audit', x.req = r, x.what = "escalated"
          PROVE  FALSE
      <4>1. Entries(r, "escalated") = {} /\ Escalation(r) = {}
        BY <2>3, <3>3, DecidableBy DEF Escalation
      <4>. QED BY <1>0, <1>2, <3>3, <4>1 DEF Entries
    <3>4. /\ decision'[d].req = r /\ reqs'[r].status # "absent"
          /\ decision'[d].copy.subject = reqs'[r].subject
          /\ decision'[d].copy.key = reqs'[r].key
          /\ decision'[d].begun <= turn'
      BY <1>2, <2>3, <3>1
    <3>5. \A e \in Decision : e # d => decision'[e] = decision[e]
      OBVIOUS
    <3>. QED BY <2>1, <2>2, <2>3, <3>2, <3>3, <3>4, <3>5 DEF Waiting, Entries
  <2>4. CASE decision'[d].pc # "hash"
    <3>1. \A e \in Decision : decision'[e].pc = "hash" => e # d /\ decision'[e] = decision[e]
      BY <2>4
    <3>. QED BY <2>1, <2>2, <3>1 DEF Waiting, Entries
  <2>. QED BY <2>3, <2>4
<1>8. Decided'
  <2>1. ASSUME NEW e \in Decision, Settled(e)' PROVE decision'[e].begun <= turn'
    <3>1. CASE e = d
      BY <1>2, <2>1, <3>1 DEF Settled
    <3>2. CASE e # d
      BY <1>1, <1>2, <2>1, <3>2 DEF IInv, Decided, Settled
    <3>. QED BY <3>1, <3>2
  <2>. QED BY <1>2, <1>6, <2>1 DEF IInv, Decided
<1>9. DecisionsOfOneRequestOverlap'
  <2>1. ASSUME NEW e \in Decision, NEW f \in Decision, e # f,
               decision'[e].req = decision'[f].req, HasDecided(e)', Settled(f)'
        PROVE  decision'[f].begun <= decision'[e].ended
    <3>1. HasDecided(e) /\ decision'[e] = decision[e]
      BY <1>6, <2>1
    <3>2. CASE f = d
      <4>1. decision'[d].outcome = "blocked"
        BY <2>1, <3>2 DEF Settled
      <4>2. reqs[r].status = "pending" /\ decision[e].req = r
        BY <1>1, <2>1, <3>1, <3>2, <4>1, TimedRequest DEF Decidable
      <4>. QED BY <3>1, <4>2, PendingIsOpen
    <3>3. CASE f # d
      BY <2>1, <3>1, <3>3 DEF IInv, DecisionsOfOneRequestOverlap, HasDecided, Settled
    <3>. QED BY <3>2, <3>3
  <2>. QED BY <2>1 DEF DecisionsOfOneRequestOverlap, HasDecided, Settled
<1>10. EscalationTakesAuthority'
  <2>1. ASSUME NEW e \in Decision, HasDecided(e)', decision'[e].by # Backup,
               NEW x \in audit', x.req = decision'[e].req, x.what = "escalated"
        PROVE  x.turn >= decision'[e].begun
    <3>1. HasDecided(e) /\ decision'[e] = decision[e]
      BY <1>6, <2>1
    <3>2. CASE x \in audit
      BY <2>1, <3>1, <3>2 DEF IInv, EscalationTakesAuthority, HasDecided, Entries
    <3>3. CASE x \in Escalation(r)
      <4>1. decision[e].begun <= turn
        BY <3>1 DEF IInv, Decided, HasDecided, Settled
      <4>. QED BY <1>3, <3>1, <3>3, <4>1
    <3>4. CASE x \in entries
      BY <1>0, <2>1, <3>4
    <3>. QED BY <1>2, <2>1, <3>2, <3>3, <3>4
  <2>. QED BY <2>1 DEF EscalationTakesAuthority, HasDecided, Entries
<1>. QED BY <1>4, <1>5, <1>7, <1>8, <1>9, <1>10 DEF IInv

\* A call that finds the request decided or in other hands.
LEMMA RefuseStep ==
  ASSUME IInv, NEW d \in Decision, NEW r \in Req, NEW o \in Operator,
         reqs[r].status # "absent", Refuse(d, r, o)
  PROVE  IInv'
<1>1. /\ TypeOK /\ UNCHANGED <<minted, clock>>
      /\ \A entries : TurnAfter(r, entries) \in Nat
  BY DEF IInv, TypeOK, TurnAfter, Refuse
<1>2. ASSUME NEW entries, Attempts(r, entries), Undecided(r, entries),
             NEW outcome \in {"not_pending", "not_assigned"},
             End(d, r, o, TurnAfter(r, entries), outcome)
      PROVE  IInv'
  <2>1. /\ decision' \in [Decision -> DecisionRec]
        /\ \A e \in Decision : e # d => decision'[e] = decision[e]
        /\ decision'[d].pc = "done" /\ decision'[d].outcome = outcome
    BY <1>1, <1>2, EndEffect
  <2>. QED BY <1>1, <1>2, <2>1, UndecidedStep
<1>3. CASE Undecided(r, {}) /\ End(d, r, o, TurnAfter(r, {}), "not_pending")
  BY <1>1, <1>2, <1>3, AttemptEntries
<1>. DEFINE rejected == {Entry(r, "rejected", None)}
<1>4. CASE /\ Undecided(r, rejected)
           /\ End(d, r, o, TurnAfter(r, rejected), "not_assigned")
  <2>1. Attempts(r, rejected)
    BY <1>1, AttemptEntries
  <2>. HIDE DEF rejected
  <2>. QED BY <1>2, <1>4, <2>1
<1>. QED BY <1>3, <1>4 DEF Refuse

\* A call that finds the request decided or in other hands, is stopped by an
\* issuance check, or starts to wait for its hash.
LEMMA ApproveBeginStep ==
  ASSUME IInv, NEW d \in Decision, NEW r \in Req, NEW o \in Operator,
         ApproveBegin(d, r, o)
  PROVE  IInv'
<1>1. /\ TypeOK /\ Timed(r) \in ReqRec /\ reqs[r].status # "absent"
      /\ \A entries : TurnAfter(r, entries) \in Nat
  BY TimedRequest DEF IInv, TypeOK, TurnAfter, ApproveBegin
<1>2. CASE Refuse(d, r, o)
  BY <1>1, <1>2, RefuseStep
<1>3. ASSUME NEW entries, entries = {Entry(r, "blocked", None)},
             Decidable(r, o), Undecided(r, entries), UNCHANGED <<minted, clock>>,
             End(d, r, o, TurnAfter(r, entries), "blocked")
      PROVE  IInv'
  <2>1. /\ decision' \in [Decision -> DecisionRec]
        /\ \A e \in Decision : e # d => decision'[e] = decision[e]
        /\ decision'[d].pc = "done" /\ decision'[d].outcome = "blocked"
        /\ decision'[d].req = r /\ decision'[d].begun = TurnAfter(r, entries)
    BY <1>1, <1>3, EndEffect
  <2>2. Attempts(r, entries) /\ turn' = TurnAfter(r, entries)
    BY <1>1, <1>3, AttemptEntries, UndecidedEffect
  <2>. QED BY <1>1, <1>3, <2>1, <2>2, UndecidedStep
<1>4. CASE /\ Undecided(r, {}) /\ UNCHANGED <<minted, clock>> /\ Decidable(r, o)
           /\ decision' = [decision EXCEPT ![d] =
                 [Idle EXCEPT !.pc = "hash", !.req = r, !.by = o,
                              !.copy = Timed(r), !.begun = TurnAfter(r, {})]]
  <2>. DEFINE rec == [Idle EXCEPT !.pc = "hash", !.req = r, !.by = o,
                                  !.copy = Timed(r), !.begun = TurnAfter(r, {})]
  <2>1. /\ rec \in DecisionRec /\ rec.pc = "hash" /\ rec.req = r /\ rec.by = o
        /\ rec.copy = Timed(r) /\ rec.begun = TurnAfter(r, {}) /\ rec.outcome = "none"
    BY <1>1 DEF Idle, DecisionRec
  <2>2. /\ decision' \in [Decision -> DecisionRec] /\ decision'[d] = rec
        /\ \A e \in Decision : e # d => decision'[e] = decision[e]
    BY <1>1, <1>4, <2>1 DEF TypeOK
  <2>3. Attempts(r, {}) /\ turn' = TurnAfter(r, {})
    BY <1>1, <1>4, AttemptEntries, UndecidedEffect
  <2>. QED BY <1>1, <1>4, <2>1, <2>2, <2>3, UndecidedStep
<1>. QED BY <1>2, <1>3, <1>4 DEF ApproveBegin

\* What the invariant says of the calls is kept when one of them decides and
\* logs it: the others it met had all begun, and none was over before it began.
LEMMA DecidedStep ==
  ASSUME IInv, NEW d \in Decision, NEW r \in Req, NEW o \in Operator \cup {None},
         NEW begun \in Nat, begun <= turn + 1,
         NEW outcome \in {"approved", "denied"}, End(d, r, o, begun, outcome),
         NEW new, Record(new),
         \A x \in new : x.turn = turn /\ x.req = r,
         \E x \in new : x.what \in {"approved", "denied"},
         \A f \in Decision : HasDecided(f) /\ decision[f].req = r
                               => begun <= decision[f].ended,
         o # Backup => \A x \in audit' : x.req = r /\ x.what = "escalated"
                                             => x.turn >= begun,
         \A q \in Req : reqs[q].status # "absent" =>
             /\ reqs'[q].status # "absent"
             /\ reqs'[q].subject = reqs[q].subject /\ reqs'[q].key = reqs[q].key
  PROVE  Waiting' /\ Decided' /\ DecisionsOfOneRequestOverlap' /\ EscalationTakesAuthority'
<1>1. TypeOK /\ turn \in Nat
      /\ \A e \in Decision : decision[e].begun \in Nat /\ decision[e].ended \in Nat
  BY DEF IInv, TypeOK, DecisionRec
<1>2. audit' = audit \cup new /\ turn' = turn + 1
  BY DEF Record
<1>3. /\ \A e \in Decision : e # d => decision'[e] = decision[e]
      /\ decision'[d].pc = "done" /\ decision'[d].outcome = outcome
      /\ decision'[d].req = r /\ decision'[d].by = o
      /\ decision'[d].begun = begun /\ decision'[d].ended = turn
  BY <1>1, EndEffect
<1>4. ASSUME NEW e \in Decision, e # d, HasDecided(e)'
      PROVE  /\ HasDecided(e) /\ decision'[e] = decision[e]
             /\ decision[e].req \in Req /\ decision[e].begun <= turn
  <2>0. Settled(e)'
    BY <1>4 DEF HasDecided, Settled
  <2>1. HasDecided(e) /\ decision'[e] = decision[e]
    BY <1>3, <1>4 DEF HasDecided
  <2>. QED BY <2>1 DEF IInv, Decided, HasDecided, Settled
<1>9. ASSUME NEW e \in Decision, e # d, Settled(e)'
      PROVE  Settled(e) /\ decision'[e] = decision[e] /\ decision[e].begun <= turn
  BY <1>3, <1>9 DEF IInv, Decided, Settled
<1>5. Waiting'
  <2>1. ASSUME NEW e \in Decision, decision'[e].pc = "hash"
        PROVE  /\ e # d /\ decision'[e] = decision[e]
               /\ decision[e].req \in Req
               /\ reqs'[decision[e].req].status # "absent"
               /\ decision[e].copy.subject = reqs'[decision[e].req].subject
               /\ decision[e].copy.key = reqs'[decision[e].req].key
               /\ decision[e].outcome = "none"
               /\ decision[e].begun <= turn
    BY <1>3, <2>1 DEF IInv, Waiting
  <2>2. ASSUME NEW e \in Decision, decision'[e].pc = "hash",
               NEW f \in Decision, HasDecided(f)', decision'[f].req = decision[e].req
        PROVE  decision[e].begun <= decision'[f].ended
    <3>1. CASE f = d
      BY <1>3, <2>1, <2>2, <3>1
    <3>2. CASE f # d
      BY <1>4, <2>1, <2>2, <3>2 DEF IInv, Waiting
    <3>. QED BY <3>1, <3>2
  <2>3. ASSUME NEW e \in Decision, decision'[e].pc = "hash", decision[e].by # Backup,
               NEW x \in audit', x.req = decision[e].req, x.what = "escalated"
        PROVE  x.turn >= decision[e].begun
    <3>1. CASE x \in audit
      BY <2>1, <2>3, <3>1 DEF IInv, Waiting, Entries
    <3>2. CASE x \in new
      BY <1>1, <2>1, <2>3, <3>2
    <3>. QED BY <1>2, <2>3, <3>1, <3>2
  <2>4. \A e \in Decision : decision'[e].pc = "hash" => decision[e].begun <= turn'
    BY <1>1, <1>2, <2>1
  <2>. QED BY <2>1, <2>2, <2>3, <2>4 DEF Waiting, Entries
<1>6. Decided'
  <2>1. ASSUME NEW e \in Decision, HasDecided(e)'
        PROVE  /\ decision'[e].req \in Req
               /\ \E x \in audit' : /\ x.req = decision'[e].req
                                    /\ x.what \in {"approved", "denied"}
    <3>1. CASE e = d
      BY <1>2, <1>3, <3>1
    <3>2. CASE e # d
      BY <1>2, <1>4, <2>1, <3>2 DEF IInv, Decided
    <3>. QED BY <3>1, <3>2
  <2>2. ASSUME NEW e \in Decision, Settled(e)' PROVE decision'[e].begun <= turn'
    <3>1. CASE e = d
      BY <1>2, <1>3, <3>1
    <3>2. CASE e # d
      BY <1>1, <1>2, <1>9, <2>2, <3>2
    <3>. QED BY <3>1, <3>2
  <2>. QED BY <2>1, <2>2 DEF Decided
<1>7. DecisionsOfOneRequestOverlap'
  <2>1. ASSUME NEW e \in Decision, NEW f \in Decision, e # f,
               decision'[e].req = decision'[f].req, HasDecided(e)', Settled(f)'
        PROVE  decision'[f].begun <= decision'[e].ended
    <3>1. CASE e = d
      BY <1>3, <1>9, <2>1, <3>1
    <3>2. CASE f = d
      BY <1>3, <1>4, <2>1, <3>2
    <3>3. CASE e # d /\ f # d
      BY <1>4, <1>9, <2>1, <3>3
      DEF IInv, DecisionsOfOneRequestOverlap, HasDecided, Settled
    <3>. QED BY <3>1, <3>2, <3>3
  <2>. QED BY <2>1 DEF DecisionsOfOneRequestOverlap, HasDecided, Settled
<1>8. EscalationTakesAuthority'
  <2>1. ASSUME NEW e \in Decision, HasDecided(e)', decision'[e].by # Backup,
               NEW x \in audit', x.req = decision'[e].req, x.what = "escalated"
        PROVE  x.turn >= decision'[e].begun
    <3>1. CASE e = d
      BY <1>3, <2>1, <3>1
    <3>2. CASE e # d /\ x \in audit
      BY <1>4, <2>1, <3>2 DEF IInv, EscalationTakesAuthority, HasDecided, Entries
    <3>3. CASE e # d /\ x \in new
      BY <1>1, <1>4, <2>1, <3>3
    <3>. QED BY <1>2, <2>1, <3>1, <3>2, <3>3
  <2>. QED BY <2>1 DEF EscalationTakesAuthority, HasDecided, Entries
<1>. QED BY <1>5, <1>6, <1>7, <1>8

\* The approval that waited for its hash saves the copy it took, over whatever
\* has become of the request since.
LEMMA ApproveEndStep == ASSUME IInv, NEW d \in Decision, ApproveEnd(d) PROVE IInv'
<1>. DEFINE copy == decision[d].copy
<1>0. PICK r \in Req : r = decision[d].req
  BY DEF ApproveEnd, IInv, Waiting
<1>1. PICK t \in Tok :
        /\ minted[t] = None
        /\ minted' = [minted EXCEPT ![t] = r]
        /\ reqs' = [reqs EXCEPT ![r] =
              [copy EXCEPT !.status = "approved", !.tokenId = t, !.secret = t]]
        /\ Record({Entry(r, "approved", t)})
  BY <1>0 DEF ApproveEnd
<1>2. /\ decision[d].pc = "hash" /\ clock' = clock
      /\ End(d, r, decision[d].by, decision[d].begun, "approved")
  BY <1>0 DEF ApproveEnd
<1>3. /\ TypeOK /\ decision[d] \in DecisionRec /\ turn \in Nat
      /\ \A e \in audit : e.turn \in Nat
  BY DEF IInv, TypeOK, EntryRec
<1>4. /\ r # None /\ reqs[r].status # "absent"
      /\ copy \in ReqRec /\ copy.subject = reqs[r].subject /\ copy.key = reqs[r].key
      /\ decision[d].begun \in Nat /\ decision[d].begun <= turn
  BY <1>0, <1>2, <1>3, NoneAssumption DEF IInv, Waiting, DecisionRec
<1>. DEFINE entry == Entry(r, "approved", t)
<1>5. /\ entry \in EntryRec /\ entry.turn = turn /\ entry.req = r
      /\ entry.what = "approved" /\ entry.token = t
      /\ audit' = audit \cup {entry} /\ turn' = turn + 1
  BY <1>1, <1>3, <1>4 DEF Entry, EntryRec, Record
<1>6. /\ reqs'[r] \in ReqRec
      /\ reqs'[r].status = "approved" /\ reqs'[r].tokenId = t /\ reqs'[r].secret = t
      /\ reqs'[r].subject = reqs[r].subject /\ reqs'[r].key = reqs[r].key
      /\ \A q \in Req : q # r => reqs'[q] = reqs[q]
  BY <1>1, <1>3, <1>4 DEF ReqRec, TypeOK
<1>7. minted'[t] = r /\ \A u \in Tok : u # t => minted'[u] = minted[u]
  BY <1>1, <1>3 DEF TypeOK
<1>8. \A e \in audit : e.what \in {"approved", "claimed"} => e.token # t
  BY <1>1, <1>3, NoneAssumption DEF IInv, Trail, TypeOK, EntryRec
<1>9. decision[d].by \in Operator \cup {None}
  BY <1>3 DEF DecisionRec
<1>10. TypeOK'
  <2>1. decision' \in [Decision -> DecisionRec]
    BY <1>2, <1>3, <1>4, <1>9, EndEffect
  <2>. QED BY <1>1, <1>2, <1>3, <1>4, <1>5, <1>6, <2>1 DEF TypeOK
<1>11. Absence'
  BY <1>5, <1>6 DEF IInv, Absence
<1>12. Trail'
  <2>1. ASSUME NEW e \in audit, e.what \in {"approved", "claimed"}
        PROVE  minted'[e.token] = e.req /\ e.token \in Tok
    BY <1>7, <1>8, <2>1 DEF IInv, Trail
  <2>. QED BY <1>3, <1>5, <1>7, <2>1 DEF IInv, Trail
<1>13. Handover'
  BY <1>5, <1>6 DEF IInv, Handover, Entries
<1>14. OneRequestPerKey'
  BY <1>6 DEF IInv, OneRequestPerKey
<1>15. /\ Waiting' /\ Decided' /\ DecisionsOfOneRequestOverlap' /\ EscalationTakesAuthority'
  <2>1. \A f \in Decision : HasDecided(f) /\ decision[f].req = r
                              => decision[d].begun <= decision[f].ended
    BY <1>0, <1>2 DEF IInv, Waiting
  <2>2. ASSUME decision[d].by # Backup,
               NEW x \in audit', x.req = r, x.what = "escalated"
        PROVE  x.turn >= decision[d].begun
    BY <1>0, <1>2, <1>5, <2>2 DEF IInv, Waiting, Entries
  <2>3. \A q \in Req : reqs[q].status # "absent" =>
          /\ reqs'[q].status # "absent"
          /\ reqs'[q].subject = reqs[q].subject /\ reqs'[q].key = reqs[q].key
    BY <1>6
  <2>4. decision[d].begun <= turn + 1
    BY <1>3, <1>4
  <2>5. Record({entry})
    BY <1>1
  <2>. HIDE DEF entry
  <2>. QED
    BY <1>2, <1>4, <1>5, <1>9, <2>1, <2>2, <2>3, <2>4, <2>5, DecidedStep
<1>16. RequestMatchesTrail'
  <2>1. ASSUME NEW q \in Req, q # r
        PROVE  /\ reqs'[q] = reqs[q]
               /\ \A w \in {"approved", "denied", "claimed"} : Entries(q, w)' = Entries(q, w)
               /\ \A e \in Entries(q, "approved") : minted'[e.token] = minted[e.token]
    <3>1. reqs'[q] = reqs[q]
      BY <1>6, <2>1
    <3>2. \A w \in {"approved", "denied", "claimed"} : Entries(q, w)' = Entries(q, w)
      BY <1>5, <2>1 DEF Entries
    <3>3. \A e \in Entries(q, "approved") : minted'[e.token] = minted[e.token]
      BY <1>7, <1>8 DEF Entries, IInv, Trail
    <3>. QED BY <3>1, <3>2, <3>3
  <2>2. /\ entry \in Entries(r, "approved")'
        /\ \A f \in Entries(r, "approved")' : f.turn <= entry.turn
        /\ \A c \in Entries(r, "claimed")' : c.token # t
    <3>1. \A e \in audit : e.turn <= turn
      BY <1>3 DEF IInv, Trail
    <3>. QED BY <1>3, <1>5, <1>8, <3>1 DEF Entries
  <2>3. t # None
    BY NoneAssumption
  <2>4. ASSUME NEW q \in Req, q # r, reqs'[q].status = "approved"
        PROVE  \E e \in Entries(q, "approved")' :
                 /\ e.token = reqs'[q].tokenId /\ minted'[e.token] = q
                 /\ \A f \in Entries(q, "approved")' : f.turn <= e.turn
                 /\ reqs'[q].secret = None <=>
                       \E c \in Entries(q, "claimed")' : c.token = e.token
    BY <2>1, <2>4 DEF IInv, RequestMatchesTrail
  <2>5. \E e \in Entries(r, "approved")' :
           /\ e.token = reqs'[r].tokenId /\ minted'[e.token] = r
           /\ \A f \in Entries(r, "approved")' : f.turn <= e.turn
           /\ reqs'[r].secret = None <=>
                 \E c \in Entries(r, "claimed")' : c.token = e.token
    <3>1. entry \in Entries(r, "approved")'
      BY <2>2
    <3>2. /\ entry.token = reqs'[r].tokenId /\ minted'[entry.token] = r
          /\ \A f \in Entries(r, "approved")' : f.turn <= entry.turn
          /\ reqs'[r].secret # None
          /\ ~ \E c \in Entries(r, "claimed")' : c.token = entry.token
      BY <1>5, <1>6, <1>7, <2>2, <2>3
    <3>. QED BY <3>1, <3>2
  <2>6. ASSUME NEW q \in Req, reqs'[q].status \in {"pending", "denied"}
        PROVE  /\ Entries(q, "approved")' = {}
               /\ reqs'[q].status = "pending" => Entries(q, "denied")' = {}
               /\ reqs'[q].status = "denied" => Entries(q, "denied")' # {}
    BY <1>6, <2>1, <2>6 DEF IInv, RequestMatchesTrail
  <2>. QED BY <2>4, <2>5, <2>6 DEF RequestMatchesTrail
<1>. QED BY <1>10, <1>11, <1>12, <1>13, <1>14, <1>15, <1>16 DEF IInv

\* An approval that the token store refuses is logged and changes nothing else,
\* whatever has become of the request since.
LEMMA ApproveFailsStep == ASSUME IInv, NEW d \in Decision, ApproveFails(d) PROVE IInv'
<1>1. /\ TypeOK /\ decision[d].pc = "hash" /\ turn \in Nat
      /\ decision[d].by \in Operator \cup {None} /\ decision[d].begun \in Nat
      /\ \A e \in Decision : decision[e].begun \in Nat
      /\ \A e \in audit : e.turn \in Nat
  BY DEF ApproveFails, IInv, TypeOK, DecisionRec, EntryRec
<1>2. PICK r \in Req : r = decision[d].req
  BY <1>1 DEF IInv, Waiting
<1>. DEFINE entry == Entry(r, "blocked", None)
<1>3. /\ audit' = audit \cup {entry} /\ turn' = turn + 1
      /\ UNCHANGED <<reqs, minted, clock>>
      /\ decision' \in [Decision -> DecisionRec]
      /\ \A e \in Decision : e # d => decision'[e] = decision[e]
      /\ decision'[d].pc = "done" /\ decision'[d].outcome = "blocked"
      /\ decision'[d].req = r /\ decision'[d].begun = decision[d].begun
  BY <1>1, <1>2, EndEffect DEF ApproveFails, Record
<1>4. /\ entry \in EntryRec /\ entry.turn = turn
      /\ entry.req = r /\ entry.what = "blocked"
  BY <1>1 DEF Entry, EntryRec
<1>. HIDE DEF entry
<1>5. ASSUME NEW q \in Req, NEW w \in {"escalated", "approved", "denied", "claimed"}
      PROVE  Entries(q, w)' = Entries(q, w)
  <2>1. entry.what # w
    BY <1>4
  <2>. QED BY <1>3, <2>1 DEF Entries
<1>6. TypeOK'
  BY <1>1, <1>3, <1>4 DEF TypeOK
<1>7. Absence' /\ OneRequestPerKey'
  <2>1. reqs[r].status # "absent"
    BY <1>1, <1>2 DEF IInv, Waiting
  <2>2. Absence'
    BY <1>3, <1>4, <2>1 DEF IInv, Absence
  <2>. QED BY <1>3, <2>2 DEF IInv, OneRequestPerKey
<1>8. Trail'
  BY <1>1, <1>3, <1>4 DEF IInv, Trail
<1>9. Handover' /\ RequestMatchesTrail'
  BY <1>3, <1>5 DEF IInv, Handover, RequestMatchesTrail
<1>10. \A e \in Decision : HasDecided(e)' => HasDecided(e) /\ decision'[e] = decision[e]
  BY <1>3 DEF HasDecided
<1>11. \A e \in Decision : decision'[e].pc = "hash" => decision'[e] = decision[e]
  BY <1>3
<1>12. Waiting'
  BY <1>1, <1>3, <1>5, <1>10, <1>11 DEF IInv, Waiting
<1>13. Decided'
  <2>1. ASSUME NEW e \in Decision, Settled(e)' PROVE decision'[e].begun <= turn'
    <3>1. CASE e = d
      BY <1>1, <1>3, <3>1 DEF IInv, Waiting
    <3>2. CASE e # d
      BY <1>1, <1>3, <2>1, <3>2 DEF IInv, Decided, Settled
    <3>. QED BY <3>1, <3>2
  <2>. QED BY <1>3, <1>10, <2>1 DEF IInv, Decided
<1>14. DecisionsOfOneRequestOverlap'
  <2>1. ASSUME NEW e \in Decision, NEW f \in Decision, e # f,
               decision'[e].req = decision'[f].req, HasDecided(e)', Settled(f)'
        PROVE  decision'[f].begun <= decision'[e].ended
    <3>1. HasDecided(e) /\ decision'[e] = decision[e]
      BY <1>10, <2>1
    <3>2. CASE f = d
      BY <1>1, <1>2, <1>3, <2>1, <3>1, <3>2 DEF IInv, Waiting
    <3>3. CASE f # d
      BY <1>3, <2>1, <3>1, <3>3
      DEF IInv, DecisionsOfOneRequestOverlap, HasDecided, Settled
    <3>. QED BY <3>2, <3>3
  <2>. QED BY <2>1 DEF DecisionsOfOneRequestOverlap, HasDecided, Settled
<1>15. EscalationTakesAuthority'
  <2>1. ASSUME NEW e \in Decision, HasDecided(e)'
        PROVE  /\ HasDecided(e) /\ decision'[e] = decision[e]
               /\ Entries(decision[e].req, "escalated")' = Entries(decision[e].req, "escalated")
    BY <1>5, <1>10, <2>1 DEF IInv, Decided
  <2>. QED BY <2>1 DEF IInv, EscalationTakesAuthority, HasDecided
<1>. QED BY <1>6, <1>7, <1>8, <1>9, <1>12, <1>13, <1>14, <1>15 DEF IInv

\* A denial is of a request that is pending, and logs the escalation first.
LEMMA DenyStep ==
  ASSUME IInv, NEW d \in Decision, NEW r \in Req, NEW o \in Operator,
         DenyRequest(d, r, o)
  PROVE  IInv'
<1>1. /\ TypeOK /\ turn \in Nat /\ turn + 1 \in Nat
      /\ reqs[r].status # "absent"
      /\ \A e \in audit : e.turn \in Nat
  BY DEF IInv, TypeOK, EntryRec, DenyRequest
<1>2. CASE Refuse(d, r, o)
  BY <1>1, <1>2, RefuseStep
<1>3. CASE /\ Decidable(r, o)
           /\ reqs' = [reqs EXCEPT ![r] = [Timed(r) EXCEPT !.status = "denied"]]
           /\ Record(Escalation(r) \cup {Entry(r, "denied", None)})
           /\ End(d, r, o, turn + 1, "denied")
           /\ UNCHANGED <<minted, clock>>
  <2>. DEFINE entry == Entry(r, "denied", None)
              new == Escalation(r) \cup {entry}
  <2>1. /\ entry \in EntryRec /\ entry.turn = turn /\ entry.req = r
        /\ entry.what = "denied"
    BY <1>1 DEF Entry, EntryRec
  <2>2. \A e \in Escalation(r) : e \in EntryRec /\ Due(r) /\ e.turn = turn
                                 /\ e.req = r /\ e.what = "escalated"
    BY <1>1, EscalationEntry
  <2>3. audit' = audit \cup new /\ turn' = turn + 1
    BY <1>3 DEF Record
  <2>4. /\ reqs[r].status = "pending"
        /\ Timed(r) \in ReqRec
        /\ Timed(r).subject = reqs[r].subject /\ Timed(r).key = reqs[r].key
    BY <1>1, <1>3, TimedRequest DEF Decidable
  <2>5. /\ reqs'[r] \in ReqRec /\ reqs'[r].status = "denied"
        /\ reqs'[r].subject = reqs[r].subject /\ reqs'[r].key = reqs[r].key
        /\ \A q \in Req : q # r => reqs'[q] = reqs[q]
    BY <1>1, <1>3, <2>4 DEF ReqRec, TypeOK
  <2>6. TypeOK'
    <3>1. decision' \in [Decision -> DecisionRec]
      BY <1>1, <1>3, EndEffect
    <3>. QED BY <1>1, <1>3, <2>1, <2>2, <2>3, <2>5, <3>1 DEF TypeOK
  <2>7. Absence'
    BY <1>1, <2>1, <2>2, <2>3, <2>5 DEF IInv, Absence
  <2>8. Trail'
    <3>1. Due(r) => Backup # None
      BY DEF Due
    <3>. QED BY <1>1, <1>3, <2>1, <2>2, <2>3, <3>1 DEF IInv, Trail
  <2>9. Handover'
    BY <2>1, <2>2, <2>3, <2>5 DEF IInv, Handover, Entries
  <2>10. OneRequestPerKey'
    BY <2>5 DEF IInv, OneRequestPerKey
  <2>11. /\ Waiting' /\ Decided' /\ DecisionsOfOneRequestOverlap'
         /\ EscalationTakesAuthority'
    <3>1. \A f \in Decision : ~(HasDecided(f) /\ decision[f].req = r)
      BY <2>4, PendingIsOpen
    <3>2. ASSUME o # Backup, NEW x \in audit', x.req = r, x.what = "escalated"
          PROVE  FALSE
      <4>1. Entries(r, "escalated") = {} /\ Escalation(r) = {}
        BY <1>3, <3>2, DecidableBy DEF Escalation
      <4>. QED BY <2>1, <2>3, <3>2, <4>1 DEF Entries
    <3>3. \A q \in Req : reqs[q].status # "absent" =>
            /\ reqs'[q].status # "absent"
            /\ reqs'[q].subject = reqs[q].subject /\ reqs'[q].key = reqs[q].key
      BY <2>5
    <3>4. /\ \A x \in new : x.turn = turn /\ x.req = r
          /\ \E x \in new : x.what \in {"approved", "denied"}
      BY <2>1, <2>2
    <3>5. Record(new)
      BY <1>3
    <3>6. turn + 1 <= turn + 1
      BY <1>1
    <3>. HIDE DEF new
    <3>. QED BY <1>1, <1>3, <3>1, <3>2, <3>3, <3>4, <3>5, <3>6, DecidedStep
  <2>12. RequestMatchesTrail'
    <3>1. ASSUME NEW q \in Req, q # r
          PROVE  /\ reqs'[q] = reqs[q]
                 /\ \A w \in {"approved", "denied", "claimed"} :
                       Entries(q, w)' = Entries(q, w)
      BY <2>1, <2>2, <2>3, <2>5, <3>1 DEF Entries
    <3>2. Entries(r, "approved")' = {} /\ entry \in Entries(r, "denied")'
      BY <2>1, <2>2, <2>3, <2>4 DEF IInv, RequestMatchesTrail, Entries
    <3>. QED BY <1>3, <2>5, <3>1, <3>2 DEF IInv, RequestMatchesTrail
  <2>. QED BY <2>6, <2>7, <2>8, <2>9, <2>10, <2>11, <2>12 DEF IInv
<1>. QED BY <1>2, <1>3 DEF DenyRequest

-----------------------------------------------------------------------------
\* What the invariant says does not depend on the clock.
LEMMA ClockStep ==
  ASSUME IInv, UNCHANGED <<reqs, minted, decision, audit, turn>>, clock' \in Nat
  PROVE  IInv'
  BY DEF IInv, TypeOK, Absence, Trail, Handover, Waiting, Decided, HasDecided, Settled,
     OneRequestPerKey, DecisionsOfOneRequestOverlap,
     EscalationTakesAuthority, RequestMatchesTrail, Entries

\* Every step keeps the invariant.
LEMMA InvStep == IInv /\ [Next]_vars => IInv'
<1>. SUFFICES ASSUME IInv, [Next]_vars PROVE IInv'
  OBVIOUS
<1>1. CASE Requester
  BY <1>1, SubmitStep, ClaimStep DEF Requester
<1>2. ASSUME NEW d \in Decision, Decides(d) PROVE IInv'
  BY <1>2, ApproveBeginStep, DenyStep DEF Decides
<1>3. ASSUME NEW d \in Decision, ApproveEnd(d) \/ ApproveFails(d) PROVE IInv'
  BY <1>3, ApproveEndStep, ApproveFailsStep
<1>4. CASE Tick
  BY <1>4, ClockStep DEF Tick, IInv, TypeOK
<1>5. CASE UNCHANGED vars
  BY <1>5, ClockStep DEF vars, IInv, TypeOK
<1>. QED BY <1>1, <1>2, <1>3, <1>4, <1>5 DEF Next

\* Nothing is ever taken out of the log.
LEMMA LogGrows == IInv /\ [Next]_vars => audit \subseteq audit'
<1>. SUFFICES ASSUME [Next]_vars PROVE audit \subseteq audit'
  OBVIOUS
<1>1. ASSUME NEW r \in Req, NEW entries, Undecided(r, entries)
      PROVE  audit \subseteq audit'
  BY <1>1 DEF Undecided, Record, NoRecord
<1>2. CASE Requester
  BY <1>2 DEF Requester, Submit, ClaimTokenSecret, Record, NoRecord
<1>3. ASSUME NEW d \in Decision, Decides(d) PROVE audit \subseteq audit'
  BY <1>1, <1>3 DEF Decides, ApproveBegin, DenyRequest, Refuse, Record
<1>4. ASSUME NEW d \in Decision, ApproveEnd(d) \/ ApproveFails(d)
      PROVE  audit \subseteq audit'
  BY <1>4 DEF ApproveEnd, ApproveFails, Record, NoRecord
<1>. QED BY <1>2, <1>3, <1>4 DEF Next, Tick, vars

-----------------------------------------------------------------------------
\* The workflow keeps its invariant, whatever decisions overlap.
THEOREM Invariance == Spec => []IInv
<1>1. Init => IInv
  BY InitInv
<1>2. IInv /\ [Next]_vars => IInv'
  BY InvStep
<1>. QED BY <1>1, <1>2, PTL DEF Spec

\* Every variable stays in its type.
THEOREM TypeCorrect == Spec => []TypeOK
<1>1. IInv => TypeOK
  BY DEF IInv
<1>. QED BY <1>1, Invariance, PTL

\* A retried submission never makes a second request.
THEOREM KeysNameOneRequest == Spec => []OneRequestPerKey
<1>1. IInv => OneRequestPerKey
  BY DEF IInv
<1>. QED BY <1>1, Invariance, PTL

\* Two calls that decided one request ran at the same time.
THEOREM DecisionsOverlap == Spec => []DecisionsOfOneRequestOverlap
<1>1. IInv => DecisionsOfOneRequestOverlap
  BY DEF IInv
<1>. QED BY <1>1, Invariance, PTL

\* Nobody but the backup decides a request after its escalation.
THEOREM BackupDecides == Spec => []EscalationTakesAuthority
<1>1. IInv => EscalationTakesAuthority
  BY DEF IInv
<1>. QED BY <1>1, Invariance, PTL

\* The stored request and the log agree on what was decided and claimed.
THEOREM RequestsMatchTrail == Spec => []RequestMatchesTrail
<1>1. IInv => RequestMatchesTrail
  BY DEF IInv
<1>. QED BY <1>1, Invariance, PTL

\* No copy of a request is written back over its escalation.
THEOREM EscalationsStick == Spec => EscalationSticks
<1>. DEFINE Kept == \A r \in Req :
          reqs[r].status = "pending" /\ Entries(r, "escalated") # {} =>
              \/ reqs'[r].status # "pending"
              \/ reqs'[r].assigned = Backup
<1>1. IInv' /\ audit \subseteq audit' => Kept
  BY DEF IInv, Handover, Entries
<1>2. IInv /\ IInv' /\ [Next]_vars => [Kept]_vars
  BY <1>1, LogGrows
<1>. QED BY <1>2, Invariance, PTL DEF Spec, EscalationSticks
=============================================================================
