------------------------------ MODULE SdkClient ------------------------------
(***************************************************************************)
(* sdk/ambitClient.ts against the request routes of the server.  A call    *)
(* sends attempts over a network that may delay or lose either direction;  *)
(* an attempt that the client has given up may still arrive, before or     *)
(* after the next one.  What the client is told and what was done part     *)
(* here: a call that fails may have made a request or taken a secret.      *)
(*                                                                         *)
(* All calls are of one agent.  A request is named by the attempt that     *)
(* made it.  getRequest, which changes nothing, is left out.               *)
(***************************************************************************)
EXTENDS Naturals

CONSTANTS
    Call,           \* calls of requestToken and claimTokenSecret
    Claim,          \* those of claimTokenSecret
    Key,            \* idempotency keys
    None,
    MaxAttempts     \* maxAttempts of the client

ASSUME SdkAssumption == MaxAttempts \in Nat \ {0} /\ None \notin Key
                     /\ Claim \subseteq Call

VARIABLES
    call,
    wire,           \* attempts the server has not handled
    answers,        \* response headers the client has not read
    request,        \* RequestStore
    taken           \* history: which call was given the secret of which request

vars == <<call, wire, answers, request, taken>>

-----------------------------------------------------------------------------
(* A definition named Buggy... is a plausible mistake in the definition    *)
(* that follows it; no specification uses it.                              *)

Attempt == Call \X (1..MaxAttempts)

Status == {"ok", "4xx", "5xx"}

\* empty: the call returns, with no payload.
CallRec ==
    [pc      : {"idle", "fetch", "body", "sleep", "done"},
     key     : Key \cup {None},
     target  : Attempt \cup {None},
     attempt : 0..MaxAttempts,
     status  : Status \cup {None},
     result  : {"none", "ok", "empty", "refused", "failed"}]

Idle ==
    [pc |-> "idle", key |-> None, target |-> None, attempt |-> 0,
     status |-> None, result |-> "none"]

Current(c) == <<c, call[c].attempt>>

Stored(r) == request[r] # "absent"

-----------------------------------------------------------------------------
(* AmbitClient.#send.                                                      *)

BuggyAttempts(rec) == MaxAttempts

\* Only a submission with an idempotency key is retried.
Attempts(rec) == IF rec.key # None THEN MaxAttempts ELSE 1

Sends(c, rec) ==
    LET n == rec.attempt + 1 IN
    /\ call' = [call EXCEPT ![c] =
                    [rec EXCEPT !.pc = "fetch", !.attempt = n, !.status = None]]
    /\ wire' = wire \cup {<<c, n>>}

Begin(c) ==
    /\ call[c].pc = "idle"
    /\ \/ c \notin Claim /\ \E k \in Key \cup {None} : Sends(c, [Idle EXCEPT !.key = k])
       \/ /\ c \in Claim
          /\ \E r \in {q \in Attempt : Stored(q)} : Sends(c, [Idle EXCEPT !.target = r])
    /\ UNCHANGED <<answers, request, taken>>

Ended(rec, result) == [rec EXCEPT !.pc = "done", !.result = result]

\* A failure a retry may fix: a timeout, a broken connection, a 5xx.
AfterFailure(rec) ==
    IF rec.attempt < Attempts(rec) THEN [rec EXCEPT !.pc = "sleep"] ELSE Ended(rec, "failed")

\* What becomes of an attempt once its body is read, or is not: json().catch
\* makes of a broken one an undefined payload.
Outcome(rec, read) ==
    CASE rec.status = "ok"  -> Ended(rec, IF read THEN "ok" ELSE "empty")
      [] rec.status = "4xx" -> Ended(rec, "refused")
      [] rec.status = "5xx" -> AfterFailure(rec)

Responds(c, status) ==
    /\ call[c].pc = "fetch" /\ [at |-> Current(c), status |-> status] \in answers
    /\ answers' = answers \ {[at |-> Current(c), status |-> status]}
    /\ call' = [call EXCEPT ![c].pc = "body", ![c].status = status]
    /\ UNCHANGED <<wire, request, taken>>

BodyRead(c) ==
    /\ call[c].pc = "body"
    /\ call' = [call EXCEPT ![c] = Outcome(@, TRUE)]
    /\ UNCHANGED <<wire, answers, request, taken>>

BuggyAborted(c) ==
    /\ call[c].pc = "fetch"
    /\ call' = [call EXCEPT ![c] = AfterFailure(@)]
    /\ UNCHANGED <<wire, answers, request, taken>>

\* The timer aborts the attempt, or its connection breaks: while it waits for
\* the headers or while it reads the body, since the timer is cleared last.
Aborted(c) ==
    /\ call[c].pc \in {"fetch", "body"}
    /\ call' = [call EXCEPT ![c] =
                    IF @.pc = "fetch" THEN AfterFailure(@) ELSE Outcome(@, FALSE)]
    /\ answers' = {x \in answers : x.at # Current(c)}
    /\ UNCHANGED <<wire, request, taken>>

Retry(c) ==
    /\ call[c].pc = "sleep" /\ Sends(c, call[c])
    /\ UNCHANGED <<answers, request, taken>>

-----------------------------------------------------------------------------
(* POST /requests and POST /requests/:id/token-secret.                     *)

\* The server answers attempt a of the wire; nobody reads the answer to an abandoned one.
Answers(a, status) ==
    /\ wire' = wire \ {a}
    /\ answers' = IF call[a[1]].pc = "fetch" /\ Current(a[1]) = a
                  THEN answers \cup {[at |-> a, status |-> status]} ELSE answers
    /\ UNCHANGED call

\* A rate limit, a credential that is not known, or a server that fails before it acts.
TurnedAway(a) ==
    /\ Answers(a, "4xx") \/ Answers(a, "5xx")
    /\ UNCHANGED <<request, taken>>

BuggyExisting(k) ==
    {r \in Attempt : request[r] = "pending" /\ k # None /\ call[r[1]].key = k}

Existing(k) == {r \in Attempt : Stored(r) /\ k # None /\ call[r[1]].key = k}

\* The store is set before its file and the log, either of which may throw.
Submits(a) ==
    /\ a[1] \notin Claim /\ Existing(call[a[1]].key) = {}
    /\ request' = [request EXCEPT ![a] = "pending"]
    /\ Answers(a, "ok") \/ Answers(a, "5xx")
    /\ UNCHANGED taken

SubmitsAgain(a) ==
    /\ a[1] \notin Claim /\ Existing(call[a[1]].key) # {}
    /\ Answers(a, "ok")
    /\ UNCHANGED <<request, taken>>

Claims(a) ==
    LET r == call[a[1]].target IN
    /\ a[1] \in Claim /\ request[r] = "approved"
    /\ request' = [request EXCEPT ![r] = "claimed"] /\ taken' = taken \cup {<<a[1], r>>}
    /\ Answers(a, "ok") \/ Answers(a, "5xx")

\* Not approved, or claimed already.
ClaimRefused(a) ==
    /\ a[1] \in Claim /\ request[call[a[1]].target] # "approved"
    /\ Answers(a, "4xx")
    /\ UNCHANGED <<request, taken>>

Decide(r) ==
    /\ request[r] = "pending"
    /\ \E status \in {"approved", "denied"} : request' = [request EXCEPT ![r] = status]
    /\ UNCHANGED <<call, wire, answers, taken>>

-----------------------------------------------------------------------------
Init ==
    /\ call = [c \in Call |-> Idle]
    /\ wire = {} /\ answers = {}
    /\ request = [r \in Attempt |-> "absent"] /\ taken = {}

TimerFires(c) == Aborted(c) \/ Retry(c)

Next ==
    \/ \E c \in Call :
          \/ Begin(c) \/ BodyRead(c) \/ TimerFires(c)
          \/ \E status \in Status : Responds(c, status)
    \/ \E a \in wire :
          \/ TurnedAway(a) \/ Submits(a) \/ SubmitsAgain(a) \/ Claims(a) \/ ClaimRefused(a)
    \/ \E r \in Attempt : Decide(r)

Spec == Init /\ [][Next]_vars

\* The client's timers fire; the server and the network owe nothing.
FairSpec == Spec /\ \A c \in Call : WF_vars(TimerFires(c))

-----------------------------------------------------------------------------
(* Properties.                                                             *)

\* Every variable stays in its type.
TypeOK ==
    /\ call \in [Call -> CallRec]
    /\ wire \subseteq Attempt
    /\ answers \subseteq [at : Attempt, status : Status]
    /\ request \in [Attempt -> {"absent", "pending", "approved", "denied", "claimed"}]
    /\ taken \subseteq Call \X Attempt

\* However late the attempts of a call arrive, and whatever was decided
\* meanwhile, a call makes one request, and all calls under one key make one
\* (ambitClient.ts 92-100, tokenRequest.ts 123-130).
OneRequestPerCall ==
    \A q, r \in Attempt : q # r /\ Stored(q) /\ Stored(r) =>
        /\ q[1] # r[1]
        /\ call[q[1]].key = None \/ call[q[1]].key # call[r[1]].key

\* A call that took a secret never reports a refusal, which would say that the
\* secret is with somebody else, and a call that returns one has taken it: why
\* claims are not retried (ambitClient.ts 111-122).
ClaimsAreTold ==
    /\ \A x \in taken : call[x[1]].result # "refused"
    /\ \A c \in Call :
          c \in Claim /\ call[c].result = "ok" => <<c, call[c].target>> \in taken

\* Every call ends, although no answer may ever come or only half of one: the
\* timer runs until the body is read (ambitClient.ts 137-177).
EveryCallEnds == \A c \in Call : call[c].pc = "fetch" ~> call[c].pc = "done"
=============================================================================
