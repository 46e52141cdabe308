------------------------------- MODULE Access -------------------------------
(***************************************************************************)
(* What a token is used for: POST /tokens/:id/access, which reaches a mock *)
(* endpoint with a timeout and retries (mockEndpointAccess.ts,             *)
(* mockEndpoints.ts), and POST /tokens/:id/customer-data, which reads a    *)
(* customer record through a redaction rule (customerDataAccess.ts,        *)
(* redaction.ts).  Both begin with enforceToken.                           *)
(*                                                                         *)
(* An attempt that timed out is not cancelled: it runs on beside the retry *)
(* and its result is dropped.  Endpoints may take any time, or never       *)
(* answer.  A token here is its status and its scope; how it comes and     *)
(* goes is TokenGateway's matter.                                          *)
(***************************************************************************)
EXTENDS Naturals, FiniteSets

CONSTANTS
    Tok, System,
    Call,           \* HTTP requests to the two routes
    None,
    Perm,           \* scopes
    Scope,          \* the scope of each token
    UsePerm,        \* the action of an access to an endpoint
    ReadPerm,       \* "customer:read"
    Field,          \* the fields of a customer record
    RequiredScope,  \* sensitiveFields of the redaction rule: field -> scope
    MaxAttempts,
    MaxTurn         \* bound on revocations and outages

ASSUME AccessAssumption ==
    /\ Scope \in [Tok -> SUBSET Perm] /\ {UsePerm, ReadPerm} \subseteq Perm
    /\ RequiredScope \in [DOMAIN RequiredScope -> Perm]
    /\ MaxAttempts \in Nat \ {0} /\ MaxTurn \in Nat
    /\ None \notin Tok \cup System

VARIABLES
    revoked,        \* the tokens TokenStore has as revoked
    down,           \* MockEndpointRegistry's #down
    call,
    running,        \* endpoint calls in flight, abandoned ones included
    performed,      \* history: endpoint calls that were carried out
    log,            \* audit entries of the calls
    turn            \* revocations and outages so far

vars == <<revoked, down, call, running, performed, log, turn>>

-----------------------------------------------------------------------------
(* Calls and entries.  A definition named Buggy... is a plausible mistake  *)
(* in the definition that follows it; no specification uses it.            *)

Kind == {"endpoint", "data"}

\* stale, late and gone are history: the token was revoked when the call
\* began, an attempt of it timed out, the log refused a result of it.
CallRec ==
    [pc      : {"idle", "verify", "attempt", "sleep", "done"},
     kind    : Kind, tok : Tok \cup {None}, system : System \cup {None},
     stale   : BOOLEAN,
     attempt : 0..MaxAttempts,
     cause   : {"none", "unreachable", "log"},      \* lastError
     late    : BOOLEAN, gone : BOOLEAN,
     masked  : SUBSET Field,
     outcome : {"none", "denied", "success", "unreachable", "data", "error"}]

Idle ==
    [pc |-> "idle", kind |-> "data", tok |-> None, system |-> None, stale |-> FALSE,
     attempt |-> 0, cause |-> "none", late |-> FALSE, gone |-> FALSE, masked |-> {},
     outcome |-> "none"]

EntryRec ==
    [call : Call, what : {"allowed", "denied", "success", "unreachable", "data"},
     masked : SUBSET Field]

Entry(c, what) == [call |-> c, what |-> what, masked |-> {}]

\* A record() that throws has put its entry into memory all the same.
Record(entries) == log' = log \cup entries

Ended(call_, outcome) == [call_ EXCEPT !.pc = "done", !.outcome = outcome]

-----------------------------------------------------------------------------
(* enforceToken, as both routes call it.                                   *)

Begin(c, kind, t, s) ==
    /\ call[c].pc = "idle"
    /\ kind = "data" <=> s = None
    /\ call' = [call EXCEPT ![c] =
          [Idle EXCEPT !.pc = "verify", !.kind = kind, !.tok = t, !.system = s,
                       !.stale = t \in revoked]]
    /\ UNCHANGED <<revoked, down, running, performed, log, turn>>

Needed(c) == IF call[c].kind = "data" THEN ReadPerm ELSE UsePerm

\* decide(), on the token as it was read before verifyPassword.
Permits(c, possessed) ==
    possessed /\ ~call[c].stale /\ Needed(c) \in Scope[call[c].tok]

Denied(c, possessed) ==
    /\ call[c].pc = "verify" /\ ~Permits(c, possessed)
    /\ Record({Entry(c, "denied")})
    /\ \E outcome \in {"denied", "error"} :
          call' = [call EXCEPT ![c] = Ended(@, outcome)]
    /\ UNCHANGED <<revoked, down, running, performed, turn>>

\* The log throws at the decision, or the breaker at the lookup after it: the
\* server's error handler answers.
AllowedThenFails(c) ==
    /\ call[c].pc = "verify" /\ Permits(c, TRUE)
    /\ Record({Entry(c, "allowed")})
    /\ call' = [call EXCEPT ![c] = Ended(@, "error")]
    /\ UNCHANGED <<revoked, down, running, performed, turn>>

-----------------------------------------------------------------------------
(* accessMockEndpoint, behind the decision.                                *)

\* An attempt that has failed is slept over, or was the last: then the last
\* error is logged and answered as unreachable, or thrown when it is another
\* one or the log throws.
AfterFailure(rec, cause, logs) ==
    LET failed == [rec EXCEPT !.cause = cause] IN
    IF rec.attempt < MaxAttempts THEN [failed EXCEPT !.pc = "sleep"]
    ELSE IF cause = "unreachable" /\ logs THEN Ended(failed, "unreachable")
    ELSE Ended([failed EXCEPT !.gone = TRUE], "error")

FinalEntry(c, rec) ==
    IF rec.pc = "done" /\ rec.cause = "unreachable" THEN {Entry(c, "unreachable")} ELSE {}

\* registry.call: a system that is down refuses at once.
Attempt(c, rec, logs) ==
    LET next    == [rec EXCEPT !.attempt = @ + 1, !.pc = "attempt"]
        failed  == AfterFailure(next, "unreachable", logs)
        allowed == IF rec.pc = "verify" THEN {Entry(c, "allowed")} ELSE {}
    IN
    IF rec.system \in down
    THEN /\ call' = [call EXCEPT ![c] = failed]
         /\ Record(allowed \cup FinalEntry(c, failed))
         /\ UNCHANGED running
    ELSE /\ call' = [call EXCEPT ![c] = next]
         /\ running' = running \cup {<<c, next.attempt>>}
         /\ Record(allowed)

AccessBegins(c, logs) ==
    /\ call[c].pc = "verify" /\ call[c].kind = "endpoint" /\ Permits(c, TRUE)
    /\ Attempt(c, call[c], logs)
    /\ UNCHANGED <<revoked, down, performed, turn>>

\* sleep() has passed: the next attempt, without another look at the token.
Retry(c, logs) ==
    /\ call[c].pc = "sleep"
    /\ Attempt(c, call[c], logs)
    /\ UNCHANGED <<revoked, down, performed, turn>>

\* withTimeout gives up; the endpoint call runs on.
GivesUp(c, logs) ==
    /\ LET rec == AfterFailure([call[c] EXCEPT !.late = TRUE], "unreachable", logs) IN
       call' = [call EXCEPT ![c] = rec] /\ Record(FinalEntry(c, rec))
    /\ UNCHANGED <<revoked, down, running, performed, turn>>

BuggyTimeOut(c, logs) ==
    call[c].pc = "attempt" /\ call[c].attempt < MaxAttempts /\ GivesUp(c, logs)

TimeOut(c, logs) == call[c].pc = "attempt" /\ GivesUp(c, logs)

Performs(c, n) ==
    /\ <<c, n>> \in running
    /\ running' = running \ {<<c, n>>} /\ performed' = performed \cup {<<c, n>>}

Awaited(c, n) == call[c].pc = "attempt" /\ call[c].attempt = n

\* The endpoint answers the attempt that is waited for.  The entry is written
\* inside the try: when the log throws, the attempt has failed and is retried.
BuggyAnswer(c, n, logs) ==
    /\ Performs(c, n) /\ Awaited(c, n)
    /\ call' = [call EXCEPT ![c] =
          IF call[c].system \in down THEN AfterFailure(@, "unreachable", logs)
          ELSE IF logs THEN Ended(@, "success")
          ELSE AfterFailure([@ EXCEPT !.gone = TRUE], "log", logs)]
    /\ Record({Entry(c, "success")})
    /\ UNCHANGED <<revoked, down, turn>>

Answer(c, n, logs) ==
    /\ Performs(c, n) /\ Awaited(c, n)
    /\ call' = [call EXCEPT ![c] =
          IF logs THEN Ended(@, "success")
          ELSE AfterFailure([@ EXCEPT !.gone = TRUE], "log", logs)]
    /\ Record({Entry(c, "success")})
    /\ UNCHANGED <<revoked, down, turn>>

BuggyAnswerDropped(c, n) ==
    /\ Performs(c, n) /\ ~Awaited(c, n)
    /\ Record({Entry(c, "success")})
    /\ UNCHANGED <<revoked, down, call, turn>>

\* It answers an attempt that was given up: nobody listens.
AnswerDropped(c, n) ==
    /\ Performs(c, n) /\ ~Awaited(c, n)
    /\ UNCHANGED <<revoked, down, call, log, turn>>

-----------------------------------------------------------------------------
(* accessCustomerData, behind the decision: one segment.                   *)

\* applyRedaction: the fields of the record the rule names and the scope of
\* the token does not open.
Masked(scope) ==
    {f \in Field \cap DOMAIN RequiredScope : RequiredScope[f] \notin scope}

\* An unknown customer, or a rule that does not resolve.
DataRefused(c) ==
    /\ call[c].pc = "verify" /\ call[c].kind = "data" /\ Permits(c, TRUE)
    /\ Record({Entry(c, "allowed"), Entry(c, "denied")})
    /\ call' = [call EXCEPT ![c] = Ended(@, "denied")]
    /\ UNCHANGED <<revoked, down, running, performed, turn>>

\* The entry first, then the answer: a log that throws keeps the data back.
ReadData(c, logs) ==
    /\ call[c].pc = "verify" /\ call[c].kind = "data" /\ Permits(c, TRUE)
    /\ LET masked == Masked(Scope[call[c].tok]) IN
       /\ Record({Entry(c, "allowed"), [Entry(c, "data") EXCEPT !.masked = masked]})
       /\ call' = [call EXCEPT ![c] =
             IF logs THEN [Ended(@, "data") EXCEPT !.masked = masked]
             ELSE [Ended(@, "error") EXCEPT !.gone = TRUE]]
    /\ UNCHANGED <<revoked, down, running, performed, turn>>

-----------------------------------------------------------------------------
Revoke(t) ==
    /\ turn < MaxTurn /\ t \notin revoked
    /\ revoked' = revoked \cup {t} /\ turn' = turn + 1
    /\ UNCHANGED <<down, call, running, performed, log>>

SetDown(s, isDown) ==
    /\ turn < MaxTurn /\ turn' = turn + 1
    /\ down' = IF isDown THEN down \cup {s} ELSE down \ {s}
    /\ UNCHANGED <<revoked, call, running, performed, log>>

Init ==
    /\ revoked = {} /\ down = {}
    /\ call = [c \in Call |-> Idle]
    /\ running = {} /\ performed = {} /\ log = {} /\ turn = 0

\* verifyPassword has answered.
Decided(c) ==
    \/ \E possessed \in BOOLEAN : Denied(c, possessed)
    \/ AllowedThenFails(c) \/ DataRefused(c)
    \/ \E logs \in BOOLEAN : AccessBegins(c, logs) \/ ReadData(c, logs)

EndpointAnswers(c) ==
    \E n \in 1..MaxAttempts :
        \/ \E logs \in BOOLEAN : Answer(c, n, logs)
        \/ AnswerDropped(c, n)

TimerFires(c) == \E logs \in BOOLEAN : Retry(c, logs) \/ TimeOut(c, logs)

Next ==
    \/ \E c \in Call :
          \/ \E kind \in Kind, t \in Tok, s \in System \cup {None} : Begin(c, kind, t, s)
          \/ Decided(c) \/ TimerFires(c) \/ EndpointAnswers(c)
    \/ \E t \in Tok : Revoke(t)
    \/ \E s \in System, isDown \in BOOLEAN : SetDown(s, isDown)

\* Timers fire and scrypt ends; an endpoint owes nothing.
Fairness == \A c \in Call : WF_vars(Decided(c)) /\ WF_vars(TimerFires(c))

Spec == Init /\ [][Next]_vars

FairSpec == Spec /\ Fairness

-----------------------------------------------------------------------------
(* Properties.                                                             *)

\* Every variable stays in its type.
TypeOK ==
    /\ revoked \subseteq Tok /\ down \subseteq System
    /\ call \in [Call -> CallRec]
    /\ running \subseteq Call \X (1..MaxAttempts)
    /\ performed \subseteq Call \X (1..MaxAttempts)
    /\ log \subseteq EntryRec
    /\ turn \in Nat

\* One access is carried out twice by the endpoint, or carried out and
\* reported as unreachable, only when an attempt timed out or its success
\* could not be logged: a retry of an attempt the endpoint refused repeats
\* nothing (mockEndpointAccess.ts 34-42, 78-87, mockEndpoints.ts 32-40).
RepeatedOnlyWhenLate ==
    \A c \in Call :
        LET done == {n \in 1..MaxAttempts : <<c, n>> \in performed} IN
        Cardinality(done) > 1 \/ (done # {} /\ call[c].outcome = "unreachable")
            => call[c].late \/ call[c].gone

Entries(c, what) == {e \in log : e.call = c /\ e.what = what}

\* The caller is told what the log says: a result that was answered is in the
\* log and, unless the log threw, no other one is, whatever abandoned attempts
\* come to later; and what a record was masked by is logged with it
\* (mockEndpointAccess.ts 80-93, customerDataAccess.ts 70-87).
TrailMatchesAnswer ==
    \A c \in Call :
        /\ \A what \in {"success", "unreachable", "data"} :
              /\ call[c].outcome = what => Entries(c, what) # {} /\ Entries(c, "allowed") # {}
              /\ Entries(c, what) # {} => call[c].outcome = what \/ call[c].gone
        /\ call[c].outcome = "data" =>
              \E e \in Entries(c, "data") :
                  /\ e.masked = call[c].masked
                  /\ \A f \in Field \cap DOMAIN RequiredScope :
                        f \notin e.masked => RequiredScope[f] \in Scope[call[c].tok]

\* Every call is answered although an endpoint may never be: the timeouts and
\* the cap on attempts see to it (mockEndpointAccess.ts 34-42, 78).
EveryCallEnds == \A c \in Call : call[c].pc = "verify" ~> call[c].pc = "done"
=============================================================================
