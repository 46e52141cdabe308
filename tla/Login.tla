------------------------------- MODULE Login -------------------------------
(***************************************************************************)
(* Operator login and sessions: POST /auth/login behind the two rate       *)
(* limiters, findAuthenticatedOperator with its password await, the        *)
(* TotpVerifier of each operator, session tokens and requireSession.       *)
(*                                                                         *)
(* A login is a call with one await, verifyPassword: what it has read      *)
(* before (the signing secret, the verifier) is used after it.  A restart  *)
(* kills the calls in flight and forgets limiter windows and TOTP guards.  *)
(* A code is the time-step it belongs to; two steps never share a code.    *)
(***************************************************************************)
EXTENDS Naturals, FiniteSets

CONSTANTS
    Call,           \* HTTP requests, logins and uses of a session
    Client,         \* remote addresses
    Operator,       \* the configured identities, each with a secret of its own
    None,           \* no operator, no code, no session
    StepLen,        \* stepSeconds
    DriftSteps,     \* driftSteps
    Limit,          \* maxRequests of each limiter
    WindowMs,       \* windowMs of each limiter
    Ttl,            \* SESSION_TTL_MS
    MaxTime,        \* bound on the clock
    MaxEvents       \* bound on restarts and secret rotations together

Limiter == {"general", "login"}

ASSUME NoneAssumption == None \notin Call \cup Operator \cup Nat
ASSUME TimeAssumption ==
    /\ StepLen \in Nat \ {0} /\ DriftSteps \in Nat /\ Ttl \in Nat
    /\ Limit \in [Limiter -> Nat] /\ WindowMs \in [Limiter -> Nat \ {0}]
    /\ MaxTime \in Nat /\ MaxEvents \in Nat

VARIABLES
    windows,        \* the #windows of the two limiters, by client
    verifier,       \* #lastAcceptedTimestep of each operator's verifier
    call,           \* the calls, in flight and ended
    logged,         \* logins with an "allowed" entry in the audit log
    signing,        \* version of SESSION_SIGNING_SECRET
    process,        \* number of the running process
    clock

vars == <<windows, verifier, call, logged, signing, process, clock>>

-----------------------------------------------------------------------------
(* A definition named Buggy... is a plausible mistake in the definition    *)
(* that follows it; no specification uses it.                              *)

Timestep == clock \div StepLen

\* What a login carries across its await, and what came of it.  at, process,
\* under (the secret in force when it arrived) and passed (the limiters that
\* let it through) are its arrival; ended and signed are those of the session
\* it was given.
CallRec ==
    [pc      : {"idle", "password", "done"},
     client  : Client \cup {None},
     route   : {"none", "login", "session"},
     at      : Nat,
     process : Nat,
     passed  : SUBSET Limiter,
     who     : Operator \cup {None},
     right   : BOOLEAN,                     \* the password is right
     code    : Nat \cup {None},
     under   : Nat,
     session : Call \cup {None},            \* the login whose session is used
     ended   : Nat,
     signed  : Nat,
     outcome : {"none", "limited", "denied", "session", "error", "accepted",
                "rejected", "killed"}]

Idle ==
    [pc |-> "idle", client |-> None, route |-> "none", at |-> 0, process |-> 0,
     passed |-> {}, who |-> None, right |-> FALSE, code |-> None, under |-> 0,
     session |-> None, ended |-> 0, signed |-> 0, outcome |-> "none"]

-----------------------------------------------------------------------------
(* RateLimiter.check, on the window w of limiter l.                        *)

NoWindow == [count |-> 0, startedAt |-> 0]

Elapsed(l, w) == w.count = 0 \/ clock - w.startedAt >= WindowMs[l]

Admits(l, w) == Elapsed(l, w) \/ w.count < Limit[l]

BuggyCounted(l, w) ==
    IF Elapsed(l, w) THEN [count |-> 1, startedAt |-> clock - (clock % WindowMs[l])]
    ELSE IF Admits(l, w) THEN [w EXCEPT !.count = @ + 1]
    ELSE w

Counted(l, w) ==
    IF Elapsed(l, w) THEN [count |-> 1, startedAt |-> clock]
    ELSE IF Admits(l, w) THEN [w EXCEPT !.count = @ + 1]
    ELSE w

\* The limiters a request passes, in order: the general one for every route,
\* the login one only for a login the general one has let through.
Consulted(cl, route) ==
    IF route = "login" /\ Admits("general", windows["general"][cl])
    THEN {"general", "login"} ELSE {"general"}

Passed(cl, route) == {l \in Consulted(cl, route) : Admits(l, windows[l][cl])}

Arrival(cl, route) ==
    [Idle EXCEPT !.pc = "done", !.client = cl, !.route = route, !.at = clock,
                 !.process = process, !.passed = Passed(cl, route), !.under = signing]

Through(cl, route) ==
    /\ Admits("general", windows["general"][cl])
    /\ route = "login" => Admits("login", windows["login"][cl])

CountRequest(cl, route) ==
    windows' = [l \in Limiter |->
        IF l \in Consulted(cl, route)
        THEN [windows[l] EXCEPT ![cl] = Counted(l, @)] ELSE windows[l]]

Limited(c, cl, route) ==
    /\ call[c].pc = "idle" /\ ~Through(cl, route)
    /\ CountRequest(cl, route)
    /\ call' = [call EXCEPT ![c] = [Arrival(cl, route) EXCEPT !.outcome = "limited"]]
    /\ UNCHANGED <<verifier, logged, signing, process, clock>>

-----------------------------------------------------------------------------
(* POST /auth/login.                                                       *)

\* Up to the await: a user name nobody has is refused without one.
LoginBegin(c, cl, o, right, code) ==
    /\ call[c].pc = "idle" /\ Through(cl, "login")
    /\ CountRequest(cl, "login")
    /\ call' = [call EXCEPT ![c] =
          IF o = None
          THEN [Arrival(cl, "login") EXCEPT !.outcome = "denied"]
          ELSE [Arrival(cl, "login") EXCEPT
                    !.pc = "password", !.who = o, !.right = right, !.code = code]]
    /\ UNCHANGED <<verifier, logged, signing, process, clock>>

Near(code) == code + DriftSteps >= Timestep /\ code <= Timestep + DriftSteps

BuggyVerifies(o, code) == code # None /\ Near(code) /\ verifier[o] # code

\* TotpVerifier.verify: a code within the drift, newer than the last accepted.
Verifies(o, code) ==
    /\ code # None /\ Near(code)
    /\ verifier[o] # None => code > verifier[o]

\* findAuthenticatedOperator after the await: a wrong password never reaches
\* the verifier.
Matches(login) == login.right /\ Verifies(login.who, login.code)

\* A login that comes to nothing takes what it carried with it.
Ended(login, outcome) ==
    [login EXCEPT !.pc = "done", !.outcome = outcome,
                  !.who = None, !.right = FALSE, !.code = None]

\* The verifier remembers the step it accepted.
Burn(login) == verifier' = [verifier EXCEPT ![login.who] = login.code]

BuggyLoginRefused(c) ==
    /\ call[c].pc = "password" /\ ~Matches(call[c])
    /\ IF Verifies(call[c].who, call[c].code) THEN Burn(call[c]) ELSE UNCHANGED verifier
    /\ call' = [call EXCEPT ![c] = Ended(@, "denied")]
    /\ UNCHANGED <<windows, logged, signing, process, clock>>

LoginRefused(c) ==
    /\ call[c].pc = "password" /\ ~Matches(call[c])
    /\ call' = [call EXCEPT ![c] = Ended(@, "denied")]
    /\ UNCHANGED <<windows, verifier, logged, signing, process, clock>>

BuggySigned(login) == signing

\* createSessionToken signs with the configuration read on arrival.
Signed(login) == login.under

LoginAllowed(c) ==
    /\ call[c].pc = "password" /\ Matches(call[c])
    /\ Burn(call[c])
    /\ logged' = logged \cup {c}
    /\ call' = [call EXCEPT ![c].pc = "done", ![c].outcome = "session",
                            ![c].ended = clock, ![c].signed = Signed(call[c])]
    /\ UNCHANGED <<windows, signing, process, clock>>

\* auditLog.record throws: the code is burnt and there is no session.
LoginUnlogged(c) ==
    /\ call[c].pc = "password" /\ Matches(call[c])
    /\ Burn(call[c])
    /\ call' = [call EXCEPT ![c].pc = "done", ![c].outcome = "error"]
    /\ UNCHANGED <<windows, logged, signing, process, clock>>

-----------------------------------------------------------------------------
(* requireSession, with the session that login d was given.                *)

Valid(d) == call[d].signed = signing /\ clock < call[d].ended + Ttl

UseSession(c, cl, d) ==
    /\ call[c].pc = "idle" /\ call[d].outcome = "session"
    /\ Through(cl, "session")
    /\ CountRequest(cl, "session")
    /\ call' = [call EXCEPT ![c] =
          [Arrival(cl, "session") EXCEPT
              !.session = d, !.outcome = IF Valid(d) THEN "accepted" ELSE "rejected"]]
    /\ UNCHANGED <<verifier, logged, signing, process, clock>>

-----------------------------------------------------------------------------
Tick ==
    /\ clock < MaxTime /\ clock' = clock + 1
    /\ UNCHANGED <<windows, verifier, call, logged, signing, process>>

RotateSecret ==
    /\ signing + process < MaxEvents /\ signing' = signing + 1
    /\ UNCHANGED <<windows, verifier, call, logged, process, clock>>

NoWindows == [l \in Limiter |-> [cl \in Client |-> NoWindow]]

Restart ==
    /\ signing + process < MaxEvents /\ process' = process + 1
    /\ windows' = NoWindows
    /\ verifier' = [o \in Operator |-> None]
    /\ call' = [c \in Call |->
          IF call[c].pc = "password"
          THEN Ended(call[c], "killed") ELSE call[c]]
    /\ UNCHANGED <<logged, signing, clock>>

Init ==
    /\ windows = NoWindows
    /\ verifier = [o \in Operator |-> None]
    /\ call = [c \in Call |-> Idle]
    /\ logged = {} /\ signing = 0 /\ process = 0 /\ clock = 0

\* The codes worth sending: those of the steps around now, and a wrong one.
Codes == {n \in 0..(Timestep + DriftSteps + 1) : n + DriftSteps + 1 >= Timestep} \cup {None}

Arrive(c) ==
    \E cl \in Client :
        \/ \E route \in {"login", "session"} : Limited(c, cl, route)
        \/ LoginBegin(c, cl, None, FALSE, None)
        \/ \E o \in Operator, right \in BOOLEAN, code \in Codes :
              LoginBegin(c, cl, o, right, code)
        \/ \E d \in Call : UseSession(c, cl, d)

Next ==
    \/ \E c \in Call : Arrive(c) \/ LoginRefused(c) \/ LoginAllowed(c) \/ LoginUnlogged(c)
    \/ Tick \/ RotateSecret \/ Restart

Spec == Init /\ [][Next]_vars

-----------------------------------------------------------------------------
(* Properties.                                                             *)

\* Every variable stays in its type.
TypeOK ==
    /\ windows \in [Limiter -> [Client -> [count : Nat, startedAt : Nat]]]
    /\ verifier \in [Operator -> Nat \cup {None}]
    /\ call \in [Call -> CallRec]
    /\ logged \subseteq Call
    /\ signing \in Nat /\ process \in Nat /\ clock \in Nat

Authenticated(c) == call[c].pc = "password" /\ call'[c].outcome \in {"session", "error"}

\* Within one process an operator's codes are accepted in the order of their
\* time-steps, so none is accepted twice, however many logins wait for their
\* password check with the same code (totp.ts 116-118, 142).
CodesAcceptedInOrder ==
    [][\A c, d \in Call :
          /\ Authenticated(c) /\ call[d].outcome \in {"session", "error"}
          /\ call[d].who = call[c].who /\ call[d].process = process
          => call[d].code < call[c].code]_vars

\* While the process lives, a code is spent only by a login that knew the
\* password and was told so or failed on the log: nobody else can lock an
\* operator out, and never past the drift ahead of the clock
\* (operatorDirectory.ts 20-23, totp.ts 116-118).
OnlyTheOperatorSpendsCodes ==
    [][process' = process =>
          \A o \in Operator : verifier'[o] # verifier[o] =>
              /\ \E c \in Call : Authenticated(c) /\ call[c].who = o /\ call[c].right
              /\ verifier'[o] <= Timestep + DriftSteps]_vars

\* The requests of client cl that limiter l let through from time t on, for
\* one window, in process p; what the next limiter made of them is no matter.
LetThrough(l, cl, t, p) ==
    {c \in Call :
        /\ l \in call[c].passed
        /\ call[c].client = cl /\ call[c].process = p
        /\ call[c].at >= t /\ call[c].at < t + WindowMs[l]}

\* No stretch of time as long as a window lets twice the limit through,
\* wherever it lies between the windows: a window opens with a request, so the
\* burst across its edge stays below the double (rateLimiter.ts 8-13).  Even
\* under a limit of zero the request that opens a window passes.
LessThanTwiceTheLimit ==
    \A l \in Limiter, cl \in Client, t \in 0..clock, p \in 0..process :
        Cardinality(LetThrough(l, cl, t, p)) < 2 * (IF Limit[l] = 0 THEN 1 ELSE Limit[l])

\* An accepted session goes back to a login that was logged, knew the
\* password, and arrived under the secret in force at its use: a rotation
\* ends every session, the ones of logins that were waiting for their
\* password included (server.ts 234-250, 316-330, 347-365).
SessionsAreBacked ==
    [][\A c \in Call :
          call[c].pc = "idle" /\ call'[c].outcome = "accepted" =>
              LET login == call[call'[c].session] IN
              /\ call'[c].session \in logged /\ login.right
              /\ login.under = signing
              /\ clock < login.ended + Ttl]_vars
=============================================================================
