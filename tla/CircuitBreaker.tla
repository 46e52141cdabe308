--------------------------- MODULE CircuitBreaker ---------------------------
(***************************************************************************)
(* CircuitBreaker.execute (circuitBreaker.ts) around the token and policy  *)
(* stores, with the state-change callback of server.ts that writes to the  *)
(* audit log.  execute() is synchronous, so one call is one step and the   *)
(* state "half_open" is only ever seen inside it.                          *)
(*                                                                         *)
(* Time appears as the cooldown that is left (wait).  The two counters are *)
(* only compared with the threshold and saturate there.                    *)
(* TokenGatewayProofs extends this module beside TokenGateway: what both   *)
(* have is named for the breaker here.                                     *)
(***************************************************************************)
EXTENDS Naturals

CONSTANTS
    Threshold,      \* failureThreshold
    Cooldown        \* cooldownMs, in ticks

ASSUME ConfigAssumption == Threshold \in Nat \ {0} /\ Cooldown \in Nat \ {0}

VARIABLES
    state,          \* #state at rest
    failures,       \* #consecutiveFailures
    wait,           \* cooldownMs - (now - #openedAt), at least 0
    outage,         \* #simulatingOutage
    disk,           \* the data directory can be appended to
    last,           \* history: what became of the last call of execute()
    streak,         \* history: calls in a row whose caller saw an error
    gap             \* history: ticks since the circuit opened or was probed

breaker == <<state, failures, wait, outage, disk, last, streak, gap>>

Upto(n, bound) == IF n < bound THEN n ELSE bound

-----------------------------------------------------------------------------
(* execute().  A definition named Buggy... is a plausible mistake in the   *)
(* definition that follows it; no specification uses it.                   *)

\* The call ends; the caller sees an error unless it is "none".
Answer(didRun, error, probe) ==
    /\ last' = [ran |-> didRun, error |-> error,
                gap |-> IF probe THEN gap ELSE Cooldown]
    /\ streak' = IF error = "none" THEN 0 ELSE Upto(streak + 1, Threshold)

\* Still cooling down: refused, and nothing else happens.
BuggyFailFast ==
    /\ state = "open" /\ wait > 0
    /\ Answer(FALSE, "circuit_open", FALSE)
    /\ wait' = Cooldown
    /\ UNCHANGED <<state, failures, outage, disk, gap>>

FailFast ==
    /\ state = "open" /\ wait > 0
    /\ Answer(FALSE, "circuit_open", FALSE)
    /\ UNCHANGED <<state, failures, wait, outage, disk, gap>>

\* Closed, or open with the cooldown over: this call goes through, in the
\* second case as the probe.
Passes == state = "closed" \/ wait = 0
Probe  == state = "open"

\* What a working data directory excludes: a write that throws.
WritesFail == ~disk

\* #onSuccess.  Closing is logged; if that write throws, the catch of
\* execute() counts a failure against the circuit that has just closed.
BuggySucceed ==
    /\ Passes /\ ~outage
    /\ state' = "closed" /\ UNCHANGED failures
    /\ Answer(TRUE, "none", Probe)
    /\ UNCHANGED <<wait, outage, disk>>
    /\ gap' = IF Probe THEN 0 ELSE gap

Succeed ==
    /\ Passes /\ ~outage
    /\ \/ /\ state' = "closed" /\ failures' = 0
          /\ Answer(TRUE, "none", Probe)
          /\ UNCHANGED wait
       \/ /\ Probe /\ WritesFail
          /\ failures' = Upto(1, Threshold)
          /\ IF failures' >= Threshold
             THEN state' = "open" /\ wait' = Cooldown
             ELSE state' = "closed" /\ UNCHANGED wait
          /\ Answer(TRUE, "write", TRUE)
    /\ gap' = IF Probe THEN 0 ELSE gap
    /\ UNCHANGED <<outage, disk>>

\* #onFailure.  A failed probe reopens and the cooldown starts again.
BuggyOnFailure ==
    /\ failures' = Upto(failures + 1, Threshold)
    /\ IF failures' >= Threshold
       THEN state' = "open" /\ wait' = (IF Probe THEN wait ELSE Cooldown) /\ gap' = 0
       ELSE UNCHANGED <<state, wait, gap>>

BuggyOnFailureHalfOpen ==
    /\ failures' = Upto(failures + 1, Threshold)
    /\ CASE Probe -> state' = "half_open" /\ UNCHANGED <<wait, gap>>
         [] ~Probe /\ failures' >= Threshold
                  -> state' = "open" /\ wait' = Cooldown /\ gap' = 0
         [] OTHER -> UNCHANGED <<state, wait, gap>>

OnFailure ==
    /\ failures' = Upto(failures + 1, Threshold)
    /\ IF Probe \/ failures' >= Threshold
       THEN state' = "open" /\ wait' = Cooldown /\ gap' = 0
       ELSE UNCHANGED <<state, wait, gap>>

Opens == state' = "open"

BuggyFailInOutage ==
    /\ Passes /\ outage
    /\ Answer(TRUE, "circuit_open", Probe)
    /\ OnFailure /\ UNCHANGED <<outage, disk>>

\* A simulated outage throws before fn() is called.  If the opening cannot be
\* logged, the caller sees that error instead.
FailInOutage ==
    /\ Passes /\ outage
    /\ OnFailure /\ UNCHANGED <<outage, disk>>
    /\ \/ Answer(FALSE, "circuit_open", Probe)
       \/ Opens /\ WritesFail /\ Answer(FALSE, "write", Probe)

\* fn() itself throws: TokenStore.save has set its map and cannot append.
FailInStore ==
    /\ Passes /\ ~outage /\ WritesFail
    /\ OnFailure /\ UNCHANGED <<outage, disk>>
    /\ Answer(TRUE, "write", Probe)

Execute == FailFast \/ Succeed \/ FailInOutage \/ FailInStore

\* POST /circuit-breaker/simulate-outage.
SimulateOutage(down) ==
    /\ outage # down /\ outage' = down
    /\ UNCHANGED <<state, failures, wait, disk, last, streak, gap>>

DiskChanges(ok) ==
    /\ disk # ok /\ disk' = ok
    /\ UNCHANGED <<state, failures, wait, outage, last, streak, gap>>

BreakerTick ==
    /\ wait > 0 \/ gap < Cooldown
    /\ wait' = IF wait > 0 THEN wait - 1 ELSE 0
    /\ gap' = Upto(gap + 1, Cooldown)
    /\ UNCHANGED <<state, failures, outage, disk, last, streak>>

BreakerInit ==
    /\ state = "closed" /\ failures = 0 /\ wait = 0
    /\ outage = FALSE /\ disk = TRUE
    /\ last = [ran |-> FALSE, error |-> "none", gap |-> Cooldown]
    /\ streak = 0 /\ gap = Cooldown

BreakerNext ==
    \/ Execute
    \/ \E down \in BOOLEAN : SimulateOutage(down)
    \/ \E ok \in BOOLEAN : DiskChanges(ok)
    \/ BreakerTick

BreakerSpec == BreakerInit /\ [][BreakerNext]_breaker

\* Time passes, and calls keep coming.
FairBreakerSpec == BreakerSpec /\ WF_breaker(BreakerTick) /\ WF_breaker(Execute)

-----------------------------------------------------------------------------
(* Properties.                                                             *)

\* Every variable stays in its type.
BreakerTypeOK ==
    /\ state \in {"closed", "open"}
    /\ failures \in 0..Threshold /\ streak \in 0..Threshold
    /\ wait \in 0..Cooldown /\ gap \in 0..Cooldown
    /\ outage \in BOOLEAN /\ disk \in BOOLEAN
    /\ last \in [ran : BOOLEAN, error : {"none", "circuit_open", "write"},
                 gap : 0..Cooldown]

\* The circuit opens only after Threshold failures in a row as the callers
\* saw them: a success in between starts the count again
\* (circuitBreaker.ts 99-120).
OpensAfterStreak == state = "open" => streak = Threshold

\* While the circuit is not closed, two trial calls are a full cooldown
\* apart: a failed probe restarts it (circuitBreaker.ts 66-74, 108-115).
ProbesAreSpaced == last.gap = Cooldown

\* The breaker is the gate its callers rely on: CircuitOpenError means that
\* the operation did not run, so a denial of store_unavailable leaves no
\* half-saved token behind, and only an operation that ran closes it.
Gate == INSTANCE FailClosed WITH
            refusing <- state = "open",
            ran      <- last.ran,
            refused  <- last.error = "circuit_open"

FailsClosed == Gate!Spec

\* An outage that ends is over for the callers too, without a restart: if
\* the store and the disk stay healthy and calls keep coming, the circuit
\* closes and stays closed.
Recovers == <>[](~outage /\ disk) => <>[](state = "closed")
=============================================================================
