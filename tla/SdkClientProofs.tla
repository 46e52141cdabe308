-------------------------- MODULE SdkClientProofs --------------------------
(***************************************************************************)
(* Proofs about SdkClient, for any number of calls and attempts and any    *)
(* set of keys.  The inductive invariant says what is still under way for  *)
(* a call and what is not: an attempt is on the wire, answered or handled, *)
(* never two of these (Traces); a call that may not be retried has one     *)
(* attempt (Calls); and once a claim has taken a secret, nothing that      *)
(* could tell its caller of a refusal is left anywhere (Told).             *)
(*                                                                         *)
(* At the end, proofs about the other client of the server, the Console,   *)
(* whose definitions bear its name.                                        *)
(***************************************************************************)
EXTENDS SdkClient, Console, TLAPS

\* A call is retried only as often as its key allows; a claim has no key.
Calls ==
    \A c \in Call :
        /\ call[c].pc = "idle" => call[c].attempt = 0
        /\ call[c].pc \in {"idle", "fetch", "body", "sleep"} => call[c].result = "none"
        /\ call[c].attempt <= Attempts(call[c])
        /\ call[c].pc = "sleep" => call[c].attempt < Attempts(call[c])
        /\ call[c].pc = "body" => call[c].status \in Status
        /\ c \in Claim /\ call[c].pc # "idle" =>
              call[c].key = None /\ call[c].target \in Attempt

\* An attempt on the wire has no answer, and its caller has read none.
Traces ==
    /\ \A a \in wire :
          /\ a[2] <= call[a[1]].attempt
          /\ a[2] = call[a[1]].attempt =>
                call[a[1]].pc # "body" /\ call[a[1]].result \notin {"ok", "refused"}
    /\ \A x \in answers : x.at \notin wire /\ x.at[2] <= call[x.at[1]].attempt
    /\ \A r \in Attempt : Stored(r) => r[2] <= call[r[1]].attempt

\* What the answers, read or not, say of a claim.
Told ==
    /\ \A x \in taken :
          /\ x[1] \in Claim /\ call[x[1]].attempt > 0
          /\ \A a \in wire : a[1] # x[1]
          /\ \A y \in answers : y.at[1] = x[1] => y.status # "4xx"
          /\ call[x[1]].pc = "body" => call[x[1]].status # "4xx"
    /\ \A y \in answers : y.status = "ok" /\ y.at[1] \in Claim =>
          <<y.at[1], call[y.at[1]].target>> \in taken
    /\ \A c \in Claim : call[c].pc = "body" /\ call[c].status = "ok" =>
          <<c, call[c].target>> \in taken

IInv == TypeOK /\ Calls /\ Traces /\ Told /\ OneRequestPerCall /\ ClaimsAreTold

-----------------------------------------------------------------------------
\* The invariant holds in the initial state.
LEMMA InitInv == Init => IInv
<1>. SUFFICES ASSUME Init PROVE IInv
  OBVIOUS
<1>1. MaxAttempts \in Nat \ {0}
  BY SdkAssumption
<1>2. Idle \in CallRec
  BY <1>1 DEF Idle, CallRec
<1>3. TypeOK
  BY <1>2 DEF Init, TypeOK
<1>4. Calls
  <2>1. \A c \in Call : call[c] = Idle
    BY DEF Init
  <2>2. Idle.pc = "idle" /\ Idle.attempt = 0 /\ Idle.result = "none" /\ Idle.key = None
    BY DEF Idle
  <2>3. 0 <= Attempts(Idle)
    BY <1>1 DEF Attempts
  <2>. QED BY <2>1, <2>2, <2>3 DEF Calls
<1>5. Traces /\ OneRequestPerCall
  BY DEF Init, Traces, OneRequestPerCall, Stored
<1>6. Told /\ ClaimsAreTold
  <2>1. \A c \in Claim : call[c].pc = "idle" /\ call[c].result = "none"
    BY SdkAssumption DEF Init, Idle
  <2>. QED BY <2>1, SdkAssumption DEF Init, Told, ClaimsAreTold, Idle
<1>. QED BY <1>3, <1>4, <1>5, <1>6 DEF IInv

\* What the type invariant says of one call and of one attempt.
LEMMA CallType ==
  ASSUME TypeOK, NEW c \in Call
  PROVE  /\ call[c] \in CallRec
         /\ call[c].attempt \in Nat /\ call[c].attempt <= MaxAttempts
         /\ Attempts(call[c]) \in Nat /\ Attempts(call[c]) <= MaxAttempts
         /\ MaxAttempts \in Nat \ {0}
  BY SdkAssumption DEF TypeOK, CallRec, Attempts

\* An attempt is of a call.
LEMMA AttemptType ==
  ASSUME NEW a \in Attempt
  PROVE  /\ a = <<a[1], a[2]>> /\ a[1] \in Call
         /\ a[2] \in Nat /\ a[2] > 0 /\ a[2] <= MaxAttempts
  BY SdkAssumption DEF Attempt

-----------------------------------------------------------------------------
(* The steps of the client.                                                 *)

\* A call sends its first attempt, or its next one.
LEMMA SendsStep ==
  ASSUME IInv, NEW c \in Call, NEW rec \in CallRec, Sends(c, rec),
         UNCHANGED <<answers, request, taken>>,
         call[c].pc \in {"idle", "sleep"},
         rec.attempt = call[c].attempt, rec.result = "none",
         rec.attempt < Attempts(rec),
         call[c].pc = "sleep" => rec.key = call[c].key /\ rec.target = call[c].target,
         c \in Claim => rec.key = None /\ rec.target \in Attempt
  PROVE  IInv'
<1>. DEFINE n == rec.attempt + 1
            sent == [rec EXCEPT !.pc = "fetch", !.attempt = n, !.status = None]
<1>1. /\ TypeOK /\ MaxAttempts \in Nat \ {0} /\ rec.attempt \in Nat
      /\ Attempts(rec) \in Nat /\ Attempts(rec) <= MaxAttempts
      /\ n \in 1..MaxAttempts /\ n <= Attempts(rec) /\ n > call[c].attempt
  BY SdkAssumption DEF IInv, CallRec, Attempts
<1>2. /\ call'[c] \in CallRec
      /\ call'[c].pc = "fetch" /\ call'[c].attempt = n /\ call'[c].key = rec.key
      /\ call'[c].target = rec.target /\ call'[c].result = "none"
      /\ call' \in [Call -> CallRec]
      /\ \A b \in Call : b # c => call'[b] = call[b]
      /\ wire' = wire \cup {<<c, n>>}
  <2>1. /\ sent \in CallRec /\ sent.pc = "fetch" /\ sent.attempt = n
        /\ sent.key = rec.key /\ sent.target = rec.target /\ sent.result = "none"
    <3>1. n \in 0..MaxAttempts
      BY <1>1
    <3>. HIDE DEF n
    <3>. QED BY <3>1 DEF CallRec
  <2>2. call' = [call EXCEPT ![c] = sent] /\ wire' = wire \cup {<<c, n>>}
    BY DEF Sends
  <2>. HIDE DEF sent
  <2>. QED BY <1>1, <2>1, <2>2 DEF TypeOK
<1>3. Attempts(call'[c]) = Attempts(rec)
  BY <1>2 DEF Attempts
<1>4. \A b \in Call : /\ call[b].attempt \in Nat /\ call'[b].attempt \in Nat
                       /\ call'[b].attempt >= call[b].attempt
  BY <1>1, <1>2, CallType
<1>5. TypeOK'
  BY <1>1, <1>2 DEF TypeOK, Attempt
<1>6. Calls'
  <2>1. ASSUME NEW b \in Call, b # c PROVE Attempts(call'[b]) = Attempts(call[b])
    BY <1>2, <2>1
  <2>. QED BY <1>1, <1>2, <1>3, <2>1 DEF IInv, Calls, Attempts
<1>7. Traces'
  <2>1. ASSUME NEW a \in wire'
        PROVE  /\ a[2] <= call'[a[1]].attempt
               /\ a[2] = call'[a[1]].attempt =>
                     /\ call'[a[1]].pc # "body"
                     /\ call'[a[1]].result \notin {"ok", "refused"}
    <3>1. CASE a = <<c, n>>
      BY <1>1, <1>2, <3>1
    <3>2. CASE a \in wire
      <4>1. a \in Attempt /\ a[1] \in Call /\ a[2] \in Nat
        BY <1>1, <3>2, AttemptType DEF TypeOK
      <4>. QED BY <1>1, <1>2, <1>4, <3>2, <4>1 DEF IInv, Traces
    <3>. QED BY <1>2, <3>1, <3>2
  <2>2. ASSUME NEW x \in answers
        PROVE  x.at \notin wire' /\ x.at[2] <= call'[x.at[1]].attempt
    <3>1. x.at \in Attempt /\ x.at \notin wire /\ x.at[2] <= call[x.at[1]].attempt
      BY <1>1, <2>2 DEF TypeOK, IInv, Traces
    <3>2. x.at # <<c, n>>
      BY <1>1, <3>1
    <3>. QED BY <1>1, <1>2, <1>4, <3>1, <3>2, AttemptType
  <2>3. ASSUME NEW r \in Attempt, Stored(r) PROVE r[2] <= call'[r[1]].attempt
    BY <1>4, <2>3, AttemptType DEF IInv, Traces
  <2>. QED BY <2>1, <2>2, <2>3 DEF Traces, Stored
<1>8. Told'
  <2>1. \A x \in taken : x[1] # c
    <3>1. ASSUME NEW x \in taken, x[1] = c PROVE FALSE
      <4>1. c \in Claim /\ call[c].attempt > 0
        BY <3>1 DEF IInv, Told
      <4>2. Attempts(rec) = 1
        BY <4>1 DEF Attempts
      <4>. QED BY <1>1, <4>1, <4>2
    <3>. QED BY <3>1
  <2>2. \A y \in answers : y.status = "ok" /\ y.at[1] = c => c \notin Claim
    BY <2>1 DEF IInv, Told
  <2>3. \A x \in taken : x[1] \in Call /\ \A y \in answers : y.at[1] \in Call
    BY <1>1, AttemptType DEF TypeOK
  <2>4. \A y \in answers : y.at \in Attempt /\ y.at[1] \in Call
    BY <1>1, AttemptType DEF TypeOK
  <2>5. Claim \subseteq Call
    BY SdkAssumption
  <2>. QED BY <1>2, <2>1, <2>2, <2>3, <2>4, <2>5 DEF IInv, Told
<1>9. OneRequestPerCall'
  <2>1. ASSUME NEW q \in Attempt, Stored(q) PROVE call'[q[1]].key = call[q[1]].key
    <3>1. q[1] \in Call /\ call[q[1]].attempt > 0
      BY <1>4, <2>1, AttemptType DEF IInv, Traces
    <3>2. call[c].pc = "idle" => q[1] # c
      BY <1>1, <3>1 DEF IInv, Calls
    <3>. QED BY <1>2, <3>1, <3>2
  <2>. QED BY <2>1 DEF IInv, OneRequestPerCall, Stored
<1>10. ClaimsAreTold'
  <2>1. \A x \in taken : x[1] \in Call
    BY <1>1 DEF TypeOK
  <2>. QED BY <1>2, <2>1, SdkAssumption DEF IInv, ClaimsAreTold
<1>. QED BY <1>5, <1>6, <1>7, <1>8, <1>9, <1>10 DEF IInv

\* The first attempt of a call.
LEMMA BeginStep == ASSUME IInv, NEW c \in Call, Begin(c) PROVE IInv'
<1>1. /\ TypeOK /\ MaxAttempts \in Nat \ {0}
      /\ call[c].pc = "idle" /\ call[c].attempt = 0
      /\ UNCHANGED <<answers, request, taken>>
  BY SdkAssumption DEF IInv, Begin, Calls
<1>2. PICK rec \in CallRec :
        /\ Sends(c, rec) /\ rec.attempt = 0 /\ rec.result = "none"
        /\ c \in Claim => rec.key = None /\ rec.target \in Attempt
  <2>1. CASE c \notin Claim /\ \E k \in Key \cup {None} : Sends(c, [Idle EXCEPT !.key = k])
    <3>1. PICK k \in Key \cup {None} : Sends(c, [Idle EXCEPT !.key = k])
      BY <2>1
    <3>2. [Idle EXCEPT !.key = k] \in CallRec
      BY <1>1 DEF Idle, CallRec
    <3>. QED BY <2>1, <3>1, <3>2 DEF Idle
  <2>2. CASE c \in Claim /\ \E r \in {q \in Attempt : Stored(q)} :
                                Sends(c, [Idle EXCEPT !.target = r])
    <3>1. PICK r \in Attempt : Sends(c, [Idle EXCEPT !.target = r])
      BY <2>2
    <3>2. [Idle EXCEPT !.target = r] \in CallRec
      BY <1>1 DEF Idle, CallRec
    <3>. QED BY <2>2, <3>1, <3>2 DEF Idle
  <2>. QED BY <2>1, <2>2 DEF Begin
<1>3. 0 < Attempts(rec)
  BY <1>1 DEF Attempts
<1>. QED BY <1>1, <1>2, <1>3, SendsStep

\* The attempt after a backoff.
LEMMA RetryStep == ASSUME IInv, NEW c \in Call, Retry(c) PROVE IInv'
<1>1. /\ TypeOK /\ call[c] \in CallRec /\ call[c].pc = "sleep" /\ Sends(c, call[c])
      /\ UNCHANGED <<answers, request, taken>>
  BY CallType DEF IInv, Retry
<1>2. /\ call[c].result = "none" /\ call[c].attempt < Attempts(call[c])
      /\ c \in Claim => call[c].key = None /\ call[c].target \in Attempt
  BY <1>1 DEF IInv, Calls
<1>. QED BY <1>1, <1>2, SendsStep

\* A failed attempt is slept over only while another may be made.
LEMMA AfterFailureEffect ==
  ASSUME NEW rec \in CallRec
  PROVE  /\ AfterFailure(rec) \in CallRec
         /\ AfterFailure(rec).key = rec.key /\ AfterFailure(rec).target = rec.target
         /\ AfterFailure(rec).attempt = rec.attempt
         /\ \/ /\ AfterFailure(rec).pc = "sleep" /\ rec.attempt < Attempts(rec)
               /\ AfterFailure(rec).result = rec.result
            \/ AfterFailure(rec).pc = "done" /\ AfterFailure(rec).result = "failed"
<1>1. CASE rec.attempt < Attempts(rec)
  <2>1. AfterFailure(rec) = [rec EXCEPT !.pc = "sleep"]
    BY <1>1 DEF AfterFailure
  <2>. QED BY <1>1, <2>1 DEF CallRec
<1>2. CASE ~(rec.attempt < Attempts(rec))
  <2>1. AfterFailure(rec) = [rec EXCEPT !.pc = "done", !.result = "failed"]
    BY <1>2 DEF AfterFailure, Ended
  <2>. QED BY <2>1 DEF CallRec
<1>. QED BY <1>1, <1>2

\* What is told at the end is what the status of the answer says.
LEMMA OutcomeEffect ==
  ASSUME NEW rec \in CallRec, rec.status \in Status, NEW read \in BOOLEAN
  PROVE  /\ Outcome(rec, read) \in CallRec
         /\ Outcome(rec, read).key = rec.key /\ Outcome(rec, read).target = rec.target
         /\ Outcome(rec, read).attempt = rec.attempt
         /\ \/ /\ Outcome(rec, read).pc = "sleep" /\ rec.attempt < Attempts(rec)
               /\ Outcome(rec, read).result = rec.result
            \/ /\ Outcome(rec, read).pc = "done"
               /\ Outcome(rec, read).result = "ok" => rec.status = "ok"
               /\ Outcome(rec, read).result = "refused" => rec.status = "4xx"
<1>1. CASE rec.status = "ok"
  <2>1. Outcome(rec, read) =
           [rec EXCEPT !.pc = "done", !.result = IF read THEN "ok" ELSE "empty"]
    BY <1>1 DEF Outcome, Ended
  <2>2. (IF read THEN "ok" ELSE "empty") \in {"ok", "empty"}
    OBVIOUS
  <2>. QED BY <1>1, <2>1, <2>2 DEF CallRec
<1>2. CASE rec.status = "4xx"
  <2>1. Outcome(rec, read) = [rec EXCEPT !.pc = "done", !.result = "refused"]
    BY <1>2 DEF Outcome, Ended
  <2>. QED BY <1>2, <2>1 DEF CallRec
<1>3. CASE rec.status = "5xx"
  <2>1. Outcome(rec, read) = AfterFailure(rec)
    BY <1>3 DEF Outcome
  <2>. QED BY <2>1, AfterFailureEffect
<1>. QED BY <1>1, <1>2, <1>3 DEF Status

\* An attempt is over: the call ends or sleeps, and tells what it was answered.
LEMMA AttemptOver ==
  ASSUME IInv, NEW c \in Call, NEW new \in CallRec,
         call' = [call EXCEPT ![c] = new],
         answers' \subseteq answers, UNCHANGED <<wire, request, taken>>,
         new.key = call[c].key, new.target = call[c].target,
         new.attempt = call[c].attempt, call[c].pc \in {"fetch", "body"},
         \/ new.pc = "sleep" /\ new.attempt < Attempts(new) /\ new.result = "none"
         \/ /\ new.pc = "done"
            /\ new.result = "ok" => call[c].pc = "body" /\ call[c].status = "ok"
            /\ new.result = "refused" => call[c].pc = "body" /\ call[c].status = "4xx"
  PROVE  IInv'
<1>1. /\ TypeOK /\ call'[c] = new /\ \A b \in Call : b # c => call'[b] = call[b]
      /\ call' \in [Call -> CallRec]
  BY DEF IInv, TypeOK
<1>2. TypeOK'
  BY <1>1 DEF TypeOK
<1>3. Calls'
  BY <1>1 DEF IInv, Calls, Attempts
<1>4. \A b \in Call : /\ call'[b].attempt = call[b].attempt
                       /\ call'[b].key = call[b].key /\ call'[b].target = call[b].target
                       /\ call'[b].pc = "body" => call'[b] = call[b]
  BY <1>1
<1>5. /\ \A a \in wire : a \in Attempt /\ a[1] \in Call
      /\ \A y \in answers : y.at \in Attempt /\ y.at[1] \in Call
      /\ \A x \in taken : x[1] \in Call
      /\ Claim \subseteq Call
  BY <1>1, AttemptType, SdkAssumption DEF TypeOK
<1>6. Traces'
  <2>1. ASSUME NEW a \in wire, a[2] = call'[a[1]].attempt
        PROVE  call'[a[1]].pc # "body" /\ call'[a[1]].result \notin {"ok", "refused"}
    BY <1>1, <1>4, <1>5, <2>1 DEF IInv, Traces
  <2>. QED BY <1>4, <1>5, <2>1, AttemptType DEF IInv, Traces, Stored
<1>7. Told'
  BY <1>4, <1>5 DEF IInv, Told
<1>8. OneRequestPerCall'
  BY <1>4, AttemptType DEF IInv, OneRequestPerCall, Stored
<1>9. ClaimsAreTold'
  <2>1. ASSUME NEW x \in taken PROVE call'[x[1]].result # "refused"
    <3>1. CASE x[1] = c
      BY <1>1, <3>1 DEF IInv, Told, Calls
    <3>2. CASE x[1] # c
      BY <1>1, <1>5, <3>2 DEF IInv, ClaimsAreTold
    <3>. QED BY <3>1, <3>2
  <2>2. ASSUME NEW b \in Claim, call'[b].result = "ok"
        PROVE  <<b, call'[b].target>> \in taken
    <3>1. CASE b = c
      BY <1>1, <1>4, <2>2, <3>1 DEF IInv, Told
    <3>2. CASE b # c
      BY <1>1, <1>5, <2>2, <3>2 DEF IInv, ClaimsAreTold
    <3>. QED BY <3>1, <3>2
  <2>. QED BY <2>1, <2>2 DEF ClaimsAreTold
<1>. QED BY <1>2, <1>3, <1>6, <1>7, <1>8, <1>9 DEF IInv

\* The body of an answer is read.
LEMMA BodyReadStep == ASSUME IInv, NEW c \in Call, BodyRead(c) PROVE IInv'
<1>. DEFINE new == Outcome(call[c], TRUE)
<1>1. /\ call[c] \in CallRec /\ call[c].pc = "body" /\ call[c].status \in Status
      /\ call[c].result = "none" /\ UNCHANGED <<wire, answers, request, taken>>
  BY CallType DEF IInv, BodyRead, Calls
<1>2. call' = [call EXCEPT ![c] = new]
  BY DEF BodyRead
<1>3. /\ new \in CallRec /\ new.key = call[c].key /\ new.target = call[c].target
      /\ new.attempt = call[c].attempt
      /\ \/ /\ new.pc = "sleep" /\ call[c].attempt < Attempts(call[c])
            /\ new.result = call[c].result
         \/ /\ new.pc = "done"
            /\ new.result = "ok" => call[c].status = "ok"
            /\ new.result = "refused" => call[c].status = "4xx"
  BY <1>1, OutcomeEffect
<1>4. Attempts(new) = Attempts(call[c])
  BY <1>3 DEF Attempts
<1>. HIDE DEF new
<1>. QED BY <1>1, <1>2, <1>3, <1>4, AttemptOver

\* The timer of an attempt fires, or its connection breaks.
LEMMA AbortedStep == ASSUME IInv, NEW c \in Call, Aborted(c) PROVE IInv'
<1>. DEFINE new == IF call[c].pc = "fetch" THEN AfterFailure(call[c])
                   ELSE Outcome(call[c], FALSE)
<1>1. /\ call[c] \in CallRec /\ call[c].pc \in {"fetch", "body"}
      /\ call[c].pc = "body" => call[c].status \in Status
      /\ call[c].result = "none" /\ UNCHANGED <<wire, request, taken>>
      /\ answers' \subseteq answers
  BY CallType DEF IInv, Aborted, Calls
<1>2. call' = [call EXCEPT ![c] = new]
  BY DEF Aborted
<1>3. /\ new \in CallRec /\ new.key = call[c].key /\ new.target = call[c].target
      /\ new.attempt = call[c].attempt
      /\ \/ /\ new.pc = "sleep" /\ call[c].attempt < Attempts(call[c])
            /\ new.result = call[c].result
         \/ /\ new.pc = "done"
            /\ new.result = "ok" => call[c].pc = "body" /\ call[c].status = "ok"
            /\ new.result = "refused" => call[c].pc = "body" /\ call[c].status = "4xx"
  <2>1. CASE call[c].pc = "fetch"
    BY <1>1, <2>1, AfterFailureEffect
  <2>2. CASE call[c].pc = "body"
    BY <1>1, <2>2, OutcomeEffect
  <2>. QED BY <1>1, <2>1, <2>2
<1>4. Attempts(new) = Attempts(call[c])
  BY <1>3 DEF Attempts
<1>. HIDE DEF new
<1>. QED BY <1>1, <1>2, <1>3, <1>4, AttemptOver

\* The headers of an answer come in: it is not to be read twice.
LEMMA RespondsStep ==
  ASSUME IInv, NEW c \in Call, NEW status \in Status, Responds(c, status)
  PROVE  IInv'
<1>. DEFINE x == [at |-> Current(c), status |-> status]
<1>1. /\ TypeOK /\ call[c] \in CallRec
      /\ call[c].pc = "fetch" /\ x \in answers /\ answers' = answers \ {x}
      /\ call' = [call EXCEPT ![c].pc = "body", ![c].status = status]
      /\ UNCHANGED <<wire, request, taken>>
      /\ x.at[1] = c /\ x.at[2] = call[c].attempt
  BY CallType DEF IInv, Responds, Current
<1>2. /\ call' \in [Call -> CallRec]
      /\ call'[c].pc = "body" /\ call'[c].status = status
      /\ call'[c].result = "none"
      /\ \A b \in Call : b # c => call'[b] = call[b]
      /\ \A b \in Call : /\ call'[b].attempt = call[b].attempt
                          /\ call'[b].key = call[b].key
                          /\ call'[b].target = call[b].target
                          /\ call'[b].result = call[b].result
  BY <1>1 DEF IInv, Calls, TypeOK, CallRec
<1>3. /\ \A a \in wire : a \in Attempt /\ a[1] \in Call
      /\ \A y \in answers : y.at \in Attempt /\ y.at[1] \in Call
      /\ \A z \in taken : z[1] \in Call
      /\ Claim \subseteq Call
  BY <1>1, AttemptType, SdkAssumption DEF TypeOK
<1>4. TypeOK'
  BY <1>1, <1>2 DEF TypeOK
<1>5. Calls'
  BY <1>1, <1>2 DEF IInv, Calls, Attempts
<1>6. Traces'
  <2>1. ASSUME NEW a \in wire, a[1] = c PROVE a[2] # call[c].attempt
    <3>1. a = <<a[1], a[2]>> /\ x.at \notin wire
      BY <1>1, <1>3, AttemptType DEF IInv, Traces
    <3>. QED BY <1>1, <2>1, <3>1 DEF Current
  <2>. QED BY <1>1, <1>2, <1>3, <2>1, AttemptType DEF IInv, Traces, Stored
<1>7. Told'
  <2>1. ASSUME NEW z \in taken, z[1] = c PROVE status # "4xx"
    BY <1>1, <2>1 DEF IInv, Told
  <2>2. status = "ok" /\ c \in Claim => <<c, call[c].target>> \in taken
    BY <1>1 DEF IInv, Told
  <2>. QED BY <1>1, <1>2, <1>3, <2>1, <2>2 DEF IInv, Told
<1>8. OneRequestPerCall'
  BY <1>1, <1>2, AttemptType DEF IInv, OneRequestPerCall, Stored
<1>9. ClaimsAreTold'
  BY <1>1, <1>2, <1>3 DEF IInv, ClaimsAreTold
<1>. QED BY <1>4, <1>5, <1>6, <1>7, <1>8, <1>9 DEF IInv

-----------------------------------------------------------------------------
(* The steps of the server.                                                 *)

\* The server is done with the attempt, and nobody is told anything else.
LEMMA AnswersEffect ==
  ASSUME IInv, NEW a \in wire, NEW status \in Status, Answers(a, status)
  PROVE  /\ a \in Attempt /\ call[a[1]] \in CallRec
         /\ call' = call /\ wire' = wire \ {a}
         /\ \A y \in answers' : y \in answers \/ (y.at = a /\ y.status = status)
         /\ answers' \subseteq [at : Attempt, status : Status]
         /\ Calls'
         /\ \A b \in wire' :
               /\ b[2] <= call'[b[1]].attempt
               /\ b[2] = call'[b[1]].attempt =>
                     call'[b[1]].pc # "body" /\ call'[b[1]].result \notin {"ok", "refused"}
         /\ \A y \in answers' : y.at \notin wire' /\ y.at[2] <= call'[y.at[1]].attempt
<1>1. TypeOK /\ a \in Attempt /\ call[a[1]] \in CallRec
  BY AttemptType, CallType DEF IInv, TypeOK
<1>2. call' = call /\ wire' = wire \ {a}
  BY DEF Answers
<1>3. \/ answers' = answers
      \/ answers' = answers \cup {[at |-> a, status |-> status]}
  BY DEF Answers
<1>4. Calls'
  BY <1>2 DEF IInv, Calls, Attempts
<1>5. \A y \in answers' : y \in answers \/ (y.at = a /\ y.status = status)
  BY <1>3
<1>6. \A y \in answers' : y.at \notin wire' /\ y.at[2] <= call'[y.at[1]].attempt
  BY <1>2, <1>5 DEF IInv, Traces
<1>. QED BY <1>1, <1>2, <1>3, <1>4, <1>5, <1>6 DEF IInv, Traces, TypeOK

\* An attempt that is handled and takes no secret: a claim is not told "ok",
\* and only what is stored for the first time is new in the store.
LEMMA NothingTaken ==
  ASSUME IInv, NEW a \in wire, NEW status \in Status, Answers(a, status),
         taken' = taken, status = "ok" => a[1] \notin Claim
  PROVE  Told' /\ ClaimsAreTold'
<1>1. /\ call' = call /\ wire' = wire \ {a}
      /\ \A y \in answers' : y \in answers \/ (y.at = a /\ y.status = status)
  BY AnswersEffect
<1>2. \A x \in taken : x[1] # a[1]
  BY DEF IInv, Told
<1>3. Told'
  BY <1>1, <1>2 DEF IInv, Told
<1>4. ClaimsAreTold'
  BY <1>1 DEF IInv, ClaimsAreTold
<1>. QED BY <1>3, <1>4

\* The request store is not touched, or no request is added to it.
LEMMA NothingStored ==
  ASSUME IInv, NEW a \in wire, NEW status \in Status, Answers(a, status),
         \A r \in Attempt : Stored(r)' => Stored(r)
  PROVE  Traces' /\ OneRequestPerCall'
<1>1. call' = call
  BY AnswersEffect
<1>2. Traces'
  BY <1>1, AnswersEffect DEF IInv, Traces
<1>3. OneRequestPerCall'
  BY <1>1 DEF IInv, OneRequestPerCall
<1>. QED BY <1>2, <1>3

\* An attempt that changes nothing but its answer.
LEMMA OnlyAnswered ==
  ASSUME IInv, NEW a \in wire, NEW status \in Status, Answers(a, status),
         UNCHANGED <<request, taken>>, status = "ok" => a[1] \notin Claim
  PROVE  IInv'
<1>1. TypeOK' /\ Calls'
  BY AnswersEffect DEF IInv, TypeOK
<1>2. \A r \in Attempt : Stored(r)' => Stored(r)
  BY DEF Stored
<1>3. Traces' /\ OneRequestPerCall'
  BY <1>2, NothingStored
<1>4. Told' /\ ClaimsAreTold'
  BY NothingTaken
<1>. QED BY <1>1, <1>3, <1>4 DEF IInv

\* The first attempt of a key that arrives makes the request, and so does the
\* only attempt of a call that has none.
LEMMA SubmitsStep == ASSUME IInv, NEW a \in wire, Submits(a) PROVE IInv'
<1>1. PICK status \in {"ok", "5xx"} : Answers(a, status)
  BY DEF Submits
<1>2. /\ status \in Status /\ TypeOK /\ taken' = taken /\ a[1] \notin Claim
      /\ request' = [request EXCEPT ![a] = "pending"]
      /\ Existing(call[a[1]].key) = {}
  BY <1>1 DEF Submits, Status, IInv
<1>3. /\ a \in Attempt /\ call' = call /\ Calls'
      /\ wire' \subseteq wire /\ answers' \subseteq [at : Attempt, status : Status]
  BY <1>1, <1>2, AnswersEffect
<1>4. TypeOK'
  BY <1>2, <1>3 DEF TypeOK
<1>5. \A r \in Attempt : Stored(r)' => r = a \/ Stored(r)
  BY <1>2 DEF Stored, TypeOK
<1>6. Traces'
  <2>1. a[2] <= call[a[1]].attempt
    BY DEF IInv, Traces
  <2>. QED BY <1>1, <1>2, <1>3, <1>5, <2>1, AnswersEffect DEF IInv, Traces
<1>7. Told' /\ ClaimsAreTold'
  BY <1>1, <1>2, NothingTaken
<1>8. OneRequestPerCall'
  <2>1. ASSUME NEW q \in Attempt, q # a, Stored(q)
        PROVE  /\ q[1] # a[1]
               /\ call[q[1]].key = None \/ call[q[1]].key # call[a[1]].key
    <3>1. CASE call[a[1]].key = None
      <4>1. Attempts(call[a[1]]) = 1 /\ call[a[1]].attempt <= 1
        BY <3>1, <1>3, AttemptType DEF IInv, Calls, Attempts
      <4>2. a[2] = 1
        BY <1>2, <1>3, <4>1, AttemptType, CallType DEF IInv, Traces
      <4>3. q[1] = a[1] => q[2] = 1
        BY <1>2, <1>3, <2>1, <4>1, AttemptType, CallType DEF IInv, Traces
      <4>4. q[1] # a[1]
        BY <1>3, <2>1, <4>2, <4>3, AttemptType
      <4>. QED BY <3>1, <4>4
    <3>2. CASE call[a[1]].key # None
      <4>1. call[q[1]].key # call[a[1]].key
        BY <1>2, <2>1, <3>2 DEF Existing
      <4>. QED BY <4>1
    <3>. QED BY <3>1, <3>2
  <2>. QED BY <1>3, <1>5, <2>1 DEF IInv, OneRequestPerCall
<1>. QED BY <1>3, <1>4, <1>6, <1>7, <1>8 DEF IInv

\* A claim takes the secret of its target with its only attempt.
LEMMA ClaimsStep == ASSUME IInv, NEW a \in wire, Claims(a) PROVE IInv'
<1>. DEFINE r == call[a[1]].target
<1>1. PICK status \in {"ok", "5xx"} : Answers(a, status)
  BY DEF Claims
<1>2. /\ status \in Status /\ TypeOK /\ taken' = taken \cup {<<a[1], r>>}
      /\ a[1] \in Claim /\ request[r] = "approved"
      /\ request' = [request EXCEPT ![r] = "claimed"]
  BY <1>1 DEF Claims, Status, IInv
<1>3. /\ a \in Attempt /\ call[a[1]] \in CallRec /\ call' = call /\ Calls'
      /\ wire' = wire \ {a} /\ answers' \subseteq [at : Attempt, status : Status]
      /\ \A y \in answers' : y \in answers \/ (y.at = a /\ y.status = status)
  BY <1>1, <1>2, AnswersEffect
<1>4. /\ r \in Attempt /\ call[a[1]].attempt = 1 /\ a[2] = 1 /\ a = <<a[1], 1>>
  <2>1. a[2] \in Nat /\ a[2] > 0 /\ a[2] <= call[a[1]].attempt /\ a = <<a[1], a[2]>>
    BY <1>3, AttemptType DEF IInv, Traces
  <2>2. call[a[1]].attempt \in Nat /\ call[a[1]].pc # "idle"
    BY <1>2, <1>3, <2>1, AttemptType, CallType DEF IInv, Calls
  <2>3. call[a[1]].key = None /\ r \in Attempt
    BY <1>2, <1>3, <2>2, AttemptType DEF IInv, Calls
  <2>4. call[a[1]].attempt <= 1
    BY <1>3, <2>3, AttemptType DEF IInv, Calls, Attempts
  <2>. QED BY <2>1, <2>2, <2>3, <2>4
<1>5. TypeOK'
  BY <1>2, <1>3, <1>4, AttemptType DEF TypeOK
<1>6. Traces' /\ OneRequestPerCall'
  <2>1. \A q \in Attempt : Stored(q)' => Stored(q)
    BY <1>2, <1>4 DEF Stored, TypeOK
  <2>. QED BY <1>1, <1>2, <2>1, NothingStored
<1>7. call[a[1]].pc # "body" /\ call[a[1]].result # "refused"
  BY <1>4 DEF IInv, Traces
<1>8. Told'
  <2>1. \A b \in Attempt : b[1] = a[1] /\ b[2] <= call[a[1]].attempt => b = a
    BY <1>3, <1>4, AttemptType
  <2>2. \A b \in wire' : b[1] # a[1]
    BY <1>2, <1>3, <2>1 DEF IInv, Traces, TypeOK
  <2>3. ASSUME NEW y \in answers', y.at[1] = a[1] PROVE y.at = a /\ y.status = status
    <3>1. CASE y \in answers
      BY <1>2, <2>1, <2>3, <3>1 DEF IInv, Traces, TypeOK
    <3>. QED BY <1>3, <3>1
  <2>4. ASSUME NEW x \in taken'
        PROVE  /\ x[1] \in Claim /\ call'[x[1]].attempt > 0
               /\ \A b \in wire' : b[1] # x[1]
               /\ \A y \in answers' : y.at[1] = x[1] => y.status # "4xx"
               /\ call'[x[1]].pc = "body" => call'[x[1]].status # "4xx"
    <3>1. CASE x = <<a[1], r>>
      BY <1>1, <1>2, <1>3, <1>4, <1>7, <2>2, <2>3, <3>1
    <3>2. CASE x \in taken
      BY <1>1, <1>3, <3>2 DEF IInv, Told
    <3>. QED BY <1>2, <3>1, <3>2
  <2>5. ASSUME NEW y \in answers', y.status = "ok", y.at[1] \in Claim
        PROVE  <<y.at[1], call'[y.at[1]].target>> \in taken'
    <3>1. CASE y \in answers
      BY <1>2, <1>3, <2>5, <3>1 DEF IInv, Told
    <3>2. CASE y.at = a
      BY <1>2, <1>3, <3>2
    <3>. QED BY <1>3, <3>1, <3>2
  <2>6. \A c \in Claim : call'[c].pc = "body" /\ call'[c].status = "ok" =>
            <<c, call'[c].target>> \in taken'
    BY <1>2, <1>3 DEF IInv, Told
  <2>. QED BY <2>4, <2>5, <2>6 DEF Told
<1>9. ClaimsAreTold'
  BY <1>2, <1>3, <1>7 DEF IInv, ClaimsAreTold
<1>. QED BY <1>3, <1>5, <1>6, <1>8, <1>9 DEF IInv

\* A decision changes nothing for the client.
LEMMA DecideStep == ASSUME IInv, NEW r \in Attempt, Decide(r) PROVE IInv'
<1>1. /\ UNCHANGED <<call, wire, answers, taken>> /\ TypeOK
      /\ request[r] = "pending"
  BY DEF Decide, IInv
<1>2. PICK status \in {"approved", "denied"} : request' = [request EXCEPT ![r] = status]
  BY DEF Decide
<1>3. \A q \in Attempt : Stored(q)' => Stored(q)
  BY <1>1, <1>2 DEF Stored, TypeOK
<1>4. TypeOK'
  BY <1>1, <1>2 DEF TypeOK
<1>5. Traces'
  BY <1>1, <1>3 DEF IInv, Traces
<1>6. OneRequestPerCall'
  BY <1>1, <1>3 DEF IInv, OneRequestPerCall
<1>7. Calls' /\ Told' /\ ClaimsAreTold'
  BY <1>1 DEF IInv, Calls, Told, ClaimsAreTold, Attempts
<1>. QED BY <1>4, <1>5, <1>6, <1>7 DEF IInv

\* Every step keeps the invariant.
LEMMA InvStep == IInv /\ [Next]_vars => IInv'
<1>. SUFFICES ASSUME IInv, [Next]_vars PROVE IInv'
  OBVIOUS
<1>1. ASSUME NEW c \in Call,
             \/ Begin(c) \/ BodyRead(c) \/ TimerFires(c)
             \/ \E status \in Status : Responds(c, status)
      PROVE  IInv'
  BY <1>1, BeginStep, BodyReadStep, AbortedStep, RetryStep, RespondsStep DEF TimerFires
<1>2. ASSUME NEW a \in wire,
             \/ TurnedAway(a) \/ Submits(a) \/ SubmitsAgain(a)
             \/ Claims(a) \/ ClaimRefused(a)
      PROVE  IInv'
  <2>1. CASE TurnedAway(a)
    <3>1. CASE Answers(a, "4xx")
      BY <2>1, <3>1, OnlyAnswered DEF TurnedAway, Status
    <3>2. CASE Answers(a, "5xx")
      BY <2>1, <3>2, OnlyAnswered DEF TurnedAway, Status
    <3>. QED BY <2>1, <3>1, <3>2 DEF TurnedAway
  <2>2. CASE SubmitsAgain(a)
    BY <2>2, OnlyAnswered DEF SubmitsAgain, Status
  <2>3. CASE ClaimRefused(a)
    BY <2>3, OnlyAnswered DEF ClaimRefused, Status
  <2>. QED BY <1>2, <2>1, <2>2, <2>3, SubmitsStep, ClaimsStep
<1>3. CASE \E r \in Attempt : Decide(r)
  BY <1>3, DecideStep
<1>4. CASE UNCHANGED vars
  BY <1>4 DEF vars, IInv, TypeOK, Calls, Attempts, Traces, Stored, Told,
     OneRequestPerCall, ClaimsAreTold
<1>. QED BY <1>1, <1>2, <1>3, <1>4 DEF Next

-----------------------------------------------------------------------------
\* Client and server keep the invariant, whatever is lost or late.
THEOREM Invariance == Spec => []IInv
<1>1. Init => IInv
  BY InitInv
<1>2. IInv /\ [Next]_vars => IInv'
  BY InvStep
<1>. QED BY <1>1, <1>2, PTL DEF Spec

\* Every variable stays in its type: no attempt beyond the configured number.
THEOREM TypeCorrect == Spec => []TypeOK
<1>1. IInv => TypeOK
  BY DEF IInv
<1>. QED BY <1>1, Invariance, PTL

\* However late its attempts arrive, a call makes one request, and so do all
\* calls under one key.
THEOREM CallsMakeOneRequest == Spec => []OneRequestPerCall
<1>1. IInv => OneRequestPerCall
  BY DEF IInv
<1>. QED BY <1>1, Invariance, PTL

\* A claim that took the secret is never told of a refusal, and one that
\* returns it has taken it.
THEOREM ClaimsTold == Spec => []ClaimsAreTold
<1>1. IInv => ClaimsAreTold
  BY DEF IInv
<1>. QED BY <1>1, Invariance, PTL

-----------------------------------------------------------------------------
(* The console, for any forms, places and collections and any number of    *)
(* ticks at once.  A form that has seen no other one closed keeps the      *)
(* guard up, and a field does while the focus is in the tab (Guarded).     *)

\* What a tick has fetched are answers of the server.
Fetches == \A s \in Slot : \A p \in Part : tick[s].got[p] \in 0..MaxChange \cup {Nothing}

\* What keeps a background tick from the page.
GuardUp(f) == formOpen \/ (Kind[f] = "field" /\ focused)

Guarded == \A f \in forms \ exposed : GuardUp(f)

ConsoleInv == ConsoleTypeOK /\ Fetches /\ Guarded

\* What a tab can be rendered from.
Data == [Part -> 0..MaxChange] \cup {NoData}

\* The half of ConsoleTypeOK that renders and the operator are about.
PageTypes ==
    /\ shown \in Data \cup {Nothing} /\ place \in Place
    /\ forms \subseteq Form /\ exposed \subseteq Form
    /\ {formOpen, focused, held} \subseteq BOOLEAN
    /\ post \in [Form -> {"none", "live", "detached"}]

\* The half that refreshes are about.
DataTypes ==
    /\ server \in [Part -> 0..MaxChange]
    /\ tick \in [Slot -> TickRec] /\ Fetches
    /\ fetched \in Data
    /\ fault \in 0..MaxFault

\* The two halves and the guard are the whole.
LEMMA ConsoleHalves == (ConsoleInv <=> DataTypes /\ PageTypes /\ Guarded)
                       /\ (ConsoleInv' <=> DataTypes' /\ PageTypes' /\ Guarded')
  BY DEF ConsoleInv, ConsoleTypeOK, DataTypes, PageTypes, Data

\* A step that ends a background tick takes no form off the page but one that
\* is exposed.
Spares == \A s \in Slot : Ends(s) /\ ~tick[s].force => forms \ forms' \subseteq exposed

\* Before the first refresh there is nothing to guard.
LEMMA ConsoleInitInv == ConsoleInit => ConsoleInv
<1>. SUFFICES ASSUME ConsoleInit PROVE ConsoleInv
  OBVIOUS
<1>1. MaxChange \in Nat /\ MaxFault \in Nat /\ Start \in Place
  BY ConsoleAssumption
<1>2. NoTick \in TickRec /\ [NoTick EXCEPT !.on = TRUE, !.force = TRUE] \in TickRec
      /\ NoTick.got = [NoTick EXCEPT !.on = TRUE, !.force = TRUE].got
      /\ \A p \in Part : NoTick.got[p] = Nothing
  BY DEF NoTick, NoData, TickRec
<1>3. tick \in [Slot -> TickRec] /\ Fetches
  BY <1>2 DEF ConsoleInit, Fetches
<1>4. DataTypes
  BY <1>1, <1>3 DEF ConsoleInit, DataTypes, Data
<1>5. PageTypes /\ Guarded
  BY <1>1 DEF ConsoleInit, PageTypes, Guarded, Data
<1>. QED BY <1>4, <1>5, ConsoleHalves

\* A tick that starts ends none.
LEMMA TickStarts ==
  ASSUME DataTypes, NEW s \in Slot, NEW force \in BOOLEAN, Ticks(s, force),
         UNCHANGED <<server, fetched, fault>>
  PROVE  DataTypes' /\ Spares
<1>1. PICK new : new = [NoTick EXCEPT !.on = TRUE, !.force = force]
  OBVIOUS
<1>2. new \in TickRec /\ new.on = TRUE /\ \A p \in Part : new.got[p] = Nothing
  BY <1>1 DEF NoTick, NoData, TickRec
<1>3. /\ tick' = [tick EXCEPT ![s] = new] /\ tick \in [Slot -> TickRec] /\ Fetches
  BY <1>1 DEF Ticks, DataTypes
<1>4. tick' \in [Slot -> TickRec] /\ tick'[s] = new
      /\ \A r \in Slot : r # s => tick'[r] = tick[r]
  BY <1>2, <1>3
<1>5. Fetches' /\ Spares
  BY <1>2, <1>3, <1>4 DEF Fetches, Spares, Ends
<1>. QED BY <1>4, <1>5 DEF DataTypes

\* A tick that ends is the only one to do so.
LEMMA TickEnds ==
  ASSUME DataTypes, NEW s \in Slot, tick' = [tick EXCEPT ![s] = NoTick], server' = server,
         fetched' \in Data, fault' \in 0..MaxFault,
         ~tick[s].force => forms \ forms' \subseteq exposed
  PROVE  DataTypes' /\ Spares
<1>1. NoTick \in TickRec /\ \A p \in Part : NoTick.got[p] = Nothing
  BY DEF NoTick, NoData, TickRec
<1>2. tick \in [Slot -> TickRec] /\ Fetches
  BY DEF DataTypes
<1>3. tick' \in [Slot -> TickRec] /\ tick'[s] = NoTick
      /\ \A r \in Slot : r # s => tick'[r] = tick[r]
  BY <1>1, <1>2
<1>4. Fetches' /\ Spares
  BY <1>1, <1>2, <1>3 DEF Fetches, Spares, Ends
<1>. QED BY <1>3, <1>4 DEF DataTypes

\* A render leaves no form to guard.
LEMMA RenderStep ==
  ASSUME PageTypes, NEW data \in Data, Rendered(data), place' \in Place,
         formOpen' \in BOOLEAN
  PROVE  PageTypes' /\ Guarded'
  BY DEF PageTypes, Rendered, Guarded

\* The end of a tick: unless it is forced, it renders with the guard down only.
LEMMA UpdatesStep ==
  ASSUME PageTypes, Guarded, NEW s \in Slot, NEW changed \in BOOLEAN, NEW data \in Data,
         Updates(s, changed, data)
  PROVE  PageTypes' /\ Guarded' /\ (~tick[s].force => forms \ forms' \subseteq exposed)
<1>1. CASE Rendered(data) /\ UNCHANGED <<place, formOpen>>
  <2>1. PageTypes' /\ Guarded'
    BY <1>1, RenderStep DEF PageTypes
  <2>2. ~tick[s].force => (~formOpen /\ ~focused) \/ forms' = forms
    BY DEF Updates
  <2>. QED BY <2>1, <2>2 DEF Guarded, GuardUp
<1>2. CASE /\ held' = (held \/ changed)
           /\ UNCHANGED <<shown, place, forms, formOpen, focused, post, exposed>>
  BY <1>2 DEF PageTypes, Guarded, GuardUp
<1>. QED BY <1>1, <1>2 DEF Updates

\* A refresh ends, with its answers or without.
LEMMA SettleStep ==
  ASSUME ConsoleInv, NEW s \in Slot, Settle(s) \/ RefreshFails(s)
  PROVE  ConsoleInv' /\ Spares
<1>1. DataTypes /\ PageTypes /\ Guarded /\ MaxFault \in Nat
  BY ConsoleHalves, ConsoleAssumption
<1>2. CASE Settle(s)
  <2>1. PICK got : got = tick[s].got
    OBVIOUS
  <2>2. got \in Data
    <3>1. got \in [Part -> Nat \cup {Nothing}] /\ \A p \in Part : got[p] # Nothing
      BY <1>1, <1>2, <2>1 DEF Settle, DataTypes, TickRec
    <3>2. \A p \in Part : got[p] \in 0..MaxChange
      BY <1>1, <2>1, <3>1 DEF DataTypes, Fetches
    <3>. QED BY <3>1, <3>2 DEF Data
  <2>3. Changed(got) \in BOOLEAN /\ Updates(s, Changed(got), got)
    BY <1>2, <2>1 DEF Settle, Changed
  <2>4. PageTypes' /\ Guarded' /\ (~tick[s].force => forms \ forms' \subseteq exposed)
    BY <1>1, <2>2, <2>3, UpdatesStep
  <2>5. /\ tick' = [tick EXCEPT ![s] = NoTick] /\ server' = server
        /\ fetched' \in Data /\ fault' \in 0..MaxFault
    BY <1>1, <1>2, <2>1, <2>2 DEF Settle, DataTypes
  <2>. QED BY <1>1, <2>4, <2>5, TickEnds, ConsoleHalves
<1>3. CASE RefreshFails(s)
  <2>1. Updates(s, FALSE, fetched) /\ fetched \in Data
    BY <1>1, <1>3 DEF RefreshFails, DataTypes
  <2>2. PageTypes' /\ Guarded' /\ (~tick[s].force => forms \ forms' \subseteq exposed)
    BY <1>1, <2>1, UpdatesStep
  <2>3. /\ tick' = [tick EXCEPT ![s] = NoTick] /\ server' = server
        /\ fetched' \in Data /\ fault' \in 0..MaxFault
    BY <1>1, <1>3, <2>1 DEF RefreshFails, DataTypes
  <2>. QED BY <1>1, <2>2, <2>3, TickEnds, ConsoleHalves
<1>. QED BY <1>2, <1>3

\* A step that leaves the ticks alone ends none.
LEMMA NoTickEnds == ASSUME tick' = tick PROVE Spares
  BY DEF Spares, Ends

\* The server has a change, or answers a GET.
LEMMA ServerStep ==
  ASSUME ConsoleInv, NEW p \in Part, ServerChanges(p) \/ \E s \in Slot : Get(s, p)
  PROVE  ConsoleInv' /\ Spares
<1>1. DataTypes /\ PageTypes /\ Guarded /\ MaxChange \in Nat
  BY ConsoleHalves, ConsoleAssumption
<1>2. PageTypes' /\ Guarded'
  BY <1>1 DEF ServerChanges, Get, page, PageTypes, Guarded, GuardUp
<1>3. CASE ServerChanges(p)
  <2>1. server' \in [Part -> 0..MaxChange] /\ UNCHANGED <<tick, fetched, fault>>
    BY <1>1, <1>3 DEF ServerChanges, DataTypes
  <2>2. DataTypes'
    BY <1>1, <2>1 DEF DataTypes, Fetches
  <2>. QED BY <1>2, <2>1, <2>2, NoTickEnds, ConsoleHalves
<1>4. ASSUME NEW s \in Slot, Get(s, p) PROVE ConsoleInv' /\ Spares
  <2>1. PICK new : new = [tick[s] EXCEPT !.got[p] = server[p]]
    OBVIOUS
  <2>2. /\ tick \in [Slot -> TickRec] /\ Fetches /\ tick[s] \in TickRec
        /\ server[p] \in 0..MaxChange
    BY <1>1 DEF DataTypes
  <2>3. /\ new \in TickRec /\ new.on = tick[s].on
        /\ \A q \in Part : new.got[q] \in 0..MaxChange \cup {Nothing}
    BY <1>1, <2>1, <2>2 DEF TickRec, Fetches
  <2>4. tick' = [tick EXCEPT ![s] = new]
    BY <1>4, <2>1, <2>2 DEF Get
  <2>5. tick' \in [Slot -> TickRec] /\ tick'[s] = new
        /\ \A r \in Slot : r # s => tick'[r] = tick[r]
    BY <2>2, <2>3, <2>4
  <2>6. Fetches' /\ Spares
    BY <2>2, <2>3, <2>5 DEF Fetches, Spares, Ends
  <2>7. DataTypes'
    BY <1>1, <1>4, <2>5, <2>6 DEF DataTypes, Get
  <2>. QED BY <1>2, <2>6, <2>7, ConsoleHalves
<1>. QED BY <1>3, <1>4

\* What the operator does to the forms of a tab.
LEMMA OperatorStep ==
  ASSUME ConsoleInv, NEW f \in Form,
         Open(f) \/ Fill(f) \/ Focus(f) \/ Cancel(f) \/ Submit(f) \/ Refused(f)
  PROVE  ConsoleInv' /\ Spares
<1>1. DataTypes /\ PageTypes /\ Guarded
  BY ConsoleHalves
<1>2. UNCHANGED <<server, tick, fetched, fault>>
  BY DEF Open, Fill, Focus, Cancel, Submit, Refused
<1>3. DataTypes'
  BY <1>1, <1>2 DEF DataTypes, Fetches
<1>4. PageTypes'
  BY <1>1 DEF PageTypes, Open, Fill, Focus, Cancel, Submit, Refused, Unfocused
<1>5. Guarded'
  BY <1>1 DEF Guarded, GuardUp, PageTypes, Open, Fill, Focus, Cancel, Submit, Refused,
              Unfocused
<1>. QED BY <1>2, <1>3, <1>4, <1>5, NoTickEnds, ConsoleHalves

\* An answer to a form that starts a forced tick.
LEMMA SubmittedStep ==
  ASSUME ConsoleInv, NEW f \in Form, NEW s \in Slot,
         Saved(f, s) \/ Delegated(f, s) \/ Submitted(f, s)
  PROVE  ConsoleInv' /\ Spares
<1>1. DataTypes /\ PageTypes /\ Guarded
  BY ConsoleHalves
<1>2. Ticks(s, TRUE) /\ UNCHANGED <<server, fetched, fault>>
  BY DEF Saved, Delegated, Submitted
<1>3. DataTypes' /\ Spares
  BY <1>1, <1>2, TickStarts
<1>4. PageTypes'
  BY <1>1 DEF PageTypes, Saved, Delegated, Submitted
<1>5. Guarded'
  <2>1. CASE Saved(f, s)
    BY <2>1 DEF Guarded, Saved
  <2>2. CASE Delegated(f, s)
    BY <2>2 DEF Guarded, GuardUp, Delegated
  <2>3. CASE Submitted(f, s)
    BY <1>1, <2>3 DEF Guarded, GuardUp, Submitted
  <2>. QED BY <2>1, <2>2, <2>3
<1>. QED BY <1>3, <1>4, <1>5, ConsoleHalves

\* Another tab, rendered from the data there is.
LEMMA NavigateStep ==
  ASSUME ConsoleInv, NEW to \in Place, Navigate(to) PROVE ConsoleInv' /\ Spares
<1>1. DataTypes /\ PageTypes /\ fetched \in Data
  BY ConsoleHalves DEF DataTypes
<1>2. UNCHANGED <<server, tick, fetched, fault>> /\ Rendered(fetched)
      /\ place' \in Place /\ formOpen' \in BOOLEAN
  BY DEF Navigate
<1>3. DataTypes'
  BY <1>1, <1>2 DEF DataTypes, Fetches
<1>4. PageTypes' /\ Guarded'
  BY <1>1, <1>2, RenderStep
<1>. QED BY <1>2, <1>3, <1>4, NoTickEnds, ConsoleHalves

\* Every step keeps the invariant, and spares the forms.
LEMMA ConsoleStep == ConsoleInv /\ [ConsoleNext]_console => ConsoleInv' /\ Spares
<1>. SUFFICES ASSUME ConsoleInv, [ConsoleNext]_console PROVE ConsoleInv' /\ Spares
  OBVIOUS
<1>1. CASE UNCHANGED console
  <2>1. UNCHANGED <<server, tick, fetched, shown, place, forms, formOpen, focused, post,
                    exposed, held, fault>>
    BY <1>1 DEF console, page
  <2>2. ConsoleInv'
    BY <2>1 DEF ConsoleInv, ConsoleTypeOK, Fetches, Guarded, GuardUp
  <2>. QED BY <2>1, <2>2, NoTickEnds
<1>2. ASSUME NEW s \in Slot, Poll(s) \/ Forced(s) PROVE ConsoleInv' /\ Spares
  <2>1. DataTypes /\ PageTypes /\ Guarded /\ UNCHANGED <<server, fetched, page, fault>>
    BY <1>2, ConsoleHalves DEF Poll, Forced
  <2>2. DataTypes' /\ Spares
    BY <1>2, <2>1, TickStarts DEF Poll, Forced
  <2>3. PageTypes' /\ Guarded'
    BY <2>1 DEF page, PageTypes, Guarded, GuardUp
  <2>. QED BY <2>2, <2>3, ConsoleHalves
<1>3. CASE \E f \in Form :
             Open(f) \/ Fill(f) \/ Focus(f) \/ Cancel(f) \/ Submit(f) \/ Refused(f)
  BY <1>3, OperatorStep
<1>4. CASE Blur
  <2>1. DataTypes /\ PageTypes /\ Guarded /\ UNCHANGED <<server, tick, fetched, fault>>
    BY <1>4, ConsoleHalves DEF Blur
  <2>2. DataTypes' /\ PageTypes' /\ Guarded'
    BY <1>4, <2>1 DEF DataTypes, Fetches, PageTypes, Guarded, GuardUp, Blur, Unfocused
  <2>. QED BY <2>1, <2>2, NoTickEnds, ConsoleHalves
<1>. QED
  BY <1>1, <1>2, <1>3, <1>4, SettleStep, ServerStep, SubmittedStep, NavigateStep
     DEF ConsoleNext, Responses

\* The console keeps its types; a form that has seen no other one closed keeps the
\* guard up, and so does a field that has kept the focus.
THEOREM ConsoleInvariance == ConsoleSpec => []ConsoleInv
  BY ConsoleInitInv, ConsoleStep, PTL DEF ConsoleSpec

\* However many ticks overlap, a background poll takes no form off the page
\* but one that has seen another one closed or saved, or a field that the
\* focus has left.
THEOREM PollsSpareForms == ConsoleSpec => PollSparesForms
<1>1. ConsoleInv /\ [ConsoleNext]_console =>
        [\A s \in Slot :
            Ends(s) /\ ~tick[s].force => forms \ forms' \subseteq exposed]_console
  BY ConsoleStep DEF Spares
<1>. QED BY <1>1, ConsoleInvariance, PTL DEF ConsoleSpec, PollSparesForms
=============================================================================
