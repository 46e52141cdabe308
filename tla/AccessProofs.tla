---------------------------- MODULE AccessProofs ----------------------------
(***************************************************************************)
(* Proofs about Access, for any sets of tokens, endpoints and calls, any   *)
(* scopes, any redaction rule and any number of attempts.  The inductive   *)
(* invariant is about one call at a time.  While no attempt of a call was  *)
(* late and the log refused none of its results, the endpoint has at most  *)
(* the awaited attempt of it in hand and has carried out nothing but a     *)
(* success (Attempts); and the log holds the decision of every call that   *)
(* was let through, and of results what the call was answered (Trail).     *)
(***************************************************************************)
EXTENDS Access, TLAPS, FiniteSetTheorems

Results == {"success", "unreachable", "data"}

\* What a call is known to be at each stage.
Stage(c) ==
    /\ call[c].pc = "idle" => call[c] = Idle
    /\ call[c].pc = "verify" =>
          /\ call[c].attempt = 0 /\ call[c].cause = "none"
          /\ ~call[c].late /\ ~call[c].gone
    /\ call[c].pc = "sleep" => call[c].attempt < MaxAttempts
    /\ call[c].pc # "done" => call[c].outcome = "none"

\* The endpoint's side of a call whose attempts were all refused or awaited.
Attempts(c) ==
    ~call[c].late /\ ~call[c].gone =>
        /\ \A n \in 1..MaxAttempts : <<c, n>> \in running =>
              call[c].pc = "attempt" /\ n = call[c].attempt
        /\ \A n \in 1..MaxAttempts : <<c, n>> \in performed =>
              call[c].pc = "done" /\ call[c].outcome = "success" /\ n = call[c].attempt

\* The log's side of a call.
Trail(c) ==
    /\ call[c].pc \in {"attempt", "sleep"} \/ call[c].outcome \in Results =>
          Entry(c, "allowed") \in log
    /\ \A e \in log : e.call = c /\ e.what \in Results =>
          call[c].outcome = e.what \/ call[c].gone
    /\ call[c].outcome \in Results =>
          \E e \in log :
              /\ e.call = c /\ e.what = call[c].outcome
              /\ e.what = "data" =>
                    /\ e.masked = call[c].masked
                    /\ \A f \in Field \cap DOMAIN RequiredScope :
                          f \notin e.masked => RequiredScope[f] \in Scope[call[c].tok]

Good(c) == Stage(c) /\ Attempts(c) /\ Trail(c)

IInv == TypeOK /\ \A c \in Call : Good(c)

-----------------------------------------------------------------------------
(* Entries, and the records of calls.                                       *)

\* What an entry says.
LEMMA EntryEffect ==
  ASSUME NEW c \in Call, NEW what \in {"allowed", "denied", "success", "unreachable", "data"}
  PROVE  /\ Entry(c, what) \in EntryRec
         /\ Entry(c, what).call = c /\ Entry(c, what).what = what
  BY DEF Entry, EntryRec

\* The record of a call nobody made.
LEMMA IdleEffect ==
  /\ Idle \in CallRec /\ Idle.attempt = 0 /\ Idle.cause = "none"
  /\ ~Idle.late /\ ~Idle.gone /\ Idle.outcome = "none"
  BY AccessAssumption DEF Idle, CallRec, Kind

\* A call that ends keeps everything but its stage and outcome.
LEMMA EndedEffect ==
  ASSUME NEW rec \in CallRec,
         NEW o \in {"denied", "success", "unreachable", "data", "error"}
  PROVE  /\ Ended(rec, o) \in CallRec
         /\ Ended(rec, o).pc = "done" /\ Ended(rec, o).outcome = o
         /\ Ended(rec, o).attempt = rec.attempt /\ Ended(rec, o).cause = rec.cause
         /\ Ended(rec, o).late = rec.late /\ Ended(rec, o).gone = rec.gone
         /\ Ended(rec, o).tok = rec.tok
  BY DEF Ended, CallRec

\* After a failed attempt a call sleeps, or is answered that the endpoint is
\* unreachable, or ends in an error that the log or another cause explains.
LEMMA AfterFailureEffect ==
  ASSUME NEW rec \in CallRec, rec.outcome = "none",
         NEW cause \in {"unreachable", "log"}, NEW logs \in BOOLEAN,
         NEW f, f = AfterFailure(rec, cause, logs)
  PROVE  /\ f \in CallRec /\ f.attempt = rec.attempt /\ f.late = rec.late
         /\ f.cause = cause
         /\ \/ /\ f.pc = "sleep" /\ f.outcome = "none" /\ f.gone = rec.gone
               /\ f.attempt < MaxAttempts
            \/ /\ f.pc = "done" /\ f.outcome = "unreachable" /\ f.gone = rec.gone
               /\ cause = "unreachable"
            \/ f.pc = "done" /\ f.outcome = "error" /\ f.gone
<1>. DEFINE failed == [rec EXCEPT !.cause = cause]
            lost   == [failed EXCEPT !.gone = TRUE]
            asleep == [failed EXCEPT !.pc = "sleep"]
<1>1. /\ failed \in CallRec /\ failed.attempt = rec.attempt /\ failed.late = rec.late
      /\ failed.cause = cause /\ failed.gone = rec.gone
  BY DEF CallRec
<1>2. /\ lost \in CallRec /\ lost.attempt = rec.attempt /\ lost.late = rec.late
      /\ lost.cause = cause /\ lost.gone
  BY DEF CallRec
<1>3. /\ asleep \in CallRec /\ asleep.attempt = rec.attempt /\ asleep.late = rec.late
      /\ asleep.cause = cause /\ asleep.gone = rec.gone /\ asleep.pc = "sleep"
      /\ asleep.outcome = "none"
  BY DEF CallRec
<1>4. \/ rec.attempt < MaxAttempts /\ f = asleep
      \/ cause = "unreachable" /\ f = Ended(failed, "unreachable")
      \/ f = Ended(lost, "error")
  BY DEF AfterFailure
<1>. HIDE DEF failed, lost, asleep
<1>. QED BY <1>1, <1>2, <1>3, <1>4, EndedEffect

-----------------------------------------------------------------------------
(* A step changes one call, with the log's and the endpoint's side of it.   *)

\* A call is what it was when neither its record nor its entries nor its
\* attempts have changed.
LEMMA OtherCall ==
  ASSUME NEW d \in Call, Good(d), call'[d] = call[d], log \subseteq log',
         \A e \in log' : e.call = d => e \in log,
         \A n \in 1..MaxAttempts :
            /\ <<d, n>> \in running' => <<d, n>> \in running
            /\ <<d, n>> \in performed' => <<d, n>> \in performed
  PROVE  Good(d)'
<1>1. Stage(d)'
  BY DEF Good, Stage
<1>2. Attempts(d)'
  BY DEF Good, Attempts
<1>3. Trail(d)'
  <2>1. Entry(d, "allowed")' = Entry(d, "allowed")
    BY DEF Entry
  <2>. QED BY <2>1 DEF Good, Trail
<1>. QED BY <1>1, <1>2, <1>3 DEF Good

\* A step of call c.
LEMMA OneCall ==
  ASSUME IInv, NEW c \in Call, NEW rec \in CallRec, call' = [call EXCEPT ![c] = rec],
         log \subseteq log',
         \A e \in log' : e \in log \/ (e \in EntryRec /\ e.call = c),
         running' \subseteq Call \X (1..MaxAttempts),
         performed' \subseteq Call \X (1..MaxAttempts),
         \A d \in Call : \A n \in 1..MaxAttempts : d # c =>
            /\ <<d, n>> \in running' => <<d, n>> \in running
            /\ <<d, n>> \in performed' => <<d, n>> \in performed,
         UNCHANGED <<revoked, down, turn>>,
         Good(c)'
  PROVE  IInv'
<1>1. TypeOK'
  BY DEF IInv, TypeOK
<1>2. ASSUME NEW d \in Call, d # c PROVE Good(d)'
  <2>1. Good(d) /\ call'[d] = call[d]
    BY <1>2 DEF IInv, TypeOK
  <2>2. \A e \in log' : e.call = d => e \in log
    BY <1>2
  <2>. QED BY <1>2, <2>1, <2>2, OtherCall
<1>. QED BY <1>1, <1>2 DEF IInv

\* The call's own side of a step that leaves the endpoint alone and ends it.
LEMMA EndsUnlogged ==
  ASSUME IInv, NEW c \in Call, call[c].pc = "verify", NEW rec \in CallRec,
         rec.pc = "done", rec.outcome \in {"denied", "error"}, ~rec.late, ~rec.gone,
         call' = [call EXCEPT ![c] = rec],
         log \subseteq log',
         \A e \in log' : \/ e \in log
                         \/ e \in EntryRec /\ e.call = c /\ e.what \notin Results,
         UNCHANGED <<revoked, down, running, performed, turn>>
  PROVE  IInv'
<1>1. call'[c] = rec /\ Good(c)
  BY DEF IInv, TypeOK
<1>2. Stage(c)'
  BY <1>1 DEF Stage
<1>3. Attempts(c)'
  BY <1>1 DEF Good, Stage, Attempts
<1>4. Trail(c)'
  BY <1>1 DEF Good, Stage, Trail, Results
<1>5. Good(c)'
  BY <1>2, <1>3, <1>4 DEF Good
<1>. QED BY <1>5, OneCall DEF IInv, TypeOK

-----------------------------------------------------------------------------
(* The actions.                                                             *)

\* A request arrives.
LEMMA BeginStep ==
  ASSUME IInv, NEW c \in Call, NEW kind \in Kind, NEW t \in Tok,
         NEW s \in System \cup {None}, Begin(c, kind, t, s)
  PROVE  IInv'
<1>. DEFINE rec == [Idle EXCEPT !.pc = "verify", !.kind = kind, !.tok = t,
                                !.system = s, !.stale = t \in revoked]
<1>1. /\ rec \in CallRec /\ rec.pc = "verify" /\ rec.attempt = 0 /\ rec.cause = "none"
      /\ ~rec.late /\ ~rec.gone /\ rec.outcome = "none"
  <2>1. PICK stale \in BOOLEAN : stale = (t \in revoked)
    BY (t \in revoked) \in BOOLEAN
  <2>2. rec = [Idle EXCEPT !.pc = "verify", !.kind = kind, !.tok = t, !.system = s,
                           !.stale = stale]
    BY <2>1
  <2>. HIDE DEF rec
  <2>. QED BY <2>2, IdleEffect DEF CallRec
<1>2. /\ call[c].pc = "idle" /\ call' = [call EXCEPT ![c] = rec]
      /\ UNCHANGED <<revoked, down, running, performed, log, turn>>
  BY DEF Begin
<1>. HIDE DEF rec
<1>3. /\ call'[c] = rec /\ Good(c) /\ ~call[c].late /\ ~call[c].gone
      /\ call[c].outcome = "none"
  BY <1>2, IdleEffect DEF IInv, TypeOK, Good, Stage
<1>4. Good(c)'
  BY <1>1, <1>2, <1>3 DEF Good, Stage, Attempts, Trail, Results
<1>. QED BY <1>1, <1>2, <1>4, OneCall DEF IInv, TypeOK

\* The decision is a denial, or the log or the breaker throws at it.
LEMMA DeniedStep ==
  ASSUME IInv, NEW c \in Call, NEW possessed \in BOOLEAN,
         Denied(c, possessed) \/ AllowedThenFails(c)
  PROVE  IInv'
<1>1. PICK what \in {"denied", "allowed"}, outcome \in {"denied", "error"} :
        /\ call[c].pc = "verify" /\ log' = log \cup {Entry(c, what)}
        /\ call' = [call EXCEPT ![c] = Ended(call[c], outcome)]
        /\ UNCHANGED <<revoked, down, running, performed, turn>>
  BY DEF Denied, AllowedThenFails, Record, IInv, TypeOK
<1>2. /\ call[c] \in CallRec /\ ~call[c].late /\ ~call[c].gone
  BY <1>1 DEF IInv, TypeOK, Good, Stage
<1>3. /\ Entry(c, what) \in EntryRec /\ Entry(c, what).call = c
      /\ Entry(c, what).what \notin Results
  BY EntryEffect DEF Results
<1>4. /\ Ended(call[c], outcome) \in CallRec /\ Ended(call[c], outcome).pc = "done"
      /\ Ended(call[c], outcome).outcome = outcome
      /\ ~Ended(call[c], outcome).late /\ ~Ended(call[c], outcome).gone
  BY <1>2, EndedEffect
<1>5. /\ log \subseteq log'
      /\ \A e \in log' : \/ e \in log
                         \/ e \in EntryRec /\ e.call = c /\ e.what \notin Results
  BY <1>1, <1>3
<1>. QED BY <1>1, <1>4, <1>5, EndsUnlogged

\* The customer record is not to be had.
LEMMA DataRefusedStep ==
  ASSUME IInv, NEW c \in Call, DataRefused(c)
  PROVE  IInv'
<1>1. /\ call[c].pc = "verify" /\ log' = log \cup {Entry(c, "allowed"), Entry(c, "denied")}
      /\ call' = [call EXCEPT ![c] = Ended(call[c], "denied")]
      /\ UNCHANGED <<revoked, down, running, performed, turn>>
  BY DEF DataRefused, Record, IInv, TypeOK
<1>2. /\ call[c] \in CallRec /\ ~call[c].late /\ ~call[c].gone
  BY <1>1 DEF IInv, TypeOK, Good, Stage
<1>3. \A what \in {"allowed", "denied"} :
          /\ Entry(c, what) \in EntryRec /\ Entry(c, what).call = c
          /\ Entry(c, what).what \notin Results
  BY EntryEffect DEF Results
<1>4. /\ Ended(call[c], "denied") \in CallRec /\ Ended(call[c], "denied").pc = "done"
      /\ Ended(call[c], "denied").outcome = "denied"
      /\ ~Ended(call[c], "denied").late /\ ~Ended(call[c], "denied").gone
  BY <1>2, EndedEffect
<1>5. /\ log \subseteq log'
      /\ \A e \in log' : \/ e \in log
                         \/ e \in EntryRec /\ e.call = c /\ e.what \notin Results
  BY <1>1, <1>3
<1>. QED BY <1>1, <1>4, <1>5, EndsUnlogged

\* The customer record is read and logged with its mask, then answered.
LEMMA ReadDataStep ==
  ASSUME IInv, NEW c \in Call, NEW logs \in BOOLEAN, ReadData(c, logs)
  PROVE  IInv'
<1>. DEFINE masked == Masked(Scope[call[c].tok])
            entry  == [Entry(c, "data") EXCEPT !.masked = masked]
            rec    == IF logs THEN [Ended(call[c], "data") EXCEPT !.masked = masked]
                      ELSE [Ended(call[c], "error") EXCEPT !.gone = TRUE]
<1>1. /\ call[c].pc = "verify" /\ log' = log \cup {Entry(c, "allowed"), entry}
      /\ call' = [call EXCEPT ![c] = rec]
      /\ UNCHANGED <<revoked, down, running, performed, turn>>
  BY DEF ReadData, Record, IInv, TypeOK
<1>2. /\ call[c] \in CallRec /\ Good(c) /\ ~call[c].late /\ ~call[c].gone
  BY <1>1 DEF IInv, TypeOK, Good, Stage
<1>3. masked \subseteq Field
      /\ \A f \in Field \cap DOMAIN RequiredScope :
            f \notin masked => RequiredScope[f] \in Scope[call[c].tok]
  BY DEF Masked
<1>4. entry \in EntryRec /\ entry.call = c /\ entry.what = "data" /\ entry.masked = masked
  BY <1>3 DEF Entry, EntryRec
<1>5. /\ rec \in CallRec /\ rec.pc = "done" /\ rec.tok = call[c].tok /\ ~rec.late
      /\ \/ rec.outcome = "data" /\ rec.masked = masked /\ ~rec.gone
         \/ rec.outcome = "error" /\ rec.gone
  <2>1. CASE logs
    <3>1. /\ Ended(call[c], "data") \in CallRec /\ Ended(call[c], "data").pc = "done"
          /\ Ended(call[c], "data").outcome = "data"
          /\ Ended(call[c], "data").tok = call[c].tok
          /\ Ended(call[c], "data").late = call[c].late
          /\ Ended(call[c], "data").gone = call[c].gone
      BY <1>2, EndedEffect
    <3>2. rec = [Ended(call[c], "data") EXCEPT !.masked = masked]
      BY <2>1
    <3>. HIDE DEF rec, masked
    <3>. QED BY <1>2, <1>3, <3>1, <3>2 DEF CallRec
  <2>2. CASE ~logs
    <3>1. /\ Ended(call[c], "error") \in CallRec /\ Ended(call[c], "error").pc = "done"
          /\ Ended(call[c], "error").outcome = "error"
          /\ Ended(call[c], "error").tok = call[c].tok
          /\ Ended(call[c], "error").late = call[c].late
      BY <1>2, EndedEffect
    <3>2. rec = [Ended(call[c], "error") EXCEPT !.gone = TRUE]
      BY <2>2
    <3>. HIDE DEF rec, masked
    <3>. QED BY <1>2, <3>1, <3>2 DEF CallRec
  <2>. QED BY <2>1, <2>2
<1>. HIDE DEF masked, entry, rec
<1>6. call'[c] = rec /\ Entry(c, "allowed")' = Entry(c, "allowed")
  BY <1>1 DEF IInv, TypeOK, Entry
<1>7. Stage(c)'
  BY <1>5, <1>6 DEF Stage
<1>8. Attempts(c)'
  BY <1>1, <1>2, <1>5, <1>6 DEF Good, Attempts
<1>9. Trail(c)'
  <2>1. \A e \in log' : e.call = c /\ e.what \in Results => e = entry
    BY <1>1, <1>2, EntryEffect DEF Good, Stage, Trail, Results
  <2>. QED BY <1>1, <1>3, <1>4, <1>5, <1>6, <2>1 DEF Trail, Results
<1>10. Good(c)'
  BY <1>7, <1>8, <1>9 DEF Good
<1>11. \A e \in {Entry(c, "allowed"), entry} : e \in EntryRec /\ e.call = c
  BY <1>4, EntryEffect
<1>. QED BY <1>1, <1>5, <1>10, <1>11, OneCall DEF IInv, TypeOK

\* The record f of a call after a failure that the endpoint did not see, or
\* that made the call late: with the entry FinalEntry gives it, all is well.
LEMMA FailureStep ==
  ASSUME IInv, NEW c \in Call, call[c].pc \in {"verify", "attempt", "sleep"},
         NEW rec \in CallRec, rec.outcome = "none", rec.gone = call[c].gone,
         NEW logs \in BOOLEAN, NEW f, f = AfterFailure(rec, "unreachable", logs),
         rec.late \/ (call[c].pc # "attempt" /\ rec.late = call[c].late),
         call' = [call EXCEPT ![c] = f],
         NEW allowed \in SUBSET {Entry(c, "allowed")},
         call[c].pc = "verify" => Entry(c, "allowed") \in allowed,
         log' = log \cup (allowed \cup FinalEntry(c, f)),
         UNCHANGED <<revoked, down, running, performed, turn>>
  PROVE  IInv'
<1>1. /\ f \in CallRec /\ f.attempt = rec.attempt /\ f.late = rec.late
      /\ f.cause = "unreachable"
      /\ \/ /\ f.pc = "sleep" /\ f.outcome = "none" /\ f.gone = rec.gone
            /\ f.attempt < MaxAttempts
         \/ f.pc = "done" /\ f.outcome = "unreachable" /\ f.gone = rec.gone
         \/ f.pc = "done" /\ f.outcome = "error" /\ f.gone
  BY AfterFailureEffect
<1>2. /\ call'[c] = f /\ Good(c) /\ call[c].outcome = "none"
      /\ Entry(c, "allowed")' = Entry(c, "allowed")
  BY DEF IInv, TypeOK, Good, Stage, Entry
<1>3. /\ \A e \in allowed : e \in EntryRec /\ e.call = c /\ e.what = "allowed"
      /\ \A e \in FinalEntry(c, f) :
            e \in EntryRec /\ e.call = c /\ e.what = "unreachable" /\ f.pc = "done"
      /\ f.pc = "done" => FinalEntry(c, f) = {Entry(c, "unreachable")}
  BY <1>1, EntryEffect DEF FinalEntry
<1>4. Stage(c)'
  BY <1>1, <1>2 DEF Stage
<1>5. Attempts(c)'
  BY <1>1, <1>2 DEF Good, Attempts
<1>6. Trail(c)'
  <2>1. Entry(c, "allowed") \in log'
    BY <1>2 DEF Good, Trail
  <2>2. ASSUME NEW e \in log', e.call = c, e.what \in Results
        PROVE  f.outcome = e.what \/ f.gone
    <3>1. CASE e \in log
      BY <1>1, <1>2, <2>2, <3>1 DEF Good, Trail, Results
    <3>2. CASE e \in FinalEntry(c, f)
      BY <1>1, <1>3, <3>2
    <3>3. e \notin allowed
      BY <1>3, <2>2 DEF Results
    <3>. QED BY <3>1, <3>2, <3>3
  <2>3. ASSUME f.outcome \in Results
        PROVE  /\ f.outcome = "unreachable" /\ Entry(c, "unreachable") \in log'
               /\ Entry(c, "unreachable").call = c
               /\ Entry(c, "unreachable").what = "unreachable"
    BY <1>1, <1>3, <2>3, EntryEffect DEF Results
  <2>. QED BY <1>2, <2>1, <2>2, <2>3 DEF Trail
<1>7. Good(c)'
  BY <1>4, <1>5, <1>6 DEF Good
<1>8. \A e \in allowed \cup FinalEntry(c, f) : e \in EntryRec /\ e.call = c
  BY <1>3
<1>. QED BY <1>1, <1>7, <1>8, OneCall DEF IInv, TypeOK

\* An attempt is made: refused at once, or in the endpoint's hands.
LEMMA AttemptStep ==
  ASSUME IInv, NEW c \in Call, call[c].pc \in {"verify", "sleep"}, NEW logs \in BOOLEAN,
         Attempt(c, call[c], logs), UNCHANGED <<revoked, down, performed, turn>>
  PROVE  IInv'
<1>. DEFINE next    == [call[c] EXCEPT !.attempt = @ + 1, !.pc = "attempt"]
            failed  == AfterFailure(next, "unreachable", logs)
            allowed == IF call[c].pc = "verify" THEN {Entry(c, "allowed")} ELSE {}
<1>1. /\ call[c] \in CallRec /\ Good(c) /\ call[c].outcome = "none"
      /\ call[c].attempt \in Nat /\ call[c].attempt < MaxAttempts /\ MaxAttempts \in Nat
  BY AccessAssumption DEF IInv, TypeOK, CallRec, Good, Stage
<1>2. call[c].attempt + 1 \in 1..MaxAttempts
  BY <1>1
<1>3. /\ next \in CallRec /\ next.pc = "attempt" /\ next.outcome = "none"
      /\ next.attempt = call[c].attempt + 1
      /\ next.late = call[c].late /\ next.gone = call[c].gone
  <2>1. next = [call[c] EXCEPT !.attempt = call[c].attempt + 1, !.pc = "attempt"]
    OBVIOUS
  <2>2. call[c].attempt + 1 \in 0..MaxAttempts
    BY <1>2
  <2>. HIDE DEF next
  <2>. QED BY <1>1, <2>1, <2>2 DEF CallRec
<1>4. /\ allowed \in SUBSET {Entry(c, "allowed")}
      /\ call[c].pc = "verify" => Entry(c, "allowed") \in allowed
      /\ \A e \in allowed : e \in EntryRec /\ e.call = c /\ e.what = "allowed"
  BY EntryEffect
<1>5. CASE call[c].system \in down
  <2>1. /\ call' = [call EXCEPT ![c] = failed]
        /\ log' = log \cup (allowed \cup FinalEntry(c, failed))
        /\ UNCHANGED running
    BY <1>5 DEF Attempt, Record
  <2>. HIDE DEF next, allowed
  <2>. QED BY <1>3, <1>4, <2>1, FailureStep
<1>6. CASE call[c].system \notin down
  <2>1. /\ call' = [call EXCEPT ![c] = next] /\ log' = log \cup allowed
        /\ running' = running \cup {<<c, next.attempt>>}
    BY <1>6 DEF Attempt, Record
  <2>. HIDE DEF next, failed, allowed
  <2>2. /\ call'[c] = next /\ Entry(c, "allowed")' = Entry(c, "allowed")
    BY <2>1 DEF IInv, TypeOK, Entry
  <2>3. Stage(c)'
    BY <1>3, <2>2 DEF Stage
  <2>4. Attempts(c)'
    <3>1. CASE next.late \/ next.gone
      BY <2>2, <3>1 DEF Attempts
    <3>2. CASE ~next.late /\ ~next.gone
      <4>1. \A n \in 1..MaxAttempts : <<c, n>> \notin running /\ <<c, n>> \notin performed
        BY <1>1, <1>3, <3>2 DEF Good, Attempts
      <4>. QED BY <1>3, <2>1, <2>2, <4>1 DEF Attempts
    <3>. QED BY <3>1, <3>2
  <2>5. Trail(c)'
    <3>1. Entry(c, "allowed") \in log'
      BY <1>1, <1>4, <2>1 DEF Good, Trail
    <3>2. \A e \in log' : e.call = c /\ e.what \in Results => next.gone
      BY <1>1, <1>3, <1>4, <2>1 DEF Good, Trail, Results
    <3>. QED BY <1>3, <2>2, <3>1, <3>2 DEF Trail, Results
  <2>6. Good(c)'
    BY <2>3, <2>4, <2>5 DEF Good
  <2>7. running' \subseteq Call \X (1..MaxAttempts)
    BY <1>2, <1>3, <2>1 DEF IInv, TypeOK
  <2>. QED BY <1>3, <1>4, <2>1, <2>6, <2>7, OneCall DEF IInv, TypeOK
<1>. QED BY <1>5, <1>6

\* An attempt times out.
LEMMA TimeOutStep ==
  ASSUME IInv, NEW c \in Call, NEW logs \in BOOLEAN, TimeOut(c, logs)
  PROVE  IInv'
<1>. DEFINE rec == [call[c] EXCEPT !.late = TRUE]
            f   == AfterFailure(rec, "unreachable", logs)
<1>1. /\ call[c].pc = "attempt" /\ call' = [call EXCEPT ![c] = f]
      /\ log' = log \cup FinalEntry(c, f)
      /\ UNCHANGED <<revoked, down, running, performed, turn>>
  BY DEF TimeOut, GivesUp, Record
<1>2. call[c] \in CallRec /\ call[c].outcome = "none"
  BY <1>1 DEF IInv, TypeOK, Good, Stage
<1>3. /\ rec \in CallRec /\ rec.late /\ rec.outcome = "none" /\ rec.gone = call[c].gone
  BY <1>2 DEF CallRec
<1>4. log' = log \cup ({} \cup FinalEntry(c, f)) /\ {} \in SUBSET {Entry(c, "allowed")}
  BY <1>1
<1>. HIDE DEF rec
<1>. QED BY <1>1, <1>3, <1>4, FailureStep

\* The endpoint answers the attempt that is awaited.
LEMMA AnswerStep ==
  ASSUME IInv, NEW c \in Call, NEW n \in 1..MaxAttempts, NEW logs \in BOOLEAN,
         Answer(c, n, logs)
  PROVE  IInv'
<1>. DEFINE lost == [call[c] EXCEPT !.gone = TRUE]
            rec  == IF logs THEN Ended(call[c], "success")
                    ELSE AfterFailure(lost, "log", logs)
<1>1. /\ call[c].pc = "attempt" /\ call[c].attempt = n
      /\ call' = [call EXCEPT ![c] = rec] /\ log' = log \cup {Entry(c, "success")}
      /\ running' = running \ {<<c, n>>} /\ performed' = performed \cup {<<c, n>>}
      /\ UNCHANGED <<revoked, down, turn>>
  BY DEF Answer, Awaited, Performs, Record
<1>2. /\ call[c] \in CallRec /\ Good(c) /\ call[c].outcome = "none"
  BY <1>1 DEF IInv, TypeOK, Good, Stage
<1>3. lost \in CallRec /\ lost.gone /\ lost.outcome = "none"
  BY <1>2 DEF CallRec
<1>4. /\ rec \in CallRec
      /\ \/ /\ rec.pc = "done" /\ rec.outcome = "success" /\ rec.attempt = n
            /\ rec.late = call[c].late /\ rec.gone = call[c].gone
         \/ /\ rec.gone /\ rec.pc \in {"sleep", "done"}
            /\ rec.pc = "sleep" => rec.attempt < MaxAttempts /\ rec.outcome = "none"
            /\ rec.outcome \in {"none", "error"}
  <2>1. CASE logs
    BY <1>1, <1>2, <2>1, EndedEffect
  <2>2. CASE ~logs
    <3>1. rec = AfterFailure(lost, "log", logs)
      BY <2>2
    <3>. HIDE DEF lost, rec
    <3>. QED BY <1>3, <3>1, AfterFailureEffect
  <2>. QED BY <2>1, <2>2
<1>. HIDE DEF lost, rec
<1>5. call'[c] = rec /\ Entry(c, "allowed")' = Entry(c, "allowed")
  BY <1>1 DEF IInv, TypeOK, Entry
<1>6. Stage(c)'
  BY <1>4, <1>5 DEF Stage
<1>7. Attempts(c)'
  <2>1. CASE rec.late \/ rec.gone
    BY <1>5, <2>1 DEF Attempts
  <2>2. CASE ~rec.late /\ ~rec.gone
    <3>1. /\ \A m \in 1..MaxAttempts : <<c, m>> \in running => m = n
          /\ \A m \in 1..MaxAttempts : <<c, m>> \notin performed
      BY <1>1, <1>2, <1>4, <2>2 DEF Good, Attempts
    <3>2. \A m \in 1..MaxAttempts : /\ <<c, m>> \notin running'
                                    /\ <<c, m>> \in performed' => m = n
      BY <1>1, <3>1
    <3>. QED BY <1>4, <1>5, <2>2, <3>2 DEF Attempts
  <2>. QED BY <2>1, <2>2
<1>8. Trail(c)'
  <2>1. Entry(c, "allowed") \in log' /\ Entry(c, "success") \in log'
    BY <1>1, <1>2 DEF Good, Trail
  <2>2. Entry(c, "success").call = c /\ Entry(c, "success").what = "success"
    BY EntryEffect
  <2>3. ASSUME NEW e \in log', e.call = c, e.what \in Results
        PROVE  rec.outcome = e.what \/ rec.gone
    <3>1. CASE e \in log
      BY <1>2, <1>4, <2>3, <3>1 DEF Good, Trail, Results
    <3>2. CASE e = Entry(c, "success")
      BY <1>4, <2>2, <3>2
    <3>. QED BY <1>1, <3>1, <3>2
  <2>4. rec.outcome \in Results => rec.outcome = "success"
    BY <1>4 DEF Results
  <2>. QED BY <1>5, <2>1, <2>2, <2>3, <2>4, <1>4 DEF Trail, Results
<1>9. Good(c)'
  BY <1>6, <1>7, <1>8 DEF Good
<1>10. log \subseteq log' /\ \A e \in log' : e \in log \/ (e \in EntryRec /\ e.call = c)
  BY <1>1, EntryEffect
<1>11. /\ running' \subseteq Call \X (1..MaxAttempts)
       /\ performed' \subseteq Call \X (1..MaxAttempts)
       /\ \A d \in Call : \A m \in 1..MaxAttempts : d # c =>
             /\ <<d, m>> \in running' => <<d, m>> \in running
             /\ <<d, m>> \in performed' => <<d, m>> \in performed
  BY <1>1 DEF IInv, TypeOK
<1>. QED BY <1>1, <1>4, <1>9, <1>10, <1>11, OneCall

\* It answers one that was given up: the call was late then.
LEMMA AnswerDroppedStep ==
  ASSUME IInv, NEW c \in Call, NEW n \in 1..MaxAttempts, AnswerDropped(c, n)
  PROVE  IInv'
<1>1. /\ <<c, n>> \in running /\ ~Awaited(c, n)
      /\ running' = running \ {<<c, n>>} /\ performed' = performed \cup {<<c, n>>}
      /\ UNCHANGED <<revoked, down, call, log, turn>>
  BY DEF AnswerDropped, Performs
<1>2. Good(c) /\ (call[c].late \/ call[c].gone)
  BY <1>1 DEF IInv, Good, Attempts, Awaited
<1>3. Entry(c, "allowed")' = Entry(c, "allowed")
  BY DEF Entry
<1>4. Good(c)'
  BY <1>1, <1>2, <1>3 DEF Good, Stage, Attempts, Trail
<1>5. /\ call[c] \in CallRec /\ call' = [call EXCEPT ![c] = call[c]]
  BY <1>1 DEF IInv, TypeOK
<1>. QED BY <1>1, <1>4, <1>5, OneCall DEF IInv, TypeOK

-----------------------------------------------------------------------------
(* The theorems.                                                           *)

\* The invariant holds in the initial state.
LEMMA InitInv == Init => IInv
<1>. SUFFICES ASSUME Init PROVE IInv
  OBVIOUS
<1>1. TypeOK
  BY IdleEffect DEF Init, TypeOK
<1>2. \A c \in Call : call[c] = Idle /\ Idle.pc = "idle"
  BY DEF Init, Idle
<1>3. \A c \in Call : Good(c)
  BY <1>2, IdleEffect DEF Init, Good, Stage, Attempts, Trail, Results
<1>. QED BY <1>1, <1>3 DEF IInv

\* Every step keeps the inductive invariant.
LEMMA InvStep == IInv /\ [Next]_vars => IInv'
<1>. SUFFICES ASSUME IInv, [Next]_vars PROVE IInv'
  OBVIOUS
<1>1. ASSUME NEW c \in Call, Decided(c) PROVE IInv'
  <2>1. ASSUME NEW logs \in BOOLEAN, AccessBegins(c, logs) PROVE IInv'
    BY <2>1, AttemptStep DEF AccessBegins
  <2>. QED BY <1>1, <2>1, DeniedStep, DataRefusedStep, ReadDataStep DEF Decided
<1>2. ASSUME NEW c \in Call, TimerFires(c) PROVE IInv'
  <2>1. ASSUME NEW logs \in BOOLEAN, Retry(c, logs) PROVE IInv'
    BY <2>1, AttemptStep DEF Retry
  <2>. QED BY <1>2, <2>1, TimeOutStep DEF TimerFires
<1>3. ASSUME NEW c \in Call, EndpointAnswers(c) PROVE IInv'
  BY <1>3, AnswerStep, AnswerDroppedStep DEF EndpointAnswers
<1>4. ASSUME UNCHANGED <<call, running, performed, log>>, TypeOK' PROVE IInv'
  <2>1. ASSUME NEW d \in Call PROVE Good(d)'
    <3>1. Good(d)
      BY DEF IInv
    <3>. QED BY <1>4, <3>1, OtherCall
  <2>. QED BY <1>4, <2>1 DEF IInv
<1>5. ASSUME NEW t \in Tok, Revoke(t) PROVE IInv'
  <2>1. TypeOK'
    BY <1>5 DEF Revoke, IInv, TypeOK
  <2>. QED BY <1>4, <1>5, <2>1 DEF Revoke
<1>6. ASSUME NEW s \in System, NEW isDown \in BOOLEAN, SetDown(s, isDown) PROVE IInv'
  <2>1. TypeOK'
    BY <1>6 DEF SetDown, IInv, TypeOK
  <2>. QED BY <1>4, <1>6, <2>1 DEF SetDown
<1>7. CASE UNCHANGED vars
  BY <1>4, <1>7 DEF vars, IInv, TypeOK
<1>. QED BY <1>1, <1>2, <1>3, <1>5, <1>6, <1>7, BeginStep DEF Next

\* The inductive invariant holds in every reachable state.
THEOREM Invariance == Spec => []IInv
  BY InitInv, InvStep, PTL DEF Spec

\* Both routes keep the types.
THEOREM TypeCorrect == Spec => []TypeOK
<1>1. IInv => TypeOK
  BY DEF IInv
<1>. QED BY <1>1, Invariance, PTL

\* With any number of attempts, the endpoint carries an access out twice, or
\* one that is answered as unreachable, only when an attempt was late or the
\* log refused its success.
THEOREM RetriesRepeatNothing == Spec => []RepeatedOnlyWhenLate
<1>1. IInv => RepeatedOnlyWhenLate
  <2>. SUFFICES ASSUME IInv, NEW c \in Call, ~call[c].late, ~call[c].gone,
                       NEW done, done = {n \in 1..MaxAttempts : <<c, n>> \in performed}
                PROVE  /\ ~(Cardinality(done) > 1)
                       /\ done # {} => call[c].outcome # "unreachable"
    BY DEF RepeatedOnlyWhenLate
  <2>1. \A n \in done : n = call[c].attempt /\ call[c].outcome = "success"
    BY DEF IInv, Good, Attempts
  <2>2. done \subseteq {call[c].attempt}
    BY <2>1
  <2>3. IsFiniteSet({call[c].attempt}) /\ Cardinality({call[c].attempt}) = 1
    BY FS_Singleton
  <2>4. IsFiniteSet(done) /\ Cardinality(done) <= Cardinality({call[c].attempt})
    BY <2>2, <2>3, FS_Subset
  <2>5. Cardinality(done) \in Nat
    BY <2>4, FS_CardinalityType
  <2>6. ~(Cardinality(done) > 1)
    BY <2>3, <2>4, <2>5
  <2>. QED BY <2>1, <2>6
<1>. QED BY <1>1, Invariance, PTL

\* Whatever attempts that were given up come to later, the log and the caller
\* are told the same result, masks included, unless the log threw.
THEOREM AnswersAreLogged == Spec => []TrailMatchesAnswer
<1>1. IInv => TrailMatchesAnswer
  <2>. SUFFICES ASSUME IInv, NEW c \in Call
                PROVE  /\ \A what \in Results :
                            /\ call[c].outcome = what =>
                                  Entries(c, what) # {} /\ Entries(c, "allowed") # {}
                            /\ Entries(c, what) # {} => call[c].outcome = what \/ call[c].gone
                       /\ call[c].outcome = "data" =>
                            \E e \in Entries(c, "data") :
                              /\ e.masked = call[c].masked
                              /\ \A f \in Field \cap DOMAIN RequiredScope :
                                  f \notin e.masked => RequiredScope[f] \in Scope[call[c].tok]
    BY DEF TrailMatchesAnswer, Results
  <2>1. Trail(c)
    BY DEF IInv, Good
  <2>2. Entry(c, "allowed").call = c /\ Entry(c, "allowed").what = "allowed"
    BY EntryEffect
  <2>. QED BY <2>1, <2>2 DEF Trail, Entries, Results
<1>. QED BY <1>1, Invariance, PTL
=============================================================================
