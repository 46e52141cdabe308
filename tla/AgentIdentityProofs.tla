------------------------- MODULE AgentIdentityProofs -------------------------
(***************************************************************************)
(* Proofs about AgentIdentity, for any sets of ids, agent names and        *)
(* requests.  Neither invariant is inductive: a registration checks that   *)
(* its agent is new, waits for scrypt, and saves without looking again,    *)
(* and what a restart finds is whatever the file kept.  Hashing says what  *)
(* a registration may still rely on after its wait; Backed says that the   *)
(* file never gives back anything but what the store held.                 *)
(***************************************************************************)
EXTENDS AgentIdentity, SequenceTheorems, TLAPS

CallRec == [pc : {"idle", "hash", "verify", "done"}, id : Id \cup {None},
            subject : Subject \cup {None}, begun : Nat,
            outcome : {"none", "duplicate", "registered", "error", "refused",
                       "authenticated"}]

LineRec == [id : Id, identity : Identity]

FileType == file.lines \in Seq(Seq(LineRec)) /\ (file.torn => file.lines # <<>>)

Types == /\ TypeOK /\ FileType /\ call \in [Call -> CallRec]
         /\ \A i \in Id : store[i].begun <= turn

\* Identities of the agent that is being registered are newer than the call.
Hashing ==
    \A c \in Call : call[c].pc = "hash" =>
        /\ call[c].begun <= turn /\ call[c].subject \in Subject
        /\ \A j \in Id : store[j].subject = call[c].subject => call[c].begun <= store[j].saved

Backed == \A l \in EntriesOf(file) : Known(l.id) /\ store[l.id] = l.identity

HeldWasLogged == held \subseteq logged

IInv == /\ Types /\ Hashing /\ Backed /\ HeldWasLogged
        /\ DuplicatesOverlap /\ AuthenticatedWasLogged

-----------------------------------------------------------------------------
(* The file.                                                               *)

\* What is appended to, or taken from the end of, a sequence.
LEMMA EndOfSeq ==
  ASSUME NEW S, NEW s \in Seq(S)
  PROVE  /\ \A x \in S : /\ Append(s, x) \in Seq(S) /\ Append(s, x) # <<>>
                         /\ ToSet(Append(s, x)) \subseteq ToSet(s) \cup {x}
         /\ s # <<>> => Front(s) \in Seq(S) /\ ToSet(Front(s)) \subseteq ToSet(s)
<1>1. PICK k \in Nat : k = Len(s) /\ DOMAIN s = 1..k /\ \A i \in 1..k : s[i] \in S
  BY LenProperties, ElementOfSeq
<1>2. ASSUME NEW x \in S
      PROVE  /\ Append(s, x) \in Seq(S) /\ Append(s, x) # <<>>
             /\ ToSet(Append(s, x)) \subseteq ToSet(s) \cup {x}
  <2>1. PICK t : t = Append(s, x)
    OBVIOUS
  <2>2. /\ t \in Seq(S) /\ t # <<>> /\ Len(t) = k + 1 /\ t[k + 1] = x
        /\ \A i \in 1..k : t[i] = s[i]
    BY <1>1, <2>1, AppendProperties
  <2>3. DOMAIN t = 1..(k + 1)
    BY <2>2, LenProperties
  <2>4. \A i \in 1..(k + 1) : i \in 1..k \/ i = k + 1
    BY <1>1
  <2>5. ToSet(t) \subseteq ToSet(s) \cup {x}
    BY <1>1, <2>2, <2>3, <2>4 DEF ToSet
  <2>. QED BY <2>1, <2>2, <2>5
<1>3. ASSUME s # <<>> PROVE Front(s) \in Seq(S) /\ ToSet(Front(s)) \subseteq ToSet(s)
  <2>1. PICK u : u = SubSeq(s, 1, k - 1)
    OBVIOUS
  <2>2. k # 0
    BY <1>1, <1>3, EmptySeq
  <2>3. \A i \in 1..(k - 1) : i \in 1..k
    BY <1>1
  <2>4. /\ u \in Seq(S) /\ Len(u) = IF 1 <= k - 1 THEN k - 1 - 1 + 1 ELSE 0
        /\ \A i \in 1..(k - 1 - 1 + 1) : u[i] = s[1 + i - 1]
    BY <1>1, <2>1, <2>3, SubSeqProperties
  <2>5. Len(u) = k - 1 /\ \A i \in 1..(k - 1) : u[i] = s[i]
    BY <2>2, <2>4
  <2>6. DOMAIN u = 1..(k - 1)
    BY <2>4, <2>5, LenProperties
  <2>7. ToSet(u) \subseteq ToSet(s)
    BY <1>1, <2>3, <2>5, <2>6 DEF ToSet
  <2>. QED BY <1>1, <2>1, <2>4, <2>7 DEF Front
<1>. QED BY <1>2, <1>3

\* A line more adds its entries to what the file gives back.
LEMMA LineAdded ==
  ASSUME NEW s \in Seq(Seq(LineRec)), NEW x \in Seq(LineRec), NEW e, ToSet(x) \subseteq {e},
         NEW f, f.lines \in Seq(Seq(LineRec)), ToSet(s) \subseteq ToSet(f.lines),
         NEW g, g.lines = Append(s, x)
  PROVE  /\ g.lines \in Seq(Seq(LineRec)) /\ g.lines # <<>>
         /\ EntriesOf(g) \subseteq EntriesOf(f) \cup {e}
<1>1. ToSet(g.lines) \subseteq ToSet(f.lines) \cup {x}
  BY EndOfSeq
<1>2. EntriesOf(g) \subseteq EntriesOf(f) \cup ToSet(x)
  BY <1>1 DEF EntriesOf
<1>3. g.lines \in Seq(Seq(LineRec)) /\ g.lines # <<>>
  BY EndOfSeq
<1>. QED BY <1>2, <1>3

\* However an append ends, the file has no entry but those it had and the one
\* appended.
LEMMA FileStep ==
  ASSUME FileType, NEW e \in LineRec,
         file' \in PartlyAppended(file, e) \cup {AppendLine(file, e)}
  PROVE  FileType' /\ EntriesOf(file') \subseteq EntriesOf(file) \cup {e}
<1>1. PICK f : f = file
  OBVIOUS
<1>2. PICK g : g = file'
  OBVIOUS
<1>3. f.lines \in Seq(Seq(LineRec)) /\ (f.torn => f.lines # <<>>)
  BY <1>1 DEF FileType
<1>4. /\ <<>> \in Seq(LineRec) /\ ToSet(<<>>) \subseteq {e}
      /\ <<e>> \in Seq(LineRec) /\ ToSet(<<e>>) \subseteq {e}
  BY DEF ToSet
<1>5. CASE g = f
  BY <1>1, <1>2, <1>3, <1>5 DEF FileType
<1>6. CASE g # f
  <2>1. \E s \in Seq(Seq(LineRec)), x \in {<<>>, <<e>>} :
           g.lines = Append(s, x) /\ ToSet(s) \subseteq ToSet(f.lines)
    <3>1. CASE f.torn
      <4>1. Front(f.lines) \in Seq(Seq(LineRec)) /\ ToSet(Front(f.lines)) \subseteq ToSet(f.lines)
        BY <1>3, <3>1, EndOfSeq
      <4>2. g.lines = Append(Front(f.lines), <<>>)
        BY <1>1, <1>2, <1>6, <3>1 DEF PartlyAppended, AppendLine
      <4>. QED BY <4>1, <4>2
    <3>2. CASE ~f.torn
      <4>1. \E x \in {<<>>, <<e>>} : g.lines = Append(f.lines, x)
        BY <1>1, <1>2, <1>6, <3>2 DEF PartlyAppended, AppendLine
      <4>. QED BY <1>3, <4>1
    <3>. QED BY <3>1, <3>2
  <2>2. PICK s \in Seq(Seq(LineRec)), x \in {<<>>, <<e>>} :
           g.lines = Append(s, x) /\ ToSet(s) \subseteq ToSet(f.lines)
    BY <2>1
  <2>3. x \in Seq(LineRec) /\ ToSet(x) \subseteq {e}
    BY <1>4
  <2>4. /\ g.lines \in Seq(Seq(LineRec)) /\ g.lines # <<>>
        /\ EntriesOf(g) \subseteq EntriesOf(f) \cup {e}
    BY <1>3, <2>2, <2>3, LineAdded
  <2>. QED BY <1>1, <1>2, <2>4 DEF FileType
<1>. QED BY <1>5, <1>6

-----------------------------------------------------------------------------
(* The initial states and the steps.                                       *)

\* It holds before anyone registered.
LEMMA InitInv == Init => IInv
<1>. SUFFICES ASSUME Init PROVE IInv
  OBVIOUS
<1>1. NoFile.lines = <<>> /\ NoFile.torn = FALSE
  BY DEF NoFile
<1>2. <<>> \in Seq(Seq(LineRec)) /\ ToSet(<<>>) = {}
  BY DEF ToSet
<1>3. EntriesOf(NoFile) = {}
  BY <1>1, <1>2 DEF EntriesOf
<1>4. Nobody \in Identity /\ Idle \in CallRec /\ Nobody.begun = 0
      /\ Idle.pc = "idle" /\ Idle.id = None /\ Idle.subject = None /\ Idle.outcome = "none"
  BY MaxTurnAssumption DEF Nobody, Identity, Idle, CallRec
<1>5. TypeOK
  BY <1>3, <1>4, MaxTurnAssumption DEF Init, TypeOK
<1>6. Types
  BY <1>1, <1>2, <1>4, <1>5 DEF Types, FileType, Init
<1>7. Hashing /\ Backed /\ HeldWasLogged
  BY <1>3, <1>4 DEF Init, Hashing, Backed, HeldWasLogged
<1>8. DuplicatesOverlap /\ AuthenticatedWasLogged
  BY <1>4 DEF Init, DuplicatesOverlap, AuthenticatedWasLogged, Twins, Known
<1>. QED BY <1>6, <1>7, <1>8 DEF IInv

\* A step of one call that saves nothing.
LEMMA CallStep ==
  ASSUME IInv, NEW c \in Call, NEW new \in CallRec, call' = [call EXCEPT ![c] = new],
         UNCHANGED <<store, file, logged, held, turn>>,
         new.pc = "hash" => /\ new.begun <= turn /\ new.subject \in Subject
                            /\ \A j \in Id : store[j].subject # new.subject,
         new.outcome = "authenticated" => new.id \in logged
  PROVE  IInv'
<1>1. call \in [Call -> CallRec] /\ call' \in [Call -> CallRec] /\ call'[c] = new
      /\ \A d \in Call : d # c => call'[d] = call[d]
  BY DEF IInv, Types
<1>2. TypeOK' /\ FileType'
  BY <1>1 DEF IInv, Types, TypeOK, FileType, CallRec
<1>3. Types'
  BY <1>1, <1>2 DEF IInv, Types
<1>4. Hashing'
  BY <1>1 DEF IInv, Hashing
<1>5. Backed' /\ HeldWasLogged' /\ DuplicatesOverlap'
  BY DEF IInv, Backed, HeldWasLogged, DuplicatesOverlap, Twins, Known
<1>6. AuthenticatedWasLogged'
  BY <1>1 DEF IInv, AuthenticatedWasLogged
<1>. QED BY <1>3, <1>4, <1>5, <1>6 DEF IInv

\* A registration finds its agent new, or ends.
LEMMA RegisterBeginStep ==
  ASSUME IInv, NEW c \in Call, NEW s \in Subject, RegisterBegin(c, s) PROVE IInv'
<1>1. turn \in Nat
  BY MaxTurnAssumption DEF IInv, Types, TypeOK
<1>2. CASE Taken(s)
  <2>1. PICK new : new = [Idle EXCEPT !.pc = "done", !.outcome = "duplicate"]
    OBVIOUS
  <2>2. new \in CallRec /\ new.pc = "done" /\ new.outcome = "duplicate"
    BY <2>1 DEF Idle, CallRec
  <2>. QED BY <1>2, <2>1, <2>2, CallStep DEF RegisterBegin
<1>3. CASE ~Taken(s)
  <2>1. PICK new : new = [Idle EXCEPT !.pc = "hash", !.subject = s, !.begun = turn]
    OBVIOUS
  <2>2. /\ new \in CallRec /\ new.pc = "hash" /\ new.outcome = "none"
        /\ new.begun = turn /\ new.subject = s
    BY <1>1, <2>1 DEF Idle, CallRec
  <2>3. turn <= turn /\ \A j \in Id : store[j].subject # s
    BY <1>1, <1>3 DEF Taken
  <2>. QED BY <1>3, <2>1, <2>2, <2>3, CallStep DEF RegisterBegin
<1>. QED BY <1>2, <1>3

\* A registration ends with the identity in the store, whatever the file and
\* the log have got of it.
LEMMA SavedStep ==
  ASSUME IInv, NEW c \in Call, NEW i \in Id, Set(c, i),
         file' \in PartlyAppended(file, Line(c, i)) \cup {AppendLine(file, Line(c, i))},
         NEW outcome \in {"registered", "error"}, Finish(c, outcome),
         logged \subseteq logged', logged' \subseteq logged \cup {i},
         held' \subseteq held \cup {i}, held' \subseteq logged'
  PROVE  IInv'
<1>1. PICK new : new = Registered(c)
  OBVIOUS
<1>2. /\ turn \in 0..MaxTurn /\ turn \in Nat /\ turn' = turn + 1 /\ turn' \in 0..MaxTurn
      /\ call \in [Call -> CallRec] /\ store \in [Id -> Identity] /\ call[c].pc = "hash"
      /\ call[c].begun \in Nat /\ call[c].begun <= turn /\ call[c].subject \in Subject
      /\ \A j \in Id : store[j].subject = call[c].subject => call[c].begun <= store[j].saved
  BY MaxTurnAssumption DEF IInv, Types, TypeOK, Set, Hashing, CallRec
<1>3. /\ new.subject = call[c].subject /\ new.begun = call[c].begun /\ new.saved = turn
      /\ new \in Identity /\ new # Nobody
  <2>1. call[c].begun \in 0..MaxTurn
    BY <1>2, MaxTurnAssumption
  <2>2. /\ new.subject = call[c].subject /\ new.begun = call[c].begun /\ new.saved = turn
        /\ new \in Identity
    BY <1>1, <1>2, <2>1 DEF Registered, Identity
  <2>3. new.subject # None /\ Nobody.subject = None
    BY <1>2, <2>2, NoneAssumption DEF Nobody
  <2>. QED BY <2>2, <2>3
<1>4. store' = [store EXCEPT ![i] = new] /\ ~Known(i)
  BY <1>1 DEF Set
<1>5. store'[i] = new /\ \A j \in Id : j # i => store'[j] = store[j]
  BY <1>2, <1>4
<1>6. /\ call' \in [Call -> CallRec] /\ call'[c].pc = "done" /\ call'[c].outcome = outcome
      /\ \A d \in Call : d # c => call'[d] = call[d]
  <2>1. call[c] \in CallRec
    BY <1>2
  <2>2. [call[c] EXCEPT !.pc = "done", !.outcome = outcome] \in CallRec
    BY <2>1 DEF CallRec
  <2>3. call' = [call EXCEPT ![c] = [call[c] EXCEPT !.pc = "done", !.outcome = outcome]]
    BY <1>2 DEF Finish
  <2>4. call'[c] = [call[c] EXCEPT !.pc = "done", !.outcome = outcome]
    BY <1>2, <2>3
  <2>5. call'[c].pc = "done" /\ call'[c].outcome = outcome
    BY <2>1, <2>4 DEF CallRec
  <2>. QED BY <1>2, <2>2, <2>3, <2>5
<1>7. PICK e : e = Line(c, i) /\ e.id = i /\ e.identity = new /\ e \in LineRec
  BY <1>1, <1>3 DEF Line, LineRec
<1>8. FileType' /\ EntriesOf(file') \subseteq EntriesOf(file) \cup {e}
  BY <1>7, FileStep DEF IInv, Types
<1>9. EntriesOf(file) \subseteq LineRec
  BY DEF IInv, Types, TypeOK, LineRec
<1>10. Types'
  <2>1. store' \in [Id -> Identity] /\ EntriesOf(file') \subseteq LineRec
    BY <1>2, <1>3, <1>4, <1>7, <1>8, <1>9
  <2>2. \A d \in Call :
           /\ call'[d].pc \in {"idle", "hash", "verify", "done"}
           /\ call'[d].id \in Id \cup {None}
           /\ call'[d].subject \in Subject \cup {None}
    BY <1>6 DEF CallRec
  <2>3. logged' \subseteq Id /\ held' \subseteq Id
    BY DEF IInv, Types, TypeOK
  <2>4. TypeOK'
    BY <1>2, <2>1, <2>2, <2>3 DEF TypeOK, LineRec
  <2>5. \A j \in Id : store'[j].begun <= turn'
    <3>1. \A j \in Id : store[j].begun \in Nat /\ store[j].begun <= turn
      BY <1>2 DEF IInv, Types, Identity
    <3>. QED BY <1>2, <1>3, <1>5, <3>1
  <2>. QED BY <1>6, <1>8, <2>4, <2>5 DEF Types
<1>11. Hashing'
  <2>1. ASSUME NEW d \in Call, call'[d].pc = "hash"
        PROVE  /\ call'[d].begun <= turn' /\ call'[d].subject \in Subject
               /\ \A j \in Id : store'[j].subject = call'[d].subject
                                   => call'[d].begun <= store'[j].saved
    <3>1. call'[d] = call[d] /\ call[d].pc = "hash"
      BY <1>6, <2>1
    <3>2. /\ call[d].begun \in Nat /\ call[d].begun <= turn /\ call[d].subject \in Subject
          /\ \A j \in Id : store[j].subject = call[d].subject
                              => call[d].begun <= store[j].saved
      BY <1>2, <3>1 DEF IInv, Hashing, CallRec
    <3>. QED BY <1>2, <1>3, <1>5, <3>1, <3>2
  <2>. QED BY <2>1 DEF Hashing
<1>12. Backed'
  <2>1. ASSUME NEW l \in EntriesOf(file') PROVE store'[l.id] = l.identity /\ store'[l.id] # Nobody
    <3>1. CASE l = e
      BY <1>3, <1>5, <1>7, <3>1
    <3>2. CASE l \in EntriesOf(file)
      <4>1. store[l.id] = l.identity /\ Known(l.id) /\ l.id \in Id
        BY <1>9, <3>2 DEF IInv, Backed, LineRec
      <4>2. l.id # i
        BY <1>4, <4>1
      <4>. QED BY <1>5, <4>1, <4>2 DEF Known
    <3>. QED BY <1>8, <3>1, <3>2
  <2>. QED BY <2>1 DEF Backed, Known
<1>13. DuplicatesOverlap'
  <2>1. ASSUME NEW j \in Id, NEW k \in Id, j # k, store'[j] # Nobody, store'[k] # Nobody,
               store'[j].subject = store'[k].subject
        PROVE  store'[j].begun <= store'[k].saved
    <3>1. CASE j = i
      BY <1>2, <1>3, <1>5, <2>1, <3>1
    <3>2. CASE k = i
      BY <1>3, <1>5, <2>1, <3>2 DEF IInv, Types
    <3>3. CASE j # i /\ k # i
      BY <1>5, <2>1, <3>3 DEF IInv, DuplicatesOverlap, Twins, Known
    <3>. QED BY <3>1, <3>2, <3>3
  <2>. QED BY <2>1 DEF DuplicatesOverlap, Twins, Known
<1>14. HeldWasLogged' /\ AuthenticatedWasLogged'
  BY <1>6 DEF IInv, HeldWasLogged, AuthenticatedWasLogged
<1>. QED BY <1>10, <1>11, <1>12, <1>13, <1>14 DEF IInv

\* The save, the append and the entry of the log are done.
LEMMA RegisterEndStep ==
  ASSUME IInv, NEW c \in Call, NEW i \in Id, RegisterEnd(c, i) PROVE IInv'
<1>1. /\ Set(c, i) /\ file' = AppendLine(file, Line(c, i)) /\ Finish(c, "registered")
      /\ logged' = logged \cup {i} /\ held' = held \cup {i} /\ held \subseteq logged
  BY DEF RegisterEnd, IInv, HeldWasLogged
<1>. QED BY <1>1, SavedStep

\* One of them fails.
LEMMA RegisterFailsStep ==
  ASSUME IInv, NEW c \in Call, NEW i \in Id, RegisterFails(c, i) PROVE IInv'
<1>1. /\ Set(c, i) /\ Finish(c, "error")
      /\ file' \in PartlyAppended(file, Line(c, i)) \cup {AppendLine(file, Line(c, i))}
      /\ logged' \in {logged, logged \cup {i}} /\ held' = held /\ held \subseteq logged
  BY DEF RegisterFails, IInv, HeldWasLogged
<1>. QED BY <1>1, SavedStep

\* An agent presents a credential.
LEMMA AuthenticateBeginStep ==
  ASSUME IInv, NEW c \in Call, NEW i \in Id, AuthenticateBegin(c, i) PROVE IInv'
<1>1. PICK new :
        new = IF ~Known(i)
              THEN [Idle EXCEPT !.pc = "done", !.outcome = "refused"]
              ELSE [Idle EXCEPT !.pc = "verify", !.id = i, !.subject = store[i].subject]
  OBVIOUS
<1>2. store[i].subject \in Subject \cup {None}
  BY DEF IInv, Types, TypeOK, Identity
<1>3. /\ new \in CallRec /\ new.pc # "hash" /\ new.outcome # "authenticated"
  BY <1>1, <1>2 DEF Idle, CallRec
<1>. QED BY <1>1, <1>3, CallStep DEF AuthenticateBegin

\* The credential is verified: whoever has it got it after the registration was
\* logged.
LEMMA AuthenticateEndStep ==
  ASSUME IInv, NEW c \in Call, NEW possessed \in BOOLEAN, AuthenticateEnd(c, possessed)
  PROVE  IInv'
<1>1. PICK outcome \in {"authenticated", "refused"} :
        Finish(c, outcome) /\ (outcome = "authenticated" => call[c].id \in held)
  BY DEF AuthenticateEnd
<1>2. PICK new : new = [call[c] EXCEPT !.pc = "done", !.outcome = outcome]
  OBVIOUS
<1>3. call \in [Call -> CallRec] /\ call[c] \in CallRec
  BY DEF IInv, Types
<1>4. call' = [call EXCEPT ![c] = new]
  BY <1>1, <1>2, <1>3 DEF Finish
<1>5. /\ new \in CallRec /\ new.pc = "done" /\ new.outcome = outcome
      /\ new.id = call[c].id
  BY <1>2, <1>3 DEF CallRec
<1>6. UNCHANGED <<store, file, logged, held, turn>> /\ held \subseteq logged
  BY DEF AuthenticateEnd, IInv, HeldWasLogged
<1>. QED BY <1>1, <1>4, <1>5, <1>6, CallStep

\* What the next process finds is what the store held, or nothing.
LEMMA RebuiltStore ==
  ASSUME IInv PROVE \A i \in Id : Rebuilt(file)[i] \in {store[i], Nobody}
<1>1. SUFFICES ASSUME NEW i \in Id PROVE Rebuilt(file)[i] \in {store[i], Nobody}
  OBVIOUS
<1>2. CASE \E l \in EntriesOf(file) : l.id = i
  <2>1. PICK l : l = (CHOOSE m \in EntriesOf(file) : m.id = i)
    OBVIOUS
  <2>2. l \in EntriesOf(file) /\ l.id = i
    BY <1>2, <2>1
  <2>3. store[i] = l.identity
    BY <2>2 DEF IInv, Backed
  <2>. QED BY <1>2, <2>1, <2>3 DEF Rebuilt
<1>3. CASE ~ \E l \in EntriesOf(file) : l.id = i
  BY <1>3 DEF Rebuilt
<1>. QED BY <1>2, <1>3

\* A restart: the calls in flight are gone.
LEMMA RestartStep == ASSUME IInv, Restart PROVE IInv'
<1>1. /\ turn \in Nat /\ turn' \in 0..MaxTurn /\ turn <= turn'
      /\ call \in [Call -> CallRec] /\ store \in [Id -> Identity]
      /\ UNCHANGED <<file, logged, held>>
      /\ store' = Rebuilt(file)
  BY MaxTurnAssumption DEF IInv, Types, TypeOK, Restart
<1>2. \A i \in Id : store'[i] = store[i] \/ store'[i] = Nobody
  BY <1>1, RebuiltStore
<1>3. /\ Nobody \in Identity /\ Nobody.begun = 0
      /\ Idle \in CallRec /\ [Idle EXCEPT !.pc = "done"] \in CallRec
      /\ [Idle EXCEPT !.pc = "done"].pc = "done"
      /\ [Idle EXCEPT !.pc = "done"].outcome = "none"
  BY MaxTurnAssumption DEF Nobody, Identity, Idle, CallRec
<1>4. \A d \in Call : /\ call'[d] \in CallRec /\ call'[d].pc = "done"
                      /\ call'[d] = call[d] \/ call'[d].outcome = "none"
  BY <1>1, <1>3 DEF Restart
<1>5. call' \in [Call -> CallRec]
  <2>1. call' = [d \in Call |-> call'[d]]
    BY DEF Restart
  <2>. QED BY <1>4, <2>1
<1>6. store' \in [Id -> Identity]
  <2>1. store' = [i \in Id |-> store'[i]]
    BY <1>1 DEF Rebuilt
  <2>. QED BY <1>1, <1>2, <1>3, <2>1
<1>7. Types'
  <2>1. TypeOK'
    BY <1>1, <1>5, <1>6 DEF IInv, Types, TypeOK, CallRec
  <2>2. \A i \in Id : store[i].begun \in Nat /\ store[i].begun <= turn
    BY <1>1 DEF IInv, Types, Identity
  <2>3. \A i \in Id : store'[i].begun <= turn'
    BY <1>1, <1>2, <1>3, <2>2
  <2>. QED BY <1>1, <1>5, <2>1, <2>3 DEF IInv, Types, FileType
<1>8. Hashing' /\ HeldWasLogged' /\ AuthenticatedWasLogged'
  BY <1>1, <1>4 DEF IInv, Hashing, HeldWasLogged, AuthenticatedWasLogged
<1>9. Backed'
  <2>1. ASSUME NEW l \in EntriesOf(file) PROVE store'[l.id] = store[l.id]
    <3>1. PICK m : m = (CHOOSE k \in EntriesOf(file) : k.id = l.id)
      OBVIOUS
    <3>2. m \in EntriesOf(file) /\ m.id = l.id
      BY <3>1
    <3>3. l.id \in Id /\ store[l.id] = m.identity
      BY <3>2 DEF IInv, Backed, Types, TypeOK
    <3>. QED BY <1>1, <3>1, <3>3 DEF Rebuilt
  <2>. QED BY <1>1, <2>1 DEF IInv, Backed, Known
<1>10. DuplicatesOverlap'
  <2>1. ASSUME NEW j \in Id, NEW k \in Id, j # k, store'[j] # Nobody, store'[k] # Nobody,
               store'[j].subject = store'[k].subject
        PROVE  store'[j].begun <= store'[k].saved
    BY <1>2, <2>1 DEF IInv, DuplicatesOverlap, Twins, Known
  <2>. QED BY <2>1 DEF DuplicatesOverlap, Twins, Known
<1>. QED BY <1>7, <1>8, <1>9, <1>10 DEF IInv

\* Every step keeps the inductive invariant.
LEMMA InvStep == IInv /\ [Next]_vars => IInv'
<1>. SUFFICES ASSUME IInv, [Next]_vars PROVE IInv'
  OBVIOUS
<1>1. CASE UNCHANGED vars
  BY <1>1 DEF IInv, Types, TypeOK, FileType, Hashing, Backed, HeldWasLogged,
              DuplicatesOverlap, AuthenticatedWasLogged, Twins, Known, vars
<1>. QED
  BY <1>1, RegisterBeginStep, RegisterEndStep, RegisterFailsStep, AuthenticateBeginStep,
     AuthenticateEndStep, RestartStep DEF Next

-----------------------------------------------------------------------------
(* The theorems.                                                           *)

\* The inductive invariant holds in every reachable state.
THEOREM Invariance == Spec => []IInv
  BY InitInv, InvStep, PTL DEF Spec

\* Types are kept by registrations, logins and restarts.
THEOREM TypeCorrect == Spec => []TypeOK
<1>1. IInv => TypeOK
  BY DEF IInv, Types
<1>. QED BY <1>1, Invariance, PTL

\* Two identities of one agent are only ever made by registrations that overlap,
\* however many there are, whichever of them fail, and whatever a restart finds
\* in the file.
THEOREM TwinsOverlap == Spec => []DuplicatesOverlap
<1>1. IInv => DuplicatesOverlap
  BY DEF IInv
<1>. QED BY <1>1, Invariance, PTL

\* Nobody is authenticated with a credential whose registration the audit log
\* does not have.
THEOREM LoginsWereLogged == Spec => []AuthenticatedWasLogged
<1>1. IInv => AuthenticatedWasLogged
  BY DEF IInv
<1>. QED BY <1>1, Invariance, PTL
=============================================================================
