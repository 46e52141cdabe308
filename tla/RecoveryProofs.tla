--------------------------- MODULE RecoveryProofs ---------------------------
(***************************************************************************)
(* Proofs about Recovery, for any number of requests and tokens and any    *)
(* number of failed appends and crashes.                                   *)
(*                                                                         *)
(* What a restart finds is in the files, so the inductive invariant states *)
(* the properties of the files (FilesAgree, Handed, Stays), and Mirror     *)
(* carries them to the Maps: a Map differs from its file by secrets and by *)
(* what was lost.  Lines says that a file holds only what a save can have  *)
(* written; Waiting, Approving and Cascading say what an operation that is *)
(* suspended, or between two saves, relies on when it goes on.             *)
(*                                                                         *)
(* First come lemmas about files: what an append, whole or not, does to    *)
(* what Replay finds of an id.  Then what one save does to the invariant,  *)
(* however it ends (Completes, Throws, Dies), and last the operations.     *)
(***************************************************************************)
EXTENDS Recovery, SequenceTheorems, WellFoundedInduction, TLAPS

\* What the files would give a new process for an id of a store.
OnDisk(s, k) == Replay(disk[s], k, Nothing[s][k])

Key(s) == IF s = "tokens" THEN Tok ELSE Req

Safe(s, k) == <<s, k>> \notin lost

\* What a save can have written about id k.
Credible(s, k, v) ==
    IF s = "tokens"
    THEN /\ k \in DOMAIN issued /\ v.status \in {"active", "revoked"}
         /\ v.parent = issued[k].parent
    ELSE /\ k \in asked /\ v.status # "absent"
         /\ v.status = "approved" =>
               v.token \in DOMAIN issued /\ issued[v.token] = [req |-> k, parent |-> None]
         /\ v.secret => v.status = "approved"

Lines ==
    \A s \in Store : \A e \in EntriesOf(disk[s]) :
        Credible(s, e.key, e.value) /\ (s = "requests" => ~e.value.secret)

\* A process has saved what it holds, or read it from a file.
Maps ==
    IF up THEN \A s \in Store : \A k \in Key(s) :
                  mem[s][k] = Nothing[s][k] \/ Credible(s, k, mem[s][k])
    ELSE /\ mem = Nothing /\ approving = None /\ path = <<>>
         /\ \A r \in Req : hashing[r] = 0
         /\ \A t \in Tok : delegating[t] = 0

\* Map and file differ by secrets and by what was lost.
Mirror ==
    up => \A s \in Store : \A k \in Key(s) :
              Safe(s, k) => OnDisk(s, k) = Persisted(mem[s][k], s)

\* The log is about requests and tokens there have been.
Logged ==
    /\ \A r \in Req : \A what \in {"submitted", "approved", "denied", "blocked"} :
          <<what, r>> \in log => r \in asked
    /\ \A t \in Tok : \A what \in {"claimed", "delegated", "revoked"} :
          <<what, t>> \in log => t \in DOMAIN issued

\* What log l says was done to a request, or to a token.
RequestAsLogged(l, r, status) ==
    /\ {<<"submitted", r>>, <<"blocked", r>>} \cap l # {} => status # "absent"
    /\ <<"approved", r>> \in l => status = "approved"
    /\ <<"denied", r>> \in l => status \in {"denied", "approved"}

TokenAsLogged(l, t, status) ==
    /\ <<"revoked", t>> \in l => status = "revoked"
    /\ <<"delegated", t>> \in l => status # "absent"

\* On disk, request r is approved with token t.
Names(r, t) == OnDisk("requests", r).status = "approved" /\ OnDisk("requests", r).token = t

\* StoresAgree, of the files.
FilesAgree ==
    /\ \A r \in Req, t \in Tok :
          Safe("requests", r) /\ Safe("tokens", t) /\ Names(r, t)
             => OnDisk("tokens", t).status # "absent"
    /\ \A r \in Req : Safe("requests", r)
                         => RequestAsLogged(log, r, OnDisk("requests", r).status)
    /\ \A t \in Tok : Safe("tokens", t) => TokenAsLogged(log, t, OnDisk("tokens", t).status)

\* A secret in a Map has not been claimed and is this process's.
Secrets ==
    \A r \in Req : mem.requests[r].secret =>
        /\ mem.requests[r].token \in fresh
        /\ <<"claimed", mem.requests[r].token>> \notin log

\* A request of one approval at a time, with its files whole.
Single(r) == r \notin overlapped /\ Safe("requests", r)

\* What an approval that waits for a hash will find.
Waits(r) ==
    /\ r \in asked /\ mem.requests[r].status # "absent"
    /\ r \notin overlapped => hashing[r] = 1 /\ approving # r
    /\ Single(r) => mem.requests[r].status # "approved"

\* The calls that wait for one.
Waiting ==
    /\ \A r \in Req : hashing[r] > 0 => Waits(r)
    /\ \A p \in Tok : delegating[p] > 0 => p \in handed

\* Token t was made for request r.
MadeFor(t, r) == issued[t] = [req |-> r, parent |-> None]

\* An approval between its saves.
Approves(r, t) ==
    /\ t = Len(issued) /\ MadeFor(t, r) /\ r \in asked
    /\ t \in fresh /\ t \notin handed /\ <<"claimed", t>> \notin log
    /\ Safe("tokens", t) => OnDisk("tokens", t).status # "absent"
    /\ Single(r) => mem.requests[r].status # "approved"

Approving ==
    approving # None => path = <<>> /\ \E t \in DOMAIN issued : Approves(approving, t)

\* The tokens a running cascade has been called for.
Cascading ==
    \A i \in DOMAIN path :
        path[i] \in DOMAIN issued /\ mem.tokens[path[i]].status # "active"

\* A claimed token is the one its request names.
Handed == \A t \in handed : \A r \in Req : MadeFor(t, r) /\ Single(r) => Names(r, t)

\* RevocationStays, of the files.
Stays == \A t \in revoked : Safe("tokens", t) => OnDisk("tokens", t).status # "active"

IInv == /\ TypeOK /\ Lines /\ Maps /\ Mirror /\ Logged /\ FilesAgree /\ Secrets
        /\ Waiting /\ Approving /\ Cascading /\ Handed /\ Stays

-----------------------------------------------------------------------------
(* Sequences and files.                                                    *)

\* Append and Front, element by element.
LEMMA EndOfSeq ==
  ASSUME NEW S, NEW s \in Seq(S)
  PROVE  /\ Len(s) \in Nat /\ DOMAIN s = 1..Len(s) /\ \A i \in 1..Len(s) : s[i] \in S
         /\ \A x \in S : /\ Append(s, x) \in Seq(S) /\ Len(Append(s, x)) = Len(s) + 1
                         /\ DOMAIN Append(s, x) = 1..(Len(s) + 1)
                         /\ Append(s, x)[Len(s) + 1] = x
                         /\ \A i \in 1..Len(s) : Append(s, x)[i] = s[i]
         /\ s # <<>> => /\ Len(s) > 0 /\ Last(s) = s[Len(s)]
                        /\ Front(s) \in Seq(S) /\ Len(Front(s)) = Len(s) - 1
                        /\ \A i \in 1..(Len(s) - 1) : Front(s)[i] = s[i]
<1>1. PICK n \in Nat : n = Len(s) /\ DOMAIN s = 1..n /\ \A i \in 1..n : s[i] \in S
  BY LenProperties, ElementOfSeq
<1>2. ASSUME NEW x \in S
      PROVE  /\ Append(s, x) \in Seq(S) /\ Len(Append(s, x)) = n + 1
             /\ DOMAIN Append(s, x) = 1..(n + 1)
             /\ Append(s, x)[n + 1] = x /\ \A i \in 1..n : Append(s, x)[i] = s[i]
  <2>1. PICK t : t = Append(s, x)
    OBVIOUS
  <2>2. /\ t \in Seq(S) /\ Len(t) = n + 1 /\ t[n + 1] = x /\ \A i \in 1..n : t[i] = s[i]
    BY <1>1, <2>1, AppendProperties
  <2>3. DOMAIN t = 1..(n + 1)
    BY <2>2, LenProperties
  <2>. QED BY <2>1, <2>2, <2>3
<1>3. ASSUME s # <<>>
      PROVE  /\ n > 0 /\ Last(s) = s[n] /\ Front(s) \in Seq(S) /\ Len(Front(s)) = n - 1
             /\ \A i \in 1..(n - 1) : Front(s)[i] = s[i]
  <2>1. PICK u : u = SubSeq(s, 1, n - 1)
    OBVIOUS
  <2>2. n > 0
    BY <1>1, <1>3, EmptySeq
  <2>3. \A i \in 1..(n - 1) : i \in 1..n
    BY <1>1
  <2>4. /\ u \in Seq(S) /\ Len(u) = IF 1 <= n - 1 THEN n - 1 - 1 + 1 ELSE 0
        /\ \A i \in 1..(n - 1 - 1 + 1) : u[i] = s[1 + i - 1]
    BY <1>1, <2>1, <2>3, SubSeqProperties
  <2>5. Len(u) = n - 1 /\ \A i \in 1..(n - 1) : u[i] = s[i]
    BY <2>2, <2>4
  <2>. QED BY <1>1, <2>1, <2>2, <2>4, <2>5 DEF Front, Last
<1>. QED BY <1>1, <1>2, <1>3

\* A set of numbers with a bound has a greatest one.
LEMMA Greatest ==
  ASSUME NEW n \in Nat, NEW T \in SUBSET (1..n), T # {}
  PROVE  \E m \in T : \A k \in T : k <= m
<1>. DEFINE U == {n - k : k \in T}
<1>1. U \subseteq Nat /\ U # {}
  OBVIOUS
<1>2. \E m \in U : \A k \in U : ~ (<<k, m>> \in OpToRel(<, Nat))
  BY <1>1, WFMin, NatLessThanWellFounded
<1>3. PICK m \in T : \A k \in T : ~ (<<n - k, n - m>> \in OpToRel(<, Nat))
  BY <1>2
<1>4. \A k \in T : ~ (n - k < n - m)
  <2>1. ASSUME NEW k \in T, n - k < n - m PROVE FALSE
    <3>1. <<n - k, n - m>> \in OpToRel(<, Nat)
      BY <2>1 DEF OpToRel
    <3>. QED BY <3>1, <1>3
  <2>. QED BY <2>1
<1>. QED BY <1>4

\* A line of a file.
LineOf(Entry) == {<<>>} \cup {<<e>> : e \in Entry}

\* It is empty, or holds one entry.
LEMMA LineFacts ==
  ASSUME NEW Entry, NEW l \in LineOf(Entry)
  PROVE  /\ l # <<>> => l[1] \in Entry /\ l = <<l[1]>>
         /\ l # <<>> => ToSet(l) = {l[1]}
         /\ l = <<>> => ToSet(l) = {}
  BY DEF LineOf, ToSet

\* What a file is made of.
LEMMA FileFacts ==
  ASSUME NEW Entry, NEW f \in FileOf(Entry)
  PROVE  /\ f.lines \in Seq(LineOf(Entry)) /\ f.torn \in BOOLEAN
         /\ f.torn => f.lines # <<>>
         /\ f = [lines |-> f.lines, torn |-> f.torn]
         /\ Len(f.lines) \in Nat /\ DOMAIN f.lines = 1..Len(f.lines)
         /\ \A i \in DOMAIN f.lines : f.lines[i] \in LineOf(Entry)
<1>1. /\ f.lines \in Seq(LineOf(Entry)) /\ f.torn \in BOOLEAN
      /\ f.torn => f.lines # <<>>
      /\ f = [lines |-> f.lines, torn |-> f.torn]
  BY DEF FileOf, LineOf
<1>2. PICK s : s = f.lines
  OBVIOUS
<1>3. s \in Seq(LineOf(Entry))
  BY <1>1, <1>2
<1>4. Len(s) \in Nat /\ DOMAIN s = 1..Len(s) /\ \A i \in 1..Len(s) : s[i] \in LineOf(Entry)
  BY <1>3, EndOfSeq
<1>. QED BY <1>1, <1>2, <1>4

\* Its entries are those of its lines.
LEMMA EntryAt ==
  ASSUME NEW Entry, NEW f \in FileOf(Entry), NEW e
  PROVE  e \in EntriesOf(f)
            <=> \E i \in DOMAIN f.lines : f.lines[i] # <<>> /\ f.lines[i][1] = e
<1>1. e \in EntriesOf(f) <=> \E i \in DOMAIN f.lines : e \in ToSet(f.lines[i])
  BY DEF EntriesOf, ToSet
<1>2. \A i \in DOMAIN f.lines :
         e \in ToSet(f.lines[i]) <=> f.lines[i] # <<>> /\ f.lines[i][1] = e
  <2>1. ASSUME NEW i \in DOMAIN f.lines
        PROVE  e \in ToSet(f.lines[i]) <=> f.lines[i] # <<>> /\ f.lines[i][1] = e
    <3>1. PICK l : l = f.lines[i]
      OBVIOUS
    <3>2. l \in LineOf(Entry)
      BY <3>1, FileFacts
    <3>3. e \in ToSet(l) <=> l # <<>> /\ l[1] = e
      BY <3>2, LineFacts
    <3>. QED BY <3>1, <3>3
  <2>. QED BY <2>1
<1>. QED BY <1>1, <1>2

\* Line i is the last one of an id.
IsLast(f, k, i) == i \in LinesOf(f, k) /\ \A j \in LinesOf(f, k) : j <= i

\* Replay finds the last line.
LEMMA ReplayLast ==
  ASSUME NEW Entry, NEW f \in FileOf(Entry), NEW k, NEW absent, NEW i, IsLast(f, k, i)
  PROVE  Replay(f, k, absent) = f.lines[i][1].value
<1>1. LinesOf(f, k) \subseteq Nat
  <2>1. DOMAIN f.lines \subseteq Nat
    BY FileFacts
  <2>. QED BY <2>1 DEF LinesOf
<1>2. Max(LinesOf(f, k)) = i
  <2>1. PICK T : T = LinesOf(f, k)
    OBVIOUS
  <2>2. T \subseteq Nat /\ i \in T /\ \A j \in T : j <= i
    BY <1>1, <2>1 DEF IsLast
  <2>3. \A x \in T : (\A y \in T : x >= y) => x = i
    BY <2>2
  <2>4. \A y \in T : i >= y
    BY <2>2
  <2>5. Max(T) = i
    BY <2>2, <2>3, <2>4 DEF Max
  <2>. QED BY <2>1, <2>5
<1>. QED BY <1>2 DEF Replay, IsLast

\* There is one, if there are lines of the id at all.
LEMMA LastLine ==
  ASSUME NEW Entry, NEW f \in FileOf(Entry), NEW k
  PROVE  \/ LinesOf(f, k) = {} /\ \A absent : Replay(f, k, absent) = absent
         \/ \E i \in DOMAIN f.lines : IsLast(f, k, i)
<1>1. CASE LinesOf(f, k) = {}
  BY <1>1 DEF Replay
<1>2. CASE LinesOf(f, k) # {}
  <2>1. LinesOf(f, k) \subseteq 1..Len(f.lines) /\ Len(f.lines) \in Nat
    BY FileFacts DEF LinesOf
  <2>2. \E i \in LinesOf(f, k) : \A j \in LinesOf(f, k) : j <= i
    BY <1>2, <2>1, Greatest
  <2>. QED BY <2>2 DEF IsLast, LinesOf
<1>. QED BY <1>1, <1>2

\* What it finds is an entry of the id.
LEMMA ReplayFinds ==
  ASSUME NEW Entry, NEW f \in FileOf(Entry), NEW k, NEW absent
  PROVE  \/ Replay(f, k, absent) = absent
         \/ \E e \in EntriesOf(f) : e.key = k /\ Replay(f, k, absent) = e.value
<1>1. ASSUME NEW i \in DOMAIN f.lines, IsLast(f, k, i)
      PROVE  \E e \in EntriesOf(f) : e.key = k /\ Replay(f, k, absent) = e.value
  <2>1. f.lines[i] # <<>> /\ f.lines[i][1].key = k
    BY <1>1 DEF IsLast, LinesOf
  <2>2. f.lines[i][1] \in EntriesOf(f)
    BY <2>1, EntryAt
  <2>. QED BY <1>1, <2>1, <2>2, ReplayLast
<1>. QED BY <1>1, LastLine

\* Two files have the same lines of an id.
SameLines(f, g, k) ==
    LinesOf(f, k) = LinesOf(g, k) /\ \A i \in LinesOf(f, k) : f.lines[i] = g.lines[i]

\* Then they give the same value.
LEMMA ReplaySame ==
  ASSUME NEW Entry, NEW f \in FileOf(Entry), NEW g \in FileOf(Entry), NEW k, NEW absent,
         SameLines(f, g, k)
  PROVE  Replay(f, k, absent) = Replay(g, k, absent)
<1>. USE DEF SameLines
<1>1. CASE LinesOf(f, k) = {}
  BY <1>1 DEF Replay
<1>2. ASSUME NEW i \in DOMAIN f.lines, IsLast(f, k, i)
      PROVE  Replay(f, k, absent) = Replay(g, k, absent)
  <2>1. IsLast(g, k, i) /\ f.lines[i] = g.lines[i]
    BY <1>2 DEF IsLast
  <2>. QED BY <1>2, <2>1, ReplayLast
<1>. QED BY <1>1, <1>2, LastLine

\* A line is added to a file.
LEMMA LineAdded ==
  ASSUME NEW Entry, NEW f \in FileOf(Entry), NEW e \in Entry, NEW x \in {<<>>, <<e>>},
         NEW g \in [lines : Seq(LineOf(Entry)), torn : BOOLEAN], g.lines = Append(f.lines, x)
  PROVE  /\ g \in FileOf(Entry) /\ EntriesOf(g) \subseteq EntriesOf(f) \cup {e}
         /\ \A k, absent : \/ Replay(g, k, absent) = Replay(f, k, absent)
                           \/ k = e.key /\ Replay(g, k, absent) = e.value
         /\ x = <<e>> => \A absent : Replay(g, e.key, absent) = e.value
<1>. DEFINE n == Len(f.lines)
<1>1. /\ f.lines \in Seq(LineOf(Entry)) /\ n \in Nat /\ DOMAIN f.lines = 1..n
      /\ x \in LineOf(Entry)
  BY FileFacts DEF LineOf
<1>2. /\ g.lines \in Seq(LineOf(Entry)) /\ DOMAIN g.lines = 1..(n + 1)
      /\ g.lines[n + 1] = x /\ \A i \in 1..n : g.lines[i] = f.lines[i]
      /\ Len(g.lines) = n + 1
  BY <1>1, EndOfSeq
<1>3. g \in FileOf(Entry)
  <2>1. g.lines # <<>>
    BY <1>1, <1>2, EmptySeq
  <2>. QED BY <1>2, <2>1 DEF FileOf, LineOf
<1>4. \A i \in 1..(n + 1) : i \in 1..n \/ i = n + 1
  BY <1>1
<1>5. x # <<>> => x = <<e>> /\ x[1] = e
  OBVIOUS
<1>. HIDE DEF n
<1>6. EntriesOf(g) \subseteq EntriesOf(f) \cup {e}
  <2>1. ASSUME NEW d \in EntriesOf(g) PROVE d \in EntriesOf(f) \cup {e}
    <3>1. PICK i \in 1..(n + 1) : g.lines[i] # <<>> /\ g.lines[i][1] = d
      BY <1>2, <1>3, <2>1, EntryAt
    <3>2. CASE i \in 1..n
      BY <1>1, <1>2, <3>1, <3>2, EntryAt
    <3>3. CASE i = n + 1
      BY <1>2, <1>5, <3>1, <3>3
    <3>. QED BY <1>4, <3>2, <3>3
  <2>. QED BY <2>1
<1>7. ASSUME NEW k, NEW absent
      PROVE  /\ x = <<e>> /\ k = e.key => Replay(g, k, absent) = e.value
             /\ ~(x = <<e>> /\ k = e.key) => Replay(g, k, absent) = Replay(f, k, absent)
  <2>1. CASE x = <<e>> /\ k = e.key
    <3>1. n + 1 \in LinesOf(g, k)
      BY <1>1, <1>2, <2>1 DEF LinesOf
    <3>2. \A j \in LinesOf(g, k) : j <= n + 1
      BY <1>1, <1>2 DEF LinesOf
    <3>3. Replay(g, k, absent) = g.lines[n + 1][1].value
      BY <1>3, <3>1, <3>2, ReplayLast DEF IsLast
    <3>. QED BY <1>2, <1>5, <2>1, <3>3
  <2>2. CASE ~(x = <<e>> /\ k = e.key)
    <3>1. n + 1 \notin LinesOf(g, k)
      BY <1>2, <1>5, <2>2 DEF LinesOf
    <3>2. LinesOf(f, k) = LinesOf(g, k)
      BY <1>1, <1>2, <1>4, <3>1 DEF LinesOf
    <3>3. \A i \in LinesOf(f, k) : f.lines[i] = g.lines[i]
      BY <1>1, <1>2 DEF LinesOf
    <3>4. SameLines(f, g, k)
      BY <3>2, <3>3 DEF SameLines
    <3>5. Replay(f, k, absent) = Replay(g, k, absent)
      BY <1>3, <3>4, ReplaySame
    <3>. QED BY <2>2, <3>5
  <2>. QED BY <2>1, <2>2
<1>. QED BY <1>3, <1>6, <1>7

\* The torn line of a file is made unreadable.
LEMMA LineSpoilt ==
  ASSUME NEW Entry, NEW f \in FileOf(Entry), f.torn,
         NEW g \in [lines : Seq(LineOf(Entry)), torn : BOOLEAN],
         g.lines = Append(Front(f.lines), <<>>)
  PROVE  /\ g \in FileOf(Entry) /\ EntriesOf(g) \subseteq EntriesOf(f)
         /\ \A k, absent : \/ Replay(g, k, absent) = Replay(f, k, absent)
                           \/ \E d \in ToSet(Last(f.lines)) : d.key = k
<1>1. PICK n \in Nat : n = Len(f.lines)
  BY FileFacts
<1>2. /\ f.lines \in Seq(LineOf(Entry)) /\ f.lines # <<>> /\ <<>> \in LineOf(Entry)
      /\ DOMAIN f.lines = 1..n
  BY <1>1, FileFacts DEF LineOf
<1>3. /\ n > 0 /\ Last(f.lines) = f.lines[n] /\ Front(f.lines) \in Seq(LineOf(Entry))
      /\ Len(Front(f.lines)) = n - 1
      /\ \A i \in 1..(n - 1) : Front(f.lines)[i] = f.lines[i]
  BY <1>1, <1>2, EndOfSeq
<1>4. /\ g.lines \in Seq(LineOf(Entry)) /\ DOMAIN g.lines = 1..n /\ Len(g.lines) = n
      /\ g.lines[n] = <<>> /\ \A i \in 1..(n - 1) : g.lines[i] = f.lines[i]
  <2>1. PICK u : u = Front(f.lines)
    OBVIOUS
  <2>2. u \in Seq(LineOf(Entry)) /\ Len(u) = n - 1
    BY <1>3, <2>1
  <2>3. /\ Append(u, <<>>) \in Seq(LineOf(Entry)) /\ Len(Append(u, <<>>)) = n - 1 + 1
        /\ DOMAIN Append(u, <<>>) = 1..(n - 1 + 1)
        /\ Append(u, <<>>)[n - 1 + 1] = <<>>
        /\ \A i \in 1..(n - 1) : Append(u, <<>>)[i] = u[i]
    BY <1>2, <2>2, EndOfSeq
  <2>4. n - 1 + 1 = n
    OBVIOUS
  <2>. QED BY <1>3, <2>1, <2>3, <2>4
<1>5. g \in FileOf(Entry)
  <2>1. g.lines # <<>>
    BY <1>3, <1>4, EmptySeq
  <2>. QED BY <1>4, <2>1 DEF FileOf, LineOf
<1>6. \A i \in 1..n : i \in 1..(n - 1) \/ i = n
  OBVIOUS
<1>7. EntriesOf(g) \subseteq EntriesOf(f)
  <2>1. ASSUME NEW d \in EntriesOf(g) PROVE d \in EntriesOf(f)
    <3>1. PICK i \in 1..n : g.lines[i] # <<>> /\ g.lines[i][1] = d
      BY <1>4, <1>5, <2>1, EntryAt
    <3>2. i \in 1..(n - 1)
      BY <1>4, <1>6, <3>1
    <3>. QED BY <1>2, <1>4, <3>1, <3>2, EntryAt
  <2>. QED BY <2>1
<1>8. ASSUME NEW k, NEW absent, \A d \in ToSet(Last(f.lines)) : d.key # k
      PROVE  Replay(g, k, absent) = Replay(f, k, absent)
  <2>1. n \notin LinesOf(f, k)
    <3>1. PICK l : l = f.lines[n]
      OBVIOUS
    <3>2. l \in LineOf(Entry) /\ l = Last(f.lines)
      BY <1>2, <1>3, <3>1, FileFacts
    <3>3. l # <<>> => l[1].key # k
      BY <1>8, <3>2, LineFacts
    <3>. QED BY <3>1, <3>3 DEF LinesOf
  <2>2. n \notin LinesOf(g, k)
    BY <1>4 DEF LinesOf
  <2>3. LinesOf(f, k) = LinesOf(g, k)
    BY <1>2, <1>4, <1>6, <2>1, <2>2 DEF LinesOf
  <2>4. \A i \in LinesOf(f, k) : f.lines[i] = g.lines[i]
    BY <1>2, <1>4, <1>6, <2>1 DEF LinesOf
  <2>5. SameLines(f, g, k)
    BY <2>3, <2>4 DEF SameLines
  <2>6. Replay(f, k, absent) = Replay(g, k, absent)
    BY <1>5, <2>5, ReplaySame
  <2>. QED BY <2>6
<1>. QED BY <1>5, <1>7, <1>8

\* What an append leaves, however it ends: the entries that were there and the
\* one appended, and for every id what there was, but for that entry's and for
\* one on a torn line that the append spoilt.
LEMMA FileStep ==
  ASSUME NEW Entry, NEW f \in FileOf(Entry), NEW e \in Entry,
         NEW g \in PartlyAppended(f, e) \cup {AppendLine(f, e)}
  PROVE  /\ g \in FileOf(Entry) /\ EntriesOf(g) \subseteq EntriesOf(f) \cup {e}
         /\ \A k, absent :
               \/ Replay(g, k, absent) = Replay(f, k, absent)
               \/ k = e.key /\ Replay(g, k, absent) = e.value
               \/ f.torn /\ g # f /\ \E d \in ToSet(Last(f.lines)) : d.key = k
         /\ ~f.torn /\ g = AppendLine(f, e) => \A absent : Replay(g, e.key, absent) = e.value
<1>0. f.torn \in BOOLEAN
  BY FileFacts
<1>1. CASE g = f /\ (f.torn \/ g # AppendLine(f, e))
  BY <1>1
<1>1a. /\ f.lines \in Seq(LineOf(Entry)) /\ <<>> \in LineOf(Entry) /\ <<e>> \in LineOf(Entry)
       /\ f.torn => f.lines # <<>>
  BY FileFacts DEF LineOf
<1>2. CASE g # f /\ f.torn
  <2>1. PICK torn \in BOOLEAN : g = [lines |-> Append(Front(f.lines), <<>>), torn |-> torn]
    BY <1>2 DEF PartlyAppended, AppendLine
  <2>2. Append(Front(f.lines), <<>>) \in Seq(LineOf(Entry))
    BY <1>1a, <1>2, EndOfSeq
  <2>3. /\ g \in [lines : Seq(LineOf(Entry)), torn : BOOLEAN]
        /\ g.lines = Append(Front(f.lines), <<>>)
    BY <2>1, <2>2
  <2>4. /\ g \in FileOf(Entry) /\ EntriesOf(g) \subseteq EntriesOf(f)
        /\ \A k, absent : \/ Replay(g, k, absent) = Replay(f, k, absent)
                          \/ \E d \in ToSet(Last(f.lines)) : d.key = k
    BY <1>2, <2>3, LineSpoilt
  <2>. QED BY <1>2, <2>4
<1>3. CASE (g # f \/ g = AppendLine(f, e)) /\ ~f.torn
  <2>1. \E torn \in BOOLEAN, x \in {<<>>, <<e>>} :
           /\ g = [lines |-> Append(f.lines, x), torn |-> torn]
           /\ g = AppendLine(f, e) => x = <<e>>
    <3>1. CASE g = AppendLine(f, e)
      BY <1>3, <3>1 DEF AppendLine
    <3>2. CASE g # AppendLine(f, e)
      BY <1>3, <3>2 DEF PartlyAppended
    <3>. QED BY <3>1, <3>2
  <2>2. PICK torn \in BOOLEAN, x \in {<<>>, <<e>>} :
           /\ g = [lines |-> Append(f.lines, x), torn |-> torn]
           /\ g = AppendLine(f, e) => x = <<e>>
    BY <2>1
  <2>3. Append(f.lines, x) \in Seq(LineOf(Entry))
    BY <1>1a, EndOfSeq
  <2>4. g \in [lines : Seq(LineOf(Entry)), torn : BOOLEAN] /\ g.lines = Append(f.lines, x)
    BY <2>2, <2>3
  <2>5. /\ g \in FileOf(Entry) /\ EntriesOf(g) \subseteq EntriesOf(f) \cup {e}
        /\ \A k, absent : \/ Replay(g, k, absent) = Replay(f, k, absent)
                          \/ k = e.key /\ Replay(g, k, absent) = e.value
        /\ x = <<e>> => \A absent : Replay(g, e.key, absent) = e.value
    BY <2>4, LineAdded
  <2>. QED BY <2>2, <2>5
<1>. QED BY <1>0, <1>1, <1>2, <1>3

-----------------------------------------------------------------------------
(* A save, for the two stores alike.                                       *)

Value(s) == IF s = "tokens" THEN TokenRec ELSE RequestRec

Ids == ({"tokens"} \X Tok) \cup ({"requests"} \X Req)

AnyLine == LineRec("tokens") \cup LineRec("requests")

\* What an append may do to the files, of whole lines, torn ones and entries
\* lost: nothing is forgotten or made up but for what lost says.
Wrote(s, k, v) ==
    /\ disk' \in [Store -> FileOf(AnyLine)]
    /\ \A q \in Store : disk'[q] \in FileOf(LineRec(q))
    /\ \A q \in Store : \A e \in EntriesOf(disk'[q]) :
          e \in EntriesOf(disk[q]) \/ (q = s /\ e = Line(s, k, v))
    /\ lost \subseteq lost' /\ lost' \subseteq Ids
    /\ \A q \in Store : \A i \in Key(q) : Safe(q, i)' =>
          \/ OnDisk(q, i)' = OnDisk(q, i)
          \/ q = s /\ i = k /\ OnDisk(q, i)' = Persisted(v, s)

Recorded(s, k, v) == Safe(s, k)' => OnDisk(s, k)' = Persisted(v, s)

\* The process goes on with v in its Map ...
Goes(s, k, v) == up' = up /\ mem' = [mem EXCEPT ![s][k] = v] /\ Recorded(s, k, v)

\* ... or it dies.
Falls ==
    /\ up' = FALSE /\ mem' = Nothing /\ fresh' = {}
    /\ hashing' = [r \in Req |-> 0] /\ delegating' = [t \in Tok |-> 0]
    /\ approving' = None /\ path' = <<>>

\* A save with the entry of the log that follows it.
Saves(s, k, v, entry) ==
    /\ Wrote(s, k, v)
    /\ log \subseteq log' /\ log' \subseteq log \cup entry
    /\ log' # log => Recorded(s, k, v)
    /\ Goes(s, k, v) \/ Falls
    /\ faults' \in 0..MaxFaults

\* Sequences and files over a larger set.
LEMMA Larger ==
  ASSUME NEW S, NEW T, S \subseteq T
  PROVE  Seq(S) \subseteq Seq(T) /\ FileOf(S) \subseteq FileOf(T)
<1>1. \A U, V : U \subseteq V => Seq(U) \subseteq Seq(V)
  <2>1. ASSUME NEW U, NEW V, U \subseteq V, NEW s \in Seq(U) PROVE s \in Seq(V)
    <3>1. /\ Len(s) \in Nat /\ s = [i \in 1..Len(s) |-> s[i]]
          /\ \A i \in 1..Len(s) : s[i] \in V
      BY <2>1, LenProperties, ElementOfSeq
    <3>. QED BY <3>1, IsASeq
  <2>. QED BY <2>1
<1>2. Seq(LineOf(S)) \subseteq Seq(LineOf(T))
  BY <1>1 DEF LineOf
<1>. QED BY <1>1, <1>2 DEF FileOf, LineOf

\* The two stores.
LEMMA StoreFacts ==
  ASSUME NEW s \in Store
  PROVE  /\ LineRec(s) = [key : Key(s), value : Value(s)]
         /\ \A k \in Key(s) : /\ Nothing[s][k] \in Value(s) /\ Nothing[s][k].status = "absent"
                              /\ <<s, k>> \in Ids
         /\ DOMAIN Nothing[s] = Key(s)
         /\ \A v \in Value(s) : Persisted(v, s) \in Value(s)
         /\ LineRec(s) \subseteq AnyLine
<1>1. CASE s = "tokens"
  <2>1. Nothing[s] = [t \in Tok |-> NoToken]
    BY <1>1 DEF Nothing, Store
  <2>2. NoToken \in TokenRec /\ NoToken.status = "absent"
    BY DEF NoToken, TokenRec
  <2>. QED BY <1>1, <2>1, <2>2 DEF LineRec, Key, Value, Persisted, AnyLine, Ids
<1>2. CASE s = "requests"
  <2>1. Nothing[s] = [r \in Req |-> NoRequest]
    BY <1>2 DEF Nothing, Store
  <2>2. NoRequest \in RequestRec /\ NoRequest.status = "absent"
    BY DEF NoRequest, RequestRec
  <2>3. \A v \in RequestRec : [v EXCEPT !.secret = FALSE] \in RequestRec
    BY DEF RequestRec
  <2>. QED BY <1>2, <2>1, <2>2, <2>3 DEF LineRec, Key, Value, Persisted, AnyLine, Ids
<1>. QED BY <1>1, <1>2 DEF Store

\* An append, however it ends.
LEMMA WroteStep ==
  ASSUME TypeOK, NEW s \in Store, NEW k \in Key(s), NEW v \in Value(s),
         NEW more \in SUBSET {<<s, k>>}, Appended(s, k, v) \/ Stopped(s, k, v, more)
  PROVE  /\ Wrote(s, k, v)
         /\ Appended(s, k, v) => Recorded(s, k, v)
         /\ Stopped(s, k, v, {<<s, k>>}) => Recorded(s, k, v)
<1>1. PICK f : f = disk[s]
  OBVIOUS
<1>2. PICK e : e = Line(s, k, v)
  OBVIOUS
<1>2a. e \in LineRec(s) /\ e.key = k /\ e.value = Persisted(v, s)
  BY <1>2, StoreFacts DEF Line
<1>3. /\ f \in FileOf(LineRec(s))
      /\ disk \in [Store -> FileOf(AnyLine)] /\ \A q \in Store : disk[q] \in FileOf(LineRec(q))
      /\ lost \subseteq Ids
  BY <1>1 DEF TypeOK, AnyLine, Ids
<1>4. PICK g \in PartlyAppended(f, e) \cup {AppendLine(f, e)} :
         /\ disk' = [disk EXCEPT ![s] = g]
         /\ Appended(s, k, v) => g = AppendLine(f, e)
         /\ lost \subseteq lost' /\ (g # f => Swallowed(s, k) \subseteq lost')
         /\ lost' \subseteq lost \cup {<<s, k>>} \cup Swallowed(s, k)
  <2>1. CASE Appended(s, k, v)
    BY <1>1, <1>2, <2>1 DEF Appended
  <2>2. CASE Stopped(s, k, v, more) /\ ~Appended(s, k, v)
    BY <1>1, <1>2, <2>2 DEF Stopped
  <2>. QED BY <2>1, <2>2
<1>5. g \in FileOf(LineRec(s)) /\ EntriesOf(g) \subseteq EntriesOf(f) \cup {e}
  BY <1>2a, <1>3, <1>4, FileStep
<1>6. /\ disk' \in [Store -> FileOf(AnyLine)] /\ disk'[s] = g
      /\ \A q \in Store : q # s => disk'[q] = disk[q]
  <2>1. g \in FileOf(AnyLine)
    BY <1>5, StoreFacts, Larger
  <2>. QED BY <1>3, <1>4, <2>1
<1>7. Swallowed(s, k) =
         IF f.torn THEN {<<s, k>>} \cup {<<s, d.key>> : d \in ToSet(Last(f.lines))} ELSE {}
  BY <1>1 DEF Swallowed
<1>8. lost' \subseteq Ids
  <2>1. <<s, k>> \in Ids
    BY StoreFacts
  <2>2. ASSUME f.torn, NEW d \in ToSet(Last(f.lines)) PROVE <<s, d.key>> \in Ids
    <3>1. PICK n \in Nat : n = Len(f.lines)
      BY <1>3, FileFacts
    <3>2. PICK t : t = f.lines
      OBVIOUS
    <3>3. t \in Seq(LineOf(LineRec(s))) /\ t # <<>> /\ n = Len(t)
      BY <1>3, <2>2, <3>1, <3>2, FileFacts
    <3>4. n > 0 /\ Last(t) = t[n] /\ \A i \in 1..n : t[i] \in LineOf(LineRec(s))
      BY <3>3, EndOfSeq
    <3>5. d \in LineRec(s)
      <4>1. PICK l : l = Last(t)
        OBVIOUS
      <4>2. l \in LineOf(LineRec(s)) /\ d \in ToSet(l)
        BY <2>2, <3>2, <3>4, <4>1
      <4>. QED BY <4>2, LineFacts
    <3>6. d \in [key : Key(s), value : Value(s)]
      BY <3>5, StoreFacts
    <3>7. d.key \in Key(s)
      BY <3>6
    <3>. QED BY <3>7, StoreFacts
  <2>. QED BY <1>3, <1>4, <1>7, <2>1, <2>2
<1>9. ASSUME NEW q \in Store, NEW i \in Key(q), Safe(q, i)'
      PROVE  \/ OnDisk(q, i)' = OnDisk(q, i)
             \/ q = s /\ i = k /\ OnDisk(q, i)' = Persisted(v, s)
  <2>1. CASE q # s
    BY <1>6, <2>1 DEF OnDisk
  <2>2. CASE q = s
    <3>1. ~(f.torn /\ g # f /\ \E d \in ToSet(Last(f.lines)) : d.key = i)
      BY <1>4, <1>7, <1>9, <2>2 DEF Safe
    <3>2. \/ Replay(g, i, Nothing[s][i]) = Replay(f, i, Nothing[s][i])
          \/ i = k /\ Replay(g, i, Nothing[s][i]) = Persisted(v, s)
      BY <1>2a, <1>3, <1>4, <3>1, FileStep
    <3>. QED BY <1>1, <1>6, <2>2, <3>2 DEF OnDisk
  <2>. QED BY <2>1, <2>2
<1>10. ASSUME NEW q \in Store, NEW d \in EntriesOf(disk'[q])
       PROVE  d \in EntriesOf(disk[q]) \/ (q = s /\ d = Line(s, k, v))
  BY <1>1, <1>2, <1>5, <1>6, <1>10
<1>11. Wrote(s, k, v)
  BY <1>3, <1>4, <1>5, <1>6, <1>8, <1>9, <1>10 DEF Wrote
<1>12. ASSUME Appended(s, k, v), Safe(s, k)' PROVE OnDisk(s, k)' = Persisted(v, s)
  <2>1. g = AppendLine(f, e)
    BY <1>4, <1>12
  <2>2. f.torn => g # f
    BY <2>1 DEF AppendLine
  <2>3. f.torn \in BOOLEAN /\ ~f.torn
    BY <1>3, <1>4, <1>7, <1>12, <2>2, FileFacts DEF Safe
  <2>4. Replay(g, k, Nothing[s][k]) = Persisted(v, s)
    BY <1>2a, <1>3, <1>4, <2>1, <2>3, FileStep
  <2>. QED BY <1>6, <2>4 DEF OnDisk
<1>13. Stopped(s, k, v, {<<s, k>>}) => ~Safe(s, k)'
  BY DEF Stopped, Safe
<1>. QED BY <1>11, <1>12, <1>13 DEF Recorded

\* A save that completes, throws or kills the process.
LEMMA SavesStep ==
  ASSUME TypeOK, NEW s \in Store, NEW k \in Key(s), NEW v \in Value(s), NEW entry
  PROVE  /\ Completes(s, k, v, entry) => Saves(s, k, v, entry) /\ Goes(s, k, v)
         /\ Throws(s, k, v, entry) => Saves(s, k, v, entry) /\ Goes(s, k, v)
         /\ Dies(s, k, v, entry) => Saves(s, k, v, entry) /\ Falls
<1>0. MaxFaults \in Nat /\ faults \in 0..MaxFaults
  BY RecoveryAssumption DEF TypeOK
<1>1. \A more \in SUBSET {<<s, k>>} : Stopped(s, k, v, more) => Wrote(s, k, v)
  BY WroteStep
<1>2. Stopped(s, k, v, {<<s, k>>}) => Recorded(s, k, v)
  BY WroteStep
<1>3. Appended(s, k, v) => Wrote(s, k, v) /\ Recorded(s, k, v)
  BY WroteStep
<1>4. Fault => faults' \in 0..MaxFaults
  BY <1>0 DEF Fault
<1>5. ASSUME Completes(s, k, v, entry) PROVE Saves(s, k, v, entry) /\ Goes(s, k, v)
  BY <1>0, <1>3, <1>5 DEF Completes, Kept, Saves, Goes
<1>6. ASSUME Throws(s, k, v, entry) PROVE Saves(s, k, v, entry) /\ Goes(s, k, v)
  <2>1. Goes(s, k, v) /\ Wrote(s, k, v)
    BY <1>1, <1>2, <1>3, <1>6 DEF Throws, Kept, Goes
  <2>2. log \subseteq log' /\ log' \subseteq log \cup entry
    BY <1>6 DEF Throws
  <2>. QED BY <1>4, <1>6, <2>1, <2>2 DEF Throws, Saves, Goes
<1>7. ASSUME Dies(s, k, v, entry) PROVE Saves(s, k, v, entry) /\ Falls
  <2>1. Falls
    BY <1>7 DEF Dies, Down, Falls
  <2>2. Wrote(s, k, v) /\ (log' # log => Recorded(s, k, v))
    BY <1>1, <1>3, <1>7 DEF Dies
  <2>3. log \subseteq log' /\ log' \subseteq log \cup entry
    BY <1>7 DEF Dies
  <2>. QED BY <1>4, <1>7, <2>1, <2>2, <2>3 DEF Dies, Down, Saves
<1>. QED BY <1>5, <1>6, <1>7

\* The Maps after a save.
LEMMA GoesStep ==
  ASSUME TypeOK, NEW s \in Store, NEW k \in Key(s), NEW v \in Value(s), Goes(s, k, v)
  PROVE  /\ mem' \in [Store -> [Tok -> TokenRec] \cup [Req -> RequestRec]]
         /\ mem'.tokens \in [Tok -> TokenRec] /\ mem'.requests \in [Req -> RequestRec]
         /\ mem'[s][k] = v
         /\ \A q \in Store : \A i \in Key(q) : ~(q = s /\ i = k) => mem'[q][i] = mem[q][i]
<1>1. /\ mem \in [Store -> [Tok -> TokenRec] \cup [Req -> RequestRec]]
      /\ mem["tokens"] \in [Tok -> TokenRec] /\ mem["requests"] \in [Req -> RequestRec]
  BY DEF TypeOK
<1>2. PICK m : m = [mem[s] EXCEPT ![k] = v]
  OBVIOUS
<1>3. mem' = [mem EXCEPT ![s] = m] /\ "tokens" \in Store /\ "requests" \in Store
  BY <1>2 DEF Goes, Store
<1>4. /\ s = "tokens" => mem[s] \in [Tok -> TokenRec] /\ m \in [Tok -> TokenRec]
      /\ s = "requests" => mem[s] \in [Req -> RequestRec] /\ m \in [Req -> RequestRec]
      /\ m[k] = v /\ \A i \in Key(s) : i # k => m[i] = mem[s][i]
  <2>1. CASE s = "tokens"
    BY <1>1, <1>2, <2>1 DEF Key, Value
  <2>2. CASE s = "requests"
    BY <1>1, <1>2, <2>2 DEF Key, Value
  <2>. QED BY <2>1, <2>2 DEF Store
<1>5. m \in [Tok -> TokenRec] \cup [Req -> RequestRec]
  BY <1>4 DEF Store
<1>6. /\ mem' \in [Store -> [Tok -> TokenRec] \cup [Req -> RequestRec]]
      /\ mem'[s] = m /\ \A q \in Store : q # s => mem'[q] = mem[q]
  BY <1>1, <1>3, <1>5
<1>7. mem'["tokens"] \in [Tok -> TokenRec] /\ mem'["requests"] \in [Req -> RequestRec]
  BY <1>1, <1>3, <1>4, <1>6
<1>8. mem'[s][k] = v
  BY <1>4, <1>6
<1>9. ASSUME NEW q \in Store, NEW i \in Key(q), ~(q = s /\ i = k)
      PROVE  mem'[q][i] = mem[q][i]
  BY <1>4, <1>6, <1>9
<1>. QED BY <1>6, <1>7, <1>8, <1>9

\* Requests and tokens are only added.
Grows ==
    /\ asked \subseteq asked' /\ DOMAIN issued \subseteq DOMAIN issued'
    /\ \A t \in DOMAIN issued : issued'[t] = issued[t]

\* What could have been written can still be.
LEMMA StillCredible ==
  ASSUME Grows, NEW s \in Store, NEW k, NEW v, Credible(s, k, v)
  PROVE  Credible(s, k, v)'
<1>1. CASE s = "tokens"
  BY <1>1 DEF Credible, Grows
<1>2. CASE s # "tokens"
  BY <1>2 DEF Credible, Grows
<1>. QED BY <1>1, <1>2

\* No process, no Maps.
LEMMA FallsStep ==
  ASSUME Falls
  PROVE  /\ mem' \in [Store -> [Tok -> TokenRec] \cup [Req -> RequestRec]]
         /\ mem'.tokens = [t \in Tok |-> NoToken] /\ mem'.requests = [r \in Req |-> NoRequest]
         /\ mem'.tokens \in [Tok -> TokenRec] /\ mem'.requests \in [Req -> RequestRec]
         /\ \A s \in Store : \A k \in Key(s) : mem'[s][k] = Nothing[s][k]
         /\ Maps' /\ Mirror' /\ Cascading'
         /\ hashing' \in [Req -> 0..MaxTok] /\ delegating' \in [Tok -> 0..MaxTok]
<1>1. /\ mem'["tokens"] = [t \in Tok |-> NoToken] /\ mem'["requests"] = [r \in Req |-> NoRequest]
      /\ NoToken \in TokenRec /\ NoRequest \in RequestRec
      /\ mem' = Nothing
  BY DEF Falls, Nothing, Store, NoToken, NoRequest, TokenRec, RequestRec
<1>2. mem' \in [Store -> [Tok -> TokenRec] \cup [Req -> RequestRec]]
  <2>1. mem' = [s \in Store |-> mem'[s]]
    BY <1>1 DEF Nothing
  <2>2. \A s \in Store : s = "tokens" \/ s = "requests"
    BY DEF Store
  <2>. QED BY <1>1, <2>1, <2>2
<1>3. Maps' /\ Mirror'
  BY DEF Maps, Mirror, Falls
<1>4. Cascading'
  BY DEF Cascading, Falls
<1>5. hashing' \in [Req -> 0..MaxTok] /\ delegating' \in [Tok -> 0..MaxTok]
  BY RecoveryAssumption DEF Falls
<1>. QED BY <1>1, <1>2, <1>3, <1>4, <1>5

\* forPersistence takes nothing from a value but the secret.
LEMMA PersistedFacts ==
  ASSUME NEW s \in Store, NEW v \in Value(s)
  PROVE  /\ Persisted(v, s) \in Value(s) /\ Persisted(v, s).status = v.status
         /\ s = "tokens" => Persisted(v, s) = v
         /\ s = "requests" => Persisted(v, s).token = v.token /\ ~Persisted(v, s).secret
<1>1. CASE s = "tokens"
  BY <1>1 DEF Persisted
<1>2. CASE s = "requests"
  BY <1>2 DEF Persisted, Value, RequestRec
<1>. QED BY <1>1, <1>2 DEF Store

\* The stores' share of the types.
StoreTypes ==
    /\ mem \in [Store -> [Tok -> TokenRec] \cup [Req -> RequestRec]]
    /\ mem.tokens \in [Tok -> TokenRec] /\ mem.requests \in [Req -> RequestRec]
    /\ disk \in [Store -> FileOf(AnyLine)]
    /\ \A s \in Store : disk[s] \in FileOf(LineRec(s))
    /\ log \subseteq Event /\ lost \subseteq Ids

\* Maps and files go together through a save.
LEMMA SavesKeeps ==
  ASSUME TypeOK, Lines, Maps, Mirror, up,
         NEW s \in Store, NEW k \in Key(s), NEW v \in Value(s), NEW entry \in SUBSET Event,
         Saves(s, k, v, entry), Grows, Credible(s, k, v)'
  PROVE  StoreTypes' /\ Lines' /\ Maps' /\ Mirror'
<1>1. StoreTypes'
  <2>1. /\ mem' \in [Store -> [Tok -> TokenRec] \cup [Req -> RequestRec]]
        /\ mem'.tokens \in [Tok -> TokenRec] /\ mem'.requests \in [Req -> RequestRec]
    BY GoesStep, FallsStep DEF Saves
  <2>2. /\ disk' \in [Store -> FileOf(AnyLine)] /\ \A q \in Store : disk'[q] \in FileOf(LineRec(q))
        /\ lost' \subseteq Ids
    BY DEF Saves, Wrote
  <2>3. log' \subseteq Event
    BY DEF Saves, TypeOK
  <2>. QED BY <2>1, <2>2, <2>3 DEF StoreTypes
<1>2. Lines'
  <2>1. ASSUME NEW q \in Store, NEW e \in EntriesOf(disk'[q]),
               NEW i, i = e.key, NEW w, w = e.value
        PROVE  Credible(q, i, w)' /\ (q = "requests" => ~w.secret)
    <3>1. CASE e \in EntriesOf(disk[q])
      <4>1. Credible(q, i, w) /\ (q = "requests" => ~w.secret)
        BY <2>1, <3>1 DEF Lines
      <4>. QED BY <4>1, StillCredible
    <3>2. CASE q = s /\ e = Line(s, k, v)
      <4>1. i = k /\ w = Persisted(v, s)
        BY <2>1, <3>2 DEF Line
      <4>2. CASE s = "tokens"
        BY <3>2, <4>1, <4>2, PersistedFacts
      <4>3. CASE s = "requests"
        <5>1. w.status = v.status /\ w.token = v.token /\ ~w.secret
          BY <4>1, <4>3, PersistedFacts
        <5>2. Credible("requests", k, w)'
          BY <4>3, <5>1 DEF Credible
        <5>. QED BY <3>2, <4>1, <4>3, <5>1, <5>2
      <4>. QED BY <4>2, <4>3 DEF Store
    <3>. QED BY <3>1, <3>2 DEF Saves, Wrote
  <2>. QED BY <2>1 DEF Lines, Credible
<1>3. Maps' /\ Mirror'
  <2>1. CASE Falls
    BY <2>1, FallsStep
  <2>2. CASE Goes(s, k, v)
    <3>0. up'
      BY <2>2 DEF Goes
    <3>1. /\ mem'[s][k] = v
          /\ \A q \in Store : \A i \in Key(q) : ~(q = s /\ i = k) => mem'[q][i] = mem[q][i]
      BY <2>2, GoesStep
    <3>2. ASSUME NEW q \in Store, NEW i \in Key(q)
          PROVE  mem'[q][i] = Nothing[q][i] \/ Credible(q, i, mem[q][i])'
      <4>1. CASE q = s /\ i = k
        BY <3>1, <4>1 DEF Credible
      <4>2. CASE ~(q = s /\ i = k)
        <5>1. PICK w : w = mem[q][i]
          OBVIOUS
        <5>2. mem'[q][i] = w /\ (w = Nothing[q][i] \/ Credible(q, i, w))
          BY <3>1, <4>2, <5>1 DEF Maps
        <5>3. w = Nothing[q][i] \/ Credible(q, i, w)'
          BY <5>2, StillCredible
        <5>. QED BY <5>2, <5>3 DEF Credible
      <4>. QED BY <4>1, <4>2
    <3>3. ASSUME NEW q \in Store, NEW i \in Key(q), Safe(q, i)'
          PROVE  OnDisk(q, i)' = Persisted(mem'[q][i], q)
      <4>1. CASE q = s /\ i = k
        BY <2>2, <3>1, <3>3, <4>1 DEF Goes, Recorded
      <4>2. CASE ~(q = s /\ i = k)
        <5>1. OnDisk(q, i)' = OnDisk(q, i)
          BY <3>3, <4>2 DEF Saves, Wrote
        <5>2. Safe(q, i)
          BY <3>3 DEF Saves, Wrote, Safe
        <5>. QED BY <3>1, <4>2, <5>1, <5>2 DEF Mirror
      <4>. QED BY <4>1, <4>2
    <3>. QED BY <3>0, <3>2, <3>3 DEF Maps, Mirror
  <2>. QED BY <2>1, <2>2 DEF Saves
<1>. QED BY <1>1, <1>2, <1>3

\* The numbers of the tokens there are.
LEMMA IssuedFacts ==
  ASSUME TypeOK
  PROVE  /\ MaxTok \in Nat /\ Len(issued) \in 0..MaxTok /\ DOMAIN issued = 1..Len(issued)
         /\ DOMAIN issued \subseteq Tok
         /\ \A t \in DOMAIN issued : issued[t] \in [req : Req, parent : Tok \cup {None}]
<1>1. MaxTok \in Nat /\ Len(issued) <= MaxTok
      /\ issued \in Seq([req : Req, parent : Tok \cup {None}])
  BY RecoveryAssumption DEF TypeOK
<1>2. /\ Len(issued) \in Nat /\ DOMAIN issued = 1..Len(issued)
      /\ \A t \in 1..Len(issued) : issued[t] \in [req : Req, parent : Tok \cup {None}]
  BY <1>1, EndOfSeq
<1>. QED BY <1>1, <1>2 DEF Tok

\* What a new process would read could have been written.
LEMMA OnDiskFacts ==
  ASSUME TypeOK, Lines, NEW s \in Store, NEW k \in Key(s), NEW w, w = OnDisk(s, k)
  PROVE  /\ w \in Value(s)
         /\ w = Nothing[s][k] \/ Credible(s, k, w)
         /\ s = "requests" => ~w.secret
<1>1. disk[s] \in FileOf(LineRec(s))
  BY DEF TypeOK
<1>2. PICK f : f = disk[s]
  OBVIOUS
<1>3. \/ w = Nothing[s][k]
      \/ \E e \in EntriesOf(f) : e.key = k /\ w = e.value
  BY <1>1, <1>2, ReplayFinds DEF OnDisk
<1>4. CASE w = Nothing[s][k]
  <2>1. w \in Value(s)
    BY <1>4, StoreFacts
  <2>2. s = "requests" => ~w.secret
    BY <1>4 DEF Nothing, NoRequest, Store, Key
  <2>. QED BY <1>4, <2>1, <2>2
<1>5. ASSUME NEW e \in EntriesOf(f), e.key = k, w = e.value
      PROVE  w \in Value(s) /\ Credible(s, k, w) /\ (s = "requests" => ~w.secret)
  <2>1. Credible(s, k, w) /\ (s = "requests" => ~w.secret)
    BY <1>2, <1>5 DEF Lines
  <2>2. e \in LineRec(s)
    <3>1. PICK i \in DOMAIN f.lines : f.lines[i] # <<>> /\ f.lines[i][1] = e
      BY <1>1, <1>2, <1>5, EntryAt
    <3>2. PICK l : l = f.lines[i]
      OBVIOUS
    <3>3. l \in LineOf(LineRec(s)) /\ l # <<>> /\ l[1] = e
      BY <1>1, <1>2, <3>1, <3>2, FileFacts
    <3>. QED BY <3>3, LineFacts
  <2>3. e \in [key : Key(s), value : Value(s)]
    BY <2>2, StoreFacts
  <2>. QED BY <1>5, <2>1, <2>3
<1>. QED BY <1>3, <1>4, <1>5

\* The same of an approved request.
LEMMA ApprovedOnDisk ==
  ASSUME TypeOK, Lines, NEW r \in Req, OnDisk("requests", r).status = "approved"
  PROVE  /\ OnDisk("requests", r).token \in DOMAIN issued
         /\ issued[OnDisk("requests", r).token] = [req |-> r, parent |-> None]
<1>1. PICK w : w = OnDisk("requests", r)
  OBVIOUS
<1>2. "requests" \in Store /\ r \in Key("requests") /\ Nothing["requests"][r].status = "absent"
  BY DEF Store, Key, Nothing, NoRequest
<1>3. Credible("requests", r, w)
  BY <1>1, <1>2, OnDiskFacts
<1>. QED BY <1>1, <1>3 DEF Credible

\* What saving a token leaves of the agreement of the files.
LEMMA TokenSaved ==
  ASSUME TypeOK, Lines, Logged, FilesAgree, Handed, Stays,
         NEW t \in Tok, NEW v \in TokenRec, NEW entry,
         Saves("tokens", t, v, entry), Grows, Credible("tokens", t, v)',
         UNCHANGED <<revoked, overlapped>>, handed \subseteq handed',
         \A u \in handed' : u \in handed \/ issued'[u].parent # None,
         t \in DOMAIN issued => v.status = "revoked",
         entry \subseteq {<<"delegated", t>>, <<"revoked", t>>},
         <<"revoked", t>> \in entry => v.status = "revoked"
  PROVE  Logged' /\ FilesAgree' /\ Handed' /\ Stays'
<1>1. "tokens" \in Store /\ "requests" \in Store /\ Key("tokens") = Tok /\ Key("requests") = Req
  BY DEF Store, Key
<1>2. /\ \A u \in Tok : Safe("tokens", u)' =>
            /\ Safe("tokens", u)
            /\ u # t => OnDisk("tokens", u)' = OnDisk("tokens", u)
            /\ u = t => OnDisk("tokens", u)' \in {OnDisk("tokens", u), v}
      /\ \A r \in Req : Safe("requests", r)' =>
            Safe("requests", r) /\ OnDisk("requests", r)' = OnDisk("requests", r)
  <2>1. Persisted(v, "tokens") = v
    BY DEF Persisted
  <2>2. Wrote("tokens", t, v) /\ lost \subseteq lost'
    BY DEF Saves, Wrote
  <2>3. \A q \in Store : \A i \in Key(q) : Safe(q, i)' => Safe(q, i)
    BY <2>2 DEF Safe
  <2>. QED BY <1>1, <2>1, <2>2, <2>3 DEF Wrote
<1>3. t \in DOMAIN issued' /\ v.status \in {"active", "revoked"}
  BY DEF Credible
<1>4. DOMAIN issued \subseteq DOMAIN issued' /\ asked \subseteq asked'
      /\ \A u \in DOMAIN issued : issued'[u] = issued[u]
  BY DEF Grows
<1>5. /\ \A e \in log' : e \in log \/ e \in entry
      /\ \A e \in entry : e = <<"delegated", t>> \/ e = <<"revoked", t>>
  BY DEF Saves
<1>6. /\ \A r \in Req : \A what \in {"submitted", "approved", "denied", "blocked"} :
            <<what, r>> \in log' => <<what, r>> \in log
      /\ \A u \in Tok : \A what \in {"claimed", "delegated", "revoked"} :
            <<what, u>> \in log' => <<what, u>> \in log \/ u = t
  BY <1>5
<1>7. Logged'
  BY <1>3, <1>4, <1>6 DEF Logged
<1>8. FilesAgree'
  <2>1. ASSUME NEW r \in Req, NEW u \in Tok,
               Safe("requests", r)', Safe("tokens", u)', Names(r, u)'
        PROVE  OnDisk("tokens", u)'.status # "absent"
    <3>1. OnDisk("tokens", u).status # "absent"
      BY <1>2, <2>1 DEF Names, FilesAgree
    <3>. QED BY <1>2, <1>3, <2>1, <3>1
  <2>2. ASSUME NEW r \in Req, Safe("requests", r)'
        PROVE  RequestAsLogged(log', r, OnDisk("requests", r)'.status)
    BY <1>2, <1>6, <2>2 DEF FilesAgree, RequestAsLogged
  <2>3. ASSUME NEW u \in Tok, Safe("tokens", u)'
        PROVE  TokenAsLogged(log', u, OnDisk("tokens", u)'.status)
    <3>1. TokenAsLogged(log, u, OnDisk("tokens", u).status)
      BY <1>2, <2>3 DEF FilesAgree
    <3>2. CASE u # t
      BY <1>2, <1>6, <2>3, <3>1, <3>2 DEF TokenAsLogged
    <3>3. CASE u = t /\ log' = log
      <4>1. <<"revoked", t>> \in log => v.status = "revoked"
        BY DEF Logged
      <4>. QED BY <1>2, <1>3, <2>3, <3>1, <3>3, <4>1 DEF TokenAsLogged
    <3>4. CASE u = t /\ log' # log
      <4>1. OnDisk("tokens", t)' = v
        BY <2>3, <3>4 DEF Saves, Recorded, Persisted
      <4>2. <<"revoked", t>> \in log' => v.status = "revoked"
        BY <1>5 DEF Logged
      <4>. QED BY <1>3, <3>4, <4>1, <4>2 DEF TokenAsLogged
    <3>. QED BY <3>2, <3>3, <3>4
  <2>. QED BY <2>1, <2>2, <2>3 DEF FilesAgree, RequestAsLogged, TokenAsLogged
<1>9. Handed'
  <2>1. ASSUME NEW u \in handed', NEW r \in Req, MadeFor(u, r)', Single(r)' PROVE Names(r, u)'
    <3>1. u \in handed /\ u \in DOMAIN issued
      BY <2>1 DEF MadeFor, TypeOK
    <3>2. MadeFor(u, r) /\ Single(r)
      BY <1>2, <1>4, <2>1, <3>1 DEF MadeFor, Single
    <3>3. Names(r, u)
      BY <3>1, <3>2 DEF Handed
    <3>. QED BY <1>2, <2>1, <3>3 DEF Names, Single
  <2>. QED BY <2>1 DEF Handed
<1>10. Stays'
  <2>1. ASSUME NEW u \in revoked, Safe("tokens", u)' PROVE OnDisk("tokens", u)'.status # "active"
    <3>1. u \in DOMAIN issued /\ u \in Tok
      BY IssuedFacts DEF TypeOK
    <3>2. OnDisk("tokens", u).status # "active"
      BY <1>2, <2>1, <3>1 DEF Stays
    <3>. QED BY <1>2, <2>1, <3>1, <3>2
  <2>. QED BY <2>1 DEF Stays
<1>. QED BY <1>7, <1>8, <1>9, <1>10

\* The same of saving a request.  What v says has to fit the log before it is
\* written as well as after: the append may leave the old value or the new one.
LEMMA RequestSaved ==
  ASSUME TypeOK, Lines, Logged, FilesAgree, Handed, Stays,
         NEW r \in Req, NEW v \in RequestRec, NEW entry,
         Saves("requests", r, v, entry), Grows, Credible("requests", r, v)',
         UNCHANGED <<revoked, issued>>, overlapped \subseteq overlapped',
         entry \subseteq {<<"submitted", r>>, <<"approved", r>>, <<"denied", r>>}
                         \cup {<<"claimed", u>> : u \in DOMAIN issued},
         v.status = "approved" /\ Safe("requests", r) /\ Safe("tokens", v.token)
             => OnDisk("tokens", v.token).status # "absent",
         Safe("requests", r) => RequestAsLogged(log \cup entry, r, v.status),
         \A u \in handed' : MadeFor(u, r) /\ Single(r) => v.status = "approved" /\ v.token = u,
         \A u \in handed' : u \in handed \/ (MadeFor(u, r) /\ Recorded("requests", r, v))
  PROVE  Logged' /\ FilesAgree' /\ Handed' /\ Stays'
<1>1. "tokens" \in Store /\ "requests" \in Store /\ Key("tokens") = Tok /\ Key("requests") = Req
  BY DEF Store, Key
<1>2. PICK w : w = Persisted(v, "requests")
  OBVIOUS
<1>3. w.status = v.status /\ w.token = v.token
  BY <1>1, <1>2, PersistedFacts DEF Value
<1>4. /\ \A q \in Req : Safe("requests", q)' =>
            /\ Safe("requests", q)
            /\ q # r => OnDisk("requests", q)' = OnDisk("requests", q)
            /\ q = r => OnDisk("requests", q)' \in {OnDisk("requests", q), w}
      /\ \A u \in Tok : Safe("tokens", u)' =>
            Safe("tokens", u) /\ OnDisk("tokens", u)' = OnDisk("tokens", u)
  <2>1. Wrote("requests", r, v) /\ lost \subseteq lost'
    BY DEF Saves, Wrote
  <2>2. \A q \in Store : \A i \in Key(q) : Safe(q, i)' => Safe(q, i)
    BY <2>1 DEF Safe
  <2>. QED BY <1>1, <1>2, <2>1, <2>2 DEF Wrote
<1>5. r \in asked' /\ v.status # "absent"
  BY DEF Credible
<1>6. DOMAIN issued \subseteq DOMAIN issued' /\ asked \subseteq asked'
  BY DEF Grows
<1>7. /\ \A q \in Req : \A what \in {"submitted", "approved", "denied", "blocked"} :
            <<what, q>> \in log' => <<what, q>> \in log \/ q = r
      /\ \A u \in Tok : \A what \in {"claimed", "delegated", "revoked"} :
            <<what, u>> \in log' => <<what, u>> \in log \/ (what = "claimed" /\ u \in DOMAIN issued)
  BY DEF Saves
<1>8. Logged'
  BY <1>5, <1>6, <1>7 DEF Logged
<1>9. FilesAgree'
  <2>1. ASSUME NEW q \in Req, NEW u \in Tok,
               Safe("requests", q)', Safe("tokens", u)', Names(q, u)'
        PROVE  OnDisk("tokens", u)'.status # "absent"
    <3>1. CASE OnDisk("requests", q)' = OnDisk("requests", q)
      BY <1>4, <2>1, <3>1 DEF Names, FilesAgree
    <3>2. CASE q = r /\ OnDisk("requests", q)' = w
      BY <1>3, <1>4, <2>1, <3>2 DEF Names
    <3>. QED BY <1>4, <2>1, <3>1, <3>2
  <2>2. ASSUME NEW q \in Req, Safe("requests", q)'
        PROVE  RequestAsLogged(log', q, OnDisk("requests", q)'.status)
    <3>1. RequestAsLogged(log, q, OnDisk("requests", q).status)
      BY <1>4, <2>2 DEF FilesAgree
    <3>2. CASE q # r
      BY <1>4, <1>7, <2>2, <3>1, <3>2 DEF RequestAsLogged
    <3>3. q = r => RequestAsLogged(log', r, w.status)
      <4>1. log' \subseteq log \cup entry
        BY DEF Saves
      <4>2. q = r => RequestAsLogged(log \cup entry, r, v.status)
        BY <1>4, <2>2
      <4>. QED BY <1>3, <4>1, <4>2 DEF RequestAsLogged
    <3>4. CASE q = r /\ log' # log
      BY <1>2, <2>2, <3>3, <3>4 DEF Saves, Recorded
    <3>5. CASE q = r /\ log' = log
      BY <1>4, <2>2, <3>1, <3>3, <3>5
    <3>. QED BY <3>2, <3>4, <3>5
  <2>3. ASSUME NEW u \in Tok, Safe("tokens", u)'
        PROVE  TokenAsLogged(log', u, OnDisk("tokens", u)'.status)
    <3>1. TokenAsLogged(log, u, OnDisk("tokens", u).status)
      BY <1>4, <2>3 DEF FilesAgree
    <3>. QED BY <1>4, <1>7, <2>3, <3>1 DEF TokenAsLogged
  <2>. QED BY <2>1, <2>2, <2>3 DEF FilesAgree, RequestAsLogged, TokenAsLogged
<1>10. Handed'
  <2>1. ASSUME NEW u \in handed', NEW q \in Req, MadeFor(u, q)', Single(q)' PROVE Names(q, u)'
    <3>1. MadeFor(u, q) /\ Single(q) /\ Safe("requests", q)'
      BY <1>4, <2>1 DEF MadeFor, Single
    <3>2. u \in handed => Names(q, u)
      BY <3>1 DEF Handed
    <3>3. CASE q # r
      <4>1. ~MadeFor(u, r)
        BY <3>1, <3>3 DEF MadeFor
      <4>. QED BY <1>4, <3>1, <3>2, <3>3, <4>1 DEF Names
    <3>4. CASE q = r
      <4>1. w.status = "approved" /\ w.token = u
        BY <1>3, <3>1, <3>4
      <4>2. CASE u \in handed
        BY <1>4, <3>1, <3>2, <3>4, <4>1, <4>2 DEF Names
      <4>3. CASE u \notin handed
        BY <1>2, <2>1, <3>1, <3>4, <4>1, <4>3 DEF Names, Recorded
      <4>. QED BY <4>2, <4>3
    <3>. QED BY <3>3, <3>4
  <2>. QED BY <2>1 DEF Handed
<1>11. Stays'
  <2>1. ASSUME NEW u \in revoked, Safe("tokens", u)' PROVE OnDisk("tokens", u)'.status # "active"
    <3>1. u \in DOMAIN issued /\ u \in Tok
      BY IssuedFacts DEF TypeOK
    <3>. QED BY <1>4, <2>1, <3>1 DEF Stays
  <2>. QED BY <2>1 DEF Stays
<1>. QED BY <1>8, <1>9, <1>10, <1>11

-----------------------------------------------------------------------------
(* The initial states, and the steps that save nothing.                    *)

\* The rest of the types.
OtherTypes ==
    /\ up \in BOOLEAN
    /\ hashing \in [Req -> 0..MaxTok] /\ delegating \in [Tok -> 0..MaxTok]
    /\ approving \in Req \cup {None} /\ path \in Seq(Tok)
    /\ asked \subseteq Req /\ overlapped \subseteq Req
    /\ handed \cup revoked \cup covered \cup fresh \subseteq DOMAIN issued
    /\ issued \in Seq([req : Req, parent : Tok \cup {None}]) /\ Len(issued) <= MaxTok
    /\ revokes \in 0..MaxRevokes /\ faults \in 0..MaxFaults

\* The two halves are the whole.
LEMMA TypeHalves == (TypeOK <=> StoreTypes /\ OtherTypes)
                    /\ (TypeOK' <=> StoreTypes' /\ OtherTypes')
  BY DEF TypeOK, StoreTypes, OtherTypes, AnyLine, Ids

\* It holds before anything was asked for.
LEMMA InitInv == Init => IInv
<1>. SUFFICES ASSUME Init PROVE IInv
  OBVIOUS
<1>1. /\ mem = Nothing /\ "tokens" \in Store /\ "requests" \in Store
      /\ \A s \in Store : disk[s] = NoFile
      /\ NoFile.lines = <<>> /\ NoFile.torn = FALSE
  BY DEF Init, Store, NoFile
<1>2. \A E : NoFile \in FileOf(E)
  <2>1. ASSUME NEW E PROVE NoFile \in FileOf(E)
    <3>1. <<>> \in Seq(LineOf(E))
      BY EmptySeq
    <3>. QED BY <3>1 DEF NoFile, FileOf, LineOf
  <2>. QED BY <2>1
<1>3. EntriesOf(NoFile) = {}
  BY DEF EntriesOf, NoFile, ToSet
<1>4. \A k, absent : Replay(NoFile, k, absent) = absent
  BY DEF Replay, LinesOf, NoFile
<1>5. \A s \in Store : \A k \in Key(s) : OnDisk(s, k) = Nothing[s][k]
  BY <1>1, <1>4 DEF OnDisk
<1>6. StoreTypes
  <2>1. NoToken \in TokenRec /\ NoRequest \in RequestRec
    BY DEF NoToken, NoRequest, TokenRec, RequestRec
  <2>2. mem["tokens"] = [t \in Tok |-> NoToken] /\ mem["requests"] = [r \in Req |-> NoRequest]
    BY <1>1 DEF Nothing
  <2>3. mem \in [Store -> [Tok -> TokenRec] \cup [Req -> RequestRec]]
    <3>1. mem = [s \in Store |-> mem[s]]
      BY <1>1 DEF Nothing
    <3>2. \A s \in Store : s = "tokens" \/ s = "requests"
      BY DEF Store
    <3>. QED BY <2>1, <2>2, <3>1, <3>2
  <2>4. disk \in [Store -> FileOf(AnyLine)] /\ \A s \in Store : disk[s] \in FileOf(LineRec(s))
    <3>1. NoFile \in FileOf(AnyLine) /\ \A s \in Store : NoFile \in FileOf(LineRec(s))
      BY <1>2
    <3>2. disk = [s \in Store |-> NoFile]
      BY DEF Init
    <3>3. disk \in [Store -> FileOf(AnyLine)]
      BY <3>1, <3>2
    <3>4. \A s \in Store : disk[s] \in FileOf(LineRec(s))
      BY <3>1, <3>2
    <3>. QED BY <3>3, <3>4
  <2>. QED BY <2>1, <2>2, <2>3, <2>4 DEF StoreTypes, Init
<1>7. OtherTypes
  <2>1. <<>> \in Seq(Tok) /\ <<>> \in Seq([req : Req, parent : Tok \cup {None}]) /\ Len(<<>>) = 0
    BY EmptySeq
  <2>. QED BY <2>1, RecoveryAssumption DEF OtherTypes, Init
<1>8. Lines /\ Maps /\ Mirror
  <2>1. ASSUME NEW s \in Store, NEW k \in Key(s) PROVE Persisted(Nothing[s][k], s) = Nothing[s][k]
    <3>1. CASE s = "tokens"
      BY <3>1, PersistedFacts, StoreFacts
    <3>2. CASE s = "requests"
      <4>1. Nothing[s][k] = NoRequest
        BY <3>2 DEF Nothing, Store, Key
      <4>2. NoRequest \in RequestRec /\ NoRequest.secret = FALSE
        BY DEF NoRequest, RequestRec
      <4>3. \A v \in RequestRec : v.secret = FALSE => [v EXCEPT !.secret = FALSE] = v
        BY DEF RequestRec
      <4>. QED BY <3>2, <4>1, <4>2, <4>3 DEF Persisted
    <3>. QED BY <3>1, <3>2 DEF Store
  <2>. QED BY <1>1, <1>3, <1>5, <2>1 DEF Lines, Maps, Mirror, Init
<1>9. Logged /\ FilesAgree /\ Handed /\ Stays
  <2>1. \A r \in Req : OnDisk("requests", r).status = "absent"
    BY <1>1, <1>5 DEF Nothing, NoRequest, Key
  <2>. QED BY <2>1 DEF Logged, FilesAgree, Handed, Stays, Names, RequestAsLogged,
                       TokenAsLogged, Init
<1>10. Secrets /\ Waiting /\ Approving /\ Cascading
  BY <1>1 DEF Secrets, Waiting, Approving, Cascading, Init, Nothing, NoRequest
<1>. QED BY <1>6, <1>7, <1>8, <1>9, <1>10, TypeHalves DEF IInv

\* Where nothing is saved or logged, the files and what is said of them stay.
LEMMA Still ==
  ASSUME IInv, UNCHANGED <<disk, log, lost, asked, issued, handed>>,
         overlapped \subseteq overlapped'
  PROVE  /\ Lines' /\ Logged' /\ FilesAgree' /\ Handed'
         /\ mem' = mem => StoreTypes'
         /\ up /\ up' = up /\ mem' = mem => Maps' /\ Mirror'
         /\ revoked' = revoked => Stays'
<1>1. \A s, k : OnDisk(s, k)' = OnDisk(s, k) /\ (Safe(s, k)' <=> Safe(s, k))
  BY DEF OnDisk, Safe
<1>2. mem' = mem => StoreTypes'
  BY TypeHalves DEF IInv, StoreTypes
<1>3. Lines'
  BY DEF IInv, Lines, Credible
<1>4. Logged'
  BY DEF IInv, Logged
<1>5. FilesAgree'
  BY <1>1 DEF IInv, FilesAgree, Names
<1>6. Handed'
  BY <1>1 DEF IInv, Handed, MadeFor, Single, Names
<1>7. ASSUME up, up' = up, mem' = mem PROVE Maps' /\ Mirror'
  <2>1. Maps'
    BY <1>7 DEF IInv, Maps, Credible
  <2>2. Mirror'
    BY <1>1, <1>7 DEF IInv, Mirror
  <2>. QED BY <2>1, <2>2
<1>8. revoked' = revoked => Stays'
  BY <1>1 DEF IInv, Stays
<1>. QED BY <1>2, <1>3, <1>4, <1>5, <1>6, <1>7, <1>8

\* Names of requests are not None.
LEMMA NoneIsNot == None \notin Req /\ None \notin Tok
  BY NoneAssumption, RecoveryAssumption DEF Tok

\* A request or token a Map has has been asked for or issued.
LEMMA MapFacts ==
  ASSUME TypeOK, Maps, up
  PROVE  /\ \A r \in Req :
               LET v == mem.requests[r] IN
               /\ v \in RequestRec
               /\ (v.status = "absent" /\ ~v.secret) \/ Credible("requests", r, v)
         /\ \A t \in Tok :
               LET v == mem.tokens[t] IN
               v \in TokenRec /\ (v = NoToken \/ Credible("tokens", t, v))
<1>1. /\ "tokens" \in Store /\ "requests" \in Store /\ Key("tokens") = Tok
      /\ Key("requests") = Req
      /\ \A r \in Req : Nothing["requests"][r] = NoRequest
      /\ \A t \in Tok : Nothing["tokens"][t] = NoToken
  BY DEF Store, Key, Nothing
<1>2. NoRequest.status = "absent" /\ ~NoRequest.secret
  BY DEF NoRequest
<1>3. mem.requests \in [Req -> RequestRec] /\ mem.tokens \in [Tok -> TokenRec]
  BY DEF TypeOK
<1>4. ASSUME NEW r \in Req
      PROVE  \/ mem.requests[r].status = "absent" /\ ~mem.requests[r].secret
             \/ Credible("requests", r, mem.requests[r])
  BY <1>1, <1>2 DEF Maps
<1>5. ASSUME NEW t \in Tok
      PROVE  mem.tokens[t] = NoToken \/ Credible("tokens", t, mem.tokens[t])
  BY <1>1 DEF Maps
<1>. QED BY <1>3, <1>4, <1>5

\* The entry of an approval that was stopped tells no more than that there was
\* the request.
LEMMA StoppedIsLogged ==
  ASSUME IInv, up, NEW r \in Req, mem.requests[r].status # "absent",
         log' = log \/ log' = log \cup {<<"blocked", r>>},
         UNCHANGED <<up, mem, disk, lost, asked, issued, handed, revoked, overlapped>>
  PROVE  StoreTypes' /\ Lines' /\ Mirror' /\ Logged' /\ FilesAgree' /\ Handed' /\ Maps' /\ Stays'
<1>1. \A s, k : OnDisk(s, k)' = OnDisk(s, k) /\ (Safe(s, k)' <=> Safe(s, k))
  BY DEF OnDisk, Safe
<1>2. StoreTypes'
  <2>1. <<"blocked", r>> \in Event
    BY DEF Event
  <2>. QED BY <2>1, TypeHalves DEF IInv, StoreTypes
<1>3. Lines' /\ Maps' /\ Mirror'
  <2>1. Lines' /\ Maps'
    BY DEF IInv, Lines, Maps, Credible
  <2>2. Mirror'
    BY <1>1 DEF IInv, Mirror
  <2>. QED BY <2>1, <2>2
<1>4. /\ \A what : what # "blocked" =>
            \A x : <<what, x>> \in log' <=> <<what, x>> \in log
      /\ \A q : <<"blocked", q>> \in log' => <<"blocked", q>> \in log \/ q = r
  OBVIOUS
<1>5. r \in asked
  BY MapFacts DEF IInv, Credible
<1>6. Logged'
  <2>1. ASSUME NEW q \in Req,
               NEW what \in {"submitted", "approved", "denied", "blocked"},
               <<what, q>> \in log'
        PROVE  q \in asked
    BY <1>4, <1>5, <2>1 DEF IInv, Logged
  <2>2. ASSUME NEW t \in Tok, NEW what \in {"claimed", "delegated", "revoked"},
               <<what, t>> \in log'
        PROVE  t \in DOMAIN issued
    BY <1>4, <2>2 DEF IInv, Logged
  <2>. QED BY <2>1, <2>2 DEF Logged
<1>7. FilesAgree'
  <2>1. Safe("requests", r) => OnDisk("requests", r).status # "absent"
    <3>1. "requests" \in Store /\ r \in Key("requests")
      BY DEF Store, Key
    <3>2. mem.requests[r] \in RequestRec
      BY MapFacts DEF IInv
    <3>. QED BY <3>1, <3>2, PersistedFacts DEF IInv, Mirror, Value
  <2>2. ASSUME NEW q \in Req, Safe("requests", q)
        PROVE  RequestAsLogged(log', q, OnDisk("requests", q).status)
    <3>1. RequestAsLogged(log, q, OnDisk("requests", q).status)
      BY <2>2 DEF IInv, FilesAgree
    <3>. QED BY <1>4, <2>1, <2>2, <3>1 DEF RequestAsLogged
  <2>3. ASSUME NEW t \in Tok, Safe("tokens", t)
        PROVE  TokenAsLogged(log', t, OnDisk("tokens", t).status)
    <3>1. TokenAsLogged(log, t, OnDisk("tokens", t).status)
      BY <2>3 DEF IInv, FilesAgree
    <3>. QED BY <1>4, <3>1 DEF TokenAsLogged
  <2>4. \A q \in Req, t \in Tok : Names(q, t)' <=> Names(q, t)
    BY <1>1 DEF Names
  <2>. QED BY <1>1, <2>2, <2>3, <2>4 DEF IInv, FilesAgree
<1>8. Handed' /\ Stays'
  BY <1>1 DEF IInv, Handed, MadeFor, Single, Names, Stays
<1>. QED BY <1>2, <1>3, <1>6, <1>7, <1>8

\* What an operation that only logs does.
LEMMA LogsOnlyFacts ==
  ASSUME TypeOK, NEW entry, LogsOnly(entry)
  PROVE  /\ log' = log \/ log' = log \cup {entry}
         /\ UNCHANGED <<up, mem, disk, lost>>
         /\ faults' \in 0..MaxFaults
  BY RecoveryAssumption DEF LogsOnly, Fault, TypeOK

\* A policy or the scope stops an approval before its hash.
LEMMA ApproveBlockedStep ==
  ASSUME IInv, NEW r \in Req, ApproveBlocked(r) PROVE IInv'
<1>1. /\ UNCHANGED <<up, mem, disk, lost, hashing, delegating, approving, path, fresh,
                     overlapped, asked, issued, handed, revoked, covered, revokes>>
      /\ log' = log \/ log' = log \cup {<<"blocked", r>>}
      /\ faults' \in 0..MaxFaults
      /\ up /\ approving = None /\ path = <<>> /\ mem.requests[r].status = "pending"
  BY TypeHalves, LogsOnlyFacts DEF IInv, ApproveBlocked, Idle, process
<1>2. /\ StoreTypes' /\ Lines' /\ Mirror' /\ Logged' /\ FilesAgree' /\ Handed' /\ Maps' /\ Stays'
  BY <1>1, StoppedIsLogged
<1>3. OtherTypes'
  BY <1>1, TypeHalves DEF IInv, OtherTypes
<1>4. Waiting'
  BY <1>1 DEF IInv, Waiting, Waits, Single, Safe
<1>5. Secrets' /\ Approving' /\ Cascading'
  BY <1>1 DEF IInv, Secrets, Approving, Cascading
<1>. QED BY <1>2, <1>3, <1>4, <1>5, TypeHalves DEF IInv

\* A call begins to wait for a hash.
LEMMA ApproveBeginStep ==
  ASSUME IInv, NEW r \in Req, ApproveBegin(r) PROVE IInv'
<1>0. hashing' = [hashing EXCEPT ![r] = @ + 1]
  BY DEF ApproveBegin
<1>1. /\ overlapped' = IF hashing[r] > 0 THEN overlapped \cup {r} ELSE overlapped
      /\ UNCHANGED <<up, mem, disk, log, lost, delegating, approving, path, fresh, asked, issued,
                     handed, revoked, covered, revokes, faults>>
      /\ up /\ approving = None /\ path = <<>>
      /\ mem.requests[r].status = "pending" /\ Len(issued) + hashing[r] < MaxTok
  BY DEF ApproveBegin, Idle, files
<1>2. /\ StoreTypes' /\ Lines' /\ Mirror' /\ Logged' /\ FilesAgree' /\ Handed' /\ Maps' /\ Stays'
  BY <1>1, Still
<1>3. hashing \in [Req -> 0..MaxTok] /\ MaxTok \in Nat /\ Len(issued) \in 0..MaxTok
  BY IssuedFacts DEF IInv, TypeOK
<1>4. hashing'[r] = hashing[r] + 1 /\ \A q \in Req : q # r => hashing'[q] = hashing[q]
  BY <1>0, <1>1, <1>3
<1>5. OtherTypes'
  <2>1. hashing' \in [Req -> 0..MaxTok]
    BY <1>0, <1>1, <1>3
  <2>. QED BY <1>1, <2>1, TypeHalves DEF IInv, OtherTypes
<1>6. r \in asked
  BY <1>1, MapFacts DEF IInv, Credible
<1>7. Waiting'
  <2>1. ASSUME NEW q \in Req, hashing'[q] > 0 PROVE Waits(q)'
    <3>1. CASE q = r
      BY <1>1, <1>3, <1>4, <1>6, <3>1, NoneIsNot DEF Waits
    <3>2. CASE q # r
      <4>1. hashing[q] > 0 /\ (Single(q)' => Single(q))
        BY <1>1, <1>4, <2>1, <3>2 DEF Single, Safe
      <4>. QED BY <1>1, <1>4, <3>2, <4>1 DEF IInv, Waiting, Waits
    <3>. QED BY <3>1, <3>2
  <2>. QED BY <1>1, <2>1 DEF IInv, Waiting
<1>8. Secrets' /\ Approving' /\ Cascading'
  BY <1>1 DEF IInv, Secrets, Approving, Cascading
<1>. QED BY <1>2, <1>5, <1>7, <1>8, TypeHalves DEF IInv

\* The approval is given up after its hash.
LEMMA ApproveRefusedStep ==
  ASSUME IInv, NEW r \in Req, ApproveRefused(r) PROVE IInv'
<1>0. hashing' = [hashing EXCEPT ![r] = @ - 1]
  BY DEF ApproveRefused
<1>1. /\ hashing[r] > 0
      /\ UNCHANGED <<up, mem, disk, lost, delegating, approving, path, fresh, overlapped,
                     asked, issued, handed, revoked, covered, revokes>>
      /\ log' = log \/ log' = log \cup {<<"blocked", r>>}
      /\ faults' \in 0..MaxFaults
      /\ up /\ approving = None /\ path = <<>>
  BY TypeHalves, LogsOnlyFacts DEF IInv, ApproveRefused, Idle
<1>2. /\ StoreTypes' /\ Lines' /\ Mirror' /\ Logged' /\ FilesAgree' /\ Handed' /\ Maps' /\ Stays'
  <2>1. mem.requests[r].status # "absent"
    BY <1>1 DEF IInv, Waiting, Waits
  <2>. QED BY <1>1, <2>1, StoppedIsLogged
<1>3. hashing \in [Req -> 0..MaxTok] /\ MaxTok \in Nat
  BY IssuedFacts DEF IInv, TypeOK
<1>4. hashing'[r] = hashing[r] - 1 /\ \A q \in Req : q # r => hashing'[q] = hashing[q]
  BY <1>0, <1>1, <1>3
<1>5. OtherTypes'
  <2>1. hashing' \in [Req -> 0..MaxTok]
    BY <1>0, <1>1, <1>3
  <2>. QED BY <1>1, <2>1, TypeHalves DEF IInv, OtherTypes
<1>6. Waiting'
  <2>1. ASSUME NEW q \in Req, hashing'[q] > 0 PROVE Waits(q)'
    <3>1. hashing[q] > 0 /\ (Single(q)' => Single(q)) /\ hashing[q] \in Nat
      BY <1>1, <1>3, <1>4, <2>1 DEF Single, Safe
    <3>2. Waits(q)
      BY <3>1 DEF IInv, Waiting
    <3>3. q # r \/ q \in overlapped
      BY <1>3, <1>4, <2>1, <3>1, <3>2 DEF Waits
    <3>. QED BY <1>1, <1>4, <3>1, <3>2, <3>3 DEF Waits
  <2>. QED BY <1>1, <2>1 DEF IInv, Waiting
<1>7. Secrets' /\ Approving' /\ Cascading'
  BY <1>1 DEF IInv, Secrets, Approving, Cascading
<1>. QED BY <1>2, <1>5, <1>6, <1>7, TypeHalves DEF IInv

\* A delegation begins to wait, or is refused.
LEMMA DelegateWaitStep ==
  ASSUME IInv, NEW p \in Tok, DelegateBegin(p) \/ DelegateRefused(p) PROVE IInv'
<1>1. /\ UNCHANGED <<up, mem, disk, log, lost, hashing, approving, path, fresh, overlapped,
                     asked, issued, handed, revoked, covered, revokes, faults>>
      /\ up /\ approving = None /\ path = <<>>
  BY DEF DelegateBegin, DelegateRefused, Idle, files
<1>2. /\ StoreTypes' /\ Lines' /\ Mirror' /\ Logged' /\ FilesAgree' /\ Handed' /\ Maps' /\ Stays'
  BY <1>1, Still
<1>3. delegating \in [Tok -> 0..MaxTok] /\ MaxTok \in Nat /\ Len(issued) \in 0..MaxTok
  BY IssuedFacts DEF IInv, TypeOK
<1>4. delegating' \in [Tok -> 0..MaxTok]
      /\ \A q \in Tok : delegating'[q] > 0 => q \in handed
  <2>1. CASE DelegateBegin(p)
    BY <1>3, <2>1 DEF DelegateBegin, IInv, Waiting
  <2>2. CASE DelegateRefused(p)
    BY <1>3, <2>2 DEF DelegateRefused, IInv, Waiting
  <2>. QED BY <2>1, <2>2
<1>5. OtherTypes'
  BY <1>1, <1>4, TypeHalves DEF IInv, OtherTypes
<1>6. Waiting'
  BY <1>1, <1>4 DEF IInv, Waiting, Waits, Single, Safe
<1>7. Secrets' /\ Approving' /\ Cascading'
  BY <1>1 DEF IInv, Secrets, Approving, Cascading
<1>. QED BY <1>2, <1>5, <1>6, <1>7, TypeHalves DEF IInv

-----------------------------------------------------------------------------
(* The steps that save a request.                                          *)

\* What they have in common.  The hypotheses say what v must be for the files
\* to agree before and after, and that no secret is held twice.
LEMMA RequestStep ==
  ASSUME IInv, up, path = <<>>, NEW r \in Req, NEW v \in RequestRec,
         NEW entry \in SUBSET Event, Saves("requests", r, v, entry),
         \/ Goes("requests", r, v) /\ approving' = None
            /\ UNCHANGED <<hashing, delegating, path, fresh>>
         \/ Falls,
         UNCHANGED <<issued, revoked, covered, overlapped, revokes>>,
         asked' \in {asked, asked \cup {r}}, r \in asked',
         handed \subseteq handed', handed' \subseteq DOMAIN issued,
         v.status # "absent", v.secret => v.status = "approved",
         v.status = "approved" => /\ v.token \in DOMAIN issued /\ MadeFor(v.token, r)
                                  /\ hashing[r] = 0 \/ ~Single(r),
         entry \subseteq {<<"submitted", r>>, <<"approved", r>>, <<"denied", r>>}
                         \cup {<<"claimed", u>> : u \in DOMAIN issued},
         v.status = "approved" /\ Safe("requests", r) /\ Safe("tokens", v.token)
             => OnDisk("tokens", v.token).status # "absent",
         Safe("requests", r) => RequestAsLogged(log \cup entry, r, v.status),
         \A u \in handed' : MadeFor(u, r) /\ Single(r) => v.status = "approved" /\ v.token = u,
         \A u \in handed' : u \in handed \/ (MadeFor(u, r) /\ Recorded("requests", r, v)),
         v.secret => v.token \in fresh /\ <<"claimed", v.token>> \notin log \cup entry,
         \A q \in Req : q # r /\ mem.requests[q].secret
             => <<"claimed", mem.requests[q].token>> \notin entry
  PROVE  IInv'
<1>1. "requests" \in Store /\ r \in Key("requests") /\ v \in Value("requests")
  BY DEF Store, Key, Value
<1>2. Grows
  BY DEF Grows
<1>3. Credible("requests", r, v)'
  BY DEF Credible, MadeFor
<1>4. StoreTypes' /\ Lines' /\ Maps' /\ Mirror'
  BY <1>1, <1>2, <1>3, SavesKeeps DEF IInv
<1>5. Logged' /\ FilesAgree' /\ Handed' /\ Stays'
  BY <1>2, <1>3, RequestSaved DEF IInv
<1>6. /\ \A q \in Req : Single(q)' => Single(q)
      /\ log' \subseteq log \cup entry /\ faults' \in 0..MaxFaults
      /\ handed \cup revoked \cup covered \cup fresh \subseteq DOMAIN issued
  BY TypeHalves DEF Saves, Wrote, Single, Safe, IInv, OtherTypes
<1>7. CASE Falls
  <2>1. mem'.requests = [q \in Req |-> NoRequest] /\ ~NoRequest.secret /\ Cascading'
        /\ hashing' \in [Req -> 0..MaxTok] /\ delegating' \in [Tok -> 0..MaxTok]
    BY <1>7, FallsStep DEF NoRequest
  <2>2. OtherTypes'
    <3>1. up' \in BOOLEAN /\ path' \in Seq(Tok) /\ approving' \in Req \cup {None} /\ fresh' = {}
      BY <1>7, EmptySeq DEF Falls
    <3>2. asked' \subseteq Req
      BY TypeHalves DEF IInv, OtherTypes
    <3>. QED BY <1>6, <2>1, <3>1, <3>2, TypeHalves DEF IInv, OtherTypes
  <2>3. Secrets'
    BY <2>1 DEF Secrets
  <2>4. Waiting' /\ Approving'
    BY <1>7 DEF Waiting, Approving, Falls
  <2>. QED BY <1>4, <1>5, <2>1, <2>2, <2>3, <2>4, TypeHalves DEF IInv
<1>8. CASE /\ Goes("requests", r, v) /\ approving' = None
           /\ UNCHANGED <<hashing, delegating, path, fresh>>
  <2>1. /\ mem'.requests[r] = v
        /\ \A q \in Req : q # r => mem'.requests[q] = mem.requests[q]
    <3>1. /\ mem'["requests"][r] = v
          /\ \A q \in Key("requests") : q # r => mem'["requests"][q] = mem["requests"][q]
      BY <1>1, <1>8, GoesStep DEF IInv
    <3>. QED BY <3>1 DEF Key
  <2>2. up' = up
    BY <1>8 DEF Goes
  <2>3. OtherTypes'
    <3>1. asked' \subseteq Req
      BY TypeHalves DEF IInv, OtherTypes
    <3>. QED BY <1>6, <1>8, <2>2, <3>1, TypeHalves DEF IInv, OtherTypes
  <2>4. Secrets'
    <3>1. ASSUME NEW q \in Req, mem'.requests[q].secret, NEW t, t = mem'.requests[q].token
          PROVE  t \in fresh /\ <<"claimed", t>> \notin log'
      <4>1. CASE q = r
        BY <1>6, <2>1, <3>1, <4>1
      <4>2. CASE q # r
        <5>1. mem.requests[q].secret /\ t = mem.requests[q].token
          BY <2>1, <3>1, <4>2
        <5>2. t \in fresh /\ <<"claimed", t>> \notin log
          BY <5>1 DEF IInv, Secrets
        <5>. QED BY <1>6, <4>2, <5>1, <5>2
      <4>. QED BY <4>1, <4>2
    <3>. QED BY <1>8, <3>1 DEF Secrets
  <2>5. Waiting'
    <3>1. ASSUME NEW q \in Req, hashing[q] > 0 PROVE Waits(q)'
      <4>1. Waits(q)
        BY <3>1 DEF IInv, Waiting
      <4>2. q \in asked' /\ (q \notin overlapped' => hashing'[q] = 1 /\ approving' # q)
        BY <1>8, <4>1, NoneIsNot DEF Waits
      <4>3. Single(q)' => mem'.requests[q].status # "approved"
        <5>1. CASE q = r
          BY <1>6, <2>1, <3>1, <5>1
        <5>2. CASE q # r
          BY <1>6, <2>1, <4>1, <5>2 DEF Waits
        <5>. QED BY <5>1, <5>2
      <4>4. mem'.requests[q].status # "absent"
        <5>1. CASE q = r
          BY <1>6, <2>1, <5>1
        <5>2. CASE q # r
          BY <1>6, <2>1, <4>1, <5>2 DEF Waits
        <5>. QED BY <5>1, <5>2
      <4>. QED BY <4>2, <4>3, <4>4 DEF Waits
    <3>2. \A p \in Tok : delegating[p] > 0 => p \in handed'
      BY DEF IInv, Waiting
    <3>. QED BY <1>8, <3>1, <3>2 DEF Waiting
  <2>6. Approving' /\ Cascading'
    BY <1>8 DEF Approving, Cascading
  <2>. QED BY <1>4, <1>5, <2>3, <2>4, <2>5, <2>6, TypeHalves DEF IInv
<1>. QED BY <1>7, <1>8

\* An operation of one save.
LEMMA OneSave ==
  ASSUME TypeOK, Idle, NEW r \in Req, NEW v \in RequestRec, NEW e, SavesRequest(r, v, e)
  PROVE  /\ Saves("requests", r, v, {e})
         /\ \/ Goes("requests", r, v) /\ approving' = None
               /\ UNCHANGED <<hashing, delegating, path, fresh>>
            \/ Falls
<1>1. "requests" \in Store /\ r \in Key("requests") /\ v \in Value("requests")
  BY DEF Store, Key, Value
<1>2. CASE (Completes("requests", r, v, {e}) \/ Throws("requests", r, v, {e}))
           /\ UNCHANGED process
  <2>1. Saves("requests", r, v, {e}) /\ Goes("requests", r, v)
    BY <1>1, <1>2, SavesStep
  <2>. QED BY <1>2, <2>1 DEF Idle, process
<1>3. CASE Dies("requests", r, v, {e})
  BY <1>1, <1>3, SavesStep
<1>. QED BY <1>2, <1>3 DEF SavesRequest

\* A request is submitted.
LEMMA SubmitStep ==
  ASSUME IInv, NEW r \in Req, Submit(r) PROVE IInv'
<1>1. PICK v : v = [NoRequest EXCEPT !.status = "pending"]
  OBVIOUS
<1>2. PICK e : e = <<"submitted", r>>
  OBVIOUS
<1>3. v \in RequestRec /\ v.status = "pending" /\ v.secret = FALSE
  BY <1>1 DEF NoRequest, RequestRec
<1>4. /\ up /\ path = <<>> /\ r \notin asked /\ asked' = asked \cup {r} /\ SavesRequest(r, v, e)
      /\ UNCHANGED <<issued, handed, revoked, covered, overlapped, revokes>> /\ Idle
  BY <1>1, <1>2 DEF Submit, Idle
<1>5. /\ Saves("requests", r, v, {e})
      /\ \/ Goes("requests", r, v) /\ approving' = None
            /\ UNCHANGED <<hashing, delegating, path, fresh>>
         \/ Falls
  BY <1>3, <1>4, OneSave DEF IInv
<1>6. /\ {e} \in SUBSET Event /\ handed \subseteq DOMAIN issued
      /\ {e} \subseteq {<<"submitted", r>>, <<"approved", r>>, <<"denied", r>>}
      /\ \A t : e # <<"claimed", t>>
  BY <1>2 DEF Event, IInv, TypeOK
<1>7. RequestAsLogged(log \cup {e}, r, v.status)
  <2>1. <<"approved", r>> \notin log /\ <<"denied", r>> \notin log
    BY <1>4 DEF IInv, Logged
  <2>. QED BY <1>2, <1>3, <2>1 DEF RequestAsLogged
<1>8. \A u \in handed : ~(MadeFor(u, r) /\ Single(r))
  <2>1. ASSUME NEW u \in handed, MadeFor(u, r), Single(r) PROVE FALSE
    <3>1. OnDisk("requests", r).status = "approved"
      BY <2>1 DEF IInv, Handed, Names
    <3>2. PICK w : w = OnDisk("requests", r)
      OBVIOUS
    <3>3. /\ "requests" \in Store /\ r \in Key("requests")
          /\ Nothing["requests"][r].status = "absent"
      BY DEF Store, Key, Nothing, NoRequest
    <3>4. Credible("requests", r, w)
      BY <3>1, <3>2, <3>3, OnDiskFacts DEF IInv
    <3>. QED BY <1>4, <3>4 DEF Credible
  <2>. QED BY <2>1
<1>. QED BY <1>3, <1>4, <1>5, <1>6, <1>7, <1>8, RequestStep

\* A request is denied.
LEMMA DenyStep ==
  ASSUME IInv, NEW r \in Req, Deny(r) PROVE IInv'
<1>1. PICK v : v = [NoRequest EXCEPT !.status = "denied"]
  OBVIOUS
<1>2. PICK e : e = <<"denied", r>>
  OBVIOUS
<1>3. v \in RequestRec /\ v.status = "denied" /\ v.secret = FALSE
  BY <1>1 DEF NoRequest, RequestRec
<1>4. /\ up /\ path = <<>> /\ mem.requests[r].status = "pending" /\ SavesRequest(r, v, e)
      /\ UNCHANGED <<asked, issued, handed, revoked, covered, overlapped, revokes>> /\ Idle
  BY <1>1, <1>2 DEF Deny, Idle
<1>5. /\ Saves("requests", r, v, {e})
      /\ \/ Goes("requests", r, v) /\ approving' = None
            /\ UNCHANGED <<hashing, delegating, path, fresh>>
         \/ Falls
  BY <1>3, <1>4, OneSave DEF IInv
<1>6. /\ {e} \in SUBSET Event /\ handed \subseteq DOMAIN issued
      /\ {e} \subseteq {<<"submitted", r>>, <<"approved", r>>, <<"denied", r>>}
      /\ \A t : e # <<"claimed", t>>
  BY <1>2 DEF Event, IInv, TypeOK
<1>7. r \in asked
  BY <1>4, MapFacts DEF IInv, Credible
<1>8. Safe("requests", r) => OnDisk("requests", r).status = "pending"
  <2>1. "requests" \in Store /\ r \in Key("requests") /\ mem.requests[r] \in Value("requests")
    BY DEF Store, Key, Value, IInv, TypeOK
  <2>. QED BY <1>4, <2>1, PersistedFacts DEF IInv, Mirror
<1>9. Safe("requests", r) => RequestAsLogged(log \cup {e}, r, v.status)
  <2>1. Safe("requests", r) => <<"approved", r>> \notin log
    BY <1>8 DEF IInv, FilesAgree, RequestAsLogged
  <2>. QED BY <1>2, <1>3, <2>1 DEF RequestAsLogged
<1>10. \A u \in handed : ~(MadeFor(u, r) /\ Single(r))
  BY <1>8 DEF IInv, Handed, Names, Single
<1>. QED BY <1>3, <1>4, <1>5, <1>6, <1>7, <1>9, <1>10, RequestStep

\* An approved request is saved, with the token that has just been.
LEMMA ApproveSaveStep ==
  ASSUME IInv, NEW r \in Req, ApproveSave(r) PROVE IInv'
<1>1. PICK t \in DOMAIN issued : Approves(r, t) /\ path = <<>>
  BY NoneIsNot DEF ApproveSave, IInv, Approving
<1>2. PICK v : v = [status |-> "approved", token |-> t, secret |-> TRUE]
  OBVIOUS
<1>3. PICK e : e = <<"approved", r>>
  OBVIOUS
<1>4. v \in RequestRec /\ v.status = "approved" /\ v.secret = TRUE /\ v.token = t
  BY <1>2, IssuedFacts DEF RequestRec, IInv
<1>5. /\ up /\ approving = r
      /\ \/ /\ Completes("requests", r, v, {e}) \/ Throws("requests", r, v, {e})
            /\ approving' = None
            /\ UNCHANGED <<hashing, delegating, path, fresh>>
         \/ Dies("requests", r, v, {e})
      /\ UNCHANGED <<asked, issued, handed, revoked, covered, overlapped, revokes>>
  BY <1>1, <1>2, <1>3 DEF ApproveSave, Approves
<1>6. /\ Saves("requests", r, v, {e})
      /\ \/ Goes("requests", r, v) /\ approving' = None
            /\ UNCHANGED <<hashing, delegating, path, fresh>>
         \/ Falls
  <2>1. "requests" \in Store /\ r \in Key("requests") /\ v \in Value("requests")
    BY <1>4 DEF Store, Key, Value
  <2>. QED BY <1>5, <2>1, SavesStep DEF IInv
<1>7. /\ {e} \in SUBSET Event /\ handed \subseteq DOMAIN issued
      /\ {e} \subseteq {<<"submitted", r>>, <<"approved", r>>, <<"denied", r>>}
      /\ \A u : e # <<"claimed", u>>
  BY <1>3 DEF Event, IInv, TypeOK
<1>8. /\ r \in asked /\ MadeFor(t, r) /\ t \in fresh /\ <<"claimed", t>> \notin log
      /\ Safe("tokens", t) => OnDisk("tokens", t).status # "absent"
  BY <1>1 DEF Approves
<1>9. hashing[r] = 0 \/ ~Single(r)
  <2>1. hashing[r] \in Nat
    BY IssuedFacts DEF IInv, TypeOK
  <2>. QED BY <1>5, <2>1 DEF IInv, Waiting, Waits, Single
<1>10. RequestAsLogged(log \cup {e}, r, v.status)
  BY <1>4 DEF RequestAsLogged
<1>11. \A u \in handed : ~(MadeFor(u, r) /\ Single(r))
  <2>1. ASSUME Single(r) PROVE OnDisk("requests", r).status # "approved"
    <3>1. mem.requests[r].status # "approved"
      BY <1>1, <2>1 DEF Approves
    <3>2. "requests" \in Store /\ r \in Key("requests") /\ mem.requests[r] \in Value("requests")
      BY DEF Store, Key, Value, IInv, TypeOK
    <3>. QED BY <1>5, <2>1, <3>1, <3>2, PersistedFacts DEF IInv, Mirror, Single
  <2>. QED BY <2>1 DEF IInv, Handed, Names
<1>. QED BY <1>1, <1>4, <1>5, <1>6, <1>7, <1>8, <1>9, <1>10, <1>11, RequestStep

\* A secret is claimed.
LEMMA ClaimStep ==
  ASSUME IInv, NEW r \in Req, Claim(r) PROVE IInv'
<1>1. PICK v : v = [mem.requests[r] EXCEPT !.secret = FALSE]
  OBVIOUS
<1>2. PICK t : t = mem.requests[r].token
  OBVIOUS
<1>3. PICK e : e = <<"claimed", t>>
  OBVIOUS
<1>4. /\ up /\ approving = None /\ path = <<>>
      /\ mem.requests[r].status = "approved" /\ mem.requests[r].secret
      /\ \/ /\ Completes("requests", r, v, {e}) /\ UNCHANGED process
            /\ handed' = handed \cup {t}
         \/ /\ \/ Throws("requests", r, v, {e}) /\ UNCHANGED process
               \/ Dies("requests", r, v, {e})
            /\ UNCHANGED handed
      /\ UNCHANGED <<asked, issued, revoked, covered, overlapped, revokes>>
  BY <1>1, <1>2, <1>3 DEF Claim, Idle
<1>5. /\ mem.requests[r] \in RequestRec /\ t \in DOMAIN issued /\ MadeFor(t, r) /\ r \in asked
      /\ \A q \in Req : mem.requests[q].secret => MadeFor(mem.requests[q].token, q)
  BY <1>2, <1>4, MapFacts DEF IInv, Credible, MadeFor
<1>6. v \in RequestRec /\ v.status = "approved" /\ v.secret = FALSE /\ v.token = t
  <2>1. PICK w \in RequestRec : w = mem.requests[r]
    BY <1>5
  <2>2. v = [w EXCEPT !.secret = FALSE] /\ w.status = "approved" /\ w.token = t
    BY <1>1, <1>2, <1>4, <2>1
  <2>. QED BY <2>2 DEF RequestRec
<1>7. /\ Saves("requests", r, v, {e})
      /\ \/ Goes("requests", r, v) /\ approving' = None
            /\ UNCHANGED <<hashing, delegating, path, fresh>>
         \/ Falls
      /\ handed' \in {handed, handed \cup {t}}
      /\ \A u \in handed' : u \in handed \/ (MadeFor(u, r) /\ Recorded("requests", r, v))
  <2>1. "requests" \in Store /\ r \in Key("requests") /\ v \in Value("requests")
    BY <1>6 DEF Store, Key, Value
  <2>2. /\ Completes("requests", r, v, {e}) =>
              Saves("requests", r, v, {e}) /\ Goes("requests", r, v)
        /\ Throws("requests", r, v, {e}) =>
              Saves("requests", r, v, {e}) /\ Goes("requests", r, v)
        /\ Dies("requests", r, v, {e}) => Saves("requests", r, v, {e}) /\ Falls
    BY <2>1, SavesStep DEF IInv
  <2>3. Goes("requests", r, v) => Recorded("requests", r, v)
    BY DEF Goes
  <2>. QED BY <1>4, <1>5, <2>2, <2>3 DEF process
<1>8. /\ {e} \in SUBSET Event /\ handed' \subseteq DOMAIN issued /\ handed \subseteq handed'
      /\ {e} \subseteq {<<"claimed", u>> : u \in DOMAIN issued}
  <2>1. t \in Tok /\ handed \subseteq DOMAIN issued
    BY <1>5, IssuedFacts DEF IInv, TypeOK
  <2>. QED BY <1>3, <1>5, <1>7, <2>1 DEF Event
<1>9. hashing[r] = 0 \/ ~Single(r)
  <2>1. hashing[r] \in Nat
    BY IssuedFacts DEF IInv, TypeOK
  <2>. QED BY <1>4, <2>1 DEF IInv, Waiting, Waits
<1>10. Safe("requests", r) => Names(r, t)
  <2>1. "requests" \in Store /\ r \in Key("requests") /\ mem.requests[r] \in Value("requests")
    BY <1>5 DEF Store, Key, Value
  <2>. QED BY <1>2, <1>4, <2>1, PersistedFacts DEF IInv, Mirror, Names
<1>11. Safe("requests", r) /\ Safe("tokens", t) => OnDisk("tokens", t).status # "absent"
  BY <1>5, <1>10, IssuedFacts DEF IInv, FilesAgree
<1>12. RequestAsLogged(log \cup {e}, r, v.status)
  BY <1>6 DEF RequestAsLogged
<1>13. \A u \in handed' : MadeFor(u, r) /\ Single(r) => u = t
  BY <1>7, <1>10 DEF IInv, Handed, Names, Single
<1>14. \A q \in Req : q # r /\ mem.requests[q].secret
          => <<"claimed", mem.requests[q].token>> \notin {e}
  <2>1. ASSUME NEW q \in Req, q # r, mem.requests[q].secret PROVE mem.requests[q].token # t
    <3>1. PICK u : u = mem.requests[q].token
      OBVIOUS
    <3>2. MadeFor(u, q) /\ MadeFor(t, r)
      BY <1>5, <2>1, <3>1
    <3>3. issued[u].req = q /\ issued[t].req = r
      BY <3>2 DEF MadeFor
    <3>. QED BY <2>1, <3>1, <3>3
  <2>. QED BY <1>3, <2>1
<1>. QED BY <1>4, <1>5, <1>6, <1>7, <1>8, <1>9, <1>11, <1>12, <1>13, <1>14, RequestStep

-----------------------------------------------------------------------------
(* The steps that save a token.                                            *)

\* What they have in common.
LEMMA TokenStep ==
  ASSUME IInv, up, NEW t \in Tok, NEW v \in TokenRec, NEW entry \in SUBSET Event,
         Saves("tokens", t, v, entry), Grows, Credible("tokens", t, v)',
         Falls \/ fresh \subseteq fresh',
         UNCHANGED <<revoked, overlapped>>, handed \subseteq handed',
         \A u \in handed' : u \in handed \/ issued'[u].parent # None,
         t \in DOMAIN issued => v.status = "revoked",
         entry \subseteq {<<"delegated", t>>, <<"revoked", t>>},
         <<"revoked", t>> \in entry => v.status = "revoked"
  PROVE  /\ StoreTypes' /\ Lines' /\ Maps' /\ Mirror' /\ Logged' /\ FilesAgree' /\ Handed'
         /\ Stays' /\ Secrets' /\ faults' \in 0..MaxFaults
         /\ \A q \in Req : Single(q)' => Single(q)
         /\ Goes("tokens", t, v) =>
               /\ up' = up /\ mem'.requests = mem.requests
               /\ mem'.tokens[t] = v
               /\ \A u \in Tok : u # t => mem'.tokens[u] = mem.tokens[u]
<1>1. "tokens" \in Store /\ t \in Key("tokens") /\ v \in Value("tokens")
  BY DEF Store, Key, Value
<1>2. StoreTypes' /\ Lines' /\ Maps' /\ Mirror'
  BY <1>1, SavesKeeps DEF IInv
<1>3. Logged' /\ FilesAgree' /\ Handed' /\ Stays'
  BY TokenSaved DEF IInv
<1>4. faults' \in 0..MaxFaults /\ \A q \in Req : Single(q)' => Single(q)
  BY DEF Saves, Wrote, Single, Safe
<1>5. ASSUME Goes("tokens", t, v)
      PROVE  /\ up' = up /\ mem'.requests = mem.requests
             /\ mem'.tokens[t] = v
             /\ \A u \in Tok : u # t => mem'.tokens[u] = mem.tokens[u]
  <2>1. /\ mem'["tokens"][t] = v
        /\ \A u \in Key("tokens") : u # t => mem'["tokens"][u] = mem["tokens"][u]
    BY <1>1, <1>5, GoesStep DEF IInv
  <2>2. mem'["requests"] = mem["requests"] /\ up' = up
    BY <1>1, <1>5 DEF Goes, IInv, TypeOK
  <2>. QED BY <2>1, <2>2 DEF Key
<1>6. Secrets'
  <2>1. CASE Falls
    <3>1. mem'.requests = [q \in Req |-> NoRequest] /\ ~NoRequest.secret
      BY <2>1, FallsStep DEF NoRequest
    <3>. QED BY <3>1 DEF Secrets
  <2>2. CASE Goes("tokens", t, v) /\ ~Falls
    <3>1. mem'.requests = mem.requests /\ fresh \subseteq fresh'
      BY <1>5, <2>2
    <3>2. \A u : <<"claimed", u>> \in log' => <<"claimed", u>> \in log
      BY DEF Saves
    <3>. QED BY <3>1, <3>2 DEF IInv, Secrets
  <2>. QED BY <2>1, <2>2 DEF Saves
<1>. QED BY <1>2, <1>3, <1>4, <1>5, <1>6

\* When the process dies the rest of the invariant says little.
LEMMA FallsRest ==
  ASSUME IInv, Falls, faults' \in 0..MaxFaults, revokes' \in 0..MaxRevokes,
         asked' \subseteq Req, overlapped' \subseteq Req,
         handed' \cup revoked' \cup covered' \subseteq DOMAIN issued',
         issued' \in Seq([req : Req, parent : Tok \cup {None}]), Len(issued') <= MaxTok
  PROVE  OtherTypes' /\ Waiting' /\ Approving' /\ Cascading'
<1>1. /\ hashing' \in [Req -> 0..MaxTok] /\ delegating' \in [Tok -> 0..MaxTok] /\ Cascading'
  BY FallsStep
<1>2. up' \in BOOLEAN /\ path' \in Seq(Tok) /\ approving' \in Req \cup {None} /\ fresh' = {}
  BY EmptySeq DEF Falls
<1>3. OtherTypes'
  BY <1>1, <1>2 DEF OtherTypes
<1>4. Waiting' /\ Approving'
  BY DEF Waiting, Approving, Falls
<1>. QED BY <1>1, <1>3, <1>4

\* A token is issued.
LEMMA IssuedStep ==
  ASSUME TypeOK, Len(issued) < MaxTok, NEW n, n = New,
         NEW new \in [req : Req, parent : Tok \cup {None}], issued' = Append(issued, new)
  PROVE  /\ n \in Tok /\ n \notin DOMAIN issued /\ n \in DOMAIN issued'
         /\ issued'[n] = new /\ n = Len(issued')
         /\ DOMAIN issued' = DOMAIN issued \cup {n}
         /\ issued' \in Seq([req : Req, parent : Tok \cup {None}]) /\ Len(issued') <= MaxTok
         /\ asked' = asked => Grows
<1>1. /\ issued \in Seq([req : Req, parent : Tok \cup {None}]) /\ Len(issued) \in 0..MaxTok
      /\ DOMAIN issued = 1..Len(issued) /\ MaxTok \in Nat
  BY IssuedFacts DEF TypeOK
<1>2. /\ Append(issued, new) \in Seq([req : Req, parent : Tok \cup {None}])
      /\ Len(Append(issued, new)) = Len(issued) + 1
      /\ DOMAIN Append(issued, new) = 1..(Len(issued) + 1)
      /\ Append(issued, new)[Len(issued) + 1] = new
      /\ \A i \in 1..Len(issued) : Append(issued, new)[i] = issued[i]
  BY <1>1, EndOfSeq
<1>3. /\ n = Len(issued) + 1 /\ n \in Tok /\ n \notin 1..Len(issued)
      /\ 1..n = 1..Len(issued) \cup {n} /\ n <= MaxTok
  BY <1>1 DEF New, Tok
<1>. QED BY <1>1, <1>2, <1>3 DEF Grows

\* An approval saves its token.
LEMMA ApproveEndStep ==
  ASSUME IInv, NEW r \in Req, ApproveEnd(r) PROVE IInv'
<1>1. PICK n : n = New
  OBVIOUS
<1>2. PICK v : v = [status |-> "active", parent |-> None]
  OBVIOUS
<1>3. PICK new : new = [req |-> r, parent |-> None]
  OBVIOUS
<1>4. /\ up /\ approving = None /\ path = <<>> /\ hashing[r] > 0 /\ Len(issued) < MaxTok
      /\ issued' = Append(issued, new)
      /\ UNCHANGED <<asked, handed, revoked, covered, overlapped, revokes>>
  BY <1>3 DEF ApproveEnd, Idle
<1>5. \/ /\ \/ Completes("tokens", n, v, {}) /\ approving' = r
            \/ Throws("tokens", n, v, {}) /\ UNCHANGED approving
         /\ hashing' = [hashing EXCEPT ![r] = @ - 1] /\ fresh' = fresh \cup {n}
         /\ UNCHANGED <<delegating, path>>
      \/ Dies("tokens", n, v, {})
  BY <1>1, <1>2 DEF ApproveEnd
<1>6. /\ new \in [req : Req, parent : Tok \cup {None}] /\ v \in TokenRec
      /\ v.status = "active" /\ v.parent = None /\ new.parent = None
  BY <1>2, <1>3 DEF TokenRec
<1>7. /\ n \in Tok /\ n \notin DOMAIN issued /\ n \in DOMAIN issued'
      /\ issued'[n] = new /\ n = Len(issued') /\ DOMAIN issued' = DOMAIN issued \cup {n}
      /\ issued' \in Seq([req : Req, parent : Tok \cup {None}]) /\ Len(issued') <= MaxTok
      /\ Grows
  BY <1>1, <1>4, <1>6, IssuedStep DEF IInv
<1>8. Credible("tokens", n, v)'
  BY <1>6, <1>7 DEF Credible
<1>9. /\ Completes("tokens", n, v, {}) => Saves("tokens", n, v, {}) /\ Goes("tokens", n, v)
      /\ Throws("tokens", n, v, {}) => Saves("tokens", n, v, {}) /\ Goes("tokens", n, v)
      /\ Dies("tokens", n, v, {}) => Saves("tokens", n, v, {}) /\ Falls
  <2>1. "tokens" \in Store /\ n \in Key("tokens") /\ v \in Value("tokens")
    BY <1>6, <1>7 DEF Store, Key, Value
  <2>. QED BY <2>1, SavesStep DEF IInv
<1>10. /\ StoreTypes' /\ Lines' /\ Maps' /\ Mirror' /\ Logged' /\ FilesAgree' /\ Handed'
       /\ Stays' /\ Secrets' /\ faults' \in 0..MaxFaults
       /\ \A q \in Req : Single(q)' => Single(q)
       /\ Goes("tokens", n, v) => up' = up /\ mem'.requests = mem.requests
  <2>1. Saves("tokens", n, v, {}) /\ (Falls \/ fresh \subseteq fresh')
    BY <1>5, <1>9
  <2>2. /\ {} \in SUBSET Event /\ {} \subseteq {<<"delegated", n>>, <<"revoked", n>>}
        /\ <<"revoked", n>> \notin {}
    OBVIOUS
  <2>3. handed \subseteq handed' /\ \A u \in handed' : u \in handed \/ issued'[u].parent # None
    BY <1>4
  <2>4. UNCHANGED <<revoked, overlapped>>
    BY <1>4
  <2>. QED BY <1>4, <1>6, <1>7, <1>8, <2>1, <2>2, <2>3, <2>4, TokenStep
<1>11. /\ handed \cup revoked \cup covered \cup fresh \subseteq DOMAIN issued
       /\ hashing \in [Req -> 0..MaxTok] /\ MaxTok \in Nat
  BY IssuedFacts, TypeHalves DEF IInv, OtherTypes
<1>12. CASE Dies("tokens", n, v, {})
  <2>1. OtherTypes' /\ Waiting' /\ Approving' /\ Cascading'
    BY <1>4, <1>7, <1>9, <1>10, <1>11, <1>12, FallsRest, TypeHalves DEF IInv, OtherTypes
  <2>. QED BY <1>10, <2>1, TypeHalves DEF IInv
<1>13. CASE /\ \/ Completes("tokens", n, v, {}) /\ approving' = r
               \/ Throws("tokens", n, v, {}) /\ UNCHANGED approving
            /\ hashing' = [hashing EXCEPT ![r] = @ - 1] /\ fresh' = fresh \cup {n}
            /\ UNCHANGED <<delegating, path>>
  <2>1. /\ up' = up /\ mem'.requests = mem.requests /\ Goes("tokens", n, v)
        /\ fresh' = fresh \cup {n} /\ UNCHANGED <<delegating, path>>
        /\ approving' \in {None, r}
        /\ approving' # None => log' = log
    BY <1>4, <1>9, <1>10, <1>13 DEF Completes
  <2>2. hashing'[r] = hashing[r] - 1 /\ \A q \in Req : q # r => hashing'[q] = hashing[q]
    BY <1>11, <1>13
  <2>3. hashing' \in [Req -> 0..MaxTok]
    BY <1>4, <1>11, <1>13
  <2>4. OtherTypes'
    BY <1>4, <1>7, <1>10, <1>11, <2>1, <2>3, TypeHalves DEF IInv, OtherTypes
  <2>5. Waits(r)
    BY <1>4 DEF IInv, Waiting
  <2>6. Waiting'
    <3>1. ASSUME NEW q \in Req, hashing'[q] > 0 PROVE Waits(q)'
      <4>1. hashing[q] > 0 /\ hashing[q] \in Nat
        BY <1>4, <1>11, <2>2, <3>1
      <4>2. Waits(q)
        BY <4>1 DEF IInv, Waiting
      <4>3. q \in overlapped \/ (q # r /\ hashing'[q] = hashing[q])
        BY <2>2, <3>1, <4>1, <4>2 DEF Waits
      <4>. QED BY <1>4, <1>10, <2>1, <4>2, <4>3, NoneIsNot DEF Waits
    <3>. QED BY <1>4, <2>1, <3>1 DEF IInv, Waiting
  <2>7. Approving'
    <3>1. ASSUME approving' # None PROVE path' = <<>> /\ Approves(r, n)' /\ approving' = r
      <4>1. MadeFor(n, r)' /\ r \in asked' /\ n \in fresh' /\ n \notin handed'
        BY <1>3, <1>4, <1>7, <1>11, <2>1, <2>5 DEF MadeFor, Waits
      <4>2. <<"claimed", n>> \notin log'
        BY <1>7, <2>1, <3>1 DEF IInv, Logged
      <4>3. Safe("tokens", n)' => OnDisk("tokens", n)'.status # "absent"
        BY <1>6, <2>1 DEF Goes, Recorded, Persisted
      <4>4. Single(r)' => mem'.requests[r].status # "approved"
        BY <1>10, <2>1, <2>5 DEF Waits
      <4>. QED BY <1>4, <1>7, <2>1, <3>1, <4>1, <4>2, <4>3, <4>4 DEF Approves
    <3>2. ASSUME approving' # None PROVE Approves(approving, n)'
      BY <3>1, <3>2 DEF Approves, MadeFor, Single, Safe
    <3>. QED BY <1>7, <3>1, <3>2 DEF Approving
  <2>8. Cascading'
    BY <1>4, <2>1 DEF Cascading
  <2>. QED BY <1>10, <2>4, <2>6, <2>7, <2>8, TypeHalves DEF IInv
<1>. QED BY <1>5, <1>12, <1>13

\* A delegation saves its token.
LEMMA DelegateEndStep ==
  ASSUME IInv, NEW p \in Tok, DelegateEnd(p) PROVE IInv'
<1>1. PICK n : n = New
  OBVIOUS
<1>2. PICK v : v = [status |-> "active", parent |-> p]
  OBVIOUS
<1>3. PICK new : new = [req |-> issued[p].req, parent |-> p]
  OBVIOUS
<1>4. PICK e : e = <<"delegated", n>>
  OBVIOUS
<1>5. /\ up /\ approving = None /\ path = <<>> /\ delegating[p] > 0 /\ Len(issued) < MaxTok
      /\ issued' = Append(issued, new)
      /\ UNCHANGED <<asked, revoked, covered, overlapped, revokes>>
  BY <1>3 DEF DelegateEnd, Idle
<1>6. \/ /\ \/ Completes("tokens", n, v, {e}) /\ handed' = handed \cup {n}
            \/ Throws("tokens", n, v, {e}) /\ UNCHANGED handed
         /\ delegating' = [delegating EXCEPT ![p] = @ - 1] /\ fresh' = fresh \cup {n}
         /\ UNCHANGED <<hashing, approving, path>>
      \/ Dies("tokens", n, v, {e}) /\ UNCHANGED handed
  BY <1>1, <1>2, <1>4 DEF DelegateEnd
<1>7. /\ handed \cup revoked \cup covered \cup fresh \subseteq DOMAIN issued
      /\ delegating \in [Tok -> 0..MaxTok] /\ MaxTok \in Nat /\ p \in handed
  BY <1>5, IssuedFacts, TypeHalves DEF IInv, OtherTypes, Waiting
<1>8. /\ new \in [req : Req, parent : Tok \cup {None}] /\ v \in TokenRec
      /\ v.status = "active" /\ v.parent = p /\ new.parent = p
  <2>1. issued[p].req \in Req
    BY <1>7, IssuedFacts DEF IInv
  <2>. QED BY <1>2, <1>3, <2>1 DEF TokenRec
<1>9. /\ n \in Tok /\ n \notin DOMAIN issued /\ n \in DOMAIN issued'
      /\ issued'[n] = new /\ n = Len(issued') /\ DOMAIN issued' = DOMAIN issued \cup {n}
      /\ issued' \in Seq([req : Req, parent : Tok \cup {None}]) /\ Len(issued') <= MaxTok
      /\ Grows
  BY <1>1, <1>5, <1>8, IssuedStep DEF IInv
<1>10. Credible("tokens", n, v)'
  BY <1>8, <1>9 DEF Credible
<1>11. /\ Completes("tokens", n, v, {e}) => Saves("tokens", n, v, {e}) /\ Goes("tokens", n, v)
       /\ Throws("tokens", n, v, {e}) => Saves("tokens", n, v, {e}) /\ Goes("tokens", n, v)
       /\ Dies("tokens", n, v, {e}) => Saves("tokens", n, v, {e}) /\ Falls
  <2>1. "tokens" \in Store /\ n \in Key("tokens") /\ v \in Value("tokens")
    BY <1>8, <1>9 DEF Store, Key, Value
  <2>. QED BY <2>1, SavesStep DEF IInv
<1>12. /\ StoreTypes' /\ Lines' /\ Maps' /\ Mirror' /\ Logged' /\ FilesAgree' /\ Handed'
       /\ Stays' /\ Secrets' /\ faults' \in 0..MaxFaults
       /\ \A q \in Req : Single(q)' => Single(q)
       /\ Goes("tokens", n, v) => up' = up /\ mem'.requests = mem.requests
  <2>1. Saves("tokens", n, v, {e}) /\ (Falls \/ fresh \subseteq fresh')
    BY <1>6, <1>11
  <2>2. /\ {e} \in SUBSET Event /\ {e} \subseteq {<<"delegated", n>>, <<"revoked", n>>}
        /\ <<"revoked", n>> \notin {e}
    BY <1>4, <1>9 DEF Event
  <2>3. /\ handed \subseteq handed'
        /\ \A u \in handed' : u \in handed \/ issued'[u].parent # None
    BY <1>6, <1>8, <1>9, NoneIsNot
  <2>. QED BY <1>5, <1>8, <1>9, <1>10, <2>1, <2>2, <2>3, TokenStep
<1>13. CASE Dies("tokens", n, v, {e}) /\ UNCHANGED handed
  <2>1. OtherTypes' /\ Waiting' /\ Approving' /\ Cascading'
    BY <1>5, <1>7, <1>9, <1>11, <1>12, <1>13, FallsRest, TypeHalves DEF IInv, OtherTypes
  <2>. QED BY <1>12, <2>1, TypeHalves DEF IInv
<1>14. CASE /\ \/ Completes("tokens", n, v, {e}) /\ handed' = handed \cup {n}
               \/ Throws("tokens", n, v, {e}) /\ UNCHANGED handed
            /\ delegating' = [delegating EXCEPT ![p] = @ - 1] /\ fresh' = fresh \cup {n}
            /\ UNCHANGED <<hashing, approving, path>>
  <2>1. /\ up' = up /\ mem'.requests = mem.requests
        /\ fresh' = fresh \cup {n} /\ UNCHANGED <<hashing, approving, path>>
        /\ handed \subseteq handed' /\ handed' \subseteq handed \cup {n}
    BY <1>11, <1>12, <1>14
  <2>2. /\ delegating' \in [Tok -> 0..MaxTok]
        /\ \A q \in Tok : delegating'[q] > 0 => delegating[q] > 0
    BY <1>5, <1>7, <1>14
  <2>3. OtherTypes'
    BY <1>5, <1>7, <1>9, <1>12, <2>1, <2>2, TypeHalves DEF IInv, OtherTypes
  <2>4. Waiting'
    BY <1>5, <1>12, <2>1, <2>2 DEF IInv, Waiting, Waits
  <2>5. Approving' /\ Cascading'
    BY <1>5, <2>1 DEF Approving, Cascading
  <2>. QED BY <1>12, <2>3, <2>4, <2>5, TypeHalves DEF IInv
<1>. QED BY <1>6, <1>13, <1>14

-----------------------------------------------------------------------------
(* Revocation.                                                             *)

\* Min and Max of a set of numbers are in it.
LEMMA MinMax ==
  ASSUME NEW n \in Nat, NEW T \in SUBSET (1..n), T # {}
  PROVE  Min(T) \in T /\ Max(T) \in T
<1>1. PICK m \in T : \A k \in T : k <= m
  BY Greatest
<1>2. Max(T) \in T
  <2>1. \A k \in T : m >= k
    BY <1>1
  <2>. QED BY <1>1, <2>1 DEF Max
<1>. DEFINE U == {n + 1 - k : k \in T}
<1>3. U \in SUBSET (1..n) /\ U # {}
  OBVIOUS
<1>4. PICK l \in U : \A k \in U : k <= l
  <2>. HIDE DEF U
  <2>. QED BY <1>3, Greatest
<1>5. PICK i \in T : l = n + 1 - i
  BY <1>4
<1>6. \A k \in T : i <= k
  <2>1. ASSUME NEW k \in T PROVE i <= k
    <3>1. n + 1 - k <= n + 1 - i
      BY <1>4, <1>5
    <3>. QED BY <3>1
  <2>. QED BY <2>1
<1>7. Min(T) \in T
  BY <1>6 DEF Min
<1>. QED BY <1>2, <1>7

\* A prefix of a sequence.
LEMMA PrefixFacts ==
  ASSUME NEW S, NEW s \in Seq(S), NEW n \in 0..Len(s)
  PROVE  /\ SubSeq(s, 1, n) \in Seq(S) /\ Len(SubSeq(s, 1, n)) = n
         /\ \A i \in 1..n : SubSeq(s, 1, n)[i] = s[i]
<1>1. PICK l \in Nat : l = Len(s) /\ DOMAIN s = 1..l /\ \A i \in 1..l : s[i] \in S
  BY LenProperties, ElementOfSeq
<1>2. PICK u : u = SubSeq(s, 1, n)
  OBVIOUS
<1>3. \A i \in 1..n : i \in 1..l /\ s[i] \in S
  BY <1>1
<1>4. /\ u \in Seq(S) /\ Len(u) = IF 1 <= n THEN n - 1 + 1 ELSE 0
      /\ \A i \in 1..(n - 1 + 1) : u[i] = s[1 + i - 1]
  BY <1>1, <1>2, <1>3, SubSeqProperties
<1>. QED BY <1>1, <1>2, <1>4

\* A token is revoked within the first n calls of the cascade.
LEMMA RevokesStep ==
  ASSUME IInv, up, approving = None, NEW t \in Tok, mem.tokens[t].status # "absent",
         NEW n \in 0..Len(path), Revokes(t, n),
         UNCHANGED <<asked, issued, handed, revoked, covered, overlapped>>,
         revokes' \in 0..MaxRevokes
  PROVE  IInv'
<1>1. PICK v : v = [mem.tokens[t] EXCEPT !.status = "revoked"]
  OBVIOUS
<1>2. PICK e : e = <<"revoked", t>>
  OBVIOUS
<1>3. \/ /\ \/ /\ Completes("tokens", t, v, {e})
               /\ path' = Append(SubSeq(path, 1, n), t)
            \/ Throws("tokens", t, v, {e}) /\ path' = <<>>
         /\ UNCHANGED <<hashing, delegating, approving, fresh>>
      \/ Dies("tokens", t, v, {e})
  BY <1>1, <1>2 DEF Revokes
<1>4. mem.tokens[t] \in TokenRec /\ Credible("tokens", t, mem.tokens[t])
  BY MapFacts DEF IInv, NoToken
<1>5. v \in TokenRec /\ v.status = "revoked" /\ v.parent = mem.tokens[t].parent
  <2>1. PICK w \in TokenRec : w = mem.tokens[t]
    BY <1>4
  <2>. QED BY <1>1, <2>1 DEF TokenRec
<1>6. Credible("tokens", t, v)' /\ Grows /\ t \in DOMAIN issued
  BY <1>4, <1>5 DEF Credible, Grows
<1>7. /\ Completes("tokens", t, v, {e}) => Saves("tokens", t, v, {e}) /\ Goes("tokens", t, v)
      /\ Throws("tokens", t, v, {e}) => Saves("tokens", t, v, {e}) /\ Goes("tokens", t, v)
      /\ Dies("tokens", t, v, {e}) => Saves("tokens", t, v, {e}) /\ Falls
  <2>1. "tokens" \in Store /\ t \in Key("tokens") /\ v \in Value("tokens")
    BY <1>5 DEF Store, Key, Value
  <2>. QED BY <2>1, SavesStep DEF IInv
<1>8. /\ StoreTypes' /\ Lines' /\ Maps' /\ Mirror' /\ Logged' /\ FilesAgree' /\ Handed'
      /\ Stays' /\ Secrets' /\ faults' \in 0..MaxFaults
      /\ \A q \in Req : Single(q)' => Single(q)
      /\ Goes("tokens", t, v) => /\ up' = up /\ mem'.requests = mem.requests
                                 /\ mem'.tokens[t] = v
                                 /\ \A u \in Tok : u # t => mem'.tokens[u] = mem.tokens[u]
  <2>1. Saves("tokens", t, v, {e}) /\ (Falls \/ fresh \subseteq fresh')
    BY <1>3, <1>7
  <2>2. /\ {e} \in SUBSET Event /\ {e} \subseteq {<<"delegated", t>>, <<"revoked", t>>}
    BY <1>2 DEF Event
  <2>3. handed \subseteq handed' /\ \A u \in handed' : u \in handed \/ issued'[u].parent # None
    OBVIOUS
  <2>. QED BY <1>5, <1>6, <2>1, <2>2, <2>3, TokenStep
<1>9. /\ handed \cup revoked \cup covered \cup fresh \subseteq DOMAIN issued
      /\ asked \subseteq Req /\ overlapped \subseteq Req /\ path \in Seq(Tok)
      /\ issued \in Seq([req : Req, parent : Tok \cup {None}]) /\ Len(issued) <= MaxTok
  BY TypeHalves DEF IInv, OtherTypes
<1>10. CASE Dies("tokens", t, v, {e})
  <2>1. OtherTypes' /\ Waiting' /\ Approving' /\ Cascading'
    BY <1>7, <1>8, <1>9, <1>10, FallsRest
  <2>. QED BY <1>8, <2>1, TypeHalves DEF IInv
<1>11. CASE /\ \/ /\ Completes("tokens", t, v, {e})
                  /\ path' = Append(SubSeq(path, 1, n), t)
               \/ Throws("tokens", t, v, {e}) /\ path' = <<>>
            /\ UNCHANGED <<hashing, delegating, approving, fresh>>
  <2>1. /\ up' = up /\ mem'.requests = mem.requests /\ mem'.tokens[t] = v
        /\ \A u \in Tok : u # t => mem'.tokens[u] = mem.tokens[u]
        /\ UNCHANGED <<hashing, delegating, approving, fresh>>
    BY <1>7, <1>8, <1>11
  <2>2. /\ path' \in Seq(Tok)
        /\ \A i \in DOMAIN path' : path'[i] = t \/ \E j \in DOMAIN path : path'[i] = path[j]
    <3>1. CASE path' = <<>>
      BY <3>1, EmptySeq
    <3>2. CASE path' = Append(SubSeq(path, 1, n), t)
      <4>1. PICK u : u = SubSeq(path, 1, n)
        OBVIOUS
      <4>2. u \in Seq(Tok) /\ Len(u) = n /\ \A i \in 1..n : u[i] = path[i]
        BY <1>9, <4>1, PrefixFacts
      <4>3. /\ Append(u, t) \in Seq(Tok) /\ DOMAIN Append(u, t) = 1..(n + 1)
            /\ Append(u, t)[n + 1] = t /\ \A i \in 1..n : Append(u, t)[i] = u[i]
        BY <4>2, EndOfSeq
      <4>4. DOMAIN path = 1..Len(path) /\ Len(path) \in Nat
        BY <1>9, LenProperties
      <4>5. \A i \in 1..(n + 1) : i = n + 1 \/ (i \in 1..n /\ i \in DOMAIN path)
        BY <4>4
      <4>. QED BY <3>2, <4>1, <4>2, <4>3, <4>5
    <3>. QED BY <1>11, <3>1, <3>2
  <2>3. OtherTypes'
    <3>1. path' \in Seq(Tok)
      BY <2>2
    <3>. QED BY <1>8, <2>1, <3>1, TypeHalves DEF IInv, OtherTypes
  <2>4. Waiting'
    BY <1>8, <2>1 DEF IInv, Waiting, Waits
  <2>5. Approving'
    BY <2>1 DEF Approving
  <2>6. Cascading'
    <3>1. ASSUME NEW i \in DOMAIN path', NEW u, u = path'[i]
          PROVE  u \in DOMAIN issued /\ mem'.tokens[u].status # "active"
      <4>1. CASE u = t
        BY <1>5, <1>6, <2>1, <4>1
      <4>2. CASE u # t
        <5>1. u \in DOMAIN issued /\ mem.tokens[u].status # "active"
          BY <2>2, <3>1, <4>2 DEF IInv, Cascading
        <5>2. u \in Tok
          BY <5>1, IssuedFacts DEF IInv
        <5>. QED BY <2>1, <4>2, <5>1, <5>2
      <4>. QED BY <4>1, <4>2
    <3>. QED BY <3>1 DEF Cascading
  <2>. QED BY <1>8, <2>3, <2>4, <2>5, <2>6, TypeHalves DEF IInv
<1>. QED BY <1>3, <1>10, <1>11

\* revokeToken's own save.
LEMMA RevokeStep ==
  ASSUME IInv, NEW t \in Tok, Revoke(t) PROVE IInv'
<1>1. /\ up /\ approving = None /\ mem.tokens[t].status # "absent" /\ Revokes(t, 0)
      /\ UNCHANGED <<asked, issued, handed, revoked, covered, overlapped>>
      /\ revokes < MaxRevokes /\ revokes' = revokes + 1
  BY DEF Revoke, Idle
<1>2. revokes' \in 0..MaxRevokes
  BY <1>1, RecoveryAssumption DEF IInv, TypeOK
<1>3. 0 \in 0..Len(path)
  BY LenProperties DEF IInv, TypeOK
<1>. QED BY <1>1, <1>2, <1>3, RevokesStep

\* A save of the cascade.
LEMMA CascadeStep == ASSUME IInv, CascadeRevoke PROVE IInv'
<1>1. PICK U : U = {i \in DOMAIN path : ActiveChildren(path[i]) # {}}
  OBVIOUS
<1>2. PICK n : n = Max(U)
  OBVIOUS
<1>3. PICK t : t = Min(ActiveChildren(path[n]))
  OBVIOUS
<1>4. /\ up /\ U # {} /\ Revokes(t, n)
      /\ UNCHANGED <<asked, issued, handed, revoked, covered, overlapped, revokes>>
  BY <1>1, <1>2, <1>3 DEF CascadeRevoke
<1>5. DOMAIN path = 1..Len(path) /\ Len(path) \in Nat /\ path # <<>>
  <2>1. path \in Seq(Tok)
    BY DEF IInv, TypeOK
  <2>2. DOMAIN path = 1..Len(path) /\ Len(path) \in Nat
    BY <2>1, LenProperties
  <2>3. path # <<>>
    BY <1>1, <1>4
  <2>. QED BY <2>2, <2>3
<1>6. n \in U
  BY <1>1, <1>2, <1>4, <1>5, MinMax
<1>7. ActiveChildren(path[n]) # {} /\ n \in 1..Len(path)
  BY <1>1, <1>5, <1>6
<1>8. t \in ActiveChildren(path[n])
  <2>1. ActiveChildren(path[n]) \in SUBSET (1..MaxTok) /\ MaxTok \in Nat
    BY RecoveryAssumption DEF ActiveChildren, Tok
  <2>. QED BY <1>3, <1>7, <2>1, MinMax
<1>9. t \in Tok /\ mem.tokens[t].status # "absent"
  BY <1>8 DEF ActiveChildren
<1>10. approving = None /\ revokes' \in 0..MaxRevokes
  BY <1>4, <1>5 DEF IInv, Approving, TypeOK
<1>11. n \in 0..Len(path)
  BY <1>5, <1>7
<1>. QED BY <1>4, <1>9, <1>10, <1>11, RevokesStep

\* revokeToken returns.
LEMMA RevokeReturnsStep == ASSUME IInv, RevokeReturns PROVE IInv'
<1>1. PICK p : p = path[1]
  OBVIOUS
<1>2. /\ up /\ path # <<>> /\ \A i \in DOMAIN path : ActiveChildren(path[i]) = {}
      /\ revoked' = revoked \cup {p} \cup Children(p)
      /\ covered' = covered \cup {p} \cup Below(p) /\ path' = <<>>
      /\ UNCHANGED <<up, mem, disk, log, lost, hashing, delegating, approving, fresh,
                     overlapped, asked, issued, handed, revokes, faults>>
  BY <1>1 DEF RevokeReturns, files
<1>3. 1 \in DOMAIN path
  BY <1>2, EmptySeq, LenProperties DEF IInv, TypeOK
<1>4. /\ p \in DOMAIN issued /\ mem.tokens[p].status # "active" /\ ActiveChildren(p) = {}
      /\ approving = None /\ p \in Tok
  BY <1>1, <1>2, <1>3, IssuedFacts DEF IInv, Cascading, Approving
<1>5. Children(p) \cup Below(p) \subseteq DOMAIN issued
  BY DEF Children, Below
<1>6. StoreTypes' /\ Lines' /\ Logged' /\ FilesAgree' /\ Handed' /\ Maps' /\ Mirror'
  BY <1>2, Still
<1>7. OtherTypes'
  BY <1>2, <1>4, <1>5, EmptySeq, TypeHalves DEF IInv, OtherTypes
<1>8. Stays'
  <2>1. ASSUME NEW u \in {p} \cup Children(p), Safe("tokens", u)
        PROVE  OnDisk("tokens", u).status # "active"
    <3>1. u \in DOMAIN issued /\ u \in Tok
      BY <1>4, <1>5, IssuedFacts DEF IInv
    <3>2. mem.tokens[u].status # "active"
      <4>1. CASE u = p
        BY <1>4, <4>1
      <4>2. CASE u \in Children(p)
        <5>1. SUFFICES ASSUME mem.tokens[u].status = "active" PROVE FALSE
          OBVIOUS
        <5>2. Credible("tokens", u, mem.tokens[u])
          BY <1>2, <3>1, <5>1, MapFacts DEF IInv, NoToken
        <5>3. mem.tokens[u].parent = p
          BY <4>2, <5>2 DEF Credible, Children
        <5>. QED BY <1>4, <3>1, <5>1, <5>3 DEF ActiveChildren
      <4>. QED BY <2>1, <4>1, <4>2
    <3>3. OnDisk("tokens", u) = mem.tokens[u]
      <4>1. "tokens" \in Store /\ u \in Key("tokens")
        BY <3>1 DEF Store, Key
      <4>. QED BY <1>2, <2>1, <4>1 DEF IInv, Mirror, Persisted
    <3>. QED BY <3>2, <3>3
  <2>2. ASSUME NEW u
        PROVE  /\ OnDisk("tokens", u)' = OnDisk("tokens", u)
               /\ (Safe("tokens", u)' <=> Safe("tokens", u))
    BY <1>2 DEF OnDisk, Safe
  <2>3. revoked' \subseteq revoked \cup ({p} \cup Children(p))
    BY <1>2
  <2>. SUFFICES ASSUME NEW u \in revoked', Safe("tokens", u)'
                PROVE  OnDisk("tokens", u)'.status # "active"
    BY DEF Stays
  <2>4. OnDisk("tokens", u)' = OnDisk("tokens", u) /\ Safe("tokens", u)
    BY <2>2
  <2>5. OnDisk("tokens", u).status # "active"
    <3>1. CASE u \in revoked
      BY <2>4, <3>1 DEF IInv, Stays
    <3>2. CASE u \in {p} \cup Children(p)
      BY <2>1, <2>4, <3>2
    <3>. QED BY <2>3, <3>1, <3>2
  <2>. QED BY <2>4, <2>5
<1>9. Secrets' /\ Waiting'
  BY <1>2 DEF IInv, Secrets, Waiting, Waits, Single, Safe
<1>10. Approving' /\ Cascading'
  BY <1>2, <1>4 DEF Approving, Cascading
<1>. QED BY <1>6, <1>7, <1>8, <1>9, <1>10, TypeHalves DEF IInv

-----------------------------------------------------------------------------
(* Crash and restart.                                                      *)

\* The process is killed between two saves.
LEMMA CrashStep == ASSUME IInv, Crash PROVE IInv'
<1>1. /\ Falls /\ faults' \in 0..MaxFaults
      /\ UNCHANGED <<disk, log, lost, asked, issued, handed, revoked, covered, overlapped, revokes>>
  <2>1. Fault => faults' \in 0..MaxFaults
    BY RecoveryAssumption DEF Fault, IInv, TypeOK
  <2>. QED BY <2>1 DEF Crash, Down, Falls, files
<1>2. Lines' /\ Logged' /\ FilesAgree' /\ Handed' /\ Stays'
  BY <1>1, Still
<1>3. OtherTypes' /\ Waiting' /\ Approving' /\ Cascading'
  BY <1>1, FallsRest, TypeHalves DEF IInv, OtherTypes
<1>4. Maps' /\ Mirror' /\ mem'.requests = [q \in Req |-> NoRequest]
  BY <1>1, FallsStep
<1>5. StoreTypes'
  BY <1>1, FallsStep, TypeHalves DEF IInv, StoreTypes
<1>6. Secrets'
  <2>1. ~NoRequest.secret
    BY DEF NoRequest
  <2>. QED BY <1>4, <2>1 DEF Secrets
<1>. QED BY <1>2, <1>3, <1>4, <1>5, <1>6, TypeHalves DEF IInv

\* The next process reads the files.
LEMMA RestartStep == ASSUME IInv, Restart PROVE IInv'
<1>1. /\ ~up /\ up' = TRUE /\ mem' = [s \in Store |-> Rebuilt(s)]
      /\ UNCHANGED <<disk, log, lost, hashing, delegating, approving, path, fresh, overlapped,
                     asked, issued, handed, revoked, covered, revokes, faults>>
  BY DEF Restart, files, process
<1>2. /\ approving = None /\ path = <<>>
      /\ \A r \in Req : hashing[r] = 0
      /\ \A t \in Tok : delegating[t] = 0
  BY <1>1 DEF IInv, Maps
<1>3. /\ \A s \in Store : mem'[s] = [k \in Key(s) |-> OnDisk(s, k)]
      /\ "tokens" \in Store /\ "requests" \in Store
  BY <1>1, StoreFacts DEF Rebuilt, OnDisk, Store
<1>4. ASSUME NEW s \in Store, NEW k \in Key(s), NEW w, w = OnDisk(s, k)
      PROVE  /\ w \in Value(s) /\ (s = "requests" => ~w.secret)
             /\ w = Nothing[s][k] \/ Credible(s, k, w)
             /\ Persisted(w, s) = w
  <2>1. /\ w \in Value(s) /\ (s = "requests" => ~w.secret)
        /\ w = Nothing[s][k] \/ Credible(s, k, w)
    BY <1>4, OnDiskFacts DEF IInv
  <2>2. CASE s = "tokens"
    BY <2>1, <2>2, PersistedFacts
  <2>3. CASE s = "requests"
    <3>1. w \in RequestRec /\ w.secret = FALSE
      BY <2>1, <2>3 DEF Value, RequestRec
    <3>2. [w EXCEPT !.secret = FALSE] = w
      BY <3>1 DEF RequestRec
    <3>. QED BY <2>1, <2>3, <3>2 DEF Persisted
  <2>. QED BY <2>1, <2>2, <2>3 DEF Store
<1>5. StoreTypes'
  <2>1. mem'["tokens"] \in [Tok -> TokenRec] /\ mem'["requests"] \in [Req -> RequestRec]
    BY <1>3, <1>4 DEF Key, Value
  <2>2. mem' \in [Store -> [Tok -> TokenRec] \cup [Req -> RequestRec]]
    <3>1. mem' = [s \in Store |-> mem'[s]]
      BY <1>1
    <3>2. \A s \in Store : s = "tokens" \/ s = "requests"
      BY DEF Store
    <3>. QED BY <2>1, <3>1, <3>2
  <2>. QED BY <1>1, <2>1, <2>2, TypeHalves DEF IInv, StoreTypes
<1>6. Lines' /\ Logged' /\ FilesAgree' /\ Handed' /\ Stays'
  BY <1>1, Still
<1>7. Maps' /\ Mirror'
  <2>1. ASSUME NEW s \in Store, NEW k \in Key(s)
        PROVE  /\ mem'[s][k] = Nothing[s][k] \/ Credible(s, k, mem[s][k])'
               /\ OnDisk(s, k)' = Persisted(mem'[s][k], s)
    <3>1. PICK w : w = OnDisk(s, k)
      OBVIOUS
    <3>2. mem'[s][k] = w /\ (w = Nothing[s][k] \/ Credible(s, k, w)) /\ Persisted(w, s) = w
      BY <1>3, <1>4, <3>1
    <3>3. OnDisk(s, k)' = w
      BY <1>1, <3>1 DEF OnDisk
    <3>4. w = Nothing[s][k] \/ Credible(s, k, w)'
      BY <1>1, <3>2 DEF Credible
    <3>. QED BY <3>2, <3>3, <3>4 DEF Credible
  <2>. QED BY <1>1, <2>1 DEF Maps, Mirror
<1>8. OtherTypes'
  BY <1>1, TypeHalves DEF IInv, OtherTypes
<1>9. Secrets'
  <2>1. ASSUME NEW r \in Req PROVE ~mem'["requests"][r].secret
    <3>1. PICK w : w = OnDisk("requests", r)
      OBVIOUS
    <3>2. "requests" \in Store /\ r \in Key("requests")
      BY <1>3 DEF Key
    <3>3. mem'["requests"][r] = w
      BY <1>3, <3>1, <3>2
    <3>. QED BY <1>4, <3>1, <3>2, <3>3
  <2>. QED BY <2>1 DEF Secrets
<1>10. Waiting' /\ Approving' /\ Cascading'
  <2>1. /\ \A r \in Req : hashing'[r] = 0
        /\ \A t \in Tok : delegating'[t] = 0
    BY <1>1, <1>2
  <2>2. Waiting'
    BY <2>1 DEF Waiting
  <2>3. Approving'
    BY <1>1, <1>2 DEF Approving
  <2>4. Cascading'
    BY <1>1, <1>2 DEF Cascading
  <2>. QED BY <2>2, <2>3, <2>4
<1>. QED BY <1>5, <1>6, <1>7, <1>8, <1>9, <1>10, TypeHalves DEF IInv

\* Every step keeps the inductive invariant.
LEMMA InvStep == IInv /\ [Next]_vars => IInv'
<1>. SUFFICES ASSUME IInv, [Next]_vars PROVE IInv'
  OBVIOUS
<1>1. CASE UNCHANGED vars
  <2>1. UNCHANGED <<up, mem, disk, log, lost, hashing, delegating, approving, path, fresh,
                    overlapped, asked, issued, handed, revoked, covered, revokes, faults>>
    BY <1>1 DEF vars, files, process
  <2>2. /\ StoreTypes' /\ Lines' /\ Logged' /\ FilesAgree' /\ Handed' /\ Stays'
    BY <2>1, Still
  <2>3. Maps' /\ Mirror'
    <3>1. CASE up
      BY <2>1, <3>1, Still
    <3>2. CASE ~up
      BY <2>1, <3>2 DEF IInv, Maps, Mirror
    <3>. QED BY <3>1, <3>2
  <2>4. OtherTypes'
    BY <2>1, TypeHalves DEF IInv, OtherTypes
  <2>5. Secrets' /\ Waiting' /\ Cascading'
    BY <2>1 DEF IInv, Secrets, Waiting, Waits, Single, Safe, Cascading
  <2>6. Approving'
    BY <2>1 DEF IInv, Approving, Approves, MadeFor, Single, Safe, OnDisk
  <2>. QED BY <2>2, <2>3, <2>4, <2>5, <2>6, TypeHalves DEF IInv
<1>2. ASSUME NEW r \in Req,
             \/ Submit(r) \/ ApproveBegin(r) \/ ApproveEnd(r) \/ ApproveSave(r)
             \/ ApproveBlocked(r) \/ ApproveRefused(r) \/ Deny(r) \/ Claim(r)
      PROVE  IInv'
  BY <1>2, SubmitStep, ApproveBeginStep, ApproveEndStep, ApproveSaveStep, ApproveBlockedStep,
     ApproveRefusedStep, DenyStep, ClaimStep
<1>3. ASSUME NEW t \in Tok, DelegateBegin(t) \/ DelegateEnd(t) \/ DelegateRefused(t) \/ Revoke(t)
      PROVE  IInv'
  BY <1>3, DelegateWaitStep, DelegateEndStep, RevokeStep
<1>. QED
  BY <1>1, <1>2, <1>3, CascadeStep, RevokeReturnsStep, CrashStep, RestartStep DEF Next

-----------------------------------------------------------------------------
(* The theorems.                                                           *)

\* The inductive invariant holds in every reachable state.
THEOREM Invariance == Spec => []IInv
  BY InitInv, InvStep, PTL DEF Spec

\* Types are kept through failed appends, crashes and restarts.
THEOREM TypeCorrect == Spec => []TypeOK
<1>1. IInv => TypeOK
  BY DEF IInv
<1>. QED BY <1>1, Invariance, PTL

\* A token revokeToken has returned for, or a child it had then, is active in no
\* process afterwards, however often cascades stop half-way and whatever the
\* restarts find - but for what was lost.
THEOREM RevokedForGood == Spec => []RevocationStays
<1>1. IInv => RevocationStays
  <2>1. ASSUME IInv, up, NEW t \in revoked, <<"tokens", t>> \notin lost
        PROVE  mem.tokens[t].status # "active"
    <3>1. t \in Tok /\ "tokens" \in Store /\ t \in Key("tokens")
      <4>1. /\ TypeOK /\ t \in revoked
            /\ handed \cup revoked \cup covered \cup fresh \subseteq DOMAIN issued
        BY <2>1, TypeHalves DEF IInv, OtherTypes
      <4>2. t \in DOMAIN issued
        BY <4>1
      <4>3. t \in Tok
        BY <4>1, <4>2, IssuedFacts
      <4>. QED BY <4>3 DEF Store, Key
    <3>2. OnDisk("tokens", t) = mem.tokens[t]
      BY <2>1, <3>1 DEF IInv, Mirror, Safe, Persisted
    <3>. QED BY <2>1, <3>2 DEF IInv, Stays, Safe
  <2>. QED BY <2>1 DEF RevocationStays
<1>. QED BY <1>1, Invariance, PTL

\* The stores do not contradict each other or the log after any crash or failed
\* append - but for what was lost.
THEOREM FilesMatch == Spec => []StoresAgree
<1>1. IInv => StoresAgree
  <2>. SUFFICES ASSUME IInv, up PROVE StoresAgree
    BY DEF StoresAgree
  <2>1. /\ "tokens" \in Store /\ "requests" \in Store /\ Key("tokens") = Tok
        /\ Key("requests") = Req
    BY DEF Store, Key
  <2>2. \A t \in Tok : Safe("tokens", t) => OnDisk("tokens", t) = mem.tokens[t]
    BY <2>1 DEF IInv, Mirror, Persisted
  <2>3. ASSUME NEW r \in Req, Safe("requests", r), NEW v, v = mem.requests[r]
        PROVE  /\ v.status = "approved" /\ <<"tokens", v.token>> \notin lost
                     => mem.tokens[v.token].status # "absent"
               /\ RequestAsLogged(log, r, v.status)
               /\ v.secret => <<"claimed", v.token>> \notin log
    <3>1. v \in RequestRec /\ (v.status = "approved" => v.token \in DOMAIN issued)
      BY <2>3, MapFacts DEF IInv, Credible
    <3>2. OnDisk("requests", r).status = v.status /\ OnDisk("requests", r).token = v.token
      BY <2>1, <2>3, <3>1, PersistedFacts DEF IInv, Mirror, Value
    <3>3. RequestAsLogged(log, r, v.status)
      BY <2>3, <3>2 DEF IInv, FilesAgree
    <3>4. v.secret => <<"claimed", v.token>> \notin log
      BY <2>3 DEF IInv, Secrets
    <3>5. ASSUME v.status = "approved", <<"tokens", v.token>> \notin lost
          PROVE  mem.tokens[v.token].status # "absent"
      <4>1. v.token \in Tok /\ Names(r, v.token) /\ Safe("tokens", v.token)
        BY <3>1, <3>2, <3>5, IssuedFacts DEF IInv, Names, Safe
      <4>. QED BY <2>2, <2>3, <4>1 DEF IInv, FilesAgree
    <3>. QED BY <3>3, <3>4, <3>5
  <2>4. \A t \in Tok : Safe("tokens", t) => TokenAsLogged(log, t, mem.tokens[t].status)
    BY <2>2 DEF IInv, FilesAgree
  <2>. QED BY <2>3, <2>4 DEF StoresAgree, Safe, RequestAsLogged, TokenAsLogged
<1>. QED BY <1>1, Invariance, PTL

\* A secret that may be claimed was made by the running process, and no file
\* has ever had one.
THEOREM SecretsAreFresh == Spec => []SecretEndsWithProcess
<1>1. IInv => SecretEndsWithProcess
  BY DEF IInv, Secrets, Lines, Store, SecretEndsWithProcess
<1>. QED BY <1>1, Invariance, PTL

\* Of the tokens of one request at most one has had its secret claimed, through
\* failed saves and any number of processes - but for overlapping approvals and
\* requests a save of which was lost.
THEOREM ClaimedOnce == Spec => []OneClaimPerRequest
<1>1. IInv => OneClaimPerRequest
  <2>1. ASSUME IInv, NEW t \in handed, NEW u \in handed, issued[t].parent = None,
               issued[t] = issued[u], issued[t].req \notin overlapped,
               <<"requests", issued[t].req>> \notin lost
        PROVE  t = u
    <3>1. PICK r \in Req : MadeFor(t, r) /\ r = issued[t].req
      <4>1. t \in DOMAIN issued
        BY <2>1 DEF IInv, TypeOK
      <4>2. issued[t] \in [req : Req, parent : Tok \cup {None}]
        BY <2>1, <4>1, IssuedFacts DEF IInv
      <4>. QED BY <2>1, <4>2 DEF MadeFor
    <3>2. MadeFor(u, r) /\ Single(r)
      BY <2>1, <3>1 DEF MadeFor, Single, Safe
    <3>3. Names(r, t) /\ Names(r, u)
      BY <2>1, <3>1, <3>2 DEF IInv, Handed
    <3>. QED BY <3>3 DEF Names
  <2>. QED BY <2>1 DEF OneClaimPerRequest
<1>. QED BY <1>1, Invariance, PTL
=============================================================================
