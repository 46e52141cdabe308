---------------------------- MODULE AuditLogProofs ----------------------------
(***************************************************************************)
(* Proofs about AuditLog, for any segment size and any number of records.  *)
(*                                                                         *)
(* What the disk would give back is a log too.  Its last line may be torn, *)
(* and its entry goes when the next line is glued to it: Kept is the log   *)
(* without it.  Sound says what holds of that log whatever the disk and    *)
(* the kills did to it; Agrees says how the log in memory stands to it.    *)
(* Both are about sequences only, so the lemmas on what an append does to  *)
(* a file and a disk are separate from those on what it does to a log.     *)
(***************************************************************************)
EXTENDS AuditLog, SequenceTheorems, WellFoundedInduction, TLAPS

-----------------------------------------------------------------------------
(* FlattenSeq.  It is a recursive function; that it flattens is shown by   *)
(* looking at the least index at which it would not.                       *)

\* g is FlattenSeq's recursive function on the first n sequences.
Flattens(g, n, seqs) ==
    g = [i \in 1..n |-> IF i = 1 THEN seqs[i] ELSE g[i - 1] \o seqs[i]]

\* A set of numbers has a least one.
LEMMA Least ==
  ASSUME NEW T \in SUBSET Nat, T # {}
  PROVE  \E m \in T : \A k \in T : m <= k
<1>1. \E m \in T : \A k \in T : ~ (<<k, m>> \in OpToRel(<, Nat))
  BY WFMin, NatLessThanWellFounded
<1>2. PICK m \in T : \A k \in T : ~ (<<k, m>> \in OpToRel(<, Nat))
  BY <1>1
<1>3. \A k \in T : ~ (k < m)
  <2>1. ASSUME NEW k \in T, k < m PROVE FALSE
    <3>1. <<k, m>> \in OpToRel(<, Nat)
      BY <2>1 DEF OpToRel
    <3>. QED BY <3>1, <1>2
  <2>. QED BY <2>1
<1>. QED BY <1>3

\* What it is at an index.
LEMMA FlattensAt ==
  ASSUME NEW seqs, NEW n \in Nat, NEW g, Flattens(g, n, seqs), NEW i \in 1..n
  PROVE  g[i] = IF i = 1 THEN seqs[i] ELSE g[i - 1] \o seqs[i]
<1>. DEFINE F == [k \in 1..n |-> IF k = 1 THEN seqs[k] ELSE g[k - 1] \o seqs[k]]
<1>1. g = F
  BY DEF Flattens
<1>2. F[i] = IF i = 1 THEN seqs[i] ELSE g[i - 1] \o seqs[i]
  OBVIOUS
<1>. HIDE DEF F
<1>. QED BY <1>1, <1>2

\* There is such a function.
LEMMA FlattensExists ==
  ASSUME NEW seqs, NEW n \in Nat PROVE \E g : Flattens(g, n, seqs)
<1>. DEFINE T == {k \in Nat : ~ \E g : Flattens(g, k, seqs)}
<1>1. SUFFICES ASSUME T # {} PROVE FALSE
  OBVIOUS
<1>2. PICK m \in T : \A k \in T : m <= k
  BY <1>1, Least
<1>3. CASE m = 0
  <2>1. Flattens([i \in 1..m |-> 0], m, seqs)
    BY <1>3 DEF Flattens
  <2>. QED BY <2>1
<1>4. CASE m # 0
  <2>1. m - 1 \in Nat /\ m - 1 \notin T
    BY <1>2, <1>4
  <2>2. PICK g : Flattens(g, m - 1, seqs)
    BY <2>1
  <2>. DEFINE h == [i \in 1..m |-> IF i = m THEN IF m = 1 THEN seqs[m] ELSE g[m - 1] \o seqs[m]
                                   ELSE g[i]]
  <2>3. \A i \in 1..m : h[i] = IF i = 1 THEN seqs[i] ELSE h[i - 1] \o seqs[i]
    <3>1. \A i \in 1..(m - 1) : g[i] = IF i = 1 THEN seqs[i] ELSE g[i - 1] \o seqs[i]
      BY <2>2 DEF Flattens
    <3>2. \A i \in 1..m : i # m => i \in 1..(m - 1)
      OBVIOUS
    <3>3. \A i \in 1..m : i # 1 => i - 1 \in 1..(m - 1) /\ i - 1 # m
      OBVIOUS
    <3>4. \A i \in 1..(m-1) : i \in 1..m /\ i # m
      OBVIOUS
    <3>5. \A i \in 1..(m - 1) : h[i] = g[i]
      BY <3>4
    <3>6. h[m] = IF m = 1 THEN seqs[m] ELSE g[m - 1] \o seqs[m]
      BY <1>4
    <3>. HIDE DEF h
    <3>. QED BY <3>1, <3>2, <3>3, <3>5, <3>6
  <2>4. Flattens(h, m, seqs)
    BY <2>3 DEF Flattens
  <2>. QED BY <2>4
<1>. QED BY <1>3, <1>4

\* Two sequences agree on their first n elements.
Agree(s, t, n) == \A i \in 1..n : s[i] = t[i]

\* Where two sequences of sequences agree, so do their recursive functions.
LEMMA FlattensUnique ==
  ASSUME NEW seqs, NEW t, NEW n \in Nat, NEW m \in Nat, n <= m, Agree(seqs, t, n),
         NEW g, NEW h, Flattens(g, n, seqs), Flattens(h, m, t)
  PROVE  Agree(g, h, n)
<1>. DEFINE T == {i \in 1..n : g[i] # h[i]}
<1>1. SUFFICES ASSUME T # {} PROVE FALSE
  BY DEF Agree
<1>2. T \in SUBSET Nat
  OBVIOUS
<1>3. PICK k \in T : \A i \in T : k <= i
  <2>. HIDE DEF T
  <2>. QED BY <1>1, <1>2, Least
<1>4. seqs[k] = t[k]
  BY DEF Agree
<1>5. k \in 1..n /\ k \in 1..m /\ g[k] # h[k]
  OBVIOUS
<1>6. /\ g[k] = IF k = 1 THEN seqs[k] ELSE g[k - 1] \o seqs[k]
      /\ h[k] = IF k = 1 THEN t[k] ELSE h[k - 1] \o t[k]
  BY <1>5, FlattensAt
<1>7. k # 1 => g[k - 1] = h[k - 1]
  BY <1>3, <1>5
<1>. QED BY <1>4, <1>5, <1>6, <1>7

\* FlattenSeq takes the last value of such a function.
LEMMA FlattenDef ==
  ASSUME NEW S, NEW seqs \in Seq(S), Len(seqs) # 0
  PROVE  \E g : Flattens(g, Len(seqs), seqs) /\ FlattenSeq(seqs) = g[Len(seqs)]
<1>. DEFINE G == CHOOSE g : Flattens(g, Len(seqs), seqs)
<1>1. Flattens(G, Len(seqs), seqs)
  BY FlattensExists
<1>2. FlattenSeq(seqs) = G[Len(seqs)]
  BY DEF FlattenSeq, Flattens
<1>. QED BY <1>1, <1>2

\* The sequences are flattened into a sequence of what they hold.
LEMMA FlattenType ==
  ASSUME NEW S, NEW seqs \in Seq(Seq(S)) PROVE FlattenSeq(seqs) \in Seq(S)
<1>1. CASE Len(seqs) = 0
  <2>1. seqs = <<>> /\ FlattenSeq(seqs) = seqs
    BY <1>1, EmptySeq DEF FlattenSeq
  <2>. QED BY <2>1, EmptySeq
<1>2. CASE Len(seqs) # 0
  <2>. DEFINE N == Len(seqs)
  <2>1. PICK g : Flattens(g, N, seqs) /\ FlattenSeq(seqs) = g[N]
    BY <1>2, FlattenDef
  <2>2. N \in Nat /\ N \in 1..N /\ \A i \in 1..N : seqs[i] \in Seq(S)
    BY <1>2, LenProperties, ElementOfSeq
  <2>. HIDE DEF N
  <2>. DEFINE T == {i \in 1..N : g[i] \notin Seq(S)}
  <2>3. T = {}
    <3>1. SUFFICES ASSUME T # {} PROVE FALSE
      OBVIOUS
    <3>2. T \in SUBSET Nat
      OBVIOUS
    <3>3. PICK k \in T : \A i \in T : k <= i
      <4>. HIDE DEF T
      <4>. QED BY <3>1, <3>2, Least
    <3>4. k \in 1..N /\ g[k] \notin Seq(S)
      OBVIOUS
    <3>5. g[k] = IF k = 1 THEN seqs[k] ELSE g[k - 1] \o seqs[k]
      BY <2>1, <2>2, <3>4, FlattensAt
    <3>6. k # 1 => g[k - 1] \in Seq(S)
      BY <2>2, <3>3, <3>4
    <3>. QED BY <2>2, <3>4, <3>5, <3>6, ConcatProperties
  <2>4. g[N] \in Seq(S)
    BY <2>2, <2>3
  <2>. QED BY <2>1, <2>4
<1>. QED BY <1>1, <1>2

\* A sequence more at the end comes last.
LEMMA FlattenAppend ==
  ASSUME NEW S, NEW seqs \in Seq(Seq(S)), NEW x \in Seq(S)
  PROVE  FlattenSeq(Append(seqs, x)) = FlattenSeq(seqs) \o x
<1>1. PICK more : more = Append(seqs, x)
  OBVIOUS
<1>2. PICK n \in Nat, m \in Nat : n = Len(seqs) /\ m = n + 1
  BY LenProperties
<1>3. /\ more \in Seq(Seq(S)) /\ Len(more) = m /\ more[m] = x
      /\ \A i \in 1..n : seqs[i] = more[i]
  BY <1>1, <1>2, AppendProperties
<1>4. PICK h : Flattens(h, m, more) /\ FlattenSeq(more) = h[m]
  BY <1>2, <1>3, FlattenDef
<1>5. h[m] = IF m = 1 THEN more[m] ELSE h[m - 1] \o more[m]
  BY <1>2, <1>4, FlattensAt
<1>6. CASE n = 0
  <2>1. seqs = <<>> /\ FlattenSeq(seqs) = <<>>
    BY <1>2, <1>6, EmptySeq DEF FlattenSeq
  <2>2. FlattenSeq(seqs) \o x = x
    BY <2>1, ConcatEmptySeq
  <2>. QED BY <1>1, <1>2, <1>3, <1>4, <1>5, <1>6, <2>2
<1>7. CASE n # 0
  <2>1. PICK g : Flattens(g, n, seqs) /\ FlattenSeq(seqs) = g[n]
    BY <1>2, <1>7, FlattenDef
  <2>2. n <= m /\ n \in 1..n /\ m - 1 = n /\ m # 1
    BY <1>2, <1>7
  <2>3. g[n] = h[n]
    <3>1. Agree(seqs, more, n)
      BY <1>3 DEF Agree
    <3>2. Agree(g, h, n)
      BY <1>4, <2>1, <2>2, <3>1, FlattensUnique
    <3>. QED BY <2>2, <3>2 DEF Agree
  <2>4. h[m] = g[n] \o x
    BY <1>3, <1>5, <2>2, <2>3
  <2>. QED BY <1>1, <1>4, <2>1, <2>4
<1>. QED BY <1>2, <1>6, <1>7

-----------------------------------------------------------------------------
(* Files.                                                                  *)

\* An entry of the log, and what a file and its lines are made of.
Ent == [n : Nat, previous : Nat]

File == [lines : Seq(Seq(Ent)), torn : BOOLEAN]

WellFormed(f) == f \in File /\ (f.torn => f.lines # <<>>)

\* What a file gives back without its torn line.
Stem(f) == IF f.torn THEN FlattenSeq(Front(f.lines)) ELSE Rehydrate(f)

\* Front undoes Append.
LEMMA FrontAppend ==
  ASSUME NEW S, NEW s \in Seq(S), NEW x \in S PROVE Front(Append(s, x)) = s
<1>1. PICK k \in Nat : k = Len(s)
  BY LenProperties
<1>2. PICK t : t = Append(s, x)
  OBVIOUS
<1>3. t \in Seq(S) /\ Len(t) = k + 1 /\ \A i \in 1..k : t[i] = s[i]
  BY <1>1, <1>2, AppendProperties
<1>4. PICK u : u = SubSeq(t, 1, k)
  OBVIOUS
<1>5. u \in Seq(S) /\ Len(u) = k /\ \A i \in 1..k : u[i] = t[i]
  <2>1. \A i \in 1..k : t[i] \in S
    BY <1>1, <1>3, ElementOfSeq
  <2>2. /\ u \in Seq(S) /\ Len(u) = IF 1 <= k THEN k - 1 + 1 ELSE 0
        /\ \A i \in 1..(k - 1 + 1) : u[i] = t[1 + i - 1]
    BY <1>4, <2>1, SubSeqProperties
  <2>. QED BY <2>2
<1>6. u = s
  BY <1>1, <1>3, <1>5, SeqEqual
<1>. QED BY <1>1, <1>2, <1>3, <1>4, <1>6 DEF Front

\* A file with a torn line is a stem and that line.
LEMMA FileParts ==
  ASSUME NEW f, WellFormed(f)
  PROVE  /\ Rehydrate(f) \in Seq(Ent) /\ Stem(f) \in Seq(Ent)
         /\ f.torn => /\ Front(f.lines) \in Seq(Seq(Ent))
                      /\ Len(Front(f.lines)) + 1 = Len(f.lines)
                      /\ \E x \in Seq(Ent) : Rehydrate(f) = Stem(f) \o x
<1>1. f.lines \in Seq(Seq(Ent)) /\ f.torn \in BOOLEAN
  BY DEF WellFormed, File
<1>2. Rehydrate(f) \in Seq(Ent)
  BY <1>1, FlattenType DEF Rehydrate
<1>3. CASE ~f.torn
  BY <1>2, <1>3 DEF Stem
<1>4. CASE f.torn
  <2>1. PICK s \in Seq(Seq(Ent)), x \in Seq(Ent) : f.lines = Append(s, x)
    BY <1>1, <1>4, SequenceEmptyOrAppend DEF WellFormed
  <2>2. Front(f.lines) = s /\ Len(f.lines) = Len(s) + 1
    BY <2>1, FrontAppend, AppendProperties
  <2>3. Stem(f) = FlattenSeq(s)
    BY <1>4, <2>2 DEF Stem
  <2>4. Rehydrate(f) = FlattenSeq(s) \o x
    BY <2>1, FlattenAppend DEF Rehydrate
  <2>5. FlattenSeq(s) \in Seq(Ent)
    BY FlattenType
  <2>. QED BY <1>2, <2>2, <2>3, <2>4, <2>5
<1>. QED BY <1>1, <1>3, <1>4

\* A file with one line more is a file.
LEMMA FileRecord ==
  ASSUME NEW s \in Seq(Seq(Ent)), NEW x \in Seq(Ent)
  PROVE  /\ [lines |-> Append(s, x), torn |-> TRUE] \in File
         /\ [lines |-> Append(s, x), torn |-> FALSE] \in File
<1>1. Append(s, x) \in Seq(Seq(Ent))
  BY AppendProperties
<1>. QED BY <1>1 DEF File

\* What a file gives back once it has a line more.
LEMMA FileLonger ==
  ASSUME NEW s \in Seq(Seq(Ent)), NEW x \in Seq(Ent),
         NEW g \in File, g.lines = Append(s, x)
  PROVE  /\ WellFormed(g)
         /\ Len(g.lines) = Len(s) + 1
         /\ Rehydrate(g) = FlattenSeq(s) \o x
         /\ g.torn => Stem(g) = FlattenSeq(s)
<1>1. Append(s, x) # <<>> /\ Len(Append(s, x)) = Len(s) + 1
  BY AppendProperties
<1>2. Front(g.lines) = s
  BY FrontAppend
<1>3. WellFormed(g)
  BY <1>1 DEF WellFormed
<1>. QED BY <1>1, <1>2, <1>3, FlattenAppend DEF Rehydrate, Stem

\* What an append that is done leaves.
LEMMA FileAppended ==
  ASSUME NEW f, WellFormed(f), NEW e \in Ent, NEW g, g = AppendLine(f, e)
  PROVE  /\ WellFormed(g) /\ ~g.torn
         /\ Len(g.lines) = IF f.torn THEN Len(f.lines) ELSE Len(f.lines) + 1
         /\ Rehydrate(g) = IF f.torn THEN Stem(f) ELSE Append(Stem(f), e)
<1>1. f.lines \in Seq(Seq(Ent)) /\ <<e>> \in Seq(Ent) /\ <<>> \in Seq(Ent)
  BY EmptySeq DEF WellFormed, File
<1>2. CASE f.torn
  <2>1. g = [lines |-> Append(Front(f.lines), <<>>), torn |-> FALSE]
    BY <1>2 DEF AppendLine
  <2>2. /\ WellFormed(g) /\ g.torn = FALSE /\ Len(g.lines) = Len(Front(f.lines)) + 1
        /\ Rehydrate(g) = FlattenSeq(Front(f.lines)) \o <<>>
    <3>1. Front(f.lines) \in Seq(Seq(Ent)) /\ g.torn = FALSE
      BY <1>2, <2>1, FileParts
    <3>2. g.lines = Append(Front(f.lines), <<>>)
      BY <2>1
    <3>3. g \in File
      BY <1>1, <2>1, <3>1, FileRecord
    <3>. QED BY <1>1, <3>1, <3>2, <3>3, FileLonger
  <2>3. Rehydrate(g) = Stem(f)
    BY <1>2, <2>2, FileParts, ConcatEmptySeq DEF Stem
  <2>. QED BY <1>2, <2>2, <2>3, FileParts
<1>3. CASE ~f.torn
  <2>1. g = [lines |-> Append(f.lines, <<e>>), torn |-> FALSE]
    BY <1>3 DEF AppendLine
  <2>2. /\ WellFormed(g) /\ g.torn = FALSE /\ Len(g.lines) = Len(f.lines) + 1
        /\ Rehydrate(g) = FlattenSeq(f.lines) \o <<e>>
    <3>1. g.lines = Append(f.lines, <<e>>) /\ g.torn = FALSE
      BY <2>1
    <3>2. g \in File
      BY <1>1, <2>1, FileRecord
    <3>. QED BY <1>1, <3>1, <3>2, FileLonger
  <2>3. Rehydrate(g) = Append(Stem(f), e)
    BY <1>3, <2>2, FileParts, AppendIsConcat DEF Stem, Rehydrate
  <2>. QED BY <1>3, <2>2, <2>3
<1>. QED BY <1>2, <1>3

\* What one that is interrupted may leave.
LEMMA FileTorn ==
  ASSUME NEW f, WellFormed(f), NEW e \in Ent, NEW g \in PartlyAppended(f, e), g # f
  PROVE  /\ WellFormed(g) /\ g.torn
         /\ Len(g.lines) = IF f.torn THEN Len(f.lines) ELSE Len(f.lines) + 1
         /\ Stem(g) = Stem(f)
         /\ \/ Rehydrate(g) = Stem(f)
            \/ ~f.torn /\ Rehydrate(g) = Append(Stem(f), e)
<1>1. f.lines \in Seq(Seq(Ent)) /\ <<e>> \in Seq(Ent) /\ <<>> \in Seq(Ent)
  BY EmptySeq DEF WellFormed, File
<1>2. CASE f.torn
  <2>1. g = [lines |-> Append(Front(f.lines), <<>>), torn |-> TRUE]
    BY <1>2 DEF PartlyAppended
  <2>2. /\ WellFormed(g) /\ g.torn /\ Len(g.lines) = Len(Front(f.lines)) + 1
        /\ Rehydrate(g) = FlattenSeq(Front(f.lines)) \o <<>>
        /\ Stem(g) = FlattenSeq(Front(f.lines))
    <3>1. Front(f.lines) \in Seq(Seq(Ent)) /\ g.torn
      BY <1>2, <2>1, FileParts
    <3>2. g \in File /\ g.lines = Append(Front(f.lines), <<>>)
      BY <1>1, <2>1, <3>1, FileRecord
    <3>. QED BY <1>1, <3>1, <3>2, FileLonger
  <2>3. Rehydrate(g) = Stem(f)
    BY <1>2, <2>2, FileParts, ConcatEmptySeq DEF Stem
  <2>. QED BY <1>2, <2>2, <2>3, FileParts DEF Stem
<1>3. CASE ~f.torn
  <2>1. PICK x \in {<<>>, <<e>>} : g = [lines |-> Append(f.lines, x), torn |-> TRUE]
    BY <1>3 DEF PartlyAppended
  <2>2. /\ WellFormed(g) /\ g.torn /\ Len(g.lines) = Len(f.lines) + 1
        /\ Rehydrate(g) = FlattenSeq(f.lines) \o x
        /\ Stem(g) = FlattenSeq(f.lines)
    <3>1. x \in Seq(Ent) /\ g.torn
      BY <1>1, <2>1
    <3>2. g \in File /\ g.lines = Append(f.lines, x)
      BY <1>1, <2>1, <3>1, FileRecord
    <3>. QED BY <1>1, <3>1, <3>2, FileLonger
  <2>3. Stem(f) = FlattenSeq(f.lines) /\ Stem(f) \in Seq(Ent)
    BY <1>3, FileParts DEF Stem, Rehydrate
  <2>4. Stem(f) \o <<>> = Stem(f) /\ Append(Stem(f), e) = Stem(f) \o <<e>>
    BY <2>3, ConcatEmptySeq, AppendIsConcat
  <2>5. Rehydrate(g) = Stem(f) \/ Rehydrate(g) = Append(Stem(f), e)
    BY <2>1, <2>2, <2>3, <2>4
  <2>. QED BY <1>3, <2>2, <2>3, <2>5
<1>. QED BY <1>2, <1>3

-----------------------------------------------------------------------------
(* The order and the links of a log.                                       *)

\* Entries of the first n calls of record().
Made(n) == [n : 1..n, previous : 0..n]

\* The log s has the entry n.
Holds(s, n) == \E i \in 1..Len(s) : s[i].n = n

\* A log of the first n calls, in their order.
Ascends(s, n) ==
    /\ s \in Seq(Made(n))
    /\ \A i, j \in 1..Len(s) : i < j => s[i].n < s[j].n

Prefix(p, s) == Len(p) <= Len(s) /\ \A i \in 1..Len(p) : p[i] = s[i]

\* With a torn line, the last call did not return, and the torn line's entry
\* is of no call that did.
Unfinished(log, kept, n, done) ==
    /\ n # 0 /\ n \notin done /\ ~Holds(kept, n)
    /\ \A m \in done : Holds(log, m) => Holds(kept, m)

\* An entry of a call that returned is missing only with the entry before it,
\* and the call before it did not return.
Lost(log, done) ==
    \A m \in done : ~Holds(log, m) =>
        m # 1 /\ m - 1 \notin done /\ ~Holds(log, m - 1)

\* An entry whose predecessor is in the log is linked to it.
Linked(log) ==
    \A i \in 1..Len(log) :
        log[i].n = 1 \/ Holds(log, log[i].n - 1) => log[i].previous = log[i].n - 1

\* The invariant of what the disk gives back after n calls, of which those in
\* done returned.
Sound(log, kept, torn, n, done) ==
    /\ Ascends(log, n) /\ Ascends(kept, n) /\ Prefix(kept, log)
    /\ IF torn THEN Unfinished(log, kept, n, done) ELSE kept = log
    /\ Lost(log, done) /\ Linked(log)

\* The entry that call n + 1 makes.
Follows(e, log, n) ==
    /\ e \in Made(n + 1) /\ e.n = n + 1
    /\ n = 0 \/ Holds(log, n) => e.previous = n

\* A log of the first n calls is one of the first n + 1, without the last.
LEMMA Wider ==
  ASSUME NEW n \in Nat, NEW s, Ascends(s, n)
  PROVE  /\ Ascends(s, n + 1) /\ ~Holds(s, n + 1) /\ ~Holds(s, 0)
         /\ \A i \in 1..Len(s) : s[i].n \in 1..n
<1>1. Made(n) \subseteq Made(n + 1)
  BY DEF Made
<1>2. s \in Seq(Made(n + 1))
  BY <1>1, SeqMonotonic DEF Ascends
<1>3. \A i \in 1..Len(s) : s[i] \in Made(n)
  BY ElementOfSeq DEF Ascends
<1>4. \A i \in 1..Len(s) : s[i].n \in 1..n
  BY <1>3 DEF Made
<1>. QED BY <1>2, <1>4 DEF Ascends, Holds

\* An entry more at the end.
LEMMA Longer ==
  ASSUME NEW n \in Nat, NEW s, Ascends(s, n), NEW e \in Made(n + 1), e.n = n + 1
  PROVE  /\ Ascends(Append(s, e), n + 1)
         /\ \A m : Holds(Append(s, e), m) <=> Holds(s, m) \/ m = n + 1
         /\ Prefix(s, Append(s, e))
<1>1. PICK k \in Nat : k = Len(s)
  BY LenProperties DEF Ascends
<1>2. PICK t : t = Append(s, e)
  OBVIOUS
<1>3. /\ t \in Seq(Made(n + 1)) /\ Len(t) = k + 1
      /\ \A i \in 1..k : t[i] = s[i]
      /\ t[k + 1] = e
  <2>1. s \in Seq(Made(n + 1))
    BY Wider DEF Ascends
  <2>. QED BY <1>1, <1>2, <2>1, AppendProperties
<1>4. \A i \in 1..k : s[i].n \in 1..n
  BY <1>1, Wider
<1>5. \A i, j \in 1..(k + 1) : i < j => t[i].n < t[j].n
  <2>1. SUFFICES ASSUME NEW i \in 1..(k + 1), NEW j \in 1..(k + 1), i < j
                 PROVE  t[i].n < t[j].n
    OBVIOUS
  <2>2. i \in 1..k /\ t[i] = s[i] /\ s[i].n \in 1..n
    BY <1>3, <1>4, <2>1
  <2>3. CASE j \in 1..k
    BY <1>1, <1>3, <2>1, <2>2, <2>3 DEF Ascends
  <2>4. CASE j = k + 1
    BY <1>3, <2>2, <2>4
  <2>. QED BY <2>1, <2>3, <2>4
<1>6. \A m : Holds(t, m) <=> Holds(s, m) \/ m = n + 1
  <2>1. \A i : i \in 1..(k + 1) <=> i \in 1..k \/ i = k + 1
    BY <1>1
  <2>. QED BY <1>1, <1>3, <2>1 DEF Holds
<1>. QED BY <1>1, <1>2, <1>3, <1>5, <1>6 DEF Ascends, Prefix

\* What a prefix holds, the whole holds.
LEMMA PrefixHolds ==
  ASSUME NEW p, NEW s, NEW n \in Nat, Ascends(p, n), Ascends(s, n), Prefix(p, s)
  PROVE  /\ \A m : Holds(p, m) => Holds(s, m)
         /\ Linked(s) => Linked(p)
<1>1. Len(p) \in Nat /\ Len(s) \in Nat
  BY LenProperties DEF Ascends
<1>2. \A i \in 1..Len(p) : i \in 1..Len(s) /\ p[i] = s[i]
  BY <1>1 DEF Prefix
<1>3. \A m : Holds(p, m) => Holds(s, m)
  BY <1>2 DEF Holds
<1>4. ASSUME Linked(s) PROVE Linked(p)
  BY <1>2, <1>3, <1>4 DEF Linked
<1>. QED BY <1>3, <1>4

\* The active file becomes a segment, its torn line with it.
LEMMA SoundRotated ==
  ASSUME NEW log, NEW kept, NEW torn, NEW n, NEW done, Sound(log, kept, torn, n, done)
  PROVE  Sound(log, log, FALSE, n, done)
<1>1. log \in Seq(Made(n))
  BY DEF Sound, Ascends
<1>2. Prefix(log, log)
  <2>1. Len(log) \in Nat
    BY <1>1, LenProperties
  <2>. QED BY <2>1 DEF Prefix
<1>. QED BY <1>2 DEF Sound

\* The number n + 1 is used up and nothing is written.
LEMMA SoundUnwritten ==
  ASSUME NEW log, NEW kept, NEW torn, NEW n \in Nat, NEW done \in SUBSET (1..n),
         Sound(log, kept, torn, n, done)
  PROVE  Sound(log, kept, torn, n + 1, done)
<1>1. Ascends(log, n + 1) /\ Ascends(kept, n + 1) /\ ~Holds(kept, n + 1)
  BY Wider DEF Sound
<1>2. Unfinished(log, kept, n, done) => Unfinished(log, kept, n + 1, done)
  BY <1>1 DEF Unfinished
<1>. QED BY <1>1, <1>2 DEF Sound

\* The entry n + 1 is written whole, with or without its newline, to a file
\* that was not torn.
LEMMA SoundWritten ==
  ASSUME NEW log, NEW n \in Nat, NEW done \in SUBSET (1..n), NEW e,
         Sound(log, log, FALSE, n, done), Follows(e, log, n)
  PROVE  /\ Sound(Append(log, e), Append(log, e), FALSE, n + 1, done \cup {n + 1})
         /\ Sound(Append(log, e), Append(log, e), FALSE, n + 1, done)
         /\ Sound(Append(log, e), log, TRUE, n + 1, done)
<1>1. PICK t : t = Append(log, e)
  OBVIOUS
<1>2. /\ Ascends(log, n) /\ Ascends(log, n + 1) /\ ~Holds(log, n + 1) /\ ~Holds(log, 0)
      /\ \A i \in 1..Len(log) : log[i].n \in 1..n
  BY Wider DEF Sound
<1>3. /\ Ascends(t, n + 1) /\ Prefix(log, t)
      /\ \A m : Holds(t, m) <=> Holds(log, m) \/ m = n + 1
  BY <1>1, <1>2, Longer DEF Follows
<1>4. Prefix(t, t)
  <2>1. Len(t) \in Nat
    BY <1>3, LenProperties DEF Ascends
  <2>. QED BY <2>1 DEF Prefix
<1>5. Lost(t, done) /\ Lost(t, done \cup {n + 1})
  BY <1>3 DEF Lost, Sound
<1>6. Linked(t)
  <2>1. PICK k \in Nat : k = Len(log)
    BY <1>2, LenProperties DEF Ascends
  <2>2. Len(t) = k + 1 /\ (\A i \in 1..k : t[i] = log[i]) /\ t[k + 1] = e
    BY <1>1, <1>2, <2>1, AppendProperties DEF Ascends, Follows
  <2>3. SUFFICES ASSUME NEW i \in 1..Len(t), t[i].n = 1 \/ Holds(t, t[i].n - 1)
                 PROVE  t[i].previous = t[i].n - 1
    BY DEF Linked
  <2>4. CASE i \in 1..k
    <3>1. t[i] = log[i] /\ log[i].n \in 1..n
      BY <1>2, <2>1, <2>2, <2>4
    <3>2. log[i].n - 1 # n + 1
      BY <3>1
    <3>3. log[i].n = 1 \/ Holds(log, log[i].n - 1)
      BY <1>3, <2>3, <3>1, <3>2
    <3>. QED BY <2>1, <2>4, <3>1, <3>3 DEF Sound, Linked
  <2>5. CASE i = k + 1
    <3>1. t[i] = e /\ e.n = n + 1
      BY <2>2, <2>5 DEF Follows
    <3>2. n + 1 = 1 \/ Holds(t, n)
      BY <2>3, <3>1
    <3>3. n = 0 \/ Holds(log, n)
      BY <1>3, <3>2
    <3>. QED BY <3>1, <3>3 DEF Follows
  <2>. QED BY <2>1, <2>2, <2>4, <2>5
<1>7. Unfinished(t, log, n + 1, done)
  BY <1>2, <1>3 DEF Unfinished
<1>. QED BY <1>1, <1>2, <1>3, <1>4, <1>5, <1>6, <1>7 DEF Sound

\* The entry n + 1 is written behind a torn line, or a piece of it is written
\* anywhere: the torn line's entry is gone, and entry n + 1 with it.
LEMMA SoundMerged ==
  ASSUME NEW log, NEW kept, NEW torn, NEW n \in Nat, NEW done \in SUBSET (1..n),
         Sound(log, kept, torn, n, done)
  PROVE  /\ Sound(kept, kept, TRUE, n + 1, done)
         /\ torn => /\ Sound(kept, kept, FALSE, n + 1, done \cup {n + 1})
                    /\ Sound(kept, kept, FALSE, n + 1, done)
<1>1. /\ Ascends(kept, n) /\ Ascends(kept, n + 1) /\ ~Holds(kept, n + 1)
      /\ Linked(kept) /\ \A m : Holds(kept, m) => Holds(log, m)
  BY Wider, PrefixHolds DEF Sound
<1>2. Prefix(kept, kept)
  <2>1. Len(kept) \in Nat
    BY <1>1, LenProperties DEF Ascends
  <2>. QED BY <2>1 DEF Prefix
<1>3. \A m \in done : Holds(log, m) => Holds(kept, m)
  BY DEF Sound, Unfinished
<1>4. Lost(kept, done)
  BY <1>1, <1>3 DEF Lost, Sound
<1>5. Unfinished(kept, kept, n + 1, done)
  BY <1>1 DEF Unfinished
<1>6. ASSUME torn PROVE Lost(kept, done \cup {n + 1})
  <2>1. n # 0 /\ n \notin done /\ ~Holds(kept, n)
    BY <1>6 DEF Sound, Unfinished
  <2>2. \A m \in done : m - 1 # n + 1
    OBVIOUS
  <2>3. n + 1 # 1 /\ n + 1 - 1 = n /\ n # n + 1
    BY <2>1
  <2>. QED BY <1>4, <2>1, <2>2, <2>3 DEF Lost
<1>. QED BY <1>1, <1>2, <1>4, <1>5, <1>6 DEF Sound

-----------------------------------------------------------------------------
(* The log in memory.                                                      *)

\* The number the next entry is linked to.
Newest(s) == IF s = <<>> THEN 0 ELSE Last(s).n

\* The log in memory, against what the disk would give back.
Agrees(s, log, n, done) ==
    /\ Ascends(s, n)
    /\ n = 0 \/ Holds(log, n) => Newest(s) = n
    /\ \A i \in Breaks(s) : Before(s, i) + 1 \notin done
    /\ \A m \in done : ~Holds(s, m) => m - 1 \notin done

\* The newest number of an ascending log is one of its numbers, and the last.
LEMMA NewestIsLast ==
  ASSUME NEW n \in Nat, NEW s, Ascends(s, n)
  PROVE  /\ Newest(s) \in 0..n
         /\ n = 0 \/ Holds(s, n) => Newest(s) = n
<1>1. PICK k \in Nat : k = Len(s)
  BY LenProperties DEF Ascends
<1>2. k = 0 <=> s = <<>>
  BY <1>1, EmptySeq DEF Ascends
<1>3. \A i \in 1..k : s[i].n \in 1..n
  BY <1>1, Wider
<1>4. CASE k = 0
  <2>1. Newest(s) = 0
    BY <1>2, <1>4 DEF Newest
  <2>2. ~Holds(s, n)
    BY <1>1, <1>4 DEF Holds
  <2>. QED BY <2>1, <2>2
<1>5. CASE k # 0
  <2>1. k \in 1..k /\ Newest(s) = s[k].n
    BY <1>1, <1>2, <1>5 DEF Newest, Last
  <2>2. ASSUME NEW i \in 1..k, s[i].n = n PROVE s[k].n = n
    <3>1. i < k => s[i].n < s[k].n
      BY <1>1, <2>1 DEF Ascends
    <3>2. s[i].n \in 1..n /\ s[k].n \in 1..n
      BY <1>3, <2>1
    <3>. QED BY <2>2, <3>1, <3>2
  <2>3. s[k].n \in 1..n
    BY <1>3, <2>1
  <2>. QED BY <1>1, <2>1, <2>2, <2>3 DEF Holds
<1>. QED BY <1>4, <1>5

\* What record() has appended to the log in memory links to what was there.
LEMMA AgreesRecorded ==
  ASSUME NEW n \in Nat, NEW done \in SUBSET (1..n), NEW s, NEW old, NEW log, NEW e,
         Agrees(s, old, n, done), e \in Made(n + 1), e.n = n + 1, e.previous = Newest(s),
         NEW more \in SUBSET {n + 1}
  PROVE  Agrees(Append(s, e), log, n + 1, done \cup more)
<1>1. PICK k \in Nat : k = Len(s)
  BY LenProperties DEF Agrees, Ascends
<1>2. PICK t : t = Append(s, e)
  OBVIOUS
<1>3. /\ Ascends(s, n) /\ Ascends(t, n + 1)
      /\ \A m : Holds(t, m) <=> Holds(s, m) \/ m = n + 1
  BY <1>2, Longer DEF Agrees
<1>4. /\ Len(t) = k + 1 /\ DOMAIN t = 1..(k + 1) /\ t # <<>> /\ t[k + 1] = e
      /\ \A i \in 1..k : t[i] = s[i]
  <2>1. s \in Seq(Made(n + 1))
    BY <1>3, Wider DEF Ascends
  <2>. QED BY <1>1, <1>2, <2>1, AppendProperties, LenProperties
<1>5. Newest(t) = n + 1
  BY <1>4 DEF Newest, Last
<1>6. DOMAIN s = 1..k /\ (k = 0 <=> s = <<>>)
  BY <1>1, <1>3, LenProperties, EmptySeq DEF Ascends
<1>7. ASSUME NEW i \in Breaks(t) PROVE Before(t, i) + 1 \notin done \cup more
  <2>1. i \in 1..(k + 1) /\ t[i].previous # Before(t, i)
    BY <1>4 DEF Breaks
  <2>2. CASE i = k + 1
    <3>1. Before(t, i) = Newest(s)
      BY <1>1, <1>4, <1>6, <2>2 DEF Before, Newest, Last
    <3>. QED BY <1>4, <2>1, <2>2, <3>1
  <2>3. CASE i \in 1..k
    <3>1. t[i] = s[i] /\ Before(t, i) = Before(s, i)
      BY <1>4, <2>3 DEF Before
    <3>2. i \in Breaks(s)
      BY <1>6, <2>1, <2>3, <3>1 DEF Breaks
    <3>3. Before(s, i) \in Nat /\ Before(s, i) < s[i].n /\ s[i].n \in 1..n
      <4>1. s[i].n \in 1..n /\ (i # 1 => s[i - 1].n \in 1..n)
        <5>1. \A j \in 1..k : s[j].n \in 1..n
          BY <1>1, <1>3, Wider
        <5>2. i # 1 => i - 1 \in 1..k
          BY <2>3
        <5>. QED BY <2>3, <5>1, <5>2
      <4>2. i # 1 => s[i - 1].n < s[i].n
        BY <1>1, <1>3, <2>3 DEF Ascends
      <4>. QED BY <4>1, <4>2 DEF Before
    <3>4. Before(s, i) + 1 \notin done
      BY <3>2 DEF Agrees
    <3>. QED BY <3>1, <3>3, <3>4
  <2>. QED BY <1>1, <2>1, <2>2, <2>3
<1>8. ASSUME NEW m \in done \cup more, ~Holds(t, m) PROVE m - 1 \notin done \cup more
  <2>1. m \in done /\ ~Holds(s, m)
    BY <1>3, <1>8
  <2>2. m - 1 \notin done
    BY <2>1 DEF Agrees
  <2>. QED BY <2>1, <2>2
<1>. QED BY <1>2, <1>3, <1>5, <1>7, <1>8 DEF Agrees

\* What the next process reads back.
LEMMA AgreesReread ==
  ASSUME NEW n \in Nat, NEW done \in SUBSET (1..n), NEW log, NEW kept, NEW torn,
         Sound(log, kept, torn, n, done)
  PROVE  Agrees(log, log, n, done)
<1>1. Ascends(log, n)
  BY DEF Sound
<1>2. PICK k \in Nat : k = Len(log)
  BY <1>1, LenProperties DEF Ascends
<1>3. DOMAIN log = 1..k /\ \A i \in 1..k : log[i].n \in 1..n
  BY <1>1, <1>2, LenProperties, Wider DEF Ascends
<1>4. ASSUME NEW i \in Breaks(log), Before(log, i) + 1 \in done PROVE FALSE
  <2>1. i \in 1..k /\ log[i].previous # Before(log, i)
    BY <1>3 DEF Breaks
  <2>2. PICK b : b = Before(log, i)
    OBVIOUS
  <2>3. b \in Nat /\ (b # 0 => Holds(log, b)) /\ b < log[i].n
    <3>1. CASE i = 1
      <4>1. b = 0
        BY <2>2, <3>1 DEF Before
      <4>. QED BY <1>3, <2>1, <4>1
    <3>2. CASE i # 1
      <4>1. i - 1 \in 1..k /\ i - 1 < i /\ b = log[i - 1].n
        BY <2>1, <2>2, <3>2 DEF Before
      <4>2. log[i - 1].n < log[i].n
        BY <1>1, <1>2, <2>1, <4>1 DEF Ascends
      <4>. QED BY <1>2, <1>3, <4>1, <4>2 DEF Holds
    <3>. QED BY <3>1, <3>2
  <2>4. Holds(log, b + 1)
    <3>1. b + 1 - 1 = b /\ (b + 1 = 1 => b = 0)
      BY <2>3
    <3>. QED BY <1>4, <2>2, <2>3, <3>1 DEF Sound, Lost
  <2>5. PICK j \in 1..k : log[j].n = b + 1
    BY <1>2, <2>4 DEF Holds
  <2>6. log[i].n = b + 1
    <3>1. i < j => log[i].n < log[j].n
      BY <1>1, <1>2, <2>1, <2>5 DEF Ascends
    <3>2. j < i => j = i - 1 \/ j < i - 1
      BY <2>1, <2>5
    <3>3. j < i => log[j].n <= b
      <4>1. ASSUME j < i PROVE log[j].n <= b
        <5>1. i - 1 \in 1..k /\ b = log[i - 1].n
          BY <2>1, <2>2, <2>5, <4>1 DEF Before
        <5>2. j < i - 1 => log[j].n < log[i - 1].n
          BY <1>1, <1>2, <2>5, <5>1 DEF Ascends
        <5>. QED BY <1>3, <2>5, <3>2, <4>1, <5>1, <5>2
      <4>. QED BY <4>1
    <3>. QED BY <1>3, <2>1, <2>3, <2>5, <3>1, <3>3
  <2>7. log[i].n = 1 \/ Holds(log, log[i].n - 1)
    BY <2>3, <2>6
  <2>8. log[i].previous = log[i].n - 1
    BY <1>2, <2>1, <2>7 DEF Sound, Linked
  <2>. QED BY <2>1, <2>2, <2>3, <2>6, <2>8
<1>5. \A m \in done : ~Holds(log, m) => m - 1 \notin done
  BY DEF Sound, Lost
<1>. QED BY <1>1, <1>4, <1>5, NewestIsLast DEF Agrees

-----------------------------------------------------------------------------
(* The disk.                                                               *)

\* What each of the archived segments gives back.
Reread(a) == [i \in DOMAIN a |-> Rehydrate(a[i])]

\* What the disk gives back without a torn line.
Kept(d) == FlattenSeq(Reread(d.archive)) \o Stem(d.active)

DiskType == [archive : Seq(File), active : File, counter : 0..MaxLines]

\* SegmentsBounded, of any disk.
Fits(d) ==
    /\ PhysicalLines(d.active) <= MaxLines
    /\ \A i \in DOMAIN d.archive : PhysicalLines(d.archive[i]) <= MaxLines

\* The counter of a running process has missed the torn line at most.
Counted(d) == PhysicalLines(d.active) <= IF d.active.torn THEN d.counter + 1 ELSE d.counter

WellKept(d) == d \in DiskType /\ WellFormed(d.active) /\ Fits(d)

\* Archiving a segment adds what it gives back at the end.
LEMMA ArchiveRead ==
  ASSUME NEW a \in Seq(File)
  PROVE  /\ Reread(a) \in Seq(Seq(Ent)) /\ FlattenSeq(Reread(a)) \in Seq(Ent)
         /\ \A f \in File : Reread(Append(a, f)) = Append(Reread(a), Rehydrate(f))
<1>1. PICK k \in Nat : k = Len(a)
  BY LenProperties
<1>2. DOMAIN a = 1..k /\ \A i \in 1..k : a[i] \in File
  BY <1>1, LenProperties, ElementOfSeq
<1>3. \A f \in File : Rehydrate(f) \in Seq(Ent)
  BY FlattenType DEF File, Rehydrate
<1>4. PICK r : r = Reread(a)
  OBVIOUS
<1>5. r \in [1..k -> Seq(Ent)] /\ \A i \in 1..k : r[i] = Rehydrate(a[i])
  BY <1>2, <1>3, <1>4 DEF Reread
<1>6. r \in Seq(Seq(Ent)) /\ Len(r) = k
  BY <1>5
<1>7. ASSUME NEW f \in File PROVE Reread(Append(a, f)) = Append(r, Rehydrate(f))
  <2>1. PICK b : b = Append(a, f)
    OBVIOUS
  <2>2. b \in Seq(File) /\ Len(b) = k + 1 /\ b[k + 1] = f /\ \A i \in 1..k : b[i] = a[i]
    BY <1>1, <2>1, AppendProperties
  <2>3. DOMAIN b = 1..(k + 1)
    BY <2>2, LenProperties
  <2>4. PICK u : u = Append(r, Rehydrate(f))
    OBVIOUS
  <2>5. /\ u \in Seq(Seq(Ent)) /\ Len(u) = k + 1 /\ u[k + 1] = Rehydrate(f)
        /\ \A i \in 1..k : u[i] = r[i]
    BY <1>3, <1>6, <2>4, AppendProperties
  <2>6. DOMAIN u = 1..(k + 1)
    BY <2>5, LenProperties
  <2>7. \A i \in 1..(k + 1) : u[i] = Rehydrate(b[i])
    <3>1. \A i \in 1..(k + 1) : i \in 1..k \/ i = k + 1
      BY <1>1
    <3>. QED BY <3>1, <1>5, <2>2, <2>5
  <2>8. u = [i \in 1..(k + 1) |-> u[i]]
    BY <2>5, <2>6
  <2>9. [i \in 1..(k + 1) |-> u[i]] = [i \in 1..(k + 1) |-> Rehydrate(b[i])]
    BY <2>7
  <2>. QED BY <2>1, <2>3, <2>4, <2>8, <2>9 DEF Reread
<1>. QED BY <1>4, <1>6, <1>7, FlattenType

\* The disk and what it gives back.
LEMMA DiskRead ==
  ASSUME NEW d, WellKept(d)
  PROVE  /\ Rehydrated(d) = FlattenSeq(Reread(d.archive)) \o Rehydrate(d.active)
         /\ Rehydrated(d) \in Seq(Ent) /\ Kept(d) \in Seq(Ent)
         /\ d.active.torn \/ Kept(d) = Rehydrated(d)
<1>1. Rehydrated(d) = FlattenSeq(Reread(d.archive)) \o Rehydrate(d.active)
  BY DEF Rehydrated, Reread
<1>2. FlattenSeq(Reread(d.archive)) \in Seq(Ent)
  BY ArchiveRead DEF WellKept, DiskType
<1>3. Rehydrate(d.active) \in Seq(Ent) /\ Stem(d.active) \in Seq(Ent)
  BY FileParts DEF WellKept
<1>. QED BY <1>1, <1>2, <1>3, ConcatProperties DEF Kept, Stem

\* A full active file becomes the last segment.
LEMMA DiskRotated ==
  ASSUME NEW d, WellKept(d), Counted(d), NEW r, r = Rotated(d)
  PROVE  /\ WellKept(r) /\ Counted(r) /\ r.counter < MaxLines
         /\ Rehydrated(r) = Rehydrated(d)
         /\ r = d \/ (~r.active.torn /\ Kept(r) = Rehydrated(d))
<1>1. CASE ~Full(d)
  <2>1. r = d
    BY <1>1 DEF Rotated
  <2>2. d.counter \in 0..MaxLines
    BY DEF WellKept, DiskType
  <2>3. d.counter < MaxLines
    BY <1>1, <2>2, BoundsAssumption DEF Full
  <2>. QED BY <2>1, <2>3
<1>2. CASE Full(d)
  <2>1. PICK a : a = Append(d.archive, d.active)
    OBVIOUS
  <2>2. r = [archive |-> a, active |-> NoFile, counter |-> 0]
    BY <1>2, <2>1 DEF Rotated
  <2>3. d.archive \in Seq(File) /\ d.active \in File
    BY DEF WellKept, DiskType
  <2>4. PICK k \in Nat : k = Len(d.archive) /\ DOMAIN d.archive = 1..k
    BY <2>3, LenProperties
  <2>5. a \in Seq(File) /\ DOMAIN a = 1..(k + 1) /\ a[k + 1] = d.active
        /\ \A i \in 1..k : a[i] = d.archive[i]
    BY <2>1, <2>3, <2>4, AppendProperties, LenProperties
  <2>6. NoFile \in File /\ WellFormed(NoFile) /\ PhysicalLines(NoFile) = 0 /\ ~NoFile.torn
    <3>1. NoFile.lines = <<>> /\ NoFile.torn = FALSE
      BY DEF NoFile
    <3>2. <<>> \in Seq(Seq(Ent)) /\ Len(<<>>) = 0
      BY EmptySeq
    <3>3. NoFile \in File
      BY <3>2 DEF NoFile, File
    <3>. QED BY <3>1, <3>2, <3>3 DEF WellFormed, PhysicalLines
  <2>7. r \in DiskType
    BY <2>2, <2>5, <2>6, BoundsAssumption DEF DiskType
  <2>8. r.archive = a /\ r.active = NoFile /\ r.counter = 0
    BY <2>2
  <2>9. Fits(r)
    <3>1. \A i \in 1..(k + 1) : i \in 1..k \/ i = k + 1
      BY <2>4
    <3>2. \A i \in 1..(k + 1) : PhysicalLines(a[i]) <= MaxLines
      BY <3>1, <2>4, <2>5 DEF WellKept, Fits
    <3>. QED BY <2>5, <2>6, <2>8, <3>2, BoundsAssumption DEF Fits
  <2>10. Counted(r)
    BY <2>6, <2>8 DEF Counted
  <2>11. Rehydrate(NoFile) = <<>> /\ Stem(NoFile) = <<>>
    <3>1. NoFile.lines = <<>> /\ Len(<<>>) = 0
      BY EmptySeq DEF NoFile
    <3>. QED BY <2>6, <3>1 DEF Rehydrate, Stem, FlattenSeq
  <2>12. FlattenSeq(Reread(a)) = Rehydrated(d) /\ Rehydrated(d) \in Seq(Ent)
    <3>1. Rehydrate(d.active) \in Seq(Ent)
      BY FileParts DEF WellKept
    <3>2. Reread(a) = Append(Reread(d.archive), Rehydrate(d.active))
      BY <2>1, <2>3, ArchiveRead
    <3>3. FlattenSeq(Reread(a)) = FlattenSeq(Reread(d.archive)) \o Rehydrate(d.active)
      BY <2>3, <3>1, <3>2, ArchiveRead, FlattenAppend
    <3>. QED BY <3>3, DiskRead
  <2>13. Rehydrated(r) = Rehydrated(d) /\ Kept(r) = Rehydrated(d)
    <3>1. Rehydrated(d) \o <<>> = Rehydrated(d)
      BY <2>12, ConcatEmptySeq
    <3>2. Rehydrated(r) = FlattenSeq(Reread(a)) \o <<>>
      BY <2>8, <2>11 DEF Rehydrated, Reread
    <3>3. Kept(r) = FlattenSeq(Reread(a)) \o <<>>
      BY <2>8, <2>11 DEF Kept
    <3>. QED BY <2>12, <3>1, <3>2, <3>3
  <2>. QED BY <2>6, <2>7, <2>8, <2>9, <2>10, <2>13, BoundsAssumption DEF WellKept
<1>. QED BY <1>1, <1>2

\* Sound, of a disk.
DiskSound(d, n, done) == Sound(Rehydrated(d), Kept(d), d.active.torn, n, done)

\* An element appended to the right part is appended to the whole.
LEMMA AppendRight ==
  ASSUME NEW S, NEW s \in Seq(S), NEW t \in Seq(S), NEW e \in S
  PROVE  s \o Append(t, e) = Append(s \o t, e)
<1>1. <<e>> \in Seq(S) /\ s \o t \in Seq(S)
  BY ConcatProperties
<1>2. Append(t, e) = t \o <<e>> /\ Append(s \o t, e) = (s \o t) \o <<e>>
  BY <1>1, AppendIsConcat
<1>. QED BY <1>1, <1>2, ConcatAssociative

\* A rotation leaves a sound disk sound.
LEMMA RotatedSound ==
  ASSUME NEW n, NEW done, NEW d, WellKept(d), Counted(d), DiskSound(d, n, done),
         NEW r, r = Rotated(d)
  PROVE  DiskSound(r, n, done)
<1>1. CASE r = d
  BY <1>1
<1>2. CASE ~r.active.torn /\ Kept(r) = Rehydrated(d)
  <2>1. Sound(Rehydrated(d), Rehydrated(d), FALSE, n, done)
    BY SoundRotated DEF DiskSound
  <2>2. Rehydrated(r) = Rehydrated(d)
    BY DiskRotated
  <2>. QED BY <1>2, <2>1, <2>2 DEF DiskSound, Sound
<1>. QED BY <1>1, <1>2, DiskRotated

\* What the disk gives back after an append that was done.
LEMMA DiskWritten ==
  ASSUME NEW n \in Nat, NEW done \in SUBSET (1..n), NEW d, WellKept(d), Counted(d),
         d.counter < MaxLines, DiskSound(d, n, done), NEW e, Follows(e, Rehydrated(d), n),
         NEW w, w = [d EXCEPT !.active = AppendLine(@, e), !.counter = @ + 1]
  PROVE  /\ WellKept(w) /\ Counted(w)
         /\ DiskSound(w, n + 1, done \cup {n + 1}) /\ DiskSound(w, n + 1, done)
<1>1. PICK g : g = AppendLine(d.active, e)
  OBVIOUS
<1>2. e \in Ent
  BY DEF Follows, Made, Ent
<1>3. d \in DiskType /\ WellFormed(d.active) /\ d.active \in File /\ Fits(d)
  BY DEF WellKept, DiskType
<1>4. /\ WellFormed(g) /\ ~g.torn
      /\ Len(g.lines) = IF d.active.torn THEN Len(d.active.lines) ELSE Len(d.active.lines) + 1
      /\ Rehydrate(g) = IF d.active.torn THEN Stem(d.active) ELSE Append(Stem(d.active), e)
  BY <1>1, <1>2, <1>3, FileAppended
<1>5. w.active = g /\ w.archive = d.archive /\ w.counter = d.counter + 1
  BY <1>1, <1>3 DEF DiskType
<1>6. /\ d.counter \in Nat /\ Len(d.active.lines) \in Nat
      /\ PhysicalLines(d.active) = Len(d.active.lines)
      /\ PhysicalLines(g) = Len(g.lines)
  BY <1>3, LenProperties DEF DiskType, File, PhysicalLines
<1>7. PhysicalLines(g) <= d.counter + 1 /\ PhysicalLines(g) <= MaxLines
  BY <1>4, <1>6, BoundsAssumption DEF Counted
<1>8. WellKept(w) /\ Counted(w)
  <2>1. g \in File /\ d.counter + 1 \in 0..MaxLines
    BY <1>4, <1>6, BoundsAssumption DEF WellFormed
  <2>2. w \in DiskType
    BY <1>1, <1>3, <2>1 DEF DiskType
  <2>3. Fits(w)
    BY <1>3, <1>5, <1>7 DEF Fits
  <2>. QED BY <1>4, <1>5, <1>7, <2>2, <2>3 DEF WellKept, Counted
<1>9. FlattenSeq(Reread(d.archive)) \in Seq(Ent) /\ Stem(d.active) \in Seq(Ent)
  BY <1>3, ArchiveRead, FileParts DEF DiskType
<1>10. /\ Rehydrated(w) = FlattenSeq(Reread(d.archive)) \o Rehydrate(g)
       /\ Kept(w) = Rehydrated(w)
  BY <1>4, <1>5, <1>8, DiskRead
<1>11. CASE d.active.torn
  <2>1. Rehydrated(w) = Kept(d)
    BY <1>4, <1>10, <1>11 DEF Kept
  <2>2. /\ Sound(Kept(d), Kept(d), FALSE, n + 1, done \cup {n + 1})
        /\ Sound(Kept(d), Kept(d), FALSE, n + 1, done)
    BY <1>11, SoundMerged DEF DiskSound
  <2>. QED BY <1>4, <1>5, <1>8, <1>10, <2>1, <2>2 DEF DiskSound, Sound
<1>12. CASE ~d.active.torn
  <2>1. Rehydrated(w) = Append(Rehydrated(d), e)
    <3>1. Kept(d) = Rehydrated(d)
      BY <1>12, DiskRead
    <3>2. FlattenSeq(Reread(d.archive)) \o Append(Stem(d.active), e)
            = Append(FlattenSeq(Reread(d.archive)) \o Stem(d.active), e)
      BY <1>2, <1>9, AppendRight
    <3>3. Rehydrated(w) = FlattenSeq(Reread(d.archive)) \o Append(Stem(d.active), e)
      BY <1>4, <1>10, <1>12
    <3>. QED BY <3>1, <3>2, <3>3 DEF Kept
  <2>2. Sound(Rehydrated(d), Rehydrated(d), FALSE, n, done)
    BY <1>12 DEF DiskSound, Sound
  <2>3. /\ Sound(Rehydrated(w), Rehydrated(w), FALSE, n + 1, done \cup {n + 1})
        /\ Sound(Rehydrated(w), Rehydrated(w), FALSE, n + 1, done)
    <3>1. PICK log : log = Rehydrated(d)
      OBVIOUS
    <3>2. /\ Sound(Append(log, e), Append(log, e), FALSE, n + 1, done \cup {n + 1})
          /\ Sound(Append(log, e), Append(log, e), FALSE, n + 1, done)
      BY <2>2, <3>1, SoundWritten
    <3>. QED BY <2>1, <3>1, <3>2
  <2>. QED BY <1>4, <1>5, <1>8, <1>10, <2>3 DEF DiskSound, Sound
<1>. QED BY <1>11, <1>12

\* And after one that was interrupted.
LEMMA DiskTorn ==
  ASSUME NEW n \in Nat, NEW done \in SUBSET (1..n), NEW d, WellKept(d), Counted(d),
         d.counter < MaxLines, DiskSound(d, n, done), NEW e, Follows(e, Rehydrated(d), n),
         NEW g \in PartlyAppended(d.active, e),
         NEW w, w = [d EXCEPT !.active = g]
  PROVE  WellKept(w) /\ Counted(w) /\ DiskSound(w, n + 1, done)
<1>1. d \in DiskType /\ WellFormed(d.active) /\ d.active \in File /\ Fits(d)
  BY DEF WellKept, DiskType
<1>2. CASE g = d.active
  <2>1. w = d
    BY <1>1, <1>2 DEF DiskType
  <2>. QED BY <2>1, SoundUnwritten DEF DiskSound
<1>3. CASE g # d.active
  <2>1. e \in Ent
    BY DEF Follows, Made, Ent
  <2>2. /\ WellFormed(g) /\ g.torn
        /\ Len(g.lines) = IF d.active.torn THEN Len(d.active.lines) ELSE Len(d.active.lines) + 1
        /\ Stem(g) = Stem(d.active)
        /\ \/ Rehydrate(g) = Stem(d.active)
           \/ ~d.active.torn /\ Rehydrate(g) = Append(Stem(d.active), e)
    BY <1>1, <1>3, <2>1, FileTorn
  <2>3. w.active = g /\ w.archive = d.archive /\ w.counter = d.counter
    BY <1>1 DEF DiskType
  <2>4. /\ d.counter \in Nat /\ Len(d.active.lines) \in Nat
        /\ PhysicalLines(d.active) = Len(d.active.lines)
        /\ PhysicalLines(g) = Len(g.lines)
    BY <1>1, LenProperties DEF DiskType, File, PhysicalLines
  <2>5. PhysicalLines(g) <= d.counter + 1 /\ PhysicalLines(g) <= MaxLines
    BY <2>2, <2>4, BoundsAssumption DEF Counted
  <2>6. WellKept(w) /\ Counted(w)
    <3>1. g \in File
      BY <2>2 DEF WellFormed
    <3>2. w \in DiskType
      BY <1>1, <3>1 DEF DiskType
    <3>3. Fits(w)
      BY <1>1, <2>3, <2>5 DEF Fits
    <3>. QED BY <2>2, <2>3, <2>5, <3>2, <3>3 DEF WellKept, Counted
  <2>7. FlattenSeq(Reread(d.archive)) \in Seq(Ent) /\ Stem(d.active) \in Seq(Ent)
    BY <1>1, ArchiveRead, FileParts DEF DiskType
  <2>8. /\ Rehydrated(w) = FlattenSeq(Reread(d.archive)) \o Rehydrate(g)
        /\ Kept(w) = Kept(d)
    BY <2>2, <2>3, <2>6, DiskRead DEF Kept
  <2>9. CASE Rehydrate(g) = Stem(d.active)
    <3>1. Rehydrated(w) = Kept(d)
      BY <2>8, <2>9 DEF Kept
    <3>2. Sound(Kept(d), Kept(d), TRUE, n + 1, done)
      BY SoundMerged DEF DiskSound
    <3>. QED BY <2>2, <2>3, <2>6, <2>8, <3>1, <3>2 DEF DiskSound, Sound
  <2>10. CASE ~d.active.torn /\ Rehydrate(g) = Append(Stem(d.active), e)
    <3>1. Kept(d) = Rehydrated(d)
      BY <2>10, DiskRead
    <3>2. Rehydrated(w) = Append(Rehydrated(d), e)
      <4>1. FlattenSeq(Reread(d.archive)) \o Append(Stem(d.active), e)
              = Append(FlattenSeq(Reread(d.archive)) \o Stem(d.active), e)
        BY <2>1, <2>7, AppendRight
      <4>. QED BY <2>8, <2>10, <3>1, <4>1 DEF Kept
    <3>3. Sound(Rehydrated(d), Rehydrated(d), FALSE, n, done)
      BY <2>10 DEF DiskSound, Sound
    <3>4. Sound(Rehydrated(w), Rehydrated(d), TRUE, n + 1, done)
      BY <3>2, <3>3, SoundWritten
    <3>. QED BY <2>2, <2>3, <2>6, <2>8, <3>1, <3>4 DEF DiskSound, Sound
  <2>. QED BY <2>2, <2>9, <2>10
<1>. QED BY <1>2, <1>3

-----------------------------------------------------------------------------
(* The inductive invariant and its steps.                                  *)

Memory ==
    IF running
    THEN Counted(disk) /\ Agrees(entries, Rehydrated(disk), count, acked)
    ELSE entries = <<>>

IInv ==
    /\ running \in BOOLEAN /\ count \in 0..MaxRecords /\ acked \in SUBSET (1..count)
    /\ WellKept(disk) /\ DiskSound(disk, count, acked)
    /\ Memory

\* It holds of the empty log.
LEMMA InitInv == Init => IInv
<1>. SUFFICES ASSUME Init PROVE IInv
  OBVIOUS
<1>1. PICK d : d = disk
  OBVIOUS
<1>2. /\ d.archive = <<>> /\ d.active = NoFile /\ d.counter = 0
      /\ NoFile.lines = <<>> /\ NoFile.torn = FALSE
  BY <1>1 DEF Init, EmptyDisk, NoFile
<1>3. \A S : <<>> \in Seq(S) /\ Len(<<>>) = 0 /\ DOMAIN <<>> = {}
  BY EmptySeq, LenProperties
<1>4. WellKept(d) /\ Counted(d)
  <2>1. NoFile \in File
    BY <1>3 DEF NoFile, File
  <2>2. d \in DiskType
    BY <1>1, <1>3, <2>1, BoundsAssumption DEF DiskType, Init, EmptyDisk
  <2>3. PhysicalLines(NoFile) = 0
    BY <1>2, <1>3 DEF PhysicalLines
  <2>. QED BY <1>2, <1>3, <2>1, <2>2, <2>3, BoundsAssumption
         DEF WellKept, WellFormed, Fits, Counted
<1>5. Rehydrated(d) = <<>> /\ Kept(d) = <<>>
  <2>1. Rehydrate(NoFile) = <<>> /\ Stem(NoFile) = <<>>
    BY <1>2, <1>3 DEF Rehydrate, Stem, FlattenSeq
  <2>2. Reread(<<>>) = <<>>
    BY <1>3 DEF Reread
  <2>3. FlattenSeq(Reread(<<>>)) = <<>>
    BY <1>3, <2>2 DEF FlattenSeq
  <2>4. <<>> \o <<>> = <<>>
    BY <1>3, ConcatEmptySeq
  <2>5. Kept(d) = <<>>
    BY <1>2, <2>1, <2>3, <2>4 DEF Kept
  <2>. QED BY <1>2, <1>4, <2>5, DiskRead
<1>6. Ascends(<<>>, 0) /\ \A m : ~Holds(<<>>, m)
  BY <1>3 DEF Ascends, Holds
<1>7. Sound(<<>>, <<>>, FALSE, 0, {})
  BY <1>3, <1>6 DEF Sound, Prefix, Lost, Linked
<1>8. DiskSound(d, 0, {})
  BY <1>2, <1>5, <1>7 DEF DiskSound
<1>9. Agrees(<<>>, <<>>, 0, {})
  BY <1>3, <1>6 DEF Agrees, Newest, Breaks
<1>. QED BY <1>1, <1>4, <1>5, <1>8, <1>9, BoundsAssumption DEF Init, IInv, Memory

\* The entry a call of record() makes, and the disk it is appended to.
LEMMA AttemptEffect ==
  ASSUME IInv, Attempt, NEW e, e = Entry, NEW r, r = Rotated(disk)
  PROVE  /\ count \in Nat /\ count + 1 \in 0..MaxRecords
         /\ Follows(e, Rehydrated(r), count) /\ e.previous = Newest(entries)
         /\ WellKept(r) /\ Counted(r) /\ r.counter < MaxLines
         /\ DiskSound(r, count, acked)
<1>1. /\ count \in Nat /\ count + 1 \in 0..MaxRecords
      /\ running /\ Counted(disk) /\ WellKept(disk) /\ DiskSound(disk, count, acked)
      /\ Agrees(entries, Rehydrated(disk), count, acked)
  BY BoundsAssumption DEF IInv, Memory, Attempt
<1>2. e.n = count + 1 /\ e.previous = Newest(entries)
      /\ e = [n |-> count + 1, previous |-> Newest(entries)]
  BY DEF Entry, Newest
<1>3. Newest(entries) \in 0..count
  BY <1>1, NewestIsLast DEF Agrees
<1>4. e \in Made(count + 1)
  BY <1>1, <1>2, <1>3 DEF Made
<1>5. count = 0 \/ Holds(Rehydrated(disk), count) => e.previous = count
  BY <1>1, <1>2 DEF Agrees
<1>6. /\ WellKept(r) /\ Counted(r) /\ r.counter < MaxLines
      /\ Rehydrated(r) = Rehydrated(disk)
  BY <1>1, DiskRotated
<1>7. DiskSound(r, count, acked)
  BY <1>1, RotatedSound
<1>. QED BY <1>1, <1>2, <1>4, <1>5, <1>6, <1>7 DEF Follows

\* What record() did to the log in memory.
LEMMA MemoryRecorded ==
  ASSUME IInv, Attempt, entries' = Append(entries, Entry), NEW log,
         NEW more \in SUBSET {count + 1}
  PROVE  Agrees(entries', log, count + 1, acked \cup more)
<1>1. PICK e : e = Entry
  OBVIOUS
<1>2. /\ count \in Nat /\ e \in Made(count + 1) /\ e.n = count + 1
      /\ e.previous = Newest(entries)
  BY <1>1, AttemptEffect DEF Follows
<1>3. Agrees(entries, Rehydrated(disk), count, acked) /\ acked \in SUBSET (1..count)
  BY DEF IInv, Memory, Attempt
<1>. QED BY <1>1, <1>2, <1>3, AgreesRecorded

\* record() returns.
LEMMA RecordStep == ASSUME IInv, Record PROVE IInv'
<1>1. PICK e : e = Entry
  OBVIOUS
<1>2. PICK r : r = Rotated(disk)
  OBVIOUS
<1>3. PICK w : w = [r EXCEPT !.active = AppendLine(@, e), !.counter = @ + 1]
  OBVIOUS
<1>4. Attempt /\ count' = count + 1 /\ running' = running /\ running
  BY DEF Record, Attempt
<1>5. disk' = w
  BY <1>1, <1>2, <1>3 DEF Record, Appended
<1>6. acked \in SUBSET (1..count)
  BY DEF IInv
<1>7. count \in Nat /\ count + 1 \in 0..MaxRecords
  BY <1>1, <1>2, <1>4, AttemptEffect
<1>8. WellKept(w) /\ Counted(w) /\ DiskSound(w, count + 1, acked \cup {count + 1})
  BY <1>1, <1>2, <1>3, <1>4, <1>6, AttemptEffect, DiskWritten
<1>9. Agrees(entries', Rehydrated(w), count + 1, acked \cup {count + 1})
  BY <1>4, MemoryRecorded DEF Record
<1>10. acked' = acked \cup {count + 1} /\ acked' \in SUBSET (1..(count + 1))
  BY <1>6, <1>7 DEF Record
<1>. QED BY <1>4, <1>5, <1>7, <1>8, <1>9, <1>10 DEF IInv, Memory

\* An attempt that stops in the append.
LEMMA InterruptedEffect ==
  ASSUME IInv, Attempt, disk' \in Interrupted(Rotated(disk))
  PROVE  WellKept(disk') /\ Counted(disk') /\ DiskSound(disk', count + 1, acked)
<1>1. PICK e : e = Entry
  OBVIOUS
<1>2. PICK r : r = Rotated(disk)
  OBVIOUS
<1>3. PICK g \in PartlyAppended(r.active, e) : disk' = [r EXCEPT !.active = g]
  BY <1>1, <1>2 DEF Interrupted
<1>4. acked \in SUBSET (1..count)
  BY DEF IInv
<1>. QED BY <1>1, <1>2, <1>3, <1>4, AttemptEffect, DiskTorn

\* An attempt that leaves the disk alone.
LEMMA UntouchedEffect ==
  ASSUME IInv, Attempt, disk' = disk
  PROVE  WellKept(disk') /\ Counted(disk') /\ DiskSound(disk', count + 1, acked)
<1>1. count \in Nat /\ acked \in SUBSET (1..count) /\ WellKept(disk) /\ Counted(disk)
  BY BoundsAssumption DEF IInv, Memory, Attempt
<1>2. DiskSound(disk, count + 1, acked)
  BY <1>1, SoundUnwritten DEF IInv, DiskSound
<1>. QED BY <1>1, <1>2

\* record() throws.
LEMMA RecordFailsStep == ASSUME IInv, RecordFails PROVE IInv'
<1>1. Attempt /\ count' = count + 1 /\ running' = running /\ running /\ acked' = acked
  BY DEF RecordFails, Attempt
<1>2. count \in Nat /\ count + 1 \in 0..MaxRecords /\ acked \in SUBSET (1..(count + 1))
  <2>1. acked \in SUBSET (1..count)
    BY DEF IInv
  <2>2. count \in Nat /\ count + 1 \in 0..MaxRecords
    BY <1>1, AttemptEffect
  <2>. QED BY <2>1, <2>2
<1>3. disk' \in Interrupted(Rotated(disk)) \/ disk' = disk
  BY DEF RecordFails
<1>4. WellKept(disk') /\ Counted(disk') /\ DiskSound(disk', count + 1, acked)
  BY <1>1, <1>3, InterruptedEffect, UntouchedEffect
<1>5. Agrees(entries', Rehydrated(disk'), count + 1, acked)
  <2>1. Agrees(entries', Rehydrated(disk'), count + 1, acked \cup {})
    BY <1>1, MemoryRecorded DEF RecordFails
  <2>. QED BY <2>1
<1>. QED BY <1>1, <1>2, <1>4, <1>5 DEF IInv, Memory

\* The process is killed in record().
LEMMA CrashInRecordStep == ASSUME IInv, CrashInRecord PROVE IInv'
<1>1. Attempt /\ count' = count + 1 /\ running' = FALSE /\ entries' = <<>> /\ acked' = acked
  BY DEF CrashInRecord, Attempt, Stop
<1>2. count \in Nat /\ count + 1 \in 0..MaxRecords /\ acked \in SUBSET (1..count)
  BY <1>1, AttemptEffect DEF IInv
<1>3. acked \in SUBSET (1..(count + 1))
  BY <1>2
<1>4. WellKept(disk') /\ DiskSound(disk', count + 1, acked)
  <2>1. CASE disk' \in Interrupted(Rotated(disk)) \/ disk' = disk
    BY <1>1, <2>1, InterruptedEffect, UntouchedEffect
  <2>2. CASE disk' = Appended(Rotated(disk))
    <3>1. PICK e : e = Entry
      OBVIOUS
    <3>2. PICK r : r = Rotated(disk)
      OBVIOUS
    <3>3. disk' = [r EXCEPT !.active = AppendLine(@, e), !.counter = @ + 1]
      BY <2>2, <3>1, <3>2 DEF Appended
    <3>. QED BY <1>1, <1>2, <3>1, <3>2, <3>3, AttemptEffect, DiskWritten
  <2>. QED BY <2>1, <2>2 DEF CrashInRecord
<1>. QED BY <1>1, <1>2, <1>3, <1>4 DEF IInv, Memory

\* Or between two calls.
LEMMA CrashStep == ASSUME IInv, Crash PROVE IInv'
  BY DEF IInv, Memory, Crash, Stop

\* The next process rebuilds the log.
LEMMA RestartStep == ASSUME IInv, Restart PROVE IInv'
<1>1. PICK d : d = disk
  OBVIOUS
<1>2. PICK w : w = [d EXCEPT !.counter = PhysicalLines(d.active)]
  OBVIOUS
<1>3. /\ disk' = w /\ running' = TRUE /\ count' = count /\ acked' = acked
      /\ entries' = Rehydrated(d)
  BY <1>1, <1>2 DEF Restart, Counter
<1>4. /\ WellKept(d) /\ DiskSound(d, count, acked) /\ count \in Nat
      /\ acked \in SUBSET (1..count)
  BY <1>1, BoundsAssumption DEF IInv
<1>5. /\ d \in DiskType /\ d.active \in File
      /\ PhysicalLines(d.active) \in Nat /\ PhysicalLines(d.active) \in 0..MaxLines
  <2>1. d \in DiskType /\ d.active \in File /\ PhysicalLines(d.active) <= MaxLines
    BY <1>4 DEF WellKept, DiskType, Fits
  <2>2. Len(d.active.lines) \in Nat
    BY <2>1, LenProperties DEF File
  <2>. QED BY <2>1, <2>2, BoundsAssumption DEF PhysicalLines
<1>6. /\ w \in DiskType /\ w.active = d.active /\ w.archive = d.archive
      /\ w.counter = PhysicalLines(d.active)
  BY <1>2, <1>5 DEF DiskType
<1>7. WellKept(w) /\ Counted(w)
  BY <1>4, <1>5, <1>6 DEF WellKept, Fits, Counted
<1>8. Rehydrated(w) = Rehydrated(d) /\ Kept(w) = Kept(d)
  BY <1>6 DEF Rehydrated, Kept
<1>9. DiskSound(w, count, acked)
  BY <1>4, <1>6, <1>8 DEF DiskSound
<1>10. Agrees(Rehydrated(d), Rehydrated(w), count, acked)
  BY <1>4, <1>8, AgreesReread DEF DiskSound
<1>. QED BY <1>3, <1>7, <1>9, <1>10 DEF IInv, Memory

\* Every step keeps the inductive invariant.
LEMMA InvStep == IInv /\ [Next]_vars => IInv'
<1>. SUFFICES ASSUME IInv, [Next]_vars PROVE IInv'
  OBVIOUS
<1>1. CASE UNCHANGED vars
  BY <1>1 DEF IInv, Memory, vars
<1>. QED
  BY <1>1, RecordStep, RecordFailsStep, CrashInRecordStep, CrashStep, RestartStep DEF Next

\* The inductive invariant holds in every reachable state.
THEOREM Invariance == Spec => []IInv
  BY InitInv, InvStep, PTL DEF Spec

\* The log in memory is one of the calls so far, in their order.
LEMMA Remembered ==
  ASSUME IInv PROVE Ascends(entries, count) /\ count \in Nat
<1>1. count \in Nat
  BY BoundsAssumption DEF IInv
<1>2. CASE running
  BY <1>1, <1>2 DEF IInv, Memory, Agrees
<1>3. CASE ~running
  <2>1. entries = <<>> /\ Len(<<>>) = 0
    BY <1>3, EmptySeq DEF IInv, Memory
  <2>. QED BY <1>1, <2>1, EmptySeq DEF Ascends
<1>. QED BY <1>2, <1>3

-----------------------------------------------------------------------------
(* The theorems.                                                           *)

\* Types are kept by record(), its failures, kills and restarts.
THEOREM TypeCorrect == Spec => []TypeOK
<1>1. ASSUME IInv PROVE TypeOK
  <2>1. entries \in Seq(Made(count)) /\ count \in Nat
    BY <1>1, Remembered DEF Ascends
  <2>2. ToSet(entries) \subseteq Made(count)
    BY <2>1, LenProperties, ElementOfSeq DEF ToSet
  <2>3. disk.counter \in 0..MaxLines
    BY <1>1 DEF IInv, WellKept, DiskType
  <2>. QED BY <1>1, <2>2, <2>3 DEF IInv, TypeOK, Made
<1>. QED BY <1>1, Invariance, PTL

\* For any segment size, any number of rotations, torn writes and restarts, the
\* log in memory is in the order in which it was recorded.
THEOREM LogStaysInOrder == Spec => []Chronological
<1>1. ASSUME IInv PROVE Chronological
  BY <1>1, Remembered, LenProperties DEF Ascends, Chronological
<1>. QED BY <1>1, Invariance, PTL

\* No file grows beyond the segment size: the counter, which misses torn lines
\* until the next restart, is at most one behind.
THEOREM FilesStayBounded == Spec => []SegmentsBounded
<1>1. IInv => SegmentsBounded
  BY DEF IInv, WellKept, Fits, SegmentsBounded
<1>. QED BY <1>1, Invariance, PTL

\* Whatever was torn, merged or lost, verify() blames an entry only where the
\* first one missing in front of it is of a record() that never returned.
THEOREM BlameIsDeserved == Spec => []BreaksOnlyAtUnfinishedWrite
<1>1. ASSUME IInv PROVE BreaksOnlyAtUnfinishedWrite
  <2>1. CASE running
    BY <1>1, <2>1 DEF IInv, Memory, Agrees, BreaksOnlyAtUnfinishedWrite
  <2>2. CASE ~running
    <3>1. entries = <<>> /\ DOMAIN <<>> = {}
      BY <1>1, <2>2, EmptySeq, LenProperties DEF IInv, Memory
    <3>. QED BY <3>1 DEF Breaks, BreaksOnlyAtUnfinishedWrite
  <2>. QED BY <2>1, <2>2
<1>. QED BY <1>1, Invariance, PTL

\* No rotation, failure or restart loses the entry of a record() that returned,
\* unless the attempt right before it did not return.
THEOREM OnlyTearsLoseEntries == Spec => []LossFollowsTear
<1>1. ASSUME IInv, running, NEW n \in acked, \A e \in ToSet(entries) : e.n # n
      PROVE  n - 1 \notin acked
  <2>1. entries \in Seq(Made(count))
    BY <1>1, Remembered DEF Ascends
  <2>2. ~Holds(entries, n)
    BY <1>1, <2>1, LenProperties DEF ToSet, Holds
  <2>. QED BY <1>1, <2>2 DEF IInv, Memory, Agrees
<1>2. IInv => LossFollowsTear
  BY <1>1 DEF LossFollowsTear
<1>. QED BY <1>2, Invariance, PTL
===============================================================================
