---------------------------- MODULE LoginProofs ----------------------------
(***************************************************************************)
(* Proofs about Login, for any sets of calls, clients and operators and    *)
(* any limits, windows and drift.  Of the verifiers, the inductive         *)
(* invariant says that each is as far as the newest code it has accepted   *)
(* in this process (Known, Accepted).  Of the limiters, it counts the      *)
(* requests a limiter has let through against its window (Paced): those    *)
(* since the window opened, those after the instant it opened, and those   *)
(* of any shorter stretch before it, which lacks the request that opened   *)
(* the window before.                                                      *)
(***************************************************************************)
EXTENDS Login, TLAPS, FiniteSetTheorems

\* What a call is known to be at each stage.
Known ==
    \A c \in Call :
        /\ call[c].pc = "idle" => call[c] = Idle
        /\ call[c].pc = "password" =>
              /\ call[c].outcome = "none" /\ call[c].who \in Operator
              /\ call[c].process = process
        /\ call[c].process <= process /\ call[c].at <= clock

\* A verifier has come as far as the codes accepted in this process.
Accepted ==
    \A c \in Call : call[c].outcome \in {"session", "error"} =>
        /\ call[c].who \in Operator /\ call[c].code \in Nat
        /\ call[c].process = process =>
              verifier[call[c].who] # None /\ call[c].code <= verifier[call[c].who]

\* A session was given to a login that is logged and knew the password.
Backed ==
    \A c \in Call : call[c].outcome = "session" =>
        c \in logged /\ call[c].right /\ call[c].under = call[c].signed

Begun == {c \in Call : call[c].pc # "idle"}

\* The requests limiter l has let through in this process, from time t on and
\* in the stretch from t to u.
Since(l, cl, t) ==
    {c \in Begun :
        /\ l \in call[c].passed /\ call[c].client = cl
        /\ call[c].process = process /\ call[c].at >= t}

Between(l, cl, t, u) == {c \in Since(l, cl, t) : call[c].at < u}

\* A limit of zero counts as one: the request that opens a window passes.
Most(l) == IF Limit[l] = 0 THEN 1 ELSE Limit[l]

\* The window w of limiter l for client cl against what it has let through.
Pace(l, cl, w) ==
    /\ w.count <= Most(l) /\ w.startedAt <= clock
    /\ w.count = 0 => Since(l, cl, 0) = {}
    /\ w.count > 0 =>
          /\ \A c \in Since(l, cl, 0) : call[c].at < w.startedAt + WindowMs[l]
          /\ Cardinality(Since(l, cl, w.startedAt)) <= w.count
          /\ Cardinality(Since(l, cl, w.startedAt + 1)) < w.count
          /\ \A t \in 0..w.startedAt : t + WindowMs[l] > w.startedAt =>
                Cardinality(Between(l, cl, t, w.startedAt)) < Most(l)

Paced ==
    \A l \in Limiter, cl \in Client : \A w \in {windows[l][cl]} : Pace(l, cl, w)

IInv == /\ TypeOK /\ Known /\ Accepted /\ Backed
        /\ IsFiniteSet(Begun) /\ Paced /\ LessThanTwiceTheLimit

-----------------------------------------------------------------------------
(* Finite sets, types and the initial state.                                *)

\* A subset is finite and no larger.
LEMMA SubsetBound ==
  ASSUME NEW T, IsFiniteSet(T), NEW S, S \subseteq T
  PROVE  /\ IsFiniteSet(S) /\ Cardinality(S) \in Nat /\ Cardinality(T) \in Nat
         /\ Cardinality(S) <= Cardinality(T)
  BY FS_Subset, FS_CardinalityType

\* One more element adds at most one.
LEMMA AddBound ==
  ASSUME NEW S, IsFiniteSet(S), NEW x
  PROVE  /\ IsFiniteSet(S \cup {x}) /\ Cardinality(S) \in Nat
         /\ Cardinality(S \cup {x}) \in Nat
         /\ Cardinality(S \cup {x}) <= Cardinality(S) + 1
  BY FS_AddElement, FS_CardinalityType

\* A union is no larger than its parts together.
LEMMA UnionBound ==
  ASSUME NEW S, IsFiniteSet(S), NEW T, IsFiniteSet(T)
  PROVE  /\ IsFiniteSet(S \cup T) /\ Cardinality(S \cup T) \in Nat
         /\ Cardinality(S) \in Nat /\ Cardinality(T) \in Nat
         /\ Cardinality(S \cup T) <= Cardinality(S) + Cardinality(T)
<1>1. /\ IsFiniteSet(S \cup T) /\ IsFiniteSet(S \cap T)
      /\ Cardinality(S \cup T) = Cardinality(S) + Cardinality(T) - Cardinality(S \cap T)
  BY FS_Union, FS_Intersection
<1>2. /\ Cardinality(S \cup T) \in Nat /\ Cardinality(S \cap T) \in Nat
      /\ Cardinality(S) \in Nat /\ Cardinality(T) \in Nat
  BY <1>1, FS_CardinalityType
<1>. QED BY <1>1, <1>2

\* The limits and the lengths of the windows are numbers.
LEMMA LimiterType ==
  ASSUME NEW l \in Limiter
  PROVE  /\ Limit[l] \in Nat /\ Most(l) \in Nat \ {0} /\ Limit[l] <= Most(l)
         /\ WindowMs[l] \in Nat \ {0}
  BY TimeAssumption DEF Most

\* The invariant about the limiters, in terms of Most.
LEMMA TwiceMost ==
  LessThanTwiceTheLimit <=>
      \A l \in Limiter, cl \in Client, t \in 0..clock, p \in 0..process :
          Cardinality(LetThrough(l, cl, t, p)) < 2 * Most(l)
  BY DEF LessThanTwiceTheLimit, Most

\* A window is a count and a time.
LEMMA WindowType ==
  ASSUME TypeOK, NEW l \in Limiter, NEW cl \in Client
  PROVE  /\ windows[l][cl] \in [count : Nat, startedAt : Nat]
         /\ windows[l][cl].count \in Nat /\ windows[l][cl].startedAt \in Nat
  BY DEF TypeOK

\* The record of a call nobody made has the type of a call.
LEMMA IdleType == Idle \in CallRec
  BY DEF Idle, CallRec

\* What a limiter has let through in this process is a finite set of calls.
LEMMA SinceFinite ==
  ASSUME IsFiniteSet(Begun), NEW l, NEW cl, NEW t
  PROVE  /\ IsFiniteSet(Since(l, cl, t)) /\ Cardinality(Since(l, cl, t)) \in Nat
         /\ \A u : /\ IsFiniteSet(Between(l, cl, t, u))
                   /\ Cardinality(Between(l, cl, t, u)) \in Nat
<1>1. Since(l, cl, t) \subseteq Begun
  BY DEF Since
<1>2. \A u : Between(l, cl, t, u) \subseteq Begun
  BY DEF Since, Between
<1>. QED BY <1>1, <1>2, SubsetBound

\* The invariant holds in the initial state.
LEMMA InitInv == Init => IInv
<1>. SUFFICES ASSUME Init PROVE IInv
  OBVIOUS
<1>1. \A c \in Call : /\ call[c] = Idle /\ call[c].pc = "idle" /\ call[c].at = 0
                       /\ call[c].process = 0 /\ call[c].outcome = "none"
  BY DEF Init, Idle
<1>2. \A l \in Limiter, cl \in Client : windows[l][cl] = NoWindow
  BY DEF Init, NoWindows
<1>3. TypeOK
  BY IdleType DEF Init, NoWindows, NoWindow, TypeOK
<1>4. Known /\ Accepted /\ Backed
  BY <1>1 DEF Init, Known, Accepted, Backed
<1>5. Begun = {} /\ IsFiniteSet(Begun)
  BY <1>1, FS_EmptySet DEF Begun
<1>6. Paced
  BY <1>2, <1>5, LimiterType DEF Init, NoWindow, Paced, Pace, Since
<1>7. LessThanTwiceTheLimit
  <2>1. \A l, cl, t, p : LetThrough(l, cl, t, p) = {}
    BY <1>1 DEF LetThrough, Idle
  <2>2. Cardinality({}) = 0
    BY FS_EmptySet
  <2>3. \A l \in Limiter : 0 < 2 * Most(l)
    BY LimiterType
  <2>. QED BY <2>1, <2>2, <2>3, TwiceMost
<1>. QED BY <1>3, <1>4, <1>5, <1>6, <1>7 DEF IInv

-----------------------------------------------------------------------------
(* A request arrives and is counted.                                        *)

\* A request that a limiter has let through has arrived.
LEMMA PassedHaveBegun ==
  ASSUME IInv, NEW c \in Call, NEW l \in call[c].passed
  PROVE  c \in Begun
  BY DEF IInv, Known, Begun, Idle

\* What the limiter's window says of one that it is about to let through: with
\* it, no stretch that ends now is twice the limit.
LEMMA RoomForOneMore ==
  ASSUME IInv, NEW l \in Limiter, NEW cl \in Client,
         Admits(l, windows[l][cl]), NEW t \in Nat, t + WindowMs[l] > clock
  PROVE  Cardinality(LetThrough(l, cl, t, process)) + 1 < 2 * Most(l)
<1>. DEFINE w == windows[l][cl]
            stretch == LetThrough(l, cl, t, process)
<1>1. /\ w.count \in Nat /\ w.startedAt \in Nat /\ clock \in Nat
      /\ Limit[l] \in Nat /\ Most(l) \in Nat \ {0} /\ Limit[l] <= Most(l)
      /\ WindowMs[l] \in Nat \ {0}
  BY WindowType, LimiterType DEF IInv, TypeOK
<1>2. Pace(l, cl, w) /\ IsFiniteSet(Begun)
  BY DEF IInv, Paced
<1>3. \A c \in Call : call[c].at \in Nat
  BY DEF IInv, TypeOK, CallRec
<1>4. stretch \subseteq Since(l, cl, t)
  BY PassedHaveBegun DEF LetThrough, Since
<1>5. \A c \in Since(l, cl, t) : c \in Call /\ call[c].at >= t /\ c \in Since(l, cl, 0)
  BY <1>3 DEF Since, Begun
<1>6. CASE w.count = 0
  <2>1. stretch = {}
    BY <1>2, <1>4, <1>5, <1>6 DEF Pace
  <2>. QED BY <1>1, <2>1, FS_EmptySet
<1>7. CASE w.count > 0 /\ Elapsed(l, w)
  <2>1. clock - w.startedAt >= WindowMs[l]
    BY <1>1, <1>7 DEF Elapsed
  <2>2. stretch \subseteq Since(l, cl, w.startedAt + 1)
    BY <1>1, <1>3, <1>4, <2>1 DEF Since, Begun
  <2>3. Cardinality(stretch) \in Nat
        /\ Cardinality(stretch) <= Cardinality(Since(l, cl, w.startedAt + 1))
    BY <1>2, <2>2, SinceFinite, SubsetBound
  <2>4. Cardinality(Since(l, cl, w.startedAt + 1)) < w.count /\ w.count <= Most(l)
        /\ Cardinality(Since(l, cl, w.startedAt + 1)) \in Nat
    BY <1>2, <1>7, SinceFinite DEF Pace
  <2>. HIDE DEF w, stretch
  <2>5. Cardinality(stretch) + 1 < 2 * Most(l)
    BY <1>1, <2>3, <2>4
  <2>. QED BY <2>5 DEF stretch
<1>8. CASE w.count > 0 /\ ~Elapsed(l, w)
  <2>1. w.count + 1 <= Most(l) /\ w.startedAt <= clock
    BY <1>1, <1>2, <1>8 DEF Admits, Pace
  <2>. DEFINE before == Between(l, cl, t, w.startedAt)
              since  == Since(l, cl, w.startedAt)
  <2>2. /\ IsFiniteSet(before) /\ Cardinality(before) \in Nat
        /\ IsFiniteSet(since) /\ Cardinality(since) \in Nat
        /\ Cardinality(since) <= w.count
    BY <1>2, <1>8, SinceFinite DEF Pace
  <2>3. Cardinality(before) < Most(l)
    <3>1. CASE t <= w.startedAt
      BY <1>1, <1>2, <1>8, <2>1, <3>1 DEF Pace
    <3>2. CASE t > w.startedAt
      <4>1. before = {}
        BY <1>1, <1>3, <3>2 DEF Between, Since, Begun
      <4>. QED BY <1>1, <4>1, FS_EmptySet
    <3>. QED BY <1>1, <3>1, <3>2
  <2>4. stretch \subseteq before \cup since
    BY <1>1, <1>3, <1>4 DEF Between, Since, Begun
  <2>5. /\ IsFiniteSet(before \cup since)
        /\ Cardinality(before \cup since) \in Nat
        /\ Cardinality(before \cup since) <= Cardinality(before) + Cardinality(since)
    BY <2>2, UnionBound
  <2>6. /\ Cardinality(stretch) \in Nat
        /\ Cardinality(stretch) <= Cardinality(before \cup since)
    BY <2>4, <2>5, SubsetBound
  <2>. HIDE DEF w, stretch, before, since
  <2>7. Cardinality(stretch) + 1 < 2 * Most(l)
    BY <1>1, <2>1, <2>2, <2>3, <2>5, <2>6
  <2>. QED BY <2>7 DEF stretch
<1>. QED BY <1>1, <1>6, <1>7, <1>8

\* A request is counted in the limiter's window: the window keeps its pace with
\* what has been let through, this request included when it is.
LEMMA CountedPace ==
  ASSUME IInv, NEW l \in Limiter, NEW cl \in Client,
         NEW v, v = windows[l][cl], NEW w, w = Counted(l, v),
         UNCHANGED <<clock, process>>, IsFiniteSet(Begun'),
         NEW c \in Call, call'[c].at = clock,
         \A x \in Begun : call'[x] = call[x],
         \A t \in Nat : Since(l, cl, t)' \subseteq Since(l, cl, t) \cup {c},
         \A t \in Nat : Admits(l, v) \/ Since(l, cl, t)' \subseteq Since(l, cl, t)
  PROVE  Pace(l, cl, w)'
<1>1. /\ v \in [count : Nat, startedAt : Nat]
      /\ v.count \in Nat /\ v.startedAt \in Nat /\ clock \in Nat
      /\ Limit[l] \in Nat /\ Most(l) \in Nat \ {0} /\ Limit[l] <= Most(l)
      /\ WindowMs[l] \in Nat \ {0}
  BY WindowType, LimiterType DEF IInv, TypeOK
<1>2. Pace(l, cl, v) /\ IsFiniteSet(Begun)
  BY DEF IInv, Paced
<1>3. \A x \in Call : call[x].at \in Nat /\ call[x].at <= clock
  BY DEF IInv, TypeOK, CallRec, Known
<1>4. \A t : \A x \in Since(l, cl, t) : x \in Begun /\ x \in Call /\ call'[x].at = call[x].at
  BY DEF Since, Begun
<1>5. \A t, u : Between(l, cl, t, u)' = {x \in Since(l, cl, t)' : call'[x].at < u}
  BY DEF Between
<1>6. \A t : /\ IsFiniteSet(Since(l, cl, t)')
             /\ \A u : IsFiniteSet(Between(l, cl, t, u)')
  <2>1. \A t : Since(l, cl, t)' \subseteq Begun'
    BY DEF Since
  <2>2. \A t, u : Between(l, cl, t, u)' \subseteq Begun'
    BY <1>5, <2>1
  <2>. QED BY <2>1, <2>2, SubsetBound
<1>7. \A t \in Nat : \A x \in Since(l, cl, t) : x \in Since(l, cl, 0) /\ call[x].at >= t
  BY <1>3 DEF Since, Begun
<1>8. CASE Elapsed(l, v)
  <2>1. w.count = 1 /\ w.startedAt = clock
    BY <1>8 DEF Counted
  <2>2. \A x \in Since(l, cl, 0) : v.count > 0 /\ call[x].at < clock
    BY <1>1, <1>2, <1>3, <1>4, <1>8 DEF Elapsed, Pace
  <2>3. Since(l, cl, clock)' \subseteq {c} /\ Since(l, cl, clock + 1)' = {}
    <3>1. Since(l, cl, clock) = {} /\ Since(l, cl, clock + 1) = {}
      BY <1>1, <1>3, <1>4, <1>7, <2>2
    <3>2. \A x \in Since(l, cl, clock + 1)' : call'[x].at >= clock + 1
      BY DEF Since
    <3>. QED BY <1>1, <3>1, <3>2
  <2>4. Cardinality(Since(l, cl, clock)') <= 1 /\ Cardinality(Since(l, cl, clock + 1)') < 1
    <3>1. Cardinality({c}) = 1 /\ IsFiniteSet({c}) /\ Cardinality({}) = 0
      BY FS_Singleton, FS_EmptySet
    <3>. QED BY <2>3, <3>1, SubsetBound
  <2>5. \A x \in Since(l, cl, 0)' : call'[x].at < clock + WindowMs[l]
    BY <1>1, <1>3, <1>4
  <2>6. ASSUME NEW t \in 0..clock, t + WindowMs[l] > clock
        PROVE  Cardinality(Between(l, cl, t, clock)') < Most(l)
    <3>1. Between(l, cl, t, clock)' \subseteq Since(l, cl, t)
      BY <1>1, <1>5, <2>6
    <3>2. CASE v.count = 0
      <4>1. Between(l, cl, t, clock)' = {}
        BY <1>1, <1>7, <2>2, <2>6, <3>1, <3>2
      <4>. QED BY <1>1, <4>1, FS_EmptySet
    <3>3. CASE v.count > 0
      <4>1. clock - v.startedAt >= WindowMs[l]
        BY <1>1, <1>8, <3>3 DEF Elapsed
      <4>2. Since(l, cl, t) \subseteq Since(l, cl, v.startedAt + 1)
        BY <1>1, <1>3, <2>6, <4>1 DEF Since, Begun
      <4>3. Between(l, cl, t, clock)' \subseteq Since(l, cl, v.startedAt + 1)
        BY <3>1, <4>2
      <4>4. /\ IsFiniteSet(Since(l, cl, v.startedAt + 1))
            /\ Cardinality(Since(l, cl, v.startedAt + 1)) < v.count /\ v.count <= Most(l)
        BY <1>2, <3>3, SinceFinite DEF Pace
      <4>5. /\ Cardinality(Between(l, cl, t, clock)') \in Nat
            /\ Cardinality(Since(l, cl, v.startedAt + 1)) \in Nat
            /\ Cardinality(Between(l, cl, t, clock)')
                  <= Cardinality(Since(l, cl, v.startedAt + 1))
        BY <4>3, <4>4, SubsetBound
      <4>. QED BY <1>1, <4>4, <4>5
    <3>. QED BY <1>1, <3>2, <3>3
  <2>. QED BY <1>1, <2>1, <2>4, <2>5, <2>6 DEF Pace
<1>9. CASE ~Elapsed(l, v) /\ Admits(l, v)
  <2>1. /\ w.count = v.count + 1 /\ w.startedAt = v.startedAt
    BY <1>1, <1>9 DEF Counted
  <2>2. /\ v.count > 0 /\ clock < v.startedAt + WindowMs[l]
        /\ v.count + 1 <= Most(l) /\ v.startedAt <= clock
    BY <1>1, <1>2, <1>9 DEF Elapsed, Admits, Pace
  <2>3. \A x \in Since(l, cl, 0)' : call'[x].at < v.startedAt + WindowMs[l]
    BY <1>1, <1>2, <1>4, <2>2 DEF Pace
  <2>4. ASSUME NEW t \in Nat
        PROVE  /\ Cardinality(Since(l, cl, t)') <= Cardinality(Since(l, cl, t)) + 1
               /\ Cardinality(Since(l, cl, t)') \in Nat /\ Cardinality(Since(l, cl, t)) \in Nat
    <3>1. /\ IsFiniteSet(Since(l, cl, t) \cup {c})
          /\ Cardinality(Since(l, cl, t) \cup {c}) <= Cardinality(Since(l, cl, t)) + 1
          /\ Cardinality(Since(l, cl, t)) \in Nat
      BY <1>2, SinceFinite, AddBound
    <3>2. /\ Cardinality(Since(l, cl, t)') <= Cardinality(Since(l, cl, t) \cup {c})
          /\ Cardinality(Since(l, cl, t)') \in Nat
          /\ Cardinality(Since(l, cl, t) \cup {c}) \in Nat
      BY <2>4, <3>1, SubsetBound
    <3>. QED BY <3>1, <3>2
  <2>5. ASSUME NEW t \in 0..v.startedAt, t + WindowMs[l] > v.startedAt
        PROVE  Cardinality(Between(l, cl, t, v.startedAt)') < Most(l)
    <3>1. Between(l, cl, t, v.startedAt)' \subseteq Between(l, cl, t, v.startedAt)
      BY <1>1, <1>4, <1>5, <2>2 DEF Between
    <3>2. /\ IsFiniteSet(Between(l, cl, t, v.startedAt))
          /\ Cardinality(Between(l, cl, t, v.startedAt)) < Most(l)
      BY <1>2, <2>2, <2>5, SinceFinite DEF Pace
    <3>3. /\ Cardinality(Between(l, cl, t, v.startedAt)')
               <= Cardinality(Between(l, cl, t, v.startedAt))
          /\ Cardinality(Between(l, cl, t, v.startedAt)') \in Nat
          /\ Cardinality(Between(l, cl, t, v.startedAt)) \in Nat
      BY <3>1, <3>2, SubsetBound
    <3>. QED BY <1>1, <3>2, <3>3
  <2>6. /\ Cardinality(Since(l, cl, v.startedAt)) <= v.count
        /\ Cardinality(Since(l, cl, v.startedAt + 1)) < v.count
    BY <1>2, <2>2 DEF Pace
  <2>7. v.startedAt + 1 \in Nat
    BY <1>1
  <2>8. /\ Cardinality(Since(l, cl, v.startedAt)') <= v.count + 1
        /\ Cardinality(Since(l, cl, v.startedAt + 1)') < v.count + 1
    BY <1>1, <2>4, <2>6, <2>7
  <2>. QED BY <1>1, <2>1, <2>2, <2>3, <2>5, <2>8 DEF Pace
<1>10. CASE ~Admits(l, v)
  <2>1. w = v /\ v.count # 0
    BY <1>10 DEF Counted, Admits, Elapsed
  <2>2. /\ v.count > 0 /\ v.count <= Most(l) /\ v.startedAt <= clock
    BY <1>1, <1>2, <2>1 DEF Pace
  <2>3. \A x \in Since(l, cl, 0)' : call'[x].at < v.startedAt + WindowMs[l]
    BY <1>2, <1>4, <1>10, <2>2 DEF Pace
  <2>4. ASSUME NEW t \in Nat
        PROVE  /\ Cardinality(Since(l, cl, t)') <= Cardinality(Since(l, cl, t))
               /\ Cardinality(Since(l, cl, t)') \in Nat /\ Cardinality(Since(l, cl, t)) \in Nat
    <3>1. Since(l, cl, t)' \subseteq Since(l, cl, t)
      BY <1>10, <2>4
    <3>2. IsFiniteSet(Since(l, cl, t))
      BY <1>2, SinceFinite
    <3>. QED BY <3>1, <3>2, SubsetBound
  <2>5. ASSUME NEW t \in 0..v.startedAt, t + WindowMs[l] > v.startedAt
        PROVE  Cardinality(Between(l, cl, t, v.startedAt)') < Most(l)
    <3>1. Between(l, cl, t, v.startedAt)' \subseteq Between(l, cl, t, v.startedAt)
      BY <1>1, <1>4, <1>5, <1>10 DEF Between
    <3>2. /\ IsFiniteSet(Between(l, cl, t, v.startedAt))
          /\ Cardinality(Between(l, cl, t, v.startedAt)) < Most(l)
      BY <1>2, <2>2, <2>5, SinceFinite DEF Pace
    <3>3. /\ Cardinality(Between(l, cl, t, v.startedAt)')
               <= Cardinality(Between(l, cl, t, v.startedAt))
          /\ Cardinality(Between(l, cl, t, v.startedAt)') \in Nat
          /\ Cardinality(Between(l, cl, t, v.startedAt)) \in Nat
      BY <3>1, <3>2, SubsetBound
    <3>. QED BY <1>1, <3>2, <3>3
  <2>6. /\ Cardinality(Since(l, cl, v.startedAt)) <= v.count
        /\ Cardinality(Since(l, cl, v.startedAt + 1)) < v.count
    BY <1>2, <2>2 DEF Pace
  <2>7. /\ Cardinality(Since(l, cl, v.startedAt)') <= v.count
        /\ Cardinality(Since(l, cl, v.startedAt + 1)') < v.count
    <3>1. v.startedAt + 1 \in Nat
      BY <1>1
    <3>. QED BY <1>1, <2>4, <2>6, <3>1
  <2>. QED BY <2>1, <2>2, <2>3, <2>5, <2>7 DEF Pace
<1>11. CASE Elapsed(l, v) => Admits(l, v)
  BY <1>8, <1>9, <1>10, <1>11
<1>. QED BY <1>11 DEF Admits

\* A window that no request is counted in keeps its pace while time goes on.
LEMMA PaceKept ==
  ASSUME NEW l, NEW cl, NEW w, w.startedAt \in Nat, Pace(l, cl, w),
         clock \in Nat, clock' \in Nat, clock <= clock',
         \A t : Since(l, cl, t)' = Since(l, cl, t),
         \A t : \A x \in Since(l, cl, t) : call'[x].at = call[x].at
  PROVE  Pace(l, cl, w)'
<1>1. \A t, u : Between(l, cl, t, u)' = Between(l, cl, t, u)
  BY DEF Between
<1>2. w.startedAt <= clock'
  BY DEF Pace
<1>3. \A t : Cardinality(Since(l, cl, t)') = Cardinality(Since(l, cl, t))
  OBVIOUS
<1>4. \A t, u : Cardinality(Between(l, cl, t, u)') = Cardinality(Between(l, cl, t, u))
  BY <1>1
<1>. QED BY <1>2, <1>3, <1>4 DEF Pace

\* The windows after a request has been counted, one by one.
LEMMA CountedWindows ==
  ASSUME TypeOK, NEW cl \in Client, NEW route, CountRequest(cl, route)
  PROVE  /\ windows' \in [Limiter -> [Client -> [count : Nat, startedAt : Nat]]]
         /\ \A l \in Limiter, d \in Client :
               windows'[l][d] = IF l \in Consulted(cl, route) /\ d = cl
                                THEN Counted(l, windows[l][cl]) ELSE windows[l][d]
<1>1. \A l \in Limiter : Counted(l, windows[l][cl]) \in [count : Nat, startedAt : Nat]
  BY DEF TypeOK, Counted
<1>. QED BY <1>1 DEF TypeOK, CountRequest

\* A request arrives: all that a refusal, a login and a use of a session have
\* in common.
LEMMA ArrivalStep ==
  ASSUME IInv, NEW c \in Call, NEW cl \in Client, NEW route \in {"login", "session"},
         call[c].pc = "idle", CountRequest(cl, route),
         NEW rec \in CallRec, call' = [call EXCEPT ![c] = rec],
         rec.pc \in {"password", "done"}, rec.client = cl,
         rec.at = clock, rec.process = process, rec.passed = Passed(cl, route),
         rec.outcome \notin {"session", "error"},
         rec.pc = "password" => rec.outcome = "none" /\ rec.who \in Operator,
         UNCHANGED <<verifier, logged, signing, process, clock>>
  PROVE  IInv'
<1>1. /\ call'[c] = rec /\ c \notin Begun /\ clock \in Nat /\ process \in Nat
      /\ \A x \in Call : x # c => call'[x] = call[x]
      /\ \A x \in Call : call[x].at \in Nat /\ call[x].process \in Nat
      /\ \A x \in Begun : x \in Call /\ call'[x] = call[x]
  BY DEF IInv, TypeOK, CallRec, Begun
<1>2. TypeOK'
  BY CountedWindows DEF IInv, TypeOK
<1>3. Known'
  BY <1>1 DEF IInv, Known
<1>4. Accepted' /\ Backed'
  BY <1>1 DEF IInv, Accepted, Backed
<1>5. Begun' = Begun \cup {c} /\ IsFiniteSet(Begun')
  <2>1. Begun' = Begun \cup {c}
    BY <1>1 DEF Begun
  <2>. QED BY <2>1, AddBound DEF IInv
<1>6. \A l, d, t : /\ Since(l, d, t) \subseteq Since(l, d, t)'
                   /\ Since(l, d, t)' \subseteq Since(l, d, t) \cup {c}
                   /\ c \in Since(l, d, t)' => d = cl /\ l \in Passed(cl, route)
  BY <1>1, <1>5 DEF Since
<1>7. Paced'
  <2>. SUFFICES ASSUME NEW l \in Limiter, NEW d \in Client,
                       NEW v, v = windows[l][d], NEW w, w = windows'[l][d]
                PROVE  Pace(l, d, w)'
    BY DEF Paced
  <2>1. CASE l \in Consulted(cl, route) /\ d = cl
    <3>1. w = Counted(l, v)
      BY <2>1, CountedWindows DEF IInv
    <3>2. \A t \in Nat : Admits(l, v) \/ Since(l, d, t)' \subseteq Since(l, d, t)
      <4>1. l \in Passed(cl, route) => Admits(l, v)
        BY <2>1 DEF Passed
      <4>. QED BY <4>1, <1>6
    <3>. QED BY <1>1, <1>5, <1>6, <2>1, <3>1, <3>2, CountedPace
  <2>2. CASE ~(l \in Consulted(cl, route) /\ d = cl)
    <3>1. w = v
      BY <2>2, CountedWindows DEF IInv
    <3>2. \A t : c \notin Since(l, d, t)'
      BY <1>6, <2>2 DEF Passed
    <3>3. \A t : Since(l, d, t)' = Since(l, d, t)
      BY <1>6, <3>2
    <3>4. \A t : \A x \in Since(l, d, t) : call'[x].at = call[x].at
      BY <1>1 DEF Since
    <3>5. Pace(l, d, v) /\ v.startedAt \in Nat
      BY WindowType DEF IInv, Paced
    <3>. QED BY <1>1, <3>1, <3>3, <3>4, <3>5, PaceKept
  <2>. QED BY <2>1, <2>2
<1>8. LessThanTwiceTheLimit'
  <2>. SUFFICES ASSUME NEW l \in Limiter, NEW d \in Client, NEW t \in 0..clock,
                       NEW p \in 0..process
                PROVE  Cardinality(LetThrough(l, d, t, p)') < 2 * Most(l)
    BY <1>1 DEF LessThanTwiceTheLimit, Most
  <2>1. /\ Cardinality(LetThrough(l, d, t, p)) < 2 * Most(l)
        /\ IsFiniteSet(LetThrough(l, d, t, p))
    <3>1. LetThrough(l, d, t, p) \subseteq Begun
      BY PassedHaveBegun DEF LetThrough
    <3>. QED BY <3>1, TwiceMost, SubsetBound DEF IInv
  <2>2. /\ LetThrough(l, d, t, p)' \subseteq LetThrough(l, d, t, p) \cup {c}
        /\ c \in LetThrough(l, d, t, p)' =>
              /\ d = cl /\ p = process /\ l \in Passed(cl, route)
              /\ clock < t + WindowMs[l]
    BY <1>1 DEF LetThrough
  <2>3. Most(l) \in Nat /\ WindowMs[l] \in Nat /\ t \in Nat
    BY LimiterType
  <2>4. CASE c \in LetThrough(l, d, t, p)'
    <3>1. Admits(l, windows[l][cl])
      BY <2>2, <2>4 DEF Passed
    <3>2. Cardinality(LetThrough(l, d, t, p)) + 1 < 2 * Most(l)
      BY <1>1, <2>2, <2>3, <2>4, <3>1, RoomForOneMore
    <3>3. /\ Cardinality(LetThrough(l, d, t, p) \cup {c}) \in Nat
          /\ Cardinality(LetThrough(l, d, t, p) \cup {c})
                <= Cardinality(LetThrough(l, d, t, p)) + 1
          /\ IsFiniteSet(LetThrough(l, d, t, p) \cup {c})
          /\ Cardinality(LetThrough(l, d, t, p)) \in Nat
      BY <2>1, AddBound
    <3>4. /\ Cardinality(LetThrough(l, d, t, p)')
                <= Cardinality(LetThrough(l, d, t, p) \cup {c})
          /\ Cardinality(LetThrough(l, d, t, p)') \in Nat
      BY <2>2, <3>3, SubsetBound
    <3>. QED BY <2>3, <3>2, <3>3, <3>4
  <2>5. CASE c \notin LetThrough(l, d, t, p)'
    <3>1. LetThrough(l, d, t, p)' \subseteq LetThrough(l, d, t, p)
      BY <2>2, <2>5
    <3>2. /\ Cardinality(LetThrough(l, d, t, p)') <= Cardinality(LetThrough(l, d, t, p))
          /\ Cardinality(LetThrough(l, d, t, p)') \in Nat
          /\ Cardinality(LetThrough(l, d, t, p)) \in Nat
      BY <2>1, <3>1, SubsetBound
    <3>. QED BY <2>1, <2>3, <3>2
  <2>. QED BY <2>4, <2>5
<1>. QED BY <1>2, <1>3, <1>4, <1>5, <1>7, <1>8 DEF IInv

\* A limiter lets a request through or not.
LEMMA PassedType == \A cl, route : Passed(cl, route) \subseteq Limiter
  BY DEF Passed, Consulted, Limiter

\* A request the limiters refuse.
LEMMA LimitedStep ==
  ASSUME IInv, NEW c \in Call, NEW cl \in Client, NEW route \in {"login", "session"},
         Limited(c, cl, route)
  PROVE  IInv'
<1>. DEFINE rec == [Arrival(cl, route) EXCEPT !.outcome = "limited"]
<1>1. /\ rec \in CallRec /\ rec.pc = "done" /\ rec.client = cl
      /\ rec.passed = Passed(cl, route)
      /\ rec.at = clock /\ rec.process = process /\ rec.outcome = "limited"
  BY PassedType DEF IInv, TypeOK, CallRec, Arrival, Idle
<1>2. /\ call[c].pc = "idle" /\ CountRequest(cl, route)
      /\ call' = [call EXCEPT ![c] = rec]
      /\ UNCHANGED <<verifier, logged, signing, process, clock>>
  BY DEF Limited
<1>. HIDE DEF rec
<1>. QED BY <1>1, <1>2, ArrivalStep

\* A login that passes them: an unknown user is refused, another one waits.
LEMMA LoginBeginStep ==
  ASSUME IInv, NEW c \in Call, NEW cl \in Client, NEW o \in Operator \cup {None},
         NEW right \in BOOLEAN, NEW code \in Nat \cup {None},
         LoginBegin(c, cl, o, right, code)
  PROVE  IInv'
<1>. DEFINE rec == IF o = None
                   THEN [Arrival(cl, "login") EXCEPT !.outcome = "denied"]
                   ELSE [Arrival(cl, "login") EXCEPT
                            !.pc = "password", !.who = o, !.right = right, !.code = code]
<1>1. /\ rec \in CallRec /\ rec.client = cl /\ rec.passed = Passed(cl, "login")
      /\ rec.at = clock /\ rec.process = process /\ rec.pc \in {"password", "done"}
      /\ rec.outcome \in {"none", "denied"}
      /\ rec.pc = "password" => rec.outcome = "none" /\ rec.who \in Operator
  BY PassedType DEF IInv, TypeOK, CallRec, Arrival, Idle
<1>2. /\ call[c].pc = "idle" /\ CountRequest(cl, "login")
      /\ call' = [call EXCEPT ![c] = rec]
      /\ UNCHANGED <<verifier, logged, signing, process, clock>>
  BY DEF LoginBegin
<1>. HIDE DEF rec
<1>. QED BY <1>1, <1>2, ArrivalStep

\* A use of a session.
LEMMA UseSessionStep ==
  ASSUME IInv, NEW c \in Call, NEW cl \in Client, NEW d \in Call, UseSession(c, cl, d)
  PROVE  IInv'
<1>. DEFINE rec == [Arrival(cl, "session") EXCEPT
                       !.session = d,
                       !.outcome = IF Valid(d) THEN "accepted" ELSE "rejected"]
<1>1. /\ rec \in CallRec /\ rec.client = cl /\ rec.passed = Passed(cl, "session")
      /\ rec.at = clock /\ rec.process = process /\ rec.pc = "done"
      /\ rec.outcome \in {"accepted", "rejected"}
  BY PassedType DEF IInv, TypeOK, CallRec, Arrival, Idle
<1>2. /\ call[c].pc = "idle" /\ CountRequest(cl, "session")
      /\ call' = [call EXCEPT ![c] = rec]
      /\ UNCHANGED <<verifier, logged, signing, process, clock>>
  BY DEF UseSession
<1>. HIDE DEF rec
<1>. QED BY <1>1, <1>2, ArrivalStep

-----------------------------------------------------------------------------
(* Steps in which nobody arrives.                                           *)

\* What the limiters have let through is what it was.
SameArrivals ==
    \A x \in Call :
        /\ call'[x].pc = "idle" <=> call[x].pc = "idle"
        /\ call'[x].client = call[x].client /\ call'[x].passed = call[x].passed
        /\ call'[x].at = call[x].at /\ call'[x].process = call[x].process

\* Then no stretch of time holds more requests than it did, and one that
\* begins later than now, or in the next process, holds none.
LEMMA StretchesKept ==
  ASSUME IInv, SameArrivals, clock' \in Nat, process' \in Nat
  PROVE  IsFiniteSet(Begun)' /\ LessThanTwiceTheLimit'
<1>1. Begun' = Begun
  BY DEF SameArrivals, Begun
<1>2. \A x \in Call : /\ call[x].at \in Nat /\ call[x].at <= clock
                      /\ call[x].process \in Nat /\ call[x].process <= process
  BY DEF IInv, TypeOK, CallRec, Known
<1>3. ASSUME NEW l \in Limiter, NEW d \in Client, NEW t \in Nat, NEW p \in Nat
      PROVE  Cardinality(LetThrough(l, d, t, p)') < 2 * Most(l)
  <2>1. LetThrough(l, d, t, p)' = LetThrough(l, d, t, p)
    BY DEF SameArrivals, LetThrough
  <2>2. CASE t \in 0..clock /\ p \in 0..process
    BY <2>1, <2>2, TwiceMost DEF IInv
  <2>3. CASE ~(t \in 0..clock /\ p \in 0..process)
    <3>1. LetThrough(l, d, t, p) = {}
      BY <1>2, <2>3 DEF LetThrough, IInv, TypeOK
    <3>2. Cardinality({}) = 0 /\ Most(l) \in Nat \ {0}
      BY LimiterType, FS_EmptySet
    <3>3. 0 < 2 * Most(l)
      BY <3>2
    <3>. QED BY <2>1, <3>1, <3>2, <3>3
  <2>. QED BY <2>2, <2>3
<1>4. LessThanTwiceTheLimit'
  BY <1>3 DEF LessThanTwiceTheLimit, Most
<1>. QED BY <1>1, <1>4 DEF IInv

\* And the windows keep their pace, when the process goes on.
LEMMA PacesKept ==
  ASSUME IInv, SameArrivals, UNCHANGED <<windows, process>>,
         clock' \in Nat, clock <= clock'
  PROVE  Paced'
<1>. SUFFICES ASSUME NEW l \in Limiter, NEW d \in Client, NEW w, w = windows[l][d]
              PROVE  Pace(l, d, w)'
  BY DEF Paced
<1>1. \A t : Since(l, d, t)' = Since(l, d, t)
  BY DEF SameArrivals, Since, Begun
<1>2. \A t : \A x \in Since(l, d, t) : call'[x].at = call[x].at
  BY DEF SameArrivals, Since, Begun
<1>3. Pace(l, d, w) /\ w.startedAt \in Nat /\ clock \in Nat
  BY WindowType DEF IInv, Paced, TypeOK
<1>. QED BY <1>1, <1>2, <1>3, PaceKept

\* A login ends: the fields of its record it had on arrival stay.
LEMMA EndedLogin ==
  ASSUME IInv, NEW c \in Call, call[c].pc = "password",
         NEW rec \in CallRec, call' = [call EXCEPT ![c] = rec],
         rec.pc = "done", rec.outcome \in {"denied", "error", "session"},
         rec.client = call[c].client, rec.passed = call[c].passed,
         rec.at = call[c].at, rec.process = call[c].process,
         UNCHANGED <<windows, signing, process, clock>>
  PROVE  /\ call' \in [Call -> CallRec] /\ Known'
         /\ IsFiniteSet(Begun)' /\ LessThanTwiceTheLimit' /\ Paced'
<1>1. /\ call'[c] = rec /\ call[c].outcome = "none" /\ call \in [Call -> CallRec]
      /\ \A x \in Call : x # c => call'[x] = call[x]
  BY DEF IInv, TypeOK, Known
<1>2. SameArrivals
  BY <1>1 DEF SameArrivals
<1>3. Known'
  BY <1>1 DEF IInv, Known
<1>4. clock \in Nat /\ clock <= clock' /\ process \in Nat
  BY DEF IInv, TypeOK
<1>. QED BY <1>1, <1>2, <1>3, <1>4, StretchesKept, PacesKept

\* A wrong password or code: the verifier is what it was.
LEMMA LoginRefusedStep ==
  ASSUME IInv, NEW c \in Call, LoginRefused(c)
  PROVE  IInv'
<1>. DEFINE rec == Ended(call[c], "denied")
<1>1. /\ rec \in CallRec /\ rec.pc = "done" /\ rec.outcome = "denied"
      /\ rec.client = call[c].client /\ rec.passed = call[c].passed
      /\ rec.at = call[c].at /\ rec.process = call[c].process
      /\ call' = [call EXCEPT ![c] = rec]
  BY DEF IInv, TypeOK, CallRec, LoginRefused, Ended
<1>. HIDE DEF rec
<1>2. /\ call[c].pc = "password" /\ UNCHANGED <<windows, verifier, logged, signing, process, clock>>
  BY DEF LoginRefused
<1>3. /\ call' \in [Call -> CallRec] /\ Known'
      /\ IsFiniteSet(Begun)' /\ LessThanTwiceTheLimit' /\ Paced'
  BY <1>1, <1>2, EndedLogin
<1>4. call'[c] = rec /\ \A x \in Call : x # c => call'[x] = call[x]
  BY <1>1 DEF IInv, TypeOK
<1>5. Accepted' /\ Backed'
  BY <1>1, <1>2, <1>4 DEF IInv, Accepted, Backed
<1>. QED BY <1>2, <1>3, <1>5 DEF IInv, TypeOK

\* A code a verifier accepts moves it on.
LEMMA VerifiedCode ==
  ASSUME IInv, NEW c \in Call, call[c].pc = "password", Matches(call[c])
  PROVE  /\ call[c].who \in Operator /\ call[c].code \in Nat /\ call[c].right
         /\ verifier[call[c].who] # None => call[c].code > verifier[call[c].who]
         /\ call[c].code <= Timestep + DriftSteps
<1>1. call[c].who \in Operator
  BY DEF IInv, Known
<1>. QED BY <1>1 DEF Matches, Verifies, Near, IInv, TypeOK, CallRec

\* The verifiers after one of them has accepted a code, and its login is told so.
LEMMA AcceptedKept ==
  ASSUME IInv, NEW c \in Call, call[c].pc = "password", Matches(call[c]), Burn(call[c]),
         \A x \in Call : x # c => call'[x] = call[x],
         call'[c].who = call[c].who, call'[c].code = call[c].code, UNCHANGED process
  PROVE  verifier' \in [Operator -> Nat \cup {None}] /\ Accepted'
<1>1. /\ call[c].who \in Operator /\ call[c].code \in Nat
      /\ verifier[call[c].who] # None => call[c].code > verifier[call[c].who]
  BY VerifiedCode
<1>2. /\ verifier' \in [Operator -> Nat \cup {None}]
      /\ verifier'[call[c].who] = call[c].code
      /\ \A o \in Operator : o # call[c].who => verifier'[o] = verifier[o]
  BY <1>1 DEF Burn, IInv, TypeOK
<1>3. call[c].code # None
  BY <1>1, NoneAssumption
<1>4. ASSUME NEW x \in Call, call'[x].outcome \in {"session", "error"}
      PROVE  /\ call'[x].who \in Operator /\ call'[x].code \in Nat
             /\ call'[x].process = process =>
                   /\ verifier'[call'[x].who] # None
                   /\ call'[x].code <= verifier'[call'[x].who]
  <2>1. CASE x = c
    BY <1>1, <1>2, <1>3, <2>1
  <2>2. CASE x # c
    <3>1. /\ call'[x] = call[x] /\ call[x].who \in Operator /\ call[x].code \in Nat
          /\ call[x].process = process =>
                verifier[call[x].who] # None /\ call[x].code <= verifier[call[x].who]
      BY <1>4, <2>2 DEF IInv, Accepted
    <3>2. CASE call[x].who # call[c].who
      BY <1>2, <3>1, <3>2
    <3>3. CASE call[x].who = call[c].who
      <4>1. verifier[call[c].who] # None => verifier[call[c].who] \in Nat
        BY <1>1 DEF IInv, TypeOK
      <4>2. call[x].process = process => call[x].code <= call[c].code
        BY <1>1, <3>1, <3>3, <4>1
      <4>. QED BY <1>2, <1>3, <3>1, <3>3, <4>2
    <3>. QED BY <3>2, <3>3
  <2>. QED BY <2>1, <2>2
<1>. QED BY <1>2, <1>4 DEF Accepted

\* A login is accepted and logged.
LEMMA LoginAllowedStep ==
  ASSUME IInv, NEW c \in Call, LoginAllowed(c)
  PROVE  IInv'
<1>. DEFINE rec == [call[c] EXCEPT !.pc = "done", !.outcome = "session",
                                   !.ended = clock, !.signed = Signed(call[c])]
<1>1. /\ rec \in CallRec /\ rec.pc = "done" /\ rec.outcome = "session"
      /\ rec.client = call[c].client /\ rec.passed = call[c].passed
      /\ rec.at = call[c].at /\ rec.process = call[c].process
      /\ rec.who = call[c].who /\ rec.code = call[c].code /\ rec.right = call[c].right
      /\ rec.under = call[c].under /\ rec.signed = call[c].under
      /\ call' = [call EXCEPT ![c] = rec]
  BY DEF IInv, TypeOK, CallRec, LoginAllowed, Signed
<1>. HIDE DEF rec
<1>2. /\ call[c].pc = "password" /\ Matches(call[c]) /\ Burn(call[c])
      /\ logged' = logged \cup {c} /\ UNCHANGED <<windows, signing, process, clock>>
  BY DEF LoginAllowed
<1>3. /\ call' \in [Call -> CallRec] /\ Known'
      /\ IsFiniteSet(Begun)' /\ LessThanTwiceTheLimit' /\ Paced'
  BY <1>1, <1>2, EndedLogin
<1>4. call'[c] = rec /\ \A x \in Call : x # c => call'[x] = call[x]
  BY <1>1 DEF IInv, TypeOK
<1>5. verifier' \in [Operator -> Nat \cup {None}] /\ Accepted'
  BY <1>1, <1>2, <1>4, AcceptedKept
<1>6. Backed'
  BY <1>1, <1>2, <1>4, VerifiedCode DEF IInv, Backed
<1>. QED BY <1>2, <1>3, <1>5, <1>6 DEF IInv, TypeOK

\* A login is accepted and the log throws.
LEMMA LoginUnloggedStep ==
  ASSUME IInv, NEW c \in Call, LoginUnlogged(c)
  PROVE  IInv'
<1>. DEFINE rec == [call[c] EXCEPT !.pc = "done", !.outcome = "error"]
<1>1. /\ rec \in CallRec /\ rec.pc = "done" /\ rec.outcome = "error"
      /\ rec.client = call[c].client /\ rec.passed = call[c].passed
      /\ rec.at = call[c].at /\ rec.process = call[c].process
      /\ rec.who = call[c].who /\ rec.code = call[c].code
      /\ call' = [call EXCEPT ![c] = rec]
  BY DEF IInv, TypeOK, CallRec, LoginUnlogged
<1>. HIDE DEF rec
<1>2. /\ call[c].pc = "password" /\ Matches(call[c]) /\ Burn(call[c])
      /\ UNCHANGED <<windows, logged, signing, process, clock>>
  BY DEF LoginUnlogged
<1>3. /\ call' \in [Call -> CallRec] /\ Known'
      /\ IsFiniteSet(Begun)' /\ LessThanTwiceTheLimit' /\ Paced'
  BY <1>1, <1>2, EndedLogin
<1>4. call'[c] = rec /\ \A x \in Call : x # c => call'[x] = call[x]
  BY <1>1 DEF IInv, TypeOK
<1>5. verifier' \in [Operator -> Nat \cup {None}] /\ Accepted'
  BY <1>1, <1>2, <1>4, AcceptedKept
<1>6. Backed'
  BY <1>1, <1>2, <1>4 DEF IInv, Backed
<1>. QED BY <1>2, <1>3, <1>5, <1>6 DEF IInv, TypeOK

\* Time passes.
LEMMA TickStep ==
  ASSUME IInv, Tick
  PROVE  IInv'
<1>1. /\ UNCHANGED <<windows, verifier, call, logged, signing, process>>
      /\ clock \in Nat /\ process \in Nat /\ clock' \in Nat /\ clock <= clock' /\ TypeOK'
  BY DEF IInv, TypeOK, Tick
<1>2. \A x \in Call : call[x].at \in Nat
  BY DEF IInv, TypeOK, CallRec
<1>3. SameArrivals
  BY <1>1 DEF SameArrivals
<1>4. Known' /\ Accepted' /\ Backed'
  BY <1>1, <1>2 DEF IInv, Known, Accepted, Backed
<1>. QED BY <1>1, <1>3, <1>4, StretchesKept, PacesKept DEF IInv

\* The signing secret is replaced.
LEMMA RotateStep ==
  ASSUME IInv, RotateSecret
  PROVE  IInv'
<1>1. /\ UNCHANGED <<windows, verifier, call, logged, process, clock>>
      /\ clock \in Nat /\ process \in Nat /\ clock <= clock' /\ TypeOK'
  BY DEF IInv, TypeOK, RotateSecret
<1>2. SameArrivals
  BY <1>1 DEF SameArrivals
<1>3. Known' /\ Accepted' /\ Backed'
  BY <1>1 DEF IInv, Known, Accepted, Backed
<1>. QED BY <1>1, <1>2, <1>3, StretchesKept, PacesKept DEF IInv

\* The process ends and another starts: everything it kept is empty again.
LEMMA RestartStep ==
  ASSUME IInv, Restart
  PROVE  IInv'
<1>1. /\ windows' = NoWindows /\ verifier' = [o \in Operator |-> None]
      /\ UNCHANGED <<logged, signing, clock>>
      /\ clock \in Nat /\ process \in Nat /\ process' = process + 1 /\ process' \in Nat
  <2>1. /\ windows' = NoWindows /\ verifier' = [o \in Operator |-> None]
        /\ UNCHANGED <<logged, signing, clock>> /\ process' = process + 1
    BY Zenon DEF Restart
  <2>2. clock \in Nat /\ process \in Nat
    BY DEF IInv, TypeOK
  <2>. QED BY <2>1, <2>2
<1>2. ASSUME NEW x \in Call
      PROVE  /\ call[x] \in CallRec /\ call'[x] \in CallRec
             /\ call'[x].client = call[x].client /\ call'[x].passed = call[x].passed
             /\ call'[x].at = call[x].at /\ call'[x].process = call[x].process
             /\ call[x].pc # "password" => call'[x] = call[x]
             /\ call[x].pc = "password" =>
                   call'[x].pc = "done" /\ call'[x].outcome = "killed"
  <2>1. call[x] \in CallRec
    BY DEF IInv, TypeOK
  <2>2. CASE call[x].pc = "password"
    <3>1. call'[x] = Ended(call[x], "killed")
      BY <2>2 DEF Restart
    <3>. QED BY <2>1, <2>2, <3>1 DEF CallRec, Ended
  <2>3. CASE call[x].pc # "password"
    <3>1. call'[x] = call[x]
      BY <2>3 DEF Restart
    <3>. QED BY <2>1, <2>3, <3>1
  <2>. QED BY <2>2, <2>3
<1>3. TypeOK'
  <2>1. windows' \in [Limiter -> [Client -> [count : Nat, startedAt : Nat]]]
    BY <1>1 DEF NoWindows, NoWindow
  <2>2. call' \in [Call -> CallRec]
    <3>1. call' = [x \in Call |-> call'[x]]
      BY DEF Restart
    <3>. QED BY <1>2, <3>1
  <2>. QED BY <1>1, <2>1, <2>2 DEF IInv, TypeOK
<1>4. \A x \in Call : /\ call[x].process <= process /\ call[x].at <= clock
                      /\ call[x].process \in Nat
                      /\ call[x].pc = "password" => call[x].outcome = "none"
                      /\ call[x].pc = "idle" => call[x] = Idle
  BY <1>2 DEF IInv, Known, CallRec
<1>5. \A x \in Call : call'[x].process # process' /\ call'[x].process <= process'
  BY <1>1, <1>2, <1>4
<1>6. SameArrivals
  BY <1>2, <1>4 DEF SameArrivals
<1>7. Known'
  <2>1. \A x \in Call : /\ call'[x].pc # "password"
                        /\ call'[x].pc = "idle" => call'[x] = call[x]
    BY <1>2
  <2>. QED BY <1>1, <1>2, <1>4, <1>5, <2>1 DEF Known
<1>8. Accepted' /\ Backed'
  <2>1. \A x \in Call : call'[x].outcome \in {"session", "error"} => call'[x] = call[x]
    BY <1>2
  <2>. QED BY <1>1, <1>5, <2>1 DEF IInv, Accepted, Backed
<1>9. Paced'
  <2>. SUFFICES ASSUME NEW l \in Limiter, NEW d \in Client PROVE Pace(l, d, NoWindow)'
    BY <1>1 DEF Paced, NoWindows
  <2>1. Since(l, d, 0)' = {}
    BY <1>5 DEF Since, Begun
  <2>. QED BY <1>1, <2>1, LimiterType DEF Pace, NoWindow
<1>. QED BY <1>1, <1>3, <1>6, <1>7, <1>8, <1>9, StretchesKept DEF IInv

-----------------------------------------------------------------------------
(* The theorems.                                                           *)

\* Every step keeps the inductive invariant.
LEMMA InvStep == IInv /\ [Next]_vars => IInv'
<1>. SUFFICES ASSUME IInv, [Next]_vars PROVE IInv'
  OBVIOUS
<1>1. ASSUME NEW c \in Call, Arrive(c) PROVE IInv'
  <2>1. FALSE \in BOOLEAN /\ None \in Operator \cup {None} /\ None \in Nat \cup {None}
        /\ Codes \subseteq Nat \cup {None}
    BY DEF Codes
  <2>. QED BY <1>1, <2>1, LimitedStep, LoginBeginStep, UseSessionStep DEF Arrive
<1>2. ASSUME NEW c \in Call, LoginRefused(c) \/ LoginAllowed(c) \/ LoginUnlogged(c)
      PROVE  IInv'
  BY <1>2, LoginRefusedStep, LoginAllowedStep, LoginUnloggedStep
<1>3. CASE UNCHANGED vars
  <2>1. clock \in Nat /\ process \in Nat /\ clock <= clock' /\ TypeOK' /\ SameArrivals
    BY <1>3 DEF IInv, TypeOK, SameArrivals, vars
  <2>2. Known' /\ Accepted' /\ Backed'
    BY <1>3 DEF IInv, Known, Accepted, Backed, vars
  <2>. QED BY <1>3, <2>1, <2>2, StretchesKept, PacesKept DEF IInv, vars
<1>. QED BY <1>1, <1>2, <1>3, TickStep, RotateStep, RestartStep DEF Next

\* The inductive invariant holds in every reachable state.
THEOREM Invariance == Spec => []IInv
  BY InitInv, InvStep, PTL DEF Spec

\* Every handler keeps the types.
THEOREM TypeCorrect == Spec => []TypeOK
<1>1. IInv => TypeOK
  BY DEF IInv
<1>. QED BY <1>1, Invariance, PTL

\* For any limit and any length of the windows, wherever a stretch of time as
\* long as a window lies, a limiter lets less than twice the limit through.
THEOREM BurstsAreBounded == Spec => []LessThanTwiceTheLimit
<1>1. IInv => LessThanTwiceTheLimit
  BY DEF IInv
<1>. QED BY <1>1, Invariance, PTL

\* A call that waited for its password ends in a session, or fails on the log,
\* only in the two actions of a login that matched.
LEMMA AuthenticatedStep ==
  ASSUME IInv, [Next]_vars, NEW c \in Call, Authenticated(c)
  PROVE  LoginAllowed(c) \/ LoginUnlogged(c)
<1>1. /\ call[c].pc = "password" /\ call[c].outcome = "none" /\ call[c] \in CallRec
      /\ call'[c].outcome \in {"session", "error"}
  BY DEF IInv, TypeOK, Known, Authenticated
<1>2. ASSUME NEW d \in Call, NEW rec, call' = [call EXCEPT ![d] = rec],
             d # c \/ rec.outcome \notin {"session", "error"}
      PROVE  FALSE
  BY <1>1, <1>2 DEF IInv, TypeOK
<1>3. ASSUME NEW d \in Call, Arrive(d) PROVE FALSE
  <2>1. call[d].pc = "idle" /\ d # c
    BY <1>1, <1>3 DEF Arrive, Limited, LoginBegin, UseSession
  <2>. QED BY <1>2, <1>3, <2>1 DEF Arrive, Limited, LoginBegin, UseSession
<1>4. ASSUME NEW d \in Call, LoginRefused(d) PROVE FALSE
  <2>1. call'[c].outcome \in {call[c].outcome, "denied"}
    BY <1>1, <1>4 DEF LoginRefused, Ended, IInv, TypeOK, CallRec
  <2>. QED BY <1>1, <2>1
<1>5. ASSUME NEW d \in Call, LoginAllowed(d) \/ LoginUnlogged(d) PROVE d = c
  <2>1. \A x \in Call : x # d => call'[x] = call[x]
    BY <1>5 DEF LoginAllowed, LoginUnlogged, IInv, TypeOK
  <2>. QED BY <1>1, <2>1
<1>6. ASSUME Restart PROVE FALSE
  <2>1. call'[c] = Ended(call[c], "killed")
    BY <1>1, <1>6 DEF Restart
  <2>. QED BY <1>1, <2>1 DEF CallRec, Ended
<1>7. ~ UNCHANGED call
  BY <1>1
<1>. QED BY <1>3, <1>4, <1>5, <1>6, <1>7 DEF Next, Tick, RotateSecret, vars

\* The codes of an operator are accepted in the order of their time-steps in
\* each process, for any number of logins that wait with the same one.
THEOREM CodesInOrder == Spec => CodesAcceptedInOrder
<1>1. IInv /\ [Next]_vars =>
        [\A c, d \in Call :
          /\ Authenticated(c) /\ call[d].outcome \in {"session", "error"}
          /\ call[d].who = call[c].who /\ call[d].process = process
          => call[d].code < call[c].code]_vars
  <2>. SUFFICES ASSUME IInv, [Next]_vars, NEW c \in Call, NEW d \in Call,
                       Authenticated(c), call[d].outcome \in {"session", "error"},
                       call[d].who = call[c].who, call[d].process = process
                PROVE  call[d].code < call[c].code
    OBVIOUS
  <2>1. call[c].pc = "password" /\ Matches(call[c])
    BY AuthenticatedStep DEF LoginAllowed, LoginUnlogged
  <2>2. /\ call[c].who \in Operator /\ call[c].code \in Nat
        /\ verifier[call[c].who] # None => call[c].code > verifier[call[c].who]
    BY <2>1, VerifiedCode
  <2>3. /\ call[d].code \in Nat /\ verifier[call[c].who] # None
        /\ call[d].code <= verifier[call[c].who]
    BY DEF IInv, Accepted
  <2>4. verifier[call[c].who] \in Nat
    BY <2>2, <2>3 DEF IInv, TypeOK
  <2>. QED BY <2>2, <2>3, <2>4
<1>. QED BY <1>1, Invariance, PTL DEF Spec, CodesAcceptedInOrder

\* Whatever else runs, a verifier moves only for its own operator, who knew
\* the password, and never past the drift.
THEOREM OperatorSpendsCodes == Spec => OnlyTheOperatorSpendsCodes
<1>1. IInv /\ [Next]_vars =>
        [process' = process =>
          \A o \in Operator : verifier'[o] # verifier[o] =>
              /\ \E c \in Call : Authenticated(c) /\ call[c].who = o /\ call[c].right
              /\ verifier'[o] <= Timestep + DriftSteps]_vars
  <2>. SUFFICES ASSUME IInv, [Next]_vars, process' = process, NEW o \in Operator,
                       verifier'[o] # verifier[o]
                PROVE  /\ \E c \in Call : Authenticated(c) /\ call[c].who = o /\ call[c].right
                       /\ verifier'[o] <= Timestep + DriftSteps
    OBVIOUS
  <2>1. ~ Restart
    <3>1. process \in Nat /\ process' # process + 1
      BY DEF IInv, TypeOK
    <3>. QED BY <3>1, Zenon DEF Restart
  <2>2. PICK c \in Call : LoginAllowed(c) \/ LoginUnlogged(c)
    BY <2>1 DEF Next, Arrive, Limited, LoginBegin, UseSession, LoginRefused, Tick,
       RotateSecret, vars
  <2>3. call[c].pc = "password" /\ Matches(call[c]) /\ Burn(call[c])
    BY <2>2 DEF LoginAllowed, LoginUnlogged
  <2>4. /\ call[c].who \in Operator /\ call[c].right
        /\ call[c].code <= Timestep + DriftSteps
    BY <2>3, VerifiedCode
  <2>5. call[c].who = o /\ verifier'[o] = call[c].code
    BY <2>3, <2>4 DEF Burn, IInv, TypeOK
  <2>6. call'[c].outcome \in {"session", "error"}
    <3>1. call[c] \in CallRec
      BY DEF IInv, TypeOK
    <3>. QED BY <2>2, <3>1 DEF LoginAllowed, LoginUnlogged, IInv, TypeOK, CallRec
  <2>. QED BY <2>3, <2>4, <2>5, <2>6 DEF Authenticated
<1>. QED BY <1>1, Invariance, PTL DEF Spec, OnlyTheOperatorSpendsCodes

\* Every accepted use of a session, however late, goes back to a login in the
\* log that knew the password and arrived under the secret still in force.
THEOREM SessionsGoBackToLogins == Spec => SessionsAreBacked
<1>1. IInv /\ [Next]_vars =>
        [\A c \in Call :
          call[c].pc = "idle" /\ call'[c].outcome = "accepted" =>
              LET login == call[call'[c].session] IN
              /\ call'[c].session \in logged /\ login.right
              /\ login.under = signing
              /\ clock < login.ended + Ttl]_vars
  <2>. SUFFICES ASSUME IInv, [Next]_vars, NEW c \in Call, call[c].pc = "idle",
                       call'[c].outcome = "accepted"
                PROVE  /\ call'[c].session \in logged /\ call[call'[c].session].right
                       /\ call[call'[c].session].under = signing
                       /\ clock < call[call'[c].session].ended + Ttl
    OBVIOUS
  <2>1. call[c].outcome = "none" /\ call'[c] # call[c]
    <3>1. call[c] = Idle
      BY DEF IInv, Known
    <3>. QED BY <3>1 DEF Idle
  <2>2. PICK cl \in Client, d \in Call : UseSession(c, cl, d)
    <3>1. ~ Restart
      BY <2>1 DEF Restart
    <3>2. \A d \in Call : ~ (LoginRefused(d) \/ LoginAllowed(d) \/ LoginUnlogged(d))
      BY <2>1 DEF LoginRefused, LoginAllowed, LoginUnlogged, IInv, TypeOK
    <3>3. ASSUME NEW d \in Call, Arrive(d) PROVE d = c
      BY <2>1, <3>3 DEF Arrive, Limited, LoginBegin, UseSession, IInv, TypeOK
    <3>4. Arrive(c)
      BY <2>1, <3>1, <3>2, <3>3 DEF Next, Tick, RotateSecret, vars
    <3>5. ASSUME NEW rec, call' = [call EXCEPT ![c] = rec] PROVE rec.outcome = "accepted"
      BY <3>5 DEF IInv, TypeOK
    <3>6. ASSUME NEW cl \in Client, NEW route \in {"login", "session"}, Limited(c, cl, route)
          PROVE  FALSE
      <4>1. [Arrival(cl, route) EXCEPT !.outcome = "limited"].outcome = "limited"
        BY DEF Arrival, Idle
      <4>. QED BY <3>5, <3>6, <4>1 DEF Limited
    <3>7. ASSUME NEW cl \in Client, NEW o, NEW right, NEW code,
                 LoginBegin(c, cl, o, right, code)
          PROVE  FALSE
      <4>1. /\ [Arrival(cl, "login") EXCEPT !.outcome = "denied"].outcome = "denied"
            /\ [Arrival(cl, "login") EXCEPT !.pc = "password", !.who = o, !.right = right,
                                            !.code = code].outcome = "none"
        BY DEF Arrival, Idle
      <4>. QED BY <3>5, <3>7, <4>1 DEF LoginBegin
    <3>. QED BY <3>4, <3>6, <3>7 DEF Arrive
  <2>3. call'[c].session = d /\ Valid(d) /\ call[d].outcome = "session"
    <3>. DEFINE rec == [Arrival(cl, "session") EXCEPT
                           !.session = d,
                           !.outcome = IF Valid(d) THEN "accepted" ELSE "rejected"]
    <3>1. rec.session = d /\ rec.outcome = (IF Valid(d) THEN "accepted" ELSE "rejected")
      BY DEF Arrival, Idle
    <3>2. call'[c] = rec /\ call[d].outcome = "session"
      BY <2>2 DEF UseSession, IInv, TypeOK
    <3>. HIDE DEF rec
    <3>. QED BY <3>1, <3>2
  <2>. QED BY <2>3 DEF IInv, Backed, Valid
<1>. QED BY <1>1, Invariance, PTL DEF Spec, SessionsAreBacked
=============================================================================
