---------------------------- MODULE AplogdProofs ----------------------------
(***************************************************************************)
(* Proofs about aplogd, for any number of inputs in any order, any sizes   *)
(* of the RAM buffers and log files and any number of entries, card        *)
(* changes and failed calls.                                               *)
(*                                                                         *)
(* The functions of Aplogd map a state to the set of states it can end in. *)
(* There is a lemma for each of them that says what it keeps: Sane (the    *)
(* types, and that a closed output is not live), Booked (the entries),     *)
(* the buffers and the clock, and where the outputs are.  The actions then *)
(* keep the inductive invariant Inv, which implies the four invariants.    *)
(***************************************************************************)
EXTENDS Aplogd, WellFoundedInduction, TLAPS

\* Induction over a set of numbers, from the well-foundedness of < on Nat.
LEMMA NatSetInduction ==
  ASSUME NEW S \in SUBSET Nat, 0 \in S, \A n \in S : n + 1 \in S
  PROVE  S = Nat
<1> DEFINE T == Nat \ S
<1> SUFFICES ASSUME T # {} PROVE FALSE
    BY Zenon
<1>1. T \subseteq Nat
  OBVIOUS
<1> DEFINE R == OpToRel(<, Nat)
<1>2. IsWellFoundedOn(R, Nat)
  BY NatLessThanWellFounded, Zenon
<1>3. \A x, y \in Nat : y < x => <<y, x>> \in R
  BY DEF OpToRel
<1> HIDE DEF R, T
<1>4. PICK x \in T : \A y \in T : ~(<<y, x>> \in R)
  BY <1>1, <1>2, WFMin, Zenon
<1>5. x \in Nat /\ x # 0 /\ x - 1 \in Nat
  BY <1>1 DEF T
<1>6. x - 1 \notin T
  <2>1. x - 1 < x
    BY <1>5
  <2>2. <<x - 1, x>> \in R
    BY <1>3, <1>5, <2>1
  <2> QED
    BY <1>4, <2>2
<1> QED
  BY <1>5, <1>6 DEF T

\* A function exists that obeys the recursion of Flushed: by induction there is
\* one on every 0..n.
LEMMA UpToExists ==
  ASSUME NEW x
  PROVE \E f : f = [k \in 0..Len(Inputs) |-> IF k = 0 THEN {x} ELSE Then(f[k - 1], LAMBDA z : aplogd_rambuf_output(z, Inputs[k]))]
<1> DEFINE G(S, k) == Then(S, LAMBDA z : aplogd_rambuf_output(z, Inputs[k]))
<1> DEFINE Q == {n \in Nat : \E f : f = [k \in 0..n |-> IF k = 0 THEN {x} ELSE G(f[k - 1], k)]}
<1> HIDE DEF G
<1>1. 0 \in Q
  <2> DEFINE f == [k \in 0..0 |-> {x}]
  <2>1. f = [k \in 0..0 |-> IF k = 0 THEN {x} ELSE G(f[k - 1], k)]
    OBVIOUS
  <2> QED
    BY <2>1, Zenon
<1>2. ASSUME NEW n \in Q PROVE n + 1 \in Q
  <2>0. n \in Nat
    OBVIOUS
  <2>1. PICK f : f = [k \in 0..n |-> IF k = 0 THEN {x} ELSE G(f[k - 1], k)]
    OBVIOUS
  <2> HIDE DEF Q
  <2>3. \A k \in 0..n : f[k] = IF k = 0 THEN {x} ELSE G(f[k - 1], k)
    BY <2>1, Zenon
  <2> DEFINE g == [k \in 0..(n + 1) |-> IF k <= n THEN f[k] ELSE G(f[n], n + 1)]
  <2>2. g = [k \in 0..(n + 1) |-> IF k = 0 THEN {x} ELSE G(g[k - 1], k)]
    <3>1. ASSUME NEW k \in 0..(n + 1) PROVE g[k] = IF k = 0 THEN {x} ELSE G(g[k - 1], k)
      <4>1. CASE k = 0
        BY <2>0, <2>3, <4>1
      <4>2. CASE k # 0 /\ k <= n
        <5>1. k \in 0..n /\ k - 1 \in 0..n + 1 /\ k - 1 <= n /\ k # 0
          BY <2>0, <4>2
        <5>2. g[k] = f[k] /\ g[k - 1] = f[k - 1]
          BY <5>1
        <5>3. f[k] = G(f[k - 1], k)
          BY <2>3, <5>1
        <5> QED
          BY <5>1, <5>2, <5>3
      <4>3. CASE k = n + 1
        BY <2>0, <4>3
      <4> QED
        BY <2>0, <4>1, <4>2, <4>3
    <3> QED
      BY <3>1, Zenon
  <2> HIDE DEF g
  <2> QED
    BY <2>0, <2>2 DEF Q
<1> HIDE DEF Q
<1>3. Q = Nat
  <2>1. Q \in SUBSET Nat
    BY DEF Q
  <2> QED
    BY <1>1, <1>2, <2>1, NatSetInduction
<1>4. Len(Inputs) \in Q
  BY <1>3, AplogdAssumption
<1> QED
  BY <1>4, Zenon DEF Q, G

\* So the loop of aplogd_rambuf_outputall obeys it, one poll index after the other.
LEMMA UpToDef ==
  ASSUME NEW x
  PROVE \E f : /\ f = [k \in 0..Len(Inputs) |-> IF k = 0 THEN {x} ELSE Then(f[k - 1], LAMBDA z : aplogd_rambuf_output(z, Inputs[k]))]
               /\ Flushed(x) = f[Len(Inputs)]
<1> DEFINE G(S, k) == Then(S, LAMBDA z : aplogd_rambuf_output(z, Inputs[k]))
<1> DEFINE D(f) == f = [k \in 0..Len(Inputs) |-> IF k = 0 THEN {x} ELSE G(f[k - 1], k)]
<1>1. \E f : D(f)
  BY UpToExists, Zenon
<1>2. Flushed(x) = (CHOOSE f : D(f))[Len(Inputs)]
  BY DEF Flushed
<1> HIDE DEF D
<1>3. D(CHOOSE f : D(f))
  BY <1>1
<1> QED
  BY <1>2, <1>3, Zenon DEF D
-----------------------------------------------------------------------------

\* The empty sequence holds nothing.
LEMMA EmptySequence ==
  ASSUME NEW q, q = <<>>
  PROVE  Range(q) = {} /\ IsInjective(q)
BY DEF Range, IsInjective

\* What a sequence holds after Append.
LEMMA AppendEntries ==
  ASSUME NEW S, NEW q \in Seq(S), NEW e \in S
  PROVE  /\ Range(Append(q, e)) = Range(q) \cup {e}
         /\ IsInjective(q) /\ e \notin Range(q) => IsInjective(Append(q, e))
<1> DEFINE r == Append(q, e)
<1>1. /\ Len(r) = Len(q) + 1 /\ DOMAIN r = 1..Len(q) + 1 /\ r[Len(q) + 1] = e
      /\ DOMAIN q = 1..Len(q) /\ Len(q) \in Nat /\ \A k \in 1..Len(q) : r[k] = q[k]
  OBVIOUS
<1> HIDE DEF r
<1>2. Range(r) = Range(q) \cup {e}
  <2>1. ASSUME NEW v \in Range(r) PROVE v \in Range(q) \cup {e}
    <3>1. PICK k \in 1..Len(q) + 1 : v = r[k]
      BY <1>1 DEF Range
    <3> QED
      BY <1>1, <3>1 DEF Range
  <2>2. ASSUME NEW v \in Range(q) \cup {e} PROVE v \in Range(r)
    BY <1>1 DEF Range
  <2> QED
    BY <2>1, <2>2
<1>3. ASSUME IsInjective(q), e \notin Range(q) PROVE IsInjective(r)
  <2>1. \A k \in 1..Len(q) : q[k] # e
    BY <1>1, <1>3 DEF Range
  <2> QED
    BY <1>1, <1>3, <2>1 DEF IsInjective
<1> QED
  BY <1>2, <1>3 DEF r

\* What two sequences hold one after the other.
LEMMA ConcatEntries ==
  ASSUME NEW S, NEW q \in Seq(S), NEW t \in Seq(S)
  PROVE  /\ Range(q \o t) = Range(q) \cup Range(t)
         /\ IsInjective(q) /\ IsInjective(t) /\ Range(q) \cap Range(t) = {} => IsInjective(q \o t)
<1> DEFINE r == q \o t
           m == Len(q)
           n == Len(t)
<1>1. /\ m \in Nat /\ n \in Nat
      /\ DOMAIN r = 1..m + n /\ DOMAIN q = 1..m /\ DOMAIN t = 1..n
      /\ \A k \in 1..m : r[k] = q[k]
      /\ \A k \in 1..m + n : k > m => r[k] = t[k - m]
  OBVIOUS
<1> HIDE DEF r, m, n
<1>2. \A k \in 1..n : r[k + m] = t[k]
  <2> TAKE k \in 1..n
  <2>1. k + m \in 1..m + n /\ k + m > m /\ (k + m) - m = k
    BY <1>1
  <2> QED
    BY <1>1, <2>1
<1>3. Range(r) = Range(q) \cup Range(t)
  <2>1. ASSUME NEW v \in Range(r) PROVE v \in Range(q) \cup Range(t)
    <3>1. PICK k \in 1..m + n : v = r[k]
      BY <1>1 DEF Range
    <3>2. CASE k <= m
      BY <1>1, <3>1, <3>2 DEF Range
    <3>3. CASE k > m
      <4>1. k - m \in 1..n
        BY <1>1, <3>3
      <4> QED
        BY <1>1, <3>1, <3>3, <4>1, Zenon DEF Range
    <3> QED
      BY <1>1, <3>2, <3>3
  <2>2. Range(q) \subseteq Range(r)
    <3>1. \A k \in 1..m : k \in 1..m + n
      BY <1>1
    <3> QED
      BY <1>1, <3>1 DEF Range
  <2>3. Range(t) \subseteq Range(r)
    <3>1. \A k \in 1..n : k + m \in 1..m + n
      BY <1>1
    <3>2. ASSUME NEW v \in Range(t) PROVE v \in Range(r)
      <4>1. PICK k \in 1..n : v = t[k]
        BY <1>1 DEF Range
      <4>2. k + m \in DOMAIN r /\ v = r[k + m]
        BY <1>1, <1>2, <3>1, <4>1
      <4> QED
        BY <4>2 DEF Range
    <3> QED
      BY <3>2
  <2> QED
    BY <2>1, <2>2, <2>3
<1>4. ASSUME IsInjective(q), IsInjective(t), Range(q) \cap Range(t) = {}
      PROVE  IsInjective(r)
  <2> SUFFICES ASSUME NEW a \in 1..m + n, NEW b \in 1..m + n, r[a] = r[b] PROVE a = b
    BY <1>1 DEF IsInjective
  <2>1. ASSUME NEW k \in 1..m, NEW j \in 1..n PROVE q[k] # t[j]
    BY <1>1, <1>4, <2>1, Zenon DEF Range
  <2>2. \A k \in 1..m + n : IF k <= m THEN k \in 1..m /\ r[k] = q[k]
                                      ELSE k - m \in 1..n /\ r[k] = t[k - m]
    BY <1>1
  <2>3. CASE a <= m /\ b <= m
    BY <1>1, <1>4, <2>2, <2>3 DEF IsInjective
  <2>4. CASE ~(a <= m) /\ ~(b <= m)
    <3>1. a - m = b - m
      BY <1>1, <1>4, <2>2, <2>4 DEF IsInjective
    <3> QED
      BY <1>1, <3>1
  <2>5. CASE a <= m /\ ~(b <= m)
    BY <2>1, <2>2, <2>5
  <2>6. CASE ~(a <= m) /\ b <= m
    BY <2>1, <2>2, <2>6
  <2> QED
    BY <2>3, <2>4, <2>5, <2>6
<1> QED
  BY <1>3, <1>4 DEF r

\* The part about the entries, for sequences of entries.
LEMMA ConcatRange ==
  ASSUME NEW q \in Seq(Nat), NEW t \in Seq(Nat)
  PROVE  Range(q \o t) = Range(q) \cup Range(t)
BY ConcatEntries

-----------------------------------------------------------------------------

\* The two halves of Once: the places part the entries of the input between
\* them, and no sequence holds an entry twice.
Parted(x, i, n) ==
  /\ \A p \in Places : Held(x, i, p) \subseteq 1..n
  /\ \A e \in 1..n : \E p \in Places : e \in Held(x, i, p)
  /\ \A p, q \in Places : p # q => Held(x, i, p) \cap Held(x, i, q) = {}

Single(x, i) == IsInjective(x.buf[i]) /\ \A s \in Storages : IsInjective(x.file[s][i])

\* Together they are Once.
LEMMA OnceParted ==
  ASSUME NEW x, NEW i, NEW n
  PROVE  Once(x, i, n) <=> Parted(x, i, n) /\ Single(x, i)
<1>1. ASSUME Once(x, i, n) PROVE Parted(x, i, n)
  <2>1. ASSUME NEW p \in Places, NEW q \in Places, p # q,
               NEW e \in Held(x, i, p), e \in Held(x, i, q)
        PROVE  FALSE
    <3>1. e \in 1..n
      BY <1>1, <2>1 DEF Once
    <3>2. PICK r \in Places : {u \in Places : e \in Held(x, i, u)} = {r}
      BY <1>1, <3>1 DEF Once
    <3>3. p \in {r} /\ q \in {r}
      BY <2>1, <3>2
    <3> QED
      BY <2>1, <3>3
  <2> QED
    BY <1>1, <2>1 DEF Once, Parted
<1>2. ASSUME Parted(x, i, n), Single(x, i) PROVE Once(x, i, n)
  <2>1. ASSUME NEW e \in 1..n
        PROVE  \E p \in Places : {q \in Places : e \in Held(x, i, q)} = {p}
    <3>1. PICK p \in Places : e \in Held(x, i, p)
      BY <1>2, <2>1 DEF Parted
    <3>2. {q \in Places : e \in Held(x, i, q)} = {p}
      BY <1>2, <3>1 DEF Parted
    <3> QED
      BY <3>2
  <2> QED
    BY <1>2, <2>1 DEF Once, Parted, Single
<1> QED
  BY <1>1, <1>2 DEF Once, Single

\* What is in RAM, compressed or dropped.
LEMMA HeldAt ==
  ASSUME NEW x, NEW i
  PROVE  /\ Held(x, i, "buffer") = Range(x.buf[i])
         /\ Held(x, i, "archive") = x.archive[i]
         /\ Held(x, i, "lost") = x.lost[i]
BY DEF Held

\* What is in the log file on a storage.
LEMMA HeldFile ==
  ASSUME NEW x, NEW i, NEW s \in Storages
  PROVE  Held(x, i, s) = Range(x.file[s][i])
BY DEF Held, Storages, Cards

\* The same places hold the same entries.
LEMMA PartedSame ==
  ASSUME NEW x, NEW y, NEW i, NEW n, Parted(x, i, n),
         \A p \in Places : Held(y, i, p) = Held(x, i, p)
  PROVE  Parted(y, i, n)
BY DEF Parted

\* All entries of a place moved to another one.
LEMMA PartedMove ==
  ASSUME NEW x, NEW y, NEW i, NEW n, Parted(x, i, n),
         NEW a \in Places, NEW b \in Places, a # b,
         Held(y, i, a) = {}, Held(y, i, b) = Held(x, i, b) \cup Held(x, i, a),
         \A p \in Places \ {a, b} : Held(y, i, p) = Held(x, i, p)
  PROVE  Parted(y, i, n)
<1>1. ASSUME NEW p \in Places PROVE Held(y, i, p) \subseteq 1..n
  BY DEF Parted
<1>2. ASSUME NEW e \in 1..n PROVE \E p \in Places : e \in Held(y, i, p)
  <2>1. PICK p \in Places : e \in Held(x, i, p)
    BY DEF Parted
  <2>2. CASE p \in {a, b}
    BY <2>1, <2>2
  <2>3. CASE p \notin {a, b}
    BY <2>1, <2>3
  <2> QED
    BY <2>2, <2>3
<1>3. ASSUME NEW p \in Places, NEW q \in Places, p # q
      PROVE  Held(y, i, p) \cap Held(y, i, q) = {}
  <2>1. CASE p = a \/ q = a
    BY <2>1
  <2>2. CASE p = b /\ q # a
    BY <1>3, <2>2 DEF Parted
  <2>3. CASE q = b /\ p # a
    BY <1>3, <2>3 DEF Parted
  <2>4. CASE p \notin {a, b} /\ q \notin {a, b}
    BY <1>3, <2>4 DEF Parted
  <2> QED
    BY <2>1, <2>2, <2>3, <2>4
<1> QED
  BY <1>1, <1>2, <1>3 DEF Parted

\* The next entry added to a place.
LEMMA PartedAdd ==
  ASSUME NEW x, NEW y, NEW i, NEW n \in Nat, Parted(x, i, n),
         NEW b \in Places,
         Held(y, i, b) = Held(x, i, b) \cup {n + 1},
         \A p \in Places \ {b} : Held(y, i, p) = Held(x, i, p)
  PROVE  Parted(y, i, n + 1)
<1>0. 1..(n + 1) = 1..n \cup {n + 1} /\ n + 1 \notin 1..n
  OBVIOUS
<1> DEFINE N == 1..n
           M == 1..(n + 1)
           v == n + 1
<1>1. M = N \cup {v} /\ v \notin N
  BY <1>0
<1>2. /\ \A p \in Places : Held(x, i, p) \subseteq N
      /\ \A e \in N : \E p \in Places : e \in Held(x, i, p)
      /\ \A p, q \in Places : p # q => Held(x, i, p) \cap Held(x, i, q) = {}
  BY DEF Parted
<1>3. Held(y, i, b) = Held(x, i, b) \cup {v}
  OBVIOUS
<1> HIDE DEF N, M, v
<1>4. \A p \in Places : Held(y, i, p) \subseteq M
  BY <1>1, <1>2, <1>3
<1>5. \A e \in M : \E p \in Places : e \in Held(y, i, p)
  <2> TAKE e \in M
  <2>1. CASE e = v
    BY <1>3, <2>1
  <2>2. CASE e \in N
    <3>1. PICK p \in Places : e \in Held(x, i, p)
      BY <1>2, <2>2
    <3>2. e \in Held(y, i, p)
      BY <1>3, <3>1
    <3> QED
      BY <3>2
  <2> QED
    BY <1>1, <2>1, <2>2
<1>6. ASSUME NEW p \in Places, NEW q \in Places, p # q
      PROVE  Held(y, i, p) \cap Held(y, i, q) = {}
  <2>1. v \notin Held(x, i, p) /\ v \notin Held(x, i, q)
    BY <1>1, <1>2
  <2> QED
    BY <1>2, <1>3, <1>6, <2>1
<1> QED
  BY <1>4, <1>5, <1>6 DEF Parted, M, v
-----------------------------------------------------------------------------

\* The types of the daemon, and that an output that is closed writes no file.
Sane(x) ==
  /\ x \in Daemon
  /\ \A i \in Streams : x.out[i].at = "none" => ~x.out[i].live

\* The entries are where they were.
SameEntries(x, y) ==
  /\ y.buf = x.buf /\ y.file = x.file /\ y.archive = x.archive /\ y.lost = x.lost
  /\ y.harm = x.harm

\* What is counted for the next write-out is the same.
SameClock(x, y) == y.unwritten = x.unwritten /\ y.timer = x.timer /\ y.kept = x.kept

\* The daemon sees its storage as before.
SameView(x, y) == y.cur = x.cur /\ y.stray = x.stray /\ y.late = x.late

\* aplogd_close_output closes every output and does no more.
LEMMA CloseOutput ==
  ASSUME NEW x, Sane(x), NEW y, y = aplogd_close_output(x)
  PROVE  /\ Sane(y) /\ SameEntries(x, y) /\ SameClock(x, y) /\ SameView(x, y)
         /\ \A i \in Streams : y.out[i] = Closed
BY Zenon DEF Sane, Daemon, aplogd_close_output, SameEntries, SameClock, SameView, Closed

\* aplogd_output_setup touches no entry; it fails on a storage that is not there,
\* or opens files on that storage only; on USERDATA it succeeds.
LEMMA OutputSetup ==
  ASSUME NEW x, Sane(x), NEW s \in Storages, NEW y \in aplogd_output_setup(x, s)
  PROVE  /\ Sane(y) /\ SameEntries(x, y) /\ SameClock(x, y)
         /\ y.cur = x.cur /\ y.stray = x.stray
         /\ \/ s \notin Writable /\ y.ret = -1 /\ y.out = x.out /\ y.late = x.late
            \/ /\ s \in Writable
               /\ \A i \in Streams : y.out[i].at \in {"none", s}
               /\ s \in leaving => y.late
               /\ x.late => y.late
         /\ s = "USERDATA" => y.ret = 0
<1>1. CASE s \notin Writable
  <2>1. y = [x EXCEPT !.ret = -1]
    BY <1>1 DEF aplogd_output_setup
  <2>2. y \in Daemon /\ y.ret = -1 /\ y.out = x.out /\ y.cur = x.cur
    BY <2>1, Zenon DEF Sane, Daemon
  <2>3. SameEntries(x, y) /\ SameClock(x, y) /\ y.stray = x.stray /\ y.late = x.late
    BY <2>1 DEF Sane, Daemon, SameEntries, SameClock
  <2> QED
    BY <1>1, <2>2, <2>3 DEF Sane, Writable
<1>2. CASE s \in Writable
  <2>1. PICK bad \in OpenFailures(x, s) :
     y = [x EXCEPT !.dirs = @ \cup {s},
                  !.there[s] = @ \cup (Streams \ bad),
                  !.out = [i \in Streams |-> IF i \in bad THEN Closed ELSE [at |-> s, live |-> TRUE]],
                  !.ret = IF bad = {} THEN 0 ELSE -1,
                  !.late = @ \/ s \in leaving,
                  !.faults = IF bad = {} THEN @ ELSE @ + 1]
    BY <1>2, Zenon DEF aplogd_output_setup
  <2>2. y \in Daemon
    <3> DEFINE D == x.dirs \cup {s}
               T == [x.there EXCEPT ![s] = @ \cup (Streams \ bad)]
               O == [i \in Streams |-> IF i \in bad THEN Closed ELSE [at |-> s, live |-> TRUE]]
               R == IF bad = {} THEN 0 ELSE -1
               L == x.late \/ s \in leaving
               F == IF bad = {} THEN x.faults ELSE x.faults + 1
    <3>1. D \in SUBSET Storages /\ T \in [Storages -> SUBSET Streams]
      BY DEF Sane, Daemon
    <3>2. O \in [Streams -> [at : Storages \cup {"none"}, live : BOOLEAN]]
      BY DEF Closed
    <3>3. R \in {0, -1} /\ L \in BOOLEAN /\ F \in Nat
      BY DEF Sane, Daemon
    <3>4. y = [x EXCEPT !.dirs = D, !.there = T, !.out = O, !.ret = R, !.late = L, !.faults = F]
      BY <2>1 DEF Sane, Daemon
    <3> HIDE DEF D, T, O, R, L, F
    <3> QED
      BY <3>1, <3>2, <3>3, <3>4, Zenon DEF Sane, Daemon
  <2>3. \A i \in Streams : y.out[i].at \in {"none", s} /\ (y.out[i].at = "none" => ~y.out[i].live)
    BY <2>1 DEF Sane, Daemon, Closed, Storages, Cards
  <2>4. s = "USERDATA" => bad = {}
    BY DEF OpenFailures, Cards
  <2>5. SameEntries(x, y) /\ SameClock(x, y) /\ y.cur = x.cur /\ y.stray = x.stray /\ y.ret = IF bad = {} THEN 0 ELSE -1
    BY <2>1 DEF Sane, Daemon, SameEntries, SameClock
  <2>6. (s \in leaving => y.late) /\ (x.late => y.late)
    BY <2>1, Zenon DEF Sane, Daemon
  <2> QED
    BY <1>2, <2>2, <2>3, <2>4, <2>5, <2>6 DEF Sane
<1> QED
  BY <1>1, <1>2

\* The open outputs are on the current storage, and a card on its way out is
\* noted as such.
Settled(x) ==
  /\ x.cur \in Writable
  /\ x.cur \in leaving => x.late
  /\ \A i \in Streams : x.out[i].at \in {"none", x.cur}

\* switch_storage ends on the new storage or falls back to the old one.
LEMMA SwitchStorage ==
  ASSUME NEW x, Sane(x), NEW old \in Storages, NEW new \in Storages,
         NEW y \in switch_storage(x, old, new)
  PROVE  /\ Sane(y) /\ SameEntries(x, y) /\ SameClock(x, y)
         /\ \/ y.cur = new /\ Settled(y)
            \/ /\ new # "USERDATA"
               /\ y.cur = old /\ y.stray = x.stray /\ (x.late => y.late)
               /\ old \in Writable => Settled(y)
<1> DEFINE c == aplogd_close_output(x)
           b == [c EXCEPT !.max = new]
<1>1. Sane(c) /\ SameEntries(x, c) /\ SameClock(x, c) /\ SameView(x, c)
  BY CloseOutput
<1> HIDE DEF c
<1>2. Sane(b) /\ SameEntries(x, b) /\ SameClock(x, b) /\ SameView(x, b)
  BY <1>1, Zenon DEF Sane, Daemon, SameEntries, SameClock, SameView
<1>3. PICK z \in aplogd_output_setup(b, new) :
        y \in IF z.ret < 0
              THEN {[w EXCEPT !.cur = old, !.ret = 0] : w \in aplogd_output_setup(z, old)}
              ELSE {[z EXCEPT !.cur = new, !.stray = FALSE]}
  BY Zenon DEF switch_storage, Then, b, c
<1> HIDE DEF b
<1>4. /\ Sane(z) /\ SameEntries(b, z) /\ SameClock(b, z) /\ z.cur = b.cur /\ z.stray = b.stray
      /\ \/ new \notin Writable /\ z.ret = -1 /\ z.out = b.out /\ z.late = b.late
         \/ /\ new \in Writable
            /\ \A i \in Streams : z.out[i].at \in {"none", new}
            /\ new \in leaving => z.late
            /\ b.late => z.late
      /\ new = "USERDATA" => z.ret = 0
  BY <1>2, OutputSetup
<1>5. CASE ~(z.ret < 0)
  <2>1. y = [z EXCEPT !.cur = new, !.stray = FALSE]
    BY <1>3, <1>5
  <2>2. Sane(y)
    BY <1>4, <2>1, ZenonT(30) DEF Sane, Daemon
  <2>3. SameEntries(x, y) /\ SameClock(x, y)
    BY <1>2, <1>4, <2>1 DEF Sane, Daemon, SameEntries, SameClock
  <2>4. y.cur = new /\ y.out = z.out /\ y.late = z.late
    BY <1>4, <2>1 DEF Sane, Daemon
  <2>5. z.ret # -1
    BY <1>5
  <2>6. Settled(y)
    BY <1>4, <2>4, <2>5 DEF Settled
  <2> QED
    BY <2>2, <2>3, <2>4, <2>6
<1>6. CASE z.ret < 0
  <2>1. PICK w \in aplogd_output_setup(z, old) : y = [w EXCEPT !.cur = old, !.ret = 0]
    BY <1>3, <1>6, Zenon
  <2>2. /\ Sane(w) /\ SameEntries(z, w) /\ SameClock(z, w) /\ w.cur = z.cur /\ w.stray = z.stray
        /\ \/ old \notin Writable /\ w.ret = -1 /\ w.out = z.out /\ w.late = z.late
           \/ /\ old \in Writable
              /\ \A i \in Streams : w.out[i].at \in {"none", old}
              /\ old \in leaving => w.late
              /\ z.late => w.late
    BY <1>4, OutputSetup
  <2>3. Sane(y)
    BY <2>1, <2>2, Zenon DEF Sane, Daemon
  <2>4. SameEntries(x, y) /\ SameClock(x, y)
    BY <1>2, <1>4, <2>1, <2>2 DEF Sane, Daemon, SameEntries, SameClock
  <2>5. y.cur = old /\ y.out = w.out /\ y.late = w.late /\ y.stray = w.stray
    BY <2>1, <2>2 DEF Sane, Daemon
  <2>6. new # "USERDATA"
    BY <1>4, <1>6
  <2>7. y.stray = x.stray /\ (x.late => y.late)
    <3>1. y.stray = x.stray
      BY <1>2, <1>4, <2>2, <2>5 DEF SameView
    <3>2. (x.late => b.late) /\ (b.late => z.late) /\ (z.late => w.late) /\ (w.late => y.late)
      BY <1>2, <1>4, <2>2, <2>5 DEF SameView
    <3> QED
      BY <3>1, <3>2
  <2>8. old \in Writable => Settled(y)
    BY <2>2, <2>5 DEF Settled
  <2> QED
    BY <2>3, <2>4, <2>5, <2>6, <2>7, <2>8
<1> QED
  BY <1>5, <1>6

-----------------------------------------------------------------------------
(* The log files *)

\* Unless a file was damaged, every entry logged so far is in one place.
Booked(x, L) == ~x.harm => \A i \in Streams : Once(x, i, L[i])

\* What does not touch the entries keeps the books.
LEMMA BookedSame ==
  ASSUME NEW x, NEW y, NEW L, Booked(x, L), SameEntries(x, y)
  PROVE  Booked(y, L)
BY DEF Booked, Once, Held, SameEntries

\* The clock, the current storage, the buffers and where the outputs are stay.
Stays(x, y) ==
  /\ SameClock(x, y) /\ SameView(x, y) /\ y.buf = x.buf
  /\ \A i \in Streams : y.out[i].at = x.out[i].at

\* The files of storage s went to the archive.
FilesArchived(x, y, s) ==
  /\ y.saved = x.saved /\ y.max = x.max /\ y.harm = x.harm /\ y.lost = x.lost
  /\ y.archive = [i \in Streams |-> x.archive[i] \cup Range(x.file[s][i])]
  /\ y.file = [x.file EXCEPT ![s] = [i \in Streams |-> <<>>]]

\* Compressing a storage's files moves their entries to the archive.
LEMMA ArchivedFiles ==
  ASSUME NEW x, Sane(x), NEW s \in Storages, NEW y, y = Archived(x, s)
  PROVE  Sane(y) /\ Stays(x, y) /\ FilesArchived(x, y, s)
<1> DEFINE e == <<>>
           A == [i \in Streams |-> x.archive[i] \cup Range(x.file[s][i])]
           F == [x.file EXCEPT ![s] = [i \in Streams |-> e]]
           T == [x.there EXCEPT ![s] = {}]
           O == [i \in Streams |-> [at |-> x.out[i].at, live |-> x.out[i].live /\ x.out[i].at # s]]
<1>1. x \in Daemon /\ e \in Seq(Nat)
  BY DEF Sane
<1>2. y = [x EXCEPT !.archive = A, !.file = F, !.there = T, !.out = O]
  BY <1>1 DEF Archived, Daemon
<1> HIDE DEF e
<1>3. A \in [Streams -> SUBSET Nat]
  <2>1. \A i \in Streams : Range(x.file[s][i]) \subseteq Nat
    BY <1>1 DEF Daemon, Range
  <2> QED
    BY <1>1, <2>1 DEF Daemon
<1>4. F \in [Storages -> [Streams -> Seq(Nat)]] /\ T \in [Storages -> SUBSET Streams]
  BY <1>1 DEF Daemon
<1>5. \A i \in Streams : O[i].at = x.out[i].at /\ (O[i].at = "none" => ~O[i].live)
  BY <1>1, Zenon DEF Sane, Daemon
<1>o. O \in [Streams -> [at : Storages \cup {"none"}, live : BOOLEAN]]
  BY <1>1, Zenon DEF Daemon
<1> HIDE DEF A, F, T, O
<1>6. y \in Daemon
  <2>1. PICK z : z = [x EXCEPT !.archive = A, !.file = F]
    OBVIOUS
  <2>2. z \in Daemon
    BY <1>1, <1>3, <1>4, <2>1, ZenonT(30) DEF Daemon
  <2>3. y = [z EXCEPT !.there = T, !.out = O]
    BY <1>1, <1>2, <2>1 DEF Daemon
  <2> QED
    BY <1>4, <1>o, <2>2, <2>3, ZenonT(30) DEF Daemon
<1>7. y.out = O /\ y.archive = A /\ y.file = F /\ y.buf = x.buf /\ y.lost = x.lost
  BY <1>1, <1>2 DEF Daemon
<1>8. y.saved = x.saved /\ y.max = x.max /\ y.harm = x.harm /\ SameClock(x, y) /\ SameView(x, y)
  BY <1>1, <1>2 DEF Daemon, SameClock, SameView
<1> QED
  BY <1>5, <1>6, <1>7, <1>8 DEF Sane, Stays, FilesArchived, A, F, e

\* Compressing keeps the books.
LEMMA ArchivedBooked ==
  ASSUME NEW x, Sane(x), NEW s \in Storages, NEW L, Booked(x, L)
  PROVE  Booked(Archived(x, s), L)
<1> DEFINE y == Archived(x, s)
<1>1. /\ y.buf = x.buf /\ y.harm = x.harm /\ y.lost = x.lost
      /\ y.archive = [i \in Streams |-> x.archive[i] \cup Range(x.file[s][i])]
      /\ y.file = [x.file EXCEPT ![s] = [i \in Streams |-> <<>>]]
  <2>1. Stays(x, y) /\ FilesArchived(x, y, s)
    BY ArchivedFiles
  <2> QED
    BY <2>1, Zenon DEF Stays, FilesArchived
<1> HIDE DEF y
<1> SUFFICES ASSUME ~y.harm, NEW i \in Streams PROVE Once(y, i, L[i])
  BY DEF Booked, y
<1>2. Parted(x, i, L[i]) /\ Single(x, i)
  BY <1>1, OnceParted DEF Booked
<1>3. y.archive[i] = x.archive[i] \cup Range(x.file[s][i])
  BY <1>1
<1>4. y.file[s][i] = <<>> /\ \A t \in Storages \ {s} : y.file[t][i] = x.file[t][i]
  BY <1>1 DEF Sane, Daemon
<1>5. /\ Held(y, i, s) = {} /\ Held(y, i, "archive") = Held(x, i, "archive") \cup Held(x, i, s)
      /\ \A p \in Places \ {s, "archive"} : Held(y, i, p) = Held(x, i, p)
  <2> HIDE DEF y
  <2>1. Held(y, i, s) = {}
    <3>1. Range(y.file[s][i]) = {}
      BY <1>4, EmptySequence
    <3> QED
      BY <3>1, HeldFile
  <2>2. Held(y, i, "archive") = Held(x, i, "archive") \cup Held(x, i, s)
    BY <1>3, HeldAt, HeldFile
  <2>3. ASSUME NEW p \in Places \ {s, "archive"} PROVE Held(y, i, p) = Held(x, i, p)
    <3>1. CASE p \in Storages
      <4>1. y.file[p][i] = x.file[p][i]
        BY <1>4, <3>1
      <4>2. Held(y, i, p) = Range(y.file[p][i]) /\ Held(x, i, p) = Range(x.file[p][i])
        BY <3>1, HeldFile
      <4> QED
        BY <4>1, <4>2
    <3>2. CASE p \in {"buffer", "lost"}
      BY <1>1, <3>2, HeldAt
    <3> QED
      BY <3>1, <3>2 DEF Places
  <2> QED
    BY <2>1, <2>2, <2>3
<1>6. Parted(y, i, L[i])
  <2>1. s \in Places /\ "archive" \in Places /\ s # "archive"
    BY DEF Places, Storages, Cards
  <2> QED
    BY <1>2, <1>5, <2>1, PartedMove
<1>7. Single(y, i)
  BY <1>1, <1>2, <1>4, EmptySequence, Zenon DEF Single
<1> QED
  BY <1>6, <1>7, OnceParted

\* Saving the logs of a storage compresses them or does nothing.
LEMMA LogSave ==
  ASSUME NEW x, Sane(x), NEW s \in Storages, NEW L, Booked(x, L), NEW y, y = aplogd_log_save(x, s)
  PROVE  Sane(y) /\ Stays(x, y) /\ Booked(y, L)
<1>1. CASE y = x
  BY <1>1 DEF Stays, SameClock, SameView
<1>2. CASE y # x
  <2> DEFINE a == Archived(x, s)
             S == a.saved \cup {s}
  <2>1. y = [a EXCEPT !.saved = S]
    BY <1>2 DEF aplogd_log_save
  <2>2. Sane(a) /\ Stays(x, a) /\ Booked(a, L)
    <3>1. Sane(a) /\ Stays(x, a)
      BY ArchivedFiles
    <3>2. Booked(a, L)
      BY ArchivedBooked
    <3> QED
      BY <3>1, <3>2
  <2> HIDE DEF a
  <2>3. S \in SUBSET Storages
    BY <2>2, Zenon DEF Sane, Daemon
  <2> HIDE DEF S
  <2>4. Sane(y) /\ SameEntries(a, y)
    <3>1. a \in Daemon
      BY <2>2, Zenon DEF Sane
    <3>2. y \in Daemon
      BY <2>1, <2>3, <3>1, ZenonT(30) DEF Daemon
    <3>3. y.out = a.out /\ SameEntries(a, y)
      BY <2>1, <3>1 DEF Daemon, SameEntries
    <3> QED
      BY <2>2, <3>2, <3>3, Zenon DEF Sane
  <2>5. Stays(x, y)
    BY <2>1, <2>2 DEF Sane, Daemon, Stays, SameClock, SameView
  <2> QED
    BY <2>2, <2>4, <2>5, BookedSame
<1> QED
  BY <1>1, <1>2

\* A place holds the same when the state it is read from is the same.
LEMMA HeldSame ==
  ASSUME NEW x, NEW y, NEW i, NEW p \in Places,
         p = "buffer" => y.buf[i] = x.buf[i],
         p = "archive" => y.archive[i] = x.archive[i],
         p = "lost" => y.lost[i] = x.lost[i],
         p \in Storages => y.file[p][i] = x.file[p][i]
  PROVE  Held(y, i, p) = Held(x, i, p)
<1>1. CASE p \in Storages
  BY <1>1, HeldFile
<1>2. CASE p \in {"buffer", "archive", "lost"}
  BY <1>2, HeldAt
<1> QED
  BY <1>1, <1>2 DEF Places

\* The places of input i are as before.
SameOf(x, y, i) ==
  /\ y.buf[i] = x.buf[i] /\ y.archive[i] = x.archive[i] /\ y.lost[i] = x.lost[i]
  /\ \A s \in Storages : y.file[s][i] = x.file[s][i]

\* Then so are its entries.
LEMMA OnceSame ==
  ASSUME NEW x, NEW y, NEW i, NEW n, Once(x, i, n), SameOf(x, y, i)
  PROVE  Once(y, i, n)
<1>1. \A p \in Places : Held(y, i, p) = Held(x, i, p)
  BY HeldSame DEF SameOf
<1>2. Parted(y, i, n)
  BY <1>1, OnceParted, PartedSame
<1>3. Single(y, i)
  BY OnceParted, Zenon DEF Single, SameOf
<1> QED
  BY <1>2, <1>3, OnceParted

\* The file of input i went from one storage to the end of the one on another.
FileMoved(x, y, i, old, new) ==
  /\ y.buf[i] = x.buf[i] /\ y.archive[i] = x.archive[i] /\ y.lost[i] = x.lost[i]
  /\ y.file[old][i] = <<>> /\ y.file[new][i] = x.file[new][i] \o x.file[old][i]
  /\ \A s \in Storages \ {old, new} : y.file[s][i] = x.file[s][i]

\* That keeps the entries of the input.
LEMMA MovedOnce ==
  ASSUME NEW x, Sane(x), NEW y, NEW i \in Streams, NEW n, Once(x, i, n),
         NEW old \in Storages, NEW new \in Storages, old # new, FileMoved(x, y, i, old, new)
  PROVE  Once(y, i, n)
<1>a. y.file[old][i] = <<>>
  BY Zenon DEF FileMoved
<1>b. y.file[new][i] = x.file[new][i] \o x.file[old][i]
  BY Zenon DEF FileMoved
<1>c. /\ y.buf[i] = x.buf[i] /\ y.archive[i] = x.archive[i] /\ y.lost[i] = x.lost[i]
      /\ \A s \in Storages \ {old, new} : y.file[s][i] = x.file[s][i]
  BY Zenon DEF FileMoved
<1>1. Parted(x, i, n) /\ Single(x, i)
  BY OnceParted, Zenon
<1>2. x.file[old][i] \in Seq(Nat) /\ x.file[new][i] \in Seq(Nat)
  BY DEF Sane, Daemon
<1>3. Held(y, i, old) = {}
  <2>1. Range(y.file[old][i]) = {}
    BY <1>a, EmptySequence, Zenon
  <2> QED
    BY <2>1, HeldFile, Zenon
<1>4. old \in Places /\ new \in Places
  BY Zenon DEF Places
<1>5. Held(y, i, new) = Held(x, i, new) \cup Held(x, i, old)
  <2>1. Range(y.file[new][i]) = Range(x.file[new][i]) \cup Range(x.file[old][i])
    <3>1. PICK q \in Seq(Nat), r \in Seq(Nat) : q = x.file[new][i] /\ r = x.file[old][i]
      BY <1>2, Zenon
    <3>2. Range(q \o r) = Range(q) \cup Range(r)
      BY ConcatRange, Zenon
    <3> QED
      BY <1>b, <3>1, <3>2, Zenon
  <2> QED
    BY <2>1, HeldFile, Zenon
<1>6. ASSUME NEW p \in Places \ {old, new} PROVE Held(y, i, p) = Held(x, i, p)
  BY <1>c, HeldSame
<1>7. Parted(y, i, n)
  BY <1>1, <1>3, <1>4, <1>5, <1>6, PartedMove, Zenon
<1>8. Range(x.file[new][i]) \cap Range(x.file[old][i]) = {}
  <2>1. Held(x, i, new) \cap Held(x, i, old) = {}
    BY <1>1, <1>4, Zenon DEF Parted
  <2> QED
    BY <2>1, HeldFile, Zenon
<1>9. IsInjective(y.file[old][i]) /\ IsInjective(y.file[new][i])
  <2>1. IsInjective(x.file[old][i]) /\ IsInjective(x.file[new][i])
    BY <1>1, Zenon DEF Single
  <2>2. IsInjective(y.file[old][i])
    BY <1>a, EmptySequence, Zenon
  <2>3. IsInjective(x.file[new][i] \o x.file[old][i])
    BY <1>2, <1>8, <2>1, ConcatEntries, Zenon
  <2> QED
    BY <1>b, <2>2, <2>3, Zenon
<1>10. Single(y, i)
  BY <1>1, <1>9, <1>c, Zenon DEF Single
<1> QED
  BY <1>7, <1>10, OnceParted, Zenon

\* The state after aplogd_move_logs moved the files of M.
LogsMoved(x, y, old, new, M, ok) ==
  /\ Sane(y) /\ Stays(x, y) /\ y.archive = x.archive /\ y.lost = x.lost
  /\ y.harm = (x.harm \/ ~ok)
  /\ \A s \in Storages, i \in Streams :
       y.file[s][i] = IF i \notin M THEN x.file[s][i]
                      ELSE IF s = old THEN <<>>
                      ELSE IF s = new /\ ok THEN x.file[s][i] \o x.file[old][i]
                      ELSE x.file[s][i]

\* What aplogd_move_logs may lead to.
LEMMA MoveLogsCases ==
  ASSUME NEW x, Sane(x), NEW old \in Storages, NEW new \in Storages,
         NEW y \in aplogd_move_logs(x, old, new)
  PROVE  \E M \in SUBSET Streams, ok \in BOOLEAN :
           /\ LogsMoved(x, y, old, new, M, ok)
           /\ ok => old # new \/ \A i \in M : x.file[old][i] = <<>>
<1> DEFINE M == IF {old, new} \subseteq Writable /\ new \in x.dirs THEN x.there[old] ELSE {}
           e == <<>>
           F(ok) == [s \in Storages |-> [i \in Streams |->
                        IF i \notin M THEN x.file[s][i]
                        ELSE IF s = old THEN e
                        ELSE IF s = new /\ ok THEN x.file[s][i] \o x.file[old][i]
                        ELSE x.file[s][i]]]
           T == [s \in Storages |-> IF s = old THEN x.there[s] \ M
                                    ELSE IF s = new THEN x.there[s] \cup M ELSE x.there[s]]
           O == [i \in Streams |->
                   [at |-> x.out[i].at, live |-> x.out[i].live /\ ~(x.out[i].at = old /\ i \in M)]]
           H(ok) == x.harm \/ ~ok
           G(ok) == IF ok \/ old = new THEN x.faults ELSE x.faults + 1
           W(ok) == [x EXCEPT !.file = F(ok), !.there = T, !.out = O, !.harm = H(ok),
                              !.faults = G(ok)]
           data == \E i \in M : x.file[old][i] # <<>>
<1>0. y \in IF ~data THEN {W(TRUE)} ELSE IF old = new THEN {W(FALSE)}
            ELSE {W(ok) : ok \in IF MoreFaults(x) THEN BOOLEAN ELSE {TRUE}}
  BY Zenon DEF aplogd_move_logs
<1>1. PICK ok \in BOOLEAN :
        y = W(ok) /\ (ok => old # new \/ \A i \in M : x.file[old][i] = <<>>)
  <2> HIDE DEF W
  <2>1. CASE ~data
    BY <1>0, <2>1, Zenon
  <2>2. CASE data /\ old = new
    <3>1. y = W(FALSE)
      BY <1>0, <2>2, Zenon
    <3> QED
      BY <3>1, Zenon
  <2>3. CASE data /\ old # new
    <3>1. \E ok \in BOOLEAN : y = W(ok)
      BY <1>0, <2>3, Zenon
    <3> QED
      BY <2>3, <3>1
  <2> QED
    BY <2>1, <2>2, <2>3, Zenon
<1>2. x \in Daemon /\ M \in SUBSET Streams /\ e \in Seq(Nat)
  BY DEF Sane, Daemon
<1> HIDE DEF M, e
<1>3. F(ok) \in [Storages -> [Streams -> Seq(Nat)]]
  <2>1. ASSUME NEW s \in Storages, NEW i \in Streams
        PROVE  /\ x.file[s][i] \in Seq(Nat) /\ x.file[old][i] \in Seq(Nat)
               /\ x.file[s][i] \o x.file[old][i] \in Seq(Nat)
    <3>1. x.file[s][i] \in Seq(Nat) /\ x.file[old][i] \in Seq(Nat)
      BY <1>2 DEF Daemon
    <3> QED
      BY <3>1
  <2> QED
    BY <1>2, <2>1
<1>4. T \in [Storages -> SUBSET Streams]
  BY <1>2 DEF Daemon
<1>5. /\ O \in [Streams -> [at : Storages \cup {"none"}, live : BOOLEAN]]
      /\ \A i \in Streams : O[i].at = x.out[i].at /\ (O[i].at = "none" => ~O[i].live)
  BY <1>2, Zenon DEF Sane, Daemon
<1>6. H(ok) \in BOOLEAN /\ G(ok) \in Nat
  BY <1>2 DEF Daemon
<1>7. \A s \in Storages, i \in Streams :
        F(ok)[s][i] = IF i \notin M THEN x.file[s][i]
                      ELSE IF s = old THEN e
                      ELSE IF s = new /\ ok THEN x.file[s][i] \o x.file[old][i]
                      ELSE x.file[s][i]
  OBVIOUS
<1> HIDE DEF F, T, O, H, G
<1>8. Sane(y) /\ y.file = F(ok) /\ y.out = O
  BY <1>1, <1>2, <1>3, <1>4, <1>5, <1>6, Zenon DEF Sane, Daemon
<1>9. /\ y.archive = x.archive /\ y.lost = x.lost /\ y.buf = x.buf /\ y.harm = H(ok)
      /\ SameClock(x, y) /\ SameView(x, y)
  BY <1>1, <1>2 DEF Daemon, SameClock, SameView
<1>10. LogsMoved(x, y, old, new, M, ok)
  BY <1>5, <1>7, <1>8, <1>9 DEF LogsMoved, Stays, H, e
<1> QED
  BY <1>1, <1>2, <1>10

\* Moving the logs keeps the books, unless it damages a file.
LEMMA MoveLogs ==
  ASSUME NEW x, Sane(x), NEW old \in Storages, NEW new \in Storages, NEW L, Booked(x, L),
         NEW y \in aplogd_move_logs(x, old, new)
  PROVE  Sane(y) /\ Stays(x, y) /\ Booked(y, L)
<1>1. PICK M \in SUBSET Streams, ok \in BOOLEAN :
        /\ LogsMoved(x, y, old, new, M, ok)
        /\ ok => old # new \/ \A i \in M : x.file[old][i] = <<>>
  BY MoveLogsCases
<1>2. ASSUME ~y.harm, NEW i \in Streams PROVE Once(y, i, L[i])
  <2>1. ok /\ ~x.harm
    BY <1>1, <1>2, Zenon DEF LogsMoved
  <2>2. Once(x, i, L[i])
    BY <2>1 DEF Booked
  <2>3. y.buf[i] = x.buf[i] /\ y.archive[i] = x.archive[i] /\ y.lost[i] = x.lost[i]
    BY <1>1, Zenon DEF LogsMoved, Stays
  <2>4. CASE i \in M /\ old # new
    <3>1. y.file[old][i] = <<>>
      BY <1>1, <2>4, Zenon DEF LogsMoved
    <3>2. y.file[new][i] = x.file[new][i] \o x.file[old][i]
      BY <1>1, <2>1, <2>4, Zenon DEF LogsMoved
    <3>3. \A s \in Storages \ {old, new} : y.file[s][i] = x.file[s][i]
      BY <1>1 DEF LogsMoved
    <3>4. FileMoved(x, y, i, old, new)
      BY <2>3, <3>1, <3>2, <3>3, Zenon DEF FileMoved
    <3> QED
      BY <2>2, <2>4, <3>4, MovedOnce
  <2>5. CASE ~(i \in M /\ old # new)
    <3>1. \A s \in Storages : y.file[s][i] = x.file[s][i]
      BY <1>1, <2>1, <2>5, Zenon DEF LogsMoved
    <3> QED
      BY <2>2, <2>3, <3>1, OnceSame, Zenon DEF SameOf
  <2> QED
    BY <2>4, <2>5
<1> QED
  BY <1>1, <1>2, Zenon DEF LogsMoved, Booked

-----------------------------------------------------------------------------
(* Writing the RAM buffers *)

\* The outputs are on the current storage or closed.
OutsOn(x) == \A i \in Streams : x.out[i].at \in {"none", x.cur}

\* Nothing of input i waits, or its last write failed.
Handled(x, i) == x.buf[i] = <<>> \/ i \in x.kept

\* What writing and rotating files never change.
SameRun(x, y) ==
  /\ y.cur = x.cur /\ y.stray = x.stray /\ (x.late => y.late)
  /\ y.unwritten = x.unwritten /\ y.timer = x.timer
  /\ OutsOn(x) => OutsOn(y)

\* A rotation compresses the files of the current storage and opens new ones.
LEMMA RotatedFlows ==
  ASSUME NEW x, Sane(x), NEW L, Booked(x, L), NEW y \in Rotated(x)
  PROVE  Sane(y) /\ Booked(y, L) /\ SameRun(x, y) /\ y.buf = x.buf /\ y.kept = x.kept
<1>1. CASE y = x
  BY <1>1 DEF SameRun
<1>2. CASE y # x
  <2> DEFINE c == aplogd_close_output(x)
             a == IF x.cur \in Writable THEN Archived(c, x.cur) ELSE c
  <2>1. PICK z \in aplogd_output_setup(a, x.cur) : y = [z EXCEPT !.total = 0, !.ret = 0]
    BY <1>2, Zenon DEF Rotated
  <2>2. /\ Sane(c) /\ SameEntries(x, c) /\ SameClock(x, c) /\ SameView(x, c)
        /\ \A i \in Streams : c.out[i] = Closed
    BY CloseOutput
  <2>3. Booked(c, L)
    BY <2>2, BookedSame
  <2>4. x.cur \in Storages
    BY DEF Sane, Daemon
  <2> HIDE DEF c
  <2>5. Sane(a) /\ Booked(a, L) /\ Stays(c, a)
    <3>1. CASE x.cur \in Writable
      BY <2>2, <2>3, <2>4, <3>1, ArchivedFiles, ArchivedBooked
    <3>2. CASE x.cur \notin Writable
      BY <2>2, <2>3, <3>2 DEF Stays, SameClock, SameView
    <3> QED
      BY <3>1, <3>2
  <2> HIDE DEF a
  <2>6. /\ Sane(z) /\ SameEntries(a, z) /\ SameClock(a, z) /\ z.cur = a.cur /\ z.stray = a.stray
        /\ \/ x.cur \notin Writable /\ z.ret = -1 /\ z.out = a.out /\ z.late = a.late
           \/ /\ x.cur \in Writable
              /\ \A i \in Streams : z.out[i].at \in {"none", x.cur}
              /\ x.cur \in leaving => z.late
              /\ a.late => z.late
    BY <2>1, <2>4, <2>5, OutputSetup
  <2>7. Sane(y) /\ SameEntries(z, y)
    BY <2>1, <2>6, Zenon DEF Sane, Daemon, SameEntries
  <2>8. Booked(y, L)
    BY <2>5, <2>6, <2>7, BookedSame, Zenon
  <2>9. SameClock(z, y) /\ SameView(z, y) /\ y.out = z.out
    BY <2>1, <2>6 DEF Sane, Daemon, SameClock, SameView
  <2>10. y.buf = x.buf /\ y.kept = x.kept /\ y.unwritten = x.unwritten /\ y.timer = x.timer
    BY <2>2, <2>5, <2>6, <2>7, <2>9, Zenon DEF SameEntries, SameClock, Stays
  <2>11. y.cur = x.cur /\ y.stray = x.stray /\ (x.late => y.late)
    BY <2>2, <2>5, <2>6, <2>9, Zenon DEF SameView, Stays
  <2>12. OutsOn(y)
    <3>1. \A i \in Streams : a.out[i].at = "none"
      BY <2>2, <2>5 DEF Stays, Closed
    <3> QED
      BY <2>6, <2>9, <2>11, <3>1, Zenon DEF OutsOn
  <2> QED
    BY <2>7, <2>8, <2>10, <2>11, <2>12 DEF SameRun
<1> QED
  BY <1>1, <1>2

\* The names of Wrote's local definitions.
Data(x, i, w) == SubSeq(x.buf[i], 1, w.first) \o SubSeq(x.buf[i], 1, w.second)
Full(w) == w.err = "none" /\ w.second = 0
FileAfter(x, i, w) ==
  IF x.out[i].live THEN [x.file EXCEPT ![x.out[i].at][i] = @ \o Data(x, i, w)] ELSE x.file
WriteHarms(x, i, w) == Data(x, i, w) # <<>> /\ (~Full(w) \/ ~x.out[i].live)
Written(x, i, w) ==
  [x EXCEPT !.file = FileAfter(x, i, w),
            !.total = @ + Len(Data(x, i, w)),
            !.harm = @ \/ WriteHarms(x, i, w),
            !.faults = IF Full(w) \/ x.out[i].at \notin Writable THEN @ ELSE @ + 1]

\* Wrote in terms of these.
LEMMA WroteCases ==
  ASSUME NEW x, NEW i, NEW w
  PROVE  Wrote(x, i, w) =
           CASE w.err = "none" ->
                  Rotated(Emptied(Written(x, i, w), i))
             [] w.err = "ENOSPC" ->
                  {aplogd_close_output([Written(x, i, w) EXCEPT !.kept = @ \cup {i}])}
             [] w.err = "EIO" -> {[Written(x, i, w) EXCEPT !.kept = @ \cup {i}]}
BY DEF Wrote, Written, WriteHarms, FileAfter, Data, Full

\* How the write() calls may end.
LEMMA WritesCases ==
  ASSUME NEW x, Sane(x), NEW i \in Streams, NEW w \in Writes(x, i)
  PROVE  \/ w.err = "none" /\ w.first = Len(x.buf[i]) /\ w.second = 0
         \/ w.err = "none" /\ w.first \in 1..Len(x.buf[i]) - 1 /\ w.second = Len(x.buf[i]) - w.first
         \/ w.err \in {"ENOSPC", "EIO"} /\ w.first \in 0..Len(x.buf[i]) /\ w.second = 0
<1>1. Len(x.buf[i]) \in Nat
  BY DEF Sane, Daemon
<1> QED
  BY <1>1 DEF Writes

\* A piece from the start of a sequence.
LEMMA Prefixes ==
  ASSUME NEW S, NEW q \in Seq(S), NEW k \in 0..Len(q)
  PROVE  /\ SubSeq(q, 1, k) \in Seq(S) /\ Len(SubSeq(q, 1, k)) = k
         /\ k = 0 => SubSeq(q, 1, k) = <<>>
         /\ k = Len(q) => SubSeq(q, 1, k) = q
OBVIOUS

\* Concatenation: lengths and empty sequences.
LEMMA Concats ==
  ASSUME NEW S, NEW q \in Seq(S), NEW t \in Seq(S)
  PROVE  /\ q \o t \in Seq(S) /\ Len(q \o t) = Len(q) + Len(t)
         /\ t = <<>> => q \o t = q
         /\ Len(q) > 0 => q \o t # <<>>
OBVIOUS

\* What reaches the file.
LEMMA DataCases ==
  ASSUME NEW x, Sane(x), NEW i \in Streams, NEW w \in Writes(x, i)
  PROVE  /\ Data(x, i, w) \in Seq(Nat)
         /\ w.err = "none" /\ w.second = 0 => Data(x, i, w) = x.buf[i]
         /\ w.err = "none" /\ w.second # 0 => Data(x, i, w) # <<>>
<1> DEFINE q == x.buf[i]
           f == w.first
           g == w.second
           a == SubSeq(q, 1, f)
           b == SubSeq(q, 1, g)
<1>1. q \in Seq(Nat) /\ Data(x, i, w) = a \o b
  BY DEF Sane, Daemon, Data
<1>2. \/ w.err = "none" /\ f = Len(q) /\ g = 0
      \/ w.err = "none" /\ f \in 1..Len(q) - 1 /\ g = Len(q) - f
      \/ w.err \in {"ENOSPC", "EIO"} /\ f \in 0..Len(q) /\ g = 0
  BY WritesCases
<1> HIDE DEF q, f, g
<1>3. Len(q) \in Nat
  BY <1>1
<1>4. f \in 0..Len(q) /\ g \in 0..Len(q)
  BY <1>2, <1>3
<1>5. w.err = "none" => (g = 0 => f = Len(q)) /\ (g # 0 => f > 0)
  BY <1>2, <1>3
<1>6. /\ a \in Seq(Nat) /\ Len(a) = f /\ (f = Len(q) => a = q)
      /\ b \in Seq(Nat) /\ (g = 0 => b = <<>>)
  BY <1>1, <1>4, Prefixes
<1> HIDE DEF a, b
<1>7. a \o b \in Seq(Nat) /\ (b = <<>> => a \o b = a) /\ (Len(a) > 0 => a \o b # <<>>)
  BY <1>6, Concats
<1>8. CASE w.err = "none" /\ g = 0
  BY <1>1, <1>5, <1>6, <1>7, <1>8 DEF q, g
<1>9. CASE w.err = "none" /\ g # 0
  BY <1>1, <1>5, <1>6, <1>7, <1>9, Zenon DEF g
<1> QED
  BY <1>1, <1>7, <1>8, <1>9, Zenon DEF g

\* The state after the write() calls, before the buffer is given up or kept.
LEMMA WrittenState ==
  ASSUME NEW x, Sane(x), NEW i \in Streams, NEW w \in Writes(x, i), NEW y, y = Written(x, i, w)
  PROVE  /\ Sane(y) /\ Stays(x, y) /\ y.archive = x.archive /\ y.lost = x.lost
         /\ y.file = FileAfter(x, i, w)
         /\ y.harm = (x.harm \/ WriteHarms(x, i, w))
<1> DEFINE D == Data(x, i, w)
           F == FileAfter(x, i, w)
           T == x.total + Len(D)
           H == x.harm \/ WriteHarms(x, i, w)
           G == IF Full(w) \/ x.out[i].at \notin Writable THEN x.faults ELSE x.faults + 1
<1>0. x \in Daemon
  BY DEF Sane
<1>1. x \in Daemon /\ D \in Seq(Nat)
  BY <1>0, DataCases, Zenon
<1>2. y = [x EXCEPT !.file = F, !.total = T, !.harm = H, !.faults = G]
  BY DEF Written
<1> HIDE DEF D
<1>3. F \in [Storages -> [Streams -> Seq(Nat)]]
  <2>1. CASE x.out[i].live
    <3>1. x.out[i].at \in Storages
      BY <1>1, <2>1, Zenon DEF Sane, Daemon
    <3>2. PICK s \in Storages : s = x.out[i].at
      BY <3>1
    <3>3. x.file[s][i] \o D \in Seq(Nat)
      BY <1>1 DEF Daemon
    <3>4. F = [x.file EXCEPT ![s] = [x.file[s] EXCEPT ![i] = x.file[s][i] \o D]]
      BY <1>1, <2>1, <3>2 DEF FileAfter, Daemon, D
    <3> QED
      BY <1>1, <3>3, <3>4 DEF Daemon
  <2>2. CASE ~x.out[i].live
    BY <1>1, <2>2 DEF FileAfter, Daemon
  <2> QED
    BY <2>1, <2>2
<1>4. T \in Nat /\ H \in BOOLEAN /\ G \in Nat
  BY <1>1 DEF Daemon
<1> HIDE DEF F, T, H, G
<1>5. Sane(y) /\ y.file = F /\ y.harm = H
  <2>1. y \in Daemon
    <3> DEFINE z == [x EXCEPT !.file = F, !.total = T, !.faults = G]
    <3>1. z \in Daemon
      BY <1>0, <1>3, <1>4, ZenonT(30) DEF Daemon
    <3>2. y = [z EXCEPT !.harm = H]
      BY <1>0, <1>2, ZenonT(30) DEF Daemon
    <3> HIDE DEF z
    <3> QED
      BY <3>1, <3>2, <1>4, ZenonT(30) DEF Daemon
  <2>2. y.file = F /\ y.harm = H /\ y.out = x.out
    BY <1>0, <1>2 DEF Daemon
  <2> QED
    BY <2>1, <2>2, Zenon DEF Sane
<1>6. Stays(x, y) /\ y.archive = x.archive /\ y.lost = x.lost
  BY <1>1, <1>2 DEF Daemon, Stays, SameClock, SameView
<1> QED
  BY <1>5, <1>6, Zenon DEF F, H

\* A write that failed before its first byte left the files alone, and one that
\* succeeded added the whole buffer to one file.
LEMMA FileAfterCases ==
  ASSUME NEW x, Sane(x), NEW i \in Streams, NEW w \in Writes(x, i),
         NEW s \in Storages, NEW j \in Streams
  PROVE  /\ j # i => FileAfter(x, i, w)[s][j] = x.file[s][j]
         /\ s # x.out[i].at => FileAfter(x, i, w)[s][j] = x.file[s][j]
         /\ Data(x, i, w) = <<>> => FileAfter(x, i, w)[s][j] = x.file[s][j]
         /\ x.out[i].live /\ s = x.out[i].at /\ j = i =>
              FileAfter(x, i, w)[s][j] = x.file[s][j] \o Data(x, i, w)
<1> DEFINE D == Data(x, i, w)
           F == FileAfter(x, i, w)
<1>1. x \in Daemon /\ D \in Seq(Nat)
  BY DataCases, Zenon DEF Sane
<1>2. CASE ~x.out[i].live
  BY <1>2, Zenon DEF FileAfter
<1>3. CASE x.out[i].live
  <2>1. x.out[i].at \in Storages
    BY <1>1, <1>3, Zenon DEF Sane, Daemon
  <2>2. PICK t \in Storages : t = x.out[i].at
    BY <2>1
  <2>3. F = [x.file EXCEPT ![t][i] = @ \o D]
    BY <1>3, <2>2 DEF FileAfter
  <2> HIDE DEF D, F
  <2>4. /\ F[t][i] = x.file[t][i] \o D
        /\ j # i => F[s][j] = x.file[s][j]
        /\ s # t => F[s][j] = x.file[s][j]
    BY <1>1, <2>3, ZenonT(30) DEF Daemon
  <2>5. D = <<>> => x.file[t][i] \o D = x.file[t][i]
    <3>1. x.file[t][i] \in Seq(Nat)
      BY <1>1 DEF Daemon
    <3> QED
      BY <1>1, <3>1, Concats
  <2>6. D = <<>> => F[s][j] = x.file[s][j]
    BY <2>4, <2>5
  <2> QED
    BY <2>2, <2>4, <2>6, Zenon DEF F, D
<1> QED
  BY <1>2, <1>3, Zenon

\* The buffer of input i went to the end of its file on storage t.
BufferWritten(x, y, i, t) ==
  /\ y.buf[i] = <<>> /\ y.archive[i] = x.archive[i] /\ y.lost[i] = x.lost[i]
  /\ y.file[t][i] = x.file[t][i] \o x.buf[i]
  /\ \A s \in Storages \ {t} : y.file[s][i] = x.file[s][i]

\* That keeps the entries of the input.
LEMMA BufferWrittenOnce ==
  ASSUME NEW x, Sane(x), NEW y, NEW i \in Streams, NEW n, Once(x, i, n),
         NEW t \in Storages, BufferWritten(x, y, i, t)
  PROVE  Once(y, i, n)
<1>a. y.buf[i] = <<>>
  BY Zenon DEF BufferWritten
<1>b. y.file[t][i] = x.file[t][i] \o x.buf[i]
  BY Zenon DEF BufferWritten
<1>c. /\ y.archive[i] = x.archive[i] /\ y.lost[i] = x.lost[i]
      /\ \A s \in Storages \ {t} : y.file[s][i] = x.file[s][i]
  BY Zenon DEF BufferWritten
<1>1. Parted(x, i, n) /\ Single(x, i)
  BY OnceParted, Zenon
<1>2. x.file[t][i] \in Seq(Nat) /\ x.buf[i] \in Seq(Nat)
  BY DEF Sane, Daemon
<1>3. Range(y.buf[i]) = {} /\ IsInjective(y.buf[i])
  BY <1>a, EmptySequence, Zenon
<1>4. "buffer" \in Places /\ t \in Places /\ "buffer" # t
  BY Zenon DEF Places, Storages, Cards
<1>5. Range(y.file[t][i]) = Range(x.file[t][i]) \cup Range(x.buf[i])
  <2>1. PICK q \in Seq(Nat), r \in Seq(Nat) : q = x.file[t][i] /\ r = x.buf[i]
    BY <1>2, Zenon
  <2>2. Range(q \o r) = Range(q) \cup Range(r)
    BY ConcatRange, Zenon
  <2> QED
    BY <1>b, <2>1, <2>2, Zenon
<1>6. /\ Held(y, i, "buffer") = {}
      /\ Held(y, i, t) = Held(x, i, t) \cup Held(x, i, "buffer")
  <2>1. Held(y, i, "buffer") = Range(y.buf[i]) /\ Held(x, i, "buffer") = Range(x.buf[i])
    BY HeldAt, Zenon
  <2>2. Held(y, i, t) = Range(y.file[t][i]) /\ Held(x, i, t) = Range(x.file[t][i])
    BY HeldFile, Zenon
  <2> QED
    BY <1>3, <1>5, <2>1, <2>2, Zenon
<1>7. ASSUME NEW p \in Places \ {"buffer", t} PROVE Held(y, i, p) = Held(x, i, p)
  BY <1>c, HeldSame
<1>8. Parted(y, i, n)
  BY <1>1, <1>4, <1>6, <1>7, PartedMove, Zenon
<1>9. IsInjective(y.file[t][i])
  <2>1. Held(x, i, t) \cap Held(x, i, "buffer") = {}
    BY <1>1, <1>4, Zenon DEF Parted
  <2>2. Range(x.file[t][i]) \cap Range(x.buf[i]) = {}
    BY <2>1, HeldAt, HeldFile
  <2>3. IsInjective(x.file[t][i]) /\ IsInjective(x.buf[i])
    BY <1>1, Zenon DEF Single
  <2>4. IsInjective(x.file[t][i] \o x.buf[i])
    BY <1>2, <2>2, <2>3, ConcatEntries, Zenon
  <2> QED
    BY <1>b, <2>4, Zenon
<1>10. Single(y, i)
  BY <1>1, <1>3, <1>9, <1>c, Zenon DEF Single
<1> QED
  BY <1>8, <1>10, OnceParted, Zenon

\* What writing a buffer does to the rest: buffers only shrink, and none of the
\* others is forgotten.
Flows(x, y) ==
  /\ Sane(y) /\ SameRun(x, y)
  /\ \A j \in Streams : Len(y.buf[j]) <= Len(x.buf[j]) /\ (Handled(x, j) => Handled(y, j))

\* The state once the buffer of input i is given up.
LEMMA GivenUp ==
  ASSUME NEW x, Sane(x), NEW i \in Streams, NEW y, y = Emptied(x, i)
  PROVE  /\ Flows(x, y) /\ Handled(y, i)
         /\ y.buf[i] = <<>> /\ \A j \in Streams \ {i} : y.buf[j] = x.buf[j]
         /\ y.file = x.file /\ y.archive = x.archive /\ y.lost = x.lost /\ y.harm = x.harm
<1> DEFINE e == <<>>
           B == [x.buf EXCEPT ![i] = e]
           K == x.kept \ {i}
<1>1. x \in Daemon /\ e \in Seq(Nat) /\ Len(e) = 0
  BY DEF Sane
<1>2. y = [x EXCEPT !.buf = B, !.kept = K]
  BY <1>1 DEF Emptied, Daemon
<1> HIDE DEF e
<1>3. B \in [Streams -> Seq(Nat)] /\ B[i] = e /\ \A j \in Streams \ {i} : B[j] = x.buf[j]
  BY <1>1 DEF Daemon
<1>4. K \in SUBSET Streams /\ \A j \in Streams \ {i} : j \in x.kept => j \in K
  BY <1>1 DEF Daemon
<1> HIDE DEF B, K
<1>5. y \in Daemon /\ y.buf = B /\ y.kept = K /\ y.out = x.out
  <2>1. x \in Daemon /\ B \in [Streams -> Seq(Nat)] /\ K \in SUBSET Streams
    BY <1>1, <1>3, <1>4, Zenon
  <2>2. y \in Daemon
    BY <1>2, <2>1, ZenonT(30) DEF Daemon
  <2>3. y.buf = B /\ y.kept = K /\ y.out = x.out
    BY <1>1, <1>2 DEF Daemon
  <2> QED
    BY <2>2, <2>3, Zenon
<1>6. y.file = x.file /\ y.archive = x.archive /\ y.lost = x.lost /\ y.harm = x.harm
  BY <1>1, <1>2 DEF Daemon
<1>7. SameRun(x, y)
  <2>1. /\ y.cur = x.cur /\ y.stray = x.stray /\ y.late = x.late
        /\ y.unwritten = x.unwritten /\ y.timer = x.timer
    BY <1>1, <1>2 DEF Daemon
  <2> QED
    BY <1>5, <2>1, Zenon DEF SameRun, OutsOn
<1>8. Sane(y)
  BY <1>5 DEF Sane
<1>9. Handled(y, i)
  BY <1>3, <1>5 DEF Handled, e
<1>10. ASSUME NEW j \in Streams
       PROVE  Len(y.buf[j]) <= Len(x.buf[j]) /\ (Handled(x, j) => Handled(y, j))
  <2>1. x.buf[j] \in Seq(Nat)
    BY <1>1 DEF Daemon
  <2>2. CASE j = i
    BY <1>1, <1>3, <1>5, <1>9, <2>1, <2>2
  <2>3. CASE j # i
    BY <1>3, <1>4, <1>5, <2>1, <2>3 DEF Handled
  <2> QED
    BY <2>2, <2>3
<1> QED
  BY <1>3, <1>5, <1>6, <1>7, <1>8, <1>9, <1>10, Zenon DEF Flows, e

\* The state when the buffer of input i is kept after a failed write.
LEMMA KeptBack ==
  ASSUME NEW x, Sane(x), NEW i \in Streams, NEW y, y = [x EXCEPT !.kept = @ \cup {i}]
  PROVE  /\ Sane(y) /\ SameEntries(x, y) /\ SameView(x, y) /\ y.out = x.out
         /\ y.unwritten = x.unwritten /\ y.timer = x.timer /\ y.kept = x.kept \cup {i}
BY Zenon DEF Sane, Daemon, SameEntries, SameView

\* A write that succeeds and does no harm adds the whole buffer to its file.
LEMMA HarmlessWrite ==
  ASSUME NEW x, Sane(x), NEW i \in Streams, NEW w \in Writes(x, i), x.buf[i] # <<>>,
         w.err = "none", ~WriteHarms(x, i, w)
  PROVE  x.out[i].live /\ Data(x, i, w) = x.buf[i]
<1>1. /\ w.second = 0 => Data(x, i, w) = x.buf[i]
      /\ w.second # 0 => Data(x, i, w) # <<>>
  BY DataCases, Zenon
<1> QED
  BY <1>1, Zenon DEF WriteHarms, Full

\* The entries after a write that succeeded, once the buffer is given up.
WriteDone(x, y, i, w) ==
  /\ y.file = FileAfter(x, i, w) /\ y.archive = x.archive /\ y.lost = x.lost
  /\ y.buf[i] = <<>> /\ \A j \in Streams \ {i} : y.buf[j] = x.buf[j]

\* The entries of the other inputs are where they were.
LEMMA WriteDoneOthers ==
  ASSUME NEW x, Sane(x), NEW i \in Streams, NEW w \in Writes(x, i), NEW y, WriteDone(x, y, i, w),
         NEW j \in Streams \ {i}, NEW n, Once(x, j, n)
  PROVE  Once(y, j, n)
<1>1. \A s \in Storages : FileAfter(x, i, w)[s][j] = x.file[s][j]
  BY FileAfterCases, Zenon
<1>2. SameOf(x, y, j)
  BY <1>1, Zenon DEF SameOf, WriteDone
<1> QED
  BY <1>2, OnceSame, Zenon

\* The input's own entries are at the end of its file.
LEMMA WriteDoneOwn ==
  ASSUME NEW x, Sane(x), NEW i \in Streams, NEW w \in Writes(x, i), NEW y, WriteDone(x, y, i, w),
         x.out[i].live, Data(x, i, w) = x.buf[i], NEW n, Once(x, i, n)
  PROVE  Once(y, i, n)
<1>1. x.out[i].at \in Storages
  BY DEF Sane, Daemon
<1>2. PICK t \in Storages : t = x.out[i].at
  BY <1>1, Zenon
<1>3. FileAfter(x, i, w)[t][i] = x.file[t][i] \o x.buf[i]
  <2>1. x.out[i].live /\ t = x.out[i].at => FileAfter(x, i, w)[t][i] = x.file[t][i] \o Data(x, i, w)
    BY FileAfterCases, Zenon
  <2> QED
    BY <1>2, <2>1, Zenon
<1>4. \A s \in Storages \ {t} : FileAfter(x, i, w)[s][i] = x.file[s][i]
  <2>1. \A s \in Storages : s # x.out[i].at => FileAfter(x, i, w)[s][i] = x.file[s][i]
    BY FileAfterCases, Zenon
  <2> QED
    BY <1>2, <2>1, Zenon
<1>5. BufferWritten(x, y, i, t)
  BY <1>3, <1>4, Zenon DEF BufferWritten, WriteDone
<1> QED
  BY <1>5, BufferWrittenOnce, Zenon

\* A successful write, up to the rotation, keeps the books.
LEMMA WrittenBooked ==
  ASSUME NEW x, Sane(x), NEW i \in Streams, NEW w \in Writes(x, i), x.buf[i] # <<>>,
         w.err = "none", NEW L, Booked(x, L),
         NEW y, y = Emptied(Written(x, i, w), i)
  PROVE  Flows(x, y) /\ Handled(y, i) /\ Booked(y, L)
<1>0. PICK z : z = Written(x, i, w)
  BY Zenon
<1>1. /\ Sane(z) /\ Stays(x, z) /\ z.archive = x.archive /\ z.lost = x.lost
      /\ z.file = FileAfter(x, i, w) /\ z.harm = (x.harm \/ WriteHarms(x, i, w))
  BY <1>0, WrittenState, ZenonT(30)
<1>2. /\ Flows(z, y) /\ Handled(y, i)
      /\ y.buf[i] = <<>> /\ \A j \in Streams \ {i} : y.buf[j] = z.buf[j]
      /\ y.file = z.file /\ y.archive = z.archive /\ y.lost = z.lost /\ y.harm = z.harm
  BY <1>0, <1>1, GivenUp
<1>3. Flows(x, y)
  <2>1. z.buf = x.buf /\ z.kept = x.kept /\ SameRun(x, z)
    BY <1>1, Zenon DEF Stays, SameRun, SameClock, SameView, OutsOn
  <2> QED
    BY <1>2, <2>1, Zenon DEF Flows, SameRun, Handled
<1>4. WriteDone(x, y, i, w)
  BY <1>1, <1>2, Zenon DEF WriteDone, Stays
<1>5. ASSUME ~y.harm, NEW j \in Streams PROVE Once(y, j, L[j])
  <2>1. ~x.harm /\ ~WriteHarms(x, i, w)
    BY <1>1, <1>2, <1>5, Zenon
  <2>2. Once(x, j, L[j])
    BY <2>1, Zenon DEF Booked
  <2>3. x.out[i].live /\ Data(x, i, w) = x.buf[i]
    BY <2>1, HarmlessWrite
  <2>4. CASE j # i
    BY <1>4, <2>2, <2>4, WriteDoneOthers
  <2>5. CASE j = i
    BY <1>4, <2>2, <2>3, <2>5, WriteDoneOwn, Zenon
  <2> QED
    BY <2>4, <2>5, Zenon
<1> QED
  BY <1>2, <1>3, <1>5, Zenon DEF Booked

\* A failed write keeps the buffer, and the books unless some of it was written.
LEMMA WriteFailed ==
  ASSUME NEW x, Sane(x), NEW i \in Streams, NEW w \in Writes(x, i),
         w.err # "none", NEW L, Booked(x, L),
         NEW y, y = [Written(x, i, w) EXCEPT !.kept = @ \cup {i}]
  PROVE  Flows(x, y) /\ Handled(y, i) /\ Booked(y, L)
<1>0. PICK z : z = Written(x, i, w)
  OBVIOUS
<1>1. /\ Sane(z) /\ Stays(x, z) /\ z.archive = x.archive /\ z.lost = x.lost
      /\ z.file = FileAfter(x, i, w)
      /\ z.harm = (x.harm \/ WriteHarms(x, i, w))
  BY <1>0, WrittenState
<1>2. /\ Sane(y) /\ SameEntries(z, y) /\ SameView(z, y) /\ y.out = z.out
      /\ y.unwritten = z.unwritten /\ y.timer = z.timer /\ y.kept = z.kept \cup {i}
  BY <1>0, <1>1, KeptBack
<1>3. Handled(y, i)
  BY <1>2 DEF Handled
<1>4. SameRun(x, y)
  BY <1>1, <1>2 DEF Stays, SameRun, SameClock, SameView, OutsOn
<1>5. ASSUME NEW j \in Streams
      PROVE  Len(y.buf[j]) <= Len(x.buf[j]) /\ (Handled(x, j) => Handled(y, j))
  <2>1. x.buf[j] \in Seq(Nat) /\ y.buf[j] = x.buf[j]
    BY <1>1, <1>2 DEF Sane, Daemon, Stays, SameEntries
  <2>2. Len(x.buf[j]) \in Nat
    BY <2>1
  <2> QED
    BY <1>1, <1>2, <2>1, <2>2 DEF Handled, Stays, SameClock
<1>6. ASSUME ~y.harm, NEW j \in Streams PROVE Once(y, j, L[j])
  <2>1. ~z.harm
    BY <1>2, <1>6 DEF SameEntries
  <2>2. ~x.harm /\ Data(x, i, w) = <<>>
    BY <1>1, <2>1, Zenon DEF WriteHarms, Full
  <2>3. Once(x, j, L[j])
    BY <2>2 DEF Booked
  <2>4. \A s \in Storages : y.file[s][j] = x.file[s][j]
    <3>1. y.file = FileAfter(x, i, w)
      BY <1>1, <1>2 DEF SameEntries
    <3> QED
      BY <2>2, <3>1, FileAfterCases
  <2>5. SameOf(x, y, j)
    BY <1>1, <1>2, <2>4 DEF SameOf, Stays, SameEntries
  <2> QED
    BY <2>3, <2>5, OnceSame
<1> QED
  BY <1>2, <1>3, <1>4, <1>5, <1>6, Zenon DEF Booked, Flows

\* Flows composes with a step that leaves the buffers alone.
LEMMA FlowsThen ==
  ASSUME NEW x, NEW y, Flows(x, y), NEW z, Sane(z), SameRun(y, z),
         z.buf = y.buf, z.kept = y.kept
  PROVE  Flows(x, z) /\ \A i : Handled(y, i) => Handled(z, i)
<1>1. SameRun(x, z)
  BY DEF Flows, SameRun
<1>2. \A i : Handled(y, i) => Handled(z, i)
  BY DEF Handled
<1> QED
  BY <1>1, <1>2 DEF Flows

\* Writing a buffer, however the write() calls end.
LEMMA WroteFlows ==
  ASSUME NEW x, Sane(x), NEW i \in Streams, x.buf[i] # <<>>, NEW L, Booked(x, L),
         NEW w \in Writes(x, i), NEW y \in Wrote(x, i, w)
  PROVE  Flows(x, y) /\ Handled(y, i) /\ Booked(y, L)
<1>0. w.err \in {"none", "ENOSPC", "EIO"}
  BY WritesCases
<1>1. CASE w.err = "none"
  <2> DEFINE z == Emptied(Written(x, i, w), i)
  <2>1. y \in Rotated(z)
    BY <1>1, WroteCases, Zenon
  <2>2. Flows(x, z) /\ Handled(z, i) /\ Booked(z, L)
    BY <1>1, WrittenBooked, Zenon
  <2> HIDE DEF z
  <2>3. Sane(y) /\ Booked(y, L) /\ SameRun(z, y) /\ y.buf = z.buf /\ y.kept = z.kept
    BY <2>1, <2>2, RotatedFlows, Zenon DEF Flows
  <2> QED
    BY <2>2, <2>3, FlowsThen, Zenon
<1>2. CASE w.err = "ENOSPC"
  <2> DEFINE z == [Written(x, i, w) EXCEPT !.kept = @ \cup {i}]
  <2>1. y = aplogd_close_output(z)
    BY <1>2, WroteCases
  <2>2. Flows(x, z) /\ Handled(z, i) /\ Booked(z, L)
    BY <1>2, WriteFailed
  <2> HIDE DEF z
  <2>3. /\ Sane(y) /\ SameEntries(z, y) /\ SameClock(z, y) /\ SameView(z, y)
        /\ \A j \in Streams : y.out[j] = Closed
    BY <2>1, <2>2, CloseOutput, Zenon DEF Flows
  <2>4. SameRun(z, y)
    <3>1. \A j \in Streams : y.out[j].at = "none"
      BY <2>3 DEF Closed
    <3> QED
      BY <2>3, <3>1, Zenon DEF SameRun, SameClock, SameView, OutsOn
  <2>5. y.buf = z.buf /\ y.kept = z.kept
    BY <2>3, Zenon DEF SameEntries, SameClock
  <2>6. Booked(y, L)
    BY <2>2, <2>3, BookedSame, Zenon
  <2> QED
    BY <2>2, <2>3, <2>4, <2>5, <2>6, FlowsThen, Zenon
<1>3. CASE w.err = "EIO"
  <2>1. y = [Written(x, i, w) EXCEPT !.kept = @ \cup {i}]
    BY <1>3, WroteCases, Zenon
  <2> QED
    BY <1>3, <2>1, WriteFailed
<1> QED
  BY <1>0, <1>1, <1>2, <1>3, Zenon

\* The buffer of input i was dropped.
BufferDropped(x, y, i) ==
  /\ y.buf[i] = <<>> /\ y.archive[i] = x.archive[i]
  /\ y.lost[i] = x.lost[i] \cup Range(x.buf[i])
  /\ \A s \in Storages : y.file[s][i] = x.file[s][i]

\* Without an output the entries of the buffer are dropped, and counted as such.
LEMMA DroppedOnce ==
  ASSUME NEW x, Sane(x), NEW y, NEW i \in Streams, NEW n, Once(x, i, n),
         BufferDropped(x, y, i)
  PROVE  Once(y, i, n)
<1>a. y.buf[i] = <<>>
  BY Zenon DEF BufferDropped
<1>b. /\ y.archive[i] = x.archive[i] /\ y.lost[i] = x.lost[i] \cup Range(x.buf[i])
      /\ \A s \in Storages : y.file[s][i] = x.file[s][i]
  BY Zenon DEF BufferDropped
<1>1. Parted(x, i, n) /\ Single(x, i)
  BY OnceParted, Zenon
<1>2. Range(y.buf[i]) = {} /\ IsInjective(y.buf[i])
  BY <1>a, EmptySequence, Zenon
<1>3. "buffer" \in Places /\ "lost" \in Places
  BY Zenon DEF Places
<1>4. Held(y, i, "buffer") = Range(y.buf[i]) /\ Held(x, i, "buffer") = Range(x.buf[i])
  BY HeldAt, Zenon
<1>5. Held(y, i, "lost") = y.lost[i] /\ Held(x, i, "lost") = x.lost[i]
  BY HeldAt, Zenon
<1>6. ASSUME NEW p \in Places \ {"buffer", "lost"} PROVE Held(y, i, p) = Held(x, i, p)
  BY <1>b, HeldSame
<1>7. Held(y, i, "buffer") = {} /\ Held(y, i, "lost") = Held(x, i, "lost") \cup Held(x, i, "buffer")
  BY <1>2, <1>4, <1>5, <1>b, Zenon
<1>8. Parted(y, i, n)
  BY <1>1, <1>3, <1>6, <1>7, PartedMove, Zenon
<1>9. Single(y, i)
  BY <1>1, <1>2, <1>b, Zenon DEF Single
<1> QED
  BY <1>8, <1>9, OnceParted, Zenon

\* aplogd_rambuf_output: the entries of one buffer are written, dropped or kept,
\* the others stay where they are.
LEMMA RambufOutput ==
  ASSUME NEW x, Sane(x), NEW i \in Streams, NEW L, Booked(x, L),
         NEW y \in aplogd_rambuf_output(x, i)
  PROVE  Flows(x, y) /\ Handled(y, i) /\ Booked(y, L)
<1>1. CASE x.buf[i] = <<>>
  <2>1. y = x
    BY <1>1 DEF aplogd_rambuf_output
  <2>2. \A j \in Streams : Len(x.buf[j]) \in Nat
    BY DEF Sane, Daemon
  <2> QED
    BY <1>1, <2>1, <2>2 DEF Flows, SameRun, Handled
<1>2. CASE x.buf[i] # <<>> /\ x.out[i] = Closed
  <2> DEFINE z == Emptied(x, i)
             N == [z.lost EXCEPT ![i] = @ \cup Range(x.buf[i])]
  <2>1. y = [z EXCEPT !.lost[i] = @ \cup Range(x.buf[i])]
    BY <1>2 DEF aplogd_rambuf_output
  <2>2. /\ Flows(x, z) /\ Handled(z, i)
        /\ z.buf[i] = <<>> /\ \A j \in Streams \ {i} : z.buf[j] = x.buf[j]
        /\ z.file = x.file /\ z.archive = x.archive /\ z.lost = x.lost /\ z.harm = x.harm
    BY GivenUp, Zenon
  <2> HIDE DEF z
  <2>3. z \in Daemon
    BY <2>2, Zenon DEF Flows, Sane
  <2>4. y = [z EXCEPT !.lost = N]
    BY <2>1, <2>3 DEF Daemon
  <2>5. N \in [Streams -> SUBSET Nat]
    <3>1. Range(x.buf[i]) \subseteq Nat
      BY DEF Sane, Daemon, Range
    <3> QED
      BY <2>3, <3>1 DEF Daemon
  <2>6. N[i] = z.lost[i] \cup Range(x.buf[i]) /\ \A j \in Streams \ {i} : N[j] = z.lost[j]
    BY <2>3 DEF Daemon
  <2> HIDE DEF N
  <2>7. y \in Daemon /\ y.out = z.out /\ y.lost = N /\ y.file = z.file /\ y.archive = z.archive
    BY <2>3, <2>4, <2>5, ZenonT(30) DEF Daemon
  <2>8. y.buf = z.buf /\ y.kept = z.kept /\ y.harm = z.harm
    BY <2>3, <2>4 DEF Daemon
  <2>9. SameRun(z, y)
    <3>1. SameView(z, y) /\ y.unwritten = z.unwritten /\ y.timer = z.timer
      BY <2>3, <2>4 DEF Daemon, SameView
    <3> QED
      BY <2>7, <3>1, Zenon DEF SameRun, SameView, OutsOn
  <2>10. Sane(y)
    BY <2>2, <2>7, Zenon DEF Flows, Sane
  <2>11. Flows(x, y) /\ Handled(y, i)
    BY <2>2, <2>8, <2>9, <2>10, FlowsThen, Zenon
  <2>12. ASSUME ~y.harm, NEW j \in Streams PROVE Once(y, j, L[j])
    <3>1. Once(x, j, L[j])
      BY <2>2, <2>8, <2>12, Zenon DEF Booked
    <3>2. CASE j = i
      <4>1. y.lost[i] = x.lost[i] \cup Range(x.buf[i])
        BY <2>2, <2>6, <2>7, Zenon
      <4>2. y.buf[i] = <<>> /\ y.archive[i] = x.archive[i]
        BY <2>2, <2>7, <2>8, Zenon
      <4>3. \A s \in Storages : y.file[s][i] = x.file[s][i]
        BY <2>2, <2>7, Zenon
      <4> QED
        BY <3>1, <3>2, <4>1, <4>2, <4>3, DroppedOnce, Zenon DEF BufferDropped
    <3>3. CASE j # i
      <4>1. SameOf(x, y, j)
        BY <2>2, <2>6, <2>7, <2>8, <3>3, Zenon DEF SameOf
      <4> QED
        BY <3>1, <4>1, OnceSame
    <3> QED
      BY <3>2, <3>3
  <2> QED
    BY <2>11, <2>12 DEF Booked
<1>3. CASE x.buf[i] # <<>> /\ x.out[i] # Closed
  <2>1. PICK w \in Writes(x, i) : y \in Wrote(x, i, w)
    BY <1>3 DEF aplogd_rambuf_output
  <2> QED
    BY <1>3, <2>1, WroteFlows, Zenon
<1> QED
  BY <1>1, <1>2, <1>3, Zenon

\* Flows is a preorder on well-formed states.
LEMMA FlowsReflexive ==
  ASSUME NEW x, Sane(x)
  PROVE  Flows(x, x)
<1>1. \A j \in Streams : Len(x.buf[j]) \in Nat
  BY DEF Sane, Daemon
<1> QED
  BY <1>1 DEF Flows, SameRun

\* Two writes in a row.
LEMMA FlowsTransitive ==
  ASSUME NEW x, Sane(x), NEW y, Flows(x, y), NEW z, Flows(y, z)
  PROVE  Flows(x, z)
<1>1. SameRun(x, z)
  BY DEF Flows, SameRun
<1>2. ASSUME NEW j \in Streams
      PROVE  Len(z.buf[j]) <= Len(x.buf[j]) /\ (Handled(x, j) => Handled(z, j))
  <2>1. Len(x.buf[j]) \in Nat /\ Len(y.buf[j]) \in Nat /\ Len(z.buf[j]) \in Nat
    <3>1. x.buf[j] \in Seq(Nat) /\ y.buf[j] \in Seq(Nat) /\ z.buf[j] \in Seq(Nat)
      BY Zenon DEF Flows, Sane, Daemon
    <3> QED
      BY <3>1
  <2>2. Len(z.buf[j]) <= Len(y.buf[j]) /\ Len(y.buf[j]) <= Len(x.buf[j])
    BY DEF Flows
  <2>3. Len(z.buf[j]) <= Len(x.buf[j])
    BY <2>1, <2>2
  <2>4. Handled(x, j) => Handled(z, j)
    BY DEF Flows
  <2> QED
    BY <2>3, <2>4
<1> QED
  BY <1>1, <1>2 DEF Flows

\* The loop of aplogd_rambuf_outputall ends in V[n] when every turn leads from
\* V[k - 1] to V[k].
LEMMA FlushInduction ==
  ASSUME NEW x, NEW V, x \in V[0],
         \A k \in 1..Len(Inputs) : \A z \in V[k - 1] : aplogd_rambuf_output(z, Inputs[k]) \subseteq V[k]
  PROVE  Flushed(x) \subseteq V[Len(Inputs)]
<1> DEFINE N == Len(Inputs)
<1>1. N \in Nat
  BY AplogdAssumption
<1>2. PICK f : /\ f = [k \in 0..N |-> IF k = 0 THEN {x}
                                     ELSE Then(f[k - 1], LAMBDA z : aplogd_rambuf_output(z, Inputs[k]))]
               /\ Flushed(x) = f[N]
  BY UpToDef, Zenon
<1> DEFINE Q == {n \in Nat : n <= N => f[n] \subseteq V[n]}
<1>3. 0 \in Q
  <2>1. f[0] = {x}
    BY <1>1, <1>2
  <2> QED
    BY <2>1
<1>4. ASSUME NEW n \in Q PROVE n + 1 \in Q
  <2>1. n \in Nat /\ (n <= N => f[n] \subseteq V[n])
    OBVIOUS
  <2>2. ASSUME n + 1 <= N PROVE f[n + 1] \subseteq V[n + 1]
    <3>1. n <= N /\ n + 1 \in 1..N /\ n + 1 \in 0..N /\ (n + 1) - 1 = n /\ n + 1 # 0
      BY <1>1, <2>1, <2>2
    <3>2. f[n + 1] = UNION {aplogd_rambuf_output(z, Inputs[n + 1]) : z \in f[n]}
      BY <1>2, <3>1, Zenon DEF Then
    <3>3. \A z \in V[n] : aplogd_rambuf_output(z, Inputs[n + 1]) \subseteq V[n + 1]
      BY <3>1
    <3> QED
      BY <2>1, <3>1, <3>2, <3>3, Zenon
  <2> QED
    BY <2>1, <2>2
<1> HIDE DEF Q
<1>5. Q = Nat
  <2>1. Q \in SUBSET Nat
    BY DEF Q
  <2> QED
    BY <1>3, <1>4, <2>1, NatSetInduction
<1>6. f[N] \subseteq V[N]
  <2>1. N \in Q
    BY <1>1, <1>5
  <2> QED
    BY <1>1, <2>1 DEF Q
<1> QED
  BY <1>2, <1>6

\* After the loop every buffer has been handled.
LEMMA FlushedFlows ==
  ASSUME NEW x, Sane(x), NEW L, Booked(x, L), NEW y \in Flushed(x)
  PROVE  Flows(x, y) /\ Booked(y, L) /\ \A i \in Streams : Handled(y, i)
<1> DEFINE N == Len(Inputs)
           Done(z, k) == Flows(x, z) /\ Booked(z, L) /\ \A j \in 1..k : Handled(z, Inputs[j])
           V == [k \in 0..N |-> {z \in Daemon : Done(z, k)}]
<1>1. N \in Nat /\ Inputs \in [1..N -> Streams] /\ Streams = {Inputs[j] : j \in 1..N}
  <2>1. N \in Nat /\ Inputs \in [1..N -> Streams] /\ DOMAIN Inputs = 1..N
    BY AplogdAssumption
  <2>2. Streams = {Inputs[j] : j \in DOMAIN Inputs}
    BY DEF Streams, Range
  <2> QED
    BY <2>1, <2>2
<1>2. x \in V[0]
  <2>1. Done(x, 0)
    BY FlowsReflexive
  <2>2. x \in Daemon
    BY DEF Sane
  <2> QED
    BY <1>1, <2>1, <2>2
<1>3. ASSUME NEW k \in 1..N, NEW z \in V[k - 1], NEW u \in aplogd_rambuf_output(z, Inputs[k])
      PROVE  u \in V[k]
  <2>1. k - 1 \in 0..N /\ k \in 0..N /\ Inputs[k] \in Streams
    BY <1>1
  <2>2. Done(z, k - 1)
    BY <2>1
  <2>3. Sane(z)
    BY <2>2 DEF Flows
  <2>4. Flows(z, u) /\ Handled(u, Inputs[k]) /\ Booked(u, L)
    BY <2>1, <2>2, <2>3, RambufOutput
  <2>5. Flows(x, u)
    BY <2>2, <2>4, FlowsTransitive
  <2>6. ASSUME NEW j \in 1..k PROVE Handled(u, Inputs[j])
    <3>1. CASE j = k
      BY <2>4, <3>1
    <3>2. CASE j # k
      <4>1. j \in 1..(k - 1) /\ j \in 1..N
        BY <1>1, <3>2, SMTT(30)
      <4>2. Handled(z, Inputs[j])
        BY <2>2, <4>1
      <4>3. Inputs[j] \in Streams
        BY <1>1, <4>1, Zenon
      <4> QED
        BY <2>4, <4>2, <4>3 DEF Flows
    <3> QED
      BY <3>1, <3>2
  <2>7. Done(u, k) /\ u \in Daemon
    BY <2>4, <2>5, <2>6, Zenon DEF Flows, Sane
  <2> HIDE DEF Done
  <2> QED
    BY <2>1, <2>7
<1>4. y \in V[N]
  <2> HIDE DEF V
  <2> QED
    BY <1>2, <1>3, FlushInduction
<1>5. Done(y, N)
  BY <1>1, <1>4
<1> QED
  BY <1>1, <1>5

\* The state after aplogd_rambuf_outputall and what its callers do.
Served(x, y) ==
  /\ Sane(y) /\ y.cur = x.cur /\ y.stray = x.stray /\ (x.late => y.late)
  /\ OutsOn(x) => OutsOn(y)
  /\ \A i \in Streams : Len(y.buf[i]) <= Len(x.buf[i])

\* aplogd_rambuf_outputall handles every buffer and keeps the books.
LEMMA RambufOutputall ==
  ASSUME NEW x, Sane(x), NEW L, Booked(x, L), NEW y \in aplogd_rambuf_outputall(x)
  PROVE  /\ Served(x, y) /\ Booked(y, L) /\ y.unwritten = 0
         /\ \A i \in Streams : Handled(y, i)
<1>1. PICK z \in Flushed(x) : y = [z EXCEPT !.unwritten = 0, !.timer = FALSE]
  BY Zenon DEF aplogd_rambuf_outputall
<1>2. Flows(x, z) /\ Booked(z, L) /\ \A i \in Streams : Handled(z, i)
  BY FlushedFlows
<1>3. Sane(z)
  BY <1>2 DEF Flows
<1>4. y \in Daemon /\ y.unwritten = 0 /\ y.out = z.out /\ y.kept = z.kept
  BY <1>1, <1>3, Zenon DEF Sane, Daemon
<1>5. SameEntries(z, y) /\ SameView(z, y)
  BY <1>1, <1>3 DEF Sane, Daemon, SameEntries, SameView
<1>6. Sane(y)
  BY <1>3, <1>4, Zenon DEF Sane
<1>7. Booked(y, L)
  BY <1>2, <1>5, BookedSame
<1>8. \A i \in Streams : Handled(y, i)
  BY <1>2, <1>4, <1>5, Zenon DEF Handled, SameEntries
<1>9. Served(x, y)
  BY <1>2, <1>4, <1>5, <1>6, Zenon DEF Served, Flows, SameRun, SameEntries, SameView, OutsOn
<1> QED
  BY <1>4, <1>7, <1>8, <1>9, Zenon

\* The entry e of input i is in place b of state y, and nothing else changed.
EntryAdded(x, y, i, b, e) ==
  /\ y.harm = x.harm
  /\ Held(y, i, b) = Held(x, i, b) \cup {e}
  /\ \A p \in Places \ {b} : Held(y, i, p) = Held(x, i, p)
  /\ Single(x, i) /\ e \notin Held(x, i, "buffer") => Single(y, i)
  /\ \A j \in Streams \ {i} : SameOf(x, y, j)

\* Then the books are right for one more entry.
LEMMA EntryBooked ==
  ASSUME NEW x, NEW L \in [Streams -> Nat], Booked(x, L), NEW i \in Streams, NEW b \in Places,
         NEW y, EntryAdded(x, y, i, b, L[i] + 1)
  PROVE  Booked(y, [L EXCEPT ![i] = @ + 1])
<1> DEFINE M == [L EXCEPT ![i] = @ + 1]
<1>1. M[i] = L[i] + 1 /\ (\A j \in Streams \ {i} : M[j] = L[j]) /\ L[i] \in Nat
  OBVIOUS
<1> HIDE DEF M
<1>2. ASSUME ~y.harm, NEW j \in Streams PROVE Once(y, j, M[j])
  <2>1. Once(x, j, L[j])
    BY <1>2 DEF Booked, EntryAdded
  <2>2. CASE j # i
    BY <1>1, <2>1, <2>2, OnceSame, Zenon DEF EntryAdded
  <2>3. CASE j = i
    <3>1. Parted(x, i, L[i]) /\ Single(x, i)
      BY <2>1, <2>3, OnceParted
    <3>2. Parted(y, i, L[i] + 1)
      <4>1. /\ Held(y, i, b) = Held(x, i, b) \cup {L[i] + 1}
            /\ \A p \in Places \ {b} : Held(y, i, p) = Held(x, i, p)
        BY Zenon DEF EntryAdded
      <4> QED
        BY <1>1, <3>1, <4>1, PartedAdd, Zenon
    <3>3. Single(y, i)
      <4>1. "buffer" \in Places
        BY DEF Places
      <4>2. Held(x, i, "buffer") \subseteq 1..L[i]
        BY <3>1, <4>1 DEF Parted
      <4>3. L[i] + 1 \notin 1..L[i]
        BY <1>1
      <4> QED
        BY <3>1, <4>2, <4>3, Zenon DEF EntryAdded
    <3> QED
      BY <1>1, <2>3, <3>2, <3>3, OnceParted
  <2> QED
    BY <2>2, <2>3
<1>3. Booked(y, M)
  BY <1>2 DEF Booked
<1> QED
  BY <1>3 DEF M

\* The states of Buffered: an entry copied to its buffer, and one that did not fit.
Appended(x, i, e) == [x EXCEPT !.buf[i] = Append(@, e), !.unwritten = @ + 1, !.timer = TRUE]
Dropped(x, i, e) == [x EXCEPT !.lost[i] = @ \cup {e}]

\* An entry copied to its buffer.
LEMMA EntryAppended ==
  ASSUME NEW x, Sane(x), NEW i \in Streams, NEW e \in Nat, NEW y, y = Appended(x, i, e)
  PROVE  /\ Sane(y) /\ SameView(x, y) /\ y.out = x.out /\ y.timer /\ y.unwritten = x.unwritten + 1
         /\ Len(y.buf[i]) = Len(x.buf[i]) + 1
         /\ \A j \in Streams \ {i} : y.buf[j] = x.buf[j]
         /\ EntryAdded(x, y, i, "buffer", e)
<1> DEFINE B == [x.buf EXCEPT ![i] = Append(x.buf[i], e)]
           U == x.unwritten + 1
<1>1. x \in Daemon /\ x.buf \in [Streams -> Seq(Nat)] /\ x.unwritten \in Nat
  BY Zenon DEF Sane, Daemon
<1>2. B \in [Streams -> Seq(Nat)] /\ U \in Nat
  <2>1. Append(x.buf[i], e) \in Seq(Nat)
    BY <1>1
  <2> QED
    BY <1>1, <2>1
<1>3. B[i] = Append(x.buf[i], e) /\ \A j \in Streams \ {i} : B[j] = x.buf[j]
  BY <1>1, Zenon
<1>4. U = x.unwritten + 1
  OBVIOUS
<1>5. y = [x EXCEPT !.buf = B, !.unwritten = U, !.timer = TRUE]
  BY <1>1 DEF Daemon, Appended
<1> HIDE DEF B, U
<1>6. /\ y \in Daemon /\ y.buf = B /\ y.unwritten = U /\ y.timer /\ y.out = x.out /\ y.harm = x.harm
      /\ y.file = x.file /\ y.archive = x.archive /\ y.lost = x.lost /\ SameView(x, y)
  <2>1. y \in Daemon
    BY <1>1, <1>2, <1>5, ZenonT(30) DEF Daemon
  <2>2. y.buf = B /\ y.unwritten = U /\ y.timer /\ y.out = x.out
    BY <1>1, <1>5 DEF Daemon
  <2>3. y.harm = x.harm /\ y.file = x.file /\ y.archive = x.archive /\ y.lost = x.lost
    BY <1>1, <1>5 DEF Daemon
  <2>4. SameView(x, y)
    BY <1>1, <1>5 DEF Daemon, SameView
  <2> QED
    BY <2>1, <2>2, <2>3, <2>4, Zenon
<1>7. Sane(y)
  BY <1>6, Zenon DEF Sane
<1>8. Len(y.buf[i]) = Len(x.buf[i]) + 1
  <2>1. Len(Append(x.buf[i], e)) = Len(x.buf[i]) + 1
    BY <1>1
  <2> QED
    BY <1>3, <1>6, <2>1, Zenon
<1>9. EntryAdded(x, y, i, "buffer", e)
  <2>1. /\ Range(y.buf[i]) = Range(x.buf[i]) \cup {e}
        /\ IsInjective(x.buf[i]) /\ e \notin Range(x.buf[i]) => IsInjective(y.buf[i])
    <3>1. x.buf[i] \in Seq(Nat) /\ y.buf[i] = Append(x.buf[i], e)
      BY <1>1, <1>3, <1>6, Zenon
    <3>2. PICK q \in Seq(Nat) : q = x.buf[i]
      BY <3>1, Zenon
    <3>3. /\ Range(Append(q, e)) = Range(q) \cup {e}
          /\ IsInjective(q) /\ e \notin Range(q) => IsInjective(Append(q, e))
      BY AppendEntries, Zenon
    <3> QED
      BY <3>1, <3>2, <3>3, Zenon
  <2>2. Held(y, i, "buffer") = Held(x, i, "buffer") \cup {e}
    BY <2>1, HeldAt, Zenon
  <2>3. \A p \in Places \ {"buffer"} : Held(y, i, p) = Held(x, i, p)
    BY <1>6, HeldSame
  <2>4. Single(x, i) /\ e \notin Held(x, i, "buffer") => Single(y, i)
    BY <1>6, <2>1, HeldAt, ZenonT(30) DEF Single
  <2>5. \A j \in Streams \ {i} : SameOf(x, y, j)
    BY <1>3, <1>6, Zenon DEF SameOf
  <2> QED
    BY <1>6, <2>2, <2>3, <2>4, <2>5, Zenon DEF EntryAdded
<1> QED
  BY <1>3, <1>4, <1>6, <1>7, <1>8, <1>9, Zenon

\* An entry that did not fit.
LEMMA EntryDropped ==
  ASSUME NEW x, Sane(x), NEW i \in Streams, NEW e \in Nat, NEW y, y = Dropped(x, i, e)
  PROVE  /\ Sane(y) /\ SameView(x, y) /\ SameClock(x, y) /\ y.out = x.out /\ y.buf = x.buf
         /\ EntryAdded(x, y, i, "lost", e)
<1> DEFINE T == [x.lost EXCEPT ![i] = x.lost[i] \cup {e}]
<1>1. x \in Daemon /\ x.lost \in [Streams -> SUBSET Nat]
  BY Zenon DEF Sane, Daemon
<1>2. T \in [Streams -> SUBSET Nat]
  BY <1>1, Zenon
<1>3. T[i] = x.lost[i] \cup {e} /\ \A j \in Streams \ {i} : T[j] = x.lost[j]
  BY <1>1, Zenon
<1>4. y = [x EXCEPT !.lost = T]
  BY <1>1 DEF Daemon, Dropped
<1> HIDE DEF T
<1>5. /\ y \in Daemon /\ y.lost = T /\ y.buf = x.buf /\ y.out = x.out /\ y.harm = x.harm
      /\ y.file = x.file /\ y.archive = x.archive /\ SameView(x, y) /\ SameClock(x, y)
  <2>1. y \in Daemon
    BY <1>1, <1>2, <1>4, ZenonT(30) DEF Daemon
  <2>2. /\ y.lost = T /\ y.buf = x.buf /\ y.out = x.out /\ y.harm = x.harm
        /\ y.file = x.file /\ y.archive = x.archive
    BY <1>1, <1>4 DEF Daemon
  <2>3. SameView(x, y) /\ SameClock(x, y)
    BY <1>1, <1>4 DEF Daemon, SameView, SameClock
  <2> QED
    BY <2>1, <2>2, <2>3, Zenon
<1>6. Sane(y)
  BY <1>5, Zenon DEF Sane
<1>7. EntryAdded(x, y, i, "lost", e)
  <2>2. Held(y, i, "lost") = Held(x, i, "lost") \cup {e}
    BY <1>3, <1>5, HeldAt, SMTT(30)
  <2>3. \A p \in Places \ {"lost"} : Held(y, i, p) = Held(x, i, p)
    BY <1>5, HeldSame
  <2>4. Single(x, i) => Single(y, i)
    BY <1>5, Zenon DEF Single
  <2>5. \A j \in Streams \ {i} : SameOf(x, y, j)
    BY <1>3, <1>5, Zenon DEF SameOf
  <2> QED
    BY <1>5, <2>2, <2>3, <2>4, <2>5, ZenonT(30) DEF EntryAdded
<1> QED
  BY <1>5, <1>6, <1>7

\* The buffers are within their size, the count is below aplogd_output_buffering
\* and what waits has the timeout running: the part of the invariant that is
\* about the clock.
Clocked(x) ==
  /\ \A i \in Streams : Len(x.buf[i]) <= BufSize
  /\ x.unwritten < Buffering
  /\ \A i \in Streams : x.timer \/ Handled(x, i)

\* The entry is counted, and written with the other ones when there are enough.
LEMMA BufferedEntry ==
  ASSUME NEW x, Sane(x), NEW L \in [Streams -> Nat], Booked(x, L), Clocked(x), NEW i \in Streams,
         NEW y \in Buffered(x, i, L[i] + 1)
  PROVE  /\ Sane(y) /\ Clocked(y) /\ Booked(y, [L EXCEPT ![i] = @ + 1])
         /\ y.cur = x.cur /\ y.stray = x.stray /\ (x.late => y.late) /\ (OutsOn(x) => OutsOn(y))
<1> DEFINE e == L[i] + 1
           M == [L EXCEPT ![i] = @ + 1]
<1>0. e \in Nat /\ {"buffer", "lost"} \subseteq Places
  BY DEF Places
<1>a. BufSize \in Nat /\ Buffering \in Nat /\ 0 < Buffering
  BY AplogdAssumption
<1>1. CASE ~Fits(x, i)
  <2>1. y = Dropped(x, i, e)
    BY <1>1, SMTT(30) DEF Buffered, Dropped
  <2> HIDE DEF e
  <2>2. /\ Sane(y) /\ SameView(x, y) /\ SameClock(x, y) /\ y.out = x.out /\ y.buf = x.buf
        /\ EntryAdded(x, y, i, "lost", e)
    BY <1>0, <2>1, EntryDropped
  <2>3. Booked(y, M)
    BY <1>0, <2>2, EntryBooked, Zenon DEF e
  <2>4. Clocked(y)
    BY <2>2, Zenon DEF Clocked, SameClock, Handled
  <2> QED
    BY <2>2, <2>3, <2>4, Zenon DEF SameView, OutsOn
<1>2. CASE Fits(x, i)
  <2>z. PICK u : u = Appended(x, i, e)
    OBVIOUS
  <2>1. (y = u /\ ~(u.unwritten >= Buffering)) \/ y \in aplogd_rambuf_outputall(u)
    BY <1>2, <2>z DEF Buffered, Appended
  <2>2. Len(x.buf[i]) + 1 <= BufSize
    <3>1. Len(x.buf[i]) \in Nat
      BY SMTT(30) DEF Sane, Daemon
    <3> QED
      BY <1>2, <1>a, <3>1, SMTT(30) DEF Fits
  <2> HIDE DEF e
  <2>3. /\ Sane(u) /\ SameView(x, u) /\ u.out = x.out /\ u.timer
        /\ Len(u.buf[i]) = Len(x.buf[i]) + 1
        /\ \A j \in Streams \ {i} : u.buf[j] = x.buf[j]
        /\ EntryAdded(x, u, i, "buffer", e)
    BY <1>0, <2>z, EntryAppended
  <2>4. (y = u /\ u.unwritten < Buffering) \/ y \in aplogd_rambuf_outputall(u)
    <3>1. u.unwritten \in Nat
      BY <2>3, Zenon DEF Sane, Daemon
    <3> QED
      BY <1>a, <2>1, <3>1
  <2>5. Booked(u, M)
    BY <1>0, <2>3, EntryBooked, Zenon DEF e
  <2>6. \A j \in Streams : Len(u.buf[j]) <= BufSize
    BY <2>2, <2>3, SMTT(30) DEF Clocked
  <2> HIDE DEF M
  <2>7. CASE y = u /\ u.unwritten < Buffering
    <3>1. Clocked(u)
      BY <2>3, <2>6, <2>7 DEF Clocked
    <3>2. u.cur = x.cur /\ u.stray = x.stray /\ (x.late => u.late) /\ (OutsOn(x) => OutsOn(u))
      BY <2>3, Zenon DEF SameView, OutsOn
    <3> QED
      BY <2>3, <2>5, <2>7, <3>1, <3>2, Zenon DEF M
  <2>8. CASE y \in aplogd_rambuf_outputall(u)
    <3>1. /\ Served(u, y) /\ Booked(y, M) /\ y.unwritten = 0
          /\ \A j \in Streams : Handled(y, j)
      BY <2>3, <2>5, <2>8, RambufOutputall, Zenon
    <3>2. ASSUME NEW j \in Streams PROVE Len(y.buf[j]) <= BufSize
      <4>1. Len(u.buf[j]) <= BufSize /\ Len(y.buf[j]) <= Len(u.buf[j])
        BY <2>6, <3>1, SMTT(30) DEF Served
      <4>2. Len(u.buf[j]) \in Nat /\ Len(y.buf[j]) \in Nat
        <5>1. u.buf[j] \in Seq(Nat) /\ y.buf[j] \in Seq(Nat)
          BY <2>3, <3>1, Zenon DEF Served, Sane, Daemon
        <5> QED
          BY <5>1
      <4> QED
        BY <1>a, <4>1, <4>2
    <3>3. Clocked(y)
      BY <1>a, <3>1, <3>2 DEF Clocked
    <3>4. y.cur = x.cur /\ y.stray = x.stray /\ (x.late => y.late) /\ (OutsOn(x) => OutsOn(y))
      BY <2>3, <3>1, Zenon DEF Served, SameView, OutsOn
    <3> QED
      BY <3>1, <3>3, <3>4, Zenon DEF M, Served
  <2> QED
    BY <2>4, <2>7, <2>8, Zenon
<1> QED
  BY <1>1, <1>2, Zenon

-----------------------------------------------------------------------------
(* Following the cards *)

\* The announcement that a card goes.
Gone(s) == [k |-> "gone", s |-> s]

\* The daemon stayed where it was.
Unmoved(x, y) ==
  /\ y.cur = x.cur /\ y.stray = x.stray /\ (x.late => y.late)
  /\ OnCurrent(x) /\ ~y.late => OnCurrent(y)

\* A change of storage keeps the books and the clock.
Moved(x, y, L) == Sane(y) /\ Booked(y, L) /\ y.buf = x.buf /\ SameClock(x, y)

\* A settled daemon is on its storage, unless it came late.
LEMMA SettledOnCurrent ==
  ASSUME NEW x, Settled(x), ~x.late
  PROVE  OnCurrent(x)
BY DEF Settled, OnCurrent

\* What only looks at files leaves the daemon where it was.
LEMMA StaysUnmoved ==
  ASSUME NEW x, NEW y, Stays(x, y)
  PROVE  Unmoved(x, y) /\ y.cur = x.cur
BY Zenon DEF Stays, SameView, Unmoved, OnCurrent

\* Two of these in a row.
LEMMA UnmovedTransitive ==
  ASSUME NEW x, NEW y, NEW z, Unmoved(x, y), Unmoved(y, z)
  PROVE  Unmoved(x, z)
BY DEF Unmoved

\* Two changes of storage in a row.
LEMMA MovedTransitive ==
  ASSUME NEW x, NEW y, NEW z, NEW L, Moved(x, y, L), Moved(y, z, L)
  PROVE  Moved(x, z, L)
BY Zenon DEF Moved, SameClock

\* switch_storage from the current storage: settled on the new one, or unmoved.
LEMMA SwitchMoved ==
  ASSUME NEW x, Sane(x), NEW L, Booked(x, L), NEW new \in Storages,
         NEW y \in switch_storage(x, x.cur, new)
  PROVE  /\ Moved(x, y, L)
         /\ \/ y.cur = new /\ Settled(y)
            \/ new # "USERDATA" /\ Unmoved(x, y)
<1>1. x.cur \in Storages
  BY DEF Sane, Daemon
<1>2. /\ Sane(y) /\ SameEntries(x, y) /\ SameClock(x, y)
      /\ \/ y.cur = new /\ Settled(y)
         \/ /\ new # "USERDATA"
            /\ y.cur = x.cur /\ y.stray = x.stray /\ (x.late => y.late)
            /\ x.cur \in Writable => Settled(y)
  BY <1>1, SwitchStorage, Zenon
<1>3. Booked(y, L)
  BY <1>2, BookedSame
<1>4. Moved(x, y, L)
  BY <1>2, <1>3 DEF Moved, SameEntries
<1>5. ASSUME y.cur = x.cur, y.stray = x.stray, x.late => y.late, x.cur \in Writable => Settled(y)
      PROVE  Unmoved(x, y)
  <2>1. OnCurrent(x) /\ ~y.late => OnCurrent(y)
    BY <1>5, SettledOnCurrent, Zenon DEF OnCurrent
  <2> QED
    BY <1>5, <2>1 DEF Unmoved
<1> QED
  BY <1>2, <1>4, <1>5, Zenon

\* With the log files moved first.
LEMMA SwitchedToMoved ==
  ASSUME NEW x, Sane(x), NEW L, Booked(x, L), NEW new \in Storages,
         NEW y \in SwitchedTo(x, x.cur, new, TRUE)
  PROVE  Moved(x, y, L) /\ (Settled(y) \/ Unmoved(x, y))
<1>1. x.cur \in Storages
  BY DEF Sane, Daemon
<1>2. PICK z \in IF cfg.seq THEN aplogd_move_logs(x, x.cur, new) ELSE {x} :
        y \in switch_storage(z, x.cur, new)
  BY DEF SwitchedTo, Then
<1>3. Sane(z) /\ Booked(z, L) /\ Stays(x, z)
  <2>1. CASE z \in aplogd_move_logs(x, x.cur, new)
    BY <1>1, <2>1, MoveLogs, SMTT(30)
  <2>2. CASE z = x
    BY <2>2 DEF Stays, SameClock, SameView
  <2> QED
    BY <1>2, <2>1, <2>2, SMTT(30)
<1>4. z.cur = x.cur /\ Unmoved(x, z)
  BY <1>3, StaysUnmoved, SMTT(30)
<1>5. Moved(x, z, L)
  BY <1>3 DEF Moved, Stays
<1>6. Moved(z, y, L) /\ (Settled(y) \/ Unmoved(z, y))
  BY <1>2, <1>3, <1>4, SwitchMoved
<1> QED
  BY <1>4, <1>5, <1>6, MovedTransitive, UnmovedTransitive, SMTT(30)

\* A message of vold leaves the daemon settled, or unmoved by a message that
\* was not about the loss of its storage.
LEMMA VoldMessageMoved ==
  ASSUME NEW x, Sane(x), NEW L, Booked(x, L), NEW m \in AllMessages, NEW y \in VoldMessage(x, m)
  PROVE  Moved(x, y, L) /\ (Settled(y) \/ (Unmoved(x, y) /\ m # Gone(x.cur)))
<1> DEFINE w == aplogd_log_save(x, m.s)
<1>0. m.s \in Cards /\ m.k \in {"mounted", "gone"} /\ Cards \subseteq Storages /\ "USERDATA" \in Storages
  BY DEF AllMessages, Storages
<1>1. Sane(w) /\ Booked(w, L) /\ Stays(x, w)
  BY <1>0, LogSave
<1>2. Moved(x, w, L) /\ Unmoved(x, w) /\ w.cur = x.cur
  BY <1>1, StaysUnmoved, Zenon DEF Moved, Stays
<1>3. Moved(x, x, L) /\ Unmoved(x, x)
  BY DEF Moved, Unmoved, SameClock
<1> HIDE DEF w
<1>4. CASE m.k = "mounted"
  <2>1. m # Gone(x.cur)
    <3>1. Gone(x.cur).k = "gone"
      BY DEF Gone
    <3> QED
      BY <1>4, <3>1
  <2>2. y = w \/ y \in SwitchedTo(w, w.cur, "SECONDARY", TRUE) \/ y \in SwitchedTo(w, w.cur, "EXTERNAL", TRUE)
    BY <1>0, <1>2, <1>4, Zenon DEF VoldMessage, Cards, w
  <2>3. ASSUME NEW new \in Cards, y \in SwitchedTo(w, w.cur, new, TRUE)
        PROVE  Moved(w, y, L) /\ (Settled(y) \/ Unmoved(w, y))
    BY <1>0, <1>1, <2>3, SwitchedToMoved, Zenon
  <2>4. CASE y = w
    BY <1>2, <2>1, <2>4, Zenon
  <2>5. CASE y # w
    <3>1. Moved(w, y, L) /\ (Settled(y) \/ Unmoved(w, y))
      BY <2>2, <2>3, <2>5, Zenon DEF Cards
    <3> QED
      BY <1>2, <2>1, <3>1, MovedTransitive, UnmovedTransitive, Zenon
  <2> QED
    BY <2>4, <2>5
<1>5. CASE m.k = "gone" /\ x.cur # m.s
  <2>1. y = x
    BY <1>0, <1>5, Zenon DEF VoldMessage, Cards
  <2>2. m # Gone(x.cur)
    <3>1. Gone(x.cur).s = x.cur
      BY DEF Gone
    <3> QED
      BY <1>5, <3>1, Zenon
  <2> QED
    BY <1>3, <2>1, <2>2
<1>6. CASE m.k = "gone" /\ x.cur = m.s /\ m.s = "EXTERNAL"
  <2>1. y \in switch_storage(x, x.cur, "USERDATA")
    BY <1>6, Zenon DEF VoldMessage
  <2> QED
    BY <1>0, <2>1, SwitchMoved
<1>7. CASE m.k = "gone" /\ x.cur = m.s /\ m.s = "SECONDARY"
  <2>1. PICK z \in switch_storage(x, x.cur, "EXTERNAL") :
          y \in IF z.cur = "SECONDARY" THEN switch_storage(z, "SECONDARY", "USERDATA") ELSE {z}
    BY <1>7 DEF VoldMessage, Then
  <2>2. /\ Moved(x, z, L)
        /\ (z.cur = "EXTERNAL" /\ Settled(z)) \/ z.cur = x.cur
    <3>1. "EXTERNAL" \in Storages
      BY <1>0 DEF Cards
    <3> QED
      BY <2>1, <3>1, SwitchMoved DEF Unmoved
  <2>3. CASE z.cur = "SECONDARY"
    <3>1. y \in switch_storage(z, z.cur, "USERDATA")
      BY <2>1, <2>3
    <3>2. Moved(z, y, L) /\ Settled(y)
      BY <1>0, <2>2, <3>1, SwitchMoved, Zenon DEF Moved
    <3> QED
      BY <2>2, <3>2, MovedTransitive
  <2>4. CASE z.cur # "SECONDARY"
    BY <1>7, <2>1, <2>2, <2>4, SMTT(30)
  <2> QED
    BY <2>3, <2>4
<1> QED
  BY <1>0, <1>4, <1>5, <1>6, <1>7, Zenon DEF Cards

\* The steps of aplogd_log_io() that set up the outputs.
Setup(x, s, next) ==
  IF x.cur # s THEN {x}
  ELSE {[y EXCEPT !.cur = IF y.ret = 0 THEN s ELSE next] :
          y \in aplogd_output_setup(aplogd_log_save(x, s), s)}

\* config_load changes what the daemon calls current, and no output.
LEMMA ConfigLoad ==
  ASSUME NEW x, Sane(x), NEW L, Booked(x, L), NEW y, y = aplogd_config_load(x)
  PROVE  Moved(x, y, L) /\ y.cur = aplogd_calc_storage_pref /\ y.out = x.out
         /\ y.stray = x.stray /\ y.late = x.late
<1> DEFINE p == aplogd_calc_storage_pref
<1>1. p \in Storages
  BY DEF aplogd_calc_storage_pref, Storages, Cards
<1>2. y = [x EXCEPT !.cur = p, !.max = p]
  BY DEF aplogd_config_load
<1> HIDE DEF p
<1>3. /\ y \in Daemon /\ y.cur = p /\ y.out = x.out /\ y.stray = x.stray /\ y.late = x.late
      /\ SameEntries(x, y) /\ SameClock(x, y)
  <2>1. x \in Daemon
    BY Zenon DEF Sane
  <2>2. y \in Daemon
    BY <1>1, <1>2, <2>1, ZenonT(30) DEF Daemon
  <2>3. y.cur = p /\ y.out = x.out /\ y.stray = x.stray /\ y.late = x.late
    BY <1>2, <2>1 DEF Daemon
  <2>4. SameEntries(x, y) /\ SameClock(x, y)
    BY <1>2, <2>1 DEF Daemon, SameEntries, SameClock
  <2> QED
    BY <2>2, <2>3, <2>4, Zenon
<1>4. Sane(y)
  BY <1>3, Zenon DEF Sane
<1>5. Booked(y, L)
  BY <1>3, BookedSame
<1> QED
  BY <1>3, <1>4, <1>5 DEF Moved, SameEntries, p

\* The outputs are set up on the storage, or the next one is tried; USERDATA
\* does not fail.
LEMMA SetupMoved ==
  ASSUME NEW x, Sane(x), NEW L, Booked(x, L), NEW s \in Storages, NEW next,
         s # "USERDATA" => next \in Storages, NEW y \in Setup(x, s, next)
  PROVE  /\ Moved(x, y, L)
         /\ \/ x.cur # s /\ y = x
            \/ Settled(y)
            \/ s # "USERDATA" /\ y.cur = next
<1>1. CASE x.cur # s
  <2>1. y = x
    BY <1>1 DEF Setup
  <2> QED
    BY <1>1, <2>1 DEF Moved, SameClock
<1>2. CASE x.cur = s
  <2> DEFINE w == aplogd_log_save(x, s)
  <2>1. PICK z \in aplogd_output_setup(w, s) : y = [z EXCEPT !.cur = IF z.ret = 0 THEN s ELSE next]
    BY <1>2 DEF Setup
  <2>2. Sane(w) /\ Stays(x, w) /\ Booked(w, L)
    BY LogSave, Zenon
  <2> HIDE DEF w
  <2>3. /\ Sane(z) /\ SameEntries(w, z) /\ SameClock(w, z)
        /\ \/ s \notin Writable /\ z.ret = -1
           \/ /\ s \in Writable
              /\ \A i \in Streams : z.out[i].at \in {"none", s}
              /\ s \in leaving => z.late
        /\ s = "USERDATA" => z.ret = 0
    BY <2>1, <2>2, OutputSetup
  <2> DEFINE c == IF z.ret = 0 THEN s ELSE next
  <2>4. c \in Storages
    BY <2>3, Zenon
  <2>5. y = [z EXCEPT !.cur = c]
    BY <2>1
  <2>6. (z.ret = 0 /\ c = s) \/ (z.ret # 0 /\ c = next)
    OBVIOUS
  <2> HIDE DEF c
  <2>7. /\ y \in Daemon /\ y.cur = c /\ y.out = z.out /\ y.late = z.late
        /\ SameEntries(z, y) /\ SameClock(z, y)
    BY <2>3, <2>4, <2>5, Zenon DEF Sane, Daemon, SameEntries, SameClock
  <2>8. Sane(y)
    BY <2>3, <2>7, Zenon DEF Sane
  <2>9. Booked(z, L)
    BY <2>2, <2>3, BookedSame, Zenon
  <2>10. Booked(y, L)
    BY <2>7, <2>9, BookedSame
  <2>11. Moved(x, y, L)
    BY <2>2, <2>3, <2>7, <2>8, <2>10, Zenon DEF Moved, Stays, SameEntries, SameClock
  <2>12. CASE z.ret = 0
    <3>1. /\ c = s /\ s \in Writable /\ (s \in leaving => z.late)
          /\ \A i \in Streams : z.out[i].at \in {"none", s}
      BY <2>3, <2>6, <2>12
    <3> QED
      BY <2>7, <2>11, <3>1, ZenonT(30) DEF Settled
  <2>13. CASE z.ret # 0
    BY <2>3, <2>6, <2>7, <2>11, <2>13, Zenon
  <2> QED
    BY <2>12, <2>13
<1> QED
  BY <1>1, <1>2

-----------------------------------------------------------------------------
(* The inductive invariant *)

\* The removal of the current storage is still to be handled.
GoneDue == Gone(d.cur) \in Range(msgs) \cup Range(unannounced)

\* From its start on, the daemon is on the storage it calls current, or the
\* announcement that tells it to leave is on its way: the invariant behind
\* FollowsCards, which only speaks of the moments when nothing is on its way.
Follows == pc # "boot" /\ ~missed /\ ~d.stray /\ ~d.late => GoneDue \/ OnCurrent(d)

\* The part of TypeOK that is not about d.
EnvOK ==
  /\ pc \in {"boot", "input", "loop"}
  /\ vold \in {"none", "polled", "closed"}
  /\ mounted \subseteq Cards /\ leaving \subseteq mounted
  /\ unannounced \in Seq(AllMessages) /\ msgs \in Seq(AllMessages)
  /\ logged \in [Streams -> Nat] /\ events \in Nat
  /\ cfg \in [ext : BOOLEAN, seq : BOOLEAN]
  /\ config_changed \in BOOLEAN /\ missed \in BOOLEAN

\* The inductive invariant.
Inv == EnvOK /\ Sane(d) /\ Clocked(d) /\ Booked(d, logged) /\ Follows

\* It implies the four invariants.
LEMMA InvImplies ==
  ASSUME Inv
  PROVE  TypeOK /\ Accounted /\ NothingForgotten /\ FollowsCards
<1>1. TypeOK
  BY Zenon DEF Inv, TypeOK, EnvOK, Sane, Clocked
<1>2. Accounted
  BY DEF Inv, Accounted, Booked
<1>3. NothingForgotten
  BY DEF Inv, Clocked, NothingForgotten, Handled
<1>4. ASSUME Quiet PROVE OnCurrent(d)
  <2>1. Range(msgs) = {} /\ Range(unannounced) = {}
    BY <1>4, EmptySequence DEF Quiet
  <2>2. pc # "boot" /\ ~missed /\ ~d.stray /\ ~d.late
    BY <1>4 DEF Quiet
  <2> QED
    BY <2>1, <2>2 DEF Inv, Follows, GoneDue
<1> QED
  BY <1>1, <1>2, <1>3, <1>4 DEF FollowsCards

\* A sequence has its head and what is in its tail.
LEMMA TailEntries ==
  ASSUME NEW S, NEW q \in Seq(S), q # <<>>
  PROVE  Range(q) \subseteq {Head(q)} \cup Range(Tail(q))
<1>1. /\ Len(q) \in Nat /\ DOMAIN q = 1..Len(q) /\ Head(q) = q[1]
      /\ Len(q) >= 1 /\ DOMAIN Tail(q) = 1..(Len(q) - 1)
      /\ \A k \in 1..(Len(q) - 1) : Tail(q)[k] = q[k + 1]
  OBVIOUS
<1>2. ASSUME NEW k \in 1..Len(q), k # 1 PROVE q[k] \in Range(Tail(q))
  <2>1. k - 1 \in 1..(Len(q) - 1) /\ (k - 1) + 1 = k
    BY <1>1, <1>2
  <2>2. Tail(q)[k - 1] = q[k]
    BY <1>1, <2>1
  <2> QED
    BY <1>1, <2>1, <2>2, Zenon DEF Range
<1> QED
  BY <1>1, <1>2 DEF Range

\* A daemon that stayed where it was follows the cards as before.
LEMMA FollowsKept ==
  ASSUME Inv, Unmoved(d, d'), UNCHANGED <<pc, env, msgs, missed>>
  PROVE  Follows'
<1>1. ASSUME (pc # "boot" /\ ~missed /\ ~d.stray /\ ~d.late)' PROVE (GoneDue \/ OnCurrent(d))'
  <2>1. GoneDue \/ OnCurrent(d)
    BY <1>1 DEF Inv, Follows, Unmoved
  <2>2. CASE GoneDue
    BY <2>2 DEF GoneDue, Unmoved, env
  <2>3. CASE OnCurrent(d)
    <3>1. OnCurrent(d')
      BY <1>1, <2>3 DEF Unmoved
    <3> QED
      BY <3>1, Zenon DEF OnCurrent, Writable, env
  <2> QED
    BY <2>1, <2>2, <2>3, SMTT(30)
<1> QED
  BY <1>1 DEF Follows

\* One that settled follows them.
LEMMA FollowsSettled ==
  ASSUME Settled(d'), UNCHANGED env
  PROVE  Follows'
BY SettledOnCurrent, Zenon DEF Follows, OnCurrent, Settled, Writable, env

-----------------------------------------------------------------------------
(* Every action keeps the invariant *)

\* The start: no entries, no outputs, nothing to follow.
LEMMA InvInit == Init => Inv
<1> SUFFICES ASSUME Init PROVE Inv
  OBVIOUS
<1> DEFINE q == <<>>
<1>1. Range(q) = {} /\ IsInjective(q) /\ q \in Seq(Nat) /\ Len(q) = 0
  BY EmptySequence
<1>2. /\ EnvOK /\ pc = "boot"
  <2>1. unannounced \in Seq(AllMessages) /\ msgs \in Seq(AllMessages)
    <3>1. unannounced = <<>> /\ msgs = <<>>
      BY Zenon DEF Init
    <3> QED
      BY <3>1
  <2>2. /\ pc = "boot" /\ vold = "none" /\ config_changed = FALSE /\ mounted \in SUBSET Cards
        /\ leaving = {} /\ logged = [i \in Streams |-> 0] /\ events = 0 /\ missed = FALSE
        /\ cfg \in [ext : BOOLEAN, seq : BOOLEAN]
    BY Zenon DEF Init
  <2> QED
    BY <2>1, <2>2, Zenon DEF EnvOK
<1>3. PICK dirs \in SUBSET Cards :
        d = [cur |-> "USERDATA", out |-> [i \in Streams |-> Closed], buf |-> [i \in Streams |-> q],
             unwritten |-> 0, timer |-> FALSE, total |-> 0, max |-> "USERDATA", saved |-> {},
             ret |-> 0, dirs |-> dirs, there |-> [s \in Storages |-> {}],
             file |-> [s \in Storages |-> [i \in Streams |-> q]],
             archive |-> [i \in Streams |-> {}], lost |-> [i \in Streams |-> {}],
             kept |-> {}, harm |-> FALSE, stray |-> FALSE, late |-> FALSE, faults |-> 0]
  BY Zenon DEF Init
<1>4. Booked(d, logged) /\ Clocked(d)
  <2> DEFINE B == [i \in Streams |-> q]
             F == [s \in Storages |-> B]
             E == [i \in Streams |-> {}]
  <2>1. d.buf = B /\ d.file = F /\ d.archive = E /\ d.lost = E /\ d.unwritten = 0
    BY <1>3, Zenon
  <2>2. logged = [i \in Streams |-> 0]
    BY Zenon DEF Init
  <2> HIDE DEF q
  <2>3. ASSUME NEW i \in Streams PROVE Once(d, i, logged[i])
    <3>1. /\ d.buf[i] = q /\ d.archive[i] = {} /\ d.lost[i] = {} /\ logged[i] = 0
          /\ \A s \in Storages : d.file[s][i] = q
      BY <2>1, <2>2
    <3>2. ASSUME NEW p \in Places PROVE Held(d, i, p) = {}
      <4>1. CASE p \in Storages
        BY <1>1, <3>1, <4>1, HeldFile, ZenonT(30)
      <4>2. CASE p \in {"buffer", "archive", "lost"}
        BY <1>1, <3>1, <4>2, HeldAt, SMTT(30)
      <4> QED
        BY <4>1, <4>2 DEF Places
    <3>3. 1..logged[i] = {}
      BY <3>1
    <3> QED
      BY <1>1, <3>1, <3>2, <3>3, ZenonT(30) DEF Once
  <2>4. Booked(d, logged)
    BY <2>3 DEF Booked
  <2>5. Clocked(d)
    <3>1. BufSize \in Nat /\ 0 < Buffering
      BY AplogdAssumption
    <3>2. ASSUME NEW i \in Streams PROVE Len(d.buf[i]) <= BufSize /\ Handled(d, i)
      <4>1. d.buf[i] = q
        BY <2>1
      <4> QED
        BY <1>1, <3>1, <4>1, SMTT(30) DEF Handled, q
    <3> QED
      BY <2>1, <3>1, <3>2, Zenon DEF Clocked
  <2> QED
    BY <2>4, <2>5
<1>5. Sane(d)
  <2>1. \A i \in Streams : ~d.out[i].live
    BY <1>3, Zenon DEF Closed
  <2> DEFINE O == [i \in Streams |-> Closed]
             B == [i \in Streams |-> q]
             T == [s \in Storages |-> {}]
             F == [s \in Storages |-> B]
             E == [i \in Streams |-> {}]
  <2>2. /\ O \in [Streams -> [at : Storages \cup {"none"}, live : BOOLEAN]]
        /\ T \in [Storages -> SUBSET Streams] /\ E \in [Streams -> SUBSET Nat]
    BY DEF Closed
  <2>3. B \in [Streams -> Seq(Nat)] /\ F \in [Storages -> [Streams -> Seq(Nat)]]
    <3> HIDE DEF q
    <3> QED
      BY <1>1
  <2>4. d = [cur |-> "USERDATA", out |-> O, buf |-> B,
             unwritten |-> 0, timer |-> FALSE, total |-> 0, max |-> "USERDATA", saved |-> {},
             ret |-> 0, dirs |-> dirs, there |-> T, file |-> F, archive |-> E, lost |-> E,
             kept |-> {}, harm |-> FALSE, stray |-> FALSE, late |-> FALSE, faults |-> 0]
    BY <1>3, Zenon
  <2>5. dirs \in SUBSET Storages /\ "USERDATA" \in Storages
    BY DEF Storages
  <2> HIDE DEF O, B, T, F, E
  <2>6. d \in Daemon
    BY <2>2, <2>3, <2>4, <2>5, ZenonT(30) DEF Daemon
  <2> QED
    BY <2>1, <2>6 DEF Sane
<1> QED
  BY <1>2, <1>4, <1>5 DEF Inv, Follows

\* The clock reads the same in a state with the same buffers and clock.
LEMMA ClockedSame ==
  ASSUME NEW x, NEW y, Clocked(x), y.buf = x.buf, SameClock(x, y)
  PROVE  Clocked(y)
BY DEF Clocked, SameClock, Handled

\* BootFinish ends settled: USERDATA is there when no card can be used.
LEMMA BootFinishInv ==
  ASSUME Inv, BootFinish
  PROVE  Inv'
<1> DEFINE w == aplogd_log_save(d, "SECONDARY")
           a == aplogd_config_load(w)
<1>0. {"SECONDARY", "EXTERNAL", "USERDATA"} \subseteq Storages
  BY DEF Storages, Cards
<1>1. PICK b \in Setup(a, "SECONDARY", "EXTERNAL") : \E c \in Setup(b, "EXTERNAL", "USERDATA") :
        d' \in Setup(c, "USERDATA", "none")
  BY DEF BootFinish, Setup, Then
<1>2. PICK c \in Setup(b, "EXTERNAL", "USERDATA") : d' \in Setup(c, "USERDATA", "none")
  BY <1>1
<1>3. Sane(w) /\ Booked(w, logged) /\ Moved(d, w, logged)
  BY <1>0, LogSave, Zenon DEF Inv, Moved, Stays
<1>4. Moved(w, a, logged) /\ a.cur \in {"SECONDARY", "USERDATA"}
  <2> HIDE DEF w
  <2> QED
    BY <1>3, ConfigLoad, SMTT(30) DEF aplogd_calc_storage_pref
<1> HIDE DEF a, w
<1>5. /\ Moved(a, b, logged)
      /\ b.cur \in {"EXTERNAL", "USERDATA"} \/ Settled(b)
  BY <1>0, <1>1, <1>4, SetupMoved, SMTT(30) DEF Moved
<1>6. /\ Moved(b, c, logged)
      /\ c.cur = "USERDATA" \/ Settled(c)
  BY <1>0, <1>2, <1>5, SetupMoved, SMTT(30) DEF Moved
<1>7. Moved(c, d', logged) /\ Settled(d')
  BY <1>0, <1>2, <1>6, SetupMoved, SMTT(30) DEF Moved
<1>8. Moved(d, d', logged)
  BY <1>3, <1>4, <1>5, <1>6, <1>7, MovedTransitive, ZenonT(30)
<1>9. Clocked(d')
  BY <1>8, ClockedSame DEF Inv, Moved
<1>10. EnvOK'
  BY Zenon DEF BootFinish, Inv, EnvOK, env
<1>11. Follows'
  BY <1>7, FollowsSettled, Zenon DEF BootFinish, env
<1>12. logged' = logged
  BY Zenon DEF BootFinish
<1> QED
  BY <1>8, <1>9, <1>10, <1>11, <1>12, SMTT(30) DEF Inv, Moved

\* aplogd_input_setup, SIGUSR1 and the like do not touch the daemon or the cards.
LEMMA SameDaemonInv ==
  ASSUME Inv, EnvOK', UNCHANGED <<d, env, msgs, logged, missed>>, pc' = pc \/ pc # "boot"
  PROVE  Inv'
<1>1. Follows'
  BY Zenon DEF Inv, Follows, GoneDue, OnCurrent, Writable, env
<1> QED
  BY <1>1 DEF Inv, env

\* aplogd_input_setup connects to vold and reads nothing yet.
LEMMA InputSetupInv ==
  ASSUME Inv, aplogd_input_setup
  PROVE  Inv'
<1>1. EnvOK'
  BY DEF aplogd_input_setup, Inv, EnvOK, env
<1> QED
  BY <1>1, SameDaemonInv, SMTT(30) DEF aplogd_input_setup

\* The signal only sets its flag.
LEMMA SIGUSR1Inv ==
  ASSUME Inv, SIGUSR1
  PROVE  Inv'
<1>1. EnvOK'
  BY DEF SIGUSR1, Inv, EnvOK, env
<1> QED
  BY <1>1, SameDaemonInv, SMTT(30) DEF SIGUSR1

\* ConfigChanged: settled on the preferred storage, unmoved, or stray.
LEMMA ConfigChangedInv ==
  ASSUME Inv, ConfigChanged
  PROVE  Inv'
<1> DEFINE p == aplogd_calc_storage_pref
<1>1. PICK x \in IF d.cur = p THEN {d} ELSE switch_storage(d, d.cur, p) :
        d' = [aplogd_config_load(x) EXCEPT !.stray = @ \/ x.cur # p]
  BY Zenon DEF ConfigChanged
<1>2. p \in Storages
  BY DEF aplogd_calc_storage_pref, Storages, Cards
<1>3. /\ Moved(d, x, logged)
      /\ \/ x.cur = p /\ Settled(x)
         \/ x.cur # p
         \/ x = d /\ d.cur = p
  <2>1. CASE d.cur = p
    BY <1>1, <2>1, SMTT(30) DEF Inv, Moved, SameClock
  <2>2. CASE d.cur # p
    <3>1. x \in switch_storage(d, d.cur, p)
      BY <1>1, <2>2
    <3> HIDE DEF p
    <3> QED
      BY <1>2, <2>2, <3>1, SwitchMoved, SMTT(30) DEF Inv, Unmoved
  <2> QED
    BY <2>1, <2>2
<1>4. PICK z : z = aplogd_config_load(x)
  OBVIOUS
<1>5. Moved(x, z, logged) /\ z.cur = p /\ z.out = x.out /\ z.stray = x.stray /\ z.late = x.late
  BY <1>3, <1>4, ConfigLoad, Zenon DEF Moved
<1>6. d' = [z EXCEPT !.stray = z.stray \/ x.cur # p]
  BY <1>1, <1>4
<1> HIDE DEF p
<1>7. /\ d' \in Daemon /\ d'.cur = p /\ d'.out = x.out /\ d'.late = x.late
      /\ d'.stray = (x.stray \/ x.cur # p)
      /\ SameEntries(z, d') /\ SameClock(z, d')
  BY <1>5, <1>6, Zenon DEF Moved, Sane, Daemon, SameEntries, SameClock
<1>8. Sane(d')
  BY <1>5, <1>7, Zenon DEF Sane, Moved
<1>9. Moved(d, d', logged)
  <2>1. Booked(d', logged)
    BY <1>5, <1>7, BookedSame, Zenon DEF Moved
  <2> QED
    BY <1>3, <1>5, <1>7, <1>8, <2>1, ZenonT(30) DEF Moved, SameEntries, SameClock
<1>10. Clocked(d')
  BY <1>9, ClockedSame, Zenon DEF Inv, Moved
<1>11. EnvOK'
  BY Zenon DEF ConfigChanged, Inv, EnvOK, env
<1>12. UNCHANGED <<pc, env, msgs, logged, missed>>
  BY DEF ConfigChanged
<1>13. Follows'
  <2>1. CASE x.cur = p /\ Settled(x)
    <3>1. Settled(d')
      BY <1>7, <2>1, Zenon DEF Settled
    <3> QED
      BY <1>12, <3>1, FollowsSettled
  <2>2. CASE x.cur # p
    BY <1>7, <2>2, Zenon DEF Follows
  <2>3. CASE x = d /\ d.cur = p
    <3>0. d'.stray = d.stray
      <4>1. d.stray \in BOOLEAN
        BY Zenon DEF Inv, Sane, Daemon
      <4> QED
        BY <1>7, <2>3, <4>1, Zenon
    <3>1. Unmoved(d, d')
      BY <1>7, <2>3, <3>0, Zenon DEF Unmoved, OnCurrent
    <3> QED
      BY <1>12, <3>1, FollowsKept
  <2> QED
    BY <1>3, <2>1, <2>2, <2>3, SMTT(30)
<1> QED
  BY <1>9, <1>10, <1>11, <1>12, <1>13, SMTT(30) DEF Inv, Moved

\* Writing the buffers leaves the daemon on its storage.
LEMMA ServedUnmoved ==
  ASSUME NEW x, NEW y, y.cur = x.cur, y.stray = x.stray, x.late => y.late, OutsOn(x) => OutsOn(y)
  PROVE  Unmoved(x, y)
BY Zenon DEF Unmoved, OnCurrent, OutsOn

\* ReadEntry: the entry is booked as it is counted.
LEMMA ReadEntryInv ==
  ASSUME Inv, NEW i \in Streams, ReadEntry(i)
  PROVE  Inv'
<1>1. d' \in Buffered(d, i, logged[i] + 1)
  BY DEF ReadEntry, Polled
<1>2. /\ logged' = [logged EXCEPT ![i] = @ + 1] /\ UNCHANGED <<pc, env, msgs, missed>>
      /\ UNCHANGED <<cfg, config_changed, events>>
      /\ vold' \in IF vold = "none" THEN {"none", "polled"} ELSE {vold}
  BY DEF ReadEntry, Polled
<1>3. logged \in [Streams -> Nat]
  BY DEF Inv, EnvOK
<1>4. /\ Sane(d') /\ Clocked(d') /\ Booked(d', logged')
      /\ d'.cur = d.cur /\ d'.stray = d.stray /\ (d.late => d'.late) /\ (OutsOn(d) => OutsOn(d'))
  BY <1>1, <1>2, <1>3, BufferedEntry, ZenonT(30) DEF Inv
<1>5. EnvOK'
  BY <1>2, <1>3 DEF Inv, EnvOK, env
<1>6. Follows'
  BY <1>2, <1>4, ServedUnmoved, FollowsKept, Zenon
<1> QED
  BY <1>4, <1>5, <1>6 DEF Inv

\* FilteredEntry only starts the timeout.
LEMMA FilteredEntryInv ==
  ASSUME Inv, FilteredEntry
  PROVE  Inv'
<1>1. d' = [d EXCEPT !.timer = TRUE]
  BY DEF FilteredEntry, Polled
<1>2. /\ UNCHANGED <<pc, env, msgs, logged, missed>> /\ UNCHANGED <<cfg, config_changed, events>>
      /\ vold' \in IF vold = "none" THEN {"none", "polled"} ELSE {vold}
  BY DEF FilteredEntry, Polled
<1>3. /\ d' \in Daemon /\ SameEntries(d, d') /\ SameView(d, d') /\ d'.out = d.out /\ d'.timer
      /\ d'.unwritten = d.unwritten
  BY <1>1, Zenon DEF Inv, Sane, Daemon, SameEntries, SameView
<1>4. Sane(d')
  BY <1>3, Zenon DEF Inv, Sane
<1>5. Booked(d', logged')
  BY <1>2, <1>3, BookedSame, SMTT(30) DEF Inv
<1>6. Clocked(d')
  BY <1>3 DEF Inv, Clocked, SameEntries
<1>7. EnvOK'
  BY <1>2, Zenon DEF Inv, EnvOK, env
<1>8. Follows'
  <2>1. Unmoved(d, d')
    BY <1>3, Zenon DEF Unmoved, OnCurrent, SameView
  <2> QED
    BY <1>2, <2>1, FollowsKept
<1> QED
  BY <1>4, <1>5, <1>6, <1>7, <1>8, SMTT(30) DEF Inv

\* PollTimeout writes every buffer before it turns the timeout off.
LEMMA PollTimeoutInv ==
  ASSUME Inv, PollTimeout
  PROVE  Inv'
<1>1. d' \in aplogd_rambuf_outputall(d)
  BY DEF PollTimeout, Polled
<1>2. /\ UNCHANGED <<pc, env, msgs, logged, missed>> /\ UNCHANGED <<cfg, config_changed, events>>
      /\ vold' \in IF vold = "none" THEN {"none", "polled"} ELSE {vold}
  BY DEF PollTimeout, Polled
<1>3. /\ Served(d, d') /\ Booked(d', logged) /\ d'.unwritten = 0
      /\ \A i \in Streams : Handled(d', i)
  BY <1>1, RambufOutputall DEF Inv
<1>4. ASSUME NEW i \in Streams PROVE Len(d'.buf[i]) <= BufSize
  <2>1. Len(d'.buf[i]) <= Len(d.buf[i]) /\ Len(d.buf[i]) <= BufSize
    BY <1>3 DEF Inv, Served, Clocked
  <2>2. Len(d.buf[i]) \in Nat /\ Len(d'.buf[i]) \in Nat
    <3>1. d.buf[i] \in Seq(Nat) /\ d'.buf[i] \in Seq(Nat)
      BY <1>3, Zenon DEF Inv, Served, Sane, Daemon
    <3> QED
      BY <3>1
  <2>3. BufSize \in Nat
    BY AplogdAssumption
  <2> QED
    BY <2>1, <2>2, <2>3, SMTT(30)
<1>5. Clocked(d')
  <2>1. 0 < Buffering
    BY AplogdAssumption, SMTT(30)
  <2> QED
    BY <1>3, <1>4, <2>1, SMTT(30) DEF Clocked
<1>6. EnvOK'
  BY <1>2 DEF Inv, EnvOK, env
<1>7. Follows'
  BY <1>2, <1>3, ServedUnmoved, FollowsKept, Zenon DEF Served
<1>8. Booked(d', logged')
  BY <1>2, <1>3, SMTT(30)
<1> QED
  BY <1>3, <1>5, <1>6, <1>7, <1>8, SMTT(30) DEF Inv, Served

\* ReadVold: the one message it handles was not the one that Follows counts on,
\* or the daemon has settled; the messages behind it are missed.
LEMMA ReadVoldInv ==
  ASSUME Inv, ReadVold
  PROVE  Inv'
<1>1. PICK n \in 1..Len(msgs) : msgs' = SubSeq(msgs, n + 1, Len(msgs)) /\ missed' = (missed \/ n > 1)
  BY DEF ReadVold
<1>2. d' \in VoldMessage(d, Head(msgs))
  BY DEF ReadVold, Polled
<1>3. /\ UNCHANGED <<pc, env, logged>> /\ UNCHANGED <<cfg, config_changed, events>>
      /\ vold' \in IF vold = "none" THEN {"none", "polled"} ELSE {vold}
  BY DEF ReadVold, Polled
<1>4. msgs \in Seq(AllMessages) /\ msgs # <<>> /\ Len(msgs) \in Nat
  <2>1. msgs \in Seq(AllMessages)
    BY DEF Inv, EnvOK
  <2> QED
    BY <1>1, <2>1
<1>5. Head(msgs) \in AllMessages
  BY <1>4
<1>6. /\ Moved(d, d', logged)
      /\ Settled(d') \/ (Unmoved(d, d') /\ Head(msgs) # Gone(d.cur))
  BY <1>2, <1>5, VoldMessageMoved, SMTT(30) DEF Inv
<1>7. EnvOK'
  <2>1. msgs' \in Seq(AllMessages)
    BY <1>1, <1>4
  <2>2. missed' \in BOOLEAN
    BY <1>1
  <2> QED
    BY <1>3, <2>1, <2>2 DEF Inv, EnvOK, env
<1>8. Follows'
  <2>1. CASE Settled(d')
    BY <1>3, <2>1, FollowsSettled
  <2>2. CASE missed'
    BY <2>2 DEF Follows
  <2>3. CASE Unmoved(d, d') /\ Head(msgs) # Gone(d.cur) /\ ~missed'
    <3>1. n = 1 /\ ~missed
      <4>1. ~missed /\ ~(n > 1)
        BY <1>1, <2>3, Zenon
      <4>2. n = 1
        BY <1>4, <4>1
      <4> QED
        BY <4>1, <4>2
    <3>2. msgs' = Tail(msgs)
      BY <1>1, <1>4, <3>1, SMTT(30)
    <3>3. ASSUME (pc # "boot" /\ ~d.stray /\ ~d.late)' PROVE (GoneDue \/ OnCurrent(d))'
      <4>1. GoneDue \/ OnCurrent(d)
        BY <1>3, <2>3, <3>1, <3>3, Zenon DEF Inv, Follows, Unmoved
      <4>2. CASE GoneDue
        <5>1. Range(msgs) \subseteq {Head(msgs)} \cup Range(msgs')
          BY <1>4, <3>2, TailEntries, SMTT(30)
        <5>2. unannounced' = unannounced /\ d'.cur = d.cur
          BY <1>3, <2>3 DEF env, Unmoved
        <5> QED
          BY <2>3, <4>2, <5>1, <5>2, Zenon DEF GoneDue
      <4>3. CASE OnCurrent(d)
        <5>1. OnCurrent(d')
          BY <2>3, <3>3, <4>3, SMTT(30) DEF Unmoved
        <5> QED
          BY <1>3, <5>1, Zenon DEF OnCurrent, Writable, env
      <4> QED
        BY <4>1, <4>2, <4>3
    <3> QED
      BY <3>3 DEF Follows
  <2> QED
    BY <1>6, <2>1, <2>2, <2>3, SMTT(30)
<1>9. Clocked(d')
  BY <1>6, ClockedSame DEF Inv, Moved
<1>10. Booked(d', logged')
  BY <1>3, <1>6, Zenon DEF Moved
<1> QED
  BY <1>6, <1>7, <1>8, <1>9, <1>10, SMTT(30) DEF Inv, Moved

\* VoldHup handles what is on the stack; the daemon no longer hears of the cards.
LEMMA VoldHupInv ==
  ASSUME Inv, VoldHup
  PROVE  Inv'
<1>1. d' = d \/ \E m \in AllMessages : d' \in VoldMessage(d, m)
  BY DEF VoldHup
<1>2. /\ UNCHANGED <<pc, cfg, config_changed, env, logged>> /\ events' = events + 1
      /\ vold' = "closed" /\ missed' = TRUE
  BY DEF VoldHup
<1>3. Moved(d, d', logged)
  <2>1. CASE d' = d
    BY <2>1 DEF Inv, Moved, SameClock
  <2>2. CASE \E m \in AllMessages : d' \in VoldMessage(d, m)
    BY <2>2, VoldMessageMoved, SMTT(30) DEF Inv
  <2> QED
    BY <1>1, <2>1, <2>2, SMTT(30)
<1>4. EnvOK'
  <2>1. msgs' \in Seq(AllMessages)
    BY DEF VoldHup
  <2> QED
    BY <1>2, <2>1, SMTT(30) DEF Inv, EnvOK, env
<1>5. Clocked(d')
  BY <1>3, ClockedSame DEF Inv, Moved
<1>6. Booked(d', logged') /\ Follows'
  BY <1>2, <1>3, Zenon DEF Moved, Follows
<1> QED
  BY <1>3, <1>4, <1>5, <1>6, SMTT(30) DEF Inv, Moved

\* CardChange: the card that goes is another one, or its removal is announced.
LEMMA CardChangeInv ==
  ASSUME Inv, NEW s \in Cards, CardChange(s)
  PROVE  Inv'
<1>1. UNCHANGED <<pc, cfg, d, vold, config_changed, msgs, logged, missed>> /\ events' = events + 1
  BY Zenon DEF CardChange
<1>2. PICK k \in {"mounted", "gone"} :
        /\ unannounced' = Append(unannounced, [k |-> k, s |-> s])
        /\ k = "mounted" => mounted' = mounted \cup {s} /\ leaving' = leaving
        /\ k = "gone" => /\ s \in mounted \ leaving
                         /\ \/ mounted' = mounted \ {s} /\ leaving' = leaving
                            \/ mounted' = mounted /\ leaving' = leaving \cup {s}
  BY Zenon DEF CardChange
<1>3. [k |-> k, s |-> s] \in AllMessages /\ unannounced \in Seq(AllMessages)
  BY Zenon DEF AllMessages, Inv, EnvOK
<1>4. EnvOK'
  <2>1. unannounced' \in Seq(AllMessages)
    BY <1>2, <1>3
  <2>2. mounted' \subseteq Cards /\ leaving' \subseteq mounted'
    BY <1>2, Zenon DEF Inv, EnvOK
  <2> QED
    <3>1. events' \in Nat
      BY <1>1 DEF Inv, EnvOK
    <3> QED
      BY <1>1, <2>1, <2>2, <3>1, ZenonT(30) DEF Inv, EnvOK
<1>5. Range(unannounced') = Range(unannounced) \cup {[k |-> k, s |-> s]}
  <2>1. PICK q \in Seq(AllMessages), m \in AllMessages : q = unannounced /\ m = [k |-> k, s |-> s]
    BY <1>3, Zenon
  <2>2. Range(Append(q, m)) = Range(q) \cup {m}
    BY AppendEntries
  <2> QED
    BY <1>2, <2>1, <2>2, Zenon
<1>6. Follows'
  <2>1. ASSUME pc # "boot" /\ ~missed /\ ~d.stray /\ ~d.late PROVE (GoneDue \/ OnCurrent(d))'
    <3>1. GoneDue \/ OnCurrent(d)
      BY <2>1 DEF Inv, Follows
    <3>2. CASE GoneDue
      BY <1>1, <1>5, <3>2, Zenon DEF GoneDue
    <3>3. CASE k = "gone" /\ s = d.cur
      BY <1>1, <1>5, <3>3, Zenon DEF GoneDue, Gone
    <3>4. CASE OnCurrent(d) /\ ~(k = "gone" /\ s = d.cur)
      BY <1>1, <1>2, <3>4, Zenon DEF OnCurrent, Writable
    <3> QED
      BY <3>1, <3>2, <3>3, <3>4, SMTT(30)
  <2> QED
    BY <1>1, <2>1, Zenon DEF Follows
<1> QED
  BY <1>1, <1>4, <1>6 DEF Inv

\* Unmounted: a card on its way out is not the daemon's, or its message is due.
LEMMA UnmountedInv ==
  ASSUME Inv, NEW s \in Cards, Unmounted(s)
  PROVE  Inv'
<1>1. /\ UNCHANGED <<pc, cfg, d, vold, config_changed, unannounced, msgs, logged, events, missed>>
      /\ s \in leaving /\ mounted' = mounted \ {s} /\ leaving' = leaving \ {s}
  BY Zenon DEF Unmounted
<1>2. EnvOK'
  BY <1>1, Zenon DEF Inv, EnvOK
<1>3. Follows'
  BY <1>1, Zenon DEF Inv, Follows, GoneDue, OnCurrent, Writable
<1> QED
  BY <1>1, <1>2, <1>3, Zenon DEF Inv

\* Announce: the message reaches the socket, or is missed.
LEMMA AnnounceInv ==
  ASSUME Inv, Announce
  PROVE  Inv'
<1>1. /\ UNCHANGED <<pc, cfg, d, vold, config_changed, mounted, leaving, logged, events>>
      /\ unannounced # <<>> /\ unannounced' = Tail(unannounced)
      /\ \/ msgs' = Append(msgs, Head(unannounced)) /\ missed' = missed
         \/ missed' = TRUE /\ msgs' = msgs
  BY DEF Announce
<1>2. unannounced \in Seq(AllMessages) /\ msgs \in Seq(AllMessages)
  BY DEF Inv, EnvOK
<1>3. Head(unannounced) \in AllMessages /\ Tail(unannounced) \in Seq(AllMessages)
  BY <1>1, <1>2
<1>4. EnvOK'
  <2>1. unannounced' \in Seq(AllMessages)
    BY <1>1, <1>3, Zenon
  <2>3. msgs' \in Seq(AllMessages)
    <3>1. Append(msgs, Head(unannounced)) \in Seq(AllMessages)
      BY <1>2, <1>3
    <3> QED
      BY <1>1, <1>2, <3>1, Zenon
  <2>2. missed' \in BOOLEAN
    BY <1>1, Zenon DEF Inv, EnvOK
  <2> QED
    BY <1>1, <2>1, <2>2, <2>3, Zenon DEF Inv, EnvOK
<1>5. Follows'
  <2>1. CASE missed'
    BY <2>1 DEF Follows
  <2>2. CASE ~missed'
    <3>1. msgs' = Append(msgs, Head(unannounced)) /\ missed' = missed
      BY <1>1, <2>2, SMTT(30)
    <3>2. Range(msgs') = Range(msgs) \cup {Head(unannounced)}
      BY <1>2, <1>3, <3>1, AppendEntries, SMTT(30)
    <3>3. Range(unannounced) \subseteq {Head(unannounced)} \cup Range(unannounced')
      BY <1>1, <1>2, TailEntries
    <3>4. GoneDue => GoneDue'
      BY <1>1, <3>2, <3>3, Zenon DEF GoneDue
    <3> QED
      BY <1>1, <3>1, <3>4, Zenon DEF Inv, Follows, OnCurrent, Writable
  <2> QED
    BY <2>1, <2>2
<1> QED
  BY <1>1, <1>4, <1>5, Zenon DEF Inv

\* A step that changes nothing.
LEMMA StutterInv ==
  ASSUME Inv, UNCHANGED vars
  PROVE  Inv'
<1>1. UNCHANGED <<pc, cfg, d, vold, config_changed, env, msgs, logged, events, missed>>
  BY DEF vars
<1>2. EnvOK'
  BY <1>1, Zenon DEF Inv, EnvOK, env
<1> QED
  BY <1>1, <1>2, SameDaemonInv, SMTT(30)

\* Every step keeps the invariant.
LEMMA InvNext ==
  ASSUME Inv, [Next]_vars
  PROVE  Inv'
<1>1. CASE \E i \in Streams : ReadEntry(i)
  BY <1>1, ReadEntryInv
<1>2. CASE \E s \in Cards : CardChange(s) \/ Unmounted(s)
  BY <1>2, CardChangeInv, UnmountedInv
<1> QED
  BY <1>1, <1>2, BootFinishInv, InputSetupInv, ConfigChangedInv, FilteredEntryInv, PollTimeoutInv,
     ReadVoldInv, VoldHupInv, SIGUSR1Inv, AnnounceInv, StutterInv, SMTT(30) DEF Next

-----------------------------------------------------------------------------
(* The theorems *)

\* The inductive invariant holds in every reachable state.
THEOREM AplogdInvariant == Spec => []Inv
<1>1. Inv /\ [Next]_vars => Inv'
  BY InvNext
<1> QED
  BY InvInit, <1>1, PTL DEF Spec

\* The state is well-formed: for every size of the RAM buffers and every
\* threshold of the write-out below it, no buffer outgrows aplogd_ram_buff_size
\* and fewer than aplogd_output_buffering bytes are counted.
THEOREM AplogdTyped == Spec => []TypeOK
<1>1. Inv => TypeOK
  BY InvImplies
<1> QED
  BY AplogdInvariant, <1>1, PTL

\* Buffering, writing, rotating, saving and moving logs keep every entry in
\* exactly one place, and once there, unless a file was damaged: for any number
\* of inputs, any order of them, and any number of entries, cards' changes and
\* failed calls.
THEOREM AplogdAccounted == Spec => []Accounted
<1>1. Inv => Accounted
  BY InvImplies
<1> QED
  BY AplogdInvariant, <1>1, PTL

\* When every announcement of vold has been handled, and none was missed, the
\* outputs are on the current storage and that storage is there to stay.
THEOREM AplogdFollowsCards == Spec => []FollowsCards
<1>1. Inv => FollowsCards
  BY InvImplies
<1> QED
  BY AplogdInvariant, <1>1, PTL

\* What waits in a RAM buffer has the timeout of poll() running for it, or its
\* last write failed.
THEOREM AplogdNothingForgotten == Spec => []NothingForgotten
<1>1. Inv => NothingForgotten
  BY InvImplies
<1> QED
  BY AplogdInvariant, <1>1, PTL
=============================================================================
