--------------------------- MODULE Scratch_proofs ----------------------------
(***************************************************************************)
(* What the scratch buffers and the allocation counters promise, for any   *)
(* finite number of threads, any workload and any depth of nested calls.   *)
(*                                                                         *)
(* LocalInv is inductive and says of each thread how its calls, its set of *)
(* buffers and what was needed of them fit together; CountInv relates what *)
(* all threads hold to current_bytes, PeakInv current_bytes to peak_bytes. *)
(* A step of a call is a Move of one thread: what it does to the thread's  *)
(* calls, set and record is worked out once for each action, and the       *)
(* invariants are shown to bear any Move that keeps to a few conditions.   *)
(***************************************************************************)
EXTENDS Scratch, Facts, FiniteSetTheorems

-----------------------------------------------------------------------------
(* The invariants of a thread: s are its calls, l its set, u what its      *)
(* calls needed of it                                                      *)

Kinds == {"text", "ids"}
Frame == [at : {"slot", "reserve", "use", "trim", "free", "exit"}, own : BOOLEAN,
          cap : [BufferNames -> Nat], dim : Nat, todo : SUBSET BufferNames]
Slot == [made : BOOLEAN, inUse : BOOLEAN, cap : [BufferNames -> Nat]]

Types ==
  /\ CountersTypeOK
  /\ work \in Workloads
  /\ tls \in [Threads -> Slot]
  /\ frames \in [Threads -> Seq(Frame)]
  /\ failures \in Nat
  /\ used \in [Threads -> [BufferNames -> Nat]]

(* What a call is at says what it may own. *)
CallOK(c, l) ==
  /\ c.at \in {"trim", "exit"} => c.own
  /\ c.at \in {"slot", "free"} => ~c.own
  /\ c.at = "slot" => c.cap = Nothing
  /\ c.at # "exit" => c.dim > 0
  /\ c.own => l.made
  /\ c.at = "trim" => \A b \in c.todo : b \in Kinds /\ l.cap[b] > Retained(b)

(* A call goes on while another is nested in it only from where it uses    *)
(* its buffers, so the mark of a thread's set is that of the one owner.    *)
Stack(s, l) ==
  /\ \A i \in 1 .. Len(s) : CallOK(s[i], l)
  /\ \A i \in 1 .. Len(s) : i < Len(s) => s[i].at = "use"
  /\ \A i \in 1 .. Len(s) : s[i].at = "exit" => Len(s) = 1
  /\ \A i, j \in 1 .. Len(s) : s[i].own /\ s[j].own => i = j
  /\ l.inUse <=> \E i \in 1 .. Len(s) : s[i].own /\ s[i].at = "use"
  /\ ~l.made => l = None

(* What is larger than it is kept is so for a call that will trim it. *)
WillTrim(c, b) ==
  c.own /\ (c.at \in {"reserve", "use"} \/ (c.at = "trim" /\ b \in c.todo))
Bounded(s, l) ==
  \A b \in Kinds : l.cap[b] <= Retained(b) \/ \E i \in 1 .. Len(s) : WillTrim(s[i], b)

(* A buffer is smaller than what was needed of it only if it was trimmed.  *)
Enough(l, u) == \A b \in Kinds : l.cap[b] >= u[b] \/ l.cap[b] >= Retained(b)
Kept(s, l, u) == (\E i \in 1 .. Len(s) : s[i].at = "exit") \/ Enough(l, u)

StackInv == \A t \in Threads : Stack(frames[t], tls[t])
BoundedInv == failures = 0 => \A t \in Threads : Bounded(frames[t], tls[t])
KeptInv == \A t \in Threads : Kept(frames[t], tls[t], used[t])

(* What a thread is counting is still there: until it has counted it takes *)
(* no other step.                                                          *)
Counts(t) == recording[t].step \in {"sub", "add"} => recording[t].new <= InUse(t)
CountInv == (\A t \in Threads : Counts(t)) /\ current = Counted % Word

(* The peak covers what is in use, or a thread is about to see to it.      *)
Rising(t) == recording[t].step \in {"load", "swap"}
PeakInv ==
  /\ "last" \notin overtaken =>
       peak >= current \/ \E t \in Threads : Rising(t) /\ recording[t].top >= current
  /\ \A t \in Threads : recording[t].step = "swap" => recording[t].top > recording[t].seen
  /\ resetting # NoReset /\ "now" \notin overtaken => resetting >= current

-----------------------------------------------------------------------------
(* Sums *)

Some(s) == CHOOSE x \in s : TRUE
IsSum(g, f, S) == g = [s \in SUBSET S |-> IF s = {} THEN 0 ELSE f[Some(s)] + g[s \ {Some(s)}]]

LEMMA TotalIsSum ==
  ASSUME NEW f, NEW S, \E g : IsSum(g, f, S)
  PROVE  \E g : IsSum(g, f, S) /\ Total(f, S) = g[S]
<1> DEFINE h == CHOOSE g : IsSum(g, f, S)
<1>1. IsSum(h, f, S)
  OBVIOUS
<1>2. Total(f, S) = h[S]
  BY DEF Total, MapThenSumSet, MapThenFoldSet, IsSum, Some
<1> QED BY <1>1, <1>2

LEMMA SomeIn == ASSUME NEW s, s # {} PROVE Some(s) \in s
BY DEF Some

LEMMA SmallerSet ==
  ASSUME NEW S, IsFiniteSet(S), NEW s \in SUBSET S, NEW x \in s
  PROVE  /\ IsFiniteSet(s) /\ s \ {x} \in SUBSET S
         /\ Cardinality(s) \in Nat /\ Cardinality(s \ {x}) \in Nat
         /\ Cardinality(s \ {x}) = Cardinality(s) - 1
<1>1. IsFiniteSet(s)
  BY FS_Subset
<1>2. IsFiniteSet(s \ {x}) /\ Cardinality(s \ {x}) = Cardinality(s) - 1
  BY <1>1, FS_RemoveElement
<1> QED BY <1>1, <1>2, FS_CardinalityType

LEMMA SumExists ==
  ASSUME NEW f, NEW S, IsFiniteSet(S)
  PROVE  \E g : IsSum(g, f, S)
<1> DEFINE Step(g) == [s \in SUBSET S |-> IF s = {} THEN 0 ELSE f[Some(s)] + g[s \ {Some(s)}]]
           Upto(g, n) == \A s \in SUBSET S : Cardinality(s) <= n => g[s] = Step(g)[s]
           P == {n \in Nat : \E g : Upto(g, n)}
<1>s. \A s \in SUBSET S : s # {} => /\ s \ {Some(s)} \in SUBSET S
                                    /\ Cardinality(s) \in Nat
                                    /\ Cardinality(s \ {Some(s)}) = Cardinality(s) - 1
  BY SomeIn, SmallerSet
<1>e. \A s \in SUBSET S : Cardinality(s) \in Nat /\ (Cardinality(s) = 0 <=> s = {})
  BY FS_Subset, FS_EmptySet, FS_CardinalityType
<1>n. ASSUME NEW g, NEW n \in Nat, Upto(g, n)
      PROVE  \A s \in SUBSET S : Cardinality(s) <= n + 1 => Step(g)[s] = Step(Step(g))[s]
  <2> TAKE s \in SUBSET S
  <2> HAVE Cardinality(s) <= n + 1
  <2>1. CASE s = {}
    BY <2>1
  <2>2. CASE s # {}
    <3> DEFINE r == s \ {Some(s)}
    <3>1. r \in SUBSET S /\ Cardinality(r) <= n
      BY <1>s, <1>e, <2>2
    <3>2. g[r] = Step(g)[r]
      BY <3>1, <1>n
    <3> QED BY <2>2, <3>2
  <2> QED BY <2>1, <2>2
<1>1. 0 \in P
  <2> DEFINE z == [s \in SUBSET S |-> 0]
  <2>1. Upto(z, 0)
    BY <1>e
  <2> QED BY <2>1
<1>2. \A n \in P : n + 1 \in P
  <2> TAKE n \in P
  <2>1. PICK g : Upto(g, n)
    OBVIOUS
  <2>2. Upto(Step(g), n + 1)
    <3> HIDE DEF Step
    <3>1. n \in Nat
      OBVIOUS
    <3>2. \A s \in SUBSET S : Cardinality(s) <= n + 1 => Step(g)[s] = Step(Step(g))[s]
      <4> HIDE DEF Upto, P
      <4> QED BY <3>1, <1>n, <2>1
    <3> QED BY <3>2, Zenon
  <2> HIDE DEF Step, Upto
  <2>3. \E k : Upto(k, n + 1)
    BY <2>2, Zenon
  <2> QED BY <2>3
<1>3. P = Nat
  <2> HIDE DEF P
  <2>1. P \in SUBSET Nat
    BY DEF P
  <2> QED BY <2>1, <1>1, <1>2, NatInduct
<1>4. PICK g : Upto(g, Cardinality(S))
  BY <1>3, <1>e
<1>5. \A s \in SUBSET S : Cardinality(s) <= Cardinality(S)
  BY FS_Subset
<1>6. Step(g) = Step(Step(g))
  <2>1. \A s \in SUBSET S : Step(g)[s] = Step(Step(g))[s]
    BY <1>4, <1>5, <1>n, <1>e
  <2> QED BY <2>1
<1> QED BY <1>6 DEF IsSum

LEMMA SumIn ==
  ASSUME NEW N, 0 \in N, \A x, y \in N : x + y \in N,
         NEW f, NEW S, IsFiniteSet(S), \A x \in S : f[x] \in N, NEW g, IsSum(g, f, S)
  PROVE  \A s \in SUBSET S : g[s] \in N
<1> DEFINE P == {n \in Nat : \A s \in SUBSET S : Cardinality(s) = n => g[s] \in N}
<1>g. \A s \in SUBSET S : g[s] = IF s = {} THEN 0 ELSE f[Some(s)] + g[s \ {Some(s)}]
  BY DEF IsSum
<1>e. \A s \in SUBSET S : Cardinality(s) \in Nat /\ (Cardinality(s) = 0 <=> s = {})
  BY FS_Subset, FS_EmptySet, FS_CardinalityType
<1>1. 0 \in P
  BY <1>g, <1>e
<1>2. ASSUME NEW n \in P PROVE n + 1 \in P
  <2> SUFFICES ASSUME NEW s \in SUBSET S, Cardinality(s) = n + 1 PROVE g[s] \in N
    OBVIOUS
  <2>1. s # {}
    BY <1>e
  <2>a. Some(s) \in s
    BY <2>1, SomeIn
  <2>2. s \ {Some(s)} \in SUBSET S /\ Cardinality(s \ {Some(s)}) = n /\ Some(s) \in S
    BY <2>a, SmallerSet
  <2>3. g[s \ {Some(s)}] \in N
    BY <2>2
  <2> QED BY <2>1, <2>2, <2>3, <1>g
<1>3. P = Nat
  <2> HIDE DEF P
  <2>1. P \in SUBSET Nat
    BY DEF P
  <2> QED BY <2>1, <1>1, <1>2, NatInduct
<1> QED BY <1>3, <1>e

(* The order in which the elements are picked does not matter. *)
LEMMA SumAnyOrder ==
  ASSUME NEW f, NEW S, IsFiniteSet(S), \A x \in S : f[x] \in Int, NEW g, IsSum(g, f, S)
  PROVE  \A s \in SUBSET S : \A x \in s : g[s] = f[x] + g[s \ {x}]
<1> DEFINE P == {n \in Nat : \A s \in SUBSET S : Cardinality(s) = n =>
                               \A x \in s : g[s] = f[x] + g[s \ {x}]}
<1>g. \A s \in SUBSET S : g[s] = IF s = {} THEN 0 ELSE f[Some(s)] + g[s \ {Some(s)}]
  BY DEF IsSum
<1>e. \A s \in SUBSET S : Cardinality(s) \in Nat /\ (Cardinality(s) = 0 <=> s = {})
  BY FS_Subset, FS_EmptySet, FS_CardinalityType
<1>i. \A s \in SUBSET S : g[s] \in Int
  <2>1. 0 \in Int /\ \A x, y \in Int : x + y \in Int
    OBVIOUS
  <2> QED BY <2>1, SumIn
<1>1. 0 \in P
  BY <1>e
<1>2. ASSUME NEW n \in P PROVE n + 1 \in P
  <2> SUFFICES ASSUME NEW s \in SUBSET S, Cardinality(s) = n + 1, NEW x \in s
               PROVE  g[s] = f[x] + g[s \ {x}]
    OBVIOUS
  <2> DEFINE c == Some(s)
             sc == s \ {c}
             sx == s \ {x}
             r == sx \ {c}
  <2>1. c \in s /\ g[s] = f[c] + g[sc]
    BY SomeIn, <1>g
  <2>2. sc \in SUBSET S /\ Cardinality(sc) = n /\ sx \in SUBSET S /\ Cardinality(sx) = n
    BY <2>1, SmallerSet
  <2>3. CASE c = x
    BY <2>1, <2>3
  <2>4. CASE c # x
    <3>1. x \in sc /\ c \in sx /\ sc \ {x} = r
      BY <2>1, <2>4
    <3>2. g[sc] = f[x] + g[r] /\ g[sx] = f[c] + g[r]
      <4> HIDE DEF sc, sx, r, c
      <4>1. g[sc] = f[x] + g[sc \ {x}]
        BY <2>2, <3>1
      <4>2. g[sx] = f[c] + g[sx \ {c}]
        BY <2>2, <3>1
      <4>3. sx \ {c} = r
        BY DEF r
      <4> QED BY <3>1, <4>1, <4>2, <4>3
    <3>3. f[x] \in Int /\ f[c] \in Int /\ g[r] \in Int
      BY <2>1, <1>i
    <3> HIDE DEF sc, sx, r, c
    <3>4. f[c] + (f[x] + g[r]) = f[x] + (f[c] + g[r])
      BY <3>3
    <3>5. g[s] = f[x] + g[sx]
      BY <2>1, <3>2, <3>4
    <3> QED BY <3>5 DEF sx
  <2> QED BY <2>3, <2>4
<1>3. P = Nat
  <2> HIDE DEF P
  <2>1. P \in SUBSET Nat
    BY DEF P
  <2> QED BY <2>1, <1>1, <1>2, NatInduct
<1> QED BY <1>3, <1>e

(* Two sums of the same numbers are the same. *)
LEMMA SumSame ==
  ASSUME NEW f, NEW S, NEW g, IsSum(g, f, S), NEW e, NEW R, NEW h, IsSum(h, e, R),
         IsFiniteSet(S), IsFiniteSet(R)
  PROVE  \A s \in SUBSET S : s \subseteq R /\ (\A x \in s : f[x] = e[x]) => g[s] = h[s]
<1> DEFINE P == {n \in Nat : \A s \in SUBSET S :
                   Cardinality(s) = n /\ s \subseteq R /\ (\A x \in s : f[x] = e[x]) => g[s] = h[s]}
<1>g. \A s \in SUBSET S : g[s] = IF s = {} THEN 0 ELSE f[Some(s)] + g[s \ {Some(s)}]
  BY DEF IsSum
<1>h. \A s \in SUBSET R : h[s] = IF s = {} THEN 0 ELSE e[Some(s)] + h[s \ {Some(s)}]
  BY DEF IsSum
<1>e. \A s \in SUBSET S : Cardinality(s) \in Nat /\ (Cardinality(s) = 0 <=> s = {})
  BY FS_Subset, FS_EmptySet, FS_CardinalityType
<1>1. 0 \in P
  <2> SUFFICES ASSUME NEW s \in SUBSET S, Cardinality(s) = 0, s \subseteq R PROVE g[s] = h[s]
    OBVIOUS
  <2>1. s = {}
    BY <1>e
  <2> QED BY <2>1, <1>g, <1>h
<1>2. ASSUME NEW n \in P PROVE n + 1 \in P
  <2> SUFFICES ASSUME NEW s \in SUBSET S, Cardinality(s) = n + 1, s \subseteq R,
                      \A x \in s : f[x] = e[x]
               PROVE  g[s] = h[s]
    OBVIOUS
  <2> DEFINE r == s \ {Some(s)}
  <2>1. s # {}
    BY <1>e
  <2>2. Some(s) \in s /\ r \in SUBSET S /\ r \subseteq R /\ Cardinality(r) = n
    BY <2>1, SomeIn, SmallerSet
  <2>3. g[r] = h[r]
    BY <2>2
  <2> QED BY <2>1, <2>2, <2>3, <1>g, <1>h
<1>3. P = Nat
  <2> HIDE DEF P
  <2>1. P \in SUBSET Nat
    BY DEF P
  <2> QED BY <2>1, <1>1, <1>2, NatInduct
<1> QED BY <1>3, <1>e

-----------------------------------------------------------------------------
(* What Total finds *)

LEMMA TotalEmpty == ASSUME NEW f PROVE Total(f, {}) = 0
<1>1. PICK g : IsSum(g, f, {}) /\ Total(f, {}) = g[{}]
  BY FS_EmptySet, SumExists, TotalIsSum
<1> QED BY <1>1 DEF IsSum

LEMMA TotalIn ==
  ASSUME NEW N, 0 \in N, \A x, y \in N : x + y \in N,
         NEW f, NEW S, IsFiniteSet(S), \A x \in S : f[x] \in N
  PROVE  Total(f, S) \in N
<1>1. PICK g : IsSum(g, f, S) /\ Total(f, S) = g[S]
  BY SumExists, TotalIsSum
<1>2. \A s \in SUBSET S : g[s] \in N
  BY <1>1, SumIn
<1> QED BY <1>1, <1>2

LEMMA TotalNumber ==
  ASSUME NEW f, NEW S, IsFiniteSet(S)
  PROVE  /\ (\A x \in S : f[x] \in Int) => Total(f, S) \in Int
         /\ (\A x \in S : f[x] \in Nat) => Total(f, S) \in Nat
<1>1. 0 \in Int /\ \A x, y \in Int : x + y \in Int
  OBVIOUS
<1>2. 0 \in Nat /\ \A x, y \in Nat : x + y \in Nat
  OBVIOUS
<1> QED BY <1>1, <1>2, TotalIn

LEMMA TotalSame ==
  ASSUME NEW f, NEW e, NEW S, IsFiniteSet(S), \A x \in S : f[x] = e[x]
  PROVE  Total(f, S) = Total(e, S)
<1>1. PICK g : IsSum(g, f, S) /\ Total(f, S) = g[S]
  BY SumExists, TotalIsSum
<1>2. PICK h : IsSum(h, e, S) /\ Total(e, S) = h[S]
  BY SumExists, TotalIsSum
<1> QED BY <1>1, <1>2, SumSame

LEMMA TotalSplit ==
  ASSUME NEW f, NEW S, IsFiniteSet(S), \A x \in S : f[x] \in Int, NEW x \in S
  PROVE  Total(f, S) = f[x] + Total(f, S \ {x})
<1> DEFINE R == S \ {x}
<1>r. IsFiniteSet(R)
  BY FS_Subset
<1>1. PICK g : IsSum(g, f, S) /\ Total(f, S) = g[S]
  BY SumExists, TotalIsSum
<1>2. PICK h : IsSum(h, f, R) /\ Total(f, R) = h[R]
  BY <1>r, SumExists, TotalIsSum
<1>3. g[R] = h[R]
  BY <1>1, <1>2, <1>r, SumSame
<1>4. g[S] = f[x] + g[R]
  BY <1>1, SumAnyOrder
<1> QED BY <1>1, <1>2, <1>3, <1>4

LEMMA TotalAdd ==
  ASSUME NEW f, NEW S, IsFiniteSet(S), NEW x, x \notin S, \A y \in S \cup {x} : f[y] \in Int
  PROVE  Total(f, S \cup {x}) = f[x] + Total(f, S)
<1> DEFINE R == S \cup {x}
<1>1. IsFiniteSet(R) /\ x \in R /\ R \ {x} = S
  BY FS_AddElement
<1> QED BY <1>1, TotalSplit

(* One number is another. *)
LEMMA TotalChange ==
  ASSUME NEW f, NEW e, NEW S, IsFiniteSet(S), NEW x \in S,
         \A y \in S : f[y] \in Int /\ e[y] \in Int,
         \A y \in S : y # x => e[y] = f[y]
  PROVE  Total(e, S) = Total(f, S) - f[x] + e[x]
<1> DEFINE R == S \ {x}
<1>1. IsFiniteSet(R)
  BY FS_Subset
<1>2. Total(f, R) = Total(e, R)
  BY <1>1, TotalSame
<1>3. Total(f, R) \in Int
  BY <1>1, TotalNumber
<1>4. Total(f, S) = f[x] + Total(f, R) /\ Total(e, S) = e[x] + Total(e, R)
  BY TotalSplit
<1> HIDE DEF R
<1> QED BY <1>2, <1>3, <1>4
-----------------------------------------------------------------------------
(* Buffers *)

LEMMA FirstIn ==
  ASSUME NEW S \in SUBSET BufferNames, S # {}
  PROVE  First(S) \in S
<1> DEFINE I == {i \in DOMAIN Buffers : Buffers[i] \in S}
<1>1. DOMAIN Buffers = 1 .. 3 /\ Buffers[1] = "text" /\ Buffers[2] = "ids" /\ Buffers[3] = "acc"
  BY DEF Buffers
<1>2. I \in SUBSET Nat /\ I # {}
  <2>1. PICK b \in S : b \in BufferNames
    OBVIOUS
  <2>2. \E i \in 1 .. 3 : Buffers[i] = b
    BY <1>1, <2>1 DEF BufferNames
  <2> QED BY <1>1, <2>1, <2>2
<1>3. Min(I) \in I
  <2> HIDE DEF I
  <2> QED BY <1>2, MinOfNat
<1> QED BY <1>3 DEF First

(* The capacities that se_next_capacity tries *)
Tries(g, start, need) == g = [i \in 0 .. need |-> IF i = 0 THEN start ELSE 2 * g[i - 1]]

LEMMA TriesExist ==
  ASSUME NEW start, NEW need \in Nat
  PROVE  \E g : Tries(g, start, need)
<1> DEFINE Step(g) == [i \in 0 .. need |-> IF i = 0 THEN start ELSE 2 * g[i - 1]]
           Upto(g, n) == \A i \in 0 .. need : i <= n => g[i] = Step(g)[i]
           P == {n \in Nat : \E g : Upto(g, n)}
<1>n. ASSUME NEW g, NEW n \in Nat, Upto(g, n)
      PROVE  \A i \in 0 .. need : i <= n + 1 => Step(g)[i] = Step(Step(g))[i]
  <2> TAKE i \in 0 .. need
  <2> HAVE i <= n + 1
  <2>1. CASE i = 0
    BY <2>1
  <2>2. CASE i # 0
    <3>1. i - 1 \in 0 .. need /\ i - 1 <= n
      BY <2>2
    <3>2. g[i - 1] = Step(g)[i - 1]
      BY <3>1, <1>n
    <3> QED BY <2>2, <3>2
  <2> QED BY <2>1, <2>2
<1>1. 0 \in P
  <2> DEFINE z == [i \in 0 .. need |-> start]
  <2>1. Upto(z, 0)
    OBVIOUS
  <2> QED BY <2>1
<1>2. \A n \in P : n + 1 \in P
  <2> TAKE n \in P
  <2>1. PICK g : Upto(g, n)
    OBVIOUS
  <2>2. Upto(Step(g), n + 1)
    <3> HIDE DEF Step
    <3>1. n \in Nat
      OBVIOUS
    <3>2. \A i \in 0 .. need : i <= n + 1 => Step(g)[i] = Step(Step(g))[i]
      <4> HIDE DEF Upto, P
      <4> QED BY <3>1, <1>n, <2>1
    <3> QED BY <3>2, Zenon
  <2> HIDE DEF Step, Upto
  <2>3. \E k : Upto(k, n + 1)
    BY <2>2, Zenon
  <2> QED BY <2>3
<1>3. P = Nat
  <2> HIDE DEF P
  <2>1. P \in SUBSET Nat
    BY DEF P
  <2> QED BY <2>1, <1>1, <1>2, NatInduct
<1>4. PICK g : Upto(g, need)
  BY <1>3
<1>6. Step(g) = Step(Step(g))
  <2>1. \A i \in 0 .. need : Step(g)[i] = Step(Step(g))[i]
    BY <1>4, <1>n
  <2> QED BY <2>1
<1> QED BY <1>6 DEF Tries

LEMMA TriesGrow ==
  ASSUME NEW start \in Nat \ {0}, NEW need \in Nat, NEW g, Tries(g, start, need)
  PROVE  \A i \in 0 .. need : g[i] \in Nat /\ g[i] > i
<1> DEFINE P == {n \in Nat : n <= need => g[n] \in Nat /\ g[n] > n}
<1>g. \A i \in 0 .. need : g[i] = IF i = 0 THEN start ELSE 2 * g[i - 1]
  BY DEF Tries
<1>1. 0 \in P
  BY <1>g
<1>2. ASSUME NEW n \in P PROVE n + 1 \in P
  <2> SUFFICES ASSUME n + 1 <= need PROVE g[n + 1] \in Nat /\ g[n + 1] > n + 1
    OBVIOUS
  <2>1. g[n] \in Nat /\ g[n] > n
    OBVIOUS
  <2>2. g[n + 1] = 2 * g[n]
    <3> DEFINE m == n + 1
    <3>1. m \in 0 .. need /\ m # 0 /\ m - 1 = n
      OBVIOUS
    <3> HIDE DEF m
    <3>2. g[m] = 2 * g[n]
      BY <3>1, <1>g
    <3> QED BY <3>2 DEF m
  <2> QED BY <2>1, <2>2
<1>3. P = Nat
  <2> HIDE DEF P
  <2>1. P \in SUBSET Nat
    BY DEF P
  <2> QED BY <2>1, <1>1, <1>2, NatInduct
<1> QED BY <1>3

(* se_next_capacity finds a capacity that is enough. *)
LEMMA EnoughCapacity ==
  ASSUME NEW cap \in Nat, NEW need \in Nat, NEW least \in Nat, cap > 0 \/ least > 0
  PROVE  NextCapacity(cap, need, least) \in Nat /\ NextCapacity(cap, need, least) >= need
<1> DEFINE start == IF cap > 0 THEN cap ELSE least
           h == CHOOSE g : Tries(g, start, need)
           N == {n \in {h[i] : i \in 0 .. need} : n >= need}
<1>1. start \in Nat \ {0}
  OBVIOUS
<1>2. Tries(h, start, need)
  <2> HIDE DEF start
  <2> QED BY <1>1, TriesExist
<1>3. \A i \in 0 .. need : h[i] \in Nat /\ h[i] > i
  <2> HIDE DEF start, h
  <2> QED BY <1>1, <1>2, TriesGrow
<1>4. NextCapacity(cap, need, least) = Min(N)
  BY DEF NextCapacity, Tries
<1> HIDE DEF start, h
<1>5. N \in SUBSET Nat /\ N # {}
  <2>1. need \in 0 .. need
    OBVIOUS
  <2>2. h[need] \in N
    BY <2>1, <1>3
  <2> QED BY <2>2, <1>3
<1>6. Min(N) \in N
  <2> HIDE DEF N
  <2> QED BY <1>5, MinOfNat
<1> QED BY <1>4, <1>5, <1>6
-----------------------------------------------------------------------------
(* What a step does to the calls of a thread, and what they hold *)

Pushed(s, r, c) ==
  /\ r \in Seq(Frame) /\ Len(r) = Len(s) + 1 /\ r[Len(r)] = c
  /\ \A i \in 1 .. Len(s) : r[i] = s[i]
Popped(s, r) ==
  /\ Len(s) > 0 /\ r \in Seq(Frame) /\ Len(r) = Len(s) - 1
  /\ \A i \in 1 .. Len(r) : r[i] = s[i]
Changed(s, r, c) ==
  /\ Len(s) > 0 /\ r \in Seq(Frame) /\ Len(r) = Len(s) /\ r[Len(r)] = c
  /\ \A i \in 1 .. Len(s) - 1 : r[i] = s[i]

LEMMA PushIs ==
  ASSUME NEW s \in Seq(Frame), NEW c \in Frame
  PROVE  Pushed(s, Append(s, c), c)
BY DEF Pushed

LEMMA PopIs ==
  ASSUME NEW s \in Seq(Frame), Len(s) > 0
  PROVE  Popped(s, SubSeq(s, 1, Len(s) - 1))
<1> DEFINE n == Len(s) - 1
           q == SubSeq(s, 1, n)
<1>1. n \in Nat
  OBVIOUS
<1>2. \A i \in 1 .. n : s[i] \in Frame
  OBVIOUS
<1>3. q \in Seq(Frame) /\ Len(q) = n /\ \A i \in 1 .. n : q[i] = s[i]
  <2> HIDE DEF n
  <2> QED BY <1>1, <1>2
<1> QED BY <1>3 DEF Popped

LEMMA ChangeIs ==
  ASSUME NEW s \in Seq(Frame), Len(s) > 0, NEW c \in Frame
  PROVE  Changed(s, [s EXCEPT ![Len(s)] = c], c)
BY DEF Changed

Stacked(s) == Total([i \in DOMAIN s |-> Held(s[i])], DOMAIN s)
Uses(s, l) == (IF l.made THEN StructBytes + Bytes(l.cap) ELSE 0) + Stacked(s)

LEMMA InUseIs == \A t \in Threads : InUse(t) = Uses(frames[t], tls[t])
BY DEF InUse, Uses, Stacked

LEMMA HeldNat == ASSUME NEW c \in Frame PROVE Held(c) \in Nat
BY DEF Held, Frame, Bytes, BufferNames, StructBytes

LEMMA StackedNat == ASSUME NEW s \in Seq(Frame) PROVE Stacked(s) \in Nat
<1> DEFINE f == [i \in DOMAIN s |-> Held(s[i])]
           D == DOMAIN s
<1>1. D = 1 .. Len(s) /\ IsFiniteSet(D)
  BY FS_Interval
<1>2. \A i \in D : f[i] \in Nat
  BY <1>1, HeldNat
<1>3. Stacked(s) = Total(f, D)
  BY DEF Stacked
<1> HIDE DEF f, D
<1> QED BY <1>1, <1>2, <1>3, TotalNumber

LEMMA StackedNone == Stacked(<<>>) = 0
<1>1. DOMAIN <<>> = {}
  OBVIOUS
<1> QED BY <1>1, TotalEmpty DEF Stacked

LEMMA StackedPush ==
  ASSUME NEW s \in Seq(Frame), NEW r, NEW c \in Frame, Pushed(s, r, c)
  PROVE  Stacked(r) = Stacked(s) + Held(c)
<1> DEFINE f == [i \in DOMAIN s |-> Held(s[i])]
           e == [i \in DOMAIN r |-> Held(r[i])]
           D == 1 .. Len(s)
           n == Len(s) + 1
<1>1. IsFiniteSet(D) /\ DOMAIN s = D
  BY FS_Interval
<1>2. DOMAIN r = D \cup {n} /\ n \notin D
  BY DEF Pushed
<1>3. \A i \in D : e[i] = f[i]
  BY <1>1, <1>2 DEF Pushed
<1>4. e[n] = Held(c)
  BY <1>2 DEF Pushed
<1>5. \A i \in D \cup {n} : e[i] \in Int
  <2>1. \A i \in D \cup {n} : r[i] \in Frame
    BY <1>2 DEF Pushed
  <2>2. \A i \in D \cup {n} : e[i] = Held(r[i])
    BY <1>2
  <2> QED BY <2>1, <2>2, HeldNat
<1>6. Stacked(s) = Total(f, D) /\ Stacked(r) = Total(e, D \cup {n})
  BY <1>1, <1>2 DEF Stacked
<1>7. Held(c) \in Nat /\ Stacked(s) \in Nat
  BY HeldNat, StackedNat
<1> HIDE DEF f, e, D, n
<1>8. Total(e, D) = Total(f, D)
  BY <1>1, <1>3, TotalSame
<1>9. Total(e, D \cup {n}) = e[n] + Total(e, D)
  BY <1>1, <1>2, <1>5, TotalAdd
<1> QED BY <1>4, <1>6, <1>7, <1>8, <1>9

LEMMA StackedPop ==
  ASSUME NEW s \in Seq(Frame), NEW r, Popped(s, r)
  PROVE  Stacked(s) = Stacked(r) + Held(s[Len(s)])
<1>1. s[Len(s)] \in Frame /\ r \in Seq(Frame)
  BY DEF Popped
<1>2. Pushed(r, s, s[Len(s)])
  BY DEF Popped, Pushed
<1> QED BY <1>1, <1>2, StackedPush

LEMMA StackedChange ==
  ASSUME NEW s \in Seq(Frame), NEW r, NEW c \in Frame, Changed(s, r, c)
  PROVE  Stacked(r) = Stacked(s) - Held(s[Len(s)]) + Held(c)
<1> DEFINE q == SubSeq(s, 1, Len(s) - 1)
<1>1. Popped(s, q)
  BY PopIs DEF Changed
<1>2. q \in Seq(Frame) /\ s[Len(s)] \in Frame
  BY <1>1 DEF Popped, Changed
<1>3. Pushed(q, r, c)
  BY <1>1 DEF Popped, Changed, Pushed
<1>4. Stacked(s) = Stacked(q) + Held(s[Len(s)])
  BY <1>1, StackedPop
<1>5. Stacked(r) = Stacked(q) + Held(c)
  BY <1>2, <1>3, StackedPush
<1>6. Stacked(q) \in Nat /\ Held(c) \in Nat /\ Held(s[Len(s)]) \in Nat
  BY <1>2, StackedNat, HeldNat
<1> QED BY <1>4, <1>5, <1>6

-----------------------------------------------------------------------------
(* How the invariants of a thread bear a call that begins, ends or changes *)

LEMMA StackPush ==
  ASSUME NEW s \in Seq(Frame), NEW l \in Slot, NEW r, NEW c \in Frame, Pushed(s, r, c),
         Stack(s, l), c.at = "slot", ~c.own, c.cap = Nothing, c.dim > 0,
         Len(s) > 0 => s[Len(s)].at = "use"
  PROVE  Stack(r, l)
<1>1. Len(r) = Len(s) + 1 /\ Len(s) \in Nat
  BY DEF Pushed
<1>2. \A i \in 1 .. Len(r) : (i \in 1 .. Len(s) /\ r[i] = s[i]) \/ (i = Len(r) /\ r[i] = c)
  BY <1>1 DEF Pushed
<1>3. CallOK(c, l)
  BY DEF CallOK
<1>4. \A i \in 1 .. Len(r) : CallOK(r[i], l)
  BY <1>2, <1>3 DEF Stack
<1>5. \A i \in 1 .. Len(s) : s[i].at = "use"
  BY <1>1 DEF Stack
<1>6. l.inUse <=> \E i \in 1 .. Len(r) : r[i].own /\ r[i].at = "use"
  <2>1. (\E i \in 1 .. Len(r) : r[i].own /\ r[i].at = "use")
        <=> (\E i \in 1 .. Len(s) : s[i].own /\ s[i].at = "use")
    BY <1>1, <1>2 DEF Pushed
  <2> QED BY <2>1 DEF Stack
<1> QED BY <1>1, <1>2, <1>4, <1>5, <1>6 DEF Stack

LEMMA StackPop ==
  ASSUME NEW s \in Seq(Frame), NEW l \in Slot, NEW r, Popped(s, r),
         Stack(s, l), s[Len(s)].at # "use"
  PROVE  Stack(r, l)
<1>1. Len(r) = Len(s) - 1 /\ Len(s) \in Nat \ {0} /\ \A i \in 1 .. Len(r) : r[i] = s[i]
  BY DEF Popped
<1>2. \A i \in 1 .. Len(s) : i \in 1 .. Len(r) \/ i = Len(s)
  BY <1>1
<1>3. (\E i \in 1 .. Len(r) : r[i].own /\ r[i].at = "use")
      <=> (\E i \in 1 .. Len(s) : s[i].own /\ s[i].at = "use")
  BY <1>1, <1>2
<1>4. \A i \in 1 .. Len(r) : r[i].at = "use"
  BY <1>1 DEF Stack
<1>5. l.inUse <=> \E i \in 1 .. Len(r) : r[i].own /\ r[i].at = "use"
  BY <1>3 DEF Stack
<1>6. \A i \in 1 .. Len(r) : CallOK(r[i], l)
  BY <1>1 DEF Stack
<1>7. \A i, j \in 1 .. Len(r) : r[i].own /\ r[j].own => i = j
  BY <1>1 DEF Stack
<1> QED BY <1>1, <1>4, <1>5, <1>6, <1>7 DEF Stack

LEMMA StackChange ==
  ASSUME NEW s \in Seq(Frame), NEW l \in Slot, NEW r, NEW c \in Frame, NEW m \in Slot,
         Changed(s, r, c), Stack(s, l), CallOK(c, m), l.made => m.made, ~m.made => m = None,
         c.at = "exit" => Len(s) = 1,
         s[Len(s)].own => c.own, c.own => s[Len(s)].own \/ ~l.inUse,
         m.inUse <=> IF c.own THEN c.at = "use" ELSE l.inUse
  PROVE  Stack(r, m)
<1> DEFINE n == Len(s)
<1>1. n \in Nat \ {0} /\ Len(r) = n /\ r[n] = c /\ \A i \in 1 .. n - 1 : r[i] = s[i]
  BY DEF Changed
<1>2. \A i \in 1 .. n : i \in 1 .. n - 1 \/ i = n
  BY <1>1
<1>3. \A i \in 1 .. n - 1 : s[i].at = "use" /\ r[i] = s[i]
  BY <1>1 DEF Stack
<1>4. \A i \in 1 .. n : CallOK(r[i], m)
  <2>1. \A i \in 1 .. n - 1 : CallOK(s[i], l)
    BY <1>1 DEF Stack
  <2>2. \A i \in 1 .. n - 1 : CallOK(r[i], m)
    BY <2>1, <1>3 DEF CallOK
  <2> QED BY <2>2, <1>1, <1>2
<1>5. c.own => \A i \in 1 .. n - 1 : ~s[i].own
  <2>1. ~l.inUse => \A i \in 1 .. n - 1 : ~s[i].own
    BY <1>1, <1>3 DEF Stack
  <2>2. s[n].own => \A i \in 1 .. n - 1 : ~s[i].own
    BY <1>1 DEF Stack
  <2> QED BY <2>1, <2>2
<1>6. \A i, j \in 1 .. n : r[i].own /\ r[j].own => i = j
  <2>1. \A i, j \in 1 .. n - 1 : s[i].own /\ s[j].own => i = j
    BY <1>1 DEF Stack
  <2> QED BY <2>1, <1>1, <1>2, <1>3, <1>5
<1>7. m.inUse <=> \E i \in 1 .. n : r[i].own /\ r[i].at = "use"
  <2>1. CASE c.own
    <3>1. m.inUse <=> c.at = "use"
      BY <2>1
    <3>2. \A i \in 1 .. n : r[i].own => i = n
      BY <2>1, <1>2, <1>3, <1>5
    <3>3. (\E i \in 1 .. n : r[i].own /\ r[i].at = "use") <=> c.at = "use"
      BY <2>1, <3>2, <1>1
    <3> QED BY <3>1, <3>3
  <2>2. CASE ~c.own
    <3>1. l.inUse <=> \E i \in 1 .. n : s[i].own /\ s[i].at = "use"
      BY DEF Stack
    <3>2. ~s[n].own
      BY <2>2, <1>1
    <3>3. (\E i \in 1 .. n : s[i].own /\ s[i].at = "use")
          <=> (\E i \in 1 .. n : r[i].own /\ r[i].at = "use")
      BY <2>2, <3>2, <1>1, <1>2, <1>3
    <3> QED BY <2>2, <3>1, <3>3
  <2> QED BY <2>1, <2>2
<1>8. \A i \in 1 .. n : i < n => r[i].at = "use"
  BY <1>1, <1>3
<1>9. \A i \in 1 .. n : r[i].at = "exit" => n = 1
  BY <1>1, <1>2, <1>3
<1> HIDE DEF n
<1> QED BY <1>1, <1>4, <1>6, <1>7, <1>8, <1>9 DEF Stack

LEMMA BoundedPush ==
  ASSUME NEW s, NEW l, NEW r, NEW c, Pushed(s, r, c), Bounded(s, l), Len(s) \in Nat
  PROVE  Bounded(r, l)
BY DEF Bounded, Pushed

LEMMA BoundedPop ==
  ASSUME NEW s, NEW l, NEW r, Popped(s, r), Bounded(s, l), Len(s) \in Nat,
         \A b \in Kinds : ~WillTrim(s[Len(s)], b)
  PROVE  Bounded(r, l)
<1>1. \A i \in 1 .. Len(s) : i = Len(s) \/ (i \in 1 .. Len(r) /\ r[i] = s[i])
  BY DEF Popped
<1> QED BY <1>1 DEF Bounded

(* A change leaves nothing too large that no call will trim. *)
TrimLeft(d, c, l, m) ==
  \A b \in Kinds :
    /\ WillTrim(d, b) => WillTrim(c, b) \/ m.cap[b] <= Retained(b)
    /\ \/ m.cap[b] <= Retained(b)
       \/ WillTrim(c, b)
       \/ m.cap[b] = l.cap[b] /\ l.cap[b] > Retained(b)

LEMMA BoundedChange ==
  ASSUME NEW s, NEW l, NEW r, NEW c, NEW m, Changed(s, r, c), Bounded(s, l), Len(s) \in Nat,
         TrimLeft(s[Len(s)], c, l, m)
  PROVE  Bounded(r, m)
<1>1. Len(s) > 0 /\ Len(r) = Len(s) /\ r[Len(s)] = c /\ \A i \in 1 .. Len(s) - 1 : r[i] = s[i]
  BY DEF Changed
<1>2. \A i \in 1 .. Len(s) : i = Len(s) \/ (i \in 1 .. Len(s) - 1 /\ i \in 1 .. Len(r) /\ r[i] = s[i])
  BY <1>1
<1>3. Len(s) \in 1 .. Len(r)
  BY <1>1
<1> SUFFICES ASSUME NEW b \in Kinds, ~(m.cap[b] <= Retained(b)), ~WillTrim(c, b)
             PROVE  \E i \in 1 .. Len(r) : WillTrim(r[i], b)
  BY <1>1, <1>3 DEF Bounded, TrimLeft
<1> QED BY <1>2, <1>3 DEF Bounded, TrimLeft

-----------------------------------------------------------------------------
(* What the operators of the actions do *)

Entry == [step : {"none", "free", "sub", "add", "load", "swap"},
          old : Nat, new : Nat, top : 0 .. Word - 1, seen : 0 .. Word - 1]

(* What a thread has not counted yet, from what it is counting. *)
Pending(rec) ==
  CASE rec.step = "free" -> - rec.old
    [] rec.step = "sub" -> rec.new - rec.old
    [] rec.step = "add" -> rec.new
    [] OTHER -> 0

LEMMA UncountedIs == \A t \in Threads : Uncounted(t) = Pending(recording[t])
BY DEF Uncounted, Pending

Counting(rec, n) ==
  /\ rec \in Entry
  /\ Pending(rec) = n
  /\ rec.step \notin {"load", "swap"}

(* Only what one thread is counting changes. *)
RecordingOnly(t, rec) ==
  /\ recording' \in [Threads -> Entry] /\ recording'[t] = rec
  /\ \A u \in Threads \ {t} : recording'[u] = recording[u]
  /\ current' = current /\ peak' = peak /\ resetting' = resetting /\ overtaken' = overtaken

LEMMA RecordIs ==
  ASSUME recording \in [Threads -> Entry], NEW t \in Threads, NEW rec \in Entry, Record(t, rec)
  PROVE  RecordingOnly(t, rec)
BY DEF Record, RecordingOnly

LEMMA NoRecordIn == NoRecord \in Entry
BY CountersAssumption DEF NoRecord, Entry

LEMMA AllocIs ==
  ASSUME recording \in [Threads -> Entry], NEW t \in Threads, NEW n \in Nat, RecordAlloc(t, n)
  PROVE  \E rec : RecordingOnly(t, rec) /\ Counting(rec, n) /\ rec.new = n
<1> DEFINE rec == [NoRecord EXCEPT !.step = "add", !.new = n]
<1>1. rec \in Entry /\ rec.step = "add" /\ rec.new = n
  BY NoRecordIn DEF Entry
<1>2. Pending(rec) = n
  BY <1>1 DEF Pending
<1>3. Record(t, rec)
  BY DEF RecordAlloc
<1> HIDE DEF rec
<1> QED BY <1>1, <1>2, <1>3, RecordIs DEF Counting

LEMMA ReallocIs ==
  ASSUME recording \in [Threads -> Entry], NEW t \in Threads, NEW o \in Nat, NEW n \in Nat,
         RecordRealloc(t, o, n)
  PROVE  \E rec : RecordingOnly(t, rec) /\ Counting(rec, n - o) /\ rec.new = n
<1> DEFINE rec == [NoRecord EXCEPT !.step = "sub", !.old = o, !.new = n]
<1>1. rec \in Entry /\ rec.step = "sub" /\ rec.new = n /\ rec.old = o
  BY NoRecordIn DEF Entry
<1>2. Pending(rec) = n - o
  BY <1>1 DEF Pending
<1>3. Record(t, rec)
  BY DEF RecordRealloc
<1> HIDE DEF rec
<1> QED BY <1>1, <1>2, <1>3, RecordIs DEF Counting

LEMMA FreeIs ==
  ASSUME recording \in [Threads -> Entry], NEW t \in Threads, NEW o \in Nat, RecordFree(t, o)
  PROVE  \E rec : RecordingOnly(t, rec) /\ Counting(rec, 0 - o) /\ rec.step = "free"
<1> DEFINE rec == [NoRecord EXCEPT !.step = "free", !.old = o]
<1>1. rec \in Entry /\ rec.step = "free" /\ rec.old = o
  BY NoRecordIn DEF Entry
<1>2. Pending(rec) = 0 - o
  BY <1>1 DEF Pending
<1>3. Record(t, rec)
  BY DEF RecordFree
<1> HIDE DEF rec
<1> QED BY <1>1, <1>2, <1>3, RecordIs DEF Counting

(* Only the calls, or the set, of one thread change. *)
FramesOnly(t, r) ==
  /\ frames' \in [Threads -> Seq(Frame)] /\ frames'[t] = r
  /\ \A u \in Threads \ {t} : frames'[u] = frames[u]
SlotOnly(t, m) ==
  /\ tls' \in [Threads -> Slot] /\ tls'[t] = m
  /\ \A u \in Threads \ {t} : tls'[u] = tls[u]

LEMMA FramesAre ==
  ASSUME frames \in [Threads -> Seq(Frame)], NEW t \in Threads, NEW r \in Seq(Frame),
         frames' = [frames EXCEPT ![t] = r]
  PROVE  FramesOnly(t, r)
BY DEF FramesOnly

LEMMA SlotIs ==
  ASSUME tls \in [Threads -> Slot], NEW t \in Threads, NEW m \in Slot,
         tls' = [tls EXCEPT ![t] = m]
  PROVE  SlotOnly(t, m)
BY DEF SlotOnly

LEMMA TopIn ==
  ASSUME frames \in [Threads -> Seq(Frame)], NEW t \in Threads, Depth(t) > 0
  PROVE  Call(t) \in Frame /\ Depth(t) \in 1 .. Len(frames[t])
<1>1. frames[t] \in Seq(Frame)
  OBVIOUS
<1> QED BY <1>1 DEF Call, Depth

LEMMA ChangesTop ==
  ASSUME frames \in [Threads -> Seq(Frame)], NEW t \in Threads, Depth(t) > 0, NEW c \in Frame,
         frames' = [frames EXCEPT ![t][Depth(t)] = c]
  PROVE  \E r : FramesOnly(t, r) /\ Changed(frames[t], r, c)
<1> DEFINE s == frames[t]
           r == [s EXCEPT ![Len(s)] = c]
<1>1. s \in Seq(Frame) /\ Len(s) > 0
  BY DEF Depth
<1>2. Changed(s, r, c)
  <2> HIDE DEF s
  <2> QED BY <1>1, ChangeIs
<1>3. frames' = [frames EXCEPT ![t] = r]
  BY DEF Depth
<1>4. r \in Seq(Frame)
  BY <1>2 DEF Changed
<1>5. FramesOnly(t, r)
  <2> HIDE DEF r
  <2> QED BY <1>3, <1>4, FramesAre
<1> QED BY <1>2, <1>5

LEMMA GoToIs ==
  ASSUME frames \in [Threads -> Seq(Frame)], NEW t \in Threads, Depth(t) > 0,
         NEW place \in {"slot", "reserve", "use", "trim", "free", "exit"}, GoTo(t, place)
  PROVE  \E r : FramesOnly(t, r) /\ Changed(frames[t], r, [Call(t) EXCEPT !.at = place])
<1> DEFINE c == [Call(t) EXCEPT !.at = place]
<1>1. c \in Frame
  BY TopIn DEF Frame
<1>2. frames' = [frames EXCEPT ![t][Depth(t)] = c]
  BY DEF GoTo, Call
<1> HIDE DEF c
<1>3. \E r : FramesOnly(t, r) /\ Changed(frames[t], r, c)
  BY <1>1, <1>2, ChangesTop
<1> QED BY <1>3 DEF c

LEMMA PopsTop ==
  ASSUME frames \in [Threads -> Seq(Frame)], NEW t \in Threads, Depth(t) > 0, Pop(t)
  PROVE  \E r : FramesOnly(t, r) /\ Popped(frames[t], r)
<1> DEFINE s == frames[t]
           r == SubSeq(s, 1, Len(s) - 1)
<1>1. s \in Seq(Frame) /\ Len(s) > 0
  BY DEF Depth
<1>2. Popped(s, r)
  <2> HIDE DEF s
  <2> QED BY <1>1, PopIs
<1>3. frames' = [frames EXCEPT ![t] = r]
  BY DEF Pop
<1>4. r \in Seq(Frame)
  BY <1>2 DEF Popped
<1>5. FramesOnly(t, r)
  <2> HIDE DEF r
  <2> QED BY <1>3, <1>4, FramesAre
<1> QED BY <1>2, <1>5

(* A set with another capacity *)
Sized(x, b, n) == [x EXCEPT !.cap = [@ EXCEPT ![b] = n]]

LEMMA SizedIn ==
  ASSUME NEW b \in BufferNames, NEW n \in Nat
  PROVE  /\ \A l \in Slot : Sized(l, b, n) \in Slot
         /\ \A c \in Frame : Sized(c, b, n) \in Frame
BY DEF Sized, Slot, Frame

LEMMA SetCapIs ==
  ASSUME frames \in [Threads -> Seq(Frame)], tls \in [Threads -> Slot],
         NEW t \in Threads, Depth(t) > 0, NEW b \in BufferNames, NEW n \in Nat, SetCap(t, b, n)
  PROVE  \/ Call(t).own /\ SlotOnly(t, Sized(tls[t], b, n)) /\ frames' = frames
         \/ /\ ~Call(t).own /\ tls' = tls
            /\ \E r : FramesOnly(t, r) /\ Changed(frames[t], r, Sized(Call(t), b, n))
<1>1. CASE Call(t).own
  <2> DEFINE m == Sized(tls[t], b, n)
  <2>1. m \in Slot
    BY SizedIn
  <2>2. tls' = [tls EXCEPT ![t] = m] /\ frames' = frames
    BY <1>1 DEF SetCap, Sized
  <2> HIDE DEF m
  <2>3. SlotOnly(t, m)
    BY <2>1, <2>2, SlotIs
  <2> QED BY <1>1, <2>2, <2>3 DEF m
<1>2. CASE ~Call(t).own
  <2> DEFINE c == Sized(Call(t), b, n)
  <2>1. c \in Frame
    BY TopIn, SizedIn
  <2>2. frames' = [frames EXCEPT ![t][Depth(t)] = c] /\ tls' = tls
    BY <1>2 DEF SetCap, Sized, Call
  <2> HIDE DEF c
  <2>3. \E r : FramesOnly(t, r) /\ Changed(frames[t], r, c)
    BY <2>1, <2>2, ChangesTop
  <2> QED BY <1>2, <2>2, <2>3 DEF c
<1> QED BY <1>1, <1>2

-----------------------------------------------------------------------------
(* A step of a thread leaves the others alone and gives its calls, its set *)
(* and what it is counting new values.                                     *)

UsedOnly(t, v) ==
  /\ used' \in [Threads -> [BufferNames -> Nat]] /\ used'[t] = v
  /\ \A u \in Threads \ {t} : used'[u] = used[u]

Move(t, r, m, v, rec) ==
  /\ FramesOnly(t, r) /\ SlotOnly(t, m) /\ UsedOnly(t, v) /\ RecordingOnly(t, rec)
  /\ failures' \in Nat /\ (failures' = 0 => failures = 0) /\ work' = work

(* What the thread's set takes *)
Size(l) == IF l.made THEN StructBytes + Bytes(l.cap) ELSE 0

(* After a step of a thread its invariants hold, and what it has not       *)
(* counted of what it takes is what it is now counting.                    *)
Keeps(t, r, m, v, rec) ==
  /\ Stack(r, m)
  /\ failures' = 0 => Bounded(r, m)
  /\ Kept(r, m, v)
  /\ rec \in Entry /\ rec.step \notin {"load", "swap"}
  /\ Uses(r, m) - Pending(rec) = Uses(frames[t], tls[t])
  /\ rec.step \in {"sub", "add"} => rec.new <= Uses(r, m)

Moves(t) ==
  /\ recording[t].step = "none"
  /\ \E r, m, v, rec : Move(t, r, m, v, rec) /\ Keeps(t, r, m, v, rec)

LocalInv == Types /\ StackInv /\ BoundedInv /\ KeptInv

LEMMA LocalOf ==
  ASSUME LocalInv, NEW t \in Threads
  PROVE  /\ frames \in [Threads -> Seq(Frame)] /\ frames[t] \in Seq(Frame)
         /\ tls \in [Threads -> Slot] /\ tls[t] \in Slot
         /\ used \in [Threads -> [BufferNames -> Nat]] /\ used[t] \in [BufferNames -> Nat]
         /\ recording \in [Threads -> Entry] /\ recording[t] \in Entry
         /\ failures \in Nat
         /\ Stack(frames[t], tls[t])
         /\ failures = 0 => Bounded(frames[t], tls[t])
         /\ Kept(frames[t], tls[t], used[t])
BY DEF LocalInv, Types, CountersTypeOK, Entry, StackInv, BoundedInv, KeptInv

(* The top of the stack, when there is one *)
LEMMA TopOf ==
  ASSUME LocalInv, NEW t \in Threads, Depth(t) > 0
  PROVE  /\ Call(t) \in Frame /\ Len(frames[t]) \in Nat \ {0}
         /\ Call(t) = frames[t][Len(frames[t])]
         /\ CallOK(Call(t), tls[t])
         /\ Call(t).at = "exit" => Len(frames[t]) = 1
         /\ Call(t).own /\ Call(t).at = "use" => tls[t].inUse
         /\ Call(t).own /\ tls[t].inUse => Call(t).at = "use"
         /\ ~tls[t].made => tls[t] = None
<1> DEFINE s == frames[t]
           l == tls[t]
<1>1. s \in Seq(Frame) /\ Stack(s, l) /\ Len(s) > 0 /\ Call(t) = s[Len(s)]
  BY LocalOf DEF Depth, Call
<1> HIDE DEF s, l
<1>2. Len(s) \in 1 .. Len(s) /\ s[Len(s)] \in Frame
  BY <1>1
<1>3. CallOK(s[Len(s)], l) /\ (s[Len(s)].at = "exit" => Len(s) = 1) /\ (~l.made => l = None)
  BY <1>1, <1>2 DEF Stack
<1>4. s[Len(s)].own /\ s[Len(s)].at = "use" => l.inUse
  BY <1>1, <1>2 DEF Stack
<1>5. s[Len(s)].own /\ l.inUse => s[Len(s)].at = "use"
  BY <1>1, <1>2 DEF Stack
<1> QED BY <1>1, <1>2, <1>3, <1>4, <1>5 DEF s, l

LEMMA SizeNat == ASSUME NEW l \in Slot PROVE Size(l) \in Nat
BY DEF Size, Slot, Bytes, BufferNames, StructBytes

LEMMA UsesIs == ASSUME NEW s, NEW l PROVE Uses(s, l) = Size(l) + Stacked(s)
BY DEF Uses, Size

(* The innermost call changes, or the thread's set. *)
LEMMA ChangeMoves ==
  ASSUME LocalInv, NEW t \in Threads, Depth(t) > 0, recording[t].step = "none",
         NEW c \in Frame, NEW m \in Slot, NEW v, NEW rec, NEW r, NEW n \in Int,
         Move(t, r, m, v, rec), Changed(frames[t], r, c), Counting(rec, n),
         CallOK(c, m), tls[t].made => m.made, ~m.made => m = None,
         c.at = "exit" <=> Call(t).at = "exit",
         Call(t).own => c.own, c.own => Call(t).own \/ ~tls[t].inUse,
         m.inUse <=> IF c.own THEN c.at = "use" ELSE tls[t].inUse,
         failures' = 0 => TrimLeft(Call(t), c, tls[t], m),
         Call(t).at # "exit" /\ Enough(tls[t], used[t]) => Enough(m, v),
         Size(m) + Held(c) = Size(tls[t]) + Held(Call(t)) + n,
         rec.step \in {"sub", "add"} => rec.new <= Size(m) + Held(c)
  PROVE  Moves(t)
<1> DEFINE s == frames[t]
           l == tls[t]
           d == Call(t)
           u == used[t]
<1>1. /\ s \in Seq(Frame) /\ l \in Slot /\ Stack(s, l) /\ Kept(s, l, u)
      /\ failures = 0 => Bounded(s, l)
  BY LocalOf
<1>2. d \in Frame /\ Len(s) \in Nat \ {0} /\ d = s[Len(s)] /\ (d.at = "exit" => Len(s) = 1)
  BY TopOf
<1>3. failures' = 0 => failures = 0
  BY DEF Move
<1>4. Stack(r, m)
  <2> HIDE DEF s, l
  <2>1. Changed(s, r, c) /\ (s[Len(s)].own => c.own) /\ (c.own => s[Len(s)].own \/ ~l.inUse)
        /\ (c.at = "exit" => Len(s) = 1) /\ (l.made => m.made)
        /\ (m.inUse <=> IF c.own THEN c.at = "use" ELSE l.inUse)
    BY <1>2 DEF s, l
  <2> QED BY <1>1, <2>1, StackChange
<1>5. failures' = 0 => Bounded(r, m)
  <2> SUFFICES ASSUME failures' = 0 PROVE Bounded(r, m)
    OBVIOUS
  <2>1. Bounded(s, l) /\ Len(s) \in Nat /\ Changed(s, r, c)
    BY <1>1, <1>2, <1>3
  <2>2. TrimLeft(s[Len(s)], c, l, m)
    BY <1>2
  <2> HIDE DEF s, l
  <2> QED BY <2>1, <2>2, BoundedChange
<1>6. Kept(r, m, v)
  <2>1. CASE d.at = "exit"
    <3>1. Len(r) \in 1 .. Len(r) /\ r[Len(r)] = c
      BY <1>2 DEF Changed
    <3> QED BY <2>1, <3>1 DEF Kept
  <2>2. CASE d.at # "exit"
    <3>1. \A i \in 1 .. Len(s) : s[i].at # "exit"
      <4>1. \A i \in 1 .. Len(s) : s[i].at = "exit" => i = Len(s)
        BY <1>1 DEF Stack
      <4> QED BY <4>1, <2>2, <1>2
    <3> QED BY <3>1, <2>2, <1>1 DEF Kept
  <2> QED BY <2>1, <2>2
<1>7. Stacked(r) = Stacked(s) - Held(d) + Held(c)
  <2> HIDE DEF s, d
  <2>1. Changed(s, r, c)
    BY DEF s
  <2> QED BY <1>1, <1>2, <2>1, StackedChange
<1>8. /\ Stacked(s) \in Nat /\ Held(d) \in Nat /\ Held(c) \in Nat /\ Size(l) \in Nat /\ Size(m) \in Nat
      /\ Stacked(s) >= Held(d) /\ Stacked(r) \in Nat
  <2> HIDE DEF s, d, l
  <2> DEFINE q == SubSeq(s, 1, Len(s) - 1)
  <2>1. Popped(s, q)
    BY <1>1, <1>2, PopIs
  <2> HIDE DEF q
  <2>2. Stacked(s) = Stacked(q) + Held(d)
    BY <1>1, <1>2, <2>1, StackedPop
  <2>3. q \in Seq(Frame) /\ r \in Seq(Frame)
    BY <2>1 DEF Popped, Changed
  <2>4. Stacked(s) \in Nat /\ Stacked(q) \in Nat /\ Stacked(r) \in Nat
    BY <1>1, <2>3, StackedNat
  <2>5. Held(d) \in Nat /\ Held(c) \in Nat /\ Size(l) \in Nat /\ Size(m) \in Nat
    BY <1>1, <1>2, HeldNat, SizeNat
  <2> QED BY <2>2, <2>4, <2>5
<1>9. Uses(r, m) = Uses(s, l) + n /\ Uses(r, m) >= Size(m) + Held(c)
  <2>1. Uses(r, m) = Size(m) + Stacked(r) /\ Uses(s, l) = Size(l) + Stacked(s)
    BY UsesIs
  <2>2. Size(m) + Held(c) = Size(l) + Held(d) + n
    OBVIOUS
  <2> DEFINE ss == Stacked(s)  sr == Stacked(r)  hd == Held(d)  hc == Held(c)
             zl == Size(l)  zm == Size(m)
  <2>3. /\ sr = ss - hd + hc /\ zm + hc = zl + hd + n
        /\ ss \in Nat /\ hd \in Nat /\ hc \in Nat /\ zl \in Nat /\ zm \in Nat /\ ss >= hd
    BY <1>7, <1>8, <2>2
  <2> HIDE DEF ss, sr, hd, hc, zl, zm
  <2>4. zm + sr = zl + ss + n /\ zm + sr >= zm + hc
    BY <2>3
  <2> QED BY <2>1, <2>4 DEF ss, sr, hd, hc, zl, zm
<1>10. rec \in Entry /\ Pending(rec) = n /\ rec.step \notin {"load", "swap"}
  BY DEF Counting
<1>11. Uses(r, m) - Pending(rec) = Uses(s, l)
  <2>1. Uses(s, l) \in Int
    BY <1>8, UsesIs
  <2> HIDE DEF s, d, l
  <2> QED BY <1>9, <1>10, <2>1
<1>12. rec.step \in {"sub", "add"} => rec.new <= Uses(r, m)
  <2>1. Size(m) + Held(c) \in Int /\ Uses(r, m) \in Int
    BY <1>8, UsesIs
  <2>2. rec.new \in Int
    BY <1>10 DEF Entry
  <2> QED BY <2>1, <2>2, <1>9
<1>13. Keeps(t, r, m, v, rec)
  BY <1>4, <1>5, <1>6, <1>10, <1>11, <1>12 DEF Keeps
<1> QED BY <1>13 DEF Moves

(* The innermost call ends, which did not use the thread's set any more. *)
LEMMA PopMoves ==
  ASSUME LocalInv, NEW t \in Threads, Depth(t) > 0, recording[t].step = "none",
         NEW rec, NEW r, Move(t, r, tls[t], used[t], rec), Popped(frames[t], r),
         Counting(rec, 0 - Held(Call(t))), rec.step \notin {"sub", "add"},
         Call(t).at \notin {"use", "exit"},
         failures' = 0 => \A b \in Kinds : ~WillTrim(Call(t), b)
  PROVE  Moves(t)
<1> DEFINE s == frames[t]
           l == tls[t]
           d == Call(t)
           u == used[t]
<1>1. /\ s \in Seq(Frame) /\ l \in Slot /\ Stack(s, l) /\ Kept(s, l, u)
      /\ failures = 0 => Bounded(s, l)
  BY LocalOf
<1>2. d \in Frame /\ Len(s) \in Nat \ {0} /\ d = s[Len(s)]
  BY TopOf
<1>3. failures' = 0 => failures = 0
  BY DEF Move
<1>4. Stack(r, l)
  <2> HIDE DEF s, l
  <2>1. Popped(s, r) /\ s[Len(s)].at # "use"
    BY <1>2 DEF s, l
  <2> QED BY <1>1, <2>1, StackPop
<1>5. failures' = 0 => Bounded(r, l)
  <2> SUFFICES ASSUME failures' = 0 PROVE Bounded(r, l)
    OBVIOUS
  <2>1. Bounded(s, l) /\ Len(s) \in Nat /\ Popped(s, r)
    BY <1>1, <1>2, <1>3
  <2>2. \A b \in Kinds : ~WillTrim(s[Len(s)], b)
    BY <1>2
  <2> HIDE DEF s, l
  <2> QED BY <2>1, <2>2, BoundedPop
<1>6. Kept(r, l, u)
  <2>1. \A i \in 1 .. Len(s) : s[i].at # "exit"
    <3>1. \A i \in 1 .. Len(s) : s[i].at = "exit" => i = Len(s)
      BY <1>1 DEF Stack
    <3> QED BY <3>1, <1>2
  <2> QED BY <2>1, <1>1 DEF Kept
<1>7. Stacked(s) = Stacked(r) + Held(d) /\ Stacked(r) \in Nat
  <2> HIDE DEF s, d
  <2>1. Popped(s, r) /\ r \in Seq(Frame)
    BY DEF s, Popped
  <2> QED BY <1>1, <1>2, <2>1, StackedPop, StackedNat
<1>8. Held(d) \in Nat /\ Size(l) \in Nat
  BY <1>1, <1>2, HeldNat, SizeNat
<1>9. rec \in Entry /\ Pending(rec) = 0 - Held(d) /\ rec.step \notin {"load", "swap"}
  BY DEF Counting
<1>10. Uses(r, l) - Pending(rec) = Uses(s, l)
  <2>1. Uses(r, l) = Size(l) + Stacked(r) /\ Uses(s, l) = Size(l) + Stacked(s)
    BY UsesIs
  <2> HIDE DEF s, d, l
  <2> QED BY <1>7, <1>8, <1>9, <2>1
<1>11. Keeps(t, r, l, u, rec)
  BY <1>4, <1>5, <1>6, <1>9, <1>10 DEF Keeps
<1> QED BY <1>11 DEF Moves

LEMMA Unrecorded ==
  ASSUME recording \in [Threads -> Entry], NEW t \in Threads, recording[t].step = "none",
         UNCHANGED counters
  PROVE  RecordingOnly(t, recording[t]) /\ Counting(recording[t], 0)
BY DEF RecordingOnly, Counting, Pending, counters, Entry

LEMMA SameFrames ==
  ASSUME frames \in [Threads -> Seq(Frame)], NEW t \in Threads, frames' = frames
  PROVE  FramesOnly(t, frames[t])
BY DEF FramesOnly

LEMMA SameSlot ==
  ASSUME tls \in [Threads -> Slot], NEW t \in Threads, tls' = tls
  PROVE  SlotOnly(t, tls[t])
BY DEF SlotOnly

LEMMA SameUsed ==
  ASSUME used \in [Threads -> [BufferNames -> Nat]], NEW t \in Threads, used' = used
  PROVE  UsedOnly(t, used[t])
BY DEF UsedOnly

LEMMA SameTop ==
  ASSUME frames \in [Threads -> Seq(Frame)], NEW t \in Threads, Depth(t) > 0
  PROVE  Changed(frames[t], frames[t], Call(t))
<1>1. frames[t] \in Seq(Frame)
  OBVIOUS
<1> QED BY <1>1 DEF Changed, Call, Depth

LEMMA FailsIs ==
  ASSUME failures \in Nat, NEW t \in Threads, Fails(t)
  PROVE  failures' \in Nat /\ failures' # 0
BY DEF Fails

LEMMA RetainedNat == \A b : Retained(b) \in Nat
BY ScratchAssumption DEF Retained

LEMMA AtIs ==
  ASSUME NEW t \in Threads, NEW place, At(t, place)
  PROVE  Depth(t) > 0 /\ Call(t).at = place /\ recording[t].step = "none"
BY DEF At, Recording

-----------------------------------------------------------------------------
(* One lemma an action *)

LEMMA BeginMoves ==
  ASSUME LocalInv, NEW t \in Threads, Begin(t)
  PROVE  Moves(t)
<1> DEFINE s == frames[t]
           l == tls[t]
           u == used[t]
           rec == recording[t]
<1>1. /\ s \in Seq(Frame) /\ l \in Slot /\ Stack(s, l) /\ Kept(s, l, u)
      /\ failures = 0 => Bounded(s, l)
  BY LocalOf
<1>2. rec.step = "none"
  BY DEF Begin, Recording
<1>3. PICK d \in work[t].dims : frames' = [frames EXCEPT ![t] =
        Append(@, [at |-> "slot", own |-> FALSE, cap |-> Nothing, dim |-> d, todo |-> {}])]
  BY DEF Begin
<1> DEFINE c == [at |-> "slot", own |-> FALSE, cap |-> Nothing, dim |-> d, todo |-> {}]
           r == Append(s, c)
<1>4. d \in Nat \ {0}
  <2>1. work[t].dims \subseteq Nat \ {0}
    BY ScratchAssumption DEF LocalInv, Types
  <2> QED BY <2>1
<1>5. c \in Frame
  BY <1>4 DEF Frame, Nothing
<1>6. c.at = "slot" /\ ~c.own /\ c.cap = Nothing /\ c.dim > 0
  BY <1>4
<1>7. Len(s) > 0 => s[Len(s)].at = "use"
  BY DEF Begin, Depth, Call
<1>8. FramesOnly(t, r)
  <2>1. frames' = [frames EXCEPT ![t] = r]
    BY <1>3
  <2>2. r \in Seq(Frame)
    BY <1>1, <1>5
  <2> HIDE DEF r
  <2> QED BY <2>1, <2>2, LocalOf, FramesAre
<1> HIDE DEF c
<1>9. Pushed(s, r, c)
  BY <1>1, <1>5, PushIs
<1>10. Move(t, r, l, u, rec) /\ Counting(rec, 0)
  <2>1. UNCHANGED counters /\ tls' = tls /\ used' = used /\ failures' = failures /\ work' = work
    BY DEF Begin
  <2> HIDE DEF r
  <2> QED BY <1>2, <1>8, <2>1, LocalOf, SameSlot, SameUsed, Unrecorded DEF Move
<1> HIDE DEF r
<1>11. Stack(r, l)
  <2> HIDE DEF s, l
  <2> QED BY <1>1, <1>5, <1>6, <1>7, <1>9, StackPush
<1>12. failures' = 0 => Bounded(r, l)
  <2>1. Len(s) \in Nat
    BY <1>1
  <2> HIDE DEF s, l
  <2> QED BY <1>1, <1>9, <1>10, <2>1, BoundedPush DEF Move
<1>13. Kept(r, l, u)
  <2>1. \A i \in 1 .. Len(s) : i \in 1 .. Len(r) /\ r[i] = s[i]
    BY <1>1, <1>9 DEF Pushed
  <2> HIDE DEF s, l, u
  <2> QED BY <1>1, <2>1 DEF Kept
<1>14. Uses(r, l) = Uses(s, l) /\ Uses(s, l) \in Int
  <2>1. Held(c) = 0
    BY <1>6 DEF Held
  <2>2. Stacked(r) = Stacked(s) + Held(c)
    <3> HIDE DEF s
    <3> QED BY <1>1, <1>5, <1>9, StackedPush
  <2>3. Stacked(s) \in Nat /\ Size(l) \in Nat
    BY <1>1, StackedNat, SizeNat
  <2>4. Uses(r, l) = Size(l) + Stacked(r) /\ Uses(s, l) = Size(l) + Stacked(s)
    BY UsesIs
  <2> HIDE DEF s, l
  <2> QED BY <2>1, <2>2, <2>3, <2>4
<1>15. Keeps(t, r, l, u, rec)
  <2>1. rec \in Entry /\ Pending(rec) = 0 /\ rec.step \notin {"sub", "add", "load", "swap"}
    BY <1>2, <1>10 DEF Counting
  <2>2. Uses(r, l) - Pending(rec) = Uses(s, l)
    <3> HIDE DEF s, l, rec
    <3> QED BY <1>14, <2>1
  <2> QED BY <1>11, <1>12, <1>13, <2>1, <2>2 DEF Keeps
<1> QED BY <1>2, <1>10, <1>15 DEF Moves

(* A call that finds no slot, or nothing to work in, ends at once. *)
LEMMA GivesUp ==
  ASSUME LocalInv, NEW t \in Threads, Depth(t) > 0, recording[t].step = "none",
         Fails(t), Pop(t), UNCHANGED <<counters, tls, used, work>>,
         Call(t).at \notin {"use", "exit"}, Held(Call(t)) = 0
  PROVE  Moves(t)
<1>1. PICK r : FramesOnly(t, r) /\ Popped(frames[t], r)
  BY LocalOf, PopsTop
<1>2. failures' \in Nat /\ failures' # 0
  BY LocalOf, FailsIs
<1>3. Move(t, r, tls[t], used[t], recording[t]) /\ Counting(recording[t], 0)
  <2>1. UNCHANGED counters /\ tls' = tls /\ used' = used /\ work' = work
    OBVIOUS
  <2> QED BY <1>1, <1>2, <2>1, LocalOf, SameSlot, SameUsed, Unrecorded DEF Move
<1>4. Counting(recording[t], 0 - Held(Call(t))) /\ recording[t].step \notin {"sub", "add"}
  BY <1>3
<1> QED BY <1>1, <1>2, <1>3, <1>4, PopMoves

LEMMA MakeSlotMoves ==
  ASSUME LocalInv, NEW t \in Threads, MakeSlot(t)
  PROVE  Moves(t)
<1> DEFINE d == Call(t)
           l == tls[t]
<1>1. Depth(t) > 0 /\ d.at = "slot" /\ recording[t].step = "none" /\ ~l.made
  BY AtIs DEF MakeSlot
<1>2. /\ d \in Frame /\ CallOK(d, l) /\ l = None /\ l \in Slot /\ ~d.own /\ d.cap = Nothing
      /\ d.dim > 0
  BY <1>1, TopOf, LocalOf DEF CallOK
<1>3. Held(d) = 0 /\ Size(l) = 0
  BY <1>1, <1>2 DEF Held, Size
<1>4. used' = used /\ work' = work
  BY DEF MakeSlot
<1>5. CASE /\ tls' = [tls EXCEPT ![t].made = TRUE]
           /\ RecordAlloc(t, StructBytes)
           /\ UNCHANGED <<frames, failures>>
  <2> DEFINE m == [l EXCEPT !.made = TRUE]
  <2>1. m \in Slot /\ m.made /\ m.cap = Nothing /\ m.inUse = l.inUse
    <3> HIDE DEF l
    <3>1. m \in Slot /\ m.made /\ m.cap = l.cap /\ m.inUse = l.inUse
      BY <1>2 DEF Slot
    <3> QED BY <3>1, <1>2 DEF None
  <2>2. SlotOnly(t, m)
    <3>1. tls' = [tls EXCEPT ![t] = m]
      BY <1>5
    <3> HIDE DEF m
    <3> QED BY <2>1, <3>1, LocalOf, SlotIs
  <2>3. PICK rec : RecordingOnly(t, rec) /\ Counting(rec, 1) /\ rec.new = 1
    BY <1>5, LocalOf, AllocIs DEF StructBytes
  <2>4. Size(m) = 1
    BY <2>1 DEF Size, StructBytes, Bytes, Nothing, BufferNames
  <2> HIDE DEF m
  <2>5. Move(t, frames[t], m, used[t], rec)
    BY <1>4, <1>5, <2>2, <2>3, LocalOf, SameFrames, SameUsed DEF Move
  <2>6. Changed(frames[t], frames[t], d)
    BY <1>1, LocalOf, SameTop
  <2>7. CallOK(d, m) /\ (m.inUse <=> IF d.own THEN d.at = "use" ELSE l.inUse)
    BY <1>1, <1>2, <2>1 DEF CallOK
  <2>8. TrimLeft(d, d, l, m)
    <3>1. \A b \in Kinds : m.cap[b] = 0
      BY <2>1 DEF Nothing, Kinds, BufferNames
    <3> HIDE DEF m, l, d
    <3> QED BY <3>1, RetainedNat DEF TrimLeft
  <2>9. Enough(l, used[t]) => Enough(m, used[t])
    BY <1>2, <2>1 DEF Enough, None
  <2>10. /\ Size(m) + Held(d) = Size(l) + Held(d) + 1
         /\ rec.new <= Size(m) + Held(d)
    BY <1>3, <2>3, <2>4
  <2> HIDE DEF d, l
  <2> QED BY <1>1, <1>2, <2>1, <2>3, <2>5, <2>6, <2>7, <2>8, <2>9, <2>10, ChangeMoves DEF d, l
<1>6. CASE Fails(t) /\ Pop(t) /\ UNCHANGED <<counters, tls>>
  BY <1>1, <1>3, <1>4, <1>6, GivesUp
<1>7. CASE Fails(t) /\ GoTo(t, "free") /\ RecordAlloc(t, StructBytes) /\ UNCHANGED tls
  <2> DEFINE c == [d EXCEPT !.at = "free"]
  <2>1. c \in Frame /\ c.at = "free" /\ ~c.own /\ c.cap = Nothing /\ c.dim = d.dim
    BY <1>2 DEF Frame
  <2>2. PICK r : FramesOnly(t, r) /\ Changed(frames[t], r, c)
    BY <1>1, <1>7, LocalOf, GoToIs
  <2>3. PICK rec : RecordingOnly(t, rec) /\ Counting(rec, 1) /\ rec.new = 1
    BY <1>7, LocalOf, AllocIs DEF StructBytes
  <2>4. Held(c) = 1
    BY <2>1 DEF Held, StructBytes, Bytes, Nothing, BufferNames
  <2> HIDE DEF c
  <2>5. failures' \in Nat /\ failures' # 0
    BY <1>7, LocalOf, FailsIs
  <2>6. Move(t, r, l, used[t], rec)
    BY <1>4, <1>7, <2>2, <2>3, <2>5, LocalOf, SameSlot, SameUsed DEF Move
  <2>7. CallOK(c, l) /\ (l.inUse <=> IF c.own THEN c.at = "use" ELSE l.inUse)
    BY <1>2, <2>1 DEF CallOK
  <2>8. Size(l) + Held(c) = Size(l) + Held(d) + 1 /\ rec.new <= Size(l) + Held(c)
    BY <1>3, <2>3, <2>4
  <2> HIDE DEF d, l
  <2> QED BY <1>1, <1>2, <2>1, <2>2, <2>3, <2>5, <2>6, <2>7, <2>8, ChangeMoves DEF d, l
<1> QED BY <1>5, <1>6, <1>7 DEF MakeSlot

LEMMA TakeOwnMoves ==
  ASSUME LocalInv, NEW t \in Threads, TakeOwn(t)
  PROVE  Moves(t)
<1> DEFINE d == Call(t)
           l == tls[t]
           c == [d EXCEPT !.at = "reserve", !.own = TRUE]
<1>1. Depth(t) > 0 /\ d.at = "slot" /\ recording[t].step = "none" /\ l.made /\ ~l.inUse
  BY AtIs DEF TakeOwn
<1>2. d \in Frame /\ l \in Slot /\ CallOK(d, l) /\ ~d.own /\ d.dim > 0
  BY <1>1, TopOf, LocalOf DEF CallOK
<1>3. c \in Frame /\ c.at = "reserve" /\ c.own /\ c.dim = d.dim
  BY <1>2 DEF Frame
<1>4. frames' = [frames EXCEPT ![t][Depth(t)] = c]
  BY DEF TakeOwn, Call
<1> HIDE DEF c
<1>5. PICK r : FramesOnly(t, r) /\ Changed(frames[t], r, c)
  BY <1>1, <1>3, <1>4, LocalOf, ChangesTop
<1>6. Move(t, r, l, used[t], recording[t]) /\ Counting(recording[t], 0)
  <2>1. UNCHANGED counters /\ tls' = tls /\ used' = used /\ work' = work /\ failures' = failures
    BY DEF TakeOwn
  <2> QED BY <1>1, <1>5, <2>1, LocalOf, SameSlot, SameUsed, Unrecorded DEF Move
<1>7. CallOK(c, l) /\ (l.inUse <=> IF c.own THEN c.at = "use" ELSE l.inUse)
  BY <1>1, <1>2, <1>3 DEF CallOK
<1>8. TrimLeft(d, c, l, l)
  <2>1. \A b \in Kinds : WillTrim(c, b)
    BY <1>3 DEF WillTrim
  <2> QED BY <2>1 DEF TrimLeft
<1>9. Held(c) = 0 /\ Held(d) = 0
  BY <1>1, <1>3 DEF Held
<1>10. Size(l) + Held(c) = Size(l) + Held(d) + 0
  BY <1>2, <1>9, SizeNat
<1> HIDE DEF d, l
<1> QED BY <1>1, <1>2, <1>3, <1>5, <1>6, <1>7, <1>8, <1>10, ChangeMoves DEF d, l

LEMMA TakeHeapMoves ==
  ASSUME LocalInv, NEW t \in Threads, TakeHeap(t)
  PROVE  Moves(t)
<1> DEFINE d == Call(t)
           l == tls[t]
<1>1. Depth(t) > 0 /\ d.at = "slot" /\ recording[t].step = "none" /\ l.made
  BY AtIs DEF TakeHeap
<1>2. /\ d \in Frame /\ l \in Slot /\ CallOK(d, l) /\ ~d.own /\ d.dim > 0 /\ d.cap = Nothing
  BY <1>1, TopOf, LocalOf DEF CallOK
<1>3. Held(d) = 0 /\ Size(l) \in Nat
  BY <1>1, <1>2, SizeNat DEF Held
<1>4. tls' = tls /\ used' = used /\ work' = work
  BY DEF TakeHeap
<1>5. CASE GoTo(t, "reserve") /\ RecordAlloc(t, StructBytes) /\ UNCHANGED failures
  <2> DEFINE c == [d EXCEPT !.at = "reserve"]
  <2>1. c \in Frame /\ c.at = "reserve" /\ ~c.own /\ c.cap = Nothing /\ c.dim = d.dim
    BY <1>2 DEF Frame
  <2>2. PICK r : FramesOnly(t, r) /\ Changed(frames[t], r, c)
    BY <1>1, <1>5, LocalOf, GoToIs
  <2>3. PICK rec : RecordingOnly(t, rec) /\ Counting(rec, 1) /\ rec.new = 1
    BY <1>5, LocalOf, AllocIs DEF StructBytes
  <2>4. Held(c) = 1
    BY <2>1 DEF Held, StructBytes, Bytes, Nothing, BufferNames
  <2> HIDE DEF c
  <2>6. Move(t, r, l, used[t], rec)
    BY <1>4, <1>5, <2>2, <2>3, LocalOf, SameSlot, SameUsed DEF Move
  <2>7. CallOK(c, l) /\ (l.inUse <=> IF c.own THEN c.at = "use" ELSE l.inUse)
    BY <1>2, <2>1 DEF CallOK
  <2>8. Size(l) + Held(c) = Size(l) + Held(d) + 1 /\ rec.new <= Size(l) + Held(c)
    BY <1>3, <2>3, <2>4
  <2>9. ~l.made => l = None
    BY <1>1
  <2>10. failures' = 0 => TrimLeft(d, c, l, l)
    <3>1. \A b \in Kinds : ~WillTrim(d, b) /\ ~WillTrim(c, b)
      BY <1>2, <2>1 DEF WillTrim
    <3>2. \A b \in Kinds : l.cap[b] \in Nat /\ Retained(b) \in Nat
      BY <1>2, RetainedNat DEF Slot, Kinds, BufferNames
    <3> QED BY <3>1, <3>2 DEF TrimLeft
  <2> HIDE DEF d, l
  <2> QED BY <1>1, <1>2, <2>1, <2>2, <2>3, <2>6, <2>7, <2>8, <2>9, <2>10, ChangeMoves DEF d, l
<1>6. CASE Fails(t) /\ Pop(t) /\ UNCHANGED counters
  BY <1>1, <1>3, <1>4, <1>6, GivesUp
<1> QED BY <1>5, <1>6 DEF TakeHeap

(* What is not touched leaves nothing more to trim. *)
LEMMA TrimSame ==
  ASSUME NEW d, NEW c, NEW l \in Slot, NEW m \in Slot,
         \A b \in Kinds : /\ m.cap[b] = l.cap[b]
                          /\ WillTrim(d, b) => WillTrim(c, b)
  PROVE  TrimLeft(d, c, l, m)
<1>1. \A b \in Kinds : l.cap[b] \in Nat /\ Retained(b) \in Nat
  BY RetainedNat DEF Slot, Kinds, BufferNames
<1> QED BY <1>1 DEF TrimLeft

(* Growing a buffer *)

LEMMA BytesSized ==
  ASSUME NEW cap \in [BufferNames -> Nat], NEW b \in BufferNames, NEW n \in Nat
  PROVE  LET new == [cap EXCEPT ![b] = n]
         IN  Bytes(new) = Bytes(cap) + (n - cap[b]) /\ n <= Bytes(new) /\ Bytes(cap) \in Nat
<1>1. cap["text"] \in Nat /\ cap["ids"] \in Nat /\ cap["acc"] \in Nat
  BY DEF BufferNames
<1>2. CASE b = "text"
  BY <1>1, <1>2 DEF Bytes, BufferNames
<1>3. CASE b = "ids"
  BY <1>1, <1>3 DEF Bytes, BufferNames
<1>4. CASE b = "acc"
  BY <1>1, <1>4 DEF Bytes, BufferNames
<1> QED BY <1>2, <1>3, <1>4 DEF BufferNames

LEMMA GrowMoves ==
  ASSUME LocalInv, NEW t \in Threads, Depth(t) > 0, recording[t].step = "none",
         Call(t).at \in {"reserve", "use"},
         NEW b \in BufferNames, NEW need \in Nat, Grow(t, b, need), need > Cap(t)[b],
         failures' = failures, work' = work,
         NEW v, UsedOnly(t, v),
         \A k \in Kinds : v[k] = used[t][k] \/ (k = b /\ Call(t).own /\ v[k] = need)
  PROVE  Moves(t)
<1> DEFINE d == Call(t)
           l == tls[t]
           u == used[t]
           old == Cap(t)[b]
           next == NextCapacity(old, need, LeastCapacity(t, b))
<1>1. d \in Frame /\ l \in Slot /\ CallOK(d, l) /\ d.at \in {"reserve", "use"} /\ d.dim > 0
      /\ (~l.made => l = None) /\ (d.own => l.made) /\ u \in [BufferNames -> Nat]
  BY TopOf, LocalOf DEF CallOK
<1>2. old \in Nat /\ Cap(t) = IF d.own THEN l.cap ELSE d.cap
  BY <1>1 DEF Cap, Frame, Slot
<1>3. next \in Nat /\ next >= need
  <2>1. LeastCapacity(t, b) \in Nat /\ LeastCapacity(t, b) > 0
    BY <1>1 DEF LeastCapacity, Frame
  <2> HIDE DEF old
  <2> QED BY <1>2, <2>1, EnoughCapacity
<1>4. SetCap(t, b, next)
      /\ (IF old = 0 THEN RecordAlloc(t, next) ELSE RecordRealloc(t, old, next))
  BY DEF Grow
<1> HIDE DEF next
<1>5. PICK rec : RecordingOnly(t, rec) /\ Counting(rec, next - old) /\ rec.new = next
  <2>1. CASE old = 0
    <3>1. RecordAlloc(t, next) /\ next - old = next
      BY <1>3, <1>4, <2>1
    <3> HIDE DEF old
    <3> QED BY <1>3, <3>1, LocalOf, AllocIs
  <2>2. CASE old # 0
    <3>1. RecordRealloc(t, old, next)
      BY <1>4, <2>2
    <3> HIDE DEF old
    <3> QED BY <1>2, <1>3, <3>1, LocalOf, ReallocIs
  <2> QED BY <2>1, <2>2
<1>6. next - old \in Int
  BY <1>2, <1>3
<1>7. \A k \in Kinds : d.own => WillTrim(d, k)
  BY <1>1 DEF WillTrim
<1>8. need > old
  OBVIOUS
<1>9. CASE d.own
  <2> DEFINE m == Sized(l, b, next)
  <2>1. SlotOnly(t, m) /\ frames' = frames
    BY <1>3, <1>4, <1>9, LocalOf, SetCapIs
  <2>2. m \in Slot /\ m.made = l.made /\ m.inUse = l.inUse /\ m.cap = [l.cap EXCEPT ![b] = next]
    BY <1>1, <1>3, SizedIn DEF Sized, Slot
  <2> HIDE DEF m
  <2>3. Move(t, frames[t], m, v, rec)
    BY <1>5, <2>1, LocalOf, SameFrames DEF Move
  <2>4. Changed(frames[t], frames[t], d)
    BY LocalOf, SameTop
  <2>5. CallOK(d, m)
    BY <1>1, <2>2 DEF CallOK
  <2>6. m.inUse <=> IF d.own THEN d.at = "use" ELSE l.inUse
    <3>1. l.inUse <=> d.at = "use"
      BY <1>9, TopOf
    <3> QED BY <1>9, <2>2, <3>1
  <2>7. TrimLeft(d, d, l, m)
    BY <1>7, <1>9 DEF TrimLeft
  <2>8. Enough(l, u) => Enough(m, v)
    <3> SUFFICES ASSUME Enough(l, u), NEW k \in Kinds
                 PROVE  m.cap[k] >= v[k] \/ m.cap[k] >= Retained(k)
      BY DEF Enough
    <3>1. l.cap[k] >= u[k] \/ l.cap[k] >= Retained(k)
      BY DEF Enough
    <3>2. k \in BufferNames /\ l.cap[k] \in Nat /\ u[k] \in Nat /\ Retained(k) \in Nat
      BY <1>1, RetainedNat DEF Kinds, BufferNames, Slot
    <3>3. CASE k = b
      <4>1. m.cap[k] = next /\ (v[k] = u[k] \/ v[k] = need) /\ l.cap[k] = old
        BY <3>2, <3>3, <1>1, <1>2, <1>9, <2>2 DEF Slot
      <4> HIDE DEF l, u, old
      <4> QED BY <1>2, <1>3, <1>8, <3>1, <3>2, <4>1
    <3>4. CASE k # b
      <4>1. m.cap[k] = l.cap[k] /\ v[k] = u[k]
        BY <3>2, <3>4, <1>1, <2>2 DEF Slot
      <4> QED BY <3>1, <4>1
    <3> QED BY <3>3, <3>4
  <2>9. Size(m) = Size(l) + (next - old) /\ next <= Size(m) /\ Size(l) \in Nat
    <3>1. l.cap \in [BufferNames -> Nat] /\ old = l.cap[b] /\ l.made /\ m.made
      BY <1>1, <1>2, <1>9, <2>2 DEF Slot
    <3> HIDE DEF l, old
    <3>2. Bytes(m.cap) = Bytes(l.cap) + (next - old) /\ next <= Bytes(m.cap) /\ Bytes(l.cap) \in Nat
      BY <1>3, <3>1, <2>2, BytesSized
    <3>3. Size(m) = 1 + Bytes(m.cap) /\ Size(l) = 1 + Bytes(l.cap)
      BY <3>1 DEF Size, StructBytes
    <3> QED BY <1>2, <1>3, <3>2, <3>3
  <2>10. Size(m) + Held(d) = Size(l) + Held(d) + (next - old) /\ rec.new <= Size(m) + Held(d)
    <3>1. Held(d) \in Nat
      BY <1>1, HeldNat
    <3> HIDE DEF l, old, d
    <3> QED BY <1>2, <1>3, <1>5, <2>9, <3>1
  <2>11. (l.made => m.made) /\ (~m.made => m = None)
    BY <1>1, <1>9, <2>2
  <2> HIDE DEF d, l, u, old
  <2> QED BY <1>1, <1>5, <1>6, <1>9, <2>2, <2>3, <2>4, <2>5, <2>6, <2>7, <2>8, <2>10, <2>11, ChangeMoves
          DEF d, l, u
<1>10. CASE ~d.own
  <2> DEFINE c == Sized(d, b, next)
  <2>1. PICK r : FramesOnly(t, r) /\ Changed(frames[t], r, c)
    BY <1>3, <1>4, <1>10, LocalOf, SetCapIs
  <2>2. tls' = tls
    BY <1>3, <1>4, <1>10, LocalOf, SetCapIs
  <2>3. /\ c \in Frame /\ c.at = d.at /\ c.own = d.own /\ c.dim = d.dim /\ c.todo = d.todo
        /\ c.cap = [d.cap EXCEPT ![b] = next]
    BY <1>1, <1>3, SizedIn DEF Sized, Frame
  <2> HIDE DEF c
  <2>4. Move(t, r, l, v, rec)
    BY <1>5, <2>1, <2>2, LocalOf, SameSlot DEF Move
  <2>5. CallOK(c, l)
    BY <1>1, <1>10, <2>3 DEF CallOK
  <2>6. l.inUse <=> IF c.own THEN c.at = "use" ELSE l.inUse
    BY <1>10, <2>3
  <2>7. TrimLeft(d, c, l, l)
    <3>1. \A k \in Kinds : WillTrim(d, k) => WillTrim(c, k)
      BY <2>3 DEF WillTrim
    <3> HIDE DEF l, d
    <3> QED BY <1>1, <3>1, TrimSame
  <2>8. Enough(l, u) => Enough(l, v)
    BY <1>10 DEF Enough
  <2>9. Held(c) = Held(d) + (next - old) /\ next <= Held(c) /\ Held(d) \in Nat
    <3>1. d.cap \in [BufferNames -> Nat] /\ old = d.cap[b]
      BY <1>1, <1>2, <1>10 DEF Frame
    <3>2. Held(c) = 1 + Bytes(c.cap) /\ Held(d) = 1 + Bytes(d.cap)
      BY <1>1, <1>10, <2>3 DEF Held, StructBytes
    <3> HIDE DEF d, old
    <3>3. Bytes(c.cap) = Bytes(d.cap) + (next - old) /\ next <= Bytes(c.cap) /\ Bytes(d.cap) \in Nat
      BY <1>3, <3>1, <2>3, BytesSized
    <3> QED BY <1>2, <1>3, <3>2, <3>3
  <2>10. Size(l) + Held(c) = Size(l) + Held(d) + (next - old) /\ rec.new <= Size(l) + Held(c)
    <3>1. Size(l) \in Nat
      BY <1>1, SizeNat
    <3> HIDE DEF l, old, d
    <3> QED BY <1>2, <1>3, <1>5, <2>9, <3>1
  <2> HIDE DEF d, l, u, old
  <2> QED BY <1>1, <1>5, <1>6, <1>10, <2>1, <2>3, <2>4, <2>5, <2>6, <2>7, <2>8, <2>10, ChangeMoves
          DEF d, l, u
<1> QED BY <1>9, <1>10

LEMMA ReservedNat ==
  ASSUME LocalInv, NEW t \in Threads, Depth(t) > 0, NEW b \in BufferNames
  PROVE  Reserved(t, b) \in Nat
<1>1. Call(t).dim \in Nat
  BY TopOf DEF Frame
<1> QED BY <1>1, ScratchAssumption DEF Reserved, BufferNames

LEMMA ReserveMoves ==
  ASSUME LocalInv, NEW t \in Threads, Reserve(t)
  PROVE  Moves(t)
<1> DEFINE d == Call(t)
           l == tls[t]
           missing == {b \in BufferNames : Cap(t)[b] < Reserved(t, b)}
           b == First(missing)
<1>1. Depth(t) > 0 /\ d.at = "reserve" /\ recording[t].step = "none"
  BY AtIs DEF Reserve
<1>2. /\ d \in Frame /\ l \in Slot /\ CallOK(d, l) /\ d.dim > 0
      /\ (~l.made => l = None) /\ used[t] \in [BufferNames -> Nat]
  BY <1>1, TopOf, LocalOf DEF CallOK
<1>3. missing # {} /\ used' = used /\ work' = work
  BY DEF Reserve
<1>4. b \in missing
  <2>1. missing \in SUBSET BufferNames
    OBVIOUS
  <2> HIDE DEF missing
  <2> QED BY <1>3, <2>1, FirstIn
<1>5. b \in BufferNames /\ Reserved(t, b) > Cap(t)[b] /\ Reserved(t, b) \in Nat
  <2>1. b \in BufferNames /\ Cap(t)[b] < Reserved(t, b)
    BY <1>4
  <2> HIDE DEF b
  <2>2. Cap(t)[b] \in Nat
    BY <2>1, <1>2 DEF Cap, Frame, Slot
  <2>3. Reserved(t, b) \in Nat
    BY <1>1, <2>1, ReservedNat
  <2> QED BY <2>1, <2>2, <2>3
<1>6. \/ Grow(t, b, Reserved(t, b)) /\ UNCHANGED failures
      \/ /\ Fails(t)
         /\ IF d.own THEN Pop(t) ELSE GoTo(t, "free")
         /\ UNCHANGED <<counters, tls>>
  BY DEF Reserve
<1> HIDE DEF b
<1>7. CASE Grow(t, b, Reserved(t, b)) /\ UNCHANGED failures
  <2>1. UsedOnly(t, used[t])
    BY <1>3, LocalOf, SameUsed
  <2>2. d.at \in {"reserve", "use"} /\ failures' = failures
    BY <1>1, <1>7
  <2> DEFINE need == Reserved(t, b)
             v == used[t]
  <2>3. need \in Nat /\ Grow(t, b, need) /\ need > Cap(t)[b]
    BY <1>5, <1>7
  <2>4. \A k \in Kinds : v[k] = used[t][k] \/ (k = b /\ d.own /\ v[k] = need)
    OBVIOUS
  <2> HIDE DEF need
  <2> QED BY <1>1, <1>3, <1>5, <2>1, <2>2, <2>3, <2>4, GrowMoves
<1>8. CASE Fails(t) /\ d.own /\ Pop(t) /\ UNCHANGED <<counters, tls>>
  <2>1. Held(d) = 0
    BY <1>8 DEF Held
  <2> QED BY <1>1, <1>3, <1>8, <2>1, GivesUp
<1>9. CASE Fails(t) /\ ~d.own /\ GoTo(t, "free") /\ UNCHANGED <<counters, tls>>
  <2> DEFINE c == [d EXCEPT !.at = "free"]
  <2>1. c \in Frame /\ c.at = "free" /\ c.own = d.own /\ c.cap = d.cap /\ c.dim = d.dim
    BY <1>2 DEF Frame
  <2>2. PICK r : FramesOnly(t, r) /\ Changed(frames[t], r, c)
    BY <1>1, <1>9, LocalOf, GoToIs
  <2>3. failures' \in Nat /\ failures' # 0
    BY <1>9, LocalOf, FailsIs
  <2> HIDE DEF c
  <2>4. Move(t, r, l, used[t], recording[t]) /\ Counting(recording[t], 0)
    <3>1. UNCHANGED counters /\ tls' = tls
      BY <1>9
    <3> QED BY <1>1, <1>3, <2>2, <2>3, <3>1, LocalOf, SameSlot, SameUsed, Unrecorded DEF Move
  <2>5. CallOK(c, l) /\ (l.inUse <=> IF c.own THEN c.at = "use" ELSE l.inUse)
    BY <1>2, <1>9, <2>1 DEF CallOK
  <2>6. Held(c) = Held(d) /\ Held(d) \in Nat /\ Size(l) \in Nat
    BY <1>1, <1>2, <1>9, <2>1, HeldNat, SizeNat DEF Held
  <2>7. Size(l) + Held(c) = Size(l) + Held(d) + 0
    BY <2>6
  <2> HIDE DEF d, l
  <2> QED BY <1>1, <1>2, <1>9, <2>1, <2>2, <2>3, <2>4, <2>5, <2>7, ChangeMoves DEF d, l
<1> QED BY <1>6, <1>7, <1>8, <1>9

LEMMA AcquiredMoves ==
  ASSUME LocalInv, NEW t \in Threads, Acquired(t)
  PROVE  Moves(t)
<1> DEFINE d == Call(t)
           l == tls[t]
           c == [d EXCEPT !.at = "use"]
           m == [l EXCEPT !.inUse = @ \/ d.own]
<1>1. Depth(t) > 0 /\ d.at = "reserve" /\ recording[t].step = "none"
  BY AtIs DEF Acquired
<1>2. d \in Frame /\ l \in Slot /\ CallOK(d, l) /\ d.dim > 0 /\ (~l.made => l = None)
  BY <1>1, TopOf, LocalOf DEF CallOK
<1>3. c \in Frame /\ c.at = "use" /\ c.own = d.own /\ c.cap = d.cap /\ c.dim = d.dim
  BY <1>2 DEF Frame
<1>4. m \in Slot /\ m.made = l.made /\ m.cap = l.cap /\ (m.inUse <=> l.inUse \/ d.own)
  <2>1. d.own \in BOOLEAN
    BY <1>2 DEF Frame
  <2> HIDE DEF d, l
  <2> QED BY <1>2, <2>1 DEF Slot
<1>5. PICK r : FramesOnly(t, r) /\ Changed(frames[t], r, c)
  BY <1>1, LocalOf, GoToIs DEF Acquired
<1>6. SlotOnly(t, m)
  <2>1. tls' = [tls EXCEPT ![t] = m]
    BY DEF Acquired
  <2> HIDE DEF m
  <2> QED BY <1>4, <2>1, LocalOf, SlotIs
<1> HIDE DEF c, m
<1>7. Move(t, r, m, used[t], recording[t]) /\ Counting(recording[t], 0)
  <2>1. UNCHANGED counters /\ used' = used /\ work' = work /\ failures' = failures
    BY DEF Acquired
  <2> QED BY <1>1, <1>5, <1>6, <2>1, LocalOf, SameUsed, Unrecorded DEF Move
<1>9. ~m.made => m = None
  <2> HIDE DEF d, l
  <2> SUFFICES ASSUME ~m.made PROVE m = None
    OBVIOUS
  <2>1. l = None /\ ~d.own
    BY <1>2, <1>4 DEF CallOK
  <2>2. ~m.inUse /\ m.cap = Nothing
    BY <2>1, <1>4 DEF None
  <2> QED BY <2>2, <1>4 DEF None, Slot
<1>10. CallOK(c, m) /\ (m.inUse <=> IF c.own THEN c.at = "use" ELSE l.inUse)
  BY <1>2, <1>3, <1>4 DEF CallOK
<1>11. TrimLeft(d, c, l, m)
  <2>1. \A b \in Kinds : m.cap[b] = l.cap[b] /\ (WillTrim(d, b) => WillTrim(c, b))
    BY <1>1, <1>3, <1>4 DEF WillTrim
  <2> HIDE DEF d, l
  <2> QED BY <1>2, <1>4, <2>1, TrimSame
<1>12. Enough(l, used[t]) => Enough(m, used[t])
  BY <1>4 DEF Enough
<1>13. Size(m) + Held(c) = Size(l) + Held(d) + 0
  <2>1. Size(m) = Size(l) /\ Held(c) = Held(d)
    BY <1>1, <1>3, <1>4 DEF Size, Held
  <2>2. Size(l) \in Nat /\ Held(d) \in Nat
    BY <1>2, SizeNat, HeldNat
  <2> QED BY <2>1, <2>2
<1> HIDE DEF d, l
<1> QED BY <1>1, <1>2, <1>3, <1>4, <1>5, <1>7, <1>9, <1>10, <1>11, <1>12, <1>13, ChangeMoves DEF d, l

LEMMA UseMoves ==
  ASSUME LocalInv, NEW t \in Threads, Use(t)
  PROVE  Moves(t)
<1> DEFINE d == Call(t)
           l == tls[t]
           u == used[t]
<1>1. Depth(t) > 0 /\ d.at = "use" /\ recording[t].step = "none"
  BY AtIs DEF Use
<1>2. /\ d \in Frame /\ l \in Slot /\ CallOK(d, l) /\ d.dim > 0
      /\ (~l.made => l = None) /\ u \in [BufferNames -> Nat]
      /\ (d.own => l.inUse)
  BY <1>1, TopOf, LocalOf DEF CallOK
<1>a. PICK b \in Kinds : \E need \in Needs(t, b) :
        /\ \/ need > Cap(t)[b] /\ Grow(t, b, need) /\ UNCHANGED failures
           \/ need <= Cap(t)[b] /\ UNCHANGED <<counters, tls, frames, failures>>
        /\ used' = IF d.own /\ need > used[t][b] THEN [used EXCEPT ![t][b] = need] ELSE used
  BY DEF Use, Kinds
<1>3. PICK need \in Needs(t, b) :
        /\ \/ need > Cap(t)[b] /\ Grow(t, b, need) /\ UNCHANGED failures
           \/ need <= Cap(t)[b] /\ UNCHANGED <<counters, tls, frames, failures>>
        /\ used' = IF d.own /\ need > used[t][b] THEN [used EXCEPT ![t][b] = need] ELSE used
  BY <1>a
<1>4. b \in BufferNames /\ need \in Nat /\ work' = work
  <2>1. work \in [Threads -> [dims : SUBSET (Nat \ {0}), text : SUBSET Nat,
                              ids : SUBSET Nat, depth : Nat, fails : Nat]]
    BY ScratchAssumption DEF LocalInv, Types
  <2>2. Needs(t, b) \subseteq Nat
    BY <2>1 DEF Needs
  <2> QED BY <2>2 DEF Kinds, BufferNames, Use
<1> DEFINE v == IF d.own /\ need > u[b] THEN [u EXCEPT ![b] = need] ELSE u
<1>5. v \in [BufferNames -> Nat]
  BY <1>2, <1>4
<1>6. UsedOnly(t, v)
  <2>1. used \in [Threads -> [BufferNames -> Nat]]
    BY LocalOf
  <2>2. used' = [used EXCEPT ![t] = v]
    BY <1>3, <2>1
  <2> HIDE DEF v
  <2> QED BY <1>5, <2>1, <2>2 DEF UsedOnly
<1>7. \A k \in Kinds : v[k] = u[k] \/ (k = b /\ d.own /\ v[k] = need)
  BY <1>2, <1>4 DEF Kinds, BufferNames
<1>8. CASE need > Cap(t)[b] /\ Grow(t, b, need) /\ UNCHANGED failures
  <2>1. d.at \in {"reserve", "use"} /\ failures' = failures
    BY <1>1, <1>8
  <2> HIDE DEF v
  <2> QED BY <1>1, <1>4, <1>6, <1>7, <1>8, <2>1, GrowMoves
<1>9. CASE need <= Cap(t)[b] /\ UNCHANGED <<counters, tls, frames, failures>>
  <2>1. Move(t, frames[t], l, v, recording[t]) /\ Counting(recording[t], 0)
    <3>1. UNCHANGED counters /\ tls' = tls /\ frames' = frames /\ failures' = failures
      BY <1>9
    <3> HIDE DEF v
    <3> QED BY <1>1, <1>4, <1>6, <3>1, LocalOf, SameSlot, SameFrames, Unrecorded DEF Move
  <2>2. Changed(frames[t], frames[t], d)
    BY <1>1, LocalOf, SameTop
  <2>3. l.inUse <=> IF d.own THEN d.at = "use" ELSE l.inUse
    BY <1>1, <1>2
  <2>4. TrimLeft(d, d, l, l)
    <3> HIDE DEF d, l
    <3> QED BY <1>2, TrimSame
  <2>5. Enough(l, u) => Enough(l, v)
    <3> SUFFICES ASSUME Enough(l, u), NEW k \in Kinds
                 PROVE  l.cap[k] >= v[k] \/ l.cap[k] >= Retained(k)
      BY DEF Enough
    <3>1. l.cap[k] >= u[k] \/ l.cap[k] >= Retained(k)
      BY DEF Enough
    <3>2. CASE v[k] = u[k]
      <4> HIDE DEF v
      <4> QED BY <3>1, <3>2
    <3>3. CASE k = b /\ d.own /\ v[k] = need
      <4>1. l.cap[k] >= need
        <5>1. Cap(t) = l.cap
          BY <3>3 DEF Cap
        <5>2. l.cap[b] \in Nat
          BY <1>2, <1>4 DEF Slot
        <5> HIDE DEF l
        <5> QED BY <3>3, <5>1, <5>2, <1>9, <1>4
      <4> HIDE DEF v, l
      <4> QED BY <4>1, <3>3
    <3> HIDE DEF v
    <3> QED BY <1>7, <3>2, <3>3
  <2>6. Size(l) + Held(d) = Size(l) + Held(d) + 0
    <3>1. Size(l) \in Nat /\ Held(d) \in Nat
      BY <1>2, SizeNat, HeldNat
    <3> QED BY <3>1
  <2> HIDE DEF d, l, u, v
  <2> QED BY <1>1, <1>2, <2>1, <2>2, <2>3, <2>4, <2>5, <2>6, ChangeMoves DEF d, l, u
<1> QED BY <1>3, <1>8, <1>9

LEMMA ReleaseMoves ==
  ASSUME LocalInv, NEW t \in Threads, Release(t)
  PROVE  Moves(t)
<1> DEFINE d == Call(t)
           l == tls[t]
           place == IF d.own THEN "trim" ELSE "free"
           left == IF d.own THEN TooLarge(t) ELSE {}
           c == [d EXCEPT !.at = place, !.todo = left]
           m == IF d.own THEN [l EXCEPT !.inUse = FALSE] ELSE l
<1>1. Depth(t) > 0 /\ d.at = "use" /\ recording[t].step = "none"
  BY AtIs DEF Release
<1>2. /\ d \in Frame /\ l \in Slot /\ CallOK(d, l) /\ d.dim > 0 /\ (~l.made => l = None)
      /\ (d.own => l.made)
  BY <1>1, TopOf, LocalOf DEF CallOK
<1>3. /\ c \in Frame /\ c.at = place /\ c.own = d.own /\ c.cap = d.cap /\ c.dim = d.dim
      /\ c.todo = left
  <2>1. left \in SUBSET BufferNames /\ place \in {"trim", "free"}
    BY DEF TooLarge, BufferNames
  <2> HIDE DEF left, place
  <2> QED BY <1>2, <2>1 DEF Frame
<1>4. /\ m \in Slot /\ m.made = l.made /\ m.cap = l.cap
      /\ (m.inUse <=> IF c.own THEN c.at = "use" ELSE l.inUse)
  <2>1. CASE d.own
    <3>1. m = [l EXCEPT !.inUse = FALSE] /\ c.own /\ c.at = "trim"
      BY <1>3, <2>1
    <3> HIDE DEF m, l, c
    <3> QED BY <1>2, <3>1 DEF Slot
  <2>2. CASE ~d.own
    <3>1. m = l /\ ~c.own
      BY <1>3, <2>2
    <3> HIDE DEF m, l, c
    <3> QED BY <1>2, <3>1
  <2> QED BY <2>1, <2>2
<1>5. frames' = [frames EXCEPT ![t][Depth(t)] = c]
  BY DEF Release, Call
<1>6. SlotOnly(t, m)
  <2>1. CASE d.own
    <3>1. tls' = [tls EXCEPT ![t] = m]
      BY <2>1 DEF Release, Releases
    <3> HIDE DEF m
    <3> QED BY <1>4, <3>1, LocalOf, SlotIs
  <2>2. CASE ~d.own
    <3>1. tls' = tls
      BY <2>2 DEF Release, Releases
    <3>2. m = l
      BY <2>2
    <3> HIDE DEF m
    <3> QED BY <3>1, <3>2, LocalOf, SameSlot
  <2> QED BY <2>1, <2>2
<1>7. d.own => c.at = "trim" /\ c.todo = TooLarge(t)
  BY <1>3
<1>8. ~d.own => c.at = "free"
  BY <1>3
<1>9. c.at \in {"trim", "free"}
  BY <1>3
<1> HIDE DEF c, m
<1>10. PICK r : FramesOnly(t, r) /\ Changed(frames[t], r, c)
  BY <1>1, <1>3, <1>5, LocalOf, ChangesTop
<1>11. failures' \in Nat /\ (failures' = 0 => failures = 0)
  <2>1. failures' = failures \/ Fails(t)
    BY DEF Release
  <2> QED BY <2>1, LocalOf, FailsIs
<1>12. Move(t, r, m, used[t], recording[t]) /\ Counting(recording[t], 0)
  <2>1. UNCHANGED counters /\ used' = used /\ work' = work
    BY DEF Release
  <2> QED BY <1>1, <1>6, <1>10, <1>11, <2>1, LocalOf, SameUsed, Unrecorded DEF Move
<1>13. CallOK(c, m)
  <2>1. d.own => \A b \in TooLarge(t) : b \in Kinds /\ l.cap[b] > Retained(b)
    BY DEF TooLarge, Kinds
  <2> QED BY <1>2, <1>3, <1>4, <1>7, <1>8, <1>9, <2>1 DEF CallOK
<1>14. TrimLeft(d, c, l, m)
  <2> SUFFICES ASSUME NEW b \in Kinds
               PROVE  /\ WillTrim(d, b) => WillTrim(c, b) \/ m.cap[b] <= Retained(b)
                      /\ \/ m.cap[b] <= Retained(b)
                         \/ WillTrim(c, b)
                         \/ m.cap[b] = l.cap[b] /\ l.cap[b] > Retained(b)
    BY DEF TrimLeft
  <2>1. l.cap[b] \in Nat /\ Retained(b) \in Nat /\ m.cap[b] = l.cap[b]
    BY <1>2, <1>4, RetainedNat DEF Slot, Kinds, BufferNames
  <2>2. CASE d.own
    <3>1. l.cap[b] > Retained(b) => WillTrim(c, b)
      BY <1>3, <1>7, <2>2 DEF WillTrim, TooLarge, Kinds
    <3> QED BY <2>1, <3>1
  <2>3. CASE ~d.own
    <3>1. ~WillTrim(d, b)
      BY <2>3 DEF WillTrim
    <3> QED BY <2>1, <3>1
  <2> QED BY <2>2, <2>3
<1>15. Enough(l, used[t]) => Enough(m, used[t])
  BY <1>4 DEF Enough
<1>16. Size(m) + Held(c) = Size(l) + Held(d) + 0
  <2>1. Size(m) = Size(l) /\ Held(c) = Held(d)
    BY <1>1, <1>3, <1>4, <1>9 DEF Size, Held
  <2>2. Size(l) \in Nat /\ Held(d) \in Nat
    BY <1>2, SizeNat, HeldNat
  <2> QED BY <2>1, <2>2
<1>17. ~m.made => m = None
  <2>1. ~l.made => ~d.own
    BY <1>2
  <2>2. ~d.own => m = l
    BY DEF m
  <2> QED BY <1>2, <1>4, <2>1, <2>2
<1> HIDE DEF d, l
<1> QED BY <1>1, <1>2, <1>3, <1>4, <1>9, <1>10, <1>12, <1>13, <1>14, <1>15, <1>16, <1>17, ChangeMoves DEF d, l

LEMMA TrimMoves ==
  ASSUME LocalInv, NEW t \in Threads, Trim(t)
  PROVE  Moves(t)
<1> DEFINE d == Call(t)
           l == tls[t]
           b == First(d.todo)
<1>1. Depth(t) > 0 /\ d.at = "trim" /\ recording[t].step = "none"
  BY AtIs DEF Trim
<1>2. /\ d \in Frame /\ l \in Slot /\ CallOK(d, l) /\ d.dim > 0 /\ (~l.made => l = None)
      /\ d.own /\ l.made /\ (\A k \in d.todo : k \in Kinds /\ l.cap[k] > Retained(k))
      /\ ~l.inUse
  <2>1. d.own /\ l.inUse => d.at = "use"
    BY <1>1, TopOf
  <2> QED BY <1>1, <2>1, TopOf, LocalOf DEF CallOK
<1>3. used' = used /\ work' = work
  BY DEF Trim
<1>4. CASE d.todo = {}
  <2>1. Pop(t) /\ UNCHANGED counters /\ tls' = tls /\ failures' = failures
    BY <1>4 DEF Trim
  <2>2. PICK r : FramesOnly(t, r) /\ Popped(frames[t], r)
    BY <1>1, <2>1, LocalOf, PopsTop
  <2>3. Move(t, r, l, used[t], recording[t]) /\ Counting(recording[t], 0)
    BY <1>1, <1>3, <2>1, <2>2, LocalOf, SameSlot, SameUsed, Unrecorded DEF Move
  <2>4. Held(d) = 0
    BY <1>2 DEF Held
  <2>5. Counting(recording[t], 0 - Held(d)) /\ recording[t].step \notin {"sub", "add"}
    BY <1>1, <2>3, <2>4
  <2>6. \A k \in Kinds : ~WillTrim(d, k)
    BY <1>1, <1>4 DEF WillTrim
  <2>7. d.at \notin {"use", "exit"}
    BY <1>1
  <2> HIDE DEF d, l
  <2> QED BY <1>1, <2>2, <2>3, <2>5, <2>6, <2>7, PopMoves DEF d, l
<1>5. CASE d.todo # {}
  <2> DEFINE rest == d.todo \ {b}
             c == [d EXCEPT !.todo = rest]
  <2>1. b \in d.todo
    <3>1. d.todo \in SUBSET BufferNames
      BY <1>2 DEF Frame
    <3> HIDE DEF d
    <3> QED BY <1>5, <3>1, FirstIn
  <2>2. b \in Kinds /\ b \in BufferNames /\ l.cap[b] > Retained(b)
    BY <1>2, <2>1 DEF Kinds, BufferNames
  <2>3. /\ frames' = [frames EXCEPT ![t][Depth(t)] = c]
        /\ \/ /\ tls' = [tls EXCEPT ![t].cap[b] = Retained(b)]
              /\ RecordRealloc(t, l.cap[b], Retained(b))
              /\ UNCHANGED failures
           \/ Fails(t) /\ UNCHANGED <<counters, tls>>
    <3>1. frames' = [frames EXCEPT ![t][Depth(t)].todo = @ \ {b}]
      BY <1>5 DEF Trim
    <3>2. frames' = [frames EXCEPT ![t][Depth(t)] = c]
      BY <3>1 DEF Call
    <3>3. \/ /\ tls' = [tls EXCEPT ![t].cap[b] = Retained(b)]
             /\ RecordRealloc(t, l.cap[b], Retained(b))
             /\ UNCHANGED failures
          \/ Fails(t) /\ UNCHANGED <<counters, tls>>
      BY <1>5 DEF Trim
    <3> QED BY <3>2, <3>3
  <2>4. /\ c \in Frame /\ c.at = d.at /\ c.own = d.own /\ c.cap = d.cap /\ c.dim = d.dim
        /\ c.todo = rest
    <3>1. rest \in SUBSET BufferNames
      BY <1>2 DEF Frame
    <3> HIDE DEF rest, d
    <3> QED BY <1>2, <3>1 DEF Frame
  <2> HIDE DEF c
  <2>5. PICK r : FramesOnly(t, r) /\ Changed(frames[t], r, c)
    BY <1>1, <2>3, <2>4, LocalOf, ChangesTop
  <2>6. Held(c) = 0 /\ Held(d) = 0 /\ Size(l) \in Nat
    BY <1>2, <2>4, SizeNat DEF Held
  <2>7. \A k \in Kinds : k # b /\ WillTrim(d, k) => WillTrim(c, k)
    BY <1>1, <2>4 DEF WillTrim
  <2>8. l.cap \in [BufferNames -> Nat] /\ l.cap[b] \in Nat /\ Retained(b) \in Nat
    BY <1>2, <2>2, RetainedNat DEF Slot
  <2>9. c.at = "trim" /\ c.own
    BY <1>1, <1>2, <2>4
  <2>10. CASE /\ tls' = [tls EXCEPT ![t].cap[b] = Retained(b)]
              /\ RecordRealloc(t, l.cap[b], Retained(b))
              /\ UNCHANGED failures
    <3> DEFINE m == Sized(l, b, Retained(b))
               old == l.cap[b]
               new == Retained(b)
    <3>1. /\ m \in Slot /\ m.made = l.made /\ m.inUse = l.inUse
          /\ m.cap = [l.cap EXCEPT ![b] = Retained(b)]
      BY <1>2, <2>2, <2>8, SizedIn DEF Sized, Slot
    <3>2. SlotOnly(t, m)
      <4>1. tls' = [tls EXCEPT ![t] = m]
        BY <2>10 DEF Sized
      <4> HIDE DEF m
      <4> QED BY <3>1, <4>1, LocalOf, SlotIs
    <3>3. PICK rec : RecordingOnly(t, rec) /\ Counting(rec, new - old) /\ rec.new = new
      <4>1. RecordRealloc(t, old, new) /\ old \in Nat /\ new \in Nat
        BY <2>8, <2>10
      <4> HIDE DEF old, new
      <4> QED BY <4>1, LocalOf, ReallocIs
    <3> HIDE DEF m
    <3>4. Move(t, r, m, used[t], rec)
      BY <1>3, <2>5, <2>10, <3>2, <3>3, LocalOf, SameUsed DEF Move
    <3>5. \A k \in Kinds : m.cap[k] = IF k = b THEN new ELSE l.cap[k]
      BY <2>8, <3>1 DEF Kinds, BufferNames
    <3>6. CallOK(c, m)
      <4>1. \A k \in c.todo : k \in Kinds /\ m.cap[k] > Retained(k)
        BY <1>2, <2>4, <3>5
      <4> QED BY <1>2, <2>4, <2>9, <3>1, <4>1 DEF CallOK
    <3>7. TrimLeft(d, c, l, m)
      <4> SUFFICES ASSUME NEW k \in Kinds
                   PROVE  /\ WillTrim(d, k) => WillTrim(c, k) \/ m.cap[k] <= Retained(k)
                          /\ \/ m.cap[k] <= Retained(k)
                             \/ WillTrim(c, k)
                             \/ m.cap[k] = l.cap[k] /\ l.cap[k] > Retained(k)
        BY DEF TrimLeft
      <4>1. l.cap[k] \in Nat /\ Retained(k) \in Nat
        BY <1>2, RetainedNat DEF Slot, Kinds, BufferNames
      <4>2. CASE k = b
        <5>1. m.cap[k] = Retained(k)
          BY <3>5, <4>2
        <5> QED BY <4>1, <5>1
      <4>3. CASE k # b
        BY <2>7, <3>5, <4>1, <4>3
      <4> QED BY <4>2, <4>3
    <3>8. Enough(l, used[t]) => Enough(m, used[t])
      <4> HIDE DEF l
      <4> QED BY <2>8, <3>5 DEF Enough
    <3>9. Size(m) = Size(l) + (new - old) /\ new <= Size(m)
      <4>1. Bytes(m.cap) = Bytes(l.cap) + (new - old) /\ new <= Bytes(m.cap) /\ Bytes(l.cap) \in Nat
        <5> HIDE DEF l
        <5> QED BY <2>2, <2>8, <3>1, BytesSized
      <4>2. Size(m) = 1 + Bytes(m.cap) /\ Size(l) = 1 + Bytes(l.cap)
        BY <1>2, <3>1 DEF Size, StructBytes
      <4> HIDE DEF l, old, new
      <4>3. old \in Nat /\ new \in Nat
        BY <2>8 DEF old, new
      <4> QED BY <4>1, <4>2, <4>3
    <3>10. /\ Size(m) + Held(c) = Size(l) + Held(d) + (new - old)
           /\ rec.new <= Size(m) + Held(c)
      <4>1. old \in Nat /\ new \in Nat
        BY <2>8
      <4> HIDE DEF l, d, old, new
      <4> QED BY <2>6, <3>3, <3>9, <4>1
    <3>11. new - old \in Int
      BY <2>8
    <3>12. m.inUse <=> IF c.own THEN c.at = "use" ELSE l.inUse
      BY <1>2, <2>9, <3>1
    <3>13. ~m.made => m = None
      BY <1>2, <3>1
    <3> HIDE DEF d, l, b, old, new
    <3> QED BY <1>1, <1>2, <2>4, <2>5, <2>9, <3>1, <3>3, <3>4, <3>6, <3>7, <3>8, <3>10, <3>11, <3>12,
               <3>13, ChangeMoves DEF d, l
  <2>11. CASE Fails(t) /\ UNCHANGED <<counters, tls>>
    <3>1. failures' \in Nat /\ failures' # 0
      BY <2>11, LocalOf, FailsIs
    <3>2. Move(t, r, l, used[t], recording[t]) /\ Counting(recording[t], 0)
      <4>1. UNCHANGED counters /\ tls' = tls
        BY <2>11
      <4> QED BY <1>1, <1>3, <2>5, <3>1, <4>1, LocalOf, SameSlot, SameUsed, Unrecorded DEF Move
    <3>3. CallOK(c, l)
      BY <1>2, <2>4, <2>9 DEF CallOK
    <3>4. Size(l) + Held(c) = Size(l) + Held(d) + 0
      BY <2>6
    <3>5. l.inUse <=> IF c.own THEN c.at = "use" ELSE l.inUse
      BY <1>2, <2>9
    <3> HIDE DEF d, l, b
    <3> QED BY <1>1, <1>2, <2>4, <2>5, <2>9, <3>1, <3>2, <3>3, <3>4, <3>5, ChangeMoves DEF d, l
  <2> QED BY <2>3, <2>10, <2>11
<1> QED BY <1>4, <1>5

LEMMA FirstFreed ==
  ASSUME LocalInv, NEW t \in Threads, Depth(t) > 0, FreedCap(t) # {}
  PROVE  First(FreedCap(t)) \in BufferNames /\ Cap(t)[First(FreedCap(t))] \in Nat
<1> DEFINE b == First(FreedCap(t))
<1>1. FreedCap(t) \in SUBSET BufferNames
  BY DEF FreedCap
<1>2. b \in FreedCap(t)
  BY <1>1, FirstIn
<1>3. b \in BufferNames
  BY <1>1, <1>2
<1> HIDE DEF b
<1>4. Cap(t)[b] \in Nat
  BY <1>3, TopOf, LocalOf DEF Cap, Frame, Slot
<1> QED BY <1>3, <1>4 DEF b

LEMMA FreeMoves ==
  ASSUME LocalInv, NEW t \in Threads, Free(t)
  PROVE  Moves(t)
<1> DEFINE d == Call(t)
           l == tls[t]
           b == First(FreedCap(t))
<1>1. Depth(t) > 0 /\ d.at = "free" /\ recording[t].step = "none"
  BY AtIs DEF Free
<1>2. /\ d \in Frame /\ l \in Slot /\ CallOK(d, l) /\ d.dim > 0 /\ (~l.made => l = None) /\ ~d.own
  BY <1>1, TopOf, LocalOf DEF CallOK
<1>3. used' = used /\ work' = work /\ failures' = failures
  BY DEF Free
<1>4. Cap(t) = d.cap /\ d.cap \in [BufferNames -> Nat]
  BY <1>2 DEF Cap, Frame
<1>5. CASE FreedCap(t) # {}
  <2> DEFINE old == Cap(t)[b]
             c == Sized(d, b, 0)
  <2>1. b \in BufferNames /\ old \in Nat
    BY <1>1, <1>5, FirstFreed
  <2>2. SetCap(t, b, 0) /\ RecordFree(t, old)
    BY <1>5 DEF Free
  <2> HIDE DEF b
  <2>3. tls' = tls /\ \E r : FramesOnly(t, r) /\ Changed(frames[t], r, c)
    BY <1>1, <1>2, <2>1, <2>2, LocalOf, SetCapIs
  <2>4. PICK r : FramesOnly(t, r) /\ Changed(frames[t], r, c)
    BY <2>3
  <2>5. PICK rec : RecordingOnly(t, rec) /\ Counting(rec, 0 - old) /\ rec.step = "free"
    <3> HIDE DEF old
    <3> QED BY <2>1, <2>2, LocalOf, FreeIs
  <2>6. /\ c \in Frame /\ c.at = d.at /\ c.own = d.own /\ c.dim = d.dim /\ c.todo = d.todo
        /\ c.cap = [d.cap EXCEPT ![b] = 0]
    BY <1>2, <2>1, SizedIn DEF Sized, Frame
  <2> HIDE DEF c
  <2>7. Move(t, r, l, used[t], rec)
    BY <1>3, <2>3, <2>4, <2>5, LocalOf, SameSlot, SameUsed DEF Move
  <2>8. CallOK(c, l) /\ (l.inUse <=> IF c.own THEN c.at = "use" ELSE l.inUse)
    BY <1>1, <1>2, <2>6 DEF CallOK
  <2>9. TrimLeft(d, c, l, l)
    <3>1. \A k \in Kinds : WillTrim(d, k) => WillTrim(c, k)
      BY <2>6 DEF WillTrim
    <3> HIDE DEF l, d
    <3> QED BY <1>2, <3>1, TrimSame
  <2>10. Held(c) = Held(d) + (0 - old) /\ Held(d) \in Nat
    <3>1. old = d.cap[b] /\ Held(c) = 1 + Bytes(c.cap) /\ Held(d) = 1 + Bytes(d.cap)
      BY <1>1, <1>2, <1>4, <2>6 DEF Held, StructBytes
    <3> HIDE DEF d, old
    <3>2. Bytes(c.cap) = Bytes(d.cap) + (0 - old) /\ Bytes(d.cap) \in Nat
      BY <1>4, <2>1, <2>6, <3>1, BytesSized
    <3> QED BY <2>1, <3>1, <3>2
  <2>11. Size(l) + Held(c) = Size(l) + Held(d) + (0 - old)
    <3>1. Size(l) \in Nat
      BY <1>2, SizeNat
    <3> HIDE DEF l, old, d
    <3> QED BY <2>1, <2>10, <3>1
  <2>12. 0 - old \in Int
    BY <2>1
  <2>13. c.at # "exit" /\ d.at # "exit" /\ c.own = d.own
    BY <1>1, <2>6
  <2> HIDE DEF d, l, old
  <2> QED BY <1>1, <1>2, <2>4, <2>5, <2>6, <2>7, <2>8, <2>9, <2>11, <2>12, <2>13, ChangeMoves DEF d, l
<1>6. CASE FreedCap(t) = {}
  <2>1. Pop(t) /\ RecordFree(t, StructBytes) /\ tls' = tls
    BY <1>6 DEF Free
  <2>2. PICK r : FramesOnly(t, r) /\ Popped(frames[t], r)
    BY <1>1, <2>1, LocalOf, PopsTop
  <2>3. PICK rec : RecordingOnly(t, rec) /\ Counting(rec, 0 - 1) /\ rec.step = "free"
    BY <2>1, LocalOf, FreeIs DEF StructBytes
  <2>4. Move(t, r, l, used[t], rec)
    BY <1>3, <2>1, <2>2, <2>3, LocalOf, SameSlot, SameUsed DEF Move
  <2>5. Held(d) = 1
    <3>1. \A k \in BufferNames : d.cap[k] = 0
      <4> HIDE DEF d
      <4> QED BY <1>4, <1>6 DEF FreedCap
    <3>2. Bytes(d.cap) = 0
      BY <3>1 DEF Bytes, BufferNames
    <3> QED BY <1>1, <1>2, <3>2 DEF Held, StructBytes
  <2>6. Counting(rec, 0 - Held(d)) /\ rec.step \notin {"sub", "add"}
    BY <2>3, <2>5
  <2>7. \A k \in Kinds : ~WillTrim(d, k)
    BY <1>2 DEF WillTrim
  <2>8. d.at \notin {"use", "exit"}
    BY <1>1
  <2> HIDE DEF d, l
  <2> QED BY <1>1, <2>2, <2>4, <2>6, <2>7, <2>8, PopMoves DEF d, l
<1> QED BY <1>5, <1>6

LEMMA ExitMoves ==
  ASSUME LocalInv, NEW t \in Threads, Exit(t)
  PROVE  Moves(t)
<1> DEFINE s == frames[t]
           l == tls[t]
           u == used[t]
           c == [at |-> "exit", own |-> TRUE, cap |-> Nothing, dim |-> 0, todo |-> {}]
           r == <<c>>
           rec == recording[t]
<1>1. s = <<>> /\ l.made /\ rec.step = "none"
  <2>1. Len(s) = 0 /\ s \in Seq(Frame)
    BY LocalOf DEF Exit, Depth
  <2>2. s = <<>>
    <3> HIDE DEF s
    <3> QED BY <2>1
  <2> QED BY <2>2 DEF Exit, Recording
<1>2. /\ l \in Slot /\ Stack(s, l) /\ (failures = 0 => Bounded(s, l))
  BY LocalOf
<1>3. c \in Frame /\ c.at = "exit" /\ c.own /\ c.cap = Nothing
  BY DEF Frame, Nothing
<1>4. frames' = [frames EXCEPT ![t] = r]
  BY DEF Exit
<1> HIDE DEF c
<1>5. r \in Seq(Frame) /\ Len(r) = 1 /\ r[1] = c
  BY <1>3
<1>6. Pushed(<<>>, r, c) /\ <<>> \in Seq(Frame)
  <2>1. Len(<<>>) = 0
    OBVIOUS
  <2> QED BY <1>5, <2>1 DEF Pushed
<1> HIDE DEF r
<1>7. FramesOnly(t, r)
  BY <1>4, <1>5, LocalOf, FramesAre
<1>8. Move(t, r, l, u, rec) /\ Counting(rec, 0)
  <2>1. UNCHANGED counters /\ tls' = tls /\ used' = used /\ work' = work /\ failures' = failures
    BY DEF Exit
  <2> QED BY <1>1, <1>7, <2>1, LocalOf, SameSlot, SameUsed, Unrecorded DEF Move
<1>9. Stack(r, l)
  <2>1. \A i \in 1 .. Len(r) : i = 1 /\ r[i] = c
    BY <1>5
  <2>2. CallOK(c, l)
    BY <1>1, <1>3 DEF CallOK
  <2>3. ~l.inUse /\ (~l.made => l = None)
    <3> HIDE DEF s, l
    <3>1. 1 .. Len(s) = {}
      BY <1>1
    <3> QED BY <1>2, <3>1 DEF Stack
  <2> HIDE DEF l
  <2> QED BY <1>3, <1>5, <2>1, <2>2, <2>3 DEF Stack
<1>10. failures' = 0 => Bounded(r, l)
  <2>1. Len(s) \in Nat /\ Pushed(s, r, c)
    BY <1>1, <1>6
  <2> HIDE DEF s, l
  <2> QED BY <1>2, <1>8, <2>1, BoundedPush DEF Move
<1>11. Kept(r, l, u)
  <2>1. 1 \in 1 .. Len(r) /\ r[1].at = "exit"
    BY <1>3, <1>5
  <2> QED BY <2>1 DEF Kept
<1>12. Uses(r, l) - Pending(rec) = Uses(s, l)
  <2>1. Held(c) = 0
    BY <1>3 DEF Held
  <2>2. Stacked(r) = Stacked(s) + Held(c)
    BY <1>1, <1>3, <1>6, StackedPush
  <2>3. Stacked(s) \in Nat /\ Size(l) \in Nat
    BY <1>1, <1>2, <1>6, StackedNat, SizeNat
  <2>4. Uses(r, l) = Size(l) + Stacked(r) /\ Uses(s, l) = Size(l) + Stacked(s)
    BY UsesIs
  <2>5. Pending(rec) = 0
    BY <1>8 DEF Counting
  <2> HIDE DEF s, l, rec
  <2> QED BY <2>1, <2>2, <2>3, <2>4, <2>5
<1>13. Keeps(t, r, l, u, rec)
  BY <1>1, <1>8, <1>9, <1>10, <1>11, <1>12 DEF Keeps, Counting
<1> QED BY <1>1, <1>8, <1>13 DEF Moves

LEMMA DestroyMoves ==
  ASSUME LocalInv, NEW t \in Threads, Destroy(t)
  PROVE  Moves(t)
<1> DEFINE d == Call(t)
           l == tls[t]
           s == frames[t]
           b == First(FreedCap(t))
<1>1. Depth(t) > 0 /\ d.at = "exit" /\ recording[t].step = "none"
  BY AtIs DEF Destroy
<1>2. /\ d \in Frame /\ l \in Slot /\ CallOK(d, l) /\ d = s[Len(s)] /\ Len(s) = 1 /\ s \in Seq(Frame)
      /\ (d.own => ~l.inUse)
  BY <1>1, TopOf, LocalOf
<1>3. d.own /\ l.made /\ ~l.inUse
  BY <1>1, <1>2 DEF CallOK
<1>4. work' = work /\ failures' = failures
  BY DEF Destroy
<1>5. Cap(t) = l.cap /\ l.cap \in [BufferNames -> Nat]
  BY <1>2, <1>3 DEF Cap, Slot
<1>6. Held(d) = 0 /\ Size(l) \in Nat
  BY <1>2, <1>3, SizeNat DEF Held
<1>7. CASE FreedCap(t) # {}
  <2> DEFINE old == Cap(t)[b]
             m == Sized(l, b, 0)
  <2>1. b \in BufferNames /\ old \in Nat
    BY <1>1, <1>7, FirstFreed
  <2>2. SetCap(t, b, 0) /\ RecordFree(t, old) /\ used' = used
    BY <1>7 DEF Destroy
  <2> HIDE DEF b
  <2>3. SlotOnly(t, m) /\ frames' = frames
    BY <1>1, <1>3, <2>1, <2>2, LocalOf, SetCapIs
  <2>4. PICK rec : RecordingOnly(t, rec) /\ Counting(rec, 0 - old) /\ rec.step = "free"
    <3> HIDE DEF old
    <3> QED BY <2>1, <2>2, LocalOf, FreeIs
  <2>5. m \in Slot /\ m.made = l.made /\ m.inUse = l.inUse /\ m.cap = [l.cap EXCEPT ![b] = 0]
    BY <1>2, <2>1, SizedIn DEF Sized, Slot
  <2> HIDE DEF m
  <2>6. Move(t, s, m, used[t], rec)
    BY <1>4, <2>2, <2>3, <2>4, LocalOf, SameFrames, SameUsed DEF Move
  <2>7. Changed(s, s, d)
    BY <1>1, LocalOf, SameTop
  <2>8. CallOK(d, m) /\ (m.inUse <=> IF d.own THEN d.at = "use" ELSE l.inUse)
    BY <1>1, <1>2, <1>3, <2>5 DEF CallOK
  <2>9. TrimLeft(d, d, l, m)
    <3> SUFFICES ASSUME NEW k \in Kinds
                 PROVE  /\ WillTrim(d, k) => WillTrim(d, k) \/ m.cap[k] <= Retained(k)
                        /\ \/ m.cap[k] <= Retained(k)
                           \/ WillTrim(d, k)
                           \/ m.cap[k] = l.cap[k] /\ l.cap[k] > Retained(k)
      BY DEF TrimLeft
    <3>1. l.cap[k] \in Nat /\ Retained(k) \in Nat /\ m.cap[k] = IF k = b THEN 0 ELSE l.cap[k]
      BY <1>5, <2>5, RetainedNat DEF Kinds, BufferNames
    <3> QED BY <3>1
  <2>10. Size(m) = Size(l) + (0 - old)
    <3>1. old = l.cap[b] /\ Size(m) = 1 + Bytes(m.cap) /\ Size(l) = 1 + Bytes(l.cap)
      BY <1>3, <1>5, <2>5 DEF Size, StructBytes
    <3> HIDE DEF l, old
    <3>2. Bytes(m.cap) = Bytes(l.cap) + (0 - old) /\ Bytes(l.cap) \in Nat
      BY <1>5, <2>1, <2>5, <3>1, BytesSized
    <3> QED BY <2>1, <3>1, <3>2
  <2>11. Size(m) + Held(d) = Size(l) + Held(d) + (0 - old)
    <3> HIDE DEF l, old, d
    <3> QED BY <1>6, <2>1, <2>10
  <2>12. 0 - old \in Int
    BY <2>1
  <2>13. (l.made => m.made) /\ (~m.made => m = None) /\ d.at = "exit" /\ rec.step \notin {"sub", "add"}
    BY <1>1, <1>3, <2>4, <2>5
  <2> HIDE DEF d, l, old, s
  <2> QED BY <1>1, <1>2, <1>3, <2>4, <2>5, <2>6, <2>7, <2>8, <2>9, <2>11, <2>12, <2>13, ChangeMoves
          DEF d, l, s
<1>8. CASE FreedCap(t) = {}
  <2> DEFINE v == Nothing
  <2>1. /\ tls' = [tls EXCEPT ![t] = None] /\ Pop(t) /\ RecordFree(t, StructBytes)
        /\ used' = [used EXCEPT ![t] = v]
    BY <1>8 DEF Destroy
  <2>2. PICK r : FramesOnly(t, r) /\ Popped(s, r)
    BY <1>1, <2>1, LocalOf, PopsTop
  <2>3. PICK rec : RecordingOnly(t, rec) /\ Counting(rec, 0 - 1) /\ rec.step = "free"
    BY <2>1, LocalOf, FreeIs DEF StructBytes
  <2>4. None \in Slot /\ v \in [BufferNames -> Nat] /\ ~None.made /\ ~None.inUse /\ None.cap = Nothing
    BY DEF None, Slot, Nothing
  <2>5. SlotOnly(t, None)
    BY <2>1, <2>4, LocalOf, SlotIs
  <2>6. UsedOnly(t, v)
    <3> HIDE DEF v
    <3> QED BY <2>1, <2>4, LocalOf DEF UsedOnly
  <2>7. Move(t, r, None, v, rec)
    BY <1>4, <2>2, <2>3, <2>5, <2>6, LocalOf DEF Move
  <2>8. Len(r) = 0 /\ r \in Seq(Frame)
    BY <1>2, <2>2 DEF Popped
  <2>9. Stack(r, None)
    <3>1. 1 .. Len(r) = {}
      BY <2>8
    <3> QED BY <2>4, <2>8, <3>1 DEF Stack
  <2>10. \A k \in Kinds : None.cap[k] = 0 /\ v[k] = 0 /\ Retained(k) \in Nat
    BY <2>4, RetainedNat DEF Nothing, Kinds, BufferNames
  <2>11. Bounded(r, None) /\ Kept(r, None, v)
    BY <2>10 DEF Bounded, Kept, Enough
  <2>12. Uses(r, None) = 0
    <3>1. Stacked(s) = Stacked(r) + Held(d)
      <4> HIDE DEF s, d
      <4> QED BY <1>2, <2>2, StackedPop
    <3>2. r = <<>>
      BY <2>8
    <3>3. Stacked(r) = 0
      BY <3>2, StackedNone
    <3>4. Size(None) = 0
      BY <2>4 DEF Size
    <3> QED BY <3>3, <3>4, UsesIs
  <2>13. Uses(s, l) = 1
    <3>1. \A k \in BufferNames : l.cap[k] = 0
      <4> HIDE DEF l
      <4> QED BY <1>5, <1>8 DEF FreedCap
    <3>2. Bytes(l.cap) = 0
      BY <3>1 DEF Bytes, BufferNames
    <3>3. Size(l) = 1
      BY <1>3, <3>2 DEF Size, StructBytes
    <3>4. Stacked(r) = 0
      <4>1. r = <<>>
        BY <2>8
      <4> QED BY <4>1, StackedNone
    <3>5. Stacked(s) = Stacked(r) + Held(d)
      <4> HIDE DEF s, d
      <4> QED BY <1>2, <2>2, StackedPop
    <3>6. Uses(s, l) = Size(l) + Stacked(s)
      BY UsesIs
    <3> HIDE DEF s, l, d
    <3> QED BY <1>6, <3>3, <3>4, <3>5, <3>6
  <2>14. Keeps(t, r, None, v, rec)
    <3>1. rec \in Entry /\ rec.step = "free" /\ Pending(rec) = 0 - 1
      BY <2>3 DEF Counting
    <3>2. Uses(r, None) - Pending(rec) = Uses(s, l)
      <4> HIDE DEF s, l
      <4> QED BY <2>12, <2>13, <3>1
    <3> QED BY <2>9, <2>11, <3>1, <3>2 DEF Keeps
  <2> QED BY <1>1, <2>7, <2>14 DEF Moves
<1> QED BY <1>7, <1>8

-----------------------------------------------------------------------------
(* What the steps do to the invariants of all threads *)

Works(t) ==
  \/ Begin(t) \/ MakeSlot(t) \/ TakeOwn(t) \/ TakeHeap(t) \/ Reserve(t) \/ Acquired(t)
  \/ Use(t) \/ Release(t) \/ Trim(t) \/ Free(t) \/ Exit(t) \/ Destroy(t)

LEMMA WorksMoves ==
  ASSUME LocalInv, NEW t \in Threads, Works(t)
  PROVE  Moves(t)
BY BeginMoves, MakeSlotMoves, TakeOwnMoves, TakeHeapMoves, ReserveMoves, AcquiredMoves,
   UseMoves, ReleaseMoves, TrimMoves, FreeMoves, ExitMoves, DestroyMoves DEF Works

Counters(t) == CountDown(t) \/ CountUp(t) \/ ReadPeak(t) \/ RaisePeak(t)
Resets == ResetReads \/ ResetWrites

LEMMA NextIs ==
  ASSUME [Next]_vars
  PROVE  \/ \E t \in Threads : Works(t)
         \/ \E t \in Threads : Counters(t)
         \/ Resets
         \/ UNCHANGED vars
BY DEF Next, Works, Counters, Resets

LEMMA MovesKeep ==
  ASSUME LocalInv, NEW t \in Threads, Moves(t)
  PROVE  LocalInv'
<1>1. PICK r, m, v, rec : Move(t, r, m, v, rec) /\ Keeps(t, r, m, v, rec)
  BY DEF Moves
<1>2. CountersTypeOK'
  <2>1. CountersTypeOK
    BY DEF LocalInv, Types
  <2> QED BY <1>1, <2>1 DEF CountersTypeOK, Move, RecordingOnly, Entry
<1>3. Types'
  <2>1. work \in Workloads
    BY DEF LocalInv, Types
  <2> QED BY <1>1, <1>2, <2>1 DEF Types, Move, FramesOnly, SlotOnly, UsedOnly
<1>4. \A u \in Threads : /\ u = t => frames'[u] = r /\ tls'[u] = m /\ used'[u] = v
                         /\ u # t => /\ frames'[u] = frames[u] /\ tls'[u] = tls[u]
                                     /\ used'[u] = used[u]
  BY <1>1 DEF Move, FramesOnly, SlotOnly, UsedOnly
<1>5. StackInv'
  BY <1>1, <1>4 DEF LocalInv, StackInv, Keeps
<1>6. BoundedInv'
  <2>1. failures' = 0 => failures = 0
    BY <1>1 DEF Move
  <2> QED BY <1>1, <1>4, <2>1 DEF LocalInv, BoundedInv, Keeps
<1>7. KeptInv'
  BY <1>1, <1>4 DEF LocalInv, KeptInv, Keeps
<1> QED BY <1>3, <1>5, <1>6, <1>7 DEF LocalInv

(* The counters alone *)

LEMMA ModWord == ASSUME NEW a \in Int PROVE a % Word \in 0 .. Word - 1
BY CountersAssumption

LEMMA CountersKeep ==
  ASSUME LocalInv, Resets \/ \E t \in Threads : Counters(t)
  PROVE  LocalInv'
<1>1. CountersTypeOK /\ Types
  BY DEF LocalInv, Types
<1>2. UNCHANGED scratchVars
  BY DEF Resets, Counters, CountDown, CountUp, ReadPeak, RaisePeak, ResetReads, ResetWrites
<1>3. recording \in [Threads -> Entry] /\ current \in 0 .. Word - 1 /\ peak \in 0 .. Word - 1
  BY <1>1 DEF CountersTypeOK, Entry
<1>4. ASSUME NEW t \in Threads, Subtract(t) PROVE CountersTypeOK'
  <2>1. current - recording[t].old \in Int
    BY <1>3 DEF Entry
  <2>2. current' \in 0 .. Word - 1
    BY <1>4, <2>1, ModWord DEF Subtract
  <2>3. recording' \in [Threads -> Entry]
    <3>1. [recording[t] EXCEPT !.step = "add"] \in Entry
      BY <1>3 DEF Entry
    <3> QED BY <1>3, <1>4, <3>1, NoRecordIn DEF Subtract
  <2> QED BY <1>1, <1>4, <2>2, <2>3 DEF Subtract, CountersTypeOK, Entry
<1>5. ASSUME NEW t \in Threads, Add(t) PROVE CountersTypeOK'
  <2>1. current + recording[t].new \in Int
    BY <1>3 DEF Entry
  <2>2. current' \in 0 .. Word - 1
    BY <1>5, <2>1, ModWord DEF Add
  <2>3. recording' \in [Threads -> Entry]
    <3>1. [recording[t] EXCEPT !.step = "load", !.top = current'] \in Entry
      BY <1>3, <2>2 DEF Entry
    <3>2. recording' = [recording EXCEPT ![t] = [recording[t] EXCEPT !.step = "load", !.top = current']]
      BY <1>3, <1>5 DEF Add
    <3> QED BY <1>3, <3>1, <3>2
  <2>4. overtaken' \subseteq {"now", "last"}
    BY <1>1, <1>5 DEF Add, CountersTypeOK
  <2> QED BY <1>1, <1>5, <2>2, <2>3, <2>4 DEF Add, CountersTypeOK, Entry
<1>6. ASSUME NEW t \in Threads, LoadPeak(t) PROVE CountersTypeOK'
  <2>1. recording' \in [Threads -> Entry]
    <3>1. [recording[t] EXCEPT !.step = "swap", !.seen = peak] \in Entry
      BY <1>3 DEF Entry
    <3>2. recording' = [recording EXCEPT ![t] =
             IF recording[t].top > peak THEN [recording[t] EXCEPT !.step = "swap", !.seen = peak]
             ELSE NoRecord]
      BY <1>6 DEF LoadPeak
    <3> QED BY <1>3, <3>1, <3>2, NoRecordIn
  <2> QED BY <1>1, <1>6, <2>1 DEF LoadPeak, CountersTypeOK, Entry
<1>7. ASSUME NEW t \in Threads, SwapPeak(t) PROVE CountersTypeOK'
  <2>1. recording[t].top \in 0 .. Word - 1
    BY <1>3 DEF Entry
  <2>2. recording' \in [Threads -> Entry]
    <3>1. [recording[t] EXCEPT !.step = "load"] \in Entry
      BY <1>3 DEF Entry
    <3>2. \/ recording' = [recording EXCEPT ![t] = NoRecord]
          \/ recording' = [recording EXCEPT ![t] = [recording[t] EXCEPT !.step = "load"]]
      BY <1>7 DEF SwapPeak, StorePeak
    <3> QED BY <1>3, <3>1, <3>2, NoRecordIn
  <2>3. peak' \in 0 .. Word - 1
    BY <1>3, <1>7, <2>1 DEF SwapPeak, StorePeak
  <2>4. UNCHANGED <<current, resetting, overtaken>>
    BY <1>7 DEF SwapPeak, StorePeak
  <2> QED BY <1>1, <2>2, <2>3, <2>4 DEF CountersTypeOK, Entry
<1>8. ASSUME ResetLoad \/ ResetStore PROVE CountersTypeOK'
  <2>1. Word \in Nat \ {0}
    BY CountersAssumption
  <2>2. CASE ResetLoad
    BY <1>1, <2>1, <2>2 DEF ResetLoad, CountersTypeOK
  <2>3. CASE ResetStore
    BY <1>1, <2>1, <2>3 DEF ResetStore, CountersTypeOK, NoReset
  <2> QED BY <1>8, <2>2, <2>3
<1>9. CountersTypeOK'
  BY <1>4, <1>5, <1>6, <1>7, <1>8
     DEF Resets, Counters, CountDown, CountUp, ReadPeak, RaisePeak, ResetReads, ResetWrites
<1>10. UNCHANGED <<work, tls, frames, failures, used>>
  BY <1>2 DEF scratchVars
<1> QED BY <1>9, <1>10 DEF LocalInv, Types, StackInv, BoundedInv, KeptInv

LEMMA LocalInit == Init => LocalInv
<1> SUFFICES ASSUME Init PROVE LocalInv
  OBVIOUS
<1>1. None \in Slot /\ Nothing \in [BufferNames -> Nat] /\ ~None.made /\ ~None.inUse /\ None.cap = Nothing
  BY DEF None, Slot, Nothing
<1>2. <<>> \in Seq(Frame) /\ 1 .. Len(<<>>) = {}
  OBVIOUS
<1>3. Types
  <2>1. CountersTypeOK
    BY NoRecordIn, CountersAssumption DEF Init, CountersInit, CountersTypeOK, Entry, NoReset
  <2> QED BY <1>1, <1>2, <2>1 DEF Init, Types
<1>4. \A t \in Threads : frames[t] = <<>> /\ tls[t] = None /\ used[t] = Nothing
  BY DEF Init
<1>5. Stack(<<>>, None)
  BY <1>1, <1>2 DEF Stack
<1>6. \A k \in Kinds : None.cap[k] = 0 /\ Nothing[k] = 0 /\ Retained(k) \in Nat
  BY <1>1, RetainedNat DEF Nothing, Kinds, BufferNames
<1>7. Bounded(<<>>, None) /\ Kept(<<>>, None, Nothing)
  BY <1>6 DEF Bounded, Kept, Enough
<1> QED BY <1>3, <1>4, <1>5, <1>7 DEF LocalInv, StackInv, BoundedInv, KeptInv

LEMMA LocalStep == LocalInv /\ [Next]_vars => LocalInv'
<1> SUFFICES ASSUME LocalInv, [Next]_vars PROVE LocalInv'
  OBVIOUS
<1>1. CASE \E t \in Threads : Works(t)
  BY <1>1, WorksMoves, MovesKeep
<1>2. CASE Resets \/ \E t \in Threads : Counters(t)
  BY <1>2, CountersKeep
<1>3. CASE UNCHANGED vars
  BY <1>3 DEF vars, counters, scratchVars, LocalInv, Types, CountersTypeOK, StackInv, BoundedInv,
              KeptInv
<1> QED BY <1>1, <1>2, <1>3, NextIs

LEMMA LocalAlways == Spec => []LocalInv
BY LocalInit, LocalStep, PTL DEF Spec

-----------------------------------------------------------------------------
(* current_bytes and what is in use *)

LEMMA ModSame ==
  ASSUME NEW q \in Int, NEW x \in Int
  PROVE  (q * Word + x) % Word = x % Word
<1>1. Word \in Nat \ {0}
  BY CountersAssumption
<1> DEFINE a == x \div Word
           b == x % Word
<1>2. a \in Int /\ b \in 0 .. Word - 1 /\ x = a * Word + b
  BY <1>1
<1> HIDE DEF a, b
<1>3. q * Word + x = (q + a) * Word + b
  BY <1>1, <1>2
<1>4. q + a \in Int /\ \A n \in Int : (n * Word + b) % Word = b
  BY <1>1, <1>2
<1>5. ((q + a) * Word + b) % Word = b
  BY <1>4
<1> QED BY <1>3, <1>5 DEF b

LEMMA ModAdd ==
  ASSUME NEW x \in Int, NEW y \in Int
  PROVE  ((x % Word) + y) % Word = (x + y) % Word
<1>1. Word \in Nat \ {0}
  BY CountersAssumption
<1> DEFINE q == x \div Word
           r == x % Word
<1>2. q \in Int /\ r \in Int /\ x = q * Word + r
  BY <1>1
<1> HIDE DEF q, r
<1>3. x + y = q * Word + (r + y) /\ r + y \in Int
  BY <1>1, <1>2
<1>4. (q * Word + (r + y)) % Word = (r + y) % Word
  BY <1>2, <1>3, ModSame
<1> QED BY <1>3, <1>4 DEF r

(* What is counted of what a thread uses *)
Share(s, l, rec) == Uses(s, l) - Pending(rec)
Shares == [t \in Threads |-> Share(frames[t], tls[t], recording[t])]
SharesNext == [t \in Threads |-> Share(frames'[t], tls'[t], recording'[t])]

LEMMA CountedIs == Counted = Total(Shares, Threads) /\ Counted' = Total(SharesNext, Threads)
<1>1. Counted = Total(Shares, Threads)
  <2> DEFINE f == [t \in Threads |-> InUse(t) - Uncounted(t)]
  <2>1. f = Shares
    BY InUseIs, UncountedIs DEF Shares, Share
  <2> QED BY <2>1 DEF Counted
<1>2. Counted' = Total(SharesNext, Threads)
  <2> DEFINE f == [t \in Threads |-> InUse(t)' - Uncounted(t)']
  <2>1. \A t \in Threads : InUse(t)' = Uses(frames'[t], tls'[t])
    BY DEF InUse, Uses, Stacked
  <2>2. \A t \in Threads : Uncounted(t)' = Pending(recording'[t])
    BY DEF Uncounted, Pending
  <2>3. f = SharesNext
    BY <2>1, <2>2 DEF SharesNext, Share
  <2>4. Counted' = Total(f, Threads)
    BY DEF Counted
  <2> QED BY <2>3, <2>4
<1> QED BY <1>1, <1>2

LEMMA PendingInt == ASSUME NEW rec \in Entry PROVE Pending(rec) \in Int
BY DEF Pending, Entry

LEMMA UsesNat == ASSUME LocalInv, NEW t \in Threads PROVE Uses(frames[t], tls[t]) \in Nat
<1>1. frames[t] \in Seq(Frame) /\ tls[t] \in Slot
  BY LocalOf
<1>2. Stacked(frames[t]) \in Nat /\ Size(tls[t]) \in Nat
  BY <1>1, StackedNat, SizeNat
<1> QED BY <1>2, UsesIs

LEMMA SharesInt ==
  ASSUME LocalInv
  PROVE  \A t \in Threads : Shares[t] = Share(frames[t], tls[t], recording[t]) /\ Shares[t] \in Int
<1> TAKE t \in Threads
<1>1. Uses(frames[t], tls[t]) \in Nat /\ Pending(recording[t]) \in Int
  BY UsesNat, LocalOf, PendingInt
<1> QED BY <1>1 DEF Shares, Share

LEMMA SharesNat ==
  ASSUME LocalInv, \A t \in Threads : Counts(t)
  PROVE  \A t \in Threads : Shares[t] \in Nat
<1> SUFFICES ASSUME NEW t \in Threads PROVE Share(frames[t], tls[t], recording[t]) \in Nat
  BY SharesInt
<1> DEFINE n == Uses(frames[t], tls[t])
           rec == recording[t]
<1>1. n \in Nat /\ rec \in Entry
  BY UsesNat, LocalOf
<1>2. rec.step \in {"sub", "add"} => rec.new <= n
  BY InUseIs DEF Counts
<1>3. rec.old \in Nat /\ rec.new \in Nat
  BY <1>1 DEF Entry
<1> HIDE DEF n, rec
<1>4. n - Pending(rec) \in Nat
  BY <1>1, <1>2, <1>3 DEF Pending
<1> QED BY <1>4 DEF Share, n, rec

LEMMA CountedNat ==
  ASSUME LocalInv, \A t \in Threads : Counts(t)
  PROVE  Counted \in Nat
<1>1. IsFiniteSet(Threads) /\ \A t \in Threads : Shares[t] \in Nat
  BY CountersAssumption, SharesNat
<1> HIDE DEF Shares
<1>2. Total(Shares, Threads) \in Nat
  BY <1>1, TotalNumber
<1> QED BY <1>2, CountedIs

LEMMA CountedInt ==
  ASSUME LocalInv
  PROVE  Counted \in Int
<1>1. IsFiniteSet(Threads) /\ \A t \in Threads : Shares[t] \in Int
  BY CountersAssumption, SharesInt
<1>2. Total(Shares, Threads) \in Int
  BY <1>1, TotalNumber
<1> QED BY <1>2, CountedIs

(* A step of a thread: what is counted stays as it is. *)
LEMMA MovesCount ==
  ASSUME LocalInv, CountInv, NEW t \in Threads, Moves(t)
  PROVE  CountInv' /\ current' = current /\ Counted' = Counted
<1>1. PICK r, m, v, rec : Move(t, r, m, v, rec) /\ Keeps(t, r, m, v, rec)
  BY DEF Moves
<1>2. recording[t].step = "none" /\ Pending(recording[t]) = 0
  BY DEF Moves, Pending
<1>3. /\ frames'[t] = r /\ tls'[t] = m /\ recording'[t] = rec /\ current' = current
      /\ \A u \in Threads \ {t} : /\ frames'[u] = frames[u] /\ tls'[u] = tls[u]
                                  /\ recording'[u] = recording[u]
  BY <1>1 DEF Move, FramesOnly, SlotOnly, RecordingOnly
<1>4. \A u \in Threads : SharesNext[u] = Shares[u]
  <2> TAKE u \in Threads
  <2>1. CASE u = t
    <3>1. Uses(r, m) - Pending(rec) = Uses(frames[t], tls[t])
      BY <1>1 DEF Keeps
    <3>2. Uses(frames[t], tls[t]) \in Nat
      BY UsesNat
    <3>3. SharesNext[u] = Uses(r, m) - Pending(rec)
      BY <1>3, <2>1 DEF SharesNext, Share
    <3>4. Shares[u] = Uses(frames[t], tls[t]) - 0
      BY <1>2, <2>1 DEF Shares, Share
    <3> QED BY <3>1, <3>2, <3>3, <3>4
  <2>2. CASE u # t
    BY <1>3, <2>2 DEF Shares, SharesNext
  <2> QED BY <2>1, <2>2
<1>5. Total(SharesNext, Threads) = Total(Shares, Threads)
  <2>1. IsFiniteSet(Threads)
    BY CountersAssumption
  <2> HIDE DEF Shares, SharesNext
  <2> QED BY <1>4, <2>1, TotalSame
<1>6. Counted' = Counted
  BY <1>5, CountedIs
<1>7. \A u \in Threads : Counts(u)'
  <2> TAKE u \in Threads
  <2>1. InUse(u)' = Uses(frames'[u], tls'[u])
    BY DEF InUse, Uses, Stacked
  <2>2. InUse(u) = Uses(frames[u], tls[u])
    BY InUseIs
  <2>3. CASE u = t
    <3>1. rec.step \in {"sub", "add"} => rec.new <= Uses(r, m)
      BY <1>1 DEF Keeps
    <3> QED BY <1>3, <2>1, <2>3, <3>1 DEF Counts
  <2>4. CASE u # t
    <3>1. Counts(u)
      BY DEF CountInv
    <3> QED BY <1>3, <2>1, <2>2, <2>4, <3>1 DEF Counts
  <2> QED BY <2>3, <2>4
<1> QED BY <1>3, <1>6, <1>7 DEF CountInv

(* A step of the counters: what is counted and current_bytes change alike. *)
LEMMA RecordingCount ==
  ASSUME LocalInv, LocalInv', CountInv, NEW t \in Threads, NEW n \in Int,
         UNCHANGED scratchVars,
         \A u \in Threads \ {t} : recording'[u] = recording[u],
         Pending(recording'[t]) = Pending(recording[t]) - n,
         recording'[t].step \in {"sub", "add"} =>
           recording[t].step \in {"sub", "add"} /\ recording'[t].new = recording[t].new,
         current' = (current + n) % Word
  PROVE  CountInv' /\ Counted' = Counted + n
<1>1. frames' = frames /\ tls' = tls
  BY DEF scratchVars
<1>2. Uses(frames[t], tls[t]) \in Nat /\ Pending(recording[t]) \in Int
  BY UsesNat, LocalOf, PendingInt
<1>3. SharesNext[t] = Shares[t] + n
  <2>1. Shares[t] = Uses(frames[t], tls[t]) - Pending(recording[t])
    BY DEF Shares, Share
  <2>2. SharesNext[t] = Uses(frames[t], tls[t]) - Pending(recording'[t])
    BY <1>1 DEF SharesNext, Share
  <2> QED BY <1>2, <2>1, <2>2
<1>4. \A u \in Threads : u # t => SharesNext[u] = Shares[u]
  BY <1>1 DEF Shares, SharesNext
<1>5. \A u \in Threads : Shares[u] \in Int /\ SharesNext[u] \in Int
  <2>1. \A u \in Threads : Shares[u] \in Int
    BY SharesInt
  <2> HIDE DEF Shares, SharesNext
  <2> QED BY <1>3, <1>4, <2>1
<1>6. IsFiniteSet(Threads) /\ Total(Shares, Threads) \in Int
  <2>1. IsFiniteSet(Threads)
    BY CountersAssumption
  <2> HIDE DEF Shares
  <2> QED BY <2>1, <1>5, TotalNumber
<1>7. Total(SharesNext, Threads) = Total(Shares, Threads) - Shares[t] + SharesNext[t]
  <2> HIDE DEF Shares, SharesNext
  <2> QED BY <1>4, <1>5, <1>6, TotalChange
<1>8. Counted' = Counted + n /\ Counted \in Int
  <2>1. Total(SharesNext, Threads) = Total(Shares, Threads) + n
    <3> HIDE DEF Shares, SharesNext
    <3> QED BY <1>3, <1>5, <1>6, <1>7
  <2> QED BY <1>6, <2>1, CountedIs
<1>9. current' = Counted' % Word
  <2>1. current = Counted % Word
    BY DEF CountInv
  <2> HIDE DEF Counted
  <2>2. ((Counted % Word) + n) % Word = (Counted + n) % Word
    BY <1>8, ModAdd
  <2> QED BY <1>8, <2>1, <2>2
<1>10. \A u \in Threads : Counts(u)'
  <2> TAKE u \in Threads
  <2>1. InUse(u)' = InUse(u)
    BY <1>1 DEF InUse
  <2>2. Counts(u)
    BY DEF CountInv
  <2>3. CASE u = t
    BY <2>1, <2>2, <2>3 DEF Counts
  <2>4. CASE u # t
    BY <2>1, <2>2, <2>4 DEF Counts
  <2> QED BY <2>3, <2>4
<1> QED BY <1>8, <1>9, <1>10 DEF CountInv

LEMMA CurrentMod == ASSUME LocalInv PROVE current \in Int /\ (current + 0) % Word = current
<1>1. current \in 0 .. Word - 1 /\ Word \in Nat \ {0}
  BY CountersAssumption DEF LocalInv, Types, CountersTypeOK
<1> QED BY <1>1

LEMMA SubtractCount ==
  ASSUME LocalInv, LocalInv', CountInv, NEW t \in Threads, CountDown(t)
  PROVE  /\ CountInv' /\ Counted' = Counted - recording[t].old
         /\ recording[t].old \in Nat /\ UNCHANGED <<peak, resetting, overtaken>>
         /\ ~Rising(t) /\ ~Rising(t)'
         /\ \A u \in Threads \ {t} : recording'[u] = recording[u]
<1> DEFINE rec == recording[t]
           n == 0 - rec.old
<1>1. UNCHANGED scratchVars /\ Subtract(t)
  BY DEF CountDown
<1>2. recording \in [Threads -> Entry] /\ rec \in Entry /\ rec.old \in Nat /\ rec.new \in Nat
  BY LocalOf DEF Entry
<1>3. \A u \in Threads \ {t} : recording'[u] = recording[u]
  BY <1>1, <1>2 DEF Subtract
<1>4. /\ Pending(recording'[t]) = Pending(rec) - n
      /\ recording'[t].step \in {"sub", "add"} =>
           rec.step \in {"sub", "add"} /\ recording'[t].new = rec.new
      /\ rec.step \notin {"load", "swap"} /\ recording'[t].step \notin {"load", "swap"}
  <2>1. CASE rec.step = "free"
    <3>1. recording'[t] = NoRecord
      BY <1>1, <1>2, <2>1 DEF Subtract
    <3>2. Pending(NoRecord) = 0 /\ NoRecord.step = "none" /\ Pending(rec) = 0 - rec.old
      BY <1>2, <2>1 DEF Pending, NoRecord
    <3> HIDE DEF rec
    <3> QED BY <1>2, <2>1, <3>1, <3>2
  <2>2. CASE rec.step = "sub"
    <3> DEFINE new == [rec EXCEPT !.step = "add"]
    <3>1. recording'[t] = new
      BY <1>1, <1>2, <2>2 DEF Subtract
    <3>2. new.step = "add" /\ new.new = rec.new
      BY <1>2 DEF Entry
    <3> HIDE DEF new, rec
    <3>3. Pending(new) = new.new /\ Pending(rec) = rec.new - rec.old
      BY <2>2, <3>2 DEF Pending
    <3> QED BY <1>2, <2>2, <3>1, <3>2, <3>3
  <2> QED BY <1>1, <2>1, <2>2 DEF Subtract
<1>5. current' = (current + n) % Word
  <2>1. current' = (current - rec.old) % Word
    BY <1>1 DEF Subtract
  <2>2. current - rec.old = current + n
    BY <1>2, CurrentMod
  <2> QED BY <2>1, <2>2
<1>6. n \in Int
  BY <1>2
<1>7. CountInv' /\ Counted' = Counted + n
  <2> HIDE DEF n
  <2> QED BY <1>1, <1>3, <1>4, <1>5, <1>6, RecordingCount
<1>8. Counted' = Counted - rec.old
  BY <1>2, <1>7, CountedInt
<1>9. UNCHANGED <<peak, resetting, overtaken>>
  BY <1>1 DEF Subtract
<1> QED BY <1>2, <1>3, <1>4, <1>7, <1>8, <1>9 DEF Rising

LEMMA AddCount ==
  ASSUME LocalInv, LocalInv', CountInv, NEW t \in Threads, CountUp(t)
  PROVE  CountInv' /\ recording'[t].step = "load" /\ recording'[t].top = current'
         /\ UNCHANGED <<peak, resetting>> /\ (resetting # NoReset => "now" \in overtaken')
         /\ \A u \in Threads \ {t} : recording'[u] = recording[u]
<1> DEFINE rec == recording[t]
           n == rec.new
           new == [rec EXCEPT !.step = "load", !.top = current']
<1>1. UNCHANGED scratchVars /\ Add(t)
  BY DEF CountUp
<1>2. recording \in [Threads -> Entry] /\ rec \in Entry /\ n \in Nat
  BY LocalOf DEF Entry
<1>3. recording' = [recording EXCEPT ![t] = new]
  BY <1>1, <1>2 DEF Add
<1>4. new.step = "load" /\ new.top = current' /\ recording'[t] = new
      /\ \A u \in Threads \ {t} : recording'[u] = recording[u]
  BY <1>2, <1>3 DEF Entry
<1> HIDE DEF new
<1>5. Pending(new) = 0 /\ Pending(rec) = n
  BY <1>1, <1>4 DEF Pending, Add
<1>6. Pending(recording'[t]) = Pending(rec) - n
  BY <1>2, <1>4, <1>5
<1>7. current' = (current + n) % Word /\ n \in Int
  BY <1>1, <1>2 DEF Add
<1>8. CountInv'
  <2>1. recording'[t].step \in {"sub", "add"} =>
           rec.step \in {"sub", "add"} /\ recording'[t].new = rec.new
    BY <1>4
  <2> HIDE DEF n
  <2> QED BY <1>1, <1>4, <1>6, <1>7, <2>1, RecordingCount
<1> QED BY <1>1, <1>4, <1>8 DEF Add

(* The steps of record_peak leave what is counted as it is. *)
LEMMA PeakCount ==
  ASSUME LocalInv, LocalInv', CountInv, NEW t \in Threads, ReadPeak(t) \/ RaisePeak(t)
  PROVE  CountInv' /\ current' = current
<1> DEFINE rec == recording[t]
           new == recording'[t]
<1>1. UNCHANGED scratchVars /\ (LoadPeak(t) \/ SwapPeak(t))
  BY DEF ReadPeak, RaisePeak
<1>2. recording \in [Threads -> Entry] /\ rec \in Entry
  BY LocalOf
<1>3. rec.step \in {"load", "swap"} /\ current' = current
  BY <1>1 DEF LoadPeak, SwapPeak, StorePeak
<1>4. /\ new.step \in {"none", "load", "swap"}
      /\ \A u \in Threads \ {t} : recording'[u] = recording[u]
  <2>1. CASE recording' = [recording EXCEPT ![t] = NoRecord]
    <3> DEFINE made == NoRecord
    <3>1. made.step = "none"
      BY DEF NoRecord
    <3> HIDE DEF made
    <3>2. recording' = [recording EXCEPT ![t] = made]
      BY <2>1 DEF made
    <3> QED BY <1>2, <3>1, <3>2
  <2>2. CASE recording' = [recording EXCEPT ![t] = [rec EXCEPT !.step = "load"]]
    <3> DEFINE made == [rec EXCEPT !.step = "load"]
    <3>1. made.step = "load"
      BY <1>2 DEF Entry
    <3> HIDE DEF made
    <3>2. recording' = [recording EXCEPT ![t] = made]
      BY <2>2 DEF made
    <3> QED BY <1>2, <3>1, <3>2
  <2>3. CASE recording' = [recording EXCEPT ![t] = [rec EXCEPT !.step = "swap", !.seen = peak]]
    <3> DEFINE made == [rec EXCEPT !.step = "swap", !.seen = peak]
    <3>1. made.step = "swap"
      BY <1>2 DEF Entry
    <3> HIDE DEF made
    <3>2. recording' = [recording EXCEPT ![t] = made]
      BY <2>3 DEF made
    <3> QED BY <1>2, <3>1, <3>2
  <2> QED BY <1>1, <2>1, <2>2, <2>3 DEF LoadPeak, SwapPeak, StorePeak
<1>5. Pending(new) = 0 /\ Pending(rec) = 0
  BY <1>3, <1>4 DEF Pending
<1>6. Pending(recording'[t]) = Pending(recording[t]) - 0
  BY <1>5
<1>7. current' = (current + 0) % Word
  BY <1>3, CurrentMod
<1>8. recording'[t].step \in {"sub", "add"} =>
        recording[t].step \in {"sub", "add"} /\ recording'[t].new = recording[t].new
  BY <1>4
<1>9. 0 \in Int /\ UNCHANGED scratchVars /\ \A u \in Threads \ {t} : recording'[u] = recording[u]
  BY <1>1, <1>4
<1> HIDE DEF rec, new
<1>10. CountInv'
  BY <1>6, <1>7, <1>8, <1>9, RecordingCount
<1> QED BY <1>3, <1>10

LEMMA SameCount ==
  ASSUME CountInv, UNCHANGED <<frames, tls, recording, current>>
  PROVE  CountInv'
<1>1. \A t \in Threads : Counts(t)'
  BY DEF CountInv, Counts, InUse
<1>2. SharesNext = Shares
  BY DEF Shares, SharesNext
<1>3. Counted' = Counted
  BY <1>2, CountedIs
<1> QED BY <1>1, <1>3 DEF CountInv

LEMMA CountStep == LocalInv /\ LocalInv' /\ CountInv /\ [Next]_vars => CountInv'
<1> SUFFICES ASSUME LocalInv, LocalInv', CountInv, [Next]_vars PROVE CountInv'
  OBVIOUS
<1>1. CASE \E t \in Threads : Works(t)
  BY <1>1, WorksMoves, MovesCount
<1>2. ASSUME NEW t \in Threads, Counters(t) PROVE CountInv'
  <2>1. CASE CountDown(t)
    BY <2>1, SubtractCount
  <2>2. CASE CountUp(t)
    BY <2>2, AddCount
  <2>3. CASE ReadPeak(t) \/ RaisePeak(t)
    BY <2>3, PeakCount
  <2> QED BY <1>2, <2>1, <2>2, <2>3 DEF Counters
<1>3. CASE Resets
  <2>1. UNCHANGED <<frames, tls, recording, current>>
    BY <1>3 DEF Resets, ResetReads, ResetWrites, ResetLoad, ResetStore, scratchVars
  <2> QED BY <2>1, SameCount
<1>4. CASE UNCHANGED vars
  <2>1. UNCHANGED <<frames, tls, recording, current>>
    BY <1>4 DEF vars, counters, scratchVars
  <2> QED BY <2>1, SameCount
<1> QED BY <1>1, <1>2, <1>3, <1>4, NextIs

LEMMA CountInit == Init => CountInv
<1> SUFFICES ASSUME Init PROVE CountInv
  OBVIOUS
<1>1. \A t \in Threads : frames[t] = <<>> /\ tls[t] = None /\ recording[t] = NoRecord
  BY DEF Init, CountersInit
<1>2. Uses(<<>>, None) = 0
  <2>1. Size(None) = 0
    BY DEF Size, None
  <2> QED BY <2>1, StackedNone, UsesIs
<1>3. NoRecord.step = "none" /\ Pending(NoRecord) = 0
  BY DEF NoRecord, Pending
<1>4. \A t \in Threads : Shares[t] \in {0}
  BY <1>1, <1>2, <1>3 DEF Shares, Share
<1>5. Total(Shares, Threads) \in {0}
  <2>1. 0 \in {0} /\ \A x, y \in {0} : x + y \in {0}
    OBVIOUS
  <2>2. IsFiniteSet(Threads)
    BY CountersAssumption
  <2> HIDE DEF Shares
  <2> QED BY <1>4, <2>1, <2>2, TotalIn
<1>6. Counted = 0 /\ current = 0
  BY <1>5, CountedIs DEF Init, CountersInit
<1>7. 0 % Word = 0
  BY CountersAssumption
<1>8. \A t \in Threads : Counts(t)
  BY <1>1, <1>3 DEF Counts
<1> QED BY <1>6, <1>7, <1>8 DEF CountInv

CountedInv == LocalInv /\ CountInv

LEMMA CountedAlways == Spec => []CountedInv
<1>1. Init => CountedInv
  BY LocalInit, CountInit DEF CountedInv
<1>2. CountedInv /\ [Next]_vars => CountedInv'
  BY LocalStep, CountStep DEF CountedInv
<1> QED BY <1>1, <1>2, PTL DEF Spec

(* What is counted fits into a size_t. *)
Fits == Counted < Word

LEMMA FitsIs == CountedInv /\ Fits => CurrentIsInUse
<1> SUFFICES ASSUME CountedInv, Fits PROVE current = Counted
  BY DEF CurrentIsInUse
<1>1. Counted \in Nat /\ current = Counted % Word
  BY CountedNat DEF CountedInv, CountInv
<1>2. Word \in Nat \ {0} /\ Counted < Word
  BY CountersAssumption DEF Fits
<1> DEFINE n == Counted
<1> HIDE DEF n
<1>3. \A k \in Nat : k < Word => k % Word = k
  BY <1>2
<1> QED BY <1>1, <1>2, <1>3

-----------------------------------------------------------------------------
(* The peak *)

LEMMA PeakInit == Init => PeakInv
<1> SUFFICES ASSUME Init PROVE PeakInv
  OBVIOUS
<1>1. current = 0 /\ peak = 0 /\ resetting = NoReset /\ \A t \in Threads : recording[t] = NoRecord
  BY DEF Init, CountersInit
<1>2. NoRecord.step = "none"
  BY DEF NoRecord
<1> QED BY <1>1, <1>2 DEF PeakInv

LEMMA PeakStep ==
  CountedInv /\ CountedInv' /\ Fits /\ Fits' /\ PeakInv /\ [Next]_vars => PeakInv'
<1> SUFFICES ASSUME CountedInv, CountedInv', Fits, Fits', PeakInv, [Next]_vars PROVE PeakInv'
  OBVIOUS
<1>1. LocalInv /\ LocalInv' /\ CountInv
  BY DEF CountedInv
<1>2. /\ recording \in [Threads -> Entry] /\ current \in Nat /\ peak \in Nat /\ current' \in Nat
      /\ resetting \in Int
      /\ \A t \in Threads : recording[t].top \in Nat /\ recording[t].seen \in Nat
  <2>1. CountersTypeOK /\ CountersTypeOK'
    BY <1>1 DEF LocalInv, Types
  <2> QED BY <2>1, CountersAssumption DEF CountersTypeOK, Entry
<1>3. ASSUME NEW t \in Threads, Works(t) PROVE PeakInv'
  <2>1. Moves(t)
    BY <1>1, <1>3, WorksMoves
  <2>2. PICK r, m, v, rec : Move(t, r, m, v, rec) /\ Keeps(t, r, m, v, rec)
    BY <2>1 DEF Moves
  <2>3. /\ \A u \in Threads \ {t} : recording'[u] = recording[u]
        /\ current' = current /\ peak' = peak /\ resetting' = resetting /\ overtaken' = overtaken
        /\ recording[t].step = "none" /\ recording'[t].step \notin {"load", "swap"}
    BY <2>1, <2>2 DEF Moves, Move, RecordingOnly, Keeps
  <2> QED BY <2>3 DEF PeakInv, Rising
<1>4. ASSUME NEW t \in Threads, CountDown(t) PROVE PeakInv'
  <2>1. /\ Counted' = Counted - recording[t].old
        /\ recording[t].old \in Nat /\ UNCHANGED <<peak, resetting, overtaken>>
        /\ ~Rising(t) /\ ~Rising(t)'
        /\ \A u \in Threads \ {t} : recording'[u] = recording[u]
    BY <1>1, <1>4, SubtractCount
  <2>2. current = Counted
    BY FitsIs DEF CurrentIsInUse
  <2>3. current' = Counted'
    <3>1. CurrentIsInUse'
      BY FitsIs, PTL
    <3> QED BY <3>1 DEF CurrentIsInUse
  <2>4. current' <= current
    BY <1>2, <2>1, <2>2, <2>3
  <2>5. \A u \in Threads : Rising(u) => recording'[u] = recording[u]
    BY <2>1
  <2>6. \A u \in Threads : recording'[u].step = "swap" => recording'[u] = recording[u]
    BY <2>1 DEF Rising
  <2>7. "last" \notin overtaken' =>
          peak' >= current' \/ \E u \in Threads : Rising(u)' /\ recording'[u].top >= current'
    <3> SUFFICES ASSUME "last" \notin overtaken
                 PROVE  peak >= current' \/ \E u \in Threads : Rising(u)' /\ recording'[u].top >= current'
      BY <2>1
    <3>1. CASE peak >= current
      BY <1>2, <2>4, <3>1
    <3>2. CASE \E u \in Threads : Rising(u) /\ recording[u].top >= current
      <4>1. PICK u \in Threads : Rising(u) /\ recording[u].top >= current
        BY <3>2
      <4>2. recording'[u] = recording[u] /\ recording[u].top >= current'
        BY <1>2, <2>4, <2>5, <4>1
      <4> QED BY <4>1, <4>2 DEF Rising
    <3> QED BY <3>1, <3>2 DEF PeakInv
  <2>8. \A u \in Threads : recording'[u].step = "swap" => recording'[u].top > recording'[u].seen
    BY <2>6 DEF PeakInv
  <2>9. resetting' # NoReset /\ "now" \notin overtaken' => resetting' >= current'
    BY <1>2, <2>1, <2>4 DEF PeakInv
  <2> QED BY <2>7, <2>8, <2>9 DEF PeakInv
<1>5. ASSUME NEW t \in Threads, CountUp(t) PROVE PeakInv'
  <2>1. /\ recording'[t].step = "load" /\ recording'[t].top = current'
        /\ UNCHANGED <<peak, resetting>> /\ (resetting # NoReset => "now" \in overtaken')
        /\ \A u \in Threads \ {t} : recording'[u] = recording[u]
    BY <1>1, <1>5, AddCount
  <2>2. Rising(t)' /\ recording'[t].top >= current'
    BY <1>2, <2>1 DEF Rising
  <2>3. \A u \in Threads : recording'[u].step = "swap" => recording'[u].top > recording'[u].seen
    BY <2>1 DEF PeakInv
  <2> QED BY <2>1, <2>2, <2>3 DEF PeakInv
<1>6. ASSUME NEW t \in Threads, ReadPeak(t) PROVE PeakInv'
  <2> DEFINE rec == recording[t]
  <2>1. /\ LoadPeak(t) /\ rec \in Entry /\ rec.step = "load"
        /\ UNCHANGED <<current, peak, resetting, overtaken>>
    BY <1>2, <1>6 DEF ReadPeak, LoadPeak
  <2>2. \A u \in Threads \ {t} : recording'[u] = recording[u]
    BY <1>2, <2>1 DEF LoadPeak
  <2>3. CASE rec.top > peak
    <3> DEFINE new == [rec EXCEPT !.step = "swap", !.seen = peak]
    <3>1. recording'[t] = new
      BY <1>2, <2>1, <2>3 DEF LoadPeak
    <3>2. new.step = "swap" /\ new.top = rec.top /\ new.seen = peak
      BY <2>1 DEF Entry
    <3> HIDE DEF new
    <3>3. \A u \in Threads : Rising(u) => Rising(u)' /\ recording'[u].top = recording[u].top
      BY <2>2, <3>1, <3>2 DEF Rising
    <3>4. \A u \in Threads : recording'[u].step = "swap" => recording'[u].top > recording'[u].seen
      BY <2>2, <2>3, <3>1, <3>2 DEF PeakInv
    <3> QED BY <2>1, <3>3, <3>4 DEF PeakInv
  <2>4. CASE ~(rec.top > peak)
    <3>1. recording'[t] = NoRecord /\ NoRecord.step = "none"
      BY <1>2, <2>1, <2>4 DEF LoadPeak, NoRecord
    <3>2. \A u \in Threads : Rising(u) /\ recording[u].top >= current =>
            peak >= current \/ (Rising(u)' /\ recording'[u].top = recording[u].top)
      BY <1>2, <2>2, <2>4 DEF Rising
    <3>3. \A u \in Threads : recording'[u].step = "swap" => recording'[u].top > recording'[u].seen
      BY <2>2, <3>1 DEF PeakInv
    <3> QED BY <2>1, <3>2, <3>3 DEF PeakInv
  <2> QED BY <2>3, <2>4
<1>7. ASSUME NEW t \in Threads, RaisePeak(t) PROVE PeakInv'
  <2> DEFINE rec == recording[t]
  <2>1. /\ SwapPeak(t) /\ rec \in Entry /\ rec.step = "swap" /\ rec.top > rec.seen
        /\ UNCHANGED <<current, resetting, overtaken>>
    BY <1>2, <1>7 DEF RaisePeak, SwapPeak, StorePeak, PeakInv
  <2>2. \A u \in Threads \ {t} : recording'[u] = recording[u]
    BY <1>2, <2>1 DEF SwapPeak, StorePeak
  <2>3. CASE peak = rec.seen /\ StorePeak(t)
    <3>1. recording'[t] = NoRecord /\ NoRecord.step = "none" /\ peak' = rec.top
      BY <1>2, <2>3 DEF StorePeak, NoRecord
    <3>2. peak' >= peak /\ peak' \in Nat
      BY <1>2, <2>1, <2>3, <3>1
    <3>3. \A u \in Threads : Rising(u) /\ recording[u].top >= current =>
            peak' >= current \/ (Rising(u)' /\ recording'[u].top = recording[u].top)
      BY <2>2, <3>1 DEF Rising
    <3>4. \A u \in Threads : recording'[u].step = "swap" => recording'[u].top > recording'[u].seen
      BY <2>2, <3>1 DEF PeakInv
    <3>5. peak >= current => peak' >= current
      BY <1>2, <3>2
    <3> QED BY <2>1, <3>3, <3>4, <3>5 DEF PeakInv
  <2>4. CASE peak # rec.seen /\ recording' = [recording EXCEPT ![t].step = "load"] /\ peak' = peak
    <3> DEFINE new == [rec EXCEPT !.step = "load"]
    <3>1. recording'[t] = new
      BY <1>2, <2>4
    <3>2. new.step = "load" /\ new.top = rec.top
      BY <2>1 DEF Entry
    <3> HIDE DEF new
    <3>3. \A u \in Threads : Rising(u) => Rising(u)' /\ recording'[u].top = recording[u].top
      BY <2>2, <3>1, <3>2 DEF Rising
    <3>4. \A u \in Threads : recording'[u].step = "swap" => recording'[u].top > recording'[u].seen
      BY <2>2, <3>1, <3>2 DEF PeakInv
    <3> QED BY <2>1, <2>4, <3>3, <3>4 DEF PeakInv
  <2> QED BY <2>1, <2>3, <2>4 DEF SwapPeak
<1>8. CASE Resets
  <2>1. UNCHANGED <<recording, current>> /\ (ResetLoad \/ ResetStore)
    BY <1>8 DEF Resets, ResetReads, ResetWrites, ResetLoad, ResetStore
  <2>2. \A u \in Threads : Rising(u)' <=> Rising(u)
    BY <2>1 DEF Rising
  <2>3. CASE ResetLoad
    <3>1. resetting' = current /\ UNCHANGED <<peak, overtaken>>
      BY <2>3 DEF ResetLoad
    <3> QED BY <1>2, <2>1, <2>2, <3>1 DEF PeakInv
  <2>4. CASE ResetStore
    <3>1. /\ resetting # NoReset /\ peak' = resetting /\ resetting' = NoReset
          /\ ("last" \notin overtaken' => "now" \notin overtaken)
      BY <2>4 DEF ResetStore
    <3> QED BY <1>2, <2>1, <3>1 DEF PeakInv
  <2> QED BY <2>1, <2>3, <2>4
<1>9. CASE UNCHANGED vars
  BY <1>9 DEF vars, counters, PeakInv, Rising
<1> QED BY <1>3, <1>4, <1>5, <1>6, <1>7, <1>8, <1>9, NextIs DEF Counters

-----------------------------------------------------------------------------
(* What the specification promises *)

LEMMA TypesCorrect == LocalInv => TypeOK
<1> SUFFICES ASSUME LocalInv PROVE TypeOK
  OBVIOUS
<1>1. Types /\ StackInv
  BY DEF LocalInv
<1>2. \A t \in Threads : DOMAIN frames[t] = 1 .. Len(frames[t]) /\ frames[t] \in Seq(Frame)
  BY <1>1 DEF Types
<1>3. \A t \in Threads : \A i \in DOMAIN frames[t] : frames[t][i] \in Frame
  BY <1>2
<1>4. ASSUME NEW t \in Threads, At(t, "trim")
      PROVE  \A b \in Call(t).todo : tls[t].cap[b] > Retained(b)
  <2>1. Depth(t) \in 1 .. Len(frames[t]) /\ Call(t).at = "trim"
    BY <1>2, <1>4 DEF At, Depth
  <2>2. CallOK(Call(t), tls[t])
    BY <1>1, <2>1 DEF StackInv, Stack, Call
  <2> QED BY <2>1, <2>2 DEF CallOK
<1> QED BY <1>1, <1>3, <1>4 DEF TypeOK, Types, Frame, Slot

(* The counters are numbers of the width of a size_t, the buffers of a     *)
(* thread have sizes, and se_scratch_trim reallocates a buffer only when   *)
(* it is larger than what is kept of it, so it never makes one larger.     *)
THEOREM TypeCorrect == Spec => []TypeOK
BY LocalAlways, TypesCorrect, PTL

(* However deep calls are nested on a thread, one of them works in the     *)
(* thread's buffers at most, and in_use is set exactly as long as it does: *)
(* se_scratch_acquire never hands out buffers that another call is using.  *)
THEOREM OneOwnerHolds == Spec => []OneOwner
<1>1. LocalInv => OneOwner
  <2> SUFFICES ASSUME LocalInv, NEW t \in Threads
               PROVE  /\ \A i, j \in DOMAIN frames[t] :
                           frames[t][i].own /\ frames[t][j].own => i = j
                      /\ tls[t].inUse <=>
                           \E i \in DOMAIN frames[t] : frames[t][i].own /\ frames[t][i].at = "use"
    BY DEF OneOwner
  <2>1. DOMAIN frames[t] = 1 .. Len(frames[t])
    BY DEF LocalInv, Types
  <2>2. Stack(frames[t], tls[t])
    BY DEF LocalInv, StackInv
  <2> QED BY <2>1, <2>2 DEF Stack
<1> QED BY <1>1, LocalAlways, PTL

(* Between calls a thread keeps no more than SE_SCRATCH_..._KEEP of its    *)
(* text buffers and SE_SCRATCH_IDS_RETAIN_MAX of its ids, whatever texts   *)
(* it read and however its calls were nested, unless a trim failed.        *)
THEOREM RetentionHolds == Spec => []RetentionBounded
<1>1. LocalInv => RetentionBounded
  <2> SUFFICES ASSUME LocalInv, NEW t \in Threads, failures = 0, frames[t] = <<>>
               PROVE  tls[t].cap["text"] <= TextKeep /\ tls[t].cap["ids"] <= IdsRetain
    BY DEF RetentionBounded
  <2>1. Bounded(frames[t], tls[t]) /\ Len(frames[t]) = 0
    BY DEF LocalInv, BoundedInv
  <2>2. \A b \in Kinds : tls[t].cap[b] <= Retained(b)
    BY <2>1 DEF Bounded
  <2> QED BY <2>2 DEF Kinds, Retained
<1> QED BY <1>1, LocalAlways, PTL

(* A thread's buffers stay as large as any of its calls needed them, up to *)
(* those sizes: no failed trim or grow and no nested call loses capacity,  *)
(* so that the same texts once more reallocate nothing.                    *)
THEOREM HighWaterHolds == Spec => []HighWaterKept
<1>1. LocalInv => HighWaterKept
  <2> SUFFICES ASSUME LocalInv, NEW t \in Threads, frames[t] = <<>>
               PROVE  /\ tls[t].cap["text"] >= Min({used[t]["text"], TextKeep})
                      /\ tls[t].cap["ids"] >= Min({used[t]["ids"], IdsRetain})
    BY DEF HighWaterKept
  <2>1. Kept(frames[t], tls[t], used[t]) /\ Len(frames[t]) = 0
    BY DEF LocalInv, KeptInv
  <2>2. Enough(tls[t], used[t])
    BY <2>1 DEF Kept
  <2>3. tls[t].cap \in [BufferNames -> Nat] /\ used[t] \in [BufferNames -> Nat]
    BY DEF LocalInv, Types, Slot
  <2>4. ASSUME NEW n \in Nat, NEW k \in Nat
        PROVE  Min({n, k}) \in Nat /\ Min({n, k}) <= n /\ Min({n, k}) <= k
    BY MinOfNat
  <2>5. used[t]["text"] \in Nat /\ used[t]["ids"] \in Nat /\ TextKeep \in Nat /\ IdsRetain \in Nat
        /\ tls[t].cap["text"] \in Nat /\ tls[t].cap["ids"] \in Nat
    BY <2>3, ScratchAssumption DEF BufferNames
  <2>6. /\ tls[t].cap["text"] >= used[t]["text"] \/ tls[t].cap["text"] >= TextKeep
        /\ tls[t].cap["ids"] >= used[t]["ids"] \/ tls[t].cap["ids"] >= IdsRetain
    BY <2>2 DEF Enough, Kinds, Retained
  <2> DEFINE a == Min({used[t]["text"], TextKeep})
             b == Min({used[t]["ids"], IdsRetain})
  <2>7. a \in Nat /\ a <= used[t]["text"] /\ a <= TextKeep
    BY <2>4, <2>5
  <2>8. b \in Nat /\ b <= used[t]["ids"] /\ b <= IdsRetain
    BY <2>4, <2>5
  <2> HIDE DEF a, b
  <2>9. tls[t].cap["text"] >= a /\ tls[t].cap["ids"] >= b
    BY <2>5, <2>6, <2>7, <2>8
  <2> QED BY <2>9 DEF a, b
<1> QED BY <1>1, LocalAlways, PTL

(* record_alloc, record_realloc and record_free, taken step by step by any *)
(* number of threads, with resets between the steps, never lose a byte:    *)
(* current_bytes is what the threads have in use but for what they are     *)
(* just counting, modulo the width of a size_t.  That number is never      *)
(* negative, so it is current_bytes itself as long as it fits a size_t.    *)
THEOREM CurrentCounted ==
  Spec => [](Counted \in Nat /\ current = Counted % Word /\ (Fits => CurrentIsInUse))
<1>1. CountedInv => Counted \in Nat /\ current = Counted % Word /\ (Fits => CurrentIsInUse)
  BY CountedNat, FitsIs DEF CountedInv, CountInv
<1> QED BY <1>1, CountedAlways, PTL

(* When nothing is being counted, peak_bytes is at least current_bytes,    *)
(* whatever threads raced in record_peak, except from an                   *)
(* se_alloc_stats_reset in the middle of which an allocation was counted   *)
(* to the next allocation; as long as what is in use fits a size_t.        *)
THEOREM PeakHolds == Spec /\ []Fits => []PeakCovers
<1>1. Init => PeakInv
  BY PeakInit
<1>2. CountedInv /\ CountedInv' /\ Fits /\ Fits' /\ PeakInv /\ [Next]_vars => PeakInv'
  BY PeakStep
<1>3. CountedInv /\ PeakInv => PeakCovers
  <2> SUFFICES ASSUME PeakInv, "last" \notin overtaken, \A t \in Threads : ~Recording(t)
               PROVE  peak >= current
    BY DEF PeakCovers
  <2>1. \A t \in Threads : ~Rising(t)
    BY DEF Rising, Recording
  <2> QED BY <2>1 DEF PeakInv
<1> QED BY <1>1, <1>2, <1>3, CountedAlways, PTL DEF Spec

=============================================================================
