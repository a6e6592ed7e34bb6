--------------------------- MODULE LiveIndex_proofs --------------------------
(***************************************************************************)
(* Proofs about LiveIndex, for every set of paths, every number of changes *)
(* and every capacity of the queues.                                       *)
(*                                                                         *)
(* The second part follows one entry p of the root from what the user does *)
(* to its row: through the queue of notifications, the watcher's stat, its *)
(* use, and the channel to the index, beside the walk.  At each moment the *)
(* last of these that knows of p knows what p is.                          *)
(*                                                                         *)
(* The third part follows the watches of the directories, however deep: a  *)
(* directory that is not watched is still to be told created, or addTree   *)
(* has yet to come to it.                                                  *)
(***************************************************************************)
EXTENDS LiveIndex, TLAPS, SequenceTheorems, FiniteSetTheorems, FunctionTheorems

-----------------------------------------------------------------------------
(* Sequences and what is in them.                                           *)

LEMMA RangeIs ==
  ASSUME NEW S, NEW s \in Seq(S)
  PROVE  /\ Len(s) \in Nat /\ DOMAIN s = 1 .. Len(s)
         /\ \A x : x \in Range(s) <=> \E i \in 1 .. Len(s) : x = s[i]
         /\ Range(s) \subseteq S
<1>1. Len(s) \in Nat /\ DOMAIN s = 1 .. Len(s)
  BY LenProperties
<1>2. Range(s) = {s[i] : i \in 1 .. Len(s)}
  BY RangeEquality
<1>3. Range(s) \subseteq S
  BY <1>2, ElementOfSeq
<1>. QED
  BY <1>1, <1>2, <1>3

LEMMA NothingIn ==
  ASSUME NEW s, s = <<>>
  PROVE  Range(s) = {}
<1>1. DOMAIN s = {}
  OBVIOUS
<1>. QED
  BY <1>1 DEF Range

LEMMA OneIn ==
  ASSUME NEW S, NEW x \in S
  PROVE  /\ <<x>> \in Seq(S) /\ <<x>> # <<>> /\ Len(<<x>>) = 1 /\ <<x>>[1] = x
         /\ Range(<<x>>) = {x} /\ Head(<<x>>) = x /\ Tail(<<x>>) = <<>>
<1>. DEFINE s == <<x>>
<1>1. s \in Seq(S) /\ Len(s) = 1 /\ s[1] = x /\ s # <<>> /\ Head(s) = x /\ Tail(s) = <<>>
  OBVIOUS
<1>. HIDE DEF s
<1>2. \A y : y \in Range(s) <=> y = x
  <2>1. \A y : y \in Range(s) <=> \E i \in 1 .. Len(s) : y = s[i]
    BY <1>1, RangeIs
  <2>2. \A i \in 1 .. Len(s) : i = 1
    BY <1>1
  <2>3. 1 \in 1 .. Len(s)
    BY <1>1
  <2>. QED
    BY <1>1, <2>1, <2>2, <2>3
<1>3. Range(s) = {x}
  BY <1>2
<1>. QED
  BY <1>1, <1>3 DEF s

LEMMA HeadAndTail ==
  ASSUME NEW S, NEW s \in Seq(S), s # <<>>
  PROVE  /\ Head(s) \in S /\ Tail(s) \in Seq(S)
         /\ Range(s) = {Head(s)} \cup Range(Tail(s))
         /\ Len(s) \in Nat \ {0} /\ Len(Tail(s)) = Len(s) - 1 /\ Head(s) = s[1]
         /\ \A i \in 1 .. Len(Tail(s)) : Tail(s)[i] = s[i + 1]
<1>. DEFINE t == Tail(s)
            n == Len(s)
            m == Len(t)
<1>1. n \in Nat \ {0}
  BY EmptySeq, LenProperties
<1>2. /\ Head(s) \in S /\ t \in Seq(S) /\ m = n - 1
      /\ \A i \in 1 .. m : t[i] = s[i + 1]
  BY HeadTailProperties
<1>3. Head(s) = s[1]
  OBVIOUS
<1>4. /\ \A x : x \in Range(s) <=> \E i \in 1 .. n : x = s[i]
      /\ \A x : x \in Range(t) <=> \E i \in 1 .. m : x = t[i]
  <2>1. \A x : x \in Range(s) <=> \E i \in 1 .. n : x = s[i]
    BY RangeIs
  <2>2. \A x : x \in Range(t) <=> \E i \in 1 .. m : x = t[i]
    BY <1>2, RangeIs
  <2>. QED
    BY <2>1, <2>2
<1>. HIDE DEF t, n, m
<1>5. \A i \in 1 .. n : i = 1 \/ (i - 1 \in 1 .. m /\ t[i - 1] = s[i])
  <2>1. SUFFICES ASSUME NEW i \in 1 .. n, i # 1 PROVE i - 1 \in 1 .. m /\ t[i - 1] = s[i]
    OBVIOUS
  <2>2. i - 1 \in 1 .. m /\ (i - 1) + 1 = i
    BY <1>1, <1>2, <2>1
  <2>. QED
    BY <1>2, <2>2
<1>6. \A i \in 1 .. m : i + 1 \in 1 .. n
  BY <1>1, <1>2
<1>7. 1 \in 1 .. n
  BY <1>1
<1>8. Range(s) = {Head(s)} \cup Range(t)
  BY <1>2, <1>3, <1>4, <1>5, <1>6, <1>7
<1>. QED
  BY <1>1, <1>2, <1>3, <1>8 DEF t, n, m

LEMMA Joined ==
  ASSUME NEW S, NEW s \in Seq(S), NEW t \in Seq(S)
  PROVE  /\ s \o t \in Seq(S) /\ Range(s \o t) = Range(s) \cup Range(t)
         /\ Len(s \o t) = Len(s) + Len(t)
         /\ \A i \in 1 .. Len(s) + Len(t) :
              (s \o t)[i] = IF i <= Len(s) THEN s[i] ELSE t[i - Len(s)]
<1>1. Range(s \o t) = Range(s) \cup Range(t)
  BY RangeConcatenation
<1>. QED
  BY <1>1, ConcatProperties

LEMMA SequenceOfSet ==
  ASSUME NEW S, IsFiniteSet(S)
  PROVE  SetToSeq(S) \in Seq(S) /\ Range(SetToSeq(S)) = S
<1>1. Cardinality(S) \in Nat /\ ExistsBijection(1 .. Cardinality(S), S)
  BY FS_CardinalityType
<1>2. PICK g : g \in Bijection(1 .. Cardinality(S), S)
  BY <1>1 DEF ExistsBijection
<1>3. g \in [1 .. Cardinality(S) -> S] /\ IsInjective(g)
  <2>1. /\ g \in [1 .. Cardinality(S) -> S]
        /\ \A a, b \in 1 .. Cardinality(S) : g[a] = g[b] => a = b
    BY <1>2, Fun_BijectionProperties
  <2>. QED
    BY <2>1 DEF IsInjective
<1>. DEFINE f == SetToSeq(S)
            n == Cardinality(S)
<1>4. f \in [1 .. n -> S] /\ IsInjective(f)
  BY <1>3 DEF SetToSeq
<1>5. f \in Seq(S)
  BY <1>1, <1>4, SeqDef
<1>6. f \in Injection(1 .. n, S)
  <2>1. \A a, b \in 1 .. n : f[a] = f[b] => a = b
    BY <1>4 DEF IsInjective
  <2>. HIDE DEF f, n
  <2>. QED
    BY <1>4, <2>1 DEF Injection, IsInjective
<1>7. f \in Surjection(1 .. n, S)
  <2>1. IsFiniteSet(1 .. n) /\ Cardinality(1 .. n) = n
    BY <1>1, FS_Interval
  <2>. HIDE DEF f
  <2>. QED
    BY <1>6, <2>1, FS_Injection DEF n
<1>8. Range(f) = S
  <2>. HIDE DEF f, n
  <2>. QED
    BY <1>7, Fun_SurjectionProperties
<1>. QED
  BY <1>5, <1>8

-----------------------------------------------------------------------------
(* Paths.                                                                   *)

\* An entry of the root.
Top(p) == Len(p) = 1

LEMMA PathIs ==
  ASSUME NEW p \in Path
  PROVE  /\ \E S : p \in Seq(S)
         /\ Len(p) \in Nat \ {0} /\ p # Root /\ Front(p) \in Node
         /\ SubSeq(p, 1, Len(p)) = p
         /\ Top(p) <=> Front(p) = Root
         /\ Top(p) => Append(Root, Last(p)) = p
<1>. DEFINE n == Len(p)
            f == Front(p)
<1>1. PICK S : p \in Seq(S)
  BY PathAssumption
<1>2. p # Root /\ p # <<>> /\ \A k \in 1 .. n : SubSeq(p, 1, k) \in Path
  BY PathAssumption DEF Root
<1>3. n \in Nat \ {0}
  BY <1>1, <1>2, EmptySeq, LenProperties
<1>4. SubSeq(p, 1, n) = p
  BY <1>1, SubSeqFull
<1>5. f \in Seq(S) /\ Len(f) = n - 1
  <2>1. \A i \in 1 .. n - 1 : p[i] \in S
    <3>1. SUFFICES ASSUME NEW i \in 1 .. n - 1 PROVE p[i] \in S
      OBVIOUS
    <3>2. i \in 1 .. n
      <4>. HIDE DEF n
      <4>. QED
        BY <1>3
    <3>. QED
      BY <1>1, <3>2, ElementOfSeq
  <2>2. n - 1 \in Int /\ (IF 1 <= n - 1 THEN n - 1 - 1 + 1 ELSE 0) = n - 1
    <3>. HIDE DEF n
    <3>. QED
      BY <1>3
  <2>3. /\ SubSeq(p, 1, n - 1) \in Seq(S)
        /\ Len(SubSeq(p, 1, n - 1)) = IF 1 <= n - 1 THEN n - 1 - 1 + 1 ELSE 0
    BY <2>1, <2>2, SubSeqProperties
  <2>. QED
    BY <2>2, <2>3 DEF Front
<1>6. Top(p) <=> Front(p) = Root
  <2>1. f = <<>> <=> Len(f) = 0
    BY <1>5, EmptySeq
  <2>2. n = 1 <=> n - 1 = 0
    <3>. HIDE DEF n
    <3>. QED
      BY <1>3
  <2>. QED
    BY <1>5, <2>1, <2>2 DEF Top, Root
<1>8. f \in Node
  <2>1. CASE n - 1 \in 1 .. n
    BY <1>2, <2>1 DEF Front, Node
  <2>2. CASE n - 1 \notin 1 .. n
    <3>1. n - 1 = 0
      <4>. HIDE DEF n
      <4>. QED
        BY <1>3, <2>2
    <3>2. f = <<>>
      BY <1>5, <3>1, EmptySeq
    <3>. QED
      BY <3>2 DEF Node, Root
  <2>. QED
    BY <2>1, <2>2
<1>7. ASSUME Top(p) PROVE Append(Root, Last(p)) = p
  <2>1. n = 1
    BY <1>7 DEF Top
  <2>2. p[1] \in S
    BY <1>1, <2>1, ElementOfSeq
  <2>. DEFINE s == <<p[1]>>
  <2>3. s \in Seq(S) /\ Len(s) = 1 /\ s[1] = p[1]
    BY <2>2
  <2>4. s = p
    <3>1. \A i \in 1 .. Len(s) : i = 1
      <4>. HIDE DEF s
      <4>. QED
        BY <2>3
    <3>. HIDE DEF s
    <3>. QED
      BY <1>1, <2>1, <2>3, <3>1, SeqEqual
  <2>5. Append(Root, Last(p)) = <<p[n]>>
    BY DEF Root, Last
  <2>. QED
    BY <2>1, <2>4, <2>5
<1>. QED
  BY <1>1, <1>2, <1>3, <1>4, <1>6, <1>7, <1>8

\* What is reported below a directory that has a name of its own is no entry of
\* the root.
LEMMA NotATop ==
  ASSUME NEW d \in Path, NEW x
  PROVE  ~Top(Append(d, x))
<1>1. PICK S : d \in Seq(S)
  BY PathIs
<1>. DEFINE T == S \cup {x}
<1>2. S \subseteq T /\ x \in T
  OBVIOUS
<1>. HIDE DEF T
<1>3. d \in Seq(T)
  BY <1>1, <1>2, SeqMonotonic
<1>4. Len(Append(d, x)) = Len(d) + 1
  BY <1>2, <1>3, AppendProperties
<1>. DEFINE n == Len(d)
            m == Len(Append(d, x))
<1>5. n \in Nat \ {0} /\ m = n + 1
  BY <1>4, PathIs
<1>. HIDE DEF n, m
<1>6. m # 1
  BY <1>5
<1>. QED
  BY <1>6 DEF Top, m

LEMMA BelowIsDeep ==
  ASSUME NEW p \in Path, NEW q \in Below(p)
  PROVE  ~Top(q) /\ q \in Path
<1>1. q \in Path /\ Len(p) <= Len(q) /\ SubSeq(p, 1, Len(p)) = SubSeq(q, 1, Len(p)) /\ p # q
  BY DEF Below, IsStrictPrefix, IsPrefix
<1>2. SUFFICES ASSUME Len(q) = 1 PROVE FALSE
  BY <1>1 DEF Top
<1>3. Len(p) = 1
  <2>. DEFINE n == Len(p)
  <2>1. n \in Nat \ {0} /\ n <= 1
    BY <1>1, <1>2, PathIs
  <2>. HIDE DEF n
  <2>2. n = 1
    BY <2>1
  <2>. QED
    BY <2>2 DEF n
<1>4. SubSeq(p, 1, 1) = p /\ SubSeq(q, 1, 1) = q
  <2>1. SubSeq(p, 1, Len(p)) = p
    BY PathIs
  <2>2. SubSeq(q, 1, Len(q)) = q
    BY <1>1, PathIs
  <2>. QED
    BY <1>2, <1>3, <2>1, <2>2
<1>. QED
  BY <1>1, <1>3, <1>4

LEMMA MovedItself ==
  ASSUME NEW p \in Path, NEW q \in Path
  PROVE  Moved(q, p, q) = p
<1>1. PICK S : p \in Seq(S)
  BY PathIs
<1>. DEFINE n == Len(q)
<1>2. n \in Nat
  BY PathIs
<1>3. SubSeq(q, n + 1, n) = <<>>
  <2>1. n + 1 \in Int /\ n \in Int /\ n < n + 1
    <3>. HIDE DEF n
    <3>. QED
      BY <1>2
  <2>. QED
    BY <2>1, SubSeqEmpty
<1>4. p \o <<>> = p
  BY <1>1, ConcatEmptySeq
<1>. QED
  BY <1>3, <1>4 DEF Moved

\* A removal touches no other entry of the root.
LEMMA TopIsUntouched ==
  ASSUME NEW p \in Path, NEW q \in Path, Top(q)
  PROVE  ~(Len(q) > Len(p))
<1>. DEFINE n == Len(p)
            m == Len(q)
<1>1. n \in Nat \ {0} /\ m = 1
  BY PathIs DEF Top
<1>. HIDE DEF n, m
<1>2. ~(m > n)
  BY <1>1
<1>. QED
  BY <1>2 DEF n, m

-----------------------------------------------------------------------------
(* What a queue says last of a path.                                        *)

About(s, p)  == \E x \in Range(s) : x.path = p
LastOf(s, p) == {x \in Range(s) : \E i \in 1 .. Len(s) :
                   x = s[i] /\ x.path = p /\ \A j \in 1 .. Len(s) : j > i => s[j].path # p}

LEMMA AboutNothing ==
  ASSUME NEW s, s = <<>>, NEW p
  PROVE  ~About(s, p)
<1>. QED
  BY NothingIn DEF About

LEMMA AboutAppended ==
  ASSUME NEW S, NEW s \in Seq(S), NEW x \in S, NEW p
  PROVE  /\ About(Append(s, x), p) <=> (About(s, p) \/ x.path = p)
         /\ x.path = p => \A y \in LastOf(Append(s, x), p) : y = x
         /\ x.path # p => LastOf(Append(s, x), p) \subseteq LastOf(s, p)
<1>. DEFINE t == Append(s, x)
            n == Len(s)
            m == Len(t)
<1>1. /\ n \in Nat /\ t \in Seq(S) /\ m = n + 1
      /\ \A i \in 1 .. n : t[i] = s[i]
      /\ t[m] = x
  <2>1. /\ t \in Seq(S) /\ m = n + 1 /\ \A i \in 1 .. n : t[i] = s[i]
        /\ t[n + 1] = x
    BY AppendProperties
  <2>2. n \in Nat
    BY LenProperties
  <2>. QED
    BY <2>1, <2>2
<1>2. /\ \A y : y \in Range(s) <=> \E i \in 1 .. n : y = s[i]
      /\ \A y : y \in Range(t) <=> \E i \in 1 .. m : y = t[i]
  <2>1. \A y : y \in Range(s) <=> \E i \in 1 .. n : y = s[i]
    BY RangeIs
  <2>2. \A y : y \in Range(t) <=> \E i \in 1 .. m : y = t[i]
    BY <1>1, RangeIs
  <2>. QED
    BY <2>1, <2>2
<1>. HIDE DEF t, n, m
<1>3. /\ \A i \in 1 .. n : i \in 1 .. m /\ m > i
      /\ \A i \in 1 .. m : i = m \/ i \in 1 .. n
      /\ m \in 1 .. m
  BY <1>1
<1>4. About(t, p) <=> (About(s, p) \/ x.path = p)
  BY <1>1, <1>2, <1>3 DEF About
<1>5. ASSUME x.path = p, NEW y \in LastOf(t, p) PROVE y = x
  <2>1. PICK i \in 1 .. m : y = t[i] /\ \A j \in 1 .. m : j > i => t[j].path # p
    BY <1>5 DEF LastOf, m
  <2>2. i = m
    BY <1>1, <1>3, <1>5, <2>1
  <2>. QED
    BY <1>1, <2>1, <2>2
<1>6. ASSUME x.path # p, NEW y \in LastOf(t, p) PROVE y \in LastOf(s, p)
  <2>1. PICK i \in 1 .. m : /\ y = t[i] /\ y.path = p
                            /\ \A j \in 1 .. m : j > i => t[j].path # p
    BY <1>6 DEF LastOf, m
  <2>2. i \in 1 .. n
    BY <1>1, <1>3, <1>6, <2>1
  <2>3. y = s[i] /\ \A j \in 1 .. n : j > i => s[j].path # p
    BY <1>1, <1>3, <2>1, <2>2
  <2>4. y \in Range(s)
    BY <1>2, <2>2, <2>3
  <2>. QED
    BY <2>1, <2>2, <2>3, <2>4 DEF LastOf, n
<1>. QED
  BY <1>4, <1>5, <1>6 DEF t

LEMMA AboutTail ==
  ASSUME NEW S, NEW s \in Seq(S), s # <<>>, NEW p
  PROVE  /\ About(s, p) <=> (About(Tail(s), p) \/ Head(s).path = p)
         /\ About(Tail(s), p) => LastOf(Tail(s), p) \subseteq LastOf(s, p)
         /\ ~About(Tail(s), p) /\ Head(s).path = p => Head(s) \in LastOf(s, p)
<1>. DEFINE t == Tail(s)
            h == Head(s)
            n == Len(s)
            m == Len(t)
<1>1. /\ n \in Nat \ {0} /\ m = n - 1 /\ t \in Seq(S) /\ h = s[1]
      /\ \A i \in 1 .. m : t[i] = s[i + 1]
      /\ Range(s) = {h} \cup Range(t)
  BY HeadAndTail
<1>2. /\ \A y : y \in Range(s) <=> \E i \in 1 .. n : y = s[i]
      /\ \A y : y \in Range(t) <=> \E i \in 1 .. m : y = t[i]
  <2>1. \A y : y \in Range(s) <=> \E i \in 1 .. n : y = s[i]
    BY RangeIs
  <2>2. \A y : y \in Range(t) <=> \E i \in 1 .. m : y = t[i]
    BY <1>1, RangeIs
  <2>. QED
    BY <2>1, <2>2
<1>. HIDE DEF t, n, m, h
<1>3. /\ 1 \in 1 .. n
      /\ \A i \in 1 .. m : i + 1 \in 1 .. n
      /\ \A j \in 1 .. n : j > 1 => (j - 1 \in 1 .. m /\ (j - 1) + 1 = j)
      /\ \A i \in 1 .. m, j \in 1 .. n : j > i + 1 => j > 1 /\ j - 1 > i
  BY <1>1
<1>4. About(s, p) <=> (About(t, p) \/ h.path = p)
  BY <1>1 DEF About
<1>5. ASSUME NEW y \in LastOf(t, p) PROVE y \in LastOf(s, p)
  <2>1. PICK i \in 1 .. m : /\ y = t[i] /\ y.path = p
                            /\ \A j \in 1 .. m : j > i => t[j].path # p
    BY <1>5 DEF LastOf, m
  <2>2. i + 1 \in 1 .. n /\ y = s[i + 1] /\ y \in Range(s)
    BY <1>1, <1>2, <1>3, <2>1
  <2>3. ASSUME NEW j \in 1 .. n, j > i + 1 PROVE s[j].path # p
    <3>1. j - 1 \in 1 .. m /\ (j - 1) + 1 = j /\ j - 1 > i
      BY <1>3, <2>1, <2>3
    <3>2. t[j - 1] = s[(j - 1) + 1]
      BY <1>1, <3>1
    <3>3. t[j - 1].path # p
      BY <2>1, <3>1
    <3>. QED
      BY <3>1, <3>2, <3>3
  <2>. QED
    BY <2>1, <2>2, <2>3 DEF LastOf, n
<1>6. ASSUME ~About(t, p), h.path = p PROVE h \in LastOf(s, p)
  <2>1. ASSUME NEW j \in 1 .. n, j > 1 PROVE s[j].path # p
    <3>1. j - 1 \in 1 .. m /\ (j - 1) + 1 = j
      BY <1>3, <2>1
    <3>2. t[j - 1] = s[(j - 1) + 1]
      BY <1>1, <3>1
    <3>3. t[j - 1] \in Range(t)
      BY <1>2, <3>1
    <3>. QED
      BY <1>6, <3>1, <3>2, <3>3 DEF About
  <2>2. h \in Range(s)
    BY <1>1
  <2>. QED
    BY <1>1, <1>3, <1>6, <2>1, <2>2 DEF LastOf, n
<1>. QED
  BY <1>4, <1>5, <1>6 DEF t, h

-----------------------------------------------------------------------------
(* Steps of a walk.                                                         *)

LEMMA FiniteImage ==
  ASSUME NEW S, IsFiniteSet(S), NEW f, DOMAIN f = S
  PROVE  IsFiniteSet({f[x] : x \in S})
<1>. DEFINE T == {f[x] : x \in S}
            g == [x \in S |-> f[x]]
<1>1. g \in Surjection(S, T)
  BY DEF Surjection
<1>2. IsFiniteSet(T)
  <2>. HIDE DEF T, g
  <2>. QED
    BY <1>1, FS_Surjection
<1>. QED
  BY <1>2

LEMMA StepIs ==
  ASSUME NEW s \in Step
  PROVE  /\ s.do \in {"watch", "list", "stat", "use"} /\ s.path \in Node
         /\ s.do \in {"stat", "use"} => s.path \in Path
         /\ s.do = "use" => s.kind \in Kind \cup {"none"}
<1>. QED
  BY DEF Step, Node

LEMMA StepsMade ==
  /\ \A p \in Node : /\ Watch(p) \in Step /\ Watch(p).do = "watch" /\ Watch(p).path = p
                     /\ List(p) \in Step /\ List(p).do = "list" /\ List(p).path = p
  /\ \A p \in Path, d \in BOOLEAN :
       Stat(p, d) \in Step /\ Stat(p, d).do = "stat" /\ Stat(p, d).path = p
  /\ \A p \in Path, k \in Kind \cup {"none"} :
       Use(p, k) \in Step /\ Use(p, k).do = "use" /\ Use(p, k).path = p /\ Use(p, k).kind = k
<1>1. \A p \in Node : /\ Watch(p) \in Step /\ Watch(p).do = "watch" /\ Watch(p).path = p
                      /\ List(p) \in Step /\ List(p).do = "list" /\ List(p).path = p
  BY DEF Step, Watch, List
<1>2. \A p \in Path, d \in BOOLEAN :
        Stat(p, d) \in Step /\ Stat(p, d).do = "stat" /\ Stat(p, d).path = p
  BY DEF Step, Stat
<1>3. \A p \in Path, k \in Kind \cup {"none"} :
        Use(p, k) \in Step /\ Use(p, k).do = "use" /\ Use(p, k).path = p /\ Use(p, k).kind = k
  BY DEF Step, Use
<1>. QED
  BY <1>1, <1>2, <1>3

LEMMA ChildrenFinite == \A d : IsFiniteSet(Children(d)) /\ Children(d) \subseteq Path
<1>. QED
  BY PathAssumption, FS_Subset DEF Children

\* Listing a directory adds a stat of each of its entries.
LEMMA VisitedIs ==
  ASSUME NEW d
  PROVE  /\ Visited(d) \in Seq(Step)
         /\ \A s \in Range(Visited(d)) : s.do = "stat" /\ s.path \in Children(d)
         /\ IsDir(d) => \A p \in Children(d) :
              \E s \in Range(Visited(d)) : s.do = "stat" /\ s.path = p
<1>. DEFINE C == Children(d)
            f == [p \in C |-> Stat(p, tree[p] = "dir")]
            W == {f[p] : p \in C}
<1>1. IsFiniteSet(C) /\ C \subseteq Path
  BY ChildrenFinite
<1>2. \A p \in C : f[p] \in Step /\ f[p].do = "stat" /\ f[p].path = p
  BY <1>1, StepsMade
<1>3. W = {Stat(p, tree[p] = "dir") : p \in C}
  OBVIOUS
<1>4. DOMAIN f = C
  OBVIOUS
<1>. HIDE DEF C, f
<1>5. IsFiniteSet(W)
  BY <1>1, <1>4, FiniteImage
<1>6. W \subseteq Step /\ \A s \in W : s.do = "stat" /\ s.path \in C
  BY <1>2
<1>7. \A p \in C : \E s \in W : s.do = "stat" /\ s.path = p
  BY <1>2
<1>. HIDE DEF W
<1>8. SetToSeq(W) \in Seq(Step) /\ Range(SetToSeq(W)) = W
  <2>1. SetToSeq(W) \in Seq(W) /\ Range(SetToSeq(W)) = W
    BY <1>5, SequenceOfSet
  <2>. QED
    BY <1>6, <2>1, SeqMonotonic
<1>9. CASE IsDir(d)
  <2>1. Visited(d) = SetToSeq(W)
    BY <1>3, <1>9 DEF Visited, C
  <2>. QED
    BY <1>6, <1>7, <1>8, <2>1 DEF C
<1>10. CASE ~IsDir(d)
  <2>1. Visited(d) = <<>>
    BY <1>10 DEF Visited
  <2>2. Visited(d) \in Seq(Step) /\ Range(Visited(d)) = {}
    BY <2>1, NothingIn
  <2>. QED
    BY <1>10, <2>2
<1>. QED
  BY <1>9, <1>10

LEMMA DescendIs ==
  ASSUME NEW d
  PROVE  /\ Descend(d) \in Seq(Step)
         /\ \A s \in Range(Descend(d)) : s.do = "watch"
         /\ Range(Descend(d)) = IF IsDir(d)
                                THEN {Watch(p) : p \in {q \in Children(d) : tree[q] = "dir"}}
                                ELSE {}
<1>. DEFINE C == {q \in Children(d) : tree[q] = "dir"}
            f == [p \in C |-> Watch(p)]
            W == {f[p] : p \in C}
<1>1. IsFiniteSet(C) /\ C \subseteq Path
  BY ChildrenFinite, FS_Subset
<1>2. \A p \in C : f[p] \in Step /\ f[p].do = "watch"
  BY <1>1, StepsMade DEF Node
<1>3. W = {Watch(p) : p \in C}
  OBVIOUS
<1>4. DOMAIN f = C
  OBVIOUS
<1>. HIDE DEF C, f
<1>5. IsFiniteSet(W)
  BY <1>1, <1>4, FiniteImage
<1>6. W \subseteq Step /\ \A s \in W : s.do = "watch"
  BY <1>2
<1>. HIDE DEF W
<1>7. SetToSeq(W) \in Seq(Step) /\ Range(SetToSeq(W)) = W
  <2>1. SetToSeq(W) \in Seq(W) /\ Range(SetToSeq(W)) = W
    BY <1>5, SequenceOfSet
  <2>. QED
    BY <1>6, <2>1, SeqMonotonic
<1>8. CASE IsDir(d)
  <2>1. Descend(d) = SetToSeq(W)
    BY <1>3, <1>8 DEF Descend, C
  <2>2. Range(Descend(d)) = {Watch(p) : p \in {q \in Children(d) : tree[q] = "dir"}}
    BY <1>3, <1>7, <2>1 DEF C
  <2>. QED
    BY <1>6, <1>7, <1>8, <2>1, <2>2
<1>9. CASE ~IsDir(d)
  <2>1. Descend(d) = <<>>
    BY <1>9 DEF Descend
  <2>2. Descend(d) \in Seq(Step) /\ Range(Descend(d)) = {}
    BY <2>1, NothingIn
  <2>. QED
    BY <1>9, <2>2
<1>. QED
  BY <1>8, <1>9

\* Only what comes first may be a use.
UseFirst(w) == \A i \in 1 .. Len(w) : w[i].do = "use" => i = 1

\* A stat adds the use of what is there, and then perhaps its listing.
LEMMA FoundIs ==
  ASSUME NEW top, NEW s \in Step, s.do = "stat", tree[s.path] \in Kind \cup {"none"}
  PROVE  /\ Found(top, s) \in Seq(Step) /\ UseFirst(Found(top, s))
         /\ Range(Found(top, s)) \subseteq {Use(s.path, tree[s.path]), List(s.path)}
         /\ tree[s.path] # "none" => Use(s.path, tree[s.path]) \in Range(Found(top, s))
         /\ tree[s.path] = "none" => \A x \in Range(Found(top, s)) : x.do # "use"
<1>. DEFINE p == s.path
            u == Use(p, tree[p])
            l == List(p)
            a == IF tree[p] = "none" THEN <<>> ELSE <<u>>
            b == IF s.dir \/ (p = top /\ tree[p] = "dir") THEN <<l>> ELSE <<>>
<1>1. p \in Path /\ p \in Node
  BY StepIs DEF Node
<1>2. /\ u \in Step /\ u.do = "use" /\ l \in Step /\ l.do = "list"
  BY <1>1, StepsMade
<1>3. Found(top, s) = a \o b
  BY DEF Found
<1>. HIDE DEF u, l
<1>4. /\ a \in Seq(Step) /\ Len(a) \in {0, 1} /\ \A i \in 1 .. Len(a) : a[i] = u
      /\ Range(a) = IF tree[p] = "none" THEN {} ELSE {u}
  <2>1. CASE tree[p] = "none"
    BY <2>1, NothingIn
  <2>2. CASE tree[p] # "none"
    <3>1. /\ <<u>> \in Seq(Step) /\ Len(<<u>>) = 1 /\ <<u>>[1] = u /\ Range(<<u>>) = {u}
      BY <1>2, OneIn
    <3>. QED
      BY <2>2, <3>1
  <2>. QED
    BY <2>1, <2>2
<1>5. /\ b \in Seq(Step) /\ Len(b) \in {0, 1} /\ \A i \in 1 .. Len(b) : b[i] = l
      /\ Range(b) \subseteq {l}
  <2>1. CASE b = <<>>
    BY <2>1, NothingIn
  <2>2. CASE b = <<l>>
    <3>1. /\ <<l>> \in Seq(Step) /\ Len(<<l>>) = 1 /\ <<l>>[1] = l /\ Range(<<l>>) = {l}
      BY <1>2, OneIn
    <3>. QED
      BY <2>2, <3>1
  <2>. QED
    BY <2>1, <2>2
<1>. HIDE DEF a, b
<1>. DEFINE c == a \o b
            n == Len(a)
            m == Len(b)
<1>6. /\ c \in Seq(Step) /\ Range(c) = Range(a) \cup Range(b) /\ Len(c) = n + m
      /\ \A i \in 1 .. n + m : c[i] = IF i <= n THEN a[i] ELSE b[i - n]
  BY <1>4, <1>5, Joined
<1>7. UseFirst(c)
  <2>1. SUFFICES ASSUME NEW i \in 1 .. n + m, c[i].do = "use" PROVE i = 1
    <3>. HIDE DEF c
    <3>. QED
      BY <1>6 DEF UseFirst
  <2>2. CASE i <= n
    <3>. HIDE DEF n, m
    <3>. QED
      BY <1>4, <2>2 DEF n
  <2>3. CASE ~(i <= n)
    <3>1. i - n \in 1 .. m
      <4>1. n \in {0, 1} /\ m \in {0, 1}
        BY <1>4, <1>5
      <4>. HIDE DEF n, m
      <4>. QED
        BY <2>3, <4>1
    <3>2. c[i] = b[i - n] /\ b[i - n] = l
      BY <1>5, <1>6, <2>3, <3>1
    <3>. QED
      BY <1>2, <2>1, <3>2
  <2>. QED
    BY <2>2, <2>3
<1>. HIDE DEF c
<1>8. Found(top, s) = c
  BY <1>3 DEF c
<1>9. Range(c) \subseteq {u, l} /\ (tree[p] # "none" => u \in Range(c))
  BY <1>4, <1>5, <1>6
<1>10. tree[p] = "none" => \A x \in Range(c) : x.do # "use"
  BY <1>2, <1>4, <1>5, <1>6
<1>. QED
  BY <1>6, <1>7, <1>8, <1>9, <1>10 DEF u, l, p

-----------------------------------------------------------------------------
(* Types, and which steps a walk may have left.                             *)

FsOK ==
  /\ tree \in [Path -> Kind \cup {"none"}]
  /\ kwatch \in [Node -> Node \cup {Unwatched}]
  /\ ops \in 0 .. MaxOps /\ suspect \subseteq Node
  /\ \A d \in Path : kwatch[d] # Root

EventsOK == events \in Seq(Event) /\ Len(events) <= MaxEvents
ChanOK   == chan \in Seq(Change) /\ Len(chan) <= ChanCap
IndexOK  == index \in [Path -> Row \cup {NoRow}]

\* addTree only watches and lists, and the walk that follows never lists the
\* root.
TodoRight(s) ==
  /\ mode = "walk" => s.do # "watch" /\ (s.do = "list" => s.path # Root)
  /\ mode # "walk" => s.do \in {"watch", "list"}

WatcherOK ==
  /\ watched \subseteq Node /\ mode \in {"seed", "idle", "add", "walk"}
  /\ base \in Node /\ todo \in Seq(Step)
  /\ mode = "add" => base \in Path
  /\ \A s \in Range(todo) : TodoRight(s)

\* What a walk has seen it has used before it gives the connection back.
WalkRight(s) == s.do # "watch" /\ (s.do = "use" => held /\ s.kind # "none")

WalkerOK ==
  /\ phase \in {"waiting", "running", "done"} /\ walk \in Seq(Step)
  /\ held \in BOOLEAN /\ rows \in 0 .. RowsPerTx
  /\ held => phase = "running" /\ rows < RowsPerTx
  /\ phase # "running" => walk = <<>>
  /\ UseFirst(walk) /\ \A s \in Range(walk) : WalkRight(s)

LiveInv == FsOK /\ EventsOK /\ ChanOK /\ IndexOK /\ WatcherOK /\ WalkerOK

LEMMA InvariantIsTyped ==
  ASSUME LiveInv
  PROVE  TypeOK
<1>. QED
  BY DEF LiveInv, TypeOK, FsOK, EventsOK, ChanOK, IndexOK, WatcherOK, WalkerOK

\* A watch reports nothing or one event; the watch on the root reports its
\* entries, and no other watch reports an entry of the root.
LEMMA ReportIs ==
  ASSUME FsOK, NEW op \in {"create", "write", "gone"}, NEW p \in Path
  PROVE  \/ Report(op, p) = <<>> /\ (kwatch[Root] = Root => ~Top(p))
         \/ \E e \in Event : /\ Report(op, p) = <<e>> /\ e.op = op
                             /\ Top(p) /\ kwatch[Root] = Root => e.path = p
                             /\ ~Top(p) => ~Top(e.path)
<1>. DEFINE k == kwatch[Front(p)]
            q == Append(k, Last(p))
            e == [op |-> op, path |-> q]
<1>1. Front(p) \in Node /\ (Top(p) <=> Front(p) = Root) /\ (Top(p) => Append(Root, Last(p)) = p)
  BY PathIs
<1>2. k \in Node \cup {Unwatched}
  BY <1>1 DEF FsOK
<1>3. ASSUME ~Top(p), k # Unwatched PROVE ~Top(q)
  <2>1. Front(p) \in Path
    BY <1>1, <1>3 DEF Node
  <2>2. k \in Path
    BY <1>2, <1>3, <2>1 DEF FsOK, Node
  <2>. HIDE DEF k
  <2>. QED
    BY <2>2, NotATop
<1>4. ASSUME Top(p), kwatch[Root] = Root PROVE q = p /\ k # Unwatched
  <2>1. k = Root
    BY <1>1, <1>4
  <2>. QED
    BY <1>1, <1>4, <2>1, NothingAssumption DEF Node
<1>5. CASE k = Unwatched \/ q \notin Path
  <2>1. Report(op, p) = <<>>
    BY <1>5 DEF Report
  <2>. QED
    BY <1>4, <1>5, <2>1
<1>6. CASE k # Unwatched /\ q \in Path
  <2>1. Report(op, p) = <<e>>
    BY <1>6 DEF Report
  <2>2. e \in Event /\ e.op = op /\ e.path = q
    BY <1>6 DEF Event
  <2>. HIDE DEF e, q, k
  <2>. QED
    BY <1>3, <1>4, <1>6, <2>1, <2>2
<1>. QED
  BY <1>5, <1>6

LEMMA ReportTyped ==
  ASSUME FsOK, NEW op \in {"create", "write", "gone"}, NEW p \in Path
  PROVE  Report(op, p) \in Seq(Event)
<1>1. CASE Report(op, p) = <<>>
  BY <1>1
<1>2. CASE \E e \in Event : Report(op, p) = <<e>>
  BY <1>2, OneIn
<1>. QED
  BY <1>1, <1>2, ReportIs

LEMMA NotifyTyped ==
  ASSUME EventsOK, NEW s \in Seq(Event), Notify(s), ops \in 0 .. MaxOps
  PROVE  EventsOK' /\ ops' \in 0 .. MaxOps /\ UNCHANGED <<suspect, watcher, chan, index, walker>>
<1>1. ops' \in 0 .. MaxOps
  BY BoundAssumption DEF Notify
<1>2. CASE Len(events) + Len(s) <= MaxEvents
  <2>1. events' = events \o s
    BY <1>2 DEF Notify
  <2>2. events \o s \in Seq(Event) /\ Len(events \o s) = Len(events) + Len(s)
    BY Joined DEF EventsOK
  <2>. QED
    BY <1>1, <1>2, <2>1, <2>2 DEF Notify, EventsOK
<1>3. CASE ~(Len(events) + Len(s) <= MaxEvents)
  BY <1>1, <1>3 DEF Notify, EventsOK
<1>. QED
  BY <1>2, <1>3

LEMMA RenameTyped ==
  ASSUME FsOK, NEW p \in Path, NEW q \in Path, Rename(p, q)
  PROVE  /\ tree' \in [Path -> Kind \cup {"none"}]
         /\ kwatch' \in [Node -> Node \cup {Unwatched}]
         /\ \A d \in Path : kwatch'[d] # Root
         /\ kwatch'[Root] = kwatch[Root]
         /\ (\A d \in Node : kwatch[d] = Unwatched) => \A d \in Node : kwatch'[d] = Unwatched
         /\ tree[p] # "none" /\ tree'[q] = tree[p] /\ (Top(p) => tree'[p] = "none")
         /\ p # q
         /\ \A x \in Path : Top(x) /\ x # p /\ x # q => tree'[x] = tree[x]
<1>. DEFINE moving == {x \in Below(p) : tree[x] # "none"}
            under(x) == Moved(q, p, x)
            T(x) == IF x = q \/ (x \in Below(q) /\ under(x) \in moving) THEN tree[under(x)]
                    ELSE IF x = p \/ x \in Below(p) THEN "none" ELSE tree[x]
            K(x) == IF x \in Below(q) /\ under(x) \in moving THEN kwatch[under(x)]
                    ELSE IF x \in {p, q} \cup Below(p) THEN Unwatched ELSE kwatch[x]
<1>1. /\ tree[p] # "none" /\ tree[q] = "none"
      /\ tree' = [x \in Path |-> T(x)] /\ kwatch' = [x \in Node |-> K(x)]
  BY DEF Rename
<1>2. moving \subseteq Path /\ Path \subseteq Node /\ Root \notin Path
  BY PathIs DEF Below, Node
<1>3. under(q) = p
  BY MovedItself
<1>4. \A x : x \in Below(q) \/ x \in Below(p) => x \in Path /\ ~Top(x)
  BY BelowIsDeep
<1>5. p # q
  BY <1>1
<1>6. Unwatched # Root
  BY NothingAssumption DEF Node
<1>. HIDE DEF moving, under
<1>7. ASSUME NEW x \in Path PROVE T(x) \in Kind \cup {"none"}
  <2>1. CASE x = q
    BY <1>3, <2>1 DEF FsOK
  <2>2. CASE x # q
    BY <1>2, <2>2 DEF FsOK
  <2>. QED
    BY <2>1, <2>2
<1>8. ASSUME NEW x \in Node PROVE K(x) \in Node \cup {Unwatched}
  BY <1>2 DEF FsOK
<1>9. ASSUME NEW x \in Path PROVE K(x) # Root
  BY <1>2, <1>6 DEF FsOK
<1>10. K(Root) = kwatch[Root]
  BY <1>2, <1>4
<1>11. ASSUME \A d \in Node : kwatch[d] = Unwatched, NEW x \in Node PROVE K(x) = Unwatched
  BY <1>2, <1>11
<1>12. T(q) = tree[p] /\ (Top(p) => T(p) = "none")
  BY <1>3, <1>4, <1>5
<1>13. ASSUME NEW x \in Path, Top(x), x # p, x # q PROVE T(x) = tree[x]
  BY <1>4, <1>13
<1>14. \A x \in Path : tree'[x] = T(x)
  BY <1>1
<1>15. \A x \in Node : kwatch'[x] = K(x)
  BY <1>1
<1>16. tree' \in [Path -> Kind \cup {"none"}] /\ kwatch' \in [Node -> Node \cup {Unwatched}]
  <2>. HIDE DEF T, K
  <2>. QED
    BY <1>1, <1>7, <1>8
<1>17. Root \in Node
  BY DEF Node
<1>. HIDE DEF T, K
<1>. QED
  BY <1>1, <1>2, <1>5, <1>9, <1>10, <1>11, <1>12, <1>13, <1>14, <1>15, <1>16, <1>17

LEMMA UserKeeps ==
  ASSUME LiveInv, User
  PROVE  LiveInv'
<1>0. FsOK /\ EventsOK /\ ops \in 0 .. MaxOps
  BY DEF LiveInv, FsOK
<1>1. Unwatched # Root /\ \A p \in Path : p # Root /\ p \in Node
  BY NothingAssumption, PathIs DEF Node
<1>2. SUFFICES FsOK' /\ EventsOK' /\ UNCHANGED <<watcher, chan, index, walker>>
  BY DEF LiveInv, ChanOK, IndexOK, WatcherOK, WalkerOK, TodoRight, WalkRight, watcher, walker
<1>3. ASSUME NEW p \in Path, NEW k \in Kind, Create(p, k)
      PROVE  FsOK' /\ EventsOK' /\ UNCHANGED <<watcher, chan, index, walker>>
  <2>1. Report("create", p) \in Seq(Event)
    BY <1>0, ReportTyped
  <2>2. Notify(Report("create", p))
    BY <1>3 DEF Create
  <2>3. EventsOK' /\ ops' \in 0 .. MaxOps /\ UNCHANGED <<suspect, watcher, chan, index, walker>>
    BY <1>0, <2>1, <2>2, NotifyTyped
  <2>. QED
    BY <1>0, <1>3, <2>3 DEF Create, FsOK
<1>4. ASSUME NEW p \in Path, Modify(p)
      PROVE  FsOK' /\ EventsOK' /\ UNCHANGED <<watcher, chan, index, walker>>
  <2>1. Report("write", p) \in Seq(Event)
    BY <1>0, ReportTyped
  <2>2. Notify(Report("write", p))
    BY <1>4 DEF Modify
  <2>3. EventsOK' /\ ops' \in 0 .. MaxOps /\ UNCHANGED <<suspect, watcher, chan, index, walker>>
    BY <1>0, <2>1, <2>2, NotifyTyped
  <2>. QED
    BY <1>0, <1>4, <2>3 DEF Modify, FsOK
<1>5. ASSUME NEW p \in Path, Delete(p)
      PROVE  FsOK' /\ EventsOK' /\ UNCHANGED <<watcher, chan, index, walker>>
  <2>1. Report("gone", p) \in Seq(Event)
    BY <1>0, ReportTyped
  <2>2. Notify(Report("gone", p))
    BY <1>5 DEF Delete
  <2>3. EventsOK' /\ ops' \in 0 .. MaxOps /\ UNCHANGED <<suspect, watcher, chan, index, walker>>
    BY <1>0, <2>1, <2>2, NotifyTyped
  <2>4. tree' \in [Path -> Kind \cup {"none"}]
    BY <1>0, <1>5 DEF Delete, FsOK
  <2>5. kwatch' \in [Node -> Node \cup {Unwatched}] /\ \A d \in Path : kwatch'[d] # Root
    BY <1>0, <1>1, <1>5 DEF Delete, FsOK
  <2>. QED
    BY <1>0, <2>3, <2>4, <2>5 DEF FsOK
<1>6. ASSUME NEW p \in Path, NEW q \in Path, Rename(p, q)
      PROVE  FsOK' /\ EventsOK' /\ UNCHANGED <<watcher, chan, index, walker>>
  <2>1. Report("gone", p) \in Seq(Event) /\ Report("create", q) \in Seq(Event)
    BY <1>0, ReportTyped
  <2>2. Notify(Report("gone", p) \o Report("create", q))
    BY <1>6 DEF Rename
  <2>3. Report("gone", p) \o Report("create", q) \in Seq(Event)
    BY <2>1, Joined
  <2>4. EventsOK' /\ ops' \in 0 .. MaxOps /\ UNCHANGED <<suspect, watcher, chan, index, walker>>
    BY <1>0, <2>2, <2>3, NotifyTyped
  <2>5. /\ tree' \in [Path -> Kind \cup {"none"}]
        /\ kwatch' \in [Node -> Node \cup {Unwatched}]
        /\ \A d \in Path : kwatch'[d] # Root
    BY <1>0, <1>6, RenameTyped
  <2>. QED
    BY <1>0, <2>4, <2>5 DEF FsOK
<1>. QED
  BY <1>3, <1>4, <1>5, <1>6 DEF User

LEMMA TodoHead ==
  ASSUME WatcherOK, todo # <<>>
  PROVE  /\ Head(todo) \in Step /\ Tail(todo) \in Seq(Step) /\ TodoRight(Head(todo))
         /\ Range(todo) = {Head(todo)} \cup Range(Tail(todo))
         /\ \A s \in Range(Tail(todo)) : TodoRight(s)
<1>1. todo \in Seq(Step) /\ \A s \in Range(todo) : TodoRight(s)
  BY DEF WatcherOK
<1>2. /\ Head(todo) \in Step /\ Tail(todo) \in Seq(Step)
      /\ Range(todo) = {Head(todo)} \cup Range(Tail(todo))
  BY <1>1, HeadAndTail
<1>. QED
  BY <1>1, <1>2

\* A step is replaced by those it leads to.
LEMMA TodoReplaced ==
  ASSUME WatcherOK, todo # <<>>, NEW f \in Seq(Step), \A s \in Range(f) : TodoRight(s),
         todo' = f \o Tail(todo), mode' = mode, base' = base, watched' \subseteq Node
  PROVE  WatcherOK' /\ Range(todo') = Range(f) \cup Range(Tail(todo))
<1>1. /\ Tail(todo) \in Seq(Step) /\ \A s \in Range(Tail(todo)) : TodoRight(s)
  BY TodoHead
<1>2. todo' \in Seq(Step) /\ Range(todo') = Range(f) \cup Range(Tail(todo))
  BY <1>1, Joined
<1>3. \A s \in Range(todo') : TodoRight(s)'
  BY <1>1, <1>2 DEF TodoRight
<1>. QED
  BY <1>2, <1>3 DEF WatcherOK

LEMMA AddWatchKeeps ==
  ASSUME LiveInv, AddWatch
  PROVE  LiveInv'
<1>. DEFINE h == Head(todo)
            d == h.path
<1>1. /\ WatcherOK /\ FsOK /\ mode # "walk" /\ todo # <<>> /\ h.do = "watch"
      /\ UNCHANGED <<tree, ops, events, mode, base, chan, index, walker>>
  BY DEF LiveInv, AddWatch, At
<1>2. h \in Step /\ d \in Node
  BY <1>1, TodoHead, StepIs
<1>3. List(d) \in Step /\ List(d).do = "list"
  BY <1>2, StepsMade
<1>4. <<List(d)>> \in Seq(Step) /\ Range(<<List(d)>>) = {List(d)}
  BY <1>3, OneIn
<1>5. \A s \in Range(<<List(d)>>) : TodoRight(s)
  BY <1>1, <1>3, <1>4 DEF TodoRight
<1>6. /\ todo' = <<List(d)>> \o Tail(todo)
      /\ watched' \in {watched, watched \cup {d}}
      /\ kwatch' \in {kwatch, [kwatch EXCEPT ![d] = d]}
      /\ suspect' \in {suspect, suspect \cup {d}}
  BY DEF AddWatch
<1>. HIDE DEF h, d
<1>7. watched' \subseteq Node
  BY <1>1, <1>2, <1>6 DEF WatcherOK
<1>8. WatcherOK'
  BY <1>1, <1>4, <1>5, <1>6, <1>7, TodoReplaced
<1>9. FsOK'
  <2>1. \A p \in Path : p # Root
    BY PathIs
  <2>4. suspect' \subseteq Node
    BY <1>1, <1>2, <1>6 DEF FsOK
  <2>2. CASE kwatch' = kwatch
    BY <1>1, <2>2, <2>4 DEF FsOK
  <2>3. CASE kwatch' = [kwatch EXCEPT ![d] = d]
    BY <1>1, <1>2, <2>1, <2>3, <2>4 DEF FsOK
  <2>. QED
    BY <1>6, <2>2, <2>3
<1>. QED
  BY <1>1, <1>8, <1>9 DEF LiveInv, EventsOK, ChanOK, IndexOK, WalkerOK, WalkRight, walker

LEMMA AddListKeeps ==
  ASSUME LiveInv, AddList
  PROVE  LiveInv'
<1>. DEFINE f == Descend(Head(todo).path)
<1>1. /\ WatcherOK /\ mode # "walk" /\ todo # <<>>
      /\ UNCHANGED <<fs, events, watched, mode, base, chan, index, walker>>
      /\ todo' = f \o Tail(todo)
  BY DEF LiveInv, AddList, At
<1>2. f \in Seq(Step) /\ \A s \in Range(f) : s.do = "watch"
  BY DescendIs
<1>. HIDE DEF f
<1>3. \A s \in Range(f) : TodoRight(s)
  BY <1>1, <1>2 DEF TodoRight
<1>4. watched' \subseteq Node /\ mode' = mode /\ base' = base
  BY <1>1 DEF WatcherOK
<1>5. WatcherOK'
  BY <1>1, <1>2, <1>3, <1>4, TodoReplaced
<1>. QED
  BY <1>1, <1>5 DEF LiveInv, FsOK, EventsOK, ChanOK, IndexOK, WalkerOK, WalkRight, walker, fs

\* What the watcher has to do is one step, or nothing.
LEMMA OneToDo ==
  ASSUME WatcherOK, NEW s \in Step, TodoRight(s)', todo' = <<s>>,
         mode' \in {"seed", "idle", "add", "walk"}, base' \in Node, watched' \subseteq Node,
         mode' = "add" => base' \in Path
  PROVE  WatcherOK' /\ Range(todo') = {s}
<1>1. <<s>> \in Seq(Step) /\ Range(<<s>>) = {s}
  BY OneIn
<1>2. todo' \in Seq(Step) /\ Range(todo') = {s}
  BY <1>1
<1>3. \A x \in Range(todo') : TodoRight(x)'
  BY <1>2
<1>. QED
  BY <1>2, <1>3 DEF WatcherOK

LEMMA NothingToDo ==
  ASSUME WatcherOK, todo' = <<>>,
         mode' \in {"seed", "idle", "walk"}, base' \in Node, watched' \subseteq Node
  PROVE  WatcherOK' /\ Range(todo') = {}
<1>1. todo' \in Seq(Step) /\ Range(todo') = {}
  BY NothingIn
<1>. QED
  BY <1>1 DEF WatcherOK

LEMMA AddDoneKeeps ==
  ASSUME LiveInv, AddDone
  PROVE  LiveInv'
<1>1. /\ WatcherOK /\ mode \in {"seed", "add"} /\ todo = <<>>
      /\ UNCHANGED <<fs, events, watched, base, chan, index, walker>>
  BY DEF LiveInv, AddDone
<1>2. WatcherOK'
  <2>1. CASE mode = "seed"
    <3>1. mode' = "idle" /\ todo' = <<>> /\ base' \in Node /\ watched' \subseteq Node
      BY <1>1, <2>1 DEF AddDone, WatcherOK
    <3>. QED
      BY <1>1, <3>1, NothingToDo
  <2>2. CASE mode # "seed"
    <3>1. base \in Path
      BY <1>1, <2>2 DEF WatcherOK
    <3>2. Stat(base, FALSE) \in Step /\ Stat(base, FALSE).do = "stat"
      BY <3>1, StepsMade
    <3>3. /\ mode' = "walk" /\ todo' = <<Stat(base, FALSE)>> /\ base' = base
          /\ watched' \subseteq Node /\ base' \in Node
      BY <1>1, <2>2 DEF AddDone, WatcherOK
    <3>4. TodoRight(Stat(base, FALSE))'
      BY <3>2, <3>3 DEF TodoRight
    <3>. QED
      BY <1>1, <3>2, <3>3, <3>4, OneToDo
  <2>. QED
    BY <2>1, <2>2
<1>. QED
  BY <1>1, <1>2 DEF LiveInv, FsOK, EventsOK, ChanOK, IndexOK, WalkerOK, WalkRight, walker, fs

LEMMA HandleKeeps ==
  ASSUME LiveInv, Handle
  PROVE  LiveInv'
<1>. DEFINE e == Head(events)
<1>1. /\ WatcherOK /\ FsOK /\ EventsOK /\ mode = "idle" /\ events # <<>>
      /\ events' = Tail(events)
      /\ UNCHANGED <<tree, ops, suspect, chan, index, walker>>
  BY DEF LiveInv, Handle
<1>2. /\ e \in Event /\ Tail(events) \in Seq(Event) /\ Len(Tail(events)) = Len(events) - 1
      /\ Len(events) \in Nat
  BY <1>1, HeadAndTail, LenProperties DEF EventsOK
<1>3. EventsOK'
  BY <1>1, <1>2, BoundAssumption DEF EventsOK
<1>4. PICK p : p = e.path /\ p \in Path /\ p \in Node /\ Root \in Node
  BY <1>2 DEF Event, Node
<1>5. Watch(p) \in Step /\ Use(p, "file") \in Step /\ Use(p, "none") \in Step
  BY <1>4, StepsMade DEF Kind
<1>6. /\ Watch(p).do = "watch" /\ Use(p, "file").do = "use" /\ Use(p, "none").do = "use"
  BY <1>4, StepsMade DEF Kind
<1>7. CASE e.op = "create" /\ tree[p] = "dir"
  <2>1. /\ mode' = "add" /\ base' = p /\ todo' = <<Watch(p)>>
        /\ UNCHANGED <<watched, kwatch>>
    BY <1>1, <1>4, <1>7 DEF Handle
  <2>2. TodoRight(Watch(p))'
    BY <1>6, <2>1 DEF TodoRight
  <2>. HIDE DEF e
  <2>3. WatcherOK'
    BY <1>1, <1>4, <1>5, <2>1, <2>2, OneToDo DEF WatcherOK
  <2>. QED
    BY <1>1, <1>3, <2>1, <2>3 DEF LiveInv, FsOK, ChanOK, IndexOK, WalkerOK, WalkRight, walker
<1>8. CASE e.op \in {"create", "write"} /\ tree[p] = "file"
  <2>1. /\ mode' = "walk" /\ base' = Root /\ todo' = <<Use(p, "file")>>
        /\ UNCHANGED <<watched, kwatch>>
    BY <1>1, <1>4, <1>8 DEF Handle
  <2>2. TodoRight(Use(p, "file"))'
    BY <1>6, <2>1 DEF TodoRight
  <2>. HIDE DEF e
  <2>3. WatcherOK'
    BY <1>1, <1>4, <1>5, <2>1, <2>2, OneToDo DEF WatcherOK
  <2>. QED
    BY <1>1, <1>3, <2>1, <2>3 DEF LiveInv, FsOK, ChanOK, IndexOK, WalkerOK, WalkRight, walker
<1>9. CASE \/ e.op = "create" /\ tree[p] = "none"
           \/ e.op = "write" /\ tree[p] # "file"
  <2>1. UNCHANGED <<mode, base, todo, watched, kwatch>>
    BY <1>1, <1>4, <1>9 DEF Handle
  <2>. QED
    BY <1>1, <1>3, <2>1
    DEF LiveInv, FsOK, ChanOK, IndexOK, WatcherOK, TodoRight, WalkerOK, WalkRight, walker
<1>10. CASE e.op = "gone"
  <2>1. /\ mode' = "walk" /\ base' = Root /\ todo' = <<Use(p, "none")>>
        /\ DropWatch(p)
    BY <1>1, <1>4, <1>10 DEF Handle
  <2>2. TodoRight(Use(p, "none"))'
    BY <1>6, <2>1 DEF TodoRight
  <2>. HIDE DEF e
  <2>3. watched' \subseteq Node
    BY <1>1, <2>1 DEF DropWatch, WatcherOK
  <2>4. WatcherOK'
    BY <1>1, <1>4, <1>5, <2>1, <2>2, <2>3, OneToDo
  <2>5. FsOK'
    <3>1. Unwatched # Root
      BY NothingAssumption DEF Node
    <3>2. /\ kwatch' \in [Node -> Node \cup {Unwatched}]
          /\ \A d \in Path : kwatch'[d] # Root
      BY <1>1, <2>1, <3>1 DEF DropWatch, FsOK, Node
    <3>. QED
      BY <1>1, <3>2 DEF FsOK
  <2>. QED
    BY <1>1, <1>3, <2>4, <2>5 DEF LiveInv, ChanOK, IndexOK, WalkerOK, WalkRight, walker
<1>11. \/ e.op = "create" /\ tree[p] = "dir"
       \/ e.op \in {"create", "write"} /\ tree[p] = "file"
       \/ e.op = "create" /\ tree[p] = "none"
       \/ e.op = "write" /\ tree[p] # "file"
       \/ e.op = "gone"
  BY <1>4 DEF Handle
<1>. QED
  BY <1>7, <1>8, <1>9, <1>10, <1>11

LEMMA WalkStatKeeps ==
  ASSUME LiveInv, WalkStat
  PROVE  LiveInv'
<1>. DEFINE h == Head(todo)
            f == Found(base, h)
<1>1. /\ WatcherOK /\ FsOK /\ mode = "walk" /\ todo # <<>> /\ h.do = "stat"
      /\ UNCHANGED <<fs, events, watched, mode, base, chan, index, walker>>
      /\ todo' = f \o Tail(todo)
  BY DEF LiveInv, WalkStat, At
<1>2. h \in Step /\ h.path \in Path
  BY <1>1, TodoHead, StepIs
<1>3. tree[h.path] \in Kind \cup {"none"}
  BY <1>1, <1>2 DEF FsOK
<1>4. /\ f \in Seq(Step)
      /\ Range(f) \subseteq {Use(h.path, tree[h.path]), List(h.path)}
  BY <1>1, <1>2, <1>3, FoundIs
<1>5. /\ Use(h.path, tree[h.path]).do = "use"
      /\ List(h.path).do = "list" /\ List(h.path).path = h.path /\ h.path # Root
  BY <1>2, <1>3, StepsMade, PathIs DEF Node
<1>. HIDE DEF f, h
<1>6. \A s \in Range(f) : TodoRight(s)
  BY <1>1, <1>4, <1>5 DEF TodoRight
<1>7. watched' \subseteq Node /\ mode' = mode /\ base' = base
  BY <1>1 DEF WatcherOK
<1>8. WatcherOK'
  BY <1>1, <1>4, <1>6, <1>7, TodoReplaced
<1>. QED
  BY <1>1, <1>8 DEF LiveInv, FsOK, EventsOK, ChanOK, IndexOK, WalkerOK, WalkRight, walker, fs

LEMMA WalkListKeeps ==
  ASSUME LiveInv, WalkList
  PROVE  LiveInv'
<1>. DEFINE f == Visited(Head(todo).path)
<1>1. /\ WatcherOK /\ mode = "walk" /\ todo # <<>>
      /\ UNCHANGED <<fs, events, watched, mode, base, chan, index, walker>>
      /\ todo' = f \o Tail(todo)
  BY DEF LiveInv, WalkList, At
<1>2. f \in Seq(Step) /\ \A s \in Range(f) : s.do = "stat"
  BY VisitedIs
<1>. HIDE DEF f
<1>3. \A s \in Range(f) : TodoRight(s)
  BY <1>1, <1>2 DEF TodoRight
<1>4. watched' \subseteq Node /\ mode' = mode /\ base' = base
  BY <1>1 DEF WatcherOK
<1>5. WatcherOK'
  BY <1>1, <1>2, <1>3, <1>4, TodoReplaced
<1>. QED
  BY <1>1, <1>5 DEF LiveInv, FsOK, EventsOK, ChanOK, IndexOK, WalkerOK, WalkRight, walker, fs

LEMMA TodoPopped ==
  ASSUME WatcherOK, todo # <<>>, todo' = Tail(todo), mode' = mode, base' = base,
         watched' = watched
  PROVE  WatcherOK' /\ Range(todo') = Range(Tail(todo))
<1>1. Tail(todo) \in Seq(Step) /\ \A s \in Range(Tail(todo)) : TodoRight(s)
  BY TodoHead
<1>2. \A s \in Range(todo') : TodoRight(s)'
  BY <1>1 DEF TodoRight
<1>. QED
  BY <1>1, <1>2 DEF WatcherOK

\* The change that a use sends.
Sent(s) == [path |-> s.path,
            row  |-> IF s.kind = "none" THEN NoRow ELSE [kind |-> s.kind, volume |-> base]]

LEMMA SentIs ==
  ASSUME WatcherOK, NEW s \in Step, s.do = "use"
  PROVE  /\ Sent(s) \in Change /\ Sent(s).path = s.path
         /\ s.kind = "none" => Sent(s).row = NoRow
         /\ s.kind # "none" => Sent(s).row # NoRow /\ Sent(s).row.kind = s.kind
<1>1. s.path \in Path /\ s.kind \in Kind \cup {"none"} /\ base \in Node
  BY StepIs DEF WatcherOK
<1>2. Sent(s).path = s.path
  BY DEF Sent
<1>3. CASE s.kind = "none"
  <2>1. Sent(s).row = NoRow
    BY <1>3 DEF Sent
  <2>2. Sent(s) \in Change
    BY <1>1, <1>3 DEF Sent, Change
  <2>. QED
    BY <1>2, <1>3, <2>1, <2>2
<1>4. CASE s.kind # "none"
  <2>. DEFINE r == [kind |-> s.kind, volume |-> base]
  <2>1. r \in Row /\ r.kind = s.kind
    BY <1>1, <1>4 DEF Row
  <2>2. r # NoRow
    BY <2>1, NothingAssumption DEF Row
  <2>3. Sent(s) = [path |-> s.path, row |-> r]
    BY <1>4 DEF Sent
  <2>. HIDE DEF r
  <2>. QED
    BY <1>1, <1>2, <1>4, <2>1, <2>2, <2>3 DEF Change
<1>. QED
  BY <1>3, <1>4

LEMMA WalkSendIs ==
  ASSUME LiveInv, WalkSend
  PROVE  /\ mode = "walk" /\ todo # <<>> /\ Head(todo) \in Step /\ Head(todo).do = "use"
         /\ chan' = Append(chan, Sent(Head(todo))) /\ Len(chan) < ChanCap
         /\ todo' = Tail(todo)
         /\ UNCHANGED <<fs, events, watched, mode, base, index, walker>>
<1>1. /\ mode = "walk" /\ todo # <<>> /\ Head(todo).do = "use"
      /\ chan' = Append(chan, Sent(Head(todo))) /\ Len(chan) < ChanCap
      /\ todo' = Tail(todo)
      /\ UNCHANGED <<fs, events, watched, mode, base, index, walker>>
  BY DEF WalkSend, At, Send, Sent
<1>2. Head(todo) \in Step
  BY <1>1, TodoHead DEF LiveInv
<1>. QED
  BY <1>1, <1>2

LEMMA WalkSendKeeps ==
  ASSUME LiveInv, WalkSend
  PROVE  LiveInv'
<1>1. /\ WatcherOK /\ ChanOK /\ mode = "walk" /\ todo # <<>>
      /\ Head(todo) \in Step /\ Head(todo).do = "use"
      /\ chan' = Append(chan, Sent(Head(todo))) /\ Len(chan) < ChanCap
      /\ todo' = Tail(todo)
      /\ UNCHANGED <<fs, events, watched, mode, base, index, walker>>
  BY WalkSendIs DEF LiveInv
<1>2. Sent(Head(todo)) \in Change
  BY <1>1, SentIs
<1>3. ChanOK'
  <2>1. chan' \in Seq(Change) /\ Len(chan') = Len(chan) + 1
    BY <1>1, <1>2, AppendProperties DEF ChanOK
  <2>2. Len(chan) \in Nat /\ ChanCap \in Nat
    BY <1>1, LenProperties, BoundAssumption DEF ChanOK
  <2>. QED
    BY <1>1, <2>1, <2>2 DEF ChanOK
<1>4. WatcherOK'
  BY <1>1, TodoPopped
<1>. QED
  BY <1>1, <1>3, <1>4 DEF LiveInv, FsOK, EventsOK, IndexOK, WalkerOK, WalkRight, walker, fs

LEMMA WalkDoneKeeps ==
  ASSUME LiveInv, WalkDone
  PROVE  LiveInv'
<1>1. /\ WatcherOK /\ todo' = <<>> /\ mode' = "idle" /\ base' = base /\ watched' = watched
      /\ UNCHANGED <<fs, events, chan, index, walker>>
  BY DEF LiveInv, WalkDone
<1>2. base' \in Node /\ watched' \subseteq Node
  BY <1>1 DEF WatcherOK
<1>3. WatcherOK'
  BY <1>1, <1>2, NothingToDo
<1>. QED
  BY <1>1, <1>3 DEF LiveInv, FsOK, EventsOK, ChanOK, IndexOK, WalkerOK, WalkRight, walker, fs

LEMMA WatcherKeeps ==
  ASSUME LiveInv, Watcher
  PROVE  LiveInv'
<1>. QED
  BY AddWatchKeeps, AddListKeeps, AddDoneKeeps, HandleKeeps, WalkStatKeeps, WalkListKeeps,
     WalkSendKeeps, WalkDoneKeeps DEF Watcher

-----------------------------------------------------------------------------
(* The walk of the root and the consumer.                                   *)

LEMMA NoUseIsFirst ==
  ASSUME NEW t \in Seq(Step), \A x \in Range(t) : x.do # "use"
  PROVE  UseFirst(t)
<1>1. \A i \in 1 .. Len(t) : t[i] \in Range(t)
  BY RangeIs
<1>. QED
  BY <1>1 DEF UseFirst

LEMMA RestHasNoUse ==
  ASSUME NEW s \in Seq(Step), s # <<>>, UseFirst(s)
  PROVE  \A x \in Range(Tail(s)) : x.do # "use"
<1>. DEFINE t == Tail(s)
            n == Len(s)
            m == Len(t)
<1>1. /\ t \in Seq(Step) /\ n \in Nat \ {0} /\ m = n - 1
      /\ \A i \in 1 .. m : t[i] = s[i + 1]
  BY HeadAndTail
<1>2. \A x : x \in Range(t) <=> \E i \in 1 .. m : x = t[i]
  BY <1>1, RangeIs
<1>3. \A i \in 1 .. n : s[i].do = "use" => i = 1
  BY DEF UseFirst
<1>. HIDE DEF t, n, m
<1>4. \A i \in 1 .. m : i + 1 \in 1 .. n /\ i + 1 # 1
  BY <1>1
<1>5. \A x \in Range(t) : x.do # "use"
  BY <1>1, <1>2, <1>3, <1>4
<1>. QED
  BY <1>5 DEF t

LEMMA UseFirstJoined ==
  ASSUME NEW f \in Seq(Step), UseFirst(f),
         NEW t \in Seq(Step), \A x \in Range(t) : x.do # "use"
  PROVE  UseFirst(f \o t)
<1>. DEFINE c == f \o t
            n == Len(f)
            m == Len(t)
<1>1. /\ n \in Nat /\ m \in Nat /\ Len(c) = n + m
      /\ \A i \in 1 .. n + m : c[i] = IF i <= n THEN f[i] ELSE t[i - n]
  BY Joined, LenProperties
<1>2. \A i \in 1 .. m : t[i] \in Range(t)
  BY RangeIs
<1>3. \A i \in 1 .. n : f[i].do = "use" => i = 1
  BY DEF UseFirst
<1>. HIDE DEF c, n, m
<1>4. ASSUME NEW i \in 1 .. n + m, c[i].do = "use" PROVE i = 1
  <2>1. CASE i <= n
    <3>1. i \in 1 .. n
      BY <1>1, <2>1
    <3>. QED
      BY <1>1, <1>3, <1>4, <2>1, <3>1
  <2>2. CASE ~(i <= n)
    <3>1. i - n \in 1 .. m
      BY <1>1, <2>2
    <3>2. c[i] = t[i - n]
      BY <1>1, <2>2
    <3>. QED
      BY <1>2, <1>4, <3>1, <3>2
  <2>. QED
    BY <2>1, <2>2
<1>5. UseFirst(c)
  BY <1>1, <1>4 DEF UseFirst
<1>. QED
  BY <1>5 DEF c

LEMMA WalkHead ==
  ASSUME WalkerOK, walk # <<>>
  PROVE  /\ Head(walk) \in Step /\ Tail(walk) \in Seq(Step)
         /\ Range(walk) = {Head(walk)} \cup Range(Tail(walk))
         /\ \A s \in Range(Tail(walk)) : s.do # "use" /\ s.do # "watch"
         /\ WalkRight(Head(walk))
<1>1. walk \in Seq(Step) /\ UseFirst(walk) /\ \A s \in Range(walk) : WalkRight(s)
  BY DEF WalkerOK
<1>2. /\ Head(walk) \in Step /\ Tail(walk) \in Seq(Step)
      /\ Range(walk) = {Head(walk)} \cup Range(Tail(walk))
  BY <1>1, HeadAndTail
<1>3. \A s \in Range(Tail(walk)) : s.do # "use"
  BY <1>1, RestHasNoUse
<1>. QED
  BY <1>1, <1>2, <1>3 DEF WalkRight

LEMMA WalkReplaced ==
  ASSUME WalkerOK, held, walk # <<>>, NEW f \in Seq(Step), UseFirst(f),
         \A s \in Range(f) : WalkRight(s),
         walk' = f \o Tail(walk), UNCHANGED <<phase, held, rows>>
  PROVE  WalkerOK' /\ Range(walk') = Range(f) \cup Range(Tail(walk))
<1>1. Tail(walk) \in Seq(Step) /\ \A s \in Range(Tail(walk)) : s.do # "use" /\ s.do # "watch"
  BY WalkHead
<1>2. walk' \in Seq(Step) /\ Range(walk') = Range(f) \cup Range(Tail(walk))
  <2>. DEFINE t == Tail(walk)
  <2>1. t \in Seq(Step) /\ walk' = f \o t
    BY <1>1
  <2>. HIDE DEF t
  <2>2. f \o t \in Seq(Step) /\ Range(f \o t) = Range(f) \cup Range(t)
    BY <2>1, Joined
  <2>. QED
    BY <2>1, <2>2 DEF t
<1>3. UseFirst(walk')
  BY <1>1, UseFirstJoined
<1>4. \A s \in Range(walk') : WalkRight(s)'
  BY <1>1, <1>2 DEF WalkRight
<1>. QED
  BY <1>2, <1>3, <1>4 DEF WalkerOK

LEMMA StartWalkKeeps ==
  ASSUME LiveInv, StartWalk
  PROVE  LiveInv' /\ Range(walk') = {List(Root)}
<1>1. /\ WalkerOK /\ phase = "waiting" /\ phase' = "running" /\ walk' = <<List(Root)>>
      /\ UNCHANGED <<held, rows, index, fs, events, watcher, chan>>
  BY DEF LiveInv, StartWalk, walkerRest
<1>2. List(Root) \in Step /\ List(Root).do = "list"
  BY StepsMade DEF Node
<1>3. /\ walk' \in Seq(Step) /\ Range(walk') = {List(Root)}
  BY <1>1, <1>2, OneIn
<1>4. UseFirst(walk')
  BY <1>2, <1>3, NoUseIsFirst
<1>5. \A s \in Range(walk') : WalkRight(s)'
  BY <1>2, <1>3 DEF WalkRight
<1>6. WalkerOK'
  BY <1>1, <1>3, <1>4, <1>5 DEF WalkerOK
<1>. QED
  BY <1>1, <1>3, <1>6
  DEF LiveInv, FsOK, EventsOK, ChanOK, IndexOK, WatcherOK, TodoRight, watcher, fs

LEMMA BeginTxKeeps ==
  ASSUME LiveInv, BeginTx
  PROVE  LiveInv'
<1>1. /\ WalkerOK /\ phase = "running" /\ held' = TRUE /\ rows' = 0
      /\ UNCHANGED <<phase, walk, index, fs, events, watcher, chan>>
  BY DEF LiveInv, BeginTx, walkerRest
<1>2. 0 \in 0 .. RowsPerTx /\ 0 < RowsPerTx
  BY BoundAssumption
<1>3. WalkerOK'
  BY <1>1, <1>2 DEF WalkerOK, WalkRight
<1>. QED
  BY <1>1, <1>3
  DEF LiveInv, FsOK, EventsOK, ChanOK, IndexOK, WatcherOK, TodoRight, watcher, fs

LEMMA IndexStatIs ==
  ASSUME LiveInv, IndexStat
  PROVE  LET h == Head(walk)
             f == Found(Root, h) IN
         /\ LiveInv'
         /\ h \in Step /\ h.do = "stat" /\ h.path \in Path
         /\ Range(walk) = {h} \cup Range(Tail(walk))
         /\ Range(walk') = Range(f) \cup Range(Tail(walk))
         /\ Range(f) \subseteq {Use(h.path, tree[h.path]), List(h.path)}
         /\ tree[h.path] # "none" => Use(h.path, tree[h.path]) \in Range(f)
         /\ UNCHANGED <<phase, held, rows, index, fs, events, watcher, chan>>
<1>. DEFINE h == Head(walk)
            f == Found(Root, h)
<1>1. /\ WalkerOK /\ FsOK /\ held /\ walk # <<>> /\ h.do = "stat"
      /\ walk' = f \o Tail(walk)
      /\ UNCHANGED <<phase, held, rows, index, fs, events, watcher, chan>>
  BY DEF LiveInv, IndexStat, walkerRest
<1>2. h \in Step /\ h.path \in Path /\ Range(walk) = {h} \cup Range(Tail(walk))
  BY <1>1, WalkHead, StepIs
<1>3. tree[h.path] \in Kind \cup {"none"}
  BY <1>1, <1>2 DEF FsOK
<1>4. /\ f \in Seq(Step) /\ UseFirst(f)
      /\ Range(f) \subseteq {Use(h.path, tree[h.path]), List(h.path)}
      /\ tree[h.path] # "none" => Use(h.path, tree[h.path]) \in Range(f)
      /\ tree[h.path] = "none" => \A x \in Range(f) : x.do # "use"
  BY <1>1, <1>2, <1>3, FoundIs
<1>5. /\ Use(h.path, tree[h.path]).do = "use" /\ Use(h.path, tree[h.path]).kind = tree[h.path]
      /\ List(h.path).do = "list"
  BY <1>2, <1>3, StepsMade DEF Node
<1>. HIDE DEF h, f
<1>6. \A s \in Range(f) : WalkRight(s)
  BY <1>1, <1>4, <1>5 DEF WalkRight
<1>7. WalkerOK' /\ Range(walk') = Range(f) \cup Range(Tail(walk))
  BY <1>1, <1>4, <1>6, WalkReplaced
<1>8. LiveInv'
  BY <1>1, <1>7
  DEF LiveInv, FsOK, EventsOK, ChanOK, IndexOK, WatcherOK, TodoRight, watcher, fs
<1>. QED
  BY <1>1, <1>2, <1>4, <1>7, <1>8 DEF h, f

LEMMA IndexListIs ==
  ASSUME LiveInv, IndexList
  PROVE  LET h == Head(walk)
             f == Visited(h.path) IN
         /\ LiveInv'
         /\ h.do = "list" /\ h \in Step
         /\ Range(walk) = {h} \cup Range(Tail(walk))
         /\ Range(walk') = Range(f) \cup Range(Tail(walk))
         /\ UNCHANGED <<phase, held, rows, index, fs, events, watcher, chan>>
<1>. DEFINE h == Head(walk)
            f == Visited(h.path)
<1>1. /\ WalkerOK /\ held /\ walk # <<>> /\ h.do = "list"
      /\ walk' = f \o Tail(walk)
      /\ UNCHANGED <<phase, held, rows, index, fs, events, watcher, chan>>
  BY DEF LiveInv, IndexList, walkerRest
<1>2. h \in Step /\ Range(walk) = {h} \cup Range(Tail(walk))
  BY <1>1, WalkHead
<1>3. f \in Seq(Step) /\ \A s \in Range(f) : s.do = "stat"
  BY VisitedIs
<1>. HIDE DEF f, h
<1>4. UseFirst(f) /\ \A s \in Range(f) : WalkRight(s)
  <2>1. \A s \in Range(f) : s.do # "use" /\ s.do # "watch"
    BY <1>3
  <2>. QED
    BY <1>3, <2>1, NoUseIsFirst DEF WalkRight
<1>5. WalkerOK' /\ Range(walk') = Range(f) \cup Range(Tail(walk))
  BY <1>1, <1>3, <1>4, WalkReplaced
<1>6. LiveInv'
  BY <1>1, <1>5
  DEF LiveInv, FsOK, EventsOK, ChanOK, IndexOK, WatcherOK, TodoRight, watcher, fs
<1>. QED
  BY <1>1, <1>2, <1>5, <1>6 DEF h, f

LEMMA AddRowIs ==
  ASSUME LiveInv, AddRow
  PROVE  LET h == Head(walk) IN
         /\ LiveInv'
         /\ h \in Step /\ h.do = "use" /\ h.path \in Path /\ h.kind \in Kind
         /\ index' = [index EXCEPT ![h.path] = [kind |-> h.kind, volume |-> Root]]
         /\ Range(walk) = {h} \cup Range(Tail(walk)) /\ walk' = Tail(walk)
         /\ \A s \in Range(walk') : s.do # "use"
         /\ phase' = phase
         /\ UNCHANGED <<fs, events, watcher, chan>>
<1>. DEFINE h == Head(walk)
<1>1. /\ WalkerOK /\ IndexOK /\ held /\ walk # <<>> /\ h.do = "use"
      /\ index' = [index EXCEPT ![h.path] = [kind |-> h.kind, volume |-> Root]]
      /\ rows' = rows + 1 /\ held' = (rows' < RowsPerTx)
      /\ walk' = Tail(walk)
      /\ UNCHANGED <<phase, fs, events, watcher, chan>>
  BY DEF LiveInv, AddRow, walkerRest, Upsert
<1>2. /\ h \in Step /\ Tail(walk) \in Seq(Step) /\ Range(walk) = {h} \cup Range(Tail(walk))
      /\ \A s \in Range(Tail(walk)) : s.do # "use" /\ s.do # "watch"
      /\ WalkRight(h)
  BY <1>1, WalkHead
<1>3. h.path \in Path /\ h.kind \in Kind
  <2>1. h.path \in Path /\ h.kind \in Kind \cup {"none"} /\ h.kind # "none"
    BY <1>1, <1>2, StepIs DEF WalkRight
  <2>. QED
    BY <2>1
<1>. HIDE DEF h
<1>4. WalkerOK'
  <2>1. rows' \in 0 .. RowsPerTx /\ held' \in BOOLEAN
    BY <1>1, BoundAssumption DEF WalkerOK
  <2>2. UseFirst(walk')
    BY <1>1, <1>2, NoUseIsFirst
  <2>3. \A s \in Range(walk') : WalkRight(s)'
    BY <1>1, <1>2 DEF WalkRight
  <2>. QED
    BY <1>1, <1>2, <2>1, <2>2, <2>3 DEF WalkerOK
<1>5. IndexOK'
  <2>1. [kind |-> h.kind, volume |-> Root] \in Row
    BY <1>3 DEF Row, Node
  <2>. QED
    BY <1>1, <2>1 DEF IndexOK
<1>6. LiveInv'
  BY <1>1, <1>4, <1>5 DEF LiveInv, FsOK, EventsOK, ChanOK, WatcherOK, TodoRight, watcher, fs
<1>. QED
  BY <1>1, <1>2, <1>3, <1>6 DEF h

LEMMA EndWalkKeeps ==
  ASSUME LiveInv, EndWalk
  PROVE  LiveInv'
<1>1. /\ WalkerOK /\ walk = <<>> /\ held' = FALSE /\ phase' = "done"
      /\ UNCHANGED <<walk, rows, index, fs, events, watcher, chan>>
  BY DEF LiveInv, EndWalk, walkerRest
<1>2. Range(walk') = {}
  BY <1>1, NothingIn
<1>3. WalkerOK'
  BY <1>1, <1>2 DEF WalkerOK
<1>. QED
  BY <1>1, <1>3
  DEF LiveInv, FsOK, EventsOK, ChanOK, IndexOK, WatcherOK, TodoRight, watcher, fs

LEMMA ApplyChangeIs ==
  ASSUME LiveInv, ApplyChange
  PROVE  LET c == Head(chan) IN
         /\ LiveInv'
         /\ chan \in Seq(Change) /\ chan # <<>> /\ c \in Change /\ chan' = Tail(chan)
         /\ c.row = NoRow =>
              index' = [q \in Path |->
                          IF q = c.path THEN NoRow
                          ELSE IF Len(q) > Len(c.path)
                                  /\ Fold[SubSeq(q, 1, Len(c.path))] = Fold[c.path]
                          THEN NoRow ELSE index[q]]
         /\ c.row # NoRow => index' = [index EXCEPT ![c.path] = c.row]
         /\ ~held /\ mode # "seed"
         /\ UNCHANGED <<fs, events, watcher, walker>>
<1>. DEFINE c == Head(chan)
<1>1. /\ ChanOK /\ IndexOK /\ chan # <<>> /\ chan' = Tail(chan) /\ ~held /\ mode # "seed"
      /\ c.row = NoRow => DeleteSubtree(c.path)
      /\ c.row # NoRow => Upsert(c.path, c.row)
      /\ UNCHANGED <<fs, events, watcher, walker>>
  BY DEF LiveInv, ApplyChange
<1>2. /\ chan \in Seq(Change) /\ c \in Change /\ Tail(chan) \in Seq(Change)
      /\ Len(Tail(chan)) = Len(chan) - 1 /\ Len(chan) \in Nat
  BY <1>1, HeadAndTail, LenProperties DEF ChanOK
<1>3. ChanOK'
  BY <1>1, <1>2, BoundAssumption DEF ChanOK
<1>4. c.path \in Path /\ c.row \in Row \cup {NoRow}
  BY <1>2 DEF Change
<1>5. IndexOK'
  <2>1. CASE c.row = NoRow
    BY <1>1, <2>1 DEF IndexOK, DeleteSubtree
  <2>2. CASE c.row # NoRow
    BY <1>1, <1>4, <2>2 DEF IndexOK, Upsert
  <2>. QED
    BY <2>1, <2>2
<1>6. LiveInv'
  BY <1>1, <1>3, <1>5
  DEF LiveInv, FsOK, EventsOK, WatcherOK, TodoRight, WalkerOK, WalkRight, watcher, walker, fs
<1>. QED
  BY <1>1, <1>2, <1>6 DEF c, DeleteSubtree, Upsert

LEMMA InitLive ==
  ASSUME Init
  PROVE  LiveInv
<1>1. Watch(Root) \in Step /\ Watch(Root).do = "watch"
  BY StepsMade DEF Node
<1>2. todo \in Seq(Step) /\ Range(todo) = {Watch(Root)}
  BY <1>1, OneIn DEF Init
<1>3. Range(walk) = {}
  BY NothingIn DEF Init
<1>4. WatcherOK
  BY <1>1, <1>2 DEF Init, WatcherOK, TodoRight, Node
<1>5. WalkerOK
  <2>1. UseFirst(walk)
    BY DEF Init, UseFirst
  <2>. QED
    <3>1. walk \in Seq(Step) /\ walk = <<>> /\ phase = "waiting" /\ held = FALSE /\ rows = 0
      BY DEF Init
    <3>2. 0 \in 0 .. RowsPerTx
      BY BoundAssumption
    <3>. QED
      BY <1>3, <2>1, <3>1, <3>2 DEF WalkerOK
<1>6. FsOK
  <2>1. Unwatched # Root
    BY NothingAssumption DEF Node
  <2>. QED
    BY <2>1, BoundAssumption DEF Init, FsOK, Node
<1>7. EventsOK /\ ChanOK
  BY BoundAssumption DEF Init, EventsOK, ChanOK
<1>8. IndexOK
  <2>1. [kind : Kind, volume : {Root}] \subseteq Row
    BY DEF Row, Node
  <2>. QED
    BY <2>1 DEF Init, IndexOK
<1>. QED
  BY <1>4, <1>5, <1>6, <1>7, <1>8 DEF LiveInv

LEMMA NextKeeps ==
  ASSUME LiveInv, [Next]_vars
  PROVE  LiveInv'
<1>1. CASE User
  BY <1>1, UserKeeps
<1>2. CASE Watcher
  BY <1>2, WatcherKeeps
<1>3. CASE IndexRoot
  BY <1>3, StartWalkKeeps, BeginTxKeeps, IndexStatIs, IndexListIs, AddRowIs, EndWalkKeeps
  DEF IndexRoot
<1>4. CASE ApplyChange
  BY <1>4, ApplyChangeIs
<1>5. CASE UNCHANGED vars
  BY <1>5 DEF LiveInv, FsOK, EventsOK, ChanOK, IndexOK, WatcherOK, TodoRight, WalkerOK, WalkRight,
              vars, watcher, walker, fs
<1>. QED
  BY <1>1, <1>2, <1>3, <1>4, <1>5 DEF Next

THEOREM InvariantHolds == Spec => []LiveInv
<1>. QED
  BY InitLive, NextKeeps, PTL DEF Spec

\* Every reachable state is well typed: in particular no queue exceeds its
\* capacity, and a transaction has at most RowsPerTx rows.
THEOREM TypeCorrect == Spec => []TypeOK
<1>. QED
  BY InvariantHolds, InvariantIsTyped, PTL

-----------------------------------------------------------------------------
(* The entries of the root.                                                 *)

\* What an event lets the watcher find, and what a row says.
Tells(e, k) == (e.op = "gone" <=> k = "none") /\ (e.op = "write" => k = "file")
Says(k, r)  == IF k = "none" THEN r = NoRow ELSE r # NoRow /\ r.kind = k

ToStat(p) == \/ mode = "add" /\ base = p
             \/ mode = "walk" /\ \E s \in Range(todo) : s.do = "stat" /\ s.path = p
ToUse(p)  == mode = "walk" /\ \E s \in Range(todo) : s.do = "use" /\ s.path = p
UsedRight(p) == \A s \in Range(todo) : s.do = "use" /\ s.path = p => s.kind = tree[p]

\* The walk of the root has still to come to p.
WalkWill(p) ==
  \/ phase = "waiting"
  \/ \E s \in Range(walk) : \/ s.do = "list" /\ s.path = Root
                            \/ s.do \in {"stat", "use"} /\ s.path = p
WalkUsesRight(p) == \A s \in Range(walk) : s.do = "use" /\ s.path = p => s.kind = tree[p]

\* Whoever heard of p last knows what p is: the queue of notifications, the
\* watcher before and after it looked, the channel, and then the index.
Indexed(p) ==
  /\ WalkUsesRight(p)
  /\ \/ Says(tree[p], index[p])
     \/ tree[p] # "none" /\ WalkWill(p)
     \/ OldRows /\ tree[p] = "none"
Changed(p) == IF About(chan, p) THEN \A c \in LastOf(chan, p) : Says(tree[p], c.row)
              ELSE Indexed(p)
Used(p)    == IF ToUse(p) THEN UsedRight(p) ELSE Changed(p)
Statted(p) == IF ToStat(p) THEN tree[p] = "dir" /\ UsedRight(p) ELSE Used(p)
Heard(p)   == IF About(events, p) THEN \A e \in LastOf(events, p) : Tells(e, tree[p])
              ELSE Statted(p)

\* Before the root is watched nothing is reported, and nothing has been done.
Blind ==
  /\ \A d \in Node : kwatch[d] = Unwatched
  /\ mode = "seed" /\ todo = <<Watch(Root)>> /\ watched = {}
  /\ events = <<>> /\ chan = <<>> /\ phase = "waiting"
  /\ OldRows \/ \A p \in Path : index[p] = NoRow

Seeing == IF kwatch[Root] = Root THEN \A p \in Path : Top(p) => Heard(p) ELSE Blind

LEMMA HeardStill ==
  ASSUME NEW p, Heard(p), tree'[p] = tree[p], UNCHANGED <<watcher, chan, index, walker>>,
         About(events', p) <=> About(events, p), LastOf(events', p) \subseteq LastOf(events, p)
  PROVE  Heard(p)'
<1>1. (ToStat(p)' <=> ToStat(p)) /\ (ToUse(p)' <=> ToUse(p)) /\ (UsedRight(p)' <=> UsedRight(p))
  BY DEF ToStat, ToUse, UsedRight, watcher
<1>2. Indexed(p)' <=> Indexed(p)
  BY DEF Indexed, WalkUsesRight, WalkWill, walker
<1>3. Changed(p)' <=> Changed(p)
  BY <1>2 DEF Changed
<1>4. Statted(p)' <=> Statted(p)
  BY <1>1, <1>3 DEF Statted, Used
<1>. QED
  BY <1>4 DEF Heard

\* What an event adds to what the queue says of the entries of the root.
LEMMA ReportHeard ==
  ASSUME FsOK, kwatch[Root] = Root, NEW s \in Seq(Event),
         NEW op \in {"create", "write", "gone"}, NEW x \in Path
  PROVE  LET t == s \o Report(op, x) IN
         /\ t \in Seq(Event)
         /\ Top(x) => About(t, x) /\ \A e \in LastOf(t, x) : e.op = op
         /\ \A p \in Path : Top(p) /\ p # x =>
              (About(t, p) <=> About(s, p)) /\ LastOf(t, p) \subseteq LastOf(s, p)
<1>. DEFINE t == s \o Report(op, x)
<1>1. t \in Seq(Event)
  BY ReportTyped, Joined
<1>2. ASSUME Report(op, x) = <<>>, ~Top(x)
      PROVE  /\ Top(x) => About(t, x) /\ \A y \in LastOf(t, x) : y.op = op
             /\ \A p \in Path : Top(p) /\ p # x =>
                  (About(t, p) <=> About(s, p)) /\ LastOf(t, p) \subseteq LastOf(s, p)
  <2>1. t = s
    BY <1>2, ConcatEmptySeq
  <2>. HIDE DEF t
  <2>. QED
    BY <1>2, <2>1
<1>3. ASSUME NEW e \in Event, Report(op, x) = <<e>>, e.op = op,
             Top(x) => e.path = x, ~Top(x) => ~Top(e.path)
      PROVE  /\ Top(x) => About(t, x) /\ \A y \in LastOf(t, x) : y.op = op
             /\ \A p \in Path : Top(p) /\ p # x =>
                  (About(t, p) <=> About(s, p)) /\ LastOf(t, p) \subseteq LastOf(s, p)
  <2>1. t = Append(s, e)
    BY <1>3, AppendIsConcat
  <2>. HIDE DEF t
  <2>2. \A p : /\ About(t, p) <=> (About(s, p) \/ e.path = p)
               /\ e.path = p => \A y \in LastOf(t, p) : y = e
               /\ e.path # p => LastOf(t, p) \subseteq LastOf(s, p)
    BY <2>1, AboutAppended
  <2>3. \A p \in Path : Top(p) /\ p # x => e.path # p
    BY <1>3
  <2>. QED
    BY <1>3, <2>2, <2>3
<1>4. \/ Report(op, x) = <<>> /\ ~Top(x)
      \/ \E e \in Event : /\ Report(op, x) = <<e>> /\ e.op = op
                          /\ Top(x) => e.path = x
                          /\ ~Top(x) => ~Top(e.path)
  BY ReportIs
<1>. HIDE DEF t
<1>5. /\ Top(x) => About(t, x) /\ \A y \in LastOf(t, x) : y.op = op
      /\ \A p \in Path : Top(p) /\ p # x =>
           (About(t, p) <=> About(s, p)) /\ LastOf(t, p) \subseteq LastOf(s, p)
  <2>1. CASE Report(op, x) = <<>> /\ ~Top(x)
    BY <1>2, <2>1
  <2>2. CASE \E e \in Event : /\ Report(op, x) = <<e>> /\ e.op = op
                              /\ Top(x) => e.path = x
                              /\ ~Top(x) => ~Top(e.path)
    BY <1>3, <2>2
  <2>. QED
    BY <1>4, <2>1, <2>2
<1>. QED
  BY <1>1, <1>5 DEF t

LEMMA NotifyIs ==
  ASSUME ~Overflow, NEW s, Notify(s)
  PROVE  events' = events \o s /\ UNCHANGED <<watcher, chan, index, walker>>
<1>. QED
  BY DEF Notify

\* With nothing watched, nothing is reported.
LEMMA BlindReport ==
  ASSUME Blind, NEW op, NEW p \in Path
  PROVE  Report(op, p) = <<>>
<1>1. Front(p) \in Node
  BY PathIs
<1>2. kwatch[Front(p)] = Unwatched
  BY <1>1 DEF Blind
<1>. QED
  BY <1>2 DEF Report

LEMMA StaysBlind ==
  ASSUME Blind, ~Overflow, Notify(<<>>), \A d \in Node : kwatch'[d] = Unwatched
  PROVE  Seeing'
<1>1. events' = events \o <<>> /\ UNCHANGED <<watcher, chan, index, walker>>
  BY NotifyIs
<1>2. events' = <<>>
  BY <1>1 DEF Blind
<1>3. Blind'
  BY <1>1, <1>2 DEF Blind, watcher, walker
<1>4. kwatch'[Root] # Root
  BY NothingAssumption DEF Node
<1>. QED
  BY <1>3, <1>4 DEF Seeing

LEMMA UserBlind ==
  ASSUME LiveInv, Blind, ~Overflow, User
  PROVE  Seeing'
<1>1. FsOK /\ \A d \in Node : kwatch[d] = Unwatched
  BY DEF LiveInv, Blind
<1>2. ASSUME NEW p \in Path, NEW k \in Kind, Create(p, k) PROVE Seeing'
  <2>1. Notify(<<>>) /\ kwatch' = kwatch
    BY <1>2, BlindReport DEF Create
  <2>. QED
    BY <1>1, <2>1, StaysBlind
<1>3. ASSUME NEW p \in Path, Modify(p) PROVE Seeing'
  <2>1. Notify(<<>>) /\ kwatch' = kwatch
    BY <1>3, BlindReport DEF Modify
  <2>. QED
    BY <1>1, <2>1, StaysBlind
<1>4. ASSUME NEW p \in Path, Delete(p) PROVE Seeing'
  <2>1. Notify(<<>>) /\ kwatch' = [kwatch EXCEPT ![p] = Unwatched]
    BY <1>4, BlindReport DEF Delete
  <2>2. \A d \in Node : kwatch'[d] = Unwatched
    BY <1>1, <2>1 DEF FsOK
  <2>. QED
    BY <2>1, <2>2, StaysBlind
<1>5. ASSUME NEW p \in Path, NEW q \in Path, Rename(p, q) PROVE Seeing'
  <2>1. Report("gone", p) = <<>> /\ Report("create", q) = <<>>
    BY BlindReport
  <2>2. Notify(<<>> \o <<>>)
    BY <1>5, <2>1 DEF Rename
  <2>3. Notify(<<>>)
    BY <2>2
  <2>4. \A d \in Node : kwatch'[d] = Unwatched
    BY <1>1, <1>5, RenameTyped
  <2>. QED
    BY <2>3, <2>4, StaysBlind
<1>. QED
  BY <1>2, <1>3, <1>4, <1>5 DEF User

\* A change of one entry x of the tree, reported as op.
LEMMA OneReported ==
  ASSUME LiveInv, ~Overflow, kwatch[Root] = Root, \A p \in Path : Top(p) => Heard(p),
         NEW x \in Path, NEW op \in {"create", "write", "gone"}, Notify(Report(op, x)),
         kwatch'[Root] = kwatch[Root],
         \A p \in Path : p # x => tree'[p] = tree[p],
         \A e : e.op = op => Tells(e, tree'[x])
  PROVE  Seeing'
<1>1. FsOK /\ events \in Seq(Event)
  BY DEF LiveInv, EventsOK
<1>2. events' = events \o Report(op, x) /\ UNCHANGED <<watcher, chan, index, walker>>
  BY NotifyIs
<1>3. /\ Top(x) => About(events', x) /\ \A e \in LastOf(events', x) : e.op = op
      /\ \A p \in Path : Top(p) /\ p # x =>
           (About(events', p) <=> About(events, p)) /\ LastOf(events', p) \subseteq LastOf(events, p)
  BY <1>1, <1>2, ReportHeard
<1>4. ASSUME NEW p \in Path, Top(p) PROVE Heard(p)'
  <2>1. CASE p = x
    <3>1. About(events', p) /\ \A e \in LastOf(events', p) : Tells(e, tree'[p])
      BY <1>3, <1>4, <2>1
    <3>. QED
      BY <3>1 DEF Heard
  <2>2. CASE p # x
    BY <1>2, <1>3, <1>4, <2>2, HeardStill
  <2>. QED
    BY <2>1, <2>2
<1>. QED
  BY <1>4 DEF Seeing

LEMMA UserSees ==
  ASSUME LiveInv, ~Overflow, kwatch[Root] = Root, \A p \in Path : Top(p) => Heard(p), User
  PROVE  Seeing'
<1>0. FsOK /\ events \in Seq(Event)
  BY DEF LiveInv, EventsOK
<1>1. \A p \in Path : p # Root
  BY PathIs
<1>2. ASSUME NEW x \in Path, NEW k \in Kind, Create(x, k) PROVE Seeing'
  <2>1. /\ Notify(Report("create", x)) /\ kwatch' = kwatch
        /\ \A p \in Path : p # x => tree'[p] = tree[p]
        /\ tree'[x] = k
    BY <1>0, <1>2 DEF Create, FsOK
  <2>2. \A e : e.op = "create" => Tells(e, tree'[x])
    BY <2>1 DEF Tells, Kind
  <2>. QED
    BY <2>1, <2>2, OneReported
<1>3. ASSUME NEW x \in Path, Modify(x) PROVE Seeing'
  <2>1. /\ Notify(Report("write", x)) /\ kwatch' = kwatch /\ tree' = tree
        /\ tree'[x] = "file"
    BY <1>3 DEF Modify
  <2>2. \A e : e.op = "write" => Tells(e, tree'[x])
    BY <2>1 DEF Tells
  <2>. QED
    BY <2>1, <2>2, OneReported
<1>4. ASSUME NEW x \in Path, Delete(x) PROVE Seeing'
  <2>1. /\ Notify(Report("gone", x)) /\ kwatch'[Root] = kwatch[Root]
        /\ \A p \in Path : p # x => tree'[p] = tree[p]
        /\ tree'[x] = "none"
    <3>1. kwatch' = [kwatch EXCEPT ![x] = Unwatched] /\ x # Root /\ Root \in Node
      BY <1>1, <1>4 DEF Delete, Node
    <3>2. kwatch'[Root] = kwatch[Root]
      BY <1>0, <3>1 DEF FsOK
    <3>. QED
      BY <1>0, <1>4, <3>2 DEF Delete, FsOK
  <2>2. \A e : e.op = "gone" => Tells(e, tree'[x])
    BY <2>1 DEF Tells
  <2>. QED
    BY <2>1, <2>2, OneReported
<1>5. ASSUME NEW x \in Path, NEW y \in Path, Rename(x, y) PROVE Seeing'
  <2>. DEFINE r == Report("gone", x)
              s == Report("create", y)
              a == events \o r
  <2>1. r \in Seq(Event) /\ s \in Seq(Event)
    BY <1>0, ReportTyped
  <2>2. /\ tree[x] # "none" /\ tree'[y] = tree[x] /\ (Top(x) => tree'[x] = "none")
        /\ x # y /\ kwatch'[Root] = kwatch[Root]
        /\ \A p \in Path : Top(p) /\ p # x /\ p # y => tree'[p] = tree[p]
    BY <1>0, <1>5, RenameTyped
  <2>3. Notify(r \o s)
    BY <1>5 DEF Rename
  <2>4. events' = events \o (r \o s) /\ UNCHANGED <<watcher, chan, index, walker>>
    BY <2>3, NotifyIs
  <2>5. a \in Seq(Event)
    BY <1>0, <2>1, Joined
  <2>6. events' = a \o s
    <3>. HIDE DEF r, s
    <3>1. (events \o r) \o s = events \o (r \o s)
      BY <1>0, <2>1, ConcatAssociative
    <3>. QED
      BY <2>4, <3>1
  <2>7. /\ Top(x) => About(a, x) /\ \A e \in LastOf(a, x) : e.op = "gone"
        /\ \A p \in Path : Top(p) /\ p # x =>
             (About(a, p) <=> About(events, p)) /\ LastOf(a, p) \subseteq LastOf(events, p)
    BY <1>0, ReportHeard
  <2>. HIDE DEF a
  <2>8. /\ Top(y) => About(events', y) /\ \A e \in LastOf(events', y) : e.op = "create"
        /\ \A p \in Path : Top(p) /\ p # y =>
             (About(events', p) <=> About(a, p)) /\ LastOf(events', p) \subseteq LastOf(a, p)
    BY <1>0, <2>5, <2>6, ReportHeard
  <2>9. ASSUME NEW p \in Path, Top(p) PROVE Heard(p)'
    <3>1. CASE p = y
      <4>1. About(events', p) /\ \A e \in LastOf(events', p) : Tells(e, tree'[p])
        BY <2>2, <2>8, <2>9, <3>1 DEF Tells
      <4>. QED
        BY <4>1 DEF Heard
    <3>2. CASE p = x
      <4>1. About(events', p) /\ \A e \in LastOf(events', p) : Tells(e, tree'[p])
        BY <2>2, <2>7, <2>8, <2>9, <3>2 DEF Tells
      <4>. QED
        BY <4>1 DEF Heard
    <3>3. CASE p # x /\ p # y
      <4>1. tree'[p] = tree[p] /\ (About(events', p) <=> About(events, p))
        BY <2>2, <2>7, <2>8, <2>9, <3>3
      <4>2. LastOf(events', p) \subseteq LastOf(events, p)
        BY <2>7, <2>8, <2>9, <3>3
      <4>3. Heard(p)
        BY <2>9
      <4>. QED
        BY <2>4, <4>1, <4>2, <4>3, HeardStill
    <3>. QED
      BY <3>1, <3>2, <3>3
  <2>. QED
    BY <2>2, <2>9 DEF Seeing
<1>. QED
  BY <1>2, <1>3, <1>4, <1>5 DEF User

-----------------------------------------------------------------------------
(* The watcher.                                                             *)

\* While the watcher does not walk, it has nothing to use.
LEMMA OffWalk ==
  ASSUME WatcherOK', mode \in {"seed", "idle", "add"}, mode' = mode, base' = base,
         NEW p, Heard(p), UNCHANGED <<tree, events, chan, index, walker>>
  PROVE  Heard(p)'
<1>1. UsedRight(p)'
  <2>1. \A s \in Range(todo') : s.do # "use"
    BY DEF WatcherOK, TodoRight
  <2>. QED
    BY <2>1 DEF UsedRight
<1>2. (ToStat(p)' <=> ToStat(p)) /\ ~ToUse(p) /\ ~ToUse(p)'
  BY DEF ToStat, ToUse
<1>3. Changed(p)' <=> Changed(p)
  BY DEF Changed, Indexed, WalkUsesRight, WalkWill, walker
<1>4. Statted(p) => Statted(p)'
  BY <1>1, <1>2, <1>3 DEF Statted, Used
<1>. QED
  BY <1>4 DEF Heard

LEMMA AddWatchSees ==
  ASSUME LiveInv, Seeing, AddWatch
  PROVE  Seeing'
<1>. DEFINE h == Head(todo)
<1>1. /\ WatcherOK /\ FsOK /\ mode \in {"seed", "add"} /\ todo # <<>>
      /\ UNCHANGED <<tree, ops, events, mode, base, chan, index, walker>>
      /\ IF h.path \notin watched /\ There(h.path) # "none"
         THEN /\ watched' = watched \cup {h.path}
              /\ kwatch' = IF IsDir(h.path) THEN [kwatch EXCEPT ![h.path] = h.path] ELSE kwatch
         ELSE UNCHANGED <<watched, kwatch>>
  BY DEF LiveInv, AddWatch, At
<1>2. WatcherOK'
  BY AddWatchKeeps DEF LiveInv
<1>3. Root \in Node /\ There(Root) = "dir" /\ IsDir(Root)
  BY DEF Node, There, IsDir
<1>4. CASE kwatch[Root] = Root
  <2>1. kwatch'[Root] = Root
    BY <1>1, <1>3, <1>4 DEF FsOK
  <2>2. ASSUME NEW p \in Path, Top(p) PROVE Heard(p)'
    <3>1. Heard(p)
      BY <1>4, <2>2 DEF Seeing
    <3>. QED
      BY <1>1, <1>2, <3>1, OffWalk
  <2>. QED
    BY <2>1, <2>2 DEF Seeing
<1>5. CASE kwatch[Root] # Root
  <2>1. Blind
    BY <1>5 DEF Seeing
  <2>2. Watch(Root).path = Root
    BY <1>3, StepsMade
  <2>3. h.path = Root /\ Root \notin watched
    <3>1. h = Watch(Root)
      BY <2>1 DEF Blind
    <3>. QED
      BY <2>1, <2>2, <3>1 DEF Blind
  <2>. HIDE DEF h
  <2>4. kwatch'[Root] = Root
    BY <1>1, <1>3, <2>3 DEF FsOK
  <2>5. /\ events' = <<>> /\ chan' = <<>> /\ mode' = "seed" /\ phase' = "waiting" /\ walk' = <<>>
        /\ index' = index /\ tree' = tree
    BY <1>1, <2>1 DEF Blind, LiveInv, WalkerOK, walker
  <2>6. ASSUME NEW p \in Path, Top(p) PROVE Heard(p)'
    <3>1. ~About(events', p) /\ ~About(chan', p) /\ Range(walk') = {}
      BY <2>5, AboutNothing, NothingIn
    <3>2. ~ToStat(p)' /\ ~ToUse(p)' /\ WalkUsesRight(p)' /\ WalkWill(p)'
      BY <2>5, <3>1 DEF ToStat, ToUse, WalkUsesRight, WalkWill
    <3>3. Indexed(p)'
      <4>1. OldRows \/ index[p] = NoRow
        BY <2>1 DEF Blind
      <4>. QED
        BY <2>5, <3>2, <4>1 DEF Indexed, Says
    <3>. QED
      BY <3>1, <3>2, <3>3 DEF Heard, Statted, Used, Changed
  <2>. QED
    BY <2>4, <2>6 DEF Seeing
<1>. QED
  BY <1>4, <1>5

\* The other steps of the watcher wait until the root is watched.
LEMMA NotBlind ==
  ASSUME LiveInv, Seeing,
         \/ mode # "seed"
         \/ todo = <<>>
         \/ Head(todo).do # "watch"
         \/ chan # <<>>
  PROVE  kwatch[Root] = Root /\ \A p \in Path : Top(p) => Heard(p)
<1>1. Watch(Root).do = "watch"
  BY StepsMade DEF Node
<1>2. ~Blind
  BY <1>1 DEF Blind
<1>. QED
  BY <1>2 DEF Seeing

LEMMA AddListSees ==
  ASSUME LiveInv, Seeing, AddList
  PROVE  Seeing'
<1>1. /\ mode \in {"seed", "add"} /\ Head(todo).do = "list"
      /\ UNCHANGED <<fs, events, watched, mode, base, chan, index, walker>>
  BY DEF AddList, At
<1>2. kwatch[Root] = Root /\ \A p \in Path : Top(p) => Heard(p)
  BY <1>1, NotBlind
<1>3. WatcherOK'
  BY AddListKeeps DEF LiveInv
<1>4. ASSUME NEW p \in Path, Top(p) PROVE Heard(p)'
  BY <1>1, <1>2, <1>3, <1>4, OffWalk DEF fs
<1>. QED
  BY <1>1, <1>2, <1>4 DEF Seeing, fs

\* What the watcher starts to do about another entry does not concern p.
LEMMA ElseWhere ==
  ASSUME NEW p, ~ToStat(p), ~ToUse(p), ~ToStat(p)', ~ToUse(p)',
         UNCHANGED <<tree, chan, index, walker>>
  PROVE  Statted(p)' <=> Statted(p)
<1>1. Changed(p)' <=> Changed(p)
  BY DEF Changed, Indexed, WalkUsesRight, WalkWill, walker
<1>. QED
  BY <1>1 DEF Statted, Used

LEMMA AddDoneSees ==
  ASSUME LiveInv, Seeing, AddDone
  PROVE  Seeing'
<1>1. /\ WatcherOK /\ mode \in {"seed", "add"} /\ todo = <<>>
      /\ UNCHANGED <<fs, events, watched, base, chan, index, walker>>
  BY DEF LiveInv, AddDone
<1>2. kwatch[Root] = Root /\ \A p \in Path : Top(p) => Heard(p)
  BY <1>1, NotBlind
<1>3. SUFFICES ASSUME NEW p \in Path, Top(p) PROVE Statted(p) => Statted(p)'
  <2>1. \A p \in Path : Top(p) => Heard(p)'
    BY <1>1, <1>2, <1>3 DEF Heard, fs
  <2>. QED
    BY <1>1, <1>2, <2>1 DEF Seeing, fs
<1>4. CASE mode = "seed"
  <2>1. ~ToStat(p) /\ ~ToUse(p) /\ ~ToStat(p)' /\ ~ToUse(p)'
    BY <1>1, <1>4 DEF AddDone, ToStat, ToUse
  <2>. QED
    BY <1>1, <2>1, ElseWhere DEF fs
<1>5. CASE mode = "add"
  <2>. DEFINE x == Stat(base, FALSE)
  <2>1. base \in Path
    BY <1>1, <1>5 DEF WatcherOK
  <2>2. x \in Step /\ x.do = "stat" /\ x.path = base
    BY <2>1, StepsMade
  <2>3. mode' = "walk" /\ todo' = <<x>>
    BY <1>1, <1>5 DEF AddDone
  <2>4. \A s : s \in Range(todo') <=> s = x
    <3>1. Range(<<x>>) = {x}
      BY <2>2, OneIn
    <3>. HIDE DEF x
    <3>. QED
      BY <2>3, <3>1
  <2>5. PICK y : y = x
    OBVIOUS
  <2>6. /\ y.do = "stat" /\ y.path = base /\ \A s : s \in Range(todo') <=> s = y
    BY <2>2, <2>4, <2>5
  <2>. HIDE DEF x
  <2>7. CASE base = p
    <3>1. ToStat(p)' /\ UsedRight(p)' /\ ToStat(p)
      BY <1>5, <2>3, <2>6, <2>7 DEF ToStat, UsedRight
    <3>. QED
      BY <1>1, <3>1 DEF Statted, fs
  <2>8. CASE base # p
    <3>1. ~ToStat(p) /\ ~ToUse(p) /\ ~ToStat(p)' /\ ~ToUse(p)'
      BY <1>5, <2>3, <2>6, <2>8 DEF ToStat, ToUse
    <3>. QED
      BY <1>1, <3>1, ElseWhere DEF fs
  <2>. QED
    BY <2>7, <2>8
<1>. QED
  BY <1>1, <1>4, <1>5

\* Handling an event about x: what is done is about x too, and right when that
\* was the last one.
LEMMA HandleIs ==
  ASSUME LiveInv, Handle
  PROVE  LET e == Head(events) IN
         /\ events \in Seq(Event) /\ events # <<>> /\ events' = Tail(events) /\ e \in Event
         /\ mode = "idle" /\ UNCHANGED <<tree, chan, index, walker>>
         /\ kwatch[Root] = Root => kwatch'[Root] = Root
         /\ \/ /\ tree[e.path] = "dir" /\ mode' = "add" /\ base' = e.path
               /\ \A s \in Range(todo') : s.do = "watch"
            \/ \E k \in {"file", "none"} :
                 /\ IF k = "none" THEN e.op = "gone" ELSE tree[e.path] = "file"
                 /\ mode' = "walk" /\ \A s : s \in Range(todo') <=> s = Use(e.path, k)
            \/ ~Tells(e, tree[e.path]) /\ mode' = "idle"
<1>. DEFINE e == Head(events)
<1>1. /\ FsOK /\ events \in Seq(Event) /\ events # <<>> /\ events' = Tail(events)
      /\ mode = "idle" /\ UNCHANGED <<tree, chan, index, walker>>
  BY DEF LiveInv, Handle, EventsOK
<1>2. e \in Event
  BY <1>1, HeadAndTail
<1>3. PICK x \in Path : x = e.path
  BY <1>2 DEF Event
<1>4. /\ Watch(x) \in Step /\ Watch(x).do = "watch"
      /\ Use(x, "file") \in Step /\ Use(x, "none") \in Step
  BY StepsMade DEF Node, Kind
<1>5. Root \in Node /\ x # Root
  BY PathIs DEF Node
<1>6. CASE e.op = "create" /\ tree[x] = "dir"
  <2>1. /\ mode' = "add" /\ base' = x /\ todo' = <<Watch(x)>> /\ kwatch' = kwatch
    BY <1>1, <1>3, <1>6 DEF Handle
  <2>2. Range(todo') = {Watch(x)}
    BY <1>4, <2>1, OneIn
  <2>. HIDE DEF e
  <2>. QED
    BY <1>1, <1>2, <1>3, <1>4, <1>6, <2>1, <2>2 DEF e
<1>7. CASE e.op \in {"create", "write"} /\ tree[x] = "file"
  <2>1. /\ mode' = "walk" /\ todo' = <<Use(x, "file")>> /\ kwatch' = kwatch
    BY <1>1, <1>3, <1>7 DEF Handle
  <2>2. Range(todo') = {Use(x, "file")}
    BY <1>4, <2>1, OneIn
  <2>3. \A s : s \in Range(todo') <=> s = Use(x, "file")
    BY <2>2
  <2>. QED
    BY <1>1, <1>2, <1>3, <1>7, <2>1, <2>3
<1>8. CASE \/ e.op = "create" /\ tree[x] = "none"
           \/ e.op = "write" /\ tree[x] # "file"
  <2>1. mode' = mode /\ kwatch' = kwatch
    BY <1>1, <1>3, <1>8 DEF Handle
  <2>2. ~Tells(e, tree[x])
    BY <1>8 DEF Tells
  <2>. QED
    BY <1>1, <1>2, <1>3, <2>1, <2>2
<1>9. CASE e.op = "gone"
  <2>1. /\ mode' = "walk" /\ todo' = <<Use(x, "none")>> /\ DropWatch(x)
    BY <1>1, <1>3, <1>9 DEF Handle
  <2>2. Range(todo') = {Use(x, "none")}
    BY <1>4, <2>1, OneIn
  <2>3. \A s : s \in Range(todo') <=> s = Use(x, "none")
    BY <2>2
  <2>4. kwatch[Root] = Root => kwatch'[Root] = Root
    BY <1>1, <1>5, <2>1 DEF DropWatch, FsOK
  <2>. QED
    BY <1>1, <1>2, <1>3, <1>9, <2>1, <2>3, <2>4
<1>10. \/ e.op = "create" /\ tree[x] = "dir"
       \/ e.op \in {"create", "write"} /\ tree[x] = "file"
       \/ e.op = "create" /\ tree[x] = "none"
       \/ e.op = "write" /\ tree[x] # "file"
       \/ e.op = "gone"
  BY <1>3 DEF Handle
<1>. QED
  BY <1>6, <1>7, <1>8, <1>9, <1>10

LEMMA HandleSees ==
  ASSUME LiveInv, Seeing, Handle
  PROVE  Seeing'
<1>. DEFINE h == Head(events)
<1>1. /\ events \in Seq(Event) /\ events # <<>> /\ events' = Tail(events) /\ h \in Event
      /\ mode = "idle" /\ UNCHANGED <<tree, chan, index, walker>>
      /\ kwatch[Root] = Root => kwatch'[Root] = Root
      /\ \/ /\ tree[h.path] = "dir" /\ mode' = "add" /\ base' = h.path
            /\ \A s \in Range(todo') : s.do = "watch"
         \/ \E k \in {"file", "none"} :
              /\ IF k = "none" THEN h.op = "gone" ELSE tree[h.path] = "file"
              /\ mode' = "walk" /\ \A s : s \in Range(todo') <=> s = Use(h.path, k)
         \/ ~Tells(h, tree[h.path]) /\ mode' = "idle"
  BY HandleIs
<1>2. kwatch[Root] = Root /\ \A p \in Path : Top(p) => Heard(p)
  BY <1>1, NotBlind
<1>3. kwatch'[Root] = Root
  BY <1>1, <1>2
<1>4. PICK e \in Event : e = h
  BY <1>1
<1>. HIDE DEF h
<1>5. e.path \in Path /\ tree' = tree
  BY <1>1, <1>4 DEF Event
<1>6. \A k \in {"file", "none"} :
        Use(e.path, k).do = "use" /\ Use(e.path, k).path = e.path /\ Use(e.path, k).kind = k
  BY <1>5, StepsMade DEF Kind
<1>7. ASSUME NEW p \in Path, Top(p) PROVE Heard(p)'
  <2>1. /\ About(events, p) <=> (About(events', p) \/ e.path = p)
        /\ About(events', p) => LastOf(events', p) \subseteq LastOf(events, p)
        /\ ~About(events', p) /\ e.path = p => e \in LastOf(events, p)
    BY <1>1, <1>4, AboutTail DEF h
  <2>2. Heard(p) /\ ~ToStat(p) /\ ~ToUse(p)
    BY <1>1, <1>2, <1>7 DEF ToStat, ToUse
  <2>3. CASE About(events', p)
    BY <1>5, <2>1, <2>2, <2>3 DEF Heard
  <2>4. CASE ~About(events', p) /\ e.path = p
    <3>1. Tells(e, tree[p])
      BY <2>1, <2>2, <2>4 DEF Heard
    <3>2. CASE /\ tree[e.path] = "dir" /\ mode' = "add" /\ base' = e.path
               /\ \A s \in Range(todo') : s.do = "watch"
      <4>1. ToStat(p)' /\ UsedRight(p)' /\ tree'[p] = "dir"
        BY <1>5, <2>4, <3>2 DEF ToStat, UsedRight
      <4>. QED
        BY <2>4, <4>1 DEF Heard, Statted
    <3>3. ASSUME NEW k \in {"file", "none"},
                 IF k = "none" THEN e.op = "gone" ELSE tree[e.path] = "file",
                 mode' = "walk", \A s : s \in Range(todo') <=> s = Use(e.path, k)
          PROVE  Heard(p)'
      <4>1. tree'[p] = k
        BY <1>5, <2>4, <3>1, <3>3 DEF Tells
      <4>2. ToUse(p)' /\ ~ToStat(p)' /\ UsedRight(p)'
        BY <1>6, <2>4, <3>3, <4>1 DEF ToUse, ToStat, UsedRight
      <4>. QED
        BY <2>4, <4>2 DEF Heard, Statted, Used
    <3>. QED
      BY <1>1, <1>4, <2>4, <3>1, <3>2, <3>3
  <2>5. CASE ~About(events', p) /\ e.path # p
    <3>1. ~ToStat(p)' /\ ~ToUse(p)'
      BY <1>1, <1>4, <1>6, <2>5 DEF ToStat, ToUse
    <3>2. Statted(p)
      BY <2>1, <2>2, <2>5 DEF Heard
    <3>3. Statted(p)'
      BY <1>1, <2>2, <3>1, <3>2, ElseWhere
    <3>. QED
      BY <2>5, <3>3 DEF Heard
  <2>. QED
    BY <2>3, <2>4, <2>5
<1>. QED
  BY <1>3, <1>7 DEF Seeing

\* A step that has no stat or use of p more or less does not concern p.
LEMMA SameToDo ==
  ASSUME NEW p, mode' = mode, base' = base, tree' = tree,
         \A s : s.path = p /\ s.do \in {"stat", "use"} =>
                  (s \in Range(todo') <=> s \in Range(todo))
  PROVE  /\ ToStat(p)' <=> ToStat(p)
         /\ ToUse(p)' <=> ToUse(p)
         /\ UsedRight(p)' <=> UsedRight(p)
<1>. QED
  BY DEF ToStat, ToUse, UsedRight

LEMMA WalkStatSees ==
  ASSUME LiveInv, Seeing, WalkStat
  PROVE  Seeing'
<1>. DEFINE g == Head(todo)
            f == Found(base, g)
            T == Range(Tail(todo))
<1>1. /\ WatcherOK /\ FsOK /\ mode = "walk" /\ todo # <<>> /\ g.do = "stat"
      /\ UNCHANGED <<fs, events, watched, mode, base, chan, index, walker>>
      /\ todo' = f \o Tail(todo)
  BY DEF LiveInv, WalkStat, At
<1>2. kwatch[Root] = Root /\ kwatch'[Root] = Root /\ \A p \in Path : Top(p) => Heard(p)
  BY <1>1, NotBlind DEF fs
<1>3. g \in Step /\ Tail(todo) \in Seq(Step) /\ Range(todo) = {g} \cup T
  BY <1>1, TodoHead
<1>4. PICK h \in Step : h = g
  BY <1>3
<1>5. h.path \in Path /\ h.do = "stat" /\ tree[h.path] \in Kind \cup {"none"}
  BY <1>1, <1>4, StepIs DEF FsOK
<1>6. /\ f \in Seq(Step)
      /\ Range(f) \subseteq {Use(h.path, tree[h.path]), List(h.path)}
      /\ tree[h.path] # "none" => Use(h.path, tree[h.path]) \in Range(f)
  BY <1>4, <1>5, FoundIs
<1>7. Range(todo') = Range(f) \cup T
  <2>. DEFINE t == Tail(todo)
  <2>1. t \in Seq(Step) /\ f \in Seq(Step) /\ todo' = f \o t
    BY <1>1, <1>3, <1>6
  <2>. HIDE DEF t, f
  <2>2. Range(f \o t) = Range(f) \cup Range(t)
    BY <2>1, Joined
  <2>. QED
    BY <2>1, <2>2 DEF t
<1>8. /\ \A k \in Kind \cup {"none"} :
           /\ Use(h.path, k).do = "use" /\ Use(h.path, k).path = h.path
           /\ Use(h.path, k).kind = k
      /\ List(h.path).do = "list" /\ List(h.path).path = h.path
  BY <1>5, StepsMade DEF Node
<1>. HIDE DEF f, g, T
<1>9. ASSUME NEW p \in Path, Top(p) PROVE Heard(p)'
  <2>1. Heard(p) /\ tree' = tree /\ mode' = mode /\ base' = base
    BY <1>1, <1>2, <1>9 DEF fs
  <2>2. SUFFICES ASSUME Statted(p) PROVE Statted(p)'
    BY <1>1, <2>1, <2>2 DEF Heard
  <2>3. CASE h.path = p
    <3>1. ToStat(p)
      BY <1>1, <1>3, <1>4, <1>5, <2>3 DEF ToStat
    <3>2. tree[p] = "dir" /\ UsedRight(p)
      BY <2>2, <3>1 DEF Statted
    <3>3. UsedRight(p)'
      BY <1>3, <1>5, <1>6, <1>7, <1>8, <2>1, <2>3, <3>2 DEF UsedRight
    <3>4. Use(p, "dir") \in Range(todo') /\ Use(p, "dir").do = "use" /\ Use(p, "dir").path = p
      BY <1>5, <1>6, <1>7, <1>8, <2>3, <3>2 DEF Kind
    <3>5. ToUse(p)'
      BY <1>1, <2>1, <3>4 DEF ToUse
    <3>. QED
      BY <2>1, <3>2, <3>3, <3>5 DEF Statted, Used
  <2>4. CASE h.path # p
    <3>1. \A s : s.path = p => (s \in Range(todo') <=> s \in Range(todo))
      BY <1>3, <1>4, <1>5, <1>6, <1>7, <1>8, <2>4
    <3>2. /\ (ToStat(p)' <=> ToStat(p)) /\ (ToUse(p)' <=> ToUse(p))
          /\ UsedRight(p)' <=> UsedRight(p)
      BY <2>1, <3>1, SameToDo
    <3>3. Changed(p)' <=> Changed(p)
      BY <1>1, <2>1 DEF Changed, Indexed, WalkUsesRight, WalkWill, walker
    <3>. QED
      BY <2>1, <2>2, <3>2, <3>3 DEF Statted, Used
  <2>. QED
    BY <2>3, <2>4
<1>. QED
  BY <1>2, <1>9 DEF Seeing

LEMMA WalkListSees ==
  ASSUME LiveInv, Seeing, WalkList
  PROVE  Seeing'
<1>. DEFINE h == Head(todo)
            f == Visited(h.path)
            T == Range(Tail(todo))
<1>1. /\ WatcherOK /\ mode = "walk" /\ todo # <<>> /\ h.do = "list"
      /\ UNCHANGED <<fs, events, watched, mode, base, chan, index, walker>>
      /\ todo' = f \o Tail(todo)
  BY DEF LiveInv, WalkList, At
<1>2. kwatch[Root] = Root /\ kwatch'[Root] = Root /\ \A p \in Path : Top(p) => Heard(p)
  BY <1>1, NotBlind DEF fs
<1>3. /\ h \in Step /\ Tail(todo) \in Seq(Step) /\ Range(todo) = {h} \cup T
      /\ h.path # Root
  BY <1>1, TodoHead DEF TodoRight
<1>4. /\ f \in Seq(Step)
      /\ \A s \in Range(f) : s.do = "stat" /\ s.path \in Children(h.path)
  BY VisitedIs
<1>5. Range(todo') = Range(f) \cup T
  <2>. DEFINE t == Tail(todo)
  <2>1. t \in Seq(Step) /\ f \in Seq(Step) /\ todo' = f \o t
    BY <1>1, <1>3, <1>4
  <2>. HIDE DEF t, f
  <2>2. Range(f \o t) = Range(f) \cup Range(t)
    BY <2>1, Joined
  <2>. QED
    BY <2>1, <2>2 DEF t
<1>6. \A q \in Children(h.path) : ~Top(q)
  BY <1>3, PathIs DEF Children
<1>. HIDE DEF f, h, T
<1>7. ASSUME NEW p \in Path, Top(p) PROVE Heard(p)'
  <2>1. Heard(p) /\ tree' = tree /\ mode' = mode /\ base' = base
    BY <1>1, <1>2, <1>7 DEF fs
  <2>2. \A s : s.path = p /\ s.do \in {"stat", "use"} =>
                 (s \in Range(todo') <=> s \in Range(todo))
    BY <1>1, <1>3, <1>4, <1>5, <1>6, <1>7
  <2>3. /\ (ToStat(p)' <=> ToStat(p)) /\ (ToUse(p)' <=> ToUse(p))
        /\ UsedRight(p)' <=> UsedRight(p)
    BY <2>1, <2>2, SameToDo
  <2>4. Changed(p)' <=> Changed(p)
    BY <1>1, <2>1 DEF Changed, Indexed, WalkUsesRight, WalkWill, walker
  <2>5. Statted(p)' <=> Statted(p)
    BY <2>1, <2>3, <2>4 DEF Statted, Used
  <2>. QED
    BY <1>1, <2>1, <2>5 DEF Heard
<1>. QED
  BY <1>2, <1>7 DEF Seeing

LEMMA WalkSendSees ==
  ASSUME LiveInv, Seeing, WalkSend
  PROVE  Seeing'
<1>. DEFINE g == Head(todo)
            T == Range(Tail(todo))
<1>1. /\ WatcherOK /\ FsOK /\ chan \in Seq(Change) /\ mode = "walk" /\ todo # <<>>
      /\ g \in Step /\ g.do = "use"
      /\ chan' = Append(chan, Sent(g))
      /\ todo' = Tail(todo)
      /\ UNCHANGED <<fs, events, watched, mode, base, index, walker>>
  BY WalkSendIs DEF LiveInv, ChanOK
<1>2. kwatch[Root] = Root /\ kwatch'[Root] = Root /\ \A p \in Path : Top(p) => Heard(p)
  BY <1>1, NotBlind DEF fs
<1>3. Range(todo) = {g} \cup T /\ Range(todo') = T
  BY <1>1, TodoHead
<1>4. PICK h \in Step : h = g
  BY <1>1
<1>5. PICK c \in Change : /\ c = Sent(g) /\ c.path = h.path
                          /\ h.kind = "none" => c.row = NoRow
                          /\ h.kind # "none" => c.row # NoRow /\ c.row.kind = h.kind
  BY <1>1, <1>4, SentIs
<1>. HIDE DEF g, T
<1>6. ASSUME NEW p \in Path, Top(p) PROVE Heard(p)'
  <2>1. /\ Heard(p) /\ tree' = tree /\ mode' = mode /\ base' = base /\ chan' = Append(chan, c)
        /\ h.do = "use"
    BY <1>1, <1>2, <1>4, <1>5, <1>6 DEF fs
  <2>2. /\ About(chan', p) <=> (About(chan, p) \/ c.path = p)
        /\ c.path = p => \A y \in LastOf(chan', p) : y = c
        /\ c.path # p => LastOf(chan', p) \subseteq LastOf(chan, p)
    <3>1. chan \in Seq(Change) /\ c \in Change
      BY <1>1, <1>5
    <3>2. /\ About(Append(chan, c), p) <=> (About(chan, p) \/ c.path = p)
          /\ c.path = p => \A y \in LastOf(Append(chan, c), p) : y = c
          /\ c.path # p => LastOf(Append(chan, c), p) \subseteq LastOf(chan, p)
      BY <3>1, AboutAppended
    <3>. QED
      BY <2>1, <3>2
  <2>3. SUFFICES ASSUME Statted(p) PROVE Statted(p)'
    BY <1>1, <2>1, <2>3 DEF Heard
  <2>4. CASE h.path = p
    <3>1. (ToStat(p)' <=> ToStat(p)) /\ ToUse(p)
      BY <1>1, <1>3, <1>4, <2>1, <2>4 DEF ToStat, ToUse
    <3>2. UsedRight(p) => UsedRight(p)' /\ h.kind = tree[p]
      BY <1>3, <1>4, <2>1, <2>4 DEF UsedRight
    <3>3. UsedRight(p)
      BY <2>3, <3>1 DEF Statted, Used
    <3>4. Says(tree[p], c.row)
      BY <1>5, <3>2, <3>3 DEF Says
    <3>5. Changed(p)'
      BY <1>5, <2>1, <2>2, <2>4, <3>4 DEF Changed
    <3>. QED
      BY <2>1, <2>3, <3>1, <3>2, <3>3, <3>5 DEF Statted, Used
  <2>5. CASE h.path # p
    <3>1. \A s : s.path = p => (s \in Range(todo') <=> s \in Range(todo))
      BY <1>3, <1>4, <2>5
    <3>2. /\ (ToStat(p)' <=> ToStat(p)) /\ (ToUse(p)' <=> ToUse(p))
          /\ UsedRight(p)' <=> UsedRight(p)
      BY <2>1, <3>1, SameToDo
    <3>3. Indexed(p)' <=> Indexed(p)
      BY <1>1, <2>1 DEF Indexed, WalkUsesRight, WalkWill, walker
    <3>4. Changed(p) => Changed(p)'
      BY <1>5, <2>1, <2>2, <2>5, <3>3 DEF Changed
    <3>. QED
      BY <2>1, <2>3, <3>2, <3>4 DEF Statted, Used
  <2>. QED
    BY <2>4, <2>5
<1>. QED
  BY <1>2, <1>6 DEF Seeing

LEMMA WalkDoneSees ==
  ASSUME LiveInv, Seeing, WalkDone
  PROVE  Seeing'
<1>1. /\ mode = "walk" /\ todo = <<>> /\ mode' = "idle"
      /\ UNCHANGED <<fs, events, watched, base, todo, chan, index, walker>>
  BY DEF WalkDone
<1>2. kwatch[Root] = Root /\ kwatch'[Root] = Root /\ \A p \in Path : Top(p) => Heard(p)
  BY <1>1, NotBlind DEF fs
<1>3. Range(todo) = {}
  BY <1>1, NothingIn
<1>4. ASSUME NEW p \in Path, Top(p) PROVE Heard(p)'
  <2>1. ~ToStat(p) /\ ~ToUse(p) /\ ~ToStat(p)' /\ ~ToUse(p)'
    BY <1>1, <1>3 DEF ToStat, ToUse
  <2>2. Statted(p)' <=> Statted(p)
    BY <1>1, <2>1, ElseWhere DEF fs
  <2>. QED
    BY <1>1, <1>2, <1>4, <2>2 DEF Heard, fs
<1>. QED
  BY <1>2, <1>4 DEF Seeing

-----------------------------------------------------------------------------
(* The walk of the root and the consumer.                                   *)

\* A step of the walk concerns only what the index says.
LEMMA OnlyIndexed ==
  ASSUME LiveInv, Seeing, phase # "waiting" \/ mode # "seed",
         UNCHANGED <<fs, events, watcher, chan>>,
         \A p \in Path : Top(p) /\ Indexed(p) => Indexed(p)'
  PROVE  Seeing'
<1>1. ~Blind
  BY DEF Blind
<1>2. kwatch[Root] = Root /\ kwatch'[Root] = Root /\ tree' = tree /\ events' = events /\ chan' = chan
  BY <1>1 DEF Seeing, fs
<1>3. ASSUME NEW p \in Path, Top(p) PROVE Heard(p)'
  <2>1. Heard(p)
    BY <1>2, <1>3 DEF Seeing
  <2>2. (ToStat(p)' <=> ToStat(p)) /\ (ToUse(p)' <=> ToUse(p)) /\ (UsedRight(p)' <=> UsedRight(p))
    BY <1>2 DEF ToStat, ToUse, UsedRight, watcher
  <2>3. Changed(p) => Changed(p)'
    BY <1>2, <1>3 DEF Changed
  <2>4. Statted(p) => Statted(p)'
    BY <1>2, <2>2, <2>3 DEF Statted, Used
  <2>. QED
    BY <1>2, <2>1, <2>4 DEF Heard
<1>. QED
  BY <1>2, <1>3 DEF Seeing

LEMMA StartWalkSees ==
  ASSUME LiveInv, Seeing, StartWalk
  PROVE  Seeing'
<1>1. /\ mode # "seed" /\ UNCHANGED <<index, fs, events, watcher, chan>>
  BY DEF StartWalk, walkerRest
<1>2. Range(walk') = {List(Root)} /\ List(Root).do = "list" /\ List(Root).path = Root
  BY StartWalkKeeps, StepsMade DEF Node
<1>3. ASSUME NEW p \in Path, Indexed(p) PROVE Indexed(p)'
  <2>1. WalkUsesRight(p)' /\ WalkWill(p)'
    BY <1>2 DEF WalkUsesRight, WalkWill
  <2>. QED
    BY <1>1, <1>3, <2>1 DEF Indexed, fs
<1>. QED
  BY <1>1, <1>3, OnlyIndexed

LEMMA BeginTxSees ==
  ASSUME LiveInv, Seeing, BeginTx
  PROVE  Seeing'
<1>1. phase = "running" /\ UNCHANGED <<phase, walk, index, fs, events, watcher, chan>>
  BY DEF BeginTx, walkerRest
<1>2. ASSUME NEW p \in Path, Indexed(p) PROVE Indexed(p)'
  BY <1>1, <1>2 DEF Indexed, WalkUsesRight, WalkWill, fs
<1>. QED
  BY <1>1, <1>2, OnlyIndexed

LEMMA IndexStatSees ==
  ASSUME LiveInv, Seeing, IndexStat
  PROVE  Seeing'
<1>. DEFINE g == Head(walk)
            f == Found(Root, g)
            T == Range(Tail(walk))
<1>1. /\ g \in Step /\ g.do = "stat" /\ g.path \in Path
      /\ Range(walk) = {g} \cup T
      /\ Range(walk') = Range(f) \cup T
      /\ Range(f) \subseteq {Use(g.path, tree[g.path]), List(g.path)}
      /\ tree[g.path] # "none" => Use(g.path, tree[g.path]) \in Range(f)
      /\ UNCHANGED <<phase, held, rows, index, fs, events, watcher, chan>>
  BY IndexStatIs
<1>2. phase = "running"
  BY DEF IndexStat, LiveInv, WalkerOK
<1>3. PICK h \in Step : h = g
  BY <1>1
<1>4. tree[h.path] \in Kind \cup {"none"}
  BY <1>1, <1>3 DEF LiveInv, FsOK
<1>5. /\ Use(h.path, tree[h.path]).do = "use" /\ Use(h.path, tree[h.path]).path = h.path
      /\ Use(h.path, tree[h.path]).kind = tree[h.path]
      /\ List(h.path).do = "list" /\ List(h.path).path = h.path
  BY <1>1, <1>3, <1>4, StepsMade DEF Node
<1>. HIDE DEF g, f, T
<1>6. ASSUME NEW p \in Path, Indexed(p) PROVE Indexed(p)'
  <2>1. WalkUsesRight(p) => WalkUsesRight(p)'
    BY <1>1, <1>3, <1>5 DEF WalkUsesRight, fs
  <2>2. WalkWill(p) /\ tree[p] # "none" => WalkWill(p)'
    <3>1. SUFFICES ASSUME WalkWill(p), tree[p] # "none" PROVE WalkWill(p)'
      OBVIOUS
    <3>2. PICK s \in Range(walk) : \/ s.do = "list" /\ s.path = Root
                                   \/ s.do \in {"stat", "use"} /\ s.path = p
      BY <1>2, <3>1 DEF WalkWill
    <3>3. CASE s \in T
      BY <1>1, <3>2, <3>3 DEF WalkWill
    <3>4. CASE s = h
      <4>1. h.path = p
        BY <1>1, <1>3, <3>2, <3>4
      <4>2. Use(p, tree[p]) \in Range(walk')
        BY <1>1, <1>3, <3>1, <4>1
      <4>. QED
        BY <1>5, <4>1, <4>2 DEF WalkWill
    <3>. QED
      BY <1>1, <1>3, <3>2, <3>3, <3>4
  <2>. QED
    BY <1>1, <1>6, <2>1, <2>2 DEF Indexed, fs
<1>. QED
  BY <1>1, <1>2, <1>6, OnlyIndexed

LEMMA IndexListSees ==
  ASSUME LiveInv, Seeing, IndexList
  PROVE  Seeing'
<1>. DEFINE h == Head(walk)
            f == Visited(h.path)
            T == Range(Tail(walk))
<1>1. /\ h.do = "list" /\ h \in Step
      /\ Range(walk) = {h} \cup T
      /\ Range(walk') = Range(f) \cup T
      /\ UNCHANGED <<phase, held, rows, index, fs, events, watcher, chan>>
  BY IndexListIs
<1>2. phase = "running"
  BY DEF IndexList, LiveInv, WalkerOK
<1>3. /\ \A s \in Range(f) : s.do = "stat"
      /\ IsDir(h.path) => \A p \in Children(h.path) :
                            \E s \in Range(f) : s.do = "stat" /\ s.path = p
  BY VisitedIs
<1>4. IsDir(Root)
  BY DEF IsDir, There
<1>. HIDE DEF h, f, T
<1>5. ASSUME NEW p \in Path, Top(p), Indexed(p) PROVE Indexed(p)'
  <2>1. WalkUsesRight(p) => WalkUsesRight(p)'
    BY <1>1, <1>3 DEF WalkUsesRight, fs
  <2>2. WalkWill(p) /\ tree[p] # "none" => WalkWill(p)'
    <3>1. SUFFICES ASSUME WalkWill(p), tree[p] # "none" PROVE WalkWill(p)'
      OBVIOUS
    <3>2. PICK s \in Range(walk) : \/ s.do = "list" /\ s.path = Root
                                   \/ s.do \in {"stat", "use"} /\ s.path = p
      BY <1>2, <3>1 DEF WalkWill
    <3>3. CASE s \in T
      BY <1>1, <3>2, <3>3 DEF WalkWill
    <3>4. CASE s = h
      <4>1. h.path = Root
        BY <1>1, <3>2, <3>4
      <4>2. p \in Children(Root)
        BY <1>5, <3>1, PathIs DEF Children
      <4>3. PICK x \in Range(f) : x.do = "stat" /\ x.path = p
        BY <1>3, <1>4, <4>1, <4>2
      <4>. QED
        BY <1>1, <4>3 DEF WalkWill
    <3>. QED
      BY <1>1, <3>2, <3>3, <3>4
  <2>. QED
    BY <1>1, <1>5, <2>1, <2>2 DEF Indexed, fs
<1>. QED
  BY <1>1, <1>2, <1>5, OnlyIndexed

LEMMA AddRowSees ==
  ASSUME LiveInv, Seeing, AddRow
  PROVE  Seeing'
<1>. DEFINE g == Head(walk)
            T == Range(Tail(walk))
<1>1. /\ g \in Step /\ g.do = "use" /\ g.path \in Path /\ g.kind \in Kind
      /\ index' = [index EXCEPT ![g.path] = [kind |-> g.kind, volume |-> Root]]
      /\ Range(walk) = {g} \cup T /\ Range(walk') = T
      /\ \A s \in Range(walk') : s.do # "use"
      /\ phase' = phase
      /\ UNCHANGED <<fs, events, watcher, chan>>
  BY AddRowIs
<1>2. phase = "running" /\ IndexOK
  BY DEF AddRow, LiveInv, WalkerOK
<1>3. PICK h \in Step : h = g
  BY <1>1
<1>4. PICK r : r = [kind |-> h.kind, volume |-> Root]
  OBVIOUS
<1>5. r # NoRow /\ r.kind = h.kind
  <2>1. r \in [kind : Kind, volume : Node] /\ r.kind = h.kind
    BY <1>1, <1>3, <1>4 DEF Node
  <2>. QED
    BY <2>1, NothingAssumption
<1>. HIDE DEF g, T
<1>6. ASSUME NEW p \in Path, Indexed(p) PROVE Indexed(p)'
  <2>1. WalkUsesRight(p)'
    BY <1>1 DEF WalkUsesRight
  <2>2. CASE h.path = p
    <3>1. h.kind = tree[p] /\ tree[p] # "none"
      BY <1>1, <1>3, <1>6, <2>2 DEF Indexed, WalkUsesRight, Kind
    <3>2. index'[p] = r
      BY <1>1, <1>2, <1>3, <1>4, <2>2 DEF IndexOK
    <3>3. Says(tree[p], index'[p])
      BY <1>5, <3>1, <3>2 DEF Says
    <3>. QED
      BY <1>1, <2>1, <3>3 DEF Indexed, fs
  <2>3. CASE h.path # p
    <3>1. index'[p] = index[p]
      BY <1>1, <1>2, <1>3, <2>3 DEF IndexOK
    <3>2. WalkWill(p) => WalkWill(p)'
      BY <1>1, <1>2, <1>3, <2>3 DEF WalkWill
    <3>. QED
      BY <1>1, <1>6, <2>1, <3>1, <3>2 DEF Indexed, fs
  <2>. QED
    BY <2>2, <2>3
<1>. QED
  BY <1>1, <1>2, <1>6, OnlyIndexed

LEMMA EndWalkSees ==
  ASSUME LiveInv, Seeing, EndWalk
  PROVE  Seeing'
<1>1. /\ phase = "running" /\ walk = <<>>
      /\ UNCHANGED <<walk, index, fs, events, watcher, chan>>
  BY DEF EndWalk, walkerRest, LiveInv, WalkerOK
<1>2. Range(walk) = {}
  BY <1>1, NothingIn
<1>3. ASSUME NEW p \in Path, Indexed(p) PROVE Indexed(p)'
  <2>1. ~WalkWill(p) /\ WalkUsesRight(p)'
    BY <1>1, <1>2 DEF WalkWill, WalkUsesRight
  <2>. QED
    BY <1>1, <1>3, <2>1 DEF Indexed, fs
<1>. QED
  BY <1>1, <1>3, OnlyIndexed

\* The consumer works while the connection is free: the walk has then used all
\* it has seen, and cannot overwrite what is applied now.
LEMMA ApplyChangeSees ==
  ASSUME LiveInv, Seeing, ApplyChange
  PROVE  Seeing'
<1>. DEFINE g == Head(chan)
<1>1. /\ chan \in Seq(Change) /\ chan # <<>> /\ g \in Change /\ chan' = Tail(chan)
      /\ g.row = NoRow =>
           index' = [q \in Path |->
                       IF q = g.path THEN NoRow
                       ELSE IF Len(q) > Len(g.path)
                               /\ Fold[SubSeq(q, 1, Len(g.path))] = Fold[g.path]
                       THEN NoRow ELSE index[q]]
      /\ g.row # NoRow => index' = [index EXCEPT ![g.path] = g.row]
      /\ ~held /\ mode # "seed"
      /\ UNCHANGED <<fs, events, watcher, walker>>
  BY ApplyChangeIs
<1>2. kwatch[Root] = Root /\ kwatch'[Root] = Root /\ \A p \in Path : Top(p) => Heard(p)
  BY <1>1, NotBlind DEF fs
<1>3. PICK c \in Change : c = g
  BY <1>1
<1>4. c.path \in Path /\ c.row \in Row \cup {NoRow} /\ IndexOK
  BY DEF Change, LiveInv
<1>5. \A s \in Range(walk) : s.do # "use"
  BY <1>1 DEF LiveInv, WalkerOK, WalkRight
<1>6. ASSUME NEW p \in Path, Top(p) PROVE Heard(p)'
  <2>1. /\ About(chan, p) <=> (About(chan', p) \/ c.path = p)
        /\ About(chan', p) => LastOf(chan', p) \subseteq LastOf(chan, p)
        /\ ~About(chan', p) /\ c.path = p => c \in LastOf(chan, p)
    BY <1>1, <1>3, AboutTail
  <2>2. ~(Len(p) > Len(c.path))
    BY <1>4, <1>6, TopIsUntouched
  <2>. HIDE DEF g
  <2>3. p # c.path => index'[p] = index[p]
    BY <1>1, <1>3, <1>4, <2>2 DEF IndexOK
  <2>4. p = c.path => index'[p] = c.row
    BY <1>1, <1>3, <1>4 DEF IndexOK
  <2>5. tree' = tree /\ events' = events
    BY <1>1 DEF fs
  <2>6. WalkUsesRight(p)' /\ (WalkWill(p)' <=> WalkWill(p))
    BY <1>1, <1>5 DEF WalkUsesRight, WalkWill, walker
  <2>7. Changed(p) => Changed(p)'
    <3>1. SUFFICES ASSUME Changed(p) PROVE Changed(p)'
      OBVIOUS
    <3>2. CASE About(chan', p)
      BY <2>1, <2>5, <3>1, <3>2 DEF Changed
    <3>3. CASE ~About(chan', p) /\ c.path = p
      <4>1. Says(tree[p], c.row)
        BY <2>1, <3>1, <3>3 DEF Changed
      <4>2. Indexed(p)'
        BY <2>4, <2>5, <2>6, <3>3, <4>1 DEF Indexed
      <4>. QED
        BY <3>3, <4>2 DEF Changed
    <3>4. CASE ~About(chan', p) /\ c.path # p
      <4>1. Indexed(p)
        BY <2>1, <3>1, <3>4 DEF Changed
      <4>2. Indexed(p)'
        BY <2>3, <2>5, <2>6, <3>4, <4>1 DEF Indexed
      <4>. QED
        BY <3>4, <4>2 DEF Changed
    <3>. QED
      BY <3>2, <3>3, <3>4
  <2>8. (ToStat(p)' <=> ToStat(p)) /\ (ToUse(p)' <=> ToUse(p)) /\ (UsedRight(p)' <=> UsedRight(p))
    BY <1>1, <2>5 DEF ToStat, ToUse, UsedRight, watcher
  <2>9. Statted(p) => Statted(p)'
    BY <2>5, <2>7, <2>8 DEF Statted, Used
  <2>10. Heard(p)
    BY <1>2, <1>6
  <2>. QED
    BY <2>5, <2>9, <2>10 DEF Heard
<1>. QED
  BY <1>2, <1>6 DEF Seeing

-----------------------------------------------------------------------------
(* Together.                                                                *)

LEMMA InitSees ==
  ASSUME Init
  PROVE  Seeing
<1>1. \A d \in Node : kwatch[d] = Unwatched
  BY DEF Init
<1>2. kwatch[Root] # Root
  BY <1>1, NothingAssumption DEF Node
<1>3. OldRows \/ \A p \in Path : index[p] = NoRow
  BY DEF Init
<1>. QED
  BY <1>1, <1>2, <1>3 DEF Init, Seeing, Blind

LEMMA NextSees ==
  ASSUME LiveInv, Seeing, ~Overflow, [Next]_vars
  PROVE  Seeing'
<1>1. CASE User
  BY <1>1, UserSees, UserBlind DEF Seeing
<1>2. CASE Watcher
  BY <1>2, AddWatchSees, AddListSees, AddDoneSees, HandleSees, WalkStatSees, WalkListSees,
     WalkSendSees, WalkDoneSees DEF Watcher
<1>3. CASE IndexRoot
  BY <1>3, StartWalkSees, BeginTxSees, IndexStatSees, IndexListSees, AddRowSees, EndWalkSees
  DEF IndexRoot
<1>4. CASE ApplyChange
  BY <1>4, ApplyChangeSees
<1>5. CASE UNCHANGED vars
  <2>1. UNCHANGED <<fs, events, watcher, chan, index, walker>>
    BY <1>5 DEF vars
  <2>2. Blind' <=> Blind
    BY <2>1 DEF Blind, fs, watcher, walker
  <2>3. \A p : Heard(p) => Heard(p)'
    BY <2>1, HeardStill DEF fs
  <2>. QED
    BY <2>1, <2>2, <2>3 DEF Seeing, fs
<1>. QED
  BY <1>1, <1>2, <1>3, <1>4, <1>5 DEF Next

THEOREM RootIsHeard ==
  ASSUME ~Overflow
  PROVE  Spec => [](LiveInv /\ Seeing)
<1>1. Init => LiveInv /\ Seeing
  BY InitLive, InitSees
<1>2. LiveInv /\ Seeing /\ [Next]_vars => LiveInv' /\ Seeing'
  BY NextKeeps, NextSees
<1>. QED
  BY <1>1, <1>2, PTL DEF Spec

\* With nothing under way the index has the last word on p.
LEMMA QuietIsIndexed ==
  ASSUME LiveInv, Seeing, Quiet, NEW p \in Path, Top(p)
  PROVE  Says(tree[p], index[p]) \/ (OldRows /\ tree[p] = "none")
<1>1. mode = "idle" /\ events = <<>> /\ chan = <<>> /\ phase = "done" /\ walk = <<>>
  BY DEF Quiet, LiveInv, WalkerOK
<1>2. Heard(p)
  BY <1>1 DEF Seeing, Blind
<1>3. ~About(events, p) /\ ~About(chan, p) /\ Range(walk) = {}
  BY <1>1, AboutNothing, NothingIn
<1>4. ~ToStat(p) /\ ~ToUse(p) /\ ~WalkWill(p)
  BY <1>1, <1>3 DEF ToStat, ToUse, WalkWill
<1>5. Indexed(p)
  BY <1>2, <1>3, <1>4 DEF Heard, Statted, Used, Changed
<1>. QED
  BY <1>4, <1>5 DEF Indexed

\* Once nothing is under way the index has no row of an entry of the root that
\* is gone, whatever the user did while the root was walked and watched
\* (service.go:58), provided the kernel dropped nothing and no earlier run left
\* rows behind.
THEOREM RootIsExact ==
  ASSUME ~Overflow, ~OldRows
  PROVE  Spec => []QuietRootIsExact
<1>1. LiveInv /\ Seeing => QuietRootIsExact
  <2>1. SUFFICES ASSUME LiveInv, Seeing, Quiet, NEW p \in Path, Len(p) = 1, index[p] # NoRow
                 PROVE  tree[p] # "none"
    BY DEF QuietRootIsExact
  <2>. QED
    BY <2>1, QuietIsIndexed DEF Top, Says
<1>. QED
  BY <1>1, RootIsHeard, PTL

\* And every entry of the root that exists has its row, with the right kind.
\* Of QuietIndexIsComplete this is the part about the root: it needs no
\* assumption on how directories are nested, or on what rows there were.
THEOREM RootIsComplete ==
  ASSUME ~Overflow
  PROVE  Spec => [](Quiet => \A p \in Path : Len(p) = 1 /\ tree[p] # "none" => HasRow(p))
<1>. DEFINE P == Quiet => \A p \in Path : Len(p) = 1 /\ tree[p] # "none" => HasRow(p)
<1>1. LiveInv /\ Seeing => P
  <2>1. SUFFICES ASSUME LiveInv, Seeing, Quiet, NEW p \in Path, Len(p) = 1, tree[p] # "none"
                 PROVE  HasRow(p)
    OBVIOUS
  <2>. QED
    BY <2>1, QuietIsIndexed DEF Top, Says, HasRow
<1>. HIDE DEF P
<1>2. Spec => []P
  BY <1>1, RootIsHeard, PTL
<1>. QED
  BY <1>2 DEF P

-----------------------------------------------------------------------------
(* Names and the names above them.                                          *)

LEMMA NodeIs ==
  ASSUME NEW d \in Node
  PROVE  /\ \E S : d \in Seq(S)
         /\ Len(d) \in Nat /\ (d # Root <=> d \in Path) /\ (Len(d) = 0 <=> d = Root)
<1>1. CASE d \in Path
  BY <1>1, PathIs
<1>2. CASE d = Root
  <2>1. d \in Seq({}) /\ Len(d) = 0
    BY <1>2, EmptySeq DEF Root
  <2>2. Root \notin Path
    BY PathIs
  <2>. QED
    BY <1>2, <2>1, <2>2
<1>. QED
  BY <1>1, <1>2 DEF Node

LEMMA Initial ==
  ASSUME NEW d \in Node, NEW k \in 0 .. Len(d)
  PROVE  /\ \E S : SubSeq(d, 1, k) \in Seq(S) /\ d \in Seq(S)
         /\ Len(SubSeq(d, 1, k)) = k
         /\ \A i \in 1 .. k : SubSeq(d, 1, k)[i] = d[i]
<1>1. PICK S : d \in Seq(S)
  BY NodeIs
<1>. DEFINE n == Len(d)
<1>2. n \in Nat /\ k \in Int /\ k <= n /\ k \in Nat
  <2>1. n \in Nat
    BY NodeIs
  <2>2. k \in 0 .. n
    OBVIOUS
  <2>. HIDE DEF n
  <2>. QED
    BY <2>1, <2>2
<1>3. \A i \in 1 .. k : d[i] \in S
  <2>1. \A i \in 1 .. k : i \in 1 .. n
    <3>. HIDE DEF n
    <3>. QED
      BY <1>2
  <2>. QED
    BY <1>1, <2>1, ElementOfSeq
<1>. DEFINE c == SubSeq(d, 1, k)
            m == Len(c)
<1>4. c \in Seq(S) /\ m = (IF 1 <= k THEN k - 1 + 1 ELSE 0)
      /\ \A i \in 1 .. k - 1 + 1 : c[i] = d[1 + i - 1]
  BY <1>2, <1>3, SubSeqProperties
<1>. HIDE DEF c, m, n
<1>5. m = k
  BY <1>2, <1>4
<1>6. \A i \in 1 .. k : c[i] = d[i]
  <2>1. \A i \in 1 .. k : i \in 1 .. k - 1 + 1 /\ 1 + i - 1 = i
    BY <1>2
  <2>. QED
    BY <1>4, <2>1
<1>. QED
  BY <1>1, <1>4, <1>5, <1>6 DEF c, m

LEMMA SameNode ==
  ASSUME NEW a \in Node, NEW d \in Node, Len(a) = Len(d),
         \A i \in 1 .. Len(a) : a[i] = d[i]
  PROVE  a = d
<1>1. PICK A : a \in Seq(A)
  BY NodeIs
<1>2. PICK D : d \in Seq(D)
  BY NodeIs
<1>. DEFINE B == A \cup D
<1>3. A \subseteq B /\ D \subseteq B
  OBVIOUS
<1>. HIDE DEF B
<1>4. a \in Seq(B) /\ d \in Seq(B)
  BY <1>1, <1>2, <1>3, SeqMonotonic
<1>. QED
  BY <1>4, SeqEqual

LEMMA PrefixIs ==
  ASSUME NEW a \in Node, NEW d \in Node
  PROVE  IsPrefix(a, d) <=> Len(a) <= Len(d) /\ \A i \in 1 .. Len(a) : a[i] = d[i]
<1>. DEFINE k == Len(a)
            n == Len(d)
<1>1. k \in Nat /\ n \in Nat
  BY NodeIs
<1>2. SubSeq(a, 1, k) = a
  <2>1. PICK S : a \in Seq(S)
    BY NodeIs
  <2>. QED
    BY <2>1, SubSeqFull
<1>3. SUFFICES ASSUME k <= n PROVE a = SubSeq(d, 1, k) <=> \A i \in 1 .. k : a[i] = d[i]
  BY <1>2 DEF IsPrefix
<1>4. k \in 0 .. n
  <2>. HIDE DEF k, n
  <2>. QED
    BY <1>1, <1>3
<1>. DEFINE c == SubSeq(d, 1, k)
<1>5. /\ \E S : c \in Seq(S) /\ d \in Seq(S)
      /\ Len(c) = k /\ \A i \in 1 .. k : c[i] = d[i]
  BY <1>4, Initial
<1>. HIDE DEF c
<1>6. ASSUME a = c PROVE \A i \in 1 .. k : a[i] = d[i]
  BY <1>5, <1>6
<1>7. ASSUME \A i \in 1 .. k : a[i] = d[i] PROVE a = c
  <2>1. PICK S : c \in Seq(S)
    BY <1>5
  <2>2. PICK A : a \in Seq(A)
    BY NodeIs
  <2>. DEFINE B == A \cup S
  <2>3. A \subseteq B /\ S \subseteq B
    OBVIOUS
  <2>. HIDE DEF B
  <2>4. a \in Seq(B) /\ c \in Seq(B)
    BY <2>1, <2>2, <2>3, SeqMonotonic
  <2>. QED
    BY <1>5, <1>7, <2>4, SeqEqual
<1>. QED
  BY <1>6, <1>7 DEF c

LEMMA PrefixOfItself ==
  ASSUME NEW a \in Node
  PROVE  IsPrefix(a, a)
<1>1. Len(a) \in Nat
  BY NodeIs
<1>. QED
  BY <1>1, PrefixIs

LEMMA PrefixThrough ==
  ASSUME NEW a \in Node, NEW b \in Node, NEW c \in Node, IsPrefix(a, b), IsPrefix(b, c)
  PROVE  IsPrefix(a, c)
<1>. DEFINE k == Len(a)
            m == Len(b)
            n == Len(c)
<1>1. k \in Nat /\ m \in Nat /\ n \in Nat
  BY NodeIs
<1>2. /\ k <= m /\ m <= n
      /\ \A i \in 1 .. k : a[i] = b[i]
      /\ \A i \in 1 .. m : b[i] = c[i]
  BY PrefixIs
<1>3. k <= n /\ \A i \in 1 .. k : i \in 1 .. m
  <2>. HIDE DEF k, m, n
  <2>. QED
    BY <1>1, <1>2
<1>4. \A i \in 1 .. k : a[i] = c[i]
  BY <1>2, <1>3
<1>. QED
  BY <1>3, <1>4, PrefixIs

LEMMA PrefixBothWays ==
  ASSUME NEW a \in Node, NEW b \in Node, IsPrefix(a, b), IsPrefix(b, a)
  PROVE  a = b
<1>. DEFINE k == Len(a)
            m == Len(b)
<1>1. k \in Nat /\ m \in Nat
  BY NodeIs
<1>2. k <= m /\ m <= k /\ \A i \in 1 .. k : a[i] = b[i]
  BY PrefixIs
<1>3. k = m
  <2>. HIDE DEF k, m
  <2>. QED
    BY <1>1, <1>2
<1>. QED
  BY <1>2, <1>3, SameNode

\* What is a prefix of an entry is the entry, or a prefix of the directory the
\* entry is in.
LEMMA AboveEntry ==
  ASSUME NEW d \in Path
  PROVE  /\ Front(d) \in Node /\ d \in Node /\ Front(d) # d
         /\ IsPrefix(Front(d), d) /\ ~IsPrefix(d, Front(d))
         /\ \A a \in Node : IsPrefix(a, d) /\ a # d => IsPrefix(a, Front(d))
<1>. DEFINE n == Len(d)
            f == Front(d)
            m == Len(f)
<1>1. d \in Node /\ f \in Node /\ n \in Nat \ {0}
  BY PathIs DEF Node
<1>2. n - 1 \in 0 .. n
  <2>. HIDE DEF n
  <2>. QED
    BY <1>1
<1>4. m = n - 1 /\ \A i \in 1 .. n - 1 : f[i] = d[i]
  BY <1>1, <1>2, Initial DEF Front
<1>. HIDE DEF f
<1>5. m <= n /\ ~(n <= m)
  <2>. HIDE DEF n, m
  <2>. QED
    BY <1>1, <1>4
<1>6. IsPrefix(f, d) /\ ~IsPrefix(d, f)
  BY <1>1, <1>4, <1>5, PrefixIs
<1>7. ASSUME NEW a \in Node, IsPrefix(a, d), a # d PROVE IsPrefix(a, f)
  <2>. DEFINE k == Len(a)
  <2>1. k \in Nat
    BY NodeIs
  <2>2. k <= n /\ \A i \in 1 .. k : a[i] = d[i]
    BY <1>1, <1>7, PrefixIs
  <2>3. k # n
    BY <1>1, <1>7, <2>2, SameNode
  <2>4. k <= m /\ \A i \in 1 .. k : i \in 1 .. n - 1
    <3>. HIDE DEF k, n, m
    <3>. QED
      BY <1>1, <1>4, <2>1, <2>2, <2>3
  <2>5. \A i \in 1 .. k : a[i] = f[i]
    BY <1>4, <2>2, <2>4
  <2>. QED
    BY <1>1, <2>4, <2>5, PrefixIs
<1>. QED
  BY <1>1, <1>6, <1>7, PrefixOfItself DEF f

LEMMA NothingAboveRoot ==
  ASSUME NEW d \in Path
  PROVE  ~IsPrefix(d, Root) /\ Root \in Node /\ Root \notin Path
<1>1. Root \in Node /\ d \in Node /\ Root \notin Path
  BY PathIs DEF Node
<1>2. Len(Root) = 0 /\ Len(d) \in Nat \ {0}
  BY <1>1, NodeIs, PathIs
<1>3. ~(Len(d) <= Len(Root))
  <2>. DEFINE n == Len(d)
  <2>. HIDE DEF n
  <2>1. n \in Nat \ {0}
    BY <1>2 DEF n
  <2>2. ~(n <= 0)
    BY <2>1
  <2>. QED
    BY <1>2, <2>2 DEF n
<1>. QED
  BY <1>1, <1>3, PrefixIs

\* The entry of a directory that something below it is in, or is.
LEMMA EntryTowards ==
  ASSUME NEW a \in Node, NEW d \in Path, IsPrefix(a, d), a # d
  PROVE  \E c \in Path : Front(c) = a /\ IsPrefix(c, d)
<1>. DEFINE k == Len(a)
            n == Len(d)
            c == SubSeq(d, 1, k + 1)
<1>1. d \in Node /\ k \in Nat /\ n \in Nat \ {0}
  BY NodeIs, PathIs DEF Node
<1>2. k <= n /\ \A i \in 1 .. k : a[i] = d[i]
  BY <1>1, PrefixIs
<1>3. k # n
  BY <1>1, <1>2, SameNode
<1>4. k + 1 \in 1 .. n /\ k + 1 \in 0 .. n /\ k + 1 <= n /\ k + 1 - 1 = k /\ k <= k + 1
      /\ k \in 0 .. k + 1 /\ \A i \in 1 .. k : i \in 1 .. k + 1
  <2>. HIDE DEF k, n
  <2>. QED
    BY <1>1, <1>2, <1>3
<1>5. c \in Path
  BY <1>4, PathAssumption
<1>6. c \in Node
  BY <1>5 DEF Node
<1>7. Len(c) = k + 1 /\ \A i \in 1 .. k + 1 : c[i] = d[i]
  BY <1>1, <1>4, Initial
<1>. HIDE DEF c
<1>8. IsPrefix(c, d)
  BY <1>1, <1>4, <1>6, <1>7, PrefixIs
<1>. DEFINE f == SubSeq(c, 1, k)
<1>9. f = Front(c)
  <2>1. Len(c) - 1 = k
    <3>. DEFINE m == Len(c)
    <3>. HIDE DEF m, k
    <3>1. m = k + 1
      BY <1>7 DEF m
    <3>2. m - 1 = k
      BY <1>1, <3>1
    <3>. QED
      BY <3>2 DEF m
  <2>. QED
    BY <2>1 DEF Front
<1>10. k \in 0 .. Len(c)
  BY <1>4, <1>7
<1>11. Len(f) = k /\ \A i \in 1 .. k : f[i] = c[i]
  BY <1>6, <1>10, Initial
<1>12. f \in Node
  BY <1>5, <1>9, PathIs
<1>. HIDE DEF f
<1>13. \A i \in 1 .. k : f[i] = a[i]
  BY <1>2, <1>4, <1>7, <1>11
<1>14. f = a
  BY <1>11, <1>12, <1>13, SameNode
<1>. QED
  BY <1>5, <1>8, <1>9, <1>14

LEMMA NameIsWhole ==
  ASSUME NEW d \in Path
  PROVE  Append(Front(d), Last(d)) = d
<1>1. PICK S : d \in Seq(S)
  BY PathIs
<1>. DEFINE n == Len(d)
            f == Front(d)
            w == Append(f, Last(d))
<1>2. d \in Node /\ n \in Nat \ {0}
  BY PathIs DEF Node
<1>3. n \in 1 .. n /\ n - 1 \in 0 .. n /\ n - 1 + 1 = n
      /\ \A i \in 1 .. n : i = n \/ i \in 1 .. n - 1
  <2>. HIDE DEF n
  <2>. QED
    BY <1>2
<1>4. Last(d) \in S
  BY <1>1, <1>3, ElementOfSeq DEF Last
<1>5. PICK T : f \in Seq(T) /\ d \in Seq(T)
  BY <1>2, <1>3, Initial DEF Front
<1>6. Len(f) = n - 1 /\ \A i \in 1 .. n - 1 : f[i] = d[i]
  BY <1>2, <1>3, Initial DEF Front
<1>7. Last(d) \in T
  BY <1>3, <1>5, ElementOfSeq DEF Last
<1>. HIDE DEF f
<1>8. /\ w \in Seq(T) /\ Len(w) = Len(f) + 1
      /\ \A i \in 1 .. Len(f) : w[i] = f[i]
      /\ w[Len(f) + 1] = Last(d)
  BY <1>5, <1>7, AppendProperties
<1>. HIDE DEF w
<1>9. Len(w) = n /\ \A i \in 1 .. n - 1 : w[i] = d[i]
  BY <1>3, <1>6, <1>8
<1>10. w[n] = d[n]
  BY <1>3, <1>6, <1>8 DEF Last
<1>11. \A i \in 1 .. Len(w) : w[i] = d[i]
  BY <1>3, <1>9, <1>10
<1>12. w = d
  BY <1>5, <1>8, <1>9, <1>11, SeqEqual
<1>. QED
  BY <1>12 DEF f, w

-----------------------------------------------------------------------------
(* Which directories are watched, and how the others come to be.            *)
(*                                                                          *)
(* D are the directories that exist, V those of them that are watched by    *)
(* their names, W the names in watched, ev the queue of notifications, U    *)
(* the suspects and R the steps of addTree that are left.                   *)

Doubt(U, d) == \E a \in U : IsPrefix(a, d)

\* After position i the queue says op of d or of a directory above it.
Later(ev, i, op, d) ==
  \E j \in 1 .. Len(ev) : j > i /\ ev[j].op = op /\ IsPrefix(ev[j].path, d)

ToldOf(ev, d) == \E j \in 1 .. Len(ev) : ev[j].op = "gone" /\ ev[j].path = d

DirsRight(D) ==
  D \subseteq Node /\ Root \in D /\ \A d \in D : \A c \in Node : IsPrefix(c, d) => c \in D

SeenRight(D, V, W) == V \subseteq D /\ V \subseteq W /\ W \subseteq Node

\* What is watched and yet to be told gone is a suspect.
SeenAndGone(V, ev, U) == \A d \in V : ToldOf(ev, d) => d \in U

\* A name in watched that sees nothing is about to be dropped.
KnownAndBlind(V, W, ev, U) == \A d \in W : d \in V \/ Doubt(U, d) \/ ToldOf(ev, d)

SeenFromAbove(V, U) == \A d \in V : d # Root => Doubt(U, d) \/ Front(d) \in V

\* Who reported an event still sees, or is to be told gone after it.
EventsSeen(V, ev, U) ==
  \A i \in 1 .. Len(ev) :
    LET d == ev[i].path IN
    Doubt(U, d) \/ Front(d) \in V \/ Later(ev, i, "gone", Front(d))

\* A directory that exists and is to be told gone is to be told made after that.
MadeAgain(D, ev, U) ==
  \A d \in D : \/ Doubt(U, d)
               \/ \A i \in 1 .. Len(ev) :
                    ev[i].op = "gone" /\ IsPrefix(ev[i].path, d) => Later(ev, i, "create", d)

WatchFromAbove(D, V, ev, U, R) ==
  \A d \in Path : Watch(d) \in R =>
    Doubt(U, d) \/ Later(ev, 0, "gone", d) \/ (Front(d) \in V /\ d \in D)

ListSeen(V, ev, U, R) ==
  \A d \in Node : List(d) \in R => Doubt(U, d) \/ Later(ev, 0, "gone", d) \/ d \in V

\* addTree will come to d.
Reached(R, d) ==
  \E a \in Node : IsPrefix(a, d) /\ (Watch(a) \in R \/ (List(a) \in R /\ a # d))

NoneForgotten(D, V, ev, U, R) ==
  \A d \in D : d \in V \/ Doubt(U, d) \/ Later(ev, 0, "create", d) \/ Reached(R, d)

Typed(ev, U) == ev \in Seq(Event) /\ U \subseteq Node

Sees(D, V, W, ev, U, R) ==
  /\ Typed(ev, U) /\ DirsRight(D) /\ SeenRight(D, V, W)
  /\ SeenAndGone(V, ev, U) /\ KnownAndBlind(V, W, ev, U)
  /\ SeenFromAbove(V, U) /\ EventsSeen(V, ev, U) /\ MadeAgain(D, ev, U)
  /\ WatchFromAbove(D, V, ev, U, R) /\ ListSeen(V, ev, U, R)
  /\ NoneForgotten(D, V, ev, U, R)

LEMMA EventIs ==
  ASSUME NEW ev \in Seq(Event), NEW i \in 1 .. Len(ev)
  PROVE  /\ ev[i] \in Event /\ ev[i].path \in Path /\ ev[i].path \in Node
         /\ ev[i].op \in {"create", "write", "gone"}
<1>1. ev[i] \in Event
  BY ElementOfSeq
<1>. DEFINE e == ev[i]
<1>. HIDE DEF e
<1>2. e \in Event
  BY <1>1 DEF e
<1>3. e.path \in Path /\ e.op \in {"create", "write", "gone"}
  BY <1>2 DEF Event
<1>. QED
  BY <1>1, <1>3 DEF e, Node

LEMMA DoubtBelow ==
  ASSUME NEW U \in SUBSET Node, NEW a \in Node, NEW d \in Node, IsPrefix(a, d), Doubt(U, a)
  PROVE  Doubt(U, d)
<1>1. PICK u \in U : IsPrefix(u, a)
  BY DEF Doubt
<1>2. u \in Node
  OBVIOUS
<1>3. IsPrefix(u, d)
  BY <1>1, <1>2, PrefixThrough
<1>. QED
  BY <1>3 DEF Doubt

LEMMA LaterBelow ==
  ASSUME NEW ev \in Seq(Event), NEW i, NEW op, NEW a \in Node, NEW d \in Node,
         IsPrefix(a, d), Later(ev, i, op, a)
  PROVE  Later(ev, i, op, d)
<1>1. PICK j \in 1 .. Len(ev) : j > i /\ ev[j].op = op /\ IsPrefix(ev[j].path, a)
  BY DEF Later
<1>2. ev[j].path \in Node
  BY EventIs
<1>3. IsPrefix(ev[j].path, d)
  BY <1>1, <1>2, PrefixThrough
<1>. QED
  BY <1>1, <1>3 DEF Later

LEMMA ToldIsLater ==
  ASSUME NEW ev \in Seq(Event), NEW d \in Node, ToldOf(ev, d)
  PROVE  Later(ev, 0, "gone", d)
<1>1. PICK j \in 1 .. Len(ev) : ev[j].op = "gone" /\ ev[j].path = d
  BY DEF ToldOf
<1>2. j > 0
  <2>. DEFINE n == Len(ev)
  <2>1. n \in Nat
    BY LenProperties
  <2>. HIDE DEF n
  <2>2. j \in 1 .. n
    BY DEF n
  <2>. QED
    BY <2>1, <2>2
<1>3. IsPrefix(d, d)
  BY PrefixOfItself
<1>. QED
  BY <1>1, <1>2, <1>3 DEF Later

\* One more event.
LEMMA OneMore ==
  ASSUME NEW ev \in Seq(Event), NEW e \in Event, NEW w, w = ev \o <<e>>
  PROVE  /\ w \in Seq(Event) /\ Len(ev) \in Nat /\ Len(w) = Len(ev) + 1
         /\ Len(w) \in 1 .. Len(w)
         /\ \A i \in 1 .. Len(w) : i # Len(w) => i \in 1 .. Len(ev) /\ Len(w) > i
         /\ \A i \in 1 .. Len(ev) : i \in 1 .. Len(w) /\ w[i] = ev[i]
         /\ w[Len(w)] = e
<1>. DEFINE s == <<e>>
            n == Len(ev)
            m == Len(s)
            k == Len(w)
<1>1. s \in Seq(Event) /\ m = 1 /\ s[1] = e
  OBVIOUS
<1>2. n \in Nat
  BY LenProperties
<1>. HIDE DEF s
<1>3. w = ev \o s
  BY DEF s
<1>4. /\ w \in Seq(Event) /\ k = n + m
      /\ \A i \in 1 .. n + m : w[i] = IF i <= n THEN ev[i] ELSE s[i - n]
  BY <1>1, <1>3, Joined
<1>. HIDE DEF n, m, k
<1>5. k = n + 1
  BY <1>1, <1>2, <1>4
<1>10. k \in 1 .. n + m /\ ~(k <= n) /\ k - n = 1 /\ k \in 1 .. k
  BY <1>1, <1>2, <1>4
<1>6. w[k] = e /\ k \in 1 .. k
  BY <1>1, <1>4, <1>10
<1>7. \A i \in 1 .. n : i \in 1 .. k /\ i \in 1 .. n + m /\ i <= n
  BY <1>2, <1>4, <1>5
<1>8. \A i \in 1 .. k : i # k => i \in 1 .. n /\ k > i
  BY <1>2, <1>5
<1>9. \A i \in 1 .. n : w[i] = ev[i]
  BY <1>4, <1>7
<1>. QED
  BY <1>2, <1>4, <1>5, <1>6, <1>7, <1>8, <1>9 DEF n, k

LEMMA StillLater ==
  ASSUME NEW ev \in Seq(Event), NEW e \in Event, NEW w, w = ev \o <<e>>
  PROVE  /\ \A i, op, d : Later(ev, i, op, d) => Later(w, i, op, d)
         /\ \A d : ToldOf(w, d) <=> ToldOf(ev, d) \/ (e.op = "gone" /\ e.path = d)
         /\ \A i \in 1 .. Len(ev) : \A d : IsPrefix(e.path, d) => Later(w, i, e.op, d)
         /\ \A d : IsPrefix(e.path, d) => Later(w, 0, e.op, d)
<1>1. /\ Len(w) \in 1 .. Len(w) /\ w[Len(w)] = e
      /\ \A i \in 1 .. Len(w) : i # Len(w) => i \in 1 .. Len(ev)
      /\ \A i \in 1 .. Len(ev) : i \in 1 .. Len(w) /\ w[i] = ev[i]
  BY OneMore
<1>2. Len(w) > 0 /\ \A i \in 1 .. Len(ev) : Len(w) > i
  <2>. DEFINE n == Len(ev)
              k == Len(w)
  <2>1. n \in Nat /\ k = n + 1
    BY OneMore
  <2>. HIDE DEF n, k
  <2>2. k > 0 /\ \A i \in 1 .. n : k > i
    BY <2>1
  <2>. QED
    BY <2>2 DEF n, k
<1>3. \A i, op, d : Later(ev, i, op, d) => Later(w, i, op, d)
  BY <1>1 DEF Later
<1>4. ASSUME NEW d, ToldOf(w, d) PROVE ToldOf(ev, d) \/ (e.op = "gone" /\ e.path = d)
  BY <1>1, <1>4 DEF ToldOf
<1>5. ASSUME NEW d, ToldOf(ev, d) \/ (e.op = "gone" /\ e.path = d) PROVE ToldOf(w, d)
  BY <1>1, <1>5 DEF ToldOf
<1>6. ASSUME NEW i, Len(w) > i, NEW d, IsPrefix(e.path, d) PROVE Later(w, i, e.op, d)
  BY <1>1, <1>6 DEF Later
<1>. QED
  BY <1>2, <1>3, <1>4, <1>5, <1>6

\* One event less: t is ev without its head e.
Rest(ev, e, t) ==
  /\ e \in Event /\ t \in Seq(Event) /\ 1 \in 1 .. Len(ev) /\ ev[1] = e
  /\ \A i \in 1 .. Len(t) : i + 1 \in 1 .. Len(ev) /\ t[i] = ev[i + 1]
  /\ \A i \in 1 .. Len(t) : \A op, d : Later(ev, i + 1, op, d) => Later(t, i, op, d)
  /\ \A op, d : Later(ev, 1, op, d) => Later(t, 0, op, d)
  /\ \A op, d : Later(ev, 0, op, d) => Later(t, 0, op, d)
                                        \/ (e.op = op /\ IsPrefix(e.path, d))
  /\ \A d : ToldOf(ev, d) <=> ToldOf(t, d) \/ (e.op = "gone" /\ e.path = d)

LEMMA OneLess ==
  ASSUME NEW ev \in Seq(Event), ev # <<>>, NEW t, t = Tail(ev), NEW e, e = Head(ev)
  PROVE  Rest(ev, e, t)
<1>. DEFINE n == Len(ev)
            m == Len(t)
<1>1. /\ e \in Event /\ t \in Seq(Event) /\ n \in Nat \ {0} /\ m = n - 1 /\ e = ev[1]
      /\ \A i \in 1 .. m : t[i] = ev[i + 1]
  BY HeadAndTail
<1>2. /\ 1 \in 1 .. n /\ \A i \in 1 .. m : i + 1 \in 1 .. n
      /\ \A j \in 1 .. n : j = 1 \/ (j - 1 \in 1 .. m /\ j - 1 + 1 = j)
      /\ \A j \in 1 .. n : j > 1 => j - 1 > 0
      /\ ~(1 > 1) /\ \A j \in 1 .. n : j # 1 => j > 1
  <2>. HIDE DEF n, m
  <2>. QED
    BY <1>1
<1>3. \A i \in 1 .. m, j \in 1 .. n : j > i + 1 => j # 1 /\ j - 1 > i
  <2>. HIDE DEF n, m
  <2>. QED
    BY <1>1
<1>4. \A j \in 1 .. n : j # 1 => t[j - 1] = ev[j]
  BY <1>1, <1>2
<1>5. ASSUME NEW i \in 1 .. m, NEW op, NEW d, Later(ev, i + 1, op, d) PROVE Later(t, i, op, d)
  <2>1. PICK j \in 1 .. n : j > i + 1 /\ ev[j].op = op /\ IsPrefix(ev[j].path, d)
    BY <1>5 DEF Later
  <2>2. j - 1 \in 1 .. m /\ j - 1 > i /\ t[j - 1] = ev[j]
    BY <1>2, <1>3, <1>4, <2>1
  <2>. QED
    BY <2>1, <2>2 DEF Later
<1>6. ASSUME NEW op, NEW d, Later(ev, 1, op, d) PROVE Later(t, 0, op, d)
  <2>1. PICK j \in 1 .. n : j > 1 /\ ev[j].op = op /\ IsPrefix(ev[j].path, d)
    BY <1>6 DEF Later
  <2>2. j - 1 \in 1 .. m /\ j - 1 > 0 /\ t[j - 1] = ev[j]
    BY <1>2, <1>4, <2>1
  <2>. QED
    BY <2>1, <2>2 DEF Later
<1>7. ASSUME NEW op, NEW d, Later(ev, 0, op, d), ~(e.op = op /\ IsPrefix(e.path, d))
      PROVE  Later(ev, 1, op, d)
  <2>1. PICK j \in 1 .. n : ev[j].op = op /\ IsPrefix(ev[j].path, d)
    BY <1>7 DEF Later
  <2>2. j # 1
    BY <1>1, <1>7, <2>1
  <2>. QED
    BY <1>2, <2>1, <2>2 DEF Later
<1>8. ASSUME NEW d PROVE ToldOf(ev, d) <=> ToldOf(t, d) \/ (e.op = "gone" /\ e.path = d)
  <2>1. ASSUME ToldOf(t, d) PROVE ToldOf(ev, d)
    <3>1. PICK j \in 1 .. m : t[j].op = "gone" /\ t[j].path = d
      BY <2>1 DEF ToldOf
    <3>2. j + 1 \in 1 .. n /\ ev[j + 1] = t[j]
      BY <1>1, <1>2
    <3>. QED
      BY <3>1, <3>2 DEF ToldOf
  <2>2. ASSUME e.op = "gone" /\ e.path = d PROVE ToldOf(ev, d)
    BY <1>1, <1>2, <2>2 DEF ToldOf
  <2>3. ASSUME ToldOf(ev, d), ~(e.op = "gone" /\ e.path = d) PROVE ToldOf(t, d)
    <3>1. PICK j \in 1 .. n : ev[j].op = "gone" /\ ev[j].path = d
      BY <2>3 DEF ToldOf
    <3>2. j # 1
      BY <1>1, <2>3, <3>1
    <3>3. j - 1 \in 1 .. m /\ t[j - 1] = ev[j]
      BY <1>2, <1>4, <3>2
    <3>. QED
      BY <3>1, <3>3 DEF ToldOf
  <2>. QED
    BY <2>1, <2>2, <2>3
<1>. QED
  BY <1>1, <1>2, <1>5, <1>6, <1>7, <1>8 DEF Rest

\* The user removes x, a file or a directory with no directory below it: it is
\* told gone if the directory it was in is seen.
LEMMA RemovedSees ==
  ASSUME NEW D, NEW V, NEW W, NEW ev, NEW U, NEW R, Sees(D, V, W, ev, U, R),
         NEW x \in Path, \A d \in D : IsPrefix(x, d) => d = x,
         NEW e \in Event, e.op = "gone", e.path = x, NEW w,
         w = IF Front(x) \in V THEN ev \o <<e>> ELSE ev
  PROVE  Sees(D \ {x}, V \ {x}, W, w, U, R)
<1>. DEFINE E == D \ {x}
            T == V \ {x}
<1>1. /\ ev \in Seq(Event) /\ U \subseteq Node
      /\ D \subseteq Node /\ Root \in D /\ \A d \in D : \A c \in Node : IsPrefix(c, d) => c \in D
      /\ V \subseteq D /\ V \subseteq W /\ W \subseteq Node
  BY DEF Sees, Typed, DirsRight, SeenRight
<1>2. /\ Front(x) \in Node /\ x \in Node /\ Front(x) # x /\ IsPrefix(Front(x), x)
      /\ IsPrefix(x, x) /\ x # Root
  BY AboveEntry, NothingAboveRoot, PrefixOfItself
<1>3. w \in Seq(Event) /\ Len(ev) \in Nat
  <2>1. CASE Front(x) \in V
    BY <1>1, <2>1, OneMore
  <2>2. CASE Front(x) \notin V
    BY <1>1, <2>2, LenProperties
  <2>. QED
    BY <2>1, <2>2
<1>4. /\ \A i, op, d : Later(ev, i, op, d) => Later(w, i, op, d)
      /\ \A d : ToldOf(ev, d) => ToldOf(w, d)
      /\ \A d : ToldOf(w, d) => ToldOf(ev, d) \/ d = x
  <2>1. CASE Front(x) \in V
    BY <1>1, <2>1, StillLater
  <2>2. CASE Front(x) \notin V
    BY <2>2
  <2>. QED
    BY <2>1, <2>2
\* If x was seen its removal is told, or x is doubtful.
<1>5. ASSUME Front(x) \in V
      PROVE  /\ ToldOf(w, x) /\ Later(w, 0, "gone", x)
             /\ \A i \in 1 .. Len(ev) : Later(w, i, "gone", x)
  <2>1. w = ev \o <<e>>
    BY <1>5
  <2>2. /\ \A d : ToldOf(w, d) <=> ToldOf(ev, d) \/ (e.op = "gone" /\ e.path = d)
        /\ \A i \in 1 .. Len(ev) : \A d : IsPrefix(e.path, d) => Later(w, i, e.op, d)
        /\ \A d : IsPrefix(e.path, d) => Later(w, 0, e.op, d)
    BY <1>1, <2>1, StillLater
  <2>. QED
    BY <1>2, <2>2
<1>6. x \in V => Doubt(U, x) \/ Front(x) \in V
  BY <1>2 DEF Sees, SeenFromAbove
\* The directory of something seen, or of a directory, is not x.
<1>7. \A d \in D \cap Path : Front(d) # x
  <2>1. SUFFICES ASSUME NEW d \in D, d \in Path, Front(d) = x PROVE FALSE
    OBVIOUS
  <2>2. IsPrefix(x, d) /\ x # d
    BY <2>1, AboveEntry
  <2>. QED
    BY <2>2
<1>8. \A i \in 1 .. Len(w) : \/ i \in 1 .. Len(ev) /\ w[i] = ev[i]
                             \/ Front(x) \in V /\ w[i] = e
  <2>1. CASE Front(x) \in V
    <3>1. /\ w[Len(w)] = e
          /\ \A i \in 1 .. Len(w) : i # Len(w) => i \in 1 .. Len(ev)
          /\ \A i \in 1 .. Len(ev) : w[i] = ev[i]
      BY <1>1, <2>1, OneMore
    <3>. QED
      BY <2>1, <3>1
  <2>2. CASE Front(x) \notin V
    BY <2>2
  <2>. QED
    BY <2>1, <2>2
<1>9. Typed(w, U)
  BY <1>1, <1>3 DEF Typed
<1>10. DirsRight(E)
  <2>1. ASSUME NEW d \in E, NEW c \in Node, IsPrefix(c, d) PROVE c \in E
    BY <1>1, <2>1
  <2>. QED
    BY <1>1, <1>2, <2>1 DEF DirsRight
<1>11. SeenRight(E, T, W)
  BY <1>1 DEF SeenRight
<1>12. SeenAndGone(T, w, U)
  <2>1. SeenAndGone(V, ev, U)
    BY DEF Sees
  <2>. QED
    BY <1>4, <2>1 DEF SeenAndGone
<1>13. KnownAndBlind(T, W, w, U)
  <2>1. KnownAndBlind(V, W, ev, U)
    BY DEF Sees
  <2>2. ASSUME NEW d \in W PROVE d \in T \/ Doubt(U, d) \/ ToldOf(w, d)
    <3>1. d \in V \/ Doubt(U, d) \/ ToldOf(ev, d)
      BY <2>1 DEF KnownAndBlind
    <3>2. CASE d = x /\ d \in V
      BY <1>5, <1>6, <3>2
    <3>. QED
      BY <1>4, <3>1, <3>2
  <2>. QED
    BY <2>2 DEF KnownAndBlind
<1>14. SeenFromAbove(T, U)
  <2>1. SeenFromAbove(V, U)
    BY DEF Sees
  <2>2. ASSUME NEW d \in T, d # Root PROVE Doubt(U, d) \/ Front(d) \in T
    <3>1. d \in D /\ d \in Path
      BY <1>1, <2>2 DEF Node
    <3>2. Front(d) # x
      BY <1>7, <3>1
    <3>. QED
      BY <2>1, <2>2, <3>2 DEF SeenFromAbove
  <2>. QED
    BY <2>2 DEF SeenFromAbove
<1>15. EventsSeen(T, w, U)
  <2>1. EventsSeen(V, ev, U)
    BY DEF Sees
  <2>2. ASSUME NEW i \in 1 .. Len(w), NEW d, d = w[i].path
        PROVE  Doubt(U, d) \/ Front(d) \in T \/ Later(w, i, "gone", Front(d))
    <3>1. CASE Front(x) \in V /\ w[i] = e
      BY <1>2, <2>2, <3>1
    <3>2. CASE i \in 1 .. Len(ev) /\ w[i] = ev[i]
      <4>1. Doubt(U, d) \/ Front(d) \in V \/ Later(ev, i, "gone", Front(d))
        BY <2>1, <2>2, <3>2 DEF EventsSeen
      <4>2. CASE Front(d) = x /\ x \in V
        <5>1. CASE Doubt(U, x)
          <6>1. d \in Path
            BY <1>1, <2>2, <3>2, EventIs
          <6>2. d \in Node /\ IsPrefix(x, d)
            BY <4>2, <6>1, AboveEntry
          <6>. QED
            BY <1>1, <1>2, <5>1, <6>2, DoubtBelow
        <5>2. CASE Front(x) \in V
          BY <1>5, <3>2, <4>2, <5>2
        <5>. QED
          BY <1>6, <4>2, <5>1, <5>2
      <4>3. CASE Front(d) \in V /\ Front(d) # x
        BY <4>3
      <4>4. CASE Doubt(U, d) \/ Later(ev, i, "gone", Front(d))
        BY <1>4, <4>4
      <4>. QED
        BY <4>1, <4>2, <4>3, <4>4
    <3>. QED
      BY <1>8, <3>1, <3>2
  <2>. QED
    BY <2>2 DEF EventsSeen
<1>16. MadeAgain(E, w, U)
  <2>1. MadeAgain(D, ev, U)
    BY DEF Sees
  <2>2. ASSUME NEW d \in E, ~Doubt(U, d),
               NEW i \in 1 .. Len(w), w[i].op = "gone", IsPrefix(w[i].path, d)
        PROVE  Later(w, i, "create", d)
    <3>1. ~(w[i] = e)
      BY <2>2
    <3>2. i \in 1 .. Len(ev) /\ w[i] = ev[i]
      BY <1>8, <3>1
    <3>3. Later(ev, i, "create", d)
      BY <2>1, <2>2, <3>2 DEF MadeAgain
    <3>. QED
      BY <1>4, <3>3
  <2>. QED
    BY <2>2 DEF MadeAgain
<1>17. WatchFromAbove(E, T, w, U, R)
  <2>1. WatchFromAbove(D, V, ev, U, R)
    BY DEF Sees
  <2>2. ASSUME NEW d \in Path, Watch(d) \in R
        PROVE  Doubt(U, d) \/ Later(w, 0, "gone", d) \/ (Front(d) \in T /\ d \in E)
    <3>1. Doubt(U, d) \/ Later(ev, 0, "gone", d) \/ (Front(d) \in V /\ d \in D)
      BY <2>1, <2>2 DEF WatchFromAbove
    <3>2. CASE Front(d) \in V /\ d \in D
      <4>1. Front(d) # x
        BY <1>7, <3>2
      <4>2. d = x => Later(w, 0, "gone", d)
        BY <1>5, <3>2
      <4>. QED
        BY <3>2, <4>1, <4>2
    <3>. QED
      BY <1>4, <3>1, <3>2
  <2>. QED
    BY <2>2 DEF WatchFromAbove
<1>18. ListSeen(T, w, U, R)
  <2>1. ListSeen(V, ev, U, R)
    BY DEF Sees
  <2>2. ASSUME NEW d \in Node, List(d) \in R
        PROVE  Doubt(U, d) \/ Later(w, 0, "gone", d) \/ d \in T
    <3>1. Doubt(U, d) \/ Later(ev, 0, "gone", d) \/ d \in V
      BY <2>1, <2>2 DEF ListSeen
    <3>2. CASE d = x /\ d \in V
      BY <1>5, <1>6, <3>2
    <3>. QED
      BY <1>4, <3>1, <3>2
  <2>. QED
    BY <2>2 DEF ListSeen
<1>19. NoneForgotten(E, T, w, U, R)
  <2>1. NoneForgotten(D, V, ev, U, R)
    BY DEF Sees
  <2>. QED
    BY <1>4, <2>1 DEF NoneForgotten
<1>. HIDE DEF E, T
<1>20. Sees(E, T, W, w, U, R)
  BY <1>9, <1>10, <1>11, <1>12, <1>13, <1>14, <1>15, <1>16, <1>17, <1>18, <1>19 DEF Sees
<1>. QED
  BY <1>20 DEF E, T

\* The user makes or modifies y: that is told if the directory it is in is seen.
LEMMA ToldSees ==
  ASSUME NEW D, NEW V, NEW W, NEW ev, NEW U, NEW R, Sees(D, V, W, ev, U, R),
         NEW e \in Event, e.op # "gone", Front(e.path) \in V, NEW w, w = ev \o <<e>>
  PROVE  Sees(D, V, W, w, U, R)
<1>1. ev \in Seq(Event) /\ U \subseteq Node
  BY DEF Sees, Typed
<1>2. /\ \A i, op, d : Later(ev, i, op, d) => Later(w, i, op, d)
      /\ \A d : ToldOf(w, d) <=> ToldOf(ev, d)
  BY <1>1, StillLater
<1>3. \A i \in 1 .. Len(w) : w[i] = e \/ (i \in 1 .. Len(ev) /\ w[i] = ev[i])
  <2>1. /\ w[Len(w)] = e
        /\ \A i \in 1 .. Len(w) : i # Len(w) => i \in 1 .. Len(ev)
        /\ \A i \in 1 .. Len(ev) : w[i] = ev[i]
    BY <1>1, OneMore
  <2>. QED
    BY <2>1
<1>4. Typed(w, U)
  BY <1>1, OneMore DEF Typed
<1>5. SeenAndGone(V, w, U)
  <2>1. SeenAndGone(V, ev, U)
    BY DEF Sees
  <2>. QED
    BY <1>2, <2>1 DEF SeenAndGone
<1>6. KnownAndBlind(V, W, w, U)
  <2>1. KnownAndBlind(V, W, ev, U)
    BY DEF Sees
  <2>. QED
    BY <1>2, <2>1 DEF KnownAndBlind
<1>7. EventsSeen(V, w, U)
  <2>1. EventsSeen(V, ev, U)
    BY DEF Sees
  <2>2. ASSUME NEW i \in 1 .. Len(w), NEW d, d = w[i].path
        PROVE  Doubt(U, d) \/ Front(d) \in V \/ Later(w, i, "gone", Front(d))
    <3>1. CASE w[i] = e
      BY <2>2, <3>1
    <3>2. CASE i \in 1 .. Len(ev) /\ w[i] = ev[i]
      <4>1. Doubt(U, d) \/ Front(d) \in V \/ Later(ev, i, "gone", Front(d))
        BY <2>1, <2>2, <3>2 DEF EventsSeen
      <4>. QED
        BY <1>2, <4>1
    <3>. QED
      BY <1>3, <3>1, <3>2
  <2>. QED
    BY <2>2 DEF EventsSeen
<1>8. MadeAgain(D, w, U)
  <2>1. MadeAgain(D, ev, U)
    BY DEF Sees
  <2>2. ASSUME NEW d \in D, ~Doubt(U, d),
               NEW i \in 1 .. Len(w), w[i].op = "gone", IsPrefix(w[i].path, d)
        PROVE  Later(w, i, "create", d)
    <3>1. i \in 1 .. Len(ev) /\ w[i] = ev[i]
      BY <1>3, <2>2
    <3>2. Later(ev, i, "create", d)
      BY <2>1, <2>2, <3>1 DEF MadeAgain
    <3>. QED
      BY <1>2, <3>2
  <2>. QED
    BY <2>2 DEF MadeAgain
<1>9. WatchFromAbove(D, V, w, U, R)
  <2>1. WatchFromAbove(D, V, ev, U, R)
    BY DEF Sees
  <2>. QED
    BY <1>2, <2>1 DEF WatchFromAbove
<1>10. ListSeen(V, w, U, R)
  <2>1. ListSeen(V, ev, U, R)
    BY DEF Sees
  <2>. QED
    BY <1>2, <2>1 DEF ListSeen
<1>11. NoneForgotten(D, V, w, U, R)
  <2>1. NoneForgotten(D, V, ev, U, R)
    BY DEF Sees
  <2>. QED
    BY <1>2, <2>1 DEF NoneForgotten
<1>12. DirsRight(D) /\ SeenRight(D, V, W) /\ SeenFromAbove(V, U)
  BY DEF Sees
<1>. QED
  BY <1>4, <1>5, <1>6, <1>7, <1>8, <1>9, <1>10, <1>11, <1>12 DEF Sees

\* What was made is a directory.
LEMMA MadeSees ==
  ASSUME NEW D, NEW V, NEW W, NEW ev, NEW U, NEW R, Sees(D, V, W, ev, U, R),
         NEW y \in Path, Front(y) \in D,
         Front(y) \in V => ev # <<>> /\ ev[Len(ev)].op = "create" /\ ev[Len(ev)].path = y
  PROVE  Sees(D \cup {y}, V, W, ev, U, R)
<1>. DEFINE E == D \cup {y}
            f == Front(y)
<1>1. /\ ev \in Seq(Event) /\ U \subseteq Node
      /\ D \subseteq Node /\ Root \in D /\ \A d \in D : \A c \in Node : IsPrefix(c, d) => c \in D
      /\ V \subseteq D /\ V \subseteq W /\ W \subseteq Node
  BY DEF Sees, Typed, DirsRight, SeenRight
<1>2. /\ f \in Node /\ y \in Node /\ f # y /\ IsPrefix(f, y) /\ ~IsPrefix(y, f)
      /\ \A a \in Node : IsPrefix(a, y) /\ a # y => IsPrefix(a, f)
      /\ IsPrefix(y, y)
  BY AboveEntry, PrefixOfItself
<1>. HIDE DEF f
<1>3. Len(ev) \in Nat /\ (ev # <<>> => Len(ev) \in 1 .. Len(ev) /\ Len(ev) > 0)
  <2>. DEFINE n == Len(ev)
  <2>1. n \in Nat /\ (ev # <<>> => n \in Nat \ {0})
    BY <1>1, LenProperties, EmptySeq
  <2>. HIDE DEF n
  <2>2. n \in Nat /\ (ev # <<>> => n \in 1 .. n /\ n > 0)
    BY <2>1
  <2>. QED
    BY <2>2 DEF n
<1>4. \A i \in 1 .. Len(ev) : i # Len(ev) => Len(ev) > i
  <2>. DEFINE n == Len(ev)
  <2>. HIDE DEF n
  <2>1. n \in Nat
    BY <1>3 DEF n
  <2>2. \A i \in 1 .. n : i # n => n > i
    BY <2>1
  <2>. QED
    BY <2>2 DEF n
<1>5. DirsRight(E)
  <2>1. ASSUME NEW d \in E, NEW c \in Node, IsPrefix(c, d) PROVE c \in E
    <3>1. CASE d \in D
      BY <1>1, <2>1, <3>1
    <3>2. CASE d = y /\ c # y
      <4>1. IsPrefix(c, f) /\ f \in D
        BY <1>2, <2>1, <3>2 DEF f
      <4>. QED
        BY <1>1, <4>1
    <3>. QED
      BY <3>1, <3>2
  <2>. QED
    BY <1>1, <1>2, <2>1 DEF DirsRight
<1>6. SeenRight(E, V, W)
  BY <1>1 DEF SeenRight
<1>7. Doubt(U, f) => Doubt(U, y)
  BY <1>1, <1>2, DoubtBelow
<1>8. MadeAgain(E, ev, U)
  <2>1. MadeAgain(D, ev, U) /\ EventsSeen(V, ev, U)
    BY DEF Sees
  <2>2. ASSUME ~Doubt(U, y),
               NEW i \in 1 .. Len(ev), ev[i].op = "gone", IsPrefix(ev[i].path, f)
        PROVE  Later(ev, i, "create", y)
    <3>1. f \in D
      BY DEF f
    <3>2. Later(ev, i, "create", f)
      BY <1>7, <2>1, <2>2, <3>1 DEF MadeAgain
    <3>. QED
      BY <1>1, <1>2, <3>2, LaterBelow
  <2>3. ASSUME ~Doubt(U, y),
               NEW i \in 1 .. Len(ev), ev[i].op = "gone", IsPrefix(ev[i].path, y)
        PROVE  Later(ev, i, "create", y)
    <3>1. CASE f \in V
      <4>1. /\ ev[Len(ev)].op = "create" /\ IsPrefix(ev[Len(ev)].path, y)
            /\ Len(ev) \in 1 .. Len(ev)
        BY <1>2, <1>3, <3>1 DEF f
      <4>2. i # Len(ev)
        BY <2>3, <4>1
      <4>. QED
        BY <1>4, <4>1, <4>2 DEF Later
    <3>2. CASE f \notin V /\ ev[i].path = y
      <4>1. Doubt(U, y) \/ f \in V \/ Later(ev, i, "gone", f)
        BY <2>1, <3>2 DEF EventsSeen, f
      <4>2. PICK j \in 1 .. Len(ev) : j > i /\ ev[j].op = "gone" /\ IsPrefix(ev[j].path, f)
        BY <2>3, <3>2, <4>1 DEF Later
      <4>3. Later(ev, j, "create", y)
        BY <2>2, <2>3, <4>2
      <4>4. PICK k \in 1 .. Len(ev) : k > j /\ ev[k].op = "create" /\ IsPrefix(ev[k].path, y)
        BY <4>3 DEF Later
      <4>5. k > i
        <5>. DEFINE n == Len(ev)
        <5>. HIDE DEF n
        <5>1. i \in 1 .. n /\ j \in 1 .. n /\ k \in 1 .. n /\ n \in Nat
          BY <1>3 DEF n
        <5>. QED
          BY <4>2, <4>4, <5>1
      <4>. QED
        BY <4>4, <4>5 DEF Later
    <3>3. CASE ev[i].path # y
      <4>1. ev[i].path \in Node
        BY <1>1, EventIs
      <4>2. IsPrefix(ev[i].path, f)
        BY <1>2, <2>3, <3>3, <4>1
      <4>. QED
        BY <2>2, <2>3, <4>2
    <3>. QED
      BY <3>1, <3>2, <3>3
  <2>. QED
    BY <2>1, <2>3 DEF MadeAgain
<1>9. WatchFromAbove(E, V, ev, U, R)
  <2>1. WatchFromAbove(D, V, ev, U, R)
    BY DEF Sees
  <2>. QED
    BY <2>1 DEF WatchFromAbove
<1>10. NoneForgotten(E, V, ev, U, R)
  <2>1. NoneForgotten(D, V, ev, U, R)
    BY DEF Sees
  <2>2. Doubt(U, y) \/ Later(ev, 0, "create", y) \/ Reached(R, y)
    <3>1. CASE f \in V
      <4>1. /\ ev[Len(ev)].op = "create" /\ IsPrefix(ev[Len(ev)].path, y)
            /\ Len(ev) \in 1 .. Len(ev) /\ Len(ev) > 0
        BY <1>2, <1>3, <3>1 DEF f
      <4>. QED
        BY <4>1 DEF Later
    <3>2. CASE f \notin V
      <4>1. Doubt(U, f) \/ Later(ev, 0, "create", f) \/ Reached(R, f)
        BY <2>1, <3>2 DEF NoneForgotten, f
      <4>2. Later(ev, 0, "create", f) => Later(ev, 0, "create", y)
        BY <1>1, <1>2, LaterBelow
      <4>3. ASSUME Reached(R, f) PROVE Reached(R, y)
        <5>1. PICK a \in Node : IsPrefix(a, f) /\ (Watch(a) \in R \/ (List(a) \in R /\ a # f))
          BY <4>3 DEF Reached
        <5>2. IsPrefix(a, y) /\ a # y
          BY <1>2, <5>1, PrefixThrough
        <5>. QED
          BY <5>1, <5>2 DEF Reached
      <4>. QED
        BY <1>7, <4>1, <4>2, <4>3
    <3>. QED
      BY <3>1, <3>2
  <2>. QED
    BY <2>1, <2>2 DEF NoneForgotten
<1>11. /\ Typed(ev, U) /\ SeenAndGone(V, ev, U) /\ KnownAndBlind(V, W, ev, U)
       /\ SeenFromAbove(V, U) /\ EventsSeen(V, ev, U) /\ ListSeen(V, ev, U, R)
  BY DEF Sees
<1>. HIDE DEF E
<1>12. Sees(E, V, W, ev, U, R)
  BY <1>5, <1>6, <1>8, <1>9, <1>10, <1>11 DEF Sees
<1>. QED
  BY <1>12 DEF E

\* addTree comes to d: it is in watched already, gone, a file by now, or watched.
LEMMA WatchedSees ==
  ASSUME NEW D, NEW V, NEW W, NEW ev, NEW U, NEW Q, NEW d \in Node,
         Sees(D, V, W, ev, U, {Watch(d)} \cup Q),
         NEW V2, NEW W2, NEW U2,
         \/ /\ d \notin W /\ W2 = W \cup {d}
            /\ V2 = IF d \in D THEN V \cup {d} ELSE V
            /\ U2 = IF Later(ev, 0, "gone", d) THEN U \cup {d} ELSE U
         \/ (d \in W \/ d \notin D) /\ W2 = W /\ V2 = V /\ U2 = U
  PROVE  Sees(D, V2, W2, ev, U2, {List(d)} \cup Q)
<1>. DEFINE R == {Watch(d)} \cup Q
            S == {List(d)} \cup Q
<1>1. /\ ev \in Seq(Event) /\ U \subseteq Node
      /\ D \subseteq Node /\ Root \in D /\ \A b \in D : \A c \in Node : IsPrefix(c, b) => c \in D
      /\ V \subseteq D /\ V \subseteq W /\ W \subseteq Node
  BY DEF Sees, Typed, DirsRight, SeenRight
<1>2. /\ V \subseteq V2 /\ V2 \subseteq V \cup {d} /\ W \subseteq W2 /\ W2 \subseteq W \cup {d}
      /\ U \subseteq U2 /\ U2 \subseteq U \cup {d}
      /\ V2 \subseteq D /\ V2 \subseteq W2
  BY <1>1
<1>3. \A b : Doubt(U, b) => Doubt(U2, b)
  BY <1>2 DEF Doubt
<1>4. IsPrefix(d, d)
  BY PrefixOfItself
<1>5. d \in U2 => Doubt(U2, d)
  BY <1>4 DEF Doubt
\* It is seen now or sees nothing for a reason.
<1>6. d \in D \/ Doubt(U, d) \/ Later(ev, 0, "gone", d)
  <2>1. WatchFromAbove(D, V, ev, U, R)
    BY DEF Sees
  <2>2. CASE d \in Path
    BY <2>1, <2>2 DEF WatchFromAbove
  <2>. QED
    BY <1>1, <2>2 DEF Node
<1>7. KnownAndBlind(V, W, ev, U)
  BY DEF Sees
<1>8. d \in V2 \/ Doubt(U2, d) \/ Later(ev, 0, "gone", d)
  <2>1. CASE d \in W
    <3>1. d \in V \/ Doubt(U, d) \/ ToldOf(ev, d)
      BY <1>7, <2>1 DEF KnownAndBlind
    <3>. QED
      BY <1>1, <1>2, <1>3, <3>1, ToldIsLater
  <2>2. CASE d \notin W /\ d \in D
    BY <2>2
  <2>. QED
    BY <1>3, <1>6, <2>1, <2>2
<1>9. Typed(ev, U2)
  BY <1>1, <1>2 DEF Typed
<1>10. SeenRight(D, V2, W2)
  BY <1>1, <1>2 DEF SeenRight
<1>11. SeenAndGone(V2, ev, U2)
  <2>1. SeenAndGone(V, ev, U)
    BY DEF Sees
  <2>2. ASSUME NEW b \in V2, ToldOf(ev, b) PROVE b \in U2
    <3>1. CASE b \in V
      BY <1>2, <2>1, <2>2, <3>1 DEF SeenAndGone
    <3>2. CASE b \notin V
      <4>1. b = d /\ d \notin W
        BY <1>1, <1>2, <2>2, <3>2
      <4>2. Later(ev, 0, "gone", d)
        BY <1>1, <2>2, <4>1, ToldIsLater
      <4>. QED
        BY <2>2, <3>2, <4>1, <4>2
    <3>. QED
      BY <3>1, <3>2
  <2>. QED
    BY <2>2 DEF SeenAndGone
<1>12. KnownAndBlind(V2, W2, ev, U2)
  <2>1. ASSUME NEW b \in W2 PROVE b \in V2 \/ Doubt(U2, b) \/ ToldOf(ev, b)
    <3>1. CASE b \in W
      BY <1>2, <1>3, <1>7, <3>1 DEF KnownAndBlind
    <3>2. CASE b \notin W
      <4>1. b = d /\ d \notin W
        BY <1>2, <2>1, <3>2
      <4>. QED
        BY <1>3, <1>5, <1>8, <4>1
    <3>. QED
      BY <3>1, <3>2
  <2>. QED
    BY <2>1 DEF KnownAndBlind
<1>13. SeenFromAbove(V2, U2)
  <2>1. SeenFromAbove(V, U) /\ WatchFromAbove(D, V, ev, U, R)
    BY DEF Sees
  <2>2. ASSUME NEW b \in V2, b # Root PROVE Doubt(U2, b) \/ Front(b) \in V2
    <3>1. CASE b \in V
      BY <1>2, <1>3, <2>1, <2>2, <3>1 DEF SeenFromAbove
    <3>2. CASE b \notin V
      <4>1. b = d /\ d \notin W /\ d \in Path
        BY <1>1, <1>2, <2>2, <3>2 DEF Node
      <4>2. Doubt(U, d) \/ Later(ev, 0, "gone", d) \/ (Front(d) \in V /\ d \in D)
        BY <2>1, <4>1 DEF WatchFromAbove
      <4>. QED
        BY <1>2, <1>3, <1>5, <4>1, <4>2
    <3>. QED
      BY <3>1, <3>2
  <2>. QED
    BY <2>2 DEF SeenFromAbove
<1>14. EventsSeen(V2, ev, U2)
  <2>1. EventsSeen(V, ev, U)
    BY DEF Sees
  <2>. QED
    BY <1>2, <1>3, <2>1 DEF EventsSeen
<1>15. MadeAgain(D, ev, U2)
  <2>1. MadeAgain(D, ev, U)
    BY DEF Sees
  <2>. QED
    BY <1>3, <2>1 DEF MadeAgain
<1>16. \A b \in Node : /\ Watch(b) \in S => Watch(b) \in R
                       /\ List(b) \in S => List(b) \in R \/ b = d
                       /\ Watch(b) \in R => Watch(b) \in S \/ b = d
                       /\ List(b) \in R => List(b) \in S
                       /\ List(d) \in S
  <2>1. \A b \in Node : /\ Watch(b).do = "watch" /\ List(b).do = "list"
                        /\ Watch(b).path = b /\ List(b).path = b
    BY DEF Watch, List
  <2>. QED
    BY <2>1
<1>17. WatchFromAbove(D, V2, ev, U2, S)
  <2>1. WatchFromAbove(D, V, ev, U, R)
    BY DEF Sees
  <2>2. \A b \in Path : Watch(b) \in S => Watch(b) \in R
    BY <1>16 DEF Node
  <2>. QED
    BY <1>2, <1>3, <2>1, <2>2 DEF WatchFromAbove
<1>18. ListSeen(V2, ev, U2, S)
  <2>1. ListSeen(V, ev, U, R)
    BY DEF Sees
  <2>. QED
    BY <1>2, <1>3, <1>8, <1>16, <2>1 DEF ListSeen
<1>19. NoneForgotten(D, V2, ev, U2, S)
  <2>1. NoneForgotten(D, V, ev, U, R) /\ MadeAgain(D, ev, U)
    BY DEF Sees
  <2>2. ASSUME NEW b \in D, b \notin V2, ~Doubt(U2, b), ~Later(ev, 0, "create", b)
        PROVE  Reached(S, b)
    <3>1. Reached(R, b) /\ b \in Node
      BY <1>1, <1>2, <1>3, <2>1, <2>2 DEF NoneForgotten
    <3>2. PICK a \in Node : IsPrefix(a, b) /\ (Watch(a) \in R \/ (List(a) \in R /\ a # b))
      BY <3>1 DEF Reached
    <3>3. CASE b = d
      <4>1. d \in W
        BY <2>2, <3>3
      <4>2. ToldOf(ev, d)
        BY <1>2, <1>3, <1>7, <2>2, <3>3, <4>1 DEF KnownAndBlind
      <4>3. PICK j \in 1 .. Len(ev) : ev[j].op = "gone" /\ ev[j].path = d
        BY <4>2 DEF ToldOf
      <4>4. Later(ev, j, "create", d)
        BY <1>3, <1>4, <2>1, <2>2, <3>3, <4>3 DEF MadeAgain
      <4>5. Later(ev, 0, "create", d)
        <5>1. PICK k \in 1 .. Len(ev) : k > j /\ ev[k].op = "create" /\ IsPrefix(ev[k].path, d)
          BY <4>4 DEF Later
        <5>2. k > 0
          <6>. DEFINE n == Len(ev)
          <6>1. n \in Nat
            BY <1>1, LenProperties
          <6>. HIDE DEF n
          <6>2. k \in 1 .. n
            BY DEF n
          <6>. QED
            BY <6>1, <6>2
        <5>. QED
          BY <5>1, <5>2 DEF Later
      <4>. QED
        BY <2>2, <3>3, <4>5
    <3>4. CASE b # d /\ a = d
      BY <1>16, <3>2, <3>4 DEF Reached
    <3>5. CASE b # d /\ a # d
      BY <1>16, <3>2, <3>5 DEF Reached
    <3>. QED
      BY <3>3, <3>4, <3>5
  <2>. QED
    BY <2>2 DEF NoneForgotten
<1>20. DirsRight(D)
  BY DEF Sees
<1>. HIDE DEF S
<1>21. Sees(D, V2, W2, ev, U2, S)
  BY <1>9, <1>10, <1>11, <1>12, <1>13, <1>14, <1>15, <1>17, <1>18, <1>19, <1>20 DEF Sees
<1>. QED
  BY <1>21 DEF S

\* addTree lists d: the directories in it are next.
LEMMA ListedSees ==
  ASSUME NEW D, NEW V, NEW W, NEW ev, NEW U, NEW Q, NEW d \in Node,
         Sees(D, V, W, ev, U, {List(d)} \cup Q),
         NEW K, K = {c \in Path : Front(c) = d /\ c \in D}
  PROVE  Sees(D, V, W, ev, U, {Watch(c) : c \in K} \cup Q)
<1>. DEFINE R == {List(d)} \cup Q
            S == {Watch(c) : c \in K} \cup Q
<1>1. /\ ev \in Seq(Event) /\ U \subseteq Node
      /\ D \subseteq Node /\ \A b \in D : \A c \in Node : IsPrefix(c, b) => c \in D
  BY DEF Sees, Typed, DirsRight
<1>2. \A b \in Node : /\ Watch(b) \in S => Watch(b) \in R \/ b \in K
                      /\ List(b) \in S => List(b) \in R
                      /\ Watch(b) \in R => Watch(b) \in S
                      /\ List(b) \in R => List(b) \in S \/ b = d
                      /\ b \in K => Watch(b) \in S
                      /\ List(d) \in R
  <2>1. \A b \in Node : /\ Watch(b).do = "watch" /\ List(b).do = "list"
                        /\ Watch(b).path = b /\ List(b).path = b
    BY DEF Watch, List
  <2>2. K \subseteq Node
    BY DEF Node
  <2>. QED
    BY <2>1, <2>2
<1>3. WatchFromAbove(D, V, ev, U, S)
  <2>1. WatchFromAbove(D, V, ev, U, R) /\ ListSeen(V, ev, U, R)
    BY DEF Sees
  <2>2. ASSUME NEW b \in Path, Watch(b) \in S
        PROVE  Doubt(U, b) \/ Later(ev, 0, "gone", b) \/ (Front(b) \in V /\ b \in D)
    <3>1. CASE Watch(b) \in R
      BY <2>1, <3>1 DEF WatchFromAbove
    <3>2. CASE b \in K
      <4>1. Front(b) = d /\ b \in D /\ IsPrefix(d, b) /\ b \in Node
        BY <3>2, AboveEntry
      <4>2. Doubt(U, d) \/ Later(ev, 0, "gone", d) \/ d \in V
        BY <1>2, <2>1 DEF ListSeen
      <4>3. Doubt(U, d) => Doubt(U, b)
        BY <1>1, <4>1, DoubtBelow
      <4>4. Later(ev, 0, "gone", d) => Later(ev, 0, "gone", b)
        BY <1>1, <4>1, LaterBelow
      <4>. QED
        BY <4>1, <4>2, <4>3, <4>4
    <3>3. b \in Node
      BY DEF Node
    <3>. QED
      BY <1>2, <2>2, <3>1, <3>2, <3>3
  <2>. QED
    BY <2>2 DEF WatchFromAbove
<1>4. ListSeen(V, ev, U, S)
  <2>1. ListSeen(V, ev, U, R)
    BY DEF Sees
  <2>. QED
    BY <1>2, <2>1 DEF ListSeen
<1>5. NoneForgotten(D, V, ev, U, S)
  <2>1. NoneForgotten(D, V, ev, U, R)
    BY DEF Sees
  <2>2. ASSUME NEW b \in D, Reached(R, b) PROVE Reached(S, b)
    <3>1. PICK a \in Node : IsPrefix(a, b) /\ (Watch(a) \in R \/ (List(a) \in R /\ a # b))
      BY <2>2 DEF Reached
    <3>2. CASE Watch(a) \in R \/ (List(a) \in R /\ a # d /\ a # b)
      BY <1>2, <3>1, <3>2 DEF Reached
    <3>3. CASE a = d /\ a # b
      <4>1. b \in Path
        <5>1. b # Root
          <6>1. CASE d \in Path
            BY <3>1, <3>3, <6>1, NothingAboveRoot
          <6>. QED
            BY <3>3, <6>1 DEF Node
        <5>. QED
          BY <1>1, <5>1 DEF Node
      <4>2. PICK c \in Path : Front(c) = d /\ IsPrefix(c, b)
        BY <3>1, <3>3, <4>1, EntryTowards
      <4>3. c \in Node /\ c \in D
        BY <1>1, <4>2 DEF Node
      <4>4. Watch(c) \in S
        BY <4>2, <4>3
      <4>. QED
        BY <4>2, <4>3, <4>4 DEF Reached
    <3>. QED
      BY <3>1, <3>2, <3>3
  <2>. QED
    BY <2>1, <2>2 DEF NoneForgotten
<1>6. /\ Typed(ev, U) /\ DirsRight(D) /\ SeenRight(D, V, W)
      /\ SeenAndGone(V, ev, U) /\ KnownAndBlind(V, W, ev, U)
      /\ SeenFromAbove(V, U) /\ EventsSeen(V, ev, U) /\ MadeAgain(D, ev, U)
  BY DEF Sees
<1>. HIDE DEF S
<1>7. Sees(D, V, W, ev, U, S)
  BY <1>3, <1>4, <1>5, <1>6 DEF Sees
<1>. QED
  BY <1>7 DEF S

\* Handling e drops a watch and a name, or nothing.
Dropped(e, V, W, V2, W2) ==
  \/ e.op # "gone" /\ V2 = V /\ W2 = W
  \/ e.op = "gone" /\ V2 = V \ {e.path} /\ W2 = W \ {e.path}

\* What holds of the rest of the queue once its head is handled, apart from what
\* the handling does: V2 and W2 are what is seen and watched afterwards.
LEMMA RestOfQueue ==
  ASSUME NEW D, NEW V, NEW W, NEW ev, NEW U, Sees(D, V, W, ev, U, {}), ev # <<>>,
         NEW e, e = Head(ev), NEW t, t = Tail(ev),
         NEW V2, NEW W2, Dropped(e, V, W, V2, W2)
  PROVE  /\ Typed(t, U) /\ SeenRight(D, V2, W2) /\ SeenAndGone(V2, t, U)
         /\ KnownAndBlind(V2, W2, t, U) /\ SeenFromAbove(V2, U) /\ EventsSeen(V2, t, U)
         /\ MadeAgain(D, t, U)
<1>0. \/ e.op # "gone" /\ V2 = V /\ W2 = W
      \/ e.op = "gone" /\ V2 = V \ {e.path} /\ W2 = W \ {e.path}
  BY DEF Dropped
<1>1. ev \in Seq(Event) /\ U \subseteq Node /\ V \subseteq D /\ V \subseteq W /\ W \subseteq Node
      /\ D \subseteq Node
  BY DEF Sees, Typed, SeenRight, DirsRight
<1>2. /\ e \in Event /\ t \in Seq(Event) /\ 1 \in 1 .. Len(ev) /\ ev[1] = e
      /\ \A i \in 1 .. Len(t) : i + 1 \in 1 .. Len(ev) /\ t[i] = ev[i + 1]
      /\ \A i \in 1 .. Len(t) : \A op, d : Later(ev, i + 1, op, d) => Later(t, i, op, d)
      /\ \A d : ToldOf(ev, d) <=> ToldOf(t, d) \/ (e.op = "gone" /\ e.path = d)
  <2>1. Rest(ev, e, t)
    BY <1>1, OneLess
  <2>. QED
    BY <2>1 DEF Rest
<1>3. e.path \in Node
  BY <1>1, <1>2, EventIs
\* Dropping a watch costs something only if it was the watch of a suspect.
<1>4. ASSUME NEW d \in V, d \notin V2 PROVE d \in U
  <2>1. ToldOf(ev, d)
    BY <1>0, <1>2, <1>4
  <2>. QED
    BY <1>4, <2>1 DEF Sees, SeenAndGone
<1>5. \A d \in Path : Front(d) \in V /\ Front(d) \notin V2 => Doubt(U, d)
  <2>1. \A d \in Path : IsPrefix(Front(d), d)
    BY AboveEntry
  <2>. QED
    BY <1>4, <2>1 DEF Doubt
<1>6. Typed(t, U) /\ SeenRight(D, V2, W2)
  BY <1>0, <1>1, <1>2 DEF Typed, SeenRight
<1>7. SeenAndGone(V2, t, U)
  BY <1>0, <1>2 DEF Sees, SeenAndGone
<1>8. KnownAndBlind(V2, W2, t, U)
  <2>1. KnownAndBlind(V, W, ev, U)
    BY DEF Sees
  <2>2. ASSUME NEW d \in W2 PROVE d \in V2 \/ Doubt(U, d) \/ ToldOf(t, d)
    <3>1. d \in W /\ (e.op = "gone" => d # e.path)
      BY <1>0, <2>2
    <3>2. d \in V \/ Doubt(U, d) \/ ToldOf(ev, d)
      BY <2>1, <3>1 DEF KnownAndBlind
    <3>. QED
      BY <1>0, <1>2, <3>1, <3>2
  <2>. QED
    BY <2>2 DEF KnownAndBlind
<1>9. SeenFromAbove(V2, U)
  <2>1. SeenFromAbove(V, U)
    BY DEF Sees
  <2>2. ASSUME NEW d \in V2, d # Root PROVE Doubt(U, d) \/ Front(d) \in V2
    <3>1. d \in V /\ d \in Path
      BY <1>0, <1>1, <2>2 DEF Node
    <3>. QED
      BY <1>5, <2>1, <2>2, <3>1 DEF SeenFromAbove
  <2>. QED
    BY <2>2 DEF SeenFromAbove
<1>10. EventsSeen(V2, t, U)
  <2>1. EventsSeen(V, ev, U)
    BY DEF Sees
  <2>2. ASSUME NEW i \in 1 .. Len(t), NEW d, d = t[i].path
        PROVE  Doubt(U, d) \/ Front(d) \in V2 \/ Later(t, i, "gone", Front(d))
    <3>1. i + 1 \in 1 .. Len(ev) /\ t[i] = ev[i + 1]
      BY <1>2
    <3>2. Doubt(U, d) \/ Front(d) \in V \/ Later(ev, i + 1, "gone", Front(d))
      BY <2>1, <2>2, <3>1 DEF EventsSeen
    <3>3. d \in Path
      BY <1>2, <2>2, EventIs
    <3>. QED
      BY <1>2, <1>5, <3>2, <3>3
  <2>. QED
    BY <2>2 DEF EventsSeen
<1>11. MadeAgain(D, t, U)
  <2>1. MadeAgain(D, ev, U)
    BY DEF Sees
  <2>2. ASSUME NEW d \in D, ~Doubt(U, d),
               NEW i \in 1 .. Len(t), t[i].op = "gone", IsPrefix(t[i].path, d)
        PROVE  Later(t, i, "create", d)
    <3>1. i + 1 \in 1 .. Len(ev) /\ t[i] = ev[i + 1]
      BY <1>2
    <3>2. Later(ev, i + 1, "create", d)
      BY <2>1, <2>2, <3>1 DEF MadeAgain
    <3>. QED
      BY <1>2, <3>2
  <2>. QED
    BY <2>2 DEF MadeAgain
<1>. QED
  BY <1>6, <1>7, <1>8, <1>9, <1>10, <1>11

\* A directory is told made: addTree begins with it.
LEMMA HandledMadeSees ==
  ASSUME NEW D, NEW V, NEW W, NEW ev, NEW U, Sees(D, V, W, ev, U, {}), ev # <<>>,
         NEW e, e = Head(ev), e.op = "create", e.path \in D
  PROVE  Sees(D, V, W, Tail(ev), U, {Watch(e.path)})
<1>. DEFINE t == Tail(ev)
            R == {Watch(e.path)}
<1>1. ev \in Seq(Event) /\ U \subseteq Node /\ DirsRight(D)
  BY DEF Sees, Typed
<1>2. /\ e \in Event /\ t \in Seq(Event) /\ 1 \in 1 .. Len(ev) /\ ev[1] = e
      /\ \A op, d : Later(ev, 1, op, d) => Later(t, 0, op, d)
      /\ \A op, d : Later(ev, 0, op, d) => Later(t, 0, op, d) \/ (e.op = op /\ IsPrefix(e.path, d))
  <2>1. Rest(ev, e, t)
    BY <1>1, OneLess
  <2>. QED
    BY <2>1 DEF Rest
<1>3. /\ Typed(t, U) /\ SeenRight(D, V, W) /\ SeenAndGone(V, t, U)
      /\ KnownAndBlind(V, W, t, U) /\ SeenFromAbove(V, U) /\ EventsSeen(V, t, U)
      /\ MadeAgain(D, t, U)
  <2>1. Dropped(e, V, W, V, W)
    BY DEF Dropped
  <2>. QED
    BY <2>1, RestOfQueue
<1>4. e.path \in Path /\ e.path \in Node
  BY <1>1, <1>2, EventIs
<1>5. \A b : /\ Watch(b) \in R => b = e.path
             /\ List(b) \notin R
  BY DEF Watch, List
<1>6. WatchFromAbove(D, V, t, U, R)
  <2>1. EventsSeen(V, ev, U)
    BY DEF Sees
  <2>2. Doubt(U, e.path) \/ Front(e.path) \in V \/ Later(ev, 1, "gone", Front(e.path))
    BY <1>2, <2>1 DEF EventsSeen
  <2>3. Front(e.path) \in Node /\ IsPrefix(Front(e.path), e.path)
    BY <1>4, AboveEntry
  <2>4. Later(t, 0, "gone", Front(e.path)) => Later(t, 0, "gone", e.path)
    BY <1>2, <1>4, <2>3, LaterBelow
  <2>. QED
    BY <1>2, <1>5, <2>2, <2>4 DEF WatchFromAbove
<1>7. ListSeen(V, t, U, R)
  BY <1>5 DEF ListSeen
<1>8. NoneForgotten(D, V, t, U, R)
  <2>1. NoneForgotten(D, V, ev, U, {})
    BY DEF Sees
  <2>2. ASSUME NEW b \in D PROVE b \in V \/ Doubt(U, b) \/ Later(t, 0, "create", b) \/ Reached(R, b)
    <3>1. b \in V \/ Doubt(U, b) \/ Later(ev, 0, "create", b) \/ Reached({}, b)
      BY <2>1 DEF NoneForgotten
    <3>2. ~Reached({}, b)
      BY DEF Reached
    <3>3. IsPrefix(e.path, b) => Reached(R, b)
      BY <1>4 DEF Reached
    <3>. QED
      BY <1>2, <3>1, <3>2, <3>3
  <2>. QED
    BY <2>2 DEF NoneForgotten
<1>. QED
  BY <1>1, <1>3, <1>6, <1>7, <1>8 DEF Sees

\* Anything else is told: addTree has nothing to do.
LEMMA HandledElseSees ==
  ASSUME NEW D, NEW V, NEW W, NEW ev, NEW U, Sees(D, V, W, ev, U, {}), ev # <<>>,
         NEW e, e = Head(ev), e.op = "create" => e.path \notin D,
         NEW V2, NEW W2, Dropped(e, V, W, V2, W2)
  PROVE  Sees(D, V2, W2, Tail(ev), U, {})
<1>. DEFINE t == Tail(ev)
<1>1. ev \in Seq(Event) /\ U \subseteq Node /\ DirsRight(D) /\ V \subseteq D
  BY DEF Sees, Typed, SeenRight
<1>2. /\ e \in Event /\ t \in Seq(Event) /\ 1 \in 1 .. Len(ev) /\ ev[1] = e
      /\ \A op, d : Later(ev, 0, op, d) => Later(t, 0, op, d) \/ (e.op = op /\ IsPrefix(e.path, d))
      /\ \A d : ToldOf(ev, d) <=> ToldOf(t, d) \/ (e.op = "gone" /\ e.path = d)
  <2>1. Rest(ev, e, t)
    BY <1>1, OneLess
  <2>. QED
    BY <2>1 DEF Rest
<1>3. /\ Typed(t, U) /\ SeenRight(D, V2, W2) /\ SeenAndGone(V2, t, U)
      /\ KnownAndBlind(V2, W2, t, U) /\ SeenFromAbove(V2, U) /\ EventsSeen(V2, t, U)
      /\ MadeAgain(D, t, U)
  BY RestOfQueue
<1>4. e.path \in Node
  BY <1>1, <1>2, EventIs
<1>5. WatchFromAbove(D, V2, t, U, {}) /\ ListSeen(V2, t, U, {})
  BY DEF WatchFromAbove, ListSeen
<1>6. NoneForgotten(D, V2, t, U, {})
  <2>1. NoneForgotten(D, V, ev, U, {}) /\ SeenAndGone(V, ev, U)
    BY DEF Sees
  <2>2. ASSUME NEW b \in D
        PROVE  b \in V2 \/ Doubt(U, b) \/ Later(t, 0, "create", b) \/ Reached({}, b)
    <3>1. b \in V \/ Doubt(U, b) \/ Later(ev, 0, "create", b) \/ Reached({}, b)
      BY <2>1 DEF NoneForgotten
    <3>2. ASSUME e.op = "create" PROVE ~IsPrefix(e.path, b)
      BY <1>1, <1>4, <3>2 DEF DirsRight
    <3>3. CASE b \in V /\ b \notin V2
      <4>1. ToldOf(ev, b)
        BY <1>2, <3>3 DEF Dropped
      <4>2. b \in U /\ b \in Node
        BY <1>1, <2>1, <3>3, <4>1 DEF SeenAndGone
      <4>. QED
        BY <4>2, PrefixOfItself DEF Doubt
    <3>. QED
      BY <1>2, <3>1, <3>2, <3>3
  <2>. QED
    BY <2>2 DEF NoneForgotten
<1>. QED
  BY <1>1, <1>3, <1>5, <1>6 DEF Sees

\* Moving there and back.
LEMMA MovedBack ==
  ASSUME NEW p \in Path, NEW q \in Path, NEW x \in Below(p), NEW m \in Path, m = Moved(p, q, x)
  PROVE  m \in Below(q) /\ Moved(q, p, m) = x
<1>. DEFINE n == Len(p)
            k == Len(q)
            l == Len(x)
            h == Len(m)
<1>1. x \in Path /\ x \in Node /\ p \in Node /\ q \in Node /\ m \in Node
      /\ IsPrefix(p, x) /\ p # x
  BY DEF Below, IsStrictPrefix, Node
<1>2. n \in Nat \ {0} /\ k \in Nat \ {0} /\ l \in Nat \ {0} /\ h \in Nat \ {0}
  BY <1>1, PathIs
<1>3. n <= l /\ \A i \in 1 .. n : p[i] = x[i]
  BY <1>1, PrefixIs
<1>4. n # l
  BY <1>1, <1>3, SameNode
<1>5. PICK S : p \in Seq(S) /\ q \in Seq(S) /\ x \in Seq(S)
  <2>1. PICK A : p \in Seq(A)
    BY PathIs
  <2>2. PICK B : q \in Seq(B)
    BY PathIs
  <2>3. PICK C : x \in Seq(C)
    BY <1>1, PathIs
  <2>. DEFINE S == A \cup B \cup C
  <2>4. A \subseteq S /\ B \subseteq S /\ C \subseteq S
    OBVIOUS
  <2>. HIDE DEF S
  <2>5. p \in Seq(S) /\ q \in Seq(S) /\ x \in Seq(S)
    BY <2>1, <2>2, <2>3, <2>4, SeqMonotonic
  <2>. QED
    BY <2>5
<1>. DEFINE r == SubSeq(x, n + 1, l)
            g == Len(r)
<1>6. n + 1 \in Int /\ l \in Int /\ n + 1 <= l /\ l - (n + 1) + 1 = l - n
      /\ \A i \in n + 1 .. l : i \in 1 .. l
  <2>. HIDE DEF n, l
  <2>. QED
    BY <1>2, <1>3, <1>4
<1>7. \A i \in n + 1 .. l : x[i] \in S
  BY <1>5, <1>6, ElementOfSeq
<1>8. /\ r \in Seq(S) /\ g = (IF n + 1 <= l THEN l - (n + 1) + 1 ELSE 0)
      /\ \A i \in 1 .. l - (n + 1) + 1 : r[i] = x[n + 1 + i - 1]
  BY <1>6, <1>7, SubSeqProperties
<1>. HIDE DEF r
<1>9. g = l - n
  BY <1>6, <1>8
<1>10. \A i \in 1 .. l - n : r[i] = x[n + i]
  <2>1. \A i \in 1 .. l - n : i \in 1 .. l - (n + 1) + 1 /\ n + 1 + i - 1 = n + i
    <3>. HIDE DEF n, l
    <3>. QED
      BY <1>2, <1>6
  <2>. QED
    BY <1>8, <2>1
<1>11. m = q \o r
  BY DEF Moved, r
<1>12. /\ m \in Seq(S) /\ h = k + g
       /\ \A i \in 1 .. k + g : m[i] = IF i <= k THEN q[i] ELSE r[i - k]
  <2>. DEFINE w == q \o r
  <2>1. /\ w \in Seq(S) /\ Len(w) = k + g
        /\ \A i \in 1 .. k + g : w[i] = IF i <= k THEN q[i] ELSE r[i - k]
    BY <1>5, <1>8, Joined
  <2>2. m = w
    BY <1>11
  <2>. HIDE DEF w
  <2>. QED
    BY <2>1, <2>2
<1>13. h = k + (l - n)
  BY <1>9, <1>12
<1>14. m \in Below(q)
  <2>1. k <= h /\ \A i \in 1 .. k : i \in 1 .. k + g /\ i <= k
    <3>. HIDE DEF n, k, l, h, g
    <3>. QED
      BY <1>2, <1>3, <1>9, <1>13
  <2>2. \A i \in 1 .. k : q[i] = m[i]
    BY <1>12, <2>1
  <2>3. IsPrefix(q, m)
    BY <1>1, <2>1, <2>2, PrefixIs
  <2>4. k # h
    <3>. HIDE DEF n, k, l, h, g
    <3>. QED
      BY <1>2, <1>4, <1>13
  <2>. QED
    BY <2>3, <2>4 DEF Below, IsStrictPrefix
<1>. DEFINE s == SubSeq(m, k + 1, h)
<1>15. s = r
  <2>1. k + 1 \in Int /\ h \in Int /\ k + 1 <= h /\ h - (k + 1) + 1 = l - n
        /\ \A i \in k + 1 .. h : i \in 1 .. h
    <3>. HIDE DEF n, k, l, h, g
    <3>. QED
      BY <1>2, <1>3, <1>4, <1>13
  <2>2. \A i \in k + 1 .. h : m[i] \in S
    BY <1>12, <2>1, ElementOfSeq
  <2>3. /\ s \in Seq(S) /\ Len(s) = (IF k + 1 <= h THEN h - (k + 1) + 1 ELSE 0)
        /\ \A i \in 1 .. h - (k + 1) + 1 : s[i] = m[k + 1 + i - 1]
    BY <2>1, <2>2, SubSeqProperties
  <2>. HIDE DEF s
  <2>4. Len(s) = l - n
    BY <2>1, <2>3
  <2>5. \A i \in 1 .. l - n : /\ i \in 1 .. h - (k + 1) + 1 /\ k + 1 + i - 1 = k + i
                              /\ k + i \in 1 .. k + g /\ ~(k + i <= k) /\ k + i - k = i
    <3>. HIDE DEF n, k, l, h, g
    <3>. QED
      BY <1>2, <1>3, <1>9, <2>1
  <2>6. \A i \in 1 .. l - n : s[i] = r[i]
    <3>1. SUFFICES ASSUME NEW i \in 1 .. l - n PROVE s[i] = r[i]
      OBVIOUS
    <3>2. s[i] = m[k + i]
      BY <2>3, <2>5
    <3>. DEFINE j == k + i
    <3>3. j \in 1 .. k + g /\ ~(j <= k) /\ j - k = i
      BY <2>5
    <3>. HIDE DEF j
    <3>4. m[j] = r[j - k]
      BY <1>12, <3>3
    <3>5. m[j] = r[i]
      BY <3>3, <3>4
    <3>. QED
      BY <3>2, <3>5 DEF j
  <2>. QED
    BY <1>8, <1>9, <2>3, <2>4, <2>6, SeqEqual
<1>. DEFINE b == p \o r
<1>16. b = x
  <2>1. /\ b \in Seq(S) /\ Len(b) = n + g
        /\ \A i \in 1 .. n + g : b[i] = IF i <= n THEN p[i] ELSE r[i - n]
    BY <1>5, <1>8, Joined
  <2>. HIDE DEF b
  <2>2. Len(b) = l
    <3>1. n + g = l
      <4>. HIDE DEF n, l, g
      <4>. QED
        BY <1>2, <1>9
    <3>. QED
      BY <2>1, <3>1
  <2>3. \A i \in 1 .. l : b[i] = x[i]
    <3>1. SUFFICES ASSUME NEW i \in 1 .. l PROVE b[i] = x[i]
      OBVIOUS
    <3>2. i \in 1 .. n + g /\ (i <= n => i \in 1 .. n)
          /\ (~(i <= n) => i - n \in 1 .. l - n /\ n + (i - n) = i)
      <4>. HIDE DEF n, l, g
      <4>. QED
        BY <1>2, <1>9, <3>1
    <3>3. b[i] = IF i <= n THEN p[i] ELSE r[i - n]
      BY <2>1, <3>2
    <3>4. CASE i <= n
      BY <1>3, <3>2, <3>3, <3>4
    <3>5. CASE ~(i <= n)
      <4>. DEFINE j == i - n
      <4>1. j \in 1 .. l - n /\ n + j = i /\ b[i] = r[j]
        BY <3>2, <3>3, <3>5
      <4>. HIDE DEF j
      <4>2. r[j] = x[n + j]
        BY <1>10, <4>1
      <4>3. x[n + j] = x[i]
        BY <4>1
      <4>. QED
        BY <4>1, <4>2, <4>3
    <3>. QED
      BY <3>4, <3>5
  <2>. QED
    BY <1>5, <2>1, <2>2, <2>3, SeqEqual
<1>17. Moved(q, p, m) = b
  BY <1>15 DEF Moved
<1>. QED
  BY <1>14, <1>16, <1>17

\* The same of the state.
Dirs   == {d \in Node : IsDir(d)}
Eyes   == {d \in Node : kwatch[d] = d}
Adding == IF mode \in {"seed", "add"} THEN Range(todo) ELSE {}

\* A directory is watched by its own name or not at all.
OwnName == \A d \in Node : kwatch[d] = d \/ kwatch[d] = Unwatched

SightInv ==
  LiveInv /\ OwnName /\ Sees(Dirs, Eyes, watched, events, suspect, Adding)

\* What is watched by its own name reports its entries by theirs.
Told(op, p) == [op |-> op, path |-> p]

LEMMA OwnReport ==
  ASSUME OwnName, NEW op \in {"create", "write", "gone"}, NEW p \in Path
  PROVE  /\ Report(op, p) = IF Front(p) \in Eyes THEN <<Told(op, p)>> ELSE <<>>
         /\ Told(op, p) \in Event /\ Told(op, p).op = op /\ Told(op, p).path = p
<1>1. Front(p) \in Node /\ Append(Front(p), Last(p)) = p
  BY PathIs, NameIsWhole
<1>2. Front(p) # Unwatched
  BY <1>1, NothingAssumption
<1>3. kwatch[Front(p)] = Front(p) \/ kwatch[Front(p)] = Unwatched
  BY <1>1 DEF OwnName
<1>4. CASE kwatch[Front(p)] = Front(p)
  <2>1. Front(p) \in Eyes
    BY <1>1, <1>4 DEF Eyes
  <2>. QED
    BY <1>1, <1>2, <1>4, <2>1 DEF Report, Told, Event
<1>5. CASE kwatch[Front(p)] = Unwatched
  <2>1. Front(p) \notin Eyes
    BY <1>2, <1>5 DEF Eyes
  <2>. QED
    BY <1>5, <2>1 DEF Report, Told, Event
<1>. QED
  BY <1>3, <1>4, <1>5

LEMMA AllHeard ==
  ASSUME ~Overflow, NEW s, Notify(s)
  PROVE  events' = events \o s /\ UNCHANGED <<suspect, watcher, chan, index, walker>>
<1>. QED
  BY DEF Notify

\* A report of p in full.
Reported(ev, e, V, w) == w = IF Front(e.path) \in V THEN ev \o <<e>> ELSE ev

LEMMA ReportedIs ==
  ASSUME NEW ev \in Seq(Event), OwnName, NEW op \in {"create", "write", "gone"}, NEW p \in Path
  PROVE  /\ Reported(ev, Told(op, p), Eyes, ev \o Report(op, p))
         /\ ev \o Report(op, p) \in Seq(Event)
<1>. DEFINE e == Told(op, p)
<1>1. /\ Report(op, p) = IF Front(p) \in Eyes THEN <<e>> ELSE <<>>
      /\ e \in Event /\ e.path = p
  BY OwnReport
<1>. HIDE DEF e
<1>2. <<e>> \in Seq(Event) /\ <<>> \in Seq(Event)
  BY <1>1, OneIn
<1>3. CASE Front(p) \in Eyes
  <2>1. Report(op, p) = <<e>>
    BY <1>1, <1>3
  <2>2. ev \o <<e>> \in Seq(Event)
    BY <1>2, Joined
  <2>. QED
    BY <1>1, <1>3, <2>1, <2>2 DEF Reported, e
<1>4. CASE Front(p) \notin Eyes
  <2>1. Report(op, p) = <<>>
    BY <1>1, <1>4
  <2>2. ev \o <<>> = ev
    BY ConcatEmptySeq
  <2>. QED
    BY <1>1, <1>4, <2>1, <2>2 DEF Reported, e
<1>. QED
  BY <1>3, <1>4

\* Something is made at y, and is a directory or not.
LEMMA NewSees ==
  ASSUME NEW D, NEW V, NEW W, NEW ev, NEW U, NEW R, Sees(D, V, W, ev, U, R),
         NEW y \in Path, Front(y) \in D, NEW e \in Event, e.op \in {"create", "write"}, e.path = y,
         NEW w, Reported(ev, e, V, w)
  PROVE  /\ Sees(D, V, W, w, U, R)
         /\ e.op = "create" => Sees(D \cup {y}, V, W, w, U, R)
<1>1. ev \in Seq(Event)
  BY DEF Sees, Typed
<1>2. Sees(D, V, W, w, U, R)
  <2>1. CASE Front(y) \in V
    <3>1. w = ev \o <<e>>
      BY <2>1 DEF Reported
    <3>2. e.op # "gone" /\ Front(e.path) \in V
      BY <2>1
    <3>. QED
      BY <3>1, <3>2, ToldSees
  <2>2. CASE Front(y) \notin V
    BY <2>2 DEF Reported
  <2>. QED
    BY <2>1, <2>2
<1>3. ASSUME Front(y) \in V, e.op = "create"
      PROVE  w # <<>> /\ w[Len(w)].op = "create" /\ w[Len(w)].path = y
  <2>1. w = ev \o <<e>>
    BY <1>3 DEF Reported
  <2>2. w \in Seq(Event) /\ Len(ev) \in Nat /\ Len(w) = Len(ev) + 1 /\ w[Len(w)] = e
    BY <1>1, <2>1, OneMore
  <2>3. Len(w) # 0
    <3>. DEFINE n == Len(ev)
                m == Len(w)
    <3>. HIDE DEF n, m
    <3>1. n \in Nat /\ m = n + 1
      BY <2>2 DEF n, m
    <3>2. m # 0
      BY <3>1
    <3>. QED
      BY <3>2 DEF m
  <2>4. w # <<>>
    BY <2>3, EmptySeq
  <2>. QED
    BY <1>3, <2>2, <2>4
<1>4. ASSUME e.op = "create" PROVE Sees(D \cup {y}, V, W, w, U, R)
  BY <1>2, <1>3, <1>4, MadeSees
<1>. QED
  BY <1>2, <1>4

\* What a rename does to directories and watches.
LEMMA RenamedIs ==
  ASSUME FlatMove, LiveInv, OwnName,
         Sees(Dirs, Eyes, watched, events, suspect, Adding),
         NEW p \in Path, NEW q \in Path, Rename(p, q)
  PROVE  /\ OwnName' /\ Eyes' = Eyes \ {p}
         /\ Dirs' = IF tree[p] = "dir" THEN (Dirs \ {p}) \cup {q} ELSE Dirs \ {p}
         /\ \A d \in Dirs : IsPrefix(p, d) => d = p
<1>. DEFINE moving == {x \in Below(p) : tree[x] # "none"}
            under(x) == Moved(q, p, x)
            T(x) == IF x = q \/ (x \in Below(q) /\ under(x) \in moving) THEN tree[under(x)]
                    ELSE IF x = p \/ x \in Below(p) THEN "none" ELSE tree[x]
            K(x) == IF x \in Below(q) /\ under(x) \in moving THEN kwatch[under(x)]
                    ELSE IF x \in {p, q} \cup Below(p) THEN Unwatched ELSE kwatch[x]
<1>1. /\ tree[p] # "none" /\ tree[q] = "none"
      /\ tree' = [x \in Path |-> T(x)] /\ kwatch' = [x \in Node |-> K(x)]
  BY DEF Rename
<1>2. moving \subseteq Path /\ Path \subseteq Node /\ Root \notin Path /\ Root \in Node
      /\ Below(p) \subseteq Path /\ Below(q) \subseteq Path
  BY PathIs DEF Below, Node
<1>3. under(q) = p
  BY MovedItself
<1>4. DirsRight(Dirs) /\ Eyes \subseteq Dirs /\ Dirs \subseteq Node
  BY DEF Sees, SeenRight, DirsRight
<1>6. \A d \in Path : d \in Dirs <=> tree[d] = "dir"
  BY <1>2 DEF Dirs, IsDir, There
<1>5. \A d \in Below(p) : d \notin Dirs
  BY <1>2, <1>6 DEF FlatMove
<1>7. \A d \in Below(q) : d \notin Dirs
  <2>1. SUFFICES ASSUME NEW d \in Below(q), d \in Dirs PROVE FALSE
    OBVIOUS
  <2>2. q \in Node /\ IsPrefix(q, d)
    BY <1>2 DEF Below, IsStrictPrefix
  <2>3. q \in Dirs
    BY <1>4, <2>1, <2>2 DEF DirsRight
  <2>. QED
    BY <1>1, <1>6, <2>3
<1>8. \A x \in Path : x # Unwatched
  BY <1>2, NothingAssumption
<1>9. Root # Unwatched
  BY <1>2, NothingAssumption
<1>10. \A d \in Dirs : IsPrefix(p, d) => d = p
  <2>1. SUFFICES ASSUME NEW d \in Dirs, IsPrefix(p, d), d # p PROVE FALSE
    OBVIOUS
  <2>2. d \in Path
    <3>1. d # Root
      BY <2>1, NothingAboveRoot
    <3>. QED
      BY <1>4, <3>1 DEF Node
  <2>3. d \in Below(p)
    BY <2>1, <2>2 DEF Below, IsStrictPrefix
  <2>. QED
    BY <1>5, <2>1, <2>3
<1>. HIDE DEF moving, under
<1>11. ASSUME NEW x \in Path
       PROVE  T(x) = "dir" <=> (tree[p] = "dir" /\ x = q) \/ (x # p /\ tree[x] = "dir")
  <2>1. CASE x = q
    BY <1>1, <1>3, <2>1
  <2>2. CASE x # q /\ x \in Below(q) /\ under(x) \in moving
    <3>1. under(x) \in Below(p) /\ under(x) \in Path
      BY <1>2, <2>2 DEF moving
    <3>2. tree[under(x)] # "dir" /\ tree[x] # "dir"
      BY <1>5, <1>6, <1>7, <2>2, <3>1
    <3>. QED
      BY <2>2, <3>2
  <2>3. CASE x # q /\ ~(x \in Below(q) /\ under(x) \in moving)
    <3>1. x \in Below(p) => tree[x] # "dir"
      BY <1>5, <1>6
    <3>. QED
      BY <2>3, <3>1
  <2>. QED
    BY <2>1, <2>2, <2>3
<1>12. ASSUME NEW x \in Node
       PROVE  /\ K(x) = x \/ K(x) = Unwatched
              /\ K(x) = x <=> x # p /\ kwatch[x] = x
  <2>1. x # Unwatched /\ (x \in Eyes <=> kwatch[x] = x)
    BY NothingAssumption DEF Eyes
  <2>2. CASE x \in Below(q) /\ under(x) \in moving
    <3>1. under(x) \in Below(p) /\ under(x) \in Node
      BY <1>2, <2>2 DEF moving
    <3>2. under(x) \notin Eyes /\ x \notin Eyes
      BY <1>4, <1>5, <1>7, <2>2, <3>1
    <3>3. kwatch[under(x)] = Unwatched
      BY <3>1, <3>2 DEF Eyes, OwnName
    <3>. QED
      BY <2>1, <2>2, <3>2, <3>3
  <2>3. CASE ~(x \in Below(q) /\ under(x) \in moving)
    <3>1. x \in Below(p) \/ x = q => x \notin Eyes
      BY <1>1, <1>4, <1>5, <1>6
    <3>2. kwatch[x] = x \/ kwatch[x] = Unwatched
      BY DEF OwnName
    <3>. QED
      BY <2>1, <2>3, <3>1, <3>2
  <2>. QED
    BY <2>2, <2>3
<1>13. /\ \A x \in Path : tree'[x] = T(x)
       /\ \A x \in Node : kwatch'[x] = K(x)
  BY <1>1
<1>. HIDE DEF T, K
<1>15. OwnName'
  BY <1>12, <1>13 DEF OwnName
<1>16. Eyes' = Eyes \ {p}
  BY <1>12, <1>13 DEF Eyes
<1>17. \A x \in Node : x \in Dirs' <=> x = Root \/ (x \in Path /\ tree'[x] = "dir")
  BY <1>2 DEF Dirs, IsDir, There, Node
<1>18. \A x \in Node : x \in Dirs <=> x = Root \/ (x \in Path /\ tree[x] = "dir")
  BY <1>2 DEF Dirs, IsDir, There, Node
<1>19. Dirs \subseteq Node /\ Dirs' \subseteq Node /\ p \in Node /\ q \in Node /\ p # Root
  BY <1>2 DEF Dirs
<1>20. \A x \in Node : x \in Dirs' <=> x = Root \/ (x \in Path /\ ((tree[p] = "dir" /\ x = q)
                                                     \/ (x # p /\ tree[x] = "dir")))
  BY <1>11, <1>13, <1>17
<1>21. \A x \in Node : x \in Dirs' <=> (tree[p] = "dir" /\ x = q) \/ (x # p /\ x \in Dirs)
  BY <1>18, <1>19, <1>20
<1>22. Dirs' = IF tree[p] = "dir" THEN (Dirs \ {p}) \cup {q} ELSE Dirs \ {p}
  <2>1. CASE tree[p] = "dir"
    BY <1>19, <1>21, <2>1
  <2>2. CASE tree[p] # "dir"
    BY <1>19, <1>21, <2>2
  <2>. QED
    BY <2>1, <2>2
<1>. QED
  BY <1>10, <1>15, <1>16, <1>22

LEMMA UserSight ==
  ASSUME ~Overflow, FlatMove, SightInv, User
  PROVE  SightInv'
<1>. DEFINE S(D, V, w) == Sees(D, V, watched, w, suspect, Adding)
<1>1. LiveInv /\ OwnName /\ S(Dirs, Eyes, events) /\ events \in Seq(Event)
  BY DEF SightInv, Sees, Typed
<1>2. LiveInv'
  BY <1>1, UserKeeps
<1>3. DirsRight(Dirs) /\ Eyes \subseteq Dirs /\ Dirs \subseteq Node
  BY <1>1 DEF Sees, SeenRight, DirsRight
<1>4. \A p \in Path : /\ p \in Node /\ p # Root /\ Front(p) \in Node
                      /\ p # Unwatched
  BY PathIs, NothingAssumption DEF Node
<1>5. \A d \in Node : d \in Dirs <=> d = Root \/ (d \in Path /\ tree[d] = "dir")
  BY <1>4 DEF Dirs, IsDir, There, Node
<1>6. \A d \in Node : d \in Dirs' <=> d = Root \/ (d \in Path /\ tree'[d] = "dir")
  BY <1>4 DEF Dirs, IsDir, There, Node
<1>7. Dirs' \subseteq Node
  BY DEF Dirs
<1>8. SUFFICES /\ OwnName' /\ S(Dirs', Eyes', events')
               /\ UNCHANGED <<suspect, watcher, chan, index, walker>>
  BY <1>2 DEF SightInv, Adding, watcher
<1>9. ASSUME NEW p \in Path, NEW k \in Kind, Create(p, k)
      PROVE  /\ OwnName' /\ S(Dirs', Eyes', events')
             /\ UNCHANGED <<suspect, watcher, chan, index, walker>>
  <2>. DEFINE e == Told("create", p)
  <2>1. /\ tree[p] = "none" /\ IsDir(Front(p)) /\ (k = "dir" => p \in DirPath)
        /\ tree' = [tree EXCEPT ![p] = k] /\ kwatch' = kwatch
        /\ Notify(Report("create", p))
    BY <1>9 DEF Create
  <2>2. /\ events' = events \o Report("create", p)
        /\ UNCHANGED <<suspect, watcher, chan, index, walker>>
    BY <2>1, AllHeard
  <2>3. Reported(events, e, Eyes, events')
    BY <1>1, <2>2, ReportedIs
  <2>4. e \in Event /\ e.op = "create" /\ e.path = p
    BY <1>1, OwnReport
  <2>. HIDE DEF e
  <2>5. Front(p) \in Dirs
    BY <1>4, <2>1 DEF Dirs
  <2>6. S(Dirs, Eyes, events') /\ S(Dirs \cup {p}, Eyes, events')
    BY <1>1, <2>3, <2>4, <2>5, NewSees
  <2>7. tree \in [Path -> Kind \cup {"none"}]
    BY <1>1 DEF LiveInv, FsOK
  <2>8. OwnName' /\ Eyes' = Eyes
    BY <1>1, <2>1, <2>7 DEF OwnName, Eyes
  <2>9. \A d \in Node : d \in Dirs' <=> d \in Dirs \/ (k = "dir" /\ d = p)
    BY <1>4, <1>5, <1>6, <2>1, <2>7
  <2>10. Dirs' = IF k = "dir" THEN Dirs \cup {p} ELSE Dirs
    BY <1>3, <1>4, <1>7, <2>9
  <2>. HIDE DEF S
  <2>11. S(Dirs', Eyes', events')
    BY <2>6, <2>8, <2>10
  <2>. QED
    BY <2>2, <2>8, <2>11
<1>10. ASSUME NEW p \in Path, Modify(p)
       PROVE  /\ OwnName' /\ S(Dirs', Eyes', events')
              /\ UNCHANGED <<suspect, watcher, chan, index, walker>>
  <2>. DEFINE e == Told("write", p)
  <2>1. UNCHANGED <<tree, kwatch>> /\ Notify(Report("write", p))
    BY <1>10 DEF Modify
  <2>2. /\ events' = events \o Report("write", p)
        /\ UNCHANGED <<suspect, watcher, chan, index, walker>>
    BY <2>1, AllHeard
  <2>3. Reported(events, e, Eyes, events')
    BY <1>1, <2>2, ReportedIs
  <2>4. e \in Event /\ e.op = "write" /\ e.path = p
    BY <1>1, OwnReport
  <2>. HIDE DEF e
  <2>5. S(Dirs, Eyes, events')
    <3>1. CASE Front(p) \in Eyes
      <4>1. events' = events \o <<e>> /\ e.op # "gone" /\ Front(e.path) \in Eyes
        BY <2>3, <2>4, <3>1 DEF Reported
      <4>. QED
        BY <1>1, <2>4, <4>1, ToldSees
    <3>2. CASE Front(p) \notin Eyes
      BY <1>1, <2>3, <2>4, <3>2 DEF Reported
    <3>. QED
      BY <3>1, <3>2
  <2>6. OwnName' /\ Eyes' = Eyes /\ Dirs' = Dirs
    BY <1>1, <2>1 DEF OwnName, Eyes, Dirs, IsDir, There
  <2>. HIDE DEF S
  <2>. QED
    BY <2>2, <2>5, <2>6
<1>11. ASSUME NEW p \in Path, Delete(p)
       PROVE  /\ OwnName' /\ S(Dirs', Eyes', events')
              /\ UNCHANGED <<suspect, watcher, chan, index, walker>>
  <2>. DEFINE e == Told("gone", p)
  <2>1. /\ Children(p) = {} /\ tree' = [tree EXCEPT ![p] = "none"]
        /\ kwatch' = [kwatch EXCEPT ![p] = Unwatched]
        /\ Notify(Report("gone", p))
    BY <1>11 DEF Delete
  <2>2. /\ events' = events \o Report("gone", p)
        /\ UNCHANGED <<suspect, watcher, chan, index, walker>>
    BY <2>1, AllHeard
  <2>3. Reported(events, e, Eyes, events')
    BY <1>1, <2>2, ReportedIs
  <2>4. e \in Event /\ e.op = "gone" /\ e.path = p
    BY <1>1, OwnReport
  <2>. HIDE DEF e
  <2>5. \A d \in Dirs : IsPrefix(p, d) => d = p
    <3>1. SUFFICES ASSUME NEW d \in Dirs, IsPrefix(p, d), d # p PROVE FALSE
      OBVIOUS
    <3>2. d \in Path /\ p \in Node
      <4>1. d # Root
        BY <3>1, NothingAboveRoot
      <4>. QED
        BY <1>3, <1>4, <4>1 DEF Node
    <3>3. PICK c \in Path : Front(c) = p /\ IsPrefix(c, d)
      BY <3>1, <3>2, EntryTowards
    <3>4. c \in Dirs
      BY <1>3, <1>4, <3>3 DEF DirsRight
    <3>5. c \in Children(p)
      BY <1>4, <1>5, <3>3, <3>4 DEF Children
    <3>. QED
      BY <2>1, <3>5
  <2>6. S(Dirs \ {p}, Eyes \ {p}, events')
    BY <1>1, <2>3, <2>4, <2>5, RemovedSees DEF Reported
  <2>7. /\ tree \in [Path -> Kind \cup {"none"}]
        /\ kwatch \in [Node -> Node \cup {Unwatched}]
    BY <1>1 DEF LiveInv, FsOK
  <2>8. /\ \A d \in Path : tree'[d] = IF d = p THEN "none" ELSE tree[d]
        /\ \A d \in Node : kwatch'[d] = IF d = p THEN Unwatched ELSE kwatch[d]
    BY <1>4, <2>1, <2>7
  <2>9. OwnName' /\ Eyes' = Eyes \ {p}
    BY <1>1, <1>4, <2>8 DEF OwnName, Eyes
  <2>10. \A d \in Node : d \in Dirs' <=> d \in Dirs /\ d # p
    BY <1>4, <1>5, <1>6, <2>8
  <2>11. Dirs' = Dirs \ {p}
    BY <1>3, <1>7, <2>10
  <2>. HIDE DEF S
  <2>. QED
    BY <2>2, <2>6, <2>9, <2>11
<1>12. ASSUME NEW p \in Path, NEW q \in Path, Rename(p, q)
       PROVE  /\ OwnName' /\ S(Dirs', Eyes', events')
              /\ UNCHANGED <<suspect, watcher, chan, index, walker>>
  <2>. DEFINE e == Told("gone", p)
              f == Told("create", q)
              ev == events \o Report("gone", p)
              w == ev \o Report("create", q)
              D == Dirs \ {p}
              V == Eyes \ {p}
  <2>1. /\ tree[p] # "none" /\ tree[q] = "none" /\ IsDir(Front(q)) /\ ~IsPrefix(p, q)
        /\ Notify(Report("gone", p) \o Report("create", q))
    BY <1>12 DEF Rename
  <2>2. /\ events' = events \o (Report("gone", p) \o Report("create", q))
        /\ UNCHANGED <<suspect, watcher, chan, index, walker>>
    BY <2>1, AllHeard
  <2>3. OwnName' /\ Eyes' = V
        /\ Dirs' = (IF tree[p] = "dir" THEN D \cup {q} ELSE D)
        /\ \A d \in Dirs : IsPrefix(p, d) => d = p
    BY <1>1, <1>12, RenamedIs
  <2>4. /\ e \in Event /\ e.op = "gone" /\ e.path = p
        /\ f \in Event /\ f.op = "create" /\ f.path = q
    BY <1>1, OwnReport
  <2>5. events' = w
    <3>1. Report("gone", p) \in Seq(Event) /\ Report("create", q) \in Seq(Event)
      BY <1>1, ReportTyped DEF LiveInv
    <3>. QED
      BY <1>1, <2>2, <3>1, ConcatAssociative
  <2>6. Reported(events, e, Eyes, ev) /\ ev \in Seq(Event)
    BY <1>1, ReportedIs
  <2>7. Reported(ev, f, Eyes, w)
    BY <1>1, <2>6, ReportedIs
  <2>8. Front(q) \in Dirs /\ Front(q) # p
    <3>1. IsPrefix(Front(q), q)
      BY AboveEntry
    <3>. QED
      BY <1>4, <2>1, <3>1 DEF Dirs
  <2>. HIDE DEF e, f, ev, w
  <2>9. Reported(ev, f, V, w)
    BY <2>4, <2>7, <2>8 DEF Reported
  <2>10. S(D, V, ev)
    BY <1>1, <2>3, <2>4, <2>6, RemovedSees DEF Reported
  <2>11. S(D, V, w) /\ S(D \cup {q}, V, w)
    <3>1. Front(q) \in D
      BY <2>8
    <3>. HIDE DEF D, V
    <3>. QED
      BY <2>4, <2>9, <2>10, <3>1, NewSees
  <2>. HIDE DEF S, D, V
  <2>12. S(Dirs', Eyes', events')
    BY <2>3, <2>5, <2>11
  <2>. QED
    BY <2>2, <2>3, <2>12
<1>. QED
  BY <1>9, <1>10, <1>11, <1>12 DEF User

LEMMA StepWhole ==
  ASSUME NEW s \in Step
  PROVE  /\ s.do = "watch" => s = Watch(s.path)
         /\ s.do = "list" => s = List(s.path)
<1>. QED
  BY DEF Step, Watch, List

\* What is left of the watcher's tuple, when addTree takes a step.
LEMMA AddWatchSight ==
  ASSUME SightInv, AddWatch
  PROVE  SightInv'
<1>. DEFINE d == Head(todo).path
            Q == Range(Tail(todo))
<1>1. LiveInv /\ OwnName /\ Sees(Dirs, Eyes, watched, events, suspect, Adding)
  BY DEF SightInv
<1>2. WatcherOK /\ FsOK /\ EventsOK
  BY <1>1 DEF LiveInv
<1>3. /\ mode \in {"seed", "add"} /\ todo # <<>> /\ Head(todo).do = "watch"
      /\ todo' = <<List(d)>> \o Tail(todo)
      /\ UNCHANGED <<tree, ops, events, mode, base, chan, index, walker>>
      /\ IF d \notin watched /\ There(d) # "none"
         THEN /\ watched' = watched \cup {d}
              /\ kwatch' = IF IsDir(d) THEN [kwatch EXCEPT ![d] = d] ELSE kwatch
              /\ suspect' = IF ToldGone(d) THEN suspect \cup {d} ELSE suspect
         ELSE UNCHANGED <<watched, kwatch, suspect>>
  BY DEF AddWatch, At
<1>4. LiveInv'
  BY <1>1, AddWatchKeeps
<1>5. d \in Node /\ Head(todo) = Watch(d)
  BY <1>2, <1>3, TodoHead, StepIs, StepWhole
<1>6. Adding = {Watch(d)} \cup Q
  BY <1>2, <1>3, <1>5, TodoHead DEF Adding
<1>7. Adding' = {List(d)} \cup Q
  <2>1. /\ Tail(todo) \in Seq(Step) /\ <<List(d)>> \in Seq(Step)
        /\ Range(<<List(d)>>) = {List(d)}
    BY <1>2, <1>3, <1>5, TodoHead, StepsMade, OneIn
  <2>2. Range(todo') = {List(d)} \cup Q
    <3>. DEFINE f == <<List(d)>>
                t == Tail(todo)
    <3>1. f \in Seq(Step) /\ t \in Seq(Step) /\ Range(f) = {List(d)} /\ todo' = f \o t
      BY <1>3, <2>1
    <3>. HIDE DEF f, t
    <3>2. Range(f \o t) = Range(f) \cup Range(t)
      BY <3>1, Joined
    <3>. QED
      BY <3>1, <3>2 DEF t
  <2>. QED
    BY <1>3, <2>2 DEF Adding
<1>8. ToldGone(d) <=> Later(events, 0, "gone", d)
  <2>1. DOMAIN events = 1 .. Len(events) /\ Len(events) \in Nat
    BY <1>2, LenProperties DEF EventsOK
  <2>2. \A j \in 1 .. Len(events) : j > 0
    <3>. DEFINE n == Len(events)
    <3>. HIDE DEF n
    <3>1. n \in Nat
      BY <2>1 DEF n
    <3>2. \A j \in 1 .. n : j > 0
      BY <3>1
    <3>. QED
      BY <3>2 DEF n
  <2>. QED
    BY <2>1, <2>2 DEF ToldGone, Later
<1>. HIDE DEF d, Q
<1>9. Dirs' = Dirs /\ (d \in Dirs <=> IsDir(d)) /\ (There(d) = "none" => d \notin Dirs)
  BY <1>3, <1>5 DEF Dirs, IsDir, There
<1>10. OwnName' /\ Eyes' = IF d \notin watched /\ There(d) # "none" /\ IsDir(d)
                           THEN Eyes \cup {d} ELSE Eyes
  <2>1. kwatch \in [Node -> Node \cup {Unwatched}]
    BY <1>2 DEF FsOK
  <2>2. CASE d \notin watched /\ There(d) # "none" /\ IsDir(d)
    <3>1. \A x \in Node : kwatch'[x] = IF x = d THEN d ELSE kwatch[x]
      BY <1>3, <1>5, <2>1, <2>2
    <3>2. \A x \in Node : kwatch'[x] = x <=> x = d \/ kwatch[x] = x
      BY <3>1
    <3>3. Eyes' = Eyes \cup {d}
      BY <1>5, <3>2 DEF Eyes
    <3>4. OwnName'
      BY <1>1, <3>1 DEF OwnName
    <3>. QED
      BY <2>2, <3>3, <3>4
  <2>3. CASE ~(d \notin watched /\ There(d) # "none" /\ IsDir(d))
    <3>1. kwatch' = kwatch
      BY <1>3, <2>3
    <3>2. OwnName' /\ Eyes' = Eyes
      BY <1>1, <3>1 DEF OwnName, Eyes
    <3>. QED
      BY <2>3, <3>2
  <2>. QED
    BY <2>2, <2>3
<1>12. Sees(Dirs, Eyes', watched', events, suspect', {List(d)} \cup Q)
  <2>1. Sees(Dirs, Eyes, watched, events, suspect, {Watch(d)} \cup Q)
    BY <1>1, <1>6
  <2>2. CASE d \notin watched /\ There(d) # "none"
    <3>1. /\ d \notin watched /\ watched' = watched \cup {d}
          /\ Eyes' = (IF d \in Dirs THEN Eyes \cup {d} ELSE Eyes)
          /\ suspect' = (IF Later(events, 0, "gone", d) THEN suspect \cup {d} ELSE suspect)
      BY <1>3, <1>8, <1>9, <1>10, <2>2
    <3>. QED
      BY <1>5, <2>1, <3>1, WatchedSees
  <2>3. CASE ~(d \notin watched /\ There(d) # "none")
    <3>1. /\ d \in watched \/ d \notin Dirs
          /\ watched' = watched /\ Eyes' = Eyes /\ suspect' = suspect
      BY <1>3, <1>9, <1>10, <2>3
    <3>. QED
      BY <1>5, <2>1, <3>1, WatchedSees
  <2>. QED
    BY <2>2, <2>3
<1>. QED
  BY <1>3, <1>4, <1>7, <1>9, <1>10, <1>12 DEF SightInv

LEMMA AddListSight ==
  ASSUME SightInv, AddList
  PROVE  SightInv'
<1>. DEFINE d == Head(todo).path
            Q == Range(Tail(todo))
            K == {c \in Path : Front(c) = d /\ c \in Dirs}
<1>1. LiveInv /\ OwnName /\ Sees(Dirs, Eyes, watched, events, suspect, Adding)
  BY DEF SightInv
<1>2. WatcherOK
  BY <1>1 DEF LiveInv
<1>3. /\ mode \in {"seed", "add"} /\ todo # <<>> /\ Head(todo).do = "list"
      /\ todo' = Descend(d) \o Tail(todo)
      /\ UNCHANGED <<fs, events, watched, mode, base, chan, index, walker>>
  BY DEF AddList, At
<1>4. LiveInv'
  BY <1>1, AddListKeeps
<1>5. d \in Node /\ Head(todo) = List(d)
  BY <1>2, <1>3, TodoHead, StepIs, StepWhole
<1>6. Adding = {List(d)} \cup Q
  BY <1>2, <1>3, <1>5, TodoHead DEF Adding
<1>7. Range(Descend(d)) = {Watch(c) : c \in K}
  <2>1. \A c \in Path : c \in Dirs <=> tree[c] = "dir"
    BY PathIs DEF Dirs, IsDir, There, Node
  <2>2. CASE IsDir(d)
    <3>1. {q \in Children(d) : tree[q] = "dir"} = K
      BY <2>1 DEF Children
    <3>. QED
      BY <2>2, <3>1, DescendIs
  <2>3. CASE ~IsDir(d)
    <3>1. d \notin Dirs
      BY <2>3 DEF Dirs
    <3>2. \A c \in Path : c \in Dirs => Front(c) \in Dirs
      <4>1. DirsRight(Dirs)
        BY <1>1 DEF Sees
      <4>2. \A c \in Path : Front(c) \in Node /\ IsPrefix(Front(c), c)
        BY AboveEntry
      <4>. QED
        BY <4>1, <4>2 DEF DirsRight
    <3>3. K = {}
      BY <3>1, <3>2
    <3>4. {Watch(c) : c \in K} = {}
      BY <3>3
    <3>. QED
      BY <2>3, <3>4, DescendIs
  <2>. QED
    BY <2>2, <2>3
<1>8. Adding' = {Watch(c) : c \in K} \cup Q
  <2>1. Tail(todo) \in Seq(Step) /\ Descend(d) \in Seq(Step)
    BY <1>2, <1>3, TodoHead, DescendIs
  <2>2. Range(todo') = {Watch(c) : c \in K} \cup Q
    <3>. DEFINE f == Descend(d)
                t == Tail(todo)
    <3>1. f \in Seq(Step) /\ t \in Seq(Step) /\ todo' = f \o t
      BY <1>3, <2>1
    <3>2. Range(f) = {Watch(c) : c \in K}
      BY <1>7
    <3>. HIDE DEF f, t, K, d
    <3>3. Range(f \o t) = Range(f) \cup Range(t)
      BY <3>1, Joined
    <3>. QED
      BY <3>1, <3>2, <3>3 DEF t
  <2>. QED
    BY <1>3, <2>2 DEF Adding
<1>9. Sees(Dirs, Eyes, watched, events, suspect, {Watch(c) : c \in K} \cup Q)
  <2>1. Sees(Dirs, Eyes, watched, events, suspect, {List(d)} \cup Q)
    BY <1>1, <1>6
  <2>. HIDE DEF d, Q
  <2>. QED
    BY <1>5, <2>1, ListedSees
<1>10. /\ Dirs' = Dirs /\ Eyes' = Eyes /\ OwnName'
       /\ watched' = watched /\ events' = events /\ suspect' = suspect
  BY <1>1, <1>3 DEF Dirs, Eyes, OwnName, IsDir, There, fs
<1>. HIDE DEF K, Q
<1>. QED
  BY <1>4, <1>8, <1>9, <1>10 DEF SightInv

LEMMA HandleSight ==
  ASSUME SightInv, Handle
  PROVE  SightInv'
<1>. DEFINE e == Head(events)
<1>1. LiveInv /\ OwnName /\ Sees(Dirs, Eyes, watched, events, suspect, Adding)
  BY DEF SightInv
<1>2. FsOK /\ EventsOK /\ LiveInv'
  BY <1>1, HandleKeeps DEF LiveInv
<1>3. /\ mode = "idle" /\ events # <<>> /\ events' = Tail(events)
      /\ UNCHANGED <<tree, ops, suspect, chan, index, walker>>
      /\ \/ /\ e.op = "create" /\ tree[e.path] = "dir"
            /\ mode' = "add" /\ base' = e.path /\ todo' = <<Watch(e.path)>>
            /\ UNCHANGED <<watched, kwatch>>
         \/ /\ e.op \in {"create", "write"} /\ tree[e.path] = "file"
            /\ mode' = "walk" /\ base' = Root /\ todo' = <<Use(e.path, "file")>>
            /\ UNCHANGED <<watched, kwatch>>
         \/ /\ \/ e.op = "create" /\ tree[e.path] = "none"
               \/ e.op = "write" /\ tree[e.path] # "file"
            /\ UNCHANGED <<mode, base, todo, watched, kwatch>>
         \/ /\ e.op = "gone"
            /\ mode' = "walk" /\ base' = Root /\ todo' = <<Use(e.path, "none")>>
            /\ DropWatch(e.path)
  BY DEF Handle
<1>4. e \in Event /\ events \in Seq(Event)
  BY <1>2, <1>3, HeadAndTail DEF EventsOK
<1>5. PICK p : p = e.path /\ p \in Path /\ p \in Node /\ p # Root /\ p # Unwatched
  BY <1>4, PathIs, NothingAssumption DEF Event, Node
<1>6. Sees(Dirs, Eyes, watched, events, suspect, {})
  BY <1>1, <1>3 DEF Adding
<1>7. Dirs' = Dirs /\ (p \in Dirs <=> tree[p] = "dir") /\ suspect' = suspect
  BY <1>1, <1>3, <1>5 DEF Dirs, IsDir, There
<1>. HIDE DEF e
<1>8. CASE e.op = "create" /\ tree[e.path] = "dir"
  <2>1. mode' = "add" /\ todo' = <<Watch(p)>> /\ UNCHANGED <<watched, kwatch>>
    BY <1>3, <1>5, <1>8
  <2>2. Adding' = {Watch(p)}
    <3>1. Range(<<Watch(p)>>) = {Watch(p)}
      BY <1>5, StepsMade, OneIn
    <3>. QED
      BY <2>1, <3>1 DEF Adding
  <2>3. Sees(Dirs, Eyes, watched, Tail(events), suspect, {Watch(e.path)})
    BY <1>3, <1>5, <1>6, <1>7, <1>8, HandledMadeSees DEF e
  <2>4. Eyes' = Eyes /\ OwnName'
    BY <1>1, <2>1 DEF Eyes, OwnName
  <2>. QED
    BY <1>2, <1>3, <1>5, <1>7, <2>1, <2>2, <2>3, <2>4 DEF SightInv
<1>9. CASE e.op = "gone"
  <2>1. mode' = "walk" /\ DropWatch(p)
    BY <1>3, <1>5, <1>9
  <2>2. Adding' = {}
    BY <2>1 DEF Adding
  <2>3. watched' = watched \ {p}
    BY <2>1 DEF DropWatch
  <2>4. OwnName' /\ Eyes' = Eyes \ {p}
    <3>1. Eyes \subseteq watched
      BY <1>1 DEF Sees, SeenRight
    <3>2. CASE p \in watched
      <4>1. kwatch' = [d \in Node |-> IF kwatch[d] = p THEN Unwatched ELSE kwatch[d]]
        BY <2>1, <3>2 DEF DropWatch
      <4>2. \A d \in Node : kwatch'[d] = IF kwatch[d] = p THEN Unwatched ELSE kwatch[d]
        BY <4>1
      <4>3. \A d \in Node : d # Unwatched
        BY NothingAssumption
      <4>4. \A d \in Node : kwatch[d] = d \/ kwatch[d] = Unwatched
        BY <1>1 DEF OwnName
      <4>5. \A d \in Node : kwatch'[d] = d <=> kwatch[d] = d /\ d # p
        BY <1>5, <4>2, <4>3, <4>4
      <4>6. OwnName'
        BY <4>2, <4>4 DEF OwnName
      <4>7. Eyes' = Eyes \ {p}
        BY <4>5 DEF Eyes
      <4>. QED
        BY <4>6, <4>7
    <3>3. CASE p \notin watched
      <4>1. kwatch' = kwatch
        BY <2>1, <3>3 DEF DropWatch
      <4>2. Eyes' = Eyes /\ OwnName'
        BY <1>1, <4>1 DEF Eyes, OwnName
      <4>. QED
        BY <3>1, <3>3, <4>2
    <3>. QED
      BY <3>2, <3>3
  <2>5. Dropped(e, Eyes, watched, Eyes', watched')
    BY <1>5, <1>9, <2>3, <2>4 DEF Dropped
  <2>6. Sees(Dirs, Eyes', watched', Tail(events), suspect, {})
    <3>1. e = Head(events) /\ (e.op = "create" => e.path \notin Dirs)
      BY <1>9 DEF e
    <3>. QED
      BY <1>3, <1>6, <2>5, <3>1, HandledElseSees
  <2>. QED
    BY <1>2, <1>3, <1>7, <2>2, <2>4, <2>6 DEF SightInv
<1>10. CASE e.op # "gone" /\ ~(e.op = "create" /\ tree[e.path] = "dir")
  <2>1. mode' \in {"idle", "walk"} /\ UNCHANGED <<watched, kwatch>>
    BY <1>3, <1>10
  <2>2. Adding' = {}
    BY <2>1 DEF Adding
  <2>3. Eyes' = Eyes /\ OwnName'
    BY <1>1, <2>1 DEF Eyes, OwnName
  <2>4. Dropped(e, Eyes, watched, Eyes, watched)
    BY <1>10 DEF Dropped
  <2>5. Sees(Dirs, Eyes, watched, Tail(events), suspect, {})
    <3>1. e = Head(events) /\ (e.op = "create" => e.path \notin Dirs)
      BY <1>5, <1>7, <1>10 DEF e
    <3>. QED
      BY <1>3, <1>6, <2>4, <3>1, HandledElseSees
  <2>. QED
    BY <1>2, <1>3, <1>7, <2>1, <2>2, <2>3, <2>5 DEF SightInv
<1>. QED
  BY <1>8, <1>9, <1>10

\* The other steps leave the watches and the queue alone, and addTree has nothing
\* left to do when it is over.
LEMMA ElseSight ==
  ASSUME SightInv, LiveInv', UNCHANGED <<fs, events, watched>>, Adding' = Adding
  PROVE  SightInv'
<1>1. /\ Dirs' = Dirs /\ Eyes' = Eyes /\ (OwnName' <=> OwnName)
      /\ watched' = watched /\ events' = events /\ suspect' = suspect
  BY DEF Dirs, Eyes, OwnName, IsDir, There, fs
<1>. QED
  BY <1>1 DEF SightInv

LEMMA NextSight ==
  ASSUME ~Overflow, [FlatMove]_vars, SightInv, [Next]_vars
  PROVE  SightInv'
<1>0. LiveInv
  BY DEF SightInv
<1>1. LiveInv'
  BY <1>0, NextKeeps
<1>2. CASE User
  <2>1. CASE FlatMove
    BY <1>2, <2>1, UserSight
  <2>2. CASE UNCHANGED vars
    <3>1. Adding' = Adding /\ UNCHANGED <<fs, events, watched>>
      BY <2>2 DEF Adding, watcher, vars
    <3>. QED
      BY <1>1, <3>1, ElseSight
  <2>. QED
    BY <2>1, <2>2
<1>3. CASE Watcher
  <2>1. CASE AddDone
    <3>1. Adding = {}
      BY <2>1, NothingIn DEF AddDone, Adding
    <3>2. mode' \in {"idle", "walk"}
      BY <2>1 DEF AddDone
    <3>3. Adding' = {}
      BY <3>2 DEF Adding
    <3>. QED
      BY <1>1, <2>1, <3>1, <3>3, ElseSight DEF AddDone
  <2>2. CASE WalkStat \/ WalkList \/ WalkSend
    <3>1. mode = "walk" /\ mode' = "walk" /\ UNCHANGED <<fs, events, watched>>
      BY <2>2 DEF WalkStat, WalkList, WalkSend, At
    <3>2. Adding = {} /\ Adding' = {}
      BY <3>1 DEF Adding
    <3>. QED
      BY <1>1, <3>1, <3>2, ElseSight
  <2>3. CASE WalkDone
    <3>1. mode = "walk" /\ mode' = "idle" /\ UNCHANGED <<fs, events, watched>>
      BY <2>3 DEF WalkDone
    <3>2. Adding = {} /\ Adding' = {}
      BY <3>1 DEF Adding
    <3>. QED
      BY <1>1, <3>1, <3>2, ElseSight
  <2>. QED
    BY <1>3, <2>1, <2>2, <2>3, AddWatchSight, AddListSight, HandleSight DEF Watcher
<1>4. CASE IndexRoot \/ ApplyChange
  <2>1. UNCHANGED <<fs, events, watcher>>
    BY <1>4 DEF IndexRoot, StartWalk, BeginTx, IndexStat, IndexList, AddRow, EndWalk,
                ApplyChange, walkerRest
  <2>2. Adding' = Adding /\ UNCHANGED <<fs, events, watched>>
    BY <2>1 DEF Adding, watcher
  <2>. QED
    BY <1>1, <2>2, ElseSight
<1>5. CASE UNCHANGED vars
  <2>1. Adding' = Adding /\ UNCHANGED <<fs, events, watched>>
    BY <1>5 DEF Adding, watcher, vars
  <2>. QED
    BY <1>1, <2>1, ElseSight
<1>. QED
  BY <1>2, <1>3, <1>4, <1>5 DEF Next

LEMMA InitSight ==
  ASSUME Init
  PROVE  SightInv
<1>1. LiveInv
  BY InitLive
<1>2. /\ IsTree(tree) /\ kwatch = [d \in Node |-> Unwatched] /\ events = <<>> /\ suspect = {}
      /\ watched = {} /\ mode = "seed" /\ todo = <<Watch(Root)>>
  BY DEF Init
<1>3. OwnName
  BY <1>2 DEF OwnName
<1>4. Eyes = {}
  BY <1>2, NothingAssumption DEF Eyes
<1>5. Root \in Node /\ Root \notin Path
  BY PathIs DEF Node
<1>. DEFINE R == {Watch(Root)}
<1>6. Adding = R
  BY <1>2, <1>5, StepsMade, OneIn DEF Adding
<1>7. /\ \A d \in Node : Watch(d) \in R <=> d = Root
      /\ \A d \in Node : List(d) \notin R
  <2>1. \A d \in Node : /\ Watch(d).path = d /\ Watch(d).do = "watch"
                        /\ List(d).do = "list"
    BY StepsMade
  <2>. QED
    BY <1>5, <2>1
<1>8. DirsRight(Dirs)
  <2>1. Dirs \subseteq Node /\ Root \in Dirs
    BY <1>5 DEF Dirs, IsDir, There
  <2>2. ASSUME NEW d \in Dirs, NEW c \in Node, IsPrefix(c, d) PROVE c \in Dirs
    <3>1. CASE c = Root \/ c = d
      BY <2>1, <3>1
    <3>2. CASE c # Root /\ c # d
      <4>1. c \in Path /\ d \in Node
        BY <2>1, <3>2 DEF Node
      <4>2. d # Root
        BY <2>2, <4>1, NothingAboveRoot
      <4>3. d \in Path /\ tree[d] = "dir"
        BY <2>1, <4>1, <4>2 DEF Dirs, IsDir, There, Node
      <4>4. tree[c] = "dir"
        BY <1>2, <2>2, <3>2, <4>1, <4>3 DEF IsTree, IsStrictPrefix
      <4>. QED
        BY <3>2, <4>1, <4>4 DEF Dirs, IsDir, There
    <3>. QED
      BY <3>1, <3>2
  <2>. QED
    BY <2>1, <2>2 DEF DirsRight
<1>. DEFINE ev == <<>>
<1>9. ev \in Seq(Event) /\ \A i \in 1 .. Len(ev) : FALSE
  <2>1. ev \in Seq(Event) /\ Len(ev) = 0
    BY EmptySeq
  <2>2. \A i \in 1 .. 0 : FALSE
    OBVIOUS
  <2>. QED
    BY <2>1, <2>2
<1>10. \A d \in Node : Reached(R, d)
  <2>1. ASSUME NEW d \in Node PROVE IsPrefix(Root, d)
    <3>1. \A i \in 1 .. 0 : FALSE
      OBVIOUS
    <3>2. Len(Root) = 0 /\ Len(d) \in Nat
      BY <1>5, NodeIs
    <3>3. Len(Root) <= Len(d)
      <4>. DEFINE n == Len(d)
      <4>. HIDE DEF n
      <4>1. n \in Nat
        BY <3>2 DEF n
      <4>2. 0 <= n
        BY <4>1
      <4>. QED
        BY <3>2, <4>2 DEF n
    <3>. QED
      BY <1>5, <3>1, <3>2, <3>3, PrefixIs
  <2>. QED
    BY <1>5, <1>7, <2>1 DEF Reached
<1>. HIDE DEF R, ev
<1>11. Sees(Dirs, {}, {}, ev, {}, R)
  <2>1. Typed(ev, {}) /\ SeenRight(Dirs, {}, {}) /\ SeenAndGone({}, ev, {})
        /\ KnownAndBlind({}, {}, ev, {}) /\ SeenFromAbove({}, {})
    BY <1>9 DEF Typed, SeenRight, SeenAndGone, KnownAndBlind, SeenFromAbove
  <2>2. EventsSeen({}, ev, {}) /\ MadeAgain(Dirs, ev, {})
    BY <1>9 DEF EventsSeen, MadeAgain
  <2>3. WatchFromAbove(Dirs, {}, ev, {}, R) /\ ListSeen({}, ev, {}, R)
    BY <1>5, <1>7 DEF WatchFromAbove, ListSeen, Node
  <2>4. NoneForgotten(Dirs, {}, ev, {}, R)
    BY <1>8, <1>10 DEF NoneForgotten, DirsRight
  <2>. QED
    BY <1>8, <2>1, <2>2, <2>3, <2>4 DEF Sees
<1>. QED
  BY <1>1, <1>2, <1>3, <1>4, <1>6, <1>11 DEF SightInv, ev

\* What keeps directories watched while the user creates, removes and renames and
\* the watcher lags behind (portable_source.go: seed, handle, addTree, addWatch,
\* dropWatch): a directory not watched by its name is to be told created, itself or
\* one above it, or is still to be reached by addTree; one that exists and is to be
\* told gone is to be told created after that; and who reported what is queued still
\* sees, or is to be told gone.
THEOREM SightInvariant ==
  ASSUME ~Overflow
  PROVE  Spec /\ FlatMoves => []SightInv
<1>1. Init => SightInv
  BY InitSight
<1>2. SightInv /\ [Next]_vars /\ [FlatMove]_vars => SightInv'
  BY NextSight
<1>. QED
  BY <1>1, <1>2, PTL DEF Spec, FlatMoves

\* Once the watcher has read its queue, every directory is watched by the name it
\* has (service.go:58 promises that no change is missed), except one that was made
\* again under a name still to be told gone, and what is below it; provided the
\* kernel dropped nothing and no directory that holds a directory was renamed.
THEOREM NothingIsBlind ==
  ASSUME ~Overflow
  PROVE  Spec /\ FlatMoves => []NoBlindDirectory
<1>1. SightInv => NoBlindDirectory
  <2>1. SUFFICES ASSUME SightInv, mode = "idle", events = <<>>,
                        NEW d \in Node, IsDir(d), ~Doubtful(d)
                 PROVE  kwatch[d] = d
    BY DEF NoBlindDirectory
  <2>2. d \in Dirs /\ Adding = {} /\ ~Doubt(suspect, d)
    BY <2>1 DEF Dirs, Adding, Doubtful, Doubt
  <2>3. d \in Eyes \/ Doubt(suspect, d) \/ Later(events, 0, "create", d) \/ Reached(Adding, d)
    BY <2>1, <2>2 DEF SightInv, Sees, NoneForgotten
  <2>4. ~Reached(Adding, d)
    BY <2>2 DEF Reached
  <2>5. ~Later(events, 0, "create", d)
    <3>1. Len(events) = 0
      BY <2>1, EmptySeq
    <3>2. \A j \in 1 .. 0 : FALSE
      OBVIOUS
    <3>. QED
      BY <3>1, <3>2 DEF Later
  <2>. QED
    BY <2>2, <2>3, <2>4, <2>5 DEF Eyes
<1>. QED
  BY <1>1, SightInvariant, PTL
=============================================================================
