---------------------------- MODULE FsOps_proofs -----------------------------
(***************************************************************************)
(* Proofs about FsOps, for every set of requests, every initial disk, any  *)
(* number of requests at a time and every choice of what may fail.         *)
(***************************************************************************)
EXTENDS FsOps, TLAPS, SequenceTheorems, FiniteSetTheorems, FunctionTheorems

-----------------------------------------------------------------------------
(* Sequences over whatever they are made of.                                *)

IsASequence(s) == \E S : s \in Seq(S)

LEMMA SequenceType ==
  ASSUME NEW s, IsASequence(s)
  PROVE  /\ Len(s) \in Nat /\ DOMAIN s = 1 .. Len(s)
         /\ s = <<>> <=> Len(s) = 0
<1>1. PICK S : s \in Seq(S)
  BY DEF IsASequence
<1>2. Len(s) \in Nat /\ DOMAIN s = 1 .. Len(s)
  BY <1>1, LenProperties
<1>3. s = <<>> <=> Len(s) = 0
  BY <1>1, EmptySeq
<1>. QED
  BY <1>2, <1>3

LEMMA SequenceOver ==
  ASSUME NEW s, IsASequence(s), NEW t, IsASequence(t)
  PROVE  \E S : s \in Seq(S) /\ t \in Seq(S)
<1>1. PICK S : s \in Seq(S)
  BY DEF IsASequence
<1>2. PICK T : t \in Seq(T)
  BY DEF IsASequence
<1>3. s \in Seq(S \cup T) /\ t \in Seq(S \cup T)
  <2>1. S \subseteq S \cup T /\ T \subseteq S \cup T
    OBVIOUS
  <2>2. s \in Seq(S \cup T)
    BY <1>1, <2>1, SeqMonotonic
  <2>3. t \in Seq(S \cup T)
    BY <1>2, <2>1, SeqMonotonic
  <2>. QED
    BY <2>2, <2>3
<1>. QED
  BY <1>3

LEMMA SameSequence ==
  ASSUME NEW s, IsASequence(s), NEW t, IsASequence(t),
         Len(s) = Len(t), \A i \in 1 .. Len(s) : s[i] = t[i]
  PROVE  s = t
<1>1. PICK S : s \in Seq(S) /\ t \in Seq(S)
  BY SequenceOver
<1>. QED
  BY <1>1, SeqEqual

LEMMA AppendSequence ==
  ASSUME NEW s, IsASequence(s), NEW x
  PROVE  /\ IsASequence(Append(s, x)) /\ Append(s, x) # <<>>
         /\ Len(Append(s, x)) = Len(s) + 1
         /\ \A i \in 1 .. Len(s) : Append(s, x)[i] = s[i]
         /\ Append(s, x)[Len(s) + 1] = x
<1>1. PICK S : s \in Seq(S)
  BY DEF IsASequence
<1>. DEFINE T == S \cup {x}
<1>2. S \subseteq T /\ x \in T
  OBVIOUS
<1>. HIDE DEF T
<1>3. s \in Seq(T)
  BY <1>1, <1>2, SeqMonotonic
<1>4. Append(s, x) \in Seq(T)
  BY <1>2, <1>3, AppendProperties
<1>. QED
  BY <1>2, <1>3, <1>4, AppendProperties DEF IsASequence

LEMMA ConcatSequence ==
  ASSUME NEW s, IsASequence(s), NEW t, IsASequence(t)
  PROVE  /\ IsASequence(s \o t) /\ Len(s \o t) = Len(s) + Len(t)
         /\ \A i \in 1 .. Len(s) + Len(t) :
              (s \o t)[i] = IF i <= Len(s) THEN s[i] ELSE t[i - Len(s)]
<1>1. PICK S : s \in Seq(S) /\ t \in Seq(S)
  BY SequenceOver
<1>2. s \o t \in Seq(S)
  BY <1>1, ConcatProperties
<1>. QED
  BY <1>1, <1>2, ConcatProperties DEF IsASequence

LEMMA SubSequence ==
  ASSUME NEW s, IsASequence(s), NEW m \in Nat \ {0}, NEW n \in Nat,
         n <= Len(s), m <= n + 1
  PROVE  /\ IsASequence(SubSeq(s, m, n)) /\ Len(SubSeq(s, m, n)) = n - m + 1
         /\ \A i \in 1 .. n - m + 1 : SubSeq(s, m, n)[i] = s[m + i - 1]
<1>1. PICK S : s \in Seq(S)
  BY DEF IsASequence
<1>2. \A i \in m .. n : s[i] \in S
  <2>1. SUFFICES ASSUME NEW i \in m .. n PROVE s[i] \in S
    OBVIOUS
  <2>2. i \in 1 .. Len(s)
    BY SequenceType
  <2>. QED
    BY <1>1, <2>2, ElementOfSeq
<1>3. /\ SubSeq(s, m, n) \in Seq(S)
      /\ Len(SubSeq(s, m, n)) = IF m <= n THEN n - m + 1 ELSE 0
      /\ \A i \in 1 .. n - m + 1 : SubSeq(s, m, n)[i] = s[m + i - 1]
  BY <1>2, SubSeqProperties
<1>4. Len(SubSeq(s, m, n)) = n - m + 1
  BY <1>3
<1>. QED
  BY <1>3, <1>4 DEF IsASequence

LEMMA TailSequence ==
  ASSUME NEW s, IsASequence(s), s # <<>>
  PROVE  /\ IsASequence(Tail(s)) /\ Len(Tail(s)) = Len(s) - 1
         /\ \A i \in 1 .. Len(Tail(s)) : Tail(s)[i] = s[i + 1]
         /\ Head(s) = s[1] /\ 1 \in 1 .. Len(s)
<1>1. PICK S : s \in Seq(S)
  BY DEF IsASequence
<1>2. Tail(s) \in Seq(S)
  BY <1>1, HeadTailProperties
<1>3. Len(s) \in Nat \ {0}
  BY <1>1, EmptySeq
<1>. QED
  BY <1>1, <1>2, <1>3, HeadTailProperties DEF IsASequence

\* The prefix of length n.
LEMMA PrefixOf ==
  ASSUME NEW s, IsASequence(s), NEW n \in 0 .. Len(s)
  PROVE  /\ IsASequence(SubSeq(s, 1, n)) /\ Len(SubSeq(s, 1, n)) = n
         /\ \A i \in 1 .. n : SubSeq(s, 1, n)[i] = s[i]
         /\ n = 0 <=> SubSeq(s, 1, n) = <<>>
<1>1. Len(s) \in Nat /\ n \in Nat /\ n <= Len(s) /\ 1 <= n + 1
  BY SequenceType
<1>2. /\ IsASequence(SubSeq(s, 1, n)) /\ Len(SubSeq(s, 1, n)) = n - 1 + 1
      /\ \A i \in 1 .. n - 1 + 1 : SubSeq(s, 1, n)[i] = s[1 + i - 1]
  BY <1>1, SubSequence
<1>3. n = 0 <=> SubSeq(s, 1, n) = <<>>
  BY <1>1, <1>2, SequenceType
<1>. QED
  BY <1>1, <1>2, <1>3

LEMMA PrefixOfPrefix ==
  ASSUME NEW s, IsASequence(s), NEW n \in 0 .. Len(s), NEW m \in 0 .. n
  PROVE  SubSeq(SubSeq(s, 1, n), 1, m) = SubSeq(s, 1, m)
<1>. DEFINE t == SubSeq(s, 1, n)
<1>1. IsASequence(t) /\ Len(t) = n /\ \A i \in 1 .. n : t[i] = s[i]
  BY PrefixOf
<1>. HIDE DEF t
<1>2. m \in 0 .. Len(t) /\ m \in 0 .. Len(s)
  BY <1>1, SequenceType
<1>3. /\ IsASequence(SubSeq(t, 1, m)) /\ Len(SubSeq(t, 1, m)) = m
      /\ \A i \in 1 .. m : SubSeq(t, 1, m)[i] = t[i]
  BY <1>1, <1>2, PrefixOf
<1>4. /\ IsASequence(SubSeq(s, 1, m)) /\ Len(SubSeq(s, 1, m)) = m
      /\ \A i \in 1 .. m : SubSeq(s, 1, m)[i] = s[i]
  BY <1>2, PrefixOf
<1>5. SubSeq(t, 1, m) = SubSeq(s, 1, m)
  <2>1. \A i \in 1 .. m : i \in 1 .. n
    BY SequenceType
  <2>2. \A i \in 1 .. m : SubSeq(t, 1, m)[i] = SubSeq(s, 1, m)[i]
    BY <1>1, <1>3, <1>4, <2>1
  <2>. QED
    BY <1>3, <1>4, <2>2, SameSequence
<1>. QED
  BY <1>5 DEF t

LEMMA PrefixMeans ==
  ASSUME NEW s, IsASequence(s), NEW t, IsASequence(t)
  PROVE  /\ IsPrefix(s, t) <=> /\ Len(s) <= Len(t)
                               /\ \A i \in 1 .. Len(s) : s[i] = t[i]
         /\ IsPrefix(s, t) => s = SubSeq(t, 1, Len(s))
<1>1. Len(s) \in Nat /\ Len(t) \in Nat
  BY SequenceType
<1>2. /\ IsASequence(SubSeq(s, 1, Len(s))) /\ Len(SubSeq(s, 1, Len(s))) = Len(s)
      /\ \A i \in 1 .. Len(s) : SubSeq(s, 1, Len(s))[i] = s[i]
  BY <1>1, PrefixOf
<1>3. SubSeq(s, 1, Len(s)) = s
  BY <1>2, SameSequence
<1>4. CASE Len(s) <= Len(t)
  <2>1. /\ IsASequence(SubSeq(t, 1, Len(s))) /\ Len(SubSeq(t, 1, Len(s))) = Len(s)
        /\ \A i \in 1 .. Len(s) : SubSeq(t, 1, Len(s))[i] = t[i]
    BY <1>1, <1>4, PrefixOf
  <2>2. ASSUME \A i \in 1 .. Len(s) : s[i] = t[i]
        PROVE  s = SubSeq(t, 1, Len(s))
    BY <2>1, <2>2, SameSequence
  <2>. QED
    BY <1>3, <1>4, <2>1, <2>2 DEF IsPrefix
<1>. QED
  BY <1>1, <1>4 DEF IsPrefix

-----------------------------------------------------------------------------
(* Trees.                                                                   *)

NodeOK(n) ==
  /\ n.dir \in BOOLEAN /\ (n.dir => n.data = {}) /\ IsFiniteSet(n.data)
  /\ \A e \in n.data : IsASequence(e[1])

DiskOK(d) ==
  /\ IsFiniteSet(DOMAIN d)
  /\ \A p \in DOMAIN d :
       /\ IsASequence(p) /\ p # <<>> /\ NodeOK(d[p])
       /\ \A n \in 1 .. Len(p) - 1 : IsDir(d, SubSeq(p, 1, n))

LEMMA DiskIsTree == \A d : DiskOK(d) => IsTree(d)
<1>. SUFFICES ASSUME NEW d, DiskOK(d), NEW p \in DOMAIN d
              PROVE  /\ p # <<>> /\ d[p].dir \in BOOLEAN /\ (d[p].dir => d[p].data = {})
                     /\ \A q \in Ancestors(p) \ {p} : IsDir(d, q)
  BY DEF IsTree
<1>1. /\ IsASequence(p) /\ p # <<>> /\ NodeOK(d[p])
      /\ \A n \in 1 .. Len(p) - 1 : IsDir(d, SubSeq(p, 1, n))
  BY DEF DiskOK
<1>2. ASSUME NEW n \in 1 .. Len(p), SubSeq(p, 1, n) # p
      PROVE  IsDir(d, SubSeq(p, 1, n))
  <2>1. Len(p) \in Nat /\ SubSeq(p, 1, Len(p)) = p
    <3>1. Len(p) \in Nat
      BY <1>1, SequenceType
    <3>2. IsPrefix(p, p)
      BY <1>1, <3>1, PrefixMeans
    <3>. QED
      BY <1>1, <3>1, <3>2, PrefixMeans
  <2>2. n # Len(p)
    BY <1>2, <2>1
  <2>3. n \in 1 .. Len(p) - 1
    <3>. DEFINE k == Len(p)
    <3>1. k \in Nat /\ n \in 1 .. k /\ n # k
      BY <2>1, <2>2
    <3>. HIDE DEF k
    <3>2. n \in 1 .. k - 1
      BY <3>1
    <3>. QED
      BY <3>2 DEF k
  <2>. QED
    BY <1>1, <2>3
<1>. QED
  BY <1>1, <1>2 DEF NodeOK, Ancestors

LEMMA FiniteImage ==
  ASSUME NEW S, IsFiniteSet(S), NEW f, DOMAIN f = S
  PROVE  IsFiniteSet({f[x] : x \in S})
<1>. DEFINE T == {f[x] : x \in S}
            g == [x \in S |-> f[x]]
<1>1. g \in Surjection(S, T)
  BY DEF Surjection
<1>2. IsFiniteSet(T)
  <2>. HIDE DEF T, g
  <2>. QED
    BY <1>1, FS_Surjection
<1>. QED
  BY <1>2

\* A strict prefix of what exists is a directory, and has something in it.
LEMMA AboveIsDir ==
  ASSUME NEW d, DiskOK(d), NEW y \in DOMAIN d, NEW p, IsASequence(p),
         IsPrefix(p, y), p # y
  PROVE  /\ IsDir(d, p) /\ Children(d, p) # {}
         /\ Len(p) < Len(y)
<1>1. /\ IsASequence(y) /\ \A n \in 1 .. Len(y) - 1 : IsDir(d, SubSeq(y, 1, n))
      /\ Len(y) \in Nat /\ Len(p) \in Nat
  BY SequenceType DEF DiskOK
<1>2. /\ Len(p) <= Len(y) /\ \A i \in 1 .. Len(p) : p[i] = y[i]
      /\ p = SubSeq(y, 1, Len(p))
  BY <1>1, PrefixMeans
<1>3. Len(p) < Len(y)
  <2>1. CASE Len(p) = Len(y)
    BY <1>1, <1>2, <2>1, SameSequence
  <2>. QED
    BY <1>1, <1>2, <2>1
<1>4. IsDir(d, p)
  <2>1. CASE Len(p) = 0
    BY <2>1, SequenceType DEF IsDir
  <2>2. CASE Len(p) # 0
    <3>1. Len(p) \in 1 .. Len(y) - 1
      BY <1>1, <1>3, <2>2
    <3>. QED
      BY <1>1, <1>2, <3>1
  <2>. QED
    BY <2>1, <2>2
<1>. DEFINE c == SubSeq(y, 1, Len(p) + 1)
<1>5. Len(p) + 1 \in 0 .. Len(y) /\ Len(p) \in 0 .. Len(p) + 1
  BY <1>1, <1>3
<1>6. IsASequence(c) /\ Len(c) = Len(p) + 1 /\ \A i \in 1 .. Len(p) + 1 : c[i] = y[i]
  BY <1>1, <1>5, PrefixOf
<1>7. c \in DOMAIN d
  <2>1. CASE Len(p) + 1 = Len(y)
    <3>1. c = y
      BY <1>1, <1>6, <2>1, SameSequence
    <3>. QED
      BY <3>1
  <2>2. CASE Len(p) + 1 # Len(y)
    <3>1. Len(p) + 1 \in 1 .. Len(y) - 1
      BY <1>1, <1>3, <2>2
    <3>2. IsDir(d, c) /\ c # <<>>
      BY <1>1, <1>6, <3>1, SequenceType
    <3>. QED
      BY <3>2 DEF IsDir
  <2>. QED
    BY <2>1, <2>2
<1>. HIDE DEF c
<1>8. IsPrefix(p, c)
  <2>1. Len(p) <= Len(c) /\ \A i \in 1 .. Len(p) : p[i] = c[i]
    BY <1>1, <1>2, <1>6
  <2>. QED
    BY <1>6, <2>1, PrefixMeans
<1>9. c \in Children(d, p)
  BY <1>6, <1>7, <1>8 DEF Children, Below
<1>. QED
  BY <1>3, <1>4, <1>9

LEMMA FrontIs ==
  ASSUME NEW p, IsASequence(p), p # <<>>
  PROVE  /\ Front(p) = SubSeq(p, 1, Len(p) - 1) /\ IsASequence(Front(p))
         /\ Len(Front(p)) = Len(p) - 1 /\ Len(p) \in Nat \ {0}
         /\ \A n \in 0 .. Len(p) - 1 : SubSeq(Front(p), 1, n) = SubSeq(p, 1, n)
<1>1. Len(p) \in Nat \ {0} /\ Len(p) - 1 \in 0 .. Len(p)
  BY SequenceType
<1>2. IsASequence(SubSeq(p, 1, Len(p) - 1)) /\ Len(SubSeq(p, 1, Len(p) - 1)) = Len(p) - 1
  BY <1>1, PrefixOf
<1>3. \A n \in 0 .. Len(p) - 1 : SubSeq(SubSeq(p, 1, Len(p) - 1), 1, n) = SubSeq(p, 1, n)
  BY <1>1, PrefixOfPrefix
<1>. QED
  BY <1>1, <1>2, <1>3 DEF Front

\* A directory that exists, or the root, stands in directories.
LEMMA DirIsRooted ==
  ASSUME NEW d, DiskOK(d), NEW p, IsASequence(p), IsDir(d, p), NEW n \in 1 .. Len(p)
  PROVE  SubSeq(p, 1, n) \in DOMAIN d /\ d[SubSeq(p, 1, n)].dir
<1>1. Len(p) \in Nat /\ p # <<>> /\ p \in DOMAIN d /\ d[p].dir
  BY SequenceType DEF IsDir
<1>2. CASE n = Len(p)
  <2>1. IsPrefix(p, p)
    BY <1>1, PrefixMeans
  <2>. QED
    BY <1>1, <1>2, <2>1, PrefixMeans
<1>3. CASE n # Len(p)
  <2>1. n \in 1 .. Len(p) - 1 /\ n \in 0 .. Len(p) /\ n # 0
    BY <1>1, <1>3
  <2>2. SubSeq(p, 1, n) # <<>>
    BY <2>1, PrefixOf
  <2>. QED
    BY <1>1, <2>1, <2>2 DEF DiskOK, IsDir
<1>. QED
  BY <1>2, <1>3

LEMMA WithOK ==
  ASSUME NEW d, DiskOK(d), NEW p, IsASequence(p), IsDir(d, Front(p)), ~IsDir(d, p),
         NEW node, NodeOK(node)
  PROVE  DiskOK(With(d, p, node))
<1>. DEFINE e == With(d, p, node)
<1>1. /\ DOMAIN e = DOMAIN d \cup {p} /\ e[p] = node
      /\ \A y \in DOMAIN d : y # p => e[y] = d[y]
  BY DEF With
<1>2. p # <<>>
  BY DEF IsDir
<1>. HIDE DEF e
<1>3. IsFiniteSet(DOMAIN e)
  BY <1>1, FS_AddElement DEF DiskOK
<1>4. \A y : IsDir(d, y) => IsDir(e, y)
  BY <1>1 DEF IsDir
<1>5. ASSUME NEW y \in DOMAIN e
      PROVE  /\ IsASequence(y) /\ y # <<>> /\ NodeOK(e[y])
             /\ \A n \in 1 .. Len(y) - 1 : IsDir(e, SubSeq(y, 1, n))
  <2>1. CASE y = p
    <3>1. ASSUME NEW n \in 1 .. Len(p) - 1 PROVE IsDir(e, SubSeq(p, 1, n))
      <4>1. /\ IsASequence(Front(p)) /\ n \in 1 .. Len(Front(p))
            /\ SubSeq(Front(p), 1, n) = SubSeq(p, 1, n)
        BY <1>2, <3>1, FrontIs
      <4>2. IsDir(d, SubSeq(p, 1, n))
        BY <4>1, DirIsRooted DEF IsDir
      <4>. QED
        BY <1>4, <4>2
    <3>. QED
      BY <1>1, <1>2, <2>1, <3>1
  <2>2. CASE y # p
    BY <1>1, <1>4, <2>2 DEF DiskOK
  <2>. QED
    BY <2>1, <2>2
<1>6. DiskOK(e)
  BY <1>3, <1>5 DEF DiskOK
<1>. QED
  BY <1>6 DEF e

LEMMA MakeDirsOK ==
  ASSUME NEW d, DiskOK(d), NEW p, IsASequence(p), CanMakeDirs(d, p)
  PROVE  /\ DiskOK(MakeDirs(d, p))
         /\ DOMAIN MakeDirs(d, p) = DOMAIN d \cup Ancestors(p)
         /\ \A y \in DOMAIN d : MakeDirs(d, p)[y] = d[y]
<1>. DEFINE e == MakeDirs(d, p)
<1>0. Len(p) \in Nat
  BY SequenceType
<1>1. /\ DOMAIN e = DOMAIN d \cup Ancestors(p)
      /\ \A y \in DOMAIN e : e[y] = IF y \in DOMAIN d THEN d[y] ELSE Dir
  BY DEF MakeDirs
<1>. HIDE DEF e
<1>2. IsFiniteSet(DOMAIN e)
  <2>. DEFINE f == [n \in 1 .. Len(p) |-> SubSeq(p, 1, n)]
  <2>1. DOMAIN f = 1 .. Len(p) /\ Ancestors(p) = {f[n] : n \in 1 .. Len(p)}
    BY DEF Ancestors
  <2>. HIDE DEF f
  <2>2. IsFiniteSet(1 .. Len(p))
    BY <1>0, FS_Interval
  <2>3. IsFiniteSet(Ancestors(p))
    BY <2>1, <2>2, FiniteImage
  <2>. QED
    BY <1>1, <2>3, FS_Union DEF DiskOK
<1>3. NodeOK(Dir)
  BY FS_EmptySet DEF NodeOK, Dir
<1>4. \A q \in Ancestors(p) : q \in DOMAIN e /\ e[q].dir
  BY <1>1 DEF CanMakeDirs, Exists, Dir
<1>5. \A y : IsDir(d, y) => IsDir(e, y)
  BY <1>1 DEF IsDir
<1>6. ASSUME NEW y \in DOMAIN e
      PROVE  /\ IsASequence(y) /\ y # <<>> /\ NodeOK(e[y])
             /\ \A n \in 1 .. Len(y) - 1 : IsDir(e, SubSeq(y, 1, n))
  <2>1. CASE y \in DOMAIN d
    BY <1>1, <1>5, <2>1 DEF DiskOK
  <2>2. CASE y \in Ancestors(p) /\ y \notin DOMAIN d
    <3>1. PICK k \in 1 .. Len(p) : y = SubSeq(p, 1, k)
      BY <2>2 DEF Ancestors
    <3>2. k \in 0 .. Len(p) /\ k # 0
      BY <1>0, <3>1
    <3>3. IsASequence(y) /\ y # <<>> /\ Len(y) = k
      BY <3>1, <3>2, PrefixOf
    <3>4. ASSUME NEW n \in 1 .. k - 1 PROVE IsDir(e, SubSeq(y, 1, n))
      <4>1. n \in 0 .. k /\ n \in 1 .. Len(p)
        BY <1>0, <3>2, <3>4
      <4>2. SubSeq(y, 1, n) = SubSeq(p, 1, n)
        BY <3>1, <3>2, <4>1, PrefixOfPrefix
      <4>3. SubSeq(p, 1, n) \in Ancestors(p)
        BY <4>1 DEF Ancestors
      <4>. QED
        BY <1>4, <4>2, <4>3 DEF IsDir
    <3>. QED
      BY <1>1, <1>3, <2>2, <3>3, <3>4
  <2>. QED
    BY <1>1, <2>1, <2>2
<1>7. DiskOK(e)
  BY <1>2, <1>6 DEF DiskOK
<1>. QED
  BY <1>1, <1>7 DEF e

LEMMA RemoveOK ==
  ASSUME NEW d, DiskOK(d), NEW p, IsASequence(p), Children(d, p) = {}
  PROVE  DiskOK(Restricted(d, DOMAIN d \ {p}))
<1>. DEFINE e == Restricted(d, DOMAIN d \ {p})
<1>1. DOMAIN e = DOMAIN d \ {p} /\ \A y \in DOMAIN e : e[y] = d[y]
  BY DEF Restricted
<1>. HIDE DEF e
<1>2. IsFiniteSet(DOMAIN e)
  BY <1>1, FS_RemoveElement DEF DiskOK
<1>3. ASSUME NEW y \in DOMAIN e
      PROVE  /\ IsASequence(y) /\ y # <<>> /\ NodeOK(e[y])
             /\ \A n \in 1 .. Len(y) - 1 : IsDir(e, SubSeq(y, 1, n))
  <2>1. /\ y \in DOMAIN d /\ y # p /\ e[y] = d[y]
        /\ IsASequence(y) /\ y # <<>> /\ NodeOK(d[y])
        /\ \A n \in 1 .. Len(y) - 1 : IsDir(d, SubSeq(y, 1, n))
    BY <1>1 DEF DiskOK
  <2>2. ASSUME NEW n \in 1 .. Len(y) - 1 PROVE IsDir(e, SubSeq(y, 1, n))
    <3>1. Len(y) \in Nat /\ n \in 0 .. Len(y)
      BY <2>1, <2>2, SequenceType
    <3>2. /\ Len(SubSeq(y, 1, n)) = n
          /\ \A i \in 1 .. n : SubSeq(y, 1, n)[i] = y[i]
      BY <2>1, <3>1, PrefixOf
    <3>3. SubSeq(y, 1, n) # p
      <4>1. ASSUME SubSeq(y, 1, n) = p PROVE FALSE
        <5>1. IsPrefix(p, y)
          BY <2>1, <3>1, <3>2, <4>1, PrefixMeans
        <5>. QED
          BY <2>1, <5>1, AboveIsDir
      <4>. QED
        BY <4>1
    <3>. QED
      BY <1>1, <2>1, <2>2, <3>3 DEF IsDir
  <2>. QED
    BY <2>1, <2>2
<1>4. DiskOK(e)
  BY <1>2, <1>3 DEF DiskOK
<1>. QED
  BY <1>4 DEF e

\* What x becomes when p becomes q.
Moved(x, p, q) == q \o SubSeq(x, Len(p) + 1, Len(x))

LEMMA MovedIs ==
  ASSUME NEW x, IsASequence(x), NEW p, IsASequence(p), NEW q, IsASequence(q), IsPrefix(p, x)
  PROVE  /\ IsASequence(Moved(x, p, q)) /\ IsPrefix(q, Moved(x, p, q))
         /\ Len(Moved(x, p, q)) = Len(q) + Len(x) - Len(p) /\ Len(p) <= Len(x)
         /\ \A i \in 1 .. Len(q) + Len(x) - Len(p) :
              Moved(x, p, q)[i] = IF i <= Len(q) THEN q[i] ELSE x[i - Len(q) + Len(p)]
<1>. DEFINE t == SubSeq(x, Len(p) + 1, Len(x))
            m == q \o t
            lp == Len(p)
            lq == Len(q)
            lx == Len(x)
<1>1. lp \in Nat /\ lq \in Nat /\ lx \in Nat
  BY SequenceType
<1>2. lp <= lx /\ \A i \in 1 .. lp : p[i] = x[i]
  BY PrefixMeans
<1>3. /\ IsASequence(t) /\ Len(t) = lx - lp
      /\ \A i \in 1 .. lx - lp : t[i] = x[lp + i]
  <2>1. lp + 1 \in Nat \ {0} /\ lp + 1 <= lx + 1
    BY <1>1, <1>2
  <2>2. /\ IsASequence(t) /\ Len(t) = lx - (lp + 1) + 1
        /\ \A i \in 1 .. lx - (lp + 1) + 1 : t[i] = x[(lp + 1) + i - 1]
    BY <1>1, <2>1, SubSequence
  <2>. HIDE DEF t, lp, lx
  <2>3. lx - (lp + 1) + 1 = lx - lp /\ \A i \in 1 .. lx - lp : (lp + 1) + i - 1 = lp + i
    BY <1>1, <1>2
  <2>. QED
    BY <2>2, <2>3
<1>. HIDE DEF t
<1>4. /\ IsASequence(m) /\ Len(m) = lq + Len(t)
      /\ \A i \in 1 .. lq + Len(t) : m[i] = IF i <= lq THEN q[i] ELSE t[i - lq]
  BY <1>3, ConcatSequence
<1>5. Moved(x, p, q) = m
  BY DEF Moved, t
<1>. HIDE DEF m
<1>6. IsPrefix(q, m)
  <2>1. lq <= Len(m) /\ \A i \in 1 .. lq : q[i] = m[i]
    <3>. HIDE DEF lq, lx, lp
    <3>. QED
      BY <1>1, <1>2, <1>3, <1>4
  <2>. QED
    BY <1>4, <2>1, PrefixMeans
<1>7. ASSUME NEW i \in 1 .. lq + lx - lp
      PROVE  m[i] = IF i <= lq THEN q[i] ELSE x[i - lq + lp]
  <2>. HIDE DEF lq, lx, lp
  <2>1. i \in 1 .. lq + Len(t)
    BY <1>1, <1>2, <1>3
  <2>2. CASE i <= lq
    BY <1>4, <2>1, <2>2
  <2>3. CASE ~(i <= lq)
    <3>1. i - lq \in 1 .. lx - lp /\ lp + (i - lq) = i - lq + lp
      BY <1>1, <1>2, <2>3
    <3>. QED
      BY <1>3, <1>4, <2>1, <2>3, <3>1
  <2>. QED
    BY <2>2, <2>3
<1>8. Len(m) = lq + lx - lp
  <2>. HIDE DEF lq, lx, lp
  <2>. QED
    BY <1>1, <1>2, <1>3, <1>4
<1>. QED
  BY <1>2, <1>4, <1>5, <1>6, <1>7, <1>8

LEMMA MovedBack ==
  ASSUME NEW x, IsASequence(x), NEW p, IsASequence(p), NEW q, IsASequence(q), IsPrefix(p, x)
  PROVE  Moved(Moved(x, p, q), q, p) = x
<1>. DEFINE m == Moved(x, p, q)
            b == Moved(m, q, p)
            lp == Len(p)
            lq == Len(q)
            lx == Len(x)
            lm == Len(m)
<1>1. lp \in Nat /\ lq \in Nat /\ lx \in Nat
  BY SequenceType
<1>2. lp <= lx /\ \A i \in 1 .. lp : p[i] = x[i]
  BY PrefixMeans
<1>3. /\ IsASequence(m) /\ IsPrefix(q, m) /\ lm = lq + lx - lp
      /\ \A i \in 1 .. lq + lx - lp : m[i] = IF i <= lq THEN q[i] ELSE x[i - lq + lp]
  BY MovedIs
<1>. HIDE DEF m
<1>4. /\ IsASequence(b) /\ Len(b) = lp + lm - lq
      /\ \A i \in 1 .. lp + lm - lq : b[i] = IF i <= lp THEN p[i] ELSE m[i - lp + lq]
  <2>1. IsASequence(m) /\ IsPrefix(q, m)
    BY <1>3
  <2>. QED
    BY <2>1, MovedIs
<1>. HIDE DEF b
<1>5. Len(b) = lx
  <2>. HIDE DEF lp, lq, lx, lm
  <2>. QED
    BY <1>1, <1>2, <1>3, <1>4
<1>6. \A i \in 1 .. lx : b[i] = x[i]
  <2>. HIDE DEF lp, lq, lx, lm
  <2>1. SUFFICES ASSUME NEW i \in 1 .. lx PROVE b[i] = x[i]
    OBVIOUS
  <2>2. i \in 1 .. lp + lm - lq
    BY <1>1, <1>2, <1>3
  <2>3. CASE i <= lp
    BY <1>1, <1>2, <1>4, <2>2, <2>3
  <2>4. CASE ~(i <= lp)
    <3>1. /\ i - lp + lq \in 1 .. lq + lx - lp /\ ~(i - lp + lq <= lq)
          /\ (i - lp + lq) - lq + lp = i
      BY <1>1, <1>2, <2>4
    <3>2. b[i] = m[i - lp + lq]
      BY <1>4, <2>2, <2>4
    <3>3. m[i - lp + lq] = x[(i - lp + lq) - lq + lp]
      BY <1>3, <3>1
    <3>. QED
      BY <3>1, <3>2, <3>3
  <2>. QED
    BY <2>3, <2>4
<1>7. b = x
  BY <1>4, <1>5, <1>6, SameSequence
<1>. QED
  BY <1>7 DEF b, m

LEMMA ValuesAre ==
  ASSUME NEW d, DiskOK(d)
  PROVE  Values(d) = UNION {{e[2] : e \in d[q].data} : q \in DOMAIN d}
<1>1. \A p \in DOMAIN d : IsPrefix(<<>>, p)
  <2>. SUFFICES ASSUME NEW p \in DOMAIN d PROVE IsPrefix(<<>>, p)
    OBVIOUS
  <2>1. IsASequence(<<>>) /\ Len(<<>>) = 0
    BY EmptySeq DEF IsASequence
  <2>2. IsASequence(p) /\ Len(p) \in Nat
    BY SequenceType DEF DiskOK
  <2>. QED
    BY <2>1, <2>2, PrefixMeans
<1>2. Below(d, <<>>) = DOMAIN d
  BY <1>1 DEF Below
<1>. QED
  BY <1>2 DEF Values, ValuesBelow

\* A rename takes everything below p to below q, and leaves a tree.
LEMMA RenamedOK ==
  ASSUME NEW d, DiskOK(d), NEW p, IsASequence(p), NEW q, IsASequence(q), CanRename(d, p, q)
  PROVE  /\ DiskOK(Renamed(d, p, q))
         /\ ~Exists(d, q) => Values(d) \subseteq Values(Renamed(d, p, q))
<1>1. CASE p = q
  BY <1>1 DEF Renamed
<1>2. CASE p # q
  <2>. DEFINE B    == Below(d, p)
              stay == DOMAIN d \ (B \cup {q})
              e    == Renamed(d, p, q)
  <2>1. /\ p \in DOMAIN d /\ ~IsPrefix(p, q) /\ ~IsPrefix(q, p) /\ IsDir(d, Front(q))
        /\ q \in DOMAIN d => ~d[q].dir
    BY <1>2 DEF CanRename, Exists
  <2>2. /\ DOMAIN e = stay \cup {Moved(x, p, q) : x \in B}
        /\ \A s \in DOMAIN e : e[s] = IF s \in stay THEN d[s] ELSE d[Moved(s, q, p)]
    BY <1>2 DEF Renamed, Moved
  <2>3. \A y : y \in B <=> y \in DOMAIN d /\ IsPrefix(p, y)
    BY DEF Below
  <2>. HIDE DEF B, e
  <2>4. /\ Len(p) \in Nat /\ Len(q) \in Nat /\ Len(p) # 0 /\ Len(q) # 0 /\ q # <<>>
    <3>1. q # <<>> /\ p # <<>>
      <4>1. IsASequence(<<>>) /\ Len(<<>>) = 0
        BY EmptySeq DEF IsASequence
      <4>2. \A s : IsASequence(s) => IsPrefix(<<>>, s)
        <5>. SUFFICES ASSUME NEW s, IsASequence(s) PROVE IsPrefix(<<>>, s)
          OBVIOUS
        <5>1. Len(s) \in Nat
          BY SequenceType
        <5>. QED
          BY <4>1, <5>1, PrefixMeans
      <4>. QED
        BY <2>1, <4>2
    <3>. QED
      BY <3>1, SequenceType
  \* Nothing is below q.
  <2>5. ASSUME NEW y \in DOMAIN d, IsPrefix(q, y) PROVE y = q
    <3>1. CASE y # q
      <4>1. IsDir(d, q)
        BY <2>5, <3>1, AboveIsDir
      <4>. QED
        BY <2>1, <2>4, <4>1 DEF IsDir
    <3>. QED
      BY <3>1
  <2>6. ASSUME NEW x \in B
        PROVE  /\ IsASequence(x) /\ IsPrefix(p, x) /\ x \in DOMAIN d
               /\ IsASequence(Moved(x, p, q)) /\ IsPrefix(q, Moved(x, p, q))
               /\ Moved(x, p, q) \notin stay /\ Moved(x, p, q) \in DOMAIN e
               /\ e[Moved(x, p, q)] = d[x]
    <3>1. IsASequence(x) /\ IsPrefix(p, x) /\ x \in DOMAIN d
      BY <2>3, <2>6 DEF DiskOK
    <3>2. IsASequence(Moved(x, p, q)) /\ IsPrefix(q, Moved(x, p, q))
      BY <3>1, MovedIs
    <3>3. Moved(x, p, q) \notin stay /\ Moved(x, p, q) \in DOMAIN e
      BY <2>2, <2>5, <2>6, <3>2
    <3>4. Moved(Moved(x, p, q), q, p) = x
      BY <3>1, MovedBack
    <3>. QED
      BY <2>2, <3>1, <3>2, <3>3, <3>4
  <2>7. IsFiniteSet(DOMAIN e)
    <3>. DEFINE f == [x \in B |-> Moved(x, p, q)]
    <3>1. IsFiniteSet(stay) /\ IsFiniteSet(B)
      <4>1. stay \subseteq DOMAIN d /\ B \subseteq DOMAIN d
        BY <2>3
      <4>2. IsFiniteSet(DOMAIN d)
        BY DEF DiskOK
      <4>. HIDE DEF stay
      <4>. QED
        BY <4>1, <4>2, FS_Subset
    <3>2. DOMAIN f = B /\ {Moved(x, p, q) : x \in B} = {f[x] : x \in B}
      OBVIOUS
    <3>. HIDE DEF f
    <3>3. IsFiniteSet({f[x] : x \in B})
      BY <3>1, <3>2, FiniteImage
    <3>. DEFINE I == {f[x] : x \in B}
    <3>4. DOMAIN e = stay \cup I
      BY <2>2, <3>2
    <3>. HIDE DEF stay, I
    <3>5. IsFiniteSet(stay \cup I)
      BY <3>1, <3>3, FS_Union DEF I
    <3>. QED
      BY <3>4, <3>5
  \* What is above neither p nor q and was a directory is one still.
  <2>8. ASSUME NEW y, IsDir(d, y), ~IsPrefix(p, y), y # q
        PROVE  IsDir(e, y)
    <3>1. CASE y = <<>>
      BY <3>1 DEF IsDir
    <3>2. CASE y # <<>>
      <4>1. y \in DOMAIN d /\ d[y].dir /\ y \in stay
        BY <2>3, <2>8, <3>2 DEF IsDir
      <4>. QED
        BY <2>2, <4>1 DEF IsDir
    <3>. QED
      BY <3>1, <3>2
  <2>9. ASSUME NEW y \in stay
        PROVE  /\ IsASequence(y) /\ y # <<>> /\ NodeOK(e[y])
               /\ \A n \in 1 .. Len(y) - 1 : IsDir(e, SubSeq(y, 1, n))
    <3>1. /\ y \in DOMAIN d /\ y # q /\ ~IsPrefix(p, y) /\ e[y] = d[y]
          /\ IsASequence(y) /\ y # <<>> /\ NodeOK(d[y]) /\ Len(y) \in Nat
          /\ \A n \in 1 .. Len(y) - 1 : IsDir(d, SubSeq(y, 1, n))
      BY <2>2, <2>3, <2>9, SequenceType DEF DiskOK
    <3>2. ASSUME NEW n \in 1 .. Len(y) - 1 PROVE IsDir(e, SubSeq(y, 1, n))
      <4>. DEFINE a == SubSeq(y, 1, n)
      <4>1. /\ IsASequence(a) /\ Len(a) = n /\ Len(a) < Len(y)
            /\ \A i \in 1 .. n : a[i] = y[i]
        <5>1. n \in 0 .. Len(y) /\ n < Len(y)
          BY <3>1, <3>2
        <5>. QED
          BY <3>1, <5>1, PrefixOf
      <4>2. IsDir(d, a)
        BY <3>1, <3>2
      <4>. HIDE DEF a
      <4>3. ASSUME NEW s, IsASequence(s), IsPrefix(s, a) PROVE IsPrefix(s, y)
        <5>1. Len(s) <= Len(a) /\ (\A i \in 1 .. Len(s) : s[i] = a[i]) /\ Len(s) \in Nat
          BY <4>1, <4>3, PrefixMeans, SequenceType
        <5>2. Len(s) <= Len(y) /\ \A i \in 1 .. Len(s) : s[i] = y[i]
          BY <3>1, <3>2, <4>1, <5>1
        <5>. QED
          BY <3>1, <4>3, <5>2, PrefixMeans
      <4>4. IsPrefix(a, a) /\ a # y
        <5>1. Len(a) <= Len(a) /\ a # y
          BY <3>1, <3>2, <4>1
        <5>. QED
          BY <4>1, <5>1, PrefixMeans
      <4>5. a # q
        BY <2>5, <3>1, <4>1, <4>3, <4>4
      <4>6. ~IsPrefix(p, a)
        BY <3>1, <4>3
      <4>7. IsDir(e, a)
        BY <2>8, <4>2, <4>5, <4>6
      <4>. QED
        BY <4>7 DEF a
    <3>. QED
      BY <3>1, <3>2

  <2>10. ASSUME NEW x \in B
         PROVE  LET y == Moved(x, p, q) IN
                /\ IsASequence(y) /\ y # <<>> /\ NodeOK(e[y])
                /\ \A n \in 1 .. Len(y) - 1 : IsDir(e, SubSeq(y, 1, n))
    <3>. DEFINE y  == Moved(x, p, q)
                lp == Len(p)
                lq == Len(q)
                lx == Len(x)
                ly == Len(y)
    <3>1. /\ IsASequence(x) /\ IsPrefix(p, x) /\ x \in DOMAIN d /\ NodeOK(d[x])
          /\ \A n \in 1 .. lx - 1 : IsDir(d, SubSeq(x, 1, n))
          /\ lx \in Nat /\ lp <= lx /\ \A i \in 1 .. lp : p[i] = x[i]
      <4>1. IsASequence(x) /\ IsPrefix(p, x) /\ x \in DOMAIN d
        BY <2>6, <2>10
      <4>. QED
        BY <4>1, SequenceType, PrefixMeans DEF DiskOK
    <3>2. /\ IsASequence(y) /\ ly = lq + lx - lp
          /\ \A i \in 1 .. lq + lx - lp : y[i] = IF i <= lq THEN q[i] ELSE x[i - lq + lp]
      BY <3>1, MovedIs
    <3>3. e[y] = d[x]
      BY <2>6, <2>10
    <3>. HIDE DEF y
    <3>4. y # <<>>
      <4>1. ly # 0
        <5>. HIDE DEF lp, lq, lx, ly
        <5>. QED
          BY <2>4, <3>1, <3>2 DEF lp, lq
      <4>. QED
        BY <3>2, <4>1, SequenceType
    <3>5. ASSUME NEW n \in 1 .. ly - 1 PROVE IsDir(e, SubSeq(y, 1, n))
      <4>. DEFINE a == SubSeq(y, 1, n)
      <4>0. lp \in Nat \ {0} /\ lq \in Nat \ {0} /\ ly \in Nat
        BY <2>4, <3>2, SequenceType
      <4>1. IsASequence(a) /\ Len(a) = n /\ \A i \in 1 .. n : a[i] = y[i]
        <5>1. n \in 0 .. ly
          <6>. HIDE DEF ly
          <6>. QED
            BY <3>5, <4>0
        <5>. QED
          BY <3>2, <5>1, PrefixOf
      <4>2. CASE n < lq
        <5>1. n \in 0 .. lq /\ n \in 0 .. lq - 1 /\ n \in 1 .. lq - 1 /\ \A i \in 1 .. n : i <= lq /\ i \in 1 .. ly
          <6>. HIDE DEF lp, lq, ly
          <6>. QED
            BY <3>5, <4>0, <4>2
        <5>2. /\ IsASequence(SubSeq(q, 1, n)) /\ Len(SubSeq(q, 1, n)) = n
              /\ \A i \in 1 .. n : SubSeq(q, 1, n)[i] = q[i]
          BY <5>1, PrefixOf
        <5>3. \A i \in 1 .. n : a[i] = q[i]
          BY <3>2, <4>1, <5>1
        <5>4. a = SubSeq(q, 1, n)
          <6>1. \A i \in 1 .. n : a[i] = SubSeq(q, 1, n)[i]
            BY <5>2, <5>3
          <6>. HIDE DEF a
          <6>. QED
            BY <4>1, <5>2, <6>1, SameSequence
        <5>5. IsDir(d, a)
          <6>1. /\ IsASequence(Front(q)) /\ Len(Front(q)) = lq - 1
                /\ SubSeq(Front(q), 1, n) = SubSeq(q, 1, n)
            BY <2>4, <5>1, FrontIs
          <6>2. n \in 1 .. Len(Front(q))
            BY <5>1, <6>1
          <6>3. SubSeq(Front(q), 1, n) \in DOMAIN d /\ d[SubSeq(Front(q), 1, n)].dir
            BY <2>1, <6>1, <6>2, DirIsRooted
          <6>. QED
            BY <5>4, <6>1, <6>3 DEF IsDir
        <5>6. a # q
          BY <4>1, <4>2, <4>0
        <5>7. ~IsPrefix(p, a)
          <6>1. ASSUME IsPrefix(p, a) PROVE FALSE
            <7>1. lp <= n /\ \A i \in 1 .. lp : p[i] = a[i]
              <8>. HIDE DEF a
              <8>. QED
                BY <4>1, <6>1, PrefixMeans
            <7>2. lp <= lq /\ \A i \in 1 .. lp : p[i] = q[i]
              <8>. HIDE DEF lp, lq, a
              <8>. QED
                BY <4>0, <4>2, <5>1, <5>3, <7>1
            <7>. QED
              BY <2>1, <7>2, PrefixMeans
          <6>. QED
            BY <6>1
        <5>. HIDE DEF a
        <5>8. IsDir(e, a)
          BY <2>8, <5>5, <5>6, <5>7
        <5>. QED
          BY <5>8 DEF a
      <4>3. CASE ~(n < lq)
        <5>. DEFINE m == n - lq + lp
                    w == SubSeq(x, 1, m)
        <5>1. m \in 0 .. lx /\ m \in 1 .. lx - 1 /\ lp <= m /\ lq + m - lp = n
          <6>. HIDE DEF lp, lq, lx, ly
          <6>. QED
            BY <3>1, <3>2, <3>5, <4>0, <4>3
        <5>2. IsASequence(w) /\ Len(w) = m /\ \A i \in 1 .. m : w[i] = x[i]
          <6>. HIDE DEF m
          <6>. QED
            BY <3>1, <5>1, PrefixOf
        <5>3. IsDir(d, w)
          <6>. HIDE DEF m
          <6>. QED
            BY <3>1, <5>1
        <5>. HIDE DEF w, a
        <5>4. w \in DOMAIN d /\ d[w].dir
          <6>1. w # <<>>
            <7>. HIDE DEF m
            <7>. QED
              BY <5>1, <5>2, SequenceType
          <6>. QED
            BY <5>3, <6>1 DEF IsDir
        <5>5. IsPrefix(p, w)
          <6>1. lp <= Len(w) /\ \A i \in 1 .. lp : p[i] = w[i]
            <7>1. \A i \in 1 .. lp : i \in 1 .. m
              <8>. HIDE DEF m, lp, lx
              <8>. QED
                BY <4>0, <5>1
            <7>. HIDE DEF m
            <7>. QED
              BY <3>1, <5>1, <5>2, <7>1
          <6>. QED
            BY <5>2, <6>1, PrefixMeans
        <5>6. /\ IsASequence(Moved(w, p, q)) /\ Len(Moved(w, p, q)) = n
              /\ \A i \in 1 .. n : Moved(w, p, q)[i] = IF i <= lq THEN q[i] ELSE w[i - lq + lp]
          <6>. HIDE DEF m
          <6>1. /\ IsASequence(Moved(w, p, q)) /\ Len(Moved(w, p, q)) = lq + m - lp
                /\ \A i \in 1 .. lq + m - lp :
                     Moved(w, p, q)[i] = IF i <= lq THEN q[i] ELSE w[i - lq + lp]
            <7>1. IsASequence(w)
              BY <5>2
            <7>2. /\ IsASequence(Moved(w, p, q)) /\ Len(Moved(w, p, q)) = Len(q) + Len(w) - Len(p)
                  /\ \A i \in 1 .. Len(q) + Len(w) - Len(p) :
                       Moved(w, p, q)[i] = IF i <= Len(q) THEN q[i] ELSE w[i - Len(q) + Len(p)]
              BY <5>5, <7>1, MovedIs
            <7>. QED
              BY <5>2, <7>2
          <6>. HIDE DEF lq, lp
          <6>. QED
            BY <5>1, <6>1
        <5>7. \A i \in 1 .. n : Moved(w, p, q)[i] = a[i]
          <6>. SUFFICES ASSUME NEW i \in 1 .. n PROVE Moved(w, p, q)[i] = a[i]
            OBVIOUS
          <6>1. i \in 1 .. lq + lx - lp /\ (~(i <= lq) => i - lq + lp \in 1 .. m)
            <7>. HIDE DEF lp, lq, lx, ly
            <7>. QED
              BY <3>1, <3>2, <3>5, <4>0
          <6>2. a[i] = y[i]
            BY <4>1
          <6>. HIDE DEF lp, lq, lx, m
          <6>3. y[i] = IF i <= lq THEN q[i] ELSE x[i - lq + lp]
            BY <3>2, <6>1
          <6>4. Moved(w, p, q)[i] = IF i <= lq THEN q[i] ELSE w[i - lq + lp]
            BY <5>6
          <6>. QED
            BY <5>2, <6>1, <6>2, <6>3, <6>4
        <5>8. a = Moved(w, p, q)
          BY <4>1, <5>6, <5>7, SameSequence
        <5>9. w \in B
          BY <2>3, <5>4, <5>5
        <5>10. a \in DOMAIN e /\ e[a] = d[w]
          BY <2>6, <5>8, <5>9
        <5>11. IsDir(e, a)
          BY <5>4, <5>10 DEF IsDir
        <5>. QED
          BY <5>11 DEF a
      <4>. QED
        BY <4>2, <4>3
    <3>6. NodeOK(e[y])
      BY <3>1, <3>3
    <3>7. /\ IsASequence(y) /\ y # <<>> /\ NodeOK(e[y])
          /\ \A n \in 1 .. Len(y) - 1 : IsDir(e, SubSeq(y, 1, n))
      BY <3>2, <3>4, <3>5, <3>6
    <3>. QED
      BY <3>7 DEF y
  <2>11. DiskOK(e)
    <3>1. ASSUME NEW y \in DOMAIN e
          PROVE  /\ IsASequence(y) /\ y # <<>> /\ NodeOK(e[y])
                 /\ \A n \in 1 .. Len(y) - 1 : IsDir(e, SubSeq(y, 1, n))
      <4>1. CASE y \in stay
        BY <2>9, <4>1
      <4>2. CASE y \notin stay
        <5>1. PICK x \in B : y = Moved(x, p, q)
          BY <2>2, <4>2
        <5>. QED
          BY <2>10, <5>1
      <4>. QED
        BY <4>1, <4>2
    <3>. QED
      BY <2>7, <3>1 DEF DiskOK
  <2>12. ASSUME q \notin DOMAIN d PROVE Values(d) \subseteq Values(e)
    <3>1. ASSUME NEW y \in DOMAIN d PROVE \E z \in DOMAIN e : e[z] = d[y]
      <4>1. CASE y \in B
        BY <2>6, <4>1
      <4>2. CASE y \notin B
        BY <2>2, <2>12, <4>2
      <4>. QED
        BY <4>1, <4>2
    <3>. QED
      BY <2>11, <3>1, ValuesAre
  <2>. QED
    BY <2>11, <2>12 DEF e, Exists
<1>. QED
  BY <1>1, <1>2

LEMMA FrontSequence ==
  ASSUME NEW p, IsASequence(p)
  PROVE  IsASequence(Front(p))
<1>1. PICK S : p \in Seq(S)
  BY DEF IsASequence
<1>2. Len(p) - 1 \in Int /\ \A i \in 1 .. Len(p) - 1 : p[i] \in S
  <2>1. Len(p) \in Nat
    BY SequenceType
  <2>2. \A i \in 1 .. Len(p) - 1 : i \in 1 .. Len(p)
    <3>. DEFINE k == Len(p)
    <3>1. k \in Nat
      BY <2>1
    <3>. HIDE DEF k
    <3>2. \A i \in 1 .. k - 1 : i \in 1 .. k
      BY <3>1
    <3>. QED
      BY <3>2 DEF k
  <2>. QED
    BY <1>1, <2>1, <2>2, ElementOfSeq
<1>3. Front(p) \in Seq(S)
  BY <1>2, SubSeqProperties DEF Front
<1>. QED
  BY <1>3 DEF IsASequence

LEMMA FrontOfExisting ==
  ASSUME NEW d, DiskOK(d), NEW p \in DOMAIN d
  PROVE  IsDir(d, Front(p))
<1>1. /\ IsASequence(p) /\ p # <<>>
      /\ \A n \in 1 .. Len(p) - 1 : IsDir(d, SubSeq(p, 1, n))
  BY DEF DiskOK
<1>2. /\ Front(p) = SubSeq(p, 1, Len(p) - 1) /\ IsASequence(Front(p))
      /\ Len(Front(p)) = Len(p) - 1 /\ Len(p) \in Nat \ {0}
  BY <1>1, FrontIs
<1>3. CASE Len(p) = 1
  <2>1. Len(Front(p)) = 0
    BY <1>2, <1>3
  <2>2. Front(p) = <<>>
    BY <1>2, <2>1, SequenceType
  <2>. QED
    BY <2>2 DEF IsDir
<1>4. CASE Len(p) # 1
  <2>1. Len(p) - 1 \in 1 .. Len(p) - 1
    BY <1>2, <1>4
  <2>. QED
    BY <1>1, <1>2, <2>1
<1>. QED
  BY <1>3, <1>4

-----------------------------------------------------------------------------
(* The entries still to do.                                                 *)

ItemOK(t) == IsASequence(t.dst) /\ NodeOK(t.val)

WorkOK(w) == IsASequence(w) /\ \A i \in 1 .. Len(w) : ItemOK(w[i])

LEMMA SetToSeqIs ==
  ASSUME NEW S, IsFiniteSet(S)
  PROVE  /\ IsASequence(SetToSeq(S))
         /\ \A i \in 1 .. Len(SetToSeq(S)) : SetToSeq(S)[i] \in S
<1>1. Cardinality(S) \in Nat /\ ExistsBijection(1 .. Cardinality(S), S)
  BY FS_CardinalityType
<1>2. PICK g : g \in Bijection(1 .. Cardinality(S), S)
  BY <1>1 DEF ExistsBijection
<1>3. g \in [1 .. Cardinality(S) -> S] /\ IsInjective(g)
  <2>1. /\ g \in [1 .. Cardinality(S) -> S]
        /\ \A a, b \in 1 .. Cardinality(S) : g[a] = g[b] => a = b
    BY <1>2, Fun_BijectionProperties
  <2>. QED
    BY <2>1 DEF IsInjective
<1>4. SetToSeq(S) \in [1 .. Cardinality(S) -> S]
  BY <1>3 DEF SetToSeq
<1>5. SetToSeq(S) \in Seq(S)
  BY <1>1, <1>4, SeqDef
<1>. QED
  BY <1>5, ElementOfSeq DEF IsASequence

LEMMA WorkOfSet ==
  ASSUME NEW S, IsFiniteSet(S), \A t \in S : ItemOK(t)
  PROVE  WorkOK(SetToSeq(S))
<1>. QED
  BY SetToSeqIs DEF WorkOK

LEMMA WorkOfOne ==
  ASSUME NEW t, ItemOK(t)
  PROVE  WorkOK(<<t>>)
<1>. DEFINE w == <<t>>
<1>1. w \in Seq({t}) /\ Len(w) = 1 /\ w[1] = t
  OBVIOUS
<1>. HIDE DEF w
<1>2. \A i \in 1 .. Len(w) : i = 1
  BY <1>1
<1>3. WorkOK(w)
  BY <1>1, <1>2 DEF WorkOK, IsASequence
<1>. QED
  BY <1>3 DEF w

LEMMA WorkJoined ==
  ASSUME NEW v, WorkOK(v), NEW w, WorkOK(w)
  PROVE  WorkOK(v \o w)
<1>1. /\ IsASequence(v) /\ \A i \in 1 .. Len(v) : ItemOK(v[i])
      /\ IsASequence(w) /\ \A i \in 1 .. Len(w) : ItemOK(w[i])
  BY DEF WorkOK
<1>2. Len(v) \in Nat /\ Len(w) \in Nat
  BY <1>1, SequenceType
<1>. DEFINE u  == v \o w
            lv == Len(v)
            lw == Len(w)
<1>3. /\ IsASequence(u) /\ Len(u) = lv + lw
      /\ \A i \in 1 .. lv + lw : u[i] = IF i <= lv THEN v[i] ELSE w[i - lv]
  BY <1>1, ConcatSequence
<1>. HIDE DEF u
<1>4. ASSUME NEW i \in 1 .. lv + lw PROVE ItemOK(u[i])
  <2>1. u[i] = IF i <= lv THEN v[i] ELSE w[i - lv]
    BY <1>3
  <2>2. IF i <= lv THEN i \in 1 .. lv ELSE i - lv \in 1 .. lw
    <3>1. lv \in Nat /\ lw \in Nat
      BY <1>2
    <3>. HIDE DEF lv, lw
    <3>. QED
      BY <3>1
  <2>. QED
    BY <1>1, <2>1, <2>2
<1>5. WorkOK(u)
  BY <1>3, <1>4 DEF WorkOK
<1>. QED
  BY <1>5 DEF u

LEMMA WorkLeft ==
  ASSUME NEW w, WorkOK(w), w # <<>>
  PROVE  ItemOK(Head(w)) /\ WorkOK(Tail(w))
<1>1. IsASequence(w) /\ \A i \in 1 .. Len(w) : ItemOK(w[i])
  BY DEF WorkOK
<1>2. /\ IsASequence(Tail(w)) /\ Len(Tail(w)) = Len(w) - 1 /\ Len(w) \in Nat
      /\ \A i \in 1 .. Len(Tail(w)) : Tail(w)[i] = w[i + 1]
      /\ Head(w) = w[1] /\ 1 \in 1 .. Len(w)
  BY <1>1, TailSequence, SequenceType
<1>3. \A i \in 1 .. Len(Tail(w)) : ItemOK(Tail(w)[i])
  <2>1. \A i \in 1 .. Len(Tail(w)) : i + 1 \in 1 .. Len(w)
    <3>. DEFINE a == Len(Tail(w))
                b == Len(w)
    <3>1. a = b - 1 /\ b \in Nat
      BY <1>2
    <3>. HIDE DEF a, b
    <3>2. \A i \in 1 .. a : i + 1 \in 1 .. b
      BY <3>1
    <3>. QED
      BY <3>2 DEF a, b
  <2>. QED
    BY <1>1, <1>2, <2>1
<1>. QED
  BY <1>1, <1>2, <1>3 DEF WorkOK

LEMMA NodesOK ==
  NodeOK(Dir) /\ (\A v : NodeOK(File(v))) /\ NodeOK(Emptied)
<1>1. NodeOK(Dir) /\ NodeOK(Emptied)
  BY FS_EmptySet DEF NodeOK, Dir, Emptied
<1>2. ASSUME NEW v PROVE NodeOK(File(v))
  <2>1. IsFiniteSet({<<(<<>>), v>>})
    BY FS_Singleton
  <2>2. IsASequence(<<>>)
    BY EmptySeq DEF IsASequence
  <2>3. File(v).dir = FALSE /\ File(v).data = {<<(<<>>), v>>}
    BY DEF File
  <2>4. \A e \in {<<(<<>>), v>>} : e[1] = <<>>
    OBVIOUS
  <2>. QED
    BY <2>1, <2>2, <2>3, <2>4 DEF NodeOK
<1>. QED
  BY <1>1, <1>2

-----------------------------------------------------------------------------
(* The inductive invariant.                                                 *)

Ready ==
  /\ DiskOK(disk)
  /\ DOMAIN to = Slot /\ \A r \in Slot : IsASequence(to[r])
  /\ DOMAIN work = Slot /\ \A r \in Slot : WorkOK(work[r])

AtAPath == \A r \in Slot : (Active(r) /\ req[r].paths # <<>>) => at[r] \in DOMAIN req[r].paths

Asked ==
  /\ req \in [Slot -> Request \cup {NoRequest}] /\ at \in [Slot -> Nat] /\ AtAPath
  /\ DOMAIN pc = Slot
  /\ requests \in 0 .. MaxRequests /\ alone \in [Slot -> BOOLEAN]

FsInv == Ready /\ Asked

\* What every step of a request does with the request.
Proceeds(r) ==
  /\ UNCHANGED <<req, requests, alone>> /\ Active(r)
  /\ NextPath(r) \/ (UNCHANGED at /\ (UNCHANGED pc \/ \E l : Goto(r, l)))

LEMMA RequestShape ==
  ASSUME NEW q \in Request \cup {NoRequest}
  PROVE  /\ IsASequence(q.dest)
         /\ IsASequence(q.paths) /\ \A i \in 1 .. Len(q.paths) : IsASequence(q.paths[i])
<1>1. CASE q \in Request
  <2>1. q.dest \in Seq(STRING) /\ q.paths \in Seq(Seq(STRING))
    BY <1>1, FsAssumption
  <2>2. \A i \in 1 .. Len(q.paths) : q.paths[i] \in Seq(STRING)
    BY <2>1, ElementOfSeq
  <2>. QED
    BY <2>1, <2>2 DEF IsASequence
<1>2. CASE q = NoRequest
  <2>1. q.dest = <<>> /\ q.paths = <<>>
    BY <1>2 DEF NoRequest
  <2>2. IsASequence(<<>>) /\ Len(<<>>) = 0
    BY EmptySeq DEF IsASequence
  <2>. QED
    BY <2>1, <2>2
<1>. QED
  BY <1>1, <1>2

LEMMA ProceedsKeeps ==
  ASSUME FsInv, NEW r \in Slot, Proceeds(r)
  PROVE  Asked'
<1>1. /\ req \in [Slot -> Request \cup {NoRequest}] /\ at \in [Slot -> Nat] /\ AtAPath
      /\ DOMAIN pc = Slot /\ requests \in 0 .. MaxRequests /\ alone \in [Slot -> BOOLEAN]
  BY DEF FsInv, Asked
<1>2. req' = req /\ requests' = requests /\ alone' = alone /\ Active(r)
  BY DEF Proceeds
<1>3. \A s \in Slot : s # r => pc'[s] = pc[s]
  BY <1>1 DEF Proceeds, NextPath, Goto
<1>4. DOMAIN pc' = Slot
  BY <1>1 DEF Proceeds, NextPath, Goto
<1>5. \A s \in Slot : Active(s)' => Active(s)
  BY <1>2, <1>3 DEF Active
<1>6. at' \in [Slot -> Nat] /\ AtAPath'
  <2>1. CASE UNCHANGED at
    BY <1>1, <1>2, <1>5, <2>1 DEF AtAPath
  <2>2. CASE at' # at
    <3>. DEFINE k == Len(req[r].paths)
    <3>1. at[r] < k /\ at' = [at EXCEPT ![r] = @ + 1]
      BY <2>2 DEF Proceeds, NextPath
    <3>2. IsASequence(req[r].paths)
      BY <1>1, RequestShape
    <3>3. k \in Nat /\ DOMAIN req[r].paths = 1 .. k /\ at[r] \in Nat
      BY <1>1, <3>2, SequenceType
    <3>. HIDE DEF k
    <3>4. at[r] + 1 \in 1 .. k
      BY <3>1, <3>3
    <3>5. at' \in [Slot -> Nat] /\ at'[r] = at[r] + 1 /\ \A s \in Slot : s # r => at'[s] = at[s]
      BY <1>1, <3>1
    <3>. QED
      BY <1>1, <1>2, <1>5, <3>3, <3>4, <3>5 DEF AtAPath
  <2>. QED
    BY <2>1, <2>2
<1>. QED
  BY <1>1, <1>2, <1>4, <1>6 DEF Asked

\* The steps that leave the disk and the entries still to do alone.
LEMMA IdleSteps ==
  ASSUME FsInv, NEW r \in Slot,
         Check(r) \/ Copied(r) \/ Delete(r) \/ Removed(r) \/ RemoveFails(r) \/ Undone(r)
           \/ WriteTrashInfo(r)
  PROVE  Proceeds(r) /\ Ready'
<1>1. disk' = disk /\ to' = to /\ work' = work
  BY DEF Check, Copied, Delete, Removed, RemoveFails, Undone, WriteTrashInfo, history
<1>2. Ready'
  BY <1>1 DEF FsInv, Ready
<1>3. Proceeds(r)
  <2>1. CASE Check(r)
    BY <2>1 DEF Check, Proceeds, Active, Answers, history
  <2>2. CASE Copied(r)
    BY <2>2 DEF Copied, Proceeds, Active, Answers
  <2>3. CASE Delete(r)
    BY <2>3 DEF Delete, Proceeds, Active, Answers, history
  <2>4. CASE Removed(r)
    BY <2>4 DEF Removed, Proceeds, Active, Answers, history
  <2>5. CASE RemoveFails(r)
    BY <2>5 DEF RemoveFails, Proceeds, Active, Answers
  <2>6. CASE Undone(r)
    BY <2>6 DEF Undone, Proceeds, Active, Answers, history
  <2>7. CASE WriteTrashInfo(r)
    BY <2>7 DEF WriteTrashInfo, Proceeds, Active, Answers
  <2>. QED
    BY <2>1, <2>2, <2>3, <2>4, <2>5, <2>6, <2>7
<1>. QED
  BY <1>2, <1>3

LEMMA CreateStep ==
  ASSUME FsInv, NEW r \in Slot, Create(r)
  PROVE  Proceeds(r) /\ Ready'
<1>. DEFINE q    == req[r]
            dirs == IF q.kind = "create_dir" THEN q.dest ELSE Front(q.dest)
            d    == MakeDirs(disk, dirs)
<1>1. Proceeds(r) /\ to' = to /\ work' = work
  BY DEF Create, Proceeds, Active, Answers, history
<1>2. IsASequence(q.dest) /\ IsASequence(dirs)
  BY RequestShape, FrontSequence DEF FsInv, Asked
<1>3. DiskOK(disk)
  BY DEF FsInv, Ready
<1>4. \/ disk' = disk
      \/ CanMakeDirs(disk, dirs) /\ disk' = d
      \/ /\ CanMakeDirs(disk, dirs) /\ CanCreate(d, q.dest)
         /\ disk' = With(d, q.dest, File(q.value))
  BY DEF Create
<1>. HIDE DEF dirs, d
<1>5. CanMakeDirs(disk, dirs) => DiskOK(d)
  BY <1>2, <1>3, MakeDirsOK DEF d
<1>6. CanMakeDirs(disk, dirs) /\ CanCreate(d, q.dest) => DiskOK(With(d, q.dest, File(q.value)))
  BY <1>2, <1>5, WithOK, NodesOK DEF CanCreate
<1>7. DiskOK(disk')
  BY <1>3, <1>4, <1>5, <1>6
<1>8. Ready'
  BY <1>1, <1>7 DEF FsInv, Ready
<1>. QED
  BY <1>1, <1>8

LEMMA RenameStep ==
  ASSUME FsInv, NEW r \in Slot, Rename(r)
  PROVE  Proceeds(r) /\ Ready'
<1>. DEFINE p == Src(r)
            q == req[r].dest
<1>1. Proceeds(r) /\ to' = to /\ work' = work
  BY DEF Rename, Proceeds, Active, Answers, history
<1>2. IsASequence(q)
  BY RequestShape DEF FsInv, Asked
<1>3. DiskOK(disk)
  BY DEF FsInv, Ready
<1>4. disk' = disk \/ (CanRename(disk, p, q) /\ disk' = Renamed(disk, p, q))
  BY DEF Rename
<1>. HIDE DEF p, q
<1>5. ASSUME CanRename(disk, p, q) PROVE DiskOK(Renamed(disk, p, q))
  <2>1. IsASequence(p)
    BY <1>3, <1>5 DEF CanRename, Exists, DiskOK
  <2>. QED
    BY <1>2, <1>3, <1>5, <2>1, RenamedOK
<1>6. DiskOK(disk')
  BY <1>3, <1>4, <1>5
<1>7. Ready'
  BY <1>1, <1>6 DEF FsInv, Ready
<1>. QED
  BY <1>1, <1>7

\* Entries of r replaced.
LEMMA NewWork ==
  ASSUME FsInv, NEW r \in Slot, NEW w, WorkOK(w),
         work' = work \/ work' = [work EXCEPT ![r] = w]
  PROVE  DOMAIN work' = Slot /\ \A s \in Slot : WorkOK(work'[s])
<1>. QED
  BY DEF FsInv, Ready

LEMMA NewTo ==
  ASSUME FsInv, NEW r \in Slot, NEW p, IsASequence(p),
         to' = to \/ to' = [to EXCEPT ![r] = p]
  PROVE  DOMAIN to' = Slot /\ \A s \in Slot : IsASequence(to'[s])
<1>. QED
  BY DEF FsInv, Ready

LEMMA TryRenameStep ==
  ASSUME FsInv, NEW r \in Slot, TryRename(r)
  PROVE  Proceeds(r) /\ Ready'
<1>. DEFINE p == Src(r)
            q == to[r]
            t == [src |-> p, dst |-> q, val |-> Dir]
<1>1. Proceeds(r) /\ to' = to
  BY DEF TryRename, Proceeds, Active, Answers
<1>2. IsASequence(q) /\ DiskOK(disk)
  BY DEF FsInv, Ready
<1>3. disk' = disk \/ (CanRename(disk, p, q) /\ disk' = Renamed(disk, p, q))
  BY DEF TryRename
<1>4. work' = work \/ work' = [work EXCEPT ![r] = <<t>>]
  BY DEF TryRename
<1>5. ItemOK(t)
  BY <1>2, NodesOK DEF ItemOK
<1>. HIDE DEF p, q, t
<1>6. ASSUME CanRename(disk, p, q) PROVE DiskOK(Renamed(disk, p, q))
  <2>1. IsASequence(p)
    BY <1>2, <1>6 DEF CanRename, Exists, DiskOK
  <2>. QED
    BY <1>2, <1>6, <2>1, RenamedOK
<1>7. DiskOK(disk')
  BY <1>2, <1>3, <1>6
<1>8. WorkOK(<<t>>)
  BY <1>5, WorkOfOne
<1>9. DOMAIN work' = Slot /\ \A s \in Slot : WorkOK(work'[s])
  BY <1>4, <1>8, NewWork
<1>10. Ready'
  BY <1>1, <1>7, <1>9 DEF FsInv, Ready
<1>. QED
  BY <1>1, <1>10

LEMMA PrepareStep ==
  ASSUME FsInv, NEW r \in Slot, Prepare(r)
  PROVE  Proceeds(r) /\ Ready'
<1>. DEFINE q    == req[r]
            d    == IF at[r] = 1 /\ CanMakeDirs(disk, q.dest) THEN MakeDirs(disk, q.dest) ELSE disk
            dst  == Append(q.dest, Base(Src(r)))
            free == IF Exists(d, dst) THEN Append(q.dest, Base(dst) \o " (copy)") ELSE dst
            t    == [src |-> Src(r), dst |-> free, val |-> Dir]
<1>1. Proceeds(r)
  BY DEF Prepare, Proceeds, Active, Answers, history
<1>2. IsASequence(q.dest) /\ DiskOK(disk)
  BY RequestShape DEF FsInv, Asked, Ready
<1>3. /\ disk' = d
      /\ to' = to \/ to' = [to EXCEPT ![r] = dst] \/ to' = [to EXCEPT ![r] = free]
      /\ work' = work \/ work' = [work EXCEPT ![r] = <<t>>]
  BY DEF Prepare
<1>4. IsASequence(dst) /\ IsASequence(free)
  BY <1>2, AppendSequence
<1>5. ItemOK(t)
  BY <1>4, NodesOK DEF ItemOK
<1>6. DiskOK(d)
  BY <1>2, MakeDirsOK
<1>. HIDE DEF d, dst, free, t
<1>7. WorkOK(<<t>>)
  BY <1>5, WorkOfOne
<1>8. DOMAIN work' = Slot /\ \A s \in Slot : WorkOK(work'[s])
  BY <1>3, <1>7, NewWork
<1>9. DOMAIN to' = Slot /\ \A s \in Slot : IsASequence(to'[s])
  BY <1>3, <1>4, NewTo
<1>10. Ready'
  BY <1>3, <1>6, <1>8, <1>9 DEF Ready
<1>. QED
  BY <1>1, <1>10

LEMMA ChooseTrashNameStep ==
  ASSUME FsInv, NEW r \in Slot, ChooseTrashName(r)
  PROVE  Proceeds(r) /\ Ready'
<1>. DEFINE T == TrashFiles
            d == MakeDirs(disk, T)
<1>1. Proceeds(r) /\ work' = work
  BY DEF ChooseTrashName, Proceeds, Active, Answers
<1>2. \/ disk' = disk /\ to' = to
      \/ CanMakeDirs(disk, T) /\ disk' = d /\ \E n : to' = [to EXCEPT ![r] = Append(T, n)]
  BY DEF ChooseTrashName
<1>3. IsASequence(T) /\ DiskOK(disk)
  BY FsAssumption DEF IsASequence, FsInv, Ready
<1>. HIDE DEF d, T
<1>4. CanMakeDirs(disk, T) => DiskOK(d)
  BY <1>3, MakeDirsOK DEF d
<1>5. DOMAIN to' = Slot /\ \A s \in Slot : IsASequence(to'[s])
  <2>1. CASE to' = to
    BY <2>1 DEF FsInv, Ready
  <2>2. CASE \E n : to' = [to EXCEPT ![r] = Append(T, n)]
    <3>1. PICK n : to' = [to EXCEPT ![r] = Append(T, n)]
      BY <2>2
    <3>2. IsASequence(Append(T, n))
      BY <1>3, AppendSequence
    <3>. QED
      BY <3>1, <3>2, NewTo
  <2>. QED
    BY <1>2, <2>1, <2>2
<1>6. DiskOK(disk')
  BY <1>2, <1>3, <1>4
<1>7. Ready'
  BY <1>1, <1>5, <1>6 DEF FsInv, Ready
<1>. QED
  BY <1>1, <1>7

LEMMA RemovalStep ==
  ASSUME FsInv, NEW r \in Slot, RemoveEntry(r) \/ Cleanup(r)
  PROVE  Proceeds(r) /\ Ready'
<1>1. Proceeds(r) /\ to' = to /\ work' = work
  BY DEF RemoveEntry, Cleanup, Proceeds, Active, Answers, history
<1>2. IsASequence(req[r].dest) /\ DiskOK(disk)
  BY RequestShape DEF FsInv, Asked, Ready
<1>3. \/ disk' = disk
      \/ \E p : /\ IsASequence(p) /\ Children(disk, p) = {}
                /\ disk' = Restricted(disk, DOMAIN disk \ {p})
  <2>1. CASE RemoveEntry(r)
    <3>1. PICK p \in DOMAIN disk : /\ Children(disk, p) = {}
                                   /\ disk' = Restricted(disk, DOMAIN disk \ {p})
      BY <2>1 DEF RemoveEntry, Below
    <3>2. IsASequence(p)
      BY <1>2 DEF DiskOK
    <3>. QED
      BY <3>1, <3>2
  <2>2. CASE Cleanup(r)
    BY <1>2, <2>2 DEF Cleanup
  <2>. QED
    BY <2>1, <2>2
<1>4. DiskOK(disk')
  BY <1>2, <1>3, RemoveOK
<1>5. Ready'
  BY <1>1, <1>4 DEF FsInv, Ready
<1>. QED
  BY <1>1, <1>5

LEMMA CompressStep ==
  ASSUME FsInv, NEW r \in Slot, Compress(r)
  PROVE  Proceeds(r) /\ Ready'
<1>. DEFINE q    == req[r]
            w    == [i \in DOMAIN q.paths |->
                       [src |-> q.paths[i], dst |-> <<Base(q.paths[i])>>, val |-> Dir]]
<1>1. Proceeds(r) /\ to' = to
  BY DEF Compress, Proceeds, Active, Answers, history
<1>2. IsASequence(q.dest) /\ DiskOK(disk) /\ IsASequence(q.paths)
  BY RequestShape DEF FsInv, Asked, Ready
<1>3. /\ disk' = disk \/ (CanCreate(disk, q.dest) /\ disk' = With(disk, q.dest, Emptied))
      /\ work' = work \/ work' = [work EXCEPT ![r] = w]
  BY DEF Compress
<1>4. WorkOK(w)
  <2>1. Len(q.paths) \in Nat /\ DOMAIN q.paths = 1 .. Len(q.paths)
    BY <1>2, SequenceType
  <2>2. \A i \in DOMAIN w : ItemOK(w[i])
    <3>. SUFFICES ASSUME NEW i \in DOMAIN q.paths
                  PROVE  ItemOK([src |-> q.paths[i], dst |-> <<Base(q.paths[i])>>, val |-> Dir])
      OBVIOUS
    <3>. DEFINE b == Base(q.paths[i])
    <3>1. <<b>> \in Seq({b})
      OBVIOUS
    <3>. QED
      BY <3>1, NodesOK DEF ItemOK, IsASequence
  <2>3. w \in Seq({w[i] : i \in DOMAIN w})
    BY <2>1
  <2>4. Len(w) = Len(q.paths)
    BY <2>1
  <2>. HIDE DEF w
  <2>5. DOMAIN w = 1 .. Len(w)
    BY <2>3, LenProperties
  <2>. QED
    BY <2>2, <2>3, <2>5 DEF WorkOK, IsASequence
<1>. HIDE DEF w
<1>5. CanCreate(disk, q.dest) => DiskOK(With(disk, q.dest, Emptied))
  BY <1>2, WithOK, NodesOK DEF CanCreate
<1>6. DOMAIN work' = Slot /\ \A s \in Slot : WorkOK(work'[s])
  BY <1>3, <1>4, NewWork
<1>7. Ready'
  BY <1>1, <1>2, <1>3, <1>5, <1>6 DEF FsInv, Ready
<1>. QED
  BY <1>1, <1>7

\* The entries that listing a directory adds.
LEMMA ListedWork ==
  ASSUME NEW d, DiskOK(d), NEW t, ItemOK(t)
  PROVE  WorkOK(Listing(d, t))
<1>. DEFINE C == Children(d, t.src)
            f == [c \in C |-> [src |-> c, dst |-> Append(t.dst, Base(c)), val |-> Dir]]
            I == {f[c] : c \in C}
<1>1. IsFiniteSet(C)
  <2>1. C \subseteq DOMAIN d
    BY DEF Children, Below
  <2>2. IsFiniteSet(DOMAIN d)
    BY DEF DiskOK
  <2>. HIDE DEF C
  <2>. QED
    BY <2>1, <2>2, FS_Subset
<1>2. I = {[src |-> c, dst |-> Append(t.dst, Base(c)), val |-> Dir] : c \in C}
  OBVIOUS
<1>3. \A c \in C : ItemOK(f[c])
  BY AppendSequence, NodesOK DEF ItemOK
<1>4. DOMAIN f = C
  OBVIOUS
<1>. HIDE DEF f, C
<1>5. IsFiniteSet(I) /\ \A u \in I : ItemOK(u)
  BY <1>1, <1>3, <1>4, FiniteImage
<1>. HIDE DEF I
<1>6. WorkOK(SetToSeq(I))
  BY <1>5, WorkOfSet
<1>. QED
  BY <1>2, <1>6 DEF C, Listing

LEMMA CopyEntryStep ==
  ASSUME FsInv, NEW r \in Slot, CopyEntry(r)
  PROVE  Proceeds(r) /\ Ready'
<1>. DEFINE w == work[r]
            t == Head(w)
            node == IF t.src = t.dst THEN Emptied ELSE disk[t.src]
            L == Listing(disk', t)
<1>1. Proceeds(r)
  BY DEF CopyEntry, CopyFails, Proceeds, Active, Answers, history
<1>2. to' = to
  BY DEF CopyEntry
<1>3. DiskOK(disk) /\ WorkOK(w) /\ w # <<>> /\ DOMAIN work = Slot
  BY DEF FsInv, Ready, CopyEntry
<1>4. ItemOK(t) /\ WorkOK(Tail(w)) /\ IsASequence(t.dst)
  BY <1>3, WorkLeft DEF ItemOK
<1>5. \/ /\ CanMakeDirs(disk, t.dst) /\ disk' = MakeDirs(disk, t.dst)
         /\ work' = [work EXCEPT ![r] = L \o Tail(w)]
      \/ /\ IsFile(disk, t.src) /\ CanCreate(disk, t.dst)
         /\ disk' = With(disk, t.dst, node)
         /\ work' = [work EXCEPT ![r] = Tail(w)]
      \/ disk' = disk /\ work' = work
      \/ /\ CanCreate(disk, t.dst) /\ disk' = With(disk, t.dst, Emptied)
         /\ work' = work
  BY <1>3 DEF CopyEntry
<1>. HIDE DEF t, L, node
<1>6. DiskOK(disk')
  <2>1. CASE CanMakeDirs(disk, t.dst) /\ disk' = MakeDirs(disk, t.dst)
    BY <1>3, <1>4, <2>1, MakeDirsOK
  <2>2. CASE /\ IsFile(disk, t.src) /\ CanCreate(disk, t.dst)
             /\ disk' = With(disk, t.dst, node)
    <3>1. NodeOK(disk[t.src])
      BY <1>3, <2>2 DEF IsFile, DiskOK
    <3>2. NodeOK(node)
      BY <3>1, NodesOK DEF node
    <3>. QED
      BY <1>3, <1>4, <2>2, <3>2, WithOK DEF CanCreate
  <2>3. CASE CanCreate(disk, t.dst) /\ disk' = With(disk, t.dst, Emptied)
    BY <1>3, <1>4, <2>3, WithOK, NodesOK DEF CanCreate
  <2>. QED
    BY <1>3, <1>5, <2>1, <2>2, <2>3
<1>7. WorkOK(L \o Tail(w))
  <2>1. WorkOK(L)
    BY <1>4, <1>6, ListedWork DEF L
  <2>. QED
    BY <1>4, <2>1, WorkJoined
<1>8. DOMAIN work' = Slot /\ \A s \in Slot : WorkOK(work'[s])
  <2>. HIDE DEF w
  <2>1. \A v : WorkOK(v) /\ work' = [work EXCEPT ![r] = v]
                => DOMAIN work' = Slot /\ \A s \in Slot : WorkOK(work'[s])
    BY NewWork
  <2>2. work' = work => DOMAIN work' = Slot /\ \A s \in Slot : WorkOK(work'[s])
    BY DEF FsInv, Ready
  <2>. QED
    BY <1>4, <1>5, <1>7, <2>1, <2>2
<1>9. Ready'
  BY <1>2, <1>6, <1>8 DEF FsInv, Ready
<1>. QED
  BY <1>1, <1>9

\* What an archive holds once t has been added.
LEMMA AddedOK ==
  ASSUME NEW n, NodeOK(n), NEW m, NodeOK(m), NEW p, IsASequence(p)
  PROVE  NodeOK(Added(n, p, m))
<1>. DEFINE f == [e \in m.data |-> <<p \o e[1], e[2]>>]
            A == {<<p \o e[1], e[2]>> : e \in m.data}
            D == n.data \cup A
<1>1. DOMAIN f = m.data /\ A = {f[e] : e \in m.data}
  OBVIOUS
<1>2. IsFiniteSet(A)
  <2>. HIDE DEF f, A
  <2>1. IsFiniteSet(m.data)
    BY DEF NodeOK
  <2>2. IsFiniteSet({f[e] : e \in m.data})
    BY <1>1, <2>1, FiniteImage
  <2>. QED
    BY <1>1, <2>2
<1>3. \A e \in A : IsASequence(e[1])
  <2>1. \A e \in m.data : IsASequence(p \o e[1])
    BY ConcatSequence DEF NodeOK
  <2>2. ASSUME NEW a \in A PROVE IsASequence(a[1])
    <3>1. PICK e \in m.data : a = <<p \o e[1], e[2]>>
      BY <2>2
    <3>. QED
      BY <2>1, <3>1
  <2>. QED
    BY <2>2
<1>. HIDE DEF A
<1>4. IsFiniteSet(D)
  BY <1>2, FS_Union DEF NodeOK
<1>5. \A e \in D : IsASequence(e[1])
  BY <1>3 DEF NodeOK
<1>. HIDE DEF D
<1>6. NodeOK([dir |-> FALSE, data |-> D])
  BY <1>4, <1>5 DEF NodeOK
<1>. QED
  BY <1>6 DEF D, A, Added

\* A file is emptied that is there.
LEMMA EmptiedOK ==
  ASSUME NEW d, DiskOK(d), NEW q, IsASequence(q), IsFile(d, q)
  PROVE  DiskOK(With(d, q, Emptied))
<1>1. q \in DOMAIN d /\ q # <<>> /\ ~d[q].dir
  BY DEF IsFile, DiskOK
<1>2. IsDir(d, Front(q)) /\ ~IsDir(d, q)
  BY <1>1, FrontOfExisting DEF IsDir
<1>3. NodeOK(Emptied)
  BY NodesOK
<1>. QED
  BY <1>1, <1>2, <1>3, WithOK

LEMMA ArchiveDoneStep ==
  ASSUME FsInv, NEW r \in Slot, ArchiveDone(r)
  PROVE  Proceeds(r) /\ Ready'
<1>. DEFINE q == req[r].dest
<1>1. Proceeds(r) /\ to' = to /\ work' = work
  BY DEF ArchiveDone, Proceeds, Active, Answers
<1>2. DiskOK(disk) /\ IsASequence(q)
  BY RequestShape DEF FsInv, Ready, Asked
<1>3. disk' = disk \/ (IsFile(disk, q) /\ disk' = With(disk, q, Emptied))
  BY DEF ArchiveDone, Closed
<1>. HIDE DEF q
<1>4. DiskOK(disk')
  BY <1>2, <1>3, EmptiedOK
<1>. QED
  BY <1>1, <1>4 DEF FsInv, Ready

LEMMA AddEntryStep ==
  ASSUME FsInv, NEW r \in Slot, AddEntry(r)
  PROVE  Proceeds(r) /\ Ready'
<1>. DEFINE w == work[r]
            t == Head(w)
            q == req[r].dest
            node == Added(disk[q], t.dst, disk[t.src])
            L == Listing(disk, t)
<1>1. Proceeds(r)
  BY DEF AddEntry, Proceeds, Active, Answers
<1>2. to' = to
  BY DEF AddEntry
<1>3. /\ DiskOK(disk) /\ WorkOK(w) /\ w # <<>> /\ DOMAIN work = Slot
      /\ IsASequence(q)
  BY RequestShape DEF FsInv, Ready, Asked, AddEntry
<1>4. ItemOK(t) /\ WorkOK(Tail(w)) /\ IsASequence(t.dst)
  BY <1>3, WorkLeft DEF ItemOK
<1>5. /\ \/ disk' = disk
         \/ IsFile(disk, t.src) /\ IsFile(disk, q) /\ disk' = With(disk, q, node)
         \/ IsFile(disk, q) /\ disk' = With(disk, q, Emptied)
      /\ \/ work' = work
         \/ work' = [work EXCEPT ![r] = L \o Tail(w)]
         \/ work' = [work EXCEPT ![r] = Tail(w)]
  BY <1>3 DEF AddEntry, Closed
<1>. HIDE DEF t, L, q
<1>6. DiskOK(disk')
  <2>1. CASE IsFile(disk, t.src) /\ IsFile(disk, q) /\ disk' = With(disk, q, node)
    <3>1. /\ NodeOK(disk[t.src]) /\ NodeOK(disk[q]) /\ ~disk[q].dir
          /\ q \in DOMAIN disk /\ q # <<>>
      BY <1>3, <2>1 DEF IsFile, DiskOK
    <3>2. NodeOK(node)
      BY <1>4, <3>1, AddedOK
    <3>. HIDE DEF node
    <3>3. IsDir(disk, Front(q)) /\ ~IsDir(disk, q)
      BY <1>3, <3>1, FrontOfExisting DEF IsDir
    <3>. QED
      BY <1>3, <2>1, <3>2, <3>3, WithOK
  <2>. QED
    BY <1>3, <1>5, <2>1, EmptiedOK
<1>7. WorkOK(L \o Tail(w))
  <2>1. WorkOK(L)
    BY <1>3, <1>4, ListedWork DEF L
  <2>. QED
    BY <1>4, <2>1, WorkJoined
<1>8. DOMAIN work' = Slot /\ \A s \in Slot : WorkOK(work'[s])
  <2>. HIDE DEF w
  <2>1. \A v : WorkOK(v) /\ work' = [work EXCEPT ![r] = v]
                => DOMAIN work' = Slot /\ \A s \in Slot : WorkOK(work'[s])
    BY NewWork
  <2>2. work' = work => DOMAIN work' = Slot /\ \A s \in Slot : WorkOK(work'[s])
    BY DEF FsInv, Ready
  <2>. QED
    BY <1>4, <1>5, <1>7, <2>1, <2>2
<1>9. Ready'
  BY <1>2, <1>6, <1>8 DEF FsInv, Ready
<1>. QED
  BY <1>1, <1>9

LEMMA DecompressStep ==
  ASSUME FsInv, NEW r \in Slot, Decompress(r)
  PROVE  Proceeds(r) /\ Ready'
<1>. DEFINE q == req[r].dest
            s == Src(r)
            D == {x \in disk[s].data : ~Outside(x[1])}
            f == [e \in D |-> [src |-> s, dst |-> q \o e[1], val |-> File(e[2])]]
            I == {[src |-> s, dst |-> q \o e[1], val |-> File(e[2])] : e \in D}
<1>1. Proceeds(r) /\ to' = to
  BY DEF Decompress, Proceeds, Active, Answers, history
<1>2. DiskOK(disk) /\ IsASequence(q)
  BY RequestShape DEF FsInv, Ready, Asked
<1>3. /\ disk' = disk \/ (CanMakeDirs(disk, q) /\ disk' = MakeDirs(disk, q))
      /\ work' = work \/ (IsFile(disk, s) /\ work' = [work EXCEPT ![r] = SetToSeq(I)])
  BY DEF Decompress
<1>4. DiskOK(disk')
  <2>. HIDE DEF q, I
  <2>. QED
    BY <1>2, <1>3, MakeDirsOK
<1>5. ASSUME IsFile(disk, s) PROVE WorkOK(SetToSeq(I))
  <2>1. NodeOK(disk[s])
    BY <1>2, <1>5 DEF IsFile, DiskOK
  <2>2. IsFiniteSet(D) /\ \A e \in D : IsASequence(e[1])
    BY <2>1, FS_Subset DEF NodeOK
  <2>3. \A e \in D : IsASequence(q \o e[1])
    BY <1>2, <2>2, ConcatSequence
  <2>. HIDE DEF D
  <2>4. ASSUME NEW t \in I PROVE ItemOK(t)
    <3>1. PICK e \in D : t = [src |-> s, dst |-> q \o e[1], val |-> File(e[2])]
      BY <2>4
    <3>2. t.dst = q \o e[1] /\ t.val = File(e[2])
      BY <3>1
    <3>. QED
      BY <2>3, <3>2, NodesOK DEF ItemOK
  <2>5. DOMAIN f = D /\ I = {f[e] : e \in D}
    OBVIOUS
  <2>. HIDE DEF f, I
  <2>6. IsFiniteSet({f[e] : e \in D})
    BY <2>2, <2>5, FiniteImage
  <2>7. IsFiniteSet(I)
    BY <2>5, <2>6
  <2>. QED
    BY <2>4, <2>7, WorkOfSet
<1>. HIDE DEF I
<1>6. DOMAIN work' = Slot /\ \A o \in Slot : WorkOK(work'[o])
  <2>1. CASE work' = work
    BY <2>1 DEF FsInv, Ready
  <2>2. CASE IsFile(disk, s) /\ work' = [work EXCEPT ![r] = SetToSeq(I)]
    BY <1>5, <2>2, NewWork
  <2>. QED
    BY <1>3, <2>1, <2>2
<1>7. Ready'
  BY <1>1, <1>4, <1>6 DEF FsInv, Ready
<1>. QED
  BY <1>1, <1>7

LEMMA ExtractEntryStep ==
  ASSUME FsInv, NEW r \in Slot, ExtractEntry(r)
  PROVE  Proceeds(r) /\ Ready'
<1>. DEFINE w == work[r]
            t == Head(w)
            d == IF CanMakeDirs(disk, Front(t.dst)) THEN MakeDirs(disk, Front(t.dst)) ELSE disk
<1>1. Proceeds(r)
  BY DEF ExtractEntry, Proceeds, Active, Answers, history
<1>2. to' = to
  BY DEF ExtractEntry
<1>3. DiskOK(disk) /\ WorkOK(w) /\ w # <<>>
  BY DEF FsInv, Ready, ExtractEntry
<1>4. IsASequence(t.dst) /\ NodeOK(t.val) /\ WorkOK(Tail(w))
  BY <1>3, WorkLeft DEF ItemOK
<1>5. /\ \/ disk' = d
         \/ CanCreate(d, t.dst) /\ disk' \in {With(d, t.dst, t.val), With(d, t.dst, Emptied)}
      /\ work' = work \/ work' = [work EXCEPT ![r] = Tail(w)]
  BY DEF ExtractEntry
<1>. HIDE DEF t
<1>6. DiskOK(d)
  BY <1>3, <1>4, FrontSequence, MakeDirsOK
<1>. HIDE DEF d
<1>7. DiskOK(disk')
  BY <1>4, <1>5, <1>6, NodesOK, WithOK DEF CanCreate
<1>8. DOMAIN work' = Slot /\ \A s \in Slot : WorkOK(work'[s])
  <2>. DEFINE v == Tail(w)
  <2>1. WorkOK(v) /\ (work' = work \/ work' = [work EXCEPT ![r] = v])
    BY <1>4, <1>5
  <2>. HIDE DEF v
  <2>. QED
    BY <2>1, NewWork
<1>9. Ready'
  BY <1>2, <1>7, <1>8 DEF FsInv, Ready
<1>. QED
  BY <1>1, <1>9

LEMMA StepKeeps ==
  ASSUME FsInv, NEW r \in Slot, Step(r)
  PROVE  Proceeds(r) /\ FsInv'
<1>1. Proceeds(r) /\ Ready'
  BY IdleSteps, CreateStep, RenameStep, TryRenameStep, PrepareStep, ChooseTrashNameStep,
     RemovalStep, CompressStep, CopyEntryStep, AddEntryStep, ArchiveDoneStep, DecompressStep,
     ExtractEntryStep DEF Step
<1>2. Asked'
  BY <1>1, ProceedsKeeps
<1>. QED
  BY <1>1, <1>2 DEF FsInv

LEMMA BeginKeeps ==
  ASSUME FsInv, NEW r \in Slot, NEW q \in Request, Begin(r, q)
  PROVE  FsInv'
<1>1. /\ disk' = disk /\ to' = [to EXCEPT ![r] = q.dest] /\ work' = [work EXCEPT ![r] = <<>>]
      /\ req' = [req EXCEPT ![r] = q] /\ pc' = [pc EXCEPT ![r] = "check"]
      /\ at' = [at EXCEPT ![r] = 1] /\ requests' = requests + 1 /\ requests < MaxRequests
      /\ alone' = [s \in Slot |-> s = r /\ \A o \in Slot : ~Active(o)]
  BY DEF Begin
<1>2. IsASequence(q.dest) /\ IsASequence(q.paths)
  BY RequestShape
<1>3. WorkOK(<<>>)
  <2>1. IsASequence(<<>>) /\ Len(<<>>) = 0
    BY EmptySeq DEF IsASequence
  <2>. QED
    BY <2>1 DEF WorkOK
<1>4. DOMAIN to' = Slot /\ \A s \in Slot : IsASequence(to'[s])
  <2>. DEFINE p == q.dest
  <2>1. IsASequence(p) /\ to' = [to EXCEPT ![r] = p]
    BY <1>1, <1>2
  <2>. HIDE DEF p
  <2>. QED
    BY <2>1, NewTo
<1>5. DOMAIN work' = Slot /\ \A s \in Slot : WorkOK(work'[s])
  <2>. DEFINE w == <<>>
  <2>1. WorkOK(w) /\ work' = [work EXCEPT ![r] = w]
    BY <1>1, <1>3
  <2>. HIDE DEF w
  <2>. QED
    BY <2>1, NewWork
<1>6. Ready'
  BY <1>1, <1>4, <1>5 DEF FsInv, Ready
<1>7. AtAPath'
  <2>. SUFFICES ASSUME NEW s \in Slot, Active(s)', req'[s].paths # <<>>
                PROVE  at'[s] \in DOMAIN req'[s].paths
    BY DEF AtAPath
  <2>1. CASE s = r
    <3>1. at'[s] = 1 /\ req'[s] = q
      BY <1>1, <2>1 DEF FsInv, Asked
    <3>2. q.paths # <<>>
      BY <3>1
    <3>3. 1 \in DOMAIN q.paths
      BY <1>2, <3>2, TailSequence, SequenceType
    <3>. QED
      BY <3>1, <3>3
  <2>2. CASE s # r
    <3>1. Active(s) /\ req'[s] = req[s] /\ at'[s] = at[s]
      BY <1>1, <2>2 DEF FsInv, Asked, Active
    <3>. QED
      BY <3>1 DEF FsInv, Asked, AtAPath
  <2>. QED
    BY <2>1, <2>2
<1>8. Asked'
  <2>1. /\ req' \in [Slot -> Request \cup {NoRequest}] /\ at' \in [Slot -> Nat]
        /\ DOMAIN pc' = Slot /\ alone' \in [Slot -> BOOLEAN]
    BY <1>1 DEF FsInv, Asked
  <2>2. requests' \in 0 .. MaxRequests
    BY <1>1, FsAssumption DEF FsInv, Asked
  <2>. QED
    BY <1>7, <2>1, <2>2 DEF Asked
<1>. QED
  BY <1>6, <1>8 DEF FsInv

LEMMA InitKeeps == Init => FsInv
<1>. SUFFICES ASSUME Init PROVE FsInv
  OBVIOUS
<1>1. IsASequence(<<>>) /\ Len(<<>>) = 0
  BY EmptySeq DEF IsASequence
<1>2. WorkOK(<<>>)
  BY <1>1 DEF WorkOK
<1>3. DiskOK(disk)
  <2>1. ASSUME NEW p \in DOMAIN InitialDisk
        PROVE  /\ IsASequence(p) /\ p # <<>> /\ NodeOK(InitialDisk[p])
               /\ \A n \in 1 .. Len(p) - 1 : IsDir(InitialDisk, SubSeq(p, 1, n))
    <3>1. /\ p \in Seq(STRING) /\ p # <<>> /\ IsFiniteSet(InitialDisk[p].data)
          /\ \A e \in InitialDisk[p].data : e[1] \in Seq(STRING)
          /\ InitialDisk[p].dir \in BOOLEAN
          /\ InitialDisk[p].dir => InitialDisk[p].data = {}
          /\ \A q \in Ancestors(p) \ {p} : IsDir(InitialDisk, q)
      BY DiskAssumption DEF IsTree
    <3>2. IsASequence(p) /\ NodeOK(InitialDisk[p])
      BY <3>1 DEF IsASequence, NodeOK
    <3>3. ASSUME NEW n \in 1 .. Len(p) - 1 PROVE IsDir(InitialDisk, SubSeq(p, 1, n))
      <4>1. Len(p) \in Nat
        BY <3>2, SequenceType
      <4>2. n \in 0 .. Len(p) /\ n \in 1 .. Len(p) /\ n # Len(p)
        <5>. DEFINE k == Len(p)
        <5>1. k \in Nat /\ n \in 1 .. k - 1
          BY <3>3, <4>1
        <5>. HIDE DEF k
        <5>2. n \in 0 .. k /\ n \in 1 .. k /\ n # k
          BY <5>1
        <5>. QED
          BY <5>2 DEF k
      <4>3. Len(SubSeq(p, 1, n)) = n
        BY <3>2, <4>2, PrefixOf
      <4>4. SubSeq(p, 1, n) \in Ancestors(p) \ {p}
        BY <4>2, <4>3 DEF Ancestors
      <4>. QED
        BY <3>1, <4>4
    <3>. QED
      BY <3>1, <3>2, <3>3
  <2>2. DiskOK(InitialDisk)
    BY <2>1, DiskAssumption DEF DiskOK
  <2>. QED
    BY <2>2 DEF Init
<1>4. Ready
  BY <1>1, <1>2, <1>3 DEF Init, Ready
<1>5. Asked
  BY FsAssumption DEF Init, Asked, AtAPath, Active
<1>. QED
  BY <1>4, <1>5 DEF FsInv

LEMMA NextKeeps == FsInv /\ [Next]_vars => FsInv'
<1>. SUFFICES ASSUME FsInv, [Next]_vars PROVE FsInv'
  OBVIOUS
<1>1. ASSUME NEW r \in Slot, Step(r) PROVE FsInv'
  BY <1>1, StepKeeps
<1>2. ASSUME NEW r \in Slot, NEW q \in Request, Begin(r, q) PROVE FsInv'
  BY <1>2, BeginKeeps
<1>3. CASE UNCHANGED vars
  BY <1>3 DEF vars, request, history, FsInv, Ready, Asked, AtAPath, Active
<1>. QED
  BY <1>1, <1>2, <1>3 DEF Next

THEOREM InvariantHolds == Spec => []FsInv
<1>. QED
  BY InitKeeps, NextKeeps, PTL DEF Spec

\* Whatever requests run at a time and whatever fails, what is on the disk
\* stays a tree (everything in a directory that exists, a directory without
\* data), and every request is at one of its own paths.
THEOREM TypeCorrect == Spec => []TypeOK
<1>1. FsInv => TypeOK
  BY DiskIsTree DEF FsInv, Ready, Asked, AtAPath, TypeOK
<1>. QED
  BY <1>1, InvariantHolds, PTL

-----------------------------------------------------------------------------
(* Nothing is lost by a request that looks before it changes anything.      *)

Careful == {"rename", "create_file", "create_dir"}

\* A request that is alone is the only one in progress; until its change is made
\* its destination is free, and after it everything is still there.
CarefulOK(r) ==
  /\ before[r] \subseteq Values(disk)
  /\ pc[r] \in {"check", "path", "ok", "failed"}
  /\ pc[r] = "path" => ~Exists(disk, req[r].dest)

AloneInv ==
  \A r \in Slot : alone[r] =>
    /\ \A o \in Slot \ {r} : ~Active(o)
    /\ req[r].kind \in Careful => CarefulOK(r)

LEMMA MakeDirsKeepsValues ==
  ASSUME NEW d, DiskOK(d), NEW p, IsASequence(p), CanMakeDirs(d, p)
  PROVE  Values(d) \subseteq Values(MakeDirs(d, p))
<1>. DEFINE e == MakeDirs(d, p)
<1>1. /\ DiskOK(e) /\ DOMAIN d \subseteq DOMAIN e /\ \A y \in DOMAIN d : e[y] = d[y]
  BY MakeDirsOK
<1>. HIDE DEF e
<1>2. Values(d) \subseteq Values(e)
  BY <1>1, ValuesAre
<1>. QED
  BY <1>2 DEF e

LEMMA NewNodeKeepsValues ==
  ASSUME NEW d, DiskOK(d), NEW p, NEW node, p \notin DOMAIN d, DiskOK(With(d, p, node))
  PROVE  Values(d) \subseteq Values(With(d, p, node))
<1>. DEFINE e == With(d, p, node)
<1>1. DiskOK(e) /\ DOMAIN d \subseteq DOMAIN e /\ \A y \in DOMAIN d : e[y] = d[y]
  BY DEF With
<1>. HIDE DEF e
<1>2. Values(d) \subseteq Values(e)
  BY <1>1, ValuesAre
<1>. QED
  BY <1>2 DEF e

LEMMA CarefulCheck ==
  ASSUME FsInv, NEW r \in Slot, Check(r), req[r].kind \in Careful, CarefulOK(r)
  PROVE  CarefulOK(r)'
<1>1. /\ disk' = disk /\ before' = before /\ req' = req
      /\ pc'[r] = Verdict(req[r])
  BY DEF Check, Goto, history, FsInv, Asked
<1>2. /\ Verdict(req[r]) \in {"failed", "path"}
      /\ Verdict(req[r]) = "path" => ~Exists(disk, req[r].dest)
  BY DEF Verdict, Careful
<1>. QED
  BY <1>1, <1>2 DEF CarefulOK

LEMMA CarefulCreate ==
  ASSUME FsInv, NEW r \in Slot, Create(r), req[r].kind \in Careful, CarefulOK(r)
  PROVE  CarefulOK(r)'
<1>. DEFINE q    == req[r]
            dirs == IF q.kind = "create_dir" THEN q.dest ELSE Front(q.dest)
            d    == MakeDirs(disk, dirs)
<1>1. before' = before /\ req' = req /\ pc'[r] \in {"ok", "failed"} /\ pc[r] = "path"
  BY DEF Create, Goto, history, FsInv, Asked
<1>2. IsASequence(q.dest) /\ IsASequence(dirs) /\ DiskOK(disk)
  BY RequestShape, FrontSequence DEF FsInv, Asked, Ready
<1>3. \/ disk' = disk
      \/ CanMakeDirs(disk, dirs) /\ disk' = d
      \/ /\ CanMakeDirs(disk, dirs) /\ CanCreate(d, q.dest)
         /\ disk' = With(d, q.dest, File(q.value))
  BY DEF Create
<1>. HIDE DEF dirs
<1>4. ASSUME CanMakeDirs(disk, dirs)
      PROVE  DiskOK(d) /\ Values(disk) \subseteq Values(d)
  BY <1>2, <1>4, MakeDirsOK, MakeDirsKeepsValues
<1>5. ASSUME CanMakeDirs(disk, dirs), CanCreate(d, q.dest)
      PROVE  Values(disk) \subseteq Values(With(d, q.dest, File(q.value)))
  <2>1. q.dest \notin DOMAIN d
    <3>1. q.dest \notin DOMAIN disk
      BY <1>1 DEF CarefulOK, Exists
    <3>2. d[q.dest] = Dir \/ q.dest \notin DOMAIN d
      BY <3>1 DEF MakeDirs
    <3>. QED
      BY <1>5, <3>2 DEF CanCreate, IsDir, Dir
  <2>2. DiskOK(With(d, q.dest, File(q.value)))
    BY <1>2, <1>4, <1>5, WithOK, NodesOK DEF CanCreate
  <2>. HIDE DEF d
  <2>. QED
    BY <1>4, <1>5, <2>1, <2>2, NewNodeKeepsValues
<1>. HIDE DEF d
<1>6. Values(disk) \subseteq Values(disk')
  BY <1>3, <1>4, <1>5
<1>. QED
  BY <1>1, <1>6 DEF CarefulOK

LEMMA CarefulRename ==
  ASSUME FsInv, NEW r \in Slot, Rename(r), req[r].kind \in Careful, CarefulOK(r)
  PROVE  CarefulOK(r)'
<1>. DEFINE p == Src(r)
            q == req[r].dest
<1>1. before' = before /\ req' = req /\ pc'[r] \in {"ok", "failed"} /\ pc[r] = "path"
  BY DEF Rename, Goto, history, FsInv, Asked
<1>2. DiskOK(disk) /\ IsASequence(q) /\ ~Exists(disk, q)
  BY <1>1, RequestShape DEF FsInv, Asked, Ready, CarefulOK
<1>3. disk' = disk \/ (CanRename(disk, p, q) /\ disk' = Renamed(disk, p, q))
  BY DEF Rename
<1>. HIDE DEF p, q
<1>4. ASSUME CanRename(disk, p, q) PROVE Values(disk) \subseteq Values(Renamed(disk, p, q))
  <2>1. IsASequence(p)
    BY <1>2, <1>4 DEF CanRename, Exists, DiskOK
  <2>. QED
    BY <1>2, <1>4, <2>1, RenamedOK
<1>5. Values(disk) \subseteq Values(disk')
  BY <1>3, <1>4
<1>. QED
  BY <1>1, <1>5 DEF CarefulOK

\* A request of one of these kinds does nothing else.
LEMMA CarefulSteps ==
  ASSUME NEW r \in Slot, Step(r), req[r].kind \in Careful, CarefulOK(r)
  PROVE  Check(r) \/ Create(r) \/ Rename(r)
<1>1. /\ pc[r] \in {"check", "path", "ok", "failed"}
      /\ req[r].kind \in {"rename", "create_file", "create_dir"}
  BY DEF CarefulOK, Careful
<1>. QED
  BY <1>1 DEF Step, Prepare, TryRename, CopyEntry, Copied, Delete, RemoveEntry, Removed, RemoveFails,
              Undone, ChooseTrashName, WriteTrashInfo, Compress, AddEntry, Decompress, ExtractEntry,
              Cleanup, ArchiveDone

LEMMA AloneStep ==
  ASSUME FsInv, AloneInv, NEW r \in Slot, Step(r)
  PROVE  AloneInv'
<1>1. Proceeds(r)
  BY StepKeeps
<1>2. /\ req' = req /\ alone' = alone /\ Active(r)
      /\ \A s \in Slot \ {r} : pc'[s] = pc[s]
  BY <1>1 DEF Proceeds, NextPath, Goto, FsInv, Asked
<1>. SUFFICES ASSUME NEW s \in Slot, alone[s]
              PROVE  /\ \A o \in Slot \ {s} : ~Active(o)'
                     /\ req[s].kind \in Careful => CarefulOK(s)'
  BY <1>2 DEF AloneInv
<1>3. s = r
  BY <1>2 DEF AloneInv
<1>4. \A o \in Slot \ {s} : ~Active(o)'
  BY <1>2, <1>3 DEF AloneInv, Active
<1>5. ASSUME req[s].kind \in Careful PROVE CarefulOK(s)'
  <2>1. CarefulOK(r) /\ req[r].kind \in Careful
    BY <1>3, <1>5 DEF AloneInv
  <2>2. Check(r) \/ Create(r) \/ Rename(r)
    BY <2>1, CarefulSteps
  <2>. QED
    BY <1>3, <2>1, <2>2, CarefulCheck, CarefulCreate, CarefulRename
<1>. QED
  BY <1>4, <1>5

LEMMA AloneBegin ==
  ASSUME FsInv, AloneInv, NEW r \in Slot, NEW q \in Request, Begin(r, q)
  PROVE  AloneInv'
<1>1. /\ disk' = disk /\ req'[r] = q /\ pc'[r] = "check"
      /\ \A s \in Slot \ {r} : pc'[s] = pc[s]
      /\ \A s \in Slot : alone'[s] <=> (s = r /\ \A o \in Slot : ~Active(o))
      /\ alone'[r] => before'[r] = Values(disk)
  BY DEF Begin, FsInv, Asked
<1>. SUFFICES ASSUME NEW s \in Slot, alone'[s]
              PROVE  /\ \A o \in Slot \ {s} : ~Active(o)'
                     /\ req'[s].kind \in Careful => CarefulOK(s)'
  BY DEF AloneInv
<1>2. s = r /\ \A o \in Slot : ~Active(o)
  BY <1>1
<1>. QED
  BY <1>1, <1>2 DEF Active, CarefulOK

THEOREM AloneInvariant == Spec => []AloneInv
<1>1. Init => AloneInv
  BY DEF Init, AloneInv
<1>2. FsInv /\ AloneInv /\ [Next]_vars => AloneInv'
  <2>. SUFFICES ASSUME FsInv, AloneInv, [Next]_vars PROVE AloneInv'
    OBVIOUS
  <2>1. ASSUME NEW r \in Slot, Step(r) PROVE AloneInv'
    BY <2>1, AloneStep
  <2>2. ASSUME NEW r \in Slot, NEW q \in Request, Begin(r, q) PROVE AloneInv'
    BY <2>2, AloneBegin
  <2>3. CASE UNCHANGED vars
    BY <2>3 DEF vars, request, history, AloneInv, Active, CarefulOK
  <2>. QED
    BY <2>1, <2>2, <2>3 DEF Next
<1>. QED
  BY <1>1, <1>2, InvariantHolds, PTL DEF Spec

-----------------------------------------------------------------------------
(* Nothing is lost by the requests that put things in place path by path.   *)

(* Prefixes.                                                                *)

LEMMA PrefixSelf == \A s : IsASequence(s) => IsPrefix(s, s)
<1>. SUFFICES ASSUME NEW s, IsASequence(s) PROVE IsPrefix(s, s)
  OBVIOUS
<1>1. Len(s) \in Nat
  BY SequenceType
<1>. QED
  BY <1>1, PrefixMeans

LEMMA PrefixEmpty == IsASequence(<<>>) /\ \A s : IsASequence(s) => IsPrefix(<<>>, s)
<1>1. IsASequence(<<>>) /\ Len(<<>>) = 0
  BY EmptySeq DEF IsASequence
<1>2. ASSUME NEW s, IsASequence(s) PROVE IsPrefix(<<>>, s)
  <2>1. Len(s) \in Nat
    BY <1>2, SequenceType
  <2>. QED
    BY <1>1, <1>2, <2>1, PrefixMeans
<1>. QED
  BY <1>1, <1>2

LEMMA PrefixTrans ==
  ASSUME NEW a, IsASequence(a), NEW b, IsASequence(b), NEW c, IsASequence(c),
         IsPrefix(a, b), IsPrefix(b, c)
  PROVE  IsPrefix(a, c)
<1>. DEFINE la == Len(a)
            lb == Len(b)
            lc == Len(c)
<1>1. la \in Nat /\ lb \in Nat /\ lc \in Nat
  BY SequenceType
<1>2. /\ la <= lb /\ \A i \in 1 .. la : a[i] = b[i]
      /\ lb <= lc /\ \A i \in 1 .. lb : b[i] = c[i]
  BY PrefixMeans
<1>3. la <= lc /\ \A i \in 1 .. la : a[i] = c[i]
  <2>. HIDE DEF la, lb, lc
  <2>. QED
    BY <1>1, <1>2
<1>. QED
  BY <1>3, PrefixMeans

\* Two prefixes of one path: one is a prefix of the other.
LEMMA PrefixBoth ==
  ASSUME NEW a, IsASequence(a), NEW b, IsASequence(b), NEW c, IsASequence(c),
         IsPrefix(a, c), IsPrefix(b, c)
  PROVE  IsPrefix(a, b) \/ IsPrefix(b, a)
<1>. DEFINE la == Len(a)
            lb == Len(b)
<1>1. la \in Nat /\ lb \in Nat
  BY SequenceType
<1>2. /\ \A i \in 1 .. la : a[i] = c[i]
      /\ \A i \in 1 .. lb : b[i] = c[i]
  BY PrefixMeans
<1>3. \/ la <= lb /\ \A i \in 1 .. la : a[i] = b[i]
      \/ lb <= la /\ \A i \in 1 .. lb : b[i] = a[i]
  <2>. HIDE DEF la, lb
  <2>. QED
    BY <1>1, <1>2
<1>. QED
  BY <1>3, PrefixMeans

LEMMA PrefixAntisym ==
  ASSUME NEW a, IsASequence(a), NEW b, IsASequence(b), IsPrefix(a, b), IsPrefix(b, a)
  PROVE  a = b
<1>. DEFINE la == Len(a)
            lb == Len(b)
<1>1. la \in Nat /\ lb \in Nat
  BY SequenceType
<1>2. la <= lb /\ lb <= la /\ \A i \in 1 .. la : a[i] = b[i]
  BY PrefixMeans
<1>3. la = lb
  <2>. HIDE DEF la, lb
  <2>. QED
    BY <1>1, <1>2
<1>. QED
  BY <1>2, <1>3, SameSequence

LEMMA PrefixAppend ==
  ASSUME NEW s, IsASequence(s), NEW x
  PROVE  /\ IsASequence(Append(s, x)) /\ IsPrefix(s, Append(s, x)) /\ Append(s, x) # s
         /\ ~IsPrefix(Append(s, x), s) /\ Base(Append(s, x)) = x
<1>. DEFINE a == Append(s, x)
            ls == Len(s)
            la == Len(a)
<1>1. ls \in Nat
  BY SequenceType
<1>2. /\ IsASequence(a) /\ la = ls + 1 /\ \A i \in 1 .. ls : a[i] = s[i]
      /\ a[ls + 1] = x
  BY AppendSequence
<1>3. Base(a) = x
  BY <1>2 DEF Base, Last
<1>. HIDE DEF a
<1>4. IsPrefix(s, a)
  <2>1. ls <= la
    <3>. HIDE DEF ls, la
    <3>. QED
      BY <1>1, <1>2
  <2>. QED
    BY <1>2, <2>1, PrefixMeans
<1>5. ~(la <= ls) /\ la # ls
  <2>. HIDE DEF ls, la
  <2>. QED
    BY <1>1, <1>2
<1>6. ~IsPrefix(a, s) /\ a # s
  BY <1>2, <1>5, PrefixMeans
<1>. QED
  BY <1>2, <1>3, <1>4, <1>6 DEF a

\* Two names in one directory.
LEMMA AppendsApart ==
  ASSUME NEW s, IsASequence(s), NEW x, NEW y, x # y
  PROVE  ~IsPrefix(Append(s, x), Append(s, y))
<1>. DEFINE a == Append(s, x)
            b == Append(s, y)
            n == Len(s) + 1
<1>1. /\ IsASequence(a) /\ Len(a) = n /\ a[n] = x
      /\ IsASequence(b) /\ Len(b) = n /\ b[n] = y
  BY AppendSequence
<1>2. n \in 1 .. n
  BY SequenceType
<1>. HIDE DEF a, b, n
<1>3. ~IsPrefix(a, b)
  BY <1>1, <1>2, PrefixMeans
<1>. QED
  BY <1>3 DEF a, b

LEMMA MovedSelf ==
  ASSUME NEW s, IsASequence(s), NEW t, IsASequence(t)
  PROVE  Moved(s, s, t) = t
<1>. DEFINE m == Moved(s, s, t)
            ls == Len(s)
            lt == Len(t)
<1>1. ls \in Nat /\ lt \in Nat /\ IsPrefix(s, s)
  BY SequenceType, PrefixSelf
<1>2. /\ IsASequence(m) /\ IsPrefix(t, m)
      /\ Len(m) = lt + ls - ls
      /\ \A i \in 1 .. lt + ls - ls : m[i] = IF i <= lt THEN t[i] ELSE s[i - lt + ls]
  <2>1. ASSUME NEW p, IsASequence(p), IsPrefix(p, s)
        PROVE  /\ IsASequence(Moved(s, p, t)) /\ IsPrefix(t, Moved(s, p, t))
               /\ Len(Moved(s, p, t)) = Len(t) + Len(s) - Len(p)
               /\ \A i \in 1 .. Len(t) + Len(s) - Len(p) :
                    Moved(s, p, t)[i] = IF i <= Len(t) THEN t[i] ELSE s[i - Len(t) + Len(p)]
    BY <2>1, MovedIs
  <2>. QED
    BY <1>1, <2>1, Zenon
<1>. HIDE DEF m
<1>3. Len(m) = lt /\ \A i \in 1 .. lt : m[i] = t[i]
  <2>. HIDE DEF ls, lt
  <2>. QED
    BY <1>1, <1>2
<1>4. m = t
  BY <1>2, <1>3, SameSequence
<1>. QED
  BY <1>4 DEF m

LEMMA MovedAppend ==
  ASSUME NEW x, IsASequence(x), NEW p, IsASequence(p), NEW q, IsASequence(q), IsPrefix(p, x),
         NEW b
  PROVE  Moved(Append(x, b), p, q) = Append(Moved(x, p, q), b)
<1>. DEFINE a == Append(x, b)
            m == Moved(x, p, q)
            u == Moved(a, p, q)
            v == Append(m, b)
            lp == Len(p)
            lq == Len(q)
            lx == Len(x)
<1>1. lp \in Nat /\ lq \in Nat /\ lx \in Nat /\ lp <= lx
  BY SequenceType, PrefixMeans
<1>2. /\ IsASequence(a) /\ Len(a) = lx + 1 /\ \A i \in 1 .. lx : a[i] = x[i]
      /\ a[lx + 1] = b
  BY AppendSequence
<1>3. IsPrefix(p, a)
  <2>1. IsPrefix(x, a)
    BY PrefixAppend
  <2>. HIDE DEF a
  <2>. QED
    BY <1>2, <2>1, PrefixTrans
<1>. HIDE DEF a
<1>4. /\ IsASequence(m) /\ Len(m) = lq + lx - lp
      /\ \A i \in 1 .. lq + lx - lp : m[i] = IF i <= lq THEN q[i] ELSE x[i - lq + lp]
  BY MovedIs
<1>5. /\ IsASequence(u) /\ IsPrefix(q, u)
      /\ Len(u) = lq + Len(a) - lp
      /\ \A i \in 1 .. lq + Len(a) - lp : u[i] = IF i <= lq THEN q[i] ELSE a[i - lq + lp]
  <2>1. IsASequence(a) /\ IsPrefix(p, a)
    BY <1>2, <1>3
  <2>. HIDE DEF a
  <2>. QED
    BY <2>1, MovedIs
<1>. HIDE DEF m, u
<1>6. /\ IsASequence(v) /\ Len(v) = Len(m) + 1 /\ \A i \in 1 .. Len(m) : v[i] = m[i]
      /\ v[Len(m) + 1] = b
  BY <1>4, AppendSequence
<1>. HIDE DEF v
<1>. DEFINE lm == Len(m)
<1>7. Len(u) = Len(v) /\ Len(v) = lm + 1
  <2>. HIDE DEF lp, lq, lx
  <2>. QED
    BY <1>1, <1>2, <1>4, <1>5, <1>6
<1>8. ASSUME NEW i \in 1 .. lm + 1 PROVE u[i] = v[i]
  <2>0. lm = lq + lx - lp /\ \A j \in 1 .. lm : v[j] = m[j]
    BY <1>4, <1>6
  <2>1. \A j \in 1 .. lm + 1 : u[j] = IF j <= lq THEN q[j] ELSE a[j - lq + lp]
    <3>1. lq + Len(a) - lp = lm + 1
      <4>. HIDE DEF lp, lq, lx, lm
      <4>. QED
        BY <1>1, <1>2, <2>0
    <3>. QED
      BY <1>5, <3>1
  <2>2. v[lm + 1] = b
    BY <1>6
  <2>. HIDE DEF lp, lq, lx, lm
  <2>3. CASE i = lm + 1
    <3>1. ~(i <= lq) /\ i - lq + lp = lx + 1
      BY <1>1, <2>0, <2>3
    <3>2. u[i] = a[lx + 1]
      BY <2>1, <3>1
    <3>. QED
      BY <1>2, <2>2, <2>3, <3>2
  <2>4. CASE i # lm + 1
    <3>1. i \in 1 .. lm /\ i \in 1 .. lq + lx - lp
      BY <1>1, <2>0, <2>4
    <3>2. v[i] = IF i <= lq THEN q[i] ELSE x[i - lq + lp]
      BY <1>4, <2>0, <3>1
    <3>3. ~(i <= lq) => i - lq + lp \in 1 .. lx
      BY <1>1, <3>1
    <3>. QED
      BY <1>2, <2>1, <3>2, <3>3
  <2>. QED
    BY <2>3, <2>4
<1>9. u = v
  BY <1>5, <1>6, <1>7, <1>8, SameSequence
<1>. QED
  BY <1>9 DEF u, v, a, m

\* A child of p is p and its own name.
LEMMA ChildIs ==
  ASSUME NEW d, DiskOK(d), NEW p, IsASequence(p), NEW c \in Children(d, p)
  PROVE  c \in DOMAIN d /\ IsASequence(c) /\ IsPrefix(p, c) /\ c = Append(p, Base(c))
<1>. DEFINE b == Base(c)
            a == Append(p, b)
            lp == Len(p)
<1>1. c \in DOMAIN d /\ IsPrefix(p, c) /\ Len(c) = lp + 1
  BY DEF Children, Below
<1>2. IsASequence(c)
  BY <1>1 DEF DiskOK
<1>3. lp \in Nat /\ \A i \in 1 .. lp : p[i] = c[i]
  BY <1>1, <1>2, SequenceType, PrefixMeans
<1>4. b = c[lp + 1]
  BY <1>1 DEF Base, Last
<1>. HIDE DEF b
<1>5. /\ IsASequence(a) /\ Len(a) = lp + 1 /\ \A i \in 1 .. lp : a[i] = p[i]
      /\ a[lp + 1] = b
  BY AppendSequence
<1>. HIDE DEF a
<1>6. \A i \in 1 .. lp + 1 : c[i] = a[i]
  <2>. HIDE DEF lp
  <2>. QED
    BY <1>3, <1>4, <1>5
<1>7. c = a
  BY <1>1, <1>2, <1>5, <1>6, SameSequence
<1>. QED
  BY <1>1, <1>2, <1>7 DEF a, b

\* What is strictly below p is below one of its children.
LEMMA ChildTowards ==
  ASSUME NEW d, DiskOK(d), NEW y \in DOMAIN d, NEW p, IsASequence(p), IsPrefix(p, y), p # y
  PROVE  \E c \in Children(d, p) : IsPrefix(c, y)
<1>. DEFINE lp == Len(p)
            ly == Len(y)
            c  == SubSeq(y, 1, lp + 1)
<1>1. /\ IsASequence(y) /\ \A n \in 1 .. ly - 1 : IsDir(d, SubSeq(y, 1, n))
      /\ ly \in Nat /\ lp \in Nat /\ lp < ly
  BY SequenceType, AboveIsDir DEF DiskOK
<1>2. \A i \in 1 .. lp : p[i] = y[i]
  BY <1>1, PrefixMeans
<1>3. lp + 1 \in 0 .. ly /\ (lp + 1 # ly => lp + 1 \in 1 .. ly - 1)
  <2>. HIDE DEF lp, ly
  <2>. QED
    BY <1>1
<1>4. IsASequence(c) /\ Len(c) = lp + 1 /\ \A i \in 1 .. lp + 1 : c[i] = y[i]
  BY <1>1, <1>3, PrefixOf
<1>5. c \in DOMAIN d
  <2>1. CASE lp + 1 = ly
    <3>1. c = y
      BY <1>1, <1>4, <2>1, SameSequence
    <3>. QED
      BY <3>1
  <2>2. CASE lp + 1 # ly
    <3>1. IsDir(d, c)
      BY <1>1, <1>3, <2>2
    <3>2. Len(c) # 0
      <4>. HIDE DEF lp, ly, c
      <4>. QED
        BY <1>1, <1>4
    <3>3. c # <<>>
      BY <1>4, <3>2, SequenceType
    <3>. QED
      BY <3>1, <3>3 DEF IsDir
  <2>. QED
    BY <2>1, <2>2
<1>. HIDE DEF c
<1>6. IsPrefix(c, y) /\ IsPrefix(p, c)
  <2>1. Len(c) <= ly /\ lp <= Len(c) /\ \A i \in 1 .. lp : p[i] = c[i]
    <3>. HIDE DEF lp, ly
    <3>. QED
      BY <1>1, <1>2, <1>3, <1>4
  <2>. QED
    BY <1>1, <1>4, <2>1, PrefixMeans
<1>7. c \in Children(d, p)
  BY <1>4, <1>5, <1>6 DEF Children, Below
<1>. QED
  BY <1>6, <1>7

\* What the disk holds below the paths of R, without what is below those of X.
Held(d, R, X) ==
  UNION {{e[2] : e \in d[q].data} :
           q \in {y \in DOMAIN d : (\E p \in R : IsPrefix(p, y)) /\ \A x \in X : ~IsPrefix(x, y)}}

LEMMA HeldIs ==
  ASSUME NEW d, NEW R, NEW X, NEW v
  PROVE  v \in Held(d, R, X) <=>
           (\E y \in DOMAIN d : /\ \E p \in R : IsPrefix(p, y)
                                /\ \A x \in X : ~IsPrefix(x, y)
                                /\ \E e \in d[y].data : v = e[2])
<1>. QED
  BY DEF Held

\* Whatever holds something goes to a place that counts.
LEMMA HeldStays ==
  ASSUME NEW d, NEW R, NEW X, NEW f, NEW S, NEW Y,
         \A y \in DOMAIN d :
           (d[y].data # {} /\ (\E p \in R : IsPrefix(p, y)) /\ \A x \in X : ~IsPrefix(x, y)) =>
             \E z \in DOMAIN f : /\ f[z].data = d[y].data
                                 /\ \E p \in S : IsPrefix(p, z)
                                 /\ \A x \in Y : ~IsPrefix(x, z)
  PROVE  Held(d, R, X) \subseteq Held(f, S, Y)
<1>. SUFFICES ASSUME NEW v \in Held(d, R, X) PROVE v \in Held(f, S, Y)
  OBVIOUS
<1>1. PICK y \in DOMAIN d : /\ \E p \in R : IsPrefix(p, y)
                            /\ \A x \in X : ~IsPrefix(x, y)
                            /\ \E e \in d[y].data : v = e[2]
  BY HeldIs
<1>2. d[y].data # {}
  BY <1>1
<1>3. PICK z \in DOMAIN f : /\ f[z].data = d[y].data
                            /\ \E p \in S : IsPrefix(p, z)
                            /\ \A x \in Y : ~IsPrefix(x, z)
  BY <1>1, <1>2
<1>. QED
  BY <1>1, <1>3, HeldIs

LEMMA HeldInValues ==
  ASSUME NEW d, DiskOK(d)
  PROVE  /\ \A R, X : Held(d, R, X) \subseteq Values(d)
         /\ Values(d) \subseteq Held(d, {<<>>}, {})
<1>1. ASSUME NEW R, NEW X, NEW v \in Held(d, R, X) PROVE v \in Values(d)
  <2>1. PICK y \in DOMAIN d : \E e \in d[y].data : v = e[2]
    BY <1>1, HeldIs
  <2>. QED
    BY <2>1, ValuesAre
<1>2. ASSUME NEW v \in Values(d) PROVE v \in Held(d, {<<>>}, {})
  <2>1. PICK y \in DOMAIN d : \E e \in d[y].data : v = e[2]
    BY <1>2, ValuesAre
  <2>2. IsPrefix(<<>>, y)
    BY PrefixEmpty DEF DiskOK
  <2>. QED
    BY <2>1, <2>2, HeldIs
<1>. QED
  BY <1>1, <1>2

LEMMA HeldMakeDirs ==
  ASSUME NEW d, DiskOK(d), NEW p, IsASequence(p), CanMakeDirs(d, p), NEW R, NEW X
  PROVE  Held(d, R, X) \subseteq Held(MakeDirs(d, p), R, X)
<1>. DEFINE f == MakeDirs(d, p)
<1>1. DOMAIN d \subseteq DOMAIN f /\ \A y \in DOMAIN d : f[y] = d[y]
  BY MakeDirsOK
<1>. HIDE DEF f
<1>2. Held(d, R, X) \subseteq Held(f, R, X)
  BY <1>1, HeldStays
<1>. QED
  BY <1>2 DEF f

\* A file is written where nothing counts.
LEMMA HeldWith ==
  ASSUME NEW d, NEW p, NEW node, NEW R, NEW X,
         (\E a \in R : IsPrefix(a, p)) => \E x \in X : IsPrefix(x, p)
  PROVE  Held(d, R, X) \subseteq Held(With(d, p, node), R, X)
<1>. DEFINE f == With(d, p, node)
<1>1. DOMAIN d \subseteq DOMAIN f /\ \A y \in DOMAIN d : y # p => f[y] = d[y]
  BY DEF With
<1>. HIDE DEF f
<1>2. ASSUME NEW y \in DOMAIN d, \E a \in R : IsPrefix(a, y), \A x \in X : ~IsPrefix(x, y)
      PROVE  y \in DOMAIN f /\ f[y] = d[y]
  BY <1>1, <1>2
<1>3. Held(d, R, X) \subseteq Held(f, R, X)
  BY <1>2, HeldStays
<1>. QED
  BY <1>3 DEF f

LEMMA HeldRemove ==
  ASSUME NEW d, NEW p, NEW R, NEW X,
         p \in DOMAIN d => d[p].data = {} \/ \E x \in X : IsPrefix(x, p)
  PROVE  Held(d, R, X) \subseteq Held(Restricted(d, DOMAIN d \ {p}), R, X)
<1>. DEFINE f == Restricted(d, DOMAIN d \ {p})
<1>1. DOMAIN f = DOMAIN d \ {p} /\ \A y \in DOMAIN f : f[y] = d[y]
  BY DEF Restricted
<1>. HIDE DEF f
<1>2. ASSUME NEW y \in DOMAIN d, d[y].data # {}, \A x \in X : ~IsPrefix(x, y)
      PROVE  y \in DOMAIN f /\ f[y] = d[y]
  BY <1>1, <1>2
<1>3. Held(d, R, X) \subseteq Held(f, R, X)
  BY <1>2, HeldStays
<1>. QED
  BY <1>3 DEF f

\* Nothing is below what does not exist, or below a file.
LEMMA NothingBelow ==
  ASSUME NEW d, DiskOK(d), NEW p, IsASequence(p), p # <<>>, p \in DOMAIN d => ~d[p].dir,
         NEW y \in DOMAIN d, IsPrefix(p, y)
  PROVE  p = y
<1>. SUFFICES ASSUME p # y PROVE FALSE
  OBVIOUS
<1>1. IsDir(d, p)
  BY AboveIsDir
<1>. QED
  BY <1>1 DEF IsDir

\* A rename takes what is below p to below q and leaves the rest, but for q.
LEMMA RenamedTakes ==
  ASSUME NEW d, DiskOK(d), NEW p, IsASequence(p), NEW q, IsASequence(q), CanRename(d, p, q),
         p # q, q # <<>>, NEW y \in DOMAIN d
  PROVE  LET f == Renamed(d, p, q) IN
         /\ IsPrefix(p, y) => Moved(y, p, q) \in DOMAIN f /\ f[Moved(y, p, q)] = d[y]
         /\ ~IsPrefix(p, y) /\ y # q => y \in DOMAIN f /\ f[y] = d[y]
<1>. DEFINE B    == Below(d, p)
            stay == DOMAIN d \ (B \cup {q})
            f    == Renamed(d, p, q)
<1>1. p \in DOMAIN d /\ (q \in DOMAIN d => ~d[q].dir)
  BY DEF CanRename, Exists
<1>2. /\ DOMAIN f = stay \cup {Moved(x, p, q) : x \in B}
      /\ \A s \in DOMAIN f : f[s] = IF s \in stay THEN d[s] ELSE d[Moved(s, q, p)]
  BY DEF Renamed, Moved
<1>3. \A x : x \in B <=> (x \in DOMAIN d /\ IsPrefix(p, x))
  BY DEF Below
<1>. HIDE DEF B, f
<1>4. ASSUME IsPrefix(p, y) PROVE Moved(y, p, q) \in DOMAIN f /\ f[Moved(y, p, q)] = d[y]
  <2>1. IsASequence(y)
    BY DEF DiskOK
  <2>2. IsPrefix(q, Moved(y, p, q)) /\ Moved(Moved(y, p, q), q, p) = y
    BY <1>4, <2>1, MovedIs, MovedBack
  <2>3. Moved(y, p, q) \notin stay
    <3>1. ASSUME Moved(y, p, q) \in DOMAIN d PROVE Moved(y, p, q) = q
      BY <1>1, <2>2, <3>1, NothingBelow
    <3>. QED
      BY <3>1
  <2>. QED
    BY <1>2, <1>3, <1>4, <2>2, <2>3
<1>5. ASSUME ~IsPrefix(p, y), y # q PROVE y \in DOMAIN f /\ f[y] = d[y]
  BY <1>2, <1>3, <1>5
<1>. QED
  BY <1>4, <1>5 DEF f

-----------------------------------------------------------------------------
(* The course of a request that is alone.                                   *)

Guarded == {"trash", "move", "copy", "compress", "decompress"}
Sends   == {"trash", "move"}

Target(q, i) == Append(q.dest, Base(q.paths[i]))

\* Where what request q keeps is, when it has put the first n of its paths in place.
Roots(q, n) ==
  IF q.kind = "trash" THEN {<<>>}
  ELSE IF q.kind = "move"
  THEN {Target(q, i) : i \in 1 .. n} \cup {q.paths[i] : i \in DOMAIN q.paths \ (1 .. n)}
  ELSE PathsOf(q)

\* A path that could not be renamed is copied.  The entries still to do are
\* below the path and go where they belong; what is done is there.
Copying(d, w, s, t) ==
  /\ s \in DOMAIN d /\ ~IsPrefix(s, t) /\ ~IsPrefix(t, s)
  /\ \A x \in ToSet(w) :
       IsASequence(x.src) /\ IsPrefix(s, x.src) /\ x.dst = Moved(x.src, s, t)
  /\ \A y \in DOMAIN d : IsPrefix(s, y) =>
       \/ d[y].data = {}
       \/ \E x \in ToSet(w) : IsPrefix(x.src, y)
       \/ Moved(y, s, t) \in DOMAIN d /\ d[Moved(y, s, t)].data = d[y].data

\* The path is not there, so that the copy fails.
CopyingNothing(d, w, s) ==
  w # <<>> /\ Head(w).src = s /\ s # <<>> /\ s \notin DOMAIN d

\* A directory is copied into itself, which never ends.
CopyingIntoItself(w) ==
  \E x \in ToSet(w) : IsASequence(x.src) /\ IsPrefix(x.src, x.dst) /\ x.src # x.dst

Phases(kind) ==
  {"check", "path"} \cup
  (IF kind = "trash" THEN {"info", "rename", "copy", "remove"}
   ELSE IF kind = "move" THEN {"rename", "copy", "remove"}
   ELSE IF kind = "copy" THEN {"copy"}
   ELSE IF kind = "compress" THEN {"add"}
   ELSE {"extract", "cleanup"})

\* Request q, which keeps the values V, has come to step l of its path n; it
\* has t and w for to and work, and the disk is d.  What it writes is below t,
\* what it removes below its path: neither is all there is of a value of V.
Course(V, q, d, l, n, t, w) ==
  /\ l \in Phases(q.kind) \cup Answers
  /\ l \in Answers => V \subseteq Values(d)
  /\ l \in {"check", "path", "add", "extract", "cleanup"} =>
       V \subseteq Held(d, Roots(q, n - 1), {})
  /\ l \in {"info", "rename", "copy"} =>
       /\ V \subseteq Held(d, Roots(q, n - 1), {t}) /\ t # <<>>
       /\ q.kind = "move" => t = Target(q, n)
       /\ q.kind = "trash" /\ l # "copy" => t \notin DOMAIN d
  /\ l = "copy" =>
       /\ \A x \in ToSet(w) : IsPrefix(t, x.dst)
       /\ q.kind \in Sends =>
            Copying(d, w, q.paths[n], t) \/ CopyingNothing(d, w, q.paths[n]) \/ CopyingIntoItself(w)
  /\ l = "remove" => V \subseteq Held(d, Roots(q, n), {q.paths[n]})
  /\ l \in {"check", "path"} => ~HoldsItself(d, q)
  /\ l \in {"extract", "cleanup"} => IsDir(d, q.dest)
  /\ l = "extract" =>
       IsFile(d, q.paths[n]) /\ \A x \in ToSet(w) : x.dst # q.paths[n]

\* A request to which no proviso of Keeps applies, at one of its paths.
AtWork(q, n) ==
  /\ q.kind \in Guarded /\ IsASequence(q.dest)
  /\ Len(q.paths) \in Nat /\ DOMAIN q.paths = 1 .. Len(q.paths)
  /\ \A i \in 1 .. Len(q.paths) : IsASequence(q.paths[i])
  /\ n \in 1 .. Len(q.paths)
  /\ q.kind = "decompress" => Len(q.paths) = 1
  /\ q.kind \in {"move", "copy", "compress"} => ~Overlaps(q)
  /\ q.kind = "move" => ~SameBase(q)

KeepsInv ==
  \A r \in Slot : alone[r] /\ req[r].kind \in Guarded /\ Keeps(r) # {} =>
    Course(Keeps(r), req[r], disk, pc[r], at[r], to[r], work[r])

LEMMA TargetIs ==
  ASSUME NEW q, NEW n, AtWork(q, n), NEW i \in 1 .. Len(q.paths)
  PROVE  IsASequence(Target(q, i)) /\ Target(q, i) # <<>>
<1>. QED
  BY AppendSequence DEF AtWork, Target

\* The paths of a move and the places they go to are apart.
LEMMA MoveApart ==
  ASSUME NEW q, NEW n, AtWork(q, n), q.kind = "move", NEW i \in 1 .. Len(q.paths)
  PROVE  \A j \in 1 .. Len(q.paths) :
           /\ ~IsPrefix(q.paths[j], Target(q, i)) /\ ~IsPrefix(Target(q, i), q.paths[j])
           /\ j # i => ~IsPrefix(Target(q, i), Target(q, j))
<1>. SUFFICES ASSUME NEW j \in 1 .. Len(q.paths)
              PROVE  /\ ~IsPrefix(q.paths[j], Target(q, i)) /\ ~IsPrefix(Target(q, i), q.paths[j])
                     /\ j # i => ~IsPrefix(Target(q, i), Target(q, j))
  OBVIOUS
<1>1. /\ ~Overlaps(q) /\ ~SameBase(q) /\ DOMAIN q.paths = 1 .. Len(q.paths)
      /\ IsASequence(q.dest)
  BY DEF AtWork
<1>2. q.paths[j] \in PathsOf(q) /\ q.paths[i] \in PathsOf(q)
  BY <1>1 DEF PathsOf
<1>3. Target(q, i) \in Targets(q)
  BY <1>2 DEF Targets, Target
<1>4. ~IsPrefix(q.paths[j], Target(q, i)) /\ ~IsPrefix(Target(q, i), q.paths[j])
  BY <1>1, <1>2, <1>3 DEF Overlaps
<1>5. ASSUME j # i PROVE ~IsPrefix(Target(q, i), Target(q, j))
  <2>1. Base(q.paths[i]) # Base(q.paths[j])
    BY <1>1, <1>5 DEF SameBase
  <2>. QED
    BY <1>1, <2>1, AppendsApart DEF Target
<1>. QED
  BY <1>4, <1>5

LEMMA RootsAreSequences ==
  ASSUME NEW q, NEW n, AtWork(q, n), NEW m \in 0 .. n, NEW p \in Roots(q, m)
  PROVE  IsASequence(p)
<1>1. CASE q.kind = "trash"
  BY <1>1, PrefixEmpty DEF Roots
<1>2. CASE q.kind = "move"
  <2>1. CASE \E i \in 1 .. m : p = Target(q, i)
    <3>1. PICK i \in 1 .. m : p = Target(q, i)
      BY <2>1
    <3>2. i \in 1 .. Len(q.paths)
      <4>. DEFINE k == Len(q.paths)
      <4>1. k \in Nat /\ n \in 1 .. k
        BY DEF AtWork
      <4>. HIDE DEF k
      <4>2. i \in 1 .. k
        BY <4>1
      <4>. QED
        BY <4>2 DEF k
    <3>. QED
      BY <3>1, <3>2, TargetIs
  <2>2. CASE \E i \in DOMAIN q.paths : p = q.paths[i]
    BY <2>2 DEF AtWork
  <2>. QED
    BY <1>2, <2>1, <2>2 DEF Roots
<1>3. CASE q.kind \notin Sends
  BY <1>3 DEF Roots, Sends, PathsOf, AtWork
<1>. QED
  BY <1>1, <1>2, <1>3 DEF Sends

\* What is below a root and not below where the path is to go.
LEMMA AvoidsTarget ==
  ASSUME NEW q, NEW n, AtWork(q, n), q.kind = "move", NEW y, IsASequence(y),
         NEW p \in Roots(q, n - 1), IsPrefix(p, y)
  PROVE  ~IsPrefix(Target(q, n), y)
<1>. DEFINE k == Len(q.paths)
<1>0. k \in Nat /\ n \in 1 .. k /\ DOMAIN q.paths = 1 .. k
  BY DEF AtWork
<1>1. n - 1 \in 0 .. n /\ \A i \in 1 .. n - 1 : i \in 1 .. k /\ i # n
  <2>. HIDE DEF k
  <2>. QED
    BY <1>0
<1>2. IsASequence(p) /\ IsASequence(Target(q, n))
  BY <1>0, <1>1, RootsAreSequences, TargetIs
<1>3. ~IsPrefix(p, Target(q, n)) /\ ~IsPrefix(Target(q, n), p)
  <2>1. CASE \E i \in 1 .. n - 1 : p = Target(q, i)
    BY <1>0, <1>1, <2>1, MoveApart
  <2>2. CASE \E i \in DOMAIN q.paths : p = q.paths[i]
    BY <1>0, <2>2, MoveApart
  <2>. QED
    BY <2>1, <2>2 DEF Roots
<1>. QED
  BY <1>2, <1>3, PrefixBoth

\* What is below a root stays below one when the path is in place, and so is
\* what is where the path went.
LEMMA RootsNext ==
  ASSUME NEW q, NEW n, AtWork(q, n), q.kind \in Sends, NEW y, IsASequence(y)
  PROVE  /\ (\E p \in Roots(q, n - 1) : IsPrefix(p, y)) /\ ~IsPrefix(q.paths[n], y)
              => \E p \in Roots(q, n) : IsPrefix(p, y)
         /\ IsPrefix(Target(q, n), y) => \E p \in Roots(q, n) : IsPrefix(p, y)
         /\ q.kind = "trash" => \E p \in Roots(q, n) : IsPrefix(p, y)
<1>1. CASE q.kind = "trash"
  BY <1>1, PrefixEmpty DEF Roots
<1>2. CASE q.kind = "move"
  <2>. DEFINE k == Len(q.paths)
  <2>1. k \in Nat /\ n \in 1 .. k /\ DOMAIN q.paths = 1 .. k
    BY DEF AtWork
  <2>2. /\ n \in 1 .. n /\ \A i \in 1 .. n - 1 : i \in 1 .. n
        /\ \A i \in 1 .. k : i \notin 1 .. n - 1 /\ i # n => i \notin 1 .. n
    <3>. HIDE DEF k
    <3>. QED
      BY <2>1
  <2>3. ASSUME NEW p \in Roots(q, n - 1), IsPrefix(p, y), ~IsPrefix(q.paths[n], y)
        PROVE  p \in Roots(q, n)
    <3>1. CASE \E i \in 1 .. n - 1 : p = Target(q, i)
      BY <1>2, <2>2, <3>1 DEF Roots
    <3>2. CASE \E i \in DOMAIN q.paths \ (1 .. n - 1) : p = q.paths[i]
      <4>1. PICK i \in DOMAIN q.paths \ (1 .. n - 1) : p = q.paths[i]
        BY <3>2
      <4>2. i # n
        BY <2>3, <4>1
      <4>3. i \in DOMAIN q.paths \ (1 .. n)
        BY <2>1, <2>2, <4>2
      <4>. QED
        BY <1>2, <4>1, <4>3 DEF Roots
    <3>. QED
      BY <1>2, <3>1, <3>2 DEF Roots
  <2>4. Target(q, n) \in Roots(q, n)
    BY <1>2, <2>2 DEF Roots
  <2>. QED
    BY <1>2, <2>3, <2>4
<1>. QED
  BY <1>1, <1>2 DEF Sends

\* The first path and those after it.
LEMMA RootsOf ==
  ASSUME NEW q, NEW n, AtWork(q, n)
  PROVE  /\ q.kind \notin Sends => \A m : Roots(q, m) = PathsOf(q)
         /\ q.kind = "trash" => \A m : Roots(q, m) = {<<>>}
         /\ q.kind # "trash" => Roots(q, 0) = PathsOf(q)
         /\ n + 1 - 1 = n
<1>1. n \in Nat /\ 1 .. 0 = {}
  BY DEF AtWork
<1>2. n + 1 - 1 = n
  BY <1>1
<1>3. CASE q.kind = "move"
  <2>1. {Target(q, i) : i \in 1 .. 0} = {} /\ DOMAIN q.paths \ (1 .. 0) = DOMAIN q.paths
    BY <1>1
  <2>. QED
    BY <1>2, <1>3, <2>1 DEF Roots, PathsOf, Sends
<1>4. CASE q.kind # "move"
  BY <1>2, <1>4 DEF Roots, Sends
<1>. QED
  BY <1>3, <1>4

-----------------------------------------------------------------------------
(* What is in a list of entries.                                            *)

LEMMA ToSetIs ==
  ASSUME NEW w, IsASequence(w)
  PROVE  /\ ToSet(w) = {w[i] : i \in 1 .. Len(w)}
         /\ \A x : w = <<x>> => ToSet(w) = {x}
         /\ w = <<>> <=> ToSet(w) = {}
<1>1. Len(w) \in Nat /\ DOMAIN w = 1 .. Len(w) /\ (w = <<>> <=> Len(w) = 0)
  BY SequenceType
<1>2. ToSet(w) = {w[i] : i \in 1 .. Len(w)}
  BY <1>1 DEF ToSet
<1>3. ASSUME NEW x, w = <<x>> PROVE ToSet(w) = {x}
  <2>1. Len(<<x>>) = 1 /\ <<x>>[1] = x
    OBVIOUS
  <2>2. Len(w) = 1 /\ w[1] = x
    BY <1>3, <2>1
  <2>3. 1 .. Len(w) = {1}
    BY <2>2
  <2>. QED
    BY <1>2, <2>2, <2>3
<1>4. 1 .. Len(w) = {} <=> Len(w) = 0
  <2>. DEFINE k == Len(w)
  <2>1. k \in Nat
    BY <1>1
  <2>. HIDE DEF k
  <2>2. 1 .. k = {} <=> k = 0
    <3>1. k # 0 => 1 \in 1 .. k
      BY <2>1
    <3>2. k = 0 => 1 .. k = {}
      BY <2>1
    <3>. QED
      BY <3>1, <3>2
  <2>. QED
    BY <2>2 DEF k
<1>. QED
  BY <1>1, <1>2, <1>3, <1>4

LEMMA ToSetJoined ==
  ASSUME NEW v, IsASequence(v), NEW w, IsASequence(w)
  PROVE  ToSet(v \o w) = ToSet(v) \cup ToSet(w)
<1>. DEFINE u == v \o w
            lv == Len(v)
            lw == Len(w)
<1>1. lv \in Nat /\ lw \in Nat
  BY SequenceType
<1>2. /\ IsASequence(u) /\ Len(u) = lv + lw
      /\ \A i \in 1 .. lv + lw : u[i] = IF i <= lv THEN v[i] ELSE w[i - lv]
  BY ConcatSequence
<1>. HIDE DEF u
<1>3. /\ ToSet(u) = {u[i] : i \in 1 .. lv + lw}
      /\ ToSet(v) = {v[i] : i \in 1 .. lv} /\ ToSet(w) = {w[i] : i \in 1 .. lw}
  BY <1>2, ToSetIs
<1>. HIDE DEF lv, lw
<1>4. ASSUME NEW i \in 1 .. lv + lw PROVE u[i] \in ToSet(v) \cup ToSet(w)
  <2>1. i <= lv => i \in 1 .. lv
    BY <1>1
  <2>2. ~(i <= lv) => i - lv \in 1 .. lw
    BY <1>1
  <2>3. u[i] = IF i <= lv THEN v[i] ELSE w[i - lv]
    BY <1>2
  <2>. QED
    BY <1>3, <2>1, <2>2, <2>3
<1>5. ASSUME NEW i \in 1 .. lv PROVE v[i] \in ToSet(u)
  <2>1. i \in 1 .. lv + lw /\ i <= lv
    BY <1>1
  <2>. QED
    BY <1>2, <1>3, <2>1
<1>6. ASSUME NEW i \in 1 .. lw PROVE w[i] \in ToSet(u)
  <2>1. i + lv \in 1 .. lv + lw /\ ~(i + lv <= lv) /\ (i + lv) - lv = i
    BY <1>1
  <2>2. u[i + lv] = w[(i + lv) - lv]
    BY <1>2, <2>1
  <2>. QED
    BY <1>3, <2>1, <2>2
<1>7. ToSet(u) = ToSet(v) \cup ToSet(w)
  BY <1>3, <1>4, <1>5, <1>6
<1>. QED
  BY <1>7 DEF u

LEMMA ToSetLeft ==
  ASSUME NEW w, IsASequence(w), w # <<>>
  PROVE  ToSet(w) = {Head(w)} \cup ToSet(Tail(w))
<1>. DEFINE t == Tail(w)
            k == Len(w)
            m == Len(t)
<1>1. /\ IsASequence(t) /\ m = k - 1 /\ \A i \in 1 .. m : t[i] = w[i + 1]
      /\ Head(w) = w[1] /\ 1 \in 1 .. k /\ k \in Nat
  BY TailSequence, SequenceType
<1>. HIDE DEF t
<1>2. ToSet(w) = {w[i] : i \in 1 .. k} /\ ToSet(t) = {t[i] : i \in 1 .. m}
  BY <1>1, ToSetIs
<1>. HIDE DEF k, m
<1>3. ASSUME NEW i \in 1 .. m PROVE t[i] \in ToSet(w)
  <2>1. i + 1 \in 1 .. k
    BY <1>1
  <2>. QED
    BY <1>1, <1>2, <2>1
<1>4. ASSUME NEW i \in 1 .. k, i # 1 PROVE w[i] \in ToSet(t)
  <2>1. i - 1 \in 1 .. m /\ (i - 1) + 1 = i
    BY <1>1, <1>4
  <2>2. t[i - 1] = w[(i - 1) + 1]
    BY <1>1, <2>1
  <2>. QED
    BY <1>2, <2>1, <2>2
<1>5. ToSet(w) = {Head(w)} \cup ToSet(t)
  BY <1>1, <1>2, <1>3, <1>4
<1>. QED
  BY <1>5 DEF t

LEMMA ToSetOfSet ==
  ASSUME NEW S, IsFiniteSet(S)
  PROVE  ToSet(SetToSeq(S)) = S /\ IsASequence(SetToSeq(S))
<1>. DEFINE n == Cardinality(S)
            f == SetToSeq(S)
<1>1. n \in Nat /\ ExistsBijection(1 .. n, S)
  BY FS_CardinalityType
<1>2. PICK g : g \in Bijection(1 .. n, S)
  BY <1>1 DEF ExistsBijection
<1>3. g \in [1 .. n -> S] /\ IsInjective(g)
  <2>1. g \in [1 .. n -> S] /\ \A a, b \in 1 .. n : g[a] = g[b] => a = b
    BY <1>2, Fun_BijectionProperties
  <2>. QED
    BY <2>1 DEF IsInjective
<1>4. f \in [1 .. n -> S] /\ IsInjective(f)
  BY <1>3 DEF SetToSeq
<1>5. IsASequence(f)
  BY SetToSeqIs
<1>. HIDE DEF f
<1>6. ASSUME NEW x \in S, \A i \in 1 .. n : f[i] # x PROVE FALSE
  <2>1. f \in [1 .. n -> S \ {x}]
    BY <1>4, <1>6
  <2>2. IsFiniteSet(S \ {x}) /\ Cardinality(S \ {x}) = n - 1
    BY FS_RemoveElement
  <2>3. IsFiniteSet(1 .. n) /\ Cardinality(1 .. n) = n
    <3>. HIDE DEF n
    <3>1. 1 \in Int /\ n \in Int
      BY <1>1
    <3>. QED
      BY <1>1, <3>1, FS_Interval
  <2>4. Cardinality(S \ {x}) < Cardinality(1 .. n)
    <3>. HIDE DEF n
    <3>. QED
      BY <1>1, <2>2, <2>3
  <2>. DEFINE T == S \ {x}
  <2>. HIDE DEF n, T
  <2>5. \E a, b \in 1 .. n : a # b /\ f[a] = f[b]
    BY <2>1, <2>2, <2>3, <2>4, FS_PigeonHole DEF T
  <2>. QED
    BY <1>4, <2>5 DEF IsInjective
<1>7. ToSet(f) = S
  <2>1. DOMAIN f = 1 .. n /\ \A i \in 1 .. n : f[i] \in S
    BY <1>4
  <2>2. ToSet(f) = {f[i] : i \in 1 .. n}
    BY <2>1 DEF ToSet
  <2>. HIDE DEF n
  <2>. QED
    BY <1>6, <2>1, <2>2
<1>. QED
  BY <1>5, <1>7 DEF f

\* What listing a directory adds: its children.
LEMMA ListingIs ==
  ASSUME NEW d, DiskOK(d), NEW x
  PROVE  /\ IsASequence(Listing(d, x))
         /\ ToSet(Listing(d, x)) =
              {[src |-> c, dst |-> Append(x.dst, Base(c)), val |-> Dir] : c \in Children(d, x.src)}
<1>. DEFINE C == Children(d, x.src)
            f == [c \in C |-> [src |-> c, dst |-> Append(x.dst, Base(c)), val |-> Dir]]
            I == {f[c] : c \in C}
<1>1. IsFiniteSet(C)
  <2>1. C \subseteq DOMAIN d
    BY DEF Children, Below
  <2>2. IsFiniteSet(DOMAIN d)
    BY DEF DiskOK
  <2>. HIDE DEF C
  <2>. QED
    BY <2>1, <2>2, FS_Subset
<1>2. I = {[src |-> c, dst |-> Append(x.dst, Base(c)), val |-> Dir] : c \in C}
  OBVIOUS
<1>3. DOMAIN f = C
  OBVIOUS
<1>. HIDE DEF f, C
<1>4. IsFiniteSet(I)
  BY <1>1, <1>3, FiniteImage
<1>. HIDE DEF I
<1>5. ToSet(SetToSeq(I)) = I /\ IsASequence(SetToSeq(I))
  BY <1>4, ToSetOfSet
<1>. QED
  BY <1>2, <1>5 DEF C, Listing

LEMMA ListingJoined ==
  ASSUME NEW d, DiskOK(d), NEW x, NEW u, IsASequence(u)
  PROVE  ToSet(Listing(d, x) \o u) =
           {[src |-> c, dst |-> Append(x.dst, Base(c)), val |-> Dir] : c \in Children(d, x.src)}
             \cup ToSet(u)
<1>. DEFINE L == Listing(d, x)
            I == {[src |-> c, dst |-> Append(x.dst, Base(c)), val |-> Dir] : c \in Children(d, x.src)}
<1>1. IsASequence(L) /\ ToSet(L) = I
  BY ListingIs
<1>. HIDE DEF L, I
<1>2. ToSet(L \o u) = I \cup ToSet(u)
  BY <1>1, ToSetJoined
<1>. QED
  BY <1>2 DEF L, I

-----------------------------------------------------------------------------
(* Copying, one entry at a time.                                            *)

LEMMA PrefixOfFront ==
  ASSUME NEW a, IsASequence(a), NEW b, IsASequence(b), IsPrefix(a, b), a # b
  PROVE  b # <<>> /\ IsASequence(Front(b)) /\ IsPrefix(a, Front(b))
<1>. DEFINE la == Len(a)
            lb == Len(b)
            f  == Front(b)
<1>1. la \in Nat /\ lb \in Nat /\ la <= lb /\ \A i \in 1 .. la : a[i] = b[i]
  BY SequenceType, PrefixMeans
<1>2. la # lb
  BY <1>1, SameSequence
<1>3. lb # 0 /\ lb - 1 \in 0 .. lb /\ la <= lb - 1 /\ \A i \in 1 .. la : i \in 1 .. lb - 1
  <2>. HIDE DEF la, lb
  <2>. QED
    BY <1>1, <1>2
<1>4. b # <<>>
  BY <1>3, SequenceType
<1>5. IsASequence(f) /\ Len(f) = lb - 1 /\ f = SubSeq(b, 1, lb - 1)
  BY <1>4, FrontIs
<1>6. \A i \in 1 .. lb - 1 : f[i] = b[i]
  BY <1>3, <1>5, PrefixOf
<1>. HIDE DEF f
<1>7. IsPrefix(a, f)
  <2>1. la <= Len(f) /\ \A i \in 1 .. la : a[i] = f[i]
    BY <1>1, <1>3, <1>5, <1>6
  <2>. QED
    BY <1>5, <2>1, PrefixMeans
<1>. QED
  BY <1>4, <1>5, <1>7 DEF f

\* What is above a place a file can be made at is a directory.
LEMMA AboveCreated ==
  ASSUME NEW d, DiskOK(d), NEW p, IsASequence(p), CanCreate(d, p), NEW a, IsASequence(a),
         IsPrefix(a, p), a # p
  PROVE  IsDir(d, a)
<1>1. p # <<>> /\ IsASequence(Front(p)) /\ IsPrefix(a, Front(p)) /\ IsDir(d, Front(p))
  BY PrefixOfFront DEF CanCreate
<1>2. CASE a = Front(p)
  BY <1>1, <1>2
<1>3. CASE a # Front(p) /\ Front(p) \in DOMAIN d
  BY <1>1, <1>3, AboveIsDir
<1>4. CASE Front(p) = <<>>
  <2>1. IsPrefix(<<>>, a)
    BY PrefixEmpty
  <2>2. a = <<>>
    BY <1>1, <1>4, <2>1, PrefixEmpty, PrefixAntisym
  <2>. QED
    BY <2>2 DEF IsDir
<1>. QED
  BY <1>1, <1>2, <1>3, <1>4 DEF IsDir

LEMMA CopyStarts ==
  ASSUME NEW d, DiskOK(d), NEW s, IsASequence(s), NEW t, IsASequence(t), t # <<>>,
         s \in DOMAIN d => ~IsPrefix(t, s),
         NEW w, w = <<[src |-> s, dst |-> t, val |-> Dir]>>
  PROVE  /\ \A x \in ToSet(w) : IsPrefix(t, x.dst)
         /\ Copying(d, w, s, t) \/ CopyingNothing(d, w, s) \/ CopyingIntoItself(w)
<1>. DEFINE x == [src |-> s, dst |-> t, val |-> Dir]
<1>1. x.src = s /\ x.dst = t
  OBVIOUS
<1>2. w \in Seq({x}) /\ Len(w) = 1 /\ Head(w) = x /\ w = <<x>> /\ w # <<>>
  OBVIOUS
<1>. HIDE DEF x
<1>3. ToSet(w) = {x}
  BY <1>2, ToSetIs DEF IsASequence
<1>4. \A y \in ToSet(w) : IsPrefix(t, y.dst)
  BY <1>1, <1>3, PrefixSelf
<1>5. CASE s # <<>> /\ s \notin DOMAIN d
  BY <1>1, <1>2, <1>4, <1>5 DEF CopyingNothing
<1>6. CASE IsPrefix(s, t) /\ s # t
  BY <1>1, <1>3, <1>4, <1>6 DEF CopyingIntoItself
<1>7. CASE s \in DOMAIN d /\ ~IsPrefix(s, t)
  <2>1. Moved(s, s, t) = t /\ IsPrefix(s, s)
    BY MovedSelf, PrefixSelf
  <2>. QED
    BY <1>1, <1>3, <1>4, <1>7, <2>1 DEF Copying
<1>8. s = <<>> => IsPrefix(s, t) /\ s # t
  BY PrefixEmpty
<1>9. s \in DOMAIN d /\ IsPrefix(s, t) => s # t
  BY PrefixSelf
<1>. QED
  BY <1>5, <1>6, <1>7, <1>8, <1>9

\* A directory is made and listed: its entries come before those that are left.
Listed(d, x, w) == Listing(d, x) \o Tail(w)

LEMMA CopyDir ==
  ASSUME NEW d, DiskOK(d), NEW s, IsASequence(s), NEW t, IsASequence(t), NEW w, IsASequence(w),
         w # <<>>, NEW x, x = Head(w), IsASequence(x.dst), IsDir(d, x.src),
         CanMakeDirs(d, x.dst), NEW f, f = MakeDirs(d, x.dst), NEW v, v = Listed(f, x, w),
         \A y \in ToSet(w) : IsPrefix(t, y.dst)
  PROVE  /\ \A y \in ToSet(v) : IsPrefix(t, y.dst)
         /\ Copying(d, w, s, t) => Copying(f, v, s, t)
         /\ CopyingIntoItself(w) => CopyingIntoItself(v)
<1>. DEFINE Item(c) == [src |-> c, dst |-> Append(x.dst, Base(c)), val |-> Dir]
            C       == Children(f, x.src)
<1>1. /\ DiskOK(f) /\ DOMAIN f = DOMAIN d \cup Ancestors(x.dst)
      /\ \A y \in DOMAIN d : f[y] = d[y]
  BY MakeDirsOK
<1>2. ToSet(v) = {Item(c) : c \in C} \cup ToSet(Tail(w)) /\ ToSet(w) = {x} \cup ToSet(Tail(w))
  <2>1. IsASequence(Tail(w)) /\ DiskOK(f)
    BY <1>1, TailSequence
  <2>2. \A u : IsASequence(u) => ToSet(Listing(f, x) \o u) = {Item(c) : c \in C} \cup ToSet(u)
    BY <2>1, ListingJoined
  <2>3. v = Listing(f, x) \o Tail(w)
    BY DEF Listed
  <2>. HIDE DEF Item, C
  <2>4. ToSet(v) = {Item(c) : c \in C} \cup ToSet(Tail(w))
    BY <2>1, <2>2, <2>3, Zenon
  <2>5. ToSet(w) = {x} \cup ToSet(Tail(w))
    BY ToSetLeft
  <2>. QED
    BY <2>4, <2>5
<1>3. \A c : Item(c).src = c /\ Item(c).dst = Append(x.dst, Base(c))
  OBVIOUS
<1>. HIDE DEF Item, C
<1>4. ASSUME NEW y \in ToSet(v) PROVE IsPrefix(t, y.dst)
  <2>1. CASE y \in ToSet(Tail(w))
    BY <1>2, <2>1
  <2>2. CASE \E c \in C : y = Item(c)
    <3>1. PICK c \in C : y = Item(c)
      BY <2>2
    <3>2. IsASequence(y.dst) /\ IsPrefix(x.dst, y.dst)
      <4>1. y.dst = Append(x.dst, Base(c))
        BY <1>3, <3>1
      <4>2. IsASequence(Append(x.dst, Base(c))) /\ IsPrefix(x.dst, Append(x.dst, Base(c)))
        BY PrefixAppend
      <4>. QED
        BY <4>1, <4>2
    <3>3. IsPrefix(t, x.dst)
      BY <1>2
    <3>. QED
      BY <3>2, <3>3, PrefixTrans
  <2>. QED
    BY <1>2, <2>1, <2>2
<1>5. ASSUME Copying(d, w, s, t) PROVE Copying(f, v, s, t)
  <2>1. /\ s \in DOMAIN d /\ ~IsPrefix(s, t) /\ ~IsPrefix(t, s)
        /\ \A y \in ToSet(w) : IsASequence(y.src) /\ IsPrefix(s, y.src) /\ y.dst = Moved(y.src, s, t)
        /\ \A y \in DOMAIN d : IsPrefix(s, y) =>
             \/ d[y].data = {}
             \/ \E z \in ToSet(w) : IsPrefix(z.src, y)
             \/ Moved(y, s, t) \in DOMAIN d /\ d[Moved(y, s, t)].data = d[y].data
    BY <1>5 DEF Copying
  <2>2. IsASequence(x.src) /\ IsPrefix(s, x.src) /\ x.dst = Moved(x.src, s, t) /\ IsPrefix(t, x.dst)
    BY <1>2, <2>1
  <2>3. ASSUME NEW y \in ToSet(v)
        PROVE  IsASequence(y.src) /\ IsPrefix(s, y.src) /\ y.dst = Moved(y.src, s, t)
    <3>1. CASE y \in ToSet(Tail(w))
      BY <1>2, <2>1, <3>1
    <3>2. CASE \E c \in C : y = Item(c)
      <4>1. PICK c \in C : y = Item(c)
        BY <3>2
      <4>2. IsASequence(c) /\ IsPrefix(x.src, c) /\ c = Append(x.src, Base(c))
        BY <1>1, <2>2, ChildIs DEF C
      <4>3. IsPrefix(s, c)
        BY <2>2, <4>2, PrefixTrans
      <4>4. Moved(Append(x.src, Base(c)), s, t) = Append(Moved(x.src, s, t), Base(c))
        BY <2>2, MovedAppend
      <4>. QED
        BY <1>3, <2>2, <4>1, <4>2, <4>3, <4>4
    <3>. QED
      BY <1>2, <3>1, <3>2
  <2>4. ASSUME NEW y \in DOMAIN f, IsPrefix(s, y)
        PROVE  \/ f[y].data = {}
               \/ \E z \in ToSet(v) : IsPrefix(z.src, y)
               \/ Moved(y, s, t) \in DOMAIN f /\ f[Moved(y, s, t)].data = f[y].data
    <3>1. IsASequence(y)
      BY <1>1 DEF DiskOK
    <3>2. CASE y \notin DOMAIN d
      <4>1. f[y] = Dir
        BY <3>2 DEF MakeDirs
      <4>. QED
        BY <4>1 DEF Dir
    <3>3. CASE y \in DOMAIN d /\ IsPrefix(x.src, y)
      <4>1. CASE y = x.src
        <5>1. d[y].dir /\ (d[y].dir => d[y].data = {})
          BY <3>3, <4>1 DEF IsDir, DiskOK, NodeOK
        <5>. QED
          BY <1>1, <3>3, <5>1
      <4>2. CASE y # x.src
        <5>1. PICK c \in C : IsPrefix(c, y)
          BY <1>1, <2>2, <3>3, <4>2, ChildTowards DEF C
        <5>2. Item(c) \in ToSet(v) /\ Item(c).src = c
          BY <1>2, <1>3
        <5>. QED
          BY <5>1, <5>2
      <4>. QED
        BY <4>1, <4>2
    <3>4. CASE y \in DOMAIN d /\ ~IsPrefix(x.src, y)
      <4>1. \/ d[y].data = {}
            \/ \E z \in ToSet(Tail(w)) : IsPrefix(z.src, y)
            \/ Moved(y, s, t) \in DOMAIN d /\ d[Moved(y, s, t)].data = d[y].data
        BY <1>2, <2>1, <2>4, <3>4
      <4>. QED
        BY <1>1, <1>2, <3>4, <4>1
    <3>. QED
      BY <3>2, <3>3, <3>4
  <2>. QED
    BY <1>1, <2>1, <2>3, <2>4 DEF Copying
<1>6. ASSUME CopyingIntoItself(w) PROVE CopyingIntoItself(v)
  <2>1. PICK y \in ToSet(w) : IsASequence(y.src) /\ IsPrefix(y.src, y.dst) /\ y.src # y.dst
    BY <1>6 DEF CopyingIntoItself
  <2>2. CASE y \in ToSet(Tail(w))
    BY <1>2, <2>1, <2>2 DEF CopyingIntoItself
  <2>3. CASE y = x
    <3>1. x.dst \in DOMAIN f
      <4>. DEFINE p == x.dst
      <4>1. IsASequence(p) /\ IsPrefix(p, p) /\ p # <<>>
        BY <2>1, <2>3, PrefixOfFront, PrefixSelf
      <4>2. p = SubSeq(p, 1, Len(p)) /\ Len(p) \in Nat /\ Len(p) # 0
        BY <4>1, PrefixMeans, SequenceType
      <4>3. Len(p) \in 1 .. Len(p)
        BY <4>2
      <4>4. p \in Ancestors(p)
        BY <4>2, <4>3 DEF Ancestors
      <4>. QED
        BY <1>1, <4>4
    <3>2. PICK c \in C : IsPrefix(c, x.dst)
      BY <1>1, <2>1, <2>3, <3>1, ChildTowards DEF C
    <3>3. IsASequence(c)
      BY <1>1, <2>1, <2>3, ChildIs DEF C
    <3>. DEFINE a == Append(x.dst, Base(c))
    <3>4. IsASequence(a) /\ IsPrefix(x.dst, a) /\ ~IsPrefix(a, x.dst)
      BY PrefixAppend
    <3>. HIDE DEF a
    <3>5. IsPrefix(c, a) /\ c # a
      BY <3>2, <3>3, <3>4, PrefixTrans
    <3>6. Item(c) \in ToSet(v) /\ Item(c).src = c /\ Item(c).dst = a
      BY <1>2, <1>3 DEF a
    <3>. QED
      BY <3>3, <3>5, <3>6 DEF CopyingIntoItself
  <2>. QED
    BY <1>2, <2>1, <2>2, <2>3
<1>. QED
  BY <1>4, <1>5, <1>6

\* A file is copied.
LEMMA CopyFile ==
  ASSUME NEW d, DiskOK(d), NEW s, IsASequence(s), NEW t, IsASequence(t), NEW w, IsASequence(w),
         w # <<>>, NEW x, x = Head(w), IsASequence(x.dst), IsFile(d, x.src), CanCreate(d, x.dst),
         NEW f, f = With(d, x.dst, IF x.src = x.dst THEN Emptied ELSE d[x.src])
  PROVE  /\ Copying(d, w, s, t) => Copying(f, Tail(w), s, t)
         /\ CopyingIntoItself(w) => CopyingIntoItself(Tail(w))
<1>1. ToSet(w) = {x} \cup ToSet(Tail(w))
  BY ToSetLeft
<1>2. IsASequence(x.src) /\ x.src # <<>>
  BY DEF IsFile, DiskOK
<1>3. ASSUME Copying(d, w, s, t) PROVE Copying(f, Tail(w), s, t)
  <2>1. /\ s \in DOMAIN d /\ ~IsPrefix(s, t) /\ ~IsPrefix(t, s)
        /\ \A y \in ToSet(w) : IsASequence(y.src) /\ IsPrefix(s, y.src) /\ y.dst = Moved(y.src, s, t)
        /\ \A y \in DOMAIN d : IsPrefix(s, y) =>
             \/ d[y].data = {}
             \/ \E z \in ToSet(w) : IsPrefix(z.src, y)
             \/ Moved(y, s, t) \in DOMAIN d /\ d[Moved(y, s, t)].data = d[y].data
    BY <1>3 DEF Copying
  <2>2. IsPrefix(s, x.src) /\ x.dst = Moved(x.src, s, t)
    BY <1>1, <2>1
  \* Nothing below the path is written to.
  <2>3. ASSUME NEW y, IsASequence(y), IsPrefix(s, y)
        PROVE  y # x.dst /\ IsPrefix(t, Moved(y, s, t))
    <3>1. IsPrefix(t, x.dst) /\ IsPrefix(t, Moved(y, s, t))
      BY <1>2, <2>2, <2>3, MovedIs
    <3>2. CASE y = x.dst
      BY <2>1, <2>3, <3>1, <3>2, PrefixBoth
    <3>. QED
      BY <3>1, <3>2
  <2>4. /\ DOMAIN f = DOMAIN d \cup {x.dst} /\ f[x.dst] = d[x.src]
        /\ \A y \in DOMAIN d : y # x.dst => f[y] = d[y]
    <3>1. x.src # x.dst
      BY <1>2, <2>2, <2>3
    <3>. QED
      BY <3>1 DEF With
  <2>5. ASSUME NEW y \in DOMAIN f, IsPrefix(s, y)
        PROVE  \/ f[y].data = {}
               \/ \E z \in ToSet(Tail(w)) : IsPrefix(z.src, y)
               \/ Moved(y, s, t) \in DOMAIN f /\ f[Moved(y, s, t)].data = f[y].data
    <3>1. y \in DOMAIN d => IsASequence(y)
      BY DEF DiskOK
    <3>2. y \in DOMAIN d /\ y # x.dst /\ f[y] = d[y] /\ IsASequence(y)
      BY <2>3, <2>4, <2>5, <3>1
    <3>3. CASE y = x.src
      BY <2>2, <2>4, <3>2, <3>3
    <3>4. CASE y # x.src
      <4>1. ~IsPrefix(x.src, y)
        BY <1>2, <3>2, <3>4, NothingBelow DEF IsFile
      <4>2. \/ d[y].data = {}
            \/ \E z \in ToSet(Tail(w)) : IsPrefix(z.src, y)
            \/ Moved(y, s, t) \in DOMAIN d /\ d[Moved(y, s, t)].data = d[y].data
        BY <1>1, <2>1, <2>5, <3>2, <4>1
      <4>3. Moved(y, s, t) # x.dst
        <5>1. Moved(Moved(y, s, t), t, s) = y /\ Moved(Moved(x.src, s, t), t, s) = x.src
          BY <1>2, <2>2, <2>5, <3>2, MovedBack
        <5>. QED
          BY <2>2, <3>4, <5>1
      <4>. QED
        BY <2>4, <3>2, <4>2, <4>3
    <3>. QED
      BY <3>3, <3>4
  <2>. QED
    BY <1>1, <2>1, <2>4, <2>5 DEF Copying
<1>4. ASSUME CopyingIntoItself(w) PROVE CopyingIntoItself(Tail(w))
  <2>1. PICK y \in ToSet(w) : IsASequence(y.src) /\ IsPrefix(y.src, y.dst) /\ y.src # y.dst
    BY <1>4 DEF CopyingIntoItself
  <2>2. y # x
    <3>1. CASE y = x
      <4>1. IsDir(d, x.src)
        BY <2>1, <3>1, AboveCreated
      <4>. QED
        BY <1>2, <4>1 DEF IsDir, IsFile
    <3>. QED
      BY <3>1
  <2>. QED
    BY <1>1, <2>1, <2>2 DEF CopyingIntoItself
<1>. QED
  BY <1>3, <1>4

-----------------------------------------------------------------------------
(* Each step of the course.                                                 *)

LEMMA HeldAvoidsLess ==
  ASSUME NEW d, NEW R, NEW X
  PROVE  Held(d, R, X) \subseteq Held(d, R, {})
<1>. QED
  BY HeldStays

\* Wherever a request is, what it keeps is on the disk, and it may stop there.
LEMMA CourseKeeps ==
  ASSUME NEW V, NEW q, NEW d, DiskOK(d), NEW l, NEW n, NEW t, NEW w, Course(V, q, d, l, n, t, w)
  PROVE  V \subseteq Values(d)
<1>1. \A R, X : Held(d, R, X) \subseteq Values(d)
  BY HeldInValues
<1>2. /\ l \in Phases(q.kind) \cup Answers
      /\ l \in Answers => V \subseteq Values(d)
      /\ l \in {"check", "path", "add", "extract", "cleanup"} =>
           V \subseteq Held(d, Roots(q, n - 1), {})
      /\ l \in {"info", "rename", "copy"} => V \subseteq Held(d, Roots(q, n - 1), {t})
      /\ l = "remove" => V \subseteq Held(d, Roots(q, n), {q.paths[n]})
  BY DEF Course
<1>3. Phases(q.kind) \subseteq {"check", "path", "add", "extract", "cleanup", "info", "rename",
                                 "copy", "remove"}
  BY DEF Phases
<1>. QED
  BY <1>1, <1>2, <1>3

LEMMA CourseAnswered ==
  ASSUME NEW V, NEW q, NEW d, V \subseteq Values(d), NEW l \in Answers, NEW n, NEW t, NEW w
  PROVE  Course(V, q, d, l, n, t, w)
<1>. QED
  BY DEF Course, Answers

\* What is below a path that a request keeps is not below where a copy of it goes.
LEMMA CopyTargetApart ==
  ASSUME NEW q, NEW n, AtWork(q, n), q.kind = "copy", NEW d, DiskOK(d),
         NEW free, free = (IF Exists(d, Target(q, n))
                           THEN Append(q.dest, Base(Target(q, n)) \o " (copy)") ELSE Target(q, n)),
         NEW y \in DOMAIN d, NEW p \in PathsOf(q), IsPrefix(p, y)
  PROVE  ~IsPrefix(free, y)
<1>1. /\ n \in 1 .. Len(q.paths) /\ DOMAIN q.paths = 1 .. Len(q.paths) /\ IsASequence(q.dest)
      /\ IsASequence(y) /\ IsASequence(p) /\ ~Overlaps(q)
  BY DEF AtWork, PathsOf, DiskOK
<1>2. IsASequence(Target(q, n)) /\ Target(q, n) # <<>> /\ Base(Target(q, n)) = Base(q.paths[n])
  BY <1>1, TargetIs, PrefixAppend DEF Target
<1>3. CASE ~Exists(d, Target(q, n))
  <2>1. free = Target(q, n)
    BY <1>3
  <2>2. IsPrefix(free, y) => free = y
    BY <1>2, <1>3, <2>1, NothingBelow DEF Exists
  <2>. QED
    BY <1>3, <2>1, <2>2 DEF Exists
<1>4. CASE Exists(d, Target(q, n))
  <2>1. free = Append(q.dest, Base(q.paths[n]) \o " (copy)")
    BY <1>2, <1>4
  <2>2. q.paths[n] \in PathsOf(q)
    BY <1>1 DEF PathsOf
  <2>3. free \in Targets(q)
    BY <2>1, <2>2 DEF Targets
  <2>4. ~IsPrefix(p, free) /\ ~IsPrefix(free, p)
    BY <1>1, <2>3 DEF Overlaps
  <2>5. IsASequence(free)
    BY <1>1, <2>1, AppendSequence
  <2>. QED
    BY <1>1, <2>4, <2>5, PrefixBoth
<1>. QED
  BY <1>3, <1>4

LEMMA CoursePrepared ==
  ASSUME NEW q, NEW n, AtWork(q, n), NEW d, DiskOK(d),
         NEW V, V \subseteq Held(d, Roots(q, n - 1), {}), NEW w
  PROVE  /\ q.kind = "move" => Course(V, q, d, "rename", n, Target(q, n), w)
         /\ q.kind = "copy" =>
              LET free == IF Exists(d, Target(q, n))
                          THEN Append(q.dest, Base(Target(q, n)) \o " (copy)") ELSE Target(q, n)
              IN  Course(V, q, d, "copy", n, free,
                         <<[src |-> q.paths[n], dst |-> free, val |-> Dir]>>)
<1>1. n \in 1 .. Len(q.paths) /\ IsASequence(Target(q, n)) /\ Target(q, n) # <<>>
  BY TargetIs DEF AtWork
<1>2. ASSUME q.kind = "move" PROVE Course(V, q, d, "rename", n, Target(q, n), w)
  <2>1. \A y \in DOMAIN d : IsASequence(y)
    BY DEF DiskOK
  <2>2. \A y \in DOMAIN d : (\E p \in Roots(q, n - 1) : IsPrefix(p, y)) => ~IsPrefix(Target(q, n), y)
    BY <1>2, <2>1, AvoidsTarget
  <2>3. Held(d, Roots(q, n - 1), {}) \subseteq Held(d, Roots(q, n - 1), {Target(q, n)})
    <3>. DEFINE R == Roots(q, n - 1)
                X == {Target(q, n)}
    <3>1. \A y \in DOMAIN d : (\E p \in R : IsPrefix(p, y)) => \A x \in X : ~IsPrefix(x, y)
      BY <2>2
    <3>. HIDE DEF R, X
    <3>2. Held(d, R, {}) \subseteq Held(d, R, X)
      BY <3>1, HeldStays
    <3>. QED
      BY <3>2 DEF R, X
  <2>4. "rename" \in Phases(q.kind) /\ "rename" \notin Answers
    BY <1>2 DEF Phases, Answers
  <2>5. V \subseteq Held(d, Roots(q, n - 1), {Target(q, n)})
    BY <2>3
  <2>. QED
    BY <1>1, <1>2, <2>4, <2>5 DEF Course
<1>3. ASSUME q.kind = "copy",
             NEW free, free = (IF Exists(d, Target(q, n))
                               THEN Append(q.dest, Base(Target(q, n)) \o " (copy)")
                               ELSE Target(q, n)),
             NEW u, u = <<[src |-> q.paths[n], dst |-> free, val |-> Dir]>>
      PROVE  Course(V, q, d, "copy", n, free, u)
  <2>1. Roots(q, n - 1) = PathsOf(q)
    BY <1>3 DEF Roots
  <2>2. Held(d, PathsOf(q), {}) \subseteq Held(d, PathsOf(q), {free})
    <3>. DEFINE R == PathsOf(q)
                X == {free}
    <3>1. \A y \in DOMAIN d : (\E p \in R : IsPrefix(p, y)) => \A x \in X : ~IsPrefix(x, y)
      BY <1>3, CopyTargetApart
    <3>. HIDE DEF R, X
    <3>2. Held(d, R, {}) \subseteq Held(d, R, X)
      BY <3>1, HeldStays
    <3>. QED
      BY <3>2 DEF R, X
  <2>3. IsASequence(free) /\ free # <<>>
    <3>1. IsASequence(q.dest)
      BY DEF AtWork
    <3>2. \A b : IsASequence(Append(q.dest, b)) /\ Append(q.dest, b) # <<>>
      BY <3>1, AppendSequence
    <3>. QED
      BY <1>1, <1>3, <3>2
  <2>4. ASSUME NEW x \in ToSet(u) PROVE IsPrefix(free, x.dst)
    <3>. DEFINE e == [src |-> q.paths[n], dst |-> free, val |-> Dir]
    <3>1. e.dst = free
      OBVIOUS
    <3>2. u = <<e>>
      BY <1>3
    <3>. HIDE DEF e
    <3>3. u \in Seq({e})
      BY <3>2
    <3>4. ToSet(u) = {e}
      BY <3>2, <3>3, ToSetIs DEF IsASequence
    <3>. QED
      BY <2>3, <2>4, <3>1, <3>4, PrefixSelf
  <2>5. "copy" \in Phases(q.kind) /\ "copy" \notin Answers
    BY <1>3 DEF Phases, Answers
  <2>6. V \subseteq Held(d, Roots(q, n - 1), {free})
    BY <2>1, <2>2
  <2>7. q.kind \notin Sends /\ q.kind # "move" /\ q.kind # "trash"
    BY <1>3 DEF Sends
  <2>. QED
    BY <2>3, <2>4, <2>5, <2>6, <2>7 DEF Course
<1>. QED
  BY <1>2, <1>3

\* On to the next path, or the answer.
LEMMA CourseOnward ==
  ASSUME NEW q, NEW n, AtWork(q, n), q.kind \in {"trash", "move", "copy"}, NEW d, DiskOK(d),
         NEW V, V \subseteq Held(d, Roots(q, n), {}), NEW t, NEW w
  PROVE  /\ Course(V, q, d, "path", n + 1, t, w)
         /\ Course(V, q, d, "ok", n, t, w)
<1>1. Course(V, q, d, "ok", n, t, w)
  BY HeldInValues, CourseAnswered DEF Answers
<1>2. n + 1 - 1 = n
  BY RootsOf
<1>3. ~HoldsItself(d, q)
  BY DEF HoldsItself
<1>4. Course(V, q, d, "path", n + 1, t, w)
  <2>1. "path" \in Phases(q.kind) /\ "path" \notin Answers
    BY DEF Phases, Answers
  <2>2. ASSUME NEW m, m - 1 = n PROVE Course(V, q, d, "path", m, t, w)
    <3>1. V \subseteq Held(d, Roots(q, m - 1), {})
      BY <2>2
    <3>. QED
      BY <1>3, <2>1, <3>1 DEF Course
  <2>3. n \in Nat
    BY DEF AtWork
  <2>4. (n + 1) - 1 = n
    BY <2>3
  <2>. QED
    BY <2>2, <2>3, <2>4, SMT
<1>. QED
  BY <1>1, <1>4

LEMMA CourseRenamed ==
  ASSUME NEW q, NEW n, AtWork(q, n), NEW d, DiskOK(d), NEW t, IsASequence(t),
         NEW V, NEW w, Course(V, q, d, "rename", n, t, w), CanRename(d, q.paths[n], t)
  PROVE  V \subseteq Held(Renamed(d, q.paths[n], t), Roots(q, n), {})
<1>. DEFINE s == q.paths[n]
            f == Renamed(d, s, t)
<1>1. /\ q.kind \in Sends /\ V \subseteq Held(d, Roots(q, n - 1), {t}) /\ t # <<>>
      /\ q.kind = "move" => t = Target(q, n)
      /\ q.kind = "trash" => t \notin DOMAIN d
  BY DEF Course, Phases, Answers, Sends, AtWork, Guarded
<1>2. IsASequence(s) /\ n \in 1 .. Len(q.paths)
  BY DEF AtWork
<1>3. s \in DOMAIN d
  BY DEF CanRename, Exists
<1>4. s # t
  <2>1. CASE q.kind = "move"
    <3>1. ~IsPrefix(s, t)
      BY <1>1, <1>2, <2>1, MoveApart
    <3>. QED
      BY <1>2, <3>1, PrefixSelf
  <2>2. CASE q.kind = "trash"
    BY <1>1, <1>3, <2>2
  <2>. QED
    BY <1>1, <2>1, <2>2 DEF Sends
<1>. HIDE DEF s
<1>5. ASSUME NEW y \in DOMAIN d
      PROVE  /\ IsPrefix(s, y) => Moved(y, s, t) \in DOMAIN f /\ f[Moved(y, s, t)] = d[y]
             /\ ~IsPrefix(s, y) /\ y # t => y \in DOMAIN f /\ f[y] = d[y]
  BY <1>1, <1>2, <1>4, RenamedTakes DEF s
<1>. HIDE DEF f
<1>6. ASSUME NEW y \in DOMAIN d, \E p \in Roots(q, n - 1) : IsPrefix(p, y), ~IsPrefix(t, y)
      PROVE  \E z \in DOMAIN f : f[z].data = d[y].data /\ \E p \in Roots(q, n) : IsPrefix(p, z)
  <2>1. IsASequence(y) /\ y # t
    BY <1>6, PrefixSelf DEF DiskOK
  <2>2. CASE IsPrefix(s, y)
    <3>1. IsASequence(Moved(y, s, t)) /\ IsPrefix(t, Moved(y, s, t))
      BY <1>2, <2>1, <2>2, MovedIs DEF s
    <3>2. \E p \in Roots(q, n) : IsPrefix(p, Moved(y, s, t))
      BY <1>1, <3>1, RootsNext DEF Sends
    <3>. QED
      BY <1>5, <2>2, <3>2
  <2>3. CASE ~IsPrefix(s, y)
    <3>1. \E p \in Roots(q, n) : IsPrefix(p, y)
      BY <1>1, <1>6, <2>1, <2>3, RootsNext DEF s
    <3>. QED
      BY <1>5, <2>1, <2>3, <3>1
  <2>. QED
    BY <2>2, <2>3
<1>7. Held(d, Roots(q, n - 1), {t}) \subseteq Held(f, Roots(q, n), {})
  <2>. DEFINE R == Roots(q, n - 1)
              S == Roots(q, n)
  <2>1. \A y \in DOMAIN d : (\E p \in R : IsPrefix(p, y)) /\ (\A x \in {t} : ~IsPrefix(x, y)) =>
          \E z \in DOMAIN f : f[z].data = d[y].data /\ \E p \in S : IsPrefix(p, z)
    BY <1>6
  <2>. HIDE DEF R, S
  <2>2. Held(d, R, {t}) \subseteq Held(f, S, {})
    BY <2>1, HeldStays
  <2>. QED
    BY <2>2 DEF R, S
<1>8. V \subseteq Held(f, Roots(q, n), {})
  BY <1>1, <1>7
<1>. QED
  BY <1>8 DEF f, s

\* Any error of a rename leads to a copy.
LEMMA CourseNotRenamed ==
  ASSUME NEW q, NEW n, AtWork(q, n), NEW d, DiskOK(d), NEW t, IsASequence(t),
         NEW V, NEW w, Course(V, q, d, "rename", n, t, w),
         NEW u, u = <<[src |-> q.paths[n], dst |-> t, val |-> Dir]>>
  PROVE  Course(V, q, d, "copy", n, t, u)
<1>. DEFINE s == q.paths[n]
<1>1. /\ q.kind \in Sends /\ V \subseteq Held(d, Roots(q, n - 1), {t}) /\ t # <<>>
      /\ q.kind = "move" => t = Target(q, n)
      /\ q.kind = "trash" => t \notin DOMAIN d
  BY DEF Course, Phases, Answers, Sends, AtWork, Guarded
<1>2. IsASequence(s) /\ n \in 1 .. Len(q.paths)
  BY DEF AtWork
<1>3. ASSUME s \in DOMAIN d PROVE ~IsPrefix(t, s)
  <2>1. CASE q.kind = "move"
    BY <1>1, <1>2, <2>1, MoveApart
  <2>2. CASE q.kind = "trash"
    <3>1. IsPrefix(t, s) => t = s
      BY <1>1, <1>3, <2>2, NothingBelow
    <3>. QED
      BY <1>1, <1>3, <2>2, <3>1
  <2>. QED
    BY <1>1, <2>1, <2>2 DEF Sends
<1>4. u = <<[src |-> s, dst |-> t, val |-> Dir]>>
  OBVIOUS
<1>. HIDE DEF s
<1>5. /\ \A x \in ToSet(u) : IsPrefix(t, x.dst)
      /\ Copying(d, u, s, t) \/ CopyingNothing(d, u, s) \/ CopyingIntoItself(u)
  BY <1>1, <1>2, <1>3, <1>4, CopyStarts
<1>. QED
  BY <1>1, <1>5 DEF Course, Phases, s, Sends, Answers

\* One entry of a copy is done.  Nothing that is kept is below its destination.
LEMMA CourseCopiesDir ==
  ASSUME NEW q, NEW n, AtWork(q, n), NEW d, DiskOK(d), NEW t, IsASequence(t),
         NEW w, WorkOK(w), w # <<>>, NEW V, Course(V, q, d, "copy", n, t, w),
         NEW x, x = Head(w), IsDir(d, x.src), CanMakeDirs(d, x.dst),
         NEW f, f = MakeDirs(d, x.dst), NEW v, v = Listed(f, x, w)
  PROVE  Course(V, q, f, "copy", n, t, v)
<1>. DEFINE s == q.paths[n]
<1>1. /\ V \subseteq Held(d, Roots(q, n - 1), {t}) /\ t # <<>>
      /\ q.kind = "move" => t = Target(q, n)
      /\ \A y \in ToSet(w) : IsPrefix(t, y.dst)
      /\ q.kind \in Sends => Copying(d, w, s, t) \/ CopyingNothing(d, w, s) \/ CopyingIntoItself(w)
      /\ "copy" \in Phases(q.kind) \cup Answers
  BY DEF Course
<1>2. IsASequence(s) /\ IsASequence(w) /\ IsASequence(x.dst)
  BY WorkLeft DEF AtWork, WorkOK, ItemOK
<1>. HIDE DEF s
<1>3. /\ \A y \in ToSet(v) : IsPrefix(t, y.dst)
      /\ Copying(d, w, s, t) => Copying(f, v, s, t)
      /\ CopyingIntoItself(w) => CopyingIntoItself(v)
  BY <1>1, <1>2, CopyDir
<1>4. ~CopyingNothing(d, w, s)
  BY DEF CopyingNothing, IsDir
<1>5. V \subseteq Held(f, Roots(q, n - 1), {t})
  BY <1>1, <1>2, HeldMakeDirs
<1>. QED
  BY <1>1, <1>3, <1>4, <1>5 DEF Course, Answers, s

LEMMA CourseCopiesFile ==
  ASSUME NEW q, NEW n, AtWork(q, n), NEW d, DiskOK(d), NEW t, IsASequence(t),
         NEW w, WorkOK(w), w # <<>>, NEW V, Course(V, q, d, "copy", n, t, w),
         NEW x, x = Head(w), IsFile(d, x.src), CanCreate(d, x.dst),
         NEW f, f = With(d, x.dst, IF x.src = x.dst THEN Emptied ELSE d[x.src])
  PROVE  Course(V, q, f, "copy", n, t, Tail(w))
<1>. DEFINE s == q.paths[n]
<1>1. /\ V \subseteq Held(d, Roots(q, n - 1), {t}) /\ t # <<>>
      /\ q.kind = "move" => t = Target(q, n)
      /\ \A y \in ToSet(w) : IsPrefix(t, y.dst)
      /\ q.kind \in Sends => Copying(d, w, s, t) \/ CopyingNothing(d, w, s) \/ CopyingIntoItself(w)
      /\ "copy" \in Phases(q.kind) \cup Answers
  BY DEF Course
<1>2. IsASequence(s) /\ IsASequence(w) /\ IsASequence(x.dst)
  BY WorkLeft DEF AtWork, WorkOK, ItemOK
<1>. HIDE DEF s
<1>3. /\ Copying(d, w, s, t) => Copying(f, Tail(w), s, t)
      /\ CopyingIntoItself(w) => CopyingIntoItself(Tail(w))
  BY <1>2, CopyFile
<1>4. ~CopyingNothing(d, w, s)
  BY DEF CopyingNothing, IsFile
<1>5. ToSet(w) = {x} \cup ToSet(Tail(w))
  BY <1>2, ToSetLeft
<1>6. V \subseteq Held(f, Roots(q, n - 1), {t})
  BY <1>1, <1>5, HeldWith
<1>. QED
  BY <1>1, <1>3, <1>4, <1>5, <1>6 DEF Course, Answers, s

\* io.Copy fails after the destination has been truncated.
LEMMA CourseCopyBreaks ==
  ASSUME NEW q, NEW n, NEW d, DiskOK(d), NEW t,
         NEW w, WorkOK(w), w # <<>>, NEW V, Course(V, q, d, "copy", n, t, w),
         NEW x, x = Head(w), CanCreate(d, x.dst)
  PROVE  V \subseteq Values(With(d, x.dst, Emptied))
<1>. DEFINE f == With(d, x.dst, Emptied)
<1>1. V \subseteq Held(d, Roots(q, n - 1), {t}) /\ \A y \in ToSet(w) : IsPrefix(t, y.dst)
  BY DEF Course
<1>2. IsASequence(w) /\ IsASequence(x.dst)
  BY WorkLeft DEF WorkOK, ItemOK
<1>3. ToSet(w) = {x} \cup ToSet(Tail(w))
  BY <1>2, ToSetLeft
<1>4. DiskOK(f)
  BY <1>2, WithOK, NodesOK DEF CanCreate
<1>5. V \subseteq Held(f, Roots(q, n - 1), {t})
  BY <1>1, <1>3, HeldWith
<1>. HIDE DEF f
<1>6. V \subseteq Values(f)
  BY <1>4, <1>5, HeldInValues
<1>. QED
  BY <1>6 DEF f

\* All of a path is copied.  Of a path that is sent elsewhere nothing is needed
\* any more below where it was.
LEMMA CourseCopied ==
  ASSUME NEW q, NEW n, AtWork(q, n), NEW d, DiskOK(d), NEW t, IsASequence(t),
         NEW w, w = <<>>, NEW V, Course(V, q, d, "copy", n, t, w)
  PROVE  /\ q.kind \in {"trash", "move", "copy"}
         /\ q.kind = "copy" => V \subseteq Held(d, Roots(q, n), {})
         /\ q.kind \in Sends => Course(V, q, d, "remove", n, t, w)
<1>. DEFINE s == q.paths[n]
<1>1. /\ V \subseteq Held(d, Roots(q, n - 1), {t})
      /\ q.kind = "move" => t = Target(q, n)
      /\ q.kind \in Sends => Copying(d, w, s, t) \/ CopyingNothing(d, w, s) \/ CopyingIntoItself(w)
      /\ q.kind \in {"trash", "move", "copy"}
  BY DEF Course, Phases, Answers, AtWork, Guarded
<1>2. IsASequence(s) /\ ToSet(w) = {}
  BY PrefixEmpty, ToSetIs DEF AtWork
<1>3. ASSUME q.kind = "copy" PROVE V \subseteq Held(d, Roots(q, n), {})
  <2>1. Roots(q, n - 1) = Roots(q, n)
    BY <1>3, RootsOf DEF Sends
  <2>. QED
    BY <1>1, <2>1, HeldAvoidsLess
<1>4. ASSUME q.kind \in Sends PROVE Course(V, q, d, "remove", n, t, w)
  <2>1. Copying(d, w, s, t)
    BY <1>1, <1>2, <1>4 DEF CopyingNothing, CopyingIntoItself
  <2>. HIDE DEF s
  <2>2. /\ ~IsPrefix(s, t) /\ ~IsPrefix(t, s)
        /\ \A y \in DOMAIN d : IsPrefix(s, y) =>
             \/ d[y].data = {}
             \/ Moved(y, s, t) \in DOMAIN d /\ d[Moved(y, s, t)].data = d[y].data
    BY <1>2, <2>1 DEF Copying
  <2>3. ASSUME NEW y \in DOMAIN d, d[y].data # {}, \E p \in Roots(q, n - 1) : IsPrefix(p, y)
        PROVE  \E z \in DOMAIN d : /\ d[z].data = d[y].data
                                   /\ \E p \in Roots(q, n) : IsPrefix(p, z)
                                   /\ ~IsPrefix(s, z)
    <3>1. IsASequence(y)
      BY DEF DiskOK
    <3>2. CASE ~IsPrefix(s, y)
      <4>1. \E p \in Roots(q, n) : IsPrefix(p, y)
        BY <1>4, <2>3, <3>1, <3>2, RootsNext DEF s
      <4>. QED
        BY <3>2, <4>1
    <3>3. CASE IsPrefix(s, y)
      <4>. DEFINE m == Moved(y, s, t)
      <4>1. m \in DOMAIN d /\ d[m].data = d[y].data
        BY <2>2, <2>3, <3>3
      <4>2. IsASequence(m) /\ IsPrefix(t, m)
        BY <1>2, <3>1, <3>3, MovedIs
      <4>. HIDE DEF m
      <4>3. ~IsPrefix(s, m)
        BY <1>2, <2>2, <4>2, PrefixBoth
      <4>4. \E p \in Roots(q, n) : IsPrefix(p, m)
        BY <1>1, <1>4, <4>2, RootsNext DEF Sends
      <4>. QED
        BY <4>1, <4>3, <4>4
    <3>. QED
      BY <3>2, <3>3
  <2>4. Held(d, Roots(q, n - 1), {t}) \subseteq Held(d, Roots(q, n), {s})
    <3>. DEFINE R == Roots(q, n - 1)
                S == Roots(q, n)
                X == {s}
    <3>1. \A y \in DOMAIN d :
            (d[y].data # {} /\ (\E p \in R : IsPrefix(p, y)) /\ \A x \in {t} : ~IsPrefix(x, y)) =>
              \E z \in DOMAIN d : /\ d[z].data = d[y].data
                                  /\ \E p \in S : IsPrefix(p, z)
                                  /\ \A x \in X : ~IsPrefix(x, z)
      BY <2>3
    <3>. HIDE DEF R, S, X
    <3>2. Held(d, R, {t}) \subseteq Held(d, S, X)
      BY <3>1, HeldStays
    <3>. QED
      BY <3>2 DEF R, S, X
  <2>5. "remove" \in Phases(q.kind) /\ "remove" \notin Answers
    BY <1>4 DEF Phases, Answers, Sends
  <2>6. V \subseteq Held(d, Roots(q, n), {s})
    BY <1>1, <2>4
  <2>. QED
    BY <2>5, <2>6 DEF Course, s
<1>. QED
  BY <1>1, <1>3, <1>4

\* One entry of the path is removed.
LEMMA CourseRemoves ==
  ASSUME NEW q, NEW n, NEW d, NEW t, NEW w, NEW V, Course(V, q, d, "remove", n, t, w),
         NEW p, IsPrefix(q.paths[n], p)
  PROVE  Course(V, q, Restricted(d, DOMAIN d \ {p}), "remove", n, t, w)
<1>. DEFINE f == Restricted(d, DOMAIN d \ {p})
<1>1. V \subseteq Held(d, Roots(q, n), {q.paths[n]}) /\ "remove" \in Phases(q.kind) \cup Answers
  BY DEF Course
<1>2. V \subseteq Held(f, Roots(q, n), {q.paths[n]})
  BY <1>1, HeldRemove
<1>. HIDE DEF f
<1>3. Course(V, q, f, "remove", n, t, w)
  BY <1>1, <1>2 DEF Course, Answers
<1>. QED
  BY <1>3 DEF f

LEMMA CourseRemoved ==
  ASSUME NEW q, NEW n, NEW d, NEW t, NEW w, NEW V, Course(V, q, d, "remove", n, t, w), AtWork(q, n)
  PROVE  V \subseteq Held(d, Roots(q, n), {}) /\ q.kind \in {"trash", "move", "copy"}
<1>1. V \subseteq Held(d, Roots(q, n), {q.paths[n]}) /\ "remove" \in Phases(q.kind) \cup Answers
  BY DEF Course
<1>2. q.kind \in {"trash", "move", "copy"}
  BY <1>1 DEF Phases, Answers, AtWork, Guarded
<1>. QED
  BY <1>1, <1>2, HeldAvoidsLess

\* The name in the trash is free, so that nothing is below it.
LEMMA CourseNamed ==
  ASSUME NEW q, NEW n, q.kind = "trash", NEW d, DiskOK(d), NEW t, IsASequence(t), t # <<>>,
         t \notin DOMAIN d, NEW w, NEW V, V \subseteq Held(d, Roots(q, n - 1), {})
  PROVE  Course(V, q, d, "info", n, t, w)
<1>. DEFINE R == Roots(q, n - 1)
<1>1. \A y \in DOMAIN d : ~IsPrefix(t, y)
  BY NothingBelow
<1>. HIDE DEF R
<1>2. Held(d, R, {}) \subseteq Held(d, R, {t})
  BY <1>1, HeldStays
<1>3. "info" \in Phases(q.kind) /\ "info" \notin Answers
  BY DEF Phases, Answers
<1>4. V \subseteq Held(d, R, {t})
  BY <1>2 DEF R
<1>. QED
  BY <1>3, <1>4 DEF Course, R

LEMMA CourseInfoWritten ==
  ASSUME NEW q, NEW n, NEW d, NEW t, NEW w, NEW V, Course(V, q, d, "info", n, t, w), AtWork(q, n)
  PROVE  Course(V, q, d, "rename", n, t, w)
<1>1. /\ "info" \in Phases(q.kind) \cup Answers
      /\ V \subseteq Held(d, Roots(q, n - 1), {t}) /\ t # <<>>
      /\ q.kind = "trash" => t \notin DOMAIN d
  BY DEF Course
<1>2. q.kind = "trash"
  BY <1>1 DEF Phases, Answers, AtWork, Guarded
<1>3. "rename" \in Phases(q.kind) /\ "rename" \notin Answers
  BY <1>2 DEF Phases, Answers
<1>. QED
  BY <1>1, <1>2, <1>3 DEF Course

\* The archive is written to.
LEMMA CourseArchives ==
  ASSUME NEW q, NEW n, AtWork(q, n), q.kind = "compress", NEW d,
         NEW V, V \subseteq Held(d, Roots(q, n - 1), {}), NEW node, NEW t, NEW w,
         NEW f, f = d \/ f = With(d, q.dest, node)
  PROVE  Course(V, q, f, "add", n, t, w)
<1>1. Roots(q, n - 1) = PathsOf(q)
  BY RootsOf DEF Sends
<1>2. \A p \in PathsOf(q) : ~IsPrefix(p, q.dest)
  BY DEF AtWork, Overlaps
<1>. DEFINE R == PathsOf(q)
            p == q.dest
<1>3. Held(d, R, {}) \subseteq Held(f, R, {})
  <2>1. \A a \in R : ~IsPrefix(a, p)
    BY <1>2
  <2>2. f = d \/ f = With(d, p, node)
    OBVIOUS
  <2>. HIDE DEF R, p
  <2>. QED
    BY <2>1, <2>2, HeldWith
<1>4. "add" \in Phases(q.kind) /\ "add" \notin Answers
  BY DEF Phases, Answers
<1>5. V \subseteq Held(f, Roots(q, n - 1), {})
  BY <1>1, <1>3
<1>. QED
  BY <1>4, <1>5 DEF Course

\* The directory to extract into is made.
LEMMA DirIsMade ==
  ASSUME NEW d, NEW p, IsASequence(p), CanMakeDirs(d, p)
  PROVE  IsDir(MakeDirs(d, p), p)
<1>1. Len(p) \in Nat /\ (p = <<>> <=> Len(p) = 0) /\ p = SubSeq(p, 1, Len(p))
  BY SequenceType, PrefixSelf, PrefixMeans
<1>. SUFFICES ASSUME p # <<>> PROVE IsDir(MakeDirs(d, p), p)
  BY DEF IsDir
<1>2. p \in Ancestors(p)
  <2>1. Len(p) \in 1 .. Len(p)
    BY <1>1
  <2>. QED
    BY <1>1, <2>1 DEF Ancestors
<1>3. p \in DOMAIN d => d[p].dir
  BY <1>2 DEF CanMakeDirs, Exists
<1>4. p \in DOMAIN MakeDirs(d, p) /\ MakeDirs(d, p)[p] = IF p \in DOMAIN d THEN d[p] ELSE Dir
  BY <1>2 DEF MakeDirs
<1>5. Dir.dir
  BY DEF Dir
<1>. QED
  BY <1>3, <1>4, <1>5 DEF IsDir

LEMMA CourseUnpacks ==
  ASSUME NEW q, NEW n, AtWork(q, n), q.kind = "decompress", NEW d, DiskOK(d),
         NEW t, NEW w, NEW V, Course(V, q, d, "path", n, t, w), CanMakeDirs(d, q.dest),
         NEW f, f = MakeDirs(d, q.dest), NEW u
  PROVE  /\ Course(V, q, f, "cleanup", n, t, u)
         /\ /\ IsFile(d, q.paths[n])
            /\ \A x \in ToSet(u) : \E e \in d[q.paths[n]].data :
                 ~Outside(e[1]) /\ x.dst = q.dest \o e[1]
            => Course(V, q, f, "extract", n, t, u)
<1>1. V \subseteq Held(d, Roots(q, n - 1), {}) /\ ~HoldsItself(d, q)
  BY DEF Course
<1>2. IsASequence(q.dest) /\ n = 1
  BY DEF AtWork
<1>3. V \subseteq Held(f, Roots(q, n - 1), {})
  BY <1>1, <1>2, HeldMakeDirs
<1>4. IsDir(f, q.dest)
  BY <1>2, DirIsMade
<1>5. "extract" \in Phases(q.kind) /\ "extract" \notin Answers
      /\ "cleanup" \in Phases(q.kind) /\ "cleanup" \notin Answers
  BY DEF Phases, Answers
<1>6. Course(V, q, f, "cleanup", n, t, u)
  BY <1>3, <1>4, <1>5 DEF Course
<1>7. ASSUME IsFile(d, q.paths[n]),
             \A x \in ToSet(u) : \E e \in d[q.paths[n]].data :
               ~Outside(e[1]) /\ x.dst = q.dest \o e[1]
      PROVE  Course(V, q, f, "extract", n, t, u)
  <2>1. IsFile(f, q.paths[n])
    <3>1. DOMAIN f = DOMAIN d \cup Ancestors(q.dest) /\ \A y \in DOMAIN d : f[y] = d[y]
      BY <1>2, MakeDirsOK
    <3>. QED
      BY <1>7, <3>1 DEF IsFile
  <2>2. \A x \in ToSet(u) : x.dst # q.paths[n]
    BY <1>1, <1>2, <1>7 DEF HoldsItself, IsFile, Exists
  <2>. QED
    BY <1>3, <1>4, <1>5, <2>1, <2>2 DEF Course
<1>. QED
  BY <1>6, <1>7

\* An entry is extracted, or its directory made and the rest given up, maybe
\* after the file was created.
LEMMA CourseExtracts ==
  ASSUME NEW q, NEW n, AtWork(q, n), NEW d, DiskOK(d), NEW t, NEW w, WorkOK(w), w # <<>>,
         NEW V, Course(V, q, d, "extract", n, t, w), NEW x, x = Head(w),
         NEW f, f = (IF CanMakeDirs(d, Front(x.dst)) THEN MakeDirs(d, Front(x.dst)) ELSE d)
  PROVE  /\ Course(V, q, f, "cleanup", n, t, w)
         /\ CanCreate(f, x.dst) => \A node :
              /\ Course(V, q, With(f, x.dst, node), "extract", n, t, Tail(w))
              /\ Course(V, q, With(f, x.dst, node), "cleanup", n, t, w)
<1>. DEFINE s == q.paths[n]
            R == Roots(q, n - 1)
<1>1. /\ V \subseteq Held(d, R, {}) /\ IsDir(d, q.dest) /\ IsFile(d, s)
      /\ \A y \in ToSet(w) : y.dst # s
      /\ "extract" \in Phases(q.kind) \cup Answers
  BY DEF Course
<1>2. IsASequence(w) /\ IsASequence(x.dst) /\ IsASequence(s) /\ IsASequence(Front(x.dst))
  BY WorkLeft, FrontSequence DEF AtWork, WorkOK, ItemOK
<1>3. q.kind = "decompress" /\ "extract" \notin Answers /\ "cleanup" \notin Answers
      /\ "cleanup" \in Phases(q.kind)
  BY <1>1 DEF Phases, Answers, AtWork, Guarded
<1>4. R = {s}
  <2>1. R = PathsOf(q)
    BY <1>3, RootsOf DEF Sends
  <2>2. Len(q.paths) = 1 /\ n \in 1 .. Len(q.paths) /\ DOMAIN q.paths = 1 .. Len(q.paths)
    BY <1>3 DEF AtWork
  <2>3. n = 1 /\ 1 .. 1 = {1}
    BY <2>2
  <2>4. DOMAIN q.paths = {n}
    BY <2>2, <2>3
  <2>. QED
    BY <2>1, <2>4 DEF PathsOf
<1>. HIDE DEF s, R
<1>5. /\ DiskOK(f) /\ IsDir(f, q.dest) /\ IsFile(f, s) /\ V \subseteq Held(f, R, {})
  <2>1. CASE CanMakeDirs(d, Front(x.dst))
    <3>. DEFINE p == Front(x.dst)
    <3>1. f = MakeDirs(d, p) /\ CanMakeDirs(d, p) /\ IsASequence(p)
      BY <1>2, <2>1
    <3>. HIDE DEF p
    <3>2. DiskOK(f) /\ DOMAIN f = DOMAIN d \cup Ancestors(p) /\ \A y \in DOMAIN d : f[y] = d[y]
      <4>. DEFINE m == MakeDirs(d, p)
      <4>1. DiskOK(m) /\ DOMAIN m = DOMAIN d \cup Ancestors(p) /\ \A y \in DOMAIN d : m[y] = d[y]
        BY <3>1, MakeDirsOK
      <4>. QED
        BY <3>1, <4>1, Zenon
    <3>3. V \subseteq Held(f, R, {})
      BY <1>1, <3>1, HeldMakeDirs
    <3>. QED
      BY <1>1, <3>2, <3>3 DEF IsDir, IsFile
  <2>2. CASE ~CanMakeDirs(d, Front(x.dst))
    BY <1>1, <2>2
  <2>. QED
    BY <2>1, <2>2
<1>6. Course(V, q, f, "cleanup", n, t, w)
  BY <1>3, <1>5 DEF Course, R
<1>7. ASSUME CanCreate(f, x.dst), NEW node, NEW g, g = With(f, x.dst, node)
      PROVE  Course(V, q, g, "extract", n, t, Tail(w)) /\ Course(V, q, g, "cleanup", n, t, w)
  <2>1. ToSet(w) = {x} \cup ToSet(Tail(w))
    BY <1>2, ToSetLeft
  <2>2. x.dst # s
    BY <1>1, <2>1
  <2>3. ~IsPrefix(s, x.dst)
    <3>1. IsPrefix(s, x.dst) => IsDir(f, s)
      BY <1>2, <1>5, <1>7, <2>2, AboveCreated
    <3>2. ~IsDir(f, s)
      BY <1>5 DEF IsDir, IsFile, DiskOK
    <3>. QED
      BY <3>1, <3>2
  <2>4. V \subseteq Held(g, R, {})
    BY <1>4, <1>5, <1>7, <2>3, HeldWith
  <2>5. /\ DOMAIN g = DOMAIN f \cup {x.dst}
        /\ \A y \in DOMAIN f : y # x.dst => g[y] = f[y]
    BY <1>7 DEF With
  <2>6. IsFile(g, s)
    BY <1>5, <2>2, <2>5 DEF IsFile
  <2>7. IsDir(g, q.dest)
    <3>1. ~IsDir(f, x.dst)
      BY <1>7 DEF CanCreate
    <3>. QED
      BY <1>5, <2>5, <3>1 DEF IsDir
  <2>. QED
    BY <1>1, <1>3, <2>1, <2>4, <2>6, <2>7 DEF Course, R, s
<1>. QED
  BY <1>6, <1>7

\* os.Remove takes an empty directory away.
LEMMA CourseCleansUp ==
  ASSUME NEW q, NEW n, AtWork(q, n), NEW d, DiskOK(d), NEW t, NEW w,
         NEW V, Course(V, q, d, "cleanup", n, t, w), Children(d, q.dest) = {}
  PROVE  V \subseteq Values(Restricted(d, DOMAIN d \ {q.dest}))
<1>. DEFINE R == Roots(q, n - 1)
            p == q.dest
            f == Restricted(d, DOMAIN d \ {p})
<1>1. V \subseteq Held(d, R, {}) /\ IsDir(d, p) /\ IsASequence(p)
  BY DEF Course, AtWork
<1>2. p \in DOMAIN d => d[p].data = {}
  BY <1>1 DEF IsDir, DiskOK, NodeOK
<1>3. DiskOK(f)
  BY <1>1, RemoveOK
<1>. HIDE DEF R, p
<1>4. V \subseteq Held(f, R, {})
  BY <1>1, <1>2, HeldRemove
<1>. HIDE DEF f
<1>5. V \subseteq Values(f)
  BY <1>3, <1>4, HeldInValues
<1>. QED
  BY <1>5 DEF f, p

\* The check has gone well.
LEMMA CourseChecked ==
  ASSUME NEW q, NEW n, NEW d, NEW t, NEW w, NEW V, Course(V, q, d, "check", n, t, w)
  PROVE  Course(V, q, d, "path", n, t, w)
<1>1. "path" \in Phases(q.kind) /\ "path" \notin Answers /\ "check" \notin Answers
  BY DEF Phases, Answers
<1>2. V \subseteq Held(d, Roots(q, n - 1), {}) /\ ~HoldsItself(d, q)
  BY DEF Course
<1>. QED
  BY <1>1, <1>2 DEF Course

-----------------------------------------------------------------------------
(* The course and the steps of a request.                                   *)

LEMMA CourseNextPath ==
  ASSUME FsInv, NEW r \in Slot, NextPath(r), AtWork(req[r], at[r]),
         req[r].kind \in {"trash", "move", "copy"}, NEW d, DiskOK(d),
         NEW V, V \subseteq Held(d, Roots(req[r], at[r]), {}), NEW t, NEW w
  PROVE  Course(V, req[r], d, pc'[r], at'[r], t, w)
<1>. DEFINE q == req[r]
            n == at[r]
<1>1. DOMAIN pc = Slot /\ at \in [Slot -> Nat]
  BY DEF FsInv, Asked
<1>2. (pc'[r] = "path" /\ at'[r] = n + 1) \/ (pc'[r] = "ok" /\ at'[r] = n)
  BY <1>1 DEF NextPath, Goto
<1>. HIDE DEF q, n
<1>3. Course(V, q, d, "path", n + 1, t, w) /\ Course(V, q, d, "ok", n, t, w)
  BY CourseOnward DEF q, n
<1>. QED
  BY <1>2, <1>3 DEF q, n

LEMMA CourseAtStep ==
  ASSUME FsInv, NEW r \in Slot
  PROVE  /\ DiskOK(disk) /\ IsASequence(to[r]) /\ WorkOK(work[r])
         /\ DOMAIN pc = Slot /\ DOMAIN at = Slot /\ DOMAIN to = Slot /\ DOMAIN work = Slot
<1>. QED
  BY DEF FsInv, Ready, Asked

LEMMA CoursePreparing ==
  ASSUME FsInv, NEW r \in Slot, AtWork(req[r], at[r]), NEW V,
         Course(V, req[r], disk, pc[r], at[r], to[r], work[r]), Prepare(r)
  PROVE  Course(V, req[r], disk', pc'[r], at'[r], to'[r], work'[r])
<1>. DEFINE q    == req[r]
            n    == at[r]
            d    == disk'
            free == IF Exists(d, Target(q, n))
                    THEN Append(q.dest, Base(Target(q, n)) \o " (copy)") ELSE Target(q, n)
            u    == <<[src |-> q.paths[n], dst |-> free, val |-> Dir]>>
<1>1. /\ DiskOK(disk) /\ DOMAIN pc = Slot /\ DOMAIN to = Slot /\ DOMAIN work = Slot
      /\ IsASequence(q.dest)
  BY CourseAtStep DEF AtWork
<1>2. /\ pc[r] = "path" /\ at' = at /\ q.kind \in {"move", "copy"}
      /\ d = disk \/ (CanMakeDirs(disk, q.dest) /\ d = MakeDirs(disk, q.dest))
      /\ \/ pc'[r] = "failed"
         \/ q.kind = "move" /\ pc'[r] = "rename" /\ to'[r] = Target(q, n) /\ work' = work
         \/ q.kind = "copy" /\ pc'[r] = "copy" /\ to'[r] = free /\ work'[r] = u
  BY <1>1 DEF Prepare, Goto, Target, Src
<1>. HIDE DEF u, free
<1>3. V \subseteq Held(disk, Roots(q, n - 1), {})
  BY <1>2 DEF Course
<1>. HIDE DEF q, n, d
<1>4. DiskOK(d) /\ V \subseteq Held(d, Roots(q, n - 1), {})
  <2>1. CASE d = disk
    BY <1>1, <1>3, <2>1
  <2>2. CASE CanMakeDirs(disk, q.dest) /\ d = MakeDirs(disk, q.dest)
    <3>1. DiskOK(MakeDirs(disk, q.dest))
      BY <1>1, <2>2, MakeDirsOK
    <3>2. V \subseteq Held(MakeDirs(disk, q.dest), Roots(q, n - 1), {})
      BY <1>1, <1>3, <2>2, HeldMakeDirs
    <3>. QED
      BY <2>2, <3>1, <3>2
  <2>. QED
    BY <1>2, <2>1, <2>2
<1>5. AtWork(q, n)
  BY DEF q, n
<1>6. at'[r] = n
  BY <1>2 DEF n
<1>7. CASE pc'[r] = "failed"
  <2>1. V \subseteq Values(d) /\ pc'[r] \in Answers
    BY <1>4, <1>7, HeldInValues DEF Answers
  <2>. QED
    BY <2>1, CourseAnswered DEF q, n, d
<1>8. CASE q.kind = "move" /\ pc'[r] = "rename" /\ to'[r] = Target(q, n) /\ work' = work
  <2>1. \A w : Course(V, q, d, "rename", n, Target(q, n), w)
    BY <1>4, <1>5, <1>8, CoursePrepared
  <2>. QED
    BY <1>6, <1>8, <2>1 DEF q, d
<1>9. CASE q.kind = "copy" /\ pc'[r] = "copy" /\ to'[r] = free /\ work'[r] = u
  <2>1. Course(V, q, d, "copy", n, free, u)
    BY <1>4, <1>5, <1>9, CoursePrepared DEF free, u
  <2>. QED
    BY <1>6, <1>9, <2>1 DEF q, d
<1>. QED
  BY <1>2, <1>7, <1>8, <1>9

LEMMA CourseRenaming ==
  ASSUME FsInv, NEW r \in Slot, AtWork(req[r], at[r]), NEW V,
         Course(V, req[r], disk, pc[r], at[r], to[r], work[r]), TryRename(r)
  PROVE  Course(V, req[r], disk', pc'[r], at'[r], to'[r], work'[r])
<1>. DEFINE q == req[r]
            n == at[r]
            t == to[r]
            s == q.paths[n]
            u == <<[src |-> s, dst |-> t, val |-> Dir]>>
<1>1. /\ DiskOK(disk) /\ IsASequence(t) /\ DOMAIN pc = Slot /\ DOMAIN work = Slot
      /\ DiskOK(disk)' /\ Ready'
  BY CourseAtStep, StepKeeps DEF FsInv, Ready, Step
<1>2. /\ pc[r] = "rename" /\ to' = to
      /\ \/ CanRename(disk, s, t) /\ disk' = Renamed(disk, s, t) /\ NextPath(r)
         \/ disk' = disk /\ at' = at /\ pc'[r] = "copy" /\ work'[r] = u
  BY <1>1 DEF TryRename, Goto, Src
<1>. HIDE DEF u
<1>3. Course(V, q, disk, "rename", n, t, work[r]) /\ AtWork(q, n)
  BY <1>2
<1>4. q.kind \in {"trash", "move", "copy"}
  BY <1>3 DEF Course, Phases, Answers, AtWork, Guarded
<1>5. CASE CanRename(disk, s, t) /\ disk' = Renamed(disk, s, t) /\ NextPath(r)
  <2>1. V \subseteq Held(disk', Roots(q, n), {})
    BY <1>1, <1>3, <1>5, CourseRenamed
  <2>2. DiskOK(disk')
    BY <1>1
  <2>. QED
    BY <1>3, <1>4, <1>5, <2>1, <2>2, CourseNextPath
<1>6. CASE disk' = disk /\ at' = at /\ pc'[r] = "copy" /\ work'[r] = u
  <2>1. Course(V, q, disk, "copy", n, t, u)
    BY <1>1, <1>3, CourseNotRenamed DEF u
  <2>2. at'[r] = n /\ to'[r] = t
    BY <1>2, <1>6
  <2>. HIDE DEF q, n, t
  <2>3. Course(V, q, disk', pc'[r], at'[r], to'[r], work'[r])
    BY <1>6, <2>1, <2>2
  <2>. QED
    BY <2>3 DEF q
<1>. QED
  BY <1>2, <1>5, <1>6

LEMMA CourseCopying ==
  ASSUME FsInv, NEW r \in Slot, AtWork(req[r], at[r]), NEW V,
         Course(V, req[r], disk, pc[r], at[r], to[r], work[r]), CopyEntry(r)
  PROVE  Course(V, req[r], disk', pc'[r], at'[r], to'[r], work'[r])
<1>. DEFINE q == req[r]
            n == at[r]
            t == to[r]
            w == work[r]
            x == Head(w)
            v == Listed(disk', x, w)
<1>1. /\ DiskOK(disk) /\ IsASequence(t) /\ WorkOK(w) /\ DOMAIN pc = Slot /\ DOMAIN work = Slot
  BY CourseAtStep
<1>2. /\ pc[r] = "copy" /\ w # <<>> /\ at' = at /\ to' = to
      /\ \/ /\ IsDir(disk, x.src) /\ CanMakeDirs(disk, x.dst) /\ disk' = MakeDirs(disk, x.dst)
            /\ work'[r] = v /\ pc' = pc
         \/ /\ IsFile(disk, x.src) /\ CanCreate(disk, x.dst)
            /\ disk' = With(disk, x.dst, IF x.src = x.dst THEN Emptied ELSE disk[x.src])
            /\ work'[r] = Tail(w) /\ pc' = pc
         \/ disk' = disk /\ pc'[r] = "failed"
         \/ CanCreate(disk, x.dst) /\ disk' = With(disk, x.dst, Emptied) /\ pc'[r] = "failed"
  BY <1>1 DEF CopyEntry, CopyFails, Goto, Listed
<1>3. Course(V, q, disk, "copy", n, t, w) /\ AtWork(q, n) /\ at'[r] = n /\ to'[r] = t
  BY <1>2
<1>. HIDE DEF q, n, t, v, w, x
<1>4. CASE /\ IsDir(disk, x.src) /\ CanMakeDirs(disk, x.dst) /\ disk' = MakeDirs(disk, x.dst)
           /\ work'[r] = v /\ pc' = pc
  <2>1. Course(V, q, disk', "copy", n, t, v)
    BY <1>1, <1>2, <1>3, <1>4, CourseCopiesDir DEF x, v
  <2>. QED
    BY <1>2, <1>3, <1>4, <2>1 DEF q
<1>5. CASE /\ IsFile(disk, x.src) /\ CanCreate(disk, x.dst)
           /\ disk' = With(disk, x.dst, IF x.src = x.dst THEN Emptied ELSE disk[x.src])
           /\ work'[r] = Tail(w) /\ pc' = pc
  <2>1. Course(V, q, disk', "copy", n, t, Tail(w))
    BY <1>1, <1>2, <1>3, <1>5, CourseCopiesFile DEF x
  <2>. QED
    BY <1>2, <1>3, <1>5, <2>1 DEF q
<1>6. CASE disk' = disk /\ pc'[r] = "failed"
  <2>1. V \subseteq Values(disk)
    BY <1>1, <1>3, CourseKeeps
  <2>2. V \subseteq Values(disk')
    BY <1>6, <2>1
  <2>. QED
    BY <1>6, <2>2, CourseAnswered DEF Answers
<1>7. CASE CanCreate(disk, x.dst) /\ disk' = With(disk, x.dst, Emptied) /\ pc'[r] = "failed"
  <2>1. V \subseteq Values(With(disk, x.dst, Emptied))
    BY <1>1, <1>2, <1>3, <1>7, CourseCopyBreaks DEF x
  <2>2. V \subseteq Values(disk')
    BY <1>7, <2>1
  <2>. QED
    BY <1>7, <2>2, CourseAnswered DEF Answers
<1>. QED
  BY <1>2, <1>4, <1>5, <1>6, <1>7

LEMMA CourseCopyingDone ==
  ASSUME FsInv, NEW r \in Slot, AtWork(req[r], at[r]), NEW V,
         Course(V, req[r], disk, pc[r], at[r], to[r], work[r]), Copied(r)
  PROVE  Course(V, req[r], disk', pc'[r], at'[r], to'[r], work'[r])
<1>. DEFINE q == req[r]
            n == at[r]
            t == to[r]
            w == work[r]
<1>1. DiskOK(disk) /\ IsASequence(t) /\ DOMAIN pc = Slot
  BY CourseAtStep
<1>2. /\ pc[r] = "copy" /\ w = <<>> /\ disk' = disk /\ to' = to /\ work' = work
      /\ q.kind = "copy" => NextPath(r)
      /\ q.kind # "copy" => pc'[r] = "remove" /\ at' = at
  BY <1>1 DEF Copied, Goto
<1>3. Course(V, q, disk, "copy", n, t, w) /\ AtWork(q, n)
  BY <1>2
<1>4. /\ q.kind \in {"trash", "move", "copy"}
      /\ q.kind = "copy" => V \subseteq Held(disk, Roots(q, n), {})
      /\ q.kind \in Sends => Course(V, q, disk, "remove", n, t, w)
  <2>. HIDE DEF q, n, t, w
  <2>. QED
    BY <1>1, <1>2, <1>3, CourseCopied
<1>5. CASE q.kind = "copy"
  BY <1>1, <1>2, <1>3, <1>4, <1>5, CourseNextPath
<1>6. CASE q.kind \in Sends
  <2>1. pc'[r] = "remove" /\ at'[r] = n /\ to'[r] = t /\ work'[r] = w
    BY <1>2, <1>6 DEF Sends
  <2>. QED
    BY <1>2, <1>4, <1>6, <2>1
<1>. QED
  BY <1>4, <1>5, <1>6 DEF Sends

LEMMA CourseRemoving ==
  ASSUME FsInv, NEW r \in Slot, AtWork(req[r], at[r]), NEW V,
         Course(V, req[r], disk, pc[r], at[r], to[r], work[r]),
         RemoveEntry(r) \/ Removed(r) \/ (RemoveFails(r) /\ req[r].kind # "trash")
  PROVE  Course(V, req[r], disk', pc'[r], at'[r], to'[r], work'[r])
<1>. DEFINE q == req[r]
            n == at[r]
            t == to[r]
            w == work[r]
<1>1. DiskOK(disk) /\ DOMAIN pc = Slot
  BY CourseAtStep
<1>2. pc[r] # "undo"
  BY DEF Course, Phases, Answers
<1>3. CASE RemoveEntry(r)
  <2>1. PICK p \in Below(disk, q.paths[n]) : disk' = Restricted(disk, DOMAIN disk \ {p})
    BY <1>2, <1>3 DEF RemoveEntry, Src
  <2>2. IsPrefix(q.paths[n], p) /\ Course(V, q, disk, "remove", n, t, w)
    BY <1>2, <1>3, <2>1 DEF Below, RemoveEntry
  <2>3. pc'[r] = "remove" /\ at'[r] = n /\ to'[r] = t /\ work'[r] = w
    BY <1>2, <1>3 DEF RemoveEntry
  <2>. HIDE DEF q, n, t, w
  <2>4. Course(V, q, disk', "remove", n, t, w)
    BY <2>1, <2>2, CourseRemoves
  <2>5. Course(V, q, disk', pc'[r], at'[r], to'[r], work'[r])
    BY <2>3, <2>4
  <2>. QED
    BY <2>5 DEF q
<1>4. CASE Removed(r)
  <2>1. NextPath(r) /\ disk' = disk /\ Course(V, q, disk, "remove", n, t, w) /\ AtWork(q, n)
    BY <1>4 DEF Removed
  <2>2. V \subseteq Held(disk, Roots(q, n), {}) /\ q.kind \in {"trash", "move", "copy"}
    BY <2>1, CourseRemoved
  <2>. QED
    BY <1>1, <2>1, <2>2, CourseNextPath
<1>5. CASE RemoveFails(r) /\ req[r].kind # "trash"
  <2>1. pc'[r] = "failed" /\ disk' = disk
    BY <1>1, <1>5 DEF RemoveFails, Goto
  <2>2. V \subseteq Values(disk)
    BY <1>1, CourseKeeps
  <2>3. V \subseteq Values(disk')
    BY <2>1, <2>2
  <2>. QED
    BY <2>1, <2>3, CourseAnswered DEF Answers
<1>. QED
  BY <1>3, <1>4, <1>5

\* The name chosen in the trash is free.
LEMMA TrashNamesFree ==
  ASSUME NEW d, NEW b, NEW m \in TrashNames(d, b)
  PROVE  Append(TrashFiles, m) \notin DOMAIN d
<1>. QED
  BY DEF TrashNames, Exists

LEMMA CourseTrashing ==
  ASSUME FsInv, NEW r \in Slot, AtWork(req[r], at[r]), NEW V,
         Course(V, req[r], disk, pc[r], at[r], to[r], work[r]),
         ChooseTrashName(r) \/ WriteTrashInfo(r)
  PROVE  Course(V, req[r], disk', pc'[r], at'[r], to'[r], work'[r])
<1>. DEFINE q == req[r]
            n == at[r]
            w == work[r]
            T == TrashFiles
<1>1. DiskOK(disk) /\ DOMAIN pc = Slot /\ DOMAIN to = Slot /\ IsASequence(T)
  BY CourseAtStep, FsAssumption DEF IsASequence
<1>2. CASE ChooseTrashName(r)
  <2>1. pc[r] = "path" /\ q.kind = "trash" /\ at'[r] = n /\ work'[r] = w
    BY <1>2 DEF ChooseTrashName
  <2>2. V \subseteq Held(disk, Roots(q, n - 1), {})
    BY <2>1 DEF Course
  <2>3. CASE CanMakeDirs(disk, T)
    <3>1. disk' = MakeDirs(disk, T) /\ pc'[r] = "info"
      BY <1>1, <1>2, <2>3 DEF ChooseTrashName, Goto
    <3>2. PICK m \in TrashNames(disk', Base(Src(r))) : to'[r] = Append(T, m)
      BY <1>1, <1>2, <2>3 DEF ChooseTrashName
    <3>. HIDE DEF q, n, w
    <3>3. DiskOK(disk') /\ V \subseteq Held(disk', Roots(q, n - 1), {})
      BY <1>1, <2>2, <2>3, <3>1, MakeDirsOK, HeldMakeDirs
    <3>4. Append(T, m) \notin DOMAIN disk' /\ IsASequence(Append(T, m)) /\ Append(T, m) # <<>>
      BY <1>1, <3>2, TrashNamesFree, AppendSequence
    <3>. DEFINE a == Append(T, m)
    <3>5. Course(V, q, disk', "info", n, a, w)
      <4>. HIDE DEF a
      <4>. QED
        BY <2>1, <3>3, <3>4, CourseNamed DEF a
    <3>6. Course(V, q, disk', pc'[r], at'[r], to'[r], work'[r])
      BY <2>1, <3>1, <3>2, <3>5
    <3>. QED
      BY <3>6 DEF q
  <2>4. CASE ~CanMakeDirs(disk, T)
    <3>1. disk' = disk /\ pc'[r] = "failed"
      BY <1>1, <1>2, <2>4 DEF ChooseTrashName, Goto
    <3>2. V \subseteq Values(disk)
      BY <1>1, CourseKeeps
    <3>3. V \subseteq Values(disk')
      BY <3>1, <3>2
    <3>. QED
      BY <3>1, <3>3, CourseAnswered DEF Answers
  <2>. QED
    BY <2>3, <2>4
<1>3. CASE WriteTrashInfo(r)
  <2>1. /\ pc[r] = "info" /\ pc'[r] \in {"rename", "failed"} /\ disk' = disk
        /\ at'[r] = n /\ to'[r] = to[r] /\ work'[r] = w
    BY <1>1, <1>3 DEF WriteTrashInfo, Goto
  <2>2. Course(V, q, disk, "info", n, to[r], w) /\ AtWork(q, n)
    BY <2>1
  <2>. HIDE DEF q, n, w
  <2>3. Course(V, q, disk, "rename", n, to[r], w)
    BY <2>2, CourseInfoWritten
  <2>4. V \subseteq Values(disk)
    BY <1>1, CourseKeeps
  <2>5. Course(V, q, disk, "failed", n, to[r], w)
    BY <2>4, CourseAnswered DEF Answers
  <2>. QED
    BY <2>1, <2>3, <2>5 DEF q
<1>. QED
  BY <1>2, <1>3

LEMMA CourseArchiving ==
  ASSUME FsInv, NEW r \in Slot, AtWork(req[r], at[r]), NEW V,
         Course(V, req[r], disk, pc[r], at[r], to[r], work[r]),
         Compress(r) \/ AddEntry(r) \/ ArchiveDone(r)
  PROVE  Course(V, req[r], disk', pc'[r], at'[r], to'[r], work'[r])
<1>. DEFINE q == req[r]
            n == at[r]
<1>1. DiskOK(disk) /\ DOMAIN pc = Slot
  BY CourseAtStep
<1>2. at'[r] = n /\ AtWork(q, n)
  BY DEF Compress, AddEntry, ArchiveDone
<1>3. V \subseteq Values(disk)
  BY <1>1, CourseKeeps
<1>4. \/ pc'[r] \in {"failed", "ok"} /\ disk' = disk
      \/ /\ pc'[r] \in {"add", "failed", "ok"} /\ pc[r] \in {"path", "add"}
         /\ pc[r] = "path" => q.kind = "compress"
         /\ disk' = disk \/ \E node : disk' = With(disk, q.dest, node)
  BY <1>1 DEF Compress, AddEntry, ArchiveDone, Closed, Goto
<1>5. CASE pc'[r] \in {"failed", "ok"} /\ disk' = disk
  <2>1. V \subseteq Values(disk')
    BY <1>3, <1>5
  <2>. QED
    BY <1>5, <2>1, CourseAnswered DEF Answers
<1>6. CASE /\ pc'[r] \in {"add", "failed", "ok"} /\ pc[r] \in {"path", "add"}
           /\ pc[r] = "path" => q.kind = "compress"
           /\ disk' = disk \/ \E node : disk' = With(disk, q.dest, node)
  <2>1. V \subseteq Held(disk, Roots(q, n - 1), {}) /\ q.kind = "compress"
    BY <1>2, <1>6 DEF Course, Phases, Answers, AtWork, Guarded
  <2>2. PICK node : disk' = disk \/ disk' = With(disk, q.dest, node)
    BY <1>6
  <2>. HIDE DEF q, n
  <2>3. \A t, w : Course(V, q, disk', "add", n, t, w)
    BY <1>2, <2>1, <2>2, CourseArchives
  <2>4. DiskOK(disk')
    BY StepKeeps DEF Step, FsInv, Ready
  <2>5. V \subseteq Values(disk')
    BY <2>3, <2>4, CourseKeeps
  <2>6. CASE pc'[r] \in {"failed", "ok"}
    BY <2>5, <2>6, CourseAnswered DEF Answers, q
  <2>. QED
    BY <1>2, <1>6, <2>3, <2>6 DEF q
<1>. QED
  BY <1>4, <1>5, <1>6

LEMMA CourseUnpacking ==
  ASSUME FsInv, NEW r \in Slot, AtWork(req[r], at[r]), NEW V,
         Course(V, req[r], disk, pc[r], at[r], to[r], work[r]), Decompress(r)
  PROVE  Course(V, req[r], disk', pc'[r], at'[r], to'[r], work'[r])
<1>. DEFINE q == req[r]
            n == at[r]
            t == to[r]
            s == q.paths[n]
            D == {x \in disk[s].data : ~Outside(x[1])}
            I == {[src |-> s, dst |-> q.dest \o e[1], val |-> File(e[2])] : e \in D}
            u == SetToSeq(I)
<1>1. DiskOK(disk) /\ DOMAIN pc = Slot /\ DOMAIN work = Slot
  BY CourseAtStep
<1>2. /\ pc[r] = "path" /\ q.kind = "decompress" /\ at' = at /\ to' = to
      /\ \/ pc'[r] = "failed" /\ disk' = disk
         \/ /\ CanMakeDirs(disk, q.dest) /\ disk' = MakeDirs(disk, q.dest)
            /\ \/ pc'[r] = "cleanup"
               \/ IsFile(disk, s) /\ pc'[r] = "extract" /\ work'[r] = u
  BY <1>1 DEF Decompress, Goto, Src
<1>3. Course(V, q, disk, "path", n, t, work[r]) /\ AtWork(q, n) /\ at'[r] = n /\ to'[r] = t
  BY <1>2
<1>4. ASSUME IsFile(disk, s)
      PROVE  \A x \in ToSet(u) : \E e \in disk[s].data : ~Outside(e[1]) /\ x.dst = q.dest \o e[1]
  <2>. DEFINE f == [e \in D |-> [src |-> s, dst |-> q.dest \o e[1], val |-> File(e[2])]]
  <2>1. IsFiniteSet(D)
    <3>1. IsFiniteSet(disk[s].data) /\ D \subseteq disk[s].data
      BY <1>1, <1>4 DEF IsFile, DiskOK, NodeOK
    <3>. HIDE DEF D
    <3>. QED
      BY <3>1, FS_Subset
  <2>2. I = {f[e] : e \in D} /\ DOMAIN f = D
    OBVIOUS
  <2>3. IsFiniteSet(I)
    <3>. HIDE DEF f, D, I
    <3>. QED
      BY <2>1, <2>2, FiniteImage
  <2>4. ToSet(u) = I
    <3>. HIDE DEF I
    <3>. QED
      BY <2>3, ToSetOfSet
  <2>. HIDE DEF u
  <2>5. \A e \in D : e \in disk[s].data /\ ~Outside(e[1]) /\ f[e].dst = q.dest \o e[1]
    OBVIOUS
  <2>. HIDE DEF f, D, I
  <2>6. \A x \in I : \E e \in D : x = f[e]
    BY <2>2
  <2>. HIDE DEF q, n, s
  <2>7. ASSUME NEW x \in ToSet(u)
        PROVE  \E e \in disk[s].data : ~Outside(e[1]) /\ x.dst = q.dest \o e[1]
    <3>1. PICK e \in D : x = f[e]
      BY <2>4, <2>6
    <3>2. e \in disk[s].data /\ ~Outside(e[1]) /\ x.dst = q.dest \o e[1]
      BY <2>5, <3>1
    <3>. QED
      BY <3>2
  <2>. QED
    BY <2>7
<1>. HIDE DEF u, D, I
<1>5. CASE pc'[r] = "failed" /\ disk' = disk
  <2>1. V \subseteq Values(disk)
    BY <1>1, CourseKeeps
  <2>2. V \subseteq Values(disk')
    BY <1>5, <2>1
  <2>. QED
    BY <1>5, <2>2, CourseAnswered DEF Answers
<1>6. CASE CanMakeDirs(disk, q.dest) /\ disk' = MakeDirs(disk, q.dest)
  <2>. HIDE DEF q, n, t, s
  <2>1. \A v : /\ Course(V, q, disk', "cleanup", n, t, v)
               /\ /\ IsFile(disk, q.paths[n])
                  /\ \A x \in ToSet(v) : \E e \in disk[q.paths[n]].data :
                       ~Outside(e[1]) /\ x.dst = q.dest \o e[1]
                  => Course(V, q, disk', "extract", n, t, v)
    BY <1>1, <1>2, <1>3, <1>6, CourseUnpacks
  <2>2. CASE pc'[r] = "cleanup"
    BY <1>3, <2>1, <2>2 DEF q
  <2>3. CASE IsFile(disk, s) /\ pc'[r] = "extract" /\ work'[r] = u
    <3>1. Course(V, q, disk', "extract", n, t, u)
      BY <1>4, <2>1, <2>3 DEF s
    <3>. QED
      BY <1>3, <2>3, <3>1 DEF q
  <2>4. CASE pc'[r] = "failed" /\ disk' = disk
    BY <1>5, <2>4
  <2>. QED
    BY <1>2, <2>2, <2>3, <2>4
<1>. QED
  BY <1>2, <1>5, <1>6

LEMMA CourseExtracting ==
  ASSUME FsInv, NEW r \in Slot, AtWork(req[r], at[r]), NEW V,
         Course(V, req[r], disk, pc[r], at[r], to[r], work[r]), ExtractEntry(r) \/ Cleanup(r)
  PROVE  Course(V, req[r], disk', pc'[r], at'[r], to'[r], work'[r])
<1>. DEFINE q == req[r]
            n == at[r]
            t == to[r]
            w == work[r]
            x == Head(w)
            d == IF CanMakeDirs(disk, Front(x.dst)) THEN MakeDirs(disk, Front(x.dst)) ELSE disk
<1>1. DiskOK(disk) /\ WorkOK(w) /\ DOMAIN pc = Slot /\ DOMAIN work = Slot
  BY CourseAtStep
<1>2. at'[r] = n /\ to'[r] = t /\ AtWork(q, n)
  BY DEF ExtractEntry, Cleanup
<1>3. CASE ExtractEntry(r)
  <2>1. /\ pc[r] = "extract" /\ w # <<>>
        /\ \/ /\ CanCreate(d, x.dst) /\ disk' = With(d, x.dst, x.val)
              /\ work'[r] = Tail(w) /\ pc'[r] = "extract"
           \/ disk' = d /\ pc'[r] = "cleanup" /\ work'[r] = w
           \/ /\ CanCreate(d, x.dst) /\ disk' = With(d, x.dst, Emptied)
              /\ work'[r] = w /\ pc'[r] = "cleanup"
    BY <1>1, <1>3 DEF ExtractEntry, Goto
  <2>2. Course(V, q, disk, "extract", n, t, w)
    BY <2>1
  <2>. HIDE DEF q, n, t, w, x
  <2>3. /\ Course(V, q, d, "cleanup", n, t, w)
        /\ CanCreate(d, x.dst) => \A node :
             /\ Course(V, q, With(d, x.dst, node), "extract", n, t, Tail(w))
             /\ Course(V, q, With(d, x.dst, node), "cleanup", n, t, w)
    <3>1. d = (IF CanMakeDirs(disk, Front(x.dst)) THEN MakeDirs(disk, Front(x.dst)) ELSE disk)
      OBVIOUS
    <3>2. x = Head(w)
      BY DEF x
    <3>. HIDE DEF d
    <3>. QED
      BY <1>1, <1>2, <2>1, <2>2, <3>1, <3>2, CourseExtracts
  <2>. HIDE DEF d
  <2>. QED
    BY <1>2, <2>1, <2>3 DEF q
<1>4. CASE Cleanup(r)
  <2>1. /\ pc[r] = "cleanup" /\ pc'[r] = "failed"
        /\ \/ disk' = disk
           \/ Children(disk, q.dest) = {} /\ disk' = Restricted(disk, DOMAIN disk \ {q.dest})
    BY <1>1, <1>4 DEF Cleanup, Goto
  <2>2. V \subseteq Values(disk)
    BY <1>1, CourseKeeps
  <2>3. Course(V, q, disk, "cleanup", n, t, w)
    BY <2>1
  <2>. HIDE DEF q, n, t, w
  <2>4. CASE Children(disk, q.dest) = {} /\ disk' = Restricted(disk, DOMAIN disk \ {q.dest})
    <3>1. V \subseteq Values(Restricted(disk, DOMAIN disk \ {q.dest}))
      BY <1>1, <1>2, <2>3, <2>4, CourseCleansUp
    <3>2. V \subseteq Values(disk')
      BY <2>4, <3>1
    <3>. QED
      BY <2>1, <3>2, CourseAnswered DEF Answers
  <2>5. CASE disk' = disk
    <3>1. V \subseteq Values(disk')
      BY <2>2, <2>5
    <3>. QED
      BY <2>1, <3>1, CourseAnswered DEF Answers
  <2>. QED
    BY <2>1, <2>4, <2>5
<1>. QED
  BY <1>3, <1>4

LEMMA CourseLooking ==
  ASSUME FsInv, NEW r \in Slot, AtWork(req[r], at[r]), NEW V,
         Course(V, req[r], disk, pc[r], at[r], to[r], work[r]), Check(r)
  PROVE  Course(V, req[r], disk', pc'[r], at'[r], to'[r], work'[r])
<1>. DEFINE q == req[r]
<1>1. /\ disk' = disk /\ at'[r] = at[r] /\ to'[r] = to[r] /\ work'[r] = work[r]
      /\ pc[r] = "check" /\ pc'[r] = Verdict(q)
  <2>1. DOMAIN pc = Slot
    BY CourseAtStep
  <2>. QED
    BY <2>1 DEF Check, Goto
<1>2. q.kind \in Guarded
  BY DEF AtWork
<1>3. pc[r] = "check" /\ pc'[r] = Verdict(q) => pc'[r] \in {"failed", "requires_elevation", "path"}
  BY <1>2 DEF Verdict, Checked, Guarded
<1>4. V \subseteq Values(disk)
  BY CourseAtStep, CourseKeeps
<1>5. V \subseteq Values(disk')
  BY <1>1, <1>4
<1>6. CASE pc'[r] \in {"failed", "requires_elevation"}
  BY <1>5, <1>6, CourseAnswered DEF Answers
<1>7. CASE pc[r] = "check" /\ pc'[r] = "path"
  <2>1. Course(V, q, disk, "check", at[r], to[r], work[r])
    BY <1>7
  <2>2. Course(V, q, disk, "path", at[r], to[r], work[r])
    BY <2>1, CourseChecked
  <2>. QED
    BY <1>1, <1>7, <2>2
<1>. QED
  BY <1>1, <1>3, <1>6, <1>7

\* A step takes the request along its course, unless it gives up what it keeps:
\* a removal fails and the copy in the trash is removed.
LEMMA CourseStep ==
  ASSUME FsInv, NEW r \in Slot, AtWork(req[r], at[r]), NEW V,
         Course(V, req[r], disk, pc[r], at[r], to[r], work[r]), Step(r),
         req[r].kind = "trash" => r \notin undone'
  PROVE  Course(V, req[r], disk', pc'[r], at'[r], to'[r], work'[r])
<1>1. /\ req[r].kind \in {"trash", "move", "copy", "compress", "decompress"} /\ pc[r] # "undo"
  BY DEF AtWork, Guarded, Course, Phases, Answers
<1>2. ~Create(r) /\ ~Rename(r) /\ ~Delete(r) /\ ~Undone(r)
  BY <1>1 DEF Create, Rename, Delete, Undone, Pathless
<1>3. RemoveFails(r) => req[r].kind # "trash"
  BY DEF RemoveFails
<1>. QED
  BY <1>2, <1>3, CoursePreparing, CourseRenaming, CourseCopying, CourseCopyingDone, CourseRemoving,
     CourseTrashing, CourseArchiving, CourseUnpacking, CourseExtracting, CourseLooking
     DEF Step

\* A request that keeps something is at one of its paths.
LEMMA KeepsAtWork ==
  ASSUME FsInv, NEW r \in Slot, req[r].kind \in Guarded, Keeps(r) # {}, Active(r)
  PROVE  AtWork(req[r], at[r])
<1>. DEFINE q == req[r]
            k == Len(q.paths)
<1>1. q \in Request \cup {NoRequest} /\ q.kind # "none"
  BY DEF FsInv, Asked, Guarded
<1>2. q \in Request
  <2>1. NoRequest.kind = "none"
    BY DEF NoRequest
  <2>. QED
    BY <1>1, <2>1
<1>3. /\ IsASequence(q.dest) /\ IsASequence(q.paths)
      /\ \A i \in 1 .. k : IsASequence(q.paths[i])
  BY <1>1, RequestShape
<1>4. k \in Nat /\ DOMAIN q.paths = 1 .. k
  BY <1>3, SequenceType
<1>5. q.paths # <<>> /\ (q.kind = "decompress" => k = 1)
  BY <1>2, FsAssumption DEF Guarded, Pathless
<1>6. at[r] \in 1 .. k
  BY <1>4, <1>5 DEF FsInv, Asked, AtAPath
<1>7. /\ q.kind \in {"move", "copy", "compress"} => ~Overlaps(q)
      /\ q.kind = "move" => ~SameBase(q)
  BY DEF Keeps
<1>. QED
  BY <1>3, <1>4, <1>5, <1>6, <1>7 DEF AtWork

LEMMA KeepsStays ==
  ASSUME NEW r \in Slot, Step(r), Keeps(r)' # {}
  PROVE  /\ req' = req /\ Keeps(r)' = Keeps(r)
         /\ req[r].kind = "trash" => r \notin undone'
<1>1. req' = req /\ before' = before /\ given' = given /\ undone \subseteq undone'
  BY DEF Step, Check, Create, Rename, Prepare, TryRename, CopyEntry, Copied, Delete, RemoveEntry,
     Removed, RemoveFails, Undone, ChooseTrashName, WriteTrashInfo, Compress, AddEntry, Decompress,
     ExtractEntry, Cleanup, ArchiveDone, history
<1>2. req[r].kind = "trash" => r \notin undone' /\ r \notin undone
  BY <1>1 DEF Keeps
<1>. QED
  BY <1>1, <1>2 DEF Keeps

LEMMA KeepsStep ==
  ASSUME FsInv, AloneInv, KeepsInv, NEW r \in Slot, Step(r)
  PROVE  KeepsInv'
<1>. SUFFICES ASSUME NEW s \in Slot, alone'[s], req'[s].kind \in Guarded, Keeps(s)' # {}
              PROVE  Course(Keeps(s), req[s], disk, pc[s], at[s], to[s], work[s])'
  BY DEF KeepsInv
<1>1. Active(r) /\ alone' = alone
  BY StepKeeps DEF Proceeds
<1>2. s = r
  BY <1>1 DEF AloneInv
<1>3. /\ req' = req /\ Keeps(r)' = Keeps(r) /\ (req[r].kind = "trash" => r \notin undone')
  BY <1>2, KeepsStays
<1>4. PICK V : V = Keeps(r)
  OBVIOUS
<1>5. Course(V, req[r], disk, pc[r], at[r], to[r], work[r]) /\ AtWork(req[r], at[r])
  BY <1>1, <1>2, <1>3, <1>4, KeepsAtWork DEF KeepsInv
<1>6. Course(V, req[r], disk', pc'[r], at'[r], to'[r], work'[r])
  BY <1>3, <1>5, CourseStep
<1>. QED
  BY <1>2, <1>3, <1>4, <1>6

\* What a request is given is below its paths.
LEMMA GivenIsHeld ==
  ASSUME NEW d, NEW q
  PROVE  UNION {ValuesBelow(d, q.paths[i]) : i \in DOMAIN q.paths} \subseteq Held(d, PathsOf(q), {})
<1>. SUFFICES ASSUME NEW i \in DOMAIN q.paths, NEW v \in ValuesBelow(d, q.paths[i])
              PROVE  v \in Held(d, PathsOf(q), {})
  OBVIOUS
<1>1. PICK y \in DOMAIN d : IsPrefix(q.paths[i], y) /\ \E e \in d[y].data : v = e[2]
  BY DEF ValuesBelow, Below
<1>2. q.paths[i] \in PathsOf(q)
  BY DEF PathsOf
<1>. QED
  BY <1>1, <1>2, HeldIs

LEMMA CourseStarts ==
  ASSUME NEW q, AtWork(q, 1), NEW d, DiskOK(d), NEW V, ~HoldsItself(d, q),
         \/ q.kind = "trash" /\ V = Values(d)
         \/ q.kind # "trash" /\ V = UNION {ValuesBelow(d, q.paths[i]) : i \in DOMAIN q.paths},
         NEW t, NEW w
  PROVE  Course(V, q, d, "check", 1, t, w)
<1>1. V \subseteq Held(d, Roots(q, 0), {})
  <2>1. q.kind = "trash" => Roots(q, 0) = {<<>>}
    BY RootsOf
  <2>2. q.kind # "trash" => Roots(q, 0) = PathsOf(q)
    BY RootsOf
  <2>. QED
    BY <2>1, <2>2, GivenIsHeld, HeldInValues
<1>2. ASSUME NEW m, m - 1 = 0 PROVE Course(V, q, d, "check", m, t, w)
  <2>1. "check" \in Phases(q.kind) /\ "check" \notin Answers
    BY DEF Phases, Answers
  <2>2. V \subseteq Held(d, Roots(q, m - 1), {})
    BY <1>1, <1>2
  <2>. QED
    BY <2>1, <2>2 DEF Course
<1>3. 1 - 1 = 0
  OBVIOUS
<1>. QED
  BY <1>2, <1>3, SMT

LEMMA KeepsBegin ==
  ASSUME FsInv, KeepsInv, NEW r \in Slot, NEW q \in Request, Begin(r, q)
  PROVE  KeepsInv'
<1>. SUFFICES ASSUME NEW s \in Slot, alone'[s], req'[s].kind \in Guarded, Keeps(s)' # {}
              PROVE  Course(Keeps(s), req[s], disk, pc[s], at[s], to[s], work[s])'
  BY DEF KeepsInv
<1>1. s = r
  BY DEF Begin
<1>2. /\ req'[r] = q /\ pc'[r] = "check" /\ at'[r] = 1 /\ disk' = disk /\ r \notin undone'
      /\ before'[r] = Values(disk)
      /\ given'[r] = IF ~HoldsItself(disk, q)
                     THEN UNION {ValuesBelow(disk, q.paths[i]) : i \in DOMAIN q.paths} ELSE {}
  BY <1>1 DEF Begin, FsInv, Asked
<1>3. FsInv'
  BY BeginKeeps
<1>4. Active(r)'
  BY <1>2 DEF Active, Answers
<1>5. AtWork(q, 1)
  <2>1. AtWork(req[r], at[r])'
    <3>1. (FsInv /\ r \in Slot /\ req[r].kind \in Guarded /\ Keeps(r) # {} /\ Active(r)
             => AtWork(req[r], at[r]))'
      BY KeepsAtWork, PTL
    <3>. QED
      BY <1>1, <1>3, <1>4, <3>1
  <2>. QED
    BY <1>2, <2>1
<1>6. PICK V : V = Keeps(r)'
  OBVIOUS
<1>7. /\ q.kind \in Guarded
      /\ q.kind = "trash" => V = before'[r]
      /\ q.kind # "trash" => V = given'[r]
      /\ V # {}
  BY <1>1, <1>2, <1>6 DEF Keeps, Guarded
<1>8. ~HoldsItself(disk, q)
  BY <1>2, <1>7 DEF HoldsItself
<1>9. DiskOK(disk)
  BY DEF FsInv, Ready
<1>10. Course(V, q, disk, "check", 1, to'[r], work'[r])
  <2>1. \/ q.kind = "trash" /\ V = Values(disk)
        \/ q.kind # "trash" /\ V = UNION {ValuesBelow(disk, q.paths[i]) : i \in DOMAIN q.paths}
    BY <1>2, <1>7, <1>8
  <2>2. \A t, w : Course(V, q, disk, "check", 1, t, w)
    BY <1>5, <1>8, <1>9, <2>1, CourseStarts
  <2>. QED
    BY <2>2
<1>. QED
  BY <1>1, <1>2, <1>6, <1>10

\* A request that nothing disturbs is on its course: what it keeps is not all
\* below what it is going to write or remove.
THEOREM KeepsInvariant == Spec => []KeepsInv
<1>1. Init => KeepsInv
  BY DEF Init, KeepsInv
<1>2. FsInv /\ AloneInv /\ KeepsInv /\ [Next]_vars => KeepsInv'
  <2>. SUFFICES ASSUME FsInv, AloneInv, KeepsInv, [Next]_vars PROVE KeepsInv'
    OBVIOUS
  <2>1. CASE UNCHANGED vars
    BY <2>1 DEF KeepsInv, Keeps, vars, request, history
  <2>2. ASSUME NEW r \in Slot, Step(r) PROVE KeepsInv'
    BY <2>2, KeepsStep
  <2>3. ASSUME NEW r \in Slot, NEW q \in Request, Begin(r, q) PROVE KeepsInv'
    BY <2>3, KeepsBegin
  <2>. QED
    BY <2>1, <2>2, <2>3 DEF Next
<1>. QED
  BY <1>1, <1>2, InvariantHolds, AloneInvariant, PTL DEF Spec

\* Whatever is in the tree and wherever it fails, a request that nothing
\* disturbs loses no content: a move across devices, a copy to the trash, an
\* archive half written or half extracted, a rename.
THEOREM LosesNothing == Spec => []AloneLosesNothing
<1>1. FsInv /\ AloneInv /\ KeepsInv => AloneLosesNothing
  <2>. SUFFICES ASSUME FsInv, AloneInv, KeepsInv, NEW r \in Slot, alone[r]
                PROVE  Keeps(r) \subseteq Values(disk)
    BY DEF AloneLosesNothing
  <2>1. CASE req[r].kind \in Careful
    BY <2>1 DEF AloneInv, CarefulOK, Keeps, Careful
  <2>2. CASE req[r].kind \in Guarded /\ Keeps(r) # {}
    <3>1. Course(Keeps(r), req[r], disk, pc[r], at[r], to[r], work[r])
      BY <2>2 DEF KeepsInv
    <3>. QED
      BY <3>1, CourseAtStep, CourseKeeps
  <2>3. CASE req[r].kind \notin Careful \cup Guarded
    BY <2>3 DEF Keeps, Careful, Guarded
  <2>. QED
    BY <2>1, <2>2, <2>3
<1>. QED
  BY <1>1, InvariantHolds, AloneInvariant, KeepsInvariant, PTL

-----------------------------------------------------------------------------
(* The trash tells where its files came from.                               *)

LEMMA AddedTo ==
  ASSUME NEW a, NEW b, NEW f
  PROVE  /\ a \in DOMAIN With(f, a, b) /\ With(f, a, b)[a] = b
         /\ \A x : x # a => /\ (x \in DOMAIN With(f, a, b) <=> x \in DOMAIN f)
                            /\ x \in DOMAIN f => With(f, a, b)[x] = f[x]
<1>. QED
  BY DEF With

LEMMA TakenFrom ==
  ASSUME NEW a, NEW f
  PROVE  /\ a \notin DOMAIN Restricted(f, DOMAIN f \ {a})
         /\ \A x : x # a => /\ (x \in DOMAIN Restricted(f, DOMAIN f \ {a}) <=> x \in DOMAIN f)
                            /\ x \in DOMAIN f => Restricted(f, DOMAIN f \ {a})[x] = f[x]
<1>. QED
  BY DEF Restricted

Place(n) == Append(TrashFiles, n)

LEMMA PlaceIs ==
  ASSUME NEW n
  PROVE  /\ IsASequence(Place(n)) /\ Place(n) # <<>> /\ Base(Place(n)) = n
         /\ Front(Place(n)) = TrashFiles /\ Place(n) \in Ancestors(Place(n))
<1>. DEFINE T == TrashFiles
            p == Place(n)
            k == Len(T)
<1>1. IsASequence(T) /\ k \in Nat
  BY FsAssumption, SequenceType DEF IsASequence
<1>2. /\ IsASequence(p) /\ Len(p) = k + 1 /\ \A i \in 1 .. k : p[i] = T[i]
      /\ IsPrefix(T, p) /\ Base(p) = n
  BY <1>1, AppendSequence, PrefixAppend DEF Place
<1>. HIDE DEF p
<1>3. Len(p) # 0 /\ Len(p) - 1 = k
  <2>. HIDE DEF k
  <2>. QED
    BY <1>1, <1>2
<1>4. p # <<>>
  BY <1>3, EmptySeq
<1>5. Front(p) = T
  <2>1. Front(p) = SubSeq(p, 1, k)
    BY <1>2, <1>3, <1>4, FrontIs
  <2>. QED
    BY <1>1, <1>2, <2>1, PrefixMeans
<1>6. p \in Ancestors(p)
  <2>1. p = SubSeq(p, 1, Len(p)) /\ Len(p) \in 1 .. Len(p)
    <3>1. IsPrefix(p, p) /\ Len(p) \in Nat
      BY <1>2, PrefixSelf, SequenceType
    <3>. QED
      BY <1>2, <1>3, <3>1, PrefixMeans
  <2>. QED
    BY <2>1 DEF Ancestors
<1>. QED
  BY <1>2, <1>4, <1>5, <1>6 DEF p

LEMMA PlacesApart ==
  ASSUME NEW m, NEW n, IsPrefix(Place(m), Place(n))
  PROVE  m = n
<1>1. IsASequence(TrashFiles)
  BY FsAssumption DEF IsASequence
<1>. QED
  BY <1>1, AppendsApart DEF Place

\* What is above a name in the trash is above the trash or in it.
LEMMA AboveTrash ==
  ASSUME NEW p, IsASequence(p), NEW n, IsPrefix(p, Place(n))
  PROVE  IsPrefix(p, TrashFiles) \/ InTrash(p)
<1>1. /\ IsASequence(Place(n)) /\ Place(n) # <<>> /\ Front(Place(n)) = TrashFiles
  BY PlaceIs
<1>2. CASE p = Place(n)
  BY <1>1, <1>2 DEF InTrash
<1>3. CASE p # Place(n)
  BY <1>1, <1>3, PrefixOfFront
<1>. QED
  BY <1>2, <1>3

\* The steps of a request with a path in the trash, and that path.
Naming  == {"info", "rename", "copy", "remove", "undo"}
Uses(r) == req[r].kind = "trash" /\ pc[r] \in Naming
Name(r) == Base(to[r])

Settled(n) ==
  Exists(disk, Place(n)) /\ n \in DOMAIN info /\ n \in DOMAIN from /\ from[n] = info[n]

\* What request r has made of its name in the trash.
OriginOK(r) ==
  /\ pc[r] \in {"info", "undo"} => Name(r) \notin DOMAIN info
  /\ pc[r] \in {"rename", "copy"} => Name(r) \in DOMAIN info /\ info[Name(r)] = Src(r)
  /\ pc[r] = "copy" => Exists(disk, to[r]) \/ (work[r] # <<>> /\ Head(work[r]).dst = to[r])
  /\ pc[r] = "remove" => Settled(Name(r))

OnTrack(r) ==
  /\ Active(r) => req[r] \in Request
  /\ pc[r] \notin {"idle", "check"} \cup Answers => ~Refused(req[r])
  /\ pc[r] \in {"info", "undo"} => req[r].kind = "trash"
  /\ pc[r] \in {"rename", "copy", "remove"} => req[r].paths # <<>>
  /\ pc[r] \in {"extract", "cleanup"} => req[r].kind = "decompress"
  /\ Uses(r) => to[r] = Place(Name(r))

Tracks   == \A r \in Slot : OnTrack(r)
OneUser  == \A r, o \in Slot : Uses(r) /\ Uses(o) /\ r # o /\ Name(r) = Name(o) => Name(r) \in contested
Origins  == \A r \in Slot : Uses(r) /\ Name(r) \notin contested \cup orphaned => OriginOK(r)
Accounts(n) == Settled(n) \/ \E r \in Slot : Uses(r) /\ Name(r) = n /\ pc[r] \in {"rename", "copy"}
Told     == \A n \in DOMAIN info \ (contested \cup orphaned) : Accounts(n)
TrashInv == Tracks /\ OneUser /\ Origins /\ Told

\* A request that goes through its paths is at one of them.
LEMMA AtOwnPath ==
  ASSUME FsInv, NEW r \in Slot, Active(r), req[r].paths # <<>>
  PROVE  /\ req[r] \in Request /\ IsASequence(Src(r)) /\ Src(r) \in PathsOf(req[r])
<1>1. req[r] \in Request \cup {NoRequest} /\ NoRequest.paths = <<>>
  BY DEF FsInv, Asked, NoRequest
<1>2. req[r] \in Request
  BY <1>1
<1>3. at[r] \in DOMAIN req[r].paths
  BY DEF FsInv, Asked, AtAPath
<1>4. IsASequence(req[r].paths) /\ \A i \in 1 .. Len(req[r].paths) : IsASequence(req[r].paths[i])
  BY <1>1, RequestShape
<1>5. DOMAIN req[r].paths = 1 .. Len(req[r].paths)
  BY <1>4, SequenceType
<1>. QED
  BY <1>2, <1>3, <1>4, <1>5 DEF Src, PathsOf

LEMMA HasPaths ==
  ASSUME FsInv, NEW r \in Slot, req[r].kind \in Kinds \ Pathless
  PROVE  req[r] \in Request /\ req[r].paths # <<>>
<1>1. req[r] \in Request \cup {NoRequest} /\ NoRequest.kind = "none"
  BY DEF FsInv, Asked, NoRequest
<1>2. "none" \notin Kinds
  BY DEF Kinds
<1>3. req[r] \in Request
  BY <1>1, <1>2
<1>. QED
  BY <1>3, FsAssumption

\* A name in the trash is not at or below a path that is moved or removed.
LEMMA TrashApart ==
  ASSUME TrashLeftAlone, FsInv, NEW r \in Slot, Active(r), req[r].paths # <<>>, ~Refused(req[r]), NEW n
  PROVE  IsASequence(Src(r)) /\ ~IsPrefix(Src(r), Place(n))
<1>1. req[r] \in Request /\ IsASequence(Src(r)) /\ Src(r) \in PathsOf(req[r])
  BY AtOwnPath
<1>2. ~IsPrefix(Src(r), TrashFiles) /\ ~InTrash(Src(r))
  BY <1>1 DEF TrashLeftAlone
<1>. QED
  BY <1>1, <1>2, AboveTrash

\* A rename takes its path to where it is to go.
LEMMA RenamedPuts ==
  ASSUME NEW d, DiskOK(d), NEW p, IsASequence(p), NEW q, IsASequence(q), CanRename(d, p, q), q # <<>>
  PROVE  q \in DOMAIN Renamed(d, p, q)
<1>1. p \in DOMAIN d
  BY DEF CanRename, Exists
<1>2. CASE p = q
  BY <1>1, <1>2 DEF Renamed
<1>3. CASE p # q
  <2>1. IsPrefix(p, p) /\ Moved(p, p, q) = q
    BY PrefixSelf, MovedSelf
  <2>2. Moved(p, p, q) \in DOMAIN Renamed(d, p, q)
    BY <1>1, <1>3, <2>1, RenamedTakes
  <2>. QED
    BY <2>1, <2>2
<1>. QED
  BY <1>2, <1>3

\* A rename of something else leaves the trash alone.
LEMMA RenamedKeepsPlace ==
  ASSUME NEW d, DiskOK(d), NEW p, IsASequence(p), NEW q, IsASequence(q), CanRename(d, p, q),
         NEW n, ~IsPrefix(p, Place(n)), Place(n) \in DOMAIN d
  PROVE  Place(n) \in DOMAIN Renamed(d, p, q)
<1>1. CASE p = q
  BY <1>1 DEF Renamed
<1>2. CASE p # q
  <2>1. ~IsPrefix(q, p) /\ p \in DOMAIN d
    BY <1>2 DEF CanRename, Exists
  <2>2. q # <<>>
    BY <2>1, PrefixEmpty
  <2>3. CASE Place(n) # q
    BY <1>2, <2>2, <2>3, RenamedTakes
  <2>4. CASE Place(n) = q
    BY <2>2, <2>4, RenamedPuts
  <2>. QED
    BY <2>3, <2>4
<1>. QED
  BY <1>1, <1>2

\* What is in the trash stays there, unless its request removes it again.
LEMMA PlaceStays ==
  ASSUME TrashLeftAlone, FsInv, NEW r \in Slot, OnTrack(r), Step(r), NEW n,
         pc[r] = "undo" => n # Name(r),
         Exists(disk, Place(n))
  PROVE  Exists(disk', Place(n))
<1>1. DiskOK(disk) /\ Active(r) /\ IsASequence(to[r]) /\ IsASequence(Place(n))
  BY StepKeeps, PlaceIs DEF FsInv, Ready, Proceeds
<1>2. IsASequence(req[r].dest)
  BY RequestShape DEF FsInv, Asked
<1>. SUFFICES Place(n) \in DOMAIN disk'
  BY DEF Exists
<1>3. Place(n) \in DOMAIN disk
  BY DEF Exists
<1>4. CASE Rename(r)
  <2>1. pc[r] = "path" /\ req[r].kind = "rename"
    BY <1>4 DEF Rename
  <2>2. req[r].paths # <<>> /\ ~Refused(req[r])
    BY <2>1, HasPaths DEF Kinds, Pathless, Refused
  <2>3. IsASequence(Src(r)) /\ ~IsPrefix(Src(r), Place(n))
    BY <1>1, <2>2, TrashApart
  <2>4. disk' = disk \/ (CanRename(disk, Src(r), req[r].dest) /\ disk' = Renamed(disk, Src(r), req[r].dest))
    BY <1>4 DEF Rename
  <2>. QED
    BY <1>1, <1>2, <1>3, <2>3, <2>4, RenamedKeepsPlace
<1>5. CASE TryRename(r)
  <2>1. pc[r] = "rename"
    BY <1>5 DEF TryRename
  <2>2. req[r].paths # <<>> /\ ~Refused(req[r])
    BY <2>1 DEF OnTrack, Answers
  <2>3. IsASequence(Src(r)) /\ ~IsPrefix(Src(r), Place(n))
    BY <1>1, <2>2, TrashApart
  <2>4. disk' = disk \/ (CanRename(disk, Src(r), to[r]) /\ disk' = Renamed(disk, Src(r), to[r]))
    BY <1>5 DEF TryRename
  <2>. QED
    BY <1>1, <1>3, <2>3, <2>4, RenamedKeepsPlace
<1>6. CASE RemoveEntry(r)
  <2>. DEFINE root == IF pc[r] = "undo" THEN to[r] ELSE Src(r)
  <2>1. PICK p \in Below(disk, root) : disk' = Restricted(disk, DOMAIN disk \ {p})
    BY <1>6 DEF RemoveEntry
  <2>2. IsPrefix(root, p)
    BY <2>1 DEF Below
  <2>3. ~IsPrefix(root, Place(n))
    <3>1. CASE pc[r] = "undo"
      <4>1. to[r] = Place(Name(r)) /\ n # Name(r)
        BY <3>1 DEF OnTrack, Uses, Naming
      <4>. QED
        BY <3>1, <4>1, PlacesApart
    <3>2. CASE pc[r] = "remove"
      <4>1. req[r].paths # <<>> /\ ~Refused(req[r])
        BY <3>2 DEF OnTrack, Answers
      <4>. QED
        BY <1>1, <3>2, <4>1, TrashApart
    <3>. QED
      BY <1>6, <3>1, <3>2 DEF RemoveEntry
  <2>4. Place(n) # p
    BY <2>2, <2>3
  <2>. QED
    BY <1>3, <2>1, <2>4 DEF Restricted
<1>7. CASE Cleanup(r)
  <2>1. pc[r] = "cleanup"
    BY <1>7 DEF Cleanup
  <2>2. req[r].kind = "decompress" /\ ~Refused(req[r])
    BY <2>1 DEF OnTrack, Answers
  <2>3. req[r] \in Request
    BY <2>2, HasPaths DEF Kinds, Pathless
  <2>4. ~InTrash(req[r].dest)
    BY <2>2, <2>3 DEF TrashLeftAlone
  <2>5. Place(n) # req[r].dest
    BY <2>4, PlaceIs DEF InTrash
  <2>. QED
    BY <1>3, <1>7, <2>5 DEF Cleanup, Restricted
<1>8. CASE Check(r) \/ Copied(r) \/ Delete(r) \/ Removed(r) \/ RemoveFails(r) \/ Undone(r)
             \/ WriteTrashInfo(r)
  BY <1>3, <1>8 DEF Check, Copied, Delete, Removed, RemoveFails, Undone, WriteTrashInfo
<1>9. CASE Create(r) \/ Prepare(r) \/ ChooseTrashName(r) \/ Compress(r)
  <2>1. \A d, p, node : DOMAIN d \subseteq DOMAIN MakeDirs(d, p) /\ DOMAIN d \subseteq DOMAIN With(d, p, node)
    BY DEF MakeDirs, With
  <2>. QED
    BY <1>3, <1>9, <2>1 DEF Create, Prepare, ChooseTrashName, Compress
<1>10. CASE CopyEntry(r) \/ AddEntry(r) \/ ArchiveDone(r) \/ Decompress(r) \/ ExtractEntry(r)
  <2>1. \A d, p, node : DOMAIN d \subseteq DOMAIN MakeDirs(d, p) /\ DOMAIN d \subseteq DOMAIN With(d, p, node)
    BY DEF MakeDirs, With
  <2>. QED
    BY <1>3, <1>10, <2>1 DEF CopyEntry, AddEntry, ArchiveDone, Closed, Decompress, ExtractEntry
<1>. QED
  BY <1>4, <1>5, <1>6, <1>7, <1>8, <1>9, <1>10 DEF Step

\* A step is of one request.
LEMMA OthersStay ==
  ASSUME FsInv, NEW r \in Slot, Step(r), NEW s \in Slot, s # r
  PROVE  /\ pc'[s] = pc[s] /\ to'[s] = to[s] /\ work'[s] = work[s] /\ at'[s] = at[s] /\ req' = req
         /\ contested \subseteq contested'
<1>1. DOMAIN pc = Slot /\ DOMAIN to = Slot /\ DOMAIN work = Slot /\ DOMAIN at = Slot
  BY DEF FsInv, Asked, Ready
<1>2. req' = req /\ pc'[s] = pc[s] /\ at'[s] = at[s]
  BY <1>1, StepKeeps DEF Proceeds, NextPath, Goto
<1>3. CASE Check(r) \/ Create(r) \/ Rename(r) \/ Prepare(r) \/ TryRename(r) \/ CopyEntry(r) \/ Copied(r)
  BY <1>1, <1>2, <1>3 DEF Check, Create, Rename, Prepare, TryRename, CopyEntry, Copied, history
<1>4. CASE Delete(r) \/ RemoveEntry(r) \/ Removed(r) \/ RemoveFails(r) \/ Undone(r)
             \/ ChooseTrashName(r) \/ WriteTrashInfo(r)
  BY <1>1, <1>2, <1>4 DEF Delete, RemoveEntry, Removed, RemoveFails, Undone, ChooseTrashName,
     WriteTrashInfo, history
<1>5. CASE Compress(r) \/ AddEntry(r) \/ Decompress(r) \/ ExtractEntry(r) \/ Cleanup(r) \/ ArchiveDone(r)
  BY <1>1, <1>2, <1>5 DEF Compress, AddEntry, Decompress, ExtractEntry, Cleanup, ArchiveDone, history
<1>. QED
  BY <1>3, <1>4, <1>5 DEF Step

\* Function f keeps what it has for n, whatever it is.
Keeping(f, g, n) == /\ (n \in DOMAIN g <=> n \in DOMAIN f)
                    /\ n \in DOMAIN f => g[n] = f[n]

LEMMA KeepingIs ==
  ASSUME NEW f, NEW n
  PROVE  /\ Keeping(f, f, n)
         /\ \A a, b : a # n => Keeping(f, With(f, a, b), n)
         /\ \A a : a # n => Keeping(f, Restricted(f, DOMAIN f \ {a}), n)
<1>1. Keeping(f, f, n)
  BY DEF Keeping
<1>2. ASSUME NEW a, NEW b, a # n PROVE Keeping(f, With(f, a, b), n)
  <2>. DEFINE g == With(f, a, b)
  <2>1. \A x : x # a => /\ (x \in DOMAIN g <=> x \in DOMAIN f)
                        /\ x \in DOMAIN f => g[x] = f[x]
    BY AddedTo
  <2>. HIDE DEF g
  <2>2. Keeping(f, g, n)
    BY <1>2, <2>1 DEF Keeping
  <2>. QED
    BY <2>2 DEF g
<1>3. ASSUME NEW a, a # n PROVE Keeping(f, Restricted(f, DOMAIN f \ {a}), n)
  <2>. DEFINE g == Restricted(f, DOMAIN f \ {a})
  <2>1. \A x : x # a => /\ (x \in DOMAIN g <=> x \in DOMAIN f)
                        /\ x \in DOMAIN f => g[x] = f[x]
    BY TakenFrom
  <2>. HIDE DEF g
  <2>2. Keeping(f, g, n)
    BY <1>3, <2>1 DEF Keeping
  <2>. QED
    BY <2>2 DEF g
<1>. QED
  BY <1>1, <1>2, <1>3

\* A step writes what the trash says of the name its request uses, and nothing else.
LEMMA InfoStays ==
  ASSUME FsInv, NEW r \in Slot, OnTrack(r), Step(r), NEW n, Uses(r) => n # Name(r)
  PROVE  Keeping(info, info', n) /\ Keeping(from, from', n)
<1>1. CASE info' = info /\ from' = from
  BY <1>1, KeepingIs
<1>2. CASE TryRename(r) \/ Copied(r)
  <2>1. pc[r] \in Naming
    BY <1>2 DEF TryRename, Copied, Naming
  <2>2. req[r].kind = "trash" => n # Name(r)
    BY <2>1 DEF Uses
  <2>3. /\ info' = info
        /\ from' = from \/ (req[r].kind = "trash" /\ from' = With(from, Name(r), Src(r)))
    BY <1>2 DEF TryRename, Copied, Name
  <2>. QED
    BY <2>2, <2>3, KeepingIs
<1>3. CASE CopyEntry(r) \/ RemoveFails(r)
  <2>1. pc[r] \in Naming
    BY <1>3 DEF CopyEntry, RemoveFails, Naming
  <2>2. req[r].kind = "trash" => n # Name(r)
    BY <2>1 DEF Uses
  <2>3. /\ from' = from
        /\ info' = info
           \/ (req[r].kind = "trash" /\ info' = Restricted(info, DOMAIN info \ {Name(r)}))
    BY <1>3 DEF CopyEntry, CopyFails, RemoveFails, Name, history
  <2>. QED
    BY <2>2, <2>3, KeepingIs
<1>4. CASE WriteTrashInfo(r)
  <2>1. pc[r] = "info"
    BY <1>4 DEF WriteTrashInfo
  <2>2. n # Name(r)
    BY <2>1 DEF Uses, OnTrack, Naming
  <2>3. from' = from /\ (info' = info \/ info' = With(info, Name(r), Src(r)))
    BY <1>4 DEF WriteTrashInfo, Name
  <2>. QED
    BY <2>2, <2>3, KeepingIs
<1>. QED
  BY <1>1, <1>2, <1>3, <1>4 DEF Step, Check, Create, Rename, Prepare, Delete, RemoveEntry, Removed, Undone,
     ChooseTrashName, Compress, AddEntry, Decompress, ExtractEntry, Cleanup, ArchiveDone, history

\* A .trashinfo is left behind, or made good, only by a request that writes it.
LEMMA OrphansStay ==
  ASSUME NEW r \in Slot, Step(r), NEW n, n # Name(r) \/ pc[r] # "info"
  PROVE  n \in orphaned' <=> n \in orphaned
<1>1. CASE WriteTrashInfo(r)
  BY <1>1 DEF WriteTrashInfo, Name
<1>2. CASE ~WriteTrashInfo(r)
  BY <1>2 DEF Step, Check, Create, Rename, Prepare, TryRename, CopyEntry, Copied, Delete, RemoveEntry,
     Removed, RemoveFails, Undone, ChooseTrashName, Compress, AddEntry, Decompress, ExtractEntry,
     Cleanup, ArchiveDone, history
<1>. QED
  BY <1>1, <1>2

\* Where a step leads.
LEMMA PhaseAfter ==
  ASSUME FsInv, NEW r \in Slot, req[r] \in Request, Step(r)
  PROVE  /\ pc[r] = "check" => (pc'[r] = "path" /\ ~Refused(req[r])) \/ pc'[r] \in Answers
         /\ pc'[r] \in {"info", "undo"} => pc'[r] = pc[r] \/ req[r].kind = "trash"
         /\ pc'[r] \in {"rename", "copy", "remove"} =>
              \/ pc[r] \in {"rename", "copy", "remove"}
              \/ pc[r] = "info"
              \/ req[r].kind \in Kinds \ Pathless
         /\ pc'[r] \in {"extract", "cleanup"} => pc[r] = "extract" \/ pc'[r] = pc[r] \/ req[r].kind = "decompress"
         /\ to'[r] = to[r] \/ pc[r] = "path"
         /\ (req[r].kind = "trash" /\ pc'[r] \in Naming) => pc[r] \in Naming \/ ChooseTrashName(r)
<1>1. DOMAIN pc = Slot
  BY DEF FsInv, Asked
<1>. USE DEF Answers, Kinds, Pathless, Naming, Goto
<1>2. CASE Check(r)
  <2>1. pc[r] = "check" /\ pc'[r] = Verdict(req[r]) /\ to' = to
    BY <1>1, <1>2 DEF Check
  <2>2. req[r].kind \in Kinds
    BY FsAssumption
  <2>3. (Verdict(req[r]) = "path" /\ ~Refused(req[r])) \/ Verdict(req[r]) \in Answers
    BY <2>2 DEF Verdict, Checked, Refused
  <2>. QED
    BY <2>1, <2>3
<1>3. CASE Create(r) \/ Rename(r) \/ Prepare(r)
  BY <1>1, <1>3 DEF Create, Rename, Prepare
<1>4. CASE TryRename(r) \/ CopyEntry(r) \/ Copied(r)
  BY <1>1, <1>4 DEF TryRename, CopyEntry, CopyFails, Copied, NextPath
<1>5. CASE Delete(r) \/ RemoveEntry(r) \/ Removed(r) \/ RemoveFails(r) \/ Undone(r)
  BY <1>1, <1>5 DEF Delete, RemoveEntry, Removed, RemoveFails, Undone, NextPath
<1>6. CASE ChooseTrashName(r) \/ WriteTrashInfo(r)
  BY <1>1, <1>6 DEF ChooseTrashName, WriteTrashInfo
<1>7. CASE Compress(r) \/ AddEntry(r) \/ Decompress(r)
  BY <1>1, <1>7 DEF Compress, AddEntry, Decompress
<1>8. CASE ExtractEntry(r) \/ Cleanup(r) \/ ArchiveDone(r)
  BY <1>1, <1>8 DEF ExtractEntry, Cleanup, ArchiveDone
<1>. QED
  BY <1>2, <1>3, <1>4, <1>5, <1>6, <1>7, <1>8 DEF Step

LEMMA ChosenName ==
  ASSUME FsInv, NEW r \in Slot, ChooseTrashName(r), pc'[r] # "failed"
  PROVE  /\ to'[r] = Place(Name(r)') /\ ~Exists(disk, to'[r])
         /\ pc'[r] = "info" /\ req[r].kind = "trash" /\ pc[r] = "path"
         /\ InUse(r, Name(r)') => Name(r)' \in contested'
<1>1. DOMAIN pc = Slot /\ DOMAIN to = Slot
  BY DEF FsInv, Asked, Ready
<1>2. CanMakeDirs(disk, TrashFiles)
  BY <1>1 DEF ChooseTrashName, Goto
<1>3. PICK n \in TrashNames(disk', Base(Src(r))) :
        /\ to' = [to EXCEPT ![r] = Append(TrashFiles, n)]
        /\ contested' = IF InUse(r, n) THEN contested \cup {n} ELSE contested
  BY <1>2 DEF ChooseTrashName
<1>4. to'[r] = Place(n) /\ Base(to'[r]) = n
  BY <1>1, <1>3, PlaceIs DEF Place
<1>5. Place(n) \notin DOMAIN disk' /\ DOMAIN disk \subseteq DOMAIN disk'
  BY <1>2, <1>3, TrashNamesFree DEF ChooseTrashName, MakeDirs, Place
<1>6. pc'[r] = "info" /\ req[r].kind = "trash" /\ pc[r] = "path"
  BY <1>1, <1>2 DEF ChooseTrashName, Goto
<1>7. Name(r)' = n
  BY <1>4 DEF Name
<1>8. InUse(r, n) => n \in contested'
  BY <1>3
<1>9. to'[r] = Place(Name(r)') /\ ~Exists(disk, to'[r])
  BY <1>4, <1>5, <1>7 DEF Exists
<1>10. InUse(r, Name(r)') => Name(r)' \in contested'
  BY <1>7, <1>8, Zenon
<1>. QED
  BY <1>6, <1>9, <1>10

\* Between two steps of a request with a name its name stays.
LEMMA NameStays ==
  ASSUME FsInv, NEW r \in Slot, OnTrack(r), Step(r), Uses(r)'
  PROVE  \/ Uses(r) /\ to'[r] = to[r] /\ Name(r)' = Name(r) /\ ~ChooseTrashName(r)
         \/ ~Uses(r) /\ ChooseTrashName(r) /\ pc'[r] = "info"
<1>1. req' = req /\ Active(r) /\ req[r] \in Request
  BY StepKeeps DEF Proceeds, OnTrack
<1>2. req[r].kind = "trash" /\ pc'[r] \in Naming
  BY <1>1 DEF Uses
<1>3. CASE pc[r] \in Naming
  <2>1. pc[r] # "path"
    BY <1>3 DEF Naming
  <2>. QED
    BY <1>1, <1>2, <1>3, <2>1, PhaseAfter DEF Uses, Name, ChooseTrashName
<1>4. CASE pc[r] \notin Naming
  <2>1. ChooseTrashName(r)
    BY <1>1, <1>2, <1>4, PhaseAfter
  <2>2. pc'[r] # "failed"
    BY <1>2 DEF Naming
  <2>. QED
    BY <1>4, <2>1, <2>2, ChosenName DEF Uses
<1>. QED
  BY <1>3, <1>4

LEMMA TracksStep ==
  ASSUME FsInv, Tracks, NEW r \in Slot, Step(r)
  PROVE  Tracks'
<1>. SUFFICES ASSUME NEW s \in Slot PROVE OnTrack(s)'
  BY DEF Tracks
<1>1. OnTrack(s) /\ OnTrack(r) /\ req' = req /\ Active(r)
  BY StepKeeps DEF Tracks, Proceeds
<1>2. CASE s # r
  <2>1. pc'[s] = pc[s] /\ to'[s] = to[s]
    BY <1>2, OthersStay
  <2>. QED
    BY <1>1, <2>1 DEF OnTrack, Uses, Name, Active
<1>3. CASE s = r
  <2>1. req[r] \in Request
    BY <1>1 DEF OnTrack
  <2>2. pc'[r] \notin {"idle", "check"} \cup Answers => ~Refused(req[r])
    <3>1. CASE pc[r] = "check"
      BY <2>1, <3>1, PhaseAfter
    <3>2. CASE pc[r] # "check"
      BY <1>1, <3>2 DEF OnTrack, Active
    <3>. QED
      BY <3>1, <3>2
  <2>3. pc'[r] \in {"info", "undo"} => req[r].kind = "trash"
    BY <1>1, <2>1, PhaseAfter DEF OnTrack
  <2>4. pc'[r] \in {"rename", "copy", "remove"} => req[r].paths # <<>>
    <3>1. req[r].kind \in Kinds \ Pathless => req[r].paths # <<>>
      BY HasPaths
    <3>2. "trash" \in Kinds \ Pathless
      BY DEF Kinds, Pathless
    <3>. QED
      BY <1>1, <2>1, <3>1, <3>2, PhaseAfter DEF OnTrack
  <2>5. pc'[r] \in {"extract", "cleanup"} => req[r].kind = "decompress"
    BY <1>1, <2>1, PhaseAfter DEF OnTrack
  <2>6. ASSUME Uses(r)' PROVE to'[r] = Place(Name(r)')
    <3>1. CASE Uses(r) /\ to'[r] = to[r]
      BY <1>1, <3>1 DEF OnTrack, Name
    <3>2. CASE ChooseTrashName(r) /\ pc'[r] = "info"
      BY <3>2, ChosenName
    <3>. QED
      BY <1>1, <2>6, <3>1, <3>2, NameStays
  <2>. QED
    BY <1>1, <1>3, <2>1, <2>2, <2>3, <2>4, <2>5, <2>6 DEF OnTrack
<1>. QED
  BY <1>2, <1>3

LEMMA OneUserStep ==
  ASSUME FsInv, Tracks, OneUser, NEW r \in Slot, Step(r)
  PROVE  OneUser'
<1>. SUFFICES ASSUME NEW a \in Slot, NEW b \in Slot, Uses(a)', Uses(b)', a # b, Name(a)' = Name(b)'
              PROVE  Name(a)' \in contested'
  BY DEF OneUser
<1>1. req' = req /\ contested \subseteq contested'
  BY StepKeeps, OthersStay DEF Proceeds
<1>2. ASSUME NEW s \in Slot, s # r, Uses(s)' PROVE Uses(s) /\ Name(s)' = Name(s)
  BY <1>1, <1>2, OthersStay DEF Uses, Name
<1>3. ASSUME NEW o \in Slot, o # r, Uses(o)', Uses(r)', Name(o)' = Name(r)' PROVE Name(r)' \in contested'
  <2>1. Uses(o) /\ Name(o)' = Name(o) /\ OnTrack(r)
    BY <1>2, <1>3 DEF Tracks
  <2>2. CASE Uses(r) /\ Name(r)' = Name(r)
    BY <1>1, <1>3, <2>1, <2>2 DEF OneUser
  <2>3. CASE ChooseTrashName(r) /\ pc'[r] = "info"
    <3>1. InUse(r, Name(r)') => Name(r)' \in contested'
      BY <2>3, ChosenName
    <3>2. InUse(r, Name(o))
      BY <1>3, <2>1 DEF InUse, Uses, Naming, Name
    <3>. QED
      BY <1>3, <2>1, <3>1, <3>2
  <2>. QED
    BY <1>3, <2>1, <2>2, <2>3, NameStays
<1>4. CASE a # r /\ b # r
  BY <1>1, <1>2, <1>4 DEF OneUser
<1>. QED
  BY <1>3, <1>4

\* What a step of request r makes of its name n in the trash.
Accounted(r, n) ==
  /\ Uses(r)' => OriginOK(r)'
  /\ n \in DOMAIN info' => Settled(n)' \/ (Uses(r)' /\ Name(r)' = n /\ pc'[r] \in {"rename", "copy"})

LEMMA NextPathLeaves ==
  ASSUME FsInv, NEW r \in Slot, NextPath(r)
  PROVE  pc'[r] \in {"path", "ok"}
<1>. QED
  BY DEF NextPath, Goto, FsInv, Asked

LEMMA AccountedFor ==
  ASSUME FsInv, NEW r \in Slot, Step(r), NEW n, to'[r] = to[r], n = Name(r),
         \/ pc'[r] \notin Naming /\ (n \in DOMAIN info' => Settled(n)')
         \/ pc'[r] \in {"info", "undo"} /\ n \notin DOMAIN info'
         \/ pc'[r] = "remove" /\ Settled(n)'
         \/ pc'[r] = "rename" /\ n \in DOMAIN info' /\ info'[n] = Src(r)' /\ Uses(r)'
         \/ /\ pc'[r] = "copy" /\ n \in DOMAIN info' /\ info'[n] = Src(r)' /\ Uses(r)'
            /\ Exists(disk', to'[r]) \/ (work'[r] # <<>> /\ Head(work'[r]).dst = to'[r])
  PROVE  Accounted(r, n)
<1>1. Name(r)' = n
  BY DEF Name
<1>2. CASE pc'[r] \notin Naming /\ (n \in DOMAIN info' => Settled(n)')
  BY <1>2 DEF Accounted, Uses
<1>3. CASE pc'[r] \in {"info", "undo"} /\ n \notin DOMAIN info'
  <2>1. pc'[r] \notin {"rename", "copy"} /\ pc'[r] # "remove" /\ pc'[r] # "copy" /\ Name(r)' \notin DOMAIN info'
    BY <1>1, <1>3
  <2>2. OriginOK(r)'
    BY <2>1 DEF OriginOK
  <2>. QED
    BY <1>3, <2>2 DEF Accounted
<1>4. CASE pc'[r] = "remove" /\ Settled(n)'
  <2>1. Settled(Name(r))'
    BY <1>1, <1>4 DEF Settled
  <2>. QED
    BY <1>4, <2>1 DEF Accounted, OriginOK
<1>5. CASE pc'[r] = "rename" /\ n \in DOMAIN info' /\ info'[n] = Src(r)' /\ Uses(r)'
  <2>1. (pc[r] = "rename" /\ Name(r) \in DOMAIN info /\ info[Name(r)] = Src(r) => OriginOK(r))'
    BY DEF OriginOK
  <2>2. Name(r)' \in DOMAIN info' /\ info'[Name(r)'] = Src(r)'
    BY <1>1, <1>5
  <2>. QED
    BY <1>1, <1>5, <2>1, <2>2 DEF Accounted
<1>6. CASE /\ pc'[r] = "copy" /\ n \in DOMAIN info' /\ info'[n] = Src(r)' /\ Uses(r)'
           /\ Exists(disk', to'[r]) \/ (work'[r] # <<>> /\ Head(work'[r]).dst = to'[r])
  <2>1. /\ pc'[r] = "copy"
        /\ Exists(disk', to'[r]) \/ (work'[r] # <<>> /\ Head(work'[r]).dst = to'[r])
        /\ Name(r)' \in DOMAIN info' /\ info'[Name(r)'] = Src(r)'
    BY <1>1, <1>6
  <2>2. OriginOK(r)'
    BY <2>1 DEF OriginOK
  <2>. QED
    BY <1>1, <1>6, <2>2 DEF Accounted
<1>. QED
  BY <1>2, <1>3, <1>4, <1>5, <1>6

LEMMA OwnStep ==
  ASSUME TrashLeftAlone, FsInv, NEW r \in Slot, OnTrack(r), Uses(r), Step(r),
         NEW n, n = Name(r), n \notin orphaned => OriginOK(r), n \notin orphaned'
  PROVE  Accounted(r, n)
<1>1. /\ DOMAIN pc = Slot /\ DOMAIN work = Slot /\ DOMAIN to = Slot /\ req' = req
      /\ req[r].kind = "trash" /\ pc[r] \in Naming /\ to[r] = Place(n) /\ DiskOK(disk)
      /\ IsASequence(to[r]) /\ WorkOK(work[r]) /\ n = Base(to[r])
  BY StepKeeps DEF FsInv, Asked, Ready, OnTrack, Uses, Proceeds, Name
<1>2. (Exists(disk, Place(n)) /\ pc[r] # "undo") => Exists(disk', Place(n))
  BY PlaceStays
<1>3. Settled(n)' <=> /\ Exists(disk', Place(n)) /\ n \in DOMAIN info'
                      /\ n \in DOMAIN from' /\ from'[n] = info'[n]
  BY DEF Settled
<1>4. pc[r] # "info" => OriginOK(r)
  BY OrphansStay
<1>5. CASE pc[r] = "info"
  <2>1. WriteTrashInfo(r)
    BY <1>1, <1>5 DEF Step, Check, Create, Rename, Prepare, TryRename, CopyEntry, Copied, Delete,
       RemoveEntry, Removed, RemoveFails, Undone, ChooseTrashName, Compress, AddEntry,
       Decompress, ExtractEntry, Cleanup, ArchiveDone
  <2>2. to' = to /\ at' = at
    BY <2>1 DEF WriteTrashInfo
  <2>3. CASE info' = With(info, n, Src(r)) /\ pc'[r] = "rename"
    <3>1. Src(r)' = Src(r) /\ Uses(r)'
      BY <1>1, <2>2, <2>3 DEF Src, Uses, Naming
    <3>2. n \in DOMAIN info' /\ info'[n] = Src(r)
      BY <2>3, AddedTo
    <3>. QED
      BY <2>2, <2>3, <3>1, <3>2, AccountedFor
  <2>4. CASE info' = info /\ orphaned' = orphaned /\ pc'[r] = "failed"
    <3>1. n \notin DOMAIN info'
      BY <1>5, <2>4 DEF OriginOK
    <3>2. pc'[r] \notin Naming
      BY <2>4 DEF Naming
    <3>. QED
      BY <2>2, <3>1, <3>2, AccountedFor
  <2>. QED
    BY <1>1, <2>1, <2>3, <2>4 DEF WriteTrashInfo, Goto
<1>6. CASE pc[r] = "rename"
  <2>1. TryRename(r)
    BY <1>6 DEF Step, Check, Create, Rename, Prepare, CopyEntry, Copied, Delete,
       RemoveEntry, Removed, RemoveFails, Undone, ChooseTrashName, WriteTrashInfo, Compress, AddEntry,
       Decompress, ExtractEntry, Cleanup, ArchiveDone
  <2>2. n \in DOMAIN info /\ info[n] = Src(r) /\ info' = info /\ to' = to
    BY <1>4, <1>6, <2>1 DEF OriginOK, TryRename
  <2>3. CASE CanRename(disk, Src(r), to[r])
    <3>1. disk' = Renamed(disk, Src(r), to[r]) /\ from' = With(from, n, Src(r)) /\ NextPath(r)
      BY <1>1, <2>1, <2>3 DEF TryRename
    <3>2. Exists(disk', Place(n))
      <4>1. Src(r) \in DOMAIN disk
        BY <2>3 DEF CanRename, Exists
      <4>2. IsASequence(Src(r)) /\ to[r] # <<>>
        BY <1>1, <4>1, PlaceIs DEF DiskOK
      <4>3. to[r] \in DOMAIN disk'
        BY <1>1, <2>3, <3>1, <4>2, RenamedPuts
      <4>. QED
        BY <1>1, <4>3 DEF Exists
    <3>3. n \in DOMAIN from' /\ from'[n] = info'[n]
      BY <2>2, <3>1, AddedTo
    <3>4. pc'[r] \notin Naming
      BY <3>1, NextPathLeaves DEF Naming
    <3>. QED
      BY <1>3, <2>2, <3>2, <3>3, <3>4, AccountedFor
  <2>4. CASE ~CanRename(disk, Src(r), to[r])
    <3>. DEFINE t == [src |-> Src(r), dst |-> to[r], val |-> Dir]
    <3>1. work'[r] = <<t>> /\ pc'[r] = "copy" /\ at' = at
      BY <1>1, <2>1, <2>4 DEF TryRename, Goto
    <3>2. work'[r] # <<>> /\ Head(work'[r]).dst = to'[r]
      BY <2>2, <3>1
    <3>3. info'[n] = Src(r)' /\ Uses(r)'
      BY <1>1, <2>2, <3>1 DEF Src, Uses, Naming
    <3>. QED
      BY <2>2, <3>1, <3>2, <3>3, AccountedFor
  <2>. QED
    BY <2>3, <2>4
<1>7. CASE pc[r] = "copy"
  <2>1. CopyEntry(r) \/ Copied(r)
    BY <1>7 DEF Step, Check, Create, Rename, Prepare, TryRename, Delete,
       RemoveEntry, Removed, RemoveFails, Undone, ChooseTrashName, WriteTrashInfo, Compress, AddEntry,
       Decompress, ExtractEntry, Cleanup, ArchiveDone
  <2>2. n \in DOMAIN info /\ info[n] = Src(r) /\ to' = to
    BY <1>4, <1>7, <2>1 DEF OriginOK, CopyEntry, Copied
  <2>3. Exists(disk, to[r]) \/ (work[r] # <<>> /\ Head(work[r]).dst = to[r])
    BY <1>4, <1>7 DEF OriginOK
  <2>4. CASE Copied(r)
    <3>1. /\ pc'[r] = "remove" /\ from' = With(from, n, Src(r)) /\ disk' = disk /\ info' = info
          /\ work[r] = <<>>
      BY <1>1, <2>4 DEF Copied, Goto
    <3>2. Exists(disk', Place(n))
      BY <1>1, <2>3, <3>1
    <3>3. n \in DOMAIN from' /\ from'[n] = info'[n]
      BY <2>2, <3>1, AddedTo
    <3>. QED
      BY <1>3, <2>2, <3>1, <3>2, <3>3, AccountedFor
  <2>5. CASE CopyEntry(r) /\ info' = info /\ pc' = pc
    <3>1. at' = at
      BY <2>5 DEF CopyEntry
    <3>2. Exists(disk', to[r])
      <4>. DEFINE x == Head(work[r])
      <4>1. (Exists(disk', x.dst) /\ work[r] # <<>>) \/ Exists(disk, to[r])
        <5>1. disk' = MakeDirs(disk, x.dst) \/ \E node : disk' = With(disk, x.dst, node)
          <6>1. ~CopyFails(r)
            BY <1>1, <1>7, <2>5 DEF CopyFails, Goto
          <6>. QED
            BY <2>5, <6>1 DEF CopyEntry
        <5>2. work[r] # <<>>
          BY <2>5 DEF CopyEntry
        <5>3. CASE \E node : disk' = With(disk, x.dst, node)
          BY <5>2, <5>3 DEF With, Exists
        <5>4. CASE disk' = MakeDirs(disk, x.dst)
          <6>1. x.dst \in Ancestors(x.dst) \/ Exists(disk, to[r])
            BY <1>1, <2>3, PlaceIs
          <6>. QED
            BY <5>2, <5>4, <6>1 DEF MakeDirs, Exists
        <5>. QED
          BY <5>1, <5>2, <5>3, <5>4
      <4>. QED
        BY <1>1, <1>2, <1>7, <2>3, <4>1
    <3>3. info'[n] = Src(r)' /\ Uses(r)'
      BY <1>1, <2>2, <2>5, <3>1 DEF Src, Uses
    <3>. QED
      BY <1>7, <2>2, <2>5, <3>2, <3>3, AccountedFor
  <2>6. CASE CopyEntry(r) /\ ~(info' = info /\ pc' = pc)
    <3>1. CopyFails(r)
      BY <2>6 DEF CopyEntry
    <3>2. pc'[r] = "failed" /\ info' = Restricted(info, DOMAIN info \ {n})
      BY <1>1, <3>1 DEF CopyFails, Goto
    <3>3. n \notin DOMAIN info' /\ pc'[r] \notin Naming
      BY <3>2, TakenFrom DEF Naming
    <3>. QED
      BY <2>2, <3>3, AccountedFor
  <2>. QED
    BY <2>1, <2>4, <2>5, <2>6
<1>8. CASE pc[r] = "remove"
  <2>1. RemoveEntry(r) \/ Removed(r) \/ RemoveFails(r)
    BY <1>1, <1>8 DEF Step, Check, Create, Rename, Prepare, TryRename, CopyEntry, Copied, Delete,
       Undone, ChooseTrashName, WriteTrashInfo, Compress, AddEntry,
       Decompress, ExtractEntry, Cleanup, ArchiveDone
  <2>2. Settled(n) /\ to' = to
    BY <1>4, <1>8, <2>1 DEF OriginOK, RemoveEntry, Removed, RemoveFails
  <2>3. CASE RemoveEntry(r) \/ Removed(r)
    <3>1. info' = info /\ from' = from
      BY <2>3 DEF RemoveEntry, Removed, history
    <3>2. Settled(n)'
      BY <1>2, <1>3, <1>8, <2>2, <3>1 DEF Settled
    <3>3. pc'[r] = "remove" \/ pc'[r] \notin Naming
      BY <1>8, <2>3, NextPathLeaves DEF RemoveEntry, Removed, Naming
    <3>. QED
      BY <2>2, <3>2, <3>3, AccountedFor
  <2>4. CASE RemoveFails(r)
    <3>1. pc'[r] = "undo" /\ info' = Restricted(info, DOMAIN info \ {n})
      BY <1>1, <2>4 DEF RemoveFails, Goto
    <3>2. n \notin DOMAIN info'
      BY <3>1, TakenFrom
    <3>. QED
      BY <2>2, <3>1, <3>2, AccountedFor
  <2>. QED
    BY <2>1, <2>3, <2>4
<1>9. CASE pc[r] = "undo"
  <2>1. RemoveEntry(r) \/ Undone(r)
    BY <1>1, <1>9 DEF Step, Check, Create, Rename, Prepare, TryRename, CopyEntry, Copied, Delete,
       Removed, RemoveFails, ChooseTrashName, WriteTrashInfo, Compress, AddEntry,
       Decompress, ExtractEntry, Cleanup, ArchiveDone
  <2>2. to' = to /\ info' = info /\ (pc'[r] = "undo" \/ pc'[r] \notin Naming)
    BY <1>1, <1>9, <2>1 DEF RemoveEntry, Undone, Goto, Naming
  <2>3. n \notin DOMAIN info'
    BY <1>4, <1>9, <2>2 DEF OriginOK
  <2>. QED
    BY <2>2, <2>3, AccountedFor
<1>. QED
  BY <1>1, <1>5, <1>6, <1>7, <1>8, <1>9 DEF Naming

\* The other requests keep what they have made of their names.
LEMMA OthersKeep ==
  ASSUME TrashLeftAlone, FsInv, NEW r \in Slot, OnTrack(r), Step(r), NEW s \in Slot, s # r, OnTrack(s),
         Uses(s), Uses(r) => Name(r) # Name(s), OriginOK(s)
  PROVE  OriginOK(s)'
<1>1. /\ pc'[s] = pc[s] /\ to'[s] = to[s] /\ work'[s] = work[s] /\ at'[s] = at[s] /\ req' = req
  BY OthersStay
<1>2. PICK n : n = Name(s)
  OBVIOUS
<1>3. Name(s)' = n /\ Src(s)' = Src(s) /\ to[s] = Place(n)
  BY <1>1, <1>2 DEF Name, Src, OnTrack
<1>4. Keeping(info, info', n) /\ Keeping(from, from', n)
  BY <1>2, InfoStays
<1>5. Exists(disk, Place(n)) => Exists(disk', Place(n))
  <2>1. pc[r] = "undo" => n # Name(r)
    BY <1>2 DEF OnTrack, Uses, Naming
  <2>. QED
    BY <2>1, PlaceStays
<1>6. Settled(n) => Settled(n)'
  BY <1>4, <1>5 DEF Settled, Keeping
<1>7. ASSUME pc[s] = "remove" PROVE Settled(Name(s))'
  <2>1. Settled(n)'
    BY <1>2, <1>6, <1>7 DEF OriginOK
  <2>. QED
    BY <1>3, <2>1 DEF Settled
<1>8. pc'[s] \in {"info", "undo"} => Name(s)' \notin DOMAIN info'
  BY <1>1, <1>2, <1>3, <1>4 DEF OriginOK, Keeping
<1>9. pc'[s] \in {"rename", "copy"} => Name(s)' \in DOMAIN info' /\ info'[Name(s)'] = Src(s)'
  BY <1>1, <1>2, <1>3, <1>4 DEF OriginOK, Keeping
<1>10. pc'[s] = "copy" => Exists(disk', to'[s]) \/ (work'[s] # <<>> /\ Head(work'[s]).dst = to'[s])
  BY <1>1, <1>3, <1>5 DEF OriginOK
<1>. QED
  BY <1>1, <1>7, <1>8, <1>9, <1>10 DEF OriginOK

\* The name a request chooses has no .trashinfo, or is contested or orphaned.
LEMMA ChosenIsNew ==
  ASSUME FsInv, TrashInv, NEW r \in Slot, ChooseTrashName(r), pc'[r] = "info",
         Name(r)' \notin (contested \cup orphaned)'
  PROVE  OriginOK(r)'
<1>1. PICK n : n = Name(r)'
  OBVIOUS
<1>2. to'[r] = Place(n) /\ ~Exists(disk, Place(n)) /\ pc[r] = "path" /\ ~InUse(r, n)
  BY <1>1, ChosenName
<1>3. info' = info /\ n \notin contested \cup orphaned
  BY <1>1 DEF ChooseTrashName
<1>4. ~\E s \in Slot : Uses(s) /\ Name(s) = n
  BY <1>2 DEF InUse, Uses, Naming, Name
<1>5. ~Settled(n)
  BY <1>2 DEF Settled
<1>6. n \notin DOMAIN info
  BY <1>3, <1>4, <1>5 DEF TrashInv, Told, Accounts
<1>7. Name(r)' \notin DOMAIN info'
  BY <1>1, <1>3, <1>6
<1>. QED
  BY <1>7 DEF OriginOK

LEMMA OriginsStep ==
  ASSUME TrashLeftAlone, FsInv, TrashInv, NEW r \in Slot, Step(r)
  PROVE  Origins'
<1>. SUFFICES ASSUME NEW s \in Slot, Uses(s)', Name(s)' \notin (contested \cup orphaned)'
              PROVE  OriginOK(s)'
  BY DEF Origins
<1>1. OnTrack(r) /\ OnTrack(s) /\ req' = req
  BY StepKeeps DEF TrashInv, Tracks, Proceeds
<1>2. contested \subseteq contested'
  BY DEF Step, Check, Create, Rename, Prepare, TryRename, CopyEntry, Copied, Delete, RemoveEntry,
     Removed, RemoveFails, Undone, ChooseTrashName, WriteTrashInfo, Compress, AddEntry, Decompress,
     ExtractEntry, Cleanup, ArchiveDone, history
<1>3. CASE s # r
  <2>1. Uses(s) /\ Name(s)' = Name(s)
    BY <1>1, <1>3, OthersStay DEF Uses, Name
  <2>2. Uses(r) => Name(r) # Name(s)
    BY <1>2, <1>3, <2>1 DEF TrashInv, OneUser
  <2>3. Name(s) \notin orphaned
    BY <1>1, <2>1, <2>2, OrphansStay DEF OnTrack, Uses, Naming
  <2>4. OriginOK(s)
    BY <1>2, <2>1, <2>3 DEF TrashInv, Origins
  <2>. QED
    BY <1>1, <1>3, <2>1, <2>2, <2>4, OthersKeep
<1>4. CASE s = r
  <2>1. CASE Uses(r) /\ Name(r)' = Name(r)
    <3>1. PICK n : n = Name(r)
      OBVIOUS
    <3>2. (n \notin orphaned => OriginOK(r)) /\ n \notin orphaned'
      BY <1>2, <1>4, <2>1, <3>1 DEF TrashInv, Origins
    <3>3. Accounted(r, n)
      BY <1>1, <2>1, <3>1, <3>2, OwnStep
    <3>. QED
      BY <1>4, <3>3 DEF Accounted
  <2>2. CASE ChooseTrashName(r) /\ pc'[r] = "info"
    BY <1>4, <2>2, ChosenIsNew
  <2>. QED
    BY <1>1, <1>4, <2>1, <2>2, NameStays
<1>. QED
  BY <1>3, <1>4

LEMMA ToldStep ==
  ASSUME TrashLeftAlone, FsInv, TrashInv, NEW r \in Slot, Step(r)
  PROVE  Told'
<1>. SUFFICES ASSUME NEW n, n \in DOMAIN info', n \notin contested', n \notin orphaned'
              PROVE  Accounts(n)'
  BY DEF Told
<1>1. OnTrack(r) /\ req' = req
  BY StepKeeps DEF TrashInv, Tracks, Proceeds
<1>2. n \notin contested
  BY DEF Step, Check, Create, Rename, Prepare, TryRename, CopyEntry, Copied, Delete, RemoveEntry,
     Removed, RemoveFails, Undone, ChooseTrashName, WriteTrashInfo, Compress, AddEntry, Decompress,
     ExtractEntry, Cleanup, ArchiveDone, history
<1>3. CASE Uses(r) /\ Name(r) = n
  <2>1. n \notin orphaned => OriginOK(r)
    BY <1>2, <1>3 DEF TrashInv, Origins
  <2>2. Accounted(r, n)
    BY <1>1, <1>3, <2>1, OwnStep
  <2>3. Settled(n)' \/ (Uses(r)' /\ Name(r)' = n /\ pc'[r] \in {"rename", "copy"})
    BY <2>2 DEF Accounted
  <2>. QED
    BY <2>3 DEF Accounts
<1>4. CASE ~(Uses(r) /\ Name(r) = n)
  <2>1. Keeping(info, info', n) /\ Keeping(from, from', n)
    BY <1>1, <1>4, InfoStays
  <2>2. n \in DOMAIN info /\ Accounts(n)
    <3>1. n \notin orphaned
      BY <1>1, <1>4, OrphansStay DEF OnTrack, Uses, Naming
    <3>. QED
      BY <1>2, <2>1, <3>1 DEF TrashInv, Told, Keeping
  <2>3. CASE Settled(n)
    <3>1. pc[r] = "undo" => n # Name(r)
      BY <1>1, <1>4 DEF OnTrack, Uses, Naming
    <3>2. Exists(disk', Place(n))
      BY <1>1, <2>3, <3>1, PlaceStays DEF Settled
    <3>3. Settled(n)'
      BY <2>1, <2>2, <2>3, <3>2 DEF Settled, Keeping
    <3>. QED
      BY <3>3 DEF Accounts
  <2>4. ASSUME NEW s \in Slot, Uses(s), Name(s) = n, pc[s] \in {"rename", "copy"} PROVE Accounts(n)'
    <3>1. s # r
      BY <1>4, <2>4
    <3>2. pc'[s] = pc[s] /\ to'[s] = to[s]
      BY <3>1, OthersStay
    <3>3. Uses(s)' /\ Name(s)' = n /\ pc'[s] \in {"rename", "copy"}
      BY <1>1, <2>4, <3>2 DEF Uses, Name
    <3>. QED
      BY <3>3 DEF Accounts
  <2>. QED
    BY <2>2, <2>3, <2>4 DEF Accounts
<1>. QED
  BY <1>3, <1>4

LEMMA TrashBegin ==
  ASSUME FsInv, TrashInv, NEW r \in Slot, NEW q \in Request, Begin(r, q)
  PROVE  TrashInv'
<1>1. /\ disk' = disk /\ info' = info /\ from' = from
      /\ contested' = contested /\ orphaned' = orphaned
      /\ req'[r] = q /\ pc'[r] = "check" /\ ~Active(r)
  BY DEF Begin, FsInv, Asked
<1>2. ASSUME NEW s \in Slot, s # r
      PROVE  /\ pc'[s] = pc[s] /\ to'[s] = to[s] /\ work'[s] = work[s] /\ at'[s] = at[s]
             /\ req'[s] = req[s]
  BY <1>2 DEF Begin, FsInv, Asked, Ready
<1>3. ~Uses(r)' /\ ~Uses(r)
  BY <1>1 DEF Uses, Naming, Active, Answers
<1>4. ASSUME NEW s \in Slot, s # r
      PROVE  /\ OnTrack(s) => OnTrack(s)'
             /\ Uses(s)' = Uses(s) /\ Name(s)' = Name(s) /\ OriginOK(s)' = OriginOK(s)
  BY <1>1, <1>2, <1>4 DEF OnTrack, Uses, Name, OriginOK, Settled, Src, Active
<1>5. OnTrack(r)'
  <2>1. /\ pc'[r] \in {"idle", "check"} \cup Answers
        /\ pc'[r] \notin {"info", "undo"} /\ pc'[r] \notin {"rename", "copy", "remove"}
        /\ pc'[r] \notin {"extract", "cleanup"} /\ req'[r] \in Request
    BY <1>1
  <2>. QED
    BY <1>3, <2>1 DEF OnTrack
<1>6. Tracks'
  BY <1>4, <1>5 DEF TrashInv, Tracks
<1>7. OneUser'
  BY <1>1, <1>3, <1>4 DEF TrashInv, OneUser
<1>8. Origins'
  BY <1>1, <1>3, <1>4 DEF TrashInv, Origins
<1>9. Told'
  <2>. SUFFICES ASSUME NEW n \in DOMAIN info', n \notin contested', n \notin orphaned'
                PROVE  Accounts(n)'
    BY DEF Told
  <2>1. Accounts(n)
    BY <1>1 DEF TrashInv, Told
  <2>2. Settled(n)' <=> Settled(n)
    BY <1>1 DEF Settled
  <2>3. ASSUME NEW s \in Slot, Uses(s), Name(s) = n, pc[s] \in {"rename", "copy"} PROVE Accounts(n)'
    <3>1. s # r
      BY <1>3, <2>3
    <3>2. Uses(s)' /\ Name(s)' = n /\ pc'[s] \in {"rename", "copy"}
      BY <1>2, <1>4, <2>3, <3>1
    <3>. QED
      BY <3>2 DEF Accounts
  <2>. QED
    BY <2>1, <2>2, <2>3 DEF Accounts
<1>. QED
  BY <1>6, <1>7, <1>8, <1>9 DEF TrashInv

\* Every name with a .trashinfo that no two requests chose at a time, and that
\* no failed write of the .trashinfo left behind, has its file and its true
\* origin, or a request that is about to put the file there or else to remove
\* the .trashinfo.
THEOREM TrashInvariant == TrashLeftAlone => (Spec => []TrashInv)
<1>. SUFFICES ASSUME TrashLeftAlone PROVE Spec => []TrashInv
  OBVIOUS
<1>1. Init => TrashInv
  <2>. SUFFICES ASSUME Init PROVE TrashInv
    OBVIOUS
  <2>1. \A r \in Slot : pc[r] = "idle" /\ ~Uses(r)
    BY DEF Init, Uses, Naming
  <2>2. DOMAIN info = {}
    BY DEF Init
  <2>3. Tracks
    BY <2>1 DEF Tracks, OnTrack, Active
  <2>. QED
    BY <2>1, <2>2, <2>3 DEF TrashInv, OneUser, Origins, Told
<1>2. FsInv /\ TrashInv /\ [Next]_vars => TrashInv'
  <2>. SUFFICES ASSUME FsInv, TrashInv, [Next]_vars PROVE TrashInv'
    OBVIOUS
  <2>1. CASE UNCHANGED vars
    BY <2>1 DEF TrashInv, Tracks, OneUser, Origins, Told, Accounts, OnTrack, OriginOK, Uses, Name,
       Settled, Src, Active, vars, request, history
  <2>2. ASSUME NEW r \in Slot, Step(r) PROVE TrashInv'
    <3>1. Tracks' /\ OneUser'
      BY <2>2, TracksStep, OneUserStep DEF TrashInv
    <3>2. Origins' /\ Told'
      BY <2>2, OriginsStep, ToldStep
    <3>. QED
      BY <3>1, <3>2 DEF TrashInv
  <2>3. ASSUME NEW r \in Slot, NEW q \in Request, Begin(r, q) PROVE TrashInv'
    BY <2>3, TrashBegin
  <2>. QED
    BY <2>1, <2>2, <2>3 DEF Next
<1>. QED
  BY <1>1, <1>2, InvariantHolds, PTL DEF Spec

\* Where no request is given the trash itself or what stands directly in it,
\* every .trashinfo at rest has its file and tells where that file came from,
\* in whatever order requests ran and wherever they failed, unless two of them
\* chose its name at a time or its own write was what failed.
THEOREM TrashIsTold == TrashLeftAlone => (Spec => []TrashTellsOrigin)
<1>. SUFFICES ASSUME TrashLeftAlone PROVE Spec => []TrashTellsOrigin
  OBVIOUS
<1>1. TrashInv => TrashTellsOrigin
  <2>. SUFFICES ASSUME TrashInv, \A r \in Slot : ~Active(r),
                       NEW n \in DOMAIN info \ (contested \cup orphaned)
                PROVE  /\ Exists(disk, Append(TrashFiles, n))
                       /\ n \in DOMAIN from /\ from[n] = info[n]
    BY DEF TrashTellsOrigin
  <2>1. \A r \in Slot : ~Uses(r)
    BY DEF Active, Uses, Naming, Answers
  <2>. QED
    BY <2>1 DEF TrashInv, Told, Accounts, Settled, Place
<1>. QED
  BY <1>1, TrashInvariant, PTL
=============================================================================
