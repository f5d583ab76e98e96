---------------------------- MODULE NtfsScanProofs ----------------------------
(***************************************************************************)
(* What module NtfsScan promises, for volumes of every size and any number *)
(* of changes others make to the table meanwhile: the list of files is     *)
(* always in order, a scan which has not been stopped lists each stream of *)
(* an untouched file once, with exactly its clusters, and what is listed   *)
(* has its real path, if the directories above it are untouched as well.   *)
(*                                                                         *)
(* The argument: others change the records of a file only together with    *)
(* the file itself, so an untouched file looks the same whenever one of    *)
(* its records is read.  While it is read the list holds the pieces of the *)
(* records up to the position in its attribute list; what follows belongs  *)
(* to other files and stays away from its entries.  The best of its names  *)
(* and its directory are known when its records have been read, and the    *)
(* index of a directory is what is found of it; so each step up a path is  *)
(* a step along the parents, which end at the root.                        *)
(***************************************************************************)
EXTENDS NtfsScan, SequenceTheorems, FiniteSetTheorems, WellFoundedInduction, TLAPS

-----------------------------------------------------------------------------
(* Sequences, of whatever they consist.                                    *)

LEMMA SequenceIs ==
    ASSUME NEW s, IsSequence(s)
    PROVE  s \in Seq({s[i] : i \in 1 .. Len(s)}) /\ DOMAIN s = 1 .. Len(s) /\ Len(s) \in Nat
<1> DEFINE S == {s[i] : i \in 1 .. Len(s)}
<1>1. Len(s) \in Nat /\ s = [i \in 1 .. Len(s) |-> s[i]]
    BY DEF IsSequence
<1>2. s \in [1 .. Len(s) -> S]
    BY <1>1
<1>3. s \in Seq(S)
    BY <1>1, <1>2, SeqDef
<1> QED
    BY <1>1, <1>3

LEMMA IsSequenceOf ==
    ASSUME NEW s, NEW n \in Nat, s = [i \in 1 .. n |-> s[i]]
    PROVE  IsSequence(s) /\ Len(s) = n /\ DOMAIN s = 1 .. n
<1> DEFINE S == {s[i] : i \in 1 .. n}
<1>1. s \in [1 .. n -> S]
    OBVIOUS
<1>2. s \in Seq(S)
    BY <1>1, SeqDef
<1>3. DOMAIN s = 1 .. n /\ Len(s) \in Nat /\ DOMAIN s = 1 .. Len(s)
    BY <1>2, LenProperties
<1>4. Len(s) = n
    BY <1>3
<1> QED
    BY <1>3, <1>4 DEF IsSequence

LEMMA InSeq ==
    ASSUME NEW S, NEW s \in Seq(S)
    PROVE  IsSequence(s) /\ Len(s) \in Nat /\ DOMAIN s = 1 .. Len(s)
<1>1. Len(s) \in Nat /\ s \in [1 .. Len(s) -> S]
    BY LenProperties
<1> QED
    BY <1>1 DEF IsSequence

LEMMA EmptyIs ==
    /\ IsSequence(<<>>) /\ Len(<<>>) = 0
    /\ \A s : IsSequence(s) => (s = <<>> <=> Len(s) = 0)
<1>1. IsSequence(<<>>) /\ Len(<<>>) = 0
    BY EmptySeq, InSeq
<1>2. ASSUME NEW s, IsSequence(s), Len(s) = 0 PROVE s = <<>>
    BY <1>2, SequenceIs, EmptySeq
<1> QED
    BY <1>1, <1>2

LEMMA Same ==
    ASSUME NEW s, NEW t, IsSequence(s), IsSequence(t), Len(s) = Len(t),
           \A i \in 1 .. Len(s) : s[i] = t[i]
    PROVE  s = t
BY DEF IsSequence

LEMMA AppendIs ==
    ASSUME NEW s, NEW x, IsSequence(s)
    PROVE  /\ IsSequence(Append(s, x)) /\ Len(Append(s, x)) = Len(s) + 1
           /\ \A i \in 1 .. Len(s) : Append(s, x)[i] = s[i]
           /\ Append(s, x)[Len(s) + 1] = x
<1> DEFINE T == {s[i] : i \in 1 .. Len(s)}
           S == T \cup {x}
<1>1. s \in Seq(T)
    BY SequenceIs
<1>2. T \subseteq S /\ x \in S
    OBVIOUS
<1> HIDE DEF T, S
<1>3. s \in Seq(S)
    BY <1>1, <1>2, SeqMonotonic
<1>4. /\ Append(s, x) \in Seq(S) /\ Len(Append(s, x)) = Len(s) + 1
      /\ \A i \in 1 .. Len(s) : Append(s, x)[i] = s[i]
      /\ Append(s, x)[Len(s) + 1] = x
    BY <1>2, <1>3, AppendProperties
<1>5. IsSequence(Append(s, x))
    BY <1>4, InSeq
<1> QED
    BY <1>4, <1>5

LEMMA ConcatIs ==
    ASSUME NEW s, NEW t, IsSequence(s), IsSequence(t)
    PROVE  /\ IsSequence(s \o t) /\ Len(s \o t) = Len(s) + Len(t)
           /\ \A i \in 1 .. Len(s) : (s \o t)[i] = s[i]
           /\ \A i \in 1 .. Len(t) : (s \o t)[Len(s) + i] = t[i]
<1> DEFINE T == {s[i] : i \in 1 .. Len(s)}
           U == {t[i] : i \in 1 .. Len(t)}
           S == T \cup U
<1>0. s \in Seq(T) /\ t \in Seq(U) /\ Len(s) \in Nat /\ Len(t) \in Nat
    BY SequenceIs
<1> HIDE DEF T, U
<1>1. s \in Seq(S) /\ t \in Seq(S) /\ Len(s) \in Nat /\ Len(t) \in Nat
    BY <1>0, SeqMonotonic
<1> HIDE DEF S
<1>2. s \o t \in Seq(S) /\ Len(s \o t) = Len(s) + Len(t)
    BY <1>1, ConcatProperties
<1>3. \A i \in 1 .. Len(s) + Len(t) : (s \o t)[i] = IF i <= Len(s) THEN s[i] ELSE t[i - Len(s)]
    BY <1>1, ConcatProperties
<1>4. ASSUME NEW i \in 1 .. Len(t) PROVE (s \o t)[Len(s) + i] = t[i]
    <2>1. Len(s) + i \in 1 .. Len(s) + Len(t) /\ ~(Len(s) + i <= Len(s)) /\ (Len(s) + i) - Len(s) = i
        BY <1>1
    <2> QED
        BY <2>1, <1>3
<1>5. ASSUME NEW i \in 1 .. Len(s) PROVE (s \o t)[i] = s[i]
    BY <1>1, <1>3
<1> QED
    BY <1>2, <1>4, <1>5, InSeq

LEMMA OneIs ==
    ASSUME NEW x
    PROVE  IsSequence(<<x>>) /\ Len(<<x>>) = 1 /\ <<x>>[1] = x
<1>1. <<x>> \in Seq({x})
    OBVIOUS
<1> QED
    BY <1>1, InSeq

LEMMA TailIs ==
    ASSUME NEW s, IsSequence(s), s # <<>>
    PROVE  /\ IsSequence(Tail(s)) /\ Len(s) > 0 /\ Len(Tail(s)) = Len(s) - 1
           /\ \A i \in 1 .. Len(s) - 1 : Tail(s)[i] = s[i + 1]
           /\ Head(s) = s[1]
<1> DEFINE S == {s[i] : i \in 1 .. Len(s)}
<1>1. s \in Seq(S) /\ Len(s) \in Nat
    BY SequenceIs
<1> HIDE DEF S
<1>2. Len(s) > 0
    BY <1>1, EmptyIs
<1>3. /\ Tail(s) \in Seq(S) /\ Len(Tail(s)) = Len(s) - 1
      /\ \A i \in 1 .. Len(Tail(s)) : Tail(s)[i] = s[i + 1]
    BY <1>1, HeadTailProperties
<1>4. Head(s) = s[1]
    BY <1>1, <1>2
<1>5. IsSequence(Tail(s))
    BY <1>3, InSeq
<1> QED
    BY <1>2, <1>3, <1>4, <1>5

\* Induction over the beginning of the natural numbers, for the set of those for
\* which a claim holds.
LEMMA UpTo ==
    ASSUME NEW n \in Nat, NEW T, 0 \in T, \A k \in 0 .. n - 1 : k \in T => k + 1 \in T
    PROVE  \A k \in 0 .. n : k \in T
<1> SUFFICES ASSUME NEW k \in 0 .. n, k \notin T PROVE FALSE
    OBVIOUS
<1> DEFINE R == OpToRel(<, Nat)
           Bad == {j \in 0 .. n : j \notin T}
<1>1. IsWellFoundedOn(R, Nat)
    BY NatLessThanWellFounded
<1>2. \A x, y \in Nat : y < x => <<y, x>> \in R
    BY DEF OpToRel
<1>3. Bad \subseteq Nat /\ Bad # {}
    OBVIOUS
<1> HIDE DEF R
<1>4. PICK x \in Bad : \A y \in Bad : ~ (<<y, x>> \in R)
    BY <1>1, <1>3, WFMin
<1>5. x # 0 /\ x - 1 \in 0 .. n - 1 /\ (x - 1) + 1 = x /\ x - 1 \in 0 .. n
    BY <1>4
<1>6. x - 1 \in T
    <2>1. x - 1 < x /\ x - 1 \in Nat /\ x \in Nat
        BY <1>3, <1>4, <1>5
    <2>2. <<x - 1, x>> \in R
        BY <1>2, <2>1
    <2>3. x - 1 \notin Bad
        BY <1>4, <2>2
    <2> QED
        BY <1>5, <2>3
<1> QED
    BY <1>4, <1>5, <1>6

LEMMA MinIsLeast ==
    ASSUME NEW T, T \subseteq Nat, T # {}
    PROVE  Min(T) \in T /\ \A x \in T : Min(T) <= x
<1> DEFINE R == OpToRel(<, Nat)
<1>1. IsWellFoundedOn(R, Nat)
    BY NatLessThanWellFounded
<1>2. \A x, y \in Nat : y < x => <<y, x>> \in R
    BY DEF OpToRel
<1> HIDE DEF R
<1>3. PICK x \in T : \A y \in T : ~ (<<y, x>> \in R)
    BY <1>1, WFMin
<1>4. x \in Nat /\ \A y \in T : y \in Nat
    OBVIOUS
<1>5. \A y \in T : ~ (y < x)
    BY <1>2, <1>3, <1>4, Zenon
<1>6. \A y \in T : x <= y
    BY <1>4, <1>5
<1> QED
    BY <1>6 DEF Min

LEMMA ConcatEmpty ==
    ASSUME NEW s, IsSequence(s)
    PROVE  <<>> \o s = s /\ s \o <<>> = s
<1>1. Len(s) \in Nat
    BY SequenceIs
<1>2. Len(<<>> \o s) = Len(s) /\ IsSequence(<<>> \o s) /\ \A i \in 1 .. Len(s) : (<<>> \o s)[0 + i] = s[i]
    BY EmptyIs, ConcatIs, <1>1
<1>3. Len(s \o <<>>) = Len(s) /\ IsSequence(s \o <<>>) /\ \A i \in 1 .. Len(s) : (s \o <<>>)[i] = s[i]
    BY EmptyIs, ConcatIs, <1>1
<1> QED
    BY <1>2, <1>3, Same

\* FlattenSeq puts one sequence behind the other.
LEMMA FlattenIs ==
    ASSUME NEW ss, IsSequence(ss), \A i \in 1 .. Len(ss) : IsSequence(ss[i])
    PROVE  \E g : /\ g[0] = <<>> /\ g[Len(ss)] = FlattenSeq(ss)
                  /\ \A n \in 0 .. Len(ss) : IsSequence(g[n])
                  /\ \A n \in 1 .. Len(ss) : g[n] = g[n - 1] \o ss[n]
<1> DEFINE N == Len(ss)
           Is(f, n) == f = [i \in 1 .. n |-> IF i = 1 THEN ss[i] ELSE f[i - 1] \o ss[i]]
           T == {n \in 0 .. N : \E f : Is(f, n)}
<1>0. N \in Nat
    BY SequenceIs
<1>1. 0 \in T
    <2>1. Is(<<>>, 0)
        OBVIOUS
    <2> HIDE DEF Is
    <2> QED
        BY <2>1, <1>0
<1>2. ASSUME NEW k \in 0 .. N - 1, k \in T PROVE k + 1 \in T
    <2>1. PICK f : Is(f, k)
        BY <1>2
    <2> DEFINE v == [i \in 1 .. k + 1 |->
                        IF i = 1 THEN ss[i] ELSE IF i \in 1 .. k THEN f[i] ELSE f[k] \o ss[i]]
    <2>2. ASSUME NEW i \in 1 .. k PROVE v[i] = f[i]
        <3>1. f[i] = IF i = 1 THEN ss[i] ELSE f[i - 1] \o ss[i]
            BY <2>1
        <3> QED
            BY <3>1
    <2>3. ASSUME NEW i \in 1 .. k + 1
          PROVE  v[i] = IF i = 1 THEN ss[i] ELSE v[i - 1] \o ss[i]
        <3>1. CASE i = 1
            BY <3>1
        <3>2. CASE i # 1 /\ i \in 1 .. k
            <4>1. i \in 1 .. k /\ i - 1 \in 1 .. k
                BY <3>2
            <4>3. f[i] = IF i = 1 THEN ss[i] ELSE f[i - 1] \o ss[i]
                BY <2>1, <4>1
            <4>2. v[i] = f[i] /\ v[i - 1] = f[i - 1]
                BY <4>1, <2>2
            <4> HIDE DEF v
            <4> QED
                BY <4>2, <4>3, <3>2
        <3>3. CASE i # 1 /\ i \notin 1 .. k
            <4>1. i = k + 1 /\ i - 1 = k /\ k \in 1 .. k
                BY <3>3
            <4>2. v[i] = f[k] \o ss[i]
                BY <3>3
            <4> QED
                BY <4>1, <4>2, <2>2, <3>3
        <3> QED
            BY <3>1, <3>2, <3>3
    <2>4. v = [i \in 1 .. k + 1 |-> v[i]]
        OBVIOUS
    <2> HIDE DEF v
    <2>5. Is(v, k + 1)
        BY <2>3, <2>4
    <2> HIDE DEF Is
    <2>6. k + 1 \in 0 .. N
        BY <1>0
    <2> QED
        BY <2>5, <2>6
<1>3. N \in T
    <2> HIDE DEF T
    <2>1. \A k \in 0 .. N : k \in T
        BY <1>0, <1>1, <1>2, UpTo
    <2> QED
        BY <1>0, <2>1
<1> DEFINE F == CHOOSE f : Is(f, N)
<1>4. Is(F, N)
    BY <1>3
<1>5. CASE N = 0
    <2> DEFINE g == [n \in 0 .. 0 |-> <<>>]
    <2>1. FlattenSeq(ss) = <<>>
        BY <1>5, EmptyIs DEF FlattenSeq
    <2>2. g[0] = <<>> /\ g[Len(ss)] = FlattenSeq(ss)
        BY <1>5, <2>1
    <2>3. \A n \in 0 .. Len(ss) : g[n] = <<>>
        BY <1>5
    <2> HIDE DEF g
    <2> QED
        BY <1>5, <2>2, <2>3, EmptyIs
<1>6. CASE N # 0
    <2>1. FlattenSeq(ss) = F[N]
        BY <1>6 DEF FlattenSeq
    <2> HIDE DEF F
    <2> DEFINE g == [n \in 0 .. N |-> IF n = 0 THEN <<>> ELSE F[n]]
    <2>2. g[0] = <<>> /\ g[N] = FlattenSeq(ss)
        BY <1>0, <1>6, <2>1
    <2>3. ASSUME NEW n \in 1 .. N PROVE g[n] = g[n - 1] \o ss[n]
        <3>1. F[n] = IF n = 1 THEN ss[n] ELSE F[n - 1] \o ss[n]
            BY <1>4
        <3>2. g[n] = F[n]
            BY <1>0
        <3>3. CASE n = 1
            <4>1. g[n - 1] = <<>>
                BY <3>3, <1>0
            <4>2. <<>> \o ss[n] = ss[n]
                BY ConcatEmpty
            <4> QED
                BY <3>1, <3>2, <3>3, <4>1, <4>2
        <3>4. CASE n # 1
            <4>1. g[n - 1] = F[n - 1]
                BY <3>4, <1>0
            <4> QED
                BY <3>1, <3>2, <3>4, <4>1
        <3> QED
            BY <3>3, <3>4
    <2> HIDE DEF g
    <2> DEFINE U == {n \in 0 .. N : IsSequence(g[n])}
    <2>4. 0 \in U
        BY <1>0, <2>2, EmptyIs
    <2>5. ASSUME NEW k \in 0 .. N - 1, k \in U PROVE k + 1 \in U
        <3>1. k + 1 \in 1 .. N /\ k + 1 \in 0 .. N /\ (k + 1) - 1 = k
            BY <1>0
        <3>2. g[k + 1] = g[k] \o ss[k + 1]
            BY <2>3, <3>1
        <3>3. IsSequence(g[k] \o ss[k + 1])
            BY <3>1, <2>5, ConcatIs
        <3> QED
            BY <3>1, <3>2, <3>3
    <2> HIDE DEF U
    <2>6. \A k \in 0 .. N : k \in U
        BY <1>0, <2>4, <2>5, UpTo
    <2>7. \A k \in 0 .. N : IsSequence(g[k])
        BY <2>6 DEF U
    <2> QED
        BY <2>2, <2>3, <2>7
<1> QED
    BY <1>5, <1>6

LEMMA AppendConcat ==
    ASSUME NEW s, NEW x, IsSequence(s)
    PROVE  Append(s, x) = s \o <<x>>
<1>0. Len(s) \in Nat
    BY SequenceIs
<1>1. /\ IsSequence(Append(s, x)) /\ Len(Append(s, x)) = Len(s) + 1
      /\ \A i \in 1 .. Len(s) : Append(s, x)[i] = s[i]
      /\ Append(s, x)[Len(s) + 1] = x
    BY AppendIs
<1>2. /\ IsSequence(s \o <<x>>) /\ Len(s \o <<x>>) = Len(s) + 1
      /\ \A i \in 1 .. Len(s) : (s \o <<x>>)[i] = s[i]
      /\ \A i \in 1 .. 1 : (s \o <<x>>)[Len(s) + i] = <<x>>[i]
    <2>1. IsSequence(<<x>>) /\ Len(<<x>>) = 1
        BY OneIs
    <2>2. /\ IsSequence(s \o <<x>>) /\ Len(s \o <<x>>) = Len(s) + Len(<<x>>)
          /\ \A i \in 1 .. Len(s) : (s \o <<x>>)[i] = s[i]
          /\ \A i \in 1 .. Len(<<x>>) : (s \o <<x>>)[Len(s) + i] = <<x>>[i]
        BY <2>1, ConcatIs
    <2> QED
        BY <2>1, <2>2, Zenon
<1>3. (s \o <<x>>)[Len(s) + 1] = x
    <2>1. 1 \in 1 .. 1
        OBVIOUS
    <2> QED
        BY <1>2, <2>1, OneIs
<1>4. \A i \in 1 .. Len(s) + 1 : i = Len(s) + 1 \/ i \in 1 .. Len(s)
    BY <1>0
<1>5. \A i \in 1 .. Len(s) + 1 : Append(s, x)[i] = (s \o <<x>>)[i]
    BY <1>1, <1>2, <1>3, <1>4
<1> QED
    BY <1>1, <1>2, <1>5, Same

\* Which members of x are in C: they are selected in their order.
Selected(q, x, n, C, h) ==
    /\ \A j \in 1 .. Len(q) : h[j] \in 1 .. n /\ h[j] \in C /\ q[j] = x[h[j]]
    /\ \A j, k \in 1 .. Len(q) : j < k => h[j] < h[k]
    /\ \A i \in 1 .. n : i \in C => \E j \in 1 .. Len(q) : h[j] = i

LEMMA SelectionIs ==
    ASSUME NEW n \in Nat, NEW C, NEW x, NEW ss,
           ss = [i \in 1 .. n |-> IF i \in C THEN <<x[i]>> ELSE <<>>]
    PROVE  IsSequence(FlattenSeq(ss)) /\ \E h : Selected(FlattenSeq(ss), x, n, C, h)
<1>1. IsSequence(ss) /\ Len(ss) = n
    BY IsSequenceOf
<1>2. \A i \in 1 .. n : IsSequence(ss[i])
    BY OneIs, EmptyIs
<1>3. PICK g : /\ g[0] = <<>> /\ g[n] = FlattenSeq(ss)
               /\ \A m \in 0 .. n : IsSequence(g[m])
               /\ \A m \in 1 .. n : g[m] = g[m - 1] \o ss[m]
    BY <1>1, <1>2, FlattenIs
<1> DEFINE T == {m \in 0 .. n : \E h : Selected(g[m], x, m, C, h)}
<1>4. 0 \in T
    <2>1. Selected(g[0], x, 0, C, <<>>)
        BY <1>3, EmptyIs DEF Selected
    <2> QED
        BY <2>1
<1>5. ASSUME NEW k \in 0 .. n - 1, k \in T PROVE k + 1 \in T
    <2>1. PICK h : Selected(g[k], x, k, C, h)
        BY <1>5
    <2>2. /\ k + 1 \in 1 .. n /\ k + 1 \in 0 .. n /\ (k + 1) - 1 = k /\ k \in 0 .. n
          /\ \A i \in 1 .. k + 1 : i = k + 1 \/ i \in 1 .. k
        OBVIOUS
    <2>3. g[k + 1] = g[k] \o ss[k + 1] /\ IsSequence(g[k]) /\ Len(g[k]) \in Nat
        BY <1>3, <2>2, SequenceIs
    <2>4. CASE k + 1 \in C
        <3> DEFINE L == Len(g[k])
                   v == [j \in 1 .. L + 1 |-> IF j = L + 1 THEN k + 1 ELSE h[j]]
        <3>1. ss[k + 1] = <<x[k + 1]>>
            BY <2>2, <2>4
        <3>2. g[k + 1] = Append(g[k], x[k + 1])
            BY <2>3, <3>1, AppendConcat
        <3>3. /\ Len(g[k + 1]) = L + 1 /\ \A j \in 1 .. L : g[k + 1][j] = g[k][j]
              /\ g[k + 1][L + 1] = x[k + 1]
            <4>1. /\ Len(Append(g[k], x[k + 1])) = L + 1
                  /\ \A j \in 1 .. L : Append(g[k], x[k + 1])[j] = g[k][j]
                  /\ Append(g[k], x[k + 1])[L + 1] = x[k + 1]
                BY <2>3, AppendIs
            <4> QED
                BY <3>2, <4>1, Zenon
        <3>4. /\ \A j \in 1 .. L : v[j] = h[j]
              /\ v[L + 1] = k + 1
              /\ \A j \in 1 .. L + 1 : j = L + 1 \/ j \in 1 .. L
            BY <2>3
        <3>5. L + 1 \in 1 .. L + 1 /\ \A j \in 1 .. L : j \in 1 .. L + 1
            BY <2>3
        <3> HIDE DEF v
        <3>6. ASSUME NEW j \in 1 .. L + 1
              PROVE  v[j] \in 1 .. k + 1 /\ v[j] \in C /\ g[k + 1][j] = x[v[j]]
            <4>1. CASE j = L + 1
                BY <2>2, <2>4, <3>3, <3>4, <4>1
            <4>2. CASE j \in 1 .. L
                <5>1. h[j] \in 1 .. k /\ h[j] \in C /\ g[k][j] = x[h[j]]
                    BY <2>1, <4>2 DEF Selected
                <5>2. v[j] = h[j] /\ g[k + 1][j] = g[k][j]
                    BY <3>3, <3>4, <4>2
                <5> QED
                    BY <5>1, <5>2
            <4> QED
                BY <3>4, <4>1, <4>2
        <3>7. ASSUME NEW j \in 1 .. L + 1, NEW i \in 1 .. L + 1, j < i PROVE v[j] < v[i]
            <4>1. j \in 1 .. L
                BY <2>3, <3>7
            <4>2. v[j] = h[j] /\ h[j] \in 1 .. k
                BY <2>1, <3>4, <4>1 DEF Selected
            <4>3. CASE i = L + 1
                BY <3>4, <4>2, <4>3
            <4>4. CASE i \in 1 .. L
                BY <2>1, <3>4, <3>7, <4>1, <4>4 DEF Selected
            <4> QED
                BY <3>4, <4>3, <4>4
        <3>8. ASSUME NEW i \in 1 .. k + 1, i \in C PROVE \E j \in 1 .. L + 1 : v[j] = i
            BY <2>1, <2>2, <3>4, <3>5, <3>8 DEF Selected
        <3>9. Selected(g[k + 1], x, k + 1, C, v)
            BY <3>3, <3>6, <3>7, <3>8 DEF Selected
        <3> QED
            BY <2>2, <3>9
    <2>5. CASE k + 1 \notin C
        <3>1. ss[k + 1] = <<>>
            BY <2>2, <2>5
        <3>2. g[k + 1] = g[k]
            BY <2>3, <3>1, ConcatEmpty
        <3>3. Selected(g[k + 1], x, k + 1, C, h)
            <4>1. /\ \A j \in 1 .. Len(g[k]) : h[j] \in 1 .. k /\ h[j] \in C /\ g[k][j] = x[h[j]]
                  /\ \A j, i \in 1 .. Len(g[k]) : j < i => h[j] < h[i]
                  /\ \A i \in 1 .. k : i \in C => \E j \in 1 .. Len(g[k]) : h[j] = i
                BY <2>1 DEF Selected
            <4>2. \A i \in 1 .. k : i \in 1 .. k + 1
                OBVIOUS
            <4>3. \A j \in 1 .. Len(g[k]) : h[j] \in 1 .. k + 1 /\ h[j] \in C /\ g[k][j] = x[h[j]]
                BY <4>1, <4>2
            <4>4. \A i \in 1 .. k + 1 : i \in C => \E j \in 1 .. Len(g[k]) : h[j] = i
                BY <2>2, <2>5, <4>1
            <4> QED
                BY <3>2, <4>1, <4>3, <4>4 DEF Selected
        <3> QED
            BY <2>2, <3>3
    <2> QED
        BY <2>4, <2>5
<1>6. n \in T
    <2> HIDE DEF T
    <2>1. \A k \in 0 .. n : k \in T
        BY <1>4, <1>5, UpTo
    <2> QED
        BY <2>1
<1> QED
    BY <1>3, <1>6

-----------------------------------------------------------------------------
(* The table.                                                              *)

IsAttributes(attrs) == IsSequence(attrs) /\ \A i \in DOMAIN attrs : IsAttribute(attrs[i])
IsList(list) ==
    /\ IsSequence(list)
    /\ \A i \in DOMAIN list :
        list[i] = [id |-> list[i].id, key |-> list[i].key] /\ list[i].id \in Records

LEMMA DataIs ==
    ASSUME NEW key \in Keys \cup {<<"list", "">>}, NEW vcn, NEW lcn
    PROVE  /\ Data(key, vcn, lcn).kind = "data" /\ Key(Data(key, vcn, lcn)) = key
           /\ Data(key, vcn, lcn).vcn = vcn /\ Data(key, vcn, lcn).lcn = lcn
           /\ key \in Keys => IsAttribute(Data(key, vcn, lcn))
<1> DEFINE a == Data(key, vcn, lcn)
<1>1. \E x, y \in {"data", "", "named", "root", "$I30", "index", "bitmap", "list"} : key = <<x, y>>
    BY DEF Keys, Contents, NamedStream, IndexRoot, Index, IndexBitmap, Bitmap
<1>2. PICK x, y : key = <<x, y>>
    BY <1>1
<1>3. key[1] = x /\ key[2] = y
    BY <1>2
<1>4. /\ a.kind = "data" /\ a.type = key[1] /\ a.name = key[2] /\ a.vcn = vcn /\ a.lcn = lcn
    BY DEF Data
<1>5. Key(a) = key
    BY <1>2, <1>3, <1>4 DEF Key
<1>6. a = Data(Key(a), a.vcn, a.lcn)
    BY <1>4, <1>5
<1> HIDE DEF a
<1>7. key \in Keys => IsAttribute(a)
    BY <1>4, <1>5, <1>6 DEF IsAttribute
<1> QED
    BY <1>4, <1>5, <1>7 DEF a

LEMMA ListAttributeIs ==
    ASSUME NEW lcn
    PROVE  Data(<<"list", "">>, 0, lcn).kind = "data" /\ Key(Data(<<"list", "">>, 0, lcn)) = <<"list", "">>
<1> DEFINE a == Data(<<"list", "">>, 0, lcn)
<1>1. a.kind = "data" /\ a.type = "list" /\ a.name = ""
    BY DEF Data
<1> HIDE DEF a
<1>2. Key(a) = <<"list", "">>
    BY <1>1 DEF Key
<1> QED
    BY <1>1, <1>2 DEF a

LEMMA NoneListed == IsAttributes(<<>>) /\ IsList(<<>>)
BY EmptyIs DEF IsAttributes, IsList

LEMMA FreeIs ==
    ASSUME NEW seq
    PROVE  IsRecord(Free(seq)) /\ Free(seq).used = FALSE
BY NoneListed DEF Free, Record, IsRecord, IsAttributes, IsList

LEMMA BaseIs ==
    ASSUME NEW seq, NEW attrs, IsAttributes(attrs)
    PROVE  IsRecord(Base(seq, attrs)) /\ Base(seq, attrs).base = None
BY NoneListed DEF Base, Record, IsRecord, IsAttributes, IsList

LEMMA ChildIs ==
    ASSUME NEW seq, NEW attrs, IsAttributes(attrs), NEW r \in Records
    PROVE  /\ IsRecord(Child(seq, r, attrs)) /\ Child(seq, r, attrs).base = r
           /\ Child(seq, r, attrs).used
BY NoneListed DEF Child, Record, IsRecord, IsAttributes, IsList

LEMMA Reattributed ==
    ASSUME NEW m, IsRecord(m), NEW attrs, IsAttributes(attrs)
    PROVE  /\ [m EXCEPT !.attrs = attrs] = [used |-> m.used, seq |-> m.seq, base |-> m.base,
                       attrs |-> attrs, list |-> m.list, resident |-> m.resident]
           /\ IsRecord([m EXCEPT !.attrs = attrs])
           /\ [m EXCEPT !.attrs = attrs].used = m.used /\ [m EXCEPT !.attrs = attrs].base = m.base
<1>1. m = [used |-> m.used, seq |-> m.seq, base |-> m.base, attrs |-> m.attrs,
           list |-> m.list, resident |-> m.resident]
    BY DEF IsRecord
<1>2. /\ m.used \in BOOLEAN /\ m.base \in Records \cup {None} /\ m.resident \in BOOLEAN
      /\ IsList(m.list)
    BY DEF IsRecord, IsAttributes, IsList
<1>3. [m EXCEPT !.attrs = attrs] = [used |-> m.used, seq |-> m.seq, base |-> m.base,
           attrs |-> attrs, list |-> m.list, resident |-> m.resident]
    BY <1>1
<1> QED
    BY <1>2, <1>3 DEF IsRecord, IsAttributes, IsList

LEMMA Relisted ==
    ASSUME NEW m, IsRecord(m), NEW list, IsList(list)
    PROVE  /\ IsRecord([m EXCEPT !.list = list])
           /\ [m EXCEPT !.list = list].used = m.used /\ [m EXCEPT !.list = list].base = m.base
<1>1. m = [used |-> m.used, seq |-> m.seq, base |-> m.base, attrs |-> m.attrs,
           list |-> m.list, resident |-> m.resident]
    BY DEF IsRecord
<1>2. /\ m.used \in BOOLEAN /\ m.base \in Records \cup {None} /\ m.resident \in BOOLEAN
      /\ IsAttributes(m.attrs)
    BY DEF IsRecord, IsAttributes, IsList
<1>3. [m EXCEPT !.list = list] = [used |-> m.used, seq |-> m.seq, base |-> m.base,
           attrs |-> m.attrs, list |-> list, resident |-> m.resident]
    BY <1>1
<1> QED
    BY <1>2, <1>3 DEF IsRecord, IsAttributes, IsList

\* What others do is done to the records of S; a child is one of them exactly
\* when its base record is.
Turned(m, S) == m.used /\ m.base # None => m.base \in S
Disturbed(old, new, S) ==
    /\ S \subseteq Records
    /\ new = [r \in Records |-> new[r]]
    /\ \A r \in Records : IsRecord(new[r])
    /\ \A r \in Records \ S : new[r] = old[r]
    /\ \A r \in S : Turned(old[r], S) /\ Turned(new[r], S)
    /\ new[0].used /\ new[0].base = None

TableSound ==
    /\ mft = [r \in Records |-> mft[r]] /\ \A r \in Records : IsRecord(mft[r])
    /\ IsBase(0)
    /\ touched \subseteq Records
    /\ \A c \in touched : Turned(mft[c], touched)
    /\ \A r \in Records \ touched : IsBase(r) => Right(mft, r)

LEMMA RecordFacts ==
    ASSUME TableSound
    PROVE  /\ 0 \in Records /\ Root \in Records /\ None \notin Records
           /\ \A r \in Records : IsAttributes(mft[r].attrs) /\ IsList(mft[r].list)
           /\ \A r \in Records : IsBase(r) => mft[r].base = None /\ mft[r].used
           /\ \A r \in Records : \A c \in ChildrenOf(r) : c \in Records /\ mft[c].used /\ mft[c].base = r
<1>1. 0 \in Records /\ Root \in Records /\ None \notin Records
    BY MftAssumption DEF Records, None
<1>2. \A r \in Records : IsAttributes(mft[r].attrs) /\ IsList(mft[r].list)
    BY DEF TableSound, IsRecord, IsAttributes, IsList
<1>3. /\ \A r \in Records : IsBase(r) => mft[r].base = None /\ mft[r].used
      /\ \A r \in Records : \A c \in ChildrenOf(r) : c \in Records /\ mft[c].used /\ mft[c].base = r
    BY DEF IsBase, ChildrenOf
<1> QED
    BY <1>1, <1>2, <1>3

LEMMA OthersDisturb ==
    ASSUME TableSound, Others
    PROVE  \E S : touched' = touched \cup S /\ Disturbed(mft, mft', S)
<1>0. /\ 0 \in Records /\ Root \in Records /\ None \notin Records
      /\ \A r \in Records : IsAttributes(mft[r].attrs) /\ IsList(mft[r].list)
      /\ \A r \in Records : IsBase(r) => mft[r].base = None /\ mft[r].used
      /\ \A r \in Records : \A c \in ChildrenOf(r) : c \in Records /\ mft[c].used /\ mft[c].base = r
    BY RecordFacts
<1>1. /\ mft = [r \in Records |-> mft[r]] /\ \A r \in Records : IsRecord(mft[r])
      /\ mft[0].used /\ mft[0].base = None
    BY DEF TableSound, IsBase
<1>2. IsAttributes(<<>>) /\ IsList(<<>>)
    BY NoneListed
<1>3. ASSUME NEW r \in Records, NEW p \in Records, MoveFile(r, p)
      PROVE  touched' = touched \cup {r} /\ Disturbed(mft, mft', {r})
    <2> DEFINE old == mft[r].attrs
               new == [i \in DOMAIN old |->
                        IF old[i].kind = "name" THEN [old[i] EXCEPT !.parent = p] ELSE old[i]]
    <2>1. /\ IsBase(r) /\ touched' = touched \cup {r}
          /\ mft' = [mft EXCEPT ![r].attrs = new]
        BY <1>3 DEF MoveFile, Change
    <2>2. IsAttributes(old)
        BY <1>0
    <2>3. ASSUME NEW a, IsAttribute(a), a.kind = "name" PROVE IsAttribute([a EXCEPT !.parent = p])
        <3>1. a = Name(a.parent, a.name, a.type)
            BY <2>3 DEF IsAttribute
        <3>2. [a EXCEPT !.parent = p] = Name(p, a.name, a.type)
            BY <3>1 DEF Name
        <3> QED
            BY <3>2 DEF IsAttribute, Name
    <2>4. IsSequence(new) /\ DOMAIN new = DOMAIN old
        <3>1. DOMAIN old = 1 .. Len(old) /\ Len(old) \in Nat
            BY <2>2, SequenceIs DEF IsAttributes
        <3>2. new = [i \in 1 .. Len(old) |-> new[i]]
            BY <3>1
        <3> HIDE DEF new
        <3> QED
            BY <3>1, <3>2, IsSequenceOf
    <2>5. \A i \in DOMAIN old : IsAttribute(new[i])
        BY <2>2, <2>3 DEF IsAttributes
    <2>6. IsAttributes(new)
        BY <2>4, <2>5 DEF IsAttributes
    <2> HIDE DEF new, old
    <2>7. mft'[r] = [mft[r] EXCEPT !.attrs = new] /\ \A s \in Records \ {r} : mft'[s] = mft[s]
        BY <2>1, <1>1
    <2>8. IsRecord(mft'[r]) /\ mft'[r].used = mft[r].used /\ mft'[r].base = mft[r].base
        <3>1. LET m == [mft[r] EXCEPT !.attrs = new]
              IN IsRecord(m) /\ m.used = mft[r].used /\ m.base = mft[r].base
            BY <2>6, <1>1, Reattributed
        <3> QED
            BY <2>7, <3>1, Zenon
    <2>9. mft' = [s \in Records |-> mft'[s]]
        BY <2>1, <1>1
    <2> QED
        BY <2>1, <2>7, <2>8, <2>9, <1>0, <1>1 DEF Disturbed, Turned
<1>4. ASSUME NEW r \in Records, NEW p \in Records, CreateFile(r, p)
      PROVE  touched' = touched \cup {r} /\ Disturbed(mft, mft', {r})
    <2>0. PICK b \in {Data(Contents, 0, <<r, mft[r].seq>>), Data(IndexRoot, 0, Resident)} :
            mft' = [mft EXCEPT ![r] = Base(mft[r].seq, <<Name(p, <<r, mft[r].seq>>, "win32"), b>>)]
        BY <1>4 DEF CreateFile
    <2> DEFINE attrs == <<Name(p, <<r, mft[r].seq>>, "win32"), b>>
    <2>1. /\ ~mft[r].used /\ touched' = touched \cup {r}
          /\ mft' = [mft EXCEPT ![r] = Base(mft[r].seq, attrs)]
        BY <1>4, <2>0 DEF CreateFile, Change
    <2>2. IsAttributes(attrs)
        <3>1. attrs \in Seq({attrs[1], attrs[2]}) /\ Len(attrs) = 2
            OBVIOUS
        <3>2. IsAttribute(Name(p, <<r, mft[r].seq>>, "win32")) /\ IsAttribute(b)
            <4>1. Contents \in Keys /\ IndexRoot \in Keys
                BY DEF Keys
            <4>2. IsAttribute(b)
                <5>1. CASE b = Data(Contents, 0, <<r, mft[r].seq>>)
                    BY <4>1, <5>1, DataIs
                <5>2. CASE b = Data(IndexRoot, 0, Resident)
                    BY <4>1, <5>2, DataIs
                <5> QED
                    BY <2>0, <5>1, <5>2
            <4> QED
                BY <4>2 DEF IsAttribute, Name
        <3>3. IsAttribute(attrs[1]) /\ IsAttribute(attrs[2])
            BY <3>2
        <3> HIDE DEF attrs
        <3>4. IsSequence(attrs) /\ DOMAIN attrs = 1 .. 2
            BY <3>1, InSeq
        <3> QED
            BY <3>3, <3>4 DEF IsAttributes
    <2> HIDE DEF attrs
    <2>3. mft'[r] = Base(mft[r].seq, attrs) /\ \A s \in Records \ {r} : mft'[s] = mft[s]
        BY <2>1, <1>1
    <2>4. IsRecord(mft'[r]) /\ mft'[r].base = None
        BY <2>2, <2>3, BaseIs
    <2>5. mft' = [s \in Records |-> mft'[s]]
        BY <2>1, <1>1
    <2>6. r # 0
        BY <2>1, <1>1
    <2> QED
        BY <2>1, <2>3, <2>4, <2>5, <2>6, <1>0, <1>1 DEF Disturbed, Turned
<1>5. ASSUME NEW r \in Records, NEW c \in Records, AddChild(r, c)
      PROVE  touched' = touched \cup {r, c} /\ Disturbed(mft, mft', {r, c})
    <2> DEFINE attrs == <<Data(Main(r), Cardinality(ChildrenOf(r)) + 1, <<c, mft[c].seq>>)>>
               entry == [id |-> c, key |-> Main(r)]
    <2>1. /\ IsBase(r) /\ ~mft[c].used /\ touched' = touched \cup {r, c}
          /\ mft' = [mft EXCEPT ![c] = Child(mft[c].seq, r, attrs), ![r].list = Append(mft[r].list, entry)]
        BY <1>0, <1>5 DEF AddChild, Change
    <2>2. r # c
        BY <1>0, <2>1
    <2>3. IsAttributes(attrs)
        <3>1. IsAttribute(Data(Main(r), Cardinality(ChildrenOf(r)) + 1, <<c, mft[c].seq>>))
            <4>1. Main(r) \in Keys
                BY DEF Main, Keys
            <4> QED
                BY <4>1, DataIs
        <3>2. IsSequence(attrs) /\ Len(attrs) = 1 /\ attrs[1] = Data(Main(r), Cardinality(ChildrenOf(r)) + 1, <<c, mft[c].seq>>)
            BY OneIs
        <3> HIDE DEF attrs
        <3>3. DOMAIN attrs = 1 .. 1
            BY <3>2, SequenceIs
        <3>4. \A i \in DOMAIN attrs : attrs[i] = attrs[1]
            BY <3>3
        <3> QED
            BY <3>1, <3>2, <3>4 DEF IsAttributes
    <2>4. IsList(Append(mft[r].list, entry))
        <3>1. IsList(mft[r].list)
            BY <1>0
        <3> DEFINE old == mft[r].list
                   new == Append(mft[r].list, entry)
        <3>2. /\ DOMAIN old = 1 .. Len(old) /\ Len(old) \in Nat
              /\ IsSequence(new) /\ Len(new) = Len(old) + 1
              /\ \A i \in 1 .. Len(old) : new[i] = old[i]
              /\ new[Len(old) + 1] = entry
            <4>1. IsSequence(old)
                BY <3>1 DEF IsList
            <4> HIDE DEF entry, old
            <4> QED
                BY <4>1, AppendIs, SequenceIs DEF old
        <3> HIDE DEF new, old, entry
        <3>3. DOMAIN new = 1 .. Len(old) + 1
            BY <3>2, SequenceIs
        <3>4. \A i \in 1 .. Len(old) + 1 : i \in 1 .. Len(old) \/ i = Len(old) + 1
            BY <3>2
        <3>5. entry = [id |-> entry.id, key |-> entry.key] /\ entry.id \in Records
            BY DEF entry
        <3>6. IsList(old)
            BY <3>1 DEF old
        <3>7. IsList(new)
            BY <3>2, <3>3, <3>4, <3>5, <3>6 DEF IsList
        <3> QED
            BY <3>7 DEF new
    <2> HIDE DEF attrs, entry
    <2>5. /\ mft'[c] = Child(mft[c].seq, r, attrs)
          /\ mft'[r] = [mft[r] EXCEPT !.list = Append(mft[r].list, entry)]
          /\ \A s \in Records \ {r, c} : mft'[s] = mft[s]
        BY <2>1, <2>2, <1>1
    <2>6. IsRecord(mft'[c]) /\ mft'[c].base = r
        BY <2>3, <2>5, ChildIs
    <2>7. IsRecord(mft'[r]) /\ mft'[r].used = mft[r].used /\ mft'[r].base = mft[r].base
        <3>1. LET m == [mft[r] EXCEPT !.list = Append(mft[r].list, entry)]
              IN IsRecord(m) /\ m.used = mft[r].used /\ m.base = mft[r].base
            BY <2>4, <1>1, Relisted
        <3> QED
            BY <2>5, <3>1, Zenon
    <2>8. mft' = [s \in Records |-> mft'[s]]
        BY <2>1, <1>1
    <2>9. c # 0
        BY <2>1, <1>1
    <2> QED
        BY <2>1, <2>2, <2>5, <2>6, <2>7, <2>8, <2>9, <1>0, <1>1 DEF Disturbed, Turned
<1>6. ASSUME NEW r \in Records, NEW c \in Records, PushOut(r, c)
      PROVE  touched' = touched \cup {r, c} /\ Disturbed(mft, mft', {r, c})
    <2> DEFINE old == mft[r].attrs
               entry == [id |-> c, key |-> Main(r)]
    <2>1. /\ IsBase(r) /\ ~mft[c].used /\ touched' = touched \cup {r, c}
          /\ \E i \in DOMAIN old :
                mft' = [mft EXCEPT ![c] = Child(mft[c].seq, r, <<old[i]>>),
                                   ![r].attrs = RemoveAt(old, i),
                                   ![r].list = <<entry>> \o mft[r].list]
        BY <1>0, <1>6 DEF PushOut, Change
    <2>2. r # c /\ c # 0
        BY <1>0, <1>1, <2>1
    <2>3. PICK i \in DOMAIN old :
                mft' = [mft EXCEPT ![c] = Child(mft[c].seq, r, <<old[i]>>),
                                   ![r].attrs = RemoveAt(old, i),
                                   ![r].list = <<entry>> \o mft[r].list]
        BY <2>1
    <2>4. IsAttributes(old) /\ IsList(mft[r].list)
        BY <1>0
    <2>5. IsAttributes(<<old[i]>>)
        <3>1. IsSequence(<<old[i]>>) /\ Len(<<old[i]>>) = 1 /\ <<old[i]>>[1] = old[i]
            BY OneIs
        <3>2. IsAttribute(old[i])
            BY <2>3, <2>4 DEF IsAttributes
        <3>3. DOMAIN <<old[i]>> = 1 .. 1
            BY <3>1, SequenceIs
        <3> HIDE DEF old
        <3> QED
            BY <3>1, <3>2, <3>3 DEF IsAttributes
    <2>6. IsAttributes(RemoveAt(old, i))
        <3> HIDE DEF old
        <3> DEFINE S == {old[j] : j \in 1 .. Len(old)}
        <3>1. old \in Seq(S) /\ Len(old) \in Nat /\ DOMAIN old = 1 .. Len(old)
            BY <2>4, SequenceIs DEF IsAttributes
        <3>2. \A a \in S : IsAttribute(a)
            BY <2>4, <3>1 DEF IsAttributes
        <3> HIDE DEF S
        <3>3. SubSeq(old, 1, i - 1) \in Seq(S) /\ SubSeq(old, i + 1, Len(old)) \in Seq(S)
            <4>1. i \in 1 .. Len(old)
                BY <3>1, <2>3
            <4>2. \A k \in 1 .. i - 1 : k \in 1 .. Len(old)
                BY <4>1, <3>1
            <4>3. \A k \in i + 1 .. Len(old) : k \in 1 .. Len(old)
                BY <4>1, <3>1
            <4> QED
                BY <4>1, <4>2, <4>3, <3>1, SubSeqProperties
        <3>4. RemoveAt(old, i) \in Seq(S)
            BY <3>3 DEF RemoveAt
        <3> DEFINE new == RemoveAt(old, i)
        <3>5. IsSequence(new) /\ Len(new) \in Nat /\ DOMAIN new = 1 .. Len(new)
            BY <3>4, InSeq
        <3>6. \A j \in DOMAIN new : new[j] \in S
            BY <3>4, <3>5, ElementOfSeq
        <3> HIDE DEF new
        <3>7. IsAttributes(new)
            BY <3>2, <3>5, <3>6 DEF IsAttributes
        <3> QED
            BY <3>7 DEF new
    <2>7. IsList(<<entry>> \o mft[r].list)
        <3> DEFINE list == mft[r].list
        <3>1. IsSequence(<<entry>>) /\ Len(<<entry>>) = 1 /\ <<entry>>[1] = entry
            BY OneIs
        <3>2. entry = [id |-> entry.id, key |-> entry.key] /\ entry.id \in Records
            OBVIOUS
        <3> HIDE DEF entry, list
        <3>3. IsList(list) /\ Len(list) \in Nat /\ DOMAIN list = 1 .. Len(list)
            BY <2>4, SequenceIs DEF list, IsList
        <3> DEFINE new == <<entry>> \o list
        <3>4. /\ IsSequence(new) /\ Len(new) = Len(<<entry>>) + Len(list)
              /\ \A j \in 1 .. Len(<<entry>>) : new[j] = <<entry>>[j]
              /\ \A j \in 1 .. Len(list) : new[Len(<<entry>>) + j] = list[j]
            BY <3>1, <3>3, ConcatIs DEF IsList
        <3> HIDE DEF new
        <3>5. /\ Len(new) = 1 + Len(list) /\ new[1] = entry
              /\ \A j \in 1 .. Len(list) : new[1 + j] = list[j]
            BY <3>1, <3>4
        <3>6. DOMAIN new = 1 .. 1 + Len(list)
            BY <3>4, <3>5, SequenceIs
        <3>7. ASSUME NEW j \in 1 .. 1 + Len(list)
              PROVE  new[j] = [id |-> new[j].id, key |-> new[j].key] /\ new[j].id \in Records
            <4>1. CASE j = 1
                BY <3>2, <3>5, <4>1
            <4>2. CASE j # 1
                <5>1. j - 1 \in 1 .. Len(list) /\ 1 + (j - 1) = j
                    BY <3>3, <4>2
                <5>2. new[j] = list[j - 1] /\ j - 1 \in DOMAIN list
                    BY <3>3, <3>5, <5>1
                <5> QED
                    BY <3>3, <5>2 DEF IsList
            <4> QED
                BY <4>1, <4>2
        <3>8. IsList(new)
            BY <3>4, <3>6, <3>7 DEF IsList
        <3> QED
            BY <3>8 DEF new, list
    <2> HIDE DEF old, entry
    <2>8. /\ mft'[c] = Child(mft[c].seq, r, <<old[i]>>)
          /\ mft'[r] = [mft[r] EXCEPT !.attrs = RemoveAt(old, i), !.list = <<entry>> \o mft[r].list]
          /\ \A s \in Records \ {r, c} : mft'[s] = mft[s]
        BY <2>2, <2>3, <1>1
    <2>9. IsRecord(mft'[c]) /\ mft'[c].base = r
        BY <2>5, <2>8, ChildIs
    <2>10. IsRecord(mft'[r]) /\ mft'[r].used = mft[r].used /\ mft'[r].base = mft[r].base
        <3> DEFINE n == [mft[r] EXCEPT !.attrs = RemoveAt(old, i)]
                   l == <<entry>> \o mft[r].list
        <3>1. IsRecord(n) /\ n.used = mft[r].used /\ n.base = mft[r].base
            BY <2>6, <1>1, Reattributed
        <3>2. mft'[r] = [n EXCEPT !.list = l]
            BY <2>8
        <3>3. IsList(l)
            BY <2>7
        <3> HIDE DEF n, l
        <3>4. LET m == [n EXCEPT !.list = l] IN IsRecord(m) /\ m.used = n.used /\ m.base = n.base
            BY <3>1, <3>3, Relisted
        <3> QED
            BY <3>1, <3>2, <3>4, Zenon
    <2>11. mft' = [s \in Records |-> mft'[s]]
        BY <2>3, <1>1
    <2>13. Turned(mft[c], {r, c}) /\ Turned(mft'[c], {r, c})
        BY <2>1, <2>9 DEF Turned
    <2>14. mft[r].base = None /\ mft'[r].base = None
        BY <2>1, <2>10, <1>0
    <2>15. mft'[0].used /\ mft'[0].base = None
        BY <2>2, <2>8, <2>10, <2>14, <1>0, <1>1
    <2>16. \A s \in Records \ {r, c} : mft'[s] = mft[s]
        BY <2>8, Zenon
    <2>17. Turned(mft[r], {r, c}) /\ Turned(mft'[r], {r, c})
        BY <2>14 DEF Turned
    <2> DEFINE S == {r, c}
    <2>18. ASSUME NEW s \in Records PROVE IsRecord(mft'[s])
        <3>1. CASE s \in Records \ {r, c}
            BY <2>16, <3>1, <1>1
        <3> QED
            BY <2>9, <2>10, <3>1
    <2>19. S \subseteq Records
        OBVIOUS
    <2>20. \A s \in S : Turned(mft[s], S) /\ Turned(mft'[s], S)
        BY <2>13, <2>17
    <2>21. \A s \in Records \ S : mft'[s] = mft[s]
        BY <2>16
    <2> HIDE DEF S
    <2>22. Disturbed(mft, mft', S)
        BY <2>11, <2>15, <2>18, <2>19, <2>20, <2>21 DEF Disturbed
    <2> QED
        BY <2>1, <2>22 DEF S
<1>7. ASSUME NEW r \in Records, DeleteFile(r) \/ DropChildren(r)
      PROVE  LET S == {r} \cup ChildrenOf(r)
             IN touched' = touched \cup S /\ Disturbed(mft, mft', S)
    <2> DEFINE C == ChildrenOf(r)
    <2>1. IsBase(r) /\ touched' = touched \cup {r} \cup C
        BY <1>7 DEF DeleteFile, DropChildren, Change
    <2>2. mft' = [s \in Records |-> mft'[s]] /\ \A s \in Records \ ({r} \cup C) : mft'[s] = mft[s]
        BY <1>7 DEF DeleteFile, DropChildren
    <2>3. \A s \in C : mft'[s] = Free(mft[s].seq + 1) /\ s \in Records
        BY <1>0, <1>7 DEF DeleteFile, DropChildren
    <2>4. r \notin C /\ 0 \notin C
        BY <1>0, <1>1, <2>1
    <2>5. \/ mft'[r] = Free(mft[r].seq + 1) /\ r # 0
          \/ mft'[r] = [mft[r] EXCEPT !.list = <<>>]
        BY <1>7, <2>4, MftAssumption DEF DeleteFile, DropChildren
    <2>6. \A s \in C : IsRecord(mft'[s]) /\ ~mft'[s].used
        BY <2>3, FreeIs
    <2>7. \/ IsRecord(mft'[r]) /\ mft'[r].used = FALSE /\ r # 0
          \/ IsRecord(mft'[r]) /\ mft'[r].used = mft[r].used /\ mft'[r].base = mft[r].base
        <3>1. LET m == [mft[r] EXCEPT !.list = <<>>]
              IN IsRecord(m) /\ m.used = mft[r].used /\ m.base = mft[r].base
            BY <1>1, <1>2, Relisted
        <3>2. LET m == Free(mft[r].seq + 1) IN IsRecord(m) /\ m.used = FALSE
            BY FreeIs
        <3> QED
            BY <2>5, <3>1, <3>2, Zenon
    <2>8. \A s \in C : s \in Records /\ mft[s].base = r
        BY <1>0
    <2> HIDE DEF C
    <2>9. Disturbed(mft, mft', {r} \cup C)
        BY <2>1, <2>2, <2>4, <2>6, <2>7, <2>8, <1>0, <1>1 DEF Disturbed, Turned
    <2> QED
        BY <2>1, <2>9 DEF C
<1>8. PICK r \in Records, s \in Records :
        \/ MoveFile(r, s) \/ CreateFile(r, s) \/ AddChild(r, s) \/ PushOut(r, s)
        \/ r = s /\ (DeleteFile(r) \/ DropChildren(r))
    BY DEF Others
<1> QED
    BY <1>3, <1>4, <1>5, <1>6, <1>7, <1>8

\* Two tables in which a file looks the same, with the records its list names.
SameFile(t, u, r) ==
    /\ u[r] = t[r]
    /\ \A i \in DOMAIN t[r].list : u[t[r].list[i].id] = t[t[r].list[i].id]

LEMMA PiecesKept ==
    ASSUME NEW t, NEW u, NEW r \in Records, IsList(t[r].list), SameFile(t, u, r), NEW keys
    PROVE  PiecesOf(u, r, keys) = PiecesOf(t, r, keys)
<1> DEFINE Part(v, i) ==
        IF i = 1 THEN PiecesIn(v[r].attrs, keys)
        ELSE LET e == v[r].list[i - 1]
             IN IF e.key \in keys THEN PiecesIn(v[e.id].attrs, {e.key}) ELSE <<>>
           n == Len(t[r].list) + 1
<1>1. u[r] = t[r]
    BY DEF SameFile
<1>2. Len(t[r].list) \in Nat /\ DOMAIN t[r].list = 1 .. Len(t[r].list)
    BY SequenceIs DEF IsList
<1>3. ASSUME NEW i \in 1 .. n PROVE Part(u, i) = Part(t, i)
    <2>1. CASE i = 1
        BY <1>1, <2>1
    <2>2. CASE i # 1
        <3>1. i - 1 \in DOMAIN t[r].list
            BY <1>2, <2>2
        <3>2. u[t[r].list[i - 1].id] = t[t[r].list[i - 1].id]
            BY <3>1 DEF SameFile
        <3> QED
            BY <1>1, <2>2, <3>2
    <2> QED
        BY <2>1, <2>2
<1>4. PiecesOf(u, r, keys) = FlattenSeq([i \in 1 .. n |-> Part(u, i)])
    BY <1>1 DEF PiecesOf
<1>5. PiecesOf(t, r, keys) = FlattenSeq([i \in 1 .. n |-> Part(t, i)])
    BY DEF PiecesOf
<1> HIDE DEF Part
<1>6. [i \in 1 .. n |-> Part(u, i)] = [i \in 1 .. n |-> Part(t, i)]
    BY <1>3
<1> QED
    BY <1>4, <1>5, <1>6

LEMMA RightKept ==
    ASSUME NEW t, NEW u, NEW r \in Records, IsList(t[r].list), SameFile(t, u, r), Right(t, r)
    PROVE  Right(u, r)
<1>1. /\ u[r] = t[r]
      /\ \A i \in DOMAIN t[r].list : u[t[r].list[i].id] = t[t[r].list[i].id]
    BY DEF SameFile
<1>2. \A keys : PiecesOf(u, r, keys) = PiecesOf(t, r, keys)
    BY PiecesKept
<1>3. \A key \in Keys :
        LET all == PiecesOf(u, r, {key}) IN Len(all) > 1 => all[1].vcn # all[2].vcn
    BY <1>2 DEF Right
<1>4. ASSUME NEW i \in DOMAIN u[r].list
      PROVE  LET e == u[r].list[i]
                 attrs == u[e.id].attrs
             IN /\ u[e.id].used /\ u[e.id].base = r
                /\ e.key \in Keys
                /\ \A j, k \in DOMAIN attrs : Key(attrs[j]) = e.key /\ Key(attrs[k]) = e.key => j = k
    <2>1. i \in DOMAIN t[r].list /\ u[r].list[i] = t[r].list[i]
        BY <1>1
    <2>2. u[t[r].list[i].id] = t[t[r].list[i].id]
        BY <1>1, <2>1
    <2>3. LET e == t[r].list[i]
              attrs == t[e.id].attrs
          IN /\ t[e.id].used /\ t[e.id].base = r
             /\ e.key \in Keys
             /\ \A j, k \in DOMAIN attrs : Key(attrs[j]) = e.key /\ Key(attrs[k]) = e.key => j = k
        BY <2>1 DEF Right
    <2> QED
        BY <2>1, <2>2, <2>3, Zenon
<1> QED
    BY <1>3, <1>4 DEF Right

\* A file whose records stay as they are.
Stays(r) == mft'[r] = mft[r] /\ (IsBase(r) => SameFile(mft, mft', r))

LEMMA TableKept ==
    ASSUME TableSound, NEW S, touched' = touched \cup S, Disturbed(mft, mft', S)
    PROVE  TableSound' /\ \A r \in Records \ touched' : Stays(r)
<1>0. /\ 0 \in Records /\ Root \in Records /\ None \notin Records
      /\ \A r \in Records : IsAttributes(mft[r].attrs) /\ IsList(mft[r].list)
      /\ \A r \in Records : IsBase(r) => mft[r].base = None /\ mft[r].used
      /\ \A r \in Records : \A c \in ChildrenOf(r) : c \in Records /\ mft[c].used /\ mft[c].base = r
    BY RecordFacts
<1>1. ASSUME NEW r \in Records \ touched' PROVE Stays(r)
    <2>1. r \in Records /\ r \notin S /\ r \notin touched
        BY <1>1
    <2>2. mft'[r] = mft[r]
        BY <2>1 DEF Disturbed
    <2>3. ASSUME IsBase(r), NEW i \in DOMAIN mft[r].list
          PROVE  mft'[mft[r].list[i].id] = mft[mft[r].list[i].id]
        <3> DEFINE c == mft[r].list[i].id
        <3>1. c \in Records
            BY <1>0, <2>3 DEF IsList
        <3>2. mft[c].used /\ mft[c].base = r
            BY <2>1, <2>3 DEF TableSound, Right
        <3>3. c \notin S
            BY <1>0, <2>1, <3>2 DEF Disturbed, Turned
        <3> QED
            BY <3>1, <3>3 DEF Disturbed
    <2> QED
        BY <2>2, <2>3 DEF Stays, SameFile
<1>2. ASSUME NEW r \in Records \ touched', IsBase(r)' PROVE Right(mft', r)
    <2>1. Stays(r) /\ r \in Records \ touched
        BY <1>1, <1>2
    <2>2. IsBase(r)
        BY <1>2, <2>1 DEF IsBase, Stays
    <2>3. Right(mft, r) /\ IsList(mft[r].list) /\ SameFile(mft, mft', r)
        BY <1>0, <2>1, <2>2 DEF TableSound, Stays
    <2> QED
        BY <2>3, RightKept
<1>3. ASSUME NEW c \in touched' PROVE Turned(mft'[c], touched')
    <2>1. CASE c \in S
        BY <2>1 DEF Disturbed, Turned
    <2>2. CASE c \notin S
        BY <1>3, <2>2 DEF Disturbed, Turned, TableSound
    <2> QED
        BY <2>1, <2>2
<1>4. /\ mft' = [r \in Records |-> mft'[r]] /\ \A r \in Records : IsRecord(mft'[r])
      /\ IsBase(0)' /\ touched' \subseteq Records
    BY DEF Disturbed, IsBase, TableSound
<1> QED
    BY <1>1, <1>2, <1>3, <1>4 DEF TableSound

-----------------------------------------------------------------------------
(* The list of files.                                                      *)

IsItem(e) ==
    /\ e = [id |-> e.id, stream |-> e.stream, name |-> e.name, parent |-> e.parent,
            map |-> e.map, fragments |-> e.fragments, path |-> e.path]
    /\ e.id \in Records /\ e.parent \in Records /\ IsSequence(e.map) /\ e.fragments \in Nat
    /\ IsSequence(e.path)
IsFileList(list) == IsSequence(list) /\ \A i \in DOMAIN list : IsItem(list[i])
Ordered(list) ==
    \A i, j \in DOMAIN list : i < j =>
        /\ list[i].id <= list[j].id
        /\ list[i].id = list[j].id => list[i].stream # list[j].stream

\* The list while the file id is read: nothing but its streams lies before the
\* files read earlier, and they have no names yet.
Current(list, id) ==
    /\ IsFileList(list) /\ Ordered(list)
    /\ \A i \in DOMAIN list :
        /\ id <= list[i].id
        /\ list[i].id = id => list[i].name = NoName
        /\ list[i].path = NoPath

\* A stream has exactly the clusters ps.
Exact(list, id, stream, ps) ==
    /\ ps # <<>> => \E i \in DOMAIN list : list[i].id = id /\ list[i].stream = stream
    /\ \A i \in DOMAIN list : list[i].id = id /\ list[i].stream = stream =>
        list[i].map = ps /\ list[i].fragments = Len(ps)

\* Entries of other files move down the list at most.
ShiftedBy(list, new, id, d) ==
    /\ Len(new) = Len(list) + d
    /\ \A i \in 1 .. d : new[i].id = id
    /\ \A i \in DOMAIN list :
        /\ new[i + d].id = list[i].id /\ new[i + d].stream = list[i].stream
        /\ list[i].id # id => new[i + d] = list[i]
Shifted(list, new, id) == \E d \in Nat : ShiftedBy(list, new, id, d)

\* A stream which is in the list stays where it is, a new one becomes its head.
Placed(list, new, id, stream) ==
    \/ /\ ShiftedBy(list, new, id, 0)
       /\ \E i \in DOMAIN list : list[i].id = id /\ list[i].stream = stream
    \/ /\ ShiftedBy(list, new, id, 1) /\ new[1].stream = stream
       /\ \A i \in DOMAIN list : ~(list[i].id = id /\ list[i].stream = stream)

LEMMA NewEntryIs ==
    ASSUME NEW id \in Records, NEW stream
    PROVE  /\ IsItem(NewEntry(id, stream))
           /\ NewEntry(id, stream).id = id /\ NewEntry(id, stream).stream = stream
           /\ NewEntry(id, stream).name = NoName /\ NewEntry(id, stream).path = NoPath
           /\ NewEntry(id, stream).map = <<>> /\ NewEntry(id, stream).fragments = 0
<1>1. Root \in Records
    BY MftAssumption DEF Records
<1> QED
    BY <1>1, EmptyIs DEF NewEntry, IsItem, NoPath

LEMMA PlacedFirst ==
    ASSUME NEW list, NEW id \in Records, Current(list, id), NEW stream,
           \A i \in DOMAIN list : ~(list[i].id = id /\ list[i].stream = stream)
    PROVE  LET new == <<NewEntry(id, stream)>> \o list
           IN /\ Current(new, id) /\ ShiftedBy(list, new, id, 1)
              /\ 1 \in DOMAIN new /\ new[1] = NewEntry(id, stream)
              /\ \A k, st, ps : Exact(list, k, st, ps) => Exact(new, k, st, ps)
<1> DEFINE new == <<NewEntry(id, stream)>> \o list
           e == NewEntry(id, stream)
           L == Len(list)
<1>1. /\ IsItem(e) /\ e.id = id /\ e.stream = stream /\ e.name = NoName /\ e.path = NoPath
      /\ e.map = <<>> /\ e.fragments = 0
    BY NewEntryIs
<1>2. /\ IsSequence(list) /\ \A i \in DOMAIN list : IsItem(list[i])
      /\ L \in Nat /\ DOMAIN list = 1 .. L
    BY SequenceIs DEF Current, IsFileList
<1>3. IsSequence(<<e>>) /\ Len(<<e>>) = 1 /\ <<e>>[1] = e
    BY OneIs
<1> HIDE DEF e
<1>4. /\ IsSequence(<<e>> \o list) /\ Len(<<e>> \o list) = Len(<<e>>) + L
      /\ \A i \in 1 .. Len(<<e>>) : (<<e>> \o list)[i] = <<e>>[i]
      /\ \A i \in 1 .. L : (<<e>> \o list)[Len(<<e>>) + i] = list[i]
    BY <1>2, <1>3, ConcatIs
<1>5. new = <<e>> \o list
    BY DEF e
<1> HIDE DEF new
<1>6. IsSequence(new) /\ Len(new) = L + 1 /\ new[1] = e /\ \A i \in 1 .. L : new[i + 1] = list[i]
    BY <1>2, <1>3, <1>4, <1>5
<1>7. DOMAIN new = 1 .. L + 1
    BY <1>6, SequenceIs
<1>8. \A j \in DOMAIN new : (j = 1 /\ new[j] = e) \/ (j - 1 \in 1 .. L /\ new[j] = list[j - 1])
    <2> TAKE j \in DOMAIN new
    <2>1. CASE j = 1
        BY <1>6, <2>1
    <2>2. CASE j # 1
        <3>1. j - 1 \in 1 .. L /\ (j - 1) + 1 = j
            BY <1>2, <1>7, <2>2
        <3> QED
            BY <1>6, <3>1
    <2> QED
        BY <2>1, <2>2
<1>9. IsFileList(new)
    BY <1>1, <1>2, <1>6, <1>8 DEF IsFileList
<1>10. Ordered(new)
    <2> SUFFICES ASSUME NEW i \in DOMAIN new, NEW j \in DOMAIN new, i < j
                 PROVE  /\ new[i].id <= new[j].id
                        /\ new[i].id = new[j].id => new[i].stream # new[j].stream
        BY DEF Ordered
    <2>1. j - 1 \in DOMAIN list /\ new[j] = list[j - 1]
        BY <1>2, <1>7, <1>8
    <2>2. CASE i = 1
        BY <1>1, <1>6, <2>1, <2>2 DEF Current
    <2>3. CASE i # 1
        <3>1. i - 1 \in DOMAIN list /\ new[i] = list[i - 1] /\ i - 1 < j - 1
            BY <1>2, <1>7, <1>8, <2>3
        <3> QED
            BY <2>1, <3>1 DEF Current, Ordered
    <2> QED
        BY <2>2, <2>3
<1>11. Current(new, id)
    <2>1. id <= id
        BY DEF Records
    <2>2. ASSUME NEW j \in DOMAIN new
          PROVE  id <= new[j].id /\ (new[j].id = id => new[j].name = NoName) /\ new[j].path = NoPath
        BY <1>1, <1>2, <1>8, <2>1 DEF Current
    <2> QED
        BY <1>9, <1>10, <2>2 DEF Current
<1>12. ShiftedBy(list, new, id, 1)
    BY <1>1, <1>2, <1>6 DEF ShiftedBy
<1>13. ASSUME NEW k, NEW st, NEW ps, Exact(list, k, st, ps) PROVE Exact(new, k, st, ps)
    <2>1. /\ ps # <<>> => \E i \in DOMAIN list : list[i].id = k /\ list[i].stream = st
          /\ \A i \in DOMAIN list : list[i].id = k /\ list[i].stream = st =>
                list[i].map = ps /\ list[i].fragments = Len(ps)
        BY <1>13 DEF Exact
    <2>2. ps # <<>> => \E i \in DOMAIN new : new[i].id = k /\ new[i].stream = st
        <3> SUFFICES ASSUME ps # <<>> PROVE \E i \in DOMAIN new : new[i].id = k /\ new[i].stream = st
            OBVIOUS
        <3>1. PICK i \in DOMAIN list : list[i].id = k /\ list[i].stream = st
            BY <2>1
        <3>2. i + 1 \in DOMAIN new /\ new[i + 1] = list[i]
            BY <1>2, <1>6, <1>7
        <3> QED
            BY <3>1, <3>2
    <2>3. ASSUME NEW i \in DOMAIN new, new[i].id = k, new[i].stream = st
          PROVE  new[i].map = ps /\ new[i].fragments = Len(ps)
        <3>1. CASE i = 1
            <4>1. k = id /\ st = stream
                BY <1>1, <1>6, <2>3, <3>1
            <4>2. ps = <<>>
                BY <2>1, <4>1
            <4> QED
                BY <1>1, <1>6, <3>1, <4>2, EmptyIs
        <3>2. CASE i # 1
            BY <1>2, <1>8, <2>1, <2>3, <3>2
        <3> QED
            BY <3>1, <3>2
    <2> QED
        BY <2>2, <2>3 DEF Exact
<1> QED
    BY <1>6, <1>7, <1>11, <1>12, <1>13 DEF new, e

LEMMA Lengthened ==
    ASSUME NEW list, NEW id \in Records, Current(list, id), NEW i \in DOMAIN list, list[i].id = id,
           NEW p
    PROVE  LET new == [list EXCEPT ![i].map = Append(@, p), ![i].fragments = @ + 1]
           IN /\ Current(new, id) /\ ShiftedBy(list, new, id, 0)
              /\ \A k, st, ps : IsSequence(ps) /\ Exact(list, k, st, ps) =>
                    Exact(new, k, st, IF k = id /\ st = list[i].stream THEN Append(ps, p) ELSE ps)
<1> DEFINE new == [list EXCEPT ![i].map = Append(@, p), ![i].fragments = @ + 1]
           e == list[i]
           f == new[i]
           x == Append(e.map, p)
           y == e.fragments + 1
           n == [e EXCEPT !.map = x]
<1>1. /\ IsSequence(list) /\ \A j \in DOMAIN list : IsItem(list[j])
      /\ Len(list) \in Nat /\ DOMAIN list = 1 .. Len(list)
    BY SequenceIs DEF Current, IsFileList
<1>2. IsItem(e) /\ IsSequence(e.map) /\ e.fragments \in Nat
    BY <1>1 DEF IsItem
<1>3. IsSequence(x) /\ y \in Nat /\ Len(x) = Len(e.map) + 1 /\ Len(e.map) \in Nat
    BY <1>2, AppendIs, SequenceIs
<1>4. f = [n EXCEPT !.fragments = y]
    BY <1>1
<1>5. DOMAIN new = DOMAIN list /\ \A j \in DOMAIN list : j # i => new[j] = list[j]
    BY <1>1
<1>6. new = [j \in 1 .. Len(list) |-> new[j]]
    BY <1>1
<1> HIDE DEF new, x, y
<1>7. n = [id |-> e.id, stream |-> e.stream, name |-> e.name, parent |-> e.parent,
           map |-> x, fragments |-> e.fragments, path |-> e.path]
    BY <1>2 DEF IsItem
<1> HIDE DEF n
<1>8. f = [id |-> e.id, stream |-> e.stream, name |-> e.name, parent |-> e.parent,
           map |-> x, fragments |-> y, path |-> e.path]
    BY <1>4, <1>7
<1> HIDE DEF f
<1>9. /\ f.id = e.id /\ f.stream = e.stream /\ f.name = e.name /\ f.path = e.path
      /\ f.map = x /\ f.fragments = y /\ IsItem(f)
    BY <1>2, <1>3, <1>8 DEF IsItem
<1>10. new[i] = f /\ IsSequence(new) /\ Len(new) = Len(list)
    BY <1>1, <1>6, IsSequenceOf DEF f
<1> HIDE DEF e
<1>11. \A j \in DOMAIN list :
         /\ new[j].id = list[j].id /\ new[j].stream = list[j].stream /\ new[j].name = list[j].name
         /\ new[j].path = list[j].path /\ IsItem(new[j])
    BY <1>1, <1>5, <1>9, <1>10 DEF e
<1>12. Current(new, id)
    BY <1>5, <1>10, <1>11 DEF Current, IsFileList, Ordered
<1>13. ShiftedBy(list, new, id, 0)
    <2>1. \A j \in DOMAIN list : j + 0 = j
        BY <1>1
    <2>2. Len(list) + 0 = Len(list)
        BY <1>1
    <2> QED
        BY <1>5, <1>10, <1>11, <2>1, <2>2 DEF ShiftedBy
<1>14. ASSUME NEW k, NEW st, NEW ps, IsSequence(ps), Exact(list, k, st, ps)
       PROVE  Exact(new, k, st, IF k = id /\ st = list[i].stream THEN Append(ps, p) ELSE ps)
    <2>1. /\ ps # <<>> => \E j \in DOMAIN list : list[j].id = k /\ list[j].stream = st
          /\ \A j \in DOMAIN list : list[j].id = k /\ list[j].stream = st =>
                list[j].map = ps /\ list[j].fragments = Len(ps)
        BY <1>14 DEF Exact
    <2>2. CASE k = id /\ st = list[i].stream
        <3>1. ASSUME NEW j \in DOMAIN new, new[j].id = k, new[j].stream = st PROVE j = i
            <4>1. j \in DOMAIN list /\ list[j].id = list[i].id /\ list[j].stream = list[i].stream
                BY <1>5, <1>11, <2>2, <3>1
            <4>2. ~(j < i) /\ ~(i < j)
                BY <4>1 DEF Current, Ordered
            <4> QED
                BY <1>1, <4>1, <4>2
        <3>2. e.map = ps /\ e.fragments = Len(ps)
            BY <2>1, <2>2 DEF e
        <3>3. f.map = Append(ps, p) /\ f.fragments = Len(ps) + 1
            BY <1>9, <3>2 DEF x, y
        <3>4. Len(Append(ps, p)) = Len(ps) + 1
            BY <1>14, AppendIs
        <3>5. \E j \in DOMAIN new : new[j].id = k /\ new[j].stream = st
            BY <1>5, <1>11, <2>2
        <3>6. Exact(new, k, st, Append(ps, p))
            BY <1>10, <3>1, <3>3, <3>4, <3>5 DEF Exact
        <3> QED
            BY <2>2, <3>6
    <2>3. CASE ~(k = id /\ st = list[i].stream)
        <3>1. \A j \in DOMAIN new : new[j].id = k /\ new[j].stream = st => j # i
            BY <1>11, <2>3
        <3>2. Exact(new, k, st, ps)
            BY <1>5, <1>11, <2>1, <3>1 DEF Exact
        <3> QED
            BY <2>3, <3>2
    <2> QED
        BY <2>2, <2>3
<1> QED
    BY <1>12, <1>13, <1>14 DEF new

\* The attributes which the scan takes for a stream.
AllKeys == Keys \cup {<<"list", "">>}
KeysOf(st) == {key \in AllKeys : StreamName(key) = st}
Readable(a) == IF a.kind = "name" THEN a.parent \in Records ELSE a.kind = "data" /\ Key(a) \in AllKeys

\* What an attribute adds to the pieces of some attributes.
Piece(a, keys) ==
    IF a.kind = "data" /\ Key(a) \in keys /\ a.lcn # Resident
    THEN <<[vcn |-> a.vcn, lcn |-> a.lcn]>> ELSE <<>>
Grown(ps, id, a, k, keys) == IF k = id THEN ps \o Piece(a, keys) ELSE ps

LEMMA GrownIs ==
    ASSUME NEW ps, IsSequence(ps), NEW id, NEW a, NEW k, NEW keys
    PROVE  /\ IsSequence(Piece(a, keys)) /\ IsSequence(Grown(ps, id, a, k, keys))
           /\ Grown(ps, id, a, k, keys) =
                IF k = id /\ a.kind = "data" /\ Key(a) \in keys /\ a.lcn # Resident
                THEN Append(ps, [vcn |-> a.vcn, lcn |-> a.lcn]) ELSE ps
<1> DEFINE p == [vcn |-> a.vcn, lcn |-> a.lcn]
           Has == a.kind = "data" /\ Key(a) \in keys /\ a.lcn # Resident
<1>1. Piece(a, keys) = IF Has THEN <<p>> ELSE <<>>
    BY DEF Piece
<1> HIDE DEF p, Has
<1>2. IsSequence(<<p>>) /\ IsSequence(<<>>) /\ Append(ps, p) = ps \o <<p>> /\ ps \o <<>> = ps
    BY OneIs, EmptyIs, AppendConcat, ConcatEmpty
<1>3. IsSequence(Append(ps, p))
    BY AppendIs
<1>4. IsSequence(Piece(a, keys))
    BY <1>1, <1>2
<1>5. Grown(ps, id, a, k, keys) = IF k = id /\ Has THEN Append(ps, p) ELSE ps
    BY <1>1, <1>2 DEF Grown
<1> QED
    BY <1>3, <1>4, <1>5 DEF Has, p

LEMMA AddPieceIs ==
    ASSUME NEW list, NEW id \in Records, Current(list, id), NEW a, a.kind = "data", Key(a) \in AllKeys
    PROVE  LET new == AddPiece(list, id, a)
           IN /\ Current(new, id) /\ Placed(list, new, id, StreamName(Key(a)))
              /\ \A k, st, ps : IsSequence(ps) /\ Exact(list, k, st, ps) =>
                    Exact(new, k, st, Grown(ps, id, a, k, KeysOf(st)))
<1> DEFINE stream == StreamName(Key(a))
           found == Entry(list, id, stream)
           entered == IF found = {} THEN <<NewEntry(id, stream)>> \o list ELSE list
           i == IF found = {} THEN 1 ELSE Min(found)
           p == [vcn |-> a.vcn, lcn |-> a.lcn]
           new == AddPiece(list, id, a)
<1>1. DOMAIN list = 1 .. Len(list) /\ Len(list) \in Nat
    BY SequenceIs DEF Current, IsFileList
<1>2. found = {j \in DOMAIN list : list[j].id = id /\ list[j].stream = stream}
    <2>1. ASSUME NEW j \in DOMAIN list, list[j].id = id, NEW m \in 1 .. j PROVE list[m].id <= id
        <3>1. m \in DOMAIN list /\ (m = j \/ m < j) /\ id <= id
            BY <1>1, <2>1 DEF Records
        <3> QED
            BY <2>1, <3>1 DEF Current, Ordered
    <2>2. \A j \in DOMAIN list : list[j].id = id => list[j].name = NoName
        BY DEF Current
    <2> QED
        BY <2>1, <2>2 DEF Entry
<1>3. /\ Current(entered, id) /\ Placed(list, entered, id, stream)
      /\ i \in DOMAIN entered /\ entered[i].id = id /\ entered[i].stream = stream
      /\ \A k, st, ps : Exact(list, k, st, ps) => Exact(entered, k, st, ps)
    <2>1. CASE found = {}
        <3>1. \A j \in DOMAIN list : ~(list[j].id = id /\ list[j].stream = stream)
            BY <1>2, <2>1
        <3>2. entered = <<NewEntry(id, stream)>> \o list /\ i = 1
            BY <2>1
        <3> HIDE DEF entered, i, stream
        <3>3. /\ Current(entered, id) /\ ShiftedBy(list, entered, id, 1)
              /\ 1 \in DOMAIN entered /\ entered[1] = NewEntry(id, stream)
              /\ \A k, st, ps : Exact(list, k, st, ps) => Exact(entered, k, st, ps)
            BY <3>1, <3>2, PlacedFirst
        <3>4. NewEntry(id, stream).id = id /\ NewEntry(id, stream).stream = stream
            BY NewEntryIs
        <3>5. Placed(list, entered, id, stream)
            BY <3>1, <3>3, <3>4 DEF Placed
        <3> QED
            BY <3>2, <3>3, <3>4, <3>5
    <2>2. CASE found # {}
        <3>1. found \subseteq Nat
            BY <1>1, <1>2
        <3>2. i \in found
            BY <2>2, <3>1, <1>1, <1>2, MinIsLeast
        <3>3. ShiftedBy(list, list, id, 0)
            BY <1>1 DEF ShiftedBy
        <3>5. entered = list
            BY <2>2
        <3>6. i \in DOMAIN list /\ list[i].id = id /\ list[i].stream = stream
            BY <1>2, <3>2
        <3> HIDE DEF entered, i, found, stream
        <3>7. Placed(list, list, id, stream)
            BY <3>3, <3>6 DEF Placed
        <3> QED
            BY <3>5, <3>6, <3>7
    <2> QED
        BY <2>1, <2>2
<1>4. CASE a.lcn = Resident
    <2>1. new = entered
        BY <1>4 DEF AddPiece
    <2>2. \A k, st, ps : IsSequence(ps) => Grown(ps, id, a, k, KeysOf(st)) = ps
        <3> SUFFICES ASSUME NEW k, NEW st, NEW ps, IsSequence(ps) PROVE Grown(ps, id, a, k, KeysOf(st)) = ps
            OBVIOUS
        <3>1. Piece(a, KeysOf(st)) = <<>>
            BY <1>4 DEF Piece
        <3> QED
            BY <3>1, ConcatEmpty DEF Grown
    <2> HIDE DEF new, entered, i
    <2>3. \A k, st, ps : IsSequence(ps) /\ Exact(list, k, st, ps) =>
              Exact(new, k, st, Grown(ps, id, a, k, KeysOf(st)))
        BY <1>3, <2>1, <2>2
    <2> QED
        BY <1>3, <2>1, <2>3 DEF new
<1>5. CASE a.lcn # Resident
    <2>1. new = [entered EXCEPT ![i].map = Append(@, p), ![i].fragments = @ + 1]
        BY <1>5 DEF AddPiece
    <2> HIDE DEF new, entered, i, p
    <2>2. /\ Current(new, id) /\ ShiftedBy(entered, new, id, 0)
          /\ \A k, st, ps : IsSequence(ps) /\ Exact(entered, k, st, ps) =>
                Exact(new, k, st, IF k = id /\ st = entered[i].stream THEN Append(ps, p) ELSE ps)
        BY <1>3, <2>1, Lengthened
    <2>3. Placed(list, new, id, stream)
        <3>2. /\ IsFileList(entered) /\ IsFileList(new)
              /\ DOMAIN entered = 1 .. Len(entered) /\ Len(entered) \in Nat
            BY <1>3, <2>2, SequenceIs DEF Current, IsFileList
        <3>4. ASSUME NEW j \in DOMAIN entered
              PROVE  /\ new[j].id = entered[j].id /\ new[j].stream = entered[j].stream
                     /\ entered[j].id # id => new[j] = entered[j]
            <4>1. j + 0 = j
                BY <3>2
            <4> QED
                BY <2>2, <4>1 DEF ShiftedBy
        <3>1. ASSUME NEW d \in {0, 1}, ShiftedBy(list, entered, id, d)
              PROVE  /\ ShiftedBy(list, new, id, d)
                     /\ d = 1 => new[1].stream = entered[1].stream
            <4>1. Len(entered) = Len(list) + d /\ Len(new) = Len(entered) + 0
                BY <2>2, <3>1 DEF ShiftedBy
            <4>2. Len(new) = Len(list) + d
                BY <3>2, <4>1
            <4>3. \A j \in 1 .. d : j \in DOMAIN entered /\ entered[j].id = id
                BY <1>1, <3>1, <3>2 DEF ShiftedBy
            <4>4. \A j \in DOMAIN list : j + d \in DOMAIN entered
                BY <1>1, <3>2, <4>1
            <4>5. ShiftedBy(list, new, id, d)
                BY <3>1, <3>4, <4>2, <4>3, <4>4 DEF ShiftedBy
            <4>6. d = 1 => 1 \in 1 .. d
                OBVIOUS
            <4> QED
                BY <3>4, <4>3, <4>5, <4>6
        <3>5. CASE ShiftedBy(list, entered, id, 0) /\ \E j \in DOMAIN list : list[j].id = id /\ list[j].stream = stream
            <4>1. ShiftedBy(list, new, id, 0)
                BY <3>1, <3>5
            <4> QED
                BY <3>5, <4>1 DEF Placed
        <3>6. CASE /\ ShiftedBy(list, entered, id, 1) /\ entered[1].stream = stream
                   /\ \A j \in DOMAIN list : ~(list[j].id = id /\ list[j].stream = stream)
            <4>1. ShiftedBy(list, new, id, 1) /\ new[1].stream = entered[1].stream
                BY <3>1, <3>6
            <4> QED
                BY <3>6, <4>1 DEF Placed
        <3> QED
            BY <1>3, <3>5, <3>6 DEF Placed
    <2>4. \A k, st, ps : IsSequence(ps) /\ Exact(list, k, st, ps) =>
              Exact(new, k, st, Grown(ps, id, a, k, KeysOf(st)))
        <3> SUFFICES ASSUME NEW k, NEW st, NEW ps, IsSequence(ps), Exact(list, k, st, ps)
                     PROVE  Exact(new, k, st, Grown(ps, id, a, k, KeysOf(st)))
            OBVIOUS
        <3>1. Exact(entered, k, st, ps)
            BY <1>3
        <3>2. Exact(new, k, st, IF k = id /\ st = entered[i].stream THEN Append(ps, p) ELSE ps)
            BY <2>2, <3>1
        <3>3. Grown(ps, id, a, k, KeysOf(st)) = IF k = id /\ st = entered[i].stream THEN Append(ps, p) ELSE ps
            <4>1. Grown(ps, id, a, k, KeysOf(st)) =
                    IF k = id /\ a.kind = "data" /\ Key(a) \in KeysOf(st) /\ a.lcn # Resident
                    THEN Append(ps, [vcn |-> a.vcn, lcn |-> a.lcn]) ELSE ps
                BY GrownIs
            <4>2. Key(a) \in KeysOf(st) <=> st = stream
                BY DEF KeysOf
            <4> QED
                BY <4>1, <4>2, <1>3, <1>5 DEF p
        <3> QED
            BY <3>2, <3>3
    <2> QED
        BY <2>2, <2>3, <2>4 DEF new
<1> QED
    BY <1>4, <1>5

-----------------------------------------------------------------------------
(* A record is analyzed.                                                   *)

IsFile(f, id) ==
    /\ f = [id |-> id, parent |-> f.parent, name |-> f.name, type |-> f.type]
    /\ f.parent \in Records

\* What is known of the file id while its attributes are looked at.
Known(s, id) ==
    s = [mfi |-> s.mfi, list |-> s.list] /\ IsFile(s.mfi, id) /\ Current(s.list, id)

LEMMA UpdateNameIs ==
    ASSUME NEW id \in Records, NEW f, IsFile(f, id), NEW a, a.parent \in Records
    PROVE  IsFile(UpdateName(f, a), id)
<1>1. CASE UpdateName(f, a) = f
    BY <1>1
<1>2. CASE UpdateName(f, a) = [f EXCEPT !.parent = a.parent, !.name = a.name, !.type = a.type]
    <2> DEFINE p == f.parent
               n == f.name
               t == f.type
               g == [f EXCEPT !.parent = a.parent]
               h == [g EXCEPT !.name = a.name]
    <2>1. f = [id |-> id, parent |-> p, name |-> n, type |-> t]
        BY DEF IsFile
    <2> HIDE DEF p, n, t
    <2>3. g = [id |-> id, parent |-> a.parent, name |-> n, type |-> t]
        BY <2>1
    <2>4. [f EXCEPT !.parent = a.parent, !.name = a.name, !.type = a.type] = [h EXCEPT !.type = a.type]
        OBVIOUS
    <2> HIDE DEF g
    <2>5. h = [id |-> id, parent |-> a.parent, name |-> a.name, type |-> t]
        BY <2>3
    <2> HIDE DEF h
    <2>2. UpdateName(f, a) = [id |-> id, parent |-> a.parent, name |-> a.name, type |-> a.type]
        BY <1>2, <2>4, <2>5
    <2> QED
        BY <2>2 DEF IsFile
<1>3. CASE UpdateName(f, a) = [f EXCEPT !.parent = a.parent]
    BY <1>3 DEF IsFile
<1> QED
    BY <1>1, <1>2, <1>3 DEF UpdateName

LEMMA AttributeReadable ==
    ASSUME NEW a, IsAttribute(a)
    PROVE  Readable(a)
BY DEF IsAttribute, Readable, AllKeys, Name

LEMMA AnalyzeIs ==
    ASSUME NEW id \in Records, NEW s, Known(s, id), NEW a, Readable(a)
    PROVE  /\ Known(Analyze(id, s, a), id)
           /\ \A k, st, ps : IsSequence(ps) /\ Exact(s.list, k, st, ps) =>
                Exact(Analyze(id, s, a).list, k, st, Grown(ps, id, a, k, KeysOf(st)))
<1> DEFINE n == Analyze(id, s, a)
<1>1. s = [mfi |-> s.mfi, list |-> s.list] /\ IsFile(s.mfi, id) /\ Current(s.list, id)
    BY DEF Known
<1>2. CASE a.kind = "name"
    <2>1. n = [mfi |-> UpdateName(s.mfi, a), list |-> s.list]
        BY <1>1, <1>2 DEF Analyze
    <2>2. a.parent \in Records
        BY <1>2 DEF Readable
    <2>3. IsFile(UpdateName(s.mfi, a), id)
        BY <1>1, <2>2, UpdateNameIs
    <2>4. n.mfi = UpdateName(s.mfi, a) /\ n.list = s.list
        BY <2>1
    <2>5. \A k, st, ps : IsSequence(ps) => Grown(ps, id, a, k, KeysOf(st)) = ps
        <3> SUFFICES ASSUME NEW k, NEW st, NEW ps, IsSequence(ps) PROVE Grown(ps, id, a, k, KeysOf(st)) = ps
            OBVIOUS
        <3>1. Piece(a, KeysOf(st)) = <<>>
            BY <1>2 DEF Piece
        <3> QED
            BY <3>1, ConcatEmpty DEF Grown
    <2> HIDE DEF n
    <2>6. Known(n, id)
        BY <1>1, <2>1, <2>3, <2>4 DEF Known
    <2>7. \A k, st, ps : IsSequence(ps) /\ Exact(s.list, k, st, ps) =>
              Exact(n.list, k, st, Grown(ps, id, a, k, KeysOf(st)))
        BY <2>4, <2>5
    <2> QED
        BY <2>6, <2>7 DEF n
<1>3. CASE a.kind # "name"
    <2> DEFINE l == AddPiece(s.list, id, a)
    <2>1. s.mfi.id = id
        BY <1>1 DEF IsFile
    <2>2. n = [mfi |-> s.mfi, list |-> l]
        BY <1>1, <1>3 DEF Analyze
    <2>3. a.kind = "data" /\ Key(a) \in AllKeys
        BY <1>3 DEF Readable
    <2>4. LET new == AddPiece(s.list, id, a)
          IN /\ Current(new, id)
             /\ \A k, st, ps : IsSequence(ps) /\ Exact(s.list, k, st, ps) =>
                    Exact(new, k, st, Grown(ps, id, a, k, KeysOf(st)))
        BY <1>1, <2>3, AddPieceIs, Zenon
    <2> HIDE DEF n
    <2>5. n.mfi = s.mfi /\ n.list = l
        BY <2>2
    <2>6. Current(l, id)
        BY <2>4
    <2>7. \A k, st, ps : IsSequence(ps) /\ Exact(s.list, k, st, ps) =>
              Exact(l, k, st, Grown(ps, id, a, k, KeysOf(st)))
        BY <2>4
    <2> HIDE DEF l
    <2>8. Known(n, id)
        BY <1>1, <2>2, <2>5, <2>6 DEF Known
    <2> QED
        BY <2>5, <2>7, <2>8 DEF n
<1> QED
    BY <1>2, <1>3

\* The pieces of some attributes, one after the other.
LEMMA PiecesInIs ==
    ASSUME NEW attrs, IsSequence(attrs), NEW keys
    PROVE  \E g : /\ g[0] = <<>> /\ g[Len(attrs)] = PiecesIn(attrs, keys)
                  /\ \A n \in 0 .. Len(attrs) : IsSequence(g[n])
                  /\ \A n \in 1 .. Len(attrs) : g[n] = g[n - 1] \o Piece(attrs[n], keys)
<1> DEFINE N == Len(attrs)
           ss == [i \in 1 .. N |-> Piece(attrs[i], keys)]
<1>1. N \in Nat
    BY SequenceIs
<1>2. PiecesIn(attrs, keys) = FlattenSeq(ss)
    BY DEF PiecesIn, Piece
<1>3. IsSequence(ss) /\ Len(ss) = N
    BY <1>1, IsSequenceOf
<1>4. \A i \in 1 .. N : ss[i] = Piece(attrs[i], keys) /\ IsSequence(Piece(attrs[i], keys))
    BY GrownIs, EmptyIs
<1> HIDE DEF ss
<1>5. PICK g : /\ g[0] = <<>> /\ g[Len(ss)] = FlattenSeq(ss)
               /\ \A n \in 0 .. Len(ss) : IsSequence(g[n])
               /\ \A n \in 1 .. Len(ss) : g[n] = g[n - 1] \o ss[n]
    BY <1>3, <1>4, FlattenIs
<1>6. \A n \in 1 .. N : g[n] = g[n - 1] \o Piece(attrs[n], keys)
    BY <1>3, <1>4, <1>5
<1> QED
    BY <1>2, <1>3, <1>5, <1>6

\* What a record adds to the list, whatever has been read before.
Entered(list, new, id, attrs) ==
    /\ \A k, st, ps : k # id /\ IsSequence(ps) /\ Exact(list, k, st, ps) => Exact(new, k, st, ps)
    /\ \A st : Exact(list, id, st, <<>>) => Exact(new, id, st, PiecesIn(attrs, KeysOf(st)))

\* The attributes of a record, one after the other.
LEMMA AnalyzedSteps ==
    ASSUME NEW id, NEW s, NEW attrs, IsSequence(attrs)
    PROVE  \E f : /\ f[0] = s /\ f[Len(attrs)] = Analyzed(id, s, attrs)
                  /\ \A n \in 1 .. Len(attrs) : f[n] = Analyze(id, f[n - 1], attrs[n])
<1> DEFINE N == Len(attrs)
           Is(f, n) == f = [i \in 0 .. n |-> IF i = 0 THEN s ELSE Analyze(id, f[i - 1], attrs[i])]
           T == {n \in 0 .. N : \E f : Is(f, n)}
<1>0. N \in Nat
    BY SequenceIs
<1>1. 0 \in T
    <2> DEFINE v == [i \in 0 .. 0 |-> s]
    <2>1. Is(v, 0)
        OBVIOUS
    <2> HIDE DEF Is
    <2> QED
        BY <2>1, <1>0
<1>2. ASSUME NEW k \in 0 .. N - 1, k \in T PROVE k + 1 \in T
    <2>1. PICK f : Is(f, k)
        BY <1>2
    <2> DEFINE v == [i \in 0 .. k + 1 |-> IF i \in 0 .. k THEN f[i] ELSE Analyze(id, f[k], attrs[i])]
    <2>2. ASSUME NEW i \in 0 .. k + 1
          PROVE  v[i] = IF i = 0 THEN s ELSE Analyze(id, v[i - 1], attrs[i])
        <3>1. CASE i \in 0 .. k
            <4>1. f[i] = IF i = 0 THEN s ELSE Analyze(id, f[i - 1], attrs[i])
                BY <2>1, <3>1
            <4>2. v[i] = f[i] /\ (i # 0 => v[i - 1] = f[i - 1])
                BY <3>1
            <4> HIDE DEF v
            <4> QED
                BY <4>1, <4>2
        <3>2. CASE i \notin 0 .. k
            <4>1. i = k + 1 /\ i - 1 = k /\ i # 0 /\ k \in 0 .. k
                BY <3>2
            <4>2. v[i] = Analyze(id, f[k], attrs[i]) /\ v[i - 1] = f[k]
                BY <3>2, <4>1
            <4> HIDE DEF v
            <4> QED
                BY <4>1, <4>2
        <3> QED
            BY <3>1, <3>2
    <2>3. v = [i \in 0 .. k + 1 |-> v[i]]
        OBVIOUS
    <2> HIDE DEF v
    <2>4. Is(v, k + 1)
        BY <2>2, <2>3
    <2> HIDE DEF Is
    <2>5. k + 1 \in 0 .. N
        BY <1>0
    <2> QED
        BY <2>4, <2>5
<1>3. N \in T
    <2> HIDE DEF T
    <2>1. \A k \in 0 .. N : k \in T
        BY <1>0, <1>1, <1>2, UpTo
    <2> QED
        BY <1>0, <2>1
<1> DEFINE f == CHOOSE f : Is(f, N)
<1>4. Is(f, N)
    BY <1>3
<1>5. Analyzed(id, s, attrs) = f[N]
    BY DEF Analyzed
<1> HIDE DEF f
<1>6. f[0] = s /\ \A n \in 1 .. N : f[n] = Analyze(id, f[n - 1], attrs[n])
    BY <1>0, <1>4
<1> QED
    BY <1>5, <1>6

LEMMA AnalyzedIs ==
    ASSUME NEW id \in Records, NEW s, Known(s, id), NEW attrs, IsAttributes(attrs)
    PROVE  Known(Analyzed(id, s, attrs), id) /\ Entered(s.list, Analyzed(id, s, attrs).list, id, attrs)
<1> DEFINE N == Len(attrs)
<1>0. N \in Nat /\ IsSequence(attrs) /\ \A i \in 1 .. N : IsAttribute(attrs[i])
    BY SequenceIs DEF IsAttributes
<1>6. PICK f : /\ f[0] = s /\ f[N] = Analyzed(id, s, attrs)
               /\ \A n \in 1 .. N : f[n] = Analyze(id, f[n - 1], attrs[n])
    BY <1>0, AnalyzedSteps
<1>5. Analyzed(id, s, attrs) = f[N]
    BY <1>6
<1>7. ASSUME NEW st, NEW k, NEW ps, IsSequence(ps)
      PROVE  /\ Known(f[N], id)
             /\ k # id /\ Exact(s.list, k, st, ps) => Exact(f[N].list, k, st, ps)
             /\ Exact(s.list, id, st, <<>>) => Exact(f[N].list, id, st, PiecesIn(attrs, KeysOf(st)))
    <2>1. PICK g : /\ g[0] = <<>> /\ g[N] = PiecesIn(attrs, KeysOf(st))
                   /\ \A n \in 0 .. N : IsSequence(g[n])
                   /\ \A n \in 1 .. N : g[n] = g[n - 1] \o Piece(attrs[n], KeysOf(st))
        BY <1>0, PiecesInIs
    <2> DEFINE Holds(n) ==
            /\ Known(f[n], id)
            /\ k # id /\ Exact(s.list, k, st, ps) => Exact(f[n].list, k, st, ps)
            /\ Exact(s.list, id, st, <<>>) => Exact(f[n].list, id, st, g[n])
               U == {n \in 0 .. N : Holds(n)}
    <2>2. 0 \in U
        BY <1>0, <1>6, <2>1
    <2>3. ASSUME NEW m \in 0 .. N - 1, m \in U PROVE m + 1 \in U
        <3> DEFINE a == attrs[m + 1]
        <3>1. m + 1 \in 1 .. N /\ m + 1 \in 0 .. N /\ (m + 1) - 1 = m /\ m \in 0 .. N
            BY <1>0
        <3>2. Readable(a) /\ f[m + 1] = Analyze(id, f[m], a) /\ Holds(m) /\ IsSequence(g[m])
            BY <1>0, <1>6, <2>1, <2>3, <3>1, AttributeReadable
        <3>3. g[m + 1] = g[m] \o Piece(a, KeysOf(st))
            BY <2>1, <3>1
        <3> HIDE DEF a
        <3>4. /\ Known(Analyze(id, f[m], a), id)
              /\ \A j, t, qs : IsSequence(qs) /\ Exact(f[m].list, j, t, qs) =>
                    Exact(Analyze(id, f[m], a).list, j, t, Grown(qs, id, a, j, KeysOf(t)))
            BY <3>2, AnalyzeIs
        <3>5. k # id => Grown(ps, id, a, k, KeysOf(st)) = ps
            BY DEF Grown
        <3>6. Grown(g[m], id, a, id, KeysOf(st)) = g[m + 1]
            BY <3>3 DEF Grown
        <3>7. Holds(m + 1)
            BY <1>7, <3>2, <3>4, <3>5, <3>6
        <3> HIDE DEF Holds
        <3> QED
            BY <3>1, <3>7
    <2> HIDE DEF U
    <2>4. \A m \in 0 .. N : m \in U
        BY <1>0, <2>2, <2>3, UpTo
    <2>5. Holds(N)
        BY <1>0, <2>4 DEF U
    <2> QED
        BY <2>1, <2>5
<1>8. Known(f[N], id)
    BY <1>7, EmptyIs
<1>9. Entered(s.list, f[N].list, id, attrs)
    BY <1>7, EmptyIs DEF Entered
<1> QED
    BY <1>5, <1>8, <1>9

\* The streams in question, all but the list of attributes.
Streams == {StreamName(key) : key \in Keys}

LEMMA StreamsAre ==
    /\ StreamName(Contents) = "" /\ StreamName(NamedStream) = "named"
    /\ StreamName(IndexRoot) = "" /\ StreamName(Index) = "" /\ StreamName(IndexBitmap) = ""
    /\ StreamName(Bitmap) = ":$BITMAP" /\ StreamName(<<"list", "">>) = ":$ATTRIBUTE_LIST"
    /\ \A st \in Streams : KeysOf(st) \subseteq Keys
    /\ \A st \in Streams : st \in {"", "named", ":$BITMAP"}
<1>1. /\ StreamName(Contents) = "" /\ StreamName(NamedStream) = "named"
      /\ StreamName(IndexRoot) = "" /\ StreamName(Index) = "" /\ StreamName(IndexBitmap) = ""
      /\ StreamName(Bitmap) = ":$BITMAP" /\ StreamName(<<"list", "">>) = ":$ATTRIBUTE_LIST"
    BY DEF StreamName, DefaultNames, Contents, NamedStream, IndexRoot, Index, IndexBitmap, Bitmap
<1>2. \A key \in Keys : StreamName(key) \in {"", "named", ":$BITMAP"}
    BY <1>1 DEF Keys
<1>3. \A st \in Streams : st \in {"", "named", ":$BITMAP"}
    BY <1>2 DEF Streams
<1>4. ASSUME NEW st \in Streams, NEW key \in KeysOf(st) PROVE key \in Keys
    <2>1. key \in Keys \/ key = <<"list", "">>
        BY <1>4 DEF KeysOf, AllKeys
    <2>2. StreamName(key) # ":$ATTRIBUTE_LIST"
        BY <1>3, <1>4 DEF KeysOf
    <2> QED
        BY <1>1, <2>1, <2>2
<1> QED
    BY <1>1, <1>3, <1>4

\* A list without the files from id on down.
Above(list, id) ==
    /\ IsFileList(list) /\ Ordered(list)
    /\ \A i \in DOMAIN list : id < list[i].id /\ list[i].path = NoPath

LEMMA AnalyzeBaseIs ==
    ASSUME TableSound, NEW r \in Records, Above(filelist, r)
    PROVE  LET s == AnalyzeBase(r)
           IN /\ Known(s, r)
              /\ \A k, st, ps : k # r /\ IsSequence(ps) /\ Exact(filelist, k, st, ps) => Exact(s.list, k, st, ps)
              /\ \A st \in Streams : Exact(s.list, r, st, PiecesIn(mft[r].attrs, KeysOf(st)))
<1> DEFINE f == [NoFile EXCEPT !.id = r]
           z == [mfi |-> f, list |-> filelist]
           attrs == mft[r].attrs
           own == Analyzed(r, z, attrs)
<1>1. IsFile(f, r)
    BY RecordFacts DEF IsFile, NoFile
<1>2. Current(filelist, r)
    BY DEF Above, Current, IsFileList, IsItem, Records
<1>3. Known(z, r) /\ z.list = filelist
    <2> HIDE DEF f
    <2> QED
        BY <1>1, <1>2 DEF Known
<1>4. IsAttributes(attrs)
    BY RecordFacts
<1>5. \A st : Exact(filelist, r, st, <<>>)
    BY DEF Above, Exact, IsFileList, IsItem, Records
<1> HIDE DEF z, attrs
<1>6. Known(own, r) /\ Entered(filelist, own.list, r, attrs)
    BY <1>3, <1>4, AnalyzedIs
<1> HIDE DEF own
<1>7. /\ \A k, st, ps : k # r /\ IsSequence(ps) /\ Exact(filelist, k, st, ps) => Exact(own.list, k, st, ps)
      /\ \A st \in Streams : Exact(own.list, r, st, PiecesIn(attrs, KeysOf(st)))
    BY <1>5, <1>6 DEF Entered
<1>8. CASE mft[r].list = <<>>
    <2>1. AnalyzeBase(r) = own
        BY <1>8 DEF AnalyzeBase, own, z, attrs
    <2> QED
        BY <1>6, <1>7, <2>1 DEF attrs
<1>9. CASE mft[r].list # <<>>
    <2> DEFINE place == IF mft[r].resident THEN Resident ELSE <<r, mft[r].seq, "list">>
               a == Data(<<"list", "">>, 0, place)
               s == Analyze(r, own, a)
    <2>1. AnalyzeBase(r) = s
        BY <1>9 DEF AnalyzeBase, own, z, attrs
    <2>2. Readable(a) /\ a.kind = "data" /\ Key(a) = <<"list", "">>
        <3>1. a.kind = "data" /\ Key(a) = <<"list", "">>
            <4> HIDE DEF place
            <4> QED
                BY ListAttributeIs
        <3> HIDE DEF a
        <3> QED
            BY <3>1 DEF Readable, AllKeys
    <2> HIDE DEF a
    <2>3. /\ Known(s, r)
          /\ \A k, st, ps : IsSequence(ps) /\ Exact(own.list, k, st, ps) =>
                Exact(s.list, k, st, Grown(ps, r, a, k, KeysOf(st)))
        BY <1>6, <2>2, AnalyzeIs
    <2> HIDE DEF s
    <2>4. \A k, st, ps : k # r => Grown(ps, r, a, k, KeysOf(st)) = ps
        BY DEF Grown
    <2>5. ASSUME NEW st \in Streams PROVE Exact(s.list, r, st, PiecesIn(attrs, KeysOf(st)))
        <3>1. IsSequence(PiecesIn(attrs, KeysOf(st)))
            <4>1. IsSequence(attrs) /\ Len(attrs) \in 0 .. Len(attrs)
                BY <1>4, SequenceIs DEF IsAttributes
            <4> QED
                BY <4>1, PiecesInIs
        <3>2. Piece(a, KeysOf(st)) = <<>>
            <4>1. <<"list", "">> \notin Keys
                BY DEF Keys, Contents, NamedStream, IndexRoot, Index, IndexBitmap, Bitmap
            <4> QED
                BY <2>2, <4>1, StreamsAre DEF Piece
        <3>3. Grown(PiecesIn(attrs, KeysOf(st)), r, a, r, KeysOf(st)) = PiecesIn(attrs, KeysOf(st))
            BY <3>1, <3>2, ConcatEmpty DEF Grown
        <3> QED
            BY <1>7, <2>3, <3>1, <3>3
    <2>6. \A k, st, ps : k # r /\ IsSequence(ps) /\ Exact(filelist, k, st, ps) => Exact(s.list, k, st, ps)
        <3> SUFFICES ASSUME NEW k, NEW st, NEW ps, k # r, IsSequence(ps), Exact(filelist, k, st, ps)
                     PROVE  Exact(s.list, k, st, ps)
            OBVIOUS
        <3>1. Exact(own.list, k, st, ps)
            BY <1>7
        <3>2. Exact(s.list, k, st, Grown(ps, r, a, k, KeysOf(st)))
            BY <2>3, <3>1
        <3> QED
            BY <2>4, <3>2
    <2> QED
        BY <2>1, <2>3, <2>5, <2>6 DEF attrs
<1> QED
    BY <1>8, <1>9

\* At most one attribute of a sort: its piece is all there is.
LEMMA SinglePiece ==
    ASSUME NEW attrs, IsAttributes(attrs), NEW key,
           \A j, k \in DOMAIN attrs :
                Key(attrs[j]) = key /\ Key(attrs[k]) = key => j = k
    PROVE  /\ (\A j \in DOMAIN attrs : Key(attrs[j]) # key) => PiecesIn(attrs, {key}) = <<>>
           /\ \A j \in DOMAIN attrs : Key(attrs[j]) = key => PiecesIn(attrs, {key}) = Piece(attrs[j], {key})
<1> DEFINE N == Len(attrs)
           Has(a) == a.kind = "data" /\ Key(a) \in {key} /\ a.lcn # Resident
           C == {i \in 1 .. N : Has(attrs[i])}
           x == [i \in 1 .. N |-> [vcn |-> attrs[i].vcn, lcn |-> attrs[i].lcn]]
           ss == [i \in 1 .. N |-> IF i \in C THEN <<x[i]>> ELSE <<>>]
<1>1. N \in Nat /\ DOMAIN attrs = 1 .. N
    BY SequenceIs DEF IsAttributes
<1>2. PiecesIn(attrs, {key}) = FlattenSeq(ss)
    <2>1. [i \in 1 .. N |-> LET a == attrs[i]
            IN IF a.kind = "data" /\ Key(a) \in {key} /\ a.lcn # Resident
               THEN <<[vcn |-> a.vcn, lcn |-> a.lcn]>> ELSE <<>>] = ss
        OBVIOUS
    <2> QED
        BY <2>1 DEF PiecesIn
<1>3. \A i \in C : Key(attrs[i]) = key /\ i \in DOMAIN attrs
    BY <1>1 DEF Key
<1> DEFINE q == FlattenSeq(ss)
<1>4. IsSequence(q) /\ \E h : Selected(q, x, N, C, h)
    <2> HIDE DEF C, x
    <2> QED
        BY <1>1, SelectionIs
<1>5. PICK h : Selected(q, x, N, C, h)
    BY <1>4
<1>6. Len(q) \in Nat
    BY <1>4, SequenceIs
<1>7. Len(q) < 2
    <2> SUFFICES ASSUME ~(Len(q) < 2) PROVE FALSE
        OBVIOUS
    <2>1. 1 \in 1 .. Len(q) /\ 2 \in 1 .. Len(q)
        BY <1>6
    <2> HIDE DEF q, C, x
    <2>2. h[1] \in C /\ h[2] \in C /\ h[1] < h[2] /\ h[1] \in 1 .. N /\ h[2] \in 1 .. N
        BY <1>5, <2>1 DEF Selected
    <2>3. h[1] = h[2]
        BY <1>3, <2>2
    <2> QED
        BY <2>2, <2>3
<1>8. ASSUME \A j \in DOMAIN attrs : Key(attrs[j]) # key PROVE q = <<>>
    <2> HIDE DEF q, C, x
    <2>1. C = {}
        BY <1>3, <1>8
    <2>2. ~(1 \in 1 .. Len(q))
        BY <1>5, <2>1 DEF Selected
    <2>3. Len(q) = 0
        BY <1>6, <2>2
    <2> QED
        BY <1>4, <2>3, EmptyIs
<1>9. ASSUME NEW j \in DOMAIN attrs, Key(attrs[j]) = key PROVE q = Piece(attrs[j], {key})
    <2>1. CASE j \in C
        <3>1. Piece(attrs[j], {key}) = <<x[j]>>
            BY <1>1, <2>1 DEF Piece
        <3> HIDE DEF q, C, x
        <3>2. PICK m \in 1 .. Len(q) : h[m] = j
            BY <1>1, <1>5, <2>1 DEF Selected
        <3>3. m = 1 /\ Len(q) = 1
            <4>1. \A n \in Nat : n < 2 => \A i \in 1 .. n : i = 1 /\ n = 1
                OBVIOUS
            <4> QED
                BY <1>6, <1>7, <4>1, Zenon
        <3>4. q[1] = x[j]
            BY <1>5, <3>2, <3>3 DEF Selected
        <3>5. IsSequence(<<x[j]>>) /\ Len(<<x[j]>>) = 1 /\ <<x[j]>>[1] = x[j]
            BY OneIs
        <3>6. q = <<x[j]>>
            BY <1>4, <3>3, <3>4, <3>5, Same
        <3> QED
            BY <3>1, <3>6
    <2>2. CASE j \notin C
        <3>1. Piece(attrs[j], {key}) = <<>>
            BY <1>1, <2>2 DEF Piece
        <3> HIDE DEF q, C, x
        <3>2. ASSUME NEW m \in 1 .. Len(q) PROVE FALSE
            <4>1. h[m] \in C
                BY <1>5 DEF Selected
            <4>2. h[m] = j
                BY <1>3, <1>9, <4>1
            <4> QED
                BY <2>2, <4>1, <4>2
        <3>3. Len(q) = 0
            BY <1>6, <3>2
        <3> QED
            BY <1>4, <3>1, <3>3, EmptyIs
    <2> QED
        BY <2>1, <2>2
<1> QED
    BY <1>2, <1>8, <1>9

-----------------------------------------------------------------------------
(* The invariant.                                                          *)

\* What the i-th record of a file has of some attributes, the base record first,
\* and the sums of the first ones.
Share(t, r, keys, i) ==
    IF i = 1 THEN PiecesIn(t[r].attrs, keys)
    ELSE LET e == t[r].list[i - 1]
         IN IF e.key \in keys THEN PiecesIn(t[e.id].attrs, {e.key}) ELSE <<>>
Sums(h, t, r, keys) ==
    /\ h[0] = <<>>
    /\ \A n \in 0 .. Len(t[r].list) + 1 : IsSequence(h[n])
    /\ \A n \in 1 .. Len(t[r].list) + 1 : h[n] = h[n - 1] \o Share(t, r, keys, n)

Reading == pc \in {"list", "children"}
Scanning == Reading \/ pc = "scan"
Building == pc \in {"paths", "walk"}

\* Types, and the position in the list.
Sound ==
    /\ mft_id \in Records /\ unread \subseteq Records
    /\ result \in {-1, 0} /\ stopped \in BOOLEAN
    /\ IsFileList(filelist) /\ Ordered(filelist)
    /\ at \in 1 .. Len(filelist) + 1 /\ (at = 1 \/ Building \/ pc = "filter")
    /\ parent \in Records /\ IsSequence(child) /\ Len(child) <= MaxPath
    /\ pc = "walk" => child # <<>> /\ at <= Len(filelist)
    /\ Scanning \/ Building \/ pc \in {"filter", "remove", "done"}

\* Which files the list holds while the records are read.
Found ==
    /\ ~Reading => mfi = NoFile
    /\ pc = "scan" => Above(filelist, mft_id)
    /\ Reading => /\ mfi.id \in Records /\ IsFile(mfi, mfi.id) /\ mfi.id <= mft_id
                  /\ IsList(entries) /\ Current(filelist, mfi.id)

\* The file which is read: what is in the list are the pieces of the records
\* up to the position in its attribute list, of which rest is left.
Matches(t, r, list, rest, whole) ==
    LET k == Len(t[r].list) - Len(rest)
    IN /\ k \in Nat /\ (whole => k = 0)
       /\ \A i \in DOMAIN rest : rest[i] = t[r].list[k + i]
       /\ \A st \in Streams : \A h : Sums(h, t, r, KeysOf(st)) => Exact(list, r, st, h[k + 1])
Underway ==
    Reading /\ ~stopped /\ mfi.id \notin touched \cup unread =>
        IsBase(mfi.id) /\ Matches(mft, mfi.id, filelist, entries, pc = "list")

\* The attributes with a stream of their own, in the files which have been read.
Alone(r) == {key \in Keys : ~Merged(r, key)}
Passed(r) == (pc = "scan" => mft_id < r) /\ (Reading => mfi.id < r)
Complete ==
    ~stopped /\ pc # "done" =>
        \A r \in Records \ (touched \cup unread) : Passed(r) /\ IsBase(r) =>
            \A key \in Alone(r) : Exact(filelist, r, StreamName(key), Pieces(r, key))

\* Who has a path: all or, when the first record could not be read, nobody.
Pathed ==
    ~stopped =>
        /\ Building => \A i \in DOMAIN filelist : i < at => filelist[i].path # NoPath
        /\ pc = "filter" => \A i \in DOMAIN filelist : filelist[i].path # NoPath
        /\ pc = "remove" => \/ \A i \in DOMAIN filelist : filelist[i].path # NoPath
                            \/ \A i \in DOMAIN filelist : filelist[i].path = NoPath

\* Exactly these are the clusters of a stream.
Streamed(list, r, st, ps) ==
    LET found == {i \in DOMAIN list : list[i].id = r /\ list[i].stream = st}
    IN IF ps = <<>> THEN found = {} ELSE \E i \in found : found = {i} /\ list[i].map = ps
Final ==
    pc = "done" /\ ~stopped /\ result = 0 =>
        \A r \in Records \ (touched \cup unread) : IsBase(r) =>
            \A key \in Alone(r) : Streamed(filelist, r, StreamName(key), Pieces(r, key))

Inv == TableSound /\ Sound /\ Found /\ Underway /\ Complete /\ Pathed /\ Final

LEMMA PiecesAre ==
    ASSUME NEW t, NEW r, IsList(t[r].list), IsAttributes(t[r].attrs),
           \A c \in Records : IsAttributes(t[c].attrs), NEW keys
    PROVE  \E h : Sums(h, t, r, keys) /\ h[Len(t[r].list) + 1] = PiecesOf(t, r, keys)
<1> DEFINE list == t[r].list
           N == Len(list) + 1
           ss == [i \in 1 .. N |-> Share(t, r, keys, i)]
<1>1. Len(list) \in Nat /\ DOMAIN list = 1 .. Len(list)
    BY SequenceIs DEF IsList
<1>2. PiecesOf(t, r, keys) = FlattenSeq(ss)
    BY DEF PiecesOf, Share
<1>3. IsSequence(ss) /\ Len(ss) = N
    <2> HIDE DEF list
    <2> QED
        BY <1>1, IsSequenceOf
<1>4. \A attrs, k : IsAttributes(attrs) => IsSequence(PiecesIn(attrs, k))
    <2> SUFFICES ASSUME NEW attrs, NEW k, IsAttributes(attrs) PROVE IsSequence(PiecesIn(attrs, k))
        OBVIOUS
    <2>1. IsSequence(attrs) /\ Len(attrs) \in 0 .. Len(attrs)
        BY SequenceIs DEF IsAttributes
    <2> QED
        BY <2>1, PiecesInIs
<1>5. ASSUME NEW i \in 1 .. N PROVE IsSequence(Share(t, r, keys, i))
    <2>1. CASE i = 1
        BY <1>4, <2>1 DEF Share
    <2>2. CASE i # 1
        <3>1. list[i - 1].id \in Records
            <4>1. i - 1 \in DOMAIN list
                <5> HIDE DEF list
                <5> QED
                    BY <1>1, <2>2
            <4> QED
                BY <4>1 DEF IsList
        <3> QED
            BY <1>4, <2>2, <3>1, EmptyIs DEF Share
    <2> QED
        BY <2>1, <2>2
<1>6. \A i \in 1 .. N : ss[i] = Share(t, r, keys, i)
    OBVIOUS
<1> HIDE DEF ss
<1>7. \A i \in 1 .. Len(ss) : IsSequence(ss[i])
    BY <1>3, <1>5, <1>6
<1>8. PICK h : /\ h[0] = <<>> /\ h[N] = FlattenSeq(ss)
               /\ \A n \in 0 .. N : IsSequence(h[n])
               /\ \A n \in 1 .. N : h[n] = h[n - 1] \o ss[n]
    BY <1>3, <1>7, FlattenIs
<1>9. Sums(h, t, r, keys)
    BY <1>6, <1>8 DEF Sums
<1> QED
    BY <1>2, <1>8, <1>9

LEMMA SharesKept ==
    ASSUME NEW t, NEW u, NEW r \in Records, IsList(t[r].list), SameFile(t, u, r), NEW keys, NEW h,
           Sums(h, u, r, keys)
    PROVE  Sums(h, t, r, keys)
<1>1. u[r] = t[r]
    BY DEF SameFile
<1>2. Len(t[r].list) \in Nat /\ DOMAIN t[r].list = 1 .. Len(t[r].list)
    BY SequenceIs DEF IsList
<1>3. ASSUME NEW i \in 1 .. Len(t[r].list) + 1 PROVE Share(u, r, keys, i) = Share(t, r, keys, i)
    <2>1. CASE i = 1
        BY <1>1, <2>1 DEF Share
    <2>2. CASE i # 1
        <3>1. i - 1 \in DOMAIN t[r].list
            BY <1>2, <2>2
        <3>2. u[t[r].list[i - 1].id] = t[t[r].list[i - 1].id]
            BY <3>1 DEF SameFile
        <3> QED
            BY <1>1, <2>2, <3>2 DEF Share
    <2> QED
        BY <2>1, <2>2
<1> QED
    BY <1>1, <1>3 DEF Sums

LEMMA OthersKeep ==
    ASSUME Inv, OthersWork
    PROVE  Inv'
<1>1. /\ TableSound /\ Others /\ Scanning
      /\ UNCHANGED <<mft_id, mfi, entries, filelist, at, child, parent, full, result, unread, stopped, pc>>
    BY DEF Inv, OthersWork, file, path, Scanning, Reading
<1>2. PICK S : touched' = touched \cup S /\ Disturbed(mft, mft', S)
    BY <1>1, OthersDisturb
<1>3. TableSound' /\ \A r \in Records \ touched' : Stays(r)
    BY <1>1, <1>2, TableKept
<1>4. ASSUME NEW r \in Records \ touched', IsBase(r)'
      PROVE  /\ r \in Records \ touched /\ IsBase(r) /\ mft'[r] = mft[r]
             /\ SameFile(mft, mft', r) /\ IsList(mft[r].list)
             /\ \A key : Pieces(r, key)' = Pieces(r, key)
             /\ Alone(r)' = Alone(r)
    <2>1. Stays(r) /\ r \in Records \ touched
        BY <1>2, <1>3, <1>4
    <2>2. mft'[r] = mft[r] /\ IsBase(r)
        BY <1>4, <2>1 DEF Stays, IsBase
    <2>3. SameFile(mft, mft', r) /\ IsList(mft[r].list)
        BY <1>1, <2>1, <2>2, RecordFacts DEF Stays
    <2>4. \A keys : PiecesOf(mft', r, keys) = PiecesOf(mft, r, keys)
        BY <1>4, <2>3, PiecesKept
    <2>5. \A key : Pieces(r, key)' = Pieces(r, key)
        BY <2>4 DEF Pieces
    <2>6. Alone(r)' = Alone(r)
        BY <2>5 DEF Alone, Merged
    <2> QED
        BY <2>1, <2>2, <2>3, <2>5, <2>6
<1>5. Sound' /\ Found' /\ Pathed' /\ Final'
    BY <1>1 DEF Inv, Sound, Found, Pathed, Final, Scanning, Reading, Building
<1>6. Complete'
    <2> SUFFICES ASSUME ~stopped', pc' # "done",
                        NEW r \in Records \ (touched' \cup unread'), Passed(r)', IsBase(r)',
                        NEW key \in Alone(r)'
                 PROVE  Exact(filelist', r, StreamName(key), Pieces(r, key)')
        BY DEF Complete
    <2>1. Passed(r)
        BY <1>1 DEF Passed, Reading
    <2>2. /\ r \in Records \ (touched \cup unread) /\ IsBase(r) /\ key \in Alone(r)
          /\ Pieces(r, key)' = Pieces(r, key)
        BY <1>1, <1>4
    <2>3. Exact(filelist, r, StreamName(key), Pieces(r, key))
        BY <1>1, <2>1, <2>2 DEF Inv, Complete
    <2> QED
        BY <1>1, <2>2, <2>3
<1>7. Underway'
    <2> SUFFICES ASSUME Reading', ~stopped', mfi'.id \notin touched' \cup unread'
                 PROVE  IsBase(mfi.id)' /\ Matches(mft', mfi'.id, filelist', entries', pc' = "list")
        BY DEF Underway
    <2> DEFINE r == mfi.id
    <2>1. Reading /\ ~stopped /\ r \notin touched \cup unread /\ r \in Records /\ r \notin touched'
        BY <1>1, <1>2 DEF Reading, Inv, Found
    <2>2. IsBase(r) /\ Matches(mft, r, filelist, entries, pc = "list")
        BY <2>1 DEF Inv, Underway
    <2>3. mft'[r] = mft[r] /\ Stays(r)
        BY <1>3, <2>1 DEF Stays
    <2>4. IsBase(mfi.id)'
        BY <1>1, <2>2, <2>3 DEF IsBase
    <2>5. SameFile(mft, mft', r) /\ IsList(mft[r].list)
        BY <1>1, <2>1, <2>2, <2>3, RecordFacts DEF Stays
    <2>6. \A st, h : Sums(h, mft', r, KeysOf(st)) => Sums(h, mft, r, KeysOf(st))
        BY <2>1, <2>5, SharesKept
    <2> HIDE DEF r
    <2>7. Matches(mft', r, filelist, entries, pc = "list")
        BY <2>2, <2>3, <2>6 DEF Matches
    <2> QED
        BY <1>1, <2>4, <2>7 DEF r
<1> QED
    BY <1>3, <1>5, <1>6, <1>7 DEF Inv

LEMMA PiecesSequence ==
    ASSUME TableSound, NEW r \in Records, NEW keys
    PROVE  /\ IsSequence(PiecesOf(mft, r, keys)) /\ IsSequence(PiecesIn(mft[r].attrs, keys))
           /\ \E h : Sums(h, mft, r, keys) /\ h[Len(mft[r].list) + 1] = PiecesOf(mft, r, keys)
<1>1. IsList(mft[r].list) /\ \A c \in Records : IsAttributes(mft[c].attrs)
    BY RecordFacts
<1>2. PICK h : Sums(h, mft, r, keys) /\ h[Len(mft[r].list) + 1] = PiecesOf(mft, r, keys)
    BY <1>1, PiecesAre
<1> DEFINE n == Len(mft[r].list)
<1>3. n \in Nat
    BY <1>1, SequenceIs DEF IsList
<1>4. n + 1 \in 0 .. n + 1 /\ 1 \in 0 .. n + 1 /\ 1 \in 1 .. n + 1 /\ 1 - 1 = 0
    <2> HIDE DEF n
    <2> QED
        BY <1>3
<1>5. IsSequence(PiecesOf(mft, r, keys))
    BY <1>2, <1>4 DEF Sums
<1>6. IsSequence(mft[r].attrs) /\ Len(mft[r].attrs) \in 0 .. Len(mft[r].attrs)
    BY <1>1, SequenceIs DEF IsAttributes
<1>7. IsSequence(PiecesIn(mft[r].attrs, keys))
    BY <1>6, PiecesInIs
<1> QED
    BY <1>2, <1>5, <1>7

LEMMA PiecesSound ==
    ASSUME TableSound, NEW r \in Records, NEW key
    PROVE  IsSequence(Pieces(r, key))
BY PiecesSequence DEF Pieces

\* What nothing has been added to has got nothing.
LEMMA SumEmpty ==
    ASSUME NEW N \in Nat, NEW g, NEW ss, g[0] = <<>>, g[N] = <<>>,
           \A n \in 0 .. N : IsSequence(g[n]),
           \A n \in 1 .. N : IsSequence(ss[n]) /\ g[n] = g[n - 1] \o ss[n]
    PROVE  \A n \in 1 .. N : ss[n] = <<>>
<1> DEFINE T == {k \in 0 .. N : g[N - k] = <<>>}
<1>1. 0 \in T
    OBVIOUS
<1>2. ASSUME NEW n \in 1 .. N, g[n] = <<>> PROVE g[n - 1] = <<>> /\ ss[n] = <<>>
    <2>1. IsSequence(g[n - 1]) /\ IsSequence(ss[n]) /\ g[n] = g[n - 1] \o ss[n]
        <3>1. n - 1 \in 0 .. N
            OBVIOUS
        <3> QED
            BY <3>1
    <2>2. Len(g[n - 1] \o ss[n]) = Len(g[n - 1]) + Len(ss[n])
        BY <2>1, ConcatIs
    <2>3. Len(g[n - 1] \o ss[n]) = 0
        <3>1. g[n - 1] \o ss[n] = <<>>
            BY <1>2, <2>1
        <3> QED
            BY <3>1, EmptyIs
    <2>4. Len(g[n - 1]) = 0 /\ Len(ss[n]) = 0
        <3>1. Len(g[n - 1]) \in Nat /\ Len(ss[n]) \in Nat
            BY <2>1 DEF IsSequence
        <3>2. \A x, y \in Nat : x + y = 0 => x = 0 /\ y = 0
            OBVIOUS
        <3> QED
            BY <2>2, <2>3, <3>1, <3>2
    <2> QED
        BY <2>1, <2>4, EmptyIs
<1>3. ASSUME NEW k \in 0 .. N - 1, k \in T PROVE k + 1 \in T
    <2>1. N - k \in 1 .. N /\ (N - k) - 1 = N - (k + 1) /\ k + 1 \in 0 .. N
        OBVIOUS
    <2>2. g[(N - k) - 1] = <<>>
        BY <1>2, <1>3, <2>1
    <2> QED
        BY <2>1, <2>2
<1>4. \A k \in 0 .. N : k \in T
    <2> HIDE DEF T
    <2> QED
        BY <1>1, <1>3, UpTo
<1> SUFFICES ASSUME NEW n \in 1 .. N PROVE ss[n] = <<>>
    OBVIOUS
<1>5. N - n \in 0 .. N /\ N - (N - n) = n
    OBVIOUS
<1>6. g[N - (N - n)] = <<>>
    BY <1>4, <1>5
<1> QED
    BY <1>2, <1>5, <1>6

LEMMA NoPieceIn ==
    ASSUME NEW attrs, IsSequence(attrs), NEW keys, PiecesIn(attrs, keys) = <<>>
    PROVE  \A i \in 1 .. Len(attrs) : Piece(attrs[i], keys) = <<>>
<1> DEFINE N == Len(attrs)
           ss == [i \in 1 .. N |-> Piece(attrs[i], keys)]
<1>1. N \in Nat
    BY SequenceIs
<1>2. PICK g : /\ g[0] = <<>> /\ g[N] = PiecesIn(attrs, keys)
               /\ \A n \in 0 .. N : IsSequence(g[n])
               /\ \A n \in 1 .. N : g[n] = g[n - 1] \o Piece(attrs[n], keys)
    BY PiecesInIs
<1>3. \A n \in 1 .. N : ss[n] = Piece(attrs[n], keys) /\ IsSequence(Piece(attrs[n], keys))
    BY GrownIs, EmptyIs
<1> HIDE DEF ss, N
<1>4. \A n \in 1 .. N : ss[n] = <<>>
    BY <1>1, <1>2, <1>3, SumEmpty
<1> QED
    BY <1>3, <1>4 DEF N

\* An attribute which shares its stream with nothing has all of it.
LEMMA AloneIs ==
    ASSUME TableSound, NEW r \in Records, NEW key \in Alone(r)
    PROVE  /\ key \in Keys /\ StreamName(key) \in Streams
           /\ PiecesOf(mft, r, KeysOf(StreamName(key))) = Pieces(r, key)
<1> DEFINE keys == KeysOf(StreamName(key))
           list == mft[r].list
           N == Len(list) + 1
<1>1. key \in Keys /\ StreamName(key) \in Streams /\ keys \subseteq Keys /\ key \in keys
    BY StreamsAre DEF Alone, Streams, KeysOf, AllKeys
<1>2. \A other \in keys : other # key => PiecesOf(mft, r, {other}) = <<>>
    BY <1>1 DEF Alone, Merged, Pieces, KeysOf
<1> HIDE DEF keys
<1>3. IsList(list) /\ \A c \in Records : IsAttributes(mft[c].attrs)
    BY RecordFacts
<1>4. Len(list) \in Nat /\ DOMAIN list = 1 .. Len(list)
    BY <1>3, SequenceIs DEF IsList
<1>5. ASSUME NEW other \in keys, other # key
      PROVE  \A i \in 1 .. N : Share(mft, r, {other}, i) = <<>>
    <2> DEFINE ss == [i \in 1 .. N |-> Share(mft, r, {other}, i)]
    <2>1. PICK h : Sums(h, mft, r, {other}) /\ h[N] = <<>>
        <3>1. \E h : Sums(h, mft, r, {other}) /\ h[N] = PiecesOf(mft, r, {other})
            BY PiecesSequence
        <3> QED
            BY <1>2, <1>5, <3>1
    <2>2. N \in Nat
        <3> HIDE DEF list
        <3> QED
            BY <1>4
    <2>3. ASSUME NEW i \in 1 .. N PROVE IsSequence(Share(mft, r, {other}, i))
        <3>1. CASE i = 1
            BY <3>1, PiecesSequence DEF Share
        <3>2. CASE i # 1
            <4>1. i - 1 \in DOMAIN list
                <5> HIDE DEF list
                <5> QED
                    BY <1>4, <3>2
            <4>2. list[i - 1].id \in Records
                BY <1>3, <4>1 DEF IsList
            <4> QED
                BY <3>2, <4>2, PiecesSequence, EmptyIs DEF Share
        <3> QED
            BY <3>1, <3>2
    <2>4. \A n \in 1 .. N : IsSequence(ss[n]) /\ h[n] = h[n - 1] \o ss[n]
        BY <2>1, <2>3 DEF Sums
    <2>5. h[0] = <<>> /\ \A n \in 0 .. N : IsSequence(h[n])
        BY <2>1 DEF Sums
    <2>6. \A n \in 1 .. N : ss[n] = Share(mft, r, {other}, n)
        OBVIOUS
    <2> HIDE DEF ss, N
    <2>7. \A n \in 1 .. N : ss[n] = <<>>
        BY <2>1, <2>2, <2>4, <2>5, SumEmpty
    <2> QED
        BY <2>6, <2>7
<1>6. PiecesIn(mft[r].attrs, keys) = PiecesIn(mft[r].attrs, {key})
    <2> DEFINE attrs == mft[r].attrs
               M == Len(attrs)
    <2>1. IsSequence(attrs)
        BY <1>3 DEF IsAttributes
    <2>2. 1 \in 1 .. N
        <3> HIDE DEF list
        <3> QED
            BY <1>4
    <2>3. ASSUME NEW other \in keys, other # key
          PROVE  \A i \in 1 .. M : Piece(attrs[i], {other}) = <<>>
        <3>1. Share(mft, r, {other}, 1) = <<>>
            BY <1>5, <2>2, <2>3
        <3>2. PiecesIn(attrs, {other}) = <<>>
            BY <3>1 DEF Share
        <3> HIDE DEF attrs
        <3> QED
            BY <2>1, <3>2, NoPieceIn
    <2>4. ASSUME NEW i \in 1 .. M PROVE Piece(attrs[i], keys) = Piece(attrs[i], {key})
        <3> DEFINE a == attrs[i]
        <3>1. ASSUME a.kind = "data", Key(a) \in keys, Key(a) # key PROVE a.lcn = Resident
            <4>1. Piece(a, {Key(a)}) = <<>>
                BY <2>3, <3>1
            <4> HIDE DEF a
            <4> QED
                BY <3>1, <4>1 DEF Piece
        <3> HIDE DEF a
        <3>2. Piece(a, keys) = Piece(a, {key})
            BY <1>1, <3>1 DEF Piece
        <3> QED
            BY <3>2 DEF a
    <2> HIDE DEF attrs
    <2>5. \A k : PiecesIn(attrs, k) = FlattenSeq([i \in 1 .. M |-> Piece(attrs[i], k)])
        BY DEF PiecesIn, Piece
    <2>6. [i \in 1 .. M |-> Piece(attrs[i], keys)] = [i \in 1 .. M |-> Piece(attrs[i], {key})]
        BY <2>4
    <2> QED
        BY <2>5, <2>6 DEF attrs
<1>7. ASSUME NEW i \in 1 .. N PROVE Share(mft, r, keys, i) = Share(mft, r, {key}, i)
    <2>1. CASE i = 1
        BY <1>6, <2>1 DEF Share
    <2>2. CASE i # 1
        <3> DEFINE e == list[i - 1]
                   own == PiecesIn(mft[e.id].attrs, {e.key})
        <3>1. \A k : Share(mft, r, k, i) = IF e.key \in k THEN own ELSE <<>>
            BY <2>2 DEF Share
        <3>2. ASSUME e.key \in keys, e.key # key PROVE own = <<>>
            <4>1. Share(mft, r, {e.key}, i) = <<>>
                BY <1>5, <1>7, <3>2
            <4> HIDE DEF own, e
            <4> QED
                BY <3>1, <4>1
        <3> HIDE DEF own, e
        <3> QED
            BY <1>1, <3>1, <3>2
    <2> QED
        BY <2>1, <2>2
<1>8. \A k : PiecesOf(mft, r, k) = FlattenSeq([i \in 1 .. N |-> Share(mft, r, k, i)])
    BY DEF PiecesOf, Share
<1> HIDE DEF N
<1>9. [i \in 1 .. N |-> Share(mft, r, keys, i)] = [i \in 1 .. N |-> Share(mft, r, {key}, i)]
    BY <1>7
<1>10. PiecesOf(mft, r, keys) = Pieces(r, key)
    BY <1>8, <1>9 DEF Pieces
<1> QED
    BY <1>1, <1>10 DEF keys

LEMMA TableSame ==
    ASSUME TableSound, UNCHANGED <<mft, touched>>
    PROVE  /\ TableSound'
           /\ \A r : IsBase(r)' <=> IsBase(r)
           /\ \A r, key : Pieces(r, key)' = Pieces(r, key) /\ Alone(r)' = Alone(r)
<1>1. TableSound' /\ \A r : IsBase(r)' <=> IsBase(r)
    BY DEF TableSound, IsBase
<1>2. \A r, key : Pieces(r, key)' = Pieces(r, key)
    BY DEF Pieces
<1>3. \A r : Alone(r)' = Alone(r)
    BY <1>2 DEF Alone, Merged
<1> QED
    BY <1>1, <1>2, <1>3

LEMMA ReturnedIs ==
    ASSUME TableSound, NEW id \in Records
    PROVE  LET r == Returned(id)
           IN /\ r \in Records /\ r <= id /\ mft[r].used
              /\ \A x \in Records : r < x /\ x <= id => ~mft[x].used
<1> DEFINE T == {r \in 0 .. id : mft[r].used}
           U == {id - r : r \in T}
           m == id - Min(U)
<1>1. id \in Nat /\ \A x \in 0 .. id : x \in Records
    BY MftAssumption DEF Records
<1>2. 0 \in T
    BY <1>1 DEF TableSound, IsBase
<1>3. U \subseteq Nat /\ U # {}
    BY <1>1, <1>2
<1>4. Min(U) \in U /\ \A u \in U : Min(U) <= u
    BY <1>3, MinIsLeast
<1>5. m \in T /\ \A x \in T : m >= x
    <2>1. PICK r \in T : Min(U) = id - r
        BY <1>4
    <2>2. m = r
        BY <1>1, <2>1
    <2>3. ASSUME NEW x \in T PROVE m >= x
        <3>1. Min(U) <= id - x
            BY <1>4
        <3> QED
            BY <1>1, <2>1, <2>2, <3>1
    <2> QED
        BY <2>1, <2>2, <2>3
<1>6. Returned(id) \in T /\ \A x \in T : Returned(id) >= x
    <2>1. Returned(id) = Max(T)
        BY DEF Returned
    <2> HIDE DEF T, m
    <2> QED
        BY <1>5, <2>1 DEF Max
<1> HIDE DEF U, m
<1>7. ASSUME NEW x \in Records, Returned(id) < x, x <= id PROVE ~mft[x].used
    <2>1. x \in 0 .. id /\ Returned(id) \in Nat
        BY <1>1, <1>6, <1>7 DEF Records
    <2>2. x \in T => Returned(id) >= x
        BY <1>6
    <2>3. x \notin T
        BY <1>7, <2>1, <2>2
    <2> QED
        BY <2>1, <2>3
<1> QED
    BY <1>1, <1>6, <1>7

LEMMA GoOnIs ==
    ASSUME mft_id \in Records, NEW r \in Records, r <= mft_id, GoOn(r)
    PROVE  \/ pc' = "paths" /\ mft_id' = mft_id /\ r = 0
           \/ pc' = "scan" /\ mft_id' = r - 1 /\ mft_id' \in Records /\ mft_id' < mft_id + 1
<1>1. mft_id \in Nat /\ r \in Nat
    BY DEF Records
<1>2. CASE r = 0 \/ mft_id = 0
    BY <1>1, <1>2 DEF GoOn
<1>3. CASE ~(r = 0 \/ mft_id = 0)
    BY <1>1, <1>3, MftAssumption DEF GoOn, Records
<1> QED
    BY <1>2, <1>3

LEMMA InitIs ==
    ASSUME Init
    PROVE  Inv
<1>1. IsSequence(<<>>) /\ Len(<<>>) = 0 /\ DOMAIN <<>> = {}
    BY EmptyIs
<1>2. PICK t \in Tables : mft = t
    BY DEF Init
<1>3. TableSound
    BY <1>2, TablesAssumption DEF Init, TableSound, IsBase, Turned
<1>4. IsFileList(filelist) /\ Ordered(filelist) /\ Above(filelist, mft_id)
    BY <1>1 DEF Init, IsFileList, Ordered, Above
<1>5. Sound
    <2>1. mft_id \in Records /\ parent \in Records /\ unread = {} /\ result = 0 /\ stopped \in BOOLEAN
        <3>1. LastRecord \in Records /\ Root \in Records
            BY MftAssumption DEF Records
        <3>2. mft_id = LastRecord /\ parent = Root /\ unread = {} /\ result = 0 /\ stopped = FALSE
            BY DEF Init
        <3> QED
            BY <3>1, <3>2
    <2>2. at \in 1 .. Len(filelist) + 1 /\ at = 1
        BY <1>1 DEF Init
    <2>3. IsSequence(child) /\ Len(child) <= MaxPath
        BY <1>1, PathAssumption DEF Init
    <2>4. pc = "scan"
        BY DEF Init
    <2> QED
        BY <1>4, <2>1, <2>2, <2>3, <2>4 DEF Sound, Scanning
<1>6. Found
    BY <1>4 DEF Init, Found, Reading
<1>7. Complete
    <2>1. \A r \in Records : ~Passed(r)
        BY MftAssumption DEF Init, Passed, Records
    <2> QED
        BY <2>1 DEF Complete
<1>8. Underway /\ Pathed /\ Final
    BY DEF Init, Underway, Pathed, Final, Reading, Building
<1> QED
    BY <1>3, <1>5, <1>6, <1>7, <1>8 DEF Inv

LEMMA StopKeeps ==
    ASSUME Inv, Stop
    PROVE  Inv'
<1>1. /\ stopped' = TRUE
      /\ UNCHANGED <<mft, touched, mft_id, mfi, entries, filelist, at, child, parent, full, result, unread, pc>>
    BY DEF Stop, table, file, path
<1>2. TableSound'
    BY <1>1, TableSame DEF Inv
<1>3. Sound' /\ Found'
    BY <1>1 DEF Inv, Sound, Found, Scanning, Reading, Building
<1>4. Underway' /\ Complete' /\ Pathed' /\ Final'
    BY <1>1 DEF Underway, Complete, Pathed, Final
<1> QED
    BY <1>2, <1>3, <1>4 DEF Inv

LEMMA SkipChildKeeps ==
    ASSUME Inv, SkipChild
    PROVE  Inv'
<1> DEFINE r == Returned(mft_id)
<1>1. /\ pc = "scan" /\ ~stopped /\ mft[r].base # None /\ GoOn(r)
      /\ UNCHANGED <<mft, touched, mfi, entries, filelist, at, child, parent, full, result, unread, stopped>>
    BY DEF SkipChild, table, file, path
<1>2. TableSound /\ mft_id \in Records /\ Above(filelist, mft_id) /\ at = 1 /\ mfi = NoFile
    BY <1>1 DEF Inv, Sound, Found, Building, Reading
<1>3. /\ r \in Records /\ r <= mft_id /\ mft[r].used
      /\ \A x \in Records : r < x /\ x <= mft_id => ~mft[x].used
    BY <1>2, ReturnedIs
<1> HIDE DEF r
<1>4. \/ pc' = "paths" /\ mft_id' = mft_id /\ r = 0
      \/ pc' = "scan" /\ mft_id' = r - 1 /\ mft_id' \in Records /\ mft_id' < mft_id + 1
    BY <1>1, <1>2, <1>3, GoOnIs
<1>5. /\ TableSound' /\ \A x : IsBase(x)' <=> IsBase(x)
      /\ \A x, key : Pieces(x, key)' = Pieces(x, key) /\ Alone(x)' = Alone(x)
    BY <1>1, <1>2, TableSame
<1>6. Sound'
    BY <1>1, <1>2, <1>4 DEF Inv, Sound, Scanning, Reading, Building
<1>7. Found'
    <2>1. ~Reading' /\ mfi' = NoFile
        BY <1>1, <1>2, <1>4 DEF Reading
    <2>2. pc' = "scan" => Above(filelist, mft_id')
        BY <1>2, <1>4 DEF Above, IsFileList, IsItem, Records
    <2> QED
        BY <1>1, <2>1, <2>2 DEF Found
<1>8. Underway' /\ Pathed' /\ Final'
    <2>1. Underway'
        BY <1>4 DEF Underway, Reading
    <2>2. Pathed'
        <3>1. IsFileList(filelist) /\ at = 1
            BY <1>2 DEF Inv, Sound
        <3>2. \A i \in DOMAIN filelist : ~(i < at)
            <4>1. DOMAIN filelist = 1 .. Len(filelist)
                BY <3>1, SequenceIs DEF IsFileList
            <4> QED
                BY <3>1, <4>1
        <3>3. \A i \in DOMAIN filelist' : ~(i < at')
            BY <1>1, <3>2
        <3>4. pc' # "filter" /\ pc' # "remove"
            BY <1>4
        <3> QED
            BY <3>3, <3>4 DEF Pathed
    <2>3. Final'
        BY <1>4 DEF Final
    <2> QED
        BY <2>1, <2>2, <2>3
<1>9. Complete'
    <2> SUFFICES ASSUME NEW x \in Records \ (touched \cup unread), Passed(x)', IsBase(x), NEW key \in Alone(x)
                 PROVE  Exact(filelist, x, StreamName(key), Pieces(x, key))
        BY <1>1, <1>5 DEF Complete
    <2>1. x # r /\ mft[x].used
        BY <1>1 DEF IsBase
    <2>2. r <= x
        <3>1. x \in Nat /\ r \in Nat
            BY <1>3 DEF Records
        <3> QED
            BY <1>4, <3>1 DEF Passed
    <2>3. mft_id < x
        BY <1>2, <1>3, <2>1, <2>2 DEF Records
    <2>4. Passed(x)
        BY <1>1, <2>3 DEF Passed, Reading
    <2> QED
        BY <1>1, <2>4 DEF Inv, Complete
<1> QED
    BY <1>5, <1>6, <1>7, <1>8, <1>9 DEF Inv

LEMMA ReadBaseKeeps ==
    ASSUME Inv, ReadBase
    PROVE  Inv'
<1> DEFINE r == Returned(mft_id)
           s == AnalyzeBase(r)
<1>1. /\ pc = "scan" /\ ~stopped /\ mft[r].base = None
      /\ mfi' = s.mfi /\ filelist' = s.list /\ entries' = mft[r].list
      /\ pc' = "children" \/ pc' = "list"
      /\ UNCHANGED <<mft, touched, mft_id, at, child, parent, full, result, unread, stopped>>
    BY DEF ReadBase, table, path
<1>2. TableSound /\ mft_id \in Records /\ Above(filelist, mft_id) /\ at = 1
    BY <1>1 DEF Inv, Sound, Found, Building, Reading
<1>3. /\ r \in Records /\ r <= mft_id /\ mft[r].used
      /\ \A x \in Records : r < x /\ x <= mft_id => ~mft[x].used
    BY <1>2, ReturnedIs
<1> HIDE DEF r
<1>4. Above(filelist, r)
    BY <1>2, <1>3 DEF Above, IsFileList, IsItem, Records
<1>5. /\ Known(s, r)
      /\ \A k, st, ps : k # r /\ IsSequence(ps) /\ Exact(filelist, k, st, ps) => Exact(s.list, k, st, ps)
      /\ \A st \in Streams : Exact(s.list, r, st, PiecesIn(mft[r].attrs, KeysOf(st)))
    BY <1>2, <1>3, <1>4, AnalyzeBaseIs
<1> HIDE DEF s
<1>6. /\ IsFile(mfi', r) /\ mfi'.id = r /\ Current(filelist', r)
    BY <1>1, <1>5 DEF Known, IsFile
<1>7. /\ TableSound' /\ \A x : IsBase(x)' <=> IsBase(x)
      /\ \A x, key : Pieces(x, key)' = Pieces(x, key) /\ Alone(x)' = Alone(x)
    BY <1>1, <1>2, TableSame
<1>8. IsList(mft[r].list)
    BY <1>2, <1>3, RecordFacts
<1>9. Reading'
    BY <1>1 DEF Reading
<1>10. Sound'
    <2>1. IsFileList(filelist') /\ Ordered(filelist')
        BY <1>6 DEF Current
    <2>2. at' \in 1 .. Len(filelist') + 1 /\ at' = 1
        BY <1>1, <1>2, <2>1, SequenceIs DEF IsFileList
    <2> QED
        BY <1>1, <1>9, <2>1, <2>2 DEF Inv, Sound, Scanning, Building
<1>11. Found'
    BY <1>1, <1>3, <1>6, <1>8, <1>9 DEF Found
<1>12. Pathed' /\ Final'
    BY <1>9 DEF Pathed, Final, Reading, Building
<1>13. Complete'
    <2> SUFFICES ASSUME NEW x \in Records \ (touched \cup unread), Passed(x)', IsBase(x), NEW key \in Alone(x)
                 PROVE  Exact(filelist', x, StreamName(key), Pieces(x, key))
        BY <1>1, <1>7 DEF Complete
    <2>1. r < x /\ mft[x].used
        BY <1>6, <1>9 DEF Passed, IsBase
    <2>2. mft_id < x
        BY <1>2, <1>3, <2>1 DEF Records
    <2>3. Passed(x) /\ x # r
        BY <1>1, <1>3, <2>1, <2>2 DEF Passed, Reading, Records
    <2>4. Exact(filelist, x, StreamName(key), Pieces(x, key))
        BY <1>1, <2>3 DEF Inv, Complete
    <2>5. IsSequence(Pieces(x, key))
        BY <1>2, PiecesSound
    <2> QED
        BY <1>1, <1>5, <2>3, <2>4, <2>5
<1>14. Underway'
    <2>1. IsBase(r)
        BY <1>1, <1>3 DEF IsBase
    <2> DEFINE list == mft[r].list
    <2>2. Len(list) \in Nat /\ DOMAIN list = 1 .. Len(list)
        BY <1>8, SequenceIs DEF IsList
    <2>3. ASSUME NEW st \in Streams, NEW h, Sums(h, mft, r, KeysOf(st)) PROVE Exact(filelist', r, st, h[1])
        <3>1. 1 \in 1 .. Len(list) + 1 /\ 1 - 1 = 0
            BY <2>2
        <3>2. h[1] = <<>> \o PiecesIn(mft[r].attrs, KeysOf(st))
            BY <2>3, <3>1 DEF Sums, Share
        <3>3. h[1] = PiecesIn(mft[r].attrs, KeysOf(st))
            BY <1>2, <1>3, <3>2, PiecesSequence, ConcatEmpty
        <3> QED
            BY <1>1, <1>5, <3>3
    <2>4. Matches(mft, r, filelist', list, pc' = "list")
        <3> HIDE DEF list
        <3>1. Len(list) - Len(list) = 0 /\ 0 + 1 = 1 /\ \A i \in DOMAIN list : 0 + i = i
            BY <2>2
        <3>2. \A i \in DOMAIN list : list[i] = mft[r].list[i]
            BY DEF list
        <3>3. Len(mft[r].list) - Len(list) = 0
            BY <3>1 DEF list
        <3> QED
            BY <2>3, <3>1, <3>2, <3>3 DEF Matches
    <2> QED
        BY <1>1, <1>6, <1>7, <2>1, <2>4 DEF Underway
<1> QED
    BY <1>7, <1>10, <1>11, <1>12, <1>13, <1>14 DEF Inv

LEMMA ReadListKeeps ==
    ASSUME Inv, ReadList
    PROVE  Inv'
<1> DEFINE r == mfi.id
           list == mft[r].list
<1>1. /\ pc = "list" /\ pc' = "children" /\ Reading /\ Reading'
      /\ entries' = <<>> \/ entries' = list \/ \E x \in Records : entries' = mft[x].list
      /\ stopped \/ r \in touched \/ entries' = list
      /\ UNCHANGED <<mft, touched, mft_id, mfi, filelist, at, child, parent, full, result, unread, stopped>>
    BY DEF ReadList, table, path, Reading
<1>2. TableSound /\ r \in Records
    BY <1>1 DEF Inv, Found
<1>3. /\ TableSound' /\ \A x : IsBase(x)' <=> IsBase(x)
      /\ \A x, key : Pieces(x, key)' = Pieces(x, key) /\ Alone(x)' = Alone(x)
    BY <1>1, <1>2, TableSame
<1>4. IsList(list) /\ Len(list) \in Nat
    BY <1>2, RecordFacts, SequenceIs DEF IsList
<1>5. Sound'
    BY <1>1 DEF Inv, Sound, Scanning, Building, Reading
<1>6. Found'
    <2>1. IsList(entries')
        BY <1>1, <1>2, <1>4, NoneListed, RecordFacts
    <2> QED
        BY <1>1, <2>1 DEF Inv, Found
<1>7. Pathed' /\ Final'
    BY <1>1 DEF Pathed, Final, Building
<1>8. Complete'
    BY <1>1, <1>3 DEF Inv, Complete, Passed
<1>9. Underway'
    <2> SUFFICES ASSUME ~stopped, r \notin touched \cup unread
                 PROVE  IsBase(r) /\ Matches(mft, r, filelist, entries', FALSE)
        BY <1>1, <1>3 DEF Underway
    <2>1. IsBase(r) /\ Matches(mft, r, filelist, entries, TRUE)
        BY <1>1 DEF Inv, Underway
    <2>2. entries' = list
        BY <1>1
    <2> HIDE DEF list
    <2>3. Len(list) - Len(list) = 0 /\ 0 \in Nat /\ \A i \in DOMAIN list : 0 + i = i
        BY <1>4, SequenceIs DEF IsList
    <2>4. \A st \in Streams : \A h : Sums(h, mft, r, KeysOf(st)) => Exact(filelist, r, st, h[0 + 1])
        <3>1. Len(mft[r].list) - Len(entries) = 0
            BY <2>1 DEF Matches
        <3> QED
            BY <2>1, <3>1 DEF Matches
    <2>5. Matches(mft, r, filelist, list, FALSE)
        <3>1. Len(mft[r].list) - Len(list) = 0
            BY <2>3 DEF list
        <3>2. \A i \in DOMAIN list : list[i] = mft[r].list[0 + i]
            BY <2>3 DEF list
        <3> QED
            BY <2>3, <2>4, <3>1, <3>2 DEF Matches
    <2> QED
        BY <2>1, <2>2, <2>5
<1> QED
    BY <1>3, <1>5, <1>6, <1>7, <1>8, <1>9 DEF Inv

\* What a record of the attribute list adds to a stream, when the list is right.
LEMMA ChildAdds ==
    ASSUME TableSound, NEW r \in Records \ touched, mfi.id = r, IsBase(r), NEW n \in DOMAIN mft[r].list,
           NEW st \in Streams
    PROVE  LET e == mft[r].list[n]
           IN /\ Accepted(e) = {} => Share(mft, r, KeysOf(st), n + 1) = <<>>
              /\ Accepted(e) # {} =>
                    Share(mft, r, KeysOf(st), n + 1) = Piece(mft[e.id].attrs[Min(Accepted(e))], KeysOf(st))
<1> DEFINE e == mft[r].list[n]
           attrs == mft[e.id].attrs
           keys == KeysOf(st)
<1>1. /\ mft[e.id].used /\ mft[e.id].base = r
      /\ \A j, k \in DOMAIN attrs : Key(attrs[j]) = e.key /\ Key(attrs[k]) = e.key => j = k
    BY DEF TableSound, Right
<1>2. e.id \in Records /\ IsAttributes(attrs)
    BY RecordFacts DEF IsList
<1>3. DOMAIN mft[r].list = 1 .. Len(mft[r].list) /\ Len(mft[r].list) \in Nat
    BY RecordFacts, SequenceIs DEF IsList
<1>4. n + 1 # 1 /\ (n + 1) - 1 = n
    BY <1>3
<1>5. Share(mft, r, keys, n + 1) = IF e.key \in keys THEN PiecesIn(attrs, {e.key}) ELSE <<>>
    BY <1>4 DEF Share
<1> HIDE DEF e, keys
<1>6. Accepted(e) = {i \in DOMAIN attrs : Key(attrs[i]) = e.key}
    <2>1. r # None /\ mft[r].base = None
        BY RecordFacts DEF IsBase
    <2>2. e.id # mfi.id
        BY <1>1, <2>1
    <2> QED
        BY <1>1, <2>1, <2>2 DEF Accepted
<1>7. Accepted(e) \subseteq Nat
    <2>1. DOMAIN attrs = 1 .. Len(attrs) /\ Len(attrs) \in Nat
        BY <1>2, SequenceIs DEF IsAttributes
    <2> HIDE DEF attrs
    <2> QED
        BY <1>6, <2>1
<1>8. Accepted(e) # {} => Min(Accepted(e)) \in DOMAIN attrs /\ Key(attrs[Min(Accepted(e))]) = e.key
    BY <1>6, <1>7, MinIsLeast
<1> HIDE DEF attrs
<1>9. CASE e.key \in keys
    <2>1. /\ (\A j \in DOMAIN attrs : Key(attrs[j]) # e.key) => PiecesIn(attrs, {e.key}) = <<>>
          /\ \A j \in DOMAIN attrs : Key(attrs[j]) = e.key => PiecesIn(attrs, {e.key}) = Piece(attrs[j], {e.key})
        BY <1>1, <1>2, SinglePiece
    <2>2. Accepted(e) = {} => PiecesIn(attrs, {e.key}) = <<>>
        BY <1>6, <2>1
    <2>3. ASSUME Accepted(e) # {}
          PROVE  PiecesIn(attrs, {e.key}) = Piece(attrs[Min(Accepted(e))], keys)
        <3> DEFINE a == attrs[Min(Accepted(e))]
        <3>1. Key(a) = e.key /\ PiecesIn(attrs, {e.key}) = Piece(a, {e.key})
            BY <1>8, <2>1, <2>3
        <3> HIDE DEF a
        <3>2. Piece(a, {e.key}) = Piece(a, keys)
            BY <1>9, <3>1 DEF Piece
        <3> QED
            BY <3>1, <3>2 DEF a
    <2> QED
        BY <1>5, <1>9, <2>2, <2>3 DEF attrs, e, keys
<1>10. CASE e.key \notin keys
    <2>1. Accepted(e) # {} => Piece(attrs[Min(Accepted(e))], keys) = <<>>
        <3> SUFFICES ASSUME Accepted(e) # {} PROVE Piece(attrs[Min(Accepted(e))], keys) = <<>>
            OBVIOUS
        <3> DEFINE a == attrs[Min(Accepted(e))]
        <3>1. Key(a) = e.key
            BY <1>8
        <3> HIDE DEF a
        <3> QED
            BY <1>10, <3>1 DEF Piece, a
    <2> QED
        BY <1>5, <1>10, <2>1 DEF attrs, e, keys
<1> QED
    BY <1>9, <1>10

LEMMA ReadChildKeeps ==
    ASSUME Inv, ReadChild
    PROVE  Inv'
<1> DEFINE r == mfi.id
           e == Head(entries)
           a == mft[e.id].attrs[Min(Accepted(e))]
           z == [mfi |-> mfi, list |-> filelist]
           s == Analyze(r, z, a)
<1>1. /\ pc = "children" /\ ~stopped /\ entries # <<>> /\ entries' = Tail(entries)
      /\ Accepted(e) = {} => mfi' = mfi /\ filelist' = filelist
      /\ Accepted(e) # {} => mfi' = s.mfi /\ filelist' = s.list
      /\ UNCHANGED <<mft, touched, mft_id, at, child, parent, full, result, unread, stopped, pc>>
    BY DEF ReadChild, table, path
<1>2. /\ Reading /\ Reading' /\ ~Building /\ pc # "filter" /\ pc # "scan" /\ pc # "done" /\ pc # "list"
    BY <1>1 DEF Reading, Building
<1>3. /\ TableSound /\ r \in Records /\ IsFile(mfi, r) /\ r <= mft_id
      /\ IsList(entries) /\ Current(filelist, r) /\ at = 1
    BY <1>2 DEF Inv, Found, Sound
<1>4. /\ TableSound' /\ \A x : IsBase(x)' <=> IsBase(x)
      /\ \A x, key : Pieces(x, key)' = Pieces(x, key) /\ Alone(x)' = Alone(x)
    BY <1>1, <1>3, TableSame
<1>5. /\ IsSequence(Tail(entries)) /\ Len(entries) \in Nat /\ Len(entries) > 0 /\ Len(Tail(entries)) = Len(entries) - 1
      /\ \A i \in 1 .. Len(entries) - 1 : Tail(entries)[i] = entries[i + 1]
      /\ e = entries[1] /\ DOMAIN entries = 1 .. Len(entries)
    BY <1>1, <1>3, TailIs, SequenceIs DEF IsList
<1>6. IsList(Tail(entries)) /\ DOMAIN Tail(entries) = 1 .. Len(entries) - 1
    <2>1. DOMAIN Tail(entries) = 1 .. Len(entries) - 1
        BY <1>5, SequenceIs
    <2>2. \A i \in 1 .. Len(entries) - 1 : i + 1 \in DOMAIN entries
        BY <1>5
    <2> QED
        BY <1>3, <1>5, <2>1, <2>2 DEF IsList
<1>7. e.id \in Records
    BY <1>3, <1>5 DEF IsList
<1>8. ASSUME Accepted(e) # {} PROVE IsAttribute(a)
    <2> DEFINE attrs == mft[e.id].attrs
    <2>1. IsAttributes(attrs)
        BY <1>3, <1>7, RecordFacts
    <2>2. DOMAIN attrs = 1 .. Len(attrs) /\ Len(attrs) \in Nat
        BY <2>1, SequenceIs DEF IsAttributes
    <2>3. Accepted(e) \subseteq DOMAIN attrs
        BY DEF Accepted
    <2> HIDE DEF attrs, e
    <2>4. Accepted(e) \subseteq Nat
        BY <2>2, <2>3
    <2>5. Min(Accepted(e)) \in DOMAIN attrs
        BY <1>8, <2>3, <2>4, MinIsLeast
    <2>6. IsAttribute(attrs[Min(Accepted(e))])
        BY <2>1, <2>5 DEF IsAttributes
    <2> QED
        BY <2>6 DEF attrs
<1>9. Known(z, r)
    BY <1>3 DEF Known
<1> HIDE DEF e, a
<1>10. /\ IsFile(mfi', r) /\ mfi'.id = r /\ Current(filelist', r)
       /\ \A k, st, ps : k # r /\ IsSequence(ps) /\ Exact(filelist, k, st, ps) => Exact(filelist', k, st, ps)
       /\ \A st, ps : IsSequence(ps) /\ Exact(filelist, r, st, ps) =>
            Exact(filelist', r, st, IF Accepted(e) = {} THEN ps ELSE ps \o Piece(a, KeysOf(st)))
    <2>1. CASE Accepted(e) = {}
        BY <1>1, <1>3, <2>1
    <2>2. CASE Accepted(e) # {}
        <3>1. Readable(a)
            BY <1>8, <2>2, AttributeReadable
        <3>2. /\ Known(s, r)
              /\ \A k, st, ps : IsSequence(ps) /\ Exact(z.list, k, st, ps) =>
                    Exact(s.list, k, st, Grown(ps, r, a, k, KeysOf(st)))
            BY <1>3, <1>9, <3>1, AnalyzeIs
        <3>3. z.list = filelist
            OBVIOUS
        <3> HIDE DEF s, z
        <3>4. IsFile(mfi', r) /\ mfi'.id = r /\ Current(filelist', r)
            BY <1>1, <2>2, <3>2 DEF Known, IsFile
        <3> QED
            BY <1>1, <2>2, <3>2, <3>3, <3>4 DEF Grown
    <2> QED
        BY <2>1, <2>2
<1> HIDE DEF s, z
<1>11. Sound'
    <2>1. IsFileList(filelist') /\ Ordered(filelist')
        BY <1>10 DEF Current
    <2>2. at' \in 1 .. Len(filelist') + 1 /\ at' = 1
        BY <1>1, <1>3, <2>1, SequenceIs DEF IsFileList
    <2> QED
        BY <1>1, <1>2, <2>1, <2>2 DEF Inv, Sound, Scanning, Building
<1>12. Found'
    <2>1. mfi'.id \in Records /\ IsFile(mfi', mfi'.id) /\ mfi'.id <= mft_id' /\ IsList(entries') /\ Current(filelist', mfi'.id)
        BY <1>1, <1>3, <1>6, <1>10
    <2> QED
        BY <1>1, <1>2, <2>1 DEF Found
<1>13. Pathed' /\ Final'
    BY <1>1, <1>2 DEF Pathed, Final, Building
<1>14. Complete'
    <2> SUFFICES ASSUME NEW x \in Records \ (touched \cup unread), Passed(x)', IsBase(x), NEW key \in Alone(x)
                 PROVE  Exact(filelist', x, StreamName(key), Pieces(x, key))
        BY <1>1, <1>4 DEF Complete
    <2>1. r < x
        BY <1>2, <1>10 DEF Passed
    <2>2. Passed(x) /\ x # r
        BY <1>2, <1>3, <2>1 DEF Passed, Records
    <2>3. Exact(filelist, x, StreamName(key), Pieces(x, key)) /\ IsSequence(Pieces(x, key))
        BY <1>1, <1>2, <1>3, <2>2, PiecesSound DEF Inv, Complete
    <2> QED
        BY <1>10, <2>2, <2>3
<1>15. Underway'
    <2> SUFFICES ASSUME r \notin touched \cup unread
                 PROVE  IsBase(r) /\ Matches(mft, r, filelist', entries', FALSE)
        BY <1>1, <1>2, <1>4, <1>10 DEF Underway
    <2> DEFINE list == mft[r].list
               k == Len(list) - Len(entries)
               m == Len(list) - Len(entries')
    <2>1. /\ IsBase(r) /\ k \in Nat
          /\ \A i \in DOMAIN entries : entries[i] = list[k + i]
          /\ \A st \in Streams : \A h : Sums(h, mft, r, KeysOf(st)) => Exact(filelist, r, st, h[k + 1])
        BY <1>1, <1>2 DEF Inv, Underway, Matches
    <2>2. Len(list) \in Nat /\ DOMAIN list = 1 .. Len(list)
        BY <1>3, RecordFacts, SequenceIs DEF IsList
    <2>3. m = k + 1 /\ Len(entries') = Len(entries) - 1
        <3> HIDE DEF list
        <3> QED
            BY <1>1, <1>5, <2>2
    <2>4. k + 1 \in 1 .. Len(list) /\ k + 1 \in 0 .. Len(list) + 1 /\ k + 2 \in 1 .. Len(list) + 1 /\ (k + 2) - 1 = k + 1
          /\ (k + 1) + 1 = k + 2
        <3> HIDE DEF list
        <3> QED
            BY <1>5, <2>1, <2>2
    <2>5. e = list[k + 1]
        BY <1>5, <2>1
    <2>6. ASSUME NEW i \in DOMAIN entries' PROVE entries'[i] = list[m + i]
        <3>1. i \in 1 .. Len(entries) - 1 /\ i + 1 \in DOMAIN entries
            BY <1>1, <1>5, <1>6
        <3> HIDE DEF list, k, m
        <3>2. entries'[i] = list[k + (i + 1)]
            BY <1>1, <1>5, <2>1, <3>1
        <3>3. k + (i + 1) = m + i
            BY <2>1, <2>3, <3>1, <1>5
        <3> QED
            BY <3>2, <3>3
    <2>7. ASSUME NEW st \in Streams, NEW h, Sums(h, mft, r, KeysOf(st)) PROVE Exact(filelist', r, st, h[m + 1])
        <3>1. Exact(filelist, r, st, h[k + 1])
            BY <2>1, <2>7
        <3>2. IsSequence(h[k + 1]) /\ h[k + 2] = h[k + 1] \o Share(mft, r, KeysOf(st), k + 2)
            BY <2>4, <2>7 DEF Sums
        <3>3. /\ Accepted(e) = {} => Share(mft, r, KeysOf(st), k + 2) = <<>>
              /\ Accepted(e) # {} => Share(mft, r, KeysOf(st), k + 2) = Piece(a, KeysOf(st))
            <4>0. mfi.id = r /\ r \in Records \ touched
                BY <1>3
            <4>1. /\ Accepted(e) = {} => Share(mft, r, KeysOf(st), (k + 1) + 1) = <<>>
                  /\ Accepted(e) # {} =>
                        Share(mft, r, KeysOf(st), (k + 1) + 1) = Piece(mft[e.id].attrs[Min(Accepted(e))], KeysOf(st))
                BY <1>3, <2>1, <2>2, <2>4, <2>5, <4>0, ChildAdds
            <4> QED
                BY <2>4, <4>1 DEF a
        <3>4. (IF Accepted(e) = {} THEN h[k + 1] ELSE h[k + 1] \o Piece(a, KeysOf(st))) = h[k + 2]
            BY <3>2, <3>3, ConcatEmpty
        <3>5. Exact(filelist', r, st, h[k + 2])
            <4>1. Exact(filelist', r, st, IF Accepted(e) = {} THEN h[k + 1] ELSE h[k + 1] \o Piece(a, KeysOf(st)))
                BY <1>10, <3>1, <3>2
            <4> QED
                BY <3>4, <4>1
        <3> HIDE DEF k, m
        <3> QED
            BY <2>3, <2>4, <3>5
    <2>8. Matches(mft, r, filelist', entries', FALSE)
        <3>1. m \in Nat
            <4> HIDE DEF k, m
            <4> QED
                BY <2>1, <2>3
        <3> QED
            BY <2>6, <2>7, <3>1 DEF Matches
    <2> QED
        BY <2>1, <2>8
<1> QED
    BY <1>4, <1>11, <1>12, <1>13, <1>14, <1>15 DEF Inv

\* The name is entered for the streams of a file; no clusters are touched.
Renamed(list, f) ==
    [i \in DOMAIN list |->
        IF list[i].id = f.id /\ \A j \in 1 .. i : list[j].id <= f.id
        THEN [list[i] EXCEPT !.name = f.name, !.parent = f.parent]
        ELSE list[i]]

LEMMA RenamedIs ==
    ASSUME NEW list, IsFileList(list), Ordered(list), NEW f, f.parent \in Records
    PROVE  LET new == Renamed(list, f)
           IN /\ IsFileList(new) /\ Ordered(new) /\ DOMAIN new = DOMAIN list /\ Len(new) = Len(list)
              /\ \A i \in DOMAIN list :
                    /\ new[i].id = list[i].id /\ new[i].stream = list[i].stream
                    /\ new[i].map = list[i].map /\ new[i].fragments = list[i].fragments
                    /\ new[i].path = list[i].path
<1> DEFINE new == Renamed(list, f)
<1>1. /\ DOMAIN list = 1 .. Len(list) /\ Len(list) \in Nat
      /\ \A i \in DOMAIN list : IsItem(list[i])
    BY SequenceIs DEF IsFileList
<1>2. ASSUME NEW i \in DOMAIN list
      PROVE  /\ new[i].id = list[i].id /\ new[i].stream = list[i].stream
             /\ new[i].map = list[i].map /\ new[i].fragments = list[i].fragments
             /\ new[i].path = list[i].path /\ IsItem(new[i])
    <2> DEFINE e == list[i]
               n == [e EXCEPT !.name = f.name]
               x == [n EXCEPT !.parent = f.parent]
    <2>1. IsItem(e)
        BY <1>1
    <2>2. new[i] = e \/ new[i] = x
        BY DEF Renamed
    <2> HIDE DEF e
    <2>3. n = [id |-> e.id, stream |-> e.stream, name |-> f.name, parent |-> e.parent,
               map |-> e.map, fragments |-> e.fragments, path |-> e.path]
        BY <2>1 DEF IsItem
    <2> HIDE DEF n
    <2>4. x = [id |-> e.id, stream |-> e.stream, name |-> f.name, parent |-> f.parent,
               map |-> e.map, fragments |-> e.fragments, path |-> e.path]
        BY <2>3
    <2> HIDE DEF x
    <2>5. /\ x.id = e.id /\ x.stream = e.stream /\ x.map = e.map /\ x.fragments = e.fragments
          /\ x.path = e.path /\ IsItem(x)
        BY <2>1, <2>4 DEF IsItem
    <2> HIDE DEF new
    <2>6. CASE new[i] = e
        BY <2>1, <2>6 DEF e
    <2>7. CASE new[i] = x
        BY <2>5, <2>7 DEF e
    <2> QED
        BY <2>2, <2>6, <2>7
<1>3. new = [i \in 1 .. Len(list) |-> new[i]]
    BY <1>1 DEF Renamed
<1> HIDE DEF new
<1>4. IsSequence(new) /\ Len(new) = Len(list) /\ DOMAIN new = DOMAIN list
    BY <1>1, <1>3, IsSequenceOf
<1>5. IsFileList(new)
    BY <1>2, <1>4 DEF IsFileList
<1>6. Ordered(new)
    BY <1>2, <1>4 DEF Ordered
<1> QED
    BY <1>2, <1>4, <1>5, <1>6 DEF new

LEMMA FinishFileKeeps ==
    ASSUME Inv, FinishFile
    PROVE  Inv'
<1> DEFINE r == mfi.id
           new == Renamed(filelist, mfi)
<1>1. /\ pc = "children" /\ (entries = <<>> \/ stopped) /\ entries' = <<>> /\ mfi' = NoFile
      /\ filelist' = new /\ GoOn(r)
      /\ UNCHANGED <<mft, touched, at, child, parent, full, result, unread, stopped>>
    BY DEF FinishFile, Renamed, table, path
<1>2. Reading /\ ~Building /\ pc # "filter" /\ pc # "scan" /\ pc # "done"
    BY <1>1 DEF Reading, Building
<1>3. /\ TableSound /\ r \in Records /\ IsFile(mfi, r) /\ r <= mft_id /\ mft_id \in Records
      /\ Current(filelist, r) /\ at = 1
    BY <1>2 DEF Inv, Found, Sound
<1>4. /\ TableSound' /\ \A x : IsBase(x)' <=> IsBase(x)
      /\ \A x, key : Pieces(x, key)' = Pieces(x, key) /\ Alone(x)' = Alone(x)
    BY <1>1, <1>3, TableSame
<1>5. /\ IsFileList(new) /\ Ordered(new) /\ DOMAIN new = DOMAIN filelist /\ Len(new) = Len(filelist)
      /\ \A i \in DOMAIN filelist :
            /\ new[i].id = filelist[i].id /\ new[i].stream = filelist[i].stream
            /\ new[i].map = filelist[i].map /\ new[i].fragments = filelist[i].fragments
            /\ new[i].path = filelist[i].path
    BY <1>3, RenamedIs DEF Current, IsFile
<1> HIDE DEF new
<1>6. \A x, st, ps : Exact(filelist, x, st, ps) => Exact(new, x, st, ps)
    BY <1>5 DEF Exact
<1>7. \/ pc' = "paths" /\ mft_id' = mft_id /\ r = 0
      \/ pc' = "scan" /\ mft_id' = r - 1 /\ mft_id' \in Records /\ mft_id' < mft_id + 1
    BY <1>1, <1>3, GoOnIs
<1>8. ~Reading' /\ pc' # "walk" /\ pc' # "list" /\ pc' # "done" /\ pc' # "filter" /\ pc' # "remove"
    BY <1>7 DEF Reading
<1>9. Sound'
    <2>1. at' \in 1 .. Len(filelist') + 1 /\ at' = 1
        BY <1>1, <1>3, <1>5, SequenceIs DEF Current, IsFileList
    <2>2. Scanning' \/ Building'
        BY <1>7 DEF Scanning, Building
    <2> QED
        BY <1>1, <1>3, <1>5, <1>7, <1>8, <2>1, <2>2 DEF Inv, Sound
<1>10. Found'
    <2>1. ASSUME pc' = "scan", NEW i \in DOMAIN new PROVE mft_id' < new[i].id /\ new[i].path = NoPath
        <3>1. r <= filelist[i].id /\ filelist[i].path = NoPath /\ filelist[i].id \in Records
            BY <1>3, <1>5 DEF Current, IsFileList, IsItem
        <3> QED
            BY <1>3, <1>5, <1>7, <2>1, <3>1 DEF Records
    <2> QED
        BY <1>1, <1>5, <1>8, <2>1 DEF Found, Above
<1>11. Pathed' /\ Final' /\ Underway'
    BY <1>1, <1>3, <1>5, <1>8, SequenceIs DEF Pathed, Final, Underway, Current, IsFileList
<1>12. Complete'
    <2> SUFFICES ASSUME ~stopped, NEW x \in Records \ (touched \cup unread), Passed(x)', IsBase(x), NEW key \in Alone(x)
                 PROVE  Exact(filelist', x, StreamName(key), Pieces(x, key))
        BY <1>1, <1>4 DEF Complete
    <2>1. r <= x
        BY <1>3, <1>7 DEF Passed, Records
    <2>2. CASE r < x
        <3>1. Passed(x)
            BY <1>2, <2>2 DEF Passed
        <3> QED
            BY <1>1, <1>2, <1>6, <3>1 DEF Inv, Complete
    <2>3. CASE r = x
        <3>1. Matches(mft, r, filelist, entries, FALSE)
            BY <1>1, <1>2, <2>3 DEF Inv, Underway, Matches
        <3>2. Len(entries) = 0
            BY <1>1, EmptyIs
        <3>3. Len(mft[r].list) \in Nat
            BY <1>3, RecordFacts, SequenceIs DEF IsList
        <3>4. Len(mft[r].list) - Len(entries) = Len(mft[r].list)
            BY <3>2, <3>3
        <3> DEFINE st == StreamName(key)
        <3>5. PICK h : Sums(h, mft, r, KeysOf(st)) /\ h[Len(mft[r].list) + 1] = Pieces(r, key)
            <4>1. PiecesOf(mft, r, KeysOf(st)) = Pieces(r, key)
                BY <1>3, <2>3, AloneIs
            <4> HIDE DEF st
            <4> QED
                BY <1>3, <4>1, PiecesSequence
        <3>6. Exact(filelist, r, StreamName(key), Pieces(r, key))
            <4>1. st \in Streams
                BY <1>3, <2>3, AloneIs
            <4> QED
                BY <3>1, <3>4, <3>5, <4>1 DEF Matches
        <3> QED
            BY <1>1, <1>6, <2>3, <3>6
    <2> QED
        BY <1>3, <2>1, <2>2, <2>3 DEF Records
<1> QED
    BY <1>4, <1>9, <1>10, <1>11, <1>12 DEF Inv

LEMMA StopScanKeeps ==
    ASSUME Inv, StopScan
    PROVE  Inv'
<1>1. /\ pc = "scan" /\ stopped /\ pc' = "paths"
      /\ UNCHANGED <<mft, touched, mft_id, mfi, entries, filelist, at, child, parent, full, result, unread, stopped>>
    BY DEF StopScan, table, file, path
<1>2. ~Reading /\ ~Reading' /\ ~Building /\ Building' /\ pc # "filter"
    BY <1>1 DEF Reading, Building
<1>3. TableSound'
    BY <1>1, TableSame DEF Inv
<1>4. Sound' /\ Found'
    BY <1>1, <1>2 DEF Inv, Sound, Found, Scanning
<1>5. Underway' /\ Complete' /\ Pathed' /\ Final'
    BY <1>1 DEF Underway, Complete, Pathed, Final
<1> QED
    BY <1>3, <1>4, <1>5 DEF Inv

LEMMA ReadFailsKeeps ==
    ASSUME Inv, ReadFails
    PROVE  Inv'
<1>1. /\ ~stopped
      /\ UNCHANGED <<mft, touched, mfi, filelist, at, child, parent, full, stopped, result>>
    BY DEF ReadFails, path
<1>2. /\ TableSound /\ TableSound' /\ \A x : IsBase(x)' <=> IsBase(x)
      /\ \A x, key : Pieces(x, key)' = Pieces(x, key) /\ Alone(x)' = Alone(x)
    BY <1>1, TableSame DEF Inv
<1>3. CASE pc = "scan" /\ mft_id > 0 /\ unread' = unread \cup {mft_id} /\ mft_id' = mft_id - 1
           /\ UNCHANGED <<entries, pc>>
    <2>1. ~Reading /\ ~Reading' /\ ~Building /\ ~Building' /\ at = 1 /\ pc = "scan" /\ pc' = "scan"
        BY <1>3 DEF Inv, Sound, Reading, Building
    <2>2. mft_id \in Records /\ mft_id' \in Records /\ mft_id \in Nat
        BY <1>3, MftAssumption DEF Inv, Sound, Records
    <2>3. Above(filelist, mft_id')
        BY <1>3, <2>2 DEF Inv, Found, Above, IsFileList, IsItem, Records
    <2>4. Sound' /\ Found'
        BY <1>1, <1>3, <2>1, <2>2, <2>3 DEF Inv, Sound, Found, Scanning
    <2>5. Underway' /\ Pathed' /\ Final'
        BY <2>1 DEF Underway, Pathed, Final
    <2>6. Complete'
        <3> SUFFICES ASSUME NEW x \in Records \ (touched \cup unread'), Passed(x)', IsBase(x), NEW key \in Alone(x)
                     PROVE  Exact(filelist, x, StreamName(key), Pieces(x, key))
            BY <1>1, <1>2 DEF Complete
        <3>1. mft_id - 1 < x /\ x # mft_id /\ x \in Nat
            BY <1>3, <2>1 DEF Passed, Records
        <3>2. Passed(x)
            BY <2>1, <2>2, <3>1 DEF Passed
        <3> QED
            BY <1>1, <1>3, <2>1, <3>2 DEF Inv, Complete
    <2> QED
        BY <1>2, <2>4, <2>5, <2>6 DEF Inv
<1>4. CASE pc = "scan" /\ mft_id = 0 /\ unread' = unread \cup {0} /\ pc' = "remove"
           /\ UNCHANGED <<entries, mft_id>>
    <2>1. ~Reading /\ ~Reading' /\ ~Building /\ ~Building' /\ at = 1 /\ pc = "scan" /\ pc' = "remove"
        BY <1>4 DEF Inv, Sound, Reading, Building
    <2>2. 0 \in Records
        BY <1>2, RecordFacts
    <2>3. Above(filelist, mft_id)
        BY <2>1 DEF Inv, Found
    <2>4. Sound' /\ Found'
        BY <1>1, <1>4, <2>1, <2>2 DEF Inv, Sound, Found
    <2>5. Underway' /\ Pathed' /\ Final'
        BY <1>1, <2>1, <2>3 DEF Underway, Pathed, Final, Above
    <2>6. Complete'
        <3> SUFFICES ASSUME NEW x \in Records \ (touched \cup unread'), IsBase(x), NEW key \in Alone(x)
                     PROVE  Exact(filelist, x, StreamName(key), Pieces(x, key))
            BY <1>1, <1>2 DEF Complete
        <3>1. 0 < x
            BY <1>4 DEF Records
        <3>2. Passed(x)
            BY <1>4, <2>1, <3>1 DEF Passed
        <3> QED
            BY <1>1, <1>4, <2>1, <3>2 DEF Inv, Complete
    <2> QED
        BY <1>2, <2>4, <2>5, <2>6 DEF Inv
<1>5. CASE pc = "children" /\ entries # <<>> /\ unread' = unread \cup {mfi.id} /\ entries' = Tail(entries)
           /\ UNCHANGED <<mft_id, pc>>
    <2>1. /\ Reading /\ Reading' /\ ~Building /\ ~Building' /\ at = 1 /\ pc = "children" /\ pc' = "children"
          /\ mfi.id \in Records /\ IsList(entries)
        BY <1>5 DEF Inv, Sound, Found, Reading, Building
    <2>2. IsList(Tail(entries))
        <3>1. /\ IsSequence(Tail(entries)) /\ Len(entries) \in Nat /\ Len(Tail(entries)) = Len(entries) - 1
              /\ \A i \in 1 .. Len(entries) - 1 : Tail(entries)[i] = entries[i + 1]
              /\ DOMAIN entries = 1 .. Len(entries)
            BY <1>5, <2>1, TailIs, SequenceIs DEF IsList
        <3>2. DOMAIN Tail(entries) = 1 .. Len(entries) - 1
            BY <3>1, SequenceIs
        <3>3. \A i \in 1 .. Len(entries) - 1 : i + 1 \in DOMAIN entries
            BY <3>1
        <3> QED
            BY <2>1, <3>1, <3>2, <3>3 DEF IsList
    <2>3. Sound' /\ Found'
        BY <1>1, <1>5, <2>1, <2>2 DEF Inv, Sound, Found, Scanning
    <2>4. Underway' /\ Pathed' /\ Final'
        BY <1>1, <1>5, <2>1 DEF Underway, Pathed, Final
    <2>5. Complete'
        BY <1>1, <1>2, <1>5, <2>1 DEF Inv, Complete, Passed
    <2> QED
        BY <1>2, <2>3, <2>4, <2>5 DEF Inv
<1> QED
    BY <1>3, <1>4, <1>5 DEF ReadFails

-----------------------------------------------------------------------------
(* The paths, and the end of the scan.                                     *)

LEMMA CutIs ==
    ASSUME NEW p, IsSequence(p), Len(p) > 0
    PROVE  IsSequence(Cut(p)) /\ Len(Cut(p)) <= MaxPath /\ Cut(p) # <<>>
<1> DEFINE S == {p[i] : i \in 1 .. Len(p)}
           m == Min({Len(p), MaxPath})
<1>1. p \in Seq(S) /\ Len(p) \in Nat /\ MaxPath \in Nat /\ MaxPath > 0
    BY SequenceIs, PathAssumption
<1>2. m \in {Len(p), MaxPath} /\ m <= Len(p) /\ m <= MaxPath
    <2>1. {Len(p), MaxPath} \subseteq Nat /\ {Len(p), MaxPath} # {}
        BY <1>1
    <2>2. Min({Len(p), MaxPath}) \in {Len(p), MaxPath} /\ \A x \in {Len(p), MaxPath} : Min({Len(p), MaxPath}) <= x
        BY <2>1, MinIsLeast
    <2> QED
        BY <2>2
<1> HIDE DEF S, m
<1>3. m \in 1 .. Len(p) /\ 1 \in 1 .. Len(p) + 1
    BY <1>1, <1>2
<1>4. SubSeq(p, 1, m) \in Seq(S) /\ Len(SubSeq(p, 1, m)) = m
    BY <1>1, <1>3, SubSeqProperties
<1>5. Cut(p) = SubSeq(p, 1, m)
    BY DEF Cut, m
<1>6. IsSequence(SubSeq(p, 1, m))
    BY <1>4, InSeq
<1>7. SubSeq(p, 1, m) # <<>>
    BY <1>3, <1>4, <1>6, EmptyIs
<1> QED
    BY <1>2, <1>4, <1>5, <1>6, <1>7

\* The steps which change nothing but the path which is being built.
LEMMA WalkKeeps ==
    ASSUME Inv, BeginPath \/ ToParent \/ StopPath \/ PathsBuilt
    PROVE  Inv'
<1>1. UNCHANGED <<mft, touched, mft_id, mfi, entries, filelist, result, unread, stopped>>
    BY DEF BeginPath, ToParent, StopPath, PathsBuilt, table, file, path
<1>2. /\ Building /\ ~Reading /\ ~Reading' /\ pc # "scan" /\ pc' # "scan" /\ pc' # "remove" /\ pc' # "done"
      /\ pc # "done"
    BY DEF BeginPath, ToParent, StopPath, PathsBuilt, Building, Reading
<1>3. /\ TableSound /\ TableSound' /\ \A x : IsBase(x)' <=> IsBase(x)
      /\ \A x, key : Pieces(x, key)' = Pieces(x, key) /\ Alone(x)' = Alone(x)
    BY <1>1, TableSame DEF Inv
<1>4. /\ IsFileList(filelist) /\ at \in 1 .. Len(filelist) + 1 /\ parent \in Records
      /\ IsSequence(child) /\ Len(child) <= MaxPath /\ DOMAIN filelist = 1 .. Len(filelist)
      /\ Len(filelist) \in Nat /\ \A i \in DOMAIN filelist : IsItem(filelist[i])
    BY SequenceIs DEF Inv, Sound, IsFileList
<1>5. IsSequence(<<>>) /\ Len(<<>>) = 0
    BY EmptyIs
<1>6. /\ parent' \in Records /\ IsSequence(child') /\ Len(child') <= MaxPath
      /\ at' \in 1 .. Len(filelist) + 1 /\ (at' = 1 \/ Building' \/ pc' = "filter")
      /\ pc' = "walk" => child' # <<>> /\ at' <= Len(filelist)
      /\ Building' \/ pc' = "filter"
    <2>1. CASE BeginPath
        <3>1. at \in DOMAIN filelist /\ pc' = "walk" /\ at' = at /\ parent' = filelist[at].parent
              /\ child' = <<PartOf(filelist[at])>> /\ at <= Len(filelist)
            BY <1>4, <2>1 DEF BeginPath
        <3>2. IsSequence(child') /\ Len(child') = 1
            BY <3>1, OneIs
        <3>3. child' # <<>>
            BY <1>5, <3>2
        <3>4. 1 <= MaxPath
            BY PathAssumption
        <3>5. parent' \in Records
            BY <1>4, <3>1 DEF IsItem
        <3> QED
            BY <1>4, <3>1, <3>2, <3>3, <3>4, <3>5 DEF Building
    <2>2. CASE ToParent
        <3>1. pc = "walk" /\ pc' = "walk" /\ at' = at /\ at <= Len(filelist)
            BY <2>2 DEF ToParent, Inv, Sound
        <3>2. PICK x : parent' \in Records /\ IsSequence(x) /\ Len(x) > 0 /\ child' = Cut(x)
            <4>1. CASE Directory(parent) = {}
                <5>1. child' = Cut(<<Missing>> \o child) /\ parent' = Root
                    BY <2>2, <4>1 DEF ToParent
                <5>2. IsSequence(<<Missing>>) /\ Len(<<Missing>>) = 1
                    BY OneIs
                <5>3. IsSequence(<<Missing>> \o child) /\ Len(<<Missing>> \o child) = 1 + Len(child) /\ Len(child) \in Nat
                    BY <1>4, <5>2, ConcatIs, SequenceIs
                <5>4. Len(<<Missing>> \o child) > 0
                    BY <5>3
                <5> QED
                    BY <1>3, <5>1, <5>3, <5>4, RecordFacts
            <4>2. CASE Directory(parent) # {}
                <5> DEFINE d == filelist[Min(Directory(parent))]
                           front == IF d.path # NoPath THEN d.path ELSE <<PartOf(d)>>
                <5>1. child' = Cut(front \o child) /\ parent' = d.parent
                    BY <2>2, <4>2 DEF ToParent
                <5>2. Directory(parent) \subseteq DOMAIN filelist /\ Directory(parent) \subseteq Nat
                    BY <1>4 DEF Directory
                <5>3. IsItem(d)
                    BY <1>4, <4>2, <5>2, MinIsLeast
                <5> HIDE DEF d
                <5>4. IsSequence(front) /\ Len(front) > 0
                    <6>1. CASE d.path # NoPath
                        <7>1. IsSequence(d.path) /\ Len(d.path) # 0 /\ Len(d.path) \in Nat
                            BY <5>3, <6>1, EmptyIs, SequenceIs DEF IsItem, NoPath
                        <7> QED
                            BY <6>1, <7>1
                    <6>2. CASE d.path = NoPath
                        <7>1. IsSequence(<<PartOf(d)>>) /\ Len(<<PartOf(d)>>) = 1
                            BY OneIs
                        <7> QED
                            BY <6>2, <7>1
                    <6> QED
                        BY <6>1, <6>2
                <5> HIDE DEF front
                <5>5. /\ IsSequence(front \o child) /\ Len(front \o child) = Len(front) + Len(child)
                      /\ Len(child) \in Nat /\ Len(front) \in Nat
                    BY <1>4, <5>4, ConcatIs, SequenceIs
                <5>6. Len(front \o child) > 0
                    BY <5>4, <5>5
                <5>7. d.parent \in Records
                    BY <5>3 DEF IsItem
                <5> QED
                    BY <5>1, <5>5, <5>6, <5>7
            <4> QED
                BY <4>1, <4>2
        <3>3. IsSequence(child') /\ Len(child') <= MaxPath /\ child' # <<>>
            BY <3>2, CutIs
        <3> QED
            BY <1>4, <3>1, <3>2, <3>3 DEF Building
    <2>3. CASE StopPath
        <3>1. child' = <<>> /\ parent' = Root /\ pc' = "paths" /\ at' = at
            BY <2>3 DEF StopPath
        <3>2. 0 <= MaxPath
            BY PathAssumption
        <3> QED
            BY <1>3, <1>4, <1>5, <3>1, <3>2, RecordFacts DEF Building
    <2>4. CASE PathsBuilt
        <3>1. child' = child /\ parent' = parent /\ pc' = "filter" /\ at' = 1
            BY <2>4 DEF PathsBuilt
        <3> QED
            BY <1>4, <3>1
    <2> QED
        BY <2>1, <2>2, <2>3, <2>4
<1>7. Sound'
    BY <1>1, <1>6 DEF Inv, Sound
<1>8. Found' /\ Underway' /\ Final'
    BY <1>1, <1>2 DEF Inv, Found, Underway, Final
<1>9. Complete'
    <2> SUFFICES ASSUME ~stopped, NEW x \in Records \ (touched \cup unread), IsBase(x), NEW key \in Alone(x)
                 PROVE  Exact(filelist, x, StreamName(key), Pieces(x, key))
        BY <1>1, <1>3 DEF Complete
    <2>1. Passed(x)
        BY <1>2 DEF Passed
    <2> QED
        BY <1>2, <2>1 DEF Inv, Complete
<1>10. Pathed'
    <2> SUFFICES ASSUME ~stopped PROVE Pathed'
        BY <1>1 DEF Pathed
    <2>1. \A i \in DOMAIN filelist : i < at => filelist[i].path # NoPath
        BY <1>2 DEF Inv, Pathed
    <2>2. Building' => at' = at
        BY DEF BeginPath, ToParent, StopPath, PathsBuilt, Building
    <2>3. pc' = "filter" => \A i \in DOMAIN filelist : i < at
        BY <1>4 DEF BeginPath, ToParent, StopPath, PathsBuilt
    <2> QED
        BY <1>1, <1>2, <2>1, <2>2, <2>3 DEF Pathed
<1> QED
    BY <1>3, <1>7, <1>8, <1>9, <1>10 DEF Inv

\* An entry is changed in place.
LEMMA ReplacedIs ==
    ASSUME NEW list, IsFileList(list), Ordered(list), NEW k \in DOMAIN list, NEW x, IsItem(x),
           x.id = list[k].id, x.stream = list[k].stream
    PROVE  LET new == [list EXCEPT ![k] = x]
           IN /\ IsFileList(new) /\ Ordered(new) /\ DOMAIN new = DOMAIN list /\ Len(new) = Len(list)
              /\ new[k] = x /\ \A i \in DOMAIN list : i # k => new[i] = list[i]
<1> DEFINE new == [list EXCEPT ![k] = x]
<1>1. DOMAIN list = 1 .. Len(list) /\ Len(list) \in Nat /\ \A i \in DOMAIN list : IsItem(list[i])
    BY SequenceIs DEF IsFileList
<1>2. new[k] = x /\ \A i \in DOMAIN list : i # k => new[i] = list[i]
    OBVIOUS
<1>3. new = [i \in 1 .. Len(list) |-> new[i]]
    BY <1>1
<1> HIDE DEF new
<1>4. IsSequence(new) /\ Len(new) = Len(list) /\ DOMAIN new = DOMAIN list
    BY <1>1, <1>3, IsSequenceOf
<1>5. IsFileList(new)
    BY <1>1, <1>2, <1>4 DEF IsFileList
<1>6. \A i \in DOMAIN list : new[i].id = list[i].id /\ new[i].stream = list[i].stream
    BY <1>2
<1>7. Ordered(new)
    BY <1>4, <1>6 DEF Ordered
<1> QED
    BY <1>2, <1>4, <1>5, <1>7 DEF new

LEMMA EndPathKeeps ==
    ASSUME Inv, EndPath
    PROVE  Inv'
<1> DEFINE e == filelist[at]
           x == [e EXCEPT !.path = child]
           new == [filelist EXCEPT ![at] = x]
<1>1. /\ pc = "walk" /\ pc' = "paths" /\ filelist' = new
      /\ child' = <<>> /\ parent' = Root /\ at' = at + 1
      /\ UNCHANGED <<mft, touched, mft_id, mfi, entries, result, unread, stopped>>
    BY DEF EndPath, table, file
<1>2. /\ Building /\ Building' /\ ~Reading /\ ~Reading' /\ ~Scanning'
    BY <1>1 DEF Building, Reading, Scanning
<1>3. /\ TableSound /\ TableSound' /\ \A r : IsBase(r)' <=> IsBase(r)
      /\ \A r, key : Pieces(r, key)' = Pieces(r, key) /\ Alone(r)' = Alone(r)
    BY <1>1, TableSame DEF Inv
<1>4. /\ IsFileList(filelist) /\ Ordered(filelist) /\ at \in 1 .. Len(filelist) /\ IsSequence(child) /\ child # <<>>
      /\ DOMAIN filelist = 1 .. Len(filelist) /\ Len(filelist) \in Nat
    BY <1>1, SequenceIs DEF Inv, Sound, IsFileList
<1>5. IsItem(e)
    BY <1>4 DEF IsFileList
<1> HIDE DEF e
<1>6. x = [id |-> e.id, stream |-> e.stream, name |-> e.name, parent |-> e.parent,
           map |-> e.map, fragments |-> e.fragments, path |-> child]
    BY <1>5 DEF IsItem
<1> HIDE DEF x
<1>7. /\ IsItem(x) /\ x.id = e.id /\ x.stream = e.stream /\ x.map = e.map /\ x.fragments = e.fragments
      /\ x.path = child
    BY <1>4, <1>5, <1>6 DEF IsItem
<1>8. /\ IsFileList(new) /\ Ordered(new) /\ DOMAIN new = DOMAIN filelist /\ Len(new) = Len(filelist)
      /\ new[at] = x /\ \A i \in DOMAIN filelist : i # at => new[i] = filelist[i]
    BY <1>4, <1>7, ReplacedIs DEF e
<1> HIDE DEF new
<1>9. \A i \in DOMAIN filelist :
        /\ new[i].id = filelist[i].id /\ new[i].stream = filelist[i].stream
        /\ new[i].map = filelist[i].map /\ new[i].fragments = filelist[i].fragments
    BY <1>7, <1>8 DEF e
<1>10. Sound'
    <2>1. at' \in 1 .. Len(filelist') + 1
        BY <1>1, <1>4, <1>8
    <2>2. IsSequence(<<>>) /\ Len(<<>>) <= MaxPath
        BY EmptyIs, PathAssumption
    <2>3. Root \in Records
        BY <1>3, RecordFacts
    <2>4. pc' # "walk"
        BY <1>1
    <2> QED
        BY <1>1, <1>2, <1>8, <2>1, <2>2, <2>3, <2>4 DEF Inv, Sound
<1>11. Found' /\ Underway' /\ Final'
    BY <1>1, <1>2 DEF Inv, Found, Underway, Final
<1>12. Complete'
    <2> SUFFICES ASSUME ~stopped, NEW r \in Records \ (touched \cup unread), IsBase(r), NEW key \in Alone(r)
                 PROVE  Exact(filelist', r, StreamName(key), Pieces(r, key))
        BY <1>1, <1>3 DEF Complete
    <2>1. Passed(r) /\ pc # "done"
        BY <1>1, <1>2 DEF Passed
    <2>2. Exact(filelist, r, StreamName(key), Pieces(r, key))
        BY <2>1 DEF Inv, Complete
    <2> QED
        BY <1>1, <1>8, <1>9, <2>2 DEF Exact
<1>13. Pathed'
    <2> SUFFICES ASSUME ~stopped, NEW i \in DOMAIN filelist, i < at + 1 PROVE new[i].path # NoPath
        BY <1>1, <1>2, <1>8 DEF Pathed
    <2>1. \A j \in DOMAIN filelist : j < at => filelist[j].path # NoPath
        BY <1>2 DEF Inv, Pathed
    <2>2. CASE i = at
        BY <1>4, <1>7, <1>8, <2>2 DEF NoPath
    <2>3. CASE i # at
        <3>1. i < at
            BY <1>4, <2>3
        <3> QED
            BY <1>8, <2>1, <2>3, <3>1
    <2> QED
        BY <2>2, <2>3
<1> QED
    BY <1>3, <1>10, <1>11, <1>12, <1>13 DEF Inv

LEMMA FilteredKeeps ==
    ASSUME Inv, Filtered
    PROVE  Inv'
<1>1. /\ pc = "filter" /\ pc' = "remove" /\ at' = 1
      /\ UNCHANGED <<mft, touched, mft_id, mfi, entries, filelist, child, parent, full, result, unread, stopped>>
    BY DEF Filtered, table, file
<1>2. ~Building /\ ~Building' /\ ~Reading /\ ~Reading'
    BY <1>1 DEF Building, Reading
<1>3. /\ TableSound /\ TableSound' /\ \A r : IsBase(r)' <=> IsBase(r)
      /\ \A r, key : Pieces(r, key)' = Pieces(r, key) /\ Alone(r)' = Alone(r)
    BY <1>1, TableSame DEF Inv
<1>4. Sound'
    <2>1. 1 \in 1 .. Len(filelist) + 1
        BY SequenceIs DEF Inv, Sound, IsFileList
    <2> QED
        BY <1>1, <2>1 DEF Inv, Sound
<1>5. Found' /\ Underway' /\ Final' /\ Pathed'
    BY <1>1, <1>2 DEF Inv, Found, Underway, Final, Pathed
<1>6. Complete'
    BY <1>1, <1>2, <1>3 DEF Inv, Complete, Passed
<1> QED
    BY <1>3, <1>4, <1>5, <1>6 DEF Inv

LEMMA ValidateKeeps ==
    ASSUME Inv, Validate
    PROVE  Inv'
<1> DEFINE e == filelist[at]
           m == IF Invalid(e.map) THEN <<>> ELSE e.map
           x == [e EXCEPT !.map = m]
           new == [filelist EXCEPT ![at] = x]
<1>1. /\ pc = "filter" /\ pc' = "filter" /\ filelist' = new /\ at' = at + 1 /\ at <= Len(filelist)
      /\ UNCHANGED <<mft, touched, mft_id, mfi, entries, child, parent, result, unread, stopped>>
    BY DEF Validate, table, file
<1>2. ~Building /\ ~Building' /\ ~Reading /\ ~Reading' /\ ~Scanning'
    BY <1>1 DEF Building, Reading, Scanning
<1>3. /\ TableSound /\ TableSound' /\ \A r : IsBase(r)' <=> IsBase(r)
      /\ \A r, key : Pieces(r, key)' = Pieces(r, key) /\ Alone(r)' = Alone(r)
    BY <1>1, TableSame DEF Inv
<1>4. /\ IsFileList(filelist) /\ Ordered(filelist) /\ at \in 1 .. Len(filelist)
      /\ DOMAIN filelist = 1 .. Len(filelist) /\ Len(filelist) \in Nat
    BY <1>1, SequenceIs DEF Inv, Sound, IsFileList
<1>5. IsItem(e)
    BY <1>4 DEF IsFileList
<1>6. IsSequence(m)
    BY <1>5, EmptyIs DEF IsItem
<1> HIDE DEF e, m
<1>7. x = [id |-> e.id, stream |-> e.stream, name |-> e.name, parent |-> e.parent,
           map |-> m, fragments |-> e.fragments, path |-> e.path]
    BY <1>5 DEF IsItem
<1> HIDE DEF x
<1>8. /\ IsItem(x) /\ x.id = e.id /\ x.stream = e.stream /\ x.map = m /\ x.fragments = e.fragments
      /\ x.path = e.path
    BY <1>5, <1>6, <1>7 DEF IsItem
<1>9. /\ IsFileList(new) /\ Ordered(new) /\ DOMAIN new = DOMAIN filelist /\ Len(new) = Len(filelist)
      /\ new[at] = x /\ \A i \in DOMAIN filelist : i # at => new[i] = filelist[i]
    BY <1>4, <1>8, ReplacedIs DEF e
<1> HIDE DEF new
<1>10. \A i \in DOMAIN filelist :
        /\ new[i].id = filelist[i].id /\ new[i].stream = filelist[i].stream
        /\ new[i].fragments = filelist[i].fragments /\ new[i].path = filelist[i].path
    BY <1>8, <1>9 DEF e
<1>11. Sound'
    <2>1. at' \in 1 .. Len(filelist') + 1
        BY <1>1, <1>4, <1>9
    <2> QED
        BY <1>1, <1>2, <1>9, <2>1 DEF Inv, Sound
<1>12. Found' /\ Underway' /\ Final' /\ Pathed'
    BY <1>1, <1>2, <1>9, <1>10 DEF Inv, Found, Underway, Final, Pathed
<1>13. Complete'
    <2> SUFFICES ASSUME ~stopped, NEW r \in Records \ (touched \cup unread), IsBase(r), NEW key \in Alone(r)
                 PROVE  Exact(new, r, StreamName(key), Pieces(r, key))
        BY <1>1, <1>3 DEF Complete
    <2>1. Exact(filelist, r, StreamName(key), Pieces(r, key))
        BY <1>1, <1>2 DEF Inv, Complete, Passed
    <2>2. ~Invalid(Pieces(r, key))
        <3>1. Right(mft, r)
            BY <1>3 DEF TableSound
        <3>2. LET all == PiecesOf(mft, r, {key}) IN Len(all) > 1 => all[1].vcn # all[2].vcn
            BY <3>1, Zenon DEF Right, Alone
        <3> QED
            BY <3>2 DEF Invalid, Pieces
    <2>3. ASSUME NEW i \in DOMAIN filelist, filelist[i].id = r, filelist[i].stream = StreamName(key)
          PROVE  new[i].map = filelist[i].map
        <3>1. filelist[i].map = Pieces(r, key)
            BY <2>1, <2>3 DEF Exact
        <3>2. CASE i = at
            <4>1. m = e.map
                BY <2>2, <3>1, <3>2 DEF m, e
            <4> QED
                BY <1>8, <1>9, <3>2, <4>1 DEF e
        <3>3. CASE i # at
            BY <1>9, <3>3
        <3> QED
            BY <3>2, <3>3
    <2> QED
        BY <1>9, <1>10, <2>1, <2>3 DEF Exact
<1> QED
    BY <1>3, <1>11, <1>12, <1>13 DEF Inv

\* What is left of the list is in the same order, and of the streams with
\* clusters nothing is lost.
LEMMA KeptIs ==
    ASSUME NEW list, IsFileList(list), Ordered(list)
    PROVE  /\ IsFileList(Kept(list)) /\ Ordered(Kept(list))
           /\ (\A i \in DOMAIN list : list[i].path = NoPath) => Kept(list) = <<>>
           /\ (\A i \in DOMAIN list : list[i].path # NoPath) =>
                \A r, st, ps : IsSequence(ps) /\ Exact(list, r, st, ps) => Streamed(Kept(list), r, st, ps)
<1> DEFINE n == Len(list)
           Stay(e) == e.fragments > 0 /\ e.path # NoPath
           C == {i \in 1 .. n : Stay(list[i])}
           ss == [i \in 1 .. n |-> IF i \in C THEN <<list[i]>> ELSE <<>>]
           q == Kept(list)
<1>1. n \in Nat /\ DOMAIN list = 1 .. n /\ \A i \in 1 .. n : IsItem(list[i])
    BY SequenceIs DEF IsFileList
<1>2. q = FlattenSeq(ss)
    <2>1. [i \in 1 .. n |-> IF list[i].fragments > 0 /\ list[i].path # NoPath THEN <<list[i]>> ELSE <<>>] = ss
        OBVIOUS
    <2> QED
        BY <2>1 DEF Kept
<1>3. \A i \in 1 .. n : i \in C <=> Stay(list[i])
    OBVIOUS
<1>4. IsSequence(FlattenSeq(ss)) /\ \E h : Selected(FlattenSeq(ss), list, n, C, h)
    <2> HIDE DEF C
    <2> QED
        BY <1>1, SelectionIs
<1> HIDE DEF ss, C, q
<1>5. PICK h : Selected(q, list, n, C, h)
    BY <1>2, <1>4
<1>6. IsSequence(q) /\ Len(q) \in Nat /\ DOMAIN q = 1 .. Len(q)
    BY <1>2, <1>4, SequenceIs
<1>7. /\ \A j \in 1 .. Len(q) : h[j] \in 1 .. n /\ h[j] \in C /\ q[j] = list[h[j]]
      /\ \A j, k \in 1 .. Len(q) : j < k => h[j] < h[k]
      /\ \A i \in 1 .. n : i \in C => \E j \in 1 .. Len(q) : h[j] = i
    BY <1>5 DEF Selected
<1>8. IsFileList(q)
    BY <1>1, <1>6, <1>7 DEF IsFileList
<1>9. Ordered(q)
    <2> SUFFICES ASSUME NEW i \in DOMAIN q, NEW j \in DOMAIN q, i < j
                 PROVE  q[i].id <= q[j].id /\ (q[i].id = q[j].id => q[i].stream # q[j].stream)
        BY DEF Ordered
    <2>1. /\ h[i] \in DOMAIN list /\ h[j] \in DOMAIN list /\ h[i] < h[j]
          /\ q[i] = list[h[i]] /\ q[j] = list[h[j]]
        BY <1>1, <1>6, <1>7
    <2> QED
        BY <2>1 DEF Ordered
<1>10. ASSUME \A i \in DOMAIN list : list[i].path = NoPath PROVE q = <<>>
    <2>1. ~(1 \in 1 .. Len(q))
        BY <1>1, <1>3, <1>7, <1>10
    <2>2. Len(q) = 0
        BY <1>6, <2>1
    <2> QED
        BY <1>6, <2>2, EmptyIs
<1>11. ASSUME \A i \in DOMAIN list : list[i].path # NoPath,
              NEW r, NEW st, NEW ps, IsSequence(ps), Exact(list, r, st, ps)
       PROVE  Streamed(q, r, st, ps)
    <2> DEFINE found == {i \in DOMAIN q : q[i].id = r /\ q[i].stream = st}
    <2>1. ASSUME NEW j \in found
          PROVE  /\ h[j] \in DOMAIN list /\ list[h[j]].id = r /\ list[h[j]].stream = st
                 /\ q[j].map = ps /\ Len(ps) > 0
        <3>1. h[j] \in DOMAIN list /\ h[j] \in C /\ q[j] = list[h[j]]
            BY <1>1, <1>6, <1>7
        <3>2. list[h[j]].map = ps /\ list[h[j]].fragments = Len(ps)
            BY <1>11, <3>1 DEF Exact
        <3>3. list[h[j]].fragments > 0
            BY <1>1, <1>3, <3>1
        <3> QED
            BY <3>1, <3>2, <3>3
    <2>2. CASE ps = <<>>
        <3>1. Len(ps) = 0
            BY <2>2, EmptyIs
        <3>2. \A j \in found : FALSE
            <4> SUFFICES ASSUME NEW j \in found PROVE FALSE
                OBVIOUS
            <4>1. Len(ps) > 0
                BY <2>1
            <4> QED
                BY <3>1, <4>1
        <3>3. found = {}
            BY <3>2
        <3> QED
            BY <2>2, <3>3 DEF Streamed
    <2>3. CASE ps # <<>>
        <3>1. PICK i \in DOMAIN list : list[i].id = r /\ list[i].stream = st
            BY <1>11, <2>3 DEF Exact
        <3>2. list[i].fragments = Len(ps) /\ Len(ps) \in Nat /\ Len(ps) # 0
            BY <1>11, <2>3, <3>1, EmptyIs, SequenceIs DEF Exact
        <3>3. i \in C
            BY <1>1, <1>3, <1>11, <3>1, <3>2
        <3>4. PICK j \in 1 .. Len(q) : h[j] = i
            BY <1>1, <1>7, <3>1, <3>3
        <3>5. j \in found
            BY <1>6, <1>7, <3>1, <3>4
        <3>6. ASSUME NEW k \in found PROVE k = j
            <4>1. h[k] \in DOMAIN list /\ list[h[k]].id = list[i].id /\ list[h[k]].stream = list[i].stream
                BY <2>1, <3>1
            <4>2. ~(h[k] < i) /\ ~(i < h[k])
                BY <4>1 DEF Ordered
            <4>3. h[k] = h[j]
                BY <1>1, <3>4, <4>1, <4>2
            <4>4. k \in 1 .. Len(q) /\ j \in 1 .. Len(q) /\ h[k] \in Nat
                BY <1>1, <1>6, <4>1
            <4>5. ~(k < j) /\ ~(j < k)
                BY <1>7, <4>3, <4>4
            <4> QED
                BY <1>6, <4>4, <4>5
        <3>7. found = {j} /\ q[j].map = ps
            BY <2>1, <3>5, <3>6
        <3> QED
            BY <2>3, <3>5, <3>7 DEF Streamed
    <2> QED
        BY <2>2, <2>3
<1> QED
    BY <1>8, <1>9, <1>10, <1>11 DEF q

LEMMA RemoveStreamsKeeps ==
    ASSUME Inv, RemoveStreams
    PROVE  Inv'
<1>1. /\ pc = "remove" /\ pc' = "done" /\ filelist' = Kept(filelist)
      /\ result' = IF filelist' = <<>> /\ ~stopped THEN -1 ELSE 0
      /\ UNCHANGED <<mft, touched, mft_id, mfi, entries, at, child, parent, full, unread, stopped>>
    BY DEF RemoveStreams, table, file, path
<1>2. ~Building /\ ~Building' /\ ~Reading /\ ~Reading'
    BY <1>1 DEF Building, Reading
<1>3. /\ TableSound /\ TableSound' /\ \A r : IsBase(r)' <=> IsBase(r)
      /\ \A r, key : Pieces(r, key)' = Pieces(r, key) /\ Alone(r)' = Alone(r)
    BY <1>1, TableSame DEF Inv
<1>4. IsFileList(filelist) /\ Ordered(filelist) /\ at = 1
    BY <1>1, <1>2 DEF Inv, Sound
<1>5. /\ IsFileList(filelist') /\ Ordered(filelist')
      /\ (\A i \in DOMAIN filelist : filelist[i].path = NoPath) => filelist' = <<>>
      /\ (\A i \in DOMAIN filelist : filelist[i].path # NoPath) =>
            \A r, st, ps : IsSequence(ps) /\ Exact(filelist, r, st, ps) => Streamed(filelist', r, st, ps)
    BY <1>1, <1>4, KeptIs
<1>6. Sound'
    <2>1. at' \in 1 .. Len(filelist') + 1 /\ at' = 1
        BY <1>1, <1>4, <1>5, SequenceIs DEF IsFileList
    <2>2. result' \in {-1, 0}
        BY <1>1
    <2> QED
        BY <1>1, <1>5, <2>1, <2>2 DEF Inv, Sound
<1>7. Found' /\ Underway' /\ Pathed' /\ Complete'
    BY <1>1, <1>2 DEF Inv, Found, Underway, Pathed, Complete
<1>8. Final'
    <2> SUFFICES ASSUME ~stopped, result' = 0, NEW r \in Records \ (touched \cup unread), IsBase(r),
                        NEW key \in Alone(r)
                 PROVE  Streamed(filelist', r, StreamName(key), Pieces(r, key))
        BY <1>1, <1>3 DEF Final
    <2>1. filelist' # <<>>
        BY <1>1
    <2>2. \A i \in DOMAIN filelist : filelist[i].path # NoPath
        BY <1>1, <1>5, <2>1 DEF Inv, Pathed
    <2>3. Exact(filelist, r, StreamName(key), Pieces(r, key))
        BY <1>1, <1>2 DEF Inv, Complete, Passed
    <2>4. IsSequence(Pieces(r, key))
        BY <1>3, PiecesSound
    <2> QED
        BY <1>5, <2>2, <2>3, <2>4
<1> QED
    BY <1>3, <1>6, <1>7, <1>8 DEF Inv

\* Nobody can disturb what has been found: the entries of the file which is read
\* hold the clusters of its records so far, those of the files before it all of
\* theirs.
THEOREM InvIsInvariant == Spec => []Inv
<1>1. Init => Inv
    BY InitIs
<1>2. Inv /\ [Next]_vars => Inv'
    <2> SUFFICES ASSUME Inv, [Next]_vars PROVE Inv'
        OBVIOUS
    <2>1. CASE UNCHANGED vars
        <3>1. UNCHANGED <<mft, touched, mft_id, mfi, entries, filelist, at, child, parent, full, result,
                          unread, stopped, pc>>
            BY <2>1 DEF vars, table, file, path
        <3>2. TableSound'
            BY <3>1, TableSame DEF Inv
        <3>3. /\ \A r : IsBase(r)' <=> IsBase(r)
              /\ \A r, key : Pieces(r, key)' = Pieces(r, key) /\ Alone(r)' = Alone(r)
            BY <3>1, TableSame DEF Inv
        <3>4. Sound' /\ Found' /\ Pathed'
            BY <3>1 DEF Inv, Sound, Found, Pathed, Scanning, Reading, Building
        <3>5. Complete' /\ Final'
            BY <3>1, <3>3 DEF Inv, Complete, Final, Passed, Reading
        <3>6. Underway'
            BY <3>1, <3>3 DEF Inv, Underway, Reading
        <3> QED
            BY <3>2, <3>4, <3>5, <3>6 DEF Inv
    <2>2. CASE Next
        <3>1. CASE Scan
            BY <3>1, SkipChildKeeps, ReadBaseKeeps, ReadListKeeps, ReadChildKeeps, FinishFileKeeps,
               StopScanKeeps, WalkKeeps, EndPathKeeps, ValidateKeeps, FilteredKeeps, RemoveStreamsKeeps
               DEF Scan
        <3>2. CASE ReadFails \/ OthersWork \/ Stop
            BY <3>2, ReadFailsKeeps, OthersKeep, StopKeeps
        <3>3. CASE Done
            BY <2>1, <3>3 DEF Done
        <3> QED
            BY <2>2, <3>1, <3>2, <3>3 DEF Next
    <2> QED
        BY <2>1, <2>2
<1> QED
    BY <1>1, <1>2, PTL DEF Spec

\* Whatever others do while the volume is scanned, and whichever records cannot
\* be read: each stream of a file nobody touches is in the list once, with
\* exactly its clusters, unless its attribute is merged with another one of that
\* name, and the list is in ascending order at every moment.
THEOREM ListIsExact == Spec => []ListExact
<1>1. Inv => ListExact
    <2> SUFFICES ASSUME Inv PROVE ListExact
        OBVIOUS
    <2>1. mfi.id \in Records \cup {None}
        BY DEF Inv, Found, NoFile
    <2>2. TypeOK
        BY <2>1 DEF Inv, TypeOK, Sound, TableSound
    <2>3. Ascending
        BY DEF Inv, Sound, Ordered, Ascending
    <2>4. ASSUME pc = "done", ~stopped, result = 0, NEW r \in Records, IsBase(r), Settled(r),
                 NEW key \in Keys, ~Merged(r, key)
          PROVE  LET found == {i \in DOMAIN filelist : filelist[i].id = r /\ filelist[i].stream = StreamName(key)}
                 IN IF Pieces(r, key) = <<>> THEN found = {}
                    ELSE \E i \in found : found = {i} /\ filelist[i].map = Pieces(r, key)
        <3>1. r \in Records \ (touched \cup unread)
            BY <2>4 DEF Settled
        <3>2. Streamed(filelist, r, StreamName(key), Pieces(r, key))
            BY <2>4, <3>1 DEF Inv, Final, Alone
        <3> QED
            BY <3>2 DEF Streamed
    <2> QED
        BY <2>2, <2>3, <2>4 DEF ListExact
<1> QED
    BY <1>1, InvIsInvariant, PTL

-----------------------------------------------------------------------------
(* The names of a file.                                                    *)

\* What is known of the names among attrs: a DOS name only when there is no
\* other one.
Types == {"dos", "win32", "posix"}
Best(f, attrs, N) ==
    \E i \in N : /\ f.name = attrs[i].name /\ f.type = attrs[i].type
                 /\ f.type = "dos" => \A j \in N : attrs[j].type = "dos"
Told(f, attrs, dir, N) ==
    IF N = {} THEN f.name = NoName ELSE f.parent = dir /\ Best(f, attrs, N)

\* The names of the file id lie in one directory.
InOne(attrs, id, dir) ==
    /\ \A i \in NamesIn(attrs) :
        attrs[i].parent = dir /\ attrs[i].name # NoName /\ attrs[i].type \in Types
    /\ dir # id \/ id = Root

LEMMA NameUpdated ==
    ASSUME NEW id \in Records, NEW f, IsFile(f, id), NEW attrs, NEW dir, InOne(attrs, id, dir),
           NEW n \in NamesIn(attrs), dir \in Records,
           NEW N, N \subseteq NamesIn(attrs), Told(f, attrs, dir, N)
    PROVE  Told(UpdateName(f, attrs[n]), attrs, dir, N \cup {n})
<1> DEFINE a == attrs[n]
           taken == f.name = NoName \/ f.type = "dos" \/ (f.type = "win32" /\ a.type = "posix")
           g == UpdateName(f, a)
<1>1. /\ a.parent = dir /\ a.name # NoName /\ a.type \in Types
      /\ dir # id \/ id = Root
      /\ \A i \in N : attrs[i].name # NoName /\ attrs[i].type \in Types
    BY DEF InOne
<1>2. f = [id |-> id, parent |-> f.parent, name |-> f.name, type |-> f.type]
    BY DEF IsFile
<1>3. ~(a.parent = f.id /\ f.id # Root)
    BY <1>1, <1>2
<1> HIDE DEF a
<1>4. CASE taken
    <2>1. g = [f EXCEPT !.parent = a.parent, !.name = a.name, !.type = a.type]
        BY <1>3, <1>4 DEF UpdateName
    <2>2. g = [id |-> id, parent |-> a.parent, name |-> a.name, type |-> a.type]
        <3> DEFINE p == f.parent
                   m == f.name
                   t == f.type
                   x == [f EXCEPT !.parent = a.parent]
                   y == [x EXCEPT !.name = a.name]
        <3>1. f = [id |-> id, parent |-> p, name |-> m, type |-> t]
            BY <1>2
        <3> HIDE DEF p, m, t
        <3>2. x = [id |-> id, parent |-> a.parent, name |-> m, type |-> t]
            BY <3>1
        <3>3. g = [y EXCEPT !.type = a.type]
            BY <2>1
        <3> HIDE DEF x
        <3>4. y = [id |-> id, parent |-> a.parent, name |-> a.name, type |-> t]
            BY <3>2
        <3> HIDE DEF y, g
        <3> QED
            BY <3>3, <3>4
    <2>3. g.id = id /\ g.parent = dir /\ g.name = a.name /\ g.type = a.type
        BY <1>1, <2>2
    <2>4. a.type = "dos" => \A j \in N : attrs[j].type = "dos"
        <3>1. CASE N = {}
            BY <3>1
        <3>2. CASE N # {}
            <4>1. PICK i \in N : /\ f.name = attrs[i].name /\ f.type = attrs[i].type
                                 /\ f.type = "dos" => \A j \in N : attrs[j].type = "dos"
                BY <3>2 DEF Best, Told
            <4>2. f.name # NoName
                BY <1>1, <4>1
            <4>3. a.type = "dos" => f.type = "dos"
                BY <1>4, <4>2
            <4> QED
                BY <4>1, <4>3
        <3> QED
            BY <3>1, <3>2
    <2>5. Best(g, attrs, N \cup {n})
        <3>1. n \in N \cup {n} /\ g.name = attrs[n].name /\ g.type = attrs[n].type
            BY <2>3 DEF a
        <3>2. g.type = "dos" => \A j \in N \cup {n} : attrs[j].type = "dos"
            BY <2>3, <2>4 DEF a
        <3> HIDE DEF g
        <3> QED
            BY <3>1, <3>2 DEF Best
    <2> HIDE DEF g
    <2> QED
        BY <2>3, <2>5 DEF g, a, Told
<1>5. CASE ~taken
    <2>1. g = [f EXCEPT !.parent = a.parent]
        BY <1>3, <1>5 DEF UpdateName
    <2>2. g = [id |-> id, parent |-> a.parent, name |-> f.name, type |-> f.type]
        BY <1>2, <2>1
    <2>3. g.id = id /\ g.parent = dir /\ g.name = f.name /\ g.type = f.type
        BY <1>1, <2>2
    <2>4. N # {}
        BY <1>5 DEF Told
    <2>5. PICK i \in N : f.name = attrs[i].name /\ f.type = attrs[i].type
        BY <2>4 DEF Best, Told
    <2>6. f.type # "dos"
        BY <1>5
    <2>7. Best(g, attrs, N \cup {n})
        <3>1. i \in N \cup {n} /\ g.name = attrs[i].name /\ g.type = attrs[i].type /\ g.type # "dos"
            BY <2>3, <2>5, <2>6
        <3> HIDE DEF g
        <3> QED
            BY <3>1 DEF Best
    <2> HIDE DEF g
    <2> QED
        BY <2>3, <2>7 DEF g, a, Told
<1> QED
    BY <1>4, <1>5

\* The name is the best one and the directory the only one.
LEMMA NamesAre ==
    ASSUME NEW id \in Records, NEW s, Known(s, id), s.mfi.name = NoName,
           NEW attrs, IsAttributes(attrs), NEW dir \in Records, InOne(attrs, id, dir),
           NamesIn(attrs) # {}
    PROVE  LET f == Analyzed(id, s, attrs).mfi
           IN f.parent = dir /\ Best(f, attrs, NamesIn(attrs))
<1> DEFINE N == Len(attrs)
           Upto(n) == {i \in NamesIn(attrs) : i <= n}
<1>1. IsSequence(attrs) /\ N \in Nat /\ DOMAIN attrs = 1 .. N /\ \A n \in 1 .. N : IsAttribute(attrs[n])
    BY SequenceIs DEF IsAttributes
<1>2. PICK u : /\ u[0] = s /\ u[N] = Analyzed(id, s, attrs)
               /\ \A n \in 1 .. N : u[n] = Analyze(id, u[n - 1], attrs[n])
    BY <1>1, AnalyzedSteps
<1> DEFINE Holds(n) ==
            /\ Known(u[n], id)
            /\ Told(u[n].mfi, attrs, dir, Upto(n))
           T == {n \in 0 .. N : Holds(n)}
<1>3. Upto(0) = {} /\ Upto(N) = NamesIn(attrs) /\ NamesIn(attrs) \subseteq 1 .. N
    BY <1>1 DEF NamesIn
<1>4. 0 \in T
    BY <1>1, <1>2, <1>3 DEF Told
<1>5. ASSUME NEW m \in 0 .. N - 1, m \in T PROVE m + 1 \in T
    <2> DEFINE a == attrs[m + 1]
    <2>1. m + 1 \in 1 .. N /\ m + 1 \in 0 .. N /\ (m + 1) - 1 = m
        BY <1>1
    <2>2. Holds(m) /\ IsAttribute(a) /\ u[m + 1] = Analyze(id, u[m], a)
        BY <1>1, <1>2, <1>5, <2>1
    <2>3. Known(Analyze(id, u[m], a), id)
        <3>1. Known(u[m], id)
            BY <2>2
        <3>2. Readable(a)
            BY <2>2, AttributeReadable
        <3> HIDE DEF a
        <3> QED
            BY <3>1, <3>2, AnalyzeIs
    <2>4. u[m] = [mfi |-> u[m].mfi, list |-> u[m].list] /\ IsFile(u[m].mfi, id)
        BY <2>2 DEF Known
    <2>5. CASE a.kind = "name"
        <3>1. m + 1 \in NamesIn(attrs)
            BY <1>1, <2>1, <2>5 DEF NamesIn
        <3>2. Upto(m) \cup {m + 1} = Upto(m + 1) /\ Upto(m) \subseteq NamesIn(attrs)
            BY <1>3, <2>1, <3>1
        <3>3. u[m + 1].mfi = UpdateName(u[m].mfi, attrs[m + 1])
            BY <2>2, <2>4, <2>5 DEF Analyze
        <3>4. Told(u[m].mfi, attrs, dir, Upto(m)) /\ IsFile(u[m].mfi, id)
            BY <2>2, <2>4
        <3> HIDE DEF Upto, a
        <3>5. Told(UpdateName(u[m].mfi, attrs[m + 1]), attrs, dir, Upto(m) \cup {m + 1})
            BY <3>1, <3>2, <3>4, NameUpdated
        <3>7. Holds(m + 1)
            BY <2>2, <2>3, <3>2, <3>3, <3>5
        <3> HIDE DEF Holds
        <3> QED
            BY <2>1, <3>7
    <2>6. CASE a.kind # "name"
        <3>1. Upto(m + 1) = Upto(m)
            BY <1>1, <2>1, <2>6 DEF NamesIn
        <3>2. u[m + 1].mfi = u[m].mfi
            BY <2>2, <2>4, <2>6 DEF Analyze
        <3> HIDE DEF Upto, a
        <3>3. Holds(m + 1)
            BY <2>2, <2>3, <3>1, <3>2
        <3> HIDE DEF Holds
        <3> QED
            BY <2>1, <3>3
    <2> QED
        BY <2>5, <2>6
<1> HIDE DEF T
<1>6. \A n \in 0 .. N : n \in T
    BY <1>1, <1>4, <1>5, UpTo
<1> HIDE DEF Holds
<1>7. Holds(N)
    BY <1>1, <1>6 DEF T
<1> HIDE DEF Upto
<1> QED
    BY <1>2, <1>3, <1>7 DEF Holds, Told

-----------------------------------------------------------------------------
(* The order of the streams of a file.                                     *)

Unnamed == ""

\* The index of the file id is in the list; nothing but streams with default
\* names lies before it, if that is said.
FirstIs(list, id, only) ==
    \E i \in DOMAIN list :
        /\ list[i].id = id /\ list[i].stream = Unnamed
        /\ only => \A j \in 1 .. i - 1 : list[j].id = id => list[j].stream \in ByDefault

LEMMA ListIs ==
    ASSUME NEW list, IsFileList(list)
    PROVE  Len(list) \in Nat /\ DOMAIN list = 1 .. Len(list)
BY SequenceIs DEF IsFileList

LEMMA ShiftedIs ==
    ASSUME NEW list, NEW new, IsFileList(list), IsFileList(new), NEW id, Shifted(list, new, id),
           NEW k, k # id
    PROVE  /\ \A only \in BOOLEAN : FirstIs(list, k, only) => FirstIs(new, k, only)
           /\ \A j \in DOMAIN new : new[j].id = k => \E i \in DOMAIN list : new[j] = list[i]
<1>1. /\ Len(list) \in Nat /\ DOMAIN list = 1 .. Len(list)
      /\ Len(new) \in Nat /\ DOMAIN new = 1 .. Len(new)
    BY ListIs
<1>2. PICK d \in Nat : ShiftedBy(list, new, id, d)
    BY DEF Shifted
<1>3. ASSUME NEW j \in DOMAIN new, new[j].id = k
      PROVE  /\ j - d \in DOMAIN list /\ (j - d) + d = j /\ j > d
             /\ list[j - d].id = k /\ new[j] = list[j - d]
    <2>1. j \notin 1 .. d
        BY <1>2, <1>3 DEF ShiftedBy
    <2>2. j - d \in DOMAIN list /\ (j - d) + d = j /\ j > d
        BY <1>1, <1>2, <2>1 DEF ShiftedBy
    <2>3. new[j].id = list[j - d].id
        BY <1>2, <2>2 DEF ShiftedBy
    <2> QED
        BY <1>2, <1>3, <2>2, <2>3 DEF ShiftedBy
<1>4. ASSUME NEW only \in BOOLEAN, FirstIs(list, k, only) PROVE FirstIs(new, k, only)
    <2>1. PICK i \in DOMAIN list :
            /\ list[i].id = k /\ list[i].stream = Unnamed
            /\ only => \A j \in 1 .. i - 1 : list[j].id = k => list[j].stream \in ByDefault
        BY <1>4 DEF FirstIs
    <2>2. i + d \in DOMAIN new /\ new[i + d].id = k /\ new[i + d].stream = Unnamed
        BY <1>1, <1>2, <2>1 DEF ShiftedBy
    <2>3. ASSUME only, NEW j \in 1 .. (i + d) - 1, new[j].id = k PROVE new[j].stream \in ByDefault
        <3>1. j \in DOMAIN new
            BY <1>1, <2>2
        <3>2. j - d \in DOMAIN list /\ j > d /\ list[j - d].id = k /\ new[j] = list[j - d]
            BY <1>3, <2>3, <3>1
        <3>3. j - d \in 1 .. i - 1
            BY <1>1, <3>2
        <3> QED
            BY <2>1, <2>3, <3>2, <3>3
    <2> QED
        BY <2>2, <2>3 DEF FirstIs
<1> QED
    BY <1>3, <1>4

LEMMA ShiftedTwice ==
    ASSUME NEW x, NEW y, NEW z, IsFileList(x), IsFileList(y), IsFileList(z), NEW id,
           Shifted(x, y, id), Shifted(y, z, id)
    PROVE  Shifted(x, z, id)
<1>1. /\ Len(x) \in Nat /\ DOMAIN x = 1 .. Len(x) /\ Len(y) \in Nat /\ DOMAIN y = 1 .. Len(y)
      /\ Len(z) \in Nat /\ DOMAIN z = 1 .. Len(z)
    BY ListIs
<1>2. PICK d \in Nat : ShiftedBy(x, y, id, d)
    BY DEF Shifted
<1>3. PICK e \in Nat : ShiftedBy(y, z, id, e)
    BY DEF Shifted
<1>4. d + e \in Nat /\ Len(z) = Len(x) + (d + e)
    BY <1>1, <1>2, <1>3 DEF ShiftedBy
<1>5. ASSUME NEW i \in 1 .. d + e PROVE z[i].id = id
    <2>1. CASE i <= e
        BY <1>3, <2>1 DEF ShiftedBy
    <2>2. CASE ~(i <= e)
        <3>1. i - e \in 1 .. d /\ i - e \in DOMAIN y /\ (i - e) + e = i
            BY <1>1, <1>2, <2>2 DEF ShiftedBy
        <3>2. y[i - e].id = id
            BY <1>2, <3>1 DEF ShiftedBy
        <3> QED
            BY <1>3, <3>1, <3>2 DEF ShiftedBy
    <2> QED
        BY <2>1, <2>2
<1>6. ASSUME NEW i \in DOMAIN x
      PROVE  /\ z[i + (d + e)].id = x[i].id /\ z[i + (d + e)].stream = x[i].stream
             /\ x[i].id # id => z[i + (d + e)] = x[i]
    <2>1. i + d \in DOMAIN y /\ (i + d) + e = i + (d + e)
        BY <1>1, <1>2 DEF ShiftedBy
    <2>2. /\ y[i + d].id = x[i].id /\ y[i + d].stream = x[i].stream
          /\ x[i].id # id => y[i + d] = x[i]
        BY <1>2 DEF ShiftedBy
    <2>3. /\ z[i + (d + e)].id = y[i + d].id /\ z[i + (d + e)].stream = y[i + d].stream
          /\ y[i + d].id # id => z[i + (d + e)] = y[i + d]
        BY <1>3, <2>1 DEF ShiftedBy
    <2> QED
        BY <2>2, <2>3
<1>7. ShiftedBy(x, z, id, d + e)
    BY <1>4, <1>5, <1>6 DEF ShiftedBy
<1> QED
    BY <1>4, <1>7 DEF Shifted

LEMMA NotShifted ==
    ASSUME NEW list, IsFileList(list), NEW id
    PROVE  Shifted(list, list, id)
<1>1. ShiftedBy(list, list, id, 0)
    BY ListIs DEF ShiftedBy
<1> QED
    BY <1>1 DEF Shifted

LEMMA PlacedIs ==
    ASSUME NEW list, NEW new, IsFileList(list), IsFileList(new), NEW id, NEW stream,
           Placed(list, new, id, stream)
    PROVE  /\ Shifted(list, new, id)
           /\ \A only \in BOOLEAN : FirstIs(list, id, only) /\ (only => stream \in {Unnamed} \cup ByDefault) =>
                    FirstIs(new, id, only)
           /\ LET none(l) == \A i \in DOMAIN l : ~(l[i].id = id /\ l[i].stream = Unnamed)
              IN none(list) => IF stream = Unnamed THEN \A only \in BOOLEAN : FirstIs(new, id, only)
                                                   ELSE none(new)
<1> DEFINE none(l) == \A i \in DOMAIN l : ~(l[i].id = id /\ l[i].stream = Unnamed)
<1>1. /\ Len(list) \in Nat /\ DOMAIN list = 1 .. Len(list)
      /\ Len(new) \in Nat /\ DOMAIN new = 1 .. Len(new)
    BY ListIs
<1>2. CASE ShiftedBy(list, new, id, 0) /\ \E i \in DOMAIN list : list[i].id = id /\ list[i].stream = stream
    <2>1. DOMAIN new = DOMAIN list
        BY <1>1, <1>2 DEF ShiftedBy
    <2>2. ASSUME NEW i \in DOMAIN list PROVE new[i].id = list[i].id /\ new[i].stream = list[i].stream
        <3>1. i + 0 = i
            BY <1>1
        <3> QED
            BY <1>2, <3>1 DEF ShiftedBy
    <2>3. \A i \in DOMAIN list : \A j \in 1 .. i - 1 : j \in DOMAIN list
        BY <1>1
    <2>4. \A only \in BOOLEAN : FirstIs(list, id, only) => FirstIs(new, id, only)
        BY <2>1, <2>2, <2>3 DEF FirstIs
    <2>5. Shifted(list, new, id)
        BY <1>2 DEF Shifted
    <2>6. none(list) => stream # Unnamed /\ none(new)
        BY <1>2, <2>1, <2>2
    <2> HIDE DEF none
    <2> QED
        BY <2>4, <2>5, <2>6 DEF none
<1>3. CASE /\ ShiftedBy(list, new, id, 1) /\ new[1].stream = stream
           /\ \A i \in DOMAIN list : ~(list[i].id = id /\ list[i].stream = stream)
    <2>1. Len(new) = Len(list) + 1 /\ 1 \in 1 .. 1 /\ 1 \in DOMAIN new
        BY <1>1, <1>3 DEF ShiftedBy
    <2>2. new[1].id = id
        BY <1>3, <2>1 DEF ShiftedBy
    <2>3. \A i \in DOMAIN list : new[i + 1].id = list[i].id /\ new[i + 1].stream = list[i].stream
        BY <1>3 DEF ShiftedBy
    <2>4. \A i \in DOMAIN new : i = 1 \/ (i - 1 \in DOMAIN list /\ (i - 1) + 1 = i)
        BY <1>1, <2>1
    <2>5. Shifted(list, new, id)
        BY <1>3 DEF Shifted
    <2>6. ASSUME NEW only \in BOOLEAN, FirstIs(list, id, only), only => stream \in {Unnamed} \cup ByDefault
          PROVE  FirstIs(new, id, only)
        <3>1. PICK i \in DOMAIN list :
                /\ list[i].id = id /\ list[i].stream = Unnamed
                /\ only => \A j \in 1 .. i - 1 : list[j].id = id => list[j].stream \in ByDefault
            BY <2>6 DEF FirstIs
        <3>2. stream # Unnamed
            BY <1>3, <3>1
        <3>3. i + 1 \in DOMAIN new /\ new[i + 1].id = id /\ new[i + 1].stream = Unnamed
            BY <1>1, <2>1, <2>3, <3>1
        <3>4. ASSUME only, NEW j \in 1 .. (i + 1) - 1, new[j].id = id PROVE new[j].stream \in ByDefault
            <4>1. j \in DOMAIN new /\ (j = 1 \/ j - 1 \in 1 .. i - 1)
                BY <1>1, <3>3
            <4>2. CASE j = 1
                BY <1>3, <2>6, <3>2, <3>4, <4>2
            <4>3. CASE j # 1
                <5>1. j - 1 \in 1 .. i - 1 /\ j - 1 \in DOMAIN list /\ (j - 1) + 1 = j
                    BY <2>4, <4>1, <4>3
                <5>2. new[j].id = list[j - 1].id /\ new[j].stream = list[j - 1].stream
                    BY <2>3, <5>1
                <5> QED
                    BY <3>1, <3>4, <5>1, <5>2
            <4> QED
                BY <4>2, <4>3
        <3> QED
            BY <3>3, <3>4 DEF FirstIs
    <2>7. ASSUME stream = Unnamed, NEW only \in BOOLEAN PROVE FirstIs(new, id, only)
        <3>1. \A j \in 1 .. 1 - 1 : FALSE
            OBVIOUS
        <3> QED
            BY <1>3, <2>1, <2>2, <2>7, <3>1 DEF FirstIs
    <2>8. ASSUME stream # Unnamed, none(list) PROVE none(new)
        <3> SUFFICES ASSUME NEW i \in DOMAIN new PROVE ~(new[i].id = id /\ new[i].stream = Unnamed)
            OBVIOUS
        <3>1. CASE i = 1
            BY <1>3, <2>8, <3>1
        <3>2. CASE i - 1 \in DOMAIN list /\ (i - 1) + 1 = i
            <4>1. new[i].id = list[i - 1].id /\ new[i].stream = list[i - 1].stream
                BY <2>3, <3>2
            <4> QED
                BY <2>8, <3>2, <4>1
        <3> QED
            BY <2>4, <3>1, <3>2
    <2> HIDE DEF none
    <2> QED
        BY <2>5, <2>6, <2>7, <2>8 DEF none
<1> QED
    BY <1>2, <1>3 DEF Placed

\* An attribute which is listed as the stream of its file's own name, and the
\* records which have one.
IsUnnamed(a) == a.kind = "data" /\ StreamName(Key(a)) = Unnamed
HasIndex(attrs) == \E j \in DOMAIN attrs : IsUnnamed(attrs[j])

LEMMA IndexUnnamed ==
    ASSUME NEW a, Key(a) = IndexRoot, IsAttribute(a)
    PROVE  IsUnnamed(a)
<1>1. a.kind = "data"
    <2>1. <<"name">> # IndexRoot
        <3>1. Len(<<"name">>) = 1 /\ Len(IndexRoot) = 2
            BY DEF IndexRoot
        <3> QED
            BY <3>1
    <2> QED
        BY <2>1 DEF IsAttribute, Key
<1> QED
    BY <1>1, StreamsAre DEF IsUnnamed, Unnamed

LEMMA AnalyzePlaces ==
    ASSUME NEW id \in Records, NEW s, Known(s, id), NEW a, Readable(a)
    PROVE  LET n == Analyze(id, s, a)
           IN IF a.kind = "data" THEN n.mfi = s.mfi /\ Placed(s.list, n.list, id, StreamName(Key(a)))
              ELSE n.mfi = UpdateName(s.mfi, a) /\ n.list = s.list
<1> DEFINE n == Analyze(id, s, a)
<1>1. s = [mfi |-> s.mfi, list |-> s.list] /\ IsFile(s.mfi, id) /\ Current(s.list, id)
    BY DEF Known
<1>2. s.mfi.id = id
    BY <1>1 DEF IsFile
<1>3. CASE a.kind = "data"
    <2>1. n = [mfi |-> s.mfi, list |-> AddPiece(s.list, id, a)]
        BY <1>1, <1>3 DEF Analyze
    <2>2. n.mfi = s.mfi /\ n.list = AddPiece(s.list, id, a)
        BY <2>1
    <2>3. LET new == AddPiece(s.list, id, a) IN Placed(s.list, new, id, StreamName(Key(a)))
        <3>1. Key(a) \in AllKeys
            BY <1>3 DEF Readable
        <3> QED
            BY <1>1, <1>3, <3>1, AddPieceIs, Zenon
    <2> HIDE DEF n
    <2> QED
        BY <1>3, <2>2, <2>3 DEF n
<1>4. CASE a.kind # "data"
    <2>1. a.kind = "name"
        BY <1>4 DEF Readable
    <2>2. n = [mfi |-> UpdateName(s.mfi, a), list |-> s.list]
        BY <1>1, <2>1 DEF Analyze
    <2>3. n.mfi = UpdateName(s.mfi, a) /\ n.list = s.list
        BY <2>2
    <2> HIDE DEF n
    <2> QED
        BY <1>4, <2>3 DEF n
<1> QED
    BY <1>3, <1>4

\* A stream with a name after the index.
Shadowing(a) == a.kind = "data" /\ StreamName(Key(a)) \notin {Unnamed} \cup ByDefault
Late(attrs) ==
    \E i, j \in DOMAIN attrs : i < j /\ IsUnnamed(attrs[i]) /\ Shadowing(attrs[j])
NoIndex(list, id) == \A i \in DOMAIN list : ~(list[i].id = id /\ list[i].stream = Unnamed)

\* The attributes of a base record: the index comes first, if nothing is late.
LEMMA IndexIs ==
    ASSUME NEW id \in Records, NEW s, Known(s, id), NoIndex(s.list, id),
           NEW attrs, IsAttributes(attrs), NEW only \in BOOLEAN, only => ~Late(attrs)
    PROVE  LET n == Analyzed(id, s, attrs)
           IN Shifted(s.list, n.list, id) /\ (HasIndex(attrs) => FirstIs(n.list, id, only))
<1> DEFINE N == Len(attrs)
           Met(m) == \E j \in 1 .. m : IsUnnamed(attrs[j])
<1>1. IsSequence(attrs) /\ N \in Nat /\ DOMAIN attrs = 1 .. N /\ \A n \in 1 .. N : IsAttribute(attrs[n])
    BY SequenceIs DEF IsAttributes
<1>2. PICK u : /\ u[0] = s /\ u[N] = Analyzed(id, s, attrs)
               /\ \A n \in 1 .. N : u[n] = Analyze(id, u[n - 1], attrs[n])
    BY <1>1, AnalyzedSteps
<1> DEFINE Holds(n) ==
            /\ Known(u[n], id) /\ Shifted(s.list, u[n].list, id)
            /\ IF Met(n) THEN FirstIs(u[n].list, id, only) ELSE NoIndex(u[n].list, id)
           T == {n \in 0 .. N : Holds(n)}
<1>3. 0 \in T
    <2>1. Shifted(s.list, s.list, id)
        BY NotShifted DEF Known, Current
    <2>2. ~Met(0)
        OBVIOUS
    <2> HIDE DEF Met
    <2>3. Holds(0)
        BY <1>2, <2>1, <2>2
    <2> HIDE DEF Holds
    <2> QED
        BY <1>1, <2>3
<1>4. ASSUME NEW m \in 0 .. N - 1, m \in T PROVE m + 1 \in T
    <2> DEFINE a == attrs[m + 1]
               st == StreamName(Key(a))
               x == u[m].list
               y == u[m + 1].list
    <2>1. m + 1 \in 1 .. N /\ m + 1 \in 0 .. N /\ (m + 1) - 1 = m
        BY <1>1
    <2>2. Holds(m) /\ Readable(a) /\ u[m + 1] = Analyze(id, u[m], a)
        BY <1>1, <1>2, <1>4, <2>1, AttributeReadable
    <2>3. Known(u[m], id) /\ Known(u[m + 1], id)
        BY <2>2, AnalyzeIs
    <2>4. IsFileList(s.list) /\ IsFileList(x) /\ IsFileList(y)
        BY <2>3 DEF Known, Current
    <2>5. Met(m + 1) <=> Met(m) \/ IsUnnamed(a)
        <3>1. \A j \in 1 .. m + 1 : j \in 1 .. m \/ j = m + 1
            BY <1>1
        <3>2. \A j \in 1 .. m : j \in 1 .. m + 1
            BY <1>1
        <3> QED
            BY <2>1, <3>1, <3>2
    <2>6. IsUnnamed(a) <=> a.kind = "data" /\ st = Unnamed
        BY DEF IsUnnamed
    <2>7. Met(m) /\ only /\ a.kind = "data" => st \in {Unnamed} \cup ByDefault
        <3>1. \A j \in 1 .. m : j < m + 1 /\ j \in DOMAIN attrs
            BY <1>1
        <3> QED
            BY <1>1, <2>1, <3>1 DEF Late, Shadowing
    <2> HIDE DEF Met, a, st
    <2>8. CASE a.kind = "data"
        <3>1. Placed(x, y, id, st)
            BY <2>2, <2>3, <2>8, AnalyzePlaces DEF st
        <3> HIDE DEF x, y
        <3>2. /\ Shifted(x, y, id)
              /\ \A b \in BOOLEAN : FirstIs(x, id, b) /\ (b => st \in {Unnamed} \cup ByDefault) =>
                    FirstIs(y, id, b)
              /\ NoIndex(x, id) => IF st = Unnamed THEN \A b \in BOOLEAN : FirstIs(y, id, b)
                                                         ELSE NoIndex(y, id)
            BY <2>4, <3>1, PlacedIs DEF NoIndex
        <3>3. Shifted(s.list, y, id)
            BY <2>2, <2>4, <3>2, ShiftedTwice DEF x
        <3>4. CASE Met(m)
            <4>1. FirstIs(x, id, only)
                BY <2>2, <3>4 DEF x
            <4>2. FirstIs(y, id, only)
                BY <2>7, <2>8, <3>2, <3>4, <4>1
            <4>3. Holds(m + 1)
                BY <2>3, <2>5, <3>3, <3>4, <4>2 DEF y
            <4> HIDE DEF Holds
            <4> QED
                BY <2>1, <4>3
        <3>5. CASE ~Met(m)
            <4>1. NoIndex(x, id)
                BY <2>2, <3>5 DEF x
            <4>2. IF Met(m + 1) THEN FirstIs(y, id, only) ELSE NoIndex(y, id)
                BY <2>5, <2>6, <2>8, <3>2, <3>5, <4>1
            <4>3. Holds(m + 1)
                BY <2>3, <3>3, <4>2 DEF y
            <4> HIDE DEF Holds
            <4> QED
                BY <2>1, <4>3
        <3> QED
            BY <3>4, <3>5
    <2>9. CASE a.kind # "data"
        <3>1. y = x
            BY <2>2, <2>3, <2>9, AnalyzePlaces
        <3>2. Met(m + 1) <=> Met(m)
            BY <2>5, <2>6, <2>9
        <3>3. Holds(m + 1)
            BY <2>2, <2>3, <3>1, <3>2
        <3> HIDE DEF Holds
        <3> QED
            BY <2>1, <3>3
    <2> QED
        BY <2>8, <2>9
<1> HIDE DEF T
<1>5. \A n \in 0 .. N : n \in T
    BY <1>1, <1>3, <1>4, UpTo
<1> HIDE DEF Holds
<1>6. Holds(N)
    BY <1>1, <1>5 DEF T
<1>7. HasIndex(attrs) => Met(N)
    BY <1>1 DEF HasIndex
<1> HIDE DEF Met
<1> QED
    BY <1>2, <1>6, <1>7 DEF Holds

-----------------------------------------------------------------------------
(* What the table says of the place of a file.                             *)

\* An untouched file has names, and what it lies in has an index, unless that
\* has been touched.
Named ==
    \A r \in Records \ touched : IsBase(r) =>
        /\ NamesOf(r) # {}
        /\ \A i \in NamesOf(r) :
            LET a == mft[r].attrs[i]
            IN /\ a.name # NoName /\ a.type \in Types
               /\ a.parent \notin touched => IsBase(a.parent) /\ HasIndex(mft[a.parent].attrs)

\* What is told of a file is right.
Properly(f, r) == ~Linked(r) => f.name \in ProperNames(r) /\ f.parent = ParentOf(r)

LEMMA NamesFacts ==
    ASSUME TableSound, Named, NEW r \in Records \ touched, IsBase(r)
    PROVE  /\ NamesOf(r) = NamesIn(mft[r].attrs) /\ NamesOf(r) # {} /\ NamesOf(r) \subseteq DOMAIN mft[r].attrs
           /\ Min(NamesOf(r)) \in NamesOf(r)
           /\ \A i \in NamesOf(r) :
                LET a == mft[r].attrs[i]
                IN a.parent \in Records /\ a.name # NoName /\ a.type \in Types
           /\ ParentOf(r) \in Records
           /\ ParentOf(r) \notin touched => IsBase(ParentOf(r)) /\ HasIndex(mft[ParentOf(r)].attrs)
<1> DEFINE attrs == mft[r].attrs
<1>1. IsAttributes(attrs)
    BY RecordFacts
<1>2. DOMAIN attrs = 1 .. Len(attrs) /\ Len(attrs) \in Nat /\ \A i \in DOMAIN attrs : IsAttribute(attrs[i])
    BY <1>1, SequenceIs DEF IsAttributes
<1>3. NamesOf(r) = NamesIn(attrs) /\ NamesOf(r) # {}
    BY DEF Named, NamesOf
<1> HIDE DEF attrs
<1>4. NamesOf(r) \subseteq DOMAIN attrs /\ NamesOf(r) \subseteq Nat
    BY <1>2, <1>3 DEF NamesIn
<1>5. Min(NamesOf(r)) \in NamesOf(r)
    BY <1>3, <1>4, MinIsLeast
<1>6. ASSUME NEW i \in NamesOf(r)
      PROVE  attrs[i].parent \in Records /\ attrs[i].name # NoName /\ attrs[i].type \in Types
    <2>1. attrs[i].kind = "name" /\ IsAttribute(attrs[i])
        BY <1>2, <1>3, <1>4 DEF NamesIn
    <2>2. attrs[i].parent \in Records
        BY <2>1 DEF IsAttribute, Data
    <2>3. attrs[i].name # NoName /\ attrs[i].type \in Types
        BY DEF Named, attrs
    <2> QED
        BY <2>2, <2>3
<1>7. ParentOf(r) = attrs[Min(NamesOf(r))].parent
    BY DEF ParentOf, attrs
<1>8. ParentOf(r) \notin touched => IsBase(ParentOf(r)) /\ HasIndex(mft[ParentOf(r)].attrs)
    BY <1>5, <1>7 DEF Named, attrs
<1> QED
    BY <1>3, <1>4, <1>5, <1>6, <1>7, <1>8 DEF attrs

LEMMA OneDirectory ==
    ASSUME TableSound, Named, NEW r \in Records \ touched, IsBase(r), ~Linked(r)
    PROVE  InOne(mft[r].attrs, r, ParentOf(r)) /\ ParentOf(r) \in Records
<1> DEFINE attrs == mft[r].attrs
<1>1. /\ NamesOf(r) = NamesIn(attrs) /\ Min(NamesOf(r)) \in NamesOf(r) /\ ParentOf(r) \in Records
      /\ \A i \in NamesOf(r) : attrs[i].name # NoName /\ attrs[i].type \in Types
    BY NamesFacts
<1>2. ParentOf(r) = attrs[Min(NamesOf(r))].parent
    BY DEF ParentOf
<1>3. \A i \in NamesOf(r) : attrs[i].parent = ParentOf(r)
    BY <1>1, <1>2 DEF Linked
<1>4. ParentOf(r) # r \/ r = Root
    BY DEF Linked
<1> HIDE DEF attrs
<1> QED
    BY <1>1, <1>3, <1>4 DEF InOne, attrs

LEMMA BestIsProper ==
    ASSUME TableSound, Named, NEW r \in Records \ touched, IsBase(r), NEW f, Best(f, mft[r].attrs, NamesOf(r))
    PROVE  f.name \in ProperNames(r)
<1> DEFINE attrs == mft[r].attrs
           names(type) == {attrs[i].name : i \in {j \in NamesOf(r) : attrs[j].type = type}}
           proper == names("win32") \cup names("posix")
<1>1. PICK i \in NamesOf(r) : /\ f.name = attrs[i].name /\ f.type = attrs[i].type
                              /\ f.type = "dos" => \A j \in NamesOf(r) : attrs[j].type = "dos"
    BY DEF Best
<1>2. attrs[i].type \in Types
    BY NamesFacts
<1>3. ProperNames(r) = IF proper = {} THEN names("dos") ELSE proper
    BY DEF ProperNames
<1> HIDE DEF attrs
<1>4. CASE f.type = "dos"
    <2>1. proper = {}
        BY <1>1, <1>4
    <2>2. f.name \in names("dos")
        BY <1>1, <1>4
    <2> QED
        BY <1>3, <2>1, <2>2
<1>5. CASE f.type # "dos"
    <2>1. f.name \in proper
        BY <1>1, <1>2, <1>5 DEF Types
    <2> QED
        BY <1>3, <2>1
<1> QED
    BY <1>4, <1>5

\* What the base record says of its file.
LEMMA BaseTells ==
    ASSUME TableSound, Named, NEW r \in Records, Above(filelist, r)
    PROVE  LET s == AnalyzeBase(r)
           IN /\ Shifted(filelist, s.list, r)
              /\ r \notin touched /\ IsBase(r) =>
                    /\ Properly(s.mfi, r)
                    /\ HasIndex(mft[r].attrs) => FirstIs(s.list, r, ~Shadowed(r))
<1> DEFINE f == [NoFile EXCEPT !.id = r]
           z == [mfi |-> f, list |-> filelist]
           attrs == mft[r].attrs
           own == Analyzed(r, z, attrs)
           s == AnalyzeBase(r)
           only == ~Shadowed(r)
<1>1. IsFile(f, r) /\ f.name = NoName
    BY RecordFacts DEF IsFile, NoFile
<1>2. Current(filelist, r)
    BY DEF Above, Current, IsFileList, IsItem, Records
<1>3. Known(z, r) /\ z.list = filelist /\ z.mfi.name = NoName
    <2> HIDE DEF f
    <2> QED
        BY <1>1, <1>2 DEF Known
<1>4. IsAttributes(attrs)
    BY RecordFacts
<1>5. NoIndex(filelist, r)
    BY DEF Above, NoIndex, IsFileList, IsItem, Records
<1>6. only \in BOOLEAN /\ (only => ~Late(attrs))
    <2>1. Late(attrs) => Shadowed(r)
        BY Zenon DEF Late, Shadowed, IsUnnamed, Shadowing, Unnamed
    <2> HIDE DEF attrs
    <2> QED
        BY <2>1
<1>7. IF mft[r].list = <<>> THEN s = own
      ELSE s = Analyze(r, own, Data(<<"list", "">>, 0, IF mft[r].resident THEN Resident ELSE <<r, mft[r].seq, "list">>))
    BY DEF AnalyzeBase
<1> HIDE DEF z, attrs, s, only, f
<1>8. Known(own, r)
    BY <1>3, <1>4, AnalyzedIs
<1>9. Shifted(filelist, own.list, r) /\ (HasIndex(attrs) => FirstIs(own.list, r, only))
    BY <1>3, <1>4, <1>5, <1>6, IndexIs
<1>10. ASSUME r \notin touched, IsBase(r) PROVE Properly(own.mfi, r)
    <2> SUFFICES ASSUME ~Linked(r) PROVE own.mfi.name \in ProperNames(r) /\ own.mfi.parent = ParentOf(r)
        BY DEF Properly
    <2>1. InOne(attrs, r, ParentOf(r)) /\ ParentOf(r) \in Records
        BY <1>10, OneDirectory DEF attrs
    <2>2. NamesIn(attrs) = NamesOf(r) /\ NamesIn(attrs) # {}
        BY <1>10, NamesFacts DEF attrs
    <2>3. own.mfi.parent = ParentOf(r) /\ Best(own.mfi, attrs, NamesIn(attrs))
        BY <1>3, <1>4, <2>1, <2>2, NamesAre
    <2> HIDE DEF own
    <2>4. own.mfi.name \in ProperNames(r)
        BY <1>10, <2>2, <2>3, BestIsProper DEF attrs
    <2> QED
        BY <2>3, <2>4
<1> HIDE DEF own
<1>11. CASE mft[r].list = <<>>
    <2>1. s = own
        BY <1>7, <1>11
    <2> QED
        BY <1>9, <1>10, <2>1 DEF s, attrs, only
<1>12. CASE mft[r].list # <<>>
    <2> DEFINE place == IF mft[r].resident THEN Resident ELSE <<r, mft[r].seq, "list">>
               a == Data(<<"list", "">>, 0, place)
               st == StreamName(Key(a))
    <2>1. s = Analyze(r, own, a)
        BY <1>7, <1>12
    <2>2. Readable(a) /\ a.kind = "data" /\ st \in ByDefault
        <3>1. a.kind = "data" /\ Key(a) = <<"list", "">>
            <4> HIDE DEF place
            <4> QED
                BY ListAttributeIs
        <3> HIDE DEF a
        <3> QED
            BY <3>1, StreamsAre DEF Readable, AllKeys, ByDefault
    <2> HIDE DEF a
    <2>3. s.mfi = own.mfi /\ Placed(own.list, s.list, r, st)
        BY <1>8, <2>1, <2>2, AnalyzePlaces
    <2>4. Known(s, r)
        BY <1>8, <2>1, <2>2, AnalyzeIs
    <2>5. IsFileList(filelist) /\ IsFileList(own.list) /\ IsFileList(s.list)
        BY <1>8, <2>4 DEF Above, Known, Current
    <2>6. /\ Shifted(own.list, s.list, r)
          /\ FirstIs(own.list, r, only) => FirstIs(s.list, r, only)
        BY <1>6, <2>2, <2>3, <2>5, PlacedIs
    <2>7. Shifted(filelist, s.list, r)
        BY <1>9, <2>5, <2>6, ShiftedTwice
    <2>8. r \notin touched /\ IsBase(r) => Properly(s.mfi, r)
        BY <1>10, <2>3
    <2> QED
        BY <1>9, <2>6, <2>7, <2>8 DEF s, attrs, only
<1> QED
    BY <1>11, <1>12

-----------------------------------------------------------------------------
(* What is known of the place of the files which have been read.           *)

Headed(list, r) == HasIndex(mft[r].attrs) => FirstIs(list, r, ~Shadowed(r))
Ready(list, r) ==
    /\ \A i \in DOMAIN list : list[i].id = r => Properly(list[i], r)
    /\ Headed(list, r)

\* The file which is read, and those which have been.
Learning ==
    Reading /\ ~stopped /\ mfi.id \notin touched \cup unread =>
        Properly(mfi, mfi.id) /\ Headed(filelist, mfi.id)
Learned ==
    (Scanning \/ Building) /\ (~stopped \/ pc = "walk") =>
        \A r \in Records \ (touched \cup unread) : Passed(r) /\ IsBase(r) => Ready(filelist, r)

LEMMA FileSame ==
    ASSUME NEW r, mft'[r] = mft[r]
    PROVE  /\ NamesOf(r)' = NamesOf(r) /\ (IsBase(r)' <=> IsBase(r)) /\ ParentOf(r)' = ParentOf(r)
           /\ ProperNames(r)' = ProperNames(r) /\ (Linked(r)' <=> Linked(r)) /\ (Shadowed(r)' <=> Shadowed(r))
<1>1. NamesOf(r)' = NamesOf(r) /\ (IsBase(r)' <=> IsBase(r))
    BY DEF NamesOf, IsBase
<1>2. ParentOf(r)' = ParentOf(r)
    BY <1>1 DEF ParentOf
<1>3. ProperNames(r)' = ProperNames(r)
    BY <1>1 DEF ProperNames
<1>4. Linked(r)' <=> Linked(r)
    BY <1>1, <1>2 DEF Linked
<1>5. Shadowed(r)' <=> Shadowed(r)
    BY Zenon DEF Shadowed
<1> QED
    BY <1>1, <1>2, <1>3, <1>4, <1>5

LEMMA HeadedKept ==
    ASSUME NEW r, mft'[r] = mft[r], NEW list, NEW new, Headed(list, r),
           \A only \in BOOLEAN : (only => ~Shadowed(r)) /\ FirstIs(list, r, only) => FirstIs(new, r, only)
    PROVE  Headed(new, r)'
<1>1. Shadowed(r)' <=> Shadowed(r)
    BY FileSame
<1>2. HasIndex(mft[r].attrs)' <=> HasIndex(mft[r].attrs)
    OBVIOUS
<1>3. ASSUME HasIndex(mft[r].attrs) PROVE FirstIs(new, r, ~Shadowed(r))'
    <2>1. CASE Shadowed(r)
        <3>1. FirstIs(list, r, FALSE)
            BY <1>3, <2>1 DEF Headed, FirstIs
        <3>2. FirstIs(new, r, FALSE)
            BY <3>1
        <3> QED
            BY <1>1, <2>1, <3>2 DEF FirstIs
    <2>2. CASE ~Shadowed(r)
        <3>1. FirstIs(list, r, TRUE)
            BY <1>3, <2>2 DEF Headed, FirstIs
        <3>2. FirstIs(new, r, TRUE)
            BY <2>2, <3>1
        <3> QED
            BY <1>1, <2>2, <3>2 DEF FirstIs
    <2> QED
        BY <2>1, <2>2
<1> QED
    BY <1>2, <1>3 DEF Headed

LEMMA ReadyKept ==
    ASSUME NEW r, mft'[r] = mft[r], NEW list, NEW new, Ready(list, r),
           \A j \in DOMAIN new : new[j].id = r =>
                \E i \in DOMAIN list :
                    list[i].id = r /\ new[j].name = list[i].name /\ new[j].parent = list[i].parent,
           \A only \in BOOLEAN : FirstIs(list, r, only) => FirstIs(new, r, only)
    PROVE  Ready(new, r)'
<1>1. /\ ProperNames(r)' = ProperNames(r) /\ (Linked(r)' <=> Linked(r)) /\ ParentOf(r)' = ParentOf(r)
    BY FileSame
<1>2. \A j \in DOMAIN new : new[j].id = r => Properly(new[j], r)'
    BY <1>1 DEF Ready, Properly
<1>3. Headed(new, r)'
    BY HeadedKept DEF Ready
<1> QED
    BY <1>2, <1>3 DEF Ready

\* The index of a file stays the first one, and so does what is told of it,
\* when the list changes like this.
LEMMA ShiftedReady ==
    ASSUME NEW list, NEW new, IsFileList(list), IsFileList(new), NEW id, Shifted(list, new, id),
           NEW r, r # id, mft'[r] = mft[r], Ready(list, r)
    PROVE  Ready(new, r)'
<1>1. /\ \A only \in BOOLEAN : FirstIs(list, r, only) => FirstIs(new, r, only)
      /\ \A j \in DOMAIN new : new[j].id = r => \E i \in DOMAIN list : new[j] = list[i]
    BY ShiftedIs
<1>2. \A j \in DOMAIN new : new[j].id = r =>
            \E i \in DOMAIN list :
                list[i].id = r /\ new[j].name = list[i].name /\ new[j].parent = list[i].parent
    BY <1>1
<1> QED
    BY <1>1, <1>2, ReadyKept

LEMMA SameReady ==
    ASSUME NEW r, mft'[r] = mft[r], NEW list, Ready(list, r)
    PROVE  Ready(list, r)'
BY ReadyKept

-----------------------------------------------------------------------------
(* The paths.                                                              *)

\* Directories which lie in each other, up to the root, all of them left alone.
Home(S) == \A r \in S : IsBase(r) /\ Settled(r) /\ ~Linked(r) /\ ParentOf(r) \in S
Trusted(r) == \E S \in SUBSET Records : r \in S /\ Home(S)

\* A way down to a file, which begins below a directory up.
Route(s, r) ==
    /\ IsSequence(s) /\ Len(s) > 0 /\ s[Len(s)] = r
    /\ \A i \in 1 .. Len(s) : s[i] \in Records
    /\ \A i \in 2 .. Len(s) : s[i - 1] = ParentOf(s[i]) /\ s[i - 1] # Root

\* The path p names it, unless it is too long or the names are those of
\* streams.
Shows(p, s, stream) ==
    Len(s) <= MaxPath /\ (\A i \in 1 .. Len(s) - 1 : ~Shadowed(s[i])) =>
        /\ Len(p) = Len(s)
        /\ \A n \in 1 .. Len(s) :
            p[n] \in ProperNames(s[n]) \X {IF n = Len(s) THEN stream ELSE Unnamed}
Leads(p, r, stream, up) == \E s : Route(s, r) /\ ParentOf(s[1]) = up /\ Shows(p, s, stream)

\* The path which is being built, and those which have been.
Walked ==
    pc = "walk" /\ Trusted(filelist[at].id) =>
        Leads(child, filelist[at].id, filelist[at].stream, IF full THEN Root ELSE parent)
Truthful ==
    \A i \in DOMAIN filelist :
        /\ filelist[i].path # NoPath /\ Trusted(filelist[i].id) =>
                Leads(filelist[i].path, filelist[i].id, filelist[i].stream, Root)
        /\ pc = "done" => filelist[i].path # NoPath

PathInv == Named /\ Learning /\ Learned /\ Walked /\ Truthful

LEMMA PlaceSame ==
    ASSUME UNCHANGED <<mft, touched, unread>>
    PROVE  /\ \A r : Trusted(r)' <=> Trusted(r)
           /\ \A p, r, stream, up : Leads(p, r, stream, up)' <=> Leads(p, r, stream, up)
<1>1. \A r : /\ (IsBase(r)' <=> IsBase(r)) /\ ParentOf(r)' = ParentOf(r)
             /\ ProperNames(r)' = ProperNames(r) /\ (Linked(r)' <=> Linked(r)) /\ (Shadowed(r)' <=> Shadowed(r))
    BY FileSame
<1>2. \A r : Settled(r)' <=> Settled(r)
    BY DEF Settled, ChildrenOf
<1>3. \A S : Home(S)' <=> Home(S)
    BY <1>1, <1>2 DEF Home
<1>4. \A s, r : Route(s, r)' <=> Route(s, r)
    BY <1>1 DEF Route
<1>5. \A p, s, stream : Shows(p, s, stream)' <=> Shows(p, s, stream)
    BY <1>1 DEF Shows
<1>6. \A p, r, stream, up : Leads(p, r, stream, up)' <=> Leads(p, r, stream, up)
    BY <1>1, <1>4, <1>5 DEF Leads
<1>7. \A r : Trusted(r)' <=> Trusted(r)
    BY <1>3 DEF Trusted
<1> QED
    BY <1>6, <1>7

LEMMA NamedSame ==
    ASSUME UNCHANGED <<mft, touched>>, Named
    PROVE  Named'
<1>1. \A r : NamesOf(r)' = NamesOf(r) /\ (IsBase(r)' <=> IsBase(r))
    BY FileSame
<1> QED
    BY <1>1 DEF Named

LEMMA PathInit ==
    ASSUME Init
    PROVE  PathInv
<1>1. PICK t \in Tables : mft = t
    BY DEF Init
<1>2. touched = {} /\ pc = "scan" /\ filelist = <<>> /\ mft_id = LastRecord
    BY DEF Init
<1>3. TableSound
    BY InitIs DEF Inv
<1>4. ASSUME NEW r \in Records, IsBase(r)
      PROVE  /\ NamesOf(r) # {}
             /\ \A i \in NamesOf(r) :
                    LET a == mft[r].attrs[i]
                    IN /\ a.name # NoName /\ a.type \in Types
                       /\ IsBase(a.parent) /\ HasIndex(mft[a.parent].attrs)
    <2>1. mft[r].used /\ mft[r].base = None
        BY <1>4 DEF IsBase
    <2>2. /\ NamesIn(mft[r].attrs) # {}
          /\ \A i \in NamesIn(mft[r].attrs) :
                LET a == mft[r].attrs[i]
                    dir == mft[a.parent]
                IN /\ a.name # NoName /\ a.type \in {"dos", "win32", "posix"}
                   /\ dir.used /\ dir.base = None
                   /\ \E j \in DOMAIN dir.attrs : Key(dir.attrs[j]) = IndexRoot
        BY <1>1, <2>1, NamesAssumption, Zenon
    <2>3. ASSUME NEW p \in Records, \E j \in DOMAIN mft[p].attrs : Key(mft[p].attrs[j]) = IndexRoot
          PROVE  HasIndex(mft[p].attrs)
        <3>1. \A j \in DOMAIN mft[p].attrs : IsAttribute(mft[p].attrs[j])
            BY <1>3, RecordFacts DEF IsAttributes
        <3> QED
            BY <2>3, <3>1, IndexUnnamed DEF HasIndex
    <2>4. ASSUME NEW i \in NamesIn(mft[r].attrs) PROVE mft[r].attrs[i].parent \in Records
        <3>1. IsAttribute(mft[r].attrs[i]) /\ mft[r].attrs[i].kind = "name"
            BY <1>3, RecordFacts DEF IsAttributes, NamesIn
        <3> QED
            BY <3>1 DEF IsAttribute
    <2> QED
        BY <2>2, <2>3, <2>4, Zenon DEF NamesOf, IsBase, Types
<1>5. Named
    BY <1>2, <1>4 DEF Named
<1>6. Learning
    BY <1>2 DEF Learning, Reading
<1>7. Learned
    <2>1. \A r \in Records : ~Passed(r)
        BY <1>2, MftAssumption DEF Passed, Records
    <2> QED
        BY <2>1 DEF Learned
<1>8. Walked /\ Truthful
    <2>1. DOMAIN filelist = {}
        BY <1>2
    <2> QED
        BY <1>2, <2>1 DEF Walked, Truthful
<1> QED
    BY <1>5, <1>6, <1>7, <1>8 DEF PathInv

-----------------------------------------------------------------------------
(* The steps of the scan.                                                  *)

LEMMA OthersKeepPaths ==
    ASSUME Inv, Inv', PathInv, OthersWork
    PROVE  PathInv'
<1>1. /\ TableSound /\ Others /\ Scanning
      /\ UNCHANGED <<mft_id, mfi, entries, filelist, at, child, parent, full, result, unread, stopped, pc>>
    BY DEF Inv, OthersWork, file, path, Scanning, Reading
<1>2. PICK S : touched' = touched \cup S /\ Disturbed(mft, mft', S)
    BY <1>1, OthersDisturb
<1>3. \A r \in Records \ touched' : r \in Records \ touched /\ mft'[r] = mft[r]
    BY <1>1, <1>2, TableKept DEF Stays
<1>4. \A r \in Records \ touched' :
        NamesOf(r)' = NamesOf(r) /\ (IsBase(r)' <=> IsBase(r)) /\ ParentOf(r)' = ParentOf(r)
        /\ ProperNames(r)' = ProperNames(r) /\ (Linked(r)' <=> Linked(r))
    BY <1>3, FileSame
<1>5. Named'
    <2>1. \A p \in Records \ touched' :
            IsBase(p) /\ HasIndex(mft[p].attrs) => IsBase(p)' /\ HasIndex(mft'[p].attrs)
        BY <1>3, <1>4
    <2>2. ASSUME NEW r \in Records \ touched', IsBase(r), NEW i \in NamesOf(r)
          PROVE  LET a == mft[r].attrs[i]
                 IN /\ a.name # NoName /\ a.type \in Types /\ a.parent \in Records
                    /\ a.parent \notin touched' => IsBase(a.parent) /\ HasIndex(mft[a.parent].attrs)
        <3>1. r \in Records \ touched
            BY <1>3
        <3>2. mft[r].attrs[i].parent \in Records
            BY <1>1, <2>2, <3>1, NamesFacts DEF PathInv
        <3>3. \A p : p \notin touched' => p \notin touched
            BY <1>2
        <3> QED
            BY <2>2, <3>1, <3>2, <3>3 DEF PathInv, Named
    <2> SUFFICES ASSUME NEW r \in Records \ touched', IsBase(r)'
                 PROVE  /\ NamesOf(r)' # {}
                        /\ \A i \in NamesOf(r)' :
                            /\ mft'[r].attrs[i].name # NoName /\ mft'[r].attrs[i].type \in Types
                            /\ mft'[r].attrs[i].parent \notin touched' =>
                                    IsBase(mft[r].attrs[i].parent)' /\ HasIndex(mft[mft[r].attrs[i].parent].attrs)'
        BY DEF Named
    <2>3. IsBase(r) /\ mft'[r] = mft[r] /\ NamesOf(r)' = NamesOf(r) /\ r \in Records \ touched
        BY <1>3, <1>4
    <2>4. NamesOf(r) # {}
        BY <2>3 DEF PathInv, Named
    <2> QED
        BY <2>1, <2>2, <2>3, <2>4
<1>6. Learning'
    <2> DEFINE r == mfi.id
    <2> SUFFICES ASSUME Reading', ~stopped', mfi'.id \notin touched' \cup unread'
                 PROVE  Properly(mfi, r)' /\ Headed(filelist, r)'
        BY <1>1 DEF Learning
    <2>1. Reading /\ ~stopped /\ r \notin unread /\ r \notin touched' /\ r \in Records
        BY <1>1 DEF Reading, Inv, Found
    <2>2. r \in Records \ touched' /\ r \notin touched /\ mft'[r] = mft[r]
        BY <1>3, <2>1
    <2>3. Properly(mfi, r) /\ Headed(filelist, r)
        BY <2>1, <2>2 DEF PathInv, Learning
    <2>4. mfi' = mfi /\ filelist' = filelist /\ r' = r
        BY <1>1
    <2> HIDE DEF r
    <2>5. /\ ProperNames(r)' = ProperNames(r) /\ (Linked(r)' <=> Linked(r)) /\ ParentOf(r)' = ParentOf(r)
        BY <1>4, <2>2, <2>4
    <2>6. Properly(mfi, r)'
        BY <2>3, <2>4, <2>5 DEF Properly
    <2>7. Headed(filelist, r)'
        BY <2>2, <2>3, <2>4, HeadedKept
    <2> QED
        BY <2>6, <2>7
<1>7. Learned'
    <2> SUFFICES ASSUME ~stopped \/ pc = "walk", NEW r \in Records \ (touched' \cup unread'), Passed(r)', IsBase(r)'
                 PROVE  Ready(filelist, r)'
        BY <1>1 DEF Learned
    <2>1. Passed(r) /\ r \in Records \ (touched \cup unread) /\ IsBase(r) /\ mft'[r] = mft[r]
        BY <1>1, <1>3, <1>4 DEF Passed, Reading
    <2>2. Ready(filelist, r)
        BY <1>1, <2>1 DEF PathInv, Learned
    <2> QED
        BY <1>1, <2>1, <2>2, SameReady
<1>8. Walked' /\ Truthful'
    <2>1. \A i \in DOMAIN filelist : filelist[i].path = NoPath
        BY <1>1 DEF Inv, Found, Above, Current, Scanning
    <2>2. pc' # "walk" /\ pc' # "done"
        BY <1>1 DEF Scanning, Reading
    <2> QED
        BY <1>1, <2>1, <2>2 DEF Walked, Truthful
<1> QED
    BY <1>5, <1>6, <1>7, <1>8 DEF PathInv

LEMMA StopKeepsPaths ==
    ASSUME Inv, Inv', PathInv, Stop
    PROVE  PathInv'
<1>1. /\ stopped' = TRUE
      /\ UNCHANGED <<mft, touched, mft_id, mfi, entries, filelist, at, child, parent, full, result, unread, pc>>
    BY DEF Stop, table, file, path
<1>2. Named'
    BY <1>1, NamedSame DEF PathInv
<1>3. Learning'
    BY <1>1 DEF Learning
<1>4. Learned'
    <2> SUFFICES ASSUME pc = "walk", NEW r \in Records \ (touched \cup unread), Passed(r)', IsBase(r)'
                 PROVE  Ready(filelist, r)'
        BY <1>1 DEF Learned
    <2>1. Passed(r) /\ IsBase(r) /\ Building
        BY <1>1, FileSame DEF Passed, Reading, Building
    <2>2. Ready(filelist, r)
        BY <2>1 DEF PathInv, Learned
    <2> QED
        BY <1>1, <2>2, SameReady
<1>5. Walked' /\ Truthful'
    BY <1>1, PlaceSame DEF PathInv, Walked, Truthful
<1> QED
    BY <1>2, <1>3, <1>4, <1>5 DEF PathInv

\* Nobody has a path before the paths are built.
LEMMA NoPathYet ==
    ASSUME \A i \in DOMAIN filelist' : filelist'[i].path = NoPath, pc' # "walk", pc' # "done"
    PROVE  Walked' /\ Truthful'
BY DEF Walked, Truthful

LEMMA SkipChildKeepsPaths ==
    ASSUME Inv, Inv', PathInv, SkipChild
    PROVE  PathInv'
<1> DEFINE r == Returned(mft_id)
<1>1. /\ pc = "scan" /\ ~stopped /\ mft[r].base # None /\ GoOn(r)
      /\ UNCHANGED <<mft, touched, mfi, entries, filelist, at, child, parent, full, result, unread, stopped>>
    BY DEF SkipChild, table, file, path
<1>2. TableSound /\ mft_id \in Records /\ Above(filelist, mft_id)
    BY <1>1 DEF Inv, Sound, Found
<1>3. /\ r \in Records /\ r <= mft_id /\ mft[r].used
      /\ \A x \in Records : r < x /\ x <= mft_id => ~mft[x].used
    BY <1>2, ReturnedIs
<1> HIDE DEF r
<1>4. \/ pc' = "paths" /\ mft_id' = mft_id /\ r = 0
      \/ pc' = "scan" /\ mft_id' = r - 1 /\ mft_id' \in Records /\ mft_id' < mft_id + 1
    BY <1>1, <1>2, <1>3, GoOnIs
<1>5. Named'
    BY <1>1, NamedSame DEF PathInv
<1>6. Learning'
    BY <1>4 DEF Learning, Reading
<1>7. Learned'
    <2> SUFFICES ASSUME NEW x \in Records \ (touched \cup unread), Passed(x)', IsBase(x)'
                 PROVE  Ready(filelist, x)'
        BY <1>1 DEF Learned
    <2>1. IsBase(x)
        BY <1>1, FileSame
    <2>2. x # r /\ mft[x].used
        BY <1>1, <2>1 DEF IsBase
    <2>3. r <= x
        <3>1. x \in Nat /\ r \in Nat
            BY <1>3 DEF Records
        <3> QED
            BY <1>4, <3>1 DEF Passed
    <2>4. mft_id < x
        BY <1>2, <1>3, <2>2, <2>3 DEF Records
    <2>5. Passed(x) /\ Scanning
        BY <1>1, <2>4 DEF Passed, Reading, Scanning
    <2>6. Ready(filelist, x)
        BY <1>1, <2>1, <2>5 DEF PathInv, Learned
    <2> QED
        BY <1>1, <2>6, SameReady
<1>8. Walked' /\ Truthful'
    <2>1. \A i \in DOMAIN filelist' : filelist'[i].path = NoPath
        BY <1>1, <1>2 DEF Above
    <2> QED
        BY <1>4, <2>1, NoPathYet
<1> QED
    BY <1>5, <1>6, <1>7, <1>8 DEF PathInv

LEMMA ReadBaseKeepsPaths ==
    ASSUME Inv, Inv', PathInv, ReadBase
    PROVE  PathInv'
<1>1. TableSound /\ Named /\ mft_id \in Records /\ Above(filelist, mft_id)
    BY DEF Inv, PathInv, Sound, Found, ReadBase
<1>2. PICK r \in Records :
            /\ r = Returned(mft_id) /\ r <= mft_id /\ mft[r].used
            /\ \A x \in Records : r < x /\ x <= mft_id => ~mft[x].used
    BY <1>1, ReturnedIs
<1> DEFINE s == AnalyzeBase(r)
<1>3. /\ pc = "scan" /\ ~stopped /\ mft[r].base = None
      /\ mfi' = s.mfi /\ filelist' = s.list
      /\ pc' = "children" \/ pc' = "list"
      /\ UNCHANGED <<mft, touched, mft_id, at, child, parent, full, result, unread, stopped>>
    BY <1>2 DEF ReadBase, table, path
<1>4. Above(filelist, r)
    BY <1>1, <1>2 DEF Above, IsFileList, IsItem, Records
<1>5. Known(s, r)
    BY <1>1, <1>2, <1>4, AnalyzeBaseIs
<1>6. /\ Shifted(filelist, s.list, r)
      /\ r \notin touched /\ IsBase(r) => Properly(s.mfi, r) /\ Headed(s.list, r)
    BY <1>1, <1>2, <1>4, BaseTells DEF Headed
<1> HIDE DEF s
<1>7. mfi'.id = r /\ IsFileList(filelist) /\ IsFileList(filelist')
    BY <1>3, <1>4, <1>5 DEF Above, Known, IsFile, Current
<1>8. Reading' /\ pc' # "walk" /\ pc' # "done"
    BY <1>3 DEF Reading
<1>9. Named'
    BY <1>3, NamedSame DEF PathInv
<1>10. Learning'
    <2> SUFFICES ASSUME r \notin touched \cup unread
                 PROVE  Properly(mfi, r)' /\ Headed(filelist, r)'
        BY <1>3, <1>7 DEF Learning
    <2>1. IsBase(r)
        BY <1>3, <1>2 DEF IsBase
    <2>2. Properly(mfi', r) /\ Headed(filelist', r)
        BY <1>3, <1>6, <2>1
    <2>3. /\ ProperNames(r)' = ProperNames(r) /\ (Linked(r)' <=> Linked(r)) /\ ParentOf(r)' = ParentOf(r)
        BY <1>3, FileSame
    <2> QED
        BY <1>3, <2>2, <2>3, HeadedKept DEF Properly
<1>11. Learned'
    <2> SUFFICES ASSUME NEW x \in Records \ (touched \cup unread), Passed(x)', IsBase(x)'
                 PROVE  Ready(filelist, x)'
        BY <1>3 DEF Learned
    <2>1. r < x /\ mft[x].used /\ IsBase(x)
        BY <1>3, <1>7, <1>8 DEF Passed, IsBase
    <2>2. mft_id < x /\ x # r
        BY <1>1, <1>2, <2>1 DEF Records
    <2>3. Passed(x) /\ Scanning
        BY <1>3, <2>2 DEF Passed, Reading, Scanning
    <2>4. Ready(filelist, x)
        BY <1>3, <2>1, <2>3 DEF PathInv, Learned
    <2> QED
        BY <1>3, <1>6, <1>7, <2>2, <2>4, ShiftedReady
<1>12. Walked' /\ Truthful'
    <2>1. \A i \in DOMAIN filelist' : filelist'[i].path = NoPath
        BY <1>3, <1>5 DEF Known, Current
    <2> QED
        BY <1>8, <2>1, NoPathYet
<1> QED
    BY <1>9, <1>10, <1>11, <1>12 DEF PathInv

LEMMA ReadListKeepsPaths ==
    ASSUME Inv, Inv', PathInv, ReadList
    PROVE  PathInv'
<1>1. /\ pc = "list" /\ pc' = "children" /\ Reading /\ Reading'
      /\ UNCHANGED <<mft, touched, mft_id, mfi, filelist, at, child, parent, full, result, unread, stopped>>
    BY DEF ReadList, table, path, Reading
<1>2. Named'
    BY <1>1, NamedSame DEF PathInv
<1>3. \A r : Headed(filelist, r) => Headed(filelist, r)'
    BY <1>1, HeadedKept
<1>4. Learning'
    <2>1. \A r : ProperNames(r)' = ProperNames(r) /\ (Linked(r)' <=> Linked(r)) /\ ParentOf(r)' = ParentOf(r)
        BY <1>1, FileSame
    <2> QED
        BY <1>1, <1>3, <2>1 DEF PathInv, Learning, Properly
<1>5. Learned'
    <2> SUFFICES ASSUME NEW x \in Records \ (touched \cup unread), ~stopped, Passed(x)', IsBase(x)'
                 PROVE  Ready(filelist, x)'
        BY <1>1 DEF Learned
    <2>1. Passed(x) /\ IsBase(x) /\ Scanning
        BY <1>1, FileSame DEF Passed, Reading, Scanning
    <2>2. Ready(filelist, x)
        BY <2>1 DEF PathInv, Learned
    <2> QED
        BY <1>1, <2>2, SameReady
<1>6. Walked' /\ Truthful'
    <2>1. \A i \in DOMAIN filelist' : filelist'[i].path = NoPath
        BY <1>1 DEF Inv, Found, Current
    <2> QED
        BY <1>1, <2>1, NoPathYet
<1> QED
    BY <1>2, <1>4, <1>5, <1>6 DEF PathInv

\* The attribute which is met through the attribute list.
LEMMA ChildMet ==
    ASSUME Inv, Reading, entries # <<>>
    PROVE  LET e == Head(entries)
               a == mft[e.id].attrs[Min(Accepted(e))]
           IN /\ Accepted(e) # {} => IsAttribute(a) /\ Key(a) = e.key
              /\ ~stopped /\ mfi.id \notin touched \cup unread =>
                    /\ e.key \in Keys
                    /\ \E n \in DOMAIN mft[mfi.id].list : mft[mfi.id].list[n] = e
<1> DEFINE e == Head(entries)
           attrs == mft[e.id].attrs
<1>1. TableSound /\ IsList(entries) /\ mfi.id \in Records
    BY DEF Inv, Found
<1>2. /\ Len(entries) \in Nat /\ Len(entries) > 0 /\ e = entries[1] /\ DOMAIN entries = 1 .. Len(entries)
    BY <1>1, TailIs, SequenceIs DEF IsList
<1>3. e.id \in Records
    BY <1>1, <1>2 DEF IsList
<1> HIDE DEF e
<1>4. ASSUME Accepted(e) # {}
      PROVE  IsAttribute(attrs[Min(Accepted(e))]) /\ Key(attrs[Min(Accepted(e))]) = e.key
    <2>1. IsAttributes(attrs)
        BY <1>1, <1>3, RecordFacts
    <2>2. DOMAIN attrs = 1 .. Len(attrs) /\ Len(attrs) \in Nat
        BY <2>1, SequenceIs DEF IsAttributes
    <2>3. \A i \in Accepted(e) : i \in DOMAIN attrs /\ Key(attrs[i]) = e.key
        BY DEF Accepted
    <2> HIDE DEF attrs
    <2>4. Accepted(e) \subseteq Nat
        BY <2>2, <2>3
    <2>5. Min(Accepted(e)) \in Accepted(e)
        BY <1>4, <2>4, MinIsLeast
    <2> QED
        BY <2>1, <2>3, <2>5 DEF IsAttributes
<1>5. ASSUME ~stopped, mfi.id \notin touched \cup unread
      PROVE  /\ e.key \in Keys
             /\ \E n \in DOMAIN mft[mfi.id].list : mft[mfi.id].list[n] = e
    <2> DEFINE list == mft[mfi.id].list
               k == Len(list) - Len(entries)
    <2>1. /\ IsBase(mfi.id) /\ k \in Nat
          /\ \A i \in DOMAIN entries : entries[i] = list[k + i]
        BY <1>5 DEF Inv, Underway, Matches
    <2>2. Len(list) \in Nat /\ DOMAIN list = 1 .. Len(list)
        BY <1>1, RecordFacts, SequenceIs DEF IsList
    <2>3. k + 1 \in DOMAIN list
        <3> HIDE DEF list
        <3> QED
            BY <1>2, <2>1, <2>2
    <2>4. list[k + 1] = e
        BY <1>2, <2>1
    <2>5. \A i \in DOMAIN list : list[i].key \in Keys
        <3>1. Right(mft, mfi.id)
            BY <1>1, <1>5, <2>1 DEF TableSound
        <3> QED
            BY <3>1 DEF Right
    <2> HIDE DEF list, k
    <2>6. e.key \in Keys
        BY <2>3, <2>4, <2>5
    <2> QED
        BY <2>3, <2>4, <2>6 DEF list
<1> QED
    BY <1>4, <1>5 DEF e

LEMMA ReadChildKeepsPaths ==
    ASSUME Inv, Inv', PathInv, ReadChild
    PROVE  PathInv'
<1>1. PICK r \in Records : r = mfi.id
    BY DEF ReadChild, Inv, Found, Reading
<1> DEFINE e == Head(entries)
           a == mft[e.id].attrs[Min(Accepted(e))]
           z == [mfi |-> mfi, list |-> filelist]
           s == Analyze(r, z, a)
<1>2. /\ pc = "children" /\ Reading /\ Reading' /\ ~stopped /\ entries # <<>>
      /\ Accepted(e) = {} => mfi' = mfi /\ filelist' = filelist
      /\ Accepted(e) # {} => mfi' = s.mfi /\ filelist' = s.list
      /\ UNCHANGED <<mft, touched, mft_id, at, child, parent, full, result, unread, stopped, pc>>
    BY <1>1 DEF ReadChild, table, path, Reading
<1>3. TableSound /\ IsFile(mfi, r) /\ Current(filelist, r)
    BY <1>1, <1>2 DEF Inv, Found
<1>4. /\ Accepted(e) # {} => IsAttribute(a) /\ Key(a) = e.key
      /\ r \notin touched \cup unread =>
            /\ e.key \in Keys
            /\ \E n \in DOMAIN mft[r].list : mft[r].list[n] = e
    BY <1>1, <1>2, ChildMet
<1>5. Known(z, r) /\ z.mfi = mfi /\ z.list = filelist
    BY <1>3 DEF Known
<1> HIDE DEF e, a, z
<1>6. ASSUME Accepted(e) # {}
      PROVE  /\ Known(s, r)
             /\ IF a.kind = "data" THEN s.mfi = mfi /\ Placed(filelist, s.list, r, StreamName(Key(a)))
                                   ELSE s.list = filelist
    <2>0. Readable(a)
        BY <1>4, <1>6, AttributeReadable
    <2>1. Known(s, r)
        BY <1>5, <2>0, AnalyzeIs
    <2>2. IF a.kind = "data" THEN s.mfi = z.mfi /\ Placed(z.list, s.list, r, StreamName(Key(a)))
                             ELSE s.mfi = UpdateName(z.mfi, a) /\ s.list = z.list
        BY <1>5, <2>0, AnalyzePlaces
    <2> QED
        BY <1>5, <2>1, <2>2
<1> HIDE DEF s
<1>7. mfi'.id = r /\ IsFileList(filelist) /\ IsFileList(filelist') /\ Current(filelist', r)
    BY <1>2, <1>3, <1>6 DEF Known, IsFile, Current
<1>8. Shifted(filelist, filelist', r)
    <2>1. CASE Accepted(e) # {} /\ a.kind = "data"
        BY <1>2, <1>6, <1>7, <2>1, PlacedIs
    <2>2. CASE ~(Accepted(e) # {} /\ a.kind = "data")
        <3>1. filelist' = filelist
            BY <1>2, <1>6, <2>2
        <3> QED
            BY <1>7, <3>1, NotShifted
    <2> QED
        BY <2>1, <2>2
<1>9. Named'
    BY <1>2, NamedSame DEF PathInv
<1>10. Learning'
    <2> SUFFICES ASSUME r \notin touched \cup unread
                 PROVE  Properly(mfi, r)' /\ Headed(filelist, r)'
        BY <1>2, <1>7 DEF Learning
    <2>1. Properly(mfi, r) /\ Headed(filelist, r)
        BY <1>1, <1>2 DEF PathInv, Learning
    <2>2. Accepted(e) # {} =>
            a.kind = "data" /\ (~Shadowed(r) => StreamName(Key(a)) \in {Unnamed} \cup ByDefault)
        <3> SUFFICES ASSUME Accepted(e) # {}
                     PROVE  a.kind = "data" /\ (~Shadowed(r) => StreamName(Key(a)) \in {Unnamed} \cup ByDefault)
            OBVIOUS
        <3>1. IsAttribute(a) /\ Key(a) = e.key /\ e.key \in Keys
            BY <1>4
        <3>2. a.kind = "data"
            <4>1. <<"name">> \notin Keys
                <5>1. Len(<<"name">>) = 1 /\ \A key \in Keys : Len(key) = 2
                    BY DEF Keys, Contents, NamedStream, IndexRoot, Index, IndexBitmap, Bitmap
                <5> QED
                    BY <5>1
            <4> QED
                BY <3>1, <4>1 DEF IsAttribute, Key
        <3>3. ASSUME StreamName(e.key) \notin {Unnamed} \cup ByDefault PROVE Shadowed(r)
            <4>1. PICK n \in DOMAIN mft[r].list : mft[r].list[n] = e
                BY <1>4
            <4>2. mft[r].list[n].key = e.key
                BY <4>1
            <4>3. StreamName(mft[r].list[n].key) \notin ByDefault \cup {""}
                BY <3>3, <4>2 DEF Unnamed
            <4> QED
                BY <4>3, Zenon DEF Shadowed
        <3> QED
            BY <3>1, <3>2, <3>3
    <2>3. mfi' = mfi
        BY <1>2, <1>6, <2>2
    <2>4. \A only \in BOOLEAN : (only => ~Shadowed(r)) /\ FirstIs(filelist, r, only) => FirstIs(filelist', r, only)
        <3>1. CASE Accepted(e) = {}
            BY <1>2, <3>1
        <3>2. CASE Accepted(e) # {}
            <4>1. Placed(filelist, filelist', r, StreamName(Key(a)))
                BY <1>2, <1>6, <2>2, <3>2
            <4>2. \A only \in BOOLEAN :
                    FirstIs(filelist, r, only) /\ (only => StreamName(Key(a)) \in {Unnamed} \cup ByDefault) =>
                        FirstIs(filelist', r, only)
                BY <1>7, <4>1, PlacedIs
            <4> QED
                BY <2>2, <3>2, <4>2
        <3> QED
            BY <3>1, <3>2
    <2>5. Headed(filelist, r)'
        BY <1>2, <2>1, <2>4, HeadedKept
    <2>6. Properly(mfi, r)'
        <3>1. /\ ProperNames(r)' = ProperNames(r) /\ (Linked(r)' <=> Linked(r)) /\ ParentOf(r)' = ParentOf(r)
            BY <1>2, FileSame
        <3> QED
            BY <2>1, <2>3, <3>1 DEF Properly
    <2> QED
        BY <2>5, <2>6
<1>11. Learned'
    <2> SUFFICES ASSUME NEW x \in Records \ (touched \cup unread), Passed(x)', IsBase(x)'
                 PROVE  Ready(filelist, x)'
        BY <1>2 DEF Learned
    <2>1. r < x /\ IsBase(x)
        BY <1>2, <1>7, FileSame DEF Passed
    <2>2. Passed(x) /\ Scanning /\ x # r
        BY <1>1, <1>2, <2>1 DEF Passed, Reading, Scanning, Records
    <2>3. Ready(filelist, x)
        BY <1>2, <2>1, <2>2 DEF PathInv, Learned
    <2> QED
        BY <1>2, <1>7, <1>8, <2>2, <2>3, ShiftedReady
<1>12. Walked' /\ Truthful'
    <2>1. \A i \in DOMAIN filelist' : filelist'[i].path = NoPath
        BY <1>7 DEF Current
    <2>2. pc' # "walk" /\ pc' # "done"
        BY <1>2
    <2> QED
        BY <2>1, <2>2, NoPathYet
<1> QED
    BY <1>9, <1>10, <1>11, <1>12 DEF PathInv

LEMMA RenamedTells ==
    ASSUME NEW list, NEW f, f.id \in Records, Current(list, f.id), NEW i \in DOMAIN list
    PROVE  /\ list[i].id = f.id => Renamed(list, f)[i].name = f.name /\ Renamed(list, f)[i].parent = f.parent
           /\ list[i].id # f.id => Renamed(list, f)[i] = list[i]
<1>1. CASE list[i].id # f.id
    BY <1>1 DEF Renamed
<1>2. CASE list[i].id = f.id
    <2> DEFINE e == list[i]
               n == [e EXCEPT !.name = f.name]
               x == [n EXCEPT !.parent = f.parent]
    <2>1. DOMAIN list = 1 .. Len(list) /\ Len(list) \in Nat /\ Ordered(list) /\ IsItem(e)
        BY SequenceIs DEF Current, IsFileList
    <2>2. ASSUME NEW j \in 1 .. i PROVE list[j].id <= f.id
        <3>1. j \in DOMAIN list /\ (j = i \/ j < i)
            BY <2>1
        <3>2. CASE j = i
            <4>1. f.id <= f.id
                BY DEF Records
            <4> QED
                BY <1>2, <3>2, <4>1
        <3>3. CASE j < i
            BY <1>2, <2>1, <3>1, <3>3 DEF Ordered
        <3> QED
            BY <3>1, <3>2, <3>3
    <2>3. Renamed(list, f)[i] = [e EXCEPT !.name = f.name, !.parent = f.parent]
        BY <1>2, <2>2 DEF Renamed
    <2>4. Renamed(list, f)[i] = x
        BY <2>3
    <2> HIDE DEF e
    <2>5. n = [id |-> e.id, stream |-> e.stream, name |-> f.name, parent |-> e.parent,
               map |-> e.map, fragments |-> e.fragments, path |-> e.path]
        BY <2>1 DEF IsItem
    <2> HIDE DEF n
    <2>6. x.name = f.name /\ x.parent = f.parent
        BY <2>5
    <2> HIDE DEF x
    <2> QED
        BY <1>2, <2>4, <2>6
<1> QED
    BY <1>1, <1>2

LEMMA FinishFileKeepsPaths ==
    ASSUME Inv, Inv', PathInv, FinishFile
    PROVE  PathInv'
<1>1. PICK r \in Records : r = mfi.id
    BY DEF FinishFile, Inv, Found, Reading
<1> DEFINE new == Renamed(filelist, mfi)
<1>2. /\ pc = "children" /\ Reading /\ filelist' = new /\ GoOn(r)
      /\ UNCHANGED <<mft, touched, at, child, parent, full, result, unread, stopped>>
    BY <1>1 DEF FinishFile, Renamed, table, path, Reading
<1>3. TableSound /\ r <= mft_id /\ mft_id \in Records /\ Current(filelist, r) /\ IsFile(mfi, r)
    BY <1>1, <1>2 DEF Inv, Found, Sound
<1>4. /\ DOMAIN new = DOMAIN filelist
      /\ \A i \in DOMAIN filelist :
            new[i].id = filelist[i].id /\ new[i].stream = filelist[i].stream /\ new[i].path = filelist[i].path
    BY <1>3, RenamedIs DEF Current, IsFile
<1>5. \A i \in DOMAIN filelist :
        /\ filelist[i].id = r => new[i].name = mfi.name /\ new[i].parent = mfi.parent
        /\ filelist[i].id # r => new[i] = filelist[i]
    BY <1>1, <1>3, RenamedTells
<1> HIDE DEF new
<1>6. \/ pc' = "paths" /\ mft_id' = mft_id /\ r = 0
      \/ pc' = "scan" /\ mft_id' = r - 1 /\ mft_id' \in Records /\ mft_id' < mft_id + 1
    BY <1>2, <1>3, GoOnIs
<1>7. \A x : \A only \in BOOLEAN : FirstIs(filelist, x, only) => FirstIs(new, x, only)
    <2>1. DOMAIN filelist = 1 .. Len(filelist) /\ Len(filelist) \in Nat
        BY <1>3, SequenceIs DEF Current, IsFileList
    <2>2. \A i \in DOMAIN filelist : \A j \in 1 .. i - 1 : j \in DOMAIN filelist
        BY <2>1
    <2> QED
        BY <1>4, <2>2 DEF FirstIs
<1>8. Named'
    BY <1>2, NamedSame DEF PathInv
<1>9. Learning'
    BY <1>6 DEF Learning, Reading
<1>10. Learned'
    <2> SUFFICES ASSUME ~stopped, NEW x \in Records \ (touched \cup unread), Passed(x)', IsBase(x)'
                 PROVE  Ready(filelist, x)'
        BY <1>2, <1>6 DEF Learned
    <2>1. IsBase(x)
        BY <1>2, FileSame
    <2>2. r <= x
        BY <1>3, <1>6 DEF Passed, Records
    <2>3. CASE r < x
        <3>1. Passed(x) /\ Scanning /\ x # r
            BY <1>1, <1>2, <2>3 DEF Passed, Reading, Scanning, Records
        <3>2. Ready(filelist, x)
            BY <2>1, <3>1 DEF PathInv, Learned
        <3>3. \A j \in DOMAIN new : new[j].id = x =>
                    \E i \in DOMAIN filelist :
                        filelist[i].id = x /\ new[j].name = filelist[i].name /\ new[j].parent = filelist[i].parent
            BY <1>4, <1>5, <3>1
        <3> QED
            BY <1>2, <1>7, <3>2, <3>3, ReadyKept
    <2>4. CASE r = x
        <3>1. Properly(mfi, r) /\ Headed(filelist, r)
            BY <1>1, <1>2, <2>4 DEF PathInv, Learning
        <3>2. Headed(filelist, x)'
            BY <1>2, <1>7, <2>4, <3>1, HeadedKept
        <3>3. /\ ProperNames(x)' = ProperNames(x) /\ (Linked(x)' <=> Linked(x)) /\ ParentOf(x)' = ParentOf(x)
            BY <1>2, FileSame
        <3>4. \A i \in DOMAIN new : new[i].id = x /\ ~Linked(x) =>
                new[i].name \in ProperNames(x) /\ new[i].parent = ParentOf(x)
            BY <1>4, <1>5, <2>4, <3>1 DEF Properly
        <3>5. \A i \in DOMAIN filelist' : filelist'[i].id = x /\ ~Linked(x)' =>
                filelist'[i].name \in ProperNames(x)' /\ filelist'[i].parent = ParentOf(x)'
            BY <1>2, <3>3, <3>4
        <3> QED
            BY <3>2, <3>5 DEF Ready, Properly
    <2> QED
        BY <1>3, <2>2, <2>3, <2>4 DEF Records
<1>11. Walked' /\ Truthful'
    <2>1. \A i \in DOMAIN filelist' : filelist'[i].path = NoPath
        BY <1>2, <1>3, <1>4 DEF Current
    <2> QED
        BY <1>6, <2>1, NoPathYet
<1> QED
    BY <1>8, <1>9, <1>10, <1>11 DEF PathInv

LEMMA StopScanKeepsPaths ==
    ASSUME Inv, Inv', PathInv, StopScan
    PROVE  PathInv'
<1>1. /\ pc = "scan" /\ stopped /\ pc' = "paths"
      /\ UNCHANGED <<mft, touched, filelist, unread, stopped>>
    BY DEF StopScan, table, file, path
<1>2. Named'
    BY <1>1, NamedSame DEF PathInv
<1>3. Learning' /\ Learned'
    BY <1>1 DEF Learning, Learned
<1>4. Walked' /\ Truthful'
    <2>1. \A i \in DOMAIN filelist' : filelist'[i].path = NoPath
        BY <1>1 DEF Inv, Found, Above
    <2> QED
        BY <1>1, <2>1, NoPathYet
<1> QED
    BY <1>2, <1>3, <1>4 DEF PathInv

LEMMA ReadFailsKeepsPaths ==
    ASSUME Inv, Inv', PathInv, ReadFails
    PROVE  PathInv'
<1>1. /\ ~stopped /\ pc \in {"scan", "children"} /\ unread \subseteq unread'
      /\ UNCHANGED <<mft, touched, mfi, filelist, stopped>>
      /\ pc' = pc \/ pc' = "remove"
    BY DEF ReadFails
<1>2. Named'
    BY <1>1, NamedSame DEF PathInv
<1>3. Learning'
    <2> SUFFICES ASSUME Reading', mfi.id \notin touched \cup unread'
                 PROVE  Properly(mfi, mfi.id)' /\ Headed(filelist, mfi.id)'
        BY <1>1 DEF Learning
    <2>1. PICK r \in Records : r = mfi.id
        BY <1>1 DEF Inv, Found, Reading
    <2>2. Properly(mfi, r) /\ Headed(filelist, r)
        BY <1>1, <2>1 DEF PathInv, Learning, Reading
    <2>3. Headed(filelist, r)'
        BY <1>1, <2>2, HeadedKept
    <2>4. /\ ProperNames(r)' = ProperNames(r) /\ (Linked(r)' <=> Linked(r)) /\ ParentOf(r)' = ParentOf(r)
        BY <1>1, FileSame
    <2>5. Properly(mfi, r)'
        BY <1>1, <2>2, <2>4 DEF Properly
    <2>6. mfi'.id = r
        BY <1>1, <2>1
    <2> QED
        BY <2>3, <2>5, <2>6
<1>4. Learned'
    <2> SUFFICES ASSUME NEW x \in Records \ (touched \cup unread'), Passed(x)', IsBase(x)', Scanning'
                 PROVE  Ready(filelist, x)'
        BY <1>1 DEF Learned, Scanning, Building, Reading
    <2>1. IsBase(x) /\ Scanning
        BY <1>1, FileSame DEF Scanning, Reading
    <2>2. Passed(x)
        <3>1. CASE pc = "children"
            <4>1. pc' = pc
                BY <3>1 DEF ReadFails
            <4> QED
                BY <1>1, <3>1, <4>1 DEF Passed, Reading
        <3>2. CASE pc = "scan"
            <4>1. mft_id' = mft_id - 1 /\ pc' = "scan" /\ mft_id \in unread'
                BY <2>1, <3>2 DEF ReadFails, Scanning, Reading
            <4>2. mft_id \in Nat /\ x \in Nat
                BY DEF Inv, Sound, Records
            <4>3. mft_id - 1 < x /\ x # mft_id
                BY <4>1 DEF Passed
            <4> QED
                BY <3>2, <4>2, <4>3 DEF Passed, Reading
        <3> QED
            BY <1>1, <3>1, <3>2
    <2>3. Ready(filelist, x)
        BY <1>1, <2>1, <2>2 DEF PathInv, Learned
    <2> QED
        BY <1>1, <2>3, SameReady
<1>5. Walked' /\ Truthful'
    <2>1. \A i \in DOMAIN filelist' : filelist'[i].path = NoPath
        BY <1>1 DEF Inv, Found, Above, Current, Reading
    <2> QED
        BY <1>1, <2>1, NoPathYet
<1> QED
    BY <1>2, <1>3, <1>4, <1>5 DEF PathInv

-----------------------------------------------------------------------------
(* Ways down to a file.                                                    *)

LEMMA RouteIs ==
    ASSUME NEW s, NEW r, Route(s, r)
    PROVE  /\ Len(s) \in Nat /\ Len(s) > 0 /\ DOMAIN s = 1 .. Len(s)
           /\ 1 \in 1 .. Len(s) /\ Len(s) \in 1 .. Len(s)
BY SequenceIs DEF Route

\* All of it is at home.
LEMMA RouteAtHome ==
    ASSUME NEW S, Home(S), NEW r \in S, NEW s, Route(s, r)
    PROVE  \A i \in 1 .. Len(s) : s[i] \in S
<1> DEFINE n == Len(s)
           T == {k \in 0 .. n - 1 : s[n - k] \in S}
<1>1. n \in Nat /\ n > 0 /\ n - 1 \in Nat
    BY RouteIs
<1>2. 0 \in T
    <2>1. n - 0 = n
        BY <1>1
    <2> QED
        BY <1>1, <2>1 DEF Route
<1>3. ASSUME NEW k \in 0 .. (n - 1) - 1, k \in T PROVE k + 1 \in T
    <2>1. n - k \in 2 .. n /\ n - (k + 1) = (n - k) - 1 /\ k + 1 \in 0 .. n - 1
        BY <1>1
    <2>2. s[(n - k) - 1] = ParentOf(s[n - k]) /\ s[n - k] \in S
        BY <1>3, <2>1 DEF Route
    <2> HIDE DEF n
    <2> QED
        BY <2>1, <2>2 DEF Home
<1> HIDE DEF T, n
<1>4. \A k \in 0 .. n - 1 : k \in T
    BY <1>1, <1>2, <1>3, UpTo
<1> SUFFICES ASSUME NEW i \in 1 .. n PROVE s[i] \in S
    BY DEF n
<1>5. n - i \in 0 .. n - 1 /\ n - (n - i) = i
    BY <1>1
<1>6. n - i \in T
    BY <1>4, <1>5
<1> QED
    BY <1>5, <1>6 DEF T

LEMMA RouteOne ==
    ASSUME NEW r \in Records
    PROVE  Route(<<r>>, r)
<1>1. IsSequence(<<r>>) /\ Len(<<r>>) = 1 /\ <<r>>[1] = r
    BY OneIs
<1> QED
    BY <1>1 DEF Route

LEMMA RoutesJoined ==
    ASSUME NEW t, NEW p, Route(t, p), NEW s, NEW r, Route(s, r), p = ParentOf(s[1]), p # Root
    PROVE  Route(t \o s, r)
<1> DEFINE q == t \o s
           m == Len(t)
           n == Len(s)
<1>1. m \in Nat /\ m > 0 /\ n \in Nat /\ n > 0
    BY RouteIs
<1>2. /\ IsSequence(q) /\ Len(q) = m + n
      /\ \A i \in 1 .. m : q[i] = t[i]
      /\ \A i \in 1 .. n : q[m + i] = s[i]
    BY ConcatIs DEF Route
<1>3. \A i \in 1 .. m + n : i \in 1 .. m \/ (i - m \in 1 .. n /\ m + (i - m) = i)
    BY <1>1
<1> HIDE DEF q, m, n
<1>4. \A i \in 1 .. m + n : q[i] \in Records
    <2>1. (\A i \in 1 .. m : t[i] \in Records) /\ (\A i \in 1 .. n : s[i] \in Records)
        BY DEF Route, m, n
    <2> QED
        BY <1>2, <1>3, <2>1
<1>5. q[m + n] = r
    <2>1. s[n] = r /\ n \in 1 .. n
        BY <1>1 DEF Route, n
    <2> QED
        BY <1>2, <2>1
<1>6. ASSUME NEW i \in 2 .. m + n PROVE q[i - 1] = ParentOf(q[i]) /\ q[i - 1] # Root
    <2>1. CASE i <= m
        <3>1. i \in 2 .. m /\ i - 1 \in 1 .. m /\ i \in 1 .. m
            BY <1>1, <2>1
        <3>2. t[i - 1] = ParentOf(t[i]) /\ t[i - 1] # Root
            BY <3>1 DEF Route, m
        <3> QED
            BY <1>2, <3>1, <3>2
    <2>2. CASE i = m + 1
        <3>1. i - 1 = m /\ m \in 1 .. m /\ 1 \in 1 .. n
            BY <1>1, <2>2
        <3>2. q[m] = t[m] /\ q[m + 1] = s[1] /\ t[m] = p
            BY <1>2, <3>1 DEF Route, m
        <3> QED
            BY <2>2, <3>1, <3>2
    <2>3. CASE i > m + 1
        <3>1. /\ i - m \in 2 .. n /\ (i - m) - 1 \in 1 .. n /\ m + ((i - m) - 1) = i - 1 /\ m + (i - m) = i
              /\ i - m \in 1 .. n
            BY <1>1, <2>3
        <3>2. s[(i - m) - 1] = ParentOf(s[i - m]) /\ s[(i - m) - 1] # Root
            BY <3>1 DEF Route, n
        <3>3. q[m + ((i - m) - 1)] = s[(i - m) - 1] /\ q[m + (i - m)] = s[i - m]
            BY <1>2, <3>1
        <3> QED
            BY <3>1, <3>2, <3>3
    <2> QED
        BY <1>1, <2>1, <2>2, <2>3
<1>7. Len(q) = m + n /\ m + n > 0
    BY <1>1, <1>2
<1>8. Route(q, r)
    BY <1>2, <1>4, <1>5, <1>6, <1>7 DEF Route
<1> QED
    BY <1>8 DEF q

\* What is not too long is not cut.
LEMMA NotCut ==
    ASSUME NEW p, IsSequence(p), Len(p) <= MaxPath
    PROVE  Cut(p) = p
<1> DEFINE S == {p[i] : i \in 1 .. Len(p)}
           m == Min({Len(p), MaxPath})
<1>1. p \in Seq(S) /\ Len(p) \in Nat /\ MaxPath \in Nat
    BY SequenceIs, PathAssumption
<1>2. m = Len(p)
    <2>1. {Len(p), MaxPath} \subseteq Nat /\ {Len(p), MaxPath} # {}
        BY <1>1
    <2>2. m \in {Len(p), MaxPath} /\ \A x \in {Len(p), MaxPath} : m <= x
        BY <2>1, MinIsLeast
    <2> HIDE DEF m
    <2> QED
        BY <1>1, <2>2
<1> HIDE DEF S, m
<1>3. SubSeq(p, 1, Len(p)) \in Seq(S) /\ Len(SubSeq(p, 1, Len(p))) = Len(p)
      /\ \A i \in 1 .. Len(p) : SubSeq(p, 1, Len(p))[i] = p[i]
    <2>1. /\ SubSeq(p, 1, Len(p)) \in Seq(S)
          /\ Len(SubSeq(p, 1, Len(p))) = IF 1 <= Len(p) THEN Len(p) - 1 + 1 ELSE 0
          /\ \A i \in 1 .. Len(p) - 1 + 1 : SubSeq(p, 1, Len(p))[i] = p[1 + i - 1]
        <3>1. \A i \in 1 .. Len(p) : i \in 1 .. Len(p)
            OBVIOUS
        <3>2. 1 \in 1 .. Len(p) + 1 /\ Len(p) \in 1 - 1 .. Len(p)
            BY <1>1
        <3> QED
            BY <1>1, <3>1, <3>2, SubSeqProperties
    <2> QED
        BY <1>1, <2>1
<1>4. IsSequence(SubSeq(p, 1, Len(p)))
    BY <1>3, InSeq
<1>5. SubSeq(p, 1, Len(p)) = p
    BY <1>3, <1>4, Same
<1> QED
    BY <1>2, <1>5 DEF Cut, m

LEMMA ShowsJoined ==
    ASSUME NEW t, NEW p, Route(t, p), NEW s, NEW r, Route(s, r),
           NEW front, NEW back, IsSequence(front), IsSequence(back), NEW stream,
           Shows(back, s, stream), ~Shadowed(p) => Shows(front, t, Unnamed)
    PROVE  Shows(Cut(front \o back), t \o s, stream)
<1> DEFINE q == t \o s
           m == Len(t)
           n == Len(s)
           all == front \o back
<1>1. m \in Nat /\ m > 0 /\ n \in Nat /\ n > 0
    BY RouteIs
<1>2. /\ IsSequence(q) /\ Len(q) = m + n
      /\ \A i \in 1 .. m : q[i] = t[i]
      /\ \A i \in 1 .. n : q[m + i] = s[i]
    BY ConcatIs DEF Route
<1> HIDE DEF q, m, n
<1> SUFFICES ASSUME m + n <= MaxPath, \A i \in 1 .. (m + n) - 1 : ~Shadowed(q[i])
             PROVE  /\ Len(Cut(all)) = m + n
                    /\ \A i \in 1 .. m + n :
                        Cut(all)[i] \in ProperNames(q[i]) \X {IF i = m + n THEN stream ELSE Unnamed}
    BY <1>2 DEF Shows, q
<1>3. ~Shadowed(p) /\ \A i \in 1 .. m : ~Shadowed(t[i])
    <2>1. \A i \in 1 .. m : i \in 1 .. (m + n) - 1
        BY <1>1
    <2>2. t[m] = p /\ m \in 1 .. m
        BY <1>1 DEF Route, m
    <2> QED
        BY <1>2, <2>1, <2>2
<1>4. \A i \in 1 .. n - 1 : ~Shadowed(s[i])
    <2>1. \A i \in 1 .. n - 1 : m + i \in 1 .. (m + n) - 1 /\ i \in 1 .. n
        BY <1>1
    <2> QED
        BY <1>2, <2>1
<1>5. MaxPath \in Nat /\ m <= MaxPath /\ n <= MaxPath
    BY <1>1, PathAssumption
<1>6. /\ Len(front) = m
      /\ \A i \in 1 .. m : front[i] \in ProperNames(t[i]) \X {Unnamed}
    <2>1. \A i \in 1 .. m - 1 : i \in 1 .. m
        BY <1>1
    <2>2. /\ Len(front) = m
          /\ \A i \in 1 .. m : front[i] \in ProperNames(t[i]) \X {IF i = m THEN Unnamed ELSE Unnamed}
        BY <1>3, <1>5, <2>1 DEF Shows, m
    <2> QED
        BY <2>2
<1>7. /\ Len(back) = n
      /\ \A i \in 1 .. n : back[i] \in ProperNames(s[i]) \X {IF i = n THEN stream ELSE Unnamed}
    BY <1>4, <1>5 DEF Shows, n
<1>8. /\ IsSequence(all) /\ Len(all) = m + n
      /\ \A i \in 1 .. m : all[i] = front[i]
      /\ \A i \in 1 .. n : all[m + i] = back[i]
    BY <1>6, <1>7, ConcatIs
<1>9. Cut(all) = all
    BY <1>8, NotCut
<1> HIDE DEF all
<1>10. ASSUME NEW i \in 1 .. m + n
       PROVE  all[i] \in ProperNames(q[i]) \X {IF i = m + n THEN stream ELSE Unnamed}
    <2>1. CASE i \in 1 .. m
        <3>1. i # m + n
            BY <1>1, <2>1
        <3>2. all[i] = front[i] /\ q[i] = t[i]
            BY <1>2, <1>8, <2>1
        <3> QED
            BY <1>6, <2>1, <3>1, <3>2
    <2>2. CASE i \notin 1 .. m
        <3> DEFINE j == i - m
        <3>1. j \in 1 .. n /\ m + j = i /\ (i = m + n <=> j = n)
            BY <1>1, <2>2
        <3> HIDE DEF j
        <3>2. all[i] = back[j] /\ q[i] = s[j]
            BY <1>2, <1>8, <3>1
        <3>3. back[j] \in ProperNames(s[j]) \X {IF j = n THEN stream ELSE Unnamed}
            BY <1>7, <3>1
        <3>4. (IF i = m + n THEN stream ELSE Unnamed) = (IF j = n THEN stream ELSE Unnamed)
            BY <3>1
        <3> QED
            BY <3>2, <3>3, <3>4
    <2> QED
        BY <2>1, <2>2
<1> QED
    BY <1>8, <1>9, <1>10

LEMMA ShowsOne ==
    ASSUME NEW e, NEW r \in Records, e.name \in ProperNames(r), NEW stream, e.stream = stream
    PROVE  Shows(<<PartOf(e)>>, <<r>>, stream)
<1>1. /\ IsSequence(<<r>>) /\ Len(<<r>>) = 1 /\ <<r>>[1] = r
      /\ Len(<<PartOf(e)>>) = 1 /\ <<PartOf(e)>>[1] = PartOf(e)
    BY OneIs
<1>2. PartOf(e) \in ProperNames(r) \X {stream}
    BY DEF PartOf
<1>3. \A n \in 1 .. 1 : n = 1
    OBVIOUS
<1> HIDE DEF PartOf
<1> QED
    BY <1>1, <1>2, <1>3 DEF Shows

-----------------------------------------------------------------------------
(* The steps of building the paths.                                        *)

\* What is found when a path goes up to a directory at home.
LEMMA DirectoryIs ==
    ASSUME Inv, PathInv, pc = "walk", NEW S \in SUBSET Records, Home(S), NEW r \in S, NEW p, p = ParentOf(r)
    PROVE  LET m == Min(Directory(p))
               d == filelist[m]
           IN /\ p \in S /\ Directory(p) # {} /\ m \in DOMAIN filelist
              /\ d.id = p /\ d.parent = ParentOf(p) /\ d.name \in ProperNames(p)
              /\ ~Shadowed(p) => d.stream = Unnamed
<1> DEFINE m == Min(Directory(p))
<1>1. p \in S /\ p \in Records /\ p \notin touched \cup unread /\ IsBase(p) /\ ~Linked(p)
    BY DEF Home, Settled
<1>2. HasIndex(mft[p].attrs)
    <2>1. r \in Records \ touched /\ IsBase(r) /\ TableSound /\ Named
        BY DEF Home, Settled, Inv, PathInv
    <2> QED
        BY <1>1, <2>1, NamesFacts
<1>3. Ready(filelist, p)
    <2>1. Building /\ Passed(p)
        BY DEF Building, Passed, Reading
    <2> QED
        BY <1>1, <2>1 DEF PathInv, Learned
<1>4. PICK i \in DOMAIN filelist :
        /\ filelist[i].id = p /\ filelist[i].stream = Unnamed
        /\ ~Shadowed(p) => \A j \in 1 .. i - 1 : filelist[j].id = p => filelist[j].stream \in ByDefault
    BY <1>2, <1>3 DEF Ready, Headed, FirstIs
<1>5. Len(filelist) \in Nat /\ DOMAIN filelist = 1 .. Len(filelist)
    BY ListIs DEF Inv, Sound
<1>6. Directory(p) = {j \in DOMAIN filelist : filelist[j].id = p /\ filelist[j].stream \notin ByDefault}
    BY Zenon DEF Directory
<1>7. Unnamed \notin ByDefault
    BY DEF Unnamed, ByDefault
<1>8. i \in Directory(p)
    BY <1>4, <1>6, <1>7
<1>9. Directory(p) \subseteq Nat
    BY <1>5, <1>6
<1>10. m \in Directory(p) /\ m <= i
    BY <1>8, <1>9, MinIsLeast
<1> HIDE DEF m
<1>11. m \in DOMAIN filelist /\ filelist[m].id = p /\ filelist[m].stream \notin ByDefault
    BY <1>6, <1>10
<1>12. filelist[m].parent = ParentOf(p) /\ filelist[m].name \in ProperNames(p)
    BY <1>1, <1>3, <1>11 DEF Ready, Properly
<1>13. ASSUME ~Shadowed(p) PROVE filelist[m].stream = Unnamed
    <2>1. ~(m \in 1 .. i - 1)
        BY <1>4, <1>11, <1>13
    <2>2. m = i
        BY <1>5, <1>10, <1>11, <2>1
    <2> QED
        BY <1>4, <2>2
<1> QED
    BY <1>1, <1>8, <1>11, <1>12, <1>13 DEF m

LEMMA WalkedIs ==
    ASSUME UNCHANGED <<mft, touched, unread>>, NEW r, NEW stream, NEW p, NEW up,
           filelist'[at'].id = r, filelist'[at'].stream = stream, child' = p,
           (IF full' THEN Root ELSE parent') = up, Trusted(r) => Leads(p, r, stream, up)
    PROVE  Walked'
<1>1. Trusted(r)' => Leads(p, r, stream, up)'
    BY PlaceSame
<1> QED
    BY <1>1 DEF Walked

LEMMA BeginPathKeepsPaths ==
    ASSUME Inv, Inv', PathInv, BeginPath
    PROVE  PathInv'
<1> DEFINE e == filelist[at]
           r == e.id
<1>1. /\ pc = "paths" /\ ~stopped /\ pc' = "walk" /\ at <= Len(filelist)
      /\ child' = <<PartOf(e)>> /\ parent' = e.parent /\ full' = FALSE
      /\ UNCHANGED <<mft, touched, mft_id, mfi, filelist, at, unread, stopped>>
    BY DEF BeginPath, table, file
<1>2. at \in DOMAIN filelist /\ ~Reading' /\ Building
    <2>1. Len(filelist) \in Nat /\ DOMAIN filelist = 1 .. Len(filelist) /\ at \in 1 .. Len(filelist) + 1
        BY ListIs DEF Inv, Sound
    <2> QED
        BY <1>1, <2>1 DEF Reading, Building
<1>3. Named' /\ Learning'
    BY <1>1, <1>2, NamedSame DEF PathInv, Learning
<1>4. \A x \in Records \ (touched \cup unread) : IsBase(x) => Ready(filelist, x)
    BY <1>1, <1>2 DEF PathInv, Learned, Passed, Reading
<1>5. Learned'
    <2> SUFFICES ASSUME NEW x \in Records \ (touched \cup unread), IsBase(x)' PROVE Ready(filelist, x)'
        BY <1>1 DEF Learned
    <2>1. IsBase(x)
        BY <1>1, FileSame
    <2>2. Ready(filelist, x)
        BY <1>4, <2>1
    <2> QED
        BY <1>1, <2>2, SameReady
<1>6. Truthful'
    <2>1. pc' # "done"
        BY <1>1
    <2> QED
        BY <1>1, <2>1, PlaceSame DEF PathInv, Truthful
<1>7. Trusted(r) => Leads(child', r, e.stream, e.parent)
    <2> SUFFICES ASSUME NEW S \in SUBSET Records, r \in S, Home(S) PROVE Leads(child', r, e.stream, e.parent)
        BY DEF Trusted
    <2>1. r \in Records \ (touched \cup unread) /\ IsBase(r) /\ ~Linked(r)
        BY DEF Home, Settled
    <2>2. Properly(e, r)
        BY <1>2, <1>4, <2>1 DEF Ready
    <2> HIDE DEF e, r
    <2>3. e.name \in ProperNames(r) /\ e.parent = ParentOf(r)
        BY <2>1, <2>2 DEF Properly
    <2>4. Route(<<r>>, r) /\ <<r>>[1] = r
        BY <2>1, RouteOne, OneIs
    <2>5. Shows(child', <<r>>, e.stream)
        BY <1>1, <2>1, <2>3, ShowsOne
    <2> QED
        BY <2>3, <2>4, <2>5 DEF Leads
<1>8. Walked'
    <2>1. filelist'[at'] = e
        BY <1>1
    <2> HIDE DEF e
    <2>2. (IF full' THEN Root ELSE parent') = e.parent
        BY <1>1
    <2> QED
        BY <1>1, <1>7, <2>1, <2>2, WalkedIs
<1> QED
    BY <1>3, <1>5, <1>6, <1>8 DEF PathInv

LEMMA ToParentKeepsPaths ==
    ASSUME Inv, Inv', PathInv, ToParent
    PROVE  PathInv'
<1>1. /\ pc = "walk" /\ pc' = "walk" /\ parent # Root /\ full = FALSE
      /\ UNCHANGED <<mft, touched, mft_id, mfi, filelist, at, unread, stopped>>
    <2>1. full \in BOOLEAN => (~full <=> full = FALSE)
        OBVIOUS
    <2> QED
        BY DEF ToParent, table, file
<1>2. at \in DOMAIN filelist /\ ~Reading' /\ Building /\ IsSequence(child)
    <2>1. Len(filelist) \in Nat /\ DOMAIN filelist = 1 .. Len(filelist) /\ at \in 1 .. Len(filelist) + 1
        BY ListIs DEF Inv, Sound
    <2> QED
        BY <1>1, <2>1 DEF Reading, Building, Inv, Sound
<1>3. Named' /\ Learning'
    BY <1>1, <1>2, NamedSame DEF PathInv, Learning
<1>4. Learned'
    <2> SUFFICES ASSUME NEW x \in Records \ (touched \cup unread), IsBase(x)' PROVE Ready(filelist, x)'
        BY <1>1 DEF Learned
    <2>1. IsBase(x)
        BY <1>1, FileSame
    <2>2. Ready(filelist, x)
        BY <1>1, <1>2, <2>1 DEF PathInv, Learned, Passed, Reading
    <2> QED
        BY <1>1, <2>2, SameReady
<1>5. Truthful'
    <2>1. pc' # "done"
        BY <1>1
    <2> QED
        BY <1>1, <2>1, PlaceSame DEF PathInv, Truthful
<1>6. PICK e : e = filelist[at]
    OBVIOUS
<1>7. Trusted(e.id) => Leads(child', e.id, e.stream, IF full' THEN Root ELSE parent')
    <2> SUFFICES ASSUME NEW S \in SUBSET Records, e.id \in S, Home(S)
                 PROVE  Leads(child', e.id, e.stream, IF full' THEN Root ELSE parent')
        BY DEF Trusted
    <2>1. PICK s : Route(s, e.id) /\ ParentOf(s[1]) = parent /\ Shows(child, s, e.stream)
        <3>1. Trusted(e.id)
            BY DEF Trusted
        <3> QED
            BY <1>1, <1>6, <3>1 DEF PathInv, Walked, Leads
    <2>2. s[1] \in S
        BY <2>1, RouteAtHome, RouteIs
    <2>3. PICK p : p = parent
        OBVIOUS
    <2> DEFINE d == filelist[Min(Directory(p))]
    <2>4. /\ p \in S /\ Directory(p) # {} /\ d \in {filelist[i] : i \in DOMAIN filelist}
          /\ d.id = p /\ d.parent = ParentOf(p) /\ d.name \in ProperNames(p)
          /\ ~Shadowed(p) => d.stream = Unnamed
        BY <1>1, <2>1, <2>2, <2>3, DirectoryIs
    <2> DEFINE front == IF d.path # NoPath THEN d.path ELSE <<PartOf(d)>>
    <2>5. parent' = d.parent /\ full' = (d.path # NoPath) /\ child' = Cut(front \o child)
        BY <2>3, <2>4 DEF ToParent
    <2> HIDE DEF d
    <2>6. PICK t : /\ Route(t, p) /\ ParentOf(t[1]) = (IF full' THEN Root ELSE parent')
                   /\ Shows(front, t, d.stream) /\ IsSequence(front)
        <3>1. CASE d.path # NoPath
            <4>1. Trusted(p)
                BY <2>4 DEF Trusted
            <4>2. PICK i \in DOMAIN filelist : d = filelist[i]
                BY <2>4
            <4>3. Leads(d.path, p, d.stream, Root)
                BY <2>4, <3>1, <4>1, <4>2 DEF PathInv, Truthful
            <4>4. PICK t : Route(t, p) /\ ParentOf(t[1]) = Root /\ Shows(d.path, t, d.stream)
                BY <4>3 DEF Leads
            <4>5. IsSequence(d.path)
                <5>1. IsFileList(filelist)
                    BY DEF Inv, Sound
                <5> QED
                    BY <4>2, <5>1 DEF IsFileList, IsItem
            <4> QED
                BY <2>5, <3>1, <4>4, <4>5
        <3>2. CASE d.path = NoPath
            <4>1. Route(<<p>>, p) /\ <<p>>[1] = p /\ IsSequence(<<PartOf(d)>>)
                BY <2>4, RouteOne, OneIs
            <4>2. Shows(<<PartOf(d)>>, <<p>>, d.stream)
                BY <2>4, ShowsOne
            <4> QED
                BY <2>4, <2>5, <3>2, <4>1, <4>2
        <3> QED
            BY <3>1, <3>2
    <2> HIDE DEF front
    <2>7. Route(t \o s, e.id) /\ (t \o s)[1] = t[1]
        <3>1. PICK r : r = e.id
            OBVIOUS
        <3>2. Route(t, p) /\ Route(s, r) /\ p = ParentOf(s[1]) /\ p # Root
            BY <1>1, <2>1, <2>3, <2>6, <3>1
        <3>3. Route(t \o s, r)
            BY <3>2, RoutesJoined
        <3>4. IsSequence(t) /\ IsSequence(s) /\ 1 \in 1 .. Len(t)
            BY <3>2, RouteIs DEF Route
        <3>5. (t \o s)[1] = t[1]
            BY <3>4, ConcatIs
        <3> QED
            BY <3>1, <3>3, <3>5
    <2>8. Shows(child', t \o s, e.stream)
        <3>1. ~Shadowed(p) => Shows(front, t, Unnamed)
            BY <2>4, <2>6
        <3>2. Shows(Cut(front \o child), t \o s, e.stream)
            BY <1>2, <2>1, <2>6, <3>1, ShowsJoined
        <3> QED
            BY <2>5, <3>2
    <2> QED
        BY <2>6, <2>7, <2>8 DEF Leads
<1>8. Walked'
    <2>1. filelist'[at'] = e
        BY <1>1, <1>6
    <2> QED
        BY <1>1, <1>7, <2>1, WalkedIs
<1> QED
    BY <1>3, <1>4, <1>5, <1>8 DEF PathInv

\* The list is what it was but for the paths and the clusters.
LEMMA ListedSame ==
    ASSUME UNCHANGED <<mft, touched, unread>>, Learned, DOMAIN filelist' = DOMAIN filelist, IsFileList(filelist),
           \A i \in DOMAIN filelist :
                /\ filelist'[i].id = filelist[i].id /\ filelist'[i].stream = filelist[i].stream
                /\ filelist'[i].name = filelist[i].name /\ filelist'[i].parent = filelist[i].parent,
           Building, ~stopped, ~Reading', pc' # "scan"
    PROVE  Learned'
<1> SUFFICES ASSUME NEW x \in Records \ (touched \cup unread), IsBase(x)' PROVE Ready(filelist, x)'
    BY DEF Learned
<1>1. IsBase(x)
    BY FileSame
<1>2. Ready(filelist, x)
    BY <1>1 DEF Learned, Passed, Building, Reading
<1>3. \A only \in BOOLEAN : FirstIs(filelist, x, only) => FirstIs(filelist', x, only)
    <2>1. DOMAIN filelist = 1 .. Len(filelist) /\ Len(filelist) \in Nat
        BY ListIs
    <2>2. \A i \in DOMAIN filelist : \A j \in 1 .. i - 1 : j \in DOMAIN filelist
        BY <2>1
    <2> QED
        BY <2>2 DEF FirstIs
<1>4. \A j \in DOMAIN filelist' : filelist'[j].id = x =>
        \E i \in DOMAIN filelist :
            filelist[i].id = x /\ filelist'[j].name = filelist[i].name /\ filelist'[j].parent = filelist[i].parent
    OBVIOUS
<1> QED
    BY <1>2, <1>3, <1>4, ReadyKept

LEMMA TruthfulIs ==
    ASSUME UNCHANGED <<mft, touched, unread>>,
           pc' = "done" => \A i \in DOMAIN filelist' : filelist'[i].path # NoPath,
           \A i \in DOMAIN filelist' : filelist'[i].path # NoPath /\ Trusted(filelist'[i].id) =>
                Leads(filelist'[i].path, filelist'[i].id, filelist'[i].stream, Root)
    PROVE  Truthful'
<1>1. PICK list : list = filelist'
    OBVIOUS
<1>2. \A i \in DOMAIN list : list[i].path # NoPath /\ Trusted(list[i].id)' =>
        Leads(list[i].path, list[i].id, list[i].stream, Root)'
    BY <1>1, PlaceSame
<1> QED
    BY <1>1, <1>2 DEF Truthful

\* What is kept of the list is of the list, and has a path.
LEMMA KeptOf ==
    ASSUME NEW list, IsFileList(list)
    PROVE  \A j \in DOMAIN Kept(list) : \E i \in DOMAIN list : Kept(list)[j] = list[i] /\ list[i].path # NoPath
<1> DEFINE n == Len(list)
           C == {i \in 1 .. n : list[i].fragments > 0 /\ list[i].path # NoPath}
           ss == [i \in 1 .. n |-> IF i \in C THEN <<list[i]>> ELSE <<>>]
<1>1. n \in Nat /\ DOMAIN list = 1 .. n
    BY ListIs
<1>2. Kept(list) = FlattenSeq(ss)
    <2>1. [i \in 1 .. n |-> IF list[i].fragments > 0 /\ list[i].path # NoPath THEN <<list[i]>> ELSE <<>>] = ss
        OBVIOUS
    <2> QED
        BY <2>1 DEF Kept
<1>3. IsSequence(FlattenSeq(ss)) /\ \E h : Selected(FlattenSeq(ss), list, n, C, h)
    <2> HIDE DEF C
    <2> QED
        BY <1>1, SelectionIs
<1>4. \A i \in C : i \in DOMAIN list /\ list[i].path # NoPath
    BY <1>1
<1> HIDE DEF ss, C
<1>5. PICK h : Selected(Kept(list), list, n, C, h)
    BY <1>2, <1>3
<1>6. DOMAIN Kept(list) = 1 .. Len(Kept(list))
    BY <1>2, <1>3, SequenceIs
<1> QED
    BY <1>4, <1>5, <1>6 DEF Selected

LEMMA EndPathKeepsPaths ==
    ASSUME Inv, Inv', PathInv, EndPath
    PROVE  PathInv'
<1>1. PICK e : e = filelist[at]
    OBVIOUS
<1> DEFINE x == [e EXCEPT !.path = child]
<1>2. /\ pc = "walk" /\ (parent = Root \/ full) /\ pc' = "paths"
      /\ filelist' = [filelist EXCEPT ![at] = x]
      /\ UNCHANGED <<mft, touched, mft_id, mfi, unread, stopped>>
    BY <1>1 DEF EndPath, table, file
<1>3. /\ IsFileList(filelist) /\ at \in DOMAIN filelist /\ IsItem(e) /\ ~Reading' /\ Building
    <2>1. /\ IsFileList(filelist) /\ Len(filelist) \in Nat /\ DOMAIN filelist = 1 .. Len(filelist)
          /\ at \in 1 .. Len(filelist) + 1 /\ at <= Len(filelist)
        BY <1>2, ListIs DEF Inv, Sound
    <2> QED
        BY <1>1, <1>2, <2>1 DEF Reading, Building, IsFileList
<1>4. x = [id |-> e.id, stream |-> e.stream, name |-> e.name, parent |-> e.parent,
           map |-> e.map, fragments |-> e.fragments, path |-> child]
    BY <1>3 DEF IsItem
<1> HIDE DEF x
<1>5. x.id = e.id /\ x.stream = e.stream /\ x.name = e.name /\ x.parent = e.parent /\ x.path = child
    BY <1>4
<1>6. /\ DOMAIN filelist' = DOMAIN filelist /\ filelist'[at] = x
      /\ \A i \in DOMAIN filelist : i # at => filelist'[i] = filelist[i]
    BY <1>2, <1>3
<1>7. \A i \in DOMAIN filelist :
        /\ filelist'[i].id = filelist[i].id /\ filelist'[i].stream = filelist[i].stream
        /\ filelist'[i].name = filelist[i].name /\ filelist'[i].parent = filelist[i].parent
    BY <1>1, <1>5, <1>6
<1>8. Named' /\ Learning'
    BY <1>2, <1>3, NamedSame DEF PathInv, Learning
<1>9. Learned'
    <2>1. CASE stopped
        BY <1>2, <2>1 DEF Learned
    <2>2. CASE ~stopped
        <3>1. pc' # "scan" /\ Learned
            BY <1>2 DEF PathInv
        <3> QED
            BY <1>2, <1>3, <1>6, <1>7, <2>2, <3>1, ListedSame
    <2> QED
        BY <2>1, <2>2
<1>10. Walked'
    <2>1. pc' # "walk"
        BY <1>2
    <2> QED
        BY <2>1 DEF Walked
<1>11. Truthful'
    <2>1. pc' # "done"
        BY <1>2
    <2>2. Trusted(e.id) => Leads(child, e.id, e.stream, Root)
        BY <1>1, <1>2 DEF PathInv, Walked
    <2>3. ASSUME NEW i \in DOMAIN filelist, filelist'[i].path # NoPath, Trusted(filelist'[i].id)
          PROVE  Leads(filelist'[i].path, filelist'[i].id, filelist'[i].stream, Root)
        <3>1. CASE i = at
            BY <1>5, <1>6, <2>2, <2>3, <3>1
        <3>2. CASE i # at
            <4>1. filelist'[i] = filelist[i]
                BY <1>6, <3>2
            <4> QED
                BY <2>3, <4>1 DEF PathInv, Truthful
        <3> QED
            BY <3>1, <3>2
    <2> QED
        BY <1>2, <1>6, <2>1, <2>3, TruthfulIs
<1> QED
    BY <1>8, <1>9, <1>10, <1>11 DEF PathInv

\* The steps which are not about the names any more.
LEMMA RestKeepsPaths ==
    ASSUME Inv, Inv', PathInv, StopPath \/ PathsBuilt \/ Validate \/ Filtered
    PROVE  PathInv'
<1>1. UNCHANGED <<mft, touched, mft_id, mfi, unread, stopped>>
    BY DEF StopPath, PathsBuilt, Validate, Filtered, table, file
<1>2. ~Reading' /\ pc' # "scan" /\ pc' # "walk" /\ pc' # "done" /\ (stopped \/ ~Building')
    BY DEF StopPath, PathsBuilt, Validate, Filtered, Reading, Building
<1>3. /\ DOMAIN filelist' = DOMAIN filelist
      /\ \A i \in DOMAIN filelist :
            filelist'[i].id = filelist[i].id /\ filelist'[i].stream = filelist[i].stream
            /\ filelist'[i].path = filelist[i].path
    <2>1. CASE StopPath \/ PathsBuilt \/ Filtered
        <3>1. filelist' = filelist
            BY <2>1 DEF StopPath, PathsBuilt, Filtered
        <3> QED
            BY <3>1
    <2>2. CASE Validate
        <3>1. /\ IsFileList(filelist) /\ Len(filelist) \in Nat /\ DOMAIN filelist = 1 .. Len(filelist)
              /\ at \in 1 .. Len(filelist) + 1
            BY ListIs DEF Inv, Sound
        <3> DEFINE e == filelist[at]
                   m == IF Invalid(e.map) THEN <<>> ELSE e.map
                   x == [e EXCEPT !.map = m]
        <3>2. at \in DOMAIN filelist /\ filelist' = [filelist EXCEPT ![at] = x]
            BY <2>2, <3>1 DEF Validate
        <3>3. IsItem(e)
            BY <3>1, <3>2 DEF IsFileList
        <3> HIDE DEF m, e
        <3>4. x = [id |-> e.id, stream |-> e.stream, name |-> e.name, parent |-> e.parent,
                   map |-> m, fragments |-> e.fragments, path |-> e.path]
            BY <3>3 DEF IsItem
        <3> HIDE DEF x
        <3>5. x.id = e.id /\ x.stream = e.stream /\ x.path = e.path
            BY <3>4
        <3> QED
            BY <3>2, <3>5 DEF e
    <2> QED
        BY <2>1, <2>2
<1>4. Named' /\ Learning' /\ Learned' /\ Walked'
    BY <1>1, <1>2, NamedSame DEF PathInv, Learning, Learned, Walked, Scanning
<1>5. Truthful'
    <2>1. \A i \in DOMAIN filelist : filelist'[i].path # NoPath /\ Trusted(filelist'[i].id) =>
            Leads(filelist'[i].path, filelist'[i].id, filelist'[i].stream, Root)
        BY <1>3 DEF PathInv, Truthful
    <2> QED
        BY <1>1, <1>2, <1>3, <2>1, TruthfulIs
<1> QED
    BY <1>4, <1>5 DEF PathInv

LEMMA RemoveStreamsKeepsPaths ==
    ASSUME Inv, Inv', PathInv, RemoveStreams
    PROVE  PathInv'
<1>1. /\ pc = "remove" /\ pc' = "done" /\ filelist' = Kept(filelist)
      /\ UNCHANGED <<mft, touched, mft_id, mfi, unread, stopped>>
    BY DEF RemoveStreams, table, file
<1>2. \A j \in DOMAIN filelist' : \E i \in DOMAIN filelist : filelist'[j] = filelist[i] /\ filelist[i].path # NoPath
    BY <1>1, KeptOf DEF Inv, Sound
<1>3. ~Reading' /\ ~Scanning' /\ ~Building'
    BY <1>1 DEF Reading, Scanning, Building
<1>4. Named' /\ Learning' /\ Learned' /\ Walked'
    BY <1>1, <1>3, NamedSame DEF PathInv, Learning, Learned, Walked
<1>5. Truthful'
    <2>1. \A i \in DOMAIN filelist' : filelist'[i].path # NoPath
        BY <1>2
    <2>2. ASSUME NEW j \in DOMAIN filelist', Trusted(filelist'[j].id)
          PROVE  Leads(filelist'[j].path, filelist'[j].id, filelist'[j].stream, Root)
        <3>1. PICK i \in DOMAIN filelist : filelist'[j] = filelist[i] /\ filelist[i].path # NoPath
            BY <1>2
        <3> QED
            BY <2>2, <3>1 DEF PathInv, Truthful
    <2> QED
        BY <1>1, <2>1, <2>2, TruthfulIs
<1> QED
    BY <1>4, <1>5 DEF PathInv

LEMMA NothingKeepsPaths ==
    ASSUME Inv, PathInv, UNCHANGED vars
    PROVE  PathInv'
<1>1. UNCHANGED <<mft, touched, mft_id, mfi, filelist, at, child, parent, full, unread, stopped, pc>>
    BY DEF vars, table, file, path
<1>2. \A r : /\ (IsBase(r)' <=> IsBase(r)) /\ ParentOf(r)' = ParentOf(r)
             /\ ProperNames(r)' = ProperNames(r) /\ (Linked(r)' <=> Linked(r))
    BY <1>1, FileSame
<1>3. Named'
    BY <1>1, NamedSame DEF PathInv
<1>4. \A r : Headed(filelist, r) => Headed(filelist, r)'
    BY <1>1, HeadedKept
<1>5. Learning'
    BY <1>1, <1>2, <1>4 DEF PathInv, Learning, Reading, Properly
<1>6. Learned'
    <2> SUFFICES ASSUME Scanning \/ Building, ~stopped \/ pc = "walk",
                        NEW x \in Records \ (touched \cup unread), Passed(x)', IsBase(x)'
                 PROVE  Ready(filelist, x)'
        BY <1>1 DEF Learned, Scanning, Building, Reading
    <2>1. Passed(x) /\ IsBase(x)
        BY <1>1, <1>2 DEF Passed, Reading
    <2>2. Ready(filelist, x)
        BY <2>1 DEF PathInv, Learned
    <2> QED
        BY <1>1, <2>2, SameReady
<1>7. Walked' /\ Truthful'
    BY <1>1, PlaceSame DEF PathInv, Walked, Truthful
<1> QED
    BY <1>3, <1>5, <1>6, <1>7 DEF PathInv

-----------------------------------------------------------------------------
(* The directories a file lies in, and its path.                           *)

WithParents(S) == S \cup {ParentOf(x) : x \in S}
Longer(s) == IF ParentOf(Head(s)) = Root THEN s ELSE <<ParentOf(Head(s))>> \o s

LEMMA AncestorsSteps ==
    ASSUME NEW r
    PROVE  \E f : /\ f[0] = {r} /\ f[LastRecord] = Ancestors(r)
                  /\ \A n \in 1 .. LastRecord : f[n] = WithParents(f[n - 1])
<1> DEFINE b == {r}
           N == LastRecord
           Is(f, n) == f = [i \in 0 .. n |-> IF i = 0 THEN b ELSE WithParents(f[i - 1])]
           T == {n \in 0 .. N : \E f : Is(f, n)}
<1>0. N \in Nat
    BY MftAssumption
<1>1. 0 \in T
    <2> DEFINE v == [i \in 0 .. 0 |-> b]
    <2>1. Is(v, 0)
        OBVIOUS
    <2> HIDE DEF Is
    <2> QED
        BY <2>1, <1>0
<1>2. ASSUME NEW k \in 0 .. N - 1, k \in T PROVE k + 1 \in T
    <2>1. PICK f : Is(f, k)
        BY <1>2
    <2> DEFINE v == [i \in 0 .. k + 1 |-> IF i \in 0 .. k THEN f[i] ELSE WithParents(f[k])]
    <2>2. ASSUME NEW i \in 0 .. k + 1
          PROVE  v[i] = IF i = 0 THEN b ELSE WithParents(v[i - 1])
        <3>1. CASE i \in 0 .. k
            <4>1. f[i] = IF i = 0 THEN b ELSE WithParents(f[i - 1])
                BY <2>1, <3>1
            <4>2. v[i] = f[i] /\ (i # 0 => v[i - 1] = f[i - 1])
                BY <3>1
            <4> HIDE DEF v
            <4> QED
                BY <4>1, <4>2
        <3>2. CASE i \notin 0 .. k
            <4>1. i = k + 1 /\ i - 1 = k /\ i # 0 /\ k \in 0 .. k
                BY <3>2
            <4>2. v[i] = WithParents(f[k]) /\ v[i - 1] = f[k]
                BY <3>2, <4>1
            <4> HIDE DEF v
            <4> QED
                BY <4>1, <4>2
        <3> QED
            BY <3>1, <3>2
    <2>3. v = [i \in 0 .. k + 1 |-> v[i]]
        OBVIOUS
    <2> HIDE DEF v
    <2>4. Is(v, k + 1)
        BY <2>2, <2>3
    <2> HIDE DEF Is
    <2>5. k + 1 \in 0 .. N
        BY <1>0
    <2> QED
        BY <2>4, <2>5
<1>3. N \in T
    <2> HIDE DEF T
    <2>1. \A k \in 0 .. N : k \in T
        BY <1>0, <1>1, <1>2, UpTo
    <2> QED
        BY <1>0, <2>1
<1> DEFINE f == CHOOSE f : Is(f, N)
<1>4. Is(f, N)
    BY <1>3
<1>5. Ancestors(r) = f[N]
    BY DEF Ancestors, WithParents
<1> HIDE DEF f, b
<1>6. f[0] = b /\ \A n \in 1 .. N : f[n] = WithParents(f[n - 1])
    BY <1>0, <1>4
<1> QED
    BY <1>5, <1>6 DEF b

LEMMA PathSteps ==
    ASSUME NEW r
    PROVE  \E f : /\ f[0] = <<r>> /\ f[LastRecord] = PathTo(r)
                  /\ \A n \in 1 .. LastRecord : f[n] = Longer(f[n - 1])
<1> DEFINE N == LastRecord
           Is(f, n) == f = [i \in 0 .. n |-> IF i = 0 THEN <<r>> ELSE Longer(f[i - 1])]
           T == {n \in 0 .. N : \E f : Is(f, n)}
<1>0. N \in Nat
    BY MftAssumption
<1>1. 0 \in T
    <2> DEFINE v == [i \in 0 .. 0 |-> <<r>>]
    <2>1. Is(v, 0)
        OBVIOUS
    <2> HIDE DEF Is
    <2> QED
        BY <2>1, <1>0
<1>2. ASSUME NEW k \in 0 .. N - 1, k \in T PROVE k + 1 \in T
    <2>1. PICK f : Is(f, k)
        BY <1>2
    <2> DEFINE v == [i \in 0 .. k + 1 |-> IF i \in 0 .. k THEN f[i] ELSE Longer(f[k])]
    <2>2. ASSUME NEW i \in 0 .. k + 1
          PROVE  v[i] = IF i = 0 THEN <<r>> ELSE Longer(v[i - 1])
        <3>1. CASE i \in 0 .. k
            <4>1. f[i] = IF i = 0 THEN <<r>> ELSE Longer(f[i - 1])
                BY <2>1, <3>1
            <4>2. v[i] = f[i] /\ (i # 0 => v[i - 1] = f[i - 1])
                BY <3>1
            <4> HIDE DEF v
            <4> QED
                BY <4>1, <4>2
        <3>2. CASE i \notin 0 .. k
            <4>1. i = k + 1 /\ i - 1 = k /\ i # 0 /\ k \in 0 .. k
                BY <3>2
            <4>2. v[i] = Longer(f[k]) /\ v[i - 1] = f[k]
                BY <3>2, <4>1
            <4> HIDE DEF v
            <4> QED
                BY <4>1, <4>2
        <3> QED
            BY <3>1, <3>2
    <2>3. v = [i \in 0 .. k + 1 |-> v[i]]
        OBVIOUS
    <2> HIDE DEF v
    <2>4. Is(v, k + 1)
        BY <2>2, <2>3
    <2> HIDE DEF Is
    <2>5. k + 1 \in 0 .. N
        BY <1>0
    <2> QED
        BY <2>4, <2>5
<1>3. N \in T
    <2> HIDE DEF T
    <2>1. \A k \in 0 .. N : k \in T
        BY <1>0, <1>1, <1>2, UpTo
    <2> QED
        BY <1>0, <2>1
<1> DEFINE f == CHOOSE f : Is(f, N)
<1>4. Is(f, N)
    BY <1>3
<1>5. PathTo(r) = f[N]
    BY DEF PathTo, Longer
<1> HIDE DEF f
<1>6. f[0] = <<r>> /\ \A n \in 1 .. N : f[n] = Longer(f[n - 1])
    BY <1>0, <1>4
<1> QED
    BY <1>5, <1>6

\* They are all found: each of them adds a record or is the last one.
LEMMA AncestorsHome ==
    ASSUME TableSound, Named, NEW r \in Records, IsBase(r),
           \A x \in Ancestors(r) : Settled(x) /\ ~Linked(x)
    PROVE  /\ r \in Ancestors(r) /\ Ancestors(r) \subseteq Records
           /\ Home(Ancestors(r))
<1> DEFINE N == LastRecord
           A == Ancestors(r)
           Closed(S) == \A x \in S : ParentOf(x) \in S
<1>1. PICK u : u[0] = {r} /\ u[N] = A /\ \A n \in 1 .. N : u[n] = WithParents(u[n - 1])
    BY AncestorsSteps
<1>2. N \in Nat /\ Records = 0 .. N /\ IsFiniteSet(Records) /\ Cardinality(Records) = N + 1
    BY MftAssumption, FS_Interval DEF Records
<1> HIDE DEF N, A
<1>3. \A n \in 0 .. N - 1 : n + 1 \in 1 .. N /\ n + 1 \in 0 .. N /\ (n + 1) - 1 = n
    BY <1>2
<1>4. \A n \in 0 .. N - 1 : u[n + 1] = WithParents(u[n])
    BY <1>1, <1>3
<1>5. \A n \in 0 .. N : u[n] \subseteq A
    <2> DEFINE T == {k \in 0 .. N : u[N - k] \subseteq A}
    <2>1. 0 \in T
        <3>1. N - 0 = N
            BY <1>2
        <3> QED
            BY <1>1, <1>2, <3>1
    <2>2. ASSUME NEW k \in 0 .. N - 1, k \in T PROVE k + 1 \in T
        <3>1. N - (k + 1) \in 0 .. N - 1 /\ (N - (k + 1)) + 1 = N - k /\ k + 1 \in 0 .. N
            BY <1>2
        <3>2. u[N - k] = WithParents(u[N - (k + 1)]) /\ u[N - k] \subseteq A
            BY <1>4, <2>2, <3>1
        <3>3. u[N - (k + 1)] \subseteq A
            BY <3>2 DEF WithParents
        <3> QED
            BY <3>1, <3>3
    <2> HIDE DEF T
    <2>3. \A k \in 0 .. N : k \in T
        BY <1>2, <2>1, <2>2, UpTo
    <2> SUFFICES ASSUME NEW n \in 0 .. N PROVE u[n] \subseteq A
        OBVIOUS
    <2>4. N - n \in 0 .. N /\ N - (N - n) = n
        BY <1>2
    <2> QED
        BY <2>3, <2>4 DEF T
<1>6. \A n \in 0 .. N : r \in u[n] /\ u[n] \subseteq Records /\ \A x \in u[n] : IsBase(x)
    <2> DEFINE Holds(n) == r \in u[n] /\ u[n] \subseteq Records /\ \A x \in u[n] : IsBase(x)
               T == {n \in 0 .. N : Holds(n)}
    <2>1. 0 \in T
        BY <1>1, <1>2
    <2>2. ASSUME NEW n \in 0 .. N - 1, n \in T PROVE n + 1 \in T
        <3>1. Holds(n) /\ n + 1 \in 0 .. N /\ u[n + 1] = WithParents(u[n]) /\ u[n + 1] \subseteq A
            BY <1>3, <1>4, <1>5, <2>2
        <3>2. ASSUME NEW x \in u[n] PROVE ParentOf(x) \in Records /\ IsBase(ParentOf(x))
            <4>1. ParentOf(x) \in A /\ x \in A
                BY <3>1 DEF WithParents
            <4>2. ParentOf(x) \notin touched /\ x \in Records \ touched /\ IsBase(x)
                BY <3>1, <4>1 DEF Settled, A
            <4> QED
                BY <4>2, NamesFacts
        <3>3. Holds(n + 1)
            BY <3>1, <3>2 DEF WithParents
        <3> HIDE DEF Holds
        <3> QED
            BY <3>1, <3>3
    <2> HIDE DEF T
    <2>3. \A n \in 0 .. N : n \in T
        BY <1>2, <2>1, <2>2, UpTo
    <2> QED
        BY <2>3 DEF T
<1>7. N \in 0 .. N
    BY <1>2
<1>8. r \in A /\ A \subseteq Records /\ \A x \in A : IsBase(x)
    BY <1>1, <1>6, <1>7
<1>9. \A x \in A : ParentOf(x) \in Records
    <2> SUFFICES ASSUME NEW x \in A PROVE ParentOf(x) \in Records
        OBVIOUS
    <2>1. x \in Records \ touched /\ IsBase(x)
        BY <1>8 DEF Settled, A
    <2> QED
        BY <2>1, NamesFacts
<1>10. \A n \in 0 .. N : IsFiniteSet(u[n]) /\ Cardinality(u[n]) \in Nat
    BY <1>2, <1>6, FS_Subset, FS_CardinalityType
<1>11. \A n \in 0 .. N : Closed(u[n]) \/ Cardinality(u[n]) >= n + 1
    <2> DEFINE Holds(n) == Closed(u[n]) \/ Cardinality(u[n]) >= n + 1
               T == {n \in 0 .. N : Holds(n)}
    <2>1. 0 \in T
        <3>1. Cardinality({r}) = 1
            BY FS_Singleton
        <3>2. Cardinality(u[0]) >= 0 + 1
            BY <1>1, <3>1
        <3> HIDE DEF Closed
        <3> QED
            BY <1>2, <3>2
    <2>2. ASSUME NEW n \in 0 .. N - 1, n \in T PROVE n + 1 \in T
        <3>1. /\ Holds(n) /\ n + 1 \in 0 .. N /\ n \in 0 .. N /\ n \in Nat
              /\ u[n + 1] = u[n] \cup {ParentOf(x) : x \in u[n]}
            BY <1>3, <1>4, <2>2 DEF WithParents
        <3>2. CASE Closed(u[n])
            <4>1. u[n + 1] = u[n]
                BY <3>1, <3>2
            <4>2. Holds(n + 1)
                BY <3>2, <4>1
            <4> HIDE DEF Holds
            <4> QED
                BY <3>1, <4>2
        <3>3. CASE ~Closed(u[n])
            <4>1. PICK x \in u[n] : ParentOf(x) \notin u[n]
                BY <3>3
            <4>2. u[n] \cup {ParentOf(x)} \subseteq u[n + 1]
                BY <3>1
            <4>3. Cardinality(u[n]) >= n + 1
                BY <3>1, <3>3
            <4>4. Cardinality(u[n] \cup {ParentOf(x)}) = Cardinality(u[n]) + 1
                BY <1>10, <3>1, <4>1, FS_AddElement
            <4>5. Cardinality(u[n] \cup {ParentOf(x)}) <= Cardinality(u[n + 1])
                BY <1>10, <3>1, <4>2, FS_Subset
            <4> HIDE DEF Closed
            <4>6. Cardinality(u[n + 1]) >= (n + 1) + 1
                BY <1>10, <3>1, <4>3, <4>4, <4>5
            <4> QED
                BY <3>1, <4>6
        <3> QED
            BY <3>2, <3>3
    <2> HIDE DEF T
    <2>3. \A n \in 0 .. N : n \in T
        BY <1>2, <2>1, <2>2, UpTo
    <2> QED
        BY <2>3 DEF T
<1>12. Closed(A)
    <2>1. CASE Closed(u[N])
        BY <1>1, <2>1
    <2>2. CASE ~Closed(u[N])
        <3>1. Cardinality(A) >= N + 1 /\ Cardinality(A) \in Nat
            BY <1>1, <1>7, <1>10, <1>11, <2>2
        <3>2. Cardinality(A) <= Cardinality(Records)
            BY <1>2, <1>8, FS_Subset
        <3>3. Cardinality(Records) = Cardinality(A)
            BY <1>2, <3>1, <3>2
        <3>4. Records = A
            BY <1>2, <1>8, <3>3, FS_Subset
        <3> QED
            BY <1>9, <3>4
    <2> QED
        BY <2>1, <2>2
<1> QED
    BY <1>8, <1>12 DEF Home, A

\* A way down from the root meets no file twice, and is no longer than there
\* are records.
LEMMA RouteOnce ==
    ASSUME NEW s, NEW r, Route(s, r), ParentOf(s[1]) = Root
    PROVE  \A i, j \in 1 .. Len(s) : s[i] = s[j] => i = j
<1> DEFINE n == Len(s)
<1>1. n \in Nat /\ n > 0
    BY RouteIs
<1>2. \A i \in 2 .. n : s[i - 1] = ParentOf(s[i]) /\ s[i - 1] # Root
    BY DEF Route
<1> HIDE DEF n
<1>3. ASSUME NEW i \in 1 .. n, NEW j \in 1 .. n, s[i] = s[j], i < j PROVE FALSE
    <2> DEFINE T == {k \in 0 .. i - 1 : s[i - k] = s[j - k]}
    <2>1. 0 \in T
        <3>1. i - 0 = i /\ j - 0 = j /\ 0 \in 0 .. i - 1
            BY <1>1
        <3> QED
            BY <1>3, <3>1
    <2>2. ASSUME NEW k \in 0 .. (i - 1) - 1, k \in T PROVE k + 1 \in T
        <3>1. /\ i - k \in 2 .. n /\ j - k \in 2 .. n /\ k + 1 \in 0 .. i - 1
              /\ (i - k) - 1 = i - (k + 1) /\ (j - k) - 1 = j - (k + 1)
            BY <1>1, <1>3
        <3>2. s[(i - k) - 1] = s[(j - k) - 1]
            BY <1>2, <2>2, <3>1
        <3> QED
            BY <3>1, <3>2
    <2>3. i - 1 \in Nat /\ i - 1 \in 0 .. i - 1
        BY <1>1
    <2> HIDE DEF T
    <2>4. i - 1 \in T
        BY <2>1, <2>2, <2>3, UpTo
    <2>5. /\ i - (i - 1) = 1 /\ j - (i - 1) \in 2 .. n
        BY <1>1, <1>3
    <2>6. s[1] = s[j - (i - 1)]
        BY <2>4, <2>5 DEF T
    <2>7. ParentOf(s[j - (i - 1)]) # Root
        BY <1>2, <2>5
    <2> QED
        BY <2>6, <2>7
<1> SUFFICES ASSUME NEW i \in 1 .. n, NEW j \in 1 .. n, s[i] = s[j] PROVE i = j
    BY DEF n
<1>4. ~(i < j) /\ ~(j < i)
    BY <1>3
<1> QED
    BY <1>1, <1>4

LEMMA RouteShort ==
    ASSUME NEW s, NEW r, Route(s, r), ParentOf(s[1]) = Root
    PROVE  Len(s) <= LastRecord + 1
<1> DEFINE n == Len(s)
           f == [i \in 1 .. n |-> s[i]]
<1>1. n \in Nat /\ n > 0
    BY RouteIs
<1>2. f \in [1 .. n -> Records]
    BY DEF Route
<1>3. \A i, j \in 1 .. n : f[i] = f[j] => i = j
    BY RouteOnce
<1>4. IsFiniteSet(1 .. n) /\ Cardinality(1 .. n) = n
    BY <1>1, FS_Interval
<1>5. IsFiniteSet(Records) /\ Cardinality(Records) = LastRecord + 1 /\ LastRecord \in Nat
    BY MftAssumption, FS_Interval DEF Records
<1> HIDE DEF n, f
<1>6. ~(Cardinality(Records) < Cardinality(1 .. n))
    <2> SUFFICES ASSUME Cardinality(Records) < Cardinality(1 .. n) PROVE FALSE
        OBVIOUS
    <2> DEFINE D == 1 .. n
    <2>1. f \in [D -> Records] /\ IsFiniteSet(D) /\ IsFiniteSet(Records) /\ Cardinality(Records) < Cardinality(D)
        BY <1>2, <1>4, <1>5
    <2> HIDE DEF D
    <2>2. \E x, y \in D : x # y /\ f[x] = f[y]
        BY <2>1, FS_PigeonHole
    <2> QED
        BY <1>3, <2>2 DEF D
<1> QED
    BY <1>1, <1>4, <1>5, <1>6 DEF n

\* It is the path of the file.
LEMMA PathIsRoute ==
    ASSUME NEW s, NEW r, Route(s, r), ParentOf(s[1]) = Root
    PROVE  PathTo(r) = s
<1> DEFINE n == Len(s)
           N == LastRecord
           Ends(v) == /\ IsSequence(v) /\ Len(v) > 0 /\ Len(v) <= n
                      /\ \A i \in 1 .. Len(v) : v[i] = s[(n - Len(v)) + i]
<1>1. n \in Nat /\ n > 0 /\ N \in Nat /\ n <= N + 1 /\ IsSequence(s)
    BY RouteIs, RouteShort, MftAssumption DEF Route
<1>2. PICK u : u[0] = <<r>> /\ u[N] = PathTo(r) /\ \A k \in 1 .. N : u[k] = Longer(u[k - 1])
    BY PathSteps
<1>3. s[n] = r /\ \A i \in 2 .. n : s[i - 1] = ParentOf(s[i]) /\ s[i - 1] # Root
    BY DEF Route
<1> HIDE DEF n, N
<1> DEFINE Holds(k) == Ends(u[k]) /\ (Len(u[k]) = n \/ Len(u[k]) = k + 1)
           T == {k \in 0 .. N : Holds(k)}
<1>4. 0 \in T
    <2>1. IsSequence(<<r>>) /\ Len(<<r>>) = 1 /\ <<r>>[1] = r
        BY OneIs
    <2>2. \A i \in 1 .. 1 : i = 1 /\ (n - 1) + i = n
        BY <1>1
    <2>3. Ends(<<r>>)
        <3>1. 1 <= n /\ 1 > 0
            BY <1>1
        <3> QED
            BY <1>3, <2>1, <2>2, <3>1
    <2> HIDE DEF Ends
    <2>4. Holds(0)
        BY <1>2, <2>1, <2>3
    <2> HIDE DEF Holds
    <2> QED
        BY <1>1, <2>4
<1>5. ASSUME NEW k \in 0 .. N - 1, k \in T PROVE k + 1 \in T
    <2> DEFINE v == u[k]
               l == Len(v)
    <2>1. k + 1 \in 1 .. N /\ k + 1 \in 0 .. N /\ (k + 1) - 1 = k
        BY <1>1
    <2>2. u[k + 1] = Longer(v) /\ Holds(k)
        BY <1>2, <1>5, <2>1
    <2>3. IsSequence(v) /\ l \in Nat /\ l > 0 /\ l <= n /\ \A i \in 1 .. l : v[i] = s[(n - l) + i]
        BY <2>2, SequenceIs
    <2>4. Head(v) = v[1] /\ 1 \in 1 .. l
        <3>1. v # <<>>
            BY <2>3, EmptyIs
        <3> QED
            BY <2>3, <3>1, TailIs
    <2>5. l = n \/ l = k + 1
        BY <2>2
    <2> HIDE DEF v, l, Ends
    <2>6. Head(v) = s[(n - l) + 1]
        BY <2>3, <2>4
    <2>7. CASE l = n
        <3>1. (n - l) + 1 = 1
            BY <1>1, <2>7
        <3>2. u[k + 1] = v
            BY <2>2, <2>6, <3>1 DEF Longer
        <3>3. Holds(k + 1)
            BY <2>2, <2>7, <3>2 DEF v, l
        <3> HIDE DEF Holds
        <3> QED
            BY <2>1, <3>3
    <2>8. CASE l # n
        <3> DEFINE p == ParentOf(Head(v))
        <3>1. (n - l) + 1 \in 2 .. n /\ ((n - l) + 1) - 1 = n - l
            BY <1>1, <2>3, <2>8
        <3>2. s[((n - l) + 1) - 1] = ParentOf(s[(n - l) + 1]) /\ s[((n - l) + 1) - 1] # Root
            BY <1>3, <3>1
        <3>3. p = s[n - l] /\ p # Root
            BY <2>6, <3>1, <3>2
        <3>4. u[k + 1] = <<p>> \o v
            BY <2>2, <3>3 DEF Longer
        <3> HIDE DEF p
        <3>5. IsSequence(<<p>>) /\ Len(<<p>>) = 1 /\ <<p>>[1] = p
            BY OneIs
        <3> DEFINE w == <<p>> \o v
        <3>6. /\ IsSequence(w) /\ Len(w) = 1 + l /\ w[1] = p
              /\ \A i \in 1 .. l : w[1 + i] = v[i]
            <4>1. 1 \in 1 .. 1
                OBVIOUS
            <4>2. /\ IsSequence(w) /\ Len(w) = Len(<<p>>) + Len(v)
                  /\ \A i \in 1 .. Len(<<p>>) : w[i] = <<p>>[i]
                  /\ \A i \in 1 .. Len(v) : w[Len(<<p>>) + i] = v[i]
                BY <2>3, <3>5, ConcatIs
            <4> HIDE DEF w
            <4> QED
                BY <3>5, <4>1, <4>2 DEF l
        <3> HIDE DEF w
        <3>7. ASSUME NEW i \in 1 .. 1 + l PROVE w[i] = s[(n - (1 + l)) + i]
            <4>1. CASE i = 1
                <5>1. (n - (1 + l)) + i = n - l
                    BY <1>1, <2>3, <4>1
                <5> QED
                    BY <3>3, <3>6, <4>1, <5>1
            <4>2. CASE i # 1
                <5>1. /\ i - 1 \in 1 .. l /\ 1 + (i - 1) = i
                      /\ (n - (1 + l)) + i = (n - l) + (i - 1)
                    BY <1>1, <2>3, <4>2
                <5>2. w[1 + (i - 1)] = v[i - 1] /\ v[i - 1] = s[(n - l) + (i - 1)]
                    BY <2>3, <3>6, <5>1
                <5> QED
                    BY <5>1, <5>2
            <4> QED
                BY <4>1, <4>2
        <3>8. 1 + l <= n /\ 1 + l > 0 /\ 1 + l = (k + 1) + 1
            BY <1>1, <2>3, <2>5, <2>8
        <3>9. Ends(w)
            BY <3>6, <3>7, <3>8 DEF Ends
        <3>10. u[k + 1] = w
            BY <3>4 DEF w
        <3>11. Holds(k + 1)
            BY <3>6, <3>8, <3>9, <3>10
        <3> HIDE DEF Holds
        <3> QED
            BY <2>1, <3>11
    <2> QED
        BY <2>7, <2>8
<1> HIDE DEF T
<1>6. \A k \in 0 .. N : k \in T
    BY <1>1, <1>4, <1>5, UpTo
<1>7. N \in T
    BY <1>1, <1>6
<1> DEFINE q == u[N]
<1>8. Ends(q) /\ (Len(q) = n \/ Len(q) = N + 1)
    BY <1>7 DEF T
<1>9. Len(q) = n
    <2>1. Len(q) \in Nat /\ Len(q) <= n
        BY <1>8, SequenceIs
    <2> QED
        BY <1>1, <1>8, <2>1
<1>10. \A i \in 1 .. n : (n - n) + i = i
    BY <1>1
<1> HIDE DEF q
<1>11. IsSequence(q) /\ \A i \in 1 .. n : q[i] = s[i]
    BY <1>8, <1>9, <1>10
<1>12. q = s
    BY <1>1, <1>9, <1>11, Same DEF n
<1> QED
    BY <1>2, <1>12 DEF q

-----------------------------------------------------------------------------
\* What is known of the names and directories of the files stays true: what is
\* told of a file which has been read, and the paths which have been built.
THEOREM PathInvIsInvariant == Spec => [](Inv /\ PathInv)
<1>1. Init => PathInv
    BY PathInit
<1>2. Inv /\ Inv' /\ PathInv /\ [Next]_vars => PathInv'
    <2> SUFFICES ASSUME Inv, Inv', PathInv, [Next]_vars PROVE PathInv'
        OBVIOUS
    <2>1. CASE UNCHANGED vars
        BY <2>1, NothingKeepsPaths
    <2>2. CASE Next
        <3>1. CASE Scan
            BY <3>1, SkipChildKeepsPaths, ReadBaseKeepsPaths, ReadListKeepsPaths, ReadChildKeepsPaths,
               FinishFileKeepsPaths, StopScanKeepsPaths, BeginPathKeepsPaths, ToParentKeepsPaths,
               EndPathKeepsPaths, RestKeepsPaths, RemoveStreamsKeepsPaths DEF Scan
        <3>2. CASE ReadFails \/ OthersWork \/ Stop
            BY <3>2, ReadFailsKeepsPaths, OthersKeepPaths, StopKeepsPaths
        <3>3. CASE Done
            BY <3>3, NothingKeepsPaths DEF Done
        <3> QED
            BY <2>2, <3>1, <3>2, <3>3 DEF Next
    <2> QED
        BY <2>1, <2>2
<1> QED
    BY <1>1, <1>2, InvIsInvariant, PTL DEF Spec

\* Whatever others do, whichever records cannot be read and whenever the scan is
\* stopped: a file which is listed has the path it really has, unless it or one
\* of the directories it lies in has been touched meanwhile.
THEOREM PathsAreTrue == Spec => []PathsTrue
<1>1. Inv /\ PathInv => PathsTrue
    <2> SUFFICES ASSUME Inv, PathInv, pc = "done", NEW i \in DOMAIN filelist,
                        IsBase(filelist[i].id), Len(PathTo(filelist[i].id)) <= MaxPath,
                        \A r \in Ancestors(filelist[i].id) : Settled(r) /\ ~Linked(r),
                        \A r \in Ancestors(filelist[i].id) \ {filelist[i].id} : ~Shadowed(r)
                 PROVE  LET e == filelist[i]
                        IN /\ Len(e.path) = Len(PathTo(e.id))
                           /\ \A n \in DOMAIN e.path :
                                LET r == PathTo(e.id)[n]
                                IN e.path[n] \in ProperNames(r) \X {IF r = e.id THEN e.stream ELSE ""}
        BY DEF PathsTrue
    <2>1. PICK e : e = filelist[i]
        OBVIOUS
    <2>2. PICK id : id = e.id
        OBVIOUS
    <2>3. IsItem(e) /\ id \in Records
        BY <2>1, <2>2 DEF Inv, Sound, IsFileList, IsItem
    <2>4. /\ id \in Ancestors(id) /\ Ancestors(id) \subseteq Records /\ Home(Ancestors(id))
        BY <2>1, <2>2, <2>3, AncestorsHome DEF Inv, PathInv
    <2>5. Leads(e.path, id, e.stream, Root)
        <3>1. Trusted(id)
            BY <2>4 DEF Trusted
        <3> QED
            BY <2>1, <2>2, <3>1 DEF PathInv, Truthful
    <2>6. PICK s : Route(s, id) /\ ParentOf(s[1]) = Root /\ Shows(e.path, s, e.stream)
        BY <2>5 DEF Leads
    <2>7. PathTo(id) = s
        BY <2>6, PathIsRoute
    <2>8. \A n, m \in 1 .. Len(s) : s[n] = s[m] => n = m
        BY <2>6, RouteOnce
    <2>9. Len(s) \in Nat /\ Len(s) > 0 /\ s[Len(s)] = id
        BY <2>6, RouteIs DEF Route
    <2>10. \A n \in 1 .. Len(s) : s[n] = id <=> n = Len(s)
        BY <2>8, <2>9
    <2>11. \A n \in 1 .. Len(s) - 1 : ~Shadowed(s[n])
        <3>1. \A n \in 1 .. Len(s) : s[n] \in Ancestors(id)
            BY <2>4, <2>6, RouteAtHome
        <3>2. \A n \in 1 .. Len(s) - 1 : n \in 1 .. Len(s) /\ n # Len(s)
            BY <2>9
        <3> QED
            BY <2>1, <2>2, <2>10, <3>1, <3>2
    <2>12. /\ Len(e.path) = Len(s)
           /\ \A n \in 1 .. Len(s) :
                e.path[n] \in ProperNames(s[n]) \X {IF n = Len(s) THEN e.stream ELSE Unnamed}
        BY <2>1, <2>2, <2>6, <2>7, <2>11 DEF Shows
    <2>13. DOMAIN e.path = 1 .. Len(e.path)
        BY <2>3, SequenceIs DEF IsItem
    <2>14. \A n \in DOMAIN e.path :
                e.path[n] \in ProperNames(s[n]) \X {IF s[n] = id THEN e.stream ELSE Unnamed}
        BY <2>10, <2>12, <2>13
    <2> QED
        BY <2>1, <2>2, <2>7, <2>12, <2>14, Zenon DEF Unnamed
<1> QED
    BY <1>1, PathInvIsInvariant, PTL
=============================================================================
