------------------------------ MODULE NodeProofs ------------------------------
(***************************************************************************)
(* Theorems about the marker text: what canonicalization does to any text, *)
(* and what a command does to any node, whatever its fragments contain.    *)
(***************************************************************************)
EXTENDS Node, SequenceTheorems, WellFoundedInduction, NaturalsInduction, TLAPS

-----------------------------------------------------------------------------
(* Least numbers and induction over the first numbers                      *)

(* A set of numbers that is not empty has a least one.                     *)
LEMMA LeastExists ==
    ASSUME NEW S \in SUBSET Nat, S # {}
    PROVE  \E m \in S : \A s \in S : m <= s
<1>1. PICK m \in S : \A s \in S : ~(<<s, m>> \in OpToRel(<, Nat))
    BY NatLessThanWellFounded, WFMin
<1>2. ASSUME NEW s \in S
      PROVE  m <= s
    <2>1. s < m => <<s, m>> \in OpToRel(<, Nat)
        BY DEF OpToRel
    <2>2. ~(s < m) /\ s \in Nat /\ m \in Nat
        BY <1>1, <2>1
    <2>3. QED
        BY <2>2
<1>3. QED
    BY <1>2

(* Induction over the first numbers, for a set of them.                    *)
LEMMA UpTo ==
    ASSUME NEW N \in Nat, NEW T, 0 \in T,
           \A n \in Nat : n \in T /\ n < N => n + 1 \in T
    PROVE  \A n \in 0 .. N : n \in T
<1> DEFINE missing == {n \in 0 .. N : n \notin T}
<1>1. SUFFICES ASSUME missing # {} PROVE FALSE
    OBVIOUS
<1>2. missing \in SUBSET Nat
    OBVIOUS
<1>3. PICK m \in missing : \A s \in missing : m <= s
    BY <1>1, <1>2, LeastExists
<1>4. m \in Nat /\ m <= N /\ m \notin T /\ m # 0
    BY <1>3
<1>5. m - 1 \in Nat /\ m - 1 < N /\ (m - 1) + 1 = m
    BY <1>4
<1>6. m - 1 \notin T
    BY <1>4, <1>5
<1>7. m - 1 \in missing
    BY <1>5, <1>6
<1>8. ~(m <= m - 1)
    BY <1>4
<1>9. QED
    BY <1>3, <1>7, <1>8

-----------------------------------------------------------------------------
(* Min is the least member.                                                *)
LEMMA MinIsLeast ==
    ASSUME NEW S \in SUBSET Nat, S # {}
    PROVE  Min(S) \in S /\ \A s \in S : Min(S) <= s
<1>1. \E m \in S : \A s \in S : m <= s
    BY LeastExists
<1>2. QED
    BY <1>1 DEF Min

-----------------------------------------------------------------------------
(* Sequences put together from pieces                                      *)

\* The first n pieces put together, for every n.
Pieces(ss, g) ==
    /\ g[0] = << >>
    /\ \A n \in 1 .. Len(ss) : g[n] = g[n - 1] \o ss[n]

Joined(ss) ==
    CHOOSE g : /\ DOMAIN g = 0 .. Len(ss) /\ Pieces(ss, g)
               /\ g[Len(ss)] = FlattenSeq(ss)

\* Where the n-th piece ends.
Off(ss, n) == Len(Joined(ss)[n])

(* The library's recursive function over the pieces exists.                *)
LEMMA FlattenExists ==
    ASSUME NEW ss, NEW N \in Nat, N # 0
    PROVE  \E f : f = [i \in 1 .. N |-> IF i = 1 THEN ss[i] ELSE f[i - 1] \o ss[i]]
<1> DEFINE Is(f, n) == f = [i \in 1 .. n |-> IF i = 1 THEN ss[i] ELSE f[i - 1] \o ss[i]]
           T == {n \in 0 .. N : \E f : Is(f, n)}
<1>1. 0 \in T
    <2>1. [i \in 1 .. 0 |-> 0] = [i \in 1 .. 0 |->
                IF i = 1 THEN ss[i] ELSE [j \in 1 .. 0 |-> 0][i - 1] \o ss[i]]
        <3>1. 1 .. 0 = {}
            OBVIOUS
        <3>2. QED
            BY <3>1
    <2>2. Is([i \in 1 .. 0 |-> 0], 0)
        BY <2>1
    <2> HIDE DEF Is
    <2>3. QED
        BY <2>2
<1>2. ASSUME NEW m \in Nat, m \in T, m < N
      PROVE  m + 1 \in T
    <2>1. PICK f : Is(f, m)
        BY <1>2
    <2> DEFINE g == [i \in 1 .. m + 1 |->
                        IF i = m + 1 THEN IF i = 1 THEN ss[i] ELSE f[m] \o ss[i] ELSE f[i]]
    <2>2. ASSUME NEW i \in 1 .. m + 1
          PROVE  g[i] = IF i = 1 THEN ss[i] ELSE g[i - 1] \o ss[i]
        <3>1. CASE i = m + 1
            <4>1. g[i] = IF i = 1 THEN ss[i] ELSE f[m] \o ss[i]
                BY <3>1
            <4>2. i # 1 => i - 1 = m /\ m \in 1 .. m + 1 /\ m # m + 1
                BY <3>1, <1>2
            <4>3. i # 1 => g[i - 1] = f[m]
                BY <4>2
            <4>4. QED
                BY <4>1, <4>3
        <3>2. CASE i # m + 1
            <4>1. i \in 1 .. m /\ g[i] = f[i]
                BY <3>2, <1>2
            <4>2. f[i] = IF i = 1 THEN ss[i] ELSE f[i - 1] \o ss[i]
                BY <2>1, <4>1
            <4>3. i # 1 => i - 1 \in 1 .. m + 1 /\ i - 1 # m + 1
                BY <4>1, <1>2
            <4>4. i # 1 => g[i - 1] = f[i - 1]
                BY <4>3
            <4>5. QED
                BY <4>1, <4>2, <4>4
        <3>3. QED
            BY <3>1, <3>2
    <2>3. g = [i \in 1 .. m + 1 |-> IF i = 1 THEN ss[i] ELSE g[i - 1] \o ss[i]]
        <3>1. g = [i \in 1 .. m + 1 |-> g[i]]
            OBVIOUS
        <3> HIDE DEF g
        <3>2. [i \in 1 .. m + 1 |-> g[i]]
                = [i \in 1 .. m + 1 |-> IF i = 1 THEN ss[i] ELSE g[i - 1] \o ss[i]]
            BY <2>2
        <3>3. QED
            BY <3>1, <3>2
    <2> HIDE DEF g
    <2>4. Is(g, m + 1)
        BY <2>3
    <2>5. m + 1 \in 0 .. N
        BY <1>2
    <2>6. QED
        BY <2>4, <2>5
<1>3. N \in T
    <2> HIDE DEF T
    <2>1. \A n \in 0 .. N : n \in T
        BY <1>1, <1>2, UpTo
    <2>2. QED
        BY <2>1
<1>4. QED
    BY <1>3

(* What is flattened is joined piece by piece.                             *)
LEMMA JoinedPieces ==
    ASSUME NEW S, NEW ss \in Seq(Seq(S))
    PROVE  /\ DOMAIN Joined(ss) = 0 .. Len(ss) /\ Pieces(ss, Joined(ss))
           /\ Joined(ss)[Len(ss)] = FlattenSeq(ss)
<1>1. PICK N \in Nat : N = Len(ss)
    BY LenProperties
<1>2. \A n \in 1 .. N : ss[n] \in Seq(S)
    BY <1>1, ElementOfSeq
<1> DEFINE Fits(g) == /\ DOMAIN g = 0 .. N /\ Pieces(ss, g) /\ g[N] = FlattenSeq(ss)
<1>3. \E g : Fits(g)
    <2>1. CASE N = 0
        <3>1. ss = << >>
            BY <1>1, <2>1, EmptySeq
        <3>2. FlattenSeq(ss) = << >>
            BY <1>1, <2>1, <3>1 DEF FlattenSeq
        <3> DEFINE g == [n \in 0 .. N |-> << >>]
        <3>3. DOMAIN g = 0 .. N /\ g[0] = << >> /\ g[N] = << >>
            BY <2>1
        <3>4. \A n \in 1 .. Len(ss) : FALSE
            BY <1>1, <2>1
        <3> HIDE DEF g
        <3>5. Fits(g)
            BY <3>2, <3>3, <3>4 DEF Pieces
        <3>6. QED
            BY <3>5
    <2>2. CASE N # 0
        <3> DEFINE Is(f) == f = [i \in 1 .. N |-> IF i = 1 THEN ss[i] ELSE f[i - 1] \o ss[i]]
                   f0 == CHOOSE f : Is(f)
        <3>1. \E f : Is(f)
            BY <2>2, FlattenExists
        <3>2. Is(f0)
            <4> HIDE DEF Is
            <4>1. QED
                BY <3>1
        <3>3. FlattenSeq(ss) = f0[N]
            BY <1>1, <2>2 DEF FlattenSeq
        <3> DEFINE g == [n \in 0 .. N |-> IF n = 0 THEN << >> ELSE f0[n]]
        <3>4. DOMAIN g = 0 .. N /\ g[0] = << >> /\ g[N] = f0[N]
            BY <2>2
        <3>5. ASSUME NEW n \in 1 .. N
              PROVE  g[n] = g[n - 1] \o ss[n]
            <4>1. n \in 0 .. N /\ n # 0 /\ g[n] = f0[n]
                OBVIOUS
            <4>2. f0[n] = IF n = 1 THEN ss[n] ELSE f0[n - 1] \o ss[n]
                <5> HIDE DEF f0
                <5>1. QED
                    BY <3>2
            <4>3. CASE n = 1
                <5>1. g[n - 1] = << >>
                    BY <3>4, <4>3
                <5>2. << >> \o ss[n] = ss[n]
                    BY <1>2, ConcatEmptySeq
                <5> HIDE DEF g, f0
                <5>3. QED
                    BY <4>1, <4>2, <4>3, <5>1, <5>2
            <4>4. CASE n # 1
                <5>1. n - 1 \in 0 .. N /\ n - 1 # 0
                    BY <4>4
                <5>2. g[n - 1] = f0[n - 1]
                    BY <5>1
                <5> HIDE DEF g, f0
                <5>3. QED
                    BY <4>1, <4>2, <4>4, <5>2
            <4>5. QED
                BY <4>3, <4>4
        <3> HIDE DEF g, f0
        <3>6. Fits(g)
            BY <1>1, <3>3, <3>4, <3>5 DEF Pieces
        <3>7. QED
            BY <3>6
    <2>3. QED
        BY <2>1, <2>2
<1>4. Joined(ss) = CHOOSE g : Fits(g)
    BY <1>1 DEF Joined
<1>5. Fits(Joined(ss))
    <2> HIDE DEF Fits
    <2>1. QED
        BY <1>3, <1>4
<1>6. QED
    BY <1>1, <1>5

(* Where the pieces lie in what is joined from them.                       *)
LEMMA OffIs ==
    ASSUME NEW S, NEW ss \in Seq(Seq(S))
    PROVE  /\ Off(ss, 0) = 0 /\ Off(ss, Len(ss)) = Len(FlattenSeq(ss))
           /\ \A n \in 0 .. Len(ss) : Joined(ss)[n] \in Seq(S) /\ Off(ss, n) \in Nat
           /\ \A n \in 1 .. Len(ss) : /\ ss[n] \in Seq(S) /\ Len(ss[n]) \in Nat
                                      /\ Off(ss, n) = Off(ss, n - 1) + Len(ss[n])
           /\ FlattenSeq(ss) \in Seq(S)
<1>1. PICK N \in Nat : N = Len(ss)
    BY LenProperties
<1>2. \A n \in 1 .. N : ss[n] \in Seq(S) /\ Len(ss[n]) \in Nat
    BY <1>1, ElementOfSeq, LenProperties
<1>3. /\ Joined(ss)[0] = << >> /\ Joined(ss)[N] = FlattenSeq(ss)
      /\ \A n \in 1 .. N : Joined(ss)[n] = Joined(ss)[n - 1] \o ss[n]
    BY <1>1, JoinedPieces DEF Pieces
<1> DEFINE T == {n \in 0 .. N : Joined(ss)[n] \in Seq(S)}
<1>4. 0 \in T
    <2>1. 0 \in 0 .. N /\ << >> \in Seq(S)
        BY EmptySeq
    <2>2. QED
        BY <1>3, <2>1
<1>5. ASSUME NEW n \in Nat, n \in T, n < N
      PROVE  n + 1 \in T
    <2>1. n + 1 \in 1 .. N /\ n + 1 \in 0 .. N /\ (n + 1) - 1 = n
        BY <1>5
    <2>2. Joined(ss)[n + 1] = Joined(ss)[n] \o ss[n + 1] /\ ss[n + 1] \in Seq(S)
        BY <1>2, <1>3, <2>1
    <2>3. Joined(ss)[n] \o ss[n + 1] \in Seq(S)
        BY <1>5, <2>2, ConcatProperties
    <2>4. QED
        BY <2>1, <2>2, <2>3
<1>6. \A n \in 0 .. N : n \in T
    <2> HIDE DEF T
    <2>1. QED
        BY <1>4, <1>5, UpTo
<1>7. \A n \in 0 .. N : Joined(ss)[n] \in Seq(S) /\ Off(ss, n) \in Nat
    BY <1>6, LenProperties DEF Off
<1>8. ASSUME NEW n \in 1 .. N
      PROVE  Off(ss, n) = Off(ss, n - 1) + Len(ss[n])
    <2>1. n - 1 \in 0 .. N
        BY <1>8
    <2>2. Joined(ss)[n - 1] \in Seq(S) /\ ss[n] \in Seq(S)
        BY <1>2, <1>7, <2>1
    <2>3. Len(Joined(ss)[n - 1] \o ss[n]) = Len(Joined(ss)[n - 1]) + Len(ss[n])
        BY <2>2, ConcatProperties
    <2>4. QED
        BY <1>3, <2>3 DEF Off
<1>9. Off(ss, 0) = 0
    BY <1>3, EmptySeq DEF Off
<1>10. N \in 0 .. N
    OBVIOUS
<1>11. QED
    BY <1>1, <1>2, <1>3, <1>7, <1>8, <1>9, <1>10 DEF Off

(* Later pieces end later, and what is joined is kept in what it grows to. *)
LEMMA OffGrows ==
    ASSUME NEW S, NEW ss \in Seq(Seq(S)), NEW m \in 0 .. Len(ss), NEW n \in m .. Len(ss)
    PROVE  /\ Off(ss, m) <= Off(ss, n)
           /\ \A k \in 1 .. Off(ss, m) : Joined(ss)[n][k] = Joined(ss)[m][k]
<1>1. PICK N \in Nat : N = Len(ss)
    BY LenProperties
<1>2. /\ \A j \in 0 .. N : Joined(ss)[j] \in Seq(S) /\ Off(ss, j) \in Nat
      /\ \A j \in 1 .. N : /\ ss[j] \in Seq(S) /\ Len(ss[j]) \in Nat
                           /\ Off(ss, j) = Off(ss, j - 1) + Len(ss[j])
    BY <1>1, OffIs
<1>3. \A j \in 1 .. N : Joined(ss)[j] = Joined(ss)[j - 1] \o ss[j]
    BY <1>1, JoinedPieces DEF Pieces
<1>4. m \in Nat /\ n \in Nat /\ m <= n /\ n <= N
    BY <1>1
<1> DEFINE Grown(j) == /\ Off(ss, m) <= Off(ss, j)
                       /\ \A k \in 1 .. Off(ss, m) : Joined(ss)[j][k] = Joined(ss)[m][k]
           M == n - m
           T == {d \in 0 .. M : Grown(m + d)}
<1>5. M \in Nat /\ m + 0 = m /\ m + M = n
    BY <1>4
<1>6. 0 \in T
    <2>1. m \in 0 .. N /\ 0 \in 0 .. M
        BY <1>4, <1>5
    <2>2. Grown(m)
        BY <1>2, <2>1
    <2> HIDE DEF Grown, M
    <2>3. QED
        BY <1>5, <2>1, <2>2
<1>7. ASSUME NEW d \in Nat, d \in T, d < M
      PROVE  d + 1 \in T
    <2> DEFINE j == m + d
               i == m + (d + 1)
    <2>1. /\ d + 1 \in 0 .. M /\ i \in 1 .. N /\ i - 1 = j /\ j \in 0 .. N
          /\ m \in 0 .. N
        BY <1>4, <1>7
    <2>2. Grown(j)
        BY <1>7
    <2>3. PICK a \in Nat, b \in Nat, c \in Nat :
              a = Off(ss, m) /\ b = Off(ss, j) /\ c = Len(ss[i])
        BY <1>2, <2>1
    <2> HIDE DEF i, j, M
    <2>4. Off(ss, i) = b + c /\ a <= b
        BY <1>2, <2>1, <2>2, <2>3
    <2>5. /\ Joined(ss)[i] = Joined(ss)[j] \o ss[i] /\ Joined(ss)[j] \in Seq(S)
          /\ ss[i] \in Seq(S) /\ Len(Joined(ss)[j]) = b
        BY <1>2, <1>3, <2>1, <2>3 DEF Off
    <2>6. \A k \in 1 .. b + c :
              (Joined(ss)[j] \o ss[i])[k] = IF k <= b THEN Joined(ss)[j][k] ELSE ss[i][k - b]
        <3> DEFINE u == Joined(ss)[j]
                   v == ss[i]
        <3>1. u \in Seq(S) /\ v \in Seq(S) /\ Len(u) = b /\ Len(v) = c
            BY <2>3, <2>5
        <3> HIDE DEF u, v
        <3>2. \A k \in 1 .. b + c : (u \o v)[k] = IF k <= b THEN u[k] ELSE v[k - b]
            BY <3>1, ConcatProperties
        <3>3. QED
            BY <3>2 DEF u, v
    <2>7. \A k \in 1 .. a : Joined(ss)[i][k] = Joined(ss)[m][k]
        <3>1. \A k \in 1 .. a : k \in 1 .. b + c /\ k <= b
            BY <2>4
        <3>2. QED
            BY <2>2, <2>3, <2>5, <2>6, <3>1
    <2>8. Grown(i)
        BY <2>3, <2>4, <2>7
    <2> HIDE DEF Grown
    <2>9. QED
        BY <2>1, <2>8 DEF i
<1>8. M \in T
    <2> HIDE DEF T
    <2>1. \A d \in 0 .. M : d \in T
        BY <1>5, <1>6, <1>7, UpTo
    <2>2. QED
        BY <1>5, <2>1
<1>9. Grown(m + M)
    BY <1>8
<1>10. QED
    <2> HIDE DEF Grown, M
    <2>1. Grown(n)
        BY <1>5, <1>9
    <2>2. QED
        BY <2>1 DEF Grown

(* Each symbol of a piece is found in the whole.                           *)
LEMMA PieceIsThere ==
    ASSUME NEW S, NEW ss \in Seq(Seq(S)), NEW n \in 1 .. Len(ss), NEW k \in 1 .. Len(ss[n])
    PROVE  /\ Off(ss, n - 1) + k \in 1 .. Len(FlattenSeq(ss))
           /\ FlattenSeq(ss)[Off(ss, n - 1) + k] = ss[n][k]
<1>1. PICK N \in Nat : N = Len(ss)
    BY LenProperties
<1>2. n \in Nat /\ n \in 0 .. N /\ n - 1 \in 0 .. N /\ N \in n .. N /\ N \in 0 .. N
    BY <1>1
<1>3. PICK a \in Nat, c \in Nat, l \in Nat :
          a = Off(ss, n - 1) /\ c = Len(ss[n]) /\ l = Off(ss, N)
    BY <1>1, <1>2, OffIs
<1>4. /\ Off(ss, n) = a + c /\ ss[n] \in Seq(S) /\ Joined(ss)[n - 1] \in Seq(S)
      /\ Len(FlattenSeq(ss)) = l
    BY <1>1, <1>2, <1>3, OffIs
<1>5. a + c <= l /\ \A i \in 1 .. a + c : FlattenSeq(ss)[i] = Joined(ss)[n][i]
    <2>1. n \in 0 .. Len(ss) /\ N \in n .. Len(ss)
        BY <1>1, <1>2
    <2>2. /\ Off(ss, n) <= Off(ss, N)
          /\ \A i \in 1 .. Off(ss, n) : Joined(ss)[N][i] = Joined(ss)[n][i]
        BY <2>1, OffGrows
    <2>3. Joined(ss)[N] = FlattenSeq(ss)
        BY <1>1, JoinedPieces
    <2>4. QED
        BY <1>3, <1>4, <2>2, <2>3
<1>6. Joined(ss)[n] = Joined(ss)[n - 1] \o ss[n]
    BY <1>1, JoinedPieces DEF Pieces
<1>7. \A i \in 1 .. a + c : (Joined(ss)[n - 1] \o ss[n])[i] =
            IF i <= a THEN Joined(ss)[n - 1][i] ELSE ss[n][i - a]
    BY <1>3, <1>4, ConcatProperties DEF Off
<1>8. k \in 1 .. c
    BY <1>3
<1>9. a + k \in 1 .. a + c /\ a + k \in 1 .. l /\ ~(a + k <= a) /\ (a + k) - a = k
    BY <1>5, <1>8
<1>10. QED
    BY <1>3, <1>4, <1>5, <1>6, <1>7, <1>9

(* ... and each symbol of the whole belongs to a piece.                    *)
LEMMA PieceOf ==
    ASSUME NEW S, NEW ss \in Seq(Seq(S)), NEW k \in 1 .. Len(FlattenSeq(ss))
    PROVE  \E n \in 1 .. Len(ss) :
              /\ Off(ss, n - 1) < k /\ k <= Off(ss, n) /\ k - Off(ss, n - 1) \in 1 .. Len(ss[n])
              /\ FlattenSeq(ss)[k] = ss[n][k - Off(ss, n - 1)]
<1>1. PICK N \in Nat : N = Len(ss)
    BY LenProperties
<1>2. PICK l \in Nat : l = Len(FlattenSeq(ss))
    BY OffIs, LenProperties
<1>3. /\ Off(ss, 0) = 0 /\ Off(ss, N) = l
      /\ \A j \in 0 .. N : Off(ss, j) \in Nat
      /\ \A j \in 1 .. N : Len(ss[j]) \in Nat /\ Off(ss, j) = Off(ss, j - 1) + Len(ss[j])
    BY <1>1, <1>2, OffIs
<1> DEFINE reached == {j \in 0 .. N : k <= Off(ss, j)}
<1>4. reached \in SUBSET Nat /\ N \in reached /\ k \in Nat /\ k >= 1
    BY <1>1, <1>2, <1>3
<1>5. PICK n \in reached : \A j \in reached : n <= j
    <2>1. reached # {}
        BY <1>4
    <2> HIDE DEF reached
    <2>2. QED
        BY <1>4, <2>1, LeastExists
<1>6. n \in 0 .. N /\ k <= Off(ss, n) /\ n # 0
    BY <1>3, <1>4, <1>5
<1>7. n \in 1 .. N /\ n - 1 \in 0 .. N /\ ~(n <= n - 1)
    BY <1>6
<1>8. n - 1 \notin reached
    <2> HIDE DEF reached
    <2>1. QED
        BY <1>5, <1>7
<1>9. Off(ss, n - 1) < k
    BY <1>3, <1>4, <1>7, <1>8
<1>10. PICK a \in Nat, c \in Nat : a = Off(ss, n - 1) /\ c = Len(ss[n])
    BY <1>3, <1>7
<1>11. k - a \in 1 .. c /\ a + (k - a) = k
    <2>1. Off(ss, n) = a + c /\ k <= a + c /\ a < k
        BY <1>3, <1>6, <1>7, <1>9, <1>10
    <2>2. QED
        BY <1>4, <1>10, <2>1
<1>12. FlattenSeq(ss)[a + (k - a)] = ss[n][k - a]
    <2> DEFINE j == k - a
    <2>1. j \in 1 .. Len(ss[n]) /\ n \in 1 .. Len(ss)
        BY <1>1, <1>7, <1>10, <1>11
    <2> HIDE DEF j
    <2>2. FlattenSeq(ss)[a + j] = ss[n][j]
        BY <1>10, <2>1, PieceIsThere
    <2>3. QED
        BY <2>2 DEF j
<1>13. QED
    BY <1>1, <1>6, <1>7, <1>9, <1>10, <1>11, <1>12

(* A function from the first numbers is a sequence.                        *)
LEMMA FunctionIsSeq ==
    ASSUME NEW T, NEW n \in Nat, NEW f \in [1 .. n -> T]
    PROVE  f \in Seq(T) /\ Len(f) = n
<1>1. f \in Seq(T)
    BY SeqDef
<1>2. Len(f) \in Nat /\ 1 .. Len(f) = 1 .. n
    BY <1>1, LenProperties
<1>3. QED
    BY <1>1, <1>2

(* Pieces of one symbol each are the text itself.                          *)
LEMMA FlattenSingles ==
    ASSUME NEW S, NEW ss \in Seq(Seq(S)), NEW s \in Seq(S), Len(ss) = Len(s),
           \A i \in 1 .. Len(s) : ss[i] = <<s[i]>>
    PROVE  FlattenSeq(ss) = s
<1>1. PICK N \in Nat : N = Len(s)
    BY LenProperties
<1>2. /\ Off(ss, 0) = 0 /\ Off(ss, N) = Len(FlattenSeq(ss)) /\ FlattenSeq(ss) \in Seq(S)
      /\ \A j \in 0 .. N : Off(ss, j) \in Nat
      /\ \A j \in 1 .. N : Off(ss, j) = Off(ss, j - 1) + Len(ss[j])
    BY <1>1, OffIs
<1>3. \A i \in 1 .. N : ss[i] = <<s[i]>> /\ Len(ss[i]) = 1 /\ ss[i][1] = s[i]
    <2>1. \A x : Len(<<x>>) = 1 /\ <<x>>[1] = x
        OBVIOUS
    <2>2. \A i \in 1 .. N : ss[i] = <<s[i]>>
        BY <1>1
    <2>3. QED
        BY <2>1, <2>2
<1> DEFINE T == {n \in 0 .. N : Off(ss, n) = n}
<1>4. 0 \in T
    BY <1>1, <1>2
<1>5. ASSUME NEW n \in Nat, n \in T, n < N
      PROVE  n + 1 \in T
    <2>1. n + 1 \in 1 .. N /\ n + 1 \in 0 .. N /\ (n + 1) - 1 = n
        BY <1>1, <1>5
    <2>2. Off(ss, n + 1) = Off(ss, n) + Len(ss[n + 1]) /\ Len(ss[n + 1]) = 1
        BY <1>2, <1>3, <2>1
    <2>3. QED
        BY <1>5, <2>1, <2>2
<1>6. \A n \in 0 .. N : n \in T
    <2> HIDE DEF T
    <2>1. QED
        BY <1>1, <1>4, <1>5, UpTo
<1>7. Len(FlattenSeq(ss)) = N
    BY <1>1, <1>2, <1>6
<1>8. ASSUME NEW i \in 1 .. N
      PROVE  FlattenSeq(ss)[i] = s[i]
    <2>1. i - 1 \in 0 .. N /\ (i - 1) + 1 = i /\ 1 \in 1 .. 1
        BY <1>8
    <2>2. Off(ss, i - 1) = i - 1
        BY <1>6, <2>1
    <2>3. i \in 1 .. Len(ss) /\ 1 \in 1 .. Len(ss[i])
        BY <1>1, <1>3
    <2>4. FlattenSeq(ss)[Off(ss, i - 1) + 1] = ss[i][1]
        BY <2>3, PieceIsThere
    <2>5. QED
        BY <1>3, <2>1, <2>2, <2>4
<1>9. QED
    BY <1>1, <1>2, <1>7, <1>8, SeqEqual

(* Appending comes after concatenating.                                    *)
LEMMA ConcatAppend ==
    ASSUME NEW S, NEW s \in Seq(S), NEW u \in Seq(S), NEW e \in S
    PROVE  /\ s \o Append(u, e) = Append(s \o u, e) /\ Append(s \o u, e) \in Seq(S)
           /\ (s \o u) \o <<e>> = s \o (u \o <<e>>)
<1>1. <<e>> \in Seq(S) /\ s \o u \in Seq(S)
    BY ConcatProperties
<1>2. Append(u, e) = u \o <<e>> /\ Append(s \o u, e) = (s \o u) \o <<e>>
    BY <1>1, AppendIsConcat
<1>3. (s \o u) \o <<e>> = s \o (u \o <<e>>)
    BY <1>1, ConcatAssociative
<1>4. QED
    BY <1>1, <1>2, <1>3, ConcatProperties

-----------------------------------------------------------------------------
(* Physical lines                                                          *)

(* The content of a line goes up to its first break.                       *)
LEMMA ContentEndIs ==
    ASSUME NEW S, NEW t \in Seq(S), NEW s \in 1 .. Len(t)
    PROVE  /\ ContentEnd(t, s) \in s .. (Len(t) + 1)
           /\ ContentEnd(t, s) = Len(t) + 1 \/ t[ContentEnd(t, s)] \in {CR, LF}
           /\ \A i \in s .. (ContentEnd(t, s) - 1) : t[i] \notin {CR, LF}
<1>1. PICK N \in Nat : N = Len(t)
    BY LenProperties
<1> DEFINE M == {i \in s .. (N + 1) : i = N + 1 \/ t[i] \in {CR, LF}}
<1>2. M \in SUBSET Nat /\ N + 1 \in M
    BY <1>1
<1>3. ContentEnd(t, s) = Min(M)
    BY <1>1 DEF ContentEnd
<1>4. Min(M) \in M /\ \A i \in M : Min(M) <= i
    <2>1. M # {}
        BY <1>2
    <2> HIDE DEF M
    <2>2. QED
        BY <1>2, <2>1, MinIsLeast
<1>5. PICK m \in M : m = Min(M) /\ \A i \in M : m <= i
    BY <1>4
<1>6. m \in s .. (N + 1) /\ (m = N + 1 \/ t[m] \in {CR, LF})
    BY <1>5
<1>7. ASSUME NEW i \in s .. (m - 1)
      PROVE  t[i] \notin {CR, LF}
    <2>1. i \in s .. (N + 1) /\ ~(m <= i)
        BY <1>1, <1>6, <1>7
    <2>2. i \notin M
        <3> HIDE DEF M
        <3>1. QED
            BY <1>5, <2>1
    <2>3. QED
        BY <2>1, <2>2
<1>8. QED
    BY <1>1, <1>3, <1>5, <1>6, <1>7

(* A line is the symbols of its content.                                   *)
LEMMA LineIs ==
    ASSUME NEW S, NEW t \in Seq(S), NEW s \in 1 .. Len(t)
    PROVE  /\ Line(t, s) \in Seq(S) /\ Len(Line(t, s)) = ContentEnd(t, s) - s
           /\ \A k \in 1 .. (ContentEnd(t, s) - s) : Line(t, s)[k] = t[s + k - 1]
<1>1. PICK N \in Nat : N = Len(t)
    BY LenProperties
<1>2. PICK c \in s .. (N + 1) : c = ContentEnd(t, s)
    BY <1>1, ContentEndIs
<1>3. s \in Int /\ c - 1 \in Int /\ \A i \in s .. (c - 1) : t[i] \in S
    <2>1. \A i \in s .. (c - 1) : i \in 1 .. N
        BY <1>1, <1>2
    <2>2. QED
        BY <1>1, <1>2, <2>1, ElementOfSeq
<1> DEFINE d == c - 1
<1>4. /\ SubSeq(t, s, d) \in Seq(S)
      /\ Len(SubSeq(t, s, d)) = IF s <= d THEN d - s + 1 ELSE 0
      /\ \A k \in 1 .. d - s + 1 : SubSeq(t, s, d)[k] = t[s + k - 1]
    <2>1. d \in Int /\ \A i \in s .. d : t[i] \in S
        BY <1>3
    <2> HIDE DEF d
    <2>2. QED
        BY <1>3, <2>1, SubSeqProperties
<1>5. /\ d - s + 1 = c - s /\ (s <= d \/ c - s = 0)
    BY <1>1, <1>2
<1>6. Line(t, s) = SubSeq(t, s, d)
    BY <1>2 DEF Line
<1> HIDE DEF d
<1>7. QED
    BY <1>2, <1>4, <1>5, <1>6

(* A physical line ends with its break or with the text.                   *)
LEMMA LineEndIs ==
    ASSUME NEW S, NEW t \in Seq(S), NEW s \in 1 .. Len(t)
    PROVE  /\ LineEnd(t, s) \in s .. Len(t) /\ Ends(t, LineEnd(t, s))
           /\ \A i \in s .. (LineEnd(t, s) - 1) : ~Ends(t, i)
<1>1. PICK N \in Nat : N = Len(t)
    BY LenProperties
<1> DEFINE M == {i \in s .. N : Ends(t, i)}
<1>2. M \in SUBSET Nat /\ N \in M
    BY <1>1 DEF Ends
<1>3. LineEnd(t, s) = Min(M)
    BY <1>1 DEF LineEnd
<1>4. PICK m \in M : m = Min(M) /\ \A i \in M : m <= i
    <2>1. M # {}
        BY <1>2
    <2> HIDE DEF M
    <2>2. QED
        BY <1>2, <2>1, MinIsLeast
<1>5. m \in s .. N /\ Ends(t, m)
    BY <1>4
<1>6. ASSUME NEW i \in s .. (m - 1)
      PROVE  ~Ends(t, i)
    <2>1. i \in s .. N /\ ~(m <= i)
        BY <1>1, <1>5, <1>6
    <2>2. i \notin M
        <3> HIDE DEF M
        <3>1. QED
            BY <1>4, <2>1
    <2>3. QED
        BY <2>1, <2>2
<1>7. QED
    BY <1>1, <1>3, <1>4, <1>5, <1>6

\* A line begins at i, seen from the two symbols around its beginning.
Begins(t, i) == i = 1 \/ t[i - 1] = LF \/ (t[i - 1] = CR /\ t[i] # LF)

(* Whether a line begins somewhere is a matter of two symbols.             *)
LEMMA StartsAre ==
    ASSUME NEW S, NEW t \in Seq(S), NEW i
    PROVE  i \in LineStarts(t) <=> i \in 1 .. Len(t) /\ Begins(t, i)
<1>1. PICK N \in Nat : N = Len(t)
    BY LenProperties
<1>2. DOMAIN t = 1 .. N
    BY <1>1, LenProperties
<1>3. ASSUME i \in 1 .. N, i # 1
      PROVE  Ends(t, i - 1) <=> t[i - 1] = LF \/ (t[i - 1] = CR /\ t[i] # LF)
    <2>1. i - 1 # N /\ (i - 1) + 1 = i
        BY <1>1, <1>3
    <2>2. QED
        BY <1>1, <2>1 DEF Ends
<1>4. QED
    BY <1>1, <1>2, <1>3 DEF LineStarts, Begins

-----------------------------------------------------------------------------
(* Canonical source                                                        *)

\* What the scan makes of the symbol at i, and the line form of a line at i.
ScanPiece(t, i) ==
    IF t[i] = CR THEN <<LF>>
    ELSE IF t[i] = LF /\ i > 1 /\ t[i - 1] = CR THEN << >>
    ELSE <<t[i]>>
LinePiece(t, i) == IF i \in LineStarts(t) THEN Append(Line(t, i), LF) ELSE << >>

ScanPieces(t) == [i \in DOMAIN t |-> ScanPiece(t, i)]
LinePieces(t) == [i \in DOMAIN t |-> LinePiece(t, i)]

(* The scan is joined from its pieces, one to a symbol.                    *)
LEMMA ScanPiecesAre ==
    ASSUME NEW S, LF \in S, NEW t \in Seq(S)
    PROVE  /\ ScanPieces(t) \in Seq(Seq(S)) /\ Len(ScanPieces(t)) = Len(t)
           /\ \A i \in 1 .. Len(t) : ScanPieces(t)[i] = ScanPiece(t, i)
           /\ Scanned(t) = FlattenSeq(ScanPieces(t)) /\ Scanned(t) \in Seq(S)
<1>1. PICK N \in Nat : N = Len(t)
    BY LenProperties
<1>2. DOMAIN t = 1 .. N /\ \A i \in 1 .. N : t[i] \in S
    BY <1>1, LenProperties, ElementOfSeq
<1>3. ASSUME NEW i \in 1 .. N
      PROVE  ScanPiece(t, i) \in Seq(S)
    <2>1. << >> \in Seq(S) /\ \A x \in S : <<x>> \in Seq(S)
        BY EmptySeq
    <2>2. t[i] \in S
        BY <1>2
    <2>3. <<t[i]>> \in Seq(S) /\ <<LF>> \in Seq(S)
        BY <2>1, <2>2
    <2>4. QED
        BY <2>1, <2>3 DEF ScanPiece
<1>4. ScanPieces(t) \in [1 .. N -> Seq(S)] /\ \A i \in 1 .. N : ScanPieces(t)[i] = ScanPiece(t, i)
    BY <1>2, <1>3 DEF ScanPieces
<1>5. ScanPieces(t) \in Seq(Seq(S)) /\ Len(ScanPieces(t)) = N
    BY <1>4, FunctionIsSeq
<1>6. Scanned(t) = FlattenSeq(ScanPieces(t))
    BY DEF Scanned, ScanPieces, ScanPiece
<1>7. QED
    BY <1>1, <1>4, <1>5, <1>6, OffIs

(* The line form is joined from its lines.                                 *)
LEMMA LinePiecesAre ==
    ASSUME NEW S, LF \in S, NEW t \in Seq(S)
    PROVE  /\ LinePieces(t) \in Seq(Seq(S)) /\ Len(LinePieces(t)) = Len(t)
           /\ \A i \in 1 .. Len(t) : LinePieces(t)[i] = LinePiece(t, i)
           /\ LineForm(t) = FlattenSeq(LinePieces(t)) /\ LineForm(t) \in Seq(S)
<1>1. PICK N \in Nat : N = Len(t)
    BY LenProperties
<1>2. DOMAIN t = 1 .. N
    BY <1>1, LenProperties
<1>3. ASSUME NEW i \in 1 .. N
      PROVE  LinePiece(t, i) \in Seq(S)
    <2>1. Line(t, i) \in Seq(S)
        BY <1>1, LineIs
    <2>2. Append(Line(t, i), LF) \in Seq(S)
        BY <2>1, AppendProperties
    <2>3. QED
        BY <2>2, EmptySeq DEF LinePiece
<1>4. LinePieces(t) \in [1 .. N -> Seq(S)] /\ \A i \in 1 .. N : LinePieces(t)[i] = LinePiece(t, i)
    BY <1>2, <1>3 DEF LinePieces
<1>5. LinePieces(t) \in Seq(Seq(S)) /\ Len(LinePieces(t)) = N
    BY <1>4, FunctionIsSeq
<1>6. LineForm(t) = FlattenSeq(LinePieces(t))
    BY DEF LineForm, LinePieces, LinePiece
<1>7. QED
    BY <1>1, <1>4, <1>5, <1>6, OffIs

\* What both have made of the first n symbols, the last line starting at s.
ToLine(t, s, n) ==
    LET base == Joined(ScanPieces(t))[s - 1]
        last == SubSeq(t, s, n)
    IN  /\ s \in 1 .. n /\ s \in LineStarts(t)
        /\ Joined(LinePieces(t))[n] = Append(base \o Line(t, s), LF)
        /\ n < ContentEnd(t, s) => Joined(ScanPieces(t))[n] = base \o last
        /\ n >= ContentEnd(t, s) =>
              /\ Joined(ScanPieces(t))[n] = Append(base \o Line(t, s), LF)
              /\ t[n] \in {CR, LF}

(* A line begins where the forms agree.                                    *)
LEMMA ToLineStart ==
    ASSUME NEW S, LF \in S, NEW t \in Seq(S), NEW n \in 1 .. Len(t), n \in LineStarts(t),
           Joined(LinePieces(t))[n - 1] = Joined(ScanPieces(t))[n - 1]
    PROVE  ToLine(t, n, n)
<1> DEFINE base == Joined(ScanPieces(t))[n - 1]
           line == Line(t, n)
<1>0. PICK N \in Nat : N = Len(t)
    BY LenProperties
<1>1. n - 1 \in 0 .. N /\ n \in Nat /\ n >= 1 /\ n \in 1 .. n /\ n - 1 + 1 = n
    BY <1>0
<1>2. base \in Seq(S)
    <2>1. n - 1 \in 0 .. Len(ScanPieces(t)) /\ ScanPieces(t) \in Seq(Seq(S))
        BY <1>0, <1>1, ScanPiecesAre
    <2>2. QED
        BY <2>1, OffIs
<1>3. line \in Seq(S)
    BY LineIs
<1>4. Joined(LinePieces(t))[n] = base \o Append(line, LF)
    <2>1. LinePieces(t)[n] = Append(line, LF)
        BY LinePiecesAre DEF LinePiece
    <2>2. n \in 1 .. Len(LinePieces(t)) /\ LinePieces(t) \in Seq(Seq(S))
        BY LinePiecesAre
    <2>3. Joined(LinePieces(t))[n] = Joined(LinePieces(t))[n - 1] \o LinePieces(t)[n]
        BY <2>2, JoinedPieces DEF Pieces
    <2>4. QED
        BY <2>1, <2>3
<1>5. Joined(ScanPieces(t))[n] = base \o ScanPiece(t, n)
    <2>1. ScanPieces(t)[n] = ScanPiece(t, n)
        BY ScanPiecesAre
    <2>2. n \in 1 .. Len(ScanPieces(t)) /\ ScanPieces(t) \in Seq(Seq(S))
        BY ScanPiecesAre
    <2>3. Joined(ScanPieces(t))[n] = Joined(ScanPieces(t))[n - 1] \o ScanPieces(t)[n]
        BY <2>2, JoinedPieces DEF Pieces
    <2>4. QED
        BY <2>1, <2>3
<1>6. base \o Append(line, LF) = Append(base \o line, LF)
    <2> HIDE DEF base, line
    <2>1. QED
        BY <1>2, <1>3, ConcatAppend
<1>7. PICK c \in n .. (N + 1) :
          /\ c = ContentEnd(t, n)
          /\ c = N + 1 \/ t[c] \in {CR, LF}
          /\ \A i \in n .. (c - 1) : t[i] \notin {CR, LF}
    BY <1>0, ContentEndIs
<1>8. CASE n < c
    <2>1. n \in n .. (c - 1)
        BY <1>7, <1>8
    <2>2. t[n] \notin {CR, LF}
        BY <1>7, <2>1
    <2>3. ScanPiece(t, n) = <<t[n]>>
        BY <2>2 DEF ScanPiece
    <2>4. SubSeq(t, n, n) = <<t[n]>>
        <3>1. SubSeq(t, n, n) = <<t[n]>> \o SubSeq(t, n + 1, n)
            BY <1>0, <1>1, SubSeqRecursiveFirst
        <3>2. SubSeq(t, n + 1, n) = << >>
            BY <1>1, SubSeqEmpty
        <3>3. t[n] \in S /\ <<t[n]>> \in Seq(S)
            BY ElementOfSeq
        <3>4. QED
            BY <3>1, <3>2, <3>3, ConcatEmptySeq
    <2>5. ~(n >= c)
        BY <1>1, <1>7, <1>8
    <2> HIDE DEF base, line
    <2>6. QED
        BY <1>1, <1>4, <1>5, <1>6, <1>7, <1>8, <2>3, <2>4, <2>5 DEF ToLine, base, line
<1>9. CASE n = c
    <2>1. t[n] \in {CR, LF}
        BY <1>0, <1>1, <1>7, <1>9
    <2>2. ~(t[n] = LF /\ n > 1 /\ t[n - 1] = CR)
        <3>1. n = 1 \/ t[n - 1] = LF \/ (t[n - 1] = CR /\ t[n] # LF)
            BY StartsAre DEF Begins
        <3>2. QED
            BY <1>1, <3>1, SymbolsAssumption
    <2>3. ScanPiece(t, n) = <<LF>>
        BY <2>1, <2>2 DEF ScanPiece
    <2>4. line = << >>
        <3>1. Len(line) = c - n
            BY <1>7, LineIs
        <3>2. Len(line) = 0
            BY <1>1, <1>9, <3>1
        <3>3. QED
            BY <1>3, <3>2, EmptySeq
    <2>5. base \o <<LF>> = Append(base \o line, LF)
        <3>1. base \o line = base
            BY <1>2, <2>4, ConcatEmptySeq
        <3>2. QED
            BY <1>2, <3>1, AppendIsConcat
    <2>6. ~(n < c) /\ n >= c
        BY <1>1, <1>9
    <2> HIDE DEF base, line
    <2>7. QED
        BY <1>1, <1>4, <1>5, <1>6, <1>7, <2>1, <2>3, <2>5, <2>6 DEF ToLine, base, line
<1>10. QED
    BY <1>0, <1>1, <1>7, <1>8, <1>9

(* The forms agree again where a line ends.                                *)
LEMMA ToLineEnds ==
    ASSUME NEW S, LF \in S, NEW t \in Seq(S), NEW n \in 1 .. Len(t), NEW s, ToLine(t, s, n),
           t[n] \in {CR, LF}
    PROVE  Joined(LinePieces(t))[n] = Joined(ScanPieces(t))[n]
<1>1. s \in 1 .. n /\ n \in Nat /\ s \in 1 .. Len(t)
    BY LenProperties DEF ToLine
<1>2. PICK c \in Nat : c = ContentEnd(t, s) /\ \A i \in s .. (c - 1) : t[i] \notin {CR, LF}
    BY <1>1, ContentEndIs, LenProperties
<1>3. n >= c
    BY <1>1, <1>2
<1>4. QED
    BY <1>2, <1>3 DEF ToLine

(* Within a line, both go on alike.                                        *)
LEMMA ToLineStep ==
    ASSUME NEW S, LF \in S, NEW t \in Seq(S), NEW m \in 1 .. Len(t), NEW n \in 1 .. Len(t),
           n = m + 1, NEW s, ToLine(t, s, m), n \notin LineStarts(t)
    PROVE  ToLine(t, s, n)
<1> DEFINE base == Joined(ScanPieces(t))[s - 1]
           line == Line(t, s)
<1>0. PICK N \in Nat : N = Len(t)
    BY LenProperties
<1>1. /\ s \in 1 .. m /\ s \in LineStarts(t) /\ s \in 1 .. n /\ s \in 1 .. N /\ s - 1 \in 0 .. N
      /\ n - 1 = m /\ m \in Nat /\ m < N
    BY <1>0 DEF ToLine
<1>2. base \in Seq(S)
    <2>1. s - 1 \in 0 .. Len(ScanPieces(t)) /\ ScanPieces(t) \in Seq(Seq(S))
        BY <1>0, <1>1, ScanPiecesAre
    <2>2. QED
        BY <2>1, OffIs
<1>3. line \in Seq(S)
    BY <1>0, <1>1, LineIs
<1>4. Joined(LinePieces(t))[n] = Append(base \o line, LF)
    <2>1. LinePieces(t)[n] = << >>
        BY LinePiecesAre DEF LinePiece
    <2>2. n \in 1 .. Len(LinePieces(t)) /\ LinePieces(t) \in Seq(Seq(S))
        BY LinePiecesAre
    <2>3. Joined(LinePieces(t))[n] = Joined(LinePieces(t))[n - 1] \o LinePieces(t)[n]
        BY <2>2, JoinedPieces DEF Pieces
    <2>4. Joined(LinePieces(t))[m] = Append(base \o line, LF)
        BY DEF ToLine
    <2>5. Append(base \o line, LF) \in Seq(S)
        <3> HIDE DEF base, line
        <3>1. QED
            BY <1>2, <1>3, ConcatAppend
    <2> HIDE DEF base, line
    <2>6. QED
        BY <1>1, <2>1, <2>3, <2>4, <2>5, ConcatEmptySeq
<1>5. Joined(ScanPieces(t))[n] = Joined(ScanPieces(t))[m] \o ScanPiece(t, n)
    <2>1. ScanPieces(t)[n] = ScanPiece(t, n)
        BY ScanPiecesAre
    <2>2. n \in 1 .. Len(ScanPieces(t)) /\ ScanPieces(t) \in Seq(Seq(S))
        BY ScanPiecesAre
    <2>3. Joined(ScanPieces(t))[n] = Joined(ScanPieces(t))[n - 1] \o ScanPieces(t)[n]
        BY <2>2, JoinedPieces DEF Pieces
    <2>4. QED
        BY <1>1, <2>1, <2>3
<1>6. PICK c \in s .. (N + 1) :
          /\ c = ContentEnd(t, s)
          /\ c = N + 1 \/ t[c] \in {CR, LF}
          /\ \A i \in s .. (c - 1) : t[i] \notin {CR, LF}
    BY <1>0, <1>1, ContentEndIs
<1>7. ~(t[m] = LF \/ (t[m] = CR /\ t[n] # LF))
    <2>1. ~(n = 1 \/ t[n - 1] = LF \/ (t[n - 1] = CR /\ t[n] # LF))
        BY StartsAre DEF Begins
    <2>2. QED
        BY <1>1, <2>1
<1>8. CASE n < c
    <2>1. m < c /\ n \in s .. (c - 1) /\ ~(n >= c)
        BY <1>1, <1>6, <1>8
    <2>2. Joined(ScanPieces(t))[m] = base \o SubSeq(t, s, m)
        BY <1>6, <2>1 DEF ToLine
    <2>3. ScanPiece(t, n) = <<t[n]>>
        BY <1>6, <2>1 DEF ScanPiece
    <2>4. SubSeq(t, s, n) = SubSeq(t, s, m) \o <<t[n]>>
        <3>1. s \in 1 .. Len(t) /\ n \in s .. Len(t)
            BY <1>0, <1>1
        <3>2. SubSeq(t, s, n) = SubSeq(t, s, n - 1) \o <<t[n]>>
            BY <3>1, SubSeqRecursiveSecond
        <3>3. QED
            BY <1>1, <3>2
    <2>5. SubSeq(t, s, m) \in Seq(S) /\ <<t[n]>> \in Seq(S)
        <3>1. \A i \in s .. m : i \in 1 .. N
            BY <1>1
        <3>2. \A i \in s .. m : t[i] \in S
            BY <1>0, <3>1, ElementOfSeq
        <3>3. SubSeq(t, s, m) \in Seq(S)
            BY <1>1, <3>2, SubSeqProperties
        <3>4. t[n] \in S
            BY ElementOfSeq
        <3>5. QED
            BY <3>3, <3>4
    <2> DEFINE so == SubSeq(t, s, m)
    <2> HIDE DEF base, line
    <2>6. (base \o so) \o <<t[n]>> = base \o (so \o <<t[n]>>)
        <3>1. PICK e \in S : e = t[n]
            BY ElementOfSeq
        <3>2. so \in Seq(S) /\ base \in Seq(S)
            BY <1>2, <2>5
        <3>3. ASSUME NEW x \in Seq(S), NEW y \in Seq(S)
              PROVE  (x \o y) \o <<e>> = x \o (y \o <<e>>)
            BY SMTT(40), ConcatAppend
        <3> HIDE DEF so
        <3>4. (base \o so) \o <<e>> = base \o (so \o <<e>>)
            BY <3>2, <3>3
        <3>5. QED
            BY <3>1, <3>4
    <2>7. QED
        BY <1>1, <1>4, <1>5, <1>6, <1>8, <2>1, <2>2, <2>3, <2>4, <2>6 DEF ToLine, base, line
<1>9. CASE n = c
    <2>1. m < c /\ m \in s .. (c - 1) /\ ~(n < c) /\ n >= c /\ c # N + 1
        BY <1>1, <1>6, <1>9
    <2>2. Joined(ScanPieces(t))[m] = base \o SubSeq(t, s, m)
        BY <1>6, <2>1 DEF ToLine
    <2>3. t[n] \in {CR, LF} /\ t[m] \notin {CR, LF}
        BY <1>6, <1>9, <2>1
    <2>4. ScanPiece(t, n) = <<LF>>
        BY <1>1, <2>3 DEF ScanPiece
    <2>5. line = SubSeq(t, s, m)
        BY <1>1, <1>6, <1>9 DEF Line
    <2> HIDE DEF base, line
    <2>6. (base \o line) \o <<LF>> = Append(base \o line, LF)
        <3>1. base \o line \in Seq(S)
            BY <1>2, <1>3, ConcatProperties
        <3>2. QED
            BY <3>1, AppendIsConcat
    <2>7. QED
        BY <1>1, <1>4, <1>5, <1>6, <2>1, <2>2, <2>3, <2>4, <2>5, <2>6 DEF ToLine, base, line
<1>10. CASE n > c
    <2>1. m >= c /\ ~(n < c) /\ n >= c
        BY <1>1, <1>6, <1>10
    <2>2. Joined(ScanPieces(t))[m] = Append(base \o line, LF) /\ t[m] \in {CR, LF}
        BY <1>6, <2>1 DEF ToLine
    <2>3. t[m] = CR /\ t[n] = LF
        BY <1>7, <2>2
    <2>4. ScanPiece(t, n) = << >>
        BY <1>1, <2>3, SymbolsAssumption DEF ScanPiece
    <2> HIDE DEF base, line
    <2>5. Append(base \o line, LF) \in Seq(S)
        BY <1>2, <1>3, ConcatAppend
    <2>6. Append(base \o line, LF) \o << >> = Append(base \o line, LF)
        BY <2>5, ConcatEmptySeq
    <2>7. QED
        BY <1>1, <1>4, <1>5, <1>6, <2>1, <2>2, <2>3, <2>4, <2>6 DEF ToLine, base, line
<1>11. QED
    BY <1>1, <1>6, <1>8, <1>9, <1>10

(* The scan of a text and its line form agree.                             *)
LEMMA LineFormIs ==
    ASSUME NEW S, LF \in S, NEW t \in Seq(S)
    PROVE  Canonicalize(t) = LineForm(t) /\ Canonicalize(t) \in Seq(S)
<1>1. PICK N \in Nat : N = Len(t)
    BY LenProperties
<1>2. /\ Scanned(t) = Joined(ScanPieces(t))[N] /\ Scanned(t) \in Seq(S)
      /\ LineForm(t) = Joined(LinePieces(t))[N] /\ LineForm(t) \in Seq(S)
      /\ Joined(ScanPieces(t))[0] = << >> /\ Joined(LinePieces(t))[0] = << >>
    <2>1. /\ ScanPieces(t) \in Seq(Seq(S)) /\ Len(ScanPieces(t)) = N
          /\ LinePieces(t) \in Seq(Seq(S)) /\ Len(LinePieces(t)) = N
        BY <1>1, ScanPiecesAre, LinePiecesAre
    <2>2. Joined(ScanPieces(t))[N] = FlattenSeq(ScanPieces(t)) /\ Joined(ScanPieces(t))[0] = << >>
        BY <2>1, JoinedPieces DEF Pieces
    <2>3. Joined(LinePieces(t))[N] = FlattenSeq(LinePieces(t)) /\ Joined(LinePieces(t))[0] = << >>
        BY <2>1, JoinedPieces DEF Pieces
    <2>4. QED
        BY <2>2, <2>3, ScanPiecesAre, LinePiecesAre
<1>3. Canonicalize(t) = IF Scanned(t) # << >> /\ Last(Scanned(t)) # LF
                          THEN Append(Scanned(t), LF) ELSE Scanned(t)
    BY DEF Canonicalize
<1>4. CASE N = 0
    BY <1>2, <1>3, <1>4
<1>5. CASE N # 0
    <2> DEFINE T == {n \in 0 .. N : n = 0 \/ \E s \in 1 .. n : ToLine(t, s, n)}
    <2>1. 0 \in T
        OBVIOUS
    <2>2. ASSUME NEW m \in Nat, m \in T, m < N
          PROVE  m + 1 \in T
        <3> DEFINE n == m + 1
        <3>1. n \in 1 .. N /\ n \in 0 .. N /\ n - 1 = m /\ n \in 1 .. n
            BY <2>2
        <3>2. n \in 1 .. Len(t) /\ n = m + 1 /\ (m = 0 \/ m \in 1 .. Len(t))
            BY <1>1, <2>2, <3>1
        <3>3. m = 0 \/ \E s \in 1 .. m : ToLine(t, s, m)
            BY <2>2
        <3> HIDE DEF n
        <3>4. CASE n \in LineStarts(t)
            <4>1. Joined(LinePieces(t))[n - 1] = Joined(ScanPieces(t))[n - 1]
                <5>1. CASE m = 0
                    BY <1>2, <3>1, <5>1
                <5>2. CASE m # 0
                    <6>1. n = 1 \/ t[n - 1] = LF \/ (t[n - 1] = CR /\ t[n] # LF)
                        BY <3>4, StartsAre DEF Begins
                    <6>2. n # 1 /\ t[m] \in {CR, LF}
                        BY <3>1, <5>2, <6>1
                    <6>3. QED
                        BY <3>1, <3>2, <3>3, <5>2, <6>2, ToLineEnds
                <5>3. QED
                    BY <5>1, <5>2
            <4>2. ToLine(t, n, n)
                BY <3>2, <3>4, <4>1, ToLineStart
            <4>3. n \in T
                BY <3>1, <4>2
            <4>4. QED
                BY <4>3 DEF n
        <3>5. CASE n \notin LineStarts(t)
            <4>1. m # 0
                <5>1. m = 0 => n = 1
                    BY <3>2
                <5>2. n # 1
                    BY <3>2, <3>5, StartsAre DEF Begins
                <5>3. QED
                    BY <5>1, <5>2
            <4>2. PICK s \in 1 .. m : ToLine(t, s, m)
                BY <3>3, <4>1
            <4>3. ToLine(t, s, n)
                BY <3>2, <3>5, <4>1, <4>2, ToLineStep
            <4>4. s \in 1 .. n
                BY <4>3 DEF ToLine
            <4>5. n \in T
                BY <3>1, <4>3, <4>4
            <4>6. QED
                BY <4>5 DEF n
        <3>6. QED
            BY <3>4, <3>5
    <2>3. N \in T
        <3> HIDE DEF T
        <3>1. \A n \in 0 .. N : n \in T
            BY <1>1, <2>1, <2>2, UpTo
        <3>2. QED
            BY <3>1
    <2>4. PICK s \in 1 .. N : ToLine(t, s, N)
        BY <1>5, <2>3
    <2>5. PICK c \in s .. (N + 1) :
              /\ c = ContentEnd(t, s)
              /\ c = N + 1 \/ t[c] \in {CR, LF}
              /\ \A i \in s .. (c - 1) : t[i] \notin {CR, LF}
        BY <1>1, ContentEndIs
    <2> DEFINE base == Joined(ScanPieces(t))[s - 1]
               line == Line(t, s)
    <2>6. base \in Seq(S) /\ line \in Seq(S)
        <3>1. s - 1 \in 0 .. Len(ScanPieces(t)) /\ ScanPieces(t) \in Seq(Seq(S))
            BY <1>1, ScanPiecesAre
        <3>2. QED
            BY <1>1, <3>1, OffIs, LineIs
    <2>7. Joined(LinePieces(t))[N] = Append(base \o line, LF)
        BY <2>4 DEF ToLine
    <2>8. CASE N >= c
        <3>1. Scanned(t) = Append(base \o line, LF)
            BY <1>2, <2>4, <2>5, <2>8 DEF ToLine
        <3> HIDE DEF base, line
        <3>2. Last(Scanned(t)) = LF
            <4>1. base \o line \in Seq(S)
                BY <2>6, ConcatProperties
            <4>2. PICK l \in Nat : l = Len(base \o line)
                BY <4>1, LenProperties
            <4>3. Len(Append(base \o line, LF)) = l + 1 /\ Append(base \o line, LF)[l + 1] = LF
                BY <4>1, <4>2, AppendProperties
            <4>4. QED
                BY <3>1, <4>3 DEF Last
        <3>3. QED
            BY <1>2, <1>3, <2>7, <3>1, <3>2
    <2>9. CASE N < c
        <3>1. c = N + 1 /\ c - 1 = N /\ N \in s .. (c - 1)
            BY <2>5, <2>9
        <3>2. line = SubSeq(t, s, N)
            BY <2>5, <3>1 DEF Line
        <3>3. Scanned(t) = base \o line
            BY <1>2, <2>4, <2>5, <2>9, <3>2 DEF ToLine
        <3>4. t[N] \notin {CR, LF} /\ Len(line) = c - s
            <4>1. t[N] \notin {CR, LF}
                BY <2>5, <3>1
            <4>2. Len(Line(t, s)) = ContentEnd(t, s) - s
                BY <1>1, LineIs
            <4>3. QED
                BY <2>5, <4>1, <4>2
        <3>5. Last(base \o line) = t[N] /\ base \o line # << >>
            <4>1. PICK a \in Nat, l \in Nat : a = Len(base) /\ l = Len(line)
                <5> HIDE DEF base, line
                <5>1. QED
                    BY <2>6, LenProperties
            <4>2. l = c - s /\ l >= 1 /\ s + l - 1 = N
                BY <2>5, <3>1, <3>4, <4>1
            <4>3. line[l] = t[s + l - 1]
                <5>1. l \in 1 .. (c - s)
                    BY <4>2
                <5>2. QED
                    BY <1>1, <2>5, <5>1, LineIs
            <4> HIDE DEF base, line
            <4>4. Len(base \o line) = a + l /\ (base \o line)[a + l] = line[l]
                <5>1. Len(base \o line) = a + l
                    BY <2>6, <4>1, ConcatProperties
                <5>2. \A i \in 1 .. a + l : (base \o line)[i] =
                            IF i <= a THEN base[i] ELSE line[i - a]
                    BY <2>6, <4>1, ConcatProperties
                <5>3. a + l \in 1 .. a + l /\ ~(a + l <= a) /\ (a + l) - a = l
                    BY <4>1, <4>2
                <5>4. QED
                    BY <5>1, <5>2, <5>3
            <4>5. base \o line # << >>
                <5>1. Len(<< >>) = 0 /\ a + l # 0
                    BY <4>1, <4>2
                <5>2. QED
                    BY <4>4, <5>1
            <4>6. QED
                BY <4>2, <4>3, <4>4, <4>5 DEF Last
        <3> HIDE DEF base, line
        <3>6. QED
            BY <1>2, <1>3, <2>7, <3>3, <3>4, <3>5
    <2>10. QED
        BY <1>1, <2>5, <2>8, <2>9
<1>6. QED
    BY <1>4, <1>5

\* Canonical text: LF is the only break, and the last line has one.
IsCanonical(s) ==
    /\ \A i \in 1 .. Len(s) : s[i] # CR
    /\ s # << >> => s[Len(s)] = LF

(* Canonicalization makes text canonical.                                  *)
LEMMA CanonicalizeMakes ==
    ASSUME NEW S, LF \in S, NEW t \in Seq(S)
    PROVE  Canonicalize(t) \in Seq(S) /\ IsCanonical(Canonicalize(t))
<1> DEFINE body == Scanned(t)
<1>1. body \in Seq(S) /\ ScanPieces(t) \in Seq(Seq(S)) /\ body = FlattenSeq(ScanPieces(t))
    BY ScanPiecesAre
<1>2. PICK l \in Nat : l = Len(body)
    BY <1>1, LenProperties
<1>3. ASSUME NEW k \in 1 .. l
      PROVE  body[k] # CR
    <2>1. PICK n \in 1 .. Len(ScanPieces(t)) :
              /\ k - Off(ScanPieces(t), n - 1) \in 1 .. Len(ScanPieces(t)[n])
              /\ body[k] = ScanPieces(t)[n][k - Off(ScanPieces(t), n - 1)]
        BY <1>1, <1>2, PieceOf
    <2>2. PICK j : j = k - Off(ScanPieces(t), n - 1)
        OBVIOUS
    <2>3. ScanPieces(t)[n] = ScanPiece(t, n)
        BY <2>1, ScanPiecesAre
    <2>4. j \in 1 .. Len(ScanPiece(t, n)) /\ body[k] = ScanPiece(t, n)[j]
        BY <2>1, <2>2, <2>3
    <2>5. \A x : Len(<<x>>) = 1 /\ <<x>>[1] = x
        OBVIOUS
    <2>6. CASE t[n] = CR
        <3>1. ScanPiece(t, n) = <<LF>>
            BY <2>6 DEF ScanPiece
        <3>2. j = 1 /\ body[k] = LF
            <4>1. Len(ScanPiece(t, n)) = 1 /\ ScanPiece(t, n)[1] = LF
                BY <2>5, <3>1
            <4>2. j = 1
                BY <2>4, <4>1
            <4>3. QED
                BY <2>4, <4>1, <4>2
        <3>3. QED
            BY <3>2, SymbolsAssumption
    <2>7. CASE t[n] # CR
        <3>1. ScanPiece(t, n) = << >> \/ ScanPiece(t, n) = <<t[n]>>
            BY <2>7 DEF ScanPiece
        <3>2. ScanPiece(t, n) = <<t[n]>>
            <4>1. Len(<< >>) = 0
                OBVIOUS
            <4>2. ScanPiece(t, n) # << >>
                BY <2>4, <4>1
            <4>3. QED
                BY <3>1, <4>2
        <3>3. Len(ScanPiece(t, n)) = 1 /\ ScanPiece(t, n)[1] = t[n]
            BY <2>5, <3>2
        <3>4. j = 1
            BY <2>4, <3>3
        <3>5. QED
            BY <2>4, <2>7, <3>3, <3>4
    <2>8. QED
        BY <2>6, <2>7
<1>4. CASE ~(body # << >> /\ Last(body) # LF)
    <2>1. Canonicalize(t) = body
        BY <1>4 DEF Canonicalize
    <2> HIDE DEF body
    <2>2. body # << >> => body[Len(body)] = LF
        BY <1>4 DEF Last
    <2>3. QED
        BY <1>1, <1>2, <1>3, <2>1, <2>2 DEF IsCanonical
<1>5. CASE body # << >> /\ Last(body) # LF
    <2>1. Canonicalize(t) = Append(body, LF)
        BY <1>5 DEF Canonicalize
    <2> HIDE DEF body
    <2>2. /\ Append(body, LF) \in Seq(S) /\ Len(Append(body, LF)) = l + 1
          /\ \A k \in 1 .. l : Append(body, LF)[k] = body[k]
          /\ Append(body, LF)[l + 1] = LF
        BY <1>1, <1>2, AppendProperties
    <2>3. ASSUME NEW k \in 1 .. l + 1
          PROVE  Append(body, LF)[k] # CR
        <3>1. k \in 1 .. l \/ k = l + 1
            BY <1>2
        <3>2. QED
            BY <1>3, <2>2, <3>1, SymbolsAssumption
    <2>4. QED
        BY <2>1, <2>2, <2>3 DEF IsCanonical
<1>6. QED
    BY <1>4, <1>5

(* ... and leaves canonical text alone.                                    *)
LEMMA CanonicalizeKeeps ==
    ASSUME NEW S, LF \in S, NEW t \in Seq(S), IsCanonical(t)
    PROVE  Canonicalize(t) = t
<1>1. PICK N \in Nat : N = Len(t)
    BY LenProperties
<1>2. ASSUME NEW i \in 1 .. N
      PROVE  ScanPieces(t)[i] = <<t[i]>>
    <2>1. t[i] # CR /\ ScanPieces(t)[i] = ScanPiece(t, i)
        BY <1>1, ScanPiecesAre DEF IsCanonical
    <2>2. i > 1 => i - 1 \in 1 .. N
        BY <1>1
    <2>3. i > 1 => t[i - 1] # CR
        BY <1>1, <2>2 DEF IsCanonical
    <2>4. QED
        BY <2>1, <2>3 DEF ScanPiece
<1>3. Scanned(t) = t
    BY <1>1, <1>2, ScanPiecesAre, FlattenSingles
<1>4. t # << >> => Last(t) = LF
    BY DEF Last, IsCanonical
<1>5. QED
    BY <1>3, <1>4 DEF Canonicalize

(* A mark that was not there at the beginning does not come there.         *)
LEMMA NoMarkComes ==
    ASSUME NEW S, LF \in S, NEW t \in Seq(S), ~BeginsWithMark(t)
    PROVE  ~BeginsWithMark(Canonicalize(t))
<1>0. PICK N \in Nat : N = Len(t)
    BY LenProperties
<1> DEFINE body == Scanned(t)
<1>1. /\ body \in Seq(S) /\ ScanPieces(t) \in Seq(Seq(S)) /\ body = FlattenSeq(ScanPieces(t))
      /\ Len(ScanPieces(t)) = N
    BY <1>0, ScanPiecesAre
<1>2. CASE N = 0
    <2>1. body = << >>
        <3>1. Len(FlattenSeq(ScanPieces(t))) = 0
            BY <1>1, <1>2, OffIs
        <3>2. QED
            BY <1>1, <3>1, EmptySeq
    <2>2. Canonicalize(t) = << >>
        BY <2>1 DEF Canonicalize
    <2>3. QED
        BY <2>2 DEF BeginsWithMark
<1>3. CASE N # 0
    <2>1. 1 \in 1 .. N
        BY <1>0, <1>3
    <2>2. t[1] # BOM
        <3>1. t # << >>
            BY <1>0, <1>3, EmptySeq
        <3>2. QED
            BY <3>1 DEF BeginsWithMark
    <2>3. ScanPieces(t)[1] = ScanPiece(t, 1) /\ ScanPiece(t, 1) \in {<<LF>>, <<t[1]>>}
        BY <1>0, <2>1, ScanPiecesAre DEF ScanPiece
    <2>4. \A x : Len(<<x>>) = 1 /\ <<x>>[1] = x
        OBVIOUS
    <2>5. Len(ScanPieces(t)[1]) = 1 /\ ScanPieces(t)[1][1] \in {LF, t[1]}
        BY <2>3, <2>4
    <2>6. 1 \in 1 .. Len(body) /\ body[1] \in {LF, t[1]}
        <3>1. 1 \in 1 .. Len(ScanPieces(t)) /\ 1 \in 1 .. Len(ScanPieces(t)[1])
            BY <1>1, <2>1, <2>5
        <3>2. /\ Off(ScanPieces(t), 1 - 1) + 1 \in 1 .. Len(body)
              /\ body[Off(ScanPieces(t), 1 - 1) + 1] = ScanPieces(t)[1][1]
            BY <1>1, <3>1, PieceIsThere
        <3>3. Off(ScanPieces(t), 0) = 0 /\ 1 - 1 = 0 /\ 0 + 1 = 1
            BY <1>1, OffIs
        <3>4. Off(ScanPieces(t), 1 - 1) + 1 = 1
            BY <3>3
        <3>5. QED
            BY <2>5, <3>2, <3>4
    <2> HIDE DEF body
    <2>7. body[1] # BOM
        BY <2>2, <2>6, SymbolsAssumption
    <2>8. Append(body, LF)[1] = body[1]
        BY <1>1, <2>6, AppendProperties
    <2>9. Canonicalize(t) = body \/ Canonicalize(t) = Append(body, LF)
        BY DEF Canonicalize, body
    <2>10. QED
        BY <2>7, <2>8, <2>9 DEF BeginsWithMark
<1>4. QED
    BY <1>0, <1>2, <1>3

-----------------------------------------------------------------------------
(* Markers                                                                 *)

(* What the symbols of markers and hashes are, and are not.                *)
LEMMA SymbolsAre ==
    /\ \A p \in Path : /\ Opening(p) \in Openings /\ Closing(p) \in Closings
                       /\ Opening(p)[2] = p /\ Closing(p)[2] = p
    /\ \A x \in Openings : x \notin Closings /\ x[2] \in Path /\ x = Opening(x[2])
    /\ \A x \in Closings : x \notin Openings /\ x[2] \in Path /\ x = Closing(x[2])
    /\ \A x \in HashTokens : /\ x \notin {CR, LF} /\ x \notin Openings /\ x \notin Closings
                             /\ x \in Symbol /\ x[2] \in Digest /\ x = HashToken(x[2])
    /\ \A h \in Digest : HashToken(h) \in HashTokens /\ HashToken(h)[2] = h
    /\ \A x \in Markers : x \notin {CR, LF}
    /\ Openings \cup Closings \subseteq Markers
    /\ CR \in Symbol /\ LF \in Symbol
<1>1. \A a, b : <<a, b>>[1] = a /\ <<a, b>>[2] = b
    OBVIOUS
<1>2. /\ \A p : Opening(p)[1] = "open" /\ Opening(p)[2] = p
      /\ \A p : Closing(p)[1] = "close" /\ Closing(p)[2] = p
      /\ \A h : HashToken(h)[1] = "hash" /\ HashToken(h)[2] = h
    BY <1>1 DEF Opening, Closing, HashToken
<1>3. "open" # "close" /\ "open" # "hash" /\ "close" # "hash"
    OBVIOUS
<1>4. \A p \in Path : /\ Opening(p) \in Openings /\ Closing(p) \in Closings
                      /\ Opening(p)[2] = p /\ Closing(p)[2] = p
    BY <1>2 DEF Openings, Closings
<1>5. \A x \in Openings : x[1] = "open" /\ x[2] \in Path /\ x = Opening(x[2])
    BY <1>2 DEF Openings
<1>6. \A x \in Closings : x[1] = "close" /\ x[2] \in Path /\ x = Closing(x[2])
    BY <1>2 DEF Closings
<1>7. \A x \in HashTokens : x[1] = "hash" /\ x[2] \in Digest /\ x = HashToken(x[2])
    BY <1>2 DEF HashTokens
<1>8. \A h \in Digest : HashToken(h) \in HashTokens /\ HashToken(h)[2] = h
    BY <1>2 DEF HashTokens
<1>9. /\ \A x \in HashTokens : x \notin {CR, LF} /\ x \in Symbol
      /\ \A x \in Markers : x \notin {CR, LF}
      /\ CR \in Symbol /\ LF \in Symbol
    BY SymbolsAssumption DEF Symbol
<1>10. Openings \cup Closings \subseteq Markers
    BY DEF Markers
<1>11. /\ \A x \in Openings : x \notin Closings
       /\ \A x \in Closings : x \notin Openings
       /\ \A x \in HashTokens : x \notin Openings /\ x \notin Closings
    BY <1>3, <1>5, <1>6, <1>7
<1>12. QED
    BY <1>4, <1>5, <1>6, <1>7, <1>8, <1>9, <1>10, <1>11

(* A marker is where its line begins.                                      *)
LEMMA MarkerStartsAre ==
    ASSUME NEW S, NEW t \in Seq(S), NEW i
    PROVE  i \in MarkerStarts(t) <=> i \in 1 .. Len(t) /\ t[i] \in Markers /\ Begins(t, i)
<1>1. DOMAIN t = 1 .. Len(t)
    BY LenProperties
<1>2. QED
    BY <1>1, StartsAre DEF MarkerStarts

(* The next marker is the first that follows.                              *)
LEMMA NextMarkerIs ==
    ASSUME NEW S, NEW t \in Seq(S), NEW o, NEW j \in MarkerStarts(t), j > o
    PROVE  /\ NextMarker(t, o) \in MarkerStarts(t) /\ NextMarker(t, o) > o
           /\ NextMarker(t, o) \in 1 .. Len(t)
           /\ \A i \in MarkerStarts(t) : i > o => NextMarker(t, o) <= i
<1> DEFINE M == {i \in MarkerStarts(t) : i > o}
<1>1. \A i \in MarkerStarts(t) : i \in 1 .. Len(t)
    BY MarkerStartsAre
<1>2. 1 .. Len(t) \subseteq Nat
    BY LenProperties
<1>3. M \in SUBSET Nat /\ M # {}
    BY <1>1, <1>2
<1>4. NextMarker(t, o) = Min(M)
    BY DEF NextMarker
<1>5. Min(M) \in M /\ \A i \in M : Min(M) <= i
    <2> HIDE DEF M
    <2>1. QED
        BY <1>3, MinIsLeast
<1>6. PICK m \in M : m = NextMarker(t, o) /\ \A i \in M : m <= i
    BY <1>4, <1>5
<1>7. QED
    BY <1>1, <1>6

\* What the markers around a fragment and its fields say of each other.
Framed(t, o, f) ==
    /\ f = FragmentFrom(t, o) /\ f.path \in Path
    /\ o \in MarkerStarts(t) /\ t[o] = Opening(f.path)
    /\ o \in 1 .. Len(t) /\ f.first \in 1 .. Len(t) /\ f.close \in 1 .. Len(t)
    /\ o + 1 < f.first /\ f.first <= f.close
    /\ \A i \in (o + 1) .. (f.first - 1) : t[i] \in {CR, LF}
    /\ Ends(t, f.first - 1) /\ \A i \in o .. (f.first - 2) : ~Ends(t, i)
    /\ f.close \in MarkerStarts(t) /\ t[f.close] = Closing(f.path)
    /\ \A i \in MarkerStarts(t) : i <= o \/ i >= f.close
    /\ \/ /\ f.baseline = NoHash
          /\ f.close + 1 <= Len(t) => t[f.close + 1] \in {CR, LF}
       \/ /\ f.baseline \in Digest /\ f.close + 1 <= Len(t)
          /\ t[f.close + 1] = HashToken(f.baseline)
    /\ f.source = SubSeq(t, f.first, f.close - 1)

(* A line of one symbol ends there, one of two goes on.                    *)
LEMMA ShortLine ==
    ASSUME NEW S, NEW t \in Seq(S), NEW s \in 1 .. Len(t), t[s] \notin {CR, LF}
    PROVE  /\ Len(Line(t, s)) \in Nat /\ Len(Line(t, s)) >= 1 /\ Line(t, s)[1] = t[s]
           /\ Len(Line(t, s)) = 1 <=> (s + 1 <= Len(t) => t[s + 1] \in {CR, LF})
           /\ Len(Line(t, s)) = 2 => s + 1 <= Len(t) /\ Line(t, s)[2] = t[s + 1]
<1>1. PICK N \in Nat : N = Len(t)
    BY LenProperties
<1>2. PICK c \in s .. (N + 1) :
          /\ c = ContentEnd(t, s)
          /\ c = N + 1 \/ t[c] \in {CR, LF}
          /\ \A i \in s .. (c - 1) : t[i] \notin {CR, LF}
    BY <1>1, ContentEndIs
<1>3. /\ Len(Line(t, s)) = c - s
      /\ \A k \in 1 .. (c - s) : Line(t, s)[k] = t[s + k - 1]
    BY <1>1, <1>2, LineIs
<1>4. c # s
    BY <1>1, <1>2
<1>5. c - s \in Nat /\ c - s >= 1 /\ 1 \in 1 .. (c - s) /\ s + 1 - 1 = s
    BY <1>1, <1>2, <1>4
<1>6. c - s = 1 <=> (s + 1 <= N => t[s + 1] \in {CR, LF})
    <2>1. CASE c = s + 1
        BY <1>1, <1>2, <2>1
    <2>2. CASE c # s + 1
        <3>1. s + 1 \in s .. (c - 1) /\ s + 1 <= N /\ c - s # 1
            BY <1>1, <1>2, <1>4, <2>2
        <3>2. QED
            BY <1>2, <3>1
    <2>3. QED
        BY <2>1, <2>2
<1>7. ASSUME c - s = 2
      PROVE  s + 1 <= N /\ Line(t, s)[2] = t[s + 1]
    <2>1. 2 \in 1 .. (c - s) /\ s + 2 - 1 = s + 1 /\ s + 1 <= N
        BY <1>1, <1>2, <1>7
    <2>2. Line(t, s)[2] = t[s + 2 - 1]
        BY <1>3, <2>1
    <2>3. QED
        BY <2>1, <2>2
<1>8. Line(t, s)[1] = t[s]
    <2>1. Line(t, s)[1] = t[s + 1 - 1]
        BY <1>3, <1>5
    <2>2. QED
        BY <1>5, <2>1
<1>9. QED
    BY <1>1, <1>3, <1>5, <1>6, <1>7, <1>8

(* The line of an opening marker ends just before its fragment's source.   *)
LEMMA OpeningLine ==
    ASSUME NEW S, NEW t \in Seq(S), NEW o \in MarkerStarts(t), t[o] \in Openings,
           Len(Line(t, o)) = 1, NEW j \in MarkerStarts(t), j > o
    PROVE  LET e == LineEnd(t, o)
           IN  /\ e \in (o + 1) .. (j - 1) /\ Ends(t, e) /\ \A i \in o .. (e - 1) : ~Ends(t, i)
               /\ \A i \in (o + 1) .. e : t[i] \in {CR, LF}
<1>1. PICK N \in Nat : N = Len(t)
    BY LenProperties
<1>2. /\ o \in 1 .. N /\ j \in 1 .. N /\ t[j] \in Markers /\ Begins(t, j)
      /\ t[o] \notin {CR, LF} /\ t[j] \notin {CR, LF}
    BY <1>1, MarkerStartsAre, SymbolsAre
<1>3. o + 1 <= N /\ t[o + 1] \in {CR, LF}
    <2>1. Len(Line(t, o)) = 1 <=> (o + 1 <= Len(t) => t[o + 1] \in {CR, LF})
        BY <1>1, <1>2, ShortLine
    <2>2. QED
        BY <1>1, <1>2, <2>1
<1>4. j # o + 1
    BY <1>2, <1>3
<1>5. PICK e \in o .. N : /\ e = LineEnd(t, o) /\ Ends(t, e)
                          /\ \A i \in o .. (e - 1) : ~Ends(t, i)
    BY <1>1, <1>2, LineEndIs
<1>6. ~Ends(t, o)
    BY <1>1, <1>2, <1>3 DEF Ends
<1>7. e # o
    BY <1>5, <1>6
<1>8. Ends(t, j - 1)
    <2>1. j # 1 /\ (j - 1) + 1 = j
        BY <1>1, <1>2
    <2>2. QED
        BY <1>2, <2>1 DEF Begins, Ends
<1>9. e <= j - 1
    <2>1. ~(j - 1 \in o .. (e - 1))
        BY <1>5, <1>8
    <2>2. QED
        BY <1>1, <1>2, <1>5, <2>1
<1>10. \A i \in (o + 1) .. e : t[i] \in {CR, LF}
    <2>1. CASE e = o + 1
        BY <1>3, <2>1, <1>2
    <2>2. CASE e # o + 1
        <3>1. o + 1 \in o .. (e - 1) /\ (o + 1) + 1 = o + 2 /\ o + 2 <= e
            BY <1>2, <1>5, <1>7, <2>2
        <3>2. ~Ends(t, o + 1)
            BY <1>5, <3>1
        <3>3. t[o + 1] # LF /\ t[o + 1] = CR /\ t[o + 2] = LF
            BY <1>3, <3>1, <3>2 DEF Ends
        <3>4. Ends(t, o + 2)
            BY <3>3 DEF Ends
        <3>5. e = o + 2
            <4>1. ~(o + 2 \in o .. (e - 1))
                BY <1>5, <3>4
            <4>2. QED
                BY <1>2, <1>5, <3>1, <4>1
        <3>6. \A i \in (o + 1) .. e : i = o + 1 \/ i = o + 2
            BY <1>2, <3>5
        <3>7. QED
            BY <3>3, <3>6
    <2>3. QED
        BY <2>1, <2>2
<1>11. e \in (o + 1) .. (j - 1)
    BY <1>1, <1>2, <1>5, <1>7, <1>9
<1>12. QED
    BY <1>5, <1>10, <1>11

(* A text that parses frames each of its fragments.                        *)
LEMMA FramedIs ==
    ASSUME NEW S, NEW t \in Seq(S), Parses(t), NEW o \in MarkerStarts(t), t[o] \in Openings
    PROVE  Framed(t, o, FragmentFrom(t, o))
<1> DEFINE f == FragmentFrom(t, o)
           e == LineEnd(t, o)
           c == NextMarker(t, o)
           line == Line(t, c)
<1>1. PICK N \in Nat : N = Len(t)
    BY LenProperties
<1>2. /\ f.path = t[o][2] /\ f.first = e + 1 /\ f.close = c
      /\ f.source = SubSeq(t, f.first, c - 1)
      /\ f.baseline = IF Len(line) = 2 THEN line[2][2] ELSE NoHash
    BY DEF FragmentFrom
<1>3. f.path \in Path /\ t[o] = Opening(f.path)
    <2>1. t[o][2] \in Path /\ t[o] = Opening(t[o][2])
        BY SymbolsAre
    <2> HIDE DEF f
    <2>2. QED
        BY <1>2, <2>1
<1>4. PICK j \in MarkerStarts(t) :
          /\ o < j /\ t[j] = Closing(t[o][2])
          /\ \A i \in MarkerStarts(t) : ~(o < i /\ i < j)
    BY DEF Parses
<1>5. o \in 1 .. N /\ j \in 1 .. N /\ \A i \in MarkerStarts(t) : i \in 1 .. N
    BY <1>1, MarkerStartsAre
<1>6. c \in MarkerStarts(t) /\ c > o /\ c \in 1 .. N /\ c <= j
    BY <1>1, <1>4, <1>5, NextMarkerIs
<1>7. c = j
    BY <1>4, <1>5, <1>6
<1>8. t[c] = Closing(f.path) /\ t[c] \in Closings /\ t[c] \notin {CR, LF} /\ t[c] \notin Openings
    <2>1. t[c] = Closing(f.path)
        <3> HIDE DEF f, c
        <3>1. QED
            BY <1>2, <1>4, <1>7
    <2> HIDE DEF f, c
    <2>2. QED
        BY <1>3, <2>1, SymbolsAre
<1>9. Len(Line(t, o)) = 1
    <2>1. Line(t, o)[1] = t[o]
        BY <1>1, <1>5, ShortLine, SymbolsAre
    <2>2. t[o] \notin Closings
        BY SymbolsAre
    <2>3. QED
        BY <2>1, <2>2 DEF Parses, WellFormedMarker
<1>10. /\ e \in (o + 1) .. (c - 1) /\ Ends(t, e) /\ \A i \in o .. (e - 1) : ~Ends(t, i)
       /\ \A i \in (o + 1) .. e : t[i] \in {CR, LF}
    <2>1. c > o /\ c \in MarkerStarts(t)
        BY <1>6
    <2> HIDE DEF c
    <2>2. QED
        BY <1>9, <2>1, OpeningLine
<1>11. /\ Len(line) \in Nat /\ line[1] = t[c]
       /\ Len(line) = 1 <=> (c + 1 <= N => t[c + 1] \in {CR, LF})
       /\ Len(line) = 2 => c + 1 <= N /\ line[2] = t[c + 1]
    <2> HIDE DEF c
    <2>1. QED
        BY <1>1, <1>6, <1>8, ShortLine
<1>12. Len(line) = 1 \/ (Len(line) = 2 /\ line[2] \in HashTokens)
    BY <1>6 DEF Parses, WellFormedMarker
<1>13. \/ /\ f.baseline = NoHash
          /\ c + 1 <= N => t[c + 1] \in {CR, LF}
       \/ /\ f.baseline \in Digest /\ c + 1 <= N
          /\ t[c + 1] = HashToken(f.baseline)
    <2> HIDE DEF line, f, c
    <2>1. CASE Len(line) = 1
        BY <1>2, <1>11, <2>1
    <2>2. CASE Len(line) = 2 /\ line[2] \in HashTokens
        <3>1. line[2][2] \in Digest /\ line[2] = HashToken(line[2][2])
            BY <2>2, SymbolsAre
        <3>2. QED
            BY <1>2, <1>11, <2>2, <3>1
    <2>3. QED
        BY <1>12, <2>1, <2>2
<1>14. \A i \in MarkerStarts(t) : i <= o \/ i >= c
    <2> HIDE DEF c
    <2>1. QED
        BY <1>4, <1>5, <1>7
<1>15. f = FragmentFrom(t, o)
    OBVIOUS
<1> HIDE DEF f, e, c, line
<1>16. /\ f.first - 1 = e /\ f.first - 2 = e - 1 /\ f.first \in 1 .. N /\ o + 1 < f.first
       /\ f.first <= c
    BY <1>2, <1>5, <1>6, <1>10
<1>17. Framed(t, o, f)
    BY <1>1, <1>2, <1>3, <1>5, <1>6, <1>8, <1>10, <1>13, <1>14, <1>15, <1>16 DEF Framed
<1>18. QED
    BY <1>17 DEF f

(* Every fragment is framed by its markers.                                *)
LEMMA FragmentsAreFramed ==
    ASSUME NEW S, NEW t \in Seq(S), Parses(t)
    PROVE  /\ \A f \in Fragments(t) : \E o \in MarkerStarts(t) : Framed(t, o, f)
           /\ \A o, f : Framed(t, o, f) => f \in Fragments(t)
           /\ \A m \in MarkerStarts(t) :
                 \E o, f : Framed(t, o, f) /\ (m = o \/ m = f.close)
<1>1. ASSUME NEW f \in Fragments(t)
      PROVE  \E o \in MarkerStarts(t) : Framed(t, o, f)
    <2>1. PICK o \in MarkerStarts(t) : t[o] \in Openings /\ f = FragmentFrom(t, o)
        BY <1>1 DEF Fragments
    <2>2. Framed(t, o, f)
        BY <2>1, FramedIs
    <2>3. QED
        BY <2>2
<1>2. ASSUME NEW o, NEW f, Framed(t, o, f)
      PROVE  f \in Fragments(t)
    <2>1. o \in MarkerStarts(t) /\ t[o] \in Openings /\ f = FragmentFrom(t, o)
        BY <1>2, SymbolsAre DEF Framed
    <2>2. QED
        BY <2>1 DEF Fragments
<1>3. ASSUME NEW m \in MarkerStarts(t)
      PROVE  \E o, f : Framed(t, o, f) /\ (m = o \/ m = f.close)
    <2>1. CASE t[m] \in Openings
        <3>1. Framed(t, m, FragmentFrom(t, m))
            BY <2>1, FramedIs
        <3>2. QED
            BY <3>1
    <2>2. CASE t[m] \notin Openings
        <3>1. PICK o \in MarkerStarts(t) :
                  /\ t[o] \in Openings /\ o < m
                  /\ \A i \in MarkerStarts(t) : ~(o < i /\ i < m)
            BY <2>2 DEF Parses
        <3> DEFINE f == FragmentFrom(t, o)
        <3>2. Framed(t, o, f)
            BY <3>1, FramedIs
        <3> HIDE DEF f
        <3>3. /\ f.close \in MarkerStarts(t) /\ o < f.close
              /\ \A i \in MarkerStarts(t) : i <= o \/ i >= f.close
            <4>1. /\ f.close \in MarkerStarts(t) /\ o + 1 < f.first /\ f.first <= f.close
                  /\ o \in 1 .. Len(t) /\ f.first \in 1 .. Len(t) /\ f.close \in 1 .. Len(t)
                BY <3>2 DEF Framed
            <4>2. \A i \in MarkerStarts(t) : i <= o \/ i >= f.close
                BY <3>2 DEF Framed
            <4>3. o < f.close
                <5>1. Len(t) \in Nat
                    BY LenProperties
                <5>2. QED
                    BY <4>1, <5>1
            <4>4. QED
                BY <4>1, <4>2, <4>3
        <3>4. m \in 1 .. Len(t) /\ o \in 1 .. Len(t) /\ f.close \in 1 .. Len(t) /\ Len(t) \in Nat
            BY <3>3, MarkerStartsAre, LenProperties
        <3>5. m = f.close
            <4>1. m >= f.close
                BY <3>1, <3>3, <3>4
            <4>2. ~(f.close < m)
                BY <3>1, <3>3
            <4>3. QED
                BY <3>4, <4>1, <4>2
        <3>6. QED
            BY <3>2, <3>5
    <2>3. QED
        BY <2>1, <2>2
<1>4. QED
    BY <1>1, <1>2, <1>3

(* A fragment that begins earlier ends well before the next begins.        *)
LEMMA FramesApart ==
    ASSUME NEW S, NEW t \in Seq(S), NEW o, NEW f, NEW p, NEW g,
           Framed(t, o, f), Framed(t, p, g)
    PROVE  /\ o < p => f.close + 1 < p
           /\ p < o => g.close + 1 < o
           /\ o = p => f = g
<1>1. ASSUME NEW i, NEW h, NEW j, NEW k, Framed(t, i, h), Framed(t, j, k), i < j
      PROVE  h.close + 1 < j
    <2>1. PICK N \in Nat : N = Len(t)
        BY LenProperties
    <2>2. /\ i \in 1 .. N /\ j \in 1 .. N /\ h.close \in 1 .. N
          /\ j \in MarkerStarts(t) /\ t[j] = Opening(k.path) /\ k.path \in Path
          /\ t[h.close] = Closing(h.path) /\ h.path \in Path
        BY <1>1, <2>1 DEF Framed
    <2>3. \A m \in MarkerStarts(t) : m <= i \/ m >= h.close
        BY <1>1 DEF Framed
    <2>4. j >= h.close
        BY <1>1, <2>2, <2>3
    <2>5. t[j] \in Openings /\ t[h.close] \in Closings /\ t[h.close] \notin {CR, LF}
        BY <2>2, SymbolsAre
    <2>6. j # h.close
        BY <2>5, SymbolsAre
    <2>7. Begins(t, j)
        BY <2>2, MarkerStartsAre
    <2>8. j # h.close + 1
        <3>1. SUFFICES ASSUME j = h.close + 1 PROVE FALSE
            OBVIOUS
        <3>2. j # 1 /\ j - 1 = h.close
            BY <2>2, <3>1
        <3>3. QED
            BY <2>5, <2>7, <3>2 DEF Begins
    <2>9. QED
        BY <2>2, <2>4, <2>6, <2>8
<1>2. o = p => f = g
    BY DEF Framed
<1>3. o < p => f.close + 1 < p
    BY <1>1
<1>4. p < o => g.close + 1 < o
    BY <1>1
<1>5. QED
    BY <1>2, <1>3, <1>4

-----------------------------------------------------------------------------
(* Rewriting                                                               *)

\* The fragments that an update acts on, and those whose source it replaces.
Changed(t, u) == {f \in Fragments(t) : f.path \in DOMAIN u}
Spliced(t, u) == {f \in Changed(t, u) : u[f.path] # NoFile}

\* The parts of Rewrite by symbol: before it, itself, and after it.
Inserted(t, u, i) ==
    LET here == {f \in Changed(t, u) : f.first = i /\ u[f.path] # NoFile}
    IN  IF here = {} THEN <<>> ELSE u[(CHOOSE f \in here : TRUE).path]
Kept(t, u, i) ==
    IF \E f \in Changed(t, u) : u[f.path] # NoFile /\ i \in Edited(t, f) THEN <<>>
    ELSE IF \E f \in Changed(t, u) : i = f.close + 1 /\ f.baseline # NoHash THEN <<>>
    ELSE <<t[i]>>
Token(u, f) == HashToken(Hash[NewSource(u, f)])
HashAfter(t, u, i) ==
    LET here == {f \in Changed(t, u) : f.close = i}
    IN  IF here = {} THEN <<>> ELSE <<Token(u, CHOOSE f \in here : TRUE)>>

Piece(t, u, i) == Inserted(t, u, i) \o Kept(t, u, i) \o HashAfter(t, u, i)
RewritePieces(t, u) == [i \in DOMAIN t |-> Piece(t, u, i)]

(* Rewrite joins the parts.                                                *)
LEMMA RewriteIs ==
    ASSUME NEW t, NEW u
    PROVE  Rewrite(t, u) = FlattenSeq(RewritePieces(t, u))
BY DEF Rewrite, RewritePieces, Piece, Inserted, Kept, HashAfter, Token, Changed

\* The symbols that a rewriting drops.
Gone(t, u, i) ==
    \/ \E f \in Spliced(t, u) : i \in Edited(t, f)
    \/ \E f \in Changed(t, u) : i = f.close + 1 /\ f.baseline # NoHash

\* An update of a valid text with canonical sources.
Updates(t, u) ==
    /\ t \in Seq(Symbol) /\ Valid(t)
    /\ \A f \in Changed(t, u) : NewSource(u, f) \in Source
    /\ \A f \in Spliced(t, u) : u[f.path] \in Seq(Symbol) /\ IsCanonical(u[f.path])

(* The parts around a fragment are its own.                                *)
LEMMA PartsAre ==
    ASSUME NEW t, NEW u, Updates(t, u), NEW i
    PROVE  /\ \A f \in Spliced(t, u) : i = f.first => Inserted(t, u, i) = u[f.path]
           /\ (\A f \in Spliced(t, u) : i # f.first) => Inserted(t, u, i) = << >>
           /\ \A f \in Changed(t, u) : i = f.close => HashAfter(t, u, i) = <<Token(u, f)>>
           /\ (\A f \in Changed(t, u) : i # f.close) => HashAfter(t, u, i) = << >>
           /\ Kept(t, u, i) = IF Gone(t, u, i) THEN <<>> ELSE <<t[i]>>
<1>1. t \in Seq(Symbol) /\ Parses(t)
    BY DEF Updates, Valid
<1>2. ASSUME NEW f \in Fragments(t), NEW g \in Fragments(t), f.first = g.first \/ f.close = g.close
      PROVE  f = g
    <2>1. PICK o, p : Framed(t, o, f) /\ Framed(t, p, g)
        BY <1>1, FragmentsAreFramed
    <2>2. PICK N \in Nat : N = Len(t)
        BY <1>1, LenProperties
    <2>3. /\ o \in 1 .. N /\ p \in 1 .. N /\ f.first \in 1 .. N /\ g.first \in 1 .. N
          /\ f.close \in 1 .. N /\ g.close \in 1 .. N
          /\ o + 1 < f.first /\ f.first <= f.close /\ p + 1 < g.first /\ g.first <= g.close
        BY <2>1, <2>2 DEF Framed
    <2>4. /\ o < p => f.close + 1 < p
          /\ p < o => g.close + 1 < o
          /\ o = p => f = g
        BY <1>1, <2>1, FramesApart
    <2>5. ~(o < p) /\ ~(p < o)
        BY <1>2, <2>3, <2>4
    <2>6. QED
        BY <2>3, <2>4, <2>5
<1>3. ASSUME NEW f \in Spliced(t, u), i = f.first
      PROVE  Inserted(t, u, i) = u[f.path]
    <2> DEFINE here == {g \in Changed(t, u) : g.first = i /\ u[g.path] # NoFile}
    <2>1. f \in here /\ \A g \in here : g = f
        BY <1>2, <1>3 DEF Spliced, Changed
    <2>2. here # {} /\ (CHOOSE g \in here : TRUE) = f
        <3> HIDE DEF here
        <3>1. QED
            BY <2>1
    <2>3. Inserted(t, u, i) = IF here = {} THEN <<>> ELSE u[(CHOOSE g \in here : TRUE).path]
        BY DEF Inserted
    <2> HIDE DEF here
    <2>4. QED
        BY <2>2, <2>3
<1>4. ASSUME \A f \in Spliced(t, u) : i # f.first
      PROVE  Inserted(t, u, i) = << >>
    BY <1>4 DEF Inserted, Spliced
<1>5. ASSUME NEW f \in Changed(t, u), i = f.close
      PROVE  HashAfter(t, u, i) = <<Token(u, f)>>
    <2> DEFINE here == {g \in Changed(t, u) : g.close = i}
    <2>1. f \in here /\ \A g \in here : g = f
        BY <1>2, <1>5 DEF Changed
    <2>2. here # {} /\ (CHOOSE g \in here : TRUE) = f
        <3> HIDE DEF here
        <3>1. QED
            BY <2>1
    <2>3. HashAfter(t, u, i) = IF here = {} THEN <<>> ELSE <<Token(u, CHOOSE g \in here : TRUE)>>
        BY DEF HashAfter
    <2> HIDE DEF here
    <2>4. QED
        BY <2>2, <2>3
<1>6. ASSUME \A f \in Changed(t, u) : i # f.close
      PROVE  HashAfter(t, u, i) = << >>
    BY <1>6 DEF HashAfter
<1>7. Kept(t, u, i) = IF Gone(t, u, i) THEN <<>> ELSE <<t[i]>>
    BY DEF Kept, Gone, Spliced
<1>8. QED
    BY <1>3, <1>4, <1>5, <1>6, <1>7

\* The symbols from an opening marker to what may be the hash after its fragment.
Zone(o, f) == o .. (f.close + 1)

(* Each symbol is around one fragment at most.                             *)
LEMMA OneZone ==
    ASSUME NEW S, NEW t \in Seq(S), NEW o, NEW f, NEW p, NEW g,
           Framed(t, o, f), Framed(t, p, g), NEW i \in Zone(o, f), i \in Zone(p, g)
    PROVE  f = g
<1>1. PICK N \in Nat : N = Len(t)
    BY LenProperties
<1>2. o \in 1 .. N /\ p \in 1 .. N /\ f.close \in 1 .. N /\ g.close \in 1 .. N
    BY <1>1 DEF Framed
<1>3. /\ o < p => f.close + 1 < p
      /\ p < o => g.close + 1 < o
      /\ o = p => f = g
    BY FramesApart
<1>4. o <= i /\ i <= f.close + 1 /\ p <= i /\ i <= g.close + 1 /\ i \in Int
    BY <1>2 DEF Zone
<1>5. QED
    BY <1>2, <1>3, <1>4

(* What a rewriting does around a fragment is that fragment's update.      *)
LEMMA ZoneIs ==
    ASSUME NEW t, NEW u, Updates(t, u), NEW o, NEW f, Framed(t, o, f), NEW i \in Zone(o, f)
    PROVE  /\ Gone(t, u, i) <=>
                 \/ f \in Spliced(t, u) /\ i \in f.first .. (f.close - 1)
                 \/ f \in Changed(t, u) /\ i = f.close + 1 /\ f.baseline # NoHash
           /\ Inserted(t, u, i) = IF f \in Spliced(t, u) /\ i = f.first THEN u[f.path] ELSE <<>>
           /\ HashAfter(t, u, i) =
                 IF f \in Changed(t, u) /\ i = f.close THEN <<Token(u, f)>> ELSE <<>>
           /\ Kept(t, u, i) = IF Gone(t, u, i) THEN <<>> ELSE <<t[i]>>
<1>1. t \in Seq(Symbol) /\ Parses(t)
    BY DEF Updates, Valid
<1>2. PICK N \in Nat : N = Len(t)
    BY <1>1, LenProperties
<1>3. ASSUME NEW g \in Changed(t, u),
             i \in g.first .. (g.close - 1) \/ i = g.first \/ i = g.close \/ i = g.close + 1
      PROVE  g = f
    <2>1. PICK p : Framed(t, p, g)
        BY <1>1, FragmentsAreFramed DEF Changed
    <2>2. /\ p \in 1 .. N /\ g.first \in 1 .. N /\ g.close \in 1 .. N
          /\ p + 1 < g.first /\ g.first <= g.close
        BY <1>2, <2>1 DEF Framed
    <2>3. i \in Zone(p, g)
        BY <1>3, <2>2 DEF Zone
    <2>4. QED
        BY <1>1, <2>1, <2>3, OneZone
<1>4. Spliced(t, u) \subseteq Changed(t, u)
    BY DEF Spliced
<1>5. Gone(t, u, i) <=>
          \/ f \in Spliced(t, u) /\ i \in f.first .. (f.close - 1)
          \/ f \in Changed(t, u) /\ i = f.close + 1 /\ f.baseline # NoHash
    BY <1>3, <1>4 DEF Gone, Edited
<1>6. Inserted(t, u, i) = IF f \in Spliced(t, u) /\ i = f.first THEN u[f.path] ELSE <<>>
    <2>1. CASE f \in Spliced(t, u) /\ i = f.first
        BY <2>1, PartsAre
    <2>2. CASE ~(f \in Spliced(t, u) /\ i = f.first)
        <3>1. \A g \in Spliced(t, u) : i # g.first
            BY <1>3, <1>4, <2>2
        <3>2. Inserted(t, u, i) = << >>
            BY <3>1, PartsAre
        <3>3. QED
            BY <2>2, <3>2
    <2>3. QED
        BY <2>1, <2>2
<1>7. HashAfter(t, u, i) = IF f \in Changed(t, u) /\ i = f.close THEN <<Token(u, f)>> ELSE <<>>
    <2>1. CASE f \in Changed(t, u) /\ i = f.close
        BY <2>1, PartsAre
    <2>2. CASE ~(f \in Changed(t, u) /\ i = f.close)
        <3>1. \A g \in Changed(t, u) : i # g.close
            BY <1>3, <2>2
        <3>2. HashAfter(t, u, i) = << >>
            BY <3>1, PartsAre
        <3>3. QED
            BY <2>2, <3>2
    <2>3. QED
        BY <2>1, <2>2
<1>8. QED
    BY <1>5, <1>6, <1>7, PartsAre

(* It does nothing elsewhere.                                              *)
LEMMA NoZoneIs ==
    ASSUME NEW t, NEW u, Updates(t, u), NEW i, \A o, f : Framed(t, o, f) => i \notin Zone(o, f)
    PROVE  /\ ~Gone(t, u, i) /\ Inserted(t, u, i) = << >> /\ HashAfter(t, u, i) = << >>
           /\ Kept(t, u, i) = <<t[i]>>
<1>1. t \in Seq(Symbol) /\ Parses(t)
    BY DEF Updates, Valid
<1>2. PICK N \in Nat : N = Len(t)
    BY <1>1, LenProperties
<1>3. ASSUME NEW g \in Changed(t, u)
      PROVE  ~(i \in g.first .. (g.close - 1) \/ i = g.first \/ i = g.close \/ i = g.close + 1)
    <2>1. PICK p : Framed(t, p, g)
        BY <1>1, FragmentsAreFramed DEF Changed
    <2>2. /\ p \in 1 .. N /\ g.first \in 1 .. N /\ g.close \in 1 .. N
          /\ p + 1 < g.first /\ g.first <= g.close
        BY <1>2, <2>1 DEF Framed
    <2>3. i \notin Zone(p, g)
        BY <2>1
    <2>4. QED
        BY <2>2, <2>3 DEF Zone
<1>4. Spliced(t, u) \subseteq Changed(t, u)
    BY DEF Spliced
<1>5. ~Gone(t, u, i)
    BY <1>3, <1>4 DEF Gone, Edited
<1>6. (\A g \in Spliced(t, u) : i # g.first) /\ (\A g \in Changed(t, u) : i # g.close)
    BY <1>3, <1>4
<1>7. QED
    BY <1>5, <1>6, PartsAre

(* A rewriting is joined from typed parts.                                 *)
LEMMA RewritePiecesAre ==
    ASSUME NEW t, NEW u, Updates(t, u)
    PROVE  /\ RewritePieces(t, u) \in Seq(Seq(Symbol)) /\ Len(RewritePieces(t, u)) = Len(t)
           /\ Rewrite(t, u) = FlattenSeq(RewritePieces(t, u)) /\ Rewrite(t, u) \in Seq(Symbol)
           /\ \A i \in 1 .. Len(t) :
                 /\ RewritePieces(t, u)[i] = Piece(t, u, i)
                 /\ Inserted(t, u, i) \in Seq(Symbol) /\ Kept(t, u, i) \in Seq(Symbol)
                 /\ HashAfter(t, u, i) \in Seq(Symbol)
           /\ \A f \in Changed(t, u) : Token(u, f) \in HashTokens
<1>1. t \in Seq(Symbol) /\ Parses(t)
    BY DEF Updates, Valid
<1>2. PICK N \in Nat : N = Len(t)
    BY <1>1, LenProperties
<1>3. DOMAIN t = 1 .. N /\ \A i \in 1 .. N : t[i] \in Symbol
    BY <1>1, <1>2, LenProperties, ElementOfSeq
<1>4. \A f \in Changed(t, u) : Token(u, f) \in HashTokens
    BY HashAssumption DEF Token, Updates, HashTokens
<1>5. << >> \in Seq(Symbol) /\ \A x \in Symbol : <<x>> \in Seq(Symbol)
    BY EmptySeq
<1>6. ASSUME NEW i \in 1 .. N
      PROVE  /\ Inserted(t, u, i) \in Seq(Symbol) /\ Kept(t, u, i) \in Seq(Symbol)
             /\ HashAfter(t, u, i) \in Seq(Symbol)
    <2>1. Inserted(t, u, i) \in Seq(Symbol)
        <3>1. CASE \E f \in Spliced(t, u) : i = f.first
            <4>1. PICK f \in Spliced(t, u) : i = f.first
                BY <3>1
            <4>2. Inserted(t, u, i) = u[f.path]
                BY <4>1, PartsAre
            <4>3. QED
                BY <4>2 DEF Updates
        <3>2. CASE \A f \in Spliced(t, u) : i # f.first
            <4>1. Inserted(t, u, i) = << >>
                BY <3>2, PartsAre
            <4>2. QED
                BY <1>5, <4>1
        <3>3. QED
            BY <3>1, <3>2
    <2>2. Kept(t, u, i) \in Seq(Symbol)
        <3>1. Kept(t, u, i) \in {<< >>, <<t[i]>>}
            BY PartsAre
        <3>2. <<t[i]>> \in Seq(Symbol)
            BY <1>3, <1>5
        <3>3. QED
            BY <1>5, <3>1, <3>2
    <2>3. HashAfter(t, u, i) \in Seq(Symbol)
        <3>1. CASE \E f \in Changed(t, u) : i = f.close
            <4>1. PICK f \in Changed(t, u) : i = f.close
                BY <3>1
            <4>2. HashAfter(t, u, i) = <<Token(u, f)>>
                BY <4>1, PartsAre
            <4>3. Token(u, f) \in Symbol
                BY <1>4, SymbolsAre
            <4>4. QED
                BY <1>5, <4>2, <4>3
        <3>2. CASE \A f \in Changed(t, u) : i # f.close
            <4>1. HashAfter(t, u, i) = << >>
                BY <3>2, PartsAre
            <4>2. QED
                BY <1>5, <4>1
        <3>3. QED
            BY <3>1, <3>2
    <2>4. QED
        BY <2>1, <2>2, <2>3
<1>7. ASSUME NEW i \in 1 .. N
      PROVE  Piece(t, u, i) \in Seq(Symbol)
    <2>1. Inserted(t, u, i) \o Kept(t, u, i) \in Seq(Symbol)
        BY <1>6, ConcatProperties
    <2>2. QED
        BY <1>6, <2>1, ConcatProperties DEF Piece
<1>8. /\ RewritePieces(t, u) \in [1 .. N -> Seq(Symbol)]
      /\ \A i \in 1 .. N : RewritePieces(t, u)[i] = Piece(t, u, i)
    BY <1>3, <1>7 DEF RewritePieces
<1>9. RewritePieces(t, u) \in Seq(Seq(Symbol)) /\ Len(RewritePieces(t, u)) = N
    BY <1>8, FunctionIsSeq
<1>10. Rewrite(t, u) \in Seq(Symbol)
    BY <1>9, RewriteIs, OffIs
<1>11. QED
    BY <1>2, <1>4, <1>6, <1>8, <1>9, <1>10, RewriteIs

\* Where the parts of the first n symbols end, and where a kept symbol comes.
To(t, u, n) == Off(RewritePieces(t, u), n)
Pos(t, u, i) == To(t, u, i - 1) + Len(Inserted(t, u, i)) + 1

(* Three parts put together.                                               *)
LEMMA ThreeParts ==
    ASSUME NEW S, NEW a \in Seq(S), NEW b \in Seq(S), NEW c \in Seq(S),
           Len(b) \in 0 .. 1, Len(c) \in 0 .. 1
    PROVE  /\ a \o b \o c \in Seq(S) /\ Len(a) \in Nat
           /\ Len(a \o b \o c) = Len(a) + Len(b) + Len(c)
           /\ \A j \in 1 .. Len(a) : (a \o b \o c)[j] = a[j]
           /\ Len(b) = 1 => (a \o b \o c)[Len(a) + 1] = b[1]
           /\ Len(b) = 1 /\ Len(c) = 1 => (a \o b \o c)[Len(a) + 2] = c[1]
<1>1. PICK l \in Nat, m \in 0 .. 1, n \in 0 .. 1 : l = Len(a) /\ m = Len(b) /\ n = Len(c)
    BY LenProperties
<1> DEFINE ab == a \o b
<1>2. /\ ab \in Seq(S) /\ Len(ab) = l + m
      /\ \A j \in 1 .. l + m : ab[j] = IF j <= l THEN a[j] ELSE b[j - l]
    BY <1>1, ConcatProperties
<1> HIDE DEF ab
<1>3. PICK d \in Nat : d = l + m /\ d = Len(ab)
    BY <1>1, <1>2
<1>4. /\ ab \o c \in Seq(S) /\ Len(ab \o c) = d + n
      /\ \A j \in 1 .. d + n : (ab \o c)[j] = IF j <= d THEN ab[j] ELSE c[j - d]
    <2>1. ab \in Seq(S) /\ Len(ab) = d /\ Len(c) = n
        BY <1>1, <1>2, <1>3
    <2>2. QED
        BY <2>1, ConcatProperties
<1>5. ASSUME NEW j \in 1 .. l
      PROVE  (ab \o c)[j] = a[j]
    <2>1. j \in 1 .. d + n /\ j <= d /\ j \in 1 .. l + m /\ j <= l
        BY <1>1, <1>3
    <2>2. QED
        BY <1>2, <1>4, <2>1
<1>6. ASSUME m = 1
      PROVE  (ab \o c)[l + 1] = b[1]
    <2> DEFINE j == l + 1
    <2>1. j \in 1 .. d + n /\ j <= d /\ j \in 1 .. l + m /\ ~(j <= l) /\ j - l = 1
        BY <1>1, <1>3, <1>6
    <2> HIDE DEF j
    <2>2. (ab \o c)[j] = b[1]
        BY <1>2, <1>4, <2>1
    <2>3. QED
        BY <2>2 DEF j
<1>7. ASSUME m = 1, n = 1
      PROVE  (ab \o c)[l + 2] = c[1]
    <2> DEFINE j == l + 2
    <2>1. j \in 1 .. d + n /\ ~(j <= d) /\ j - d = 1
        BY <1>1, <1>3, <1>7
    <2> HIDE DEF j
    <2>2. (ab \o c)[j] = c[1]
        BY <1>4, <2>1
    <2>3. QED
        BY <2>2 DEF j
<1>8. QED
    BY <1>1, <1>3, <1>4, <1>5, <1>6, <1>7 DEF ab

(* What symbols stand in the rewriting, and where.                         *)
LEMMA PositionsAre ==
    ASSUME NEW t, NEW u, Updates(t, u), NEW i \in 1 .. Len(t)
    PROVE  /\ To(t, u, i - 1) \in Nat /\ To(t, u, i) \in Nat /\ Len(Inserted(t, u, i)) \in Nat
           /\ To(t, u, i) <= Len(Rewrite(t, u))
           /\ \A j \in 1 .. Len(Inserted(t, u, i)) :
                 Rewrite(t, u)[To(t, u, i - 1) + j] = Inserted(t, u, i)[j]
           /\ ~Gone(t, u, i) => /\ Rewrite(t, u)[Pos(t, u, i)] = t[i]
                                /\ Pos(t, u, i) \in Nat /\ To(t, u, i - 1) < Pos(t, u, i)
                                /\ Pos(t, u, i) <= To(t, u, i)
           /\ ~Gone(t, u, i) /\ HashAfter(t, u, i) = << >> => To(t, u, i) = Pos(t, u, i)
           /\ \A x : ~Gone(t, u, i) /\ HashAfter(t, u, i) = <<x>> =>
                        /\ To(t, u, i) = Pos(t, u, i) + 1
                        /\ Rewrite(t, u)[Pos(t, u, i) + 1] = x
           /\ Gone(t, u, i) /\ HashAfter(t, u, i) = << >> =>
                 To(t, u, i) = To(t, u, i - 1) + Len(Inserted(t, u, i))
<1> DEFINE ss == RewritePieces(t, u)
           a == Inserted(t, u, i)
           b == Kept(t, u, i)
           c == HashAfter(t, u, i)
<1>1. PICK N \in Nat : N = Len(t)
    BY LenProperties DEF Updates
<1>2. /\ ss \in Seq(Seq(Symbol)) /\ Len(ss) = N /\ Rewrite(t, u) = FlattenSeq(ss)
      /\ ss[i] = a \o b \o c
      /\ a \in Seq(Symbol) /\ b \in Seq(Symbol) /\ c \in Seq(Symbol)
    BY <1>1, RewritePiecesAre DEF Piece
<1>3. \A x : Len(<<x>>) = 1 /\ <<x>>[1] = x
    OBVIOUS
<1>4. Len(<< >>) = 0
    OBVIOUS
<1>5. (Gone(t, u, i) => b = << >>) /\ (~Gone(t, u, i) => b = <<t[i]>>)
    BY PartsAre
<1>6. Len(b) \in 0 .. 1
    <2> HIDE DEF b
    <2>1. CASE Gone(t, u, i)
        BY <1>4, <1>5, <2>1
    <2>2. CASE ~Gone(t, u, i)
        <3>1. Len(<<t[i]>>) = 1
            OBVIOUS
        <3>2. QED
            BY <1>5, <2>2, <3>1
    <2>3. QED
        BY <2>1, <2>2
<1>7. Len(c) \in 0 .. 1
    <2>1. c = << >> \/ \E x : c = <<x>>
        BY PartsAre
    <2> HIDE DEF c
    <2>2. QED
        BY <1>3, <1>4, <2>1
<1> HIDE DEF a, b, c, ss
<1>8. PICK l \in Nat, m \in 0 .. 1, n \in 0 .. 1 : l = Len(a) /\ m = Len(b) /\ n = Len(c)
    BY <1>2, <1>6, <1>7, LenProperties
<1>9. /\ Len(ss[i]) = l + m + n
      /\ \A j \in 1 .. l : ss[i][j] = a[j]
      /\ m = 1 => ss[i][l + 1] = b[1]
      /\ m = 1 /\ n = 1 => ss[i][l + 2] = c[1]
    <2>1. /\ Len(a \o b \o c) = Len(a) + Len(b) + Len(c)
          /\ \A j \in 1 .. Len(a) : (a \o b \o c)[j] = a[j]
          /\ Len(b) = 1 => (a \o b \o c)[Len(a) + 1] = b[1]
          /\ Len(b) = 1 /\ Len(c) = 1 => (a \o b \o c)[Len(a) + 2] = c[1]
        <3>1. a \in Seq(Symbol) /\ b \in Seq(Symbol) /\ c \in Seq(Symbol)
            BY <1>2
        <3>2. QED
            BY <3>1, <1>6, <1>7, ThreeParts
    <2>2. QED
        BY <1>2, <1>8, <2>1
<1>10. i - 1 \in 0 .. N /\ i \in 0 .. N /\ N \in i .. N /\ i \in 1 .. N
    BY <1>1
<1>11. PICK o \in Nat, p \in Nat, q \in Nat :
           o = Off(ss, i - 1) /\ p = Off(ss, i) /\ q = Len(FlattenSeq(ss))
    BY <1>2, <1>10, OffIs, LenProperties
<1>12. p = o + (l + m + n) /\ p <= q
    <2>1. Off(ss, i) = Off(ss, i - 1) + Len(ss[i]) /\ Off(ss, N) = q
        BY <1>2, <1>10, <1>11, OffIs
    <2>2. Off(ss, i) <= Off(ss, N)
        BY <1>2, <1>10, OffGrows
    <2>3. QED
        BY <1>9, <1>11, <2>1, <2>2
<1>13. \A k \in 1 .. (l + m + n) : FlattenSeq(ss)[o + k] = ss[i][k]
    <2>1. \A k \in 1 .. Len(ss[i]) : FlattenSeq(ss)[Off(ss, i - 1) + k] = ss[i][k]
        BY <1>2, <1>10, PieceIsThere
    <2>2. QED
        BY <1>9, <1>11, <2>1
<1>14. To(t, u, i - 1) = o /\ To(t, u, i) = p /\ Pos(t, u, i) = o + l + 1
    BY <1>8, <1>11 DEF To, Pos, ss, a
<1>15. ASSUME NEW j \in 1 .. l
       PROVE  FlattenSeq(ss)[o + j] = a[j]
    <2>1. j \in 1 .. (l + m + n)
        BY <1>8
    <2>2. QED
        BY <1>9, <1>13, <2>1
<1>16. ASSUME m = 1
       PROVE  FlattenSeq(ss)[o + l + 1] = b[1]
    <2>1. l + 1 \in 1 .. (l + m + n) /\ o + (l + 1) = o + l + 1
        BY <1>8, <1>11, <1>16
    <2>2. FlattenSeq(ss)[o + (l + 1)] = ss[i][l + 1]
        BY <1>13, <2>1
    <2>3. QED
        BY <1>9, <1>16, <2>1, <2>2
<1>17. ASSUME m = 1, n = 1
       PROVE  FlattenSeq(ss)[(o + l + 1) + 1] = c[1]
    <2>1. l + 2 \in 1 .. (l + m + n) /\ o + (l + 2) = (o + l + 1) + 1
        BY SMTT(40), <1>8, <1>11, <1>17
    <2>2. FlattenSeq(ss)[o + (l + 2)] = ss[i][l + 2]
        BY <1>13, <2>1
    <2>3. QED
        BY <1>9, <1>17, <2>1, <2>2
<1>18. ASSUME ~Gone(t, u, i)
       PROVE  m = 1 /\ b[1] = t[i]
    <2>1. b = <<t[i]>>
        BY <1>5, <1>18
    <2>2. QED
        BY <1>3, <1>8, <2>1
<1>19. Gone(t, u, i) => m = 0
    BY <1>4, <1>5, <1>8
<1>20. (c = << >> => n = 0) /\ \A x : c = <<x>> => n = 1 /\ c[1] = x
    BY <1>3, <1>4, <1>8
<1>21. ASSUME ~Gone(t, u, i)
       PROVE  /\ FlattenSeq(ss)[o + l + 1] = t[i]
              /\ o < o + l + 1 /\ o + l + 1 <= p
    <2>1. m = 1 /\ b[1] = t[i]
        BY <1>18, <1>21
    <2>2. FlattenSeq(ss)[o + l + 1] = b[1]
        BY <1>16, <2>1
    <2>3. o < o + l + 1 /\ o + l + 1 <= p
        BY <1>8, <1>11, <1>12, <2>1
    <2>4. QED
        BY <2>1, <2>2, <2>3
<1>22. ASSUME ~Gone(t, u, i), c = << >>
       PROVE  p = o + l + 1
    <2>1. m = 1 /\ n = 0
        BY <1>18, <1>20, <1>22
    <2>2. QED
        BY <1>8, <1>11, <1>12, <2>1
<1>23. ASSUME NEW x, ~Gone(t, u, i), c = <<x>>
       PROVE  p = (o + l + 1) + 1 /\ FlattenSeq(ss)[(o + l + 1) + 1] = x
    <2>1. m = 1 /\ n = 1 /\ c[1] = x
        BY <1>18, <1>20, <1>23
    <2>2. FlattenSeq(ss)[(o + l + 1) + 1] = c[1]
        BY <1>17, <2>1
    <2>3. p = (o + l + 1) + 1
        BY <1>8, <1>11, <1>12, <2>1
    <2>4. QED
        BY <2>1, <2>2, <2>3
<1>24. Gone(t, u, i) /\ c = << >> => p = o + l
    BY <1>8, <1>11, <1>12, <1>19, <1>20
<1>25. o + l + 1 \in Nat
    BY <1>8, <1>11
<1>26. QED
    BY <1>2, <1>8, <1>11, <1>12, <1>14, <1>15, <1>21, <1>22, <1>23, <1>24, <1>25 DEF a, c

(* A symbol that goes has nothing put after it.                            *)
LEMMA GoneIs ==
    ASSUME NEW t, NEW u, Updates(t, u), NEW i \in 1 .. Len(t), Gone(t, u, i)
    PROVE  /\ HashAfter(t, u, i) = << >>
           /\ \E o, f : Framed(t, o, f) /\ i \in Zone(o, f) /\ i # f.close
<1>1. t \in Seq(Symbol) /\ Parses(t)
    BY DEF Updates, Valid
<1>2. PICK N \in Nat : N = Len(t)
    BY <1>1, LenProperties
<1>3. PICK o, f : Framed(t, o, f) /\ i \in Zone(o, f)
    BY NoZoneIs
<1>4. /\ o \in 1 .. N /\ f.first \in 1 .. N /\ f.close \in 1 .. N
    BY <1>2, <1>3 DEF Framed
<1>5. i \in f.first .. (f.close - 1) \/ i = f.close + 1
    BY <1>3, ZoneIs
<1>6. i # f.close
    BY <1>4, <1>5
<1>7. HashAfter(t, u, i) = << >>
    BY <1>3, <1>6, ZoneIs
<1>8. QED
    BY <1>3, <1>6, <1>7

(* Positions keep the order of the symbols.                                *)
LEMMA OrderKept ==
    ASSUME NEW t, NEW u, Updates(t, u)
    PROVE  /\ \A n \in 0 .. Len(t) : To(t, u, n) \in Nat
           /\ To(t, u, 0) = 0 /\ To(t, u, Len(t)) = Len(Rewrite(t, u))
           /\ \A m \in 0 .. Len(t) : \A n \in m .. Len(t) : To(t, u, m) <= To(t, u, n)
           /\ \A i, n \in 1 .. Len(t) : ~Gone(t, u, i) /\ ~Gone(t, u, n) /\ i < n =>
                 Pos(t, u, i) < Pos(t, u, n)
<1> DEFINE ss == RewritePieces(t, u)
<1>1. PICK N \in Nat : N = Len(t)
    BY LenProperties DEF Updates
<1>2. ss \in Seq(Seq(Symbol)) /\ Len(ss) = N /\ Rewrite(t, u) = FlattenSeq(ss)
    BY <1>1, RewritePiecesAre
<1> HIDE DEF ss
<1>3. /\ \A n \in 0 .. N : Off(ss, n) \in Nat
      /\ Off(ss, 0) = 0 /\ Off(ss, N) = Len(FlattenSeq(ss))
    BY <1>2, OffIs
<1>4. \A m \in 0 .. N : \A n \in m .. N : Off(ss, m) <= Off(ss, n)
    BY <1>2, OffGrows
<1>5. ASSUME NEW i \in 1 .. N, NEW n \in 1 .. N, ~Gone(t, u, i), ~Gone(t, u, n), i < n
      PROVE  Pos(t, u, i) < Pos(t, u, n)
    <2>1. i \in 0 .. N /\ n - 1 \in i .. N /\ n - 1 \in 0 .. N
        BY <1>1, <1>5
    <2>2. Pos(t, u, i) <= To(t, u, i) /\ Pos(t, u, i) \in Nat
        BY <1>1, <1>5, PositionsAre
    <2>3. To(t, u, n - 1) < Pos(t, u, n) /\ Pos(t, u, n) \in Nat
        BY <1>1, <1>5, PositionsAre
    <2>4. To(t, u, i) <= To(t, u, n - 1) /\ To(t, u, i) \in Nat /\ To(t, u, n - 1) \in Nat
        BY <1>3, <1>4, <2>1 DEF To, ss
    <2>5. QED
        BY <2>2, <2>3, <2>4
<1>6. QED
    BY <1>1, <1>2, <1>3, <1>4, <1>5 DEF To, ss

(* Each symbol of the rewriting was put in, was kept, or is a new hash.    *)
LEMMA PositionOf ==
    ASSUME NEW t, NEW u, Updates(t, u), NEW k \in 1 .. Len(Rewrite(t, u))
    PROVE  \E i \in 1 .. Len(t) :
              \/ \E f \in Spliced(t, u) :
                    /\ i = f.first /\ To(t, u, i - 1) < k
                    /\ k <= To(t, u, i - 1) + Len(u[f.path])
              \/ ~Gone(t, u, i) /\ k = Pos(t, u, i)
              \/ \E f \in Changed(t, u) : i = f.close /\ ~Gone(t, u, i) /\ k = Pos(t, u, i) + 1
<1> DEFINE ss == RewritePieces(t, u)
<1>1. PICK N \in Nat : N = Len(t)
    BY LenProperties DEF Updates
<1>2. ss \in Seq(Seq(Symbol)) /\ Len(ss) = N /\ Rewrite(t, u) = FlattenSeq(ss)
    BY <1>1, RewritePiecesAre
<1> HIDE DEF ss
<1>3. PICK i \in 1 .. N : Off(ss, i - 1) < k /\ k <= Off(ss, i)
    BY <1>2, PieceOf
<1>4. To(t, u, i - 1) < k /\ k <= To(t, u, i)
    BY <1>3 DEF To, ss
<1>5. PICK o \in Nat, p \in Nat, l \in Nat :
          o = To(t, u, i - 1) /\ p = To(t, u, i) /\ l = Len(Inserted(t, u, i))
    BY <1>1, PositionsAre
<1>6. k \in Nat
    BY LenProperties, RewritePiecesAre
<1>7. CASE k <= o + l
    <2>1. l # 0
        BY <1>4, <1>5, <1>6, <1>7
    <2>2. Inserted(t, u, i) # << >>
        <3>1. Len(<< >>) = 0
            OBVIOUS
        <3>2. QED
            BY <1>5, <2>1, <3>1
    <2>3. PICK f \in Spliced(t, u) : i = f.first
        BY <2>2, PartsAre
    <2>4. Inserted(t, u, i) = u[f.path]
        BY <2>3, PartsAre
    <2>5. To(t, u, i - 1) < k /\ k <= To(t, u, i - 1) + Len(u[f.path])
        BY <1>4, <1>5, <1>7, <2>4
    <2>6. QED
        BY <1>1, <2>3, <2>5
<1>8. CASE ~(k <= o + l)
    <2>1. ~Gone(t, u, i)
        <3>1. SUFFICES ASSUME Gone(t, u, i) PROVE FALSE
            OBVIOUS
        <3>2. HashAfter(t, u, i) = << >>
            BY <1>1, <3>1, GoneIs
        <3>3. p = o + l
            BY <1>1, <1>5, <3>1, <3>2, PositionsAre
        <3>4. QED
            BY <1>4, <1>5, <1>8, <3>3
    <2>2. Pos(t, u, i) = o + l + 1
        BY <1>5 DEF Pos
    <2>3. CASE HashAfter(t, u, i) = << >>
        <3>1. p = o + l + 1
            BY <1>1, <1>5, <2>1, <2>2, <2>3, PositionsAre
        <3>2. k = Pos(t, u, i)
            BY <1>4, <1>5, <1>6, <1>8, <2>2, <3>1
        <3>3. QED
            BY <1>1, <2>1, <3>2
    <2>4. CASE HashAfter(t, u, i) # << >>
        <3>1. PICK f \in Changed(t, u) : i = f.close
            BY <2>4, PartsAre
        <3>2. HashAfter(t, u, i) = <<Token(u, f)>>
            BY <3>1, PartsAre
        <3>3. p = (o + l + 1) + 1
            BY <1>1, <1>5, <2>1, <2>2, <3>2, PositionsAre
        <3>4. k = Pos(t, u, i) \/ k = Pos(t, u, i) + 1
            BY SMTT(40), <1>4, <1>5, <1>6, <1>8, <2>2, <3>3
        <3>5. QED
            BY <1>1, <2>1, <3>1, <3>4
    <2>5. QED
        BY <2>3, <2>4
<1>9. QED
    BY <1>7, <1>8

(* Symbols that are kept with nothing put between them stay together.      *)
LEMMA RunIs ==
    ASSUME NEW t, NEW u, Updates(t, u), NEW b \in 1 .. Len(t), NEW a \in 1 .. b,
           \A i \in a .. b : ~Gone(t, u, i) /\ Inserted(t, u, i) = << >>,
           \A i \in a .. (b - 1) : HashAfter(t, u, i) = << >>
    PROVE  \A i \in a .. b : Pos(t, u, i) = To(t, u, a - 1) + (i - a) + 1
<1>1. PICK N \in Nat : N = Len(t)
    BY LenProperties DEF Updates
<1>2. PICK z \in Nat : z = To(t, u, a - 1)
    <2>1. a \in 1 .. Len(t)
        BY <1>1
    <2>2. To(t, u, a - 1) \in Nat
        BY <2>1, PositionsAre
    <2>3. QED
        BY <2>2
<1>3. Len(<< >>) = 0
    OBVIOUS
<1>4. \A i \in a .. b : To(t, u, i - 1) \in Nat /\ Pos(t, u, i) = To(t, u, i - 1) + 1
    <2>1. ASSUME NEW i \in a .. b
          PROVE  To(t, u, i - 1) \in Nat /\ Pos(t, u, i) = To(t, u, i - 1) + 1
        <3>1. i \in 1 .. Len(t) /\ Inserted(t, u, i) = << >>
            BY <1>1
        <3>2. To(t, u, i - 1) \in Nat
            BY <3>1, PositionsAre
        <3>3. Pos(t, u, i) = To(t, u, i - 1) + Len(<< >>) + 1
            BY <3>1 DEF Pos
        <3>4. QED
            BY <1>3, <3>2, <3>3
    <2>2. QED
        BY <2>1
<1> DEFINE T == {n \in Nat : n <= b - a => To(t, u, a + n - 1) = z + n}
<1>5. 0 \in T
    <2>1. a + 0 - 1 = a - 1
        BY <1>1
    <2>2. QED
        BY <1>2, <2>1
<1>6. ASSUME NEW n \in Nat, n \in T, n < b - a
      PROVE  n + 1 \in T
    <2>1. PICK i \in a .. b : i = a + n /\ i \in 1 .. Len(t) /\ i \in a .. (b - 1)
        BY <1>1, <1>6
    <2>2. To(t, u, i - 1) = z + n
        BY <1>1, <1>6, <2>1
    <2>3. Pos(t, u, i) = z + n + 1
        BY <1>4, <2>1, <2>2
    <2>4. To(t, u, i) = Pos(t, u, i)
        BY <2>1, PositionsAre
    <2>5. i = a + (n + 1) - 1
        BY <1>1, <2>1
    <2>6. To(t, u, a + (n + 1) - 1) = z + (n + 1)
        BY <1>2, <2>3, <2>4, <2>5
    <2>7. QED
        BY <2>6
<1>7. ASSUME NEW i \in a .. b
      PROVE  Pos(t, u, i) = z + (i - a) + 1
    <2>1. PICK m \in Nat : m = b - a
        BY <1>1
    <2>2. \A n \in Nat : n \in T /\ n < m => n + 1 \in T
        BY <1>6, <2>1
    <2>3. \A n \in 0 .. m : n \in T
        <3> HIDE DEF T
        <3>1. QED
            BY <1>5, <2>2, UpTo
    <2>4. PICK n \in 0 .. m : i = a + n
        <3>1. i - a \in 0 .. m /\ i = a + (i - a)
            BY <1>1, <2>1
        <3>2. QED
            BY <3>1
    <2>5. To(t, u, a + n - 1) = z + n
        BY <2>1, <2>3
    <2>6. a + n - 1 = i - 1
        BY <2>4
    <2>7. QED
        BY <1>1, <1>4, <2>4, <2>5, <2>6
<1>8. QED
    BY <1>2, <1>7

(* Symbols that go with nothing put between them leave nothing.            *)
LEMMA GapIs ==
    ASSUME NEW t, NEW u, Updates(t, u), NEW b \in 1 .. Len(t), NEW a \in 1 .. b,
           \A i \in (a + 1) .. b : Gone(t, u, i) /\ Inserted(t, u, i) = << >>
    PROVE  To(t, u, b) = To(t, u, a)
<1>1. PICK N \in Nat : N = Len(t)
    BY LenProperties DEF Updates
<1>2. PICK z \in Nat : z = To(t, u, a)
    BY <1>1, PositionsAre
<1>3. Len(<< >>) = 0
    OBVIOUS
<1> DEFINE T == {n \in Nat : n <= b - a => To(t, u, a + n) = z}
<1>4. 0 \in T
    <2>1. a + 0 = a
        BY <1>1
    <2>2. QED
        BY <1>2, <2>1
<1>5. ASSUME NEW n \in Nat, n \in T, n < b - a
      PROVE  n + 1 \in T
    <2>1. PICK i \in (a + 1) .. b : i = a + (n + 1) /\ i \in 1 .. Len(t) /\ i - 1 = a + n
        BY <1>1, <1>5
    <2>2. To(t, u, i - 1) = z
        BY <1>1, <1>5, <2>1
    <2>3. HashAfter(t, u, i) = << >>
        BY <2>1, GoneIs
    <2>4. To(t, u, i) = To(t, u, i - 1) + Len(Inserted(t, u, i))
        BY <2>1, <2>3, PositionsAre
    <2>5. To(t, u, a + (n + 1)) = z
        BY <1>2, <1>3, <2>1, <2>2, <2>4
    <2>6. QED
        BY <2>5
<1>6. PICK m \in Nat : m = b - a
    BY <1>1
<1>7. \A n \in Nat : n \in T /\ n < m => n + 1 \in T
    BY <1>5, <1>6
<1>8. m \in T
    <2> HIDE DEF T
    <2>1. m \in 0 .. m
        OBVIOUS
    <2>2. QED
        BY <1>4, <1>7, <2>1, UpTo
<1>9. a + m = b
    BY <1>1, <1>6
<1>10. QED
    BY <1>2, <1>6, <1>8, <1>9

(* An opening line is kept as it is.                                       *)
LEMMA HeadIs ==
    ASSUME NEW t, NEW u, Updates(t, u), NEW o, NEW f, Framed(t, o, f)
    PROVE  /\ \A i \in o .. (f.first - 1) :
                 /\ i \in 1 .. Len(t) /\ ~Gone(t, u, i) /\ Pos(t, u, i) = Pos(t, u, o) + (i - o)
                 /\ Rewrite(t, u)[Pos(t, u, i)] = t[i]
           /\ To(t, u, f.first - 1) = Pos(t, u, f.first - 1)
           /\ Pos(t, u, o) \in Nat /\ Pos(t, u, o) > 0
<1>1. PICK N \in Nat : N = Len(t)
    BY LenProperties DEF Updates
<1>2. /\ o \in 1 .. N /\ f.first \in 1 .. N /\ f.close \in 1 .. N
      /\ o + 1 < f.first /\ f.first <= f.close
    BY <1>1 DEF Framed
<1>3. PICK e \in 1 .. N : e = f.first - 1 /\ o \in 1 .. e
    BY <1>2
<1>4. ASSUME NEW i \in o .. e
      PROVE  /\ ~Gone(t, u, i) /\ Inserted(t, u, i) = << >> /\ HashAfter(t, u, i) = << >>
             /\ i \in 1 .. N
    <2>1. /\ i \in Zone(o, f) /\ i \notin f.first .. (f.close - 1)
          /\ i # f.close + 1 /\ i # f.first /\ i # f.close /\ i \in 1 .. N
        BY <1>2, <1>3 DEF Zone
    <2>2. QED
        BY <2>1, ZoneIs
<1>5. \A i \in o .. e : Pos(t, u, i) = To(t, u, o - 1) + (i - o) + 1
    <2>1. \A i \in o .. (e - 1) : i \in o .. e
        BY <1>2, <1>3
    <2>2. QED
        BY <1>1, <1>3, <1>4, <2>1, RunIs
<1>6. To(t, u, o - 1) \in Nat
    BY <1>1, <1>2, PositionsAre
<1>7. Pos(t, u, o) = To(t, u, o - 1) + 1
    <2>1. o \in o .. e
        BY <1>2, <1>3
    <2>2. Pos(t, u, o) = To(t, u, o - 1) + (o - o) + 1
        BY <1>5, <2>1
    <2>3. QED
        BY <1>2, <1>6, <2>2
<1>8. \A i \in o .. e : Pos(t, u, i) = Pos(t, u, o) + (i - o)
    BY <1>2, <1>3, <1>5, <1>6, <1>7
<1>9. \A i \in o .. e : Rewrite(t, u)[Pos(t, u, i)] = t[i]
    BY <1>1, <1>4, PositionsAre
<1>10. To(t, u, e) = Pos(t, u, e)
    <2>1. e \in o .. e
        BY <1>2, <1>3
    <2>2. QED
        BY <1>1, <1>4, <2>1, PositionsAre
<1>11. Pos(t, u, o) \in Nat /\ Pos(t, u, o) > 0
    BY <1>6, <1>7
<1>12. QED
    BY <1>1, <1>3, <1>4, <1>8, <1>9, <1>10, <1>11

\* The source that a fragment has after a rewriting.
NewText(t, u, f) == IF f \in Spliced(t, u) THEN u[f.path] ELSE f.source

(* Between the markers comes the new source.                               *)
LEMMA BodyIs ==
    ASSUME NEW t, NEW u, Updates(t, u), NEW o, NEW f, Framed(t, o, f)
    PROVE  /\ ~Gone(t, u, f.close) /\ Rewrite(t, u)[Pos(t, u, f.close)] = t[f.close]
           /\ To(t, u, f.first - 1) \in Nat
           /\ NewText(t, u, f) \in Seq(Symbol) /\ Len(NewText(t, u, f)) \in Nat
           /\ Pos(t, u, f.close) = To(t, u, f.first - 1) + Len(NewText(t, u, f)) + 1
           /\ \A j \in 1 .. Len(NewText(t, u, f)) :
                 Rewrite(t, u)[To(t, u, f.first - 1) + j] = NewText(t, u, f)[j]
<1> DEFINE new == NewText(t, u, f)
<1>1. PICK N \in Nat : N = Len(t)
    BY LenProperties DEF Updates
<1>2. t \in Seq(Symbol)
    BY DEF Updates
<1>3. PICK a \in 1 .. N, c \in 1 .. N : a = f.first /\ c = f.close /\ a <= c /\ o \in 1 .. N /\ o + 1 < a
    BY <1>1 DEF Framed
<1>4. \A i \in a .. c : i \in Zone(o, f) /\ i \in 1 .. N
    BY <1>3 DEF Zone
<1>5. ~Gone(t, u, c)
    <2>1. c \in Zone(o, f) /\ c \notin a .. (c - 1) /\ c # c + 1
        BY <1>3, <1>4
    <2>2. QED
        BY <1>3, <2>1, ZoneIs
<1>6. Rewrite(t, u)[Pos(t, u, c)] = t[c]
    BY <1>1, <1>3, <1>5, PositionsAre
<1>7. PICK z \in Nat : z = To(t, u, a - 1)
    BY <1>1, PositionsAre
<1>8. CASE f \in Spliced(t, u)
    <2>1. new = u[f.path] /\ new \in Seq(Symbol)
        BY <1>8 DEF NewText, Updates
    <2>2. Inserted(t, u, a) = new
        BY <1>3, <1>4, <1>8, <2>1, ZoneIs
    <2> HIDE DEF new
    <2>3. PICK l \in Nat : l = Len(new)
        BY <2>1, LenProperties
    <2>4. \A j \in 1 .. l : Rewrite(t, u)[z + j] = new[j]
        BY <1>1, <1>7, <2>2, <2>3, PositionsAre
    <2>5. CASE a = c
        <3>1. Pos(t, u, c) = z + l + 1
            BY <1>7, <2>2, <2>3, <2>5 DEF Pos
        <3>2. QED
            BY <1>3, <1>5, <1>6, <1>7, <2>1, <2>3, <2>4, <3>1 DEF new
    <2>6. CASE a # c
        <3>1. PICK d \in 1 .. N : d = c - 1 /\ a \in 1 .. d
            BY <1>3, <2>6
        <3>2. \A i \in a .. d : Gone(t, u, i)
            <4>1. ASSUME NEW i \in a .. d PROVE Gone(t, u, i)
                <5>1. i \in Zone(o, f) /\ i \in a .. (c - 1)
                    BY <1>3, <1>4, <3>1
                <5>2. QED
                    BY <1>3, <1>8, <5>1, ZoneIs
            <4>2. QED
                BY <4>1
        <3>3. \A i \in (a + 1) .. d : Gone(t, u, i) /\ Inserted(t, u, i) = << >>
            <4>1. ASSUME NEW i \in (a + 1) .. d PROVE Gone(t, u, i) /\ Inserted(t, u, i) = << >>
                <5>1. i \in Zone(o, f) /\ i \in a .. d /\ i # a
                    BY <1>3, <1>4, <3>1
                <5>2. QED
                    BY <1>3, <3>2, <5>1, ZoneIs
            <4>2. QED
                BY <4>1
        <3>4. To(t, u, d) = To(t, u, a)
            BY <1>1, <3>1, <3>3, GapIs
        <3>5. To(t, u, a) = z + l
            <4>1. Gone(t, u, a)
                BY <3>1, <3>2
            <4>2. HashAfter(t, u, a) = << >>
                BY <1>1, <4>1, GoneIs
            <4>3. To(t, u, a) = To(t, u, a - 1) + Len(Inserted(t, u, a))
                BY <1>1, <4>1, <4>2, PositionsAre
            <4>4. QED
                BY <1>7, <2>2, <2>3, <4>3
        <3>6. Inserted(t, u, c) = << >>
            BY <1>3, <1>4, <2>6, ZoneIs
        <3>7. Len(<< >>) = 0
            OBVIOUS
        <3>8. Pos(t, u, c) = To(t, u, d) + Len(Inserted(t, u, c)) + 1
            BY <3>1 DEF Pos
        <3>9. Pos(t, u, c) = z + l + 1
            BY <3>4, <3>5, <3>6, <3>7, <3>8
        <3>10. QED
            BY <1>3, <1>5, <1>6, <1>7, <2>1, <2>3, <2>4, <3>9 DEF new
    <2>7. QED
        BY <2>5, <2>6
<1>9. CASE f \notin Spliced(t, u)
    <2>1. new = SubSeq(t, a, c - 1)
        BY <1>3, <1>9 DEF NewText, Framed
    <2> HIDE DEF new
    <2>2. /\ new \in Seq(Symbol) /\ Len(new) = c - a
          /\ \A j \in 1 .. (c - a) : new[j] = t[a + j - 1]
        <3>1. a \in 1 .. (Len(t) + 1) /\ c - 1 \in (a - 1) .. Len(t)
            BY <1>1, <1>3
        <3>2. /\ SubSeq(t, a, c - 1) \in Seq(Symbol)
              /\ Len(SubSeq(t, a, c - 1)) = IF a <= c - 1 THEN (c - 1) - a + 1 ELSE 0
              /\ \A j \in 1 .. ((c - 1) - a + 1) : SubSeq(t, a, c - 1)[j] = t[a + j - 1]
            BY <1>2, <3>1, SubSeqProperties
        <3>3. (c - 1) - a + 1 = c - a /\ (~(a <= c - 1) => c - a = 0)
            BY <1>3
        <3>4. QED
            BY <2>1, <3>2, <3>3
    <2>3. \A i \in a .. c : ~Gone(t, u, i) /\ Inserted(t, u, i) = << >>
        <3>1. ASSUME NEW i \in a .. c PROVE ~Gone(t, u, i) /\ Inserted(t, u, i) = << >>
            <4>1. i \in Zone(o, f) /\ i # c + 1
                BY <1>3, <1>4
            <4>2. QED
                BY <1>3, <1>9, <4>1, ZoneIs
        <3>2. QED
            BY <3>1
    <2>4. \A i \in a .. (c - 1) : HashAfter(t, u, i) = << >>
        <3>1. ASSUME NEW i \in a .. (c - 1) PROVE HashAfter(t, u, i) = << >>
            <4>1. i \in Zone(o, f) /\ i # c
                BY <1>3, <1>4
            <4>2. QED
                BY <1>3, <4>1, ZoneIs
        <3>2. QED
            BY <3>1
    <2>5. \A i \in a .. c : Pos(t, u, i) = To(t, u, a - 1) + (i - a) + 1
        <3>1. a \in 1 .. c
            BY <1>3
        <3>2. QED
            BY <1>1, <1>3, <2>3, <2>4, <3>1, RunIs
    <2>6. Pos(t, u, c) = z + (c - a) + 1
        BY <1>3, <1>7, <2>5
    <2>7. ASSUME NEW j \in 1 .. (c - a)
          PROVE  Rewrite(t, u)[z + j] = new[j]
        <3>1. PICK i \in a .. c : i = a + j - 1 /\ i - a = j - 1 /\ i \in 1 .. N
            BY <1>3
        <3>2. Pos(t, u, i) = z + j
            BY <1>7, <2>5, <3>1
        <3>3. Rewrite(t, u)[Pos(t, u, i)] = t[i]
            <4>1. i \in 1 .. Len(t) /\ ~Gone(t, u, i)
                BY <1>1, <2>3, <3>1
            <4>2. QED
                BY <4>1, PositionsAre
        <3>4. QED
            BY <2>2, <3>1, <3>2, <3>3
    <2>8. PICK l \in Nat : l = c - a
        BY <1>3
    <2>9. QED
        BY <1>3, <1>5, <1>6, <1>7, <2>2, <2>6, <2>7, <2>8 DEF new
<1>10. QED
    BY <1>8, <1>9

(* After the closing marker comes the new hash, or what came before.       *)
LEMMA TailIs ==
    ASSUME NEW t, NEW u, Updates(t, u), NEW o, NEW f, Framed(t, o, f)
    PROVE  /\ f \in Changed(t, u) => /\ To(t, u, f.close) = Pos(t, u, f.close) + 1
                                     /\ Rewrite(t, u)[Pos(t, u, f.close) + 1] = Token(u, f)
           /\ f \notin Changed(t, u) => To(t, u, f.close) = Pos(t, u, f.close)
           /\ f.close + 1 <= Len(t) =>
                 /\ ~Gone(t, u, f.close + 1) => /\ Pos(t, u, f.close + 1) = To(t, u, f.close) + 1
                                                /\ f \in Changed(t, u) => f.baseline = NoHash
                 /\ Gone(t, u, f.close + 1) =>
                       /\ f \in Changed(t, u) /\ f.baseline # NoHash
                       /\ To(t, u, f.close + 1) = To(t, u, f.close)
<1>1. PICK N \in Nat : N = Len(t)
    BY LenProperties DEF Updates
<1>2. PICK c \in 1 .. N : c = f.close /\ o \in 1 .. N /\ o <= c /\ f.first \in 1 .. N /\ f.first <= c
    <2>1. /\ o \in 1 .. N /\ f.first \in 1 .. N /\ f.close \in 1 .. N
          /\ o + 1 < f.first /\ f.first <= f.close
        BY <1>1 DEF Framed
    <2>2. o <= f.close
        BY <2>1
    <2>3. QED
        BY <2>1, <2>2
<1>3. c \in Zone(o, f) /\ c + 1 \in Zone(o, f)
    BY <1>2 DEF Zone
<1>4. ~Gone(t, u, c)
    BY <1>2, BodyIs
<1>5. f \in Changed(t, u) => /\ To(t, u, c) = Pos(t, u, c) + 1
                             /\ Rewrite(t, u)[Pos(t, u, c) + 1] = Token(u, f)
    <2>1. f \in Changed(t, u) => HashAfter(t, u, c) = <<Token(u, f)>>
        BY <1>2, <1>3, ZoneIs
    <2>2. QED
        BY <1>1, <1>4, <2>1, PositionsAre
<1>6. f \notin Changed(t, u) => To(t, u, c) = Pos(t, u, c)
    <2>1. f \notin Changed(t, u) => HashAfter(t, u, c) = << >>
        BY <1>2, <1>3, ZoneIs
    <2>2. QED
        BY <1>1, <1>4, <2>1, PositionsAre
<1>7. ASSUME c + 1 <= N
      PROVE  /\ ~Gone(t, u, c + 1) => /\ Pos(t, u, c + 1) = To(t, u, c) + 1
                                      /\ f \in Changed(t, u) => f.baseline = NoHash
             /\ Gone(t, u, c + 1) =>
                   /\ f \in Changed(t, u) /\ f.baseline # NoHash
                   /\ To(t, u, c + 1) = To(t, u, c)
    <2>1. PICK d \in 1 .. N : d = c + 1 /\ d - 1 = c /\ d # f.first /\ d # c
        BY <1>2, <1>7
    <2>2. Inserted(t, u, d) = << >>
        BY <1>2, <1>3, <2>1, ZoneIs
    <2>3. Len(<< >>) = 0 /\ To(t, u, c) \in Nat
        BY <1>1, PositionsAre
    <2>4. Pos(t, u, d) = To(t, u, c) + 1
        BY <2>1, <2>2, <2>3 DEF Pos
    <2>5. Gone(t, u, d) <=> f \in Changed(t, u) /\ f.baseline # NoHash
        <3>1. d \notin f.first .. (c - 1)
            BY <1>2, <2>1
        <3>2. QED
            BY <1>2, <1>3, <2>1, <3>1, ZoneIs
    <2>6. Gone(t, u, d) => To(t, u, d) = To(t, u, c)
        <3>1. SUFFICES ASSUME Gone(t, u, d) PROVE To(t, u, d) = To(t, u, c)
            OBVIOUS
        <3>2. HashAfter(t, u, d) = << >>
            BY <1>1, <3>1, GoneIs
        <3>3. To(t, u, d) = To(t, u, d - 1) + Len(Inserted(t, u, d))
            BY <1>1, <3>1, <3>2, PositionsAre
        <3>4. QED
            BY <2>1, <2>2, <2>3, <3>3
    <2>7. QED
        BY <2>1, <2>4, <2>5, <2>6
<1>8. QED
    BY <1>1, <1>2, <1>5, <1>6, <1>7

-----------------------------------------------------------------------------
(* What stands before a symbol that is kept, by what became of the one before it. *)

(* Before a closing marker with a new source: a line break, still.         *)
LEMMA BeforeClosing ==
    ASSUME NEW t, NEW u, Updates(t, u), NEW o, NEW f, Framed(t, o, f), f \in Spliced(t, u)
    PROVE  /\ Pos(t, u, f.close) > 1 /\ Rewrite(t, u)[Pos(t, u, f.close) - 1] \in {CR, LF}
           /\ t[f.close - 1] \in {CR, LF}
<1> DEFINE E == u[f.path]
<1>1. PICK N \in Nat : N = Len(t)
    BY LenProperties DEF Updates
<1>2. t \in Seq(Symbol)
    BY DEF Updates
<1>3. PICK a \in 1 .. N, c \in 1 .. N : a = f.first /\ c = f.close /\ a <= c /\ o \in 1 .. N /\ o + 1 < a
    BY <1>1 DEF Framed
<1>4. t[c - 1] \in {CR, LF}
    <2>1. c \in MarkerStarts(t)
        BY <1>3 DEF Framed
    <2>2. Begins(t, c)
        BY <1>2, <2>1, MarkerStartsAre
    <2>3. c # 1
        BY <1>3
    <2>4. QED
        BY <2>2, <2>3 DEF Begins
<1>5. NewText(t, u, f) = E /\ E \in Seq(Symbol) /\ IsCanonical(E)
    BY DEF NewText, Updates
<1> HIDE DEF E
<1>6. PICK l \in Nat : l = Len(E)
    BY <1>5, LenProperties
<1>7. PICK z \in Nat : z = To(t, u, a - 1)
    BY <1>3, BodyIs
<1>8. Pos(t, u, c) = z + l + 1
    BY <1>3, <1>5, <1>6, <1>7, BodyIs
<1>9. CASE l = 0
    <2>1. a - 1 \in o .. (a - 1) /\ a - 1 \in (o + 1) .. (a - 1)
        BY <1>3
    <2>2. z = Pos(t, u, a - 1) /\ Rewrite(t, u)[z] = t[a - 1]
        BY SMTT(40), <1>3, <1>7, <2>1, HeadIs
    <2>3. t[a - 1] \in {CR, LF}
        BY <1>3, <2>1 DEF Framed
    <2>4. z = Pos(t, u, o) + (a - 1 - o) /\ Pos(t, u, o) \in Nat /\ Pos(t, u, o) > 0
        BY <1>3, <2>1, <2>2, HeadIs
    <2>5. Pos(t, u, c) > 1 /\ Pos(t, u, c) - 1 = z
        BY <1>3, <1>7, <1>8, <1>9, <2>4
    <2>6. QED
        BY <1>3, <1>4, <1>7, <2>2, <2>3, <2>5
<1>10. CASE l # 0
    <2>1. E[l] = LF
        <3>1. Len(<< >>) = 0
            OBVIOUS
        <3>2. E # << >>
            BY <1>6, <1>10, <3>1
        <3>3. QED
            BY <1>5, <1>6, <3>2 DEF IsCanonical
    <2>2. \A j \in 1 .. l : Rewrite(t, u)[z + j] = E[j]
        BY SMTT(40), <1>3, <1>5, <1>6, <1>7, BodyIs
    <2>3. l \in 1 .. l /\ Pos(t, u, c) - 1 = z + l /\ Pos(t, u, c) > 1
        BY <1>6, <1>7, <1>8, <1>10
    <2>4. Rewrite(t, u)[Pos(t, u, c) - 1] = LF
        BY <2>1, <2>2, <2>3
    <2>5. QED
        BY <1>3, <1>4, <2>3, <2>4
<1>11. QED
    BY <1>9, <1>10

(* After a new hash: no line break, before and after.                      *)
LEMMA BeforeRest ==
    ASSUME NEW t, NEW u, Updates(t, u), NEW o, NEW f, Framed(t, o, f), f \in Changed(t, u),
           NEW i \in 1 .. Len(t), ~Gone(t, u, i),
           i = f.close + 1 \/ (i = f.close + 2 /\ Gone(t, u, f.close + 1))
    PROVE  /\ Pos(t, u, i) > 1 /\ Rewrite(t, u)[Pos(t, u, i) - 1] \notin {CR, LF}
           /\ t[i - 1] \notin {CR, LF}
<1>1. PICK N \in Nat : N = Len(t)
    BY LenProperties DEF Updates
<1>2. t \in Seq(Symbol) /\ Parses(t)
    BY DEF Updates, Valid
<1>3. PICK a \in 1 .. N, c \in 1 .. N : a = f.first /\ c = f.close /\ a <= c /\ o \in 1 .. N /\ o + 1 < a
    BY <1>1 DEF Framed
<1>4. i \in 1 .. N /\ (i = c + 1 \/ (i = c + 2 /\ Gone(t, u, c + 1)))
    BY <1>1, <1>3
<1>5. PICK q \in Nat : q = Pos(t, u, c)
    BY <1>1, <1>3, BodyIs, PositionsAre
<1>6. To(t, u, c) = q + 1 /\ Rewrite(t, u)[q + 1] = Token(u, f)
    BY <1>3, <1>5, TailIs
<1>7. Token(u, f) \notin {CR, LF}
    BY RewritePiecesAre, SymbolsAre
<1>8. CASE i = c + 1
    <2>1. Pos(t, u, i) = To(t, u, c) + 1
        BY <1>1, <1>3, <1>4, <1>8, TailIs
    <2>2. t[c] \notin {CR, LF}
        <3>1. t[c] = Closing(f.path) /\ f.path \in Path
            BY <1>3 DEF Framed
        <3>2. QED
            BY <3>1, SymbolsAre
    <2>3. i - 1 = c /\ Pos(t, u, i) - 1 = q + 1 /\ Pos(t, u, i) > 1
        <3>1. q # 0
            BY <1>1, <1>3, <1>5, BodyIs, PositionsAre
        <3>2. QED
            BY SMTT(40), <1>3, <1>5, <1>6, <1>8, <2>1, <3>1
    <2>4. QED
        BY <1>6, <1>7, <2>2, <2>3
<1>9. CASE i = c + 2 /\ Gone(t, u, c + 1)
    <2>1. f.baseline # NoHash /\ To(t, u, c + 1) = To(t, u, c)
        BY <1>1, <1>3, <1>4, <1>9, TailIs
    <2>2. Inserted(t, u, i) = << >>
        <3>1. ASSUME NEW g \in Spliced(t, u), i = g.first PROVE FALSE
            <4>1. PICK p : Framed(t, p, g)
                BY <1>2, FragmentsAreFramed DEF Spliced, Changed
            <4>2. PICK x \in 1 .. N, y \in 1 .. N :
                      x = g.first /\ y = g.close /\ p \in 1 .. N /\ p + 1 < x /\ x <= y
                BY <1>1, <4>1 DEF Framed
            <4>3. i - 1 \in Zone(p, g) /\ i - 1 \in Zone(o, f)
                <5>1. i = c + 2 /\ x = c + 2 /\ i - 1 = c + 1
                    BY <1>3, <1>9, <3>1, <4>2
                <5>2. c + 1 \in o .. (c + 1) /\ c + 1 \in p .. (y + 1)
                    <6>1. c + 1 \in Nat /\ y + 1 \in Nat /\ o \in Nat /\ p \in Nat
                        BY SMTT(40), <1>3, <4>2
                    <6>2. o <= c + 1
                        BY <1>3
                    <6>3. p <= c + 1 /\ c + 1 <= y + 1
                        BY SMTT(40), <1>3, <4>2, <5>1
                    <6>4. QED
                        BY <6>1, <6>2, <6>3
                <5>3. QED
                    BY <1>3, <4>2, <5>1, <5>2 DEF Zone
            <4>4. f = g
                BY <1>2, <4>1, <4>3, OneZone
            <4>5. x = a
                BY <1>3, <4>2, <4>4
            <4>6. QED
                BY <1>3, <1>9, <3>1, <4>2, <4>5
        <3>2. QED
            BY <3>1, PartsAre
    <2>3. Len(<< >>) = 0
        OBVIOUS
    <2>4. i - 1 = c + 1
        BY <1>3, <1>9
    <2>5. Pos(t, u, i) = To(t, u, i - 1) + Len(Inserted(t, u, i)) + 1
        BY DEF Pos
    <2>6. Pos(t, u, i) = q + 2
        BY <1>5, <1>6, <2>1, <2>2, <2>3, <2>4, <2>5
    <2>7. t[c + 1] \notin {CR, LF}
        <3>1. f.baseline \in Digest /\ t[c + 1] = HashToken(f.baseline)
            BY <1>3, <2>1, AbsenceAssumption DEF Framed
        <3>2. QED
            BY <3>1, SymbolsAre
    <2>8. Pos(t, u, i) - 1 = q + 1 /\ Pos(t, u, i) > 1
        BY <1>5, <2>6
    <2>9. QED
        BY <1>6, <1>7, <2>4, <2>7, <2>8
<1>10. QED
    BY <1>4, <1>8, <1>9

(* Markers that are kept begin a line as they did.                         *)
LEMMA BeginsAlike ==
    ASSUME NEW t, NEW u, Updates(t, u), NEW i \in 1 .. Len(t), ~Gone(t, u, i), t[i] \in Markers
    PROVE  Begins(Rewrite(t, u), Pos(t, u, i)) <=> Begins(t, i)
<1>1. PICK N \in Nat : N = Len(t)
    BY LenProperties DEF Updates
<1>2. t \in Seq(Symbol) /\ Parses(t)
    BY DEF Updates, Valid
<1>3. t[i] \notin {CR, LF} /\ Rewrite(t, u)[Pos(t, u, i)] = t[i]
    BY SymbolsAre, PositionsAre
<1>4. i \in 1 .. N
    BY <1>1
<1>5. Len(<< >>) = 0
    OBVIOUS
<1>6. ASSUME NEW g \in Spliced(t, u), i = g.first \/ i - 1 \in g.first .. (g.close - 1)
      PROVE  i = g.close
    <2>1. PICK p : Framed(t, p, g)
        BY <1>2, FragmentsAreFramed DEF Spliced, Changed
    <2>2. /\ p \in 1 .. N /\ g.first \in 1 .. N /\ g.close \in 1 .. N
          /\ p + 1 < g.first /\ g.first <= g.close
        BY <1>1, <2>1 DEF Framed
    <2>3. i \in Zone(p, g) /\ i \in g.first .. g.close
        BY <1>4, <1>6, <2>2 DEF Zone
    <2>4. i \notin g.first .. (g.close - 1)
        BY <2>1, <2>3, ZoneIs
    <2>5. QED
        BY <2>2, <2>3, <2>4
<1>7. CASE i = 1
    <2>1. Inserted(t, u, i) = << >>
        <3>1. ASSUME NEW g \in Spliced(t, u), i = g.first PROVE FALSE
            <4>1. PICK p : Framed(t, p, g)
                BY <1>2, FragmentsAreFramed DEF Spliced, Changed
            <4>2. p \in 1 .. N /\ p + 1 < g.first
                BY <1>1, <4>1 DEF Framed
            <4>3. QED
                BY <1>7, <3>1, <4>2
        <3>2. QED
            BY <3>1, PartsAre
    <2>2. To(t, u, 0) = 0 /\ i - 1 = 0
        BY <1>7, OrderKept
    <2>3. Pos(t, u, i) = 1
        BY <1>5, <2>1, <2>2 DEF Pos
    <2>4. QED
        BY <1>7, <2>3 DEF Begins
<1>8. CASE i # 1 /\ \E g \in Spliced(t, u) : i = g.close
    <2>1. PICK g \in Spliced(t, u) : i = g.close
        BY <1>8
    <2>2. PICK p : Framed(t, p, g)
        BY <1>2, FragmentsAreFramed DEF Spliced, Changed
    <2>3. Rewrite(t, u)[Pos(t, u, i) - 1] \in {CR, LF} /\ t[i - 1] \in {CR, LF}
        BY <2>1, <2>2, BeforeClosing
    <2>4. QED
        BY <1>3, <2>3 DEF Begins
<1>9. CASE i # 1 /\ \E g \in Changed(t, u) : i = g.close + 1 \/ (i = g.close + 2 /\ Gone(t, u, g.close + 1))
    <2>1. PICK g \in Changed(t, u) : i = g.close + 1 \/ (i = g.close + 2 /\ Gone(t, u, g.close + 1))
        BY <1>9
    <2>2. PICK p : Framed(t, p, g)
        BY <1>2, FragmentsAreFramed DEF Changed
    <2>3. /\ Pos(t, u, i) > 1 /\ Rewrite(t, u)[Pos(t, u, i) - 1] \notin {CR, LF}
          /\ t[i - 1] \notin {CR, LF}
        BY <2>1, <2>2, BeforeRest
    <2>4. Pos(t, u, i) # 1
        BY <2>3
    <2>5. QED
        BY <1>9, <2>3, <2>4 DEF Begins
<1>10. CASE /\ i # 1 /\ ~\E g \in Spliced(t, u) : i = g.close
            /\ ~\E g \in Changed(t, u) : i = g.close + 1 \/ (i = g.close + 2 /\ Gone(t, u, g.close + 1))
    <2>1. PICK m \in 1 .. N : m = i - 1 /\ i = m + 1
        BY <1>4, <1>10
    <2>2. Inserted(t, u, i) = << >>
        BY <1>6, <1>10, PartsAre
    <2>3. HashAfter(t, u, m) = << >>
        <3>1. ASSUME NEW g \in Changed(t, u) PROVE m # g.close
            BY <1>10, <2>1
        <3>2. QED
            BY <3>1, PartsAre
    <2>4. ~Gone(t, u, m)
        <3>1. ASSUME NEW g \in Spliced(t, u), m \in g.first .. (g.close - 1) PROVE FALSE
            BY <1>6, <1>10, <2>1, <3>1
        <3>2. ASSUME NEW g \in Changed(t, u), m = g.close + 1, g.baseline # NoHash PROVE FALSE
            <4>1. Gone(t, u, m)
                BY <3>2 DEF Gone
            <4>2. PICK p : Framed(t, p, g)
                BY <1>2, FragmentsAreFramed DEF Changed
            <4>3. g.close \in 1 .. N
                BY <1>1, <4>2 DEF Framed
            <4>4. i = g.close + 2
                BY <2>1, <3>2, <4>3
            <4>5. QED
                BY <1>10, <3>2, <4>1, <4>4
        <3>3. QED
            BY <3>1, <3>2 DEF Gone, Edited
    <2>5. To(t, u, m) = Pos(t, u, m) /\ Rewrite(t, u)[Pos(t, u, m)] = t[m] /\ Pos(t, u, m) \in Nat
        BY <1>1, <2>3, <2>4, PositionsAre
    <2>6. Pos(t, u, m) > 0
        <3>1. To(t, u, m - 1) \in Nat /\ To(t, u, m - 1) < Pos(t, u, m)
            BY <1>1, <2>4, PositionsAre
        <3>2. QED
            BY <2>5, <3>1
    <2>7. Pos(t, u, i) = Pos(t, u, m) + 1
        BY <1>5, <2>1, <2>2, <2>5 DEF Pos
    <2>8. Pos(t, u, i) # 1 /\ Pos(t, u, i) - 1 = Pos(t, u, m)
        BY <2>5, <2>6, <2>7
    <2>9. QED
        BY <1>3, <1>10, <2>1, <2>5, <2>8 DEF Begins
<1>11. QED
    BY <1>7, <1>8, <1>9, <1>10

-----------------------------------------------------------------------------
(* The markers of what was rewritten                                       *)

(* Every marker is still one.                                              *)
LEMMA MarkersKept ==
    ASSUME NEW t, NEW u, Updates(t, u), NEW m \in MarkerStarts(t)
    PROVE  /\ m \in 1 .. Len(t) /\ ~Gone(t, u, m)
           /\ Pos(t, u, m) \in MarkerStarts(Rewrite(t, u)) /\ Rewrite(t, u)[Pos(t, u, m)] = t[m]
<1>1. PICK N \in Nat : N = Len(t)
    BY LenProperties DEF Updates
<1>2. t \in Seq(Symbol) /\ Parses(t)
    BY DEF Updates, Valid
<1>3. m \in 1 .. N /\ t[m] \in Markers /\ Begins(t, m)
    BY <1>1, <1>2, MarkerStartsAre
<1>4. ~Gone(t, u, m)
    <2>1. SUFFICES ASSUME Gone(t, u, m) PROVE FALSE
        OBVIOUS
    <2>2. PICK o, f : Framed(t, o, f) /\ m \in Zone(o, f)
        BY <1>1, <1>3, <2>1, GoneIs
    <2>3. PICK a \in 1 .. N, c \in 1 .. N :
              a = f.first /\ c = f.close /\ a <= c /\ o \in 1 .. N /\ o + 1 < a
        BY <1>1, <2>2 DEF Framed
    <2>4. m <= o \/ m >= c
        BY <2>2, <2>3 DEF Framed
    <2>5. m = c + 1 /\ f \in Changed(t, u) /\ f.baseline # NoHash
        <3>1. \/ m \in a .. (c - 1)
              \/ m = c + 1 /\ f \in Changed(t, u) /\ f.baseline # NoHash
            BY <2>1, <2>2, <2>3, ZoneIs
        <3>2. m \notin a .. (c - 1)
            BY <1>3, <2>3, <2>4
        <3>3. QED
            BY <3>1, <3>2
    <2>6. t[c] \notin {CR, LF}
        <3>1. t[c] = Closing(f.path) /\ f.path \in Path
            BY <2>2, <2>3 DEF Framed
        <3>2. QED
            BY <3>1, SymbolsAre
    <2>7. m - 1 = c /\ m # 1
        BY <2>3, <2>5
    <2>8. QED
        BY <1>3, <2>6, <2>7 DEF Begins
<1>5. /\ Rewrite(t, u)[Pos(t, u, m)] = t[m] /\ Pos(t, u, m) \in Nat
      /\ To(t, u, m - 1) \in Nat /\ To(t, u, m) \in Nat
      /\ To(t, u, m - 1) < Pos(t, u, m) /\ Pos(t, u, m) <= To(t, u, m)
      /\ To(t, u, m) <= Len(Rewrite(t, u))
    BY <1>1, <1>3, <1>4, PositionsAre
<1>6. Rewrite(t, u) \in Seq(Symbol) /\ Len(Rewrite(t, u)) \in Nat
    BY RewritePiecesAre, LenProperties
<1>7. Pos(t, u, m) \in 1 .. Len(Rewrite(t, u))
    BY <1>5, <1>6
<1>8. Begins(Rewrite(t, u), Pos(t, u, m))
    BY <1>1, <1>3, <1>4, BeginsAlike
<1>9. Pos(t, u, m) \in MarkerStarts(Rewrite(t, u))
    BY <1>3, <1>5, <1>6, <1>7, <1>8, MarkerStartsAre
<1>10. QED
    BY <1>1, <1>3, <1>4, <1>5, <1>9

(* The rewriting begins each fragment with the same path.                  *)
LEMMA StillFramed ==
    ASSUME NEW t, NEW u, Updates(t, u), Parses(Rewrite(t, u)), NEW o, NEW f, Framed(t, o, f)
    PROVE  LET new == FragmentFrom(Rewrite(t, u), Pos(t, u, o))
           IN  /\ Framed(Rewrite(t, u), Pos(t, u, o), new) /\ new.path = f.path
               /\ new \in Fragments(Rewrite(t, u))
<1> DEFINE P == Rewrite(t, u)
           q == Pos(t, u, o)
           new == FragmentFrom(P, q)
<1>1. o \in MarkerStarts(t) /\ t[o] = Opening(f.path) /\ f.path \in Path
    BY DEF Framed
<1>2. q \in MarkerStarts(P) /\ P[q] = Opening(f.path)
    BY <1>1, MarkersKept
<1>3. P[q] \in Openings
    BY <1>1, <1>2, SymbolsAre
<1>4. P \in Seq(Symbol)
    BY RewritePiecesAre
<1> HIDE DEF P, q
<1>5. Framed(P, q, new)
    BY <1>2, <1>3, <1>4, FramedIs DEF P
<1>6. new \in Fragments(P)
    BY <1>4, <1>5, FragmentsAreFramed DEF P
<1>7. P[q] = Opening(new.path) /\ new.path \in Path
    BY <1>5 DEF Framed
<1>8. new.path = f.path
    BY <1>1, <1>2, <1>7, SymbolsAre
<1>9. QED
    BY <1>5, <1>6, <1>8 DEF P, q

(* No replacement contains a marker, or the paths would not be unique.     *)
LEMMA NoMarkerInserted ==
    ASSUME NEW t, NEW u, Updates(t, u), Valid(Rewrite(t, u)), NEW o, NEW f, Framed(t, o, f),
           NEW k \in MarkerStarts(Rewrite(t, u)), Pos(t, u, o) < k, k < Pos(t, u, f.close)
    PROVE  FALSE
<1> DEFINE P == Rewrite(t, u)
           new == FragmentFrom(P, Pos(t, u, o))
<1>1. P \in Seq(Symbol) /\ Parses(P)
    BY RewritePiecesAre DEF Valid
<1>2. PICK n \in Nat : n = Len(P)
    BY <1>1, LenProperties
<1>3. o \in MarkerStarts(t) /\ f.close \in MarkerStarts(t)
    BY DEF Framed
<1>4. PICK q \in 1 .. n : q = Pos(t, u, o)
    BY <1>1, <1>2, <1>3, MarkersKept, MarkerStartsAre
<1>5. PICK r \in 1 .. n :
          r = Pos(t, u, f.close) /\ r \in MarkerStarts(P) /\ P[r] = t[f.close]
    <2>1. Pos(t, u, f.close) \in MarkerStarts(P) /\ P[Pos(t, u, f.close)] = t[f.close]
        BY <1>3, MarkersKept
    <2>2. QED
        BY <1>1, <1>2, <2>1, MarkerStartsAre
<1>6. Framed(P, q, new) /\ new.path = f.path /\ new \in Fragments(P)
    BY <1>1, <1>4, StillFramed
<1> HIDE DEF new
<1>7. P[r] = Closing(f.path) /\ f.path \in Path
    BY <1>5 DEF Framed
<1>8. PICK p, g : Framed(P, p, g) /\ (r = p \/ r = g.close)
    BY <1>1, <1>5, FragmentsAreFramed
<1>9. r = g.close /\ g.path = f.path /\ g \in Fragments(P)
    <2>1. /\ P[p] = Opening(g.path) /\ P[g.close] = Closing(g.path) /\ g.path \in Path
        BY <1>8 DEF Framed
    <2>2. r # p
        BY <1>7, <2>1, SymbolsAre
    <2>3. g.path = f.path
        BY <1>7, <1>8, <2>1, <2>2, SymbolsAre
    <2>4. QED
        BY <1>1, <1>8, <2>2, <2>3, FragmentsAreFramed
<1>10. g = new
    BY <1>6, <1>9 DEF Valid, Unique
<1>11. k <= q \/ k >= new.close
    BY <1>6 DEF Framed
<1>12. k \in 1 .. n
    BY <1>1, <1>2, MarkerStartsAre
<1>13. QED
    BY <1>4, <1>5, <1>9, <1>10, <1>11, <1>12

(* Every marker was one before.                                            *)
LEMMA MarkersAre ==
    ASSUME NEW t, NEW u, Updates(t, u), Valid(Rewrite(t, u)), NEW k \in MarkerStarts(Rewrite(t, u))
    PROVE  \E m \in MarkerStarts(t) : k = Pos(t, u, m)
<1> DEFINE P == Rewrite(t, u)
<1>1. t \in Seq(Symbol) /\ Parses(t)
    BY DEF Updates, Valid
<1>2. P \in Seq(Symbol) /\ Parses(P)
    BY RewritePiecesAre DEF Valid
<1>3. PICK N \in Nat, n \in Nat : N = Len(t) /\ n = Len(P)
    BY <1>1, <1>2, LenProperties
<1>4. k \in 1 .. n /\ P[k] \in Markers /\ Begins(P, k)
    BY <1>2, <1>3, MarkerStartsAre
<1>5. PICK i \in 1 .. N :
          \/ \E f \in Spliced(t, u) :
                /\ i = f.first /\ To(t, u, i - 1) < k
                /\ k <= To(t, u, i - 1) + Len(u[f.path])
          \/ ~Gone(t, u, i) /\ k = Pos(t, u, i)
          \/ \E f \in Changed(t, u) : i = f.close /\ ~Gone(t, u, i) /\ k = Pos(t, u, i) + 1
    BY <1>3, <1>4, PositionOf
<1>6. CASE \E f \in Spliced(t, u) :
              /\ i = f.first /\ To(t, u, i - 1) < k
              /\ k <= To(t, u, i - 1) + Len(u[f.path])
    <2>1. PICK f \in Spliced(t, u) : /\ i = f.first /\ To(t, u, i - 1) < k
                                     /\ k <= To(t, u, i - 1) + Len(u[f.path])
        BY <1>6
    <2>2. PICK o : Framed(t, o, f)
        BY <1>1, FragmentsAreFramed DEF Spliced, Changed
    <2>3. NewText(t, u, f) = u[f.path]
        BY DEF NewText
    <2>4. PICK z \in Nat, l \in Nat :
              z = To(t, u, f.first - 1) /\ l = Len(u[f.path]) /\ Pos(t, u, f.close) = z + l + 1
        BY <2>2, <2>3, BodyIs
    <2>5. k < Pos(t, u, f.close)
        BY <1>4, <2>1, <2>4
    <2>6. Pos(t, u, o) <= z
        <3>1. PICK a \in 1 .. N : a = f.first /\ o \in 1 .. N /\ o + 1 < a
            BY <1>3, <2>2 DEF Framed
        <3>2. a - 1 \in o .. (a - 1)
            BY <3>1
        <3>3. z = Pos(t, u, o) + ((a - 1) - o) /\ Pos(t, u, o) \in Nat
            BY <2>2, <2>4, <3>1, <3>2, HeadIs
        <3>4. QED
            BY <3>1, <3>3
    <2>7. Pos(t, u, o) \in Nat
        BY <2>2, HeadIs
    <2>8. Pos(t, u, o) < k
        BY <1>4, <2>1, <2>4, <2>6, <2>7
    <2>9. QED
        BY <2>2, <2>5, <2>8, NoMarkerInserted
<1>7. CASE ~Gone(t, u, i) /\ k = Pos(t, u, i)
    <2>1. P[k] = t[i]
        BY <1>3, <1>7, PositionsAre
    <2>2. Begins(t, i)
        BY <1>3, <1>4, <1>7, <2>1, BeginsAlike
    <2>3. i \in MarkerStarts(t)
        BY <1>1, <1>3, <1>4, <2>1, <2>2, MarkerStartsAre
    <2>4. QED
        BY <1>7, <2>3
<1>8. CASE \E f \in Changed(t, u) : i = f.close /\ ~Gone(t, u, i) /\ k = Pos(t, u, i) + 1
    <2>1. PICK f \in Changed(t, u) : i = f.close /\ ~Gone(t, u, i) /\ k = Pos(t, u, i) + 1
        BY <1>8
    <2>2. PICK o : Framed(t, o, f)
        BY <1>1, FragmentsAreFramed DEF Changed
    <2>3. P[k - 1] = t[i] /\ k # 1 /\ k - 1 = Pos(t, u, i)
        <3>1. Pos(t, u, i) \in Nat /\ P[Pos(t, u, i)] = t[i] /\ To(t, u, i - 1) \in Nat
              /\ To(t, u, i - 1) < Pos(t, u, i)
            BY SMTT(40), <1>3, <2>1, PositionsAre
        <3>2. QED
            BY <2>1, <3>1
    <2>4. t[i] \notin {CR, LF}
        <3>1. t[i] = Closing(f.path) /\ f.path \in Path
            BY <2>1, <2>2 DEF Framed
        <3>2. QED
            BY <3>1, SymbolsAre
    <2>5. QED
        BY <1>4, <2>3, <2>4 DEF Begins
<1>9. QED
    BY <1>5, <1>6, <1>7, <1>8

-----------------------------------------------------------------------------
(* The fragments of what was rewritten                                     *)

(* Each fragment ends at its closing marker.                               *)
LEMMA NewClose ==
    ASSUME NEW t, NEW u, Updates(t, u), Valid(Rewrite(t, u)), NEW o, NEW f, Framed(t, o, f)
    PROVE  FragmentFrom(Rewrite(t, u), Pos(t, u, o)).close = Pos(t, u, f.close)
<1> DEFINE P == Rewrite(t, u)
           new == FragmentFrom(P, Pos(t, u, o))
<1>1. t \in Seq(Symbol) /\ P \in Seq(Symbol) /\ Parses(P)
    BY RewritePiecesAre DEF Valid, Updates
<1>2. PICK N \in Nat, n \in Nat : N = Len(t) /\ n = Len(P)
    BY <1>1, LenProperties
<1>3. PICK c \in 1 .. N :
          /\ c = f.close /\ o \in MarkerStarts(t) /\ c \in MarkerStarts(t) /\ o \in 1 .. N
          /\ \A i \in MarkerStarts(t) : i <= o \/ i >= c
    BY <1>2 DEF Framed
<1>4. o < c
    <2>1. o + 1 < f.first /\ f.first <= f.close /\ f.first \in 1 .. N
        BY <1>2 DEF Framed
    <2>2. QED
        BY <1>3, <2>1
<1>5. PICK q \in 1 .. n : q = Pos(t, u, o)
    BY <1>1, <1>2, <1>3, MarkersKept, MarkerStartsAre
<1>6. PICK r \in 1 .. n : r = Pos(t, u, c) /\ r \in MarkerStarts(P)
    BY <1>1, <1>2, <1>3, MarkersKept, MarkerStartsAre
<1>7. Framed(P, q, new)
    BY <1>1, <1>5, StillFramed
<1> HIDE DEF new
<1>8. PICK d \in 1 .. n : d = new.close /\ d \in MarkerStarts(P) /\ q < d
    <2>1. /\ new.close \in 1 .. n /\ new.close \in MarkerStarts(P) /\ new.first \in 1 .. n
          /\ q + 1 < new.first /\ new.first <= new.close
        BY <1>2, <1>7 DEF Framed
    <2>2. q < new.close
        BY <1>5, <2>1
    <2>3. QED
        BY <2>1, <2>2
<1>9. ~Gone(t, u, o) /\ ~Gone(t, u, c)
    BY <1>3, MarkersKept
<1>10. q < r
    BY <1>2, <1>3, <1>4, <1>5, <1>6, <1>9, OrderKept
<1>11. d <= r
    <2>1. r <= q \/ r >= d
        BY <1>6, <1>7, <1>8 DEF Framed
    <2>2. QED
        BY <1>5, <1>6, <1>8, <1>10, <2>1
<1>12. r <= d
    <2>1. PICK m \in MarkerStarts(t) : d = Pos(t, u, m)
        BY <1>8, MarkersAre
    <2>2. m \in 1 .. N /\ ~Gone(t, u, m)
        BY <1>2, <2>1, MarkersKept
    <2>3. m < o => d < q
        BY <1>2, <1>3, <1>5, <1>9, <2>1, <2>2, OrderKept
    <2>4. c < m => r < d
        BY <1>2, <1>3, <1>6, <1>9, <2>1, <2>2, OrderKept
    <2>5. m # o
        BY <1>5, <1>8, <2>1
    <2>6. ~(m < o)
        BY <1>5, <1>8, <2>3
    <2>7. m = c \/ c < m
        <3>1. m <= o \/ m >= c
            BY <1>3, <2>1
        <3>2. QED
            BY <1>3, <2>2, <2>5, <2>6, <3>1
    <2>8. QED
        BY <1>6, <1>8, <2>1, <2>4, <2>7
<1>13. QED
    BY <1>2, <1>3, <1>6, <1>8, <1>11, <1>12 DEF new

(* Each fragment has the hash of its new source, or the one it had.        *)
LEMMA NewBaseline ==
    ASSUME NEW t, NEW u, Updates(t, u), Valid(Rewrite(t, u)), NEW o, NEW f, Framed(t, o, f)
    PROVE  FragmentFrom(Rewrite(t, u), Pos(t, u, o)).baseline =
              IF f \in Changed(t, u) THEN Hash[NewSource(u, f)] ELSE f.baseline
<1> DEFINE P == Rewrite(t, u)
           new == FragmentFrom(P, Pos(t, u, o))
<1>1. t \in Seq(Symbol) /\ P \in Seq(Symbol) /\ Parses(P)
    BY RewritePiecesAre DEF Valid, Updates
<1>2. PICK N \in Nat, n \in Nat : N = Len(t) /\ n = Len(P)
    BY <1>1, LenProperties
<1>3. PICK c \in 1 .. N : c = f.close
    BY <1>2 DEF Framed
<1>4. PICK q \in Nat : q = Pos(t, u, c)
    BY <1>2, <1>3, BodyIs, PositionsAre
<1>5. Framed(P, Pos(t, u, o), new) /\ new.close = q
    BY <1>1, <1>3, <1>4, StillFramed, NewClose
<1> HIDE DEF new
<1>6. q \in 1 .. n
    BY <1>2, <1>5 DEF Framed
<1>7. \/ /\ new.baseline = NoHash
         /\ q + 1 <= n => P[q + 1] \in {CR, LF}
      \/ /\ new.baseline \in Digest /\ q + 1 <= n
         /\ P[q + 1] = HashToken(new.baseline)
    BY <1>2, <1>5 DEF Framed
<1>8. To(t, u, c) <= n /\ To(t, u, N) = n /\ To(t, u, c) \in Nat
    BY <1>2, <1>3, PositionsAre, OrderKept
<1>9. ASSUME NEW h \in Digest, q + 1 <= n, P[q + 1] = HashToken(h)
      PROVE  new.baseline = h
    <2>1. P[q + 1] \notin {CR, LF} /\ P[q + 1][2] = h
        BY <1>9, SymbolsAre
    <2>2. new.baseline \in Digest /\ P[q + 1] = HashToken(new.baseline)
        BY <1>7, <1>9, <2>1
    <2>3. HashToken(new.baseline)[2] = new.baseline
        BY <2>2, SymbolsAre
    <2>4. QED
        BY <2>1, <2>2, <2>3
<1>10. CASE f \in Changed(t, u)
    <2>1. q + 1 <= n /\ P[q + 1] = HashToken(Hash[NewSource(u, f)])
        BY <1>3, <1>4, <1>8, <1>10, TailIs DEF Token
    <2>2. Hash[NewSource(u, f)] \in Digest
        BY <1>10, HashAssumption DEF Updates
    <2>3. QED
        BY <1>9, <1>10, <2>1, <2>2 DEF new
<1>11. CASE f \notin Changed(t, u)
    <2>1. To(t, u, c) = q
        BY <1>3, <1>4, <1>11, TailIs
    <2>2. c + 1 <= N => ~Gone(t, u, c + 1) /\ Pos(t, u, c + 1) = q + 1 /\ P[q + 1] = t[c + 1]
        <3>1. SUFFICES ASSUME c + 1 <= N
              PROVE  ~Gone(t, u, c + 1) /\ Pos(t, u, c + 1) = q + 1 /\ P[q + 1] = t[c + 1]
            OBVIOUS
        <3>2. ~Gone(t, u, c + 1) /\ Pos(t, u, c + 1) = q + 1
            BY <1>2, <1>3, <1>11, <2>1, <3>1, TailIs
        <3>3. PICK d \in 1 .. N : d = c + 1
            BY <1>3, <3>1
        <3>4. P[Pos(t, u, d)] = t[d]
            <4>1. ~Gone(t, u, d) /\ d \in 1 .. Len(t)
                BY <1>2, <3>2, <3>3
            <4>2. QED
                BY <4>1, PositionsAre
        <3>5. QED
            BY <3>2, <3>3, <3>4
    <2>3. q + 1 <= n => c + 1 <= N
        <3>1. ~(c + 1 <= N) => c = N
            BY <1>3
        <3>2. ~(c + 1 <= N) => q = n
            BY <1>8, <2>1, <3>1
        <3>3. QED
            BY <1>4, <1>2, <3>2
    <2>4. \/ /\ f.baseline = NoHash
             /\ c + 1 <= N => t[c + 1] \in {CR, LF}
          \/ /\ f.baseline \in Digest /\ c + 1 <= N
             /\ t[c + 1] = HashToken(f.baseline)
        BY <1>2, <1>3 DEF Framed
    <2>5. CASE f.baseline = NoHash /\ (c + 1 <= N => t[c + 1] \in {CR, LF})
        <3>1. q + 1 <= n => P[q + 1] \in {CR, LF}
            BY <2>2, <2>3, <2>5
        <3>2. \A h \in Digest : q + 1 <= n => P[q + 1] # HashToken(h)
            BY <3>1, SymbolsAre
        <3>3. new.baseline = NoHash
            BY <1>7, <3>2
        <3>4. QED
            BY <1>11, <2>5, <3>3 DEF new
    <2>6. CASE f.baseline \in Digest /\ c + 1 <= N /\ t[c + 1] = HashToken(f.baseline)
        <3>1. PICK d \in 1 .. N : d = c + 1
            BY <1>3, <2>6
        <3>2. Pos(t, u, d) <= To(t, u, d) /\ To(t, u, d) <= n /\ To(t, u, d) \in Nat
            BY <1>2, <2>2, <2>6, <3>1, PositionsAre
        <3>3. q + 1 <= n
            BY <1>2, <1>4, <2>2, <2>6, <3>1, <3>2
        <3>4. P[q + 1] = HashToken(f.baseline)
            BY <2>2, <2>6
        <3>5. new.baseline = f.baseline
            BY <1>9, <2>6, <3>3, <3>4
        <3>6. QED
            BY <1>11, <3>5 DEF new
    <2>7. QED
        BY <2>4, <2>5, <2>6
<1>12. QED
    BY <1>10, <1>11

\* A new source that begins with an LF after an opening line that ends in a CR.
Joining(t, u, f) ==
    f \in Spliced(t, u) /\ t[f.first - 1] = CR /\ u[f.path] # << >> /\ u[f.path][1] = LF

(* The source of each fragment begins after its opening line, which takes the first *)
(* line break of a joined source with it.                                  *)
LEMMA NewFirst ==
    ASSUME NEW t, NEW u, Updates(t, u), Valid(Rewrite(t, u)), NEW o, NEW f, Framed(t, o, f)
    PROVE  FragmentFrom(Rewrite(t, u), Pos(t, u, o)).first =
              To(t, u, f.first - 1) + (IF Joining(t, u, f) THEN 2 ELSE 1)
<1> DEFINE P == Rewrite(t, u)
           new == FragmentFrom(P, Pos(t, u, o))
<1>1. t \in Seq(Symbol) /\ P \in Seq(Symbol) /\ Parses(P)
    BY RewritePiecesAre DEF Valid, Updates
<1>2. PICK N \in Nat, n \in Nat : N = Len(t) /\ n = Len(P)
    BY <1>1, LenProperties
<1>3. PICK a \in 1 .. N, c \in 1 .. N : a = f.first /\ c = f.close /\ a <= c /\ o \in 1 .. N /\ o + 1 < a
    BY <1>2 DEF Framed
<1>4. PICK e \in 1 .. N : e = a - 1 /\ e + 1 = a /\ o <= e
    BY <1>3
<1>5. PICK z \in Nat, q \in Nat, l \in Nat :
          /\ z = To(t, u, a - 1) /\ q = Pos(t, u, o) /\ l = Len(NewText(t, u, f))
          /\ Pos(t, u, c) = z + l + 1
    BY <1>3, HeadIs, BodyIs
<1>6. /\ \A i \in o .. e : Pos(t, u, i) = q + (i - o) /\ P[q + (i - o)] = t[i]
      /\ z = q + (e - o)
    <2>0. /\ \A i \in o .. (f.first - 1) :
                 /\ Pos(t, u, i) = Pos(t, u, o) + (i - o)
                 /\ P[Pos(t, u, i)] = t[i]
          /\ To(t, u, f.first - 1) = Pos(t, u, f.first - 1)
        BY HeadIs
    <2>1. /\ \A i \in o .. e : Pos(t, u, i) = q + (i - o) /\ P[Pos(t, u, i)] = t[i]
          /\ z = Pos(t, u, e)
        BY <1>3, <1>4, <1>5, <2>0
    <2>2. e \in o .. e
        BY <1>3, <1>4
    <2>3. QED
        BY <2>1, <2>2
<1>7. Framed(P, q, new) /\ new.close = z + l + 1
    BY SMTT(40), <1>1, <1>3, <1>5, StillFramed, NewClose
<1> HIDE DEF new
<1>8. PICK w \in 1 .. n : /\ w = new.first /\ q + 1 < w /\ w <= z + l + 1
                          /\ Ends(P, w - 1) /\ \A i \in q .. (w - 2) : ~Ends(P, i)
    BY <1>2, <1>7 DEF Framed
<1> HIDE DEF P
<1>0. /\ a \in Nat /\ e \in Nat /\ o \in Nat /\ z \in Nat /\ q \in Nat /\ w \in Nat /\ l \in Nat
      /\ o <= e /\ z = q + (e - o) /\ q + 1 < w /\ w <= z + l + 1
    <2>1. a \in Nat /\ e \in Nat /\ o \in Nat /\ o <= e
        BY <1>3, <1>4
    <2>2. w \in Nat /\ q + 1 < w /\ w <= z + l + 1
        BY <1>2, <1>8
    <2>3. z = q + (e - o)
        BY <1>6
    <2>4. QED
        BY <2>1, <2>2, <2>3
<1>9. z + l + 1 \in 1 .. n /\ P[z + l + 1] \notin {CR, LF} /\ q \in 1 .. n
    <2>1. P[z + l + 1] = Closing(new.path) /\ new.path \in Path /\ z + l + 1 \in 1 .. n /\ q \in 1 .. n
        BY <1>2, <1>7 DEF Framed
    <2>2. QED
        BY <2>1, SymbolsAre
<1>10. Ends(t, e) /\ \A i \in o .. (e - 1) : ~Ends(t, i)
    BY <1>3, <1>4 DEF Framed
<1>11. ASSUME NEW k \in q .. (z - 1)
       PROVE  ~Ends(P, k)
    <2>1. PICK i \in o .. (e - 1) : k = q + (i - o) /\ k + 1 = q + ((i + 1) - o) /\ i + 1 \in o .. e /\ i \in o .. e
        <3>1. PICK i \in o .. (e - 1) : i = k - q + o
            BY <1>0
        <3>2. k = q + (i - o) /\ k + 1 = q + ((i + 1) - o) /\ i + 1 \in o .. e /\ i \in o .. e
            BY <1>0, <3>1
        <3>3. QED
            BY <3>2
    <2>2. P[k] = t[i] /\ P[k + 1] = t[i + 1]
        BY <1>6, <2>1
    <2>3. ~Ends(t, i)
        BY <1>10, <2>1
    <2>4. k # n
        BY <1>5, <1>9
    <2>5. QED
        BY <1>2, <2>2, <2>3, <2>4 DEF Ends
<1>12. w > z
    <2>1. SUFFICES ASSUME w <= z PROVE FALSE
        BY <1>5
    <2>2. w - 1 \in q .. (z - 1)
        BY <1>0, <2>1
    <2>3. QED
        BY <1>8, <1>11, <2>2
<1>13. ASSUME NEW k \in Nat, Ends(P, k), k >= z
       PROVE  w <= k + 1
    <2>1. SUFFICES ASSUME w > k + 1 PROVE FALSE
        BY <1>8
    <2>2. k \in q .. (w - 2)
        BY <1>0, <1>13, <2>1
    <2>3. QED
        BY <1>8, <1>13, <2>2
<1>14. P[z] = t[e] /\ t[e] \in {CR, LF} /\ z # n
    <2>1. e \in o .. e /\ e \in (o + 1) .. (a - 1)
        BY <1>3, <1>4
    <2>2. P[z] = t[e]
        BY <1>6, <2>1
    <2>3. t[e] \in {CR, LF}
        BY <1>3, <2>1 DEF Framed
    <2>4. QED
        BY <1>5, <1>9, <2>2, <2>3
<1>15. t[e] = CR => t[e + 1] # LF
    <2>1. e # N
        BY <1>3, <1>4
    <2>2. QED
        BY <1>2, <1>10, <2>1, SymbolsAssumption DEF Ends
<1>16. CASE Joining(t, u, f)
    <2>1. f \in Spliced(t, u) /\ t[e] = CR /\ u[f.path] # << >> /\ u[f.path][1] = LF
        BY <1>3, <1>4, <1>16 DEF Joining
    <2>2. NewText(t, u, f) = u[f.path] /\ u[f.path] \in Seq(Symbol)
        BY <2>1 DEF NewText, Updates
    <2>3. l # 0
        BY <1>5, <2>1, <2>2, EmptySeq
    <2>4. P[z + 1] = LF
        <3>1. 1 \in 1 .. l
            BY <2>3
        <3>2. P[z + 1] = u[f.path][1]
            BY <1>3, <1>5, <2>2, <3>1, BodyIs DEF P
        <3>3. QED
            BY <2>1, <3>2
    <2>5. ~Ends(P, z)
        BY <1>2, <1>14, <2>1, <2>4, SymbolsAssumption DEF Ends
    <2>6. Ends(P, z + 1)
        BY <2>4 DEF Ends
    <2>7. w # z + 1
        <3>1. w = z + 1 => w - 1 = z
            BY <1>5, <1>8
        <3>2. QED
            BY <1>8, <2>5, <3>1
    <2>8. w <= z + 2
        <3>1. z + 1 \in Nat /\ z + 1 >= z /\ (z + 1) + 1 = z + 2
            BY <1>5
        <3>2. QED
            BY <1>13, <2>6, <3>1
    <2>9. w = z + 2
        BY <1>0, <1>12, <2>7, <2>8
    <2>10. QED
        BY <1>3, <1>5, <1>8, <1>16, <2>9 DEF new, P
<1>17. CASE ~Joining(t, u, f)
    <2>1. t[e] = CR => P[z + 1] # LF
        <3>1. SUFFICES ASSUME t[e] = CR PROVE P[z + 1] # LF
            OBVIOUS
        <3>2. CASE l = 0
            <4>1. z + l + 1 = z + 1
                BY <3>2, <1>5
            <4>2. QED
                BY <1>9, <4>1
        <3>3. CASE l # 0
            <4>1. 1 \in 1 .. l
                BY <3>3
            <4>2. P[z + 1] = NewText(t, u, f)[1]
                BY SMTT(40), <1>3, <1>5, <4>1, BodyIs DEF P
            <4>3. CASE f \in Spliced(t, u)
                <5>1. NewText(t, u, f) = u[f.path]
                    BY <4>3 DEF NewText
                <5>2. Len(<< >>) = 0
                    OBVIOUS
                <5>3. u[f.path] # << >>
                    BY <1>5, <3>3, <5>1, <5>2
                <5>4. QED
                    BY <1>3, <1>4, <1>17, <3>1, <4>2, <4>3, <5>1, <5>3 DEF Joining
            <4>4. CASE f \notin Spliced(t, u)
                <5>1. NewText(t, u, f) = SubSeq(t, a, c - 1)
                    BY <1>3, <4>4 DEF NewText, Framed
                <5>2. a \in 1 .. (Len(t) + 1) /\ c - 1 \in (a - 1) .. Len(t)
                    BY <1>2, <1>3
                <5>3. /\ Len(SubSeq(t, a, c - 1)) = IF a <= c - 1 THEN (c - 1) - a + 1 ELSE 0
                      /\ \A j \in 1 .. ((c - 1) - a + 1) : SubSeq(t, a, c - 1)[j] = t[a + j - 1]
                    BY <1>1, <5>2, SubSeqProperties
                <5>4. a <= c - 1
                    BY <1>5, <3>3, <5>1, <5>3
                <5>5. 1 \in 1 .. ((c - 1) - a + 1) /\ a + 1 - 1 = a
                    BY <1>3, <5>4
                <5>6. NewText(t, u, f)[1] = t[a]
                    BY <5>1, <5>3, <5>5
                <5>7. QED
                    BY <1>4, <1>15, <3>1, <4>2, <5>6
            <4>5. QED
                BY <4>3, <4>4
        <3>4. QED
            BY <3>2, <3>3
    <2>2. Ends(P, z)
        BY <1>14, <2>1 DEF Ends
    <2>3. w <= z + 1
        BY <1>5, <1>13, <2>2
    <2>4. w = z + 1
        BY SMTT(40), <1>5, <1>8, <1>12, <2>3
    <2>5. QED
        BY <1>3, <1>5, <1>8, <1>17, <2>4 DEF new, P
<1>18. QED
    BY <1>16, <1>17

(* Stretches of two sequences that agree are equal.                        *)
LEMMA SameStretch ==
    ASSUME NEW S, NEW s \in Seq(S), NEW e \in Seq(S), NEW z \in Nat, z + Len(e) <= Len(s),
           \A j \in 1 .. Len(e) : s[z + j] = e[j],
           NEW d \in 1 .. 2, d <= Len(e) + 1
    PROVE  SubSeq(s, z + d, z + Len(e)) = SubSeq(e, d, Len(e))
<1>1. PICK n \in Nat, l \in Nat : n = Len(s) /\ l = Len(e)
    BY LenProperties
<1>2. z + l <= n /\ d <= l + 1 /\ d \in Nat /\ d >= 1
    BY <1>1
<1>3. z + d \in 1 .. (Len(s) + 1) /\ z + l \in ((z + d) - 1) .. Len(s)
    BY <1>1, <1>2
<1>4. d \in 1 .. (Len(e) + 1) /\ l \in (d - 1) .. Len(e)
    BY <1>1, <1>2
<1> DEFINE x == SubSeq(s, z + d, z + l)
           y == SubSeq(e, d, l)
<1>5. /\ x \in Seq(S)
      /\ Len(x) = IF z + d <= z + l THEN (z + l) - (z + d) + 1 ELSE 0
      /\ \A j \in 1 .. ((z + l) - (z + d) + 1) : x[j] = s[(z + d) + j - 1]
    BY <1>3, SubSeqProperties
<1>6. /\ y \in Seq(S)
      /\ Len(y) = IF d <= l THEN l - d + 1 ELSE 0
      /\ \A j \in 1 .. (l - d + 1) : y[j] = e[d + j - 1]
    BY <1>4, SubSeqProperties
<1> HIDE DEF x, y
<1>7. PICK k \in Nat : k = l - d + 1
    BY <1>1, <1>2
<1>8. /\ (z + l) - (z + d) + 1 = k /\ (z + d <= z + l <=> d <= l) /\ (~(d <= l) => k = 0)
    BY <1>1, <1>2, <1>7
<1>9. Len(x) = k /\ Len(y) = k
    BY <1>5, <1>6, <1>7, <1>8
<1>10. ASSUME NEW j \in 1 .. k
       PROVE  x[j] = y[j]
    <2>1. PICK m \in 1 .. l : m = d + j - 1 /\ (z + d) + j - 1 = z + m
        BY <1>1, <1>2, <1>7
    <2>2. x[j] = s[z + m]
        BY <1>5, <1>8, <2>1
    <2>3. y[j] = e[m]
        BY <1>6, <1>7, <2>1
    <2>4. QED
        BY <1>1, <2>1, <2>2, <2>3
<1>11. x = y
    BY <1>5, <1>6, <1>9, <1>10, SeqEqual
<1>12. QED
    BY <1>1, <1>11 DEF x, y

(* Each fragment has the new source, but for the line break that was joined. *)
LEMMA NewSourceIs ==
    ASSUME NEW t, NEW u, Updates(t, u), Valid(Rewrite(t, u)), NEW o, NEW f, Framed(t, o, f)
    PROVE  FragmentFrom(Rewrite(t, u), Pos(t, u, o)).source =
              IF Joining(t, u, f) THEN SubSeq(u[f.path], 2, Len(u[f.path])) ELSE NewText(t, u, f)
<1> DEFINE P == Rewrite(t, u)
           new == FragmentFrom(P, Pos(t, u, o))
           E == NewText(t, u, f)
<1>1. t \in Seq(Symbol) /\ P \in Seq(Symbol) /\ Parses(P)
    BY RewritePiecesAre DEF Valid, Updates
<1>2. E \in Seq(Symbol)
    BY BodyIs
<1>0. Framed(P, Pos(t, u, o), new)
    BY <1>1, StillFramed
<1>3. new.source = SubSeq(P, new.first, new.close - 1)
    <2> HIDE DEF new, P
    <2>1. QED
        BY <1>0 DEF Framed
<1>4. new.first = To(t, u, f.first - 1) + (IF Joining(t, u, f) THEN 2 ELSE 1)
    BY NewFirst
<1>5. new.close = Pos(t, u, f.close) /\ new.close \in 1 .. Len(P)
    <2>1. new.close = Pos(t, u, f.close)
        BY NewClose
    <2> HIDE DEF new, P
    <2>2. QED
        BY <1>0, <2>1 DEF Framed
<1> HIDE DEF new, P, E
<1>6. PICK n \in Nat, l \in Nat : n = Len(P) /\ l = Len(E)
    BY <1>1, <1>2, LenProperties
<1>7. PICK z \in Nat : /\ z = To(t, u, f.first - 1) /\ Pos(t, u, f.close) = z + l + 1
                       /\ \A j \in 1 .. l : P[z + j] = E[j]
    <2>1. /\ To(t, u, f.first - 1) \in Nat
          /\ Pos(t, u, f.close) = To(t, u, f.first - 1) + Len(E) + 1
          /\ \A j \in 1 .. Len(E) : P[To(t, u, f.first - 1) + j] = E[j]
        BY BodyIs DEF P, E
    <2>2. QED
        BY <1>6, <2>1
<1>8. new.close - 1 = z + l /\ z + l <= n
    BY <1>5, <1>6, <1>7
<1>9. CASE Joining(t, u, f)
    <2>1. E = u[f.path] /\ E # << >>
        BY <1>9 DEF Joining, NewText, E
    <2>2. l # 0
        BY <1>2, <1>6, <2>1, EmptySeq
    <2>3. SubSeq(P, z + 2, z + l) = SubSeq(E, 2, l)
        <3>1. 2 \in 1 .. 2 /\ 2 <= l + 1
            BY <1>6, <2>2
        <3>2. z + Len(E) <= Len(P) /\ \A j \in 1 .. Len(E) : P[z + j] = E[j]
            BY <1>6, <1>7, <1>8
        <3>3. \A d \in 1 .. 2 : d <= Len(E) + 1 => SubSeq(P, z + d, z + Len(E)) = SubSeq(E, d, Len(E))
            BY <1>1, <1>2, <3>2, SameStretch
        <3>4. QED
            BY <1>6, <3>1, <3>3
    <2>4. QED
        BY <1>3, <1>4, <1>6, <1>7, <1>8, <1>9, <2>1, <2>3 DEF new, P
<1>10. CASE ~Joining(t, u, f)
    <2>1. SubSeq(P, z + 1, z + l) = SubSeq(E, 1, l)
        <3>1. 1 \in 1 .. 2 /\ 1 <= l + 1
            BY <1>6
        <3>2. QED
            BY SMTT(40), <1>1, <1>2, <1>6, <1>7, <1>8, <3>1, SameStretch
    <2>2. SubSeq(E, 1, l) = E
        <3>1. /\ 1 \in 1 .. (Len(E) + 1) /\ l \in (1 - 1) .. Len(E) /\ l - 1 + 1 = l
              /\ (~(1 <= l) => l = 0)
            BY <1>6
        <3>2. /\ SubSeq(E, 1, l) \in Seq(Symbol)
              /\ Len(SubSeq(E, 1, l)) = IF 1 <= l THEN l - 1 + 1 ELSE 0
              /\ \A j \in 1 .. (l - 1 + 1) : SubSeq(E, 1, l)[j] = E[1 + j - 1]
            BY <1>2, <3>1, SubSeqProperties
        <3>3. Len(SubSeq(E, 1, l)) = l
            BY <3>1, <3>2
        <3>4. \A j \in 1 .. l : SubSeq(E, 1, l)[j] = E[j]
            <4>1. \A j \in 1 .. l : 1 + j - 1 = j
                OBVIOUS
            <4>2. QED
                BY <3>1, <3>2, <4>1
        <3>5. QED
            BY <1>2, <1>6, <3>2, <3>3, <3>4, SeqEqual
    <2>3. QED
        BY <1>3, <1>4, <1>7, <1>8, <1>10, <2>1, <2>2 DEF new, P, E
<1>11. QED
    BY <1>9, <1>10

(* There are no other fragments.                                           *)
LEMMA NoNewFragment ==
    ASSUME NEW t, NEW u, Updates(t, u), Valid(Rewrite(t, u)), NEW g \in Fragments(Rewrite(t, u))
    PROVE  \E o, f : Framed(t, o, f) /\ g = FragmentFrom(Rewrite(t, u), Pos(t, u, o))
<1> DEFINE P == Rewrite(t, u)
<1>1. t \in Seq(Symbol) /\ Parses(t) /\ P \in Seq(Symbol) /\ Parses(P)
    BY RewritePiecesAre DEF Valid, Updates
<1>2. PICK p \in MarkerStarts(P) : Framed(P, p, g)
    BY <1>1, FragmentsAreFramed
<1>3. g = FragmentFrom(P, p) /\ P[p] = Opening(g.path) /\ g.path \in Path
    BY <1>2 DEF Framed
<1>4. PICK m \in MarkerStarts(t) : p = Pos(t, u, m)
    BY <1>2, MarkersAre
<1>5. t[m] = Opening(g.path)
    BY <1>3, <1>4, MarkersKept
<1>6. PICK o, f : Framed(t, o, f) /\ (m = o \/ m = f.close)
    BY <1>1, FragmentsAreFramed
<1>7. m # f.close
    <2>1. t[f.close] = Closing(f.path) /\ f.path \in Path
        BY <1>6 DEF Framed
    <2>2. QED
        BY <1>3, <1>5, <2>1, SymbolsAre
<1>8. QED
    BY <1>3, <1>4, <1>6, <1>7

(* What is read back has the same fragments in the same order.             *)
LEMMA SameOrder ==
    ASSUME NEW t, NEW u, Updates(t, u), Valid(Rewrite(t, u))
    PROVE  InOrder(Fragments(t), Fragments(Rewrite(t, u)))
<1> DEFINE P == Rewrite(t, u)
           At(o) == FragmentFrom(P, Pos(t, u, o))
<1>1. /\ t \in Seq(Symbol) /\ Parses(t) /\ P \in Seq(Symbol) /\ Parses(P)
      /\ Unique(Fragments(P)) /\ Unique(Fragments(t))
    BY RewritePiecesAre DEF Valid, Updates
<1>2. ASSUME NEW f \in Fragments(t)
      PROVE  \E o : Framed(t, o, f) /\ At(o) \in Fragments(P) /\ At(o).path = f.path /\ Framed(P, Pos(t, u, o), At(o))
    BY <1>1, StillFramed, FragmentsAreFramed
<1>3. ASSUME NEW g \in Fragments(P)
      PROVE  \E f \in Fragments(t) : g.path = f.path
    <2>1. PICK o, f : Framed(t, o, f) /\ g = At(o)
        BY NoNewFragment
    <2>2. QED
        BY <1>1, <2>1, StillFramed, FragmentsAreFramed
<1>4. ASSUME NEW s \in Seq(Symbol), NEW o, NEW f, NEW p, NEW g, Framed(s, o, f), Framed(s, p, g)
      PROVE  f.first < g.first <=> o < p
    <2>1. PICK n \in Nat : n = Len(s)
        BY LenProperties
    <2>2. PICK a \in 1 .. n, b \in 1 .. n, c \in 1 .. n, d \in 1 .. n :
              /\ a = f.first /\ b = g.first /\ c = f.close /\ d = g.close
              /\ o \in 1 .. n /\ p \in 1 .. n /\ o + 1 < a /\ p + 1 < b /\ a <= c /\ b <= d
        BY <1>4, <2>1 DEF Framed
    <2>3. (o < p => c + 1 < p) /\ (p < o => d + 1 < o) /\ (o = p => f = g)
        <3>1. /\ o < p => f.close + 1 < p
              /\ p < o => g.close + 1 < o
              /\ o = p => f = g
            BY <1>4, FramesApart
        <3>2. QED
            BY <2>2, <3>1
    <2>4. o = p => a = b
        BY <2>2, <2>3
    <2>5. a < b <=> o < p
        BY <2>2, <2>3, <2>4
    <2>6. QED
        BY <2>2, <2>5
<1>5. ASSUME NEW f1 \in Fragments(t), NEW f2 \in Fragments(t),
             NEW g1 \in Fragments(P), NEW g2 \in Fragments(P), f1.path = g1.path, f2.path = g2.path
      PROVE  f1.first < f2.first <=> g1.first < g2.first
    <2>1. PICK o1 : Framed(t, o1, f1) /\ At(o1) \in Fragments(P) /\ At(o1).path = f1.path
                    /\ Framed(P, Pos(t, u, o1), At(o1))
        BY <1>2
    <2>2. PICK o2 : Framed(t, o2, f2) /\ At(o2) \in Fragments(P) /\ At(o2).path = f2.path
                    /\ Framed(P, Pos(t, u, o2), At(o2))
        BY <1>2
    <2>3. g1 = At(o1) /\ g2 = At(o2)
        BY <1>1, <1>5, <2>1, <2>2 DEF Unique
    <2> HIDE DEF At
    <2>4. f1.first < f2.first <=> o1 < o2
        BY <1>1, <1>4, <2>1, <2>2
    <2>5. g1.first < g2.first <=> Pos(t, u, o1) < Pos(t, u, o2)
        BY <1>1, <1>4, <2>1, <2>2, <2>3
    <2>6. PICK N \in Nat : N = Len(t)
        BY <1>1, LenProperties
    <2>7. /\ o1 \in 1 .. N /\ o2 \in 1 .. N /\ ~Gone(t, u, o1) /\ ~Gone(t, u, o2)
          /\ Pos(t, u, o1) \in Nat /\ Pos(t, u, o2) \in Nat
        <3>1. o1 \in MarkerStarts(t) /\ o2 \in MarkerStarts(t)
            BY <2>1, <2>2 DEF Framed
        <3>2. QED
            BY <2>1, <2>2, <2>6, <3>1, MarkersKept, HeadIs
    <2>8. /\ o1 < o2 => Pos(t, u, o1) < Pos(t, u, o2)
          /\ o2 < o1 => Pos(t, u, o2) < Pos(t, u, o1)
        BY <2>6, <2>7, OrderKept
    <2>9. Pos(t, u, o1) < Pos(t, u, o2) <=> o1 < o2
        BY <2>7, <2>8
    <2>10. QED
        BY <2>4, <2>5, <2>9
<1>6. {f.path : f \in Fragments(t)} = {g.path : g \in Fragments(P)}
    <2>1. \A f \in Fragments(t) : \E g \in Fragments(P) : g.path = f.path
        BY <1>2
    <2>2. QED
        BY <1>3, <2>1
<1>7. QED
    BY <1>5, <1>6 DEF InOrder

-----------------------------------------------------------------------------
(* The text around the fragments                                           *)

\* The symbols that a skeleton leaves out, and what it keeps.
Dropped(t, i) ==
    \E f \in Fragments(t) :
        \/ f.first <= i /\ i < f.close
        \/ i = f.close + 1 /\ f.baseline # NoHash
SkeletonPiece(t, i) == IF Dropped(t, i) THEN << >> ELSE <<t[i]>>
SkeletonPieces(t) == [i \in DOMAIN t |-> SkeletonPiece(t, i)]

(* The skeleton is joined from its pieces, one to a symbol.                *)
LEMMA SkeletonPiecesAre ==
    ASSUME NEW S, NEW t \in Seq(S)
    PROVE  /\ SkeletonPieces(t) \in Seq(Seq(S)) /\ Len(SkeletonPieces(t)) = Len(t)
           /\ \A i \in 1 .. Len(t) : SkeletonPieces(t)[i] = SkeletonPiece(t, i)
           /\ Skeleton(t) = FlattenSeq(SkeletonPieces(t))
<1>1. PICK n \in Nat : n = Len(t)
    BY LenProperties
<1>2. DOMAIN t = 1 .. n
    BY <1>1, LenProperties
<1>3. ASSUME NEW i \in 1 .. n PROVE SkeletonPiece(t, i) \in Seq(S)
    <2>1. t[i] \in S
        BY <1>1, ElementOfSeq
    <2>2. << >> \in Seq(S) /\ <<t[i]>> \in Seq(S)
        BY <2>1
    <2>3. QED
        BY <2>2 DEF SkeletonPiece
<1>4. SkeletonPieces(t) \in [1 .. n -> Seq(S)]
    BY <1>2, <1>3 DEF SkeletonPieces
<1>5. SkeletonPieces(t) \in Seq(Seq(S)) /\ Len(SkeletonPieces(t)) = n
    BY <1>1, <1>4, FunctionIsSeq
<1>6. \A i \in 1 .. n : SkeletonPieces(t)[i] = SkeletonPiece(t, i)
    BY <1>2 DEF SkeletonPieces
<1>7. Skeleton(t) = FlattenSeq(SkeletonPieces(t))
    BY DEF Skeleton, SkeletonPieces, SkeletonPiece, Dropped
<1>8. QED
    BY <1>1, <1>5, <1>6, <1>7

(* What is dropped leaves no trace.                                        *)
LEMMA SkeletonGap ==
    ASSUME NEW S, NEW t \in Seq(S), NEW b \in 0 .. Len(t), NEW a \in 0 .. b,
           \A i \in (a + 1) .. b : Dropped(t, i)
    PROVE  Joined(SkeletonPieces(t))[b] = Joined(SkeletonPieces(t))[a]
<1> DEFINE ss == SkeletonPieces(t)
           g == Joined(ss)
<1>1. PICK N \in Nat : N = Len(t)
    BY LenProperties
<1>2. /\ ss \in Seq(Seq(S)) /\ Len(ss) = N
      /\ \A i \in 1 .. N : ss[i] = SkeletonPiece(t, i)
    BY <1>1, SkeletonPiecesAre
<1> HIDE DEF ss
<1>3. Pieces(ss, g) /\ \A n \in 0 .. N : g[n] \in Seq(S)
    BY <1>2, JoinedPieces, OffIs
<1> HIDE DEF g
<1>4. \A n \in 1 .. N : g[n] = g[n - 1] \o ss[n]
    BY <1>2, <1>3 DEF Pieces
<1>5. PICK m \in Nat : m = b - a /\ a + m = b
    BY <1>1
<1> DEFINE T == {n \in Nat : n <= m => g[a + n] = g[a]}
<1>6. 0 \in T
    <2>1. a + 0 = a
        BY <1>1
    <2>2. QED
        BY <2>1
<1>7. ASSUME NEW n \in Nat, n \in T, n < m
      PROVE  n + 1 \in T
    <2>1. PICK i \in (a + 1) .. b : i = a + (n + 1) /\ i \in 1 .. N /\ i - 1 = a + n /\ a + n \in 0 .. N
        BY <1>1, <1>5, <1>7
    <2>2. ss[i] = << >>
        BY <1>2, <2>1 DEF SkeletonPiece
    <2>3. g[i] = g[a + n] \o << >>
        BY <1>4, <2>1, <2>2
    <2>4. g[a + n] \in Seq(S)
        BY <1>3, <2>1
    <2>5. g[i] = g[a + n]
        BY <2>3, <2>4, ConcatEmptySeq
    <2>6. g[a + n] = g[a]
        BY <1>7
    <2>7. QED
        BY <2>1, <2>5, <2>6
<1>8. m \in T
    <2>1. \A n \in Nat : n \in T /\ n < m => n + 1 \in T
        BY <1>7
    <2>2. m \in 0 .. m
        OBVIOUS
    <2> HIDE DEF T
    <2>3. QED
        BY <1>6, <2>1, <2>2, UpTo
<1>9. QED
    BY <1>5, <1>8 DEF g, ss

(* A symbol that is kept is in both skeletons or in neither, around each fragment. *)
LEMMA DroppedByOne ==
    ASSUME NEW t, NEW u, Updates(t, u), Valid(Rewrite(t, u)), NEW o, NEW f, Framed(t, o, f),
           ~Joining(t, u, f), NEW i \in 1 .. Len(t), ~Gone(t, u, i), NEW new,
           new = FragmentFrom(Rewrite(t, u), Pos(t, u, o))
    PROVE  /\ (new.first <= Pos(t, u, i) /\ Pos(t, u, i) < new.close) <=> (f.first <= i /\ i < f.close)
           /\ Pos(t, u, i) = new.close + 1 /\ new.baseline # NoHash <=>
                 i = f.close + 1 /\ f.baseline # NoHash
<1>1. PICK N \in Nat : N = Len(t)
    BY LenProperties DEF Updates
<1>2. PICK a \in 1 .. N, c \in 1 .. N : a = f.first /\ c = f.close /\ a <= c /\ o \in 1 .. N /\ o + 1 < a
    BY <1>1 DEF Framed
<1>3. PICK z \in Nat, q \in Nat :
          z = To(t, u, a - 1) /\ q = Pos(t, u, c) /\ new.first = z + 1 /\ new.close = q
    <2>1. /\ To(t, u, a - 1) \in Nat /\ Pos(t, u, c) \in Nat
        BY <1>1, <1>2, BodyIs, PositionsAre
    <2>2. new.first = To(t, u, a - 1) + 1 /\ new.close = Pos(t, u, c)
        BY <1>2, NewFirst, NewClose
    <2>3. QED
        BY <2>1, <2>2
<1>4. ~Gone(t, u, c)
    BY <1>2, BodyIs
<1>5. PICK k \in Nat : /\ k = Pos(t, u, i) /\ To(t, u, i - 1) < k /\ k <= To(t, u, i)
                       /\ To(t, u, i - 1) \in Nat /\ To(t, u, i) \in Nat
    BY PositionsAre
<1>6. i \in 1 .. N
    BY <1>1
<1>7. (i < c => k < q) /\ (c < i => q < k) /\ (i = c => k = q)
    BY <1>1, <1>2, <1>3, <1>4, <1>5, <1>6, OrderKept
<1>8. \A m \in 0 .. N : \A n \in m .. N : To(t, u, m) <= To(t, u, n)
    BY <1>1, OrderKept
<1>9. (z + 1 <= k /\ k < q) <=> (a <= i /\ i < c)
    <2>1. CASE i >= a
        <3>1. a - 1 \in 0 .. N /\ i - 1 \in (a - 1) .. N
            BY <1>2, <1>6, <2>1
        <3>2. z <= To(t, u, i - 1)
            BY <1>3, <1>8, <3>1
        <3>3. z < k
            BY <1>3, <1>5, <3>2
        <3>4. k < q <=> i < c
            <4>1. i \in Nat /\ c \in Nat /\ k \in Nat /\ q \in Nat
                BY SMTT(40), <1>2, <1>3, <1>5, <1>6
            <4>2. i < c \/ i = c \/ c < i
                BY <4>1
            <4>3. CASE i < c
                BY <1>7, <4>3
            <4>4. CASE i = c
                BY <1>7, <4>1, <4>4
            <4>5. CASE c < i
                BY <1>7, <4>1, <4>5
            <4>6. QED
                BY <4>2, <4>3, <4>4, <4>5
        <3>5. z + 1 <= k
            BY <1>3, <1>5, <3>3
        <3>6. QED
            BY <2>1, <3>4, <3>5
    <2>2. CASE i < a
        <3>1. i \in 0 .. N /\ a - 1 \in i .. N
            BY <1>2, <1>6, <2>2
        <3>2. To(t, u, i) <= z
            BY <1>3, <1>8, <3>1
        <3>3. k <= z
            BY <1>3, <1>5, <3>2
        <3>4. QED
            BY SMTT(40), <1>2, <1>3, <1>5, <1>6, <2>2, <3>3
    <2>3. QED
        BY <1>2, <1>6, <2>1, <2>2
<1>10. k = q + 1 => c < i
    BY SMTT(40), <1>2, <1>3, <1>5, <1>6, <1>7
<1>11. CASE f \in Changed(t, u)
    <2>1. ~(i = c + 1 /\ f.baseline # NoHash)
        BY <1>2, <1>11 DEF Gone
    <2>2. k # q + 1
        <3>1. SUFFICES ASSUME k = q + 1 PROVE FALSE
            OBVIOUS
        <3>2. c \in 0 .. N /\ i - 1 \in c .. N
            BY <1>2, <1>6, <1>10, <3>1
        <3>3. To(t, u, c) <= To(t, u, i - 1)
            BY <1>8, <3>2
        <3>4. To(t, u, c) = q + 1
            BY <1>2, <1>3, <1>11, TailIs
        <3>5. QED
            BY <1>3, <1>5, <3>1, <3>3, <3>4
    <2>3. QED
        BY <1>2, <1>3, <1>5, <1>9, <2>1, <2>2
<1>12. CASE f \notin Changed(t, u)
    <2>1. new.baseline = f.baseline
        BY <1>12, NewBaseline
    <2>2. c + 1 <= N => ~Gone(t, u, c + 1) /\ Pos(t, u, c + 1) = q + 1
        BY <1>1, <1>2, <1>3, <1>12, TailIs
    <2>3. i = c + 1 => k = q + 1
        <3>1. i = c + 1 => c + 1 <= N
            BY <1>6
        <3>2. QED
            BY <1>5, <2>2, <3>1
    <2>4. k = q + 1 => i = c + 1
        <3>1. SUFFICES ASSUME k = q + 1, i # c + 1 PROVE FALSE
            OBVIOUS
        <3>2. PICK d \in 1 .. N : d = c + 1 /\ d < i
            BY <1>2, <1>6, <1>10, <3>1
        <3>3. ~Gone(t, u, d) /\ Pos(t, u, d) = q + 1
            BY <2>2, <3>2
        <3>4. Pos(t, u, d) < Pos(t, u, i)
            BY <1>1, <1>6, <3>2, <3>3, OrderKept
        <3>5. QED
            BY <1>3, <1>5, <3>1, <3>3, <3>4
    <2>5. QED
        BY <1>2, <1>3, <1>5, <1>9, <2>1, <2>3, <2>4
<1>13. QED
    BY <1>11, <1>12

(* What is kept is in both skeletons or in neither, and the rest in neither. *)
LEMMA DroppedAlike ==
    ASSUME NEW t, NEW u, Updates(t, u), Valid(Rewrite(t, u)),
           \A f \in Fragments(t) : ~Joining(t, u, f), NEW i \in 1 .. Len(t)
    PROVE  /\ ~Gone(t, u, i) => (Dropped(Rewrite(t, u), Pos(t, u, i)) <=> Dropped(t, i))
           /\ Gone(t, u, i) => Dropped(t, i)
           /\ \A k \in Nat : To(t, u, i - 1) < k /\ k <= To(t, u, i - 1) + Len(Inserted(t, u, i)) =>
                 Dropped(Rewrite(t, u), k)
           /\ HashAfter(t, u, i) # << >> => Dropped(Rewrite(t, u), Pos(t, u, i) + 1)
<1> DEFINE P == Rewrite(t, u)
           At(o) == FragmentFrom(P, Pos(t, u, o))
<1>1. t \in Seq(Symbol) /\ Parses(t) /\ P \in Seq(Symbol) /\ Parses(P)
    BY RewritePiecesAre DEF Valid, Updates
<1>2. ASSUME NEW f \in Fragments(t)
      PROVE  \E o : Framed(t, o, f) /\ At(o) \in Fragments(P)
    BY <1>1, StillFramed, FragmentsAreFramed
<1>3. ASSUME NEW g \in Fragments(P)
      PROVE  \E o : \E f \in Fragments(t) : Framed(t, o, f) /\ g = At(o)
    BY <1>1, NoNewFragment, FragmentsAreFramed
<1>4. ASSUME NEW o, NEW f \in Fragments(t), Framed(t, o, f), ~Gone(t, u, i)
      PROVE  /\ (At(o).first <= Pos(t, u, i) /\ Pos(t, u, i) < At(o).close) <=> (f.first <= i /\ i < f.close)
             /\ Pos(t, u, i) = At(o).close + 1 /\ At(o).baseline # NoHash <=>
                   i = f.close + 1 /\ f.baseline # NoHash
    BY <1>4, DroppedByOne
<1> HIDE DEF At
<1>5. ASSUME ~Gone(t, u, i)
      PROVE  Dropped(P, Pos(t, u, i)) <=> Dropped(t, i)
    <2>1. ASSUME Dropped(P, Pos(t, u, i)) PROVE Dropped(t, i)
        <3>1. PICK g \in Fragments(P) :
                  \/ g.first <= Pos(t, u, i) /\ Pos(t, u, i) < g.close
                  \/ Pos(t, u, i) = g.close + 1 /\ g.baseline # NoHash
            BY <2>1 DEF Dropped
        <3>2. PICK f \in Fragments(t) : \E o : Framed(t, o, f) /\ g = At(o)
            BY <1>3
        <3>3. (f.first <= i /\ i < f.close) \/ (i = f.close + 1 /\ f.baseline # NoHash)
            BY <1>4, <1>5, <3>1, <3>2
        <3>4. QED
            BY <3>3 DEF Dropped
    <2>2. ASSUME Dropped(t, i) PROVE Dropped(P, Pos(t, u, i))
        <3>1. PICK f \in Fragments(t) :
                  (f.first <= i /\ i < f.close) \/ (i = f.close + 1 /\ f.baseline # NoHash)
            BY <2>2 DEF Dropped
        <3>2. PICK o : Framed(t, o, f) /\ At(o) \in Fragments(P)
            BY <1>2
        <3>3. \/ At(o).first <= Pos(t, u, i) /\ Pos(t, u, i) < At(o).close
              \/ Pos(t, u, i) = At(o).close + 1 /\ At(o).baseline # NoHash
            BY <1>4, <1>5, <3>1, <3>2
        <3>4. QED
            BY <3>2, <3>3 DEF Dropped
    <2>3. QED
        BY <2>1, <2>2
<1>6. ASSUME Gone(t, u, i)
      PROVE  Dropped(t, i)
    <2>1. CASE \E f \in Spliced(t, u) : i \in Edited(t, f)
        <3>1. PICK f \in Spliced(t, u) : i \in f.first .. (f.close - 1)
            BY <2>1 DEF Edited
        <3>2. f \in Fragments(t)
            BY DEF Spliced, Changed
        <3>3. PICK a \in Nat, c \in Nat, n \in Nat : a = f.first /\ c = f.close /\ n = Len(t)
            <4>1. PICK o : Framed(t, o, f)
                BY <1>2, <3>2
            <4>2. Len(t) \in Nat
                BY <1>1, LenProperties
            <4>3. f.first \in Nat /\ f.close \in Nat
                BY <4>1, <4>2 DEF Framed
            <4>4. QED
                BY <4>2, <4>3
        <3>4. f.first <= i /\ i < f.close
            BY <3>1, <3>3
        <3>5. QED
            BY <3>2, <3>4 DEF Dropped
    <2>2. CASE \E f \in Changed(t, u) : i = f.close + 1 /\ f.baseline # NoHash
        BY <2>2 DEF Dropped, Changed
    <2>3. QED
        BY <1>6, <2>1, <2>2 DEF Gone
<1>7. ASSUME NEW k \in Nat, To(t, u, i - 1) < k, k <= To(t, u, i - 1) + Len(Inserted(t, u, i))
      PROVE  Dropped(P, k)
    <2>1. PICK z \in Nat, l \in Nat : z = To(t, u, i - 1) /\ l = Len(Inserted(t, u, i))
        BY PositionsAre
    <2>2. l # 0
        BY <1>7, <2>1
    <2>3. Inserted(t, u, i) # << >>
        <3>1. Len(<< >>) = 0
            OBVIOUS
        <3>2. QED
            BY <2>1, <2>2, <3>1
    <2>4. PICK f \in Spliced(t, u) : i = f.first
        BY <2>3, PartsAre
    <2>5. f \in Fragments(t)
        BY DEF Spliced, Changed
    <2>6. PICK o : Framed(t, o, f) /\ At(o) \in Fragments(P)
        BY <1>2, <2>5
    <2>7. At(o).first = z + 1
        BY <2>1, <2>4, <2>5, <2>6, NewFirst DEF At
    <2>8. At(o).close = z + l + 1
        <3>1. NewText(t, u, f) = Inserted(t, u, i)
            BY <2>4, PartsAre DEF NewText
        <3>2. Pos(t, u, f.close) = To(t, u, f.first - 1) + Len(NewText(t, u, f)) + 1
            BY <2>6, BodyIs
        <3>3. At(o).close = Pos(t, u, f.close)
            BY <2>6, NewClose DEF At
        <3>4. QED
            BY <2>1, <2>4, <3>1, <3>2, <3>3
    <2>9. At(o).first <= k /\ k < At(o).close
        BY <1>7, <2>1, <2>7, <2>8
    <2>10. QED
        BY <2>6, <2>9 DEF Dropped
<1>8. ASSUME HashAfter(t, u, i) # << >>
      PROVE  Dropped(P, Pos(t, u, i) + 1)
    <2>1. PICK f \in Changed(t, u) : i = f.close
        BY <1>8, PartsAre
    <2>2. f \in Fragments(t)
        BY DEF Changed
    <2>3. PICK o : Framed(t, o, f) /\ At(o) \in Fragments(P)
        BY <1>2, <2>2
    <2>4. At(o).close = Pos(t, u, i)
        BY <2>1, <2>3, NewClose DEF At
    <2>5. At(o).baseline # NoHash
        <3>1. At(o).baseline = Hash[NewSource(u, f)]
            BY <2>1, <2>3, NewBaseline DEF At
        <3>2. NewSource(u, f) \in Source
            BY <2>1 DEF Updates
        <3>3. QED
            BY <3>1, <3>2, HashAssumption, AbsenceAssumption
    <2>6. QED
        BY <2>3, <2>4, <2>5 DEF Dropped
<1>9. QED
    BY <1>5, <1>6, <1>7, <1>8

(* The skeleton of what was rewritten is the skeleton.                     *)
LEMMA SkeletonKept ==
    ASSUME NEW t, NEW u, Updates(t, u), Valid(Rewrite(t, u)),
           \A f \in Fragments(t) : ~Joining(t, u, f)
    PROVE  Skeleton(Rewrite(t, u)) = Skeleton(t)
<1> DEFINE P == Rewrite(t, u)
           rr == SkeletonPieces(P)
           ss == SkeletonPieces(t)
           h == Joined(rr)
           g == Joined(ss)
<1>1. t \in Seq(Symbol) /\ P \in Seq(Symbol)
    BY RewritePiecesAre DEF Updates
<1>2. PICK N \in Nat, M \in Nat : N = Len(t) /\ M = Len(P)
    BY <1>1, LenProperties
<1>3. /\ ss \in Seq(Seq(Symbol)) /\ Len(ss) = N /\ Skeleton(t) = FlattenSeq(ss)
      /\ \A i \in 1 .. N : ss[i] = SkeletonPiece(t, i)
    BY <1>1, <1>2, SkeletonPiecesAre
<1>4. /\ rr \in Seq(Seq(Symbol)) /\ Len(rr) = M /\ Skeleton(P) = FlattenSeq(rr)
      /\ \A i \in 1 .. M : rr[i] = SkeletonPiece(P, i)
    BY <1>1, <1>2, SkeletonPiecesAre
<1>5. /\ \A n \in 0 .. N : To(t, u, n) \in Nat /\ To(t, u, n) <= M
      /\ To(t, u, 0) = 0 /\ To(t, u, N) = M
    <2>1. /\ \A n \in 0 .. N : To(t, u, n) \in Nat
          /\ To(t, u, 0) = 0 /\ To(t, u, N) = M
          /\ \A m \in 0 .. N : \A n \in m .. N : To(t, u, m) <= To(t, u, n)
        BY <1>2, OrderKept
    <2>2. \A m \in 0 .. N : N \in m .. N
        BY <1>2
    <2>3. QED
        BY <2>1, <2>2
<1>6. \A b \in 0 .. M : \A a \in 0 .. b : (\A k \in (a + 1) .. b : Dropped(P, k)) => h[b] = h[a]
    BY <1>1, <1>2, SkeletonGap
<1>0. \A i \in 1 .. N :
          /\ ~Gone(t, u, i) => /\ Dropped(P, Pos(t, u, i)) <=> Dropped(t, i)
                               /\ P[Pos(t, u, i)] = t[i]
          /\ HashAfter(t, u, i) # << >> => Dropped(P, Pos(t, u, i) + 1)
    BY <1>2, DroppedAlike, PositionsAre
<1> HIDE DEF P, rr, ss
<1>7. g[0] = << >> /\ g[N] = FlattenSeq(ss) /\ \A n \in 1 .. N : g[n] = g[n - 1] \o ss[n]
    BY <1>3, JoinedPieces DEF Pieces
<1>8. h[0] = << >> /\ h[M] = FlattenSeq(rr) /\ \A n \in 1 .. M : h[n] = h[n - 1] \o rr[n]
    BY <1>4, JoinedPieces DEF Pieces
<1>9. \A n \in 0 .. N : g[n] \in Seq(Symbol)
    BY <1>3, OffIs
<1> HIDE DEF g, h
<1> DEFINE T == {n \in Nat : n <= N => h[To(t, u, n)] = g[n]}
<1>10. 0 \in T
    BY <1>5, <1>7, <1>8
<1>11. ASSUME NEW n \in Nat, n \in T, n < N
       PROVE  n + 1 \in T
    <2>1. PICK i \in 1 .. N : i = n + 1 /\ i - 1 = n /\ n \in 0 .. N /\ i \in 0 .. N
        BY <1>2, <1>11
    <2>2. PICK y \in 0 .. M, l \in Nat, w \in 0 .. M :
              y = To(t, u, n) /\ l = Len(Inserted(t, u, i)) /\ w = To(t, u, i)
        <3>1. Len(Inserted(t, u, i)) \in Nat
            BY <1>2, <2>1, PositionsAre
        <3>2. To(t, u, n) \in 0 .. M /\ To(t, u, i) \in 0 .. M
            BY <1>2, <1>5, <2>1
        <3>3. QED
            BY <3>1, <3>2
    <2>3. h[y] = g[n]
        BY <1>11, <2>1, <2>2
    <2>4. \A k \in Nat : y < k /\ k <= y + l => Dropped(P, k)
        BY <1>2, <2>1, <2>2, DroppedAlike DEF P
    <2>5. CASE Gone(t, u, i)
        <3>1. HashAfter(t, u, i) = << >>
            BY <1>2, <2>5, GoneIs
        <3>2. w = y + l
            BY <1>2, <2>1, <2>2, <2>5, <3>1, PositionsAre
        <3>3. \A k \in (y + 1) .. w : Dropped(P, k)
            BY <2>4, <3>2
        <3>4. h[w] = h[y]
            <4>1. y \in 0 .. w
                BY <2>2, <3>2
            <4>2. QED
                BY <1>6, <3>3, <4>1
        <3>5. Dropped(t, i)
            BY <1>2, <2>5, DroppedAlike
        <3>6. ss[i] = << >>
            BY <1>3, <3>5 DEF SkeletonPiece
        <3>7. g[i] = g[n] \o << >>
            BY <1>7, <2>1, <3>6
        <3>8. g[i] = g[n]
            BY <1>9, <2>1, <3>7, ConcatEmptySeq
        <3>9. QED
            BY <2>1, <2>2, <2>3, <3>4, <3>8
    <2>6. CASE ~Gone(t, u, i)
        <3>1. PICK k \in 1 .. M : k = Pos(t, u, i) /\ k = y + l + 1 /\ k <= w /\ y + l \in 0 .. M /\ k - 1 = y + l
            <4>1. Pos(t, u, i) = y + l + 1
                BY <2>1, <2>2 DEF Pos
            <4>2. Pos(t, u, i) <= w
                BY <1>2, <2>2, <2>6, PositionsAre
            <4>3. y + l + 1 \in 1 .. M /\ y + l \in 0 .. M /\ (y + l + 1) - 1 = y + l
                BY <1>2, <2>2, <4>1, <4>2
            <4>4. QED
                BY <4>1, <4>2, <4>3
        <3>2. h[y + l] = h[y]
            <4>1. \A j \in (y + 1) .. (y + l) : Dropped(P, j)
                BY <2>4
            <4>2. y \in 0 .. (y + l)
                BY <2>2
            <4>3. QED
                BY <1>6, <3>1, <4>1, <4>2
        <3>3. rr[k] = ss[i]
            <4>1. Dropped(P, k) <=> Dropped(t, i)
                BY <1>0, <2>6, <3>1
            <4>2. P[k] = t[i]
                BY <1>0, <2>6, <3>1
            <4>3. QED
                BY <1>3, <1>4, <4>1, <4>2 DEF SkeletonPiece
        <3>4. h[k] = g[i]
            <4>1. h[k] = h[k - 1] \o rr[k]
                BY <1>8
            <4>2. g[i] = g[i - 1] \o ss[i]
                BY <1>7
            <4>3. h[k - 1] = g[i - 1]
                BY <2>1, <2>3, <3>1, <3>2
            <4>4. QED
                BY <3>3, <4>1, <4>2, <4>3
        <3>5. h[w] = h[k]
            <4>1. CASE HashAfter(t, u, i) = << >>
                <5>1. w = k
                    BY <1>2, <2>2, <2>6, <3>1, <4>1, PositionsAre
                <5>2. QED
                    BY <5>1
            <4>2. CASE HashAfter(t, u, i) # << >>
                <5>1. PICK f \in Changed(t, u) : HashAfter(t, u, i) = <<Token(u, f)>>
                    BY <4>2, PartsAre
                <5>2. w = k + 1
                    <6>1. To(t, u, i) = Pos(t, u, i) + 1
                        BY <1>2, <2>6, <5>1, PositionsAre
                    <6>2. QED
                        BY <2>2, <3>1, <6>1
                <5>3. Dropped(P, k + 1)
                    BY <1>0, <3>1, <4>2
                <5>4. k \in 0 .. w /\ \A j \in (k + 1) .. w : j = k + 1
                    BY <1>2, <5>2
                <5>5. \A j \in (k + 1) .. w : Dropped(P, j)
                    BY <5>3, <5>4
                <5>6. QED
                    BY <1>6, <5>4, <5>5
            <4>3. QED
                BY <4>1, <4>2
        <3>6. QED
            BY <2>1, <2>2, <3>4, <3>5
    <2>7. QED
        BY <2>5, <2>6
<1>12. N \in T
    <2>1. \A n \in Nat : n \in T /\ n < N => n + 1 \in T
        BY <1>11
    <2>2. N \in 0 .. N
        BY <1>2
    <2> HIDE DEF T
    <2>3. QED
        BY <1>2, <1>10, <2>1, <2>2, UpTo
<1>13. h[M] = g[N]
    BY <1>5, <1>12
<1>14. QED
    BY <1>3, <1>4, <1>7, <1>8, <1>13 DEF P

-----------------------------------------------------------------------------
(* What a command finds                                                    *)

(* Each classification holds exactly under the condition of its match arm. *)
LEMMA ClassifyRows ==
    ASSUME NEW E \in Source, NEW H \in Digest \cup {NoHash}, NEW F \in Source \cup {NoFile}
    PROVE  /\ Classify(E, H, F) \in Classification
           /\ Classify(E, H, F) = "unadopted absent" <=> H = NoHash /\ F = NoFile
           /\ Classify(E, H, F) = "unadopted matching" <=> H = NoHash /\ F = E
           /\ Classify(E, H, F) = "unadopted conflict" <=>
                 H = NoHash /\ F # NoFile /\ F # E
           /\ Classify(E, H, F) = "missing" <=> H # NoHash /\ F = NoFile
           /\ Classify(E, H, F) = "synchronized" <=>
                 H # NoHash /\ F = E /\ Hash[F] = H
           /\ Classify(E, H, F) = "converged" <=>
                 H # NoHash /\ F = E /\ Hash[F] # H
           /\ Classify(E, H, F) = "embed" <=>
                 H # NoHash /\ F # NoFile /\ F # E /\ Hash[F] # H /\ Hash[E] = H
           /\ Classify(E, H, F) = "extract" <=>
                 H # NoHash /\ F # NoFile /\ F # E /\ Hash[F] = H /\ Hash[E] # H
           /\ Classify(E, H, F) = "conflict" <=>
                 H # NoHash /\ F # NoFile /\ F # E /\ (Hash[F] = H <=> Hash[E] = H)
<1>1. CASE H = NoHash
    BY <1>1, AbsenceAssumption DEF Classify, ClassifyUnadopted, Classification
<1>2. CASE H # NoHash /\ F = NoFile
    BY <1>2, AbsenceAssumption DEF Classify, Classification
<1>3. CASE H # NoHash /\ F # NoFile
    <2>1. F \in Source
        BY <1>3
    <2>2. Classify(E, H, F) = ClassifyAdopted(E, H, F)
        BY <1>3 DEF Classify
    <2>3. CASE F = E
        BY <1>3, <2>1, <2>2, <2>3 DEF ClassifyAdopted, Classification
    <2>4. CASE F # E /\ Hash[F] = H /\ Hash[E] = H
        BY <1>3, <2>1, <2>2, <2>4 DEF ClassifyAdopted, Classification
    <2>5. CASE F # E /\ Hash[F] # H /\ Hash[E] # H
        BY <1>3, <2>1, <2>2, <2>5 DEF ClassifyAdopted, Classification
    <2>6. CASE F # E /\ Hash[F] # H /\ Hash[E] = H
        BY <1>3, <2>1, <2>2, <2>6 DEF ClassifyAdopted, Classification
    <2>7. CASE F # E /\ Hash[F] = H /\ Hash[E] # H
        BY <1>3, <2>1, <2>2, <2>7 DEF ClassifyAdopted, Classification
    <2>8. QED
        BY <2>3, <2>4, <2>5, <2>6, <2>7
<1>4. QED
    BY <1>1, <1>2, <1>3

(* An unforced decision is one of five, and each has its classifications. *)
LEMMA PlanOneRows ==
    ASSUME NEW operation \in Operation, NEW selection \in SelectionKind,
           NEW class \in Classification
    PROVE  /\ PlanOne(operation, selection, class) \in Decision
           /\ PlanOne(operation, selection, class) = "settled" <=> class = "synchronized"
           /\ PlanOne(operation, selection, class) = "record" <=>
                 class \in {"unadopted matching", "converged"}
           /\ PlanOne(operation, selection, class) = "extract" =>
                 class \in {"unadopted absent", "missing", "extract"}
           /\ PlanOne(operation, selection, class) = "embed" => class = "embed"
BY DEF PlanOne, PlanExtracts, PlanEmbeds, Decision, Classification

(* The parts of a fragment have their types, and its source has no mark.   *)
LEMMA FragmentTyped ==
    ASSUME NEW t \in Seq(Symbol), Parses(t), NEW f \in Fragments(t)
    PROVE  /\ f.source \in Seq(Symbol) /\ f.path \in Path /\ f.baseline \in Digest \cup {NoHash}
           /\ ~BeginsWithMark(f.source)
<1>1. PICK o : Framed(t, o, f)
    BY FragmentsAreFramed
<1>2. PICK n \in Nat : n = Len(t)
    BY LenProperties
<1>3. f.source \in Seq(Symbol)
    <2>1. PICK a \in 1 .. n, c \in 1 .. n : a = f.first /\ c = f.close /\ a <= c
        BY <1>1, <1>2 DEF Framed
    <2>2. f.source = SubSeq(t, a, c - 1)
        BY <1>1, <2>1 DEF Framed
    <2>3. a \in 1 .. (Len(t) + 1) /\ c - 1 \in (a - 1) .. Len(t)
        BY <1>2, <2>1
    <2>4. SubSeq(t, a, c - 1) \in Seq(Symbol)
        BY <2>3, SubSeqProperties
    <2>5. QED
        BY <2>2, <2>4
<1>4. f.path \in Path /\ f.baseline \in Digest \cup {NoHash}
    BY <1>1 DEF Framed
<1>5. ~BeginsWithMark(f.source)
    <2>1. f = FragmentFrom(t, o) /\ o \in MarkerStarts(t) /\ t[o] \in Openings
        BY <1>1, <1>4, SymbolsAre DEF Framed
    <2>2. QED
        BY <2>1 DEF Parses
<1>6. QED
    BY <1>3, <1>4, <1>5

(* Canonical text is canonical without its first symbol.                   *)
LEMMA RestIsCanonical ==
    ASSUME NEW S, NEW s \in Seq(S), IsCanonical(s), s # << >>
    PROVE  SubSeq(s, 2, Len(s)) \in Seq(S) /\ IsCanonical(SubSeq(s, 2, Len(s)))
<1> DEFINE r == SubSeq(s, 2, Len(s))
<1>1. PICK n \in Nat : n = Len(s) /\ n # 0
    BY LenProperties, EmptySeq
<1>2. 2 \in 1 .. (Len(s) + 1) /\ n \in (2 - 1) .. Len(s)
    BY <1>1
<1>3. /\ SubSeq(s, 2, n) \in Seq(S)
      /\ Len(SubSeq(s, 2, n)) = IF 2 <= n THEN n - 2 + 1 ELSE 0
      /\ \A j \in 1 .. (n - 2 + 1) : SubSeq(s, 2, n)[j] = s[2 + j - 1]
    BY <1>2, SubSeqProperties
<1>4. r = SubSeq(s, 2, n)
    BY <1>1
<1> HIDE DEF r
<1>5. PICK m \in Nat : m = Len(r) /\ m = n - 1
    BY <1>1, <1>3, <1>4
<1>6. \A j \in 1 .. m : r[j] = s[j + 1] /\ j + 1 \in 1 .. n
    <2>1. ASSUME NEW j \in 1 .. m PROVE r[j] = s[j + 1] /\ j + 1 \in 1 .. n
        <3>1. 2 + j - 1 = j + 1 /\ j \in 1 .. (n - 2 + 1) /\ j + 1 \in 1 .. n
            BY <1>1, <1>5
        <3>2. QED
            BY <1>3, <1>4, <3>1
    <2>2. QED
        BY <2>1
<1>7. \A j \in 1 .. Len(r) : r[j] # CR
    BY <1>1, <1>5, <1>6 DEF IsCanonical
<1>8. ASSUME r # << >> PROVE r[Len(r)] = LF
    <2>1. m # 0
        BY <1>3, <1>4, <1>5, <1>8, EmptySeq
    <2>2. m \in 1 .. m /\ m + 1 = n
        BY <1>5, <2>1
    <2>3. r[m] = s[n]
        BY <1>6, <2>2
    <2>4. QED
        BY <1>1, <1>5, <2>3 DEF IsCanonical
<1>9. QED
    BY <1>3, <1>4, <1>7, <1>8 DEF IsCanonical, r

-----------------------------------------------------------------------------
(* The invariant                                                           *)

\* Every text that a command may have to hash is a source.
SourcesAreKnown ==
    /\ Parses(text) => \A f \in Fragments(text) : Canonicalize(f.source) \in Source
    /\ \A p \in Path : file[p] # NoFile => Canonicalize(file[p]) \in Source

\* A running command has the fragments of the node, and they can be discovered.
InventoryIsCurrent ==
    outcome = "running" => inventory = Fragments(text) /\ Discoverable

Inv == TypeOK /\ SourcesAreKnown /\ InventoryIsCurrent

(* What a running command reads.                                           *)
LEMMA CommandReads ==
    ASSUME Inv, outcome = "running", NEW f \in Fragments(text)
    PROVE  /\ Valid(text) /\ Parses(text) /\ text \in Seq(Symbol) /\ f.path \in Paths
           /\ FragmentOf(f.path) = f /\ f.path \in Path
           /\ Canonicalize(f.source) \in Source /\ f.baseline \in Digest \cup {NoHash}
           /\ ReadFile(f.path) \in Source \cup {NoFile}
           /\ Class(f) \in Classification
<1>1. /\ Valid(text) /\ Parses(text) /\ text \in Seq(Symbol) /\ inventory = Fragments(text)
    BY DEF Inv, InventoryIsCurrent, Discoverable, Valid, TypeOK
<1>2. f.path \in Path /\ f.baseline \in Digest \cup {NoHash}
    BY <1>1, FragmentTyped
<1>3. f.path \in Paths
    BY <1>1 DEF Paths
<1>4. FragmentOf(f.path) = f
    <2>1. \A g \in inventory : g.path = f.path <=> g = f
        BY <1>1 DEF Valid, Unique
    <2>2. f \in inventory
        BY <1>1
    <2>3. QED
        BY <2>1, <2>2 DEF FragmentOf
<1>5. Canonicalize(f.source) \in Source
    BY <1>1 DEF Inv, SourcesAreKnown
<1>6. ReadFile(f.path) \in Source \cup {NoFile}
    BY <1>2 DEF Inv, SourcesAreKnown, ReadFile
<1>7. Class(f) \in Classification
    BY <1>2, <1>5, <1>6, ClassifyRows DEF Class
<1>8. QED
    BY <1>1, <1>2, <1>3, <1>4, <1>5, <1>6, <1>7

\* The update of a command.
Rewriting(r) == Update(Decisions(r))

(* What a command decides on a fragment, and which of them it acts on.     *)
LEMMA CommandDecides ==
    ASSUME Inv, NEW r \in Request, Planned(r), NEW f \in Fragments(text)
    PROVE  LET selected == f.path \in Selected(r)
               d == Decisions(r)[f.path]
               class == Class(f)
           IN  /\ DOMAIN Decisions(r) = Selected(r)
               /\ ~r.operation.force /\ selected =>
                     d = PlanOne(r.operation, Selection(r), class)
               /\ f \in Changed(text, Rewriting(r)) <=>
                     selected /\ d \in {"record", "extract", "embed"}
               /\ f \in Changed(text, Rewriting(r)) =>
                     Rewriting(r)[f.path] = IF d = "embed" THEN ReadFile(f.path) ELSE NoFile
               /\ selected /\ d = "embed" => ReadFile(f.path) # NoFile
               /\ selected /\ d = "record" => ReadFile(f.path) = Canonicalize(f.source)
<1> DEFINE d == Decisions(r)[f.path]
           class == Class(f)
           E == Canonicalize(f.source)
           F == ReadFile(f.path)
<1>1. outcome = "running" /\ Selected(r) \subseteq Paths
      /\ ~PlanRefused(r.operation, Selection(r), Classes(r))
    BY DEF Planned
<1>2. /\ FragmentOf(f.path) = f /\ E \in Source /\ f.baseline \in Digest \cup {NoHash}
      /\ F \in Source \cup {NoFile} /\ class \in Classification
    BY <1>1, CommandReads
<1>3. r.operation \in Operation /\ Selection(r) \in SelectionKind
    BY DEF Request, Selection, SelectionKind
<1>4. DOMAIN Classes(r) = Selected(r) /\ DOMAIN Decisions(r) = Selected(r)
    BY DEF Classes, Decisions, Plan
<1>5. f.path \in Selected(r) =>
          /\ Classes(r)[f.path] = class
          /\ d = IF r.operation.force THEN r.operation.kind
                 ELSE PlanOne(r.operation, Selection(r), class)
    BY <1>2 DEF Classes, Decisions, Plan
<1>6. /\ f \in Changed(text, Rewriting(r)) <=>
            f.path \in Selected(r) /\ d \in {"record", "extract", "embed"}
      /\ f \in Changed(text, Rewriting(r)) =>
            Rewriting(r)[f.path] = IF d = "embed" THEN F ELSE NoFile
    BY <1>4 DEF Changed, Rewriting, Update
<1>7. CASE r.operation.force /\ f.path \in Selected(r)
    <2>1. class \in Forceable
        BY <1>1, <1>4, <1>5, <1>7 DEF PlanRefused
    <2>2. F # NoFile
        BY <1>2, <2>1, ClassifyRows DEF Class, Forceable
    <2>3. d # "record"
        <3>1. r.operation.kind \in {"embed", "extract", "sync"}
            BY <1>3 DEF Operation, Sync
        <3>2. QED
            BY <1>5, <1>7, <3>1
    <2>4. QED
        BY <1>4, <1>6, <1>7, <2>2, <2>3
<1>8. CASE ~r.operation.force \/ f.path \notin Selected(r)
    <2>1. /\ PlanOne(r.operation, Selection(r), class) = "record" =>
                class \in {"unadopted matching", "converged"}
          /\ PlanOne(r.operation, Selection(r), class) = "embed" => class = "embed"
        BY <1>2, <1>3, PlanOneRows
    <2>2. /\ class \in {"unadopted matching", "converged"} => F = E
          /\ class = "embed" => F # NoFile
        <3>1. class = Classify(E, f.baseline, F)
            BY DEF Class
        <3> HIDE DEF class, E, F
        <3>2. /\ class = "unadopted matching" => F = E
              /\ class = "converged" => F = E
              /\ class = "embed" => F # NoFile
            BY <1>2, <3>1, ClassifyRows
        <3>3. QED
            BY <3>2
    <2>3. QED
        BY <1>4, <1>5, <1>6, <1>8, <2>1, <2>2
<1>9. QED
    BY <1>7, <1>8

(* A command updates a valid text with canonical sources.                  *)
LEMMA CommandUpdates ==
    ASSUME Inv, NEW r \in Request, Planned(r)
    PROVE  Updates(text, Rewriting(r))
<1>1. outcome = "running"
    BY DEF Planned
<1>2. text \in Seq(Symbol) /\ Valid(text)
    BY <1>1 DEF Inv, TypeOK, InventoryIsCurrent, Discoverable
<1>3. ASSUME NEW f \in Spliced(text, Rewriting(r))
      PROVE  /\ Rewriting(r)[f.path] \in Source /\ Rewriting(r)[f.path] \in Seq(Symbol)
             /\ IsCanonical(Rewriting(r)[f.path])
    <2>1. f \in Changed(text, Rewriting(r)) /\ f \in Fragments(text) /\ Rewriting(r)[f.path] # NoFile
        BY DEF Spliced, Changed
    <2>2. Rewriting(r)[f.path] = ReadFile(f.path) /\ ReadFile(f.path) # NoFile
        BY <2>1, CommandDecides
    <2>3. f.path \in Path
        BY <1>1, <2>1, CommandReads
    <2>4. file[f.path] # NoFile /\ ReadFile(f.path) = Canonicalize(file[f.path])
        BY <2>2 DEF ReadFile
    <2>5. file[f.path] \in Seq(Symbol) /\ Canonicalize(file[f.path]) \in Source
        BY <2>3, <2>4 DEF Inv, TypeOK, SourcesAreKnown
    <2>6. Canonicalize(file[f.path]) \in Seq(Symbol) /\ IsCanonical(Canonicalize(file[f.path]))
        BY <2>5, CanonicalizeMakes, SymbolsAre
    <2>7. QED
        BY <2>2, <2>4, <2>5, <2>6
<1>4. ASSUME NEW f \in Changed(text, Rewriting(r))
      PROVE  NewSource(Rewriting(r), f) \in Source
    <2>1. CASE f \in Spliced(text, Rewriting(r))
        BY <1>3, <2>1 DEF NewSource, Spliced
    <2>2. CASE f \notin Spliced(text, Rewriting(r))
        <3>1. Rewriting(r)[f.path] = NoFile /\ f \in Fragments(text)
            BY <1>4, <2>2 DEF Spliced, Changed
        <3>2. QED
            BY <1>1, <3>1, CommandReads DEF NewSource
    <2>3. QED
        BY <2>1, <2>2
<1>5. QED
    BY <1>2, <1>3, <1>4 DEF Updates

-----------------------------------------------------------------------------
(* What a command writes                                                   *)

(* The node becomes its rewriting, which is valid.                         *)
LEMMA CommandRewrites ==
    ASSUME Inv, NEW r \in Request, Command(r)
    PROVE  /\ Planned(r) /\ outcome = "running" /\ Updates(text, Rewriting(r))
           /\ text' = Rewrite(text, Rewriting(r)) /\ Valid(Rewrite(text, Rewriting(r)))
           /\ Selected(r) \subseteq Paths /\ DOMAIN Decisions(r) = Selected(r)
           /\ \A p \in Path :
                 file'[p] = IF p \in Selected(r) /\ Decisions(r)[p] = "extract"
                              THEN Canonicalize(FragmentOf(p).source) ELSE file[p]
           /\ joined' = (joined \/ \E p \in Selected(r) : Decisions(r)[p] = "embed" /\ Joins(p))
           /\ outcome' \in {"attention", "synchronized"} /\ request' = r /\ inventory' = {}
           /\ DOMAIN file' = Path
<1>1. Planned(r) /\ outcome = "running" /\ Selected(r) \subseteq Paths
    BY DEF Command, Planned
<1>2. Updates(text, Rewriting(r))
    BY <1>1, CommandUpdates
<1>3. DOMAIN Decisions(r) = Selected(r)
    BY DEF Classes, Decisions, Plan
<1>4. text' = Rewrite(text, Rewriting(r)) /\ Valid(Rewrite(text, Rewriting(r)))
    BY DEF Command, Rewriting, Acceptable
<1>5. file' = [p \in Path |-> IF p \in Selected(r) /\ Decisions(r)[p] = "extract"
                                THEN Canonicalize(FragmentOf(p).source) ELSE file[p]]
    BY <1>3 DEF Command
<1>6. joined' = (joined \/ \E p \in Selected(r) : Decisions(r)[p] = "embed" /\ Joins(p))
    BY <1>3 DEF Command
<1>7. outcome' \in {"attention", "synchronized"} /\ request' = r /\ inventory' = {}
    BY DEF Command, Forget
<1>8. QED
    BY <1>1, <1>2, <1>3, <1>4, <1>5, <1>6, <1>7

(* Unless it says so, a command joins no line breaks.                      *)
LEMMA NotJoined ==
    ASSUME Inv, NEW r \in Request, Command(r), ~joined'
    PROVE  \A f \in Fragments(text) : ~Joining(text, Rewriting(r), f)
<1>1. SUFFICES ASSUME NEW f \in Fragments(text), Joining(text, Rewriting(r), f) PROVE FALSE
    OBVIOUS
<1>2. Planned(r) /\ outcome = "running"
    BY CommandRewrites
<1>3. /\ f \in Changed(text, Rewriting(r)) /\ Rewriting(r)[f.path] # NoFile
      /\ text[f.first - 1] = CR /\ Rewriting(r)[f.path] # << >> /\ Rewriting(r)[f.path][1] = LF
    BY <1>1 DEF Joining, Spliced
<1>4. /\ f.path \in Selected(r) /\ Decisions(r)[f.path] = "embed"
      /\ Rewriting(r)[f.path] = ReadFile(f.path)
    BY <1>2, <1>3, CommandDecides
<1>5. FragmentOf(f.path) = f
    BY <1>2, CommandReads
<1>6. Joins(f.path)
    BY <1>3, <1>4, <1>5 DEF Joins
<1>7. QED
    BY <1>4, <1>6, CommandRewrites

(* Each fragment that is read back is the rewriting of one with its path.  *)
LEMMA ReadBack ==
    ASSUME Inv, NEW r \in Request, Command(r), NEW g \in Fragments(text')
    PROVE  \E f \in Fragments(text) :
              /\ f.path = g.path
              /\ g.source = IF Joining(text, Rewriting(r), f)
                              THEN SubSeq(Rewriting(r)[f.path], 2, Len(Rewriting(r)[f.path]))
                              ELSE NewText(text, Rewriting(r), f)
              /\ g.baseline = IF f \in Changed(text, Rewriting(r))
                                THEN Hash[NewSource(Rewriting(r), f)] ELSE f.baseline
<1> DEFINE u == Rewriting(r)
<1>1. /\ Updates(text, u) /\ text' = Rewrite(text, u) /\ Valid(Rewrite(text, u))
    BY CommandRewrites
<1> HIDE DEF u
<1>2. text \in Seq(Symbol) /\ Parses(text) /\ Parses(Rewrite(text, u))
    BY <1>1 DEF Updates, Valid
<1>3. PICK o, f : Framed(text, o, f) /\ g = FragmentFrom(Rewrite(text, u), Pos(text, u, o))
    BY <1>1, NoNewFragment
<1>4. f \in Fragments(text)
    BY <1>2, <1>3, FragmentsAreFramed
<1>5. g.path = f.path
    BY <1>1, <1>2, <1>3, StillFramed
<1>6. g.source = IF Joining(text, u, f) THEN SubSeq(u[f.path], 2, Len(u[f.path])) ELSE NewText(text, u, f)
    BY <1>1, <1>3, NewSourceIs
<1>7. g.baseline = IF f \in Changed(text, u) THEN Hash[NewSource(u, f)] ELSE f.baseline
    BY <1>1, <1>3, NewBaseline
<1>8. QED
    BY <1>4, <1>5, <1>6, <1>7 DEF u

(* What a command reads from the file of a fragment after it.              *)
LEMMA FileAfter ==
    ASSUME Inv, NEW r \in Request, Command(r), NEW f \in Fragments(text)
    PROVE  LET extracted == f.path \in Selected(r) /\ Decisions(r)[f.path] = "extract"
           IN  /\ extracted => /\ file'[f.path] = Canonicalize(f.source)
                               /\ file'[f.path] # NoFile
                               /\ ReadFile(f.path)' = Canonicalize(f.source)
               /\ ~extracted => /\ file'[f.path] = file[f.path]
                                /\ ReadFile(f.path)' = ReadFile(f.path)
<1>1. outcome = "running" /\ text \in Seq(Symbol) /\ Parses(text)
    BY CommandRewrites DEF Updates, Valid
<1>2. /\ f.path \in Path /\ FragmentOf(f.path) = f /\ Canonicalize(f.source) \in Source
    BY <1>1, CommandReads
<1>3. f.source \in Seq(Symbol)
    BY <1>1, FragmentTyped
<1>4. file'[f.path] = IF f.path \in Selected(r) /\ Decisions(r)[f.path] = "extract"
                        THEN Canonicalize(f.source) ELSE file[f.path]
    BY <1>2, CommandRewrites
<1>5. Canonicalize(f.source) \in Seq(Symbol) /\ IsCanonical(Canonicalize(f.source))
    BY <1>3, CanonicalizeMakes, SymbolsAre
<1>6. Canonicalize(Canonicalize(f.source)) = Canonicalize(f.source)
    BY <1>5, CanonicalizeKeeps, SymbolsAre
<1>7. Canonicalize(f.source) # NoFile
    BY <1>2, AbsenceAssumption
<1>8. QED
    BY <1>4, <1>6, <1>7 DEF ReadFile

(* Each fragment is as it was, or has the source of its file and its hash. *)
LEMMA FragmentWritten ==
    ASSUME Inv, NEW r \in Request, Command(r), ~joined',
           NEW f \in Fragments(text), NEW g \in Fragments(text'), f.path = g.path
    PROVE  LET changed == f \in Changed(text, Rewriting(r))
           IN  /\ ~changed => /\ g.source = f.source /\ g.baseline = f.baseline
                              /\ file'[f.path] = file[f.path] /\ ReadFile(f.path)' = ReadFile(f.path)
               /\ changed => /\ Canonicalize(g.source) \in Source
                             /\ g.baseline = Hash[Canonicalize(g.source)]
                             /\ ReadFile(f.path)' = Canonicalize(g.source)
<1> DEFINE u == Rewriting(r)
           d == Decisions(r)[f.path]
<1>1. /\ Planned(r) /\ outcome = "running" /\ Updates(text, u) /\ Unique(Fragments(text))
      /\ text \in Seq(Symbol) /\ Parses(text)
    BY CommandRewrites DEF Updates, Valid
<1>2. /\ g.source = NewText(text, u, f)
      /\ g.baseline = IF f \in Changed(text, u) THEN Hash[NewSource(u, f)] ELSE f.baseline
    <2>1. PICK e \in Fragments(text) :
              /\ e.path = g.path
              /\ g.source = IF Joining(text, u, e) THEN SubSeq(u[e.path], 2, Len(u[e.path]))
                                                  ELSE NewText(text, u, e)
              /\ g.baseline = IF e \in Changed(text, u) THEN Hash[NewSource(u, e)] ELSE e.baseline
        BY ReadBack
    <2>2. e = f
        BY <1>1, <2>1 DEF Unique
    <2>3. ~Joining(text, u, f)
        BY NotJoined
    <2> HIDE DEF u
    <2>4. QED
        BY <2>1, <2>2, <2>3
<1>3. Canonicalize(f.source) \in Source /\ f.path \in Path
    BY <1>1, CommandReads
<1>4. /\ f \in Changed(text, u) <=> f.path \in Selected(r) /\ d \in {"record", "extract", "embed"}
      /\ f \in Changed(text, u) => u[f.path] = IF d = "embed" THEN ReadFile(f.path) ELSE NoFile
      /\ f.path \in Selected(r) /\ d = "embed" => ReadFile(f.path) # NoFile
      /\ f.path \in Selected(r) /\ d = "record" => ReadFile(f.path) = Canonicalize(f.source)
    BY <1>1, CommandDecides
<1>5. /\ f.path \in Selected(r) /\ d = "extract" => ReadFile(f.path)' = Canonicalize(f.source)
      /\ ~(f.path \in Selected(r) /\ d = "extract") =>
            file'[f.path] = file[f.path] /\ ReadFile(f.path)' = ReadFile(f.path)
    BY FileAfter
<1> HIDE DEF u, d
<1>6. CASE f \notin Changed(text, u)
    <2>1. f \notin Spliced(text, u)
        BY <1>6 DEF Spliced
    <2>2. g.source = f.source /\ g.baseline = f.baseline
        BY <1>2, <1>6, <2>1 DEF NewText
    <2>3. ~(f.path \in Selected(r) /\ d = "extract")
        BY <1>4, <1>6
    <2>4. QED
        BY <1>5, <1>6, <2>2, <2>3 DEF u
<1>7. CASE f \in Changed(text, u) /\ d = "embed"
    <2>1. u[f.path] = ReadFile(f.path) /\ ReadFile(f.path) # NoFile /\ f.path \in Selected(r)
        BY <1>4, <1>7
    <2>2. f \in Spliced(text, u)
        BY <1>7, <2>1 DEF Spliced
    <2>3. g.source = ReadFile(f.path)
        BY <1>2, <2>1, <2>2 DEF NewText
    <2>4. NewSource(u, f) = ReadFile(f.path) /\ NewSource(u, f) \in Source
        BY <1>1, <1>7, <2>1 DEF NewSource, Updates
    <2>5. Canonicalize(g.source) = g.source
        <3>1. u[f.path] \in Seq(Symbol) /\ IsCanonical(u[f.path])
            BY <1>1, <2>2 DEF Updates
        <3>2. QED
            BY <2>1, <2>3, <3>1, CanonicalizeKeeps, SymbolsAre
    <2>6. ReadFile(f.path)' = ReadFile(f.path)
        BY <1>5, <1>7
    <2>7. QED
        BY <1>2, <1>7, <2>3, <2>4, <2>5, <2>6 DEF u
<1>8. CASE f \in Changed(text, u) /\ d # "embed"
    <2>1. u[f.path] = NoFile /\ f.path \in Selected(r) /\ d \in {"record", "extract"}
        BY <1>4, <1>8
    <2>2. f \notin Spliced(text, u)
        BY <2>1 DEF Spliced
    <2>3. g.source = f.source
        BY <1>2, <2>2 DEF NewText
    <2>4. NewSource(u, f) = Canonicalize(f.source)
        BY <2>1 DEF NewSource
    <2>5. ReadFile(f.path)' = Canonicalize(f.source)
        BY <1>4, <1>5, <2>1
    <2>6. QED
        BY <1>2, <1>3, <1>8, <2>3, <2>4, <2>5 DEF u
<1>9. QED
    BY <1>6, <1>7, <1>8

-----------------------------------------------------------------------------
(* The invariant is kept                                                   *)

(* Every text starts typed, with known sources.                            *)
LEMMA InitInv == Init => Inv
<1>1. SUFFICES ASSUME Init PROVE Inv
    OBVIOUS
<1>2. \A p \in Path :
          (file[p] \in Seq(Symbol) /\ Canonicalize(file[p]) \in Source) \/ file[p] = NoFile
    BY <1>1, TextsAssumption DEF Init
<1>3. request \in Request
    BY <1>1 DEF Init, Request, Operation
<1>4. TypeOK
    BY <1>1, <1>2, <1>3, TextsAssumption DEF Init, TypeOK
<1>5. SourcesAreKnown
    BY <1>1, <1>2, TextsAssumption DEF Init, SourcesAreKnown
<1>6. InventoryIsCurrent
    BY <1>1 DEF Init, InventoryIsCurrent
<1>7. QED
    BY <1>4, <1>5, <1>6 DEF Inv

(* What a command writes is typed.                                         *)
LEMMA CommandTyped ==
    ASSUME Inv, NEW r \in Request, Command(r)
    PROVE  TypeOK'
<1>1. Rewrite(text, Rewriting(r)) \in Seq(Symbol)
    BY CommandRewrites, RewritePiecesAre
<1>2. text' \in Seq(Symbol)
    BY <1>1, CommandRewrites
<1>3. ASSUME NEW p \in Path
      PROVE  file'[p] \in Seq(Symbol) \cup {NoFile}
    <2>1. CASE p \in Selected(r) /\ Decisions(r)[p] = "extract"
        <3>1. PICK f \in inventory : f.path = p
            BY <2>1, CommandRewrites DEF Paths
        <3>2. f \in Fragments(text) /\ outcome = "running"
            BY <3>1, CommandRewrites DEF Inv, InventoryIsCurrent
        <3>3. FragmentOf(p) = f /\ text \in Seq(Symbol) /\ Parses(text)
            BY <3>1, <3>2, CommandReads
        <3>4. f.source \in Seq(Symbol)
            BY <3>2, <3>3, FragmentTyped
        <3>5. Canonicalize(f.source) \in Seq(Symbol)
            BY <3>4, CanonicalizeMakes, SymbolsAre
        <3>6. QED
            BY <2>1, <3>3, <3>5, CommandRewrites
    <2>2. CASE ~(p \in Selected(r) /\ Decisions(r)[p] = "extract")
        BY <2>2, CommandRewrites DEF Inv, TypeOK
    <2>3. QED
        BY <2>1, <2>2
<1>4. joined' \in BOOLEAN
    BY CommandRewrites DEF Inv, TypeOK
<1>5. /\ inventory' = {} /\ request' \in Request /\ DOMAIN file' = Path
      /\ outcome' \in {"attention", "synchronized"}
    BY CommandRewrites
<1>6. QED
    BY <1>2, <1>3, <1>4, <1>5 DEF TypeOK

(* What a command writes has known sources, also after a join.             *)
LEMMA CommandKnown ==
    ASSUME Inv, NEW r \in Request, Command(r)
    PROVE  SourcesAreKnown'
<1>1. /\ Planned(r) /\ outcome = "running" /\ Updates(text, Rewriting(r))
    BY CommandRewrites
<1>2. text \in Seq(Symbol) /\ Parses(text)
    BY <1>1 DEF Updates, Valid
<1>3. ASSUME NEW g \in Fragments(text')
      PROVE  Canonicalize(g.source) \in Source
    <2> DEFINE u == Rewriting(r)
    <2>1. PICK f \in Fragments(text) :
              g.source = IF Joining(text, u, f) THEN SubSeq(u[f.path], 2, Len(u[f.path]))
                                                ELSE NewText(text, u, f)
        BY ReadBack
    <2> HIDE DEF u
    <2>2. CASE f \in Spliced(text, u)
        <3>1. u[f.path] \in Seq(Symbol) /\ IsCanonical(u[f.path])
            BY <1>1, <2>2 DEF Updates, u
        <3>2. u[f.path] \in Source
            <4>1. f \in Changed(text, u) /\ NewSource(u, f) = u[f.path]
                BY <2>2 DEF Spliced, NewSource
            <4>2. QED
                BY <1>1, <4>1 DEF Updates, u
        <3>3. CASE Joining(text, u, f)
            <4>1. u[f.path] # << >> /\ u[f.path][1] = LF
                BY <3>3 DEF Joining
            <4>2. g.source = SubSeq(u[f.path], 2, Len(u[f.path])) /\ g.source \in Source
                BY <2>1, <3>2, <3>3, <4>1, TextsAssumption
            <4>3. g.source \in Seq(Symbol) /\ IsCanonical(g.source)
                BY <3>1, <4>1, <4>2, RestIsCanonical
            <4>4. QED
                BY <4>2, <4>3, CanonicalizeKeeps, SymbolsAre
        <3>4. CASE ~Joining(text, u, f)
            <4>1. g.source = u[f.path]
                BY <2>1, <2>2, <3>4 DEF NewText
            <4>2. QED
                BY <3>1, <3>2, <4>1, CanonicalizeKeeps, SymbolsAre
        <3>5. QED
            BY <3>3, <3>4
    <2>3. CASE f \notin Spliced(text, u)
        <3>1. g.source = f.source
            BY <2>1, <2>3 DEF NewText, Joining
        <3>2. QED
            BY <1>2, <3>1 DEF Inv, SourcesAreKnown
    <2>4. QED
        BY <2>2, <2>3
<1>4. ASSUME NEW p \in Path, file'[p] # NoFile
      PROVE  Canonicalize(file'[p]) \in Source
    <2>1. CASE p \in Selected(r) /\ Decisions(r)[p] = "extract"
        <3>1. PICK f \in inventory : f.path = p
            BY <2>1, CommandRewrites DEF Paths
        <3>2. f \in Fragments(text)
            BY <1>1, <3>1 DEF Inv, InventoryIsCurrent
        <3>3. FragmentOf(p) = f /\ Canonicalize(f.source) \in Source
            BY <1>1, <3>1, <3>2, CommandReads
        <3>4. Canonicalize(f.source) \in Seq(Symbol) /\ IsCanonical(Canonicalize(f.source))
            BY <1>2, <3>2, FragmentTyped, CanonicalizeMakes, SymbolsAre
        <3>5. Canonicalize(Canonicalize(f.source)) = Canonicalize(f.source)
            BY <3>4, CanonicalizeKeeps, SymbolsAre
        <3>6. QED
            BY <2>1, <3>3, <3>5, CommandRewrites
    <2>2. CASE ~(p \in Selected(r) /\ Decisions(r)[p] = "extract")
        <3>1. file'[p] = file[p]
            BY <2>2, CommandRewrites
        <3>2. QED
            BY <1>4, <3>1 DEF Inv, SourcesAreKnown
    <2>3. QED
        BY <2>1, <2>2
<1>5. QED
    BY <1>3, <1>4 DEF SourcesAreKnown

(* Every step keeps the invariant.                                         *)
LEMMA NextInv == Inv /\ [Next]_vars => Inv'
<1>1. SUFFICES ASSUME Inv, [Next]_vars PROVE Inv'
    OBVIOUS
<1>2. CASE Discover
    <2>1. text' = text /\ file' = file /\ joined' = joined
        BY <1>2 DEF Discover
    <2>2. \/ inventory' = {} /\ outcome' = "failed"
          \/ Discoverable /\ inventory' = Fragments(text) /\ outcome' = "running"
        BY <1>2 DEF Discover
    <2>3. request' \in Request
        BY <1>2 DEF Discover, Request, Operation
    <2>4. TypeOK'
        BY <1>1, <2>1, <2>2, <2>3 DEF Inv, TypeOK
    <2>5. SourcesAreKnown'
        BY <1>1, <2>1 DEF Inv, SourcesAreKnown
    <2>6. InventoryIsCurrent'
        BY <2>1, <2>2 DEF InventoryIsCurrent, Discoverable
    <2>7. QED
        BY <2>4, <2>5, <2>6 DEF Inv
<1>3. ASSUME NEW r \in Request, Command(r)
      PROVE  Inv'
    <2>1. outcome' # "running"
        BY <1>1, <1>3, CommandRewrites
    <2>2. QED
        BY <1>1, <1>3, <2>1, CommandTyped, CommandKnown DEF Inv, InventoryIsCurrent
<1>4. ASSUME NEW r \in Request, RejectCommand(r)
      PROVE  Inv'
    <2>1. /\ text' = text /\ file' = file /\ joined' = joined /\ request' = request
          /\ inventory' = {} /\ outcome' = "failed"
        BY <1>4 DEF RejectCommand, Forget
    <2>2. QED
        BY <1>1, <2>1 DEF Inv, TypeOK, SourcesAreKnown, InventoryIsCurrent
<1>5. CASE UNCHANGED vars
    BY <1>1, <1>5 DEF vars, Inv, TypeOK, SourcesAreKnown, InventoryIsCurrent, Discoverable
<1>6. QED
    BY <1>1, <1>2, <1>3, <1>4, <1>5 DEF Next

(* The invariant holds.                                                    *)
LEMMA SpecInv == Spec => []Inv
<1>1. QED
    BY InitInv, NextInv, PTL DEF Spec

(* After a command without force the same command would do nothing.        *)
LEMMA CommandIsQuiet ==
    ASSUME Inv, NEW r \in Request, Command(r)
    PROVE  RerunIsQuiet'
<1>1. SUFFICES ASSUME ~joined', ~request'.operation.force
               PROVE  /\ Discoverable'
                      /\ \A g \in SelectedNow' :
                            PlanOne(request'.operation, Selection(request'), Class(g)')
                                \in {"settled", "unresolved"}
    BY DEF RerunIsQuiet
<1>2. /\ Planned(r) /\ outcome = "running" /\ request' = r /\ ~r.operation.force
      /\ text \in Seq(Symbol) /\ Parses(text) /\ Valid(text')
    BY <1>1, CommandRewrites DEF Updates, Valid
<1>3. ASSUME NEW g \in Fragments(text')
      PROVE  \E f \in Fragments(text) : f.path = g.path
    BY ReadBack
<1>4. ASSUME NEW g \in Fragments(text'), file'[g.path] # NoFile
      PROVE  ~BeginsWithMark(file'[g.path])
    <2>1. PICK f \in Fragments(text) : f.path = g.path
        BY <1>3
    <2>2. CASE f.path \in Selected(r) /\ Decisions(r)[f.path] = "extract"
        <3>1. f.source \in Seq(Symbol) /\ ~BeginsWithMark(f.source)
            BY <1>2, FragmentTyped
        <3>2. ~BeginsWithMark(Canonicalize(f.source))
            BY <3>1, NoMarkComes, SymbolsAre
        <3>3. QED
            BY <2>1, <2>2, <3>2, FileAfter
    <2>3. CASE ~(f.path \in Selected(r) /\ Decisions(r)[f.path] = "extract")
        <3>1. file'[g.path] = file[f.path]
            BY <2>1, <2>3, FileAfter
        <3>2. QED
            BY <1>2, <1>4, <2>1, <3>1 DEF Inv, InventoryIsCurrent, Discoverable
    <2>4. QED
        BY <2>2, <2>3
<1>5. Discoverable'
    BY <1>2, <1>4 DEF Discoverable
<1>6. ASSUME NEW g \in SelectedNow'
      PROVE  PlanOne(r.operation, Selection(r), Class(g)') \in {"settled", "unresolved"}
    <2>1. g \in Fragments(text') /\ (r.selectors = {} \/ g.path \in r.selectors)
        BY <1>2 DEF SelectedNow
    <2>2. PICK f \in Fragments(text) : f.path = g.path
        BY <1>3, <2>1
    <2>3. f.path \in Paths /\ Class(f) \in Classification
        BY <1>2, CommandReads
    <2>4. f.path \in Selected(r)
        BY <2>1, <2>2, <2>3 DEF Selected
    <2>5. Class(g)' = Classify(Canonicalize(g.source), g.baseline, ReadFile(f.path)')
        BY <2>2 DEF Class
    <2>6. CASE f \in Changed(text, Rewriting(r))
        <3>1. /\ Canonicalize(g.source) \in Source
              /\ g.baseline = Hash[Canonicalize(g.source)]
              /\ ReadFile(f.path)' = Canonicalize(g.source)
            BY <1>1, <2>1, <2>2, <2>6, FragmentWritten
        <3>2. g.baseline \in Digest /\ g.baseline # NoHash
            BY <3>1, HashAssumption, AbsenceAssumption
        <3>3. ASSUME NEW E \in Source, NEW H \in Digest, H # NoHash, Hash[E] = H
              PROVE  Classify(E, H, E) = "synchronized"
            <4>1. H \in Digest \cup {NoHash} /\ E \in Source \cup {NoFile}
                OBVIOUS
            <4>2. Classify(E, H, E) = "synchronized" <=> H # NoHash /\ E = E /\ Hash[E] = H
                BY <4>1, ClassifyRows
            <4>3. QED
                BY <3>3, <4>2
        <3>4. Class(g)' = "synchronized"
            <4>1. PICK E \in Source : E = Canonicalize(g.source)
                BY <3>1
            <4>2. PICK H \in Digest : H = g.baseline
                BY <3>2
            <4>3. ReadFile(f.path)' = E /\ H # NoHash /\ Hash[E] = H
                BY <3>1, <3>2, <4>1, <4>2
            <4>4. Class(g)' = Classify(E, H, E)
                BY <2>5, <4>1, <4>2, <4>3
            <4>5. QED
                BY <3>3, <4>3, <4>4
        <3>5. QED
            BY <3>4 DEF PlanOne
    <2>7. CASE f \notin Changed(text, Rewriting(r))
        <3>1. /\ g.source = f.source /\ g.baseline = f.baseline
              /\ ReadFile(f.path)' = ReadFile(f.path)
            BY <1>1, <2>1, <2>2, <2>7, FragmentWritten
        <3>2. Class(g)' = Class(f)
            BY <2>5, <3>1 DEF Class
        <3>3. /\ Decisions(r)[f.path] = PlanOne(r.operation, Selection(r), Class(f))
              /\ Decisions(r)[f.path] \notin {"record", "extract", "embed"}
            BY <1>2, <2>4, <2>7, CommandDecides
        <3>4. r.operation \in Operation /\ Selection(r) \in SelectionKind
            BY DEF Request, Selection, SelectionKind
        <3>5. PlanOne(r.operation, Selection(r), Class(f)) \in Decision
            BY <2>3, <3>4, PlanOneRows
        <3>6. QED
            BY <3>2, <3>3, <3>5 DEF Decision
    <2>8. QED
        BY <2>6, <2>7
<1>7. QED
    BY <1>2, <1>5, <1>6

-----------------------------------------------------------------------------
(* Theorems                                                                *)

(* Texts are sequences of symbols, and what a running command holds of the *)
(* document is what is in it.                                              *)
THEOREM NodeIsTyped == Spec => []TypeOK
<1>1. Inv => TypeOK
    BY DEF Inv
<1>2. QED
    BY <1>1, SpecInv, PTL

(* Canonicalization is the line form of every text that there ever is, and *)
(* applied again it changes nothing (fragment.rs, canonicalize_source).    *)
THEOREM CanonicalizationIsLineForm == Spec => []CanonicalIsLineForm
<1>1. Inv => CanonicalIsLineForm
    <2>1. ASSUME NEW t \in Seq(Symbol)
          PROVE  /\ Canonicalize(t) = LineForm(t)
                 /\ Canonicalize(Canonicalize(t)) = Canonicalize(t)
        <3>1. Canonicalize(t) = LineForm(t)
            BY LineFormIs, SymbolsAre
        <3>2. Canonicalize(t) \in Seq(Symbol) /\ IsCanonical(Canonicalize(t))
            BY CanonicalizeMakes, SymbolsAre
        <3>3. QED
            BY <3>1, <3>2, CanonicalizeKeeps, SymbolsAre
    <2>2. SUFFICES ASSUME Inv, NEW t \in {text} \cup {file[p] : p \in {q \in Path : file[q] # NoFile}}
                   PROVE  t \in Seq(Symbol)
        BY <2>1 DEF CanonicalIsLineForm
    <2>3. QED
        BY <2>2 DEF Inv, TypeOK
<1>2. QED
    BY <1>1, SpecInv, PTL

(* What is read back is what was written: a rewritten node has the same    *)
(* fragments in the same order, each as it was or with the source of its   *)
(* file and the hash of it (engine.rs, validate_prepared_document).        *)
THEOREM FragmentsReadBack == Spec => FragmentsAreAsWritten
<1> DEFINE A == text' # text /\ ~joined' =>
                  /\ Valid(text')
                  /\ InOrder(Fragments(text), Fragments(text'))
                  /\ \A f \in Fragments(text), g \in Fragments(text') :
                        f.path = g.path =>
                          \/ f.source = g.source /\ f.baseline = g.baseline
                          \/ /\ Canonicalize(g.source) = ReadFile(g.path)'
                             /\ g.baseline = Hash[ReadFile(g.path)']
<1>1. ASSUME Inv, [Next]_vars PROVE A
    <2>1. SUFFICES ASSUME text' # text, ~joined' PROVE A
        OBVIOUS
    <2>2. PICK r \in Request : Command(r)
        BY <1>1, <2>1 DEF Next, vars, Discover, RejectCommand
    <2>3. /\ Updates(text, Rewriting(r)) /\ Valid(Rewrite(text, Rewriting(r)))
          /\ text' = Rewrite(text, Rewriting(r))
        BY <1>1, <2>2, CommandRewrites
    <2>4. Valid(text') /\ InOrder(Fragments(text), Fragments(text'))
        BY <2>3, SameOrder
    <2>5. ASSUME NEW f \in Fragments(text), NEW g \in Fragments(text'), f.path = g.path
          PROVE  \/ f.source = g.source /\ f.baseline = g.baseline
                 \/ /\ Canonicalize(g.source) = ReadFile(g.path)'
                    /\ g.baseline = Hash[ReadFile(g.path)']
        <3>1. ReadFile(f.path)' = ReadFile(g.path)'
            BY <2>5
        <3>2. CASE f \in Changed(text, Rewriting(r))
            BY <1>1, <2>1, <2>2, <2>5, <3>1, <3>2, FragmentWritten
        <3>3. CASE f \notin Changed(text, Rewriting(r))
            BY <1>1, <2>1, <2>2, <2>5, <3>3, FragmentWritten
        <3>4. QED
            BY <3>2, <3>3
    <2>6. QED
        BY <2>4, <2>5
<1>2. Inv /\ [Next]_vars => [A]_vars
    <2> HIDE DEF A
    <2>1. QED
        BY <1>1
<1>3. Spec => [][A]_vars
    <2> HIDE DEF A
    <2>1. QED
        BY <1>2, SpecInv, PTL DEF Spec
<1>4. QED
    BY <1>3 DEF FragmentsAreAsWritten

(* All other text is preserved exactly (fragment.rs, rewrite).             *)
THEOREM OtherTextStays == Spec => OtherTextIsPreserved
<1> DEFINE A == text' # text /\ ~joined' => Skeleton(text') = Skeleton(text)
<1>1. ASSUME Inv, [Next]_vars PROVE A
    <2>1. SUFFICES ASSUME text' # text, ~joined' PROVE A
        OBVIOUS
    <2>2. PICK r \in Request : Command(r)
        BY <1>1, <2>1 DEF Next, vars, Discover, RejectCommand
    <2>3. /\ Updates(text, Rewriting(r)) /\ Valid(Rewrite(text, Rewriting(r)))
          /\ text' = Rewrite(text, Rewriting(r))
        BY <1>1, <2>2, CommandRewrites
    <2>4. \A f \in Fragments(text) : ~Joining(text, Rewriting(r), f)
        BY <1>1, <2>1, <2>2, NotJoined
    <2>5. QED
        BY <2>3, <2>4, SkeletonKept
<1>2. Inv /\ [Next]_vars => [A]_vars
    <2> HIDE DEF A
    <2>1. QED
        BY <1>1
<1>3. Spec => [][A]_vars
    <2> HIDE DEF A
    <2>1. QED
        BY <1>2, SpecInv, PTL DEF Spec
<1>4. QED
    BY <1>3 DEF OtherTextIsPreserved

(* A rerun is quiet, whatever line breaks and marker lines the texts       *)
(* contain, unless line breaks were joined (engine.rs, mutate_with_access). *)
THEOREM RerunStaysQuiet == Spec => []RerunIsQuiet
<1>1. Init => RerunIsQuiet
    BY DEF Init, RerunIsQuiet, Completed
<1>2. Inv /\ RerunIsQuiet /\ [Next]_vars => RerunIsQuiet'
    <2>1. SUFFICES ASSUME Inv, RerunIsQuiet, [Next]_vars PROVE RerunIsQuiet'
        OBVIOUS
    <2>2. CASE Discover
        <3>1. outcome' \in {"running", "failed"}
            BY <2>2 DEF Discover
        <3>2. QED
            BY <3>1 DEF RerunIsQuiet, Completed
    <2>3. ASSUME NEW r \in Request, RejectCommand(r) PROVE RerunIsQuiet'
        BY <2>3 DEF RejectCommand, RerunIsQuiet, Completed
    <2>4. ASSUME NEW r \in Request, Command(r) PROVE RerunIsQuiet'
        BY <2>1, <2>4, CommandIsQuiet
    <2>5. CASE UNCHANGED vars
        BY <2>1, <2>5 DEF vars, RerunIsQuiet, Completed, Discoverable, SelectedNow, Class, ReadFile
    <2>6. QED
        BY <2>1, <2>2, <2>3, <2>4, <2>5 DEF Next
<1>3. QED
    BY <1>1, <1>2, SpecInv, PTL DEF Spec
=============================================================================
