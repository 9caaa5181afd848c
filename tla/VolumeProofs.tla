----------------------------- MODULE VolumeProofs -----------------------------
(***************************************************************************)
(* Theorems about commits on directory trees of any size, with any links   *)
(* and any names.                                                          *)
(***************************************************************************)
EXTENDS Volume, SequenceTheorems, WellFoundedInduction, NaturalsInduction, TLAPS

-----------------------------------------------------------------------------
(* Induction over the first numbers                                        *)

(* A set of numbers that is not empty has a least one.                     *)
LEMMA LeastExists ==
    ASSUME NEW S \in SUBSET Nat, S # {}
    PROVE  \E m \in S : \A s \in S : m <= s
<1>1. PICK m \in S : \A s \in S : ~(<<s, m>> \in OpToRel(<, Nat))
    BY NatLessThanWellFounded, WFMin
<1>2. ASSUME NEW s \in S
      PROVE  m <= s
    <2>1. s < m => <<s, m>> \in OpToRel(<, Nat)
        BY DEF OpToRel
    <2>2. ~(s < m) /\ s \in Nat /\ m \in Nat
        BY <1>1, <2>1
    <2>3. QED
        BY <2>2
<1>3. QED
    BY <1>2

(* Induction over the first numbers, for a set of them.                    *)
LEMMA UpTo ==
    ASSUME NEW N \in Nat, NEW T, 0 \in T,
           \A n \in Nat : n \in T /\ n < N => n + 1 \in T
    PROVE  \A n \in 0 .. N : n \in T
<1> DEFINE missing == {n \in 0 .. N : n \notin T}
<1>1. SUFFICES ASSUME missing # {} PROVE FALSE
    OBVIOUS
<1>2. missing \in SUBSET Nat
    OBVIOUS
<1>3. PICK m \in missing : \A s \in missing : m <= s
    BY <1>1, <1>2, LeastExists
<1>4. m \in Nat /\ m <= N /\ m \notin T /\ m # 0
    BY <1>3
<1>5. m - 1 \in Nat /\ m - 1 < N /\ (m - 1) + 1 = m
    BY <1>4
<1>6. m - 1 \notin T
    BY <1>4, <1>5
<1>7. m - 1 \in missing
    BY <1>5, <1>6
<1>8. ~(m <= m - 1)
    BY <1>4
<1>9. QED
    BY <1>3, <1>7, <1>8

-----------------------------------------------------------------------------
(* Sequences of names                                                      *)

(* Front and Last take a sequence apart.                                   *)
LEMMA FrontLast ==
    ASSUME NEW S, NEW s \in Seq(S), s # << >>
    PROVE  /\ Front(s) \in Seq(S) /\ Last(s) \in S
           /\ Len(s) \in Nat \ {0} /\ Len(Front(s)) = Len(s) - 1
           /\ \A i \in 1 .. Len(s) - 1 : Front(s)[i] = s[i]
           /\ Last(s) = s[Len(s)]
           /\ s = Append(Front(s), Last(s))
<1>1. Len(s) \in Nat \ {0} /\ \A i \in 1 .. Len(s) : s[i] \in S
    BY EmptySeq, ElementOfSeq, LenProperties
<1>2. Last(s) \in S /\ Last(s) = s[Len(s)]
    BY <1>1 DEF Last
<1>3. /\ Front(s) \in Seq(S) /\ Len(Front(s)) = Len(s) - 1
      /\ \A i \in 1 .. Len(s) - 1 : Front(s)[i] = s[i]
    <2>p. PICK l \in Nat \ {0} : l = Len(s)
        BY <1>1
    <2> DEFINE n == l - 1
    <2>0. /\ n \in Nat /\ (1 <= n \/ n = 0)
          /\ \A i \in 1 .. n : i \in 1 .. l
        OBVIOUS
    <2>1. n \in Nat /\ (1 <= n \/ n = 0) /\ \A i \in 1 .. n : s[i] \in S
        BY <1>1, <2>0, <2>p
    <2> HIDE DEF n
    <2>2. /\ SubSeq(s, 1, n) \in Seq(S)
          /\ Len(SubSeq(s, 1, n)) = IF 1 <= n THEN n - 1 + 1 ELSE 0
          /\ \A i \in 1 .. n - 1 + 1 : SubSeq(s, 1, n)[i] = s[1 + i - 1]
        BY <2>1, SubSeqProperties
    <2>3. /\ Len(SubSeq(s, 1, n)) = n
          /\ \A i \in 1 .. n : SubSeq(s, 1, n)[i] = s[i]
        BY <2>1, <2>2
    <2>4. QED
        BY <2>2, <2>3, <2>p DEF Front, n
<1> DEFINE t == Append(Front(s), Last(s))
<1>4. /\ t \in Seq(S) /\ Len(t) = Len(s)
      /\ \A i \in 1 .. Len(s) - 1 : t[i] = s[i]
      /\ t[Len(s)] = s[Len(s)]
    BY <1>1, <1>2, <1>3, AppendProperties
<1>5. \A i \in 1 .. Len(s) : t[i] = s[i]
    BY <1>1, <1>4
<1> HIDE DEF t
<1>6. t = s
    BY <1>4, <1>5, SeqEqual
<1>7. QED
    BY <1>1, <1>2, <1>3, <1>6 DEF t

(* ... and are put together from it.                                       *)
LEMMA FrontOfAppend ==
    ASSUME NEW S, NEW s \in Seq(S), NEW e \in S
    PROVE  /\ Append(s, e) \in Seq(S) /\ Append(s, e) # << >>
           /\ Front(Append(s, e)) = s /\ Last(Append(s, e)) = e
<1> DEFINE t == Append(s, e)
<1>1. t \in Seq(S) /\ t # << >>
    BY AppendProperties
<1>2. Front(t) \in Seq(S) /\ Last(t) \in S /\ t = Append(Front(t), Last(t))
    BY <1>1, FrontLast
<1>3. QED
    BY <1>1, <1>2, AppendInjective

-----------------------------------------------------------------------------
(* Steps of a walk                                                         *)

\* The steps that a walk can be at.
At(at, todo, status) == [at |-> at, todo |-> todo, status |-> status]
Start(path) == At(<< >>, path, "walking")
Statuses == {"walking", "file", "missing", "escape", "not a directory"}
Step == [at : Location, todo : Seq(Name), status : Statuses]

\* The source root itself is a directory that has no entry.
IsDirectory(t, l) == l = << >> \/ (l \in DOMAIN t /\ t[l].kind = "directory")
IsFile(t, l) == l \in DOMAIN t /\ t[l].kind = "file"

(* A walk under way stands in a directory; one that found a file is there. *)
Stands(t, walk) ==
    /\ walk.status = "walking" => IsDirectory(t, walk.at)
    /\ walk.status = "file" => IsFile(t, walk.at) /\ walk.todo = << >>

(* A walk is its three fields, however it was made.                        *)
LEMMA StepIsItsFields ==
    ASSUME NEW walk \in Step
    PROVE  /\ walk.at \in Location /\ walk.todo \in Seq(Name) /\ walk.status \in Statuses
           /\ walk = At(walk.at, walk.todo, walk.status)
    BY DEF At, Step

(* A step is made of its fields.                                           *)
LEMMA AtIsStep ==
    ASSUME NEW a \in Location, NEW r \in Seq(Name), NEW s \in Statuses
    PROVE  /\ At(a, r, s) \in Step
           /\ At(a, r, s).at = a /\ At(a, r, s).todo = r /\ At(a, r, s).status = s
    BY DEF At, Step

(* Replacing fields.                                                       *)
LEMMA StatusReplaced ==
    ASSUME NEW walk \in Step, NEW s \in Statuses
    PROVE  [walk EXCEPT !.status = s] = At(walk.at, walk.todo, s)
<1> DEFINE v == [walk EXCEPT !.status = s]
<1>1. v \in Step
    BY DEF Step
<1>2. v.at = walk.at /\ v.todo = walk.todo /\ v.status = s
    BY DEF Step
<1> HIDE DEF v
<1>3. QED
    BY <1>1, <1>2, StepIsItsFields DEF v

(* Replacing the rest of the way.                                          *)
LEMMA TodoReplaced ==
    ASSUME NEW walk \in Step, NEW r \in Seq(Name)
    PROVE  [walk EXCEPT !.todo = r] = At(walk.at, r, walk.status)
<1> DEFINE v == [walk EXCEPT !.todo = r]
<1>1. v \in Step
    BY DEF Step
<1>2. v.at = walk.at /\ v.todo = r /\ v.status = walk.status
    BY DEF Step
<1> HIDE DEF v
<1>3. QED
    BY <1>1, <1>2, StepIsItsFields DEF v

(* Replacing the place and the rest of the way.                            *)
LEMMA PlaceReplaced ==
    ASSUME NEW walk \in Step, NEW a \in Location, NEW r \in Seq(Name)
    PROVE  [walk EXCEPT !.at = a, !.todo = r] = At(a, r, walk.status)
<1> DEFINE v == [walk EXCEPT !.at = a, !.todo = r]
<1>1. v \in Step
    BY DEF Step
<1>2. v.at = a /\ v.todo = r /\ v.status = walk.status
    BY DEF Step
<1> HIDE DEF v
<1>3. QED
    BY <1>1, <1>2, StepIsItsFields DEF v

(* The cases of a step, without EXCEPT.                                    *)
LEMMA AdvanceByCase ==
    ASSUME NEW t, IsTree(t), NEW walk \in Step
    PROVE  LET name == Head(walk.todo)
               rest == Tail(walk.todo)
               place == Append(walk.at, Fold[name])
           IN  /\ walk.status # "walking" \/ walk.todo = << >> => Advance(t, walk) = walk
               /\ walk.status = "walking" /\ walk.todo # << >> =>
                    /\ name \in Name /\ rest \in Seq(Name)
                    /\ name = ".." /\ walk.at = << >> =>
                          Advance(t, walk) = At(walk.at, walk.todo, "escape")
                    /\ name = ".." /\ walk.at # << >> =>
                          Advance(t, walk) = At(Front(walk.at), rest, "walking")
                    /\ name # ".." /\ place \notin DOMAIN t =>
                          Advance(t, walk) = At(walk.at, walk.todo, "missing")
                    /\ name # ".." /\ place \in DOMAIN t =>
                          /\ place \in Location
                          /\ t[place].kind \in {"directory", "link", "file"}
                          /\ t[place].kind = "directory" =>
                                Advance(t, walk) = At(place, rest, "walking")
                          /\ t[place].kind = "link" =>
                                /\ t[place].target \in Seq(Name)
                                /\ t[place].target \o rest \in Seq(Name)
                                /\ Advance(t, walk) = At(walk.at, t[place].target \o rest, "walking")
                          /\ t[place].kind = "file" /\ rest = << >> =>
                                Advance(t, walk) = At(place, rest, "file")
                          /\ t[place].kind = "file" /\ rest # << >> =>
                                Advance(t, walk) = At(walk.at, walk.todo, "not a directory")
<1> DEFINE name == Head(walk.todo)
           rest == Tail(walk.todo)
           place == Append(walk.at, Fold[name])
<1>1. walk.at \in Location /\ walk.todo \in Seq(Name)
    BY StepIsItsFields
<1>2. walk.status # "walking" \/ walk.todo = << >> => Advance(t, walk) = walk
    BY DEF Advance
<1>3. ASSUME walk.status = "walking", walk.todo # << >>
      PROVE  name \in Name /\ rest \in Seq(Name)
    BY <1>1, <1>3, HeadTailProperties
<1>4. ASSUME walk.status = "walking", walk.todo # << >>, name = ".."
      PROVE  /\ walk.at = << >> => Advance(t, walk) = At(walk.at, walk.todo, "escape")
             /\ walk.at # << >> => Advance(t, walk) = At(Front(walk.at), rest, "walking")
    <2>1. [walk EXCEPT !.status = "escape"] = At(walk.at, walk.todo, "escape")
        BY <1>1, StatusReplaced DEF Statuses
    <2>2. ASSUME walk.at # << >>
          PROVE  [walk EXCEPT !.at = Front(walk.at), !.todo = rest] = At(Front(walk.at), rest, "walking")
        <3>1. Front(walk.at) \in Location
            BY <1>1, <2>2, FrontLast DEF Location
        <3>2. QED
            BY <1>3, <1>4, <3>1, PlaceReplaced DEF Statuses
    <2>3. QED
        BY <1>4, <2>1, <2>2 DEF Advance
<1>5. ASSUME walk.status = "walking", walk.todo # << >>, name # "..", place \notin DOMAIN t
      PROVE  Advance(t, walk) = At(walk.at, walk.todo, "missing")
    <2>1. [walk EXCEPT !.status = "missing"] = At(walk.at, walk.todo, "missing")
        BY <1>1, StatusReplaced DEF Statuses
    <2>2. QED
        BY <1>5, <2>1 DEF Advance
<1>6. ASSUME walk.status = "walking", walk.todo # << >>, name # "..", place \in DOMAIN t
      PROVE  /\ place \in Location
             /\ t[place].kind \in {"directory", "link", "file"}
             /\ t[place].kind = "directory" =>
                   Advance(t, walk) = At(place, rest, "walking")
             /\ t[place].kind = "link" =>
                   /\ t[place].target \in Seq(Name)
                   /\ t[place].target \o rest \in Seq(Name)
                   /\ Advance(t, walk) = At(walk.at, t[place].target \o rest, "walking")
             /\ t[place].kind = "file" /\ rest = << >> =>
                   Advance(t, walk) = At(place, rest, "file")
             /\ t[place].kind = "file" /\ rest # << >> =>
                   Advance(t, walk) = At(walk.at, walk.todo, "not a directory")
    <2>1. IsEntry(t, place)
        BY <1>6 DEF IsTree
    <2>2. place \in Location /\ t[place].kind \in {"directory", "link", "file"}
        BY <2>1 DEF IsEntry
    <2>3. rest \in Seq(Name)
        BY <1>3, <1>6
    <2>4. CASE t[place].kind = "directory"
        <3>1. [walk EXCEPT !.at = place, !.todo = rest] = At(place, rest, "walking")
            BY <1>6, <2>2, <2>3, PlaceReplaced DEF Statuses
        <3>2. Advance(t, walk) = [walk EXCEPT !.at = place, !.todo = rest]
            BY <1>6, <2>4 DEF Advance
        <3>3. QED
            BY <2>2, <2>4, <3>1, <3>2
    <2>5. CASE t[place].kind = "link"
        <3>1. t[place].target \in Seq(Name)
            BY <2>1, <2>5 DEF IsEntry
        <3>2. t[place].target \o rest \in Seq(Name)
            BY <2>3, <3>1, ConcatProperties
        <3>3. [walk EXCEPT !.todo = t[place].target \o rest]
                 = At(walk.at, t[place].target \o rest, "walking")
            BY <1>6, <2>2, <3>2, TodoReplaced DEF Statuses
        <3>4. Advance(t, walk) = [walk EXCEPT !.todo = t[place].target \o rest]
            BY <1>6, <2>5 DEF Advance
        <3>5. QED
            BY <2>2, <2>5, <3>1, <3>2, <3>3, <3>4
    <2>6. CASE t[place].kind = "file" /\ rest = << >>
        <3>1. [walk EXCEPT !.at = place, !.todo = rest, !.status = "file"] = At(place, rest, "file")
            <4> HIDE DEF place, rest
            <4> DEFINE v == [walk EXCEPT !.at = place, !.todo = rest, !.status = "file"]
            <4>1. v \in Step
                BY <2>2, <2>3 DEF Step, Statuses
            <4>2. v.at = place /\ v.todo = rest /\ v.status = "file"
                BY <2>2, <2>3 DEF Step
            <4> HIDE DEF v
            <4>3. QED
                BY <4>1, <4>2, StepIsItsFields DEF v
        <3>2. Advance(t, walk) = [walk EXCEPT !.at = place, !.todo = rest, !.status = "file"]
            BY <1>6, <2>6 DEF Advance
        <3>3. QED
            BY <2>2, <2>6, <3>1, <3>2
    <2>7. CASE t[place].kind = "file" /\ rest # << >>
        <3>1. [walk EXCEPT !.status = "not a directory"] = At(walk.at, walk.todo, "not a directory")
            BY <1>1, StatusReplaced DEF Statuses
        <3>2. Advance(t, walk) = [walk EXCEPT !.status = "not a directory"]
            BY <1>6, <2>7 DEF Advance
        <3>3. QED
            BY <2>2, <2>7, <3>1, <3>2
    <2>8. QED
        BY <2>2, <2>4, <2>5, <2>6, <2>7
<1>7. QED
    BY <1>2, <1>3, <1>4, <1>5, <1>6

(* What a step leads to is a walk again, and stands where it should.       *)
LEMMA AdvanceKeeps ==
    ASSUME NEW t, IsTree(t), NEW walk \in Step, Stands(t, walk)
    PROVE  Advance(t, walk) \in Step /\ Stands(t, Advance(t, walk))
<1> DEFINE name == Head(walk.todo)
           rest == Tail(walk.todo)
           place == Append(walk.at, Fold[name])
           next == Advance(t, walk)
<1>1. CASE walk.status # "walking" \/ walk.todo = << >>
    BY <1>1, AdvanceByCase
<1>2. ASSUME walk.status = "walking", walk.todo # << >>
      PROVE  next \in Step /\ Stands(t, next)
    <2>1. /\ walk.at \in Location /\ walk.todo \in Seq(Name)
          /\ name \in Name /\ rest \in Seq(Name) /\ IsDirectory(t, walk.at)
        BY <1>2, StepIsItsFields, AdvanceByCase DEF Stands
    <2>2. ASSUME NEW a \in Location, NEW r \in Seq(Name), NEW s \in Statuses,
                 next = At(a, r, s),
                 s = "walking" => IsDirectory(t, a),
                 s = "file" => IsFile(t, a) /\ r = << >>
          PROVE  next \in Step /\ Stands(t, next)
        <3> HIDE DEF next
        <3> QED
            BY <2>2, AtIsStep DEF Stands
    <2>3. CASE name = ".." /\ walk.at = << >>
        <3>1. next = At(walk.at, walk.todo, "escape")
            BY <1>2, <2>3, AdvanceByCase
        <3>2. QED
            BY <2>1, <2>2, <3>1 DEF Statuses
    <2>4. CASE name = ".." /\ walk.at # << >>
        <3>1. next = At(Front(walk.at), rest, "walking")
            BY <1>2, <2>4, AdvanceByCase
        <3>2. walk.at \in DOMAIN t
            BY <2>1, <2>4 DEF IsDirectory
        <3>3. IsDirectory(t, Front(walk.at))
            BY <3>2 DEF IsTree, IsEntry, IsDirectory
        <3>4. Front(walk.at) \in Location
            BY <2>1, <2>4, FrontLast DEF Location
        <3>5. QED
            BY <2>1, <2>2, <3>1, <3>3, <3>4 DEF Statuses
    <2>5. CASE name # ".." /\ place \notin DOMAIN t
        <3>1. next = At(walk.at, walk.todo, "missing")
            BY <1>2, <2>5, AdvanceByCase
        <3>2. QED
            BY <2>1, <2>2, <3>1 DEF Statuses
    <2>6. CASE name # ".." /\ place \in DOMAIN t
        <3>1. place \in Location /\ t[place].kind \in {"directory", "link", "file"}
            BY <1>2, <2>6, AdvanceByCase
        <3>2. CASE t[place].kind = "directory"
            <4>1. next = At(place, rest, "walking")
                BY <1>2, <2>6, <3>2, AdvanceByCase
            <4>2. IsDirectory(t, place)
                BY <2>6, <3>2 DEF IsDirectory
            <4>3. QED
                BY <2>1, <2>2, <3>1, <4>1, <4>2 DEF Statuses
        <3>3. CASE t[place].kind = "link"
            <4>1. /\ next = At(walk.at, t[place].target \o rest, "walking")
                  /\ t[place].target \o rest \in Seq(Name)
                BY <1>2, <2>6, <3>3, AdvanceByCase
            <4>2. QED
                BY <2>1, <2>2, <4>1 DEF Statuses
        <3>4. CASE t[place].kind = "file" /\ rest = << >>
            <4>1. next = At(place, rest, "file")
                BY <1>2, <2>6, <3>4, AdvanceByCase
            <4>2. IsFile(t, place)
                BY <2>6, <3>4 DEF IsFile
            <4>3. QED
                BY <2>1, <2>2, <3>1, <3>4, <4>1, <4>2 DEF Statuses
        <3>5. CASE t[place].kind = "file" /\ rest # << >>
            <4>1. next = At(walk.at, walk.todo, "not a directory")
                BY <1>2, <2>6, <3>5, AdvanceByCase
            <4>2. QED
                BY <2>1, <2>2, <4>1 DEF Statuses
        <3>6. QED
            BY <3>1, <3>2, <3>3, <3>4, <3>5
    <2>7. QED
        BY <2>3, <2>4, <2>5, <2>6
<1>3. QED
    BY <1>1, <1>2

(* The steps of a path are what their equation says.                       *)
LEMMA StepsAre ==
    ASSUME NEW t, NEW path, Patience(path) \in Nat
    PROVE  /\ Steps(t, path)[0] = Start(path)
           /\ \A n \in 1 .. Patience(path) :
                 Steps(t, path)[n] = Advance(t, Steps(t, path)[n - 1])
<1> DEFINE N == Patience(path)
           Is(g, m) == g = [n \in 0 .. m |-> IF n = 0 THEN Start(path) ELSE Advance(t, g[n - 1])]
           T == {m \in 0 .. N : \E g : Is(g, m)}
<1> HIDE DEF N
<1>1. N \in Nat
    BY DEF N
<1>2. 0 \in T
    <2> DEFINE g == [n \in 0 .. 0 |-> Start(path)]
    <2>1. Is(g, 0)
        OBVIOUS
    <2> HIDE DEF g, Is
    <2>2. QED
        BY <1>1, <2>1
<1>3. ASSUME NEW m \in Nat, m \in T, m < N
      PROVE  m + 1 \in T
    <2>1. PICK g : Is(g, m)
        BY <1>3
    <2> DEFINE h == [n \in 0 .. m + 1 |-> IF n = m + 1 THEN Advance(t, g[m]) ELSE g[n]]
    <2>2. ASSUME NEW n \in 0 .. m + 1
          PROVE  h[n] = IF n = 0 THEN Start(path) ELSE Advance(t, h[n - 1])
        <3>1. CASE n = m + 1
            <4>1. h[n] = Advance(t, g[m]) /\ n # 0 /\ n - 1 = m /\ m \in 0 .. m + 1 /\ m # m + 1
                BY <3>1
            <4>2. h[m] = g[m]
                BY <4>1
            <4>3. QED
                BY <4>1, <4>2
        <3>2. CASE n # m + 1
            <4>1. n \in 0 .. m /\ h[n] = g[n]
                BY <3>2
            <4>2. g[n] = IF n = 0 THEN Start(path) ELSE Advance(t, g[n - 1])
                BY <2>1, <4>1
            <4>3. n # 0 => n - 1 \in 0 .. m + 1 /\ n - 1 # m + 1
                BY <4>1
            <4>4. n # 0 => h[n - 1] = g[n - 1]
                BY <4>3
            <4>5. QED
                BY <4>1, <4>2, <4>4
        <3>3. QED
            BY <3>1, <3>2
    <2>3. h = [n \in 0 .. m + 1 |-> IF n = 0 THEN Start(path) ELSE Advance(t, h[n - 1])]
        <3>1. h = [n \in 0 .. m + 1 |-> h[n]]
            OBVIOUS
        <3> HIDE DEF h
        <3>2. [n \in 0 .. m + 1 |-> h[n]]
                = [n \in 0 .. m + 1 |-> IF n = 0 THEN Start(path) ELSE Advance(t, h[n - 1])]
            BY <2>2
        <3>3. QED
            BY <3>1, <3>2
    <2> HIDE DEF h
    <2>4. Is(h, m + 1)
        BY <2>3
    <2>5. m + 1 \in 0 .. N
        BY <1>1, <1>3
    <2>6. QED
        BY <2>4, <2>5
<1>4. N \in T
    <2> HIDE DEF T
    <2>1. \A n \in 0 .. N : n \in T
        BY <1>1, <1>2, <1>3, UpTo
    <2>2. QED
        BY <1>1, <2>1
<1>5. PICK g : Is(g, N)
    BY <1>4
<1>6. Steps(t, path) = CHOOSE g_1 : Is(g_1, N)
    BY DEF Steps, Start, At, N
<1> DEFINE w == Steps(t, path)
<1>7. Is(w, N)
    <2> HIDE DEF Is
    <2>1. QED
        BY <1>5, <1>6
<1>8. /\ 0 \in 0 .. N /\ \A n \in 1 .. N : n \in 0 .. N /\ n # 0
    BY <1>1
<1>9. w[0] = Start(path) /\ \A n \in 1 .. N : w[n] = Advance(t, w[n - 1])
    <2> HIDE DEF w
    <2>1. w = [n \in 0 .. N |-> IF n = 0 THEN Start(path) ELSE Advance(t, w[n - 1])]
        BY <1>7
    <2>2. QED
        BY <1>8, <2>1
<1>10. QED
    BY <1>9 DEF N

(* Every step of a path is a walk that stands where it should.             *)
LEMMA StepsStand ==
    ASSUME NEW t, IsTree(t), NEW path \in Seq(Name)
    PROVE  /\ Len(path) \in Nat /\ Patience(path) \in Nat /\ Patience(path) >= Len(path)
           /\ Steps(t, path)[0] = Start(path)
           /\ \A n \in 1 .. Patience(path) :
                 Steps(t, path)[n] = Advance(t, Steps(t, path)[n - 1])
           /\ \A n \in 0 .. Patience(path) :
                 Steps(t, path)[n] \in Step /\ Stands(t, Steps(t, path)[n])
<1> DEFINE N == Patience(path)
           w == Steps(t, path)
           T == {n \in 0 .. N : w[n] \in Step /\ Stands(t, w[n])}
<1>1. Len(path) \in Nat /\ N \in Nat /\ N >= Len(path)
    <2>1. PICK l \in Nat : l = Len(path)
        BY LenProperties
    <2>2. N = MaxSteps + l
        BY <2>1 DEF Patience
    <2>3. QED
        BY <2>1, <2>2, MaxStepsAssumption
<1>2. w[0] = Start(path) /\ \A n \in 1 .. N : w[n] = Advance(t, w[n - 1])
    BY <1>1, StepsAre
<1> HIDE DEF N, w
<1>3. 0 \in T
    <2>1. << >> \in Location /\ "walking" \in Statuses
        BY EmptySeq DEF Location, Statuses
    <2>2. /\ w[0] \in Step /\ w[0].at = << >> /\ w[0].status = "walking"
        BY <1>2, <2>1, AtIsStep DEF Start
    <2>3. QED
        BY <1>1, <2>2 DEF Stands, IsDirectory
<1>4. ASSUME NEW n \in Nat, n \in T, n < N
      PROVE  n + 1 \in T
    <2>1. n + 1 \in 0 .. N /\ n + 1 \in 1 .. N /\ (n + 1) - 1 = n
        BY <1>1, <1>4
    <2>2. w[n + 1] = Advance(t, w[n])
        BY <1>2, <2>1
    <2>3. QED
        BY <1>4, <2>1, <2>2, AdvanceKeeps
<1>5. \A n \in 0 .. N : n \in T
    <2> HIDE DEF T
    <2>1. QED
        BY <1>1, <1>3, <1>4, UpTo
<1>6. QED
    BY <1>1, <1>2, <1>5 DEF N, w

(* What a status says of the place where the walk ended.                   *)
LEMMA WalkEnds ==
    ASSUME NEW t, IsTree(t), NEW path \in Seq(Name)
    PROVE  LET last == Steps(t, path)[Patience(path)]
           IN  /\ Walk(t, path).at = last.at /\ last.at \in Location
               /\ Walk(t, path).todo = last.todo
               /\ Status(t, path) = "file" =>
                     last.status = "file" /\ IsFile(t, last.at)
               /\ Status(t, path) = "directory" =>
                     /\ last.status = "walking" /\ last.todo = << >>
                     /\ IsDirectory(t, last.at)
               /\ last.status = "walking" /\ last.todo = << >> => Status(t, path) = "directory"
               /\ last.status # "walking" => Status(t, path) = last.status
               /\ Status(t, path) = "missing" => last.status = "missing"
<1> DEFINE last == Steps(t, path)[Patience(path)]
<1>1. last \in Step /\ Stands(t, last)
    BY StepsStand
<1> HIDE DEF last
<1>2. CASE last.status # "walking"
    <2>1. Walk(t, path) = last
        BY <1>2 DEF Walk, last
    <2>2. last.status \in Statuses /\ last.status # "directory"
        BY <1>1, StepIsItsFields DEF Statuses
    <2>3. QED
        BY <1>1, <1>2, <2>1, <2>2, StepIsItsFields DEF Status, Stands, last
<1>3. CASE last.status = "walking"
    <2> DEFINE s == IF last.todo = << >> THEN "directory" ELSE "loop"
    <2>1. Walk(t, path) = [last EXCEPT !.status = s]
        BY <1>3 DEF Walk, last
    <2> HIDE DEF s
    <2>2. Walk(t, path).at = last.at /\ Walk(t, path).todo = last.todo /\ Walk(t, path).status = s
        BY <1>1, <2>1 DEF Step
    <2>3. QED
        BY <1>1, <1>3, <2>2, StepIsItsFields DEF Status, Stands, last, s
<1>4. QED
    BY <1>2, <1>3

(* Walks are the same where their last steps are.                          *)
LEMMA SameLastStep ==
    ASSUME NEW t, NEW t2, NEW path,
           Steps(t, path)[Patience(path)] = Steps(t2, path)[Patience(path)]
    PROVE  Walk(t, path) = Walk(t2, path)
    BY DEF Walk

-----------------------------------------------------------------------------
(* Trees that grow                                                         *)

Grown(t, t2) == DOMAIN t \subseteq DOMAIN t2 /\ \A l \in DOMAIN t : t2[l] = t[l]

(* A step that misses nothing is the same step in a tree with more in it.  *)
LEMMA AdvanceInGrown ==
    ASSUME NEW t, IsTree(t), NEW t2, IsTree(t2), Grown(t, t2),
           NEW walk \in Step, Advance(t, walk).status # "missing"
    PROVE  Advance(t2, walk) = Advance(t, walk)
<1> DEFINE name == Head(walk.todo)
           rest == Tail(walk.todo)
           place == Append(walk.at, Fold[name])
<1>1. CASE walk.status # "walking" \/ walk.todo = << >>
    BY <1>1, AdvanceByCase
<1>2. CASE walk.status = "walking" /\ walk.todo # << >> /\ name = ".."
    <2>1. CASE walk.at = << >>
        <3>1. Advance(t, walk) = At(walk.at, walk.todo, "escape")
            BY <1>2, <2>1, AdvanceByCase
        <3>2. Advance(t2, walk) = At(walk.at, walk.todo, "escape")
            BY <1>2, <2>1, AdvanceByCase
        <3>3. QED
            BY <3>1, <3>2
    <2>2. CASE walk.at # << >>
        <3>1. Advance(t, walk) = At(Front(walk.at), rest, "walking")
            BY <1>2, <2>2, AdvanceByCase
        <3>2. Advance(t2, walk) = At(Front(walk.at), rest, "walking")
            BY <1>2, <2>2, AdvanceByCase
        <3>3. QED
            BY <3>1, <3>2
    <2>3. QED
        BY <2>1, <2>2
<1>3. ASSUME walk.status = "walking", walk.todo # << >>, name # ".."
      PROVE  Advance(t2, walk) = Advance(t, walk)
    <2>1. place \in DOMAIN t
        <3>1. SUFFICES ASSUME place \notin DOMAIN t PROVE FALSE
            OBVIOUS
        <3>2. Advance(t, walk) = At(walk.at, walk.todo, "missing")
            BY <1>3, <3>1, AdvanceByCase
        <3>3. QED
            BY <3>2 DEF At
    <2>2. place \in DOMAIN t2 /\ t2[place] = t[place]
        BY <2>1 DEF Grown
    <2>3. t[place].kind \in {"directory", "link", "file"}
        BY <1>3, <2>1, AdvanceByCase
    <2>4. CASE t[place].kind = "directory"
        <3>1. Advance(t, walk) = At(place, rest, "walking")
            BY <1>3, <2>1, <2>4, AdvanceByCase
        <3>2. Advance(t2, walk) = At(place, rest, "walking")
            BY <1>3, <2>2, <2>4, AdvanceByCase
        <3>3. QED
            BY <3>1, <3>2
    <2>5. CASE t[place].kind = "link"
        <3>1. Advance(t, walk) = At(walk.at, t[place].target \o rest, "walking")
            BY <1>3, <2>1, <2>5, AdvanceByCase
        <3>2. Advance(t2, walk) = At(walk.at, t[place].target \o rest, "walking")
            BY ZenonT(60), <1>3, <2>2, <2>5, AdvanceByCase
        <3>3. QED
            BY <3>1, <3>2
    <2>6. CASE t[place].kind = "file" /\ rest = << >>
        <3>1. Advance(t, walk) = At(place, rest, "file")
            BY <1>3, <2>1, <2>6, AdvanceByCase
        <3>2. Advance(t2, walk) = At(place, rest, "file")
            BY <1>3, <2>2, <2>6, AdvanceByCase
        <3>3. QED
            BY <3>1, <3>2
    <2>7. CASE t[place].kind = "file" /\ rest # << >>
        <3>1. Advance(t, walk) = At(walk.at, walk.todo, "not a directory")
            BY <1>3, <2>1, <2>7, AdvanceByCase
        <3>2. Advance(t2, walk) = At(walk.at, walk.todo, "not a directory")
            BY <1>3, <2>2, <2>7, AdvanceByCase
        <3>3. QED
            BY <3>1, <3>2
    <2>8. QED
        BY <2>3, <2>4, <2>5, <2>6, <2>7
<1>4. QED
    BY <1>1, <1>2, <1>3

(* What a path leads to it leads to for good.                              *)
LEMMA WalkInGrown ==
    ASSUME NEW t, IsTree(t), NEW t2, IsTree(t2), Grown(t, t2),
           NEW path \in Seq(Name), Status(t, path) # "missing"
    PROVE  Walk(t2, path) = Walk(t, path)
<1> DEFINE N == Patience(path)
           w == Steps(t, path)
           v == Steps(t2, path)
           T == {n \in 0 .. N : w[n].status # "missing" => v[n] = w[n]}
<1>1. /\ N \in Nat /\ w[0] = v[0]
      /\ \A n \in 1 .. N : w[n] = Advance(t, w[n - 1]) /\ v[n] = Advance(t2, v[n - 1])
      /\ \A n \in 0 .. N : w[n] \in Step
    BY StepsStand
<1>2. w[N].status # "missing"
    BY WalkEnds
<1> HIDE DEF N, w, v
<1>3. 0 \in T
    BY <1>1
<1>4. ASSUME NEW n \in Nat, n \in T, n < N
      PROVE  n + 1 \in T
    <2>1. n + 1 \in 0 .. N /\ n + 1 \in 1 .. N /\ (n + 1) - 1 = n /\ n \in 0 .. N
        BY <1>1, <1>4
    <2>2. /\ w[n + 1] = Advance(t, w[n]) /\ v[n + 1] = Advance(t2, v[n]) /\ w[n] \in Step
        BY <1>1, <2>1
    <2>3. ASSUME w[n + 1].status # "missing"
          PROVE  v[n + 1] = w[n + 1]
        <3>1. w[n].status # "missing"
            <4>1. w[n].status = "missing" => Advance(t, w[n]) = w[n]
                BY <2>2, AdvanceByCase
            <4>2. QED
                BY <2>2, <2>3, <4>1
        <3>2. v[n] = w[n]
            BY <1>4, <3>1
        <3>3. QED
            BY <2>2, <2>3, <3>2, AdvanceInGrown
    <2>4. QED
        BY <2>1, <2>3
<1>5. \A n \in 0 .. N : n \in T
    <2> HIDE DEF T
    <2>1. QED
        BY <1>1, <1>3, <1>4, UpTo
<1>6. N \in T
    BY <1>1, <1>5
<1>7. QED
    BY <1>2, <1>6, SameLastStep DEF N, w, v

\* A directory, or a file that has its own name, may be put at a free place.
Fits(t, l, e) ==
    /\ l \in Location /\ l # << >> /\ l \notin DOMAIN t /\ IsDirectory(t, Front(l))
    /\ e = Directory \/ e = [kind |-> "file", file |-> l]

(* A new entry in a directory of a tree makes a larger tree.               *)
LEMMA PutGrows ==
    ASSUME NEW t, IsTree(t), NEW l, NEW e, Fits(t, l, e)
    PROVE  Grown(t, Put(t, l, e)) /\ IsTree(Put(t, l, e))
<1> DEFINE u == Put(t, l, e)
<1>1. /\ DOMAIN u = DOMAIN t \cup {l} /\ u[l] = e /\ \A k \in DOMAIN t : u[k] = t[k]
      /\ l \in Location /\ l # << >> /\ IsDirectory(t, Front(l))
      /\ e.kind = "directory" \/ (e.kind = "file" /\ e.file = l)
    BY DEF Put, Fits, Directory
<1> HIDE DEF u
<1>2. ASSUME NEW k \in DOMAIN t
      PROVE  IsEntry(u, k)
    <2>1. IsEntry(t, k) /\ u[k] = t[k]
        BY <1>1 DEF IsTree
    <2>2. k \in Location /\ k # << >>
        BY <2>1 DEF IsEntry
    <2>3. Front(k) # << >> => Front(k) \in DOMAIN u /\ u[Front(k)].kind = "directory"
        BY <1>1, <2>1 DEF IsEntry
    <2>4. \/ u[k].kind = "directory"
          \/ u[k].kind = "link" /\ u[k].target \in Seq(Name)
          \/ /\ u[k].kind = "file" /\ u[k].file # << >>
             /\ u[k].file \in Location => u[k].file \in DOMAIN u
        BY <1>1, <2>1 DEF IsEntry
    <2>5. QED
        BY <2>2, <2>3, <2>4 DEF IsEntry
<1>3. IsEntry(u, l)
    <2>1. Front(l) # << >> => Front(l) \in DOMAIN u /\ u[Front(l)].kind = "directory"
        BY <1>1 DEF IsDirectory
    <2>2. QED
        BY <1>1, <2>1 DEF IsEntry
<1>4. QED
    BY <1>1, <1>2, <1>3 DEF IsTree, Grown, u

(* Where a vacant path has its place.                                      *)
LEMMA VacantPlace ==
    ASSUME NEW t, IsTree(t), NEW path \in Seq(DOMAIN Fold), path # << >>, Vacant(t, path)
    PROVE  LET l == Place(t, path)
           IN  /\ l \in Location /\ l # << >> /\ l \notin DOMAIN t
               /\ Front(l) = Walk(t, Front(path)).at
               /\ IsDirectory(t, Front(l))
<1>1. /\ Front(path) \in Seq(DOMAIN Fold) /\ Last(path) \in DOMAIN Fold
    BY FrontLast
<1>2. Front(path) \in Seq(Name)
    BY <1>1, SeqMonotonic DEF Name
<1>3. Status(t, Front(path)) = "directory" /\ Place(t, path) \notin DOMAIN t
    BY DEF Vacant
<1>4. /\ Walk(t, Front(path)).at \in Location
      /\ IsDirectory(t, Walk(t, Front(path)).at)
    BY <1>2, <1>3, WalkEnds
<1>5. Fold[Last(path)] \in Range(Fold)
    BY <1>1 DEF Range
<1>6. QED
    BY <1>3, <1>4, <1>5, FrontOfAppend DEF Place, Location

(* A path is what its front is, then its last name.                        *)
LEMMA NameIsLast ==
    ASSUME NEW path \in Seq(DOMAIN Fold), path # << >>
    PROVE  /\ Front(path) \in Seq(Name) /\ Last(path) \in Name /\ Last(path) # ".."
           /\ path \in Seq(Name) /\ path = Append(Front(path), Last(path))
           /\ Patience(Front(path)) \in Nat
           /\ Patience(path) = Patience(Front(path)) + 1
<1>1. /\ Front(path) \in Seq(DOMAIN Fold) /\ Last(path) \in DOMAIN Fold
      /\ Len(path) \in Nat \ {0} /\ Len(Front(path)) = Len(path) - 1
      /\ path = Append(Front(path), Last(path))
    BY FrontLast
<1>2. DOMAIN Fold \subseteq Name /\ ".." \notin DOMAIN Fold
    BY PathsAssumption DEF Name
<1>3. /\ Patience(Front(path)) \in Nat
      /\ Patience(path) = Patience(Front(path)) + 1
    <2>1. PICK l \in Nat \ {0} : l = Len(path)
        BY <1>1
    <2>2. Len(Front(path)) = l - 1
        BY <1>1, <2>1
    <2>3. Patience(path) = MaxSteps + l /\ Patience(Front(path)) = MaxSteps + (l - 1)
        BY <2>1, <2>2 DEF Patience
    <2>4. QED
        BY <2>1, <2>3, MaxStepsAssumption
<1>4. QED
    BY <1>1, <1>2, <1>3, SeqMonotonic

(* A walk that has ended rests.                                            *)
LEMMA StepsRest ==
    ASSUME NEW t, IsTree(t), NEW path \in Seq(Name), NEW n \in 0 .. Patience(path),
           \/ Steps(t, path)[n].status # "walking"
           \/ Steps(t, path)[n].todo = << >>
    PROVE  \A m \in n .. Patience(path) : Steps(t, path)[m] = Steps(t, path)[n]
<1> DEFINE N == Patience(path)
           w == Steps(t, path)
           T == {k \in 0 .. N - n : w[n + k] = w[n]}
<1>1. /\ N \in Nat /\ n \in 0 .. N
      /\ \A m \in 1 .. N : w[m] = Advance(t, w[m - 1])
      /\ \A m \in 0 .. N : w[m] \in Step
      /\ w[n].status # "walking" \/ w[n].todo = << >>
    BY StepsStand
<1> HIDE DEF N, w
<1>2. n \in Nat /\ N - n \in Nat /\ n + 0 = n
    BY <1>1
<1>3. 0 \in T
    BY <1>2
<1>4. ASSUME NEW k \in Nat, k \in T, k < N - n
      PROVE  k + 1 \in T
    <2>1. k + 1 \in 0 .. N - n /\ n + (k + 1) \in 1 .. N /\ (n + (k + 1)) - 1 = n + k
        BY <1>1, <1>2, <1>4
    <2>2. w[n + (k + 1)] = Advance(t, w[n + k])
        BY <1>1, <2>1
    <2>3. w[n + k] = w[n] /\ w[n] \in Step
        BY <1>1, <1>4
    <2>4. Advance(t, w[n]) = w[n]
        BY <1>1, <2>3, AdvanceByCase
    <2>5. QED
        BY <2>1, <2>2, <2>3, <2>4
<1>5. \A k \in 0 .. N - n : k \in T
    <2> HIDE DEF T
    <2>1. QED
        BY <1>2, <1>3, <1>4, UpTo
<1>6. ASSUME NEW m \in n .. N
      PROVE  w[m] = w[n]
    <2>1. m - n \in 0 .. N - n /\ n + (m - n) = m
        BY <1>1, <1>2
    <2>2. QED
        BY <1>5, <2>1
<1>7. QED
    BY <1>6 DEF N, w

(* A walk with one more name to go does the same until there.              *)
LEMMA AdvanceLonger ==
    ASSUME NEW t, IsTree(t), NEW walk \in Step, NEW name \in Name,
           walk.status = "walking", walk.todo # << >>,
           Advance(t, walk).status = "walking"
    PROVE  LET longer(a) == At(a.at, Append(a.todo, name), "walking")
           IN  /\ longer(walk) \in Step
               /\ Advance(t, longer(walk)) = longer(Advance(t, walk))
<1> DEFINE first == Head(walk.todo)
           rest == Tail(walk.todo)
           place == Append(walk.at, Fold[first])
           long == At(walk.at, Append(walk.todo, name), "walking")
           next == Advance(t, walk)
<1>1. /\ walk.at \in Location /\ walk.todo \in Seq(Name)
      /\ first \in Name /\ rest \in Seq(Name)
    BY StepIsItsFields, AdvanceByCase
<1>2. /\ Append(walk.todo, name) \in Seq(Name) /\ Append(walk.todo, name) # << >>
      /\ Head(Append(walk.todo, name)) = first
      /\ Tail(Append(walk.todo, name)) = Append(rest, name)
      /\ Append(rest, name) # << >> /\ Append(rest, name) \in Seq(Name)
    BY SMTT(40), <1>1, AppendProperties, HeadTailAppend
<1>3. /\ long \in Step /\ long.at = walk.at /\ long.todo = Append(walk.todo, name)
      /\ long.status = "walking"
      /\ Head(long.todo) = first /\ Tail(long.todo) = Append(rest, name) /\ long.todo # << >>
      /\ Append(long.at, Fold[Head(long.todo)]) = place
    <2>1. "walking" \in Statuses
        BY DEF Statuses
    <2>2. /\ long \in Step /\ long.at = walk.at /\ long.todo = Append(walk.todo, name)
          /\ long.status = "walking"
        <3> DEFINE todo == Append(walk.todo, name)
        <3>1. walk.at \in Location /\ todo \in Seq(Name)
            BY <1>1, <1>2
        <3> HIDE DEF todo
        <3>2. /\ At(walk.at, todo, "walking") \in Step /\ At(walk.at, todo, "walking").at = walk.at
              /\ At(walk.at, todo, "walking").todo = todo
              /\ At(walk.at, todo, "walking").status = "walking"
            BY <2>1, <3>1, AtIsStep
        <3>3. QED
            BY <3>2 DEF todo
    <2>3. QED
        BY <1>2, <2>2
<1>4. \A a \in Location, r \in Seq(Name) : next = At(a, r, "walking") =>
         next.at = a /\ next.todo = r
    BY DEF At
<1>5. \A a, r, s : next = At(a, r, s) => s = "walking"
    <2> HIDE DEF next
    <2> QED
        BY DEF At, next
<1> HIDE DEF long, next
<1>6. CASE first = ".." /\ walk.at = << >>
    <2>1. next = At(walk.at, walk.todo, "escape")
        BY <1>6, AdvanceByCase DEF next
    <2>2. QED
        BY <1>5, <2>1
<1>7. CASE first = ".." /\ walk.at # << >>
    <2>1. next = At(Front(walk.at), rest, "walking")
        BY <1>7, AdvanceByCase DEF next
    <2>2. Advance(t, long) = At(Front(walk.at), Append(rest, name), "walking")
        BY <1>2, <1>3, <1>7, AdvanceByCase
    <2>3. Front(walk.at) \in Location
        BY <1>1, <1>7, FrontLast DEF Location
    <2>4. next.at = Front(walk.at) /\ next.todo = rest
        BY <1>1, <1>4, <2>1, <2>3
    <2>5. QED
        BY <1>3, <2>2, <2>4 DEF long, next
<1>8. CASE first # ".." /\ place \notin DOMAIN t
    <2>1. next = At(walk.at, walk.todo, "missing")
        BY <1>8, AdvanceByCase DEF next
    <2>2. QED
        BY <1>5, <2>1
<1>9. CASE first # ".." /\ place \in DOMAIN t
    <2>1. place \in Location /\ t[place].kind \in {"directory", "link", "file"}
        BY <1>9, AdvanceByCase
    <2>2. CASE t[place].kind = "directory"
        <3>1. next = At(place, rest, "walking")
            BY <1>9, <2>2, AdvanceByCase DEF next
        <3>2. Advance(t, long) = At(place, Append(rest, name), "walking")
            BY <1>2, <1>3, <1>9, <2>2, AdvanceByCase
        <3>3. next.at = place /\ next.todo = rest
            BY <1>1, <1>4, <2>1, <3>1
        <3>4. QED
            BY <1>3, <3>2, <3>3 DEF long, next
    <2>3. CASE t[place].kind = "link"
        <3> DEFINE target == t[place].target
        <3>1. /\ next = At(walk.at, target \o rest, "walking")
              /\ target \in Seq(Name) /\ target \o rest \in Seq(Name)
            BY <1>9, <2>3, AdvanceByCase DEF next
        <3>2. Advance(t, long) = At(walk.at, target \o Append(rest, name), "walking")
            BY <1>2, <1>3, <1>9, <2>3, AdvanceByCase
        <3>3. next.at = walk.at /\ next.todo = target \o rest
            BY <1>1, <1>4, <3>1
        <3>4. target \o Append(rest, name) = Append(target \o rest, name)
            <4> HIDE DEF target, rest
            <4>1. <<name>> \in Seq(Name)
                OBVIOUS
            <4>2. /\ Append(rest, name) = rest \o <<name>>
                  /\ Append(target \o rest, name) = (target \o rest) \o <<name>>
                BY <1>1, <3>1, AppendIsConcat
            <4>3. (target \o rest) \o <<name>> = target \o (rest \o <<name>>)
                BY <1>1, <3>1, <4>1, ConcatAssociative
            <4>4. QED
                BY <4>2, <4>3
        <3>5. QED
            BY <1>3, <3>2, <3>3, <3>4 DEF long, next
    <2>4. CASE t[place].kind = "file" /\ rest = << >>
        <3>1. next = At(place, rest, "file")
            BY <1>9, <2>4, AdvanceByCase DEF next
        <3>2. QED
            BY <1>5, <3>1
    <2>5. CASE t[place].kind = "file" /\ rest # << >>
        <3>1. next = At(walk.at, walk.todo, "not a directory")
            BY <1>9, <2>5, AdvanceByCase DEF next
        <3>2. QED
            BY <1>5, <3>1
    <2>6. QED
        BY <2>1, <2>2, <2>3, <2>4, <2>5
<1>10. QED
    BY <1>6, <1>7, <1>8, <1>9

(* The file in the place of a path is what the path leads to.              *)
LEMMA FileInPlaceIsFound ==
    ASSUME NEW t, IsTree(t), NEW path \in Seq(DOMAIN Fold), path # << >>,
           Status(t, Front(path)) = "directory", IsFile(t, Place(t, path))
    PROVE  Status(t, path) = "file" /\ Walk(t, path).at = Place(t, path)
<1> DEFINE front == Front(path)
           name == Last(path)
           N == Patience(front)
           w == Steps(t, front)
           v == Steps(t, path)
           place == Place(t, path)
           found == At(place, << >>, "file")
           longer(a) == At(a.at, Append(a.todo, name), "walking")
           T == {n \in 0 .. N : w[n].status = "walking" => v[n] = longer(w[n]) \/ v[n] = found}
<1>1. /\ front \in Seq(Name) /\ name \in Name /\ name # ".." /\ path \in Seq(Name)
      /\ path = Append(front, name) /\ N \in Nat /\ Patience(path) = N + 1
    BY NameIsLast
<1>2. /\ w[0] = Start(front) /\ v[0] = Start(path)
      /\ \A n \in 1 .. N : w[n] = Advance(t, w[n - 1])
      /\ \A n \in 1 .. N + 1 : v[n] = Advance(t, v[n - 1])
      /\ \A n \in 0 .. N : w[n] \in Step
      /\ \A n \in 0 .. N + 1 : v[n] \in Step
    BY <1>1, StepsStand
<1>3. /\ w[N].status = "walking" /\ w[N].todo = << >> /\ w[N].at = Walk(t, front).at
    BY <1>1, WalkEnds
<1>4. /\ place = Append(w[N].at, Fold[name]) /\ place \in DOMAIN t /\ t[place].kind = "file"
    BY <1>3 DEF Place, IsFile
<1>5. \A n \in 0 .. N : w[n].todo = << >> => w[N] = w[n]
    BY <1>1, StepsRest
<1> HIDE DEF front, name, N, w, v, place
<1>6. /\ Advance(t, longer(w[N])) = found /\ found \in Step /\ Advance(t, found) = found
    <2>1. w[N].at \in Location /\ <<name>> \in Seq(Name) /\ Append(<< >>, name) = <<name>>
          /\ Head(<<name>>) = name /\ Tail(<<name>>) = << >> /\ <<name>> # << >>
        BY <1>1, <1>2, StepIsItsFields
    <2> DEFINE l == At(w[N].at, <<name>>, "walking")
    <2>2. /\ l \in Step /\ l.at = w[N].at /\ l.todo = <<name>> /\ l.status = "walking"
        <3>1. "walking" \in Statuses
            BY DEF Statuses
        <3> HIDE DEF longer, found, T
        <3>2. QED
            <4> DEFINE a == w[N].at
                       todo == <<name>>
            <4>1. a \in Location /\ todo \in Seq(Name)
                BY <2>1
            <4> HIDE DEF a, todo
            <4>2. /\ At(a, todo, "walking") \in Step /\ At(a, todo, "walking").at = a
                  /\ At(a, todo, "walking").todo = todo
                  /\ At(a, todo, "walking").status = "walking"
                BY <3>1, <4>1, AtIsStep
            <4>3. QED
                BY <4>2 DEF a, todo
    <2>3. longer(w[N]) = l
        BY <1>3, <2>1
    <2> HIDE DEF l
    <2>4. Advance(t, l) = found
        BY ZenonT(60), <1>1, <1>4, <2>1, <2>2, AdvanceByCase
    <2>5. place \in Location /\ << >> \in Seq(Name)
        BY <1>4, EmptySeq DEF IsTree, IsEntry
    <2>6. found \in Step /\ found.status = "file"
        <3>1. "file" \in Statuses
            BY DEF Statuses
        <3> DEFINE a == place
                   r == << >>
        <3>2. a \in Location /\ r \in Seq(Name)
            BY <2>5
        <3> HIDE DEF a, r, T, longer
        <3>3. At(a, r, "file") \in Step /\ At(a, r, "file").status = "file"
            BY <3>1, <3>2, AtIsStep
        <3>4. QED
            BY <3>3 DEF a, r
    <2>7. Advance(t, found) = found
        BY <2>6, AdvanceByCase
    <2>8. QED
        BY <2>3, <2>4, <2>6, <2>7
<1>7. 0 \in T
    <2>1. v[0] = longer(w[0])
        BY <1>1, <1>2 DEF Start, At
    <2>2. QED
        BY <1>1, <2>1
<1>8. ASSUME NEW n \in Nat, n \in T, n < N
      PROVE  n + 1 \in T
    <2>1. /\ n + 1 \in 0 .. N /\ n + 1 \in 1 .. N /\ (n + 1) - 1 = n /\ n \in 0 .. N
          /\ n + 1 \in 1 .. N + 1
        <3>1. N \in Nat /\ n \in Nat /\ n < N
            BY <1>1, <1>8
        <3> HIDE DEF T, longer, found
        <3>2. QED
            BY <3>1
    <2>2. /\ w[n + 1] = Advance(t, w[n]) /\ v[n + 1] = Advance(t, v[n]) /\ w[n] \in Step
        BY <1>2, <2>1
    <2>3. ASSUME w[n + 1].status = "walking"
          PROVE  v[n + 1] = longer(w[n + 1]) \/ v[n + 1] = found
        <3>1. w[n].status = "walking"
            <4>1. w[n].status # "walking" => Advance(t, w[n]) = w[n]
                BY <2>2, AdvanceByCase
            <4>2. QED
                BY <2>2, <2>3, <4>1
        <3>2. CASE v[n] = found
            BY <1>6, <2>2, <3>2
        <3>3. CASE v[n] = longer(w[n]) /\ w[n].todo = << >>
            <4>1. w[n] = w[N]
                BY <1>5, <2>1, <3>3
            <4>2. QED
                BY <1>6, <2>2, <3>3, <4>1
        <3>4. CASE v[n] = longer(w[n]) /\ w[n].todo # << >>
            <4>1. Advance(t, longer(w[n])) = longer(Advance(t, w[n]))
                BY <1>1, <2>2, <2>3, <3>1, <3>4, AdvanceLonger
            <4>2. QED
                BY <2>2, <3>4, <4>1
        <3>5. QED
            BY <1>8, <3>1, <3>2, <3>3, <3>4
    <2>4. QED
        BY <2>1, <2>3
<1>9. \A n \in 0 .. N : n \in T
    <2> HIDE DEF T
    <2>1. QED
        BY <1>1, <1>7, <1>8, UpTo
<1>10. v[N] = longer(w[N]) \/ v[N] = found
    <2>1. N \in 0 .. N
        BY <1>1
    <2>2. N \in T
        BY <1>9, <2>1
    <2>3. QED
        BY <1>3, <2>2
<1>11. v[N + 1] = found
    <2>1. N + 1 \in 1 .. N + 1 /\ (N + 1) - 1 = N
        BY <1>1
    <2>2. v[N + 1] = Advance(t, v[N])
        BY <1>2, <2>1
    <2> HIDE DEF found
    <2>3. QED
        BY <1>6, <1>10, <2>2
<1>12. found.at = place /\ found.status = "file"
    BY DEF At
<1>13. QED
    <2>1. Steps(t, path)[Patience(path)] = found
        BY <1>1, <1>11 DEF v
    <2>2. QED
        BY ZenonT(60), <1>1, <1>12, <2>1, WalkEnds DEF place

-----------------------------------------------------------------------------
(* Making directories                                                      *)

\* A tree with more directories and nothing else.
MoreDirectories(t, t2) ==
    Grown(t, t2) /\ \A l \in DOMAIN t2 \ DOMAIN t : t2[l].kind = "directory"

(* The prefixes of a path are paths.                                       *)
LEMMA PrefixIsPath ==
    ASSUME NEW S, NEW path \in Seq(S), NEW n \in 0 .. Len(path)
    PROVE  /\ SubSeq(path, 1, n) \in Seq(S) /\ Len(SubSeq(path, 1, n)) = n
           /\ \A i \in 1 .. n : SubSeq(path, 1, n)[i] = path[i]
           /\ n # 0 => SubSeq(path, 1, n) # << >>
<1>1. Len(path) \in Nat /\ \A i \in 1 .. Len(path) : path[i] \in S
    BY LenProperties, ElementOfSeq
<1>2. n \in Nat /\ (1 <= n \/ n = 0) /\ \A i \in 1 .. n : i \in 1 .. Len(path)
    BY <1>1
<1>3. \A i \in 1 .. n : path[i] \in S
    BY <1>1, <1>2
<1>4. /\ SubSeq(path, 1, n) \in Seq(S)
      /\ Len(SubSeq(path, 1, n)) = IF 1 <= n THEN n - 1 + 1 ELSE 0
      /\ \A i \in 1 .. n - 1 + 1 : SubSeq(path, 1, n)[i] = path[1 + i - 1]
    BY <1>2, <1>3, SubSeqProperties
<1>5. /\ Len(SubSeq(path, 1, n)) = n
      /\ \A i \in 1 .. n : SubSeq(path, 1, n)[i] = path[i]
    BY <1>2, <1>4
<1>6. QED
    BY <1>4, <1>5, EmptySeq

(* One directory.                                                          *)
LEMMA MakeDirectoryKeeps ==
    ASSUME NEW t, IsTree(t), NEW path \in Seq(DOMAIN Fold), path # << >>
    PROVE  IsTree(MakeDirectory(t, path)) /\ MoreDirectories(t, MakeDirectory(t, path))
<1>1. CASE ~Vacant(t, path)
    BY <1>1 DEF MakeDirectory, MoreDirectories, Grown
<1>2. CASE Vacant(t, path)
    <2> DEFINE l == Place(t, path)
               u == Put(t, l, Directory)
    <2>1. MakeDirectory(t, path) = u
        BY <1>2 DEF MakeDirectory
    <2>2. l \in Location /\ l # << >> /\ l \notin DOMAIN t /\ IsDirectory(t, Front(l))
        BY <1>2, VacantPlace
    <2>3. Directory.kind = "directory"
        BY DEF Directory
    <2> HIDE DEF l
    <2>d. DOMAIN u = DOMAIN t \cup {l} /\ u[l] = Directory
        BY DEF Put
    <2>4. Grown(t, u) /\ IsTree(u)
        <3>1. Fits(t, l, Directory)
            BY <2>2 DEF Fits
        <3>2. QED
            BY <3>1, PutGrows
    <2>5. QED
        BY <2>1, <2>3, <2>d, <2>4 DEF MoreDirectories
<1>3. QED
    BY <1>1, <1>2

(* The directories on a path are made one after another.                   *)
LEMMA MadeAre ==
    ASSUME NEW t, NEW path, Len(path) \in Nat
    PROVE  \E made : /\ made[0] = t
                     /\ \A n \in 1 .. Len(path) :
                           made[n] = MakeDirectory(made[n - 1], SubSeq(path, 1, n))
                     /\ MakeDirectories(t, path) = made[Len(path)]
<1> DEFINE N == Len(path)
           Is(g, m) == g = [n \in 0 .. m |->
               IF n = 0 THEN t ELSE MakeDirectory(g[n - 1], SubSeq(path, 1, n))]
           T == {m \in 0 .. N : \E g : Is(g, m)}
           made == CHOOSE g : Is(g, N)
<1> HIDE DEF N
<1>1. N \in Nat
    BY DEF N
<1>2. 0 \in T
    <2> DEFINE g == [n \in 0 .. 0 |-> t]
    <2>1. Is(g, 0)
        OBVIOUS
    <2> HIDE DEF g, Is
    <2>2. QED
        BY <1>1, <2>1
<1>3. ASSUME NEW m \in Nat, m \in T, m < N
      PROVE  m + 1 \in T
    <2>1. PICK g : Is(g, m)
        BY <1>3
    <2> DEFINE next == MakeDirectory(g[m], SubSeq(path, 1, m + 1))
               h == [n \in 0 .. m + 1 |-> IF n = m + 1 THEN next ELSE g[n]]
    <2>2. ASSUME NEW n \in 0 .. m + 1
          PROVE  h[n] = IF n = 0 THEN t ELSE MakeDirectory(h[n - 1], SubSeq(path, 1, n))
        <3>1. CASE n = m + 1
            <4>1. h[n] = next /\ n # 0 /\ n - 1 = m /\ m \in 0 .. m + 1 /\ m # m + 1
                BY <3>1
            <4>2. h[m] = g[m]
                BY <4>1
            <4>3. QED
                BY <3>1, <4>1, <4>2
        <3>2. CASE n # m + 1
            <4>1. n \in 0 .. m /\ h[n] = g[n]
                BY <3>2
            <4>2. g[n] = IF n = 0 THEN t ELSE MakeDirectory(g[n - 1], SubSeq(path, 1, n))
                BY <2>1, <4>1
            <4>3. n # 0 => n - 1 \in 0 .. m + 1 /\ n - 1 # m + 1
                BY <4>1
            <4>4. n # 0 => h[n - 1] = g[n - 1]
                BY <4>3
            <4>5. QED
                BY <4>1, <4>2, <4>4
        <3>3. QED
            BY <3>1, <3>2
    <2>3. h = [n \in 0 .. m + 1 |->
                 IF n = 0 THEN t ELSE MakeDirectory(h[n - 1], SubSeq(path, 1, n))]
        <3>1. h = [n \in 0 .. m + 1 |-> h[n]]
            OBVIOUS
        <3> HIDE DEF h
        <3>2. [n \in 0 .. m + 1 |-> h[n]]
                = [n \in 0 .. m + 1 |->
                     IF n = 0 THEN t ELSE MakeDirectory(h[n - 1], SubSeq(path, 1, n))]
            BY <2>2
        <3>3. QED
            BY <3>1, <3>2
    <2> HIDE DEF h
    <2>4. Is(h, m + 1)
        BY <2>3
    <2>5. m + 1 \in 0 .. N
        BY <1>1, <1>3
    <2>6. QED
        BY <2>4, <2>5
<1>4. N \in T
    <2> HIDE DEF T
    <2>1. \A n \in 0 .. N : n \in T
        BY <1>1, <1>2, <1>3, UpTo
    <2>2. QED
        BY <1>1, <2>1
<1>5. PICK g : Is(g, N)
    BY <1>4
<1>6. MakeDirectories(t, path) = made[N]
    BY DEF MakeDirectories, N
<1>7. Is(made, N)
    <2> HIDE DEF Is
    <2>1. QED
        BY <1>5
<1>8. /\ 0 \in 0 .. N /\ \A n \in 1 .. N : n \in 0 .. N /\ n # 0
    BY <1>1
<1>9. /\ made[0] = t
      /\ \A n \in 1 .. N : made[n] = MakeDirectory(made[n - 1], SubSeq(path, 1, n))
    <2>1. made = [n \in 0 .. N |->
                    IF n = 0 THEN t ELSE MakeDirectory(made[n - 1], SubSeq(path, 1, n))]
        BY <1>7
    <2> HIDE DEF made
    <2>2. QED
        BY <1>8, <2>1
<1> HIDE DEF made
<1>10. QED
    BY <1>6, <1>9 DEF N

(* The directories that a commit makes are all that it makes.              *)
LEMMA MakeDirectoriesKeeps ==
    ASSUME NEW t, IsTree(t), NEW path \in Seq(DOMAIN Fold)
    PROVE  IsTree(MakeDirectories(t, path)) /\ MoreDirectories(t, MakeDirectories(t, path))
<1>1. Len(path) \in Nat
    BY LenProperties
<1>2. PICK made : /\ made[0] = t
                  /\ \A n \in 1 .. Len(path) :
                        made[n] = MakeDirectory(made[n - 1], SubSeq(path, 1, n))
                  /\ MakeDirectories(t, path) = made[Len(path)]
    BY <1>1, MadeAre
<1> DEFINE N == Len(path)
           T == {n \in 0 .. N : IsTree(made[n]) /\ MoreDirectories(t, made[n])}
<1>3. 0 \in T
    BY <1>1, <1>2 DEF MoreDirectories, Grown
<1>4. ASSUME NEW n \in Nat, n \in T, n < N
      PROVE  n + 1 \in T
    <2>1. /\ n + 1 \in 0 .. N /\ n + 1 \in 1 .. N /\ (n + 1) - 1 = n /\ n + 1 # 0
        BY <1>1, <1>4
    <2>2. made[n + 1] = MakeDirectory(made[n], SubSeq(path, 1, n + 1))
        BY <1>2, <2>1
    <2>3. SubSeq(path, 1, n + 1) \in Seq(DOMAIN Fold) /\ SubSeq(path, 1, n + 1) # << >>
        BY <2>1, PrefixIsPath
    <2>4. IsTree(made[n + 1]) /\ MoreDirectories(made[n], made[n + 1])
        BY <1>4, <2>2, <2>3, MakeDirectoryKeeps
    <2>5. MoreDirectories(t, made[n + 1])
        BY <1>4, <2>4 DEF MoreDirectories, Grown
    <2>6. QED
        BY <2>1, <2>4, <2>5
<1>5. N \in T
    <2> HIDE DEF T
    <2>1. \A n \in 0 .. N : n \in T
        BY <1>1, <1>3, <1>4, UpTo
    <2>2. QED
        BY <1>1, <2>1
<1>6. QED
    BY <1>2, <1>5

-----------------------------------------------------------------------------
(* What a command knows of its targets                                     *)

\* Targets that were there, or that the command has made.
Settled == {p \in DOMAIN seen : seen[p] # Absent \/ p \in Range(completed)}

\* The types, and which targets each phase has read.
Shape ==
    /\ IsTree(tree)
    /\ \A l \in DOMAIN tree : tree[l].kind = "file" => tree[l].file \in DOMAIN content
    /\ inventory \subseteq Paths /\ DOMAIN seen \subseteq inventory
    /\ outputs \subseteq inventory /\ completed \in Seq(outputs)
    /\ phase \in {"discover", "refused", "parents", "write", "failed", "completed"}
    /\ phase \in {"discover", "refused"} => outputs = {} /\ completed = << >>
    /\ phase \notin {"discover", "refused"} => inventory \subseteq DOMAIN seen
    /\ phase = "write" => Pending # {}
    /\ phase = "completed" => Pending = {}

\* Settled targets lead to files: those that were read, or new ones.
TargetsStand ==
    /\ \A p \in Settled : Status(tree, p) = "file"
    /\ \A p \in DOMAIN seen : seen[p] # Absent => FileAt(tree, p) = seen[p].file

\* No two of them lead to the same file.
TargetsAreApart ==
    \A p, q \in Settled : p # q => FileAt(tree, p) # FileAt(tree, q)

\* Each reads what was written to it, or what was read from it.
TargetsRead ==
    \A p \in Settled : content[FileAt(tree, p)] =
        IF p \in Range(completed) THEN Zwirn(p) ELSE seen[p].text

IInv == Shape /\ TargetsStand /\ TargetsAreApart /\ TargetsRead

(* The paths of the document.                                              *)
LEMMA PathsAre ==
    ASSUME NEW p \in Paths
    PROVE  p \in Seq(DOMAIN Fold) /\ p # << >> /\ p \in Seq(Name)
<1>1. PathOrder \in Seq(Seq(DOMAIN Fold) \ {<< >>})
    BY PathsAssumption
<1>2. p \in Seq(DOMAIN Fold) \ {<< >>}
    <2>1. PICK i \in DOMAIN PathOrder : p = PathOrder[i]
        BY DEF Paths, Range
    <2>2. i \in 1 .. Len(PathOrder)
        BY <1>1, <2>1, LenProperties
    <2>3. QED
        BY <1>1, <2>1, <2>2, ElementOfSeq
<1>3. QED
    BY <1>2, NameIsLast

(* The first of some paths is one of them.                                 *)
LEMMA FirstIsOne ==
    ASSUME NEW paths \in SUBSET Paths, paths # {}
    PROVE  First(paths) \in paths
<1> DEFINE S == {i \in DOMAIN PathOrder : PathOrder[i] \in paths}
<1>1. DOMAIN PathOrder \subseteq Nat
    BY PathsAssumption, LenProperties
<1>2. S \in SUBSET Nat /\ S # {}
    BY <1>1 DEF Paths, Range
<1>3. PICK m \in S : \A s \in S : m <= s
    <2> HIDE DEF S
    <2> QED
        BY <1>2, LeastExists
<1>4. \E i \in DOMAIN PathOrder :
         /\ PathOrder[i] \in paths
         /\ \A j \in DOMAIN PathOrder : PathOrder[j] \in paths => i <= j
    BY <1>3
<1>5. QED
    BY <1>4 DEF First

(* Completing a path adds it to those that are completed.                  *)
LEMMA RangeOfAppend ==
    ASSUME NEW S, NEW s \in Seq(S), NEW e \in S
    PROVE  Append(s, e) \in Seq(S) /\ Range(Append(s, e)) = Range(s) \cup {e}
<1> DEFINE t == Append(s, e)
<1>1. /\ t \in Seq(S) /\ Len(s) \in Nat /\ Len(t) = Len(s) + 1
      /\ \A i \in 1 .. Len(s) : t[i] = s[i]
      /\ t[Len(s) + 1] = e
    BY AppendProperties, LenProperties
<1>2. DOMAIN s = 1 .. Len(s) /\ DOMAIN t = 1 .. Len(t)
    BY <1>1, LenProperties
<1> HIDE DEF t
<1>3. PICK l \in Nat : l = Len(s)
    BY <1>1
<1>4. DOMAIN s = 1 .. l /\ DOMAIN t = 1 .. l + 1 /\ t[l + 1] = e /\ \A i \in 1 .. l : t[i] = s[i]
    BY <1>1, <1>2, <1>3
<1>5. \A x : x \in Range(t) => x \in Range(s) \cup {e}
    <2>1. SUFFICES ASSUME NEW i \in 1 .. l + 1
                   PROVE  t[i] \in Range(s) \cup {e}
        BY <1>4 DEF Range
    <2>2. i = l + 1 \/ i \in 1 .. l
        BY <1>3
    <2>3. QED
        BY <1>4, <2>2 DEF Range
<1>6. \A x : x \in Range(s) \cup {e} => x \in Range(t)
    <2>1. l + 1 \in 1 .. l + 1 /\ \A i \in 1 .. l : i \in 1 .. l + 1
        BY <1>3
    <2>2. e \in Range(t)
        BY <1>4, <2>1 DEF Range
    <2>3. \A i \in 1 .. l : s[i] \in Range(t)
        BY <1>4, <2>1 DEF Range
    <2>4. QED
        BY <1>4, <2>2, <2>3 DEF Range
<1>7. Range(t) = Range(s) \cup {e}
    BY <1>5, <1>6
<1>8. QED
    BY <1>1, <1>7 DEF t

(* Of a target that is there, the file is known and has a content.         *)
LEMMA FileIsThere ==
    ASSUME Shape, NEW p \in inventory, Status(tree, p) = "file"
    PROVE  LET l == Walk(tree, p).at
           IN  /\ l \in DOMAIN tree /\ tree[l].kind = "file" /\ FileAt(tree, p) = tree[l].file
               /\ FileAt(tree, p) # << >> /\ FileAt(tree, p) \in DOMAIN content
               /\ FileAt(tree, p) \in Location => FileAt(tree, p) \in DOMAIN tree
<1> DEFINE l == Walk(tree, p).at
<1>1. IsTree(tree) /\ p \in Seq(Name)
    BY PathsAre DEF Shape
<1>2. IsFile(tree, l)
    BY <1>1, WalkEnds
<1>3. FileAt(tree, p) = tree[l].file
    BY DEF FileAt
<1> HIDE DEF l
<1>4. l \in DOMAIN tree /\ tree[l].kind = "file"
    BY <1>2 DEF IsFile
<1>5. IsEntry(tree, l)
    BY <1>1, <1>4 DEF IsTree
<1>6. QED
    BY <1>3, <1>4, <1>5 DEF IsEntry, Shape, l

(* Targets keep their files when the tree grows.                           *)
LEMMA TargetsInGrown ==
    ASSUME IInv, IsTree(tree'), Grown(tree, tree'), NEW p \in inventory,
           Status(tree, p) = "file"
    PROVE  Status(tree', p) = "file" /\ FileAt(tree', p) = FileAt(tree, p)
<1>1. IsTree(tree) /\ p \in Seq(Name)
    BY PathsAre DEF IInv, Shape
<1>2. Walk(tree', p) = Walk(tree, p)
    BY <1>1, WalkInGrown
<1>3. Walk(tree, p).at \in DOMAIN tree
    BY FileIsThere DEF IInv
<1>4. QED
    BY <1>2, <1>3 DEF Status, FileAt, Grown

-----------------------------------------------------------------------------
(* The invariant                                                           *)

(* No command has done anything yet.                                       *)
LEMMA InitHolds == Init => IInv
<1> SUFFICES ASSUME Init PROVE IInv
    OBVIOUS
<1>1. IsTree(tree) /\ tree \in Trees
    BY TreesAssumption DEF Init
<1>2. Settled = {} /\ DOMAIN seen = {}
    BY DEF Init, Settled
<1>3. \A l \in DOMAIN tree : tree[l].kind = "file" => tree[l].file \in DOMAIN content
    BY DEF Init
<1>4. /\ phase = "discover" /\ outputs = {} /\ completed = << >>
      /\ inventory \subseteq Paths /\ completed \in Seq(outputs)
    BY DEF Init
<1>5. Shape
    BY <1>1, <1>2, <1>3, <1>4 DEF Shape
<1>6. QED
    BY <1>2, <1>5 DEF IInv, TargetsStand, TargetsAreApart, TargetsRead

(* Steps that only move on.                                                *)
LEMMA MovingOnKeeps ==
    ASSUME IInv, Shape', UNCHANGED <<tree, content, seen, completed>>
    PROVE  IInv'
<1>1. Settled' = Settled
    BY DEF Settled
<1>2. \A p : Status(tree, p)' = Status(tree, p) /\ FileAt(tree, p)' = FileAt(tree, p)
    BY DEF Status, FileAt
<1>3. QED
    BY <1>1, <1>2 DEF IInv, TargetsStand, TargetsAreApart, TargetsRead

(* Steps that only change the phase keep the invariant.                    *)
LEMMA EndKeeps ==
    ASSUME IInv, RefusePaths \/ RefuseTarget \/ FailTarget \/ Complete \/ Ended
    PROVE  IInv'
<1>1. UNCHANGED <<tree, content, inventory, seen, outputs, completed>>
    BY DEF RefusePaths, RefuseTarget, FailTarget, Complete, Ended, vars
<1>2. Pending' = Pending
    BY <1>1 DEF Pending
<1>3. Shape'
    <2>1. CASE RefusePaths \/ RefuseTarget
        BY <1>1, <1>2, <2>1 DEF RefusePaths, RefuseTarget, IInv, Shape
    <2>2. CASE FailTarget
        BY <1>1, <1>2, <2>2 DEF FailTarget, IInv, Shape
    <2>3. CASE Complete
        BY <1>1, <1>2, <2>3 DEF Complete, IInv, Shape
    <2>4. CASE Ended
        BY <1>1, <1>2, <2>4 DEF Ended, vars, IInv, Shape
    <2>5. QED
        BY <2>1, <2>2, <2>3, <2>4
<1>4. QED
    BY <1>1, <1>3, MovingOnKeeps

(* Choosing the outputs keeps the invariant.                               *)
LEMMA ChooseKeeps ==
    ASSUME IInv, NEW chosen \in SUBSET inventory, Choose(chosen)
    PROVE  IInv'
<1>1. /\ phase = "discover" /\ phase' = "parents" /\ outputs' = chosen
      /\ Unread = {} /\ UNCHANGED <<tree, content, inventory, seen, completed>>
    BY DEF Choose
<1>2. completed = << >>
    BY <1>1 DEF IInv, Shape
<1>3. completed' \in Seq(outputs')
    BY <1>1, <1>2
<1>4. inventory \subseteq DOMAIN seen
    BY <1>1 DEF Unread
<1>5. Shape'
    BY <1>1, <1>3, <1>4 DEF IInv, Shape
<1>6. QED
    BY <1>1, <1>5, MovingOnKeeps

(* Discovery takes up a target only if its file is no other's.             *)
LEMMA ReadTargetKeeps ==
    ASSUME IInv, ReadTarget
    PROVE  IInv'
<1> DEFINE path == First(Unread)
           file == FileAt(tree, path)
           found == IF Status(tree, path) = "missing" THEN Absent
                    ELSE [file |-> file, text |-> content[file]]
<1>1. /\ phase = "discover" /\ Unread # {} /\ Readable(path)
      /\ seen' = Put(seen, path, found)
      /\ UNCHANGED <<tree, content, inventory, phase, outputs, completed>>
    BY DEF ReadTarget
<1>2. path \in inventory /\ path \notin DOMAIN seen
    <2>1. Unread \in SUBSET Paths
        BY DEF Unread, IInv, Shape
    <2>2. path \in Unread
        BY <1>1, <2>1, FirstIsOne
    <2>3. QED
        BY <2>2 DEF Unread
<1>3. completed = << >> /\ Range(completed) = {} /\ completed' = completed
    BY <1>1 DEF IInv, Shape, Range
<1> HIDE DEF path, found
<1>4. /\ DOMAIN seen' = DOMAIN seen \cup {path} /\ seen'[path] = found
      /\ \A p \in DOMAIN seen : seen'[p] = seen[p]
    BY <1>1, <1>2 DEF Put
<1>5. Shape'
    <2>1. Pending' = Pending
        BY <1>1 DEF Pending
    <2>2. QED
        BY <1>1, <1>2, <1>4, <2>1 DEF IInv, Shape
<1>6. \A p : Status(tree, p)' = Status(tree, p) /\ FileAt(tree, p)' = FileAt(tree, p)
    BY <1>1 DEF Status, FileAt
<1>7. CASE Status(tree, path) = "missing"
    <2>1. found = Absent
        BY <1>7 DEF found
    <2>2. Settled' = Settled /\ path \notin Settled
        BY <1>2, <1>3, <1>4, <2>1 DEF Settled
    <2>3. \A p \in Settled : p \in DOMAIN seen /\ seen'[p] = seen[p]
        BY <1>4 DEF Settled
    <2>4. TargetsStand'
        BY <1>4, <1>6, <2>1, <2>2 DEF IInv, TargetsStand
    <2>5. TargetsAreApart' /\ TargetsRead'
        BY <1>1, <1>6, <2>2, <2>3 DEF IInv, TargetsAreApart, TargetsRead
    <2>6. QED
        BY <1>5, <2>4, <2>5 DEF IInv
<1>8. CASE Status(tree, path) # "missing"
    <2>1. /\ Status(tree, path) = "file" /\ ~SameFile(file, path)
          /\ found = [file |-> file, text |-> content[file]]
        BY <1>1, <1>8 DEF Readable, found
    <2>2. file # << >>
        BY <1>2, <2>1, FileIsThere DEF IInv
    <2> HIDE DEF file
    <2>3. found # Absent /\ found.file = file /\ found.text = content[file]
        BY <2>1, <2>2 DEF Absent
    <2>4. Settled' = Settled \cup {path} /\ path \notin Settled
        BY <1>2, <1>3, <1>4, <2>3 DEF Settled
    <2>5. \A p \in Settled : p \in DOMAIN seen /\ seen[p] # Absent /\ seen'[p] = seen[p]
        BY <1>3, <1>4 DEF Settled
    <2>6. \A p \in Settled : FileAt(tree, p) # file
        BY <1>2, <2>1, <2>4, <2>5 DEF SameFile, IInv, TargetsStand
    <2>7. FileAt(tree, path) = file
        BY DEF file
    <2>8. TargetsStand'
        BY <1>4, <1>6, <2>1, <2>3, <2>4, <2>5, <2>7 DEF IInv, TargetsStand
    <2>9. TargetsAreApart'
        BY <1>6, <2>4, <2>6, <2>7 DEF IInv, TargetsAreApart
    <2>10. TargetsRead'
        <3>1. SUFFICES ASSUME NEW p \in Settled'
                       PROVE  content[FileAt(tree, p)] = seen'[p].text
            BY <1>1, <1>3, <1>6 DEF TargetsRead
        <3>2. CASE p = path
            BY <1>4, <2>3, <2>7, <3>2
        <3>3. CASE p # path
            <4>1. p \in Settled /\ seen'[p] = seen[p]
                BY <2>4, <2>5, <3>3
            <4>2. QED
                BY <1>3, <4>1 DEF IInv, TargetsRead
        <3>4. QED
            BY <3>2, <3>3
    <2>11. QED
        BY <1>5, <2>8, <2>9, <2>10 DEF IInv
<1>9. QED
    BY <1>7, <1>8

(* Making directories leads no target anywhere else.                       *)
LEMMA MakeParentsKeeps ==
    ASSUME IInv, MakeParents
    PROVE  IInv' /\ MoreDirectories(tree, tree')
<1> DEFINE path == First(Pending)
           parent == Front(path)
<1>1. /\ phase = "parents" /\ Pending # {}
      /\ tree' = MakeDirectories(tree, parent)
      /\ phase' \in {"write", "failed"}
      /\ UNCHANGED <<content, inventory, seen, outputs, completed>>
    BY DEF MakeParents
<1>2. parent \in Seq(DOMAIN Fold)
    <2>1. Pending \in SUBSET Paths
        BY DEF Pending, IInv, Shape
    <2>2. path \in Paths
        BY <1>1, <2>1, FirstIsOne
    <2>3. path \in Seq(DOMAIN Fold) /\ path # << >>
        BY <2>2, PathsAre
    <2> HIDE DEF path
    <2>4. QED
        BY <2>3, FrontLast
<1> HIDE DEF path, parent
<1>3. IsTree(tree') /\ MoreDirectories(tree, tree')
    BY <1>1, <1>2, MakeDirectoriesKeeps DEF IInv, Shape
<1>4. Grown(tree, tree')
    BY <1>3 DEF MoreDirectories
<1>5. Settled' = Settled /\ Settled \subseteq inventory
    BY <1>1 DEF Settled, IInv, Shape
<1>6. \A p \in Settled : Status(tree', p) = "file" /\ FileAt(tree', p) = FileAt(tree, p)
    BY <1>3, <1>4, <1>5, TargetsInGrown DEF IInv, TargetsStand
<1>7. Shape'
    <2>1. Pending' = Pending
        BY <1>1 DEF Pending
    <2>2. \A l \in DOMAIN tree' : tree'[l].kind = "file" => tree'[l].file \in DOMAIN content'
        BY <1>1, <1>3, <1>4 DEF MoreDirectories, Grown, IInv, Shape
    <2>3. QED
        BY <1>1, <1>3, <2>1, <2>2 DEF IInv, Shape
<1>8. TargetsStand'
    <2>1. \A p \in DOMAIN seen : seen[p] # Absent => p \in Settled
        BY DEF Settled
    <2>2. QED
        BY <1>1, <1>5, <1>6, <2>1 DEF IInv, TargetsStand
<1>9. TargetsAreApart' /\ TargetsRead'
    BY <1>1, <1>5, <1>6 DEF IInv, TargetsAreApart, TargetsRead
<1>10. QED
    BY <1>3, <1>7, <1>8, <1>9 DEF IInv

(* The output that is written is a fragment's, and is not completed yet.   *)
LEMMA OutputIsPending ==
    ASSUME IInv, phase = "write"
    PROVE  LET path == First(Pending)
           IN  /\ path \in outputs /\ path \in inventory /\ path \in DOMAIN seen
               /\ path \notin Range(completed)
               /\ path \in Seq(DOMAIN Fold) /\ path # << >> /\ path \in Seq(Name)
<1> DEFINE path == First(Pending)
<1>1. Pending # {} /\ Pending \in SUBSET Paths
    BY DEF Pending, IInv, Shape
<1>2. path \in Pending
    BY <1>1, FirstIsOne
<1>3. path \in Paths
    BY <1>1, <1>2
<1> HIDE DEF path
<1>4. path \in Seq(DOMAIN Fold) /\ path # << >> /\ path \in Seq(Name)
    BY <1>3, PathsAre
<1>5. QED
    BY <1>2, <1>4 DEF Pending, IInv, Shape, path

(* What completing an output changes beside the disk.                      *)
LEMMA OutputIsCompleted ==
    ASSUME IInv, phase = "write", NEW path \in outputs,
           completed' = Append(completed, path),
           UNCHANGED <<inventory, seen, outputs>>
    PROVE  /\ completed' \in Seq(outputs') /\ Range(completed') = Range(completed) \cup {path}
           /\ Settled' = Settled \cup {path} /\ Settled \subseteq inventory
<1>1. completed \in Seq(outputs) /\ path \in DOMAIN seen /\ DOMAIN seen \subseteq inventory
    BY DEF IInv, Shape
<1>2. completed' \in Seq(outputs) /\ Range(completed') = Range(completed) \cup {path}
    BY <1>1, RangeOfAppend
<1>3. QED
    BY <1>1, <1>2 DEF Settled

(* A created target has a file of its own.                                 *)
LEMMA CreatedIsFound ==
    ASSUME IInv, phase = "write", NEW path, path = First(Pending), CreateTarget(path)
    PROVE  LET place == Place(tree, path)
           IN  /\ IsTree(tree') /\ Grown(tree, tree')
               /\ DOMAIN tree' = DOMAIN tree \cup {place} /\ place \notin DOMAIN tree
               /\ place \in Location
               /\ tree'[place] = [kind |-> "file", file |-> place]
               /\ Status(tree', path) = "file" /\ FileAt(tree', path) = place
               /\ DOMAIN content' = DOMAIN content \cup {place}
               /\ content'[place] = Zwirn(path)
               /\ \A f \in DOMAIN content : f # place => content'[f] = content[f]
<1> DEFINE place == Place(tree, path)
           entry == [kind |-> "file", file |-> place]
<1>1. /\ path \in Seq(DOMAIN Fold) /\ path # << >> /\ IsTree(tree)
    BY OutputIsPending DEF IInv, Shape
<1>2. /\ Vacant(tree, path)
      /\ tree' = Put(tree, place, entry)
      /\ content' = Put(content, place, Zwirn(path))
    BY DEF CreateTarget
<1>3. /\ place \in Location /\ place # << >> /\ place \notin DOMAIN tree
      /\ IsDirectory(tree, Front(place))
    BY <1>1, <1>2, VacantPlace
<1>4. Status(tree, Front(path)) = "directory" /\ Front(path) \in Seq(Name)
    BY <1>1, <1>2, NameIsLast DEF Vacant
<1> HIDE DEF place
<1>5. IsTree(tree') /\ Grown(tree, tree')
    <2>1. Fits(tree, place, entry)
        BY <1>3 DEF Fits
    <2> HIDE DEF entry
    <2>2. QED
        BY <1>1, <1>2, <2>1, PutGrows
<1>6. /\ DOMAIN tree' = DOMAIN tree \cup {place} /\ tree'[place] = entry
      /\ DOMAIN content' = DOMAIN content \cup {place} /\ content'[place] = Zwirn(path)
      /\ \A f \in DOMAIN content : f # place => content'[f] = content[f]
    BY <1>2 DEF Put
<1>7. Walk(tree', Front(path)) = Walk(tree, Front(path))
    BY <1>1, <1>4, <1>5, WalkInGrown
<1>8. Place(tree', path) = place /\ Status(tree', Front(path)) = "directory"
    BY <1>4, <1>7 DEF Place, Status, place
<1>9. IsFile(tree', place)
    BY <1>6 DEF IsFile
<1>10. Status(tree', path) = "file" /\ Walk(tree', path).at = place
    BY <1>1, <1>5, <1>8, <1>9, FileInPlaceIsFound
<1>11. FileAt(tree', path) = place
    BY <1>6, <1>10 DEF FileAt
<1>12. QED
    BY <1>3, <1>5, <1>6, <1>10, <1>11 DEF place

(* Creating a target keeps the invariant.                                  *)
LEMMA CreateTargetKeeps ==
    ASSUME IInv, phase = "write", NEW path, path = First(Pending), CreateTarget(path),
           completed' = Append(completed, path), UNCHANGED <<inventory, seen, outputs>>
    PROVE  IInv'
<1> DEFINE place == Place(tree, path)
<1>1. /\ seen[path] = Absent /\ phase' \in {"failed", "parents"}
    BY DEF CreateTarget
<1>2. /\ path \in outputs /\ path \in DOMAIN seen /\ path \notin Range(completed)
      /\ path \in inventory
    BY OutputIsPending
<1>3. /\ IsTree(tree') /\ Grown(tree, tree')
      /\ DOMAIN tree' = DOMAIN tree \cup {place} /\ place \notin DOMAIN tree
      /\ place \in Location
      /\ tree'[place] = [kind |-> "file", file |-> place]
      /\ Status(tree', path) = "file" /\ FileAt(tree', path) = place
      /\ DOMAIN content' = DOMAIN content \cup {place}
      /\ content'[place] = Zwirn(path)
      /\ \A f \in DOMAIN content : f # place => content'[f] = content[f]
    BY CreatedIsFound
<1> HIDE DEF place
<1>4. /\ completed' \in Seq(outputs') /\ Range(completed') = Range(completed) \cup {path}
      /\ Settled' = Settled \cup {path} /\ Settled \subseteq inventory
    BY <1>2, OutputIsCompleted
<1>5. path \notin Settled
    BY <1>1, <1>2 DEF Settled
<1>6. ASSUME NEW p \in Settled
      PROVE  /\ Status(tree', p) = "file" /\ FileAt(tree', p) = FileAt(tree, p)
             /\ FileAt(tree, p) # place
             /\ content'[FileAt(tree, p)] = content[FileAt(tree, p)]
    <2>1. Status(tree, p) = "file" /\ p \in inventory
        BY <1>4 DEF IInv, TargetsStand
    <2>2. Status(tree', p) = "file" /\ FileAt(tree', p) = FileAt(tree, p)
        BY <1>3, <2>1, TargetsInGrown
    <2>3. /\ FileAt(tree, p) \in DOMAIN content
          /\ FileAt(tree, p) \in Location => FileAt(tree, p) \in DOMAIN tree
        BY <2>1, FileIsThere DEF IInv
    <2>4. QED
        BY <1>3, <2>2, <2>3
<1>7. Shape'
    <2>1. \A l \in DOMAIN tree' : tree'[l].kind = "file" => tree'[l].file \in DOMAIN content'
        BY <1>3 DEF Grown, IInv, Shape
    <2>2. QED
        BY <1>1, <1>3, <1>4, <2>1 DEF IInv, Shape
<1>8. TargetsStand'
    <2>1. \A p \in DOMAIN seen : seen[p] # Absent => p \in Settled
        BY DEF Settled
    <2>2. QED
        BY <1>1, <1>3, <1>4, <1>6, <2>1 DEF IInv, TargetsStand
<1>9. TargetsAreApart'
    BY <1>3, <1>4, <1>6 DEF IInv, TargetsAreApart
<1>10. TargetsRead'
    <2>1. SUFFICES ASSUME NEW p \in Settled'
                   PROVE  content'[FileAt(tree', p)] =
                             IF p \in Range(completed') THEN Zwirn(p) ELSE seen[p].text
        BY DEF TargetsRead
    <2>2. CASE p = path
        BY <1>3, <1>4, <2>2
    <2>3. CASE p # path
        BY <1>4, <1>6, <2>3 DEF IInv, TargetsRead
    <2>4. QED
        BY <2>2, <2>3
<1>11. QED
    BY <1>7, <1>8, <1>9, <1>10 DEF IInv

(* Replacing a target keeps the invariant.                                 *)
LEMMA ReplaceTargetKeeps ==
    ASSUME IInv, phase = "write", NEW path, path = First(Pending), ReplaceTarget(path),
           completed' = Append(completed, path), UNCHANGED <<inventory, seen, outputs>>
    PROVE  IInv'
<1> DEFINE file == FileAt(tree, path)
<1>1. /\ seen[path] # Absent /\ Status(tree, path) = "file" /\ phase' = "parents"
      /\ content' = [content EXCEPT ![file] = Zwirn(path)]
      /\ tree' = tree
    BY DEF ReplaceTarget
<1>2. /\ path \in outputs /\ path \in DOMAIN seen /\ path \in inventory
    BY OutputIsPending
<1>3. file \in DOMAIN content
    BY <1>1, <1>2, FileIsThere DEF IInv
<1> HIDE DEF file
<1>4. /\ completed' \in Seq(outputs') /\ Range(completed') = Range(completed) \cup {path}
      /\ Settled' = Settled \cup {path}
    BY <1>2, OutputIsCompleted
<1>5. path \in Settled
    BY <1>1, <1>2 DEF Settled
<1>6. /\ DOMAIN content' = DOMAIN content /\ content'[file] = Zwirn(path)
      /\ \A f \in DOMAIN content : f # file => content'[f] = content[f]
    BY <1>1, <1>3
<1>7. Settled' = Settled /\ \A p : Status(tree', p) = Status(tree, p) /\ FileAt(tree', p) = FileAt(tree, p)
    BY <1>1, <1>4, <1>5
<1>8. Shape'
    BY <1>1, <1>4, <1>6 DEF IInv, Shape
<1>9. TargetsStand' /\ TargetsAreApart'
    BY <1>7 DEF IInv, TargetsStand, TargetsAreApart
<1>10. TargetsRead'
    <2>1. SUFFICES ASSUME NEW p \in Settled
                   PROVE  content'[FileAt(tree, p)] =
                             IF p \in Range(completed') THEN Zwirn(p) ELSE seen[p].text
        BY <1>7 DEF TargetsRead
    <2>2. CASE p = path
        BY <1>4, <1>6, <2>2 DEF file
    <2>3. CASE p # path
        <3>1. FileAt(tree, p) # file
            BY <1>5, <2>3 DEF IInv, TargetsAreApart, file
        <3>2. p \in inventory /\ Status(tree, p) = "file"
            BY DEF IInv, TargetsStand, Settled, Shape
        <3>3. FileAt(tree, p) \in DOMAIN content
            BY <3>2, FileIsThere DEF IInv
        <3>4. QED
            BY <1>4, <1>6, <2>3, <3>1, <3>3 DEF IInv, TargetsRead
    <2>4. QED
        BY <2>2, <2>3
<1>11. QED
    BY <1>8, <1>9, <1>10 DEF IInv

(* Writing a target keeps the invariant.                                   *)
LEMMA WriteTargetKeeps ==
    ASSUME IInv, WriteTarget
    PROVE  IInv'
<1> DEFINE path == First(Pending)
<1>1. /\ phase = "write"
      /\ CreateTarget(path) \/ ReplaceTarget(path)
      /\ completed' = Append(completed, path) /\ UNCHANGED <<inventory, seen, outputs>>
    BY DEF WriteTarget
<1>2. CASE CreateTarget(path)
    BY <1>1, <1>2, CreateTargetKeeps
<1>3. CASE ReplaceTarget(path)
    BY <1>1, <1>3, ReplaceTargetKeeps
<1>4. QED
    BY <1>1, <1>2, <1>3

(* Every step keeps the invariant.                                         *)
LEMMA NextKeeps == IInv /\ [Next]_vars => IInv'
<1> SUFFICES ASSUME IInv, [Next]_vars PROVE IInv'
    OBVIOUS
<1>1. CASE RefusePaths \/ RefuseTarget \/ FailTarget \/ Complete \/ Ended
    BY <1>1, EndKeeps
<1>2. CASE ReadTarget
    BY <1>2, ReadTargetKeeps
<1>3. ASSUME NEW chosen \in SUBSET inventory, Choose(chosen)
      PROVE  IInv'
    BY <1>3, ChooseKeeps
<1>4. CASE MakeParents
    BY <1>4, MakeParentsKeeps
<1>5. CASE WriteTarget
    BY <1>5, WriteTargetKeeps
<1>6. CASE UNCHANGED vars
    <2>1. Shape'
        BY <1>6 DEF vars, IInv, Shape, Pending
    <2>2. QED
        BY <1>6, <2>1, MovingOnKeeps DEF vars
<1>7. QED
    BY <1>1, <1>2, <1>3, <1>4, <1>5, <1>6 DEF Next

(* The targets' invariant holds of every command, on every tree.           *)
THEOREM TargetsInvariant == Spec => []IInv
<1>1. Init => IInv
    BY InitHolds
<1>2. IInv /\ [Next]_vars => IInv'
    BY NextKeeps
<1>3. QED
    BY <1>1, <1>2, PTL DEF Spec

(* What a completed command wrote to a path is what the path reads, and a  *)
(* target that was not written reads what discovery read, at every moment: *)
(* however names, links, and directories made in between resolve           *)
(* (TargetsReadAsLeft; commit_using, Inventory::discover_inner).           *)
THEOREM TargetsAreAsLeft == Spec => []TargetsReadAsLeft
<1>1. IInv => TargetsReadAsLeft
    <2> SUFFICES ASSUME IInv PROVE TargetsReadAsLeft
        OBVIOUS
    <2>1. WrittenIsReadBack
        <3>1. SUFFICES ASSUME phase = "completed", NEW p \in outputs
                       PROVE  Status(tree, p) = "file" /\ content[FileAt(tree, p)] = Zwirn(p)
            BY DEF WrittenIsReadBack
        <3>2. p \in Range(completed) /\ p \in DOMAIN seen
            BY <3>1 DEF IInv, Shape, Pending
        <3>3. p \in Settled
            BY <3>2 DEF Settled
        <3>4. QED
            BY <3>2, <3>3 DEF IInv, TargetsStand, TargetsRead
    <2>2. UnwrittenAreKept
        <3>1. SUFFICES ASSUME NEW p \in DOMAIN seen, p \notin Range(completed),
                              seen[p] # Absent
                       PROVE  /\ Status(tree, p) = "file"
                              /\ FileAt(tree, p) = seen[p].file
                              /\ content[FileAt(tree, p)] = seen[p].text
            BY DEF UnwrittenAreKept
        <3>2. p \in Settled
            BY <3>1 DEF Settled
        <3>3. QED
            BY <3>1, <3>2 DEF IInv, TargetsStand, TargetsRead
    <2>3. QED
        BY <2>1, <2>2 DEF TargetsReadAsLeft
<1>2. QED
    BY <1>1, TargetsInvariant, PTL

-----------------------------------------------------------------------------
(* Links that go down and up again                                         *)

\* A way that goes up after it has gone down.
IsUpward(todo) ==
    \E i, j \in DOMAIN todo : i < j /\ todo[i] # ".." /\ todo[j] = ".."
IsDownward(todo) == \A i \in DOMAIN todo : todo[i] # ".."

NoUpwardLinks(t) ==
    \A l \in DOMAIN t : t[l].kind = "link" => ~IsUpward(t[l].target)

(* After the first name there is no way up any more.                       *)
LEMMA RestOfWay ==
    ASSUME NEW todo \in Seq(Name), todo # << >>, ~IsUpward(todo)
    PROVE  /\ ~IsUpward(Tail(todo))
           /\ Head(todo) # ".." => IsDownward(Tail(todo))
<1>1. PICK l \in Nat : l = Len(Tail(todo))
    BY HeadTailProperties, LenProperties
<1>2. /\ DOMAIN todo = 1 .. l + 1 /\ DOMAIN Tail(todo) = 1 .. l
      /\ \A i \in 1 .. l : Tail(todo)[i] = todo[i + 1]
      /\ Head(todo) = todo[1]
    <2>1. Tail(todo) \in Seq(Name) /\ Len(Tail(todo)) = Len(todo) - 1
        BY HeadTailProperties
    <2>2. Len(todo) \in Nat /\ DOMAIN todo = 1 .. Len(todo)
        BY LenProperties
    <2>3. DOMAIN Tail(todo) = 1 .. Len(Tail(todo))
        BY <2>1, LenProperties
    <2>4. PICK k \in Nat : k = Len(todo)
        BY <2>2
    <2>5. k = l + 1
        BY <1>1, <2>1, <2>4
    <2>6. \A i \in 1 .. l : Tail(todo)[i] = todo[i + 1]
        BY <1>1, HeadTailProperties
    <2>7. QED
        BY <1>1, <2>2, <2>3, <2>4, <2>5, <2>6
<1>3. \A i \in 1 .. l : i + 1 \in 1 .. l + 1 /\ 1 \in 1 .. l + 1 /\ 1 < i + 1
    BY <1>1
<1>4. ~IsUpward(Tail(todo))
    <2>1. SUFFICES ASSUME NEW i \in 1 .. l, NEW j \in 1 .. l, i < j,
                          todo[i + 1] # "..", todo[j + 1] = ".."
                   PROVE  FALSE
        BY <1>2 DEF IsUpward
    <2>2. i + 1 < j + 1 /\ i + 1 \in 1 .. l + 1 /\ j + 1 \in 1 .. l + 1
        BY <1>1, <2>1
    <2>3. QED
        BY <1>2, <2>1, <2>2 DEF IsUpward
<1>5. ASSUME Head(todo) # ".."
      PROVE  IsDownward(Tail(todo))
    <2>1. SUFFICES ASSUME NEW i \in 1 .. l, todo[i + 1] = ".."
                   PROVE  FALSE
        BY <1>2 DEF IsDownward
    <2>2. QED
        BY <1>2, <1>3, <1>5, <2>1 DEF IsUpward
<1>6. QED
    BY <1>4, <1>5

(* Nor is there one behind a link which has none.                          *)
LEMMA WayOfLink ==
    ASSUME NEW target \in Seq(Name), NEW rest \in Seq(Name), ~IsUpward(target), IsDownward(rest)
    PROVE  ~IsUpward(target \o rest)
<1> DEFINE todo == target \o rest
<1>1. PICK m \in Nat, n \in Nat : m = Len(target) /\ n = Len(rest)
    BY LenProperties
<1>2. /\ todo \in Seq(Name) /\ Len(todo) = m + n
      /\ \A i \in 1 .. m + n : todo[i] = IF i <= m THEN target[i] ELSE rest[i - m]
    BY <1>1, ConcatProperties
<1> HIDE DEF todo
<1>3. DOMAIN todo = 1 .. m + n /\ DOMAIN target = 1 .. m /\ DOMAIN rest = 1 .. n
    BY <1>1, <1>2, LenProperties
<1>4. SUFFICES ASSUME NEW i \in 1 .. m + n, NEW j \in 1 .. m + n, i < j,
                      todo[i] # "..", todo[j] = ".."
               PROVE  FALSE
    BY <1>3 DEF IsUpward, todo
<1>5. j <= m
    <2>1. SUFFICES ASSUME j > m PROVE FALSE
        BY <1>1
    <2>2. j - m \in 1 .. n /\ ~(j <= m)
        BY <1>1, <2>1
    <2>3. todo[j] = rest[j - m]
        BY <1>2, <2>2
    <2>4. QED
        BY <1>3, <1>4, <2>2, <2>3 DEF IsDownward
<1>6. i \in 1 .. m /\ j \in 1 .. m /\ i <= m
    BY <1>1, <1>4, <1>5
<1>7. todo[i] = target[i] /\ todo[j] = target[j]
    BY <1>2, <1>5, <1>6
<1>8. QED
    BY <1>3, <1>4, <1>6, <1>7 DEF IsUpward

(* So walks go up only at the start of what is left to do.                 *)
LEMMA AdvanceIsNotUpward ==
    ASSUME NEW t, IsTree(t), NoUpwardLinks(t), NEW walk \in Step, ~IsUpward(walk.todo)
    PROVE  ~IsUpward(Advance(t, walk).todo)
<1> DEFINE name == Head(walk.todo)
           rest == Tail(walk.todo)
           place == Append(walk.at, Fold[name])
           next == Advance(t, walk)
<1>1. \A a, r, s : next = At(a, r, s) => next.todo = r
    BY DEF At
<1> HIDE DEF next
<1>2. CASE walk.status # "walking" \/ walk.todo = << >>
    BY <1>2, AdvanceByCase DEF next
<1>3. ASSUME walk.status = "walking", walk.todo # << >>
      PROVE  ~IsUpward(next.todo)
    <2>1. walk.todo \in Seq(Name) /\ rest \in Seq(Name)
        BY <1>3, StepIsItsFields, AdvanceByCase
    <2>2. ~IsUpward(rest) /\ (name # ".." => IsDownward(rest))
        BY <1>3, <2>1, RestOfWay
    <2>3. CASE next.todo = walk.todo \/ next.todo = rest
        BY <2>2, <2>3
    <2>4. CASE name = ".."
        <3>1. next = At(walk.at, walk.todo, "escape") \/ next = At(Front(walk.at), rest, "walking")
            BY <1>3, <2>4, AdvanceByCase DEF next
        <3>2. QED
            BY <1>1, <2>3, <3>1
    <2>5. CASE name # ".." /\ place \notin DOMAIN t
        <3>1. next = At(walk.at, walk.todo, "missing")
            BY <1>3, <2>5, AdvanceByCase DEF next
        <3>2. QED
            BY <1>1, <2>3, <3>1
    <2>6. CASE name # ".." /\ place \in DOMAIN t
        <3>1. t[place].kind \in {"directory", "link", "file"}
            BY <1>3, <2>6, AdvanceByCase
        <3>2. CASE t[place].kind = "directory"
            <4>1. next = At(place, rest, "walking")
                BY <1>3, <2>6, <3>2, AdvanceByCase DEF next
            <4>2. QED
                BY <1>1, <2>3, <4>1
        <3>3. CASE t[place].kind = "link"
            <4>1. /\ next = At(walk.at, t[place].target \o rest, "walking")
                  /\ t[place].target \in Seq(Name)
                BY <1>3, <2>6, <3>3, AdvanceByCase DEF next
            <4>2. ~IsUpward(t[place].target)
                BY <2>6, <3>3 DEF NoUpwardLinks
            <4>3. ~IsUpward(t[place].target \o rest)
                BY <2>1, <2>2, <2>6, <4>1, <4>2, WayOfLink
            <4>4. QED
                BY <1>1, <4>1, <4>3
        <3>4. CASE t[place].kind = "file" /\ rest = << >>
            <4>1. next = At(place, rest, "file")
                BY <1>3, <2>6, <3>4, AdvanceByCase DEF next
            <4>2. QED
                BY <1>1, <2>3, <4>1
        <3>5. CASE t[place].kind = "file" /\ rest # << >>
            <4>1. next = At(walk.at, walk.todo, "not a directory")
                BY <1>3, <2>6, <3>5, AdvanceByCase DEF next
            <4>2. QED
                BY <1>1, <2>3, <4>1
        <3>6. QED
            BY <3>1, <3>2, <3>3, <3>4, <3>5
    <2>7. QED
        BY <2>4, <2>5, <2>6
<1>4. QED
    BY <1>2, <1>3 DEF next

(* The names of a path lead down, and no step of it turns.                 *)
LEMMA StepsAreNotUpward ==
    ASSUME NEW t, IsTree(t), NoUpwardLinks(t), NEW path \in Seq(DOMAIN Fold), path \in Seq(Name)
    PROVE  \A n \in 0 .. Patience(path) : ~IsUpward(Steps(t, path)[n].todo)
<1> DEFINE N == Patience(path)
           w == Steps(t, path)
           T == {n \in 0 .. N : ~IsUpward(w[n].todo)}
<1>1. /\ N \in Nat /\ w[0] = Start(path)
      /\ \A n \in 1 .. N : w[n] = Advance(t, w[n - 1])
      /\ \A n \in 0 .. N : w[n] \in Step
    BY StepsStand
<1> HIDE DEF N, w
<1>2. 0 \in T
    <2>1. \A i \in DOMAIN path : path[i] \in DOMAIN Fold
        BY LenProperties, ElementOfSeq
    <2>2. ~IsUpward(path)
        BY <2>1, PathsAssumption DEF IsUpward
    <2>3. w[0].todo = path
        BY <1>1 DEF Start, At
    <2>4. QED
        BY <1>1, <2>2, <2>3
<1>3. ASSUME NEW n \in Nat, n \in T, n < N
      PROVE  n + 1 \in T
    <2>1. n + 1 \in 0 .. N /\ n + 1 \in 1 .. N /\ (n + 1) - 1 = n /\ n \in 0 .. N
        BY <1>1, <1>3
    <2>2. w[n + 1] = Advance(t, w[n]) /\ w[n] \in Step
        BY <1>1, <2>1
    <2>3. QED
        BY <1>3, <2>1, <2>2, AdvanceIsNotUpward
<1>4. \A n \in 0 .. N : n \in T
    <2> HIDE DEF T
    <2>1. QED
        BY <1>1, <1>2, <1>3, UpTo
<1>5. QED
    BY <1>4 DEF N, w

\* A walk that is among new directories, where there is nothing to find.
IsLost(t, t2, walk) ==
    \/ walk.status = "missing"
    \/ /\ walk.status = "walking" /\ IsDownward(walk.todo)
       /\ walk.at \in DOMAIN t2 /\ walk.at \notin DOMAIN t

(* Below a new directory there are new directories at most.                *)
LEMMA LostStayLost ==
    ASSUME NEW t, IsTree(t), NEW t2, IsTree(t2), MoreDirectories(t, t2),
           NEW walk \in Step, IsLost(t, t2, walk)
    PROVE  IsLost(t, t2, Advance(t2, walk))
<1> DEFINE name == Head(walk.todo)
           rest == Tail(walk.todo)
           place == Append(walk.at, Fold[name])
           next == Advance(t2, walk)
<1>1. CASE walk.status = "missing" \/ walk.todo = << >>
    BY <1>1, AdvanceByCase
<1>2. ASSUME walk.status = "walking", walk.todo # << >>
      PROVE  IsLost(t, t2, next)
    <2>1. /\ IsDownward(walk.todo) /\ walk.at \in DOMAIN t2 /\ walk.at \notin DOMAIN t
        BY <1>2 DEF IsLost
    <2>2. /\ walk.at \in Location /\ walk.todo \in Seq(Name) /\ name \in Name
          /\ rest \in Seq(Name)
        BY <1>2, StepIsItsFields, AdvanceByCase
    <2>3. name # ".." /\ IsDownward(rest)
        <3>1. PICK l \in Nat : l = Len(rest)
            BY <2>2, LenProperties
        <3>2. PICK k \in Nat : k = Len(walk.todo)
            BY <2>2, LenProperties
        <3>3. k = l + 1 /\ \A i \in 1 .. l : rest[i] = walk.todo[i + 1]
            BY <1>2, <2>2, <3>1, <3>2, HeadTailProperties
        <3>4. DOMAIN walk.todo = 1 .. k /\ DOMAIN rest = 1 .. l
            BY <2>2, <3>1, <3>2, LenProperties
        <3>5. 1 \in 1 .. k /\ \A i \in 1 .. l : i + 1 \in 1 .. k
            BY <3>1, <3>3
        <3>6. name = walk.todo[1]
            OBVIOUS
        <3> HIDE DEF name, rest
        <3>7. QED
            BY <2>1, <3>3, <3>4, <3>5, <3>6 DEF IsDownward
    <2>4. CASE place \notin DOMAIN t2
        <3>1. next = At(walk.at, walk.todo, "missing")
            BY <1>2, <2>3, <2>4, AdvanceByCase
        <3>2. next.status = "missing"
            BY <3>1 DEF At
        <3>3. QED
            BY <3>2 DEF IsLost
    <2>5. CASE place \in DOMAIN t2
        <3>1. Fold[name] \in Range(Fold)
            BY <2>2, <2>3 DEF Name, Range
        <3>2. Front(place) = walk.at
            BY <2>2, <3>1, FrontOfAppend DEF Location
        <3>3. walk.at # << >>
            BY <2>1 DEF IsTree, IsEntry
        <3>4. place \notin DOMAIN t
            BY <2>1, <3>2, <3>3 DEF IsTree, IsEntry
        <3>5. t2[place].kind = "directory"
            BY <2>5, <3>4 DEF MoreDirectories
        <3>6. next = At(place, rest, "walking")
            BY <1>2, <2>3, <2>5, <3>5, AdvanceByCase
        <3>7. next.at = place /\ next.todo = rest /\ next.status = "walking"
            BY <3>6 DEF At
        <3>8. QED
            BY <2>3, <2>5, <3>4, <3>7 DEF IsLost
    <2>6. QED
        BY <2>4, <2>5
<1>3. QED
    BY <1>1, <1>2 DEF IsLost

(* A step is the same with more directories, or it goes into a new one.    *)
LEMMA AdvanceOrLost ==
    ASSUME NEW t, IsTree(t), NEW t2, IsTree(t2), MoreDirectories(t, t2),
           NEW walk \in Step, ~IsUpward(walk.todo)
    PROVE  Advance(t2, walk) = Advance(t, walk) \/ IsLost(t, t2, Advance(t2, walk))
<1> DEFINE name == Head(walk.todo)
           rest == Tail(walk.todo)
           place == Append(walk.at, Fold[name])
<1>1. Grown(t, t2)
    BY DEF MoreDirectories
<1>2. CASE Advance(t, walk).status # "missing"
    BY <1>1, <1>2, AdvanceInGrown
<1>3. CASE walk.status # "walking" \/ walk.todo = << >>
    <2>1. Advance(t, walk) = walk
        BY <1>3, AdvanceByCase
    <2>2. Advance(t2, walk) = walk
        BY <1>3, AdvanceByCase
    <2>3. QED
        BY <2>1, <2>2
<1>4. ASSUME Advance(t, walk).status = "missing", walk.status = "walking", walk.todo # << >>
      PROVE  Advance(t2, walk) = Advance(t, walk) \/ IsLost(t, t2, Advance(t2, walk))
    <2>1. \A a, r, s : Advance(t, walk) = At(a, r, s) => s = "missing"
        BY <1>4 DEF At
    <2>2. name # ".."
        <3>1. name = ".." =>
                 \/ Advance(t, walk) = At(walk.at, walk.todo, "escape")
                 \/ Advance(t, walk) = At(Front(walk.at), rest, "walking")
            BY <1>4, AdvanceByCase
        <3>2. QED
            BY <2>1, <3>1
    <2>3. place \notin DOMAIN t
        <3>1. SUFFICES ASSUME place \in DOMAIN t PROVE FALSE
            OBVIOUS
        <3>2. t[place].kind \in {"directory", "link", "file"}
            BY <1>4, <2>2, <3>1, AdvanceByCase
        <3>3. t[place].kind = "directory" => Advance(t, walk) = At(place, rest, "walking")
            BY <1>4, <2>2, <3>1, AdvanceByCase
        <3>4. t[place].kind = "link" =>
                 Advance(t, walk) = At(walk.at, t[place].target \o rest, "walking")
            BY <1>4, <2>2, <3>1, AdvanceByCase
        <3>5. t[place].kind = "file" /\ rest = << >> => Advance(t, walk) = At(place, rest, "file")
            BY <1>4, <2>2, <3>1, AdvanceByCase
        <3>6. t[place].kind = "file" /\ rest # << >> =>
                 Advance(t, walk) = At(walk.at, walk.todo, "not a directory")
            BY <1>4, <2>2, <3>1, AdvanceByCase
        <3> HIDE DEF place, rest
        <3>7. QED
            BY <2>1, <3>2, <3>3, <3>4, <3>5, <3>6
    <2>4. Advance(t, walk) = At(walk.at, walk.todo, "missing")
        BY <1>4, <2>2, <2>3, AdvanceByCase
    <2>5. CASE place \notin DOMAIN t2
        <3>1. Advance(t2, walk) = At(walk.at, walk.todo, "missing")
            BY <1>4, <2>2, <2>5, AdvanceByCase
        <3>2. QED
            BY <2>4, <3>1
    <2>6. CASE place \in DOMAIN t2
        <3>1. t2[place].kind = "directory"
            BY <2>3, <2>6 DEF MoreDirectories
        <3>2. Advance(t2, walk) = At(place, rest, "walking")
            BY <1>4, <2>2, <2>6, <3>1, AdvanceByCase
        <3>3. walk.todo \in Seq(Name)
            BY StepIsItsFields
        <3>4. IsDownward(rest)
            BY <1>4, <2>2, <3>3, RestOfWay
        <3>5. /\ Advance(t2, walk).at = place /\ Advance(t2, walk).todo = rest
              /\ Advance(t2, walk).status = "walking"
            BY <3>2 DEF At
        <3>6. QED
            BY <2>3, <2>6, <3>4, <3>5 DEF IsLost
    <2>7. QED
        BY <2>5, <2>6
<1>5. QED
    BY <1>2, <1>3, <1>4

(* No path comes to a file by directories that are made.                   *)
LEMMA NoFileByDirectories ==
    ASSUME NEW t, IsTree(t), NoUpwardLinks(t), NEW t2, IsTree(t2), MoreDirectories(t, t2),
           NEW path \in Seq(DOMAIN Fold), path \in Seq(Name), Status(t2, path) = "file"
    PROVE  Status(t, path) = "file"
<1> DEFINE N == Patience(path)
           w == Steps(t, path)
           v == Steps(t2, path)
           T == {n \in 0 .. N : v[n] = w[n] \/ IsLost(t, t2, v[n])}
<1>1. /\ N \in Nat /\ w[0] = v[0]
      /\ \A n \in 1 .. N : w[n] = Advance(t, w[n - 1]) /\ v[n] = Advance(t2, v[n - 1])
      /\ \A n \in 0 .. N : w[n] \in Step /\ v[n] \in Step /\ ~IsUpward(w[n].todo)
    BY StepsStand, StepsAreNotUpward
<1>2. v[N].status = "file" /\ (w[N].status = "file" => Status(t, path) = "file")
    BY WalkEnds
<1> HIDE DEF N, w, v
<1>3. 0 \in T
    BY <1>1
<1>4. ASSUME NEW n \in Nat, n \in T, n < N
      PROVE  n + 1 \in T
    <2>1. n + 1 \in 0 .. N /\ n + 1 \in 1 .. N /\ (n + 1) - 1 = n /\ n \in 0 .. N
        BY <1>1, <1>4
    <2>2. /\ w[n + 1] = Advance(t, w[n]) /\ v[n + 1] = Advance(t2, v[n])
          /\ w[n] \in Step /\ v[n] \in Step /\ ~IsUpward(w[n].todo)
        BY <1>1, <2>1
    <2>3. CASE v[n] = w[n]
        BY <2>1, <2>2, <2>3, AdvanceOrLost
    <2>4. CASE IsLost(t, t2, v[n])
        BY <2>1, <2>2, <2>4, LostStayLost
    <2>5. QED
        BY <1>4, <2>3, <2>4
<1>5. N \in T
    <2> HIDE DEF T
    <2>1. \A n \in 0 .. N : n \in T
        BY <1>1, <1>3, <1>4, UpTo
    <2>2. QED
        BY <1>1, <2>1
<1>6. ~IsLost(t, t2, v[N])
    BY <1>2 DEF IsLost
<1>7. QED
    BY <1>2, <1>5, <1>6

-----------------------------------------------------------------------------
(* A file that is new                                                      *)

\* A tree with one more file.
MoreFile(t, t2, place) ==
    /\ Grown(t, t2) /\ place \notin DOMAIN t /\ DOMAIN t2 = DOMAIN t \cup {place}
    /\ t2[place].kind = "file"

\* A walk that has come upon the new file.
IsStopped(walk, place) ==
    walk.status = "not a directory" \/ (walk.status = "file" /\ walk.at = place)

(* A step is the same with one more file, or it stops there.               *)
LEMMA AdvanceOrStopped ==
    ASSUME NEW t, IsTree(t), NEW t2, IsTree(t2), NEW new, MoreFile(t, t2, new),
           NEW walk \in Step
    PROVE  Advance(t2, walk) = Advance(t, walk) \/ IsStopped(Advance(t2, walk), new)
<1> DEFINE name == Head(walk.todo)
           rest == Tail(walk.todo)
           place == Append(walk.at, Fold[name])
<1>1. Grown(t, t2)
    BY DEF MoreFile
<1>2. CASE Advance(t, walk).status # "missing"
    BY <1>1, <1>2, AdvanceInGrown
<1>3. CASE walk.status # "walking" \/ walk.todo = << >>
    <2>1. Advance(t, walk) = walk
        BY <1>3, AdvanceByCase
    <2>2. Advance(t2, walk) = walk
        BY <1>3, AdvanceByCase
    <2>3. QED
        BY <2>1, <2>2
<1>4. ASSUME walk.status = "walking", walk.todo # << >>, name = ".."
      PROVE  Advance(t, walk).status # "missing"
    <2>1. \/ Advance(t, walk) = At(walk.at, walk.todo, "escape")
          \/ Advance(t, walk) = At(Front(walk.at), rest, "walking")
        BY <1>4, AdvanceByCase
    <2>2. QED
        BY <2>1 DEF At
<1>5. ASSUME walk.status = "walking", walk.todo # << >>, name # "..", place \notin DOMAIN t2
      PROVE  Advance(t2, walk) = Advance(t, walk)
    <2>1. place \notin DOMAIN t
        BY <1>1, <1>5 DEF Grown
    <2>2. Advance(t2, walk) = At(walk.at, walk.todo, "missing")
        BY <1>5, AdvanceByCase
    <2>3. Advance(t, walk) = At(walk.at, walk.todo, "missing")
        BY <1>5, <2>1, AdvanceByCase
    <2>4. QED
        BY <2>2, <2>3
<1>6. ASSUME walk.status = "walking", walk.todo # << >>, name # "..", place = new
      PROVE  IsStopped(Advance(t2, walk), new)
    <2>1. place \in DOMAIN t2 /\ t2[place].kind = "file"
        BY <1>6 DEF MoreFile
    <2>2. rest = << >> => Advance(t2, walk) = At(place, rest, "file")
        BY <1>6, <2>1, AdvanceByCase
    <2>3. rest # << >> => Advance(t2, walk) = At(walk.at, walk.todo, "not a directory")
        BY <1>6, <2>1, AdvanceByCase
    <2>4. \A a, r, s : Advance(t2, walk) = At(a, r, s) =>
             Advance(t2, walk).status = s /\ Advance(t2, walk).at = a
        BY DEF At
    <2> HIDE DEF place, rest
    <2>5. QED
        BY <1>6, <2>2, <2>3, <2>4 DEF IsStopped
<1>7. ASSUME walk.status = "walking", walk.todo # << >>, name # "..", place \in DOMAIN t
      PROVE  Advance(t, walk).status # "missing"
    <2>1. t[place].kind \in {"directory", "link", "file"}
        BY <1>7, AdvanceByCase
    <2>2. t[place].kind = "directory" => Advance(t, walk) = At(place, rest, "walking")
        BY <1>7, AdvanceByCase
    <2>3. t[place].kind = "link" =>
             Advance(t, walk) = At(walk.at, t[place].target \o rest, "walking")
        BY <1>7, AdvanceByCase
    <2>4. t[place].kind = "file" /\ rest = << >> => Advance(t, walk) = At(place, rest, "file")
        BY <1>7, AdvanceByCase
    <2>5. t[place].kind = "file" /\ rest # << >> =>
             Advance(t, walk) = At(walk.at, walk.todo, "not a directory")
        BY <1>7, AdvanceByCase
    <2>6. \A a, r, s : Advance(t, walk) = At(a, r, s) => Advance(t, walk).status = s
        BY DEF At
    <2> HIDE DEF place, rest
    <2>7. QED
        BY <2>1, <2>2, <2>3, <2>4, <2>5, <2>6
<1>8. place \in DOMAIN t2 => place \in DOMAIN t \/ place = new
    BY DEF MoreFile
<1>9. QED
    BY <1>2, <1>3, <1>4, <1>5, <1>6, <1>7, <1>8

(* A path comes to no other file by one that is made.                      *)
LEMMA NoOtherFileByFile ==
    ASSUME NEW t, IsTree(t), NEW t2, IsTree(t2), NEW new, MoreFile(t, t2, new),
           NEW path \in Seq(Name), Status(t2, path) = "file", Walk(t2, path).at # new
    PROVE  Status(t, path) = "file"
<1> DEFINE N == Patience(path)
           w == Steps(t, path)
           v == Steps(t2, path)
           T == {n \in 0 .. N : v[n] = w[n] \/ IsStopped(v[n], new)}
<1>1. /\ N \in Nat /\ w[0] = v[0]
      /\ \A n \in 1 .. N : w[n] = Advance(t, w[n - 1]) /\ v[n] = Advance(t2, v[n - 1])
      /\ \A n \in 0 .. N : w[n] \in Step /\ v[n] \in Step
    BY StepsStand
<1>2. /\ v[N].status = "file" /\ v[N].at # new
      /\ w[N].status = "file" => Status(t, path) = "file"
    BY WalkEnds
<1> HIDE DEF N, w, v
<1>3. 0 \in T
    BY <1>1
<1>4. ASSUME NEW n \in Nat, n \in T, n < N
      PROVE  n + 1 \in T
    <2>1. n + 1 \in 0 .. N /\ n + 1 \in 1 .. N /\ (n + 1) - 1 = n /\ n \in 0 .. N
        BY <1>1, <1>4
    <2>2. /\ w[n + 1] = Advance(t, w[n]) /\ v[n + 1] = Advance(t2, v[n])
          /\ w[n] \in Step /\ v[n] \in Step
        BY <1>1, <2>1
    <2>3. CASE v[n] = w[n]
        BY <2>1, <2>2, <2>3, AdvanceOrStopped
    <2>4. CASE IsStopped(v[n], new)
        <3>1. v[n].status # "walking"
            BY <2>4 DEF IsStopped
        <3>2. v[n + 1] = v[n]
            BY <2>2, <3>1, AdvanceByCase
        <3>3. QED
            BY <2>1, <2>4, <3>2
    <2>5. QED
        BY <1>4, <2>3, <2>4
<1>5. N \in T
    <2> HIDE DEF T
    <2>1. \A n \in 0 .. N : n \in T
        BY <1>1, <1>3, <1>4, UpTo
    <2>2. QED
        BY <1>1, <2>1
<1>6. ~IsStopped(v[N], new)
    BY <1>2 DEF IsStopped
<1>7. QED
    BY <1>2, <1>5, <1>6

-----------------------------------------------------------------------------
(* No target is created twice                                              *)

\* A target that was absent and is not written yet leads to no file.
NewTargetsAreNowhere ==
    phase \notin {"refused", "failed"} =>
        \A p \in DOMAIN seen \ Settled : Status(tree, p) # "file"

AliasInv == NoUpwardLinks(tree) /\ NewTargetsAreNowhere

(* Every step leaves the new targets of a command that goes on nowhere.    *)
LEMMA NewTargetsStayNowhere ==
    ASSUME IInv, IInv', AliasInv, [Next]_vars
    PROVE  AliasInv'
<1>1. CASE UNCHANGED <<tree, seen, completed>> /\ (phase' \in {"refused", "failed"} \/ phase \notin {"refused", "failed"})
    <2>1. Settled' = Settled
        BY <1>1 DEF Settled
    <2>2. QED
        BY <1>1, <2>1 DEF AliasInv, NewTargetsAreNowhere, NoUpwardLinks, Status
<1>2. CASE UNCHANGED vars \/ Ended
    <2>1. UNCHANGED vars
        BY <1>2 DEF Ended
    <2>2. Settled' = Settled
        BY <2>1 DEF vars, Settled
    <2>3. QED
        BY <2>1, <2>2 DEF vars, AliasInv, NewTargetsAreNowhere, NoUpwardLinks, Status
<1>3. CASE RefusePaths \/ RefuseTarget \/ FailTarget \/ Complete
    BY <1>1, <1>3 DEF RefusePaths, RefuseTarget, FailTarget, Complete
<1>4. ASSUME NEW chosen \in SUBSET inventory, Choose(chosen)
      PROVE  AliasInv'
    BY <1>1, <1>4 DEF Choose
<1>5. CASE ReadTarget
    <2> DEFINE path == First(Unread)
               found == IF Status(tree, path) = "missing" THEN Absent
                        ELSE [file |-> FileAt(tree, path), text |-> content[FileAt(tree, path)]]
    <2>1. /\ phase = "discover" /\ Readable(path)
          /\ seen' = Put(seen, path, found)
          /\ UNCHANGED <<tree, phase, completed>>
        BY <1>5 DEF ReadTarget
    <2>2. found # Absent => Status(tree, path) # "missing"
        OBVIOUS
    <2>3. Status(tree, path) = "file" => path \in Settled'
        <3>1. SUFFICES ASSUME Status(tree, path) = "file"
                       PROVE  path \in Settled'
            OBVIOUS
        <3>2. path \in inventory
            <4>1. Unread \in SUBSET Paths /\ Unread # {}
                BY <1>5 DEF ReadTarget, Unread, IInv, Shape
            <4>2. path \in Unread
                BY <4>1, FirstIsOne
            <4>3. QED
                BY <4>2 DEF Unread
        <3>3. FileAt(tree, path) # << >>
            BY <3>1, <3>2, FileIsThere DEF IInv
        <3> DEFINE file == FileAt(tree, path)
        <3> HIDE DEF file
        <3>4. found = [file |-> file, text |-> content[file]]
            BY <3>1 DEF file
        <3> HIDE DEF found
        <3>5. found # Absent
            BY <3>3, <3>4 DEF Absent, file
        <3> HIDE DEF path
        <3>6. path \in DOMAIN seen' /\ seen'[path] = found
            BY <2>1 DEF Put
        <3>7. QED
            BY <3>5, <3>6 DEF Settled
    <2> HIDE DEF path, found
    <2>4. /\ DOMAIN seen' = DOMAIN seen \cup {path}
          /\ \A p \in DOMAIN seen : p # path => seen'[p] = seen[p]
        BY <2>1 DEF Put
    <2>5. \A p \in DOMAIN seen' \ Settled' : Status(tree, p) # "file"
        <3>1. SUFFICES ASSUME NEW p \in DOMAIN seen', p \notin Settled', p # path
                       PROVE  Status(tree, p) # "file"
            BY <2>3
        <3>2. p \in DOMAIN seen /\ seen'[p] = seen[p]
            BY <2>4, <3>1
        <3>3. p \notin Settled
            BY <2>1, <3>1, <3>2 DEF Settled
        <3>4. QED
            BY <2>1, <3>2, <3>3 DEF AliasInv, NewTargetsAreNowhere
    <2>6. QED
        BY <2>1, <2>5 DEF AliasInv, NewTargetsAreNowhere, NoUpwardLinks, Status
<1>6. CASE MakeParents
    <2>1. phase = "parents" /\ UNCHANGED <<seen, completed>>
        BY <1>6 DEF MakeParents
    <2>2. MoreDirectories(tree, tree') /\ IsTree(tree) /\ IsTree(tree')
        BY <1>6, MakeParentsKeeps DEF IInv, Shape
    <2>3. Settled' = Settled
        BY <2>1 DEF Settled
    <2>4. NoUpwardLinks(tree')
        BY <2>2 DEF AliasInv, NoUpwardLinks, MoreDirectories, Grown
    <2>5. ASSUME NEW p \in DOMAIN seen, p \notin Settled
          PROVE  Status(tree', p) # "file"
        <3>1. Status(tree, p) # "file"
            BY <2>1, <2>5 DEF AliasInv, NewTargetsAreNowhere
        <3>2. p \in Seq(DOMAIN Fold) /\ p \in Seq(Name)
            BY PathsAre DEF IInv, Shape
        <3>3. QED
            BY <2>2, <3>1, <3>2, NoFileByDirectories DEF AliasInv
    <2>6. QED
        BY <2>1, <2>3, <2>4, <2>5 DEF AliasInv, NewTargetsAreNowhere
<1>7. CASE WriteTarget
    <2> DEFINE path == First(Pending)
    <2>1. /\ phase = "write"
          /\ CreateTarget(path) \/ ReplaceTarget(path)
          /\ completed' = Append(completed, path) /\ UNCHANGED <<inventory, seen, outputs>>
        BY <1>7 DEF WriteTarget
    <2>2. path \in outputs
        BY <2>1, OutputIsPending
    <2> HIDE DEF path
    <2>3. Settled' = Settled \cup {path}
        BY <2>1, <2>2, OutputIsCompleted
    <2>4. CASE ReplaceTarget(path)
        <3>1. tree' = tree
            BY <2>4 DEF ReplaceTarget
        <3>2. QED
            BY <2>1, <2>3, <3>1 DEF AliasInv, NewTargetsAreNowhere, NoUpwardLinks, Status
    <2>5. CASE CreateTarget(path)
        <3> DEFINE place == Place(tree, path)
        <3>1. /\ IsTree(tree') /\ Grown(tree, tree')
              /\ DOMAIN tree' = DOMAIN tree \cup {place} /\ place \notin DOMAIN tree
              /\ tree'[place] = [kind |-> "file", file |-> place]
              /\ FileAt(tree', path) = place
            BY <2>1, <2>5, CreatedIsFound DEF path
        <3>2. phase' = IF Aliased(tree', path) THEN "failed" ELSE "parents"
            BY <2>5 DEF CreateTarget
        <3> HIDE DEF place
        <3>3. tree'[place].kind = "file" /\ tree'[place].file = place
            BY <3>1
        <3>4. MoreFile(tree, tree', place) /\ IsTree(tree)
            BY <3>1, <3>3 DEF MoreFile, IInv, Shape
        <3>5. NoUpwardLinks(tree')
            BY <3>1, <3>3 DEF AliasInv, NoUpwardLinks, Grown
        <3>6. ASSUME ~Aliased(tree', path),
                     NEW p \in DOMAIN seen, p \notin Settled, p # path,
                     Status(tree', p) = "file"
              PROVE  FALSE
            <4>1. Status(tree, p) # "file"
                BY <2>1, <3>6 DEF AliasInv, NewTargetsAreNowhere
            <4>2. seen[p] = Absent /\ p \in inventory
                BY <3>6 DEF Settled, IInv, Shape
            <4>3. FileAt(tree', p) # place
                BY <2>1, <3>1, <3>6, <4>2 DEF Aliased
            <4>4. Walk(tree', p).at # place
                BY <3>3, <4>3 DEF FileAt
            <4>5. p \in Seq(Name)
                BY <4>2, PathsAre DEF IInv, Shape
            <4>6. QED
                BY <3>1, <3>4, <3>6, <4>1, <4>4, <4>5, NoOtherFileByFile
        <3>7. QED
            BY <2>1, <2>3, <3>2, <3>5, <3>6 DEF AliasInv, NewTargetsAreNowhere
    <2>6. QED
        BY <2>1, <2>4, <2>5
<1>8. QED
    BY <1>2, <1>3, <1>4, <1>5, <1>6, <1>7 DEF Next

(* Where no link goes down and up again, a command that completes has      *)
(* created no target that is the file of another fragment target as well   *)
(* (CreatesNoAlias; SourceRoot::create_target). The run volume_upward      *)
(* shows what such a link does.                                            *)
THEOREM CommandCreatesNoAlias ==
    ASSUME \A t \in Trees : NoUpwardLinks(t)
    PROVE  Spec => []CreatesNoAlias
<1>1. Init => IInv /\ AliasInv
    <2> SUFFICES ASSUME Init PROVE IInv /\ AliasInv
        OBVIOUS
    <2>1. NoUpwardLinks(tree) /\ DOMAIN seen = {}
        BY DEF Init
    <2>2. QED
        BY <2>1, InitHolds DEF AliasInv, NewTargetsAreNowhere
<1>2. IInv /\ AliasInv /\ [Next]_vars => (IInv /\ AliasInv)'
    <2> SUFFICES ASSUME IInv, AliasInv, [Next]_vars
                 PROVE  (IInv /\ AliasInv)'
        OBVIOUS
    <2>1. IInv'
        BY NextKeeps
    <2>2. AliasInv'
        BY <2>1, NewTargetsStayNowhere
    <2>3. QED
        BY <2>1, <2>2
<1>3. IInv /\ AliasInv => CreatesNoAlias
    <2> SUFFICES ASSUME IInv, AliasInv, phase = "completed", NEW p \in outputs, NEW q \in inventory,
                        seen[p] = Absent, p # q, Status(tree, q) = "file"
                 PROVE  FileAt(tree, p) # FileAt(tree, q)
        BY DEF CreatesNoAlias
    <2>1. p \in DOMAIN seen /\ q \in DOMAIN seen /\ p \in Range(completed)
        BY DEF IInv, Shape, Pending
    <2>2. p \in Settled /\ q \in Settled
        BY <2>1 DEF Settled, AliasInv, NewTargetsAreNowhere
    <2>3. QED
        BY <2>2 DEF IInv, TargetsAreApart
<1>4. QED
    BY <1>1, <1>2, <1>3, PTL DEF Spec

-----------------------------------------------------------------------------
(* Trees without links and names that stay as they are                     *)

HasNoLinks(t) == \A l \in DOMAIN t : t[l].kind # "link"
IsPlain(path) == path \in Seq(DOMAIN Fold) /\ \A i \in DOMAIN path : Fold[path[i]] = path[i]

(* The prefixes of a plain path are plain, and are places.                 *)
LEMMA PlainPrefix ==
    ASSUME NEW path, IsPlain(path), NEW n \in 0 .. Len(path)
    PROVE  /\ IsPlain(SubSeq(path, 1, n)) /\ SubSeq(path, 1, n) \in Seq(Name)
           /\ SubSeq(path, 1, n) \in Location /\ Len(SubSeq(path, 1, n)) = n
           /\ n # 0 => SubSeq(path, 1, n) # << >>
<1> DEFINE q == SubSeq(path, 1, n)
<1>1. /\ path \in Seq(DOMAIN Fold) /\ Len(path) \in Nat /\ DOMAIN path = 1 .. Len(path)
      /\ \A i \in 1 .. Len(path) : path[i] \in DOMAIN Fold /\ Fold[path[i]] = path[i]
    BY LenProperties, ElementOfSeq DEF IsPlain
<1>2. /\ q \in Seq(DOMAIN Fold) /\ Len(q) = n /\ DOMAIN q = 1 .. n
      /\ \A i \in 1 .. n : q[i] = path[i]
      /\ n # 0 => q # << >>
    BY <1>1, PrefixIsPath, LenProperties
<1> HIDE DEF q
<1>3. \A i \in 1 .. n : i \in 1 .. Len(path)
    BY <1>1
<1>4. \A i \in 1 .. n : q[i] \in DOMAIN Fold /\ Fold[q[i]] = q[i]
    BY <1>1, <1>2, <1>3
<1>5. IsPlain(q) /\ q \in Seq(Name)
    BY <1>2, <1>4, SeqMonotonic DEF IsPlain, Name
<1>6. q \in Location
    <2>1. q \in Seq(Range(Fold))
        <3>1. \A i \in 1 .. n : q[i] \in Range(Fold)
            BY <1>4 DEF Range
        <3>2. q \in [1 .. n -> Range(Fold)]
            <4>1. q \in [1 .. n -> DOMAIN Fold]
                BY <1>2, LenProperties
            <4>2. QED
                BY <3>1, <4>1
        <3>3. n \in Nat
            BY <1>1
        <3>4. QED
            BY <3>2, <3>3, SeqDef
    <2>2. QED
        BY <2>1 DEF Location
<1>7. QED
    BY <1>2, <1>5, <1>6 DEF q

(* One prefix is the next one's front.                                     *)
LEMMA NextPrefix ==
    ASSUME NEW S, NEW path \in Seq(S), NEW n \in Nat, n < Len(path)
    PROVE  /\ SubSeq(path, 1, n + 1) = Append(SubSeq(path, 1, n), path[n + 1])
           /\ Front(SubSeq(path, 1, n + 1)) = SubSeq(path, 1, n)
           /\ Last(SubSeq(path, 1, n + 1)) = path[n + 1]
           /\ path[n + 1] \in S
<1>1. PICK l \in Nat : l = Len(path)
    BY LenProperties
<1>2. n \in 0 .. l /\ n + 1 \in 0 .. l /\ n + 1 \in 1 .. l /\ \A i \in 1 .. n : i \in 1 .. n + 1
    BY <1>1
<1> DEFINE p == SubSeq(path, 1, n)
           q == SubSeq(path, 1, n + 1)
<1>3. /\ p \in Seq(S) /\ Len(p) = n /\ \A i \in 1 .. n : p[i] = path[i]
      /\ q \in Seq(S) /\ Len(q) = n + 1 /\ \A i \in 1 .. n + 1 : q[i] = path[i]
    BY <1>1, <1>2, PrefixIsPath
<1>4. path[n + 1] \in S
    BY <1>1, <1>2, ElementOfSeq
<1> HIDE DEF p, q
<1> DEFINE r == Append(p, path[n + 1])
<1>5. /\ r \in Seq(S) /\ Len(r) = n + 1 /\ \A i \in 1 .. n : r[i] = p[i]
      /\ r[n + 1] = path[n + 1]
    BY <1>3, <1>4, AppendProperties
<1> HIDE DEF r
<1>6. \A i \in 1 .. n + 1 : q[i] = r[i]
    <2>1. SUFFICES ASSUME NEW i \in 1 .. n + 1 PROVE q[i] = r[i]
        OBVIOUS
    <2>2. i = n + 1 \/ i \in 1 .. n
        OBVIOUS
    <2>3. QED
        BY <1>3, <1>5, <2>2
<1>7. q = r
    BY <1>3, <1>5, <1>6, SeqEqual
<1>8. Front(r) = p /\ Last(r) = path[n + 1]
    BY <1>3, <1>4, FrontOfAppend DEF r
<1>9. QED
    BY <1>4, <1>7, <1>8 DEF p, q, r

(* As far as its prefixes are directories, a plain path is walked.         *)
LEMMA PlainSteps ==
    ASSUME NEW t, IsTree(t), NEW path, IsPlain(path), NEW k \in 0 .. Len(path),
           \A i \in 1 .. k : IsDirectory(t, SubSeq(path, 1, i))
    PROVE  Steps(t, path)[k] = At(SubSeq(path, 1, k), SubSeq(path, k + 1, Len(path)), "walking")
<1> DEFINE N == Patience(path)
           w == Steps(t, path)
           T == {n \in 0 .. k : w[n] = At(SubSeq(path, 1, n), SubSeq(path, n + 1, Len(path)), "walking")}
<1>1. PICK l \in Nat : l = Len(path)
    BY LenProperties DEF IsPlain
<1>2. path \in Seq(DOMAIN Fold) /\ path \in Seq(Name) /\ SubSeq(path, 1, l) = path
    BY <1>1, SeqMonotonic, SubSeqFull DEF IsPlain, Name
<1>3. /\ N \in Nat /\ N >= l /\ w[0] = Start(path)
      /\ \A n \in 1 .. N : w[n] = Advance(t, w[n - 1])
      /\ \A n \in 0 .. N : w[n] \in Step
    BY <1>1, <1>2, StepsStand
<1> HIDE DEF N, w
<1>4. k \in Nat /\ k <= l
    BY <1>1
<1>5. 0 \in T
    <2>1. SubSeq(path, 1, 0) = << >>
        BY SubSeqEmpty
    <2>2. SubSeq(path, 0 + 1, Len(path)) = path
        <3>1. 0 + 1 = 1
            OBVIOUS
        <3>2. QED
            BY <1>1, <1>2, <3>1
    <2>3. w[0] = At(SubSeq(path, 1, 0), SubSeq(path, 0 + 1, Len(path)), "walking")
        BY <1>3, <2>1, <2>2 DEF Start, At
    <2>4. QED
        BY <1>4, <2>3
<1>6. ASSUME NEW n \in Nat, n \in T, n < k
      PROVE  n + 1 \in T
    <2>1. /\ n < l /\ n + 1 \in 0 .. k /\ n + 1 \in 1 .. k /\ n + 1 \in 1 .. N
          /\ n \in 0 .. N /\ (n + 1) - 1 = n /\ n + 1 \in 1 .. l /\ n + 1 \in 0 .. l
          /\ n + 1 # 0 /\ l \in n + 1 .. l
        BY <1>3, <1>4, <1>6
    <2> DEFINE name == path[n + 1]
               todo == SubSeq(path, n + 1, l)
               rest == SubSeq(path, n + 2, l)
               place == SubSeq(path, 1, n + 1)
               here == SubSeq(path, 1, n)
    <2>2. w[n] = At(here, todo, "walking") /\ w[n + 1] = Advance(t, w[n]) /\ w[n] \in Step
        BY <1>1, <1>3, <1>6, <2>1
    <2>3. /\ name \in DOMAIN Fold /\ Fold[name] = name /\ name # ".."
        <3>1. DOMAIN path = 1 .. l
            BY <1>1, <1>2, LenProperties
        <3>2. QED
            BY <1>1, <1>2, <2>1, <3>1, ElementOfSeq, PathsAssumption DEF IsPlain
    <2>4. place = Append(here, name)
        BY <1>1, <1>2, <2>1, NextPrefix
    <2>5. place # << >> /\ IsDirectory(t, place)
        BY <1>1, <1>2, <2>1, PlainPrefix
    <2>6. Head(todo) = name /\ Tail(todo) = rest
        <3>1. (n + 1) + 1 = n + 2
            OBVIOUS
        <3>2. QED
            BY <1>1, <1>2, <2>1, <3>1, HeadTailOfSubSeq
    <2>7. todo # << >>
        <3>1. todo = <<path[n + 1]>> \o SubSeq(path, (n + 1) + 1, l)
            BY <1>1, <1>2, <2>1, SubSeqRecursiveFirst
        <3>2. n + 1 <= l /\ n + 1 \in Int /\ l \in Int /\ l - (n + 1) + 1 >= 1
            BY <1>1, <2>1
        <3>3. \A i \in n + 1 .. l : path[i] \in DOMAIN Fold
            BY <1>1, <1>2, ElementOfSeq
        <3>4. Len(todo) = l - (n + 1) + 1
            BY <3>2, <3>3, SubSeqProperties
        <3>5. Len(todo) # 0
            BY <3>2, <3>4
        <3>6. Len(<< >>) = 0
            OBVIOUS
        <3>7. QED
            BY <3>5, <3>6
    <2> HIDE DEF name, todo, rest, place, here
    <2>8. w[n].at = here /\ w[n].todo = todo /\ w[n].status = "walking"
        BY <2>2 DEF At
    <2>9. place \in DOMAIN t /\ t[place].kind = "directory"
        BY <2>5 DEF IsDirectory
    <2>10. Append(w[n].at, Fold[Head(w[n].todo)]) = place
        BY <2>3, <2>4, <2>6, <2>8
    <2>11. Advance(t, w[n]) = At(place, rest, "walking")
        BY <2>2, <2>3, <2>6, <2>7, <2>8, <2>9, <2>10, AdvanceByCase
    <2>12. w[n + 1] = At(SubSeq(path, 1, n + 1), SubSeq(path, (n + 1) + 1, l), "walking")
        <3>1. (n + 1) + 1 = n + 2
            OBVIOUS
        <3>2. QED
            BY <2>2, <2>11, <3>1 DEF place, rest
    <2>13. QED
        BY <1>1, <2>1, <2>12
<1>7. \A n \in 0 .. k : n \in T
    <2> HIDE DEF T
    <2>1. QED
        BY <1>4, <1>5, <1>6, UpTo
<1>8. k \in T
    BY <1>4, <1>7
<1>9. QED
    BY <1>8 DEF w

(* A plain path on which everything is a directory is one.                 *)
LEMMA PlainDirectory ==
    ASSUME NEW t, IsTree(t), NEW path, IsPlain(path),
           \A i \in 1 .. Len(path) : IsDirectory(t, SubSeq(path, 1, i))
    PROVE  Status(t, path) = "directory" /\ Walk(t, path).at = path
<1>1. PICK l \in Nat : l = Len(path)
    BY LenProperties DEF IsPlain
<1>2. path \in Seq(DOMAIN Fold) /\ path \in Seq(Name) /\ SubSeq(path, 1, l) = path
    BY <1>1, SeqMonotonic, SubSeqFull DEF IsPlain, Name
<1>3. SubSeq(path, l + 1, l) = << >>
    BY <1>1, SubSeqEmpty
<1>4. Steps(t, path)[l] = At(path, << >>, "walking")
    <2>1. l \in 0 .. Len(path) /\ \A i \in 1 .. l : IsDirectory(t, SubSeq(path, 1, i))
        BY <1>1
    <2>2. Steps(t, path)[l] = At(SubSeq(path, 1, l), SubSeq(path, l + 1, Len(path)), "walking")
        BY <2>1, PlainSteps
    <2>3. QED
        BY <1>1, <1>2, <1>3, <2>2
<1>5. Steps(t, path)[l].todo = << >>
    BY <1>4 DEF At
<1>6. Patience(path) \in Nat /\ Patience(path) >= l
    BY <1>1, <1>2, StepsStand
<1>7. l \in 0 .. Patience(path) /\ Patience(path) \in l .. Patience(path)
    BY <1>1, <1>6
<1>8. Steps(t, path)[Patience(path)] = At(path, << >>, "walking")
    BY <1>2, <1>4, <1>5, <1>7, StepsRest
<1>9. /\ Steps(t, path)[Patience(path)].status = "walking"
      /\ Steps(t, path)[Patience(path)].todo = << >>
      /\ Steps(t, path)[Patience(path)].at = path
    BY <1>8 DEF At
<1>10. QED
    BY <1>2, <1>9, WalkEnds

(* An entry lies below directories only.                                   *)
LEMMA EntryIsBelowDirectories ==
    ASSUME NEW t, IsTree(t), NEW l \in DOMAIN t, NEW n \in 1 .. Len(l) - 1
    PROVE  IsDirectory(t, SubSeq(l, 1, n))
<1>1. l \in Location /\ l # << >>
    BY DEF IsTree, IsEntry
<1>2. PICK m \in Nat : m = Len(l)
    BY <1>1, LenProperties DEF Location
<1>3. SubSeq(l, 1, m) = l /\ m # 0
    BY <1>1, <1>2, SubSeqFull, EmptySeq DEF Location
<1> DEFINE N == m - 1
           T == {k \in 0 .. N : SubSeq(l, 1, m - k) \in DOMAIN t}
<1>4. N \in Nat /\ m - 0 = m /\ m \in Nat \ {0}
    BY <1>2, <1>3
<1>5. ASSUME NEW k \in Nat, 1 <= k, k < m, SubSeq(l, 1, k + 1) \in DOMAIN t
      PROVE  SubSeq(l, 1, k) \in DOMAIN t /\ IsDirectory(t, SubSeq(l, 1, k))
    <2>1. Front(SubSeq(l, 1, k + 1)) = SubSeq(l, 1, k)
        BY <1>1, <1>2, <1>5, NextPrefix DEF Location
    <2>2. SubSeq(l, 1, k) # << >>
        <3>1. k \in 0 .. Len(l) /\ k # 0
            BY <1>2, <1>5
        <3>2. QED
            BY <1>1, <3>1, PrefixIsPath DEF Location
    <2>3. IsEntry(t, SubSeq(l, 1, k + 1))
        BY <1>5 DEF IsTree
    <2>4. QED
        BY <2>1, <2>2, <2>3 DEF IsEntry, IsDirectory
<1>6. 0 \in T
    <2>1. 0 \in 0 .. N
        BY <1>4
    <2>2. SubSeq(l, 1, m - 0) \in DOMAIN t
        BY <1>3, <1>4
    <2>3. QED
        BY <2>1, <2>2
<1>7. ASSUME NEW k \in Nat, k \in T, k < N
      PROVE  k + 1 \in T
    <2>1. /\ m - (k + 1) \in Nat /\ 1 <= m - (k + 1) /\ m - (k + 1) < m
          /\ (m - (k + 1)) + 1 = m - k /\ k + 1 \in 0 .. N
        BY <1>4, <1>7
    <2>2. SubSeq(l, 1, (m - (k + 1)) + 1) \in DOMAIN t
        BY <1>7, <2>1
    <2>3. QED
        BY <1>5, <2>1, <2>2
<1>8. \A k \in 0 .. N : k \in T
    <2> HIDE DEF T
    <2>1. QED
        BY <1>4, <1>6, <1>7, UpTo
<1>9. /\ m - (n + 1) \in 0 .. N /\ m - (m - (n + 1)) = n + 1
      /\ n \in Nat /\ 1 <= n /\ n < m
    BY <1>2, <1>4
<1>10. SubSeq(l, 1, n + 1) \in DOMAIN t
    BY <1>8, <1>9
<1>11. QED
    BY <1>5, <1>9, <1>10

(* A prefix of a prefix is one of the path.                                *)
LEMMA PrefixOfPrefix ==
    ASSUME NEW S, NEW path \in Seq(S), NEW n \in 0 .. Len(path), NEW i \in 0 .. n
    PROVE  SubSeq(SubSeq(path, 1, n), 1, i) = SubSeq(path, 1, i)
<1>1. PICK l \in Nat : l = Len(path)
    BY LenProperties
<1>2. n \in Nat /\ i \in Nat /\ i <= n /\ i \in 0 .. l /\ \A j \in 1 .. i : j \in 1 .. n
    BY <1>1
<1> DEFINE p == SubSeq(path, 1, n)
           a == SubSeq(p, 1, i)
           b == SubSeq(path, 1, i)
<1>3. p \in Seq(S) /\ Len(p) = n /\ \A j \in 1 .. n : p[j] = path[j]
    BY PrefixIsPath
<1>4. b \in Seq(S) /\ Len(b) = i /\ \A j \in 1 .. i : b[j] = path[j]
    BY <1>1, <1>2, PrefixIsPath
<1> HIDE DEF p, b
<1>5. a \in Seq(S) /\ Len(a) = i /\ \A j \in 1 .. i : a[j] = p[j]
    BY <1>2, <1>3, PrefixIsPath
<1> HIDE DEF a
<1>6. \A j \in 1 .. i : a[j] = b[j]
    BY <1>2, <1>3, <1>4, <1>5
<1>7. a = b
    BY <1>4, <1>5, <1>6, SeqEqual
<1>8. QED
    BY <1>7 DEF a, b, p

(* Where the directories on a plain path end, its walk ends.               *)
LEMMA PlainStop ==
    ASSUME NEW t, IsTree(t), NEW path, IsPlain(path), NEW k \in Nat, k < Len(path),
           \A i \in 1 .. k : IsDirectory(t, SubSeq(path, 1, i)),
           NEW place, place = SubSeq(path, 1, k + 1)
    PROVE  /\ place \notin DOMAIN t => Status(t, path) = "missing"
           /\ IsFile(t, place) /\ k + 1 = Len(path) =>
                 Status(t, path) = "file" /\ Walk(t, path).at = path
           /\ IsFile(t, place) /\ k + 1 # Len(path) => Status(t, path) = "not a directory"
<1>1. PICK l \in Nat : l = Len(path)
    BY LenProperties DEF IsPlain
<1>2. path \in Seq(DOMAIN Fold) /\ path \in Seq(Name) /\ SubSeq(path, 1, l) = path
    BY <1>1, SeqMonotonic, SubSeqFull DEF IsPlain, Name
<1> DEFINE N == Patience(path)
           w == Steps(t, path)
           name == path[k + 1]
           todo == SubSeq(path, k + 1, l)
           rest == SubSeq(path, k + 2, l)
           here == SubSeq(path, 1, k)
<1>3. /\ N \in Nat /\ N >= l
      /\ \A n \in 1 .. N : w[n] = Advance(t, w[n - 1])
      /\ \A n \in 0 .. N : w[n] \in Step
    BY <1>1, <1>2, StepsStand
<1>4. w[k] = At(here, todo, "walking")
    <2>1. k \in 0 .. Len(path)
        BY <1>1
    <2>2. w[k] = At(SubSeq(path, 1, k), SubSeq(path, k + 1, Len(path)), "walking")
        BY <2>1, PlainSteps
    <2>3. QED
        BY <1>1, <2>2
<1> HIDE DEF N, w
<1>5. /\ k < l /\ k + 1 \in 1 .. l /\ k + 1 \in 1 .. N /\ k \in 0 .. N /\ (k + 1) - 1 = k
      /\ k + 1 \in 0 .. N /\ N \in (k + 1) .. N /\ l \in (k + 1) .. l
    BY <1>1, <1>3
<1>6. w[k + 1] = Advance(t, w[k]) /\ w[k] \in Step
    BY <1>3, <1>5
<1>7. name \in DOMAIN Fold /\ Fold[name] = name /\ name # ".."
    <2>1. DOMAIN path = 1 .. l
        BY <1>1, <1>2, LenProperties
    <2>2. QED
        BY <1>1, <1>2, <1>5, <2>1, ElementOfSeq, PathsAssumption DEF IsPlain
<1>8. place = Append(here, name)
    BY <1>1, <1>2, NextPrefix
<1>9. Head(todo) = name /\ Tail(todo) = rest
    <2>1. (k + 1) + 1 = k + 2
        OBVIOUS
    <2>2. QED
        BY <1>1, <1>2, <1>5, <2>1, HeadTailOfSubSeq
<1>10. /\ todo # << >>
       /\ k + 1 = l => rest = << >>
       /\ k + 1 # l => rest # << >>
    <2>1. \A i \in k + 1 .. l : path[i] \in DOMAIN Fold
        BY <1>1, <1>2, ElementOfSeq
    <2>2. \A i \in k + 2 .. l : path[i] \in DOMAIN Fold
        BY <1>1, <1>2, ElementOfSeq
    <2>3. Len(todo) = l - (k + 1) + 1
        <3>1. k + 1 \in Int /\ l \in Int /\ k + 1 <= l
            BY <1>1, <1>5
        <3>2. QED
            BY <2>1, <3>1, SubSeqProperties
    <2>4. k + 1 = l => rest = << >>
        <3>1. k + 2 \in Int /\ l \in Int /\ (k + 1 = l => l < k + 2)
            BY <1>1
        <3>2. QED
            BY <3>1, SubSeqEmpty
    <2>5. k + 1 # l => Len(rest) = l - (k + 2) + 1
        <3>1. k + 2 \in Int /\ l \in Int /\ (k + 1 # l => k + 2 <= l)
            BY <1>1, <1>5
        <3>2. QED
            BY <2>2, <3>1, SubSeqProperties
    <2>6. l - (k + 1) + 1 # 0 /\ (k + 1 # l => l - (k + 2) + 1 # 0)
        BY <1>1, <1>5
    <2>7. Len(<< >>) = 0
        OBVIOUS
    <2> HIDE DEF todo, rest
    <2>8. QED
        BY <2>3, <2>4, <2>5, <2>6, <2>7
<1> HIDE DEF name, todo, rest, here
<1>11. w[k].at = here /\ w[k].todo = todo /\ w[k].status = "walking"
    BY <1>4 DEF At
<1>12. Append(w[k].at, Fold[Head(w[k].todo)]) = place
    BY <1>7, <1>8, <1>9, <1>11
<1>13. w[N].status # "walking" => Status(t, path) = w[N].status /\ Walk(t, path).at = w[N].at
    BY <1>2, WalkEnds DEF N, w
<1>14. w[k + 1].status # "walking" => w[N] = w[k + 1]
    BY <1>2, <1>5, StepsRest DEF N, w
<1>15. ASSUME place \notin DOMAIN t PROVE Status(t, path) = "missing"
    <2>1. w[k + 1] = At(here, todo, "missing")
        BY <1>6, <1>7, <1>9, <1>10, <1>11, <1>12, <1>15, AdvanceByCase
    <2>2. w[k + 1].status = "missing"
        BY <2>1 DEF At
    <2>3. QED
        BY <1>13, <1>14, <2>2
<1>16. ASSUME IsFile(t, place), k + 1 = Len(path)
       PROVE  Status(t, path) = "file" /\ Walk(t, path).at = path
    <2>1. w[k + 1] = At(place, rest, "file")
        <3>1. place \in DOMAIN t /\ t[place].kind = "file" /\ rest = << >>
            BY <1>1, <1>10, <1>16 DEF IsFile
        <3>2. QED
            BY <1>6, <1>7, <1>9, <1>10, <1>11, <1>12, <3>1, AdvanceByCase
    <2>2. w[k + 1].status = "file" /\ w[k + 1].at = place
        BY <2>1 DEF At
    <2>3. place = path
        BY <1>1, <1>2, <1>16
    <2>4. QED
        BY <1>13, <1>14, <2>2, <2>3
<1>17. ASSUME IsFile(t, place), k + 1 # Len(path)
       PROVE  Status(t, path) = "not a directory"
    <2>1. w[k + 1] = At(here, todo, "not a directory")
        <3>1. place \in DOMAIN t /\ t[place].kind = "file" /\ rest # << >>
            BY <1>1, <1>10, <1>17 DEF IsFile
        <3>2. QED
            BY <1>6, <1>7, <1>9, <1>10, <1>11, <1>12, <3>1, AdvanceByCase
    <2>2. w[k + 1].status = "not a directory"
        <3>1. \A s : At(here, todo, s).status = s
            BY DEF At
        <3>2. QED
            BY <2>1, <3>1
    <2>3. QED
        BY <1>13, <1>14, <2>2
<1>18. QED
    BY <1>15, <1>16, <1>17

(* In a tree without links a plain path leads to its own place or stops at *)
(* the first of its prefixes that is no directory.                         *)
LEMMA PlainStatus ==
    ASSUME NEW t, IsTree(t), HasNoLinks(t), NEW path, IsPlain(path)
    PROVE  \/ /\ Status(t, path) = "directory" /\ Walk(t, path).at = path
              /\ \A i \in 1 .. Len(path) : IsDirectory(t, SubSeq(path, 1, i))
           \/ Status(t, path) = "file" /\ Walk(t, path).at = path /\ IsFile(t, path)
           \/ /\ Status(t, path) = "missing"
              /\ \E i \in 1 .. Len(path) : SubSeq(path, 1, i) \notin DOMAIN t
           \/ /\ Status(t, path) = "not a directory"
              /\ \E i \in 1 .. Len(path) - 1 : IsFile(t, SubSeq(path, 1, i))
<1>1. PICK l \in Nat : l = Len(path)
    BY LenProperties DEF IsPlain
<1>2. path \in Seq(DOMAIN Fold) /\ SubSeq(path, 1, l) = path
    BY <1>1, SubSeqFull DEF IsPlain
<1> DEFINE S == {i \in 1 .. l : ~IsDirectory(t, SubSeq(path, 1, i))}
<1>3. CASE S = {}
    <2>1. \A i \in 1 .. Len(path) : IsDirectory(t, SubSeq(path, 1, i))
        BY <1>1, <1>3
    <2>2. QED
        BY <2>1, PlainDirectory
<1>4. CASE S # {}
    <2>1. PICK m \in S : \A s \in S : m <= s
        <3>1. S \in SUBSET Nat
            OBVIOUS
        <3> HIDE DEF S
        <3>2. QED
            BY <1>4, <3>1, LeastExists
    <2>2. PICK k \in Nat : k + 1 = m
        <3>1. m \in Nat /\ m >= 1
            BY <2>1
        <3>2. m - 1 \in Nat /\ (m - 1) + 1 = m
            BY <3>1
        <3>3. QED
            BY <3>2
    <2>3. k + 1 \in 1 .. l /\ ~IsDirectory(t, SubSeq(path, 1, k + 1)) /\ k < l
        BY <2>1, <2>2
    <2>4. \A i \in 1 .. k : IsDirectory(t, SubSeq(path, 1, i))
        <3>1. SUFFICES ASSUME NEW i \in 1 .. k PROVE i \notin S /\ i \in 1 .. l
            OBVIOUS
        <3>2. i \in 1 .. l /\ i \in Nat /\ ~(k + 1 <= i)
            BY <1>1, <2>3
        <3> HIDE DEF S
        <3>3. QED
            BY <2>1, <2>2, <3>2
    <2> DEFINE place == SubSeq(path, 1, k + 1)
    <2>5. place \in DOMAIN t => IsFile(t, place)
        BY <2>3 DEF IsTree, IsEntry, HasNoLinks, IsDirectory, IsFile
    <2>6. CASE place \notin DOMAIN t
        BY <1>1, <2>3, <2>4, <2>6, PlainStop
    <2>7. CASE IsFile(t, place) /\ k + 1 = l
        <3>1. Status(t, path) = "file" /\ Walk(t, path).at = path
            <4>1. IsFile(t, place) /\ k + 1 = Len(path) /\ k < Len(path)
                BY <1>1, <2>3, <2>7
            <4>2. \A i \in 1 .. k : IsDirectory(t, SubSeq(path, 1, i))
                BY <2>4
            <4> HIDE DEF place
            <4>3. k + 1 = Len(path) /\ IsFile(t, place) =>
                     Status(t, path) = "file" /\ Walk(t, path).at = path
                BY <4>1, <4>2, PlainStop DEF place
            <4>4. QED
                BY <4>1, <4>3
        <3>2. place = path
            BY <1>2, <2>7
        <3>3. QED
            BY <2>7, <3>1, <3>2
    <2>8. CASE IsFile(t, place) /\ k + 1 # l
        <3>1. k + 1 \in 1 .. l - 1
            BY <1>1, <2>3, <2>8
        <3>2. Status(t, path) = "not a directory"
            BY <1>1, <2>3, <2>4, <2>8, PlainStop
        <3>3. QED
            BY <1>1, <2>8, <3>1, <3>2
    <2>9. QED
        BY <2>5, <2>6, <2>7, <2>8
<1>5. QED
    BY <1>3, <1>4

(* What is at the place of a plain path is what the path leads to.         *)
LEMMA PlainEntryIsFound ==
    ASSUME NEW t, IsTree(t), HasNoLinks(t), NEW path, IsPlain(path)
    PROVE  /\ path \in DOMAIN t => Status(t, path) # "missing"
           /\ IsFile(t, path) => Status(t, path) = "file"
<1>1. PICK l \in Nat : l = Len(path)
    BY LenProperties DEF IsPlain
<1>2. SubSeq(path, 1, l) = path
    BY <1>1, SubSeqFull DEF IsPlain
<1>3. SUFFICES ASSUME path \in DOMAIN t
               PROVE  /\ Status(t, path) # "missing"
                      /\ IsFile(t, path) => Status(t, path) = "file"
    BY DEF IsFile
<1>4. path # << >> /\ l # 0
    <2>1. path # << >>
        BY <1>3 DEF IsTree, IsEntry
    <2>2. QED
        BY <1>1, <2>1, EmptySeq DEF IsPlain
<1>5. \A i \in 1 .. l - 1 : SubSeq(path, 1, i) \in DOMAIN t /\ ~IsFile(t, SubSeq(path, 1, i))
    <2>1. SUFFICES ASSUME NEW i \in 1 .. l - 1
                   PROVE  SubSeq(path, 1, i) \in DOMAIN t /\ ~IsFile(t, SubSeq(path, 1, i))
        OBVIOUS
    <2>2. IsDirectory(t, SubSeq(path, 1, i))
        BY <1>1, <1>3, EntryIsBelowDirectories
    <2>3. SubSeq(path, 1, i) # << >>
        <3>1. i \in 0 .. Len(path) /\ i # 0
            BY <1>1
        <3>2. QED
            BY <3>1, PlainPrefix
    <2>4. QED
        BY <2>2, <2>3 DEF IsDirectory, IsFile
<1>6. \A i \in 1 .. l : SubSeq(path, 1, i) \in DOMAIN t
    <2>1. \A i \in 1 .. l : i = l \/ i \in 1 .. l - 1
        BY <1>1
    <2>2. QED
        BY <1>2, <1>3, <1>5, <2>1
<1>7. Status(t, path) # "missing" /\ Status(t, path) # "not a directory"
    <2>1. Status(t, path) = "missing" => \E i \in 1 .. l : SubSeq(path, 1, i) \notin DOMAIN t
        BY <1>1, PlainStatus
    <2>2. Status(t, path) = "not a directory" => \E i \in 1 .. l - 1 : IsFile(t, SubSeq(path, 1, i))
        BY <1>1, PlainStatus
    <2>3. QED
        BY <1>5, <1>6, <2>1, <2>2
<1>8. ASSUME IsFile(t, path), Status(t, path) = "directory" PROVE FALSE
    <2>1. l \in 1 .. l
        BY <1>4
    <2>2. IsDirectory(t, SubSeq(path, 1, l))
        BY <1>1, <1>8, <2>1, PlainStatus
    <2>3. QED
        BY <1>2, <1>4, <1>8, <2>2 DEF IsDirectory, IsFile
<1>9. QED
    BY <1>7, <1>8, PlainStatus

\* So many names of a path name directories.
Reaches(t, path, n) == \A i \in 1 .. n : IsDirectory(t, SubSeq(path, 1, i))

(* The next directory on a plain path is made at its own place.            *)
LEMMA PlainMakeDirectory ==
    ASSUME NEW t, IsTree(t), HasNoLinks(t), NEW path, IsPlain(path),
           NEW m \in 1 .. Len(path), Reaches(t, path, m - 1), ~IsFile(t, SubSeq(path, 1, m))
    PROVE  LET next == SubSeq(path, 1, m)
           IN  /\ IsDirectory(MakeDirectory(t, next), next)
               /\ DOMAIN MakeDirectory(t, next) \subseteq DOMAIN t \cup {next}
<1>1. PICK l \in Nat : l = Len(path)
    BY LenProperties DEF IsPlain
<1>2. path \in Seq(DOMAIN Fold)
    BY DEF IsPlain
<1> DEFINE n == m - 1
           here == SubSeq(path, 1, n)
           next == SubSeq(path, 1, m)
<1>3. /\ n \in Nat /\ n < Len(path) /\ n \in 0 .. Len(path) /\ n + 1 = m
      /\ n + 1 \in 0 .. Len(path) /\ n + 1 # 0 /\ n + 1 \in 1 .. l
    BY <1>1
<1> HIDE DEF n
<1>4. /\ next = Append(here, path[n + 1]) /\ Front(next) = here /\ Last(next) = path[n + 1]
    BY <1>2, <1>3, NextPrefix
<1>5. Fold[path[n + 1]] = path[n + 1]
    <2>1. DOMAIN path = 1 .. l
        BY <1>1, <1>2, LenProperties
    <2>2. QED
        BY <1>3, <2>1 DEF IsPlain
<1>6. IsPlain(here) /\ Len(here) = n
    BY <1>3, PlainPrefix
<1>7. \A i \in 1 .. n : IsDirectory(t, SubSeq(here, 1, i))
    <2>1. SUFFICES ASSUME NEW i \in 1 .. n PROVE IsDirectory(t, SubSeq(here, 1, i))
        OBVIOUS
    <2>2. i \in 0 .. n
        OBVIOUS
    <2>3. SubSeq(here, 1, i) = SubSeq(path, 1, i)
        BY <1>2, <1>3, <2>2, PrefixOfPrefix
    <2>4. QED
        BY <2>3 DEF Reaches, n
<1> HIDE DEF here
<1>8. Status(t, here) = "directory" /\ Walk(t, here).at = here
    BY <1>6, <1>7, PlainDirectory
<1>9. Place(t, next) = next
    BY <1>4, <1>5, <1>8 DEF Place
<1>10. next # << >>
    BY <1>3, PlainPrefix
<1> SUFFICES /\ IsDirectory(MakeDirectory(t, next), next)
             /\ DOMAIN MakeDirectory(t, next) \subseteq DOMAIN t \cup {next}
    OBVIOUS
<1> HIDE DEF next
<1>11. CASE next \in DOMAIN t
    <2>1. IsDirectory(t, next)
        BY <1>11 DEF IsTree, IsEntry, HasNoLinks, IsDirectory, IsFile, next
    <2>2. MakeDirectory(t, next) = t
        BY <1>9, <1>11 DEF MakeDirectory, Vacant
    <2>3. QED
        BY <2>1, <2>2
<1>12. CASE next \notin DOMAIN t
    <2>1. MakeDirectory(t, next) = Put(t, next, Directory)
        BY <1>4, <1>8, <1>9, <1>12 DEF MakeDirectory, Vacant
    <2>2. /\ DOMAIN Put(t, next, Directory) = DOMAIN t \cup {next}
          /\ Put(t, next, Directory)[next] = Directory
        BY DEF Put
    <2>3. Directory.kind = "directory"
        BY DEF Directory
    <2>4. QED
        BY <2>1, <2>2, <2>3 DEF IsDirectory
<1>13. QED
    BY <1>11, <1>12

(* Where no file is in the way, every directory on a plain path is made,   *)
(* and nothing else.                                                       *)
LEMMA PlainMake ==
    ASSUME NEW t, IsTree(t), HasNoLinks(t), NEW path, IsPlain(path),
           \A i \in 1 .. Len(path) : ~IsFile(t, SubSeq(path, 1, i))
    PROVE  /\ Status(MakeDirectories(t, path), path) = "directory"
           /\ \A l \in DOMAIN MakeDirectories(t, path) \ DOMAIN t :
                 \E i \in 1 .. Len(path) : l = SubSeq(path, 1, i)
<1>1. PICK N \in Nat : N = Len(path)
    BY LenProperties DEF IsPlain
<1>2. PICK made : /\ made[0] = t
                  /\ \A n \in 1 .. N :
                        made[n] = MakeDirectory(made[n - 1], SubSeq(path, 1, n))
                  /\ MakeDirectories(t, path) = made[N]
    BY <1>1, MadeAre
<1> DEFINE Done(n) ==
               /\ IsTree(made[n]) /\ MoreDirectories(t, made[n])
               /\ \A i \in 1 .. n : IsDirectory(made[n], SubSeq(path, 1, i))
               /\ \A l \in DOMAIN made[n] \ DOMAIN t :
                     \E i \in 1 .. N : l = SubSeq(path, 1, i)
           T == {n \in 0 .. N : Done(n)}
<1>3. 0 \in T
    <2>1. MoreDirectories(t, t)
        BY DEF MoreDirectories, Grown
    <2>2. QED
        BY <1>1, <1>2, <2>1
<1>4. ASSUME NEW n \in Nat, n \in T, n < N PROVE n + 1 \in T
    <2> DEFINE u == made[n]
               v == made[n + 1]
               next == SubSeq(path, 1, n + 1)
    <2>1. Done(n)
        BY <1>4
    <2>2. n + 1 \in 1 .. N /\ n + 1 \in 0 .. N /\ (n + 1) - 1 = n /\ n + 1 # 0 /\ n < Len(path)
        BY <1>1, <1>4
    <2>3. v = MakeDirectory(u, next)
        BY <1>2, <2>2
    <2>4. HasNoLinks(u)
        BY <2>1 DEF HasNoLinks, MoreDirectories, Grown
    <2>5. ~IsFile(u, next)
        <3>1. ~IsFile(t, next)
            BY <1>1, <2>2
        <3>2. QED
            BY <2>1, <3>1 DEF IsFile, MoreDirectories, Grown
    <2>6. IsPlain(next) /\ next # << >> /\ next \in Seq(DOMAIN Fold)
        BY <1>1, <2>2, PlainPrefix DEF IsPlain
    <2>7. IsTree(v) /\ MoreDirectories(u, v)
        BY <2>1, <2>3, <2>6, MakeDirectoryKeeps
    <2>8. IsTree(u) /\ Reaches(u, path, n) /\ \A i \in 1 .. n : IsDirectory(u, SubSeq(path, 1, i))
        BY <2>1 DEF Reaches
    <2> HIDE DEF u, v
    <2>9. IsDirectory(v, next) /\ DOMAIN v \subseteq DOMAIN u \cup {next}
        <3>1. n + 1 \in 1 .. Len(path) /\ Reaches(u, path, (n + 1) - 1)
            BY <1>1, <2>2, <2>8
        <3>2. QED
            BY <2>3, <2>4, <2>5, <2>8, <3>1, PlainMakeDirectory
    <2>10. MoreDirectories(t, v)
        BY <2>1, <2>7 DEF MoreDirectories, Grown, u
    <2>11. \A i \in 1 .. n + 1 : IsDirectory(v, SubSeq(path, 1, i))
        <3>1. SUFFICES ASSUME NEW i \in 1 .. n + 1 PROVE IsDirectory(v, SubSeq(path, 1, i))
            OBVIOUS
        <3>2. CASE i = n + 1
            BY <2>9, <3>2
        <3>3. CASE i \in 1 .. n
            BY <2>7, <2>8, <3>3 DEF IsDirectory, MoreDirectories, Grown
        <3>4. QED
            BY <3>2, <3>3
    <2>12. \A l \in DOMAIN v \ DOMAIN t : \E i \in 1 .. N : l = SubSeq(path, 1, i)
        BY <2>1, <2>2, <2>9 DEF u
    <2>13. QED
        BY <2>2, <2>7, <2>10, <2>11, <2>12 DEF v
<1>5. \A n \in 0 .. N : n \in T
    <2> HIDE DEF T
    <2>1. QED
        BY <1>3, <1>4, UpTo
<1>6. Done(N)
    BY <1>5
<1> DEFINE u == MakeDirectories(t, path)
<1>7. /\ IsTree(u) /\ \A i \in 1 .. Len(path) : IsDirectory(u, SubSeq(path, 1, i))
      /\ \A l \in DOMAIN u \ DOMAIN t : \E i \in 1 .. Len(path) : l = SubSeq(path, 1, i)
    BY <1>1, <1>2, <1>6
<1> HIDE DEF u
<1>8. Status(u, path) = "directory"
    BY <1>7, PlainDirectory
<1>9. QED
    BY <1>7, <1>8 DEF u

\* In a plain tree nothing stands in the way of a target that was read.
NoFileAbove ==
    \A p \in DOMAIN seen : \A i \in 1 .. Len(p) - 1 : ~IsFile(tree, SubSeq(p, 1, i))
NewTargetsAreFree == \A p \in DOMAIN seen \ Settled : p \notin DOMAIN tree
TargetsAreReachable ==
    /\ DOMAIN seen # {} => ~Conflict(inventory)
    /\ NoFileAbove /\ NewTargetsAreFree
    /\ phase = "write" => Status(tree, Front(First(Pending))) = "directory"
    /\ phase # "failed"
PlainInv == Plain => TargetsAreReachable

(* What Plain says of the tree and of each path.                           *)
LEMMA PlainIs ==
    ASSUME Shape
    PROVE  Plain <=> HasNoLinks(tree) /\ \A p \in inventory : IsPlain(p)
BY PathsAre DEF Shape, Plain, HasNoLinks, IsPlain

(* A path that is a directory of another one is in conflict with it.       *)
LEMMA PrefixConflicts ==
    ASSUME NEW paths, paths \subseteq Paths, NEW p \in paths, NEW i \in 1 .. Len(p) - 1,
           SubSeq(p, 1, i) \in paths
    PROVE  Conflict(paths)
<1>1. p \in Seq(DOMAIN Fold)
    BY PathsAre
<1>2. PICK l \in Nat : l = Len(p)
    BY <1>1, LenProperties
<1>3. i \in 0 .. Len(p) /\ i \in 0 .. i /\ i <= Len(p) /\ i # Len(p) /\ i \in Nat
    BY <1>2
<1> DEFINE q == SubSeq(p, 1, i)
<1>4. Len(q) = i
    BY <1>1, <1>3, PrefixIsPath
<1>5. SubSeq(q, 1, i) = q
    BY <1>1, <1>3, PrefixOfPrefix
<1>6. IsPrefix(q, p)
    BY <1>3, <1>4, <1>5 DEF IsPrefix
<1>7. q # p
    BY <1>3, <1>4
<1> HIDE DEF q
<1>8. QED
    BY <1>6, <1>7 DEF Conflict, q

(* The directory of a plain path that has one is its front, and the place  *)
(* of its last name is the path itself.                                    *)
LEMMA PlainPlace ==
    ASSUME NEW t, IsTree(t), HasNoLinks(t), NEW path, IsPlain(path), path # << >>
    PROVE  /\ IsPlain(Front(path)) /\ Len(Front(path)) = Len(path) - 1
           /\ \A i \in 1 .. Len(path) - 1 : SubSeq(Front(path), 1, i) = SubSeq(path, 1, i)
           /\ Status(t, Front(path)) = "directory" => Place(t, path) = path
<1>1. path \in Seq(DOMAIN Fold)
    BY DEF IsPlain
<1>2. PICK l \in Nat \ {0} : l = Len(path)
    BY <1>1, FrontLast
<1>3. l - 1 \in 0 .. Len(path) /\ l \in 1 .. l /\ \A i \in 1 .. l - 1 : i \in 0 .. l - 1
    BY <1>2
<1>4. Front(path) = SubSeq(path, 1, l - 1)
    BY <1>2 DEF Front
<1>5. IsPlain(Front(path)) /\ Len(Front(path)) = l - 1
    BY <1>3, <1>4, PlainPrefix
<1>6. \A i \in 1 .. l - 1 : SubSeq(Front(path), 1, i) = SubSeq(path, 1, i)
    BY <1>1, <1>3, <1>4, PrefixOfPrefix
<1>7. ASSUME Status(t, Front(path)) = "directory" PROVE Place(t, path) = path
    <2>1. Walk(t, Front(path)).at = Front(path)
        BY <1>5, <1>7, PlainStatus
    <2>2. Last(path) = path[l] /\ path = Append(Front(path), Last(path))
        BY <1>1, <1>2, FrontLast
    <2>3. DOMAIN path = 1 .. l
        BY <1>1, <1>2, LenProperties
    <2>4. Fold[Last(path)] = Last(path)
        BY <1>3, <2>2, <2>3 DEF IsPlain
    <2>5. QED
        BY <2>1, <2>2, <2>4 DEF Place
<1>8. QED
    BY <1>2, <1>5, <1>6, <1>7

(* Reading a target of a plain tree finds no file above it, and nothing    *)
(* where it is absent.                                                     *)
LEMMA ReadTargetReaches ==
    ASSUME IInv, PlainInv, ReadTarget, Plain
    PROVE  TargetsAreReachable'
<1> DEFINE path == First(Unread)
           found == IF Status(tree, path) = "missing" THEN Absent
                    ELSE [file |-> FileAt(tree, path), text |-> content[FileAt(tree, path)]]
<1>1. /\ phase = "discover" /\ Unread # {} /\ ~Conflict(inventory)
      /\ Readable(path) /\ seen' = Put(seen, path, found)
      /\ UNCHANGED <<tree, content, inventory, phase, outputs, completed>>
    BY DEF ReadTarget
<1>2. path \in Unread
    <2>1. Unread \in SUBSET Paths /\ Unread # {}
        BY <1>1 DEF Unread, IInv, Shape
    <2> HIDE DEF path
    <2>2. QED
        BY <2>1, FirstIsOne DEF path
<1>3. Shape /\ IsTree(tree) /\ path \in inventory /\ DOMAIN seen \subseteq inventory
    BY <1>2 DEF IInv, Shape, Unread
<1>4. HasNoLinks(tree) /\ \A p \in inventory : IsPlain(p)
    BY <1>3, PlainIs
<1>5. Status(tree, path) = "file" => found # Absent
    <2>1. ASSUME Status(tree, path) = "file" PROVE found # Absent
        <3>1. FileAt(tree, path) # << >>
            BY <1>3, <2>1, FileIsThere
        <3>2. found.file = FileAt(tree, path)
            BY <2>1
        <3>3. Absent.file = << >>
            BY DEF Absent
        <3>4. QED
            BY <3>1, <3>2, <3>3
    <2>2. QED
        BY <2>1
<1> HIDE DEF found
<1>6. Status(tree, path) \in {"missing", "file"}
    BY <1>1 DEF Readable
<1>7. \A i \in 1 .. Len(path) - 1 : ~IsFile(tree, SubSeq(path, 1, i))
    <2>1. SUFFICES ASSUME NEW i \in 1 .. Len(path) - 1, IsFile(tree, SubSeq(path, 1, i))
                   PROVE  FALSE
        OBVIOUS
    <2>2. Status(tree, SubSeq(path, 1, i)) \in {"directory", "missing"}
        BY <1>1 DEF Readable, ParentsAllow
    <2>3. i \in 0 .. Len(path)
        <3>1. PICK l \in Nat : l = Len(path)
            BY <1>3, <1>4, LenProperties DEF IsPlain
        <3>2. QED
            BY <3>1
    <2>4. IsPlain(SubSeq(path, 1, i))
        BY <1>3, <1>4, <2>3, PlainPrefix
    <2>5. Status(tree, SubSeq(path, 1, i)) = "file"
        BY <1>3, <1>4, <2>1, <2>4, PlainEntryIsFound
    <2>6. QED
        BY <2>2, <2>5
<1>8. found = Absent => path \notin DOMAIN tree
    BY <1>3, <1>4, <1>5, <1>6, PlainEntryIsFound
<1> HIDE DEF path
<1>9. /\ DOMAIN seen' = DOMAIN seen \cup {path} /\ seen'[path] = found
      /\ \A p \in DOMAIN seen : p # path => seen'[p] = seen[p]
    BY <1>1 DEF Put
<1>10. TargetsAreReachable
    BY DEF PlainInv
<1>11. NoFileAbove'
    BY <1>1, <1>7, <1>9, <1>10 DEF TargetsAreReachable, NoFileAbove
<1>12. NewTargetsAreFree'
    <2>1. SUFFICES ASSUME NEW p \in DOMAIN seen', p \notin Settled'
                   PROVE  p \notin DOMAIN tree
        BY <1>1 DEF NewTargetsAreFree
    <2>2. CASE p = path
        BY <1>8, <1>9, <2>1, <2>2 DEF Settled
    <2>3. CASE p # path
        BY <1>1, <1>9, <1>10, <2>1, <2>3 DEF Settled, TargetsAreReachable, NewTargetsAreFree
    <2>4. QED
        BY <2>2, <2>3
<1>13. QED
    BY <1>1, <1>11, <1>12 DEF TargetsAreReachable

(* The directories of a target are made, and no target is among them.      *)
LEMMA MakeParentsReaches ==
    ASSUME IInv, PlainInv, MakeParents, Plain
    PROVE  TargetsAreReachable'
<1> DEFINE path == First(Pending)
           parent == Front(path)
           made == MakeDirectories(tree, parent)
<1>1. /\ phase = "parents" /\ Pending # {} /\ tree' = made
      /\ phase' = IF Status(made, parent) = "directory" THEN "write" ELSE "failed"
      /\ UNCHANGED <<content, inventory, seen, outputs, completed>>
    BY DEF MakeParents
<1>2. path \in Pending
    <2>1. Pending \in SUBSET Paths /\ Pending # {}
        BY <1>1 DEF Pending, IInv, Shape
    <2> HIDE DEF path
    <2>2. QED
        BY <2>1, FirstIsOne DEF path
<1>3. /\ Shape /\ IsTree(tree) /\ inventory \subseteq Paths
      /\ path \in inventory /\ path \in DOMAIN seen /\ DOMAIN seen \subseteq inventory
    BY <1>1, <1>2 DEF IInv, Shape, Pending
<1>4. HasNoLinks(tree) /\ \A p \in inventory : IsPlain(p)
    BY <1>3, PlainIs
<1>5. First(Pending)' = path /\ Settled' = Settled
    BY <1>1 DEF First, Pending, Settled
<1> HIDE DEF path
<1>6. path # << >> /\ IsPlain(path)
    BY <1>3, <1>4, PathsAre
<1>7. /\ IsPlain(parent) /\ Len(parent) = Len(path) - 1
      /\ \A i \in 1 .. Len(path) - 1 : SubSeq(parent, 1, i) = SubSeq(path, 1, i)
    BY <1>3, <1>4, <1>6, PlainPlace
<1>8. TargetsAreReachable
    BY DEF PlainInv
<1>9. \A i \in 1 .. Len(parent) : ~IsFile(tree, SubSeq(parent, 1, i))
    BY <1>3, <1>7, <1>8 DEF TargetsAreReachable, NoFileAbove
<1> HIDE DEF parent
<1>10. /\ Status(made, parent) = "directory"
       /\ \A l \in DOMAIN made \ DOMAIN tree : \E i \in 1 .. Len(parent) : l = SubSeq(parent, 1, i)
    BY <1>3, <1>4, <1>7, <1>9, PlainMake
<1> HIDE DEF made
<1>11. MoreDirectories(tree, tree')
    BY MakeParentsKeeps
<1>12. NoFileAbove'
    <2>1. SUFFICES ASSUME NEW p \in DOMAIN seen, NEW i \in 1 .. Len(p) - 1
                   PROVE  ~IsFile(tree', SubSeq(p, 1, i))
        BY <1>1 DEF NoFileAbove
    <2>2. ~IsFile(tree, SubSeq(p, 1, i))
        BY <1>8 DEF TargetsAreReachable, NoFileAbove
    <2>3. QED
        BY <1>11, <2>2 DEF MoreDirectories, Grown, IsFile
<1>13. NewTargetsAreFree'
    <2>1. SUFFICES ASSUME NEW p \in DOMAIN seen, p \notin Settled, p \in DOMAIN made
                   PROVE  FALSE
        BY <1>1, <1>5 DEF NewTargetsAreFree
    <2>2. p \notin DOMAIN tree
        BY <1>8, <2>1 DEF TargetsAreReachable, NewTargetsAreFree
    <2>3. PICK i \in 1 .. Len(path) - 1 : p = SubSeq(path, 1, i)
        BY <1>7, <1>10, <2>1, <2>2
    <2>4. p \in inventory
        BY <1>3, <2>1
    <2>5. Conflict(inventory)
        BY <1>3, <2>3, <2>4, PrefixConflicts
    <2>6. QED
        BY <1>3, <1>8, <2>5 DEF TargetsAreReachable
<1>14. Status(tree', Front(First(Pending)')) = "directory"
    BY <1>1, <1>5, <1>10 DEF parent
<1>15. phase' = "write"
    BY <1>1, <1>10
<1>16. ~Conflict(inventory)
    BY <1>3, <1>8 DEF TargetsAreReachable
<1>17. QED
    BY <1>1, <1>12, <1>13, <1>14, <1>15, <1>16 DEF TargetsAreReachable

(* A target that is created in a plain tree is at its own path, where no   *)
(* other target that was absent can be found.                              *)
LEMMA CreateTargetReaches ==
    ASSUME IInv, IInv', PlainInv, Plain, phase = "write",
           NEW path, path = First(Pending), CreateTarget(path),
           completed' = Append(completed, path), UNCHANGED <<inventory, seen, outputs>>
    PROVE  TargetsAreReachable'
<1>1. TargetsAreReachable /\ Shape /\ IsTree(tree) /\ IsTree(tree')
    BY DEF PlainInv, IInv, Shape
<1>2. HasNoLinks(tree) /\ \A p \in inventory : IsPlain(p)
    BY <1>1, PlainIs
<1>3. /\ path \in outputs /\ path \in inventory /\ path \in DOMAIN seen /\ path # << >>
      /\ DOMAIN seen \subseteq inventory /\ inventory \subseteq Paths
    BY <1>1, OutputIsPending DEF Shape
<1>4. Settled' = Settled \cup {path} /\ path \in Range(completed')
    BY <1>3, OutputIsCompleted
<1>5. Place(tree, path) = path
    <2>1. Status(tree, Front(path)) = "directory"
        BY <1>1 DEF TargetsAreReachable
    <2>2. QED
        BY <1>1, <1>2, <1>3, <2>1, PlainPlace
<1>6. /\ Grown(tree, tree') /\ DOMAIN tree' = DOMAIN tree \cup {path}
      /\ tree'[path] = [kind |-> "file", file |-> path]
      /\ FileAt(tree', path) = path
    BY <1>5, CreatedIsFound
<1>7. ~Conflict(inventory)
    BY <1>1, <1>3 DEF TargetsAreReachable
<1>8. NoFileAbove'
    <2>1. SUFFICES ASSUME NEW p \in DOMAIN seen, NEW i \in 1 .. Len(p) - 1,
                          IsFile(tree', SubSeq(p, 1, i))
                   PROVE  FALSE
        BY DEF NoFileAbove
    <2>2. ~IsFile(tree, SubSeq(p, 1, i))
        BY <1>1 DEF TargetsAreReachable, NoFileAbove
    <2>3. SubSeq(p, 1, i) = path
        BY <1>6, <2>1, <2>2 DEF Grown, IsFile
    <2>4. Conflict(inventory)
        BY <1>3, <2>3, PrefixConflicts
    <2>5. QED
        BY <1>7, <2>4
<1>9. \A p \in DOMAIN seen \ Settled' : p \notin DOMAIN tree'
    BY <1>1, <1>4, <1>6 DEF TargetsAreReachable, NewTargetsAreFree
<1>10. HasNoLinks(tree')
    <2>1. tree'[path].kind = "file"
        BY <1>6
    <2>2. QED
        BY <1>2, <1>6, <2>1 DEF HasNoLinks, Grown
<1>11. ~Aliased(tree', path)
    <2>1. SUFFICES ASSUME NEW p \in inventory, p # path, Status(tree', p) = "file",
                          FileAt(tree', p) = FileAt(tree', path)
                   PROVE  FALSE
        BY DEF Aliased
    <2>2. p \in DOMAIN seen
        BY <1>1, <2>1 DEF Shape
    <2>3. CASE p \in Settled'
        BY <1>4, <2>1, <2>3 DEF IInv, TargetsAreApart
    <2>4. CASE p \notin Settled'
        <3>1. p \notin DOMAIN tree'
            BY <1>9, <2>2, <2>4
        <3>2. IsFile(tree', p)
            BY <1>1, <1>2, <1>10, <2>1, PlainStatus
        <3>3. QED
            BY <3>1, <3>2 DEF IsFile
    <2>5. QED
        BY <2>3, <2>4
<1>12. phase' = "parents"
    BY <1>11 DEF CreateTarget
<1>13. QED
    BY <1>7, <1>8, <1>9, <1>12 DEF TargetsAreReachable, NewTargetsAreFree

(* In a plain tree every target that is due can be written.                *)
LEMMA NoTargetFails ==
    ASSUME IInv, PlainInv, Plain
    PROVE  ~FailTarget
<1> DEFINE path == First(Pending)
<1>1. SUFFICES ASSUME phase = "write",
                      IF seen[path] = Absent THEN ~Vacant(tree, path) ELSE Status(tree, path) # "file"
               PROVE  FALSE
    BY DEF FailTarget
<1>2. TargetsAreReachable /\ Shape /\ IsTree(tree)
    BY DEF PlainInv, IInv, Shape
<1>3. Status(tree, Front(path)) = "directory"
    BY <1>1, <1>2 DEF TargetsAreReachable
<1>4. path \in inventory /\ path \in DOMAIN seen /\ path \notin Range(completed) /\ path # << >>
    BY <1>1, OutputIsPending
<1> HIDE DEF path
<1>5. HasNoLinks(tree) /\ IsPlain(path)
    BY <1>2, <1>4, PlainIs
<1>6. CASE seen[path] = Absent
    <2>1. path \notin DOMAIN tree
        BY <1>2, <1>4, <1>6 DEF TargetsAreReachable, NewTargetsAreFree, Settled
    <2>2. Place(tree, path) = path
        BY <1>2, <1>3, <1>4, <1>5, PlainPlace
    <2>3. QED
        BY <1>1, <1>3, <1>6, <2>1, <2>2 DEF Vacant
<1>7. CASE seen[path] # Absent
    BY <1>1, <1>4, <1>7 DEF IInv, TargetsStand, Settled
<1>8. QED
    BY <1>6, <1>7

(* Every step of a command on a plain tree keeps its targets in reach.     *)
LEMMA PlainInvKeeps ==
    ASSUME IInv, IInv', PlainInv, [Next]_vars
    PROVE  PlainInv'
<1>1. SUFFICES ASSUME Plain' PROVE TargetsAreReachable'
    BY DEF PlainInv
<1>2. Plain
    <2>1. inventory' = inventory
        BY DEF Next, vars, RefusePaths, ReadTarget, RefuseTarget, Choose, MakeParents,
               WriteTarget, FailTarget, Complete, Ended
    <2>2. Grown(tree, tree')
        <3>1. CASE MakeParents
            BY <3>1, MakeParentsKeeps DEF MoreDirectories
        <3>2. CASE WriteTarget
            <4> DEFINE path == First(Pending)
            <4>1. phase = "write" /\ (CreateTarget(path) \/ ReplaceTarget(path))
                BY <3>2 DEF WriteTarget
            <4>2. CASE CreateTarget(path)
                BY <4>1, <4>2, CreatedIsFound
            <4>3. CASE ReplaceTarget(path)
                BY <4>3 DEF ReplaceTarget, Grown
            <4>4. QED
                BY <4>1, <4>2, <4>3
        <3>3. CASE UNCHANGED tree
            BY <3>3 DEF Grown
        <3>4. QED
            BY <3>1, <3>2, <3>3 DEF Next, vars, RefusePaths, ReadTarget, RefuseTarget, Choose,
               FailTarget, Complete, Ended
    <2>3. HasNoLinks(tree')
        BY <1>1 DEF Plain, HasNoLinks
    <2>4. HasNoLinks(tree)
        BY <2>2, <2>3 DEF HasNoLinks, Grown
    <2>5. QED
        BY <1>1, <2>1, <2>4 DEF Plain, HasNoLinks
<1>3. TargetsAreReachable
    BY <1>2 DEF PlainInv
<1>4. CASE RefusePaths \/ RefuseTarget \/ Complete \/ Ended \/ UNCHANGED vars
    <2>1. /\ UNCHANGED <<tree, seen, inventory, completed>>
          /\ (phase' = phase /\ UNCHANGED outputs) \/ phase' \in {"refused", "completed"}
        BY <1>4 DEF RefusePaths, RefuseTarget, Complete, Ended, vars
    <2>2. NoFileAbove' /\ NewTargetsAreFree'
        BY <1>3, <2>1 DEF TargetsAreReachable, NoFileAbove, NewTargetsAreFree, Settled
    <2>3. phase' = "write" => Status(tree', Front(First(Pending)')) = "directory"
        BY <1>3, <2>1 DEF TargetsAreReachable, First, Pending
    <2>4. phase' # "failed"
        BY <1>3, <2>1 DEF TargetsAreReachable
    <2>5. QED
        BY <1>3, <2>1, <2>2, <2>3, <2>4 DEF TargetsAreReachable
<1>5. ASSUME NEW chosen \in SUBSET inventory, Choose(chosen) PROVE TargetsAreReachable'
    <2>1. UNCHANGED <<tree, seen, inventory, completed>> /\ phase' = "parents"
        BY <1>5 DEF Choose
    <2>2. QED
        BY <1>3, <2>1 DEF TargetsAreReachable, NoFileAbove, NewTargetsAreFree, Settled
<1>6. CASE ReadTarget
    BY <1>2, <1>6, ReadTargetReaches
<1>7. CASE MakeParents
    BY <1>2, <1>7, MakeParentsReaches
<1>8. CASE WriteTarget
    <2> DEFINE path == First(Pending)
    <2>1. /\ phase = "write"
          /\ CreateTarget(path) \/ ReplaceTarget(path)
          /\ completed' = Append(completed, path) /\ UNCHANGED <<inventory, seen, outputs>>
        BY <1>8 DEF WriteTarget
    <2>2. CASE CreateTarget(path)
        BY <1>2, <2>1, <2>2, CreateTargetReaches
    <2>3. CASE ReplaceTarget(path)
        <3>1. tree' = tree /\ phase' = "parents"
            BY <2>3 DEF ReplaceTarget
        <3>2. path \in outputs
            BY <2>1, OutputIsPending
        <3> HIDE DEF path
        <3>3. Settled' = Settled \cup {path}
            BY <2>1, <3>2, OutputIsCompleted DEF path
        <3>4. QED
            BY <1>3, <2>1, <3>1, <3>3 DEF TargetsAreReachable, NoFileAbove, NewTargetsAreFree
    <2>4. QED
        BY <2>1, <2>2, <2>3
<1>9. CASE FailTarget
    BY <1>2, <1>9, NoTargetFails
<1>10. QED
    BY <1>4, <1>5, <1>6, <1>7, <1>8, <1>9 DEF Next

(* Where there are neither links nor names that differ only in case, what  *)
(* discovery has validated is committed: no directory is in the way, and   *)
(* no target is taken or aliased (ValidatedCanBeCommitted;                 *)
(* validate_path_prefixes, validate_parents, create_target).               *)
THEOREM PlainCommandsDoNotFail == Spec => []ValidatedCanBeCommitted
<1>1. Init => IInv /\ PlainInv
    <2> SUFFICES ASSUME Init PROVE IInv /\ PlainInv
        OBVIOUS
    <2>1. DOMAIN seen = {} /\ phase = "discover"
        BY DEF Init
    <2>2. QED
        BY <2>1, InitHolds DEF PlainInv, TargetsAreReachable, NoFileAbove, NewTargetsAreFree
<1>2. IInv /\ PlainInv /\ [Next]_vars => (IInv /\ PlainInv)'
    <2> SUFFICES ASSUME IInv, PlainInv, [Next]_vars
                 PROVE  (IInv /\ PlainInv)'
        OBVIOUS
    <2>1. IInv'
        BY NextKeeps
    <2>2. PlainInv'
        BY <2>1, PlainInvKeeps
    <2>3. QED
        BY <2>1, <2>2
<1>3. IInv /\ PlainInv => ValidatedCanBeCommitted
    BY DEF PlainInv, TargetsAreReachable, ValidatedCanBeCommitted
<1>4. QED
    BY <1>1, <1>2, <1>3, PTL DEF Spec
=============================================================================
