------------------------------ MODULE AdlsProofs ------------------------------
(***************************************************************************)
(* Theorems about ADLS documents of any shape, in ASCII and below 64 KiB   *)
(* (Far): looking at two neighbours lays a document out without overlap,   *)
(* and so a rewrite of a document that parses changes what it was asked to *)
(* change, nothing else, and parses again.                                 *)
(***************************************************************************)
EXTENDS Adls, SequenceTheorems, WellFoundedInduction, NaturalsInduction, TLAPS

-----------------------------------------------------------------------------
(* The layout                                                              *)

RegionType ==
    [start : Nat, end : Nat, kind : {"header", "table", "vtable", "vector", "string"}]

(* Among the regions that begin before a place one begins last.            *)
LEMMA LastExists ==
    ASSUME NEW regions \in SUBSET RegionType, NEW start \in Nat,
           NEW old \in regions, old.start < start
    PROVE  \E p \in LastBefore(regions, start) : old.start <= p.start
<1> DEFINE before == {p \in regions : p.start < start}
           gaps == {start - p.start : p \in before}
<1>1. \A p \in regions : p.start \in Nat
    BY DEF RegionType
<1>2. gaps \subseteq Nat /\ start - old.start \in gaps
    BY <1>1
<1>3. \E g \in gaps : \A h \in gaps : ~(h < g)
    <2>1. IsWellFoundedOn(OpToRel(<, Nat), Nat)
        BY NatLessThanWellFounded
    <2>2. \E g \in gaps : \A h \in gaps : ~(<<h, g>> \in OpToRel(<, Nat))
        BY <1>2, <2>1, WFMin
    <2>3. \A g, h \in gaps : h < g => <<h, g>> \in OpToRel(<, Nat)
        BY <1>2 DEF OpToRel
    <2>4. QED
        BY <2>2, <2>3
<1>4. PICK p \in before : \A h \in gaps : ~(h < start - p.start)
    BY <1>3
<1>5. ASSUME NEW q \in before
      PROVE  q.start <= p.start
    <2>1. ~(start - q.start < start - p.start)
        BY <1>4
    <2>2. QED
        BY <1>1, <2>1
<1>6. QED
    BY <1>4, <1>5 DEF LastBefore

(* Among the regions that begin at a place or after it one begins first.   *)
LEMMA FirstExists ==
    ASSUME NEW regions \in SUBSET RegionType, NEW start \in Nat,
           NEW old \in regions, old.start >= start
    PROVE  \E p \in FirstFrom(regions, start) : p.start <= old.start
<1> DEFINE from == {p \in regions : p.start >= start}
           starts == {p.start : p \in from}
<1>1. \A p \in regions : p.start \in Nat
    BY DEF RegionType
<1>2. starts \subseteq Nat /\ old.start \in starts
    BY <1>1
<1>3. \E g \in starts : \A h \in starts : ~(h < g)
    <2>1. IsWellFoundedOn(OpToRel(<, Nat), Nat)
        BY NatLessThanWellFounded
    <2>2. \E g \in starts : \A h \in starts : ~(<<h, g>> \in OpToRel(<, Nat))
        BY <1>2, <2>1, WFMin
    <2>3. \A g, h \in starts : h < g => <<h, g>> \in OpToRel(<, Nat)
        BY <1>2 DEF OpToRel
    <2>4. QED
        BY <2>2, <2>3
<1>4. PICK p \in from : \A h \in starts : ~(h < p.start)
    BY <1>3
<1>5. \A q \in from : p.start <= q.start
    BY <1>1, <1>4
<1>6. QED
    BY <1>4, <1>5 DEF FirstFrom

(* A region that fits between its neighbours is clear of every region of   *)
(* the layout, or is one of them again (adls.rs, Layout::add).             *)
THEOREM NeighboursSuffice ==
    ASSUME NEW regions \in SUBSET RegionType, Apart(regions), NEW new \in RegionType,
           \A r \in regions : r.start < r.end
    PROVE  Fits(regions, new) <=>
             /\ new.start < new.end
             /\ \/ new \in regions /\ new.kind \in CanShare
                \/ \A old \in regions : Clear(old, new)
<1>1. /\ \A p \in regions : p.start \in Nat /\ p.end \in Nat
      /\ new.start \in Nat /\ new.end \in Nat
    BY DEF RegionType
<1>2. ASSUME new.start < new.end,
             \A old \in regions : old.start # new.start,
             \A previous \in LastBefore(regions, new.start) : previous.end <= new.start,
             \A next \in FirstFrom(regions, new.start) : next.start >= new.end,
             NEW old \in regions
      PROVE  Clear(old, new)
    <2>1. CASE old.start < new.start
        <3>1. PICK p \in LastBefore(regions, new.start) : old.start <= p.start
            BY <1>1, <2>1, LastExists
        <3>2. p \in regions /\ p.end <= new.start
            BY <1>2, <3>1 DEF LastBefore
        <3>3. old = p \/ Clear(old, p)
            BY <3>2 DEF Apart
        <3>4. old.end <= new.start
            BY <1>1, <3>1, <3>2, <3>3 DEF Clear
        <3>5. QED
            BY <3>4 DEF Clear
    <2>2. CASE old.start >= new.start
        <3>1. PICK p \in FirstFrom(regions, new.start) : p.start <= old.start
            BY <1>1, <2>2, FirstExists
        <3>2. p \in regions /\ p.start >= new.end
            BY <1>2, <3>1 DEF FirstFrom
        <3>3. QED
            BY <1>1, <3>1, <3>2 DEF Clear
    <2>3. QED
        BY <1>1, <2>1, <2>2
<1>3. ASSUME new.start < new.end, \A old \in regions : Clear(old, new)
      PROVE  Fits(regions, new)
    <2>1. \A old \in regions : old.start < new.start => old.end <= new.start
        BY <1>1, <1>3 DEF Clear
    <2>2. \A old \in regions : old.start >= new.start => old.start >= new.end
        BY <1>1, <1>3 DEF Clear
    <2>3. \A old \in regions : old.start # new.start
        BY <1>1, <1>3, <2>2
    <2>4. QED
        BY <1>3, <2>1, <2>2, <2>3 DEF Fits, LastBefore, FirstFrom
<1>4. QED
    BY <1>2, <1>3 DEF Fits

(* Whatever is added, any two regions of a layout stay clear of each       *)
(* other: no byte that a rewrite redirects belongs to two structures.      *)
THEOREM AddKeepsApart ==
    ASSUME NEW regions \in SUBSET RegionType, Apart(regions), NEW new \in RegionType,
           \A r \in regions : r.start < r.end,
           Fits(regions, new)
    PROVE  /\ Apart(regions \cup {new})
           /\ \A r \in regions \cup {new} : r.start < r.end
<1>1. new \in regions \/ \A old \in regions : Clear(old, new)
    BY NeighboursSuffice
<1>2. \A old \in regions : Clear(old, new) => Clear(new, old)
    BY DEF Clear
<1>3. QED
    BY <1>1, <1>2 DEF Apart, Fits

\* Any two regions are clear of each other or one shareable region again.
Disjoint(regions) ==
    \A i, j \in DOMAIN regions :
        i < j => \/ Clear(regions[i], regions[j])
                 \/ regions[i] = regions[j] /\ regions[i].kind \in CanShare

(* What fills a layout one region after another is disjoint as a whole,    *)
(* and what is disjoint fills it, however many regions there are.          *)
LEMMA LayoutDecidesDisjointness ==
    ASSUME NEW D \in SUBSET Nat,
           NEW regions \in [D -> RegionType], \A s \in D : regions[s].start < regions[s].end
    PROVE  LaidOut(regions) <=> Disjoint(regions)
<1> DEFINE earlier(slot) == {regions[s] : s \in {e \in DOMAIN regions : e < slot}}
           good(i, j) == \/ Clear(regions[i], regions[j])
                         \/ regions[i] = regions[j] /\ regions[i].kind \in CanShare
<1>1. ASSUME NEW slot \in D, \A i, j \in D : i < j /\ j < slot => good(i, j)
      PROVE  /\ earlier(slot) \in SUBSET RegionType /\ Apart(earlier(slot))
             /\ \A r \in earlier(slot) : r.start < r.end
    <2>1. \A a, b : Clear(a, b) <=> Clear(b, a)
        BY DEF Clear
    <2>2. ASSUME NEW i \in D, NEW j \in D, i < slot, j < slot, regions[i] # regions[j]
          PROVE  Clear(regions[i], regions[j])
        <3>1. i < j \/ j < i
            BY <2>2
        <3>2. QED
            BY <1>1, <2>1, <2>2, <3>1
    <2>3. Apart(earlier(slot))
        BY <2>2 DEF Apart
    <2>4. QED
        BY <2>3
<1>2. ASSUME LaidOut(regions)
      PROVE  Disjoint(regions)
    <2> DEFINE bad == {k \in D : \E i \in D : i < k /\ ~good(i, k)}
    <2>1. SUFFICES ASSUME ~Disjoint(regions) PROVE FALSE
        OBVIOUS
    <2>2. bad \subseteq Nat /\ bad # {}
        BY <2>1 DEF Disjoint
    <2>3. PICK slot \in bad : \A m \in bad : ~(<<m, slot>> \in OpToRel(<, Nat))
        BY <2>2, NatLessThanWellFounded, WFMin
    <2>4. \A m \in bad : ~(m < slot)
        BY <2>2, <2>3 DEF OpToRel
    <2>5. slot \in D /\ \E i \in D : i < slot /\ ~good(i, slot)
        OBVIOUS
    <2>6. \A i, j \in D : i < j /\ j < slot => good(i, j)
        <3>1. ASSUME NEW i \in D, NEW j \in D, i < j, j < slot, ~good(i, j)
              PROVE  FALSE
            <4>1. j \in bad
                BY <3>1
            <4>2. QED
                BY <2>4, <3>1, <4>1
        <3>2. QED
            BY <3>1
    <2>7. Fits(earlier(slot), regions[slot])
        BY <1>2 DEF LaidOut
    <2>8. \/ regions[slot] \in earlier(slot) /\ regions[slot].kind \in CanShare
          \/ \A old \in earlier(slot) : Clear(old, regions[slot])
        <3>1. /\ earlier(slot) \in SUBSET RegionType /\ Apart(earlier(slot))
              /\ \A r \in earlier(slot) : r.start < r.end
            BY <1>1, <2>6
        <3>2. regions[slot] \in RegionType
            OBVIOUS
        <3> HIDE DEF earlier
        <3>3. QED
            BY <2>7, <3>1, <3>2, NeighboursSuffice
    <2>9. PICK i \in D : i < slot /\ ~good(i, slot)
        BY <2>5
    <2>10. regions[i] \in earlier(slot)
        BY <2>9
    <2>11. PICK k \in D : k < slot /\ regions[k] = regions[slot] /\ regions[slot].kind \in CanShare
        BY <2>8, <2>9, <2>10
    <2>12. i = k \/ good(i, k) \/ good(k, i)
        BY <2>6, <2>9, <2>11
    <2>13. good(i, slot)
        <3>1. \A a, b : Clear(a, b) <=> Clear(b, a)
            BY DEF Clear
        <3>2. QED
            BY <2>11, <2>12, <3>1
    <2>14. QED
        BY <2>9, <2>13
<1>3. ASSUME Disjoint(regions)
      PROVE  LaidOut(regions)
    <2> SUFFICES ASSUME NEW slot \in D
                 PROVE  Fits(earlier(slot), regions[slot])
        BY DEF LaidOut
    <2>1. \A i \in D : i < slot => good(i, slot)
        BY <1>3 DEF Disjoint
    <2>2. \A i, j \in D : i < j /\ j < slot => good(i, j)
        BY <1>3 DEF Disjoint
    <2>3. /\ earlier(slot) \in SUBSET RegionType /\ Apart(earlier(slot))
          /\ \A r \in earlier(slot) : r.start < r.end
        BY <1>1, <2>2
    <2>4. \/ regions[slot] \in earlier(slot) /\ regions[slot].kind \in CanShare
          \/ \A old \in earlier(slot) : Clear(old, regions[slot])
        BY <2>1
    <2>5. regions[slot] \in RegionType /\ regions[slot].start < regions[slot].end
        OBVIOUS
    <2> HIDE DEF earlier
    <2>6. QED
        BY <2>3, <2>4, <2>5, NeighboursSuffice
<1>4. QED
    BY <1>2, <1>3

-----------------------------------------------------------------------------
(* What the numbers in a document are                                      *)

(* Two bytes make a half-word.                                             *)
LEMMA TwoBytes ==
    ASSUME NEW x \in 0 .. 255, NEW y \in 0 .. 255
    PROVE  x + 256 * y \in 0 .. Far - 1
<1>1. \A c \in Int, d \in Int : 0 <= c /\ c <= 255 /\ 0 <= d /\ d <= 255 =>
                c + 256 * d \in Int /\ 0 <= c + 256 * d /\ c + 256 * d < Far
    BY SMTT(40) DEF Far
<1>2. Far \in Int
    BY SMTT(40) DEF Far
<1>3. PICK v \in Int : v = x + 256 * y /\ 0 <= v /\ v < Far
    <2>1. x \in Int /\ 0 <= x /\ x <= 255 /\ y \in Int /\ 0 <= y /\ y <= 255
        OBVIOUS
    <2>2. x + 256 * y \in Int /\ 0 <= x + 256 * y /\ x + 256 * y < Far
        BY <1>1, <2>1
    <2>3. QED
        BY <2>2
<1>4. v \in 0 .. Far - 1
    BY SMTT(40), <1>2, <1>3
<1>5. QED
    BY <1>3, <1>4

(* A half-word inside the buffer is less than Far.                         *)
LEMMA HalfWord ==
    ASSUME NEW b \in Seq(Byte), NEW l \in Nat, l + 2 <= Len(b)
    PROVE  U16(b, l) \in 0 .. Far - 1
<1>1. l + 1 \in 1 .. Len(b) /\ l + 2 \in 1 .. Len(b)
    BY LenProperties
<1>2. b[l + 1] \in 0 .. 255 /\ b[l + 2] \in 0 .. 255
    BY <1>1, ElementOfSeq DEF Byte
<1>3. QED
    BY <1>2, TwoBytes DEF U16

(* Words inside the buffer are numbers.                                    *)
LEMMA Words ==
    ASSUME NEW b \in Seq(Byte), NEW l \in Nat, l + 4 <= Len(b)
    PROVE  U32(b, l) \in 0 .. Far /\ I32(b, l) \in Int
<1>1. l + 2 <= Len(b) /\ Far \in Nat
    BY LenProperties DEF Far
<1>2. U16(b, l) \in 0 .. Far - 1
    BY <1>1, HalfWord
<1>3. U32(b, l) \in 0 .. Far
    BY <1>1, <1>2 DEF U32
<1>4. I32(b, l) \in Int
    BY <1>1, <1>2, <1>3 DEF I32
<1>5. QED
    BY <1>3, <1>4

(* A table that fits lies in the document with its vtable and its fields.  *)
LEMMA TableRows ==
    ASSUME NEW b \in Seq(Byte), NEW t \in Nat, TableFits(b, t)
    PROVE  /\ t % 4 = 0 /\ t + 4 <= Len(b)
           /\ Vtable(b, t) \in Nat /\ VtableLength(b, t) \in Nat /\ ObjectLength(b, t) \in Nat
           /\ VtableLength(b, t) >= 4 /\ Vtable(b, t) + VtableLength(b, t) <= Len(b)
           /\ ObjectLength(b, t) >= 4 /\ t + ObjectLength(b, t) <= Len(b)
           /\ FieldCount(b, t) \in Nat
           /\ \A f \in Nat :
                 /\ f < FieldCount(b, t) =>
                       /\ Entry(b, t, f) = U16(b, Vtable(b, t) + 4 + 2 * f)
                       /\ 4 + 2 * f + 2 <= VtableLength(b, t)
                 /\ f >= FieldCount(b, t) => Entry(b, t, f) = 0
                 /\ Entry(b, t, f) \in Nat
                 /\ Entry(b, t, f) # 0 => Entry(b, t, f) >= 4 /\ Entry(b, t, f) < ObjectLength(b, t)
<1>1. /\ Len(b) \in Nat /\ t % 4 = 0 /\ t + 4 <= Len(b)
      /\ I32(b, t) \in Int /\ Vtable(b, t) >= 0 /\ Vtable(b, t) + 4 <= Len(b)
    BY Words DEF TableFits, Aligned, Has
<1>2. Vtable(b, t) \in Nat
    BY <1>1 DEF Vtable
<1>3. VtableLength(b, t) \in 0 .. Far - 1 /\ ObjectLength(b, t) \in 0 .. Far - 1
    BY <1>1, <1>2, HalfWord DEF VtableLength, ObjectLength
<1>4. /\ VtableLength(b, t) \in Nat /\ ObjectLength(b, t) \in Nat
      /\ VtableLength(b, t) >= 4 /\ Vtable(b, t) + VtableLength(b, t) <= Len(b)
      /\ ObjectLength(b, t) >= 4 /\ t + ObjectLength(b, t) <= Len(b)
    BY <1>3 DEF TableFits, Has
<1>5. FieldCount(b, t) \in Nat /\ 2 * FieldCount(b, t) + 4 <= VtableLength(b, t)
    BY <1>4 DEF FieldCount
<1>6. ASSUME NEW f \in Nat
      PROVE  /\ f < FieldCount(b, t) =>
                   /\ Entry(b, t, f) = U16(b, Vtable(b, t) + 4 + 2 * f)
                   /\ 4 + 2 * f + 2 <= VtableLength(b, t)
             /\ f >= FieldCount(b, t) => Entry(b, t, f) = 0
    BY <1>4, <1>5 DEF Entry, FieldCount, VtableLength
<1>7. ASSUME NEW f \in Nat
      PROVE  /\ Entry(b, t, f) \in Nat
             /\ Entry(b, t, f) # 0 => Entry(b, t, f) >= 4 /\ Entry(b, t, f) < ObjectLength(b, t)
    <2>1. CASE f < FieldCount(b, t)
        <3>1. f \in 0 .. FieldCount(b, t) - 1
            BY <1>5, <2>1
        <3>2. Entry(b, t, f) \in {0} \cup 4 .. ObjectLength(b, t) - 1
            BY <3>1 DEF TableFits
        <3>3. QED
            BY <1>4, <3>2
    <2>2. CASE f >= FieldCount(b, t)
        BY <1>6, <2>2
    <2>3. QED
        BY <1>5, <2>1, <2>2
<1>8. QED
    BY <1>1, <1>2, <1>4, <1>5, <1>6, <1>7

(* A distance that leads somewhere leads into the document.                *)
LEMMA TargetRows ==
    ASSUME NEW b \in Seq(Byte), NEW l \in Nat, Leads(b, l)
    PROVE  /\ l % 4 = 0 /\ l + 4 <= Len(b)
           /\ Target(b, l) \in Nat /\ Target(b, l) % 4 = 0 /\ Target(b, l) < Len(b)
<1>1. l % 4 = 0 /\ l + 4 <= Len(b) /\ Target(b, l) % 4 = 0 /\ Target(b, l) < Len(b)
    BY DEF Leads, Aligned, Has
<1>2. U32(b, l) \in Nat
    BY <1>1, Words
<1>3. QED
    BY <1>1, <1>2 DEF Target

(* A string that fits lies in the buffer, and so does the word before it.  *)
LEMMA StringRows ==
    ASSUME NEW b \in Seq(Byte), NEW l \in Nat, StringFits(b, l)
    PROVE  /\ l % 4 = 0 /\ l + 4 <= Len(b)
           /\ String(b, l) \in Nat /\ StringLength(b, l) \in Nat
           /\ String(b, l) + 4 + StringLength(b, l) + 1 <= Len(b)
<1>1. l % 4 = 0 /\ l + 4 <= Len(b) /\ String(b, l) \in Nat
    BY TargetRows DEF StringFits, String
<1>2. StringLength(b, l) \in Nat
    BY <1>1, Words DEF StringFits, Has, StringLength
<1>3. QED
    BY <1>1, <1>2 DEF StringFits, Has

(* A structured document has its root, its pool and every object in it.    *)
LEMMA DocumentRows ==
    ASSUME NEW b \in Seq(Byte), Structured(b)
    PROVE  /\ Len(b) \in Nat /\ Len(b) >= 8
           /\ Root(b) \in Nat /\ TableFits(b, Root(b))
           /\ Present(b, Root(b), 0) /\ FieldFits(b, Root(b), 0)
           /\ Field(b, Root(b), 0) \in Nat
           /\ Pool(b) \in Nat /\ ObjectCount(b) \in Nat /\ ObjectCount(b) > 0
           /\ Pool(b) + 4 + 4 * ObjectCount(b) <= Len(b)
<1>1. Len(b) \in Nat /\ Len(b) >= 8
    BY DEF Structured, HeaderFits
<1>2. Root(b) \in Nat /\ TableFits(b, Root(b)) /\ Present(b, Root(b), 0) /\ FieldFits(b, Root(b), 0)
    BY TargetRows DEF Structured, PoolFits, Root
<1>3. Field(b, Root(b), 0) \in Nat
    <2>1. \A f \in Nat : Entry(b, Root(b), f) \in Nat
        BY <1>2, TableRows
    <2>2. QED
        BY <1>2, <2>1 DEF Field
<1>4. Pool(b) \in Nat
    BY <1>3, TargetRows DEF Structured, PoolFits, Pool
<1>5. ObjectCount(b) \in Nat /\ ObjectCount(b) > 0
    BY <1>4, Words DEF Structured, PoolFits, Has, ObjectCount
<1>6. Pool(b) + 4 + 4 * ObjectCount(b) <= Len(b)
    BY <1>4, <1>5 DEF Structured, PoolFits, Has
<1>7. QED
    BY <1>1, <1>2, <1>3, <1>4, <1>5, <1>6

(* Every pool element leads to a table that fits.                          *)
LEMMA ObjectRows ==
    ASSUME NEW b \in Seq(Byte), Structured(b), NEW index \in Objects(b)
    PROVE  /\ index \in Nat /\ index < ObjectCount(b)
           /\ Element(b, index) \in Nat
           /\ Element(b, index) >= Pool(b) + 4
           /\ Element(b, index) + 4 <= Pool(b) + 4 + 4 * ObjectCount(b)
           /\ Object(b, index) \in Nat
           /\ ObjectFits(b, index) /\ TableFits(b, Object(b, index))
           /\ FieldFits(b, Object(b, index), 0)
<1>1. index \in Nat /\ index < ObjectCount(b)
    BY DocumentRows DEF Objects
<1>2. /\ Element(b, index) \in Nat
      /\ Element(b, index) >= Pool(b) + 4
      /\ Element(b, index) + 4 <= Pool(b) + 4 + 4 * ObjectCount(b)
    BY <1>1, DocumentRows DEF Element
<1>3. ObjectFits(b, index)
    BY DEF Structured, ObjectsFit
<1>4. Object(b, index) \in Nat
    BY <1>2, <1>3, TargetRows DEF ObjectFits, Object
<1>5. QED
    BY <1>1, <1>2, <1>3, <1>4 DEF ObjectFits

(* The f10 of a source node lies in its table and leads to a string.       *)
LEMMA SourceRows ==
    ASSUME NEW b \in Seq(Byte), Structured(b), NEW index \in SourceIndexes(b)
    PROVE  /\ index \in Objects(b) /\ IsSource(b, Object(b, index))
           /\ SourceField(b, index) \in Nat
           /\ SourceField(b, index) >= Object(b, index) + 4
           /\ SourceField(b, index) + 4 <= Object(b, index) + ObjectLength(b, Object(b, index))
           /\ FieldFits(b, Object(b, index), 10)
           /\ StringFits(b, SourceField(b, index))
<1> DEFINE t == Object(b, index)
<1>1. index \in Objects(b) /\ IsSource(b, t) /\ t \in Nat /\ TableFits(b, t)
    BY ObjectRows DEF SourceIndexes
<1>2. FieldFits(b, t, 10) /\ StringFits(b, SourceField(b, index))
    BY <1>1 DEF Structured, ObjectsFit
<1>3. Entry(b, t, 10) \in Nat /\ Entry(b, t, 10) >= 4 /\ Entry(b, t, 10) + 4 <= ObjectLength(b, t)
      /\ ObjectLength(b, t) \in Nat
    BY <1>1, <1>2, TableRows DEF FieldFits, IsSource, Present
<1>4. QED
    BY <1>1, <1>2, <1>3 DEF SourceField, Field

-----------------------------------------------------------------------------
(* The regions of a document                                               *)

(* What a slot says of its owner and its part, and back.                   *)
LEMMA ThreeParts ==
    ASSUME NEW slot \in Int
    PROVE  /\ slot \div 3 \in Int /\ slot % 3 \in 0 .. 2
           /\ slot % 3 = slot - 3 * (slot \div 3)
OBVIOUS

(* A slot is determined by its owner and part.                             *)
LEMMA PartOf ==
    ASSUME NEW slot \in Int, NEW owner \in Int, NEW part \in 0 .. 2, slot = 3 * owner + part
    PROVE  slot \div 3 = owner /\ slot % 3 = part
<1>1. owner = slot \div 3
    OBVIOUS
<1>2. part = slot % 3
    OBVIOUS
<1>3. QED
    BY <1>1, <1>2

(* A slot is the header's, one of the root's three or one of an object's.  *)
LEMMA SlotRows ==
    ASSUME NEW b \in Seq(Byte), Structured(b), NEW slot \in Slots(b)
    PROVE  /\ slot \in Nat /\ slot \div 3 \in Int /\ slot % 3 \in 0 .. 2
           /\ slot % 3 = slot - 3 * (slot \div 3)
           /\ \/ slot \div 3 = 0 /\ slot % 3 = 0
              \/ slot \div 3 = 1
              \/ /\ slot \div 3 - 2 \in Objects(b)
                 /\ slot % 3 = 2 => slot \div 3 - 2 \in SourceIndexes(b)
<1>1. ObjectCount(b) \in Nat
    BY DocumentRows
<1>2. slot \in Nat
    BY <1>1 DEF Slots
<1>3. /\ slot \div 3 \in Int /\ slot % 3 \in 0 .. 2
      /\ slot % 3 = slot - 3 * (slot \div 3)
    BY <1>2, ThreeParts
<1> DEFINE q == slot \div 3
           r == slot % 3
<1>4. q \in Int /\ r \in 0 .. 2 /\ r = slot - 3 * q
    BY <1>3
<1>5. CASE slot < 6
    <2>1. slot \in {0} \cup 3 .. 5
        BY <1>1, <1>5 DEF Slots
    <2> HIDE DEF q, r
    <2>2. (q = 0 /\ r = 0) \/ q = 1
        BY <1>4, <2>1
    <2>3. QED
        BY <1>2, <1>3, <2>2 DEF q, r
<1>6. CASE slot >= 6
    <2>1. /\ slot <= 3 * ObjectCount(b) + 5
          /\ r = 2 => IsSource(b, Object(b, q - 2))
        BY <1>1, <1>2, <1>6 DEF Slots
    <2>2. q - 2 \in Objects(b)
        <3> HIDE DEF q, r
        <3>1. QED
            BY <1>1, <1>2, <1>4, <1>6, <2>1 DEF Objects
    <2>3. r = 2 => q - 2 \in SourceIndexes(b)
        BY <2>1, <2>2 DEF SourceIndexes
    <2>4. QED
        BY <1>2, <1>3, <2>2, <2>3
<1>7. QED
    BY <1>2, <1>5, <1>6

(* The slots of the document's parts, and what is in them.                 *)
LEMMA SlotOf ==
    ASSUME NEW b \in Seq(Byte), Structured(b)
    PROVE  /\ 0 \in Slots(b) /\ Regions(b)[0] = Region(0, 8, "header")
           /\ 3 \in Slots(b) /\ Regions(b)[3] = TableRegion(b, Root(b))
           /\ 4 \in Slots(b) /\ Regions(b)[4] = VtableRegion(b, Root(b))
           /\ 5 \in Slots(b) /\ Regions(b)[5] = VectorRegion(b)
           /\ \A i \in Objects(b) :
                 /\ 3 * i + 6 \in Slots(b)
                 /\ Regions(b)[3 * i + 6] = TableRegion(b, Object(b, i))
                 /\ 3 * i + 7 \in Slots(b)
                 /\ Regions(b)[3 * i + 7] = VtableRegion(b, Object(b, i))
           /\ \A i \in SourceIndexes(b) :
                 /\ 3 * i + 8 \in Slots(b)
                 /\ Regions(b)[3 * i + 8] = StringRegion(b, SourceField(b, i))
<1>1. ObjectCount(b) \in Nat
    BY DocumentRows
<1>2. 0 \in Slots(b) /\ 3 \in Slots(b) /\ 4 \in Slots(b) /\ 5 \in Slots(b)
    BY DEF Slots
<1>3. /\ 0 \div 3 = 0 /\ 0 % 3 = 0 /\ 3 \div 3 = 1 /\ 3 % 3 = 0
      /\ 4 \div 3 = 1 /\ 4 % 3 = 1 /\ 5 \div 3 = 1 /\ 5 % 3 = 2
    OBVIOUS
<1>4. /\ Regions(b)[0] = Region(0, 8, "header")
      /\ Regions(b)[3] = TableRegion(b, Root(b))
      /\ Regions(b)[4] = VtableRegion(b, Root(b))
      /\ Regions(b)[5] = VectorRegion(b)
    BY <1>2, <1>3 DEF Regions, RegionAt, TableOf
<1>5. ASSUME NEW i \in Objects(b)
      PROVE  /\ 3 * i + 6 \in Slots(b)
             /\ Regions(b)[3 * i + 6] = TableRegion(b, Object(b, i))
             /\ 3 * i + 7 \in Slots(b)
             /\ Regions(b)[3 * i + 7] = VtableRegion(b, Object(b, i))
    <2>1. i \in Nat /\ i < ObjectCount(b)
        BY <1>1 DEF Objects
    <2>2. /\ (3 * i + 6) \div 3 = i + 2 /\ (3 * i + 6) % 3 = 0
          /\ (3 * i + 7) \div 3 = i + 2 /\ (3 * i + 7) % 3 = 1
        BY <2>1, PartOf
    <2>3. 3 * i + 6 \in Slots(b) /\ 3 * i + 7 \in Slots(b)
        BY <1>1, <2>1, <2>2 DEF Slots
    <2>4. /\ Regions(b)[3 * i + 6] = RegionAt(b, i + 2, 0)
          /\ Regions(b)[3 * i + 7] = RegionAt(b, i + 2, 1)
        BY <2>2, <2>3 DEF Regions
    <2>5. i + 2 > 0 /\ i + 2 # 0 /\ i + 2 # 1 /\ (i + 2) - 2 = i
        BY <2>1
    <2>6. QED
        BY <2>3, <2>4, <2>5 DEF RegionAt, TableOf
<1>6. ASSUME NEW i \in SourceIndexes(b)
      PROVE  /\ 3 * i + 8 \in Slots(b)
             /\ Regions(b)[3 * i + 8] = StringRegion(b, SourceField(b, i))
    <2>1. i \in Nat /\ i < ObjectCount(b) /\ IsSource(b, Object(b, i))
        BY <1>1 DEF Objects, SourceIndexes
    <2>2. (3 * i + 8) \div 3 = i + 2 /\ (3 * i + 8) % 3 = 2
        BY <2>1, PartOf
    <2>3. i + 2 > 1 /\ i + 2 # 0 /\ i + 2 # 1 /\ (i + 2) - 2 = i
        BY <2>1
    <2>4. 3 * i + 8 \in Slots(b)
        BY <1>1, <2>1, <2>2, <2>3 DEF Slots
    <2>5. Regions(b)[3 * i + 8] = RegionAt(b, i + 2, 2)
        BY <2>2, <2>4 DEF Regions
    <2>6. QED
        BY <2>3, <2>4, <2>5 DEF RegionAt
<1>7. QED
    BY <1>2, <1>4, <1>5, <1>6

(* Every region of a structured document lies in it and is not empty.      *)
LEMMA RegionRows ==
    ASSUME NEW b \in Seq(Byte), Structured(b)
    PROVE  /\ Slots(b) \in SUBSET Nat
           /\ DOMAIN Regions(b) = Slots(b)
           /\ Regions(b) \in [Slots(b) -> RegionType]
           /\ \A slot \in Slots(b) :
                 /\ Regions(b)[slot].start < Regions(b)[slot].end
                 /\ Regions(b)[slot].end <= Len(b)
<1>1. ASSUME NEW slot \in Slots(b)
      PROVE  /\ Regions(b)[slot] \in RegionType
             /\ Regions(b)[slot].start < Regions(b)[slot].end
             /\ Regions(b)[slot].end <= Len(b)
    <2> DEFINE good(region) ==
                   region \in RegionType /\ region.start < region.end /\ region.end <= Len(b)
    <2>1. Len(b) \in Nat /\ Len(b) >= 8
        BY DocumentRows
    <2>2. good(Region(0, 8, "header"))
        BY <2>1 DEF Region, RegionType
    <2>3. ASSUME NEW t \in Nat, TableFits(b, t)
          PROVE  good(TableRegion(b, t)) /\ good(VtableRegion(b, t))
        <3>1. /\ Vtable(b, t) \in Nat /\ VtableLength(b, t) \in Nat /\ ObjectLength(b, t) \in Nat
              /\ VtableLength(b, t) >= 4 /\ Vtable(b, t) + VtableLength(b, t) <= Len(b)
              /\ ObjectLength(b, t) >= 4 /\ t + ObjectLength(b, t) <= Len(b)
            BY <2>3, TableRows
        <3>2. QED
            BY <2>1, <3>1 DEF Region, RegionType, TableRegion, VtableRegion
    <2>4. good(VectorRegion(b))
        BY <2>1, DocumentRows DEF Region, RegionType, VectorRegion
    <2>5. good(TableRegion(b, Root(b))) /\ good(VtableRegion(b, Root(b)))
        BY <2>3, DocumentRows
    <2>6. ASSUME NEW i \in Objects(b)
          PROVE  good(TableRegion(b, Object(b, i))) /\ good(VtableRegion(b, Object(b, i)))
        BY <2>3, ObjectRows
    <2>7. ASSUME NEW i \in SourceIndexes(b)
          PROVE  good(StringRegion(b, SourceField(b, i)))
        BY <2>1, SourceRows, StringRows DEF Region, RegionType, StringRegion
    <2>8. Regions(b)[slot] = RegionAt(b, slot \div 3, slot % 3)
        BY DEF Regions
    <2>9. CASE slot \div 3 = 0
        BY <2>2, <2>8, <2>9 DEF RegionAt
    <2>10. CASE slot \div 3 = 1
        <3>1. slot % 3 \in {0, 1, 2}
            BY SlotRows
        <3>2. QED
            BY <2>4, <2>5, <2>8, <2>10, <3>1 DEF RegionAt, TableOf
    <2>11. ASSUME NEW i \in Objects(b), i = slot \div 3 - 2,
                  slot % 3 = 2 => i \in SourceIndexes(b)
           PROVE  good(Regions(b)[slot])
        <3> HIDE DEF good
        <3>1. slot % 3 \in {0, 1, 2} /\ slot \div 3 = i + 2 /\ i \in Nat
            BY SMTT(40), <2>11, SlotRows, ObjectRows
        <3> DEFINE q == slot \div 3
                   r == slot % 3
        <3>2. slot \in Nat /\ q \in Int /\ q = i + 2 /\ r = slot - 3 * q
            BY <3>1, SlotRows
        <3>3. slot = 3 * i + 6 + r
            <4> HIDE DEF q, r
            <4>1. QED
                BY <3>1, <3>2
        <3>4. CASE slot % 3 = 0
            <4>1. slot = 3 * i + 6
                BY <3>1, <3>3, <3>4
            <4>2. QED
                BY <2>6, <4>1, SlotOf
        <3>5. CASE slot % 3 = 1
            <4>1. slot = 3 * i + 7
                BY <3>1, <3>3, <3>5
            <4>2. QED
                BY <2>6, <4>1, SlotOf
        <3>6. CASE slot % 3 = 2
            <4>1. slot = 3 * i + 8
                BY <3>1, <3>3, <3>6
            <4>2. QED
                BY <2>7, <2>11, <3>6, <4>1, SlotOf
        <3>7. QED
            BY <3>1, <3>4, <3>5, <3>6
    <2>12. QED
        BY <2>9, <2>10, <2>11, SlotRows
<1>2. Slots(b) \in SUBSET Nat
    BY SlotRows
<1>3. QED
    BY <1>1, <1>2 DEF Regions

(* Of a document the layout accepts exactly what does not overlap.         *)
LEMMA StructuredIsDisjoint ==
    ASSUME NEW b \in Seq(Byte), Structured(b)
    PROVE  LaidOut(Regions(b)) <=> Disjoint(Regions(b))
BY RegionRows, LayoutDecidesDisjointness

-----------------------------------------------------------------------------
(* What a string appended at the end changes                               *)

\* Two buffers are the same from one place up to another.
Agree(b, n, from, to) == \A i \in Nat : from < i /\ i <= to => n[i] = b[i]

(* Where two buffers agree they have the same pieces.                      *)
LEMMA SameSubSeq ==
    ASSUME NEW b \in Seq(Byte), NEW n \in Seq(Byte), NEW from \in Nat, NEW to \in Nat,
           to <= Len(b), to <= Len(n), Agree(b, n, from, to)
    PROVE  SubSeq(n, from + 1, to) = SubSeq(b, from + 1, to)
<1>1. ASSUME NEW s \in Seq(Byte), to <= Len(s)
      PROVE  /\ SubSeq(s, from + 1, to) \in Seq(Byte)
             /\ Len(SubSeq(s, from + 1, to)) = IF from + 1 <= to THEN to - from ELSE 0
             /\ \A i \in 1 .. to - from : SubSeq(s, from + 1, to)[i] = s[from + i]
    <2>1. \A i \in from + 1 .. to : s[i] \in Byte
        BY <1>1, ElementOfSeq, LenProperties
    <2>2. from + 1 \in Int /\ to \in Int /\ to - (from + 1) + 1 = to - from
        OBVIOUS
    <2>3. /\ SubSeq(s, from + 1, to) \in Seq(Byte)
          /\ Len(SubSeq(s, from + 1, to)) =
                IF from + 1 <= to THEN to - (from + 1) + 1 ELSE 0
          /\ \A i \in 1 .. to - (from + 1) + 1 :
                SubSeq(s, from + 1, to)[i] = s[(from + 1) + i - 1]
        BY <2>1, <2>2, SubSeqProperties
    <2>4. \A i \in 1 .. to - from : (from + 1) + i - 1 = from + i
        OBVIOUS
    <2>5. QED
        BY <2>2, <2>3, <2>4
<1> DEFINE sb == SubSeq(b, from + 1, to)
           sn == SubSeq(n, from + 1, to)
<1>2. sb \in Seq(Byte) /\ sn \in Seq(Byte) /\ Len(sb) = Len(sn)
    BY <1>1
<1>3. \A i \in 1 .. Len(sn) : sn[i] = sb[i]
    <2> SUFFICES ASSUME NEW i \in 1 .. Len(sn)
                 PROVE  sn[i] = sb[i]
        OBVIOUS
    <2>1. i \in Nat /\ i >= 1 /\ i <= to - from
        BY <1>1, <1>2
    <2>2. from + i \in Nat /\ from < from + i /\ from + i <= to /\ i \in 1 .. to - from
        BY <2>1
    <2>3. n[from + i] = b[from + i]
        BY <2>2 DEF Agree
    <2>4. sn[i] = n[from + i] /\ sb[i] = b[from + i]
        BY <1>1, <2>2
    <2>5. QED
        BY <2>3, <2>4
<1>4. QED
    BY <1>2, <1>3, SeqEqual

(* Numbers are the same where the bytes are.                               *)
LEMMA SameWord ==
    ASSUME NEW b, NEW n, NEW l \in Nat, Agree(b, n, l, l + 4)
    PROVE  U32(n, l) = U32(b, l) /\ I32(n, l) = I32(b, l) /\ Target(n, l) = Target(b, l)
<1>1. n[l + 1] = b[l + 1] /\ n[l + 2] = b[l + 2] /\ n[l + 3] = b[l + 3] /\ n[l + 4] = b[l + 4]
    BY DEF Agree
<1>2. U16(n, l) = U16(b, l)
    BY <1>1 DEF U16
<1>3. U32(n, l) = U32(b, l)
    BY <1>1, <1>2 DEF U32
<1>4. I32(n, l) = I32(b, l)
    BY <1>1, <1>2, <1>3 DEF I32
<1>5. QED
    BY <1>3, <1>4 DEF Target

(* Where two buffers agree they have the same half-words.                  *)
LEMMA SameHalf ==
    ASSUME NEW b, NEW n, NEW l \in Nat, Agree(b, n, l, l + 2)
    PROVE  U16(n, l) = U16(b, l)
<1>1. n[l + 1] = b[l + 1] /\ n[l + 2] = b[l + 2]
    BY DEF Agree
<1>2. QED
    BY <1>1 DEF U16

(* Buffers that agree on a range agree within it.                          *)
LEMMA AgreeWithin ==
    ASSUME NEW b, NEW n, NEW from \in Nat, NEW to \in Nat, Agree(b, n, from, to),
           NEW l \in Nat, NEW r \in Nat, from <= l, r <= to
    PROVE  Agree(b, n, l, r)
BY DEF Agree

(* Where two buffers agree on a word it leads to the same place.           *)
LEMMA SameLeads ==
    ASSUME NEW b \in Seq(Byte), NEW n \in Seq(Byte), Len(b) <= Len(n), NEW l \in Nat,
           Leads(b, l), Agree(b, n, l, l + 4)
    PROVE  Leads(n, l) /\ Target(n, l) = Target(b, l)
<1>1. Len(b) \in Nat /\ Len(n) \in Nat
    BY LenProperties
<1>2. U32(n, l) = U32(b, l) /\ Target(n, l) = Target(b, l)
    BY SameWord
<1>3. Target(b, l) \in Nat
    BY TargetRows
<1>4. QED
    BY <1>1, <1>2, <1>3 DEF Leads, Aligned, Has

(* A table reads the same where its offset and its vtable do.              *)
LEMMA SameTable ==
    ASSUME NEW b \in Seq(Byte), NEW n \in Seq(Byte), Len(b) <= Len(n), NEW t \in Nat,
           TableFits(b, t), Agree(b, n, t, t + 4),
           Agree(b, n, Vtable(b, t), Vtable(b, t) + VtableLength(b, t))
    PROVE  /\ TableFits(n, t)
           /\ Vtable(n, t) = Vtable(b, t) /\ VtableLength(n, t) = VtableLength(b, t)
           /\ ObjectLength(n, t) = ObjectLength(b, t) /\ FieldCount(n, t) = FieldCount(b, t)
           /\ \A f \in Nat : Entry(n, t, f) = Entry(b, t, f)
<1> DEFINE v == Vtable(b, t)
<1>1. /\ Len(b) \in Nat /\ Len(n) \in Nat /\ v \in Nat
      /\ VtableLength(b, t) \in Nat /\ ObjectLength(b, t) \in Nat
      /\ VtableLength(b, t) >= 4 /\ v + VtableLength(b, t) <= Len(b)
      /\ ObjectLength(b, t) >= 4 /\ t + ObjectLength(b, t) <= Len(b)
      /\ FieldCount(b, t) \in Nat
    BY TableRows, LenProperties
<1>2. Vtable(n, t) = v /\ I32(n, t) = I32(b, t)
    BY SameWord DEF Vtable
<1>3. VtableLength(n, t) = VtableLength(b, t)
    <2>1. v + 2 \in Nat /\ v + 2 <= v + VtableLength(b, t) /\ v + VtableLength(b, t) \in Nat
        BY <1>1
    <2>2. Agree(b, n, v, v + 2)
        BY <1>1, <2>1, AgreeWithin
    <2>3. QED
        BY <1>1, <1>2, <2>2, SameHalf DEF VtableLength
<1>4. ObjectLength(n, t) = ObjectLength(b, t)
    <2>1. /\ v + 2 \in Nat /\ v + 4 \in Nat /\ v + 2 + 2 = v + 4 /\ v <= v + 2
          /\ v + 4 <= v + VtableLength(b, t) /\ v + VtableLength(b, t) \in Nat
        BY <1>1
    <2>2. Agree(b, n, v + 2, v + 4)
        BY <1>1, <2>1, AgreeWithin
    <2>3. QED
        BY <1>1, <1>2, <2>1, <2>2, SameHalf DEF ObjectLength
<1>5. FieldCount(n, t) = FieldCount(b, t)
    BY <1>3 DEF FieldCount
<1>6. ASSUME NEW f \in Nat
      PROVE  Entry(n, t, f) = Entry(b, t, f)
    <2>1. /\ U16(n, v) = VtableLength(b, t) /\ U16(b, v) = VtableLength(b, t)
          /\ (VtableLength(b, t) - 4) \div 2 = FieldCount(b, t)
        BY <1>2, <1>3 DEF VtableLength, FieldCount
    <2>2. CASE f < FieldCount(b, t)
        <3> DEFINE l == v + 4 + 2 * f
        <3>1. 4 + 2 * f + 2 <= VtableLength(b, t)
            BY <2>2, TableRows
        <3>2. /\ l \in Nat /\ l + 2 \in Nat /\ v <= l
              /\ l + 2 <= v + VtableLength(b, t) /\ v + VtableLength(b, t) \in Nat
            BY SMTT(40), <1>1, <3>1
        <3>3. Agree(b, n, l, l + 2)
            BY <1>1, <3>2, AgreeWithin
        <3>4. U16(n, l) = U16(b, l)
            BY <3>2, <3>3, SameHalf
        <3>5. QED
            BY <1>2, <2>1, <2>2, <3>4 DEF Entry
    <2>3. CASE ~(f < FieldCount(b, t))
        BY <1>2, <2>1, <2>3 DEF Entry
    <2>4. QED
        BY <2>2, <2>3
<1>7. TableFits(n, t)
    <2>1. \A f \in 0 .. FieldCount(n, t) - 1 :
              Entry(n, t, f) \in {0} \cup 4 .. ObjectLength(n, t) - 1
        BY <1>1, <1>4, <1>5, <1>6 DEF TableFits
    <2>2. /\ Aligned(t, 4) /\ I32(n, t) # 0
          /\ Vtable(n, t) >= 0 /\ Aligned(Vtable(n, t), 2)
          /\ VtableLength(n, t) >= 4 /\ Aligned(VtableLength(n, t), 2)
          /\ ObjectLength(n, t) >= 4
        BY <1>2, <1>3, <1>4 DEF TableFits
    <2>3. /\ Has(n, t, 4) /\ Has(n, Vtable(n, t), 4)
          /\ Has(n, Vtable(n, t), VtableLength(n, t)) /\ Has(n, t, ObjectLength(n, t))
        BY <1>1, <1>2, <1>3, <1>4 DEF Has
    <2>4. QED
        BY <2>1, <2>2, <2>3 DEF TableFits
<1>8. QED
    BY <1>2, <1>3, <1>4, <1>5, <1>6, <1>7

(* A field of a table with the same vtable fits as before.                 *)
LEMMA SameField ==
    ASSUME NEW b, NEW n, NEW t, NEW f \in Nat, FieldFits(b, t, f),
           ObjectLength(n, t) = ObjectLength(b, t), FieldCount(n, t) = FieldCount(b, t),
           FieldCount(b, t) \in Nat,
           \A g \in Nat : Entry(n, t, g) = Entry(b, t, g)
    PROVE  FieldFits(n, t, f)
<1>1. \A g \in 0 .. FieldCount(b, t) - 1 : Entry(n, t, g) = Entry(b, t, g)
    OBVIOUS
<1>2. QED
    BY <1>1 DEF FieldFits, Present

(* A string reads the same where its distance and its bytes do.            *)
LEMMA SameString ==
    ASSUME NEW b \in Seq(Byte), NEW n \in Seq(Byte), Len(b) <= Len(n), NEW l \in Nat,
           StringFits(b, l), Agree(b, n, l, l + 4),
           Agree(b, n, String(b, l), String(b, l) + 4 + StringLength(b, l) + 1)
    PROVE  /\ StringFits(n, l)
           /\ String(n, l) = String(b, l) /\ StringLength(n, l) = StringLength(b, l)
           /\ Text(n, l) = Text(b, l)
<1> DEFINE s == String(b, l)
           k == StringLength(b, l)
<1>1. Len(b) \in Nat /\ Len(n) \in Nat /\ s \in Nat /\ k \in Nat /\ s + 4 + k + 1 <= Len(b)
    BY StringRows, LenProperties
<1>2. Leads(n, l) /\ String(n, l) = s
    BY SameLeads DEF StringFits, String
<1>3. StringLength(n, l) = k
    <2>1. s + 4 \in Nat /\ s + 4 <= s + 4 + k + 1 /\ s + 4 + k + 1 \in Nat
        BY <1>1
    <2>2. Agree(b, n, s, s + 4)
        BY <1>1, <2>1, AgreeWithin
    <2>3. QED
        BY <1>1, <1>2, <2>2, SameWord DEF StringLength
<1>4. Text(n, l) = Text(b, l)
    <2>1. /\ s + 4 \in Nat /\ s + 4 + k \in Nat /\ s <= s + 4 /\ s + 4 + k <= s + 4 + k + 1
          /\ s + 4 + k + 1 \in Nat /\ s + 4 + k <= Len(b) /\ s + 4 + k <= Len(n)
          /\ (s + 4) + 1 = s + 5
        BY <1>1
    <2>2. Agree(b, n, s + 4, s + 4 + k)
        BY <1>1, <2>1, AgreeWithin
    <2>3. SubSeq(n, (s + 4) + 1, s + 4 + k) = SubSeq(b, (s + 4) + 1, s + 4 + k)
        BY <2>1, <2>2, SameSubSeq
    <2>4. QED
        BY <1>2, <1>3, <2>1, <2>3 DEF Text
<1>5. n[s + 4 + k + 1] = b[s + 4 + k + 1]
    <2> DEFINE e == s + 4 + k + 1
    <2>1. e \in Nat /\ s < e /\ e <= e /\ Agree(b, n, s, e)
        BY <1>1
    <2> HIDE DEF e, s
    <2>2. n[e] = b[e]
        BY <2>1 DEF Agree
    <2>3. QED
        BY <2>2 DEF e
<1>6. QED
    BY <1>1, <1>2, <1>3, <1>4, <1>5 DEF StringFits, Has

\* A padded buffer, the word of a length, the text and its terminator.
Pieces(b, p, word, text) == b \o Zeros(p) \o word \o text \o << 0 >>

(* Where bytes are put one after another.                                  *)
LEMMA PiecesSeq ==
    ASSUME NEW S, 0 \in S, NEW b \in Seq(S), NEW word \in Seq(S), NEW text \in Seq(S),
           NEW p \in Nat
    PROVE  Pieces(b, p, word, text) \in Seq(S)
<1>1. Zeros(p) \in [1 .. p -> S]
    BY DEF Zeros
<1>2. Zeros(p) \in Seq(S) /\ << 0 >> \in Seq(S)
    BY <1>1, SeqDef
<1>3. b \o Zeros(p) \in Seq(S)
    BY <1>2, ConcatProperties
<1>4. b \o Zeros(p) \o word \in Seq(S)
    BY <1>3, ConcatProperties
<1>5. b \o Zeros(p) \o word \o text \in Seq(S)
    BY <1>4, ConcatProperties
<1>6. QED
    BY <1>2, <1>5, ConcatProperties DEF Pieces

(* What each place of a padded and extended buffer holds.                  *)
LEMMA PiecesRows ==
    ASSUME NEW b \in Seq(Int), NEW word \in Seq(Int), NEW text \in Seq(Int),
           NEW p \in Nat
    PROVE  /\ Pieces(b, p, word, text) \in Seq(Int)
           /\ Len(Pieces(b, p, word, text)) = Len(b) + p + Len(word) + Len(text) + 1
           /\ \A i \in 1 .. Len(b) : Pieces(b, p, word, text)[i] = b[i]
           /\ \A i \in 1 .. Len(word) : Pieces(b, p, word, text)[Len(b) + p + i] = word[i]
           /\ \A i \in 1 .. Len(text) :
                 Pieces(b, p, word, text)[Len(b) + p + Len(word) + i] = text[i]
           /\ Pieces(b, p, word, text)[Len(b) + p + Len(word) + Len(text) + 1] = 0
<1>1. ASSUME NEW S, 0 \in S, b \in Seq(S), word \in Seq(S), text \in Seq(S)
      PROVE  /\ Pieces(b, p, word, text) \in Seq(S)
             /\ Len(Pieces(b, p, word, text)) = Len(b) + p + Len(word) + Len(text) + 1
             /\ \A i \in 1 .. Len(b) : Pieces(b, p, word, text)[i] = b[i]
             /\ \A i \in 1 .. Len(word) : Pieces(b, p, word, text)[Len(b) + p + i] = word[i]
             /\ \A i \in 1 .. Len(text) :
                   Pieces(b, p, word, text)[Len(b) + p + Len(word) + i] = text[i]
             /\ Pieces(b, p, word, text)[Len(b) + p + Len(word) + Len(text) + 1] = 0
    <2> DEFINE zeros == Zeros(p)
               end == << 0 >>
               one == b \o zeros
               place == Len(b) + p
               two == one \o word
               three == two \o text
               n == three \o end
    <2>1. Len(b) \in Nat /\ Len(text) \in Nat /\ Len(word) \in Nat /\ place \in Nat
        BY LenProperties
    <2>2. zeros \in Seq(S) /\ Len(zeros) = p
        <3>1. zeros \in [1 .. p -> S]
            BY <1>1 DEF Zeros
        <3>2. zeros \in Seq(S)
            BY <3>1, SeqDef
        <3>3. DOMAIN zeros = 1 .. p /\ DOMAIN zeros = 1 .. Len(zeros) /\ Len(zeros) \in Nat
            BY <3>1, <3>2, LenProperties
        <3>4. QED
            BY <3>2, <3>3
    <2>3. Len(end) = 1 /\ end[1] = 0
        OBVIOUS
    <2>3a. end \in Seq(S)
        BY <1>1
    <2> HIDE DEF zeros, end
    <2>4. /\ one \in Seq(S) /\ Len(one) = place
          /\ \A i \in 1 .. place : one[i] = IF i <= Len(b) THEN b[i] ELSE zeros[i - Len(b)]
        BY <1>1, <2>2, ConcatProperties
    <2>5. place >= Len(b)
        BY <2>1
    <2> HIDE DEF one, place
    <2>6. /\ two \in Seq(S) /\ Len(two) = place + Len(word)
          /\ \A i \in 1 .. place + Len(word) : two[i] = IF i <= place THEN one[i] ELSE word[i - place]
        <3>1. /\ two \in Seq(S) /\ Len(two) = Len(one) + Len(word)
              /\ \A i \in 1 .. Len(one) + Len(word) :
                    two[i] = IF i <= Len(one) THEN one[i] ELSE word[i - Len(one)]
            BY <1>1, <2>4, ConcatProperties
        <3>2. Len(one) = place
            BY <2>4
        <3>3. QED
            BY <3>1, <3>2
    <2> HIDE DEF two
    <2>7. /\ three \in Seq(S) /\ Len(three) = place + Len(word) + Len(text)
          /\ \A i \in 1 .. place + Len(word) + Len(text) :
                three[i] = IF i <= place + Len(word) THEN two[i] ELSE text[i - (place + Len(word))]
        <3>1. /\ three \in Seq(S) /\ Len(three) = Len(two) + Len(text)
              /\ \A i \in 1 .. Len(two) + Len(text) :
                    three[i] = IF i <= Len(two) THEN two[i] ELSE text[i - Len(two)]
            BY <1>1, <2>6, ConcatProperties
        <3>2. Len(two) = place + Len(word)
            BY <2>6
        <3>3. QED
            BY <3>1, <3>2
    <2> HIDE DEF three
    <2>8. /\ n \in Seq(S) /\ Len(n) = place + Len(word) + Len(text) + 1
          /\ \A i \in 1 .. place + Len(word) + Len(text) + 1 :
                n[i] = IF i <= place + Len(word) + Len(text) THEN three[i]
                       ELSE end[i - (place + Len(word) + Len(text))]
        <3>0. three \in Seq(S)
            BY <2>7
        <3>1. /\ n \in Seq(S) /\ Len(n) = Len(three) + Len(end)
              /\ \A i \in 1 .. Len(three) + Len(end) :
                    n[i] = IF i <= Len(three) THEN three[i] ELSE end[i - Len(three)]
            BY <2>3a, <3>0, ConcatProperties
        <3>2. Len(three) = place + Len(word) + Len(text) /\ Len(end) = 1
            BY <2>3, <2>7
        <3>3. QED
            BY <3>1, <3>2
    <2> HIDE DEF n
    <2>9. \A i \in 1 .. Len(b) : n[i] = b[i]
        BY <2>1, <2>4, <2>5, <2>6, <2>7, <2>8
    <2>10. \A i \in 1 .. Len(word) : n[place + i] = word[i]
        <3> SUFFICES ASSUME NEW i \in 1 .. Len(word)
                     PROVE  n[place + i] = word[i]
            OBVIOUS
        <3> DEFINE j == place + i
        <3>1. /\ j \in 1 .. place + Len(word) /\ j \in 1 .. place + Len(word) + Len(text)
              /\ j \in 1 .. place + Len(word) + Len(text) + 1 /\ j > place /\ j <= place + Len(word)
              /\ j <= place + Len(word) + Len(text) /\ j - place = i
            BY <2>1
        <3> HIDE DEF j
        <3>2. n[j] = three[j] /\ three[j] = two[j] /\ two[j] = word[j - place]
            BY <2>1, <2>6, <2>7, <2>8, <3>1
        <3>3. QED
            BY <3>1, <3>2 DEF j
    <2>11. \A i \in 1 .. Len(text) : n[place + Len(word) + i] = text[i]
        <3> SUFFICES ASSUME NEW i \in 1 .. Len(text)
                     PROVE  n[place + Len(word) + i] = text[i]
            OBVIOUS
        <3> DEFINE j == place + Len(word) + i
        <3>1. /\ j \in 1 .. place + Len(word) + Len(text) /\ j \in 1 .. place + Len(word) + Len(text) + 1
              /\ j > place + Len(word) /\ j <= place + Len(word) + Len(text) /\ j - (place + Len(word)) = i
            BY <2>1
        <3> HIDE DEF j
        <3>2. n[j] = three[j] /\ three[j] = text[j - (place + Len(word))]
            BY <2>1, <2>7, <2>8, <3>1
        <3>3. QED
            BY <3>1, <3>2 DEF j
    <2>12. n[place + Len(word) + Len(text) + 1] = 0
        <3> DEFINE j == place + Len(word) + Len(text) + 1
        <3>1. /\ j \in 1 .. place + Len(word) + Len(text) + 1 /\ ~(j <= place + Len(word) + Len(text))
              /\ j - (place + Len(word) + Len(text)) = 1
            BY <2>1
        <3> HIDE DEF j
        <3>2. n[j] = end[j - (place + Len(word) + Len(text))]
            BY <2>8, <3>1
        <3>3. QED
            BY <2>3, <3>1, <3>2 DEF j
    <2>13. QED
        BY <2>8, <2>9, <2>10, <2>11, <2>12 DEF Pieces, n, three, two, one, zeros, end, place
<1>2. 0 \in Int
    OBVIOUS
<1>3. QED
    BY <1>1, <1>2

(* Overwriting a word changes its four bytes and no others.                *)
LEMMA OverwriteRows ==
    ASSUME NEW S, NEW b \in Seq(S), NEW l \in Nat, NEW word \in Seq(S), Len(word) = 4
    PROVE  LET n == Overwrite(b, l, word)
           IN  /\ n \in Seq(S) /\ Len(n) = Len(b)
               /\ \A i \in 1 .. Len(b) :
                     n[i] = IF i \in l + 1 .. l + 4 THEN word[i - l] ELSE b[i]
<1> DEFINE n == Overwrite(b, l, word)
<1>1. Len(b) \in Nat /\ DOMAIN b = 1 .. Len(b)
    BY LenProperties
<1>2. \A i \in 1 .. Len(b) : b[i] \in S
    BY ElementOfSeq
<1>3. \A i \in l + 1 .. l + 4 : word[i - l] \in S
    <2> SUFFICES ASSUME NEW i \in l + 1 .. l + 4
                 PROVE  word[i - l] \in S
        OBVIOUS
    <2>1. i - l \in 1 .. Len(word)
        OBVIOUS
    <2>2. QED
        BY <2>1, ElementOfSeq
<1>4. n \in [1 .. Len(b) -> S]
    BY <1>1, <1>2, <1>3 DEF Overwrite
<1>5. n \in Seq(S)
    BY <1>1, <1>4, SeqDef
<1>6. Len(n) = Len(b)
    <2>1. DOMAIN n = 1 .. Len(b) /\ DOMAIN n = 1 .. Len(n) /\ Len(n) \in Nat
        BY <1>4, <1>5, LenProperties
    <2>2. QED
        BY <1>1, <2>1
<1>7. \A i \in 1 .. Len(b) : n[i] = IF i \in l + 1 .. l + 4 THEN word[i - l] ELSE b[i]
    BY <1>1 DEF Overwrite
<1>8. QED
    BY <1>5, <1>6, <1>7

\* Where the next string begins.
Place(b) == Len(b) + Padding(Len(b))

(* Padding leads to the next aligned place.                                *)
LEMMA PlaceRows ==
    ASSUME NEW size \in Nat
    PROVE  /\ Padding(size) \in Nat /\ size + Padding(size) \in Nat
           /\ size + Padding(size) >= size /\ (size + Padding(size)) % 4 = 0
<1>1. \E q \in Nat, r \in {0, 1, 2, 3} : size = 4 * q + r /\ size % 4 = r
    <2>1. size \div 4 \in Nat /\ size % 4 \in {0, 1, 2, 3} /\ size % 4 = size - 4 * (size \div 4)
        OBVIOUS
    <2> DEFINE q == size \div 4
               r == size % 4
    <2> HIDE DEF q, r
    <2>2. q \in Nat /\ r \in {0, 1, 2, 3} /\ r = size - 4 * q
        BY <2>1 DEF q, r
    <2>3. size = 4 * q + r
        BY <2>2
    <2>4. QED
        BY <2>2, <2>3 DEF r
<1>2. PICK q \in Nat, r \in {0, 1, 2, 3} : size = 4 * q + r /\ size % 4 = r
    BY <1>1
<1>3. Padding(size) = IF r = 0 THEN 0 ELSE 4 - r
    BY <1>2 DEF Padding
<1>4. PICK k \in Nat : size + Padding(size) = 4 * k
    <2>1. size + Padding(size) = IF r = 0 THEN 4 * q ELSE 4 * (q + 1)
        BY <1>2, <1>3
    <2>2. q + 1 \in Nat
        OBVIOUS
    <2>3. QED
        BY <2>1, <2>2
<1>5. (4 * k) % 4 = 0
    OBVIOUS
<1>6. Padding(size) \in Nat
    BY <1>2, <1>3
<1>7. QED
    BY <1>4, <1>5, <1>6

(* A word is written in four bytes.                                        *)
LEMMA BytesLength ==
    ASSUME NEW number \in Int
    PROVE  Bytes(number) \in Seq(Int) /\ Len(Bytes(number)) = 4
<1>1. number % 256 \in Int /\ number \div 256 \in Int
    OBVIOUS
<1>2. QED
    BY <1>1 DEF Bytes

(* The word of a number reads as the number.                               *)
LEMMA Quotient ==
    ASSUME NEW number \in Int, NEW q \in Int, NEW r \in Int,
           0 <= number, number <= 65535, 0 <= r, r <= 255, r = number - 256 * q
    PROVE  0 <= q /\ q <= 255 /\ r + 256 * q = number
OBVIOUS

(* The two halves of a small number are bytes.                             *)
LEMMA LowAndHigh ==
    ASSUME NEW number \in Int
    PROVE  /\ number \div 256 \in Int /\ number % 256 \in Int
           /\ 0 <= number % 256 /\ number % 256 <= 255
           /\ number % 256 = number - 256 * (number \div 256)
OBVIOUS

(* The bytes of a small number read as that number.                        *)
LEMMA WordRows ==
    ASSUME NEW q \in 0 .. 255, NEW r \in 0 .. 255
    PROVE  LET word == << r, q, 0, 0 >>
           IN  word \in Seq(Byte) /\ Len(word) = 4 /\ U32(word, 0) = r + 256 * q
<1> DEFINE word == << r, q, 0, 0 >>
<1>1. word \in Seq(Byte) /\ Len(word) = 4
    BY DEF Byte
<1>2. word[1] = r /\ word[2] = q /\ word[3] = 0 /\ word[4] = 0
    OBVIOUS
<1>3. U32(word, 0) = U16(word, 0)
    BY <1>2 DEF U32
<1>4. U16(word, 0) = r + 256 * q
    BY <1>2 DEF U16
<1>5. QED
    BY <1>1, <1>3, <1>4

(* A word of four bytes is a sequence of bytes.                            *)
LEMMA BytesRows ==
    ASSUME NEW number \in Nat, number < Far
    PROVE  Bytes(number) \in Seq(Byte) /\ Len(Bytes(number)) = 4 /\ U32(Bytes(number), 0) = number
<1> DEFINE q == number \div 256
           r == number % 256
<1>1. number \in Int /\ 0 <= number /\ number <= 65535
    BY DEF Far
<1>2. q \in Int /\ r \in Int /\ 0 <= r /\ r <= 255 /\ r = number - 256 * q
    BY <1>1, LowAndHigh
<1>3. Bytes(number) = << r, q, 0, 0 >>
    BY DEF Bytes
<1> HIDE DEF q, r
<1>4. 0 <= q /\ q <= 255 /\ r + 256 * q = number
    BY <1>1, <1>2, Quotient
<1>5. q \in 0 .. 255 /\ r \in 0 .. 255
    BY <1>2, <1>4
<1>6. /\ << r, q, 0, 0 >> \in Seq(Byte) /\ Len(<< r, q, 0, 0 >>) = 4
      /\ U32(<< r, q, 0, 0 >>, 0) = r + 256 * q
    BY <1>5, WordRows
<1>7. QED
    BY <1>3, <1>4, <1>6

(* A word that was copied byte by byte reads the same.                     *)
LEMMA CopiedWord ==
    ASSUME NEW word, NEW n, NEW l \in Nat,
           n[l + 1] = word[1], n[l + 2] = word[2], n[l + 3] = word[3], n[l + 4] = word[4]
    PROVE  U32(n, l) = U32(word, 0)
BY DEF U32, U16

\* The size of a document once a text is appended.
Grown(b, text) == Place(b) + 4 + Len(text) + 1

(* Whatever numbers are written, a document grows by what is appended.     *)
LEMMA AppendLength ==
    ASSUME NEW b \in Seq(Int), NEW field \in Nat, NEW text \in Seq(Int)
    PROVE  /\ AppendString(b, field, text) \in Seq(Int)
           /\ Len(AppendString(b, field, text)) = Grown(b, text)
<1> DEFINE p == Padding(Len(b))
           padded == b \o Zeros(p)
           length == Bytes(Len(text))
           distance == Bytes(Len(padded) - field)
           whole == Pieces(b, p, length, text)
<1>1. Len(b) \in Nat /\ Len(text) \in Nat /\ p \in Nat
    BY LenProperties, PlaceRows
<1>2. length \in Seq(Int) /\ Len(length) = 4
    BY <1>1, BytesLength
<1>3. length \in Seq(Int)
    BY <1>2
<1>4. padded \in Seq(Int)
    <2>1. Zeros(p) \in [1 .. p -> Int]
        BY <1>1 DEF Zeros
    <2>2. Zeros(p) \in Seq(Int)
        BY <1>1, <2>1, SeqDef
    <2>3. QED
        BY <2>2, ConcatProperties
<1>5. distance \in Seq(Int) /\ Len(distance) = 4
    <2>1. Len(padded) - field \in Int
        BY <1>4, LenProperties
    <2>2. QED
        BY <2>1, BytesLength
<1>6. whole \in Seq(Int) /\ Len(whole) = (Len(b) + p) + Len(length) + Len(text) + 1
    <2> HIDE DEF length, p
    <2>1. p \in Nat
        BY <1>1
    <2>2. Pieces(b, p, length, text) \in Seq(Int)
        BY <1>3, <2>1, PiecesRows
    <2>3. Len(Pieces(b, p, length, text)) = Len(b) + p + Len(length) + Len(text) + 1
        BY <1>3, <2>1, <2>2, PiecesRows
    <2>4. QED
        BY <2>2, <2>3
<1>7. AppendString(b, field, text) = Overwrite(whole, field, distance)
    BY DEF AppendString, Pieces
<1> HIDE DEF whole, distance
<1>8. /\ Overwrite(whole, field, distance) \in Seq(Int)
      /\ Len(Overwrite(whole, field, distance)) = Len(whole)
    BY <1>5, <1>6, OverwriteRows
<1>9. QED
    BY <1>2, <1>6, <1>7, <1>8 DEF Grown, Place

(* The distance to an appended string can be written.                      *)
LEMMA DistanceRange ==
    ASSUME NEW far \in Nat, NEW place \in Nat, NEW size \in Nat, NEW last \in Nat, NEW field \in Nat,
           place + 4 + size + 1 < far, field + 4 <= last, last <= place
    PROVE  place - field \in Nat /\ place - field < far /\ size < far
OBVIOUS

(* An appended string is where the field leads; nothing else is written.   *)
LEMMA AppendRows ==
    ASSUME NEW b \in Seq(Byte), NEW field \in Nat, field + 4 <= Len(b), NEW text \in Seq(Byte),
           Grown(b, text) < Far
    PROVE  LET n == AppendString(b, field, text)
           IN  /\ n \in Seq(Byte) /\ Len(n) = Grown(b, text)
               /\ Agree(b, n, 0, field) /\ Agree(b, n, field + 4, Len(b))
               /\ U32(n, field) = Place(b) - field
               /\ U32(n, Place(b)) = Len(text)
               /\ \A i \in 1 .. Len(text) : n[Place(b) + 4 + i] = text[i]
               /\ n[Place(b) + 4 + Len(text) + 1] = 0
<1> DEFINE p == Padding(Len(b))
           place == Len(b) + p
           size == Len(text)
           padded == b \o Zeros(p)
           length == Bytes(size)
           distance == Bytes(place - field)
           whole == Pieces(b, p, length, text)
           n == Overwrite(whole, field, distance)
<1>1. Len(b) \in Nat /\ size \in Nat /\ p \in Nat /\ place \in Nat /\ place >= Len(b)
    BY LenProperties, PlaceRows
<1>2. /\ place - field \in Nat /\ place - field < Far
      /\ size \in Nat /\ size < Far
    <2>1. place + 4 + size + 1 < Far /\ Far \in Nat
        BY DEF Grown, Place, Far
    <2> HIDE DEF place, size
    <2>2. QED
        BY <1>1, <2>1, DistanceRange
<1>3. length \in Seq(Byte)
    <2> HIDE DEF size
    <2>1. QED
        BY <1>2, BytesRows
<1>4. Len(length) = 4 /\ U32(length, 0) = size
    <2> HIDE DEF size
    <2>1. QED
        BY <1>2, BytesRows
<1>5. distance \in Seq(Byte) /\ Len(distance) = 4 /\ U32(distance, 0) = place - field
    <2> HIDE DEF place
    <2>1. QED
        BY <1>2, BytesRows
<1>6. AppendString(b, field, text) = n
    <2>1. Zeros(p) \in [1 .. p -> Byte]
        BY <1>1 DEF Zeros, Byte
    <2>2. Zeros(p) \in Seq(Byte)
        BY <1>1, <2>1, SeqDef
    <2>3. Len(Zeros(p)) = p
        <3>1. DOMAIN Zeros(p) = 1 .. p /\ DOMAIN Zeros(p) = 1 .. Len(Zeros(p)) /\ Len(Zeros(p)) \in Nat
            BY <2>1, <2>2, LenProperties
        <3> HIDE DEF p
        <3>2. QED
            BY <1>1, <3>1
    <2>4. Len(padded) = Len(b) + Len(Zeros(p))
        BY <2>2, ConcatProperties
    <2>5. Len(padded) = place
        BY <2>3, <2>4
    <2> HIDE DEF place
    <2>6. QED
        BY <2>5 DEF AppendString, Pieces
<1>7. /\ whole \in Seq(Byte) /\ Len(whole) = place + Len(length) + size + 1
      /\ \A i \in 1 .. Len(b) : whole[i] = b[i]
      /\ \A i \in 1 .. Len(length) : whole[place + i] = length[i]
      /\ \A i \in 1 .. size : whole[place + Len(length) + i] = text[i]
      /\ whole[place + Len(length) + size + 1] = 0
    <2>1. 0 \in Byte /\ Byte \subseteq Int
        BY DEF Byte
    <2>2. b \in Seq(Int) /\ length \in Seq(Int) /\ text \in Seq(Int)
        BY <1>3, <2>1, SeqMonotonic
    <2> HIDE DEF length, p
    <2>3. p \in Nat
        BY <1>1
    <2>4. whole \in Seq(Byte)
        BY <1>3, <2>1, <2>3, PiecesSeq
    <2> HIDE DEF whole
    <2>5. Len(whole) = Len(b) + p + Len(length) + Len(text) + 1
        BY <2>2, <2>3, <2>4, PiecesRows, SMTT(30) DEF whole
    <2>6. \A i \in 1 .. Len(b) : whole[i] = b[i]
        BY <2>2, <2>3, <2>4, PiecesRows, SMTT(30) DEF whole
    <2>7. \A i \in 1 .. Len(length) : whole[Len(b) + p + i] = length[i]
        BY <2>2, <2>3, <2>4, PiecesRows, SMTT(30) DEF whole
    <2>8. \A i \in 1 .. Len(text) : whole[Len(b) + p + Len(length) + i] = text[i]
        BY <2>2, <2>3, <2>4, PiecesRows, SMTT(30) DEF whole
    <2>9. whole[Len(b) + p + Len(length) + Len(text) + 1] = 0
        BY <2>2, <2>3, <2>4, PiecesRows, SMTT(30) DEF whole
    <2>10. QED
        BY <2>4, <2>5, <2>6, <2>7, <2>8, <2>9
<1> HIDE DEF whole, length, distance, size
<1>8. /\ n \in Seq(Byte) /\ Len(n) = Len(whole)
      /\ \A i \in 1 .. Len(whole) :
            n[i] = IF i \in field + 1 .. field + 4 THEN distance[i - field] ELSE whole[i]
    BY <1>5, <1>7, OverwriteRows
<1> HIDE DEF n, place
<1>9. Len(n) = place + 4 + size + 1
    BY <1>4, <1>7, <1>8
<1>10. ASSUME NEW i \in 1 .. Len(n), ~(i > field /\ i <= field + 4)
       PROVE  n[i] = whole[i]
    BY <1>8, <1>10
<1>11. Agree(b, n, 0, field)
    <2> SUFFICES ASSUME NEW i \in Nat, 0 < i, i <= field
                 PROVE  n[i] = b[i]
        BY DEF Agree
    <2>1. i \in 1 .. Len(n) /\ i \in 1 .. Len(b) /\ ~(i > field /\ i <= field + 4)
        BY <1>1, <1>9
    <2>2. QED
        BY <1>7, <1>10, <2>1
<1>12. Agree(b, n, field + 4, Len(b))
    <2> SUFFICES ASSUME NEW i \in Nat, field + 4 < i, i <= Len(b)
                 PROVE  n[i] = b[i]
        BY DEF Agree
    <2>1. i \in 1 .. Len(n) /\ i \in 1 .. Len(b) /\ ~(i > field /\ i <= field + 4)
        BY <1>1, <1>9
    <2>2. QED
        BY <1>7, <1>10, <2>1
<1>13. U32(n, field) = place - field
    <2>1. /\ field + 1 \in 1 .. Len(whole) /\ field + 2 \in 1 .. Len(whole)
          /\ field + 3 \in 1 .. Len(whole) /\ field + 4 \in 1 .. Len(whole)
        BY <1>1, <1>8, <1>9
    <2>0. /\ field + 1 \in field + 1 .. field + 4 /\ field + 2 \in field + 1 .. field + 4
          /\ field + 3 \in field + 1 .. field + 4 /\ field + 4 \in field + 1 .. field + 4
          /\ (field + 1) - field = 1 /\ (field + 2) - field = 2
          /\ (field + 3) - field = 3 /\ (field + 4) - field = 4
        OBVIOUS
    <2>2. /\ n[field + 1] = distance[1] /\ n[field + 2] = distance[2]
          /\ n[field + 3] = distance[3] /\ n[field + 4] = distance[4]
        BY <1>8, <2>0, <2>1
    <2>3. QED
        BY <1>5, <2>2, CopiedWord
<1>14. ASSUME NEW k \in Nat, k >= 1, k <= 4 + size + 1
       PROVE  n[place + k] = whole[place + k]
    <2>1. place + k \in 1 .. Len(n) /\ ~(place + k <= field + 4)
        BY <1>1, <1>9, <1>14
    <2>2. QED
        BY <1>10, <2>1
<1>15. U32(n, place) = size
    <2>0. \A i \in 1 .. 4 : i \in 1 .. Len(length) /\ i \in Nat /\ i >= 1 /\ i <= 4 + size + 1
        BY <1>1, <1>4
    <2>1. \A i \in 1 .. 4 : n[place + i] = length[i]
        BY <1>7, <1>14, <2>0
    <2>2. /\ n[place + 1] = length[1] /\ n[place + 2] = length[2]
          /\ n[place + 3] = length[3] /\ n[place + 4] = length[4]
        BY <2>1
    <2>3. QED
        BY <1>1, <1>4, <2>2, CopiedWord
<1>16. \A i \in 1 .. size : n[place + 4 + i] = text[i]
    <2> SUFFICES ASSUME NEW i \in 1 .. size
                 PROVE  n[place + 4 + i] = text[i]
        OBVIOUS
    <2>1. 4 + i \in Nat /\ 4 + i >= 1 /\ 4 + i <= 4 + size + 1 /\ place + (4 + i) = place + 4 + i
        BY <1>1
    <2>2. n[place + (4 + i)] = whole[place + (4 + i)]
        BY <1>14, <2>1
    <2>3. whole[place + 4 + i] = text[i]
        BY <1>4, <1>7
    <2>4. QED
        BY <2>1, <2>2, <2>3
<1>17. n[place + 4 + size + 1] = 0
    <2>1. 4 + size + 1 \in Nat /\ 4 + size + 1 >= 1 /\ place + (4 + size + 1) = place + 4 + size + 1
        BY <1>1
    <2>2. n[place + (4 + size + 1)] = whole[place + (4 + size + 1)]
        BY <1>14, <2>1
    <2>3. QED
        BY <1>4, <1>7, <2>1, <2>2
<1>18. QED
    BY <1>6, <1>8, <1>9, <1>11, <1>12, <1>13, <1>15, <1>16, <1>17 DEF Grown, Place, place, size

-----------------------------------------------------------------------------
(* Redirecting the field of a source                                       *)

\* One field of four bytes differs, and what follows the end.
Redirected(b, n, field) ==
    Len(b) <= Len(n) /\ Agree(b, n, 0, field) /\ Agree(b, n, field + 4, Len(b))

(* Redirecting a field changes nothing on either side of it.               *)
LEMMA Elsewhere ==
    ASSUME NEW b \in Seq(Byte), NEW n, NEW field \in Nat, Redirected(b, n, field),
           NEW from \in Nat, NEW to \in Nat, to <= Len(b), to <= field \/ field + 4 <= from
    PROVE  Agree(b, n, from, to)
<1>1. Len(b) \in Nat
    BY LenProperties
<1>2. CASE to <= field
    BY <1>2 DEF Redirected, Agree
<1>3. CASE field + 4 <= from
    BY <1>1, <1>3 DEF Redirected, Agree
<1>4. QED
    BY <1>2, <1>3

(* The redirected field belongs to the table of its object and to nothing  *)
(* else that the source view reads.                                        *)
LEMMA FieldIsAlone ==
    ASSUME NEW b \in Seq(Byte), Parses(b), NEW x \in SourceIndexes(b), NEW slot \in Slots(b),
           slot # 3 * x + 6
    PROVE  \/ Regions(b)[slot].end <= SourceField(b, x)
           \/ SourceField(b, x) + 4 <= Regions(b)[slot].start
<1> DEFINE t == Object(b, x)
           own == 3 * x + 6
           regions == Regions(b)
<1>1. Structured(b) /\ LaidOut(regions)
    BY DEF Parses
<1>2. x \in Objects(b) /\ t \in Nat /\ ObjectLength(b, t) \in Nat
    BY <1>1, SourceRows, ObjectRows, TableRows
<1>3. /\ SourceField(b, x) \in Nat /\ SourceField(b, x) >= t + 4
      /\ SourceField(b, x) + 4 <= t + ObjectLength(b, t)
    BY <1>1, SourceRows
<1>4. own \in Slots(b) /\ regions[own] = TableRegion(b, t)
    BY <1>1, <1>2, SlotOf
<1>5. /\ regions[own].start = t /\ regions[own].end = t + ObjectLength(b, t)
      /\ regions[own].kind = "table"
    BY <1>4 DEF TableRegion, Region
<1>6. /\ Slots(b) \in SUBSET Nat /\ DOMAIN regions = Slots(b)
      /\ regions[slot].start \in Nat /\ regions[slot].end \in Nat
    BY <1>1, RegionRows DEF RegionType
<1>7. Disjoint(regions)
    BY <1>1, StructuredIsDisjoint
<1> HIDE DEF own, regions
<1>8. slot < own \/ own < slot
    BY <1>4, <1>6 DEF own
<1>9. \/ Clear(regions[slot], regions[own]) \/ Clear(regions[own], regions[slot])
      \/ regions[slot] = regions[own] /\ regions[own].kind \in CanShare
    BY <1>4, <1>6, <1>7, <1>8 DEF Disjoint
<1>10. Clear(regions[slot], regions[own]) \/ Clear(regions[own], regions[slot])
    BY <1>5, <1>9 DEF CanShare
<1> HIDE DEF t
<1>11. \/ regions[slot].end <= t
       \/ t + ObjectLength(b, t) <= regions[slot].start
    BY <1>5, <1>10 DEF Clear
<1>12. QED
    BY <1>2, <1>3, <1>6, <1>11 DEF regions

(* So everything else reads as before, in the object's own table too.      *)
LEMMA Frame ==
    ASSUME NEW b \in Seq(Byte), Parses(b), NEW x \in SourceIndexes(b), NEW n,
           Redirected(b, n, SourceField(b, x))
    PROVE  /\ \A slot \in Slots(b) :
                 slot # 3 * x + 6 => Agree(b, n, Regions(b)[slot].start, Regions(b)[slot].end)
           /\ Agree(b, n, Object(b, x), Object(b, x) + 4)
           /\ Present(b, Object(b, x), 0) =>
                 Agree(b, n, Field(b, Object(b, x), 0), Field(b, Object(b, x), 0) + 4)
<1> DEFINE t == Object(b, x)
           F == SourceField(b, x)
<1>1. Structured(b)
    BY DEF Parses
<1>2. x \in Objects(b) /\ t \in Nat /\ TableFits(b, t) /\ FieldFits(b, t, 0) /\ FieldFits(b, t, 10)
    BY <1>1, SourceRows, ObjectRows
<1>3. /\ F \in Nat /\ F >= t + 4 /\ F + 4 <= t + ObjectLength(b, t)
      /\ F = t + Entry(b, t, 10) /\ Present(b, t, 10)
    BY <1>1, SourceRows DEF SourceField, Field, IsSource
<1>4. /\ ObjectLength(b, t) \in Nat /\ t + ObjectLength(b, t) <= Len(b) /\ Len(b) \in Nat
      /\ FieldCount(b, t) \in Nat
      /\ \A f \in Nat : /\ Entry(b, t, f) \in Nat
                        /\ f >= FieldCount(b, t) => Entry(b, t, f) = 0
                        /\ Entry(b, t, f) # 0 => Entry(b, t, f) >= 4
    BY <1>2, TableRows, LenProperties
<1>4a. /\ ObjectLength(b, t) \in Nat /\ t + ObjectLength(b, t) <= Len(b) /\ Len(b) \in Nat
       /\ FieldCount(b, t) \in Nat
    BY <1>4
<1>5. ASSUME NEW slot \in Slots(b), slot # 3 * x + 6
      PROVE  Agree(b, n, Regions(b)[slot].start, Regions(b)[slot].end)
    <2>1. /\ Regions(b)[slot].start \in Nat /\ Regions(b)[slot].end \in Nat
          /\ Regions(b)[slot].end <= Len(b)
        BY <1>1, RegionRows DEF RegionType
    <2>2. Regions(b)[slot].end <= F \/ F + 4 <= Regions(b)[slot].start
        BY <1>5, FieldIsAlone
    <2>3. QED
        BY <1>3, <2>1, <2>2, Elsewhere
<1>6. Agree(b, n, t, t + 4)
    <2>1. t + 4 \in Nat /\ t + 4 <= Len(b) /\ t + 4 <= F
        <3> HIDE DEF t, F
        <3>1. QED
            BY <1>2, <1>3, <1>4a
    <2>2. QED
        BY <1>2, <1>3, <2>1, Elsewhere
<1>7. ASSUME Present(b, t, 0)
      PROVE  Agree(b, n, Field(b, t, 0), Field(b, t, 0) + 4)
    <2> DEFINE e == Entry(b, t, 0)
               g == Entry(b, t, 10)
    <2>1. e # 0 /\ g # 0 /\ e \in Nat /\ g \in Nat
        BY <1>3, <1>4, <1>7 DEF Present
    <2>2. 0 \in 0 .. FieldCount(b, t) - 1 /\ 10 \in 0 .. FieldCount(b, t) - 1
        <3>1. ~(0 >= FieldCount(b, t)) /\ ~(10 >= FieldCount(b, t))
            BY <1>4, <2>1
        <3> DEFINE count == FieldCount(b, t)
        <3>2. count \in Nat /\ ~(0 >= count) /\ ~(10 >= count)
            BY <1>4a, <3>1
        <3> HIDE DEF count
        <3>3. 0 \in 0 .. count - 1 /\ 10 \in 0 .. count - 1
            BY <3>2
        <3>4. QED
            BY <3>3 DEF count
    <2>3. g \notin e .. e + 3 /\ e + 4 <= ObjectLength(b, t)
        BY <1>2, <1>7, <2>2 DEF FieldFits
    <2>4. e \notin g .. g + 3
        BY <1>2, <1>3, <2>2 DEF FieldFits
    <2> HIDE DEF e, g
    <2>5. e + 4 <= g \/ g + 4 <= e
        BY <2>1, <2>3, <2>4
    <2>6. Field(b, t, 0) = t + e /\ F = t + g
        BY <1>3 DEF Field, e, g
    <2> HIDE DEF t, F
    <2>7. /\ t + e \in Nat /\ t + e + 4 \in Nat /\ t + e + 4 <= Len(b)
          /\ t + e + 4 <= F \/ F + 4 <= t + e
        BY <1>2, <1>3, <1>4a, <2>1, <2>3, <2>5, <2>6
    <2>8. QED
        BY <1>3, <2>6, <2>7, Elsewhere DEF F
<1>8. QED
    BY <1>5, <1>6, <1>7

\* A table reads the same in both buffers, field by field.
SameShape(b, n, t) ==
    /\ TableFits(n, t)
    /\ Vtable(n, t) = Vtable(b, t) /\ VtableLength(n, t) = VtableLength(b, t)
    /\ ObjectLength(n, t) = ObjectLength(b, t) /\ FieldCount(n, t) = FieldCount(b, t)
    /\ \A f \in Nat : Entry(n, t, f) = Entry(b, t, f)

(* The root and the pool are where they were.                              *)
LEMMA SamePool ==
    ASSUME NEW b \in Seq(Byte), Parses(b), NEW x \in SourceIndexes(b), NEW n \in Seq(Byte),
           Redirected(b, n, SourceField(b, x))
    PROVE  /\ HeaderFits(n) /\ PoolFits(n)
           /\ Root(n) = Root(b) /\ SameShape(b, n, Root(b))
           /\ Pool(n) = Pool(b) /\ ObjectCount(n) = ObjectCount(b) /\ Objects(n) = Objects(b)
           /\ Agree(b, n, Pool(b), Pool(b) + 4 + 4 * ObjectCount(b))
<1> DEFINE root == Root(b)
           field == Field(b, root, 0)
<1>1. Structured(b) /\ HeaderFits(b) /\ PoolFits(b)
    BY DEF Parses, Structured
<1>2. /\ Len(b) \in Nat /\ Len(b) >= 8 /\ Len(n) \in Nat /\ Len(b) <= Len(n)
      /\ root \in Nat /\ TableFits(b, root) /\ Present(b, root, 0) /\ FieldFits(b, root, 0)
      /\ field \in Nat /\ Pool(b) \in Nat /\ ObjectCount(b) \in Nat /\ ObjectCount(b) > 0
      /\ Pool(b) + 4 + 4 * ObjectCount(b) <= Len(b)
    BY <1>1, DocumentRows, LenProperties DEF Redirected
<1>3. /\ Vtable(b, root) \in Nat /\ VtableLength(b, root) \in Nat /\ ObjectLength(b, root) \in Nat
      /\ FieldCount(b, root) \in Nat /\ ObjectLength(b, root) >= 4
    BY <1>2, TableRows
<1>4. x \in Nat
    BY <1>1, SourceRows, ObjectRows
<1>5. 3 * x + 6 # 0 /\ 3 * x + 6 # 3 /\ 3 * x + 6 # 4 /\ 3 * x + 6 # 5
    BY <1>4
<1>6. /\ Regions(b)[0] = Region(0, 8, "header") /\ Regions(b)[3] = TableRegion(b, root)
      /\ Regions(b)[4] = VtableRegion(b, root) /\ Regions(b)[5] = VectorRegion(b)
      /\ 0 \in Slots(b) /\ 3 \in Slots(b) /\ 4 \in Slots(b) /\ 5 \in Slots(b)
    BY <1>1, SlotOf
<1>7. \A slot \in {0, 3, 4, 5} : Agree(b, n, Regions(b)[slot].start, Regions(b)[slot].end)
    BY <1>5, <1>6, Frame
<1>8. /\ Agree(b, n, 0, 0 + 8) /\ Agree(b, n, root, root + ObjectLength(b, root))
      /\ Agree(b, n, Vtable(b, root), Vtable(b, root) + VtableLength(b, root))
      /\ Agree(b, n, Pool(b), Pool(b) + (4 + 4 * ObjectCount(b)))
    BY <1>6, <1>7 DEF Region, TableRegion, VtableRegion, VectorRegion
<1>9. Agree(b, n, 0, 4) /\ Agree(b, n, 4, 8)
    BY <1>8 DEF Agree
<1>10. HeaderFits(n)
    <2>1. SubSeq(n, 4 + 1, 8) = SubSeq(b, 4 + 1, 8)
        BY <1>2, <1>9, SameSubSeq
    <2>2. 4 + 1 = 5
        OBVIOUS
    <2>3. SubSeq(n, 5, 8) = Identifier
        BY <1>1, <2>1, <2>2 DEF HeaderFits
    <2>4. QED
        BY <1>2, <2>3 DEF HeaderFits
<1>11. Leads(n, 0) /\ Root(n) = root
    BY <1>1, <1>2, <1>9, SameLeads DEF PoolFits, Root
<1>12. Agree(b, n, root, root + 4)
    <2>1. root + 4 \in Nat /\ root + ObjectLength(b, root) \in Nat
          /\ root + 4 <= root + ObjectLength(b, root)
        BY SMTT(40), <1>2, <1>3
    <2>2. QED
        BY <1>2, <1>8, <2>1, AgreeWithin
<1>13. SameShape(b, n, root)
    BY <1>2, <1>8, <1>12, SameTable DEF SameShape
<1>14. FieldFits(n, root, 0) /\ Present(n, root, 0) /\ Field(n, root, 0) = field
    <2>1. Entry(n, root, 0) = Entry(b, root, 0)
        BY <1>13 DEF SameShape
    <2>2. FieldFits(n, root, 0)
        BY <1>2, <1>3, <1>13, SameField DEF SameShape
    <2>3. QED
        BY <1>2, <2>1, <2>2 DEF Present, Field
<1>15. Agree(b, n, field, field + 4)
    <2>1. /\ Entry(b, root, 0) \in Nat /\ Entry(b, root, 0) + 4 <= ObjectLength(b, root)
        BY <1>2, TableRows DEF FieldFits
    <2>2. /\ field + 4 \in Nat /\ root <= field /\ root + ObjectLength(b, root) \in Nat
          /\ field + 4 <= root + ObjectLength(b, root)
        <3> DEFINE e == Entry(b, root, 0)
        <3>1. field = root + e
            BY DEF Field
        <3>2. e \in Nat /\ e + 4 <= ObjectLength(b, root)
            BY <2>1
        <3> HIDE DEF e, field, root
        <3>3. QED
            BY SMTT(40), <1>2, <1>3, <3>1, <3>2
    <2>3. QED
        BY <1>2, <1>8, <2>2, AgreeWithin
<1>16. Leads(n, field) /\ Pool(n) = Pool(b)
    BY <1>1, <1>2, <1>11, <1>14, <1>15, SameLeads DEF PoolFits, Pool
<1>17. Agree(b, n, Pool(b), Pool(b) + 4)
    <2>1. /\ Pool(b) + 4 \in Nat /\ Pool(b) + (4 + 4 * ObjectCount(b)) \in Nat
          /\ Pool(b) + 4 <= Pool(b) + (4 + 4 * ObjectCount(b))
        BY <1>2
    <2>2. QED
        BY <1>2, <1>8, <2>1, AgreeWithin
<1>18. ObjectCount(n) = ObjectCount(b)
    BY <1>2, <1>16, <1>17, SameWord DEF ObjectCount
<1>19. PoolFits(n)
    <2>1. Has(n, Pool(n), 4) /\ Has(n, Pool(n), 4 + 4 * ObjectCount(n))
        BY <1>2, <1>16, <1>18 DEF Has
    <2>2. TableFits(n, Root(n))
        BY <1>11, <1>13 DEF SameShape
    <2>3. QED
        BY <1>2, <1>11, <1>14, <1>16, <1>18, <2>1, <2>2 DEF PoolFits
<1>20. Agree(b, n, Pool(b), Pool(b) + 4 + 4 * ObjectCount(b))
    BY <1>2, <1>8 DEF Agree
<1>21. QED
    BY <1>10, <1>11, <1>13, <1>16, <1>18, <1>19, <1>20 DEF Objects

(* Every object is where it was, and is of the type it was.                *)
LEMMA SameObject ==
    ASSUME NEW b \in Seq(Byte), Parses(b), NEW x \in SourceIndexes(b), NEW n \in Seq(Byte),
           Redirected(b, n, SourceField(b, x)), NEW i \in Objects(b)
    PROVE  LET t == Object(b, i)
           IN  /\ Object(n, i) = t /\ SameShape(b, n, t) /\ ObjectFits(n, i)
               /\ TypeId(n, t) = TypeId(b, t)
               /\ IsSource(n, t) <=> IsSource(b, t)
               /\ i # x => Agree(b, n, t, t + ObjectLength(b, t))
<1> DEFINE t == Object(b, i)
           element == Element(b, i)
           length == ObjectLength(b, t)
           field == Field(b, t, 0)
<1>1. Structured(b)
    BY DEF Parses
<1>2. /\ Len(b) \in Nat /\ Len(n) \in Nat /\ Len(b) <= Len(n)
      /\ Pool(b) \in Nat /\ ObjectCount(b) \in Nat
    BY <1>1, DocumentRows, LenProperties DEF Redirected
<1>3. /\ i \in Nat /\ element \in Nat /\ element >= Pool(b) + 4
      /\ element + 4 <= Pool(b) + 4 + 4 * ObjectCount(b)
      /\ t \in Nat /\ ObjectFits(b, i) /\ TableFits(b, t) /\ FieldFits(b, t, 0)
    BY <1>1, ObjectRows
<1>4. /\ Vtable(b, t) \in Nat /\ VtableLength(b, t) \in Nat /\ length \in Nat
      /\ FieldCount(b, t) \in Nat /\ length >= 4
    BY <1>3, TableRows
<1>5. x \in Nat /\ x \in Objects(b)
    BY <1>1, SourceRows, ObjectRows
<1>6. /\ 3 * i + 7 # 3 * x + 6
      /\ i # x => 3 * i + 6 # 3 * x + 6
    BY <1>3, <1>5
<1>7. Agree(b, n, Vtable(b, t), Vtable(b, t) + VtableLength(b, t))
    <2>1. 3 * i + 7 \in Slots(b) /\ Regions(b)[3 * i + 7] = VtableRegion(b, t)
        BY <1>1, SlotOf
    <2>2. Agree(b, n, Regions(b)[3 * i + 7].start, Regions(b)[3 * i + 7].end)
        BY <1>6, <2>1, Frame
    <2>3. QED
        BY <2>1, <2>2 DEF VtableRegion, Region
<1>8. i # x => Agree(b, n, t, t + length)
    <2>1. 3 * i + 6 \in Slots(b) /\ Regions(b)[3 * i + 6] = TableRegion(b, t)
        BY <1>1, SlotOf
    <2>2. i # x => Agree(b, n, Regions(b)[3 * i + 6].start, Regions(b)[3 * i + 6].end)
        BY <1>6, <2>1, Frame
    <2>3. QED
        BY <2>1, <2>2 DEF TableRegion, Region
<1>9. Agree(b, n, t, t + 4)
    <2>1. t + 4 \in Nat /\ t + length \in Nat /\ t + 4 <= t + length /\ t <= t
        BY <1>3, <1>4
    <2>2. CASE i = x
        BY <2>2, Frame
    <2>3. CASE i # x
        BY <1>3, <1>8, <2>1, <2>3, AgreeWithin
    <2>4. QED
        BY <2>2, <2>3
<1>10. SameShape(b, n, t)
    BY <1>2, <1>3, <1>7, <1>9, SameTable DEF SameShape
<1>11. Pool(n) = Pool(b) /\ Agree(b, n, Pool(b), Pool(b) + 4 + 4 * ObjectCount(b))
    BY SamePool
<1>12. Element(n, i) = element
    BY <1>11 DEF Element
<1>13. Agree(b, n, element, element + 4)
    <2>1. /\ Pool(b) <= element /\ element + 4 \in Nat /\ Pool(b) + 4 + 4 * ObjectCount(b) \in Nat
        BY <1>2, <1>3
    <2>2. QED
        BY <1>2, <1>3, <1>11, <2>1, AgreeWithin
<1>14. Leads(n, element) /\ Object(n, i) = t
    <2>1. Leads(b, element)
        BY <1>3 DEF ObjectFits
    <2>2. Leads(n, element) /\ Target(n, element) = Target(b, element)
        BY <1>2, <1>3, <1>13, <2>1, SameLeads
    <2>3. QED
        BY <1>12, <2>2 DEF Object
<1>15. Entry(n, t, 0) = Entry(b, t, 0) /\ Entry(n, t, 10) = Entry(b, t, 10)
    BY <1>10 DEF SameShape
<1>16. TypeId(n, t) = TypeId(b, t)
    <2>1. Present(n, t, 0) <=> Present(b, t, 0)
        BY <1>15 DEF Present
    <2>2. Field(n, t, 0) = field
        BY <1>15 DEF Field
    <2>3. ASSUME Present(b, t, 0)
          PROVE  U32(n, field) = U32(b, field)
        <3> DEFINE e == Entry(b, t, 0)
        <3>1. e \in Nat /\ e + 4 <= length
            BY <1>3, <2>3, TableRows DEF FieldFits
        <3>2. field = t + e
            BY DEF Field
        <3>3. /\ field \in Nat /\ field + 4 \in Nat /\ t + length \in Nat
              /\ t <= field /\ field + 4 <= t + length
            <4> HIDE DEF e, t, field, length
            <4>1. QED
                BY <1>3, <1>4, <3>1, <3>2
        <3>4. CASE i = x
            BY <2>3, <3>3, <3>4, Frame, SameWord
        <3>5. CASE i # x
            <4>1. Agree(b, n, field, field + 4)
                BY <1>3, <1>8, <3>3, <3>5, AgreeWithin
            <4>2. QED
                BY <3>3, <4>1, SameWord
        <3>6. QED
            BY <3>4, <3>5
    <2>4. QED
        BY <2>1, <2>2, <2>3 DEF TypeId
<1>17. ObjectFits(n, i)
    <2>1. TableFits(n, t)
        BY <1>10 DEF SameShape
    <2>2. FieldFits(n, t, 0)
        BY <1>3, <1>4, <1>10, SameField DEF SameShape
    <2>3. i = 0 => TypeId(n, t) = 0
        BY <1>3, <1>16 DEF ObjectFits
    <2>4. QED
        BY <1>12, <1>14, <2>1, <2>2, <2>3 DEF ObjectFits
<1>18. IsSource(n, t) <=> IsSource(b, t)
    BY <1>15, <1>16 DEF IsSource, Present
<1>19. QED
    BY <1>8, <1>10, <1>14, <1>16, <1>17, <1>18

(* The same objects are sources, in the same fields.                       *)
LEMMA SameSources ==
    ASSUME NEW b \in Seq(Byte), Parses(b), NEW x \in SourceIndexes(b), NEW n \in Seq(Byte),
           Redirected(b, n, SourceField(b, x))
    PROVE  /\ SourceIndexes(n) = SourceIndexes(b)
           /\ \A i \in SourceIndexes(b) :
                 /\ SourceField(n, i) = SourceField(b, i)
                 /\ FieldFits(n, Object(b, i), 10)
<1>1. Structured(b)
    BY DEF Parses
<1>2. Objects(n) = Objects(b)
    BY SamePool
<1>3. ASSUME NEW i \in Objects(b)
      PROVE  IsSource(n, Object(n, i)) <=> IsSource(b, Object(b, i))
    <2>1. /\ Object(n, i) = Object(b, i)
          /\ IsSource(n, Object(b, i)) <=> IsSource(b, Object(b, i))
        BY SameObject
    <2>2. QED
        BY <2>1
<1>4. SourceIndexes(n) = SourceIndexes(b)
    BY <1>2, <1>3 DEF SourceIndexes
<1>5. ASSUME NEW i \in SourceIndexes(b)
      PROVE  /\ SourceField(n, i) = SourceField(b, i)
             /\ FieldFits(n, Object(b, i), 10)
    <2> DEFINE t == Object(b, i)
    <2>1. i \in Objects(b) /\ FieldFits(b, t, 10)
        BY <1>1, SourceRows
    <2>2. Object(n, i) = t /\ SameShape(b, n, t)
        BY <2>1, SameObject
    <2>3. FieldCount(b, t) \in Nat
        BY <1>1, <2>1, ObjectRows, TableRows
    <2>4. Entry(n, t, 10) = Entry(b, t, 10)
        BY <2>2 DEF SameShape
    <2>5. FieldFits(n, t, 10)
        BY <2>1, <2>2, <2>3, SameField DEF SameShape
    <2>6. QED
        BY <2>2, <2>4, <2>5 DEF SourceField, Field
<1>6. QED
    BY <1>4, <1>5

(* The other sources read as before.                                       *)
LEMMA SameTexts ==
    ASSUME NEW b \in Seq(Byte), Parses(b), NEW x \in SourceIndexes(b), NEW n \in Seq(Byte),
           Redirected(b, n, SourceField(b, x)), NEW i \in SourceIndexes(b), i # x
    PROVE  LET l == SourceField(b, i)
           IN  /\ StringFits(n, l) /\ String(n, l) = String(b, l)
               /\ StringLength(n, l) = StringLength(b, l) /\ Text(n, l) = Text(b, l)
<1> DEFINE t == Object(b, i)
           l == SourceField(b, i)
<1>1. Structured(b)
    BY DEF Parses
<1>2. /\ i \in Objects(b) /\ l \in Nat /\ l >= t + 4 /\ l + 4 <= t + ObjectLength(b, t)
      /\ StringFits(b, l)
    BY <1>1, SourceRows
<1>3. i \in Nat /\ t \in Nat /\ ObjectLength(b, t) \in Nat /\ x \in Nat
    BY <1>1, <1>2, SourceRows, ObjectRows, TableRows
<1>4. Len(b) <= Len(n)
    BY DEF Redirected
<1>5. Agree(b, n, l, l + 4)
    <2>1. Agree(b, n, t, t + ObjectLength(b, t))
        BY <1>2, SameObject
    <2>2. l + 4 \in Nat /\ t + ObjectLength(b, t) \in Nat /\ t <= l
        <3> HIDE DEF t, l
        <3>1. QED
            BY <1>2, <1>3
    <2>3. QED
        BY <1>2, <1>3, <2>1, <2>2, AgreeWithin
<1>6. Agree(b, n, String(b, l), String(b, l) + 4 + StringLength(b, l) + 1)
    <2>1. 3 * i + 8 \in Slots(b) /\ Regions(b)[3 * i + 8] = StringRegion(b, l)
        BY <1>1, SlotOf
    <2>2. 3 * i + 8 # 3 * x + 6
        BY <1>3
    <2>3. Agree(b, n, Regions(b)[3 * i + 8].start, Regions(b)[3 * i + 8].end)
        BY <2>1, <2>2, Frame
    <2>4. Agree(b, n, String(b, l), String(b, l) + (4 + StringLength(b, l) + 1))
        BY <2>1, <2>3 DEF StringRegion, Region
    <2>5. String(b, l) \in Nat /\ StringLength(b, l) \in Nat
        BY <1>2, StringRows
    <2>6. String(b, l) + (4 + StringLength(b, l) + 1) = String(b, l) + 4 + StringLength(b, l) + 1
        BY <2>5
    <2>7. QED
        BY <2>4, <2>6
<1>7. QED
    BY <1>2, <1>4, <1>5, <1>6, SameString

-----------------------------------------------------------------------------
(* A rewritten document                                                    *)

\* n is b with a string at the end to which the field is redirected.
Appended(b, n, field, text) ==
    /\ n \in Seq(Byte) /\ Len(n) = Grown(b, text)
    /\ Redirected(b, n, field)
    /\ U32(n, field) = Place(b) - field
    /\ U32(n, Place(b)) = Len(text)
    /\ \A i \in 1 .. Len(text) : n[Place(b) + 4 + i] = text[i]
    /\ n[Place(b) + 4 + Len(text) + 1] = 0

(* AppendString appends the string and redirects the field.                *)
LEMMA AppendIsAppended ==
    ASSUME NEW b \in Seq(Byte), NEW field \in Nat, field + 4 <= Len(b), NEW text \in Seq(Byte),
           Grown(b, text) < Far
    PROVE  Appended(b, AppendString(b, field, text), field, text)
<1> DEFINE n == AppendString(b, field, text)
<1>1. /\ n \in Seq(Byte) /\ Len(n) = Grown(b, text)
      /\ Agree(b, n, 0, field) /\ Agree(b, n, field + 4, Len(b))
      /\ U32(n, field) = Place(b) - field
      /\ U32(n, Place(b)) = Len(text)
      /\ \A i \in 1 .. Len(text) : n[Place(b) + 4 + i] = text[i]
      /\ n[Place(b) + 4 + Len(text) + 1] = 0
    BY AppendRows
<1> HIDE DEF n
<1>2. Len(b) <= Len(n)
    <2>1. Len(b) \in Nat /\ Len(text) \in Nat
        BY LenProperties
    <2>2. Place(b) \in Nat /\ Place(b) >= Len(b)
        BY <2>1, PlaceRows DEF Place
    <2>3. QED
        BY <1>1, <2>1, <2>2 DEF Grown
<1>3. QED
    BY <1>1, <1>2 DEF Appended, Redirected, n

(* The redirected field leads to the appended text.                        *)
LEMMA NewString ==
    ASSUME NEW b \in Seq(Byte), NEW field \in Nat, field % 4 = 0, field + 4 <= Len(b),
           NEW text \in Seq(Byte), ValidUtf8(text), NEW n, Appended(b, n, field, text)
    PROVE  /\ StringFits(n, field)
           /\ String(n, field) = Place(b) /\ StringLength(n, field) = Len(text)
           /\ Text(n, field) = text
<1> DEFINE place == Place(b)
           size == Len(text)
<1>1. /\ Len(b) \in Nat /\ size \in Nat /\ DOMAIN text = 1 .. size
      /\ place \in Nat /\ place >= Len(b) /\ place % 4 = 0
    BY LenProperties, PlaceRows DEF Place
<1>2. n \in Seq(Byte) /\ Len(n) = place + 4 + size + 1
    BY DEF Appended, Grown
<1>3. U32(n, field) = place - field /\ U32(n, place) = size
    BY DEF Appended
<1> HIDE DEF place, size
<1>4. Target(n, field) = place
    BY <1>1, <1>3 DEF Target
<1>5. Leads(n, field)
    <2>1. field + 4 <= Len(n) /\ U32(n, field) # 0 /\ place < Len(n)
        BY <1>1, <1>2, <1>3
    <2>2. QED
        BY <1>1, <1>4, <2>1 DEF Leads, Aligned, Has
<1>6. String(n, field) = place /\ StringLength(n, field) = size
    BY <1>3, <1>4 DEF String, StringLength
<1>7. Text(n, field) = text
    <2> DEFINE from == place + 5
               to == place + 4 + size
               sub == SubSeq(n, from, to)
    <2>1. \A i \in from .. to : n[i] \in Byte
        BY <1>1, <1>2, ElementOfSeq
    <2>2. from \in Int /\ to \in Int /\ to - from + 1 = size
        BY <1>1
    <2>3. /\ sub \in Seq(Byte) /\ Len(sub) = IF from <= to THEN to - from + 1 ELSE 0
          /\ \A i \in 1 .. to - from + 1 : sub[i] = n[from + i - 1]
        BY <2>1, <2>2, SubSeqProperties
    <2>4. Len(sub) = size
        BY <1>1, <2>2, <2>3
    <2>5. ASSUME NEW i \in 1 .. size
          PROVE  sub[i] = text[i]
        <3>1. from + i - 1 = place + 4 + i
            BY <1>1
        <3>2. n[place + 4 + i] = text[i]
            BY DEF Appended, place, size
        <3>3. sub[i] = n[from + i - 1]
            BY <2>2, <2>3
        <3>4. QED
            BY <3>1, <3>2, <3>3
    <2>6. sub = text
        <3> HIDE DEF sub
        <3>1. Len(sub) = Len(text)
            BY <2>4 DEF size
        <3>2. QED
            BY <2>3, <2>4, <2>5, <3>1, SeqEqual
    <2>7. QED
        BY <1>6, <2>6 DEF Text
<1>8. QED
    <2>1. n[place + 4 + size + 1] = 0
        BY DEF Appended, place, size
    <2>2. /\ place + 4 <= Len(n) /\ place + (4 + size + 1) <= Len(n)
        BY <1>1, <1>2
    <2>3. StringFits(n, field)
        BY <1>5, <1>6, <1>7, <2>1, <2>2 DEF StringFits, Has
    <2>4. QED
        BY <1>6, <1>7, <2>3 DEF place, size

(* The parts of a document, one by one.                                    *)
LEMMA SlotCases ==
    ASSUME NEW b \in Seq(Byte), Structured(b), NEW slot \in Slots(b)
    PROVE  \/ slot \in {0, 3, 4, 5}
           \/ \E i \in Objects(b) :
                 \/ slot = 3 * i + 6 \/ slot = 3 * i + 7
                 \/ i \in SourceIndexes(b) /\ slot = 3 * i + 8
<1> DEFINE q == slot \div 3
           r == slot % 3
           i == q - 2
<1>1. /\ slot \in Nat /\ q \in Int /\ r \in 0 .. 2 /\ r = slot - 3 * q
      /\ \/ q = 0 /\ r = 0
         \/ q = 1
         \/ i \in Objects(b) /\ (r = 2 => i \in SourceIndexes(b))
    BY SlotRows
<1> HIDE DEF q, r
<1>2. slot = 3 * q + r /\ r \in {0, 1, 2}
    BY <1>1
<1>3. CASE q = 0 /\ r = 0
    BY <1>2, <1>3
<1>4. CASE q = 1
    BY <1>2, <1>4
<1>5. CASE i \in Objects(b) /\ (r = 2 => i \in SourceIndexes(b))
    <2>1. slot = 3 * i + 6 + r
        BY <1>1, <1>2
    <2>2. i \in Int
        BY <1>1
    <2> HIDE DEF i
    <2>3. slot = 3 * i + 6 \/ slot = 3 * i + 7 \/ (r = 2 /\ slot = 3 * i + 8)
        <3>1. CASE r = 0
            BY <2>1, <2>2, <3>1
        <3>2. CASE r = 1
            BY <2>1, <2>2, <3>2
        <3>3. CASE r = 2
            BY <2>1, <2>2, <3>3
        <3>4. QED
            BY <1>2, <3>1, <3>2, <3>3
    <2>4. QED
        BY <1>5, <2>3
<1>6. QED
    BY <1>1, <1>3, <1>4, <1>5

(* The owner of a slot from 6 on is an object of the pool.                 *)
LEMMA OwnerIsObject ==
    ASSUME NEW count \in Nat, NEW slot \in 6 .. 3 * count + 5
    PROVE  slot \div 3 - 2 \in 0 .. count - 1
<1> DEFINE q == slot \div 3
           r == slot % 3
<1>1. slot \in Nat /\ slot >= 6 /\ slot <= 3 * count + 5
    OBVIOUS
<1>2. q \in Int /\ r \in 0 .. 2 /\ r = slot - 3 * q
    BY <1>1, ThreeParts
<1> HIDE DEF q, r
<1>3. q - 2 >= 0 /\ q - 2 < count
    BY <1>1, <1>2
<1>4. QED
    BY <1>2, <1>3 DEF q

(* What has a redirected source and an appended string is structured.      *)
LEMMA AppendIsStructured ==
    ASSUME NEW b \in Seq(Byte), Parses(b), NEW x \in SourceIndexes(b),
           NEW text \in Seq(Byte), ValidUtf8(text), NEW n, Appended(b, n, SourceField(b, x), text)
    PROVE  Structured(n) /\ Slots(n) = Slots(b)
<1>1. /\ Structured(b) /\ n \in Seq(Byte) /\ Redirected(b, n, SourceField(b, x))
    BY DEF Parses, Appended
<1>2. /\ HeaderFits(n) /\ PoolFits(n) /\ Objects(n) = Objects(b)
      /\ ObjectCount(n) = ObjectCount(b)
    BY <1>1, SamePool
<1>3. ASSUME NEW i \in Objects(b), IsSource(n, Object(n, i))
      PROVE  FieldFits(n, Object(n, i), 10) /\ StringFits(n, SourceField(n, i))
    <2>1. i \in SourceIndexes(n)
        BY <1>2, <1>3 DEF SourceIndexes
    <2>2. /\ i \in SourceIndexes(b) /\ SourceField(n, i) = SourceField(b, i)
          /\ FieldFits(n, Object(b, i), 10)
        BY <1>1, <2>1, SameSources
    <2>3. Object(n, i) = Object(b, i)
        BY <1>1, SameObject
    <2>4. StringFits(n, SourceField(b, i))
        <3>1. CASE i = x
            <4> DEFINE field == SourceField(b, x)
            <4>1. field \in Nat /\ field % 4 = 0 /\ field + 4 <= Len(b)
                BY <1>1, SourceRows, StringRows
            <4>2. QED
                BY <3>1, <4>1, NewString
        <3>2. CASE i # x
            BY <1>1, <2>2, <3>2, SameTexts
        <3>3. QED
            BY <3>1, <3>2
    <2>5. QED
        BY <2>2, <2>3, <2>4
<1>4. \A i \in Objects(b) : ObjectFits(n, i) /\ Object(n, i) = Object(b, i)
    BY <1>1, SameObject
<1>5. \A i, j \in Objects(b) : i # j => Object(n, i) # Object(n, j)
    BY <1>1, <1>4 DEF Structured, ObjectsFit
<1>6. ObjectsFit(n)
    BY <1>2, <1>3, <1>4, <1>5 DEF ObjectsFit
<1>7. Slots(n) = Slots(b)
    <2>1. ObjectCount(b) \in Nat
        BY <1>1, DocumentRows
    <2>2. ASSUME NEW slot \in 6 .. 3 * ObjectCount(b) + 5
          PROVE  IsSource(n, Object(n, slot \div 3 - 2)) <=> IsSource(b, Object(b, slot \div 3 - 2))
        <3> DEFINE i == slot \div 3 - 2
        <3>1. i \in Objects(b)
            BY <2>1, OwnerIsObject DEF Objects
        <3>2. i \in SourceIndexes(n) <=> i \in SourceIndexes(b)
            BY <1>1, SameSources
        <3> HIDE DEF i
        <3>3. IsSource(n, Object(n, i)) <=> IsSource(b, Object(b, i))
            BY <1>2, <3>1, <3>2 DEF SourceIndexes
        <3>4. QED
            BY <3>3 DEF i
    <2>3. QED
        BY <1>2, <2>2 DEF Slots
<1>8. QED
    BY <1>2, <1>6, <1>7 DEF Structured

(* Only the string of the redirected source is at another place.           *)
LEMMA AppendRegions ==
    ASSUME NEW b \in Seq(Byte), Parses(b), NEW x \in SourceIndexes(b),
           NEW text \in Seq(Byte), ValidUtf8(text), NEW n, Appended(b, n, SourceField(b, x), text)
    PROVE  /\ Regions(n)[3 * x + 8] = Region(Place(b), 4 + Len(text) + 1, "string")
           /\ \A slot \in Slots(b) : slot # 3 * x + 8 => Regions(n)[slot] = Regions(b)[slot]
<1>1. /\ Structured(b) /\ n \in Seq(Byte) /\ Redirected(b, n, SourceField(b, x))
      /\ Structured(n) /\ Slots(n) = Slots(b)
    BY AppendIsStructured DEF Parses, Appended
<1>2. /\ Root(n) = Root(b) /\ SameShape(b, n, Root(b))
      /\ Pool(n) = Pool(b) /\ ObjectCount(n) = ObjectCount(b) /\ Objects(n) = Objects(b)
    BY <1>1, SamePool
<1>3. ASSUME NEW t, SameShape(b, n, t)
      PROVE  TableRegion(n, t) = TableRegion(b, t) /\ VtableRegion(n, t) = VtableRegion(b, t)
    BY <1>3 DEF SameShape, TableRegion, VtableRegion
<1>4. \A slot \in {0, 3, 4, 5} : Regions(n)[slot] = Regions(b)[slot]
    <2>1. /\ TableRegion(n, Root(n)) = TableRegion(b, Root(b))
          /\ VtableRegion(n, Root(n)) = VtableRegion(b, Root(b))
          /\ VectorRegion(n) = VectorRegion(b)
        BY <1>2, <1>3 DEF VectorRegion
    <2>2. /\ Regions(b)[0] = Region(0, 8, "header") /\ Regions(b)[3] = TableRegion(b, Root(b))
          /\ Regions(b)[4] = VtableRegion(b, Root(b)) /\ Regions(b)[5] = VectorRegion(b)
        BY <1>1, SlotOf
    <2>3. /\ Regions(n)[0] = Region(0, 8, "header") /\ Regions(n)[3] = TableRegion(n, Root(n))
          /\ Regions(n)[4] = VtableRegion(n, Root(n)) /\ Regions(n)[5] = VectorRegion(n)
        BY <1>1, SlotOf
    <2>4. QED
        BY <2>1, <2>2, <2>3
<1>5. ASSUME NEW i \in Objects(b)
      PROVE  /\ Regions(n)[3 * i + 6] = Regions(b)[3 * i + 6]
             /\ Regions(n)[3 * i + 7] = Regions(b)[3 * i + 7]
    <2>1. Object(n, i) = Object(b, i) /\ SameShape(b, n, Object(b, i))
        BY <1>1, SameObject
    <2>2. /\ Regions(b)[3 * i + 6] = TableRegion(b, Object(b, i))
          /\ Regions(b)[3 * i + 7] = VtableRegion(b, Object(b, i))
        BY <1>1, SlotOf
    <2>3. /\ Regions(n)[3 * i + 6] = TableRegion(n, Object(n, i))
          /\ Regions(n)[3 * i + 7] = VtableRegion(n, Object(n, i))
        BY <1>1, <1>2, SlotOf
    <2>4. QED
        BY <1>3, <2>1, <2>2, <2>3
<1>6. \A i \in SourceIndexes(b) : i \in SourceIndexes(n) /\ SourceField(n, i) = SourceField(b, i)
    BY <1>1, SameSources
<1>7. ASSUME NEW i \in SourceIndexes(b)
      PROVE  /\ Regions(b)[3 * i + 8] = StringRegion(b, SourceField(b, i))
             /\ Regions(n)[3 * i + 8] = StringRegion(n, SourceField(b, i))
    <2>1. Regions(b)[3 * i + 8] = StringRegion(b, SourceField(b, i))
        BY <1>1, SlotOf
    <2>2. Regions(n)[3 * i + 8] = StringRegion(n, SourceField(n, i))
        BY <1>1, <1>6, SlotOf
    <2>3. QED
        BY <1>6, <2>1, <2>2
<1>8. ASSUME NEW i \in SourceIndexes(b), i # x
      PROVE  Regions(n)[3 * i + 8] = Regions(b)[3 * i + 8]
    <2>1. /\ String(n, SourceField(b, i)) = String(b, SourceField(b, i))
          /\ StringLength(n, SourceField(b, i)) = StringLength(b, SourceField(b, i))
        BY <1>1, <1>8, SameTexts
    <2>2. QED
        BY <1>7, <2>1 DEF StringRegion
<1>9. Regions(n)[3 * x + 8] = Region(Place(b), 4 + Len(text) + 1, "string")
    <2> DEFINE field == SourceField(b, x)
    <2>1. field \in Nat /\ field % 4 = 0 /\ field + 4 <= Len(b)
        BY <1>1, SourceRows, StringRows
    <2>2. String(n, field) = Place(b) /\ StringLength(n, field) = Len(text)
        BY <2>1, NewString
    <2>3. QED
        BY <1>7, <2>2 DEF StringRegion
<1>10. ASSUME NEW slot \in Slots(b), slot # 3 * x + 8
       PROVE  Regions(n)[slot] = Regions(b)[slot]
    <2>1. CASE slot \in {0, 3, 4, 5}
        BY <1>4, <2>1
    <2>2. ASSUME NEW i \in Objects(b),
                 \/ slot = 3 * i + 6 \/ slot = 3 * i + 7
                 \/ i \in SourceIndexes(b) /\ slot = 3 * i + 8
          PROVE  Regions(n)[slot] = Regions(b)[slot]
        <3>1. CASE slot = 3 * i + 6 \/ slot = 3 * i + 7
            BY <1>5, <3>1
        <3>2. CASE i \in SourceIndexes(b) /\ slot = 3 * i + 8
            <4>1. i # x
                BY <1>10, <3>2
            <4>2. QED
                BY <1>8, <3>2, <4>1
        <3>3. QED
            BY <2>2, <3>1, <3>2
    <2>3. QED
        BY <1>1, <2>1, <2>2, SlotCases
<1>11. QED
    BY <1>9, <1>10

(* A document that parses still parses when a source is redirected to a    *)
(* string appended at its end.                                             *)
LEMMA AppendParses ==
    ASSUME NEW b \in Seq(Byte), Parses(b), NEW x \in SourceIndexes(b),
           NEW text \in Seq(Byte), ValidUtf8(text), NEW n, Appended(b, n, SourceField(b, x), text)
    PROVE  Parses(n)
<1> DEFINE new == 3 * x + 8
<1>1. /\ Structured(b) /\ LaidOut(Regions(b)) /\ n \in Seq(Byte)
      /\ Structured(n) /\ Slots(n) = Slots(b)
    BY AppendIsStructured DEF Parses, Appended
<1>2. Disjoint(Regions(b))
    BY <1>1, StructuredIsDisjoint
<1>3. /\ DOMAIN Regions(b) = Slots(b) /\ DOMAIN Regions(n) = Slots(b)
    BY <1>1 DEF Regions
<1>4. Regions(n)[new].start = Place(b)
    <2>1. Regions(n)[new] = Region(Place(b), 4 + Len(text) + 1, "string")
        BY AppendRegions
    <2> HIDE DEF new
    <2>2. QED
        BY <2>1 DEF Region
<1>5. Place(b) \in Nat /\ Len(b) \in Nat /\ Len(b) <= Place(b)
    BY LenProperties, PlaceRows DEF Place
<1>6. ASSUME NEW slot \in Slots(b), slot # new
      PROVE  /\ Regions(n)[slot] = Regions(b)[slot]
             /\ Clear(Regions(n)[slot], Regions(n)[new])
             /\ Clear(Regions(n)[new], Regions(n)[slot])
    <2>1. Regions(n)[slot] = Regions(b)[slot]
        BY <1>6, AppendRegions
    <2>2. Regions(b)[slot].end <= Len(b) /\ Regions(b)[slot].end \in Nat
        BY <1>1, RegionRows DEF RegionType
    <2>3. QED
        BY <1>4, <1>5, <2>1, <2>2 DEF Clear
<1> HIDE DEF new
<1>7. Disjoint(Regions(n))
    <2> SUFFICES ASSUME NEW i \in Slots(b), NEW j \in Slots(b), i < j
                 PROVE  \/ Clear(Regions(n)[i], Regions(n)[j])
                        \/ Regions(n)[i] = Regions(n)[j] /\ Regions(n)[i].kind \in CanShare
        BY <1>3 DEF Disjoint
    <2>1. i # j
        BY <1>1, RegionRows
    <2>2. CASE i = new
        BY <1>6, <2>1, <2>2
    <2>3. CASE j = new
        BY <1>6, <2>1, <2>3
    <2>4. CASE i # new /\ j # new
        BY <1>2, <1>3, <1>6, <2>4 DEF Disjoint
    <2>5. QED
        BY <2>2, <2>3, <2>4
<1>8. QED
    BY <1>1, <1>7, StructuredIsDisjoint DEF Parses

(* A rewrite of one source gives that source its text and leaves the other *)
(* sources theirs.                                                         *)
LEMMA AppendReads ==
    ASSUME NEW b \in Seq(Byte), Parses(b), NEW x \in SourceIndexes(b),
           NEW text \in Seq(Byte), ValidUtf8(text), NEW n, Appended(b, n, SourceField(b, x), text)
    PROVE  Sources(n) = [Sources(b) EXCEPT ![x] = text]
<1>1. Structured(b) /\ n \in Seq(Byte) /\ Redirected(b, n, SourceField(b, x))
    BY DEF Parses, Appended
<1>2. /\ SourceIndexes(n) = SourceIndexes(b)
      /\ \A i \in SourceIndexes(b) : SourceField(n, i) = SourceField(b, i)
    BY <1>1, SameSources
<1>3. \A i \in SourceIndexes(b) : i # x => Text(n, SourceField(b, i)) = Text(b, SourceField(b, i))
    BY <1>1, SameTexts
<1>4. Text(n, SourceField(b, x)) = text
    <2>1. SourceField(b, x) \in Nat /\ SourceField(b, x) % 4 = 0 /\ SourceField(b, x) + 4 <= Len(b)
        BY <1>1, SourceRows, StringRows
    <2>2. QED
        BY <2>1, NewString
<1>5. QED
    BY <1>2, <1>3, <1>4 DEF Sources

-----------------------------------------------------------------------------
(* What else the document says                                             *)

(* A set of numbers that is not empty has a least one.                     *)
LEMMA LeastRows ==
    ASSUME NEW S \in SUBSET Nat, S # {}
    PROVE  Min(S) \in S /\ \A s \in S : Min(S) <= s
<1>1. PICK m \in S : \A s \in S : ~(<<s, m>> \in OpToRel(<, Nat))
    BY NatLessThanWellFounded, WFMin
<1>2. ASSUME NEW s \in S
      PROVE  m <= s
    <2>1. s < m => <<s, m>> \in OpToRel(<, Nat)
        BY DEF OpToRel
    <2>2. ~(s < m) /\ s \in Nat /\ m \in Nat
        BY <1>1, <2>1
    <2>3. QED
        BY <2>2
<1>3. QED
    BY <1>2 DEF Min

(* Redirecting a source leaves the bytes of every other field.             *)
LEMMA SameFieldBytes ==
    ASSUME NEW b \in Seq(Byte), Parses(b), NEW x \in SourceIndexes(b), NEW n \in Seq(Byte),
           Redirected(b, n, SourceField(b, x)), NEW i \in Objects(b),
           NEW f \in 0 .. FieldCount(b, Object(b, i)) - 1
    PROVE  FieldBytes(n, Object(b, i), f) = FieldBytes(b, Object(b, i), f)
<1> DEFINE t == Object(b, i)
           e == Entry(b, t, f)
           length == ObjectLength(b, t)
           next == NextStart(b, t, e)
<1>1. Structured(b) /\ Len(b) <= Len(n) /\ Len(b) \in Nat /\ Len(n) \in Nat
    BY LenProperties DEF Parses, Redirected
<1>2. t \in Nat /\ TableFits(b, t) /\ SameShape(b, n, t) /\ (IsSource(n, t) <=> IsSource(b, t))
    BY <1>1, ObjectRows, SameObject
<1>3. /\ length \in Nat /\ t + length <= Len(b) /\ FieldCount(b, t) \in Nat
      /\ \A g \in Nat : /\ Entry(b, t, g) \in Nat
                        /\ Entry(b, t, g) # 0 => Entry(b, t, g) >= 4 /\ Entry(b, t, g) < length
    BY <1>2, TableRows
<1>4. f \in Nat /\ e \in Nat /\ Entry(n, t, f) = e
    BY <1>2, <1>3 DEF SameShape
<1>5. CASE e = 0 \/ (f = 10 /\ IsSource(b, t))
    BY <1>2, <1>4, <1>5 DEF FieldBytes, Present
<1>6. CASE e # 0 /\ ~(f = 10 /\ IsSource(b, t))
    <2> DEFINE later == {s \in Starts(b, t) : s > e}
    <2>1. Starts(n, t) = Starts(b, t)
        <3> DEFINE count == FieldCount(b, t)
        <3>1. FieldCount(n, t) = count /\ ObjectLength(n, t) = ObjectLength(b, t) /\ count \in Nat
            BY <1>2, <1>3 DEF SameShape
        <3>2. \A g \in Nat : Entry(n, t, g) = Entry(b, t, g)
            BY <1>2 DEF SameShape
        <3> HIDE DEF count
        <3>3. \A g \in 0 .. count - 1 : g \in Nat
            BY <3>1
        <3>4. {Entry(n, t, g) : g \in 0 .. count - 1} = {Entry(b, t, g) : g \in 0 .. count - 1}
            BY <3>2, <3>3
        <3>5. QED
            BY <3>1, <3>4 DEF Starts, count
    <2>2. e < length
        BY <1>3, <1>4, <1>6
    <2>3. later \in SUBSET Nat /\ length \in later
        BY <1>3, <2>2 DEF Starts
    <2>4. next \in later /\ \A s \in later : next <= s
        BY <2>3, LeastRows DEF NextStart
    <2>5. next \in Nat /\ next <= length /\ next > e
        BY <2>3, <2>4
    <2>6. NextStart(n, t, e) = next
        BY <2>1 DEF NextStart
    <2> DEFINE from == t + e
               to == t + next
    <2>7. /\ FieldBytes(b, t, f) = SubSeq(b, from + 1, to)
          /\ FieldBytes(n, t, f) = SubSeq(n, from + 1, to)
        BY <1>2, <1>4, <1>6, <2>6 DEF FieldBytes, Present, Field
    <2>8. from \in Nat /\ to \in Nat /\ t <= from /\ to <= t + length /\ t + length \in Nat
        <3>1. length \in Nat
            BY <1>3
        <3> HIDE DEF t, e, next, length
        <3>2. QED
            BY <1>2, <1>4, <2>5, <3>1
    <2>9. to <= Len(b) /\ to <= Len(n)
        <3>1. t + length <= Len(b)
            BY <1>3
        <3> HIDE DEF t, to, length
        <3>2. QED
            BY <1>1, <2>8, <3>1
    <2>10. Agree(b, n, from, to)
        <3>1. CASE i # x
            <4>1. Agree(b, n, t, t + length)
                BY <3>1, SameObject
            <4> HIDE DEF t, from, to, length
            <4>2. QED
                BY <1>2, <2>8, <4>1, AgreeWithin
        <3>2. CASE i = x
            <4> DEFINE F == SourceField(b, x)
                       g == Entry(b, t, 10)
            <4>1. F \in Nat /\ F = t + g /\ IsSource(b, t) /\ FieldFits(b, t, 10) /\ g # 0
                BY <1>1, <3>2, SourceRows DEF SourceField, Field, IsSource, Present
            <4>2. g \in Nat /\ f # 10
                BY <1>3, <1>6, <4>1
            <4>3. e \notin g .. g + 3
                BY <4>1, <4>2 DEF FieldFits, Present
            <4>4. ~(10 >= FieldCount(b, t))
                BY <1>2, <4>1, TableRows
            <4>5. g \in Starts(b, t)
                <5> DEFINE count == FieldCount(b, t)
                <5>1. count \in Nat /\ ~(10 >= count)
                    BY <1>3, <4>4
                <5> HIDE DEF count
                <5>2. 10 \in 0 .. count - 1
                    BY <5>1
                <5>3. QED
                    BY <5>2 DEF Starts, count
            <4>6. e < g => next <= g
                BY <2>4, <4>2, <4>5
            <4> HIDE DEF t, e, g, next, F
            <4>7. to <= F \/ F + 4 <= from
                BY <1>2, <1>4, <2>5, <4>1, <4>2, <4>3, <4>6
            <4> HIDE DEF to, from
            <4>8. QED
                BY <2>8, <2>9, <4>1, <4>7, Elsewhere DEF F
        <3>3. QED
            BY <3>1, <3>2
    <2> HIDE DEF from, to
    <2>11. SubSeq(n, from + 1, to) = SubSeq(b, from + 1, to)
        BY <2>8, <2>9, <2>10, SameSubSeq
    <2>12. QED
        BY <2>7, <2>11
<1>7. QED
    BY <1>5, <1>6

(* Redirecting a source changes no other field of the document.            *)
LEMMA SameOtherFields ==
    ASSUME NEW b \in Seq(Byte), Parses(b), NEW x \in SourceIndexes(b), NEW n \in Seq(Byte),
           Redirected(b, n, SourceField(b, x))
    PROVE  OtherFields(n) = OtherFields(b)
<1>1. Objects(n) = Objects(b)
    BY SamePool
<1>2. ASSUME NEW i \in Objects(b)
      PROVE  /\ Object(n, i) = Object(b, i)
             /\ FieldCount(n, Object(b, i)) = FieldCount(b, Object(b, i))
    BY SameObject DEF SameShape
<1>3. QED
    BY <1>1, <1>2, SameFieldBytes DEF OtherFields

(* Two different words of four bytes do not overlap.                       *)
LEMMA FoursApart ==
    ASSUME NEW l \in Nat, NEW m \in Nat, l % 4 = 0, m % 4 = 0, l < m
    PROVE  l + 4 <= m
<1>1. \A k \in Nat : k % 4 = k - 4 * (k \div 4) /\ k \div 4 \in Int
    OBVIOUS
<1>2. PICK p \in Int, q \in Int : l = 4 * p /\ m = 4 * q
    BY <1>1
<1>3. QED
    BY <1>2

(* Nor does it change the strings of objects that are no sources.          *)
LEMMA SameHolder ==
    ASSUME NEW b \in Seq(Byte), Parses(b), NEW x \in SourceIndexes(b), NEW i \in Holders(b),
           NEW text \in Seq(Byte), ValidUtf8(text), NEW n, Appended(b, n, SourceField(b, x), text)
    PROVE  i \in Holders(n) /\ OtherStrings(n)[i] = OtherStrings(b)[i]
<1> DEFINE t == Object(b, i)
           l == Field(b, t, 10)
           F == SourceField(b, x)
           region == StringRegion(b, l)
           own == 3 * x + 6
<1>1. /\ Structured(b) /\ n \in Seq(Byte) /\ Redirected(b, n, F) /\ Len(b) <= Len(n)
      /\ Len(b) \in Nat /\ Len(n) \in Nat
    BY LenProperties DEF Parses, Appended, Redirected
<1>2. /\ i \in Objects(b) /\ TypeId(b, t) \notin NodeKind /\ Present(b, t, 10)
      /\ Has(b, l, 4) /\ StringFits(b, l)
      /\ \A r \in Range(Regions(b)) : r.kind = "string" \/ Clear(region, r)
    BY DEF Holders
<1>3. /\ x \in Objects(b) /\ IsSource(b, Object(b, x)) /\ F \in Nat /\ F % 4 = 0
      /\ F >= Object(b, x) + 4
      /\ F + 4 <= Object(b, x) + ObjectLength(b, Object(b, x))
    BY <1>1, SourceRows, StringRows
<1>4. i # x /\ i \in Nat /\ x \in Nat
    BY <1>1, <1>2, <1>3, ObjectRows DEF IsSource
<1>5. t \in Nat /\ TableFits(b, t)
    BY <1>1, <1>2, ObjectRows
<1>6. /\ Entry(b, t, 10) \in Nat /\ Entry(b, t, 10) < ObjectLength(b, t)
      /\ ObjectLength(b, t) \in Nat
    BY <1>2, <1>5, TableRows DEF Present
<1>7. l = t + Entry(b, t, 10) /\ l \in Nat /\ t <= l /\ l < t + ObjectLength(b, t)
    <2>1. l = t + Entry(b, t, 10)
        BY DEF Field
    <2> HIDE DEF t, l
    <2>2. QED
        BY <1>5, <1>6, <2>1
<1>8. l % 4 = 0 /\ l + 4 <= Len(b)
    BY <1>2, <1>7, StringRows
<1>9. Agree(b, n, l, l + 4)
    <2>1. /\ 3 * i + 6 \in Slots(b) /\ Regions(b)[3 * i + 6] = TableRegion(b, t)
          /\ 3 * i + 6 # 3 * x + 6
        BY <1>1, <1>2, <1>4, SlotOf
    <2>2. t + ObjectLength(b, t) <= F \/ F + 4 <= t
        BY <2>1, FieldIsAlone DEF TableRegion, Region
    <2> DEFINE bound == ObjectLength(b, t)
    <2>0. l < t + bound /\ t <= l /\ l \in Nat /\ t \in Nat /\ F \in Nat /\ bound \in Nat
          /\ (t + bound <= F \/ F + 4 <= t)
        BY <1>3, <1>5, <1>6, <1>7, <2>2
    <2> HIDE DEF t, l, F, bound
    <2>3. l < F \/ F + 4 <= l
        BY <2>0
    <2>4. l + 4 <= F \/ F + 4 <= l
        BY <1>3, <1>7, <1>8, <2>3, FoursApart
    <2>5. l + 4 \in Nat
        BY <1>7
    <2>6. QED
        BY <1>1, <1>3, <1>7, <1>8, <2>4, <2>5, Elsewhere
<1>10. /\ String(b, l) \in Nat /\ StringLength(b, l) \in Nat
       /\ String(b, l) + 4 + StringLength(b, l) + 1 <= Len(b)
    BY <1>2, <1>7, StringRows
<1>11. Agree(b, n, String(b, l), String(b, l) + 4 + StringLength(b, l) + 1)
    <2>1. own \in Slots(b) /\ Regions(b)[own] = TableRegion(b, Object(b, x))
        BY <1>1, <1>3, SlotOf
    <2>2. TableRegion(b, Object(b, x)) \in Range(Regions(b))
        BY <2>1 DEF Regions, Range
    <2>3. TableRegion(b, Object(b, x)).kind = "table"
        BY DEF TableRegion, Region
    <2>4. Clear(region, TableRegion(b, Object(b, x)))
        BY <1>2, <2>2, <2>3
    <2>5. \/ String(b, l) + (4 + StringLength(b, l) + 1) <= Object(b, x)
          \/ Object(b, x) + ObjectLength(b, Object(b, x)) <= String(b, l)
        BY <2>4 DEF Clear, StringRegion, TableRegion, Region
    <2>6. Object(b, x) \in Nat /\ ObjectLength(b, Object(b, x)) \in Nat
        BY <1>1, <1>3, ObjectRows, TableRows
    <2> DEFINE from == String(b, l)
               to == String(b, l) + 4 + StringLength(b, l) + 1
    <2>7. to \in Nat /\ to = String(b, l) + (4 + StringLength(b, l) + 1) /\ to <= Len(b)
        BY <1>10
    <2>8. from \in Nat /\ (to <= Object(b, x)
                             \/ Object(b, x) + ObjectLength(b, Object(b, x)) <= from)
        BY <1>10, <2>5, <2>7
    <2> HIDE DEF from, to, F
    <2>9. to <= F \/ F + 4 <= from
        BY <1>3, <2>6, <2>7, <2>8
    <2>10. Agree(b, n, from, to)
        BY <1>1, <1>3, <2>7, <2>8, <2>9, Elsewhere
    <2>11. QED
        BY <2>10 DEF from, to
<1>12. /\ StringFits(n, l) /\ String(n, l) = String(b, l)
       /\ StringLength(n, l) = StringLength(b, l) /\ Text(n, l) = Text(b, l)
    BY <1>1, <1>2, <1>7, <1>9, <1>11, SameString
<1>13. /\ Object(n, i) = t /\ TypeId(n, t) = TypeId(b, t) /\ Present(n, t, 10)
       /\ Field(n, t, 10) = l /\ Objects(n) = Objects(b)
    <2>1. Object(n, i) = t /\ SameShape(b, n, t) /\ TypeId(n, t) = TypeId(b, t)
        BY <1>1, <1>2, SameObject
    <2>2. Entry(n, t, 10) = Entry(b, t, 10)
        BY <2>1 DEF SameShape
    <2>3. QED
        BY <1>1, <1>2, <2>1, <2>2, SamePool DEF Present, Field
<1>14. Has(n, l, 4)
    BY <1>1, <1>7, <1>8 DEF Has
<1>15. ASSUME NEW r \in Range(Regions(n))
       PROVE  r.kind = "string" \/ Clear(StringRegion(n, l), r)
    <2>1. PICK slot \in Slots(b) : r = Regions(n)[slot]
        BY AppendIsStructured DEF Range, Regions
    <2>2. CASE slot = 3 * x + 8
        <3>1. r = Region(Place(b), 4 + Len(text) + 1, "string")
            BY <2>1, <2>2, AppendRegions
        <3>2. QED
            BY <3>1 DEF Region
    <2>3. CASE slot # 3 * x + 8
        <3>1. r = Regions(b)[slot]
            BY <2>1, <2>3, AppendRegions
        <3>2. r \in Range(Regions(b))
            BY <3>1 DEF Range, Regions
        <3>3. StringRegion(n, l) = region
            BY <1>12 DEF StringRegion
        <3>4. QED
            BY <1>2, <3>2, <3>3
    <2>4. QED
        BY <2>2, <2>3
<1>16. i \in Holders(n)
    BY <1>2, <1>12, <1>13, <1>14, <1>15 DEF Holders
<1>17. QED
    BY <1>12, <1>13, <1>16 DEF OtherStrings

-----------------------------------------------------------------------------
(* A rewrite, one pool object after another                                *)

(* Induction over the first numbers, for a set of them.                    *)
LEMMA UpTo ==
    ASSUME NEW N \in Nat, NEW T, 0 \in T,
           \A n \in Nat : n \in T /\ n < N => n + 1 \in T
    PROVE  \A n \in 0 .. N : n \in T
<1> DEFINE missing == {n \in 0 .. N : n \notin T}
<1>1. SUFFICES ASSUME missing # {} PROVE FALSE
    OBVIOUS
<1>2. missing \in SUBSET Nat
    OBVIOUS
<1>3. Min(missing) \in missing /\ \A s \in missing : Min(missing) <= s
    BY <1>1, <1>2, LeastRows
<1> DEFINE m == Min(missing)
<1>4. m \in Nat /\ m <= N /\ m \notin T /\ m # 0
    BY <1>3
<1> HIDE DEF m
<1>5. m - 1 \in Nat /\ m - 1 < N /\ (m - 1) + 1 = m
    BY <1>4
<1>6. m - 1 \notin T
    BY <1>4, <1>5
<1>7. m - 1 \in missing
    BY <1>5, <1>6
<1>8. ~(m <= m - 1)
    BY <1>4
<1>9. QED
    BY <1>3, <1>7, <1>8 DEF m

(* Buffers may be defined by the first one and a step.                     *)
LEMMA StepByStep ==
    ASSUME NEW start \in Seq(Int), NEW N \in Nat, NEW step \in [Nat -> [Seq(Int) -> Seq(Int)]]
    PROVE  \E f \in [0 .. N -> Seq(Int)] :
              /\ f[0] = start
              /\ \A n \in 1 .. N : f[n] = step[n][f[n - 1]]
<1> DEFINE S == Seq(Int)
<1> SUFFICES ASSUME start \in S, step \in [Nat -> [S -> S]]
             PROVE  \E f \in [0 .. N -> S] :
                       /\ f[0] = start
                       /\ \A n \in 1 .. N : f[n] = step[n][f[n - 1]]
    OBVIOUS
<1> HIDE DEF S
<1> DEFINE Good(f, k) == /\ f[0] = start
                         /\ \A n \in 1 .. k : f[n] = step[n][f[n - 1]]
           T == {k \in Nat : \E f \in [0 .. k -> S] : Good(f, k)}
<1>1. 0 \in T
    <2> DEFINE f == [n \in 0 .. 0 |-> start]
    <2>1. f \in [0 .. 0 -> S] /\ f[0] = start
        OBVIOUS
    <2>2. Good(f, 0)
        BY <2>1
    <2> HIDE DEF f, Good
    <2>3. QED
        BY <2>1, <2>2
<1>2. ASSUME NEW k \in Nat, k \in T PROVE k + 1 \in T
    <2>1. PICK f \in [0 .. k -> S] : Good(f, k)
        BY <1>2
    <2> DEFINE g == [n \in 0 .. k + 1 |-> IF n <= k THEN f[n] ELSE step[k + 1][f[k]]]
    <2>2. f[k] \in S /\ step[k + 1] \in [S -> S]
        OBVIOUS
    <2>3. g \in [0 .. k + 1 -> S]
        <3>1. step[k + 1][f[k]] \in S
            BY <2>2
        <3>2. \A n \in 0 .. k + 1 : n <= k => f[n] \in S
            OBVIOUS
        <3>3. QED
            BY <3>1, <3>2
    <2>4. g[0] = start
        BY <2>1
    <2>5. ASSUME NEW n \in 1 .. k + 1 PROVE g[n] = step[n][g[n - 1]]
        <3>1. n - 1 \in 0 .. k + 1 /\ n - 1 <= k /\ g[n - 1] = f[n - 1]
            OBVIOUS
        <3>2. CASE n <= k
            BY <2>1, <3>1, <3>2
        <3>3. CASE n = k + 1
            BY <3>1, <3>3
        <3>4. QED
            BY <3>2, <3>3
    <2>6. Good(g, k + 1)
        BY <2>4, <2>5
    <2> HIDE DEF g, Good
    <2>7. k + 1 \in Nat
        OBVIOUS
    <2>8. QED
        BY <2>3, <2>6, <2>7
<1> HIDE DEF T
<1>3. \A n \in 0 .. N : n \in T
    BY <1>1, <1>2, UpTo
<1>4. N \in T
    BY <1>3
<1>5. QED
    BY <1>4 DEF T

(* A sequence of bytes is one of integers.                                 *)
LEMMA BytesAreNumbers ==
    ASSUME NEW s \in Seq(Byte)
    PROVE  s \in Seq(Int)
<1>1. Byte \subseteq Int
    BY DEF Byte
<1>2. QED
    BY <1>1, SeqMonotonic

\* Texts for source nodes of the document, as a rewrite makes them of a batch.
AreTexts(changes) ==
    /\ DOMAIN changes \subseteq SourceIndexes(buffer)
    /\ \A i \in DOMAIN changes : changes[i] \in Seq(Byte) /\ ValidUtf8(changes[i])

(* The recursive definition of what a rewrite builds is well founded.      *)
LEMMA BuiltRows ==
    ASSUME buffer \in Seq(Byte), Structured(buffer), NEW changes, AreTexts(changes)
    PROVE  /\ Built(changes)[0] = buffer
           /\ \A n \in 0 .. ObjectCount(buffer) : Built(changes)[n] \in Seq(Int)
           /\ \A n \in Objects(buffer) :
                 Built(changes)[n + 1] =
                     IF n \in DOMAIN changes
                       THEN AppendString(Built(changes)[n], SourceField(buffer, n), changes[n])
                       ELSE Built(changes)[n]
<1> DEFINE N == ObjectCount(buffer)
           Step(n, b) == IF n - 1 \in DOMAIN changes
                           THEN AppendString(b, SourceField(buffer, n - 1), changes[n - 1])
                           ELSE b
           Def(f) == [n \in 0 .. N |-> IF n = 0 THEN buffer ELSE Step(n, f[n - 1])]
           step == [n \in Nat |-> [b \in Seq(Int) |-> Step(n, b)]]
<1>1. N \in Nat /\ buffer \in Seq(Int)
    BY DocumentRows, BytesAreNumbers
<1>2. \A i \in DOMAIN changes : changes[i] \in Seq(Byte) /\ i \in SourceIndexes(buffer)
    BY DEF AreTexts
<1>3. \A i \in DOMAIN changes : changes[i] \in Seq(Int) /\ SourceField(buffer, i) \in Nat
    BY <1>2, SourceRows, BytesAreNumbers
<1>4. ASSUME NEW n \in Nat, NEW b \in Seq(Int) PROVE Step(n, b) \in Seq(Int)
    BY <1>3, AppendLength
<1>5. step \in [Nat -> [Seq(Int) -> Seq(Int)]]
    BY <1>4
<1>6. \E f \in [0 .. N -> Seq(Int)] :
          f[0] = buffer /\ \A n \in 1 .. N : f[n] = step[n][f[n - 1]]
    <2> HIDE DEF N, step
    <2>1. QED
        BY <1>1, <1>5, StepByStep
<1>7. \E f \in [0 .. N -> Seq(Int)] : f = Def(f)
    <2>1. PICK f \in [0 .. N -> Seq(Int)] :
              f[0] = buffer /\ \A n \in 1 .. N : f[n] = step[n][f[n - 1]]
        BY <1>6
    <2> HIDE DEF N, Step
    <2>2. ASSUME NEW n \in 0 .. N, n # 0 PROVE f[n] = Step(n, f[n - 1])
        <3>1. n \in 1 .. N /\ n \in Nat /\ n - 1 \in 0 .. N
            BY <1>1, <2>2
        <3>2. f[n] = step[n][f[n - 1]] /\ f[n - 1] \in Seq(Int)
            BY <2>1, <3>1
        <3>3. QED
            BY <3>1, <3>2
    <2>3. QED
        BY <2>1, <2>2
<1> DEFINE built == Built(changes)
<1>8. built = Def(built)
    <2> DEFINE Is(g) == g = Def(g)
    <2>1. built = CHOOSE g : Is(g)
        BY DEF Built
    <2> HIDE DEF Is, built
    <2>2. \E g : Is(g)
        BY <1>7 DEF Is
    <2>3. Is(built)
        BY <2>1, <2>2
    <2>4. QED
        BY <2>3 DEF Is
<1> HIDE DEF built, N
<1>9. /\ built[0] = buffer
      /\ \A n \in 1 .. N : built[n] = Step(n, built[n - 1])
    <2> HIDE DEF Step
    <2>1. QED
        BY <1>1, <1>8
<1>10. \A n \in 0 .. N : built[n] \in Seq(Int)
    <2> DEFINE T == {n \in Nat : n \in 0 .. N => built[n] \in Seq(Int)}
    <2>1. 0 \in T
        BY <1>1, <1>9
    <2>2. ASSUME NEW n \in Nat, n \in T, n < N PROVE n + 1 \in T
        <3>1. n + 1 \in 1 .. N /\ (n + 1) - 1 = n /\ built[n] \in Seq(Int) /\ n + 1 \in Nat
            BY <1>1, <2>2
        <3> HIDE DEF Step
        <3>2. built[n + 1] = Step(n + 1, built[n])
            BY <1>9, <3>1
        <3>3. QED
            BY <1>4, <3>1, <3>2
    <2> HIDE DEF T
    <2>3. \A n \in 0 .. N : n \in T
        BY <1>1, <2>1, <2>2, UpTo
    <2>4. QED
        BY <2>3 DEF T
<1>11. ASSUME NEW n \in 0 .. N - 1
       PROVE  built[n + 1] = IF n \in DOMAIN changes
                               THEN AppendString(built[n], SourceField(buffer, n), changes[n])
                               ELSE built[n]
    <2>1. n + 1 \in 1 .. N /\ (n + 1) - 1 = n
        BY <1>1
    <2>2. built[n + 1] = Step(n + 1, built[(n + 1) - 1])
        BY <1>9, <2>1
    <2>3. QED
        BY <2>1, <2>2
<1>12. QED
    BY <1>9, <1>10, <1>11 DEF Objects, N, built

(* Lengths never shrink from one pool object to the next.                  *)
LEMMA Growing ==
    ASSUME NEW N \in Nat, NEW length \in [0 .. N -> Nat],
           \A n \in 0 .. N - 1 : length[n] <= length[n + 1]
    PROVE  \A n \in 0 .. N : length[0] <= length[n] /\ length[n] <= length[N]
<1> DEFINE T == {k \in Nat : k \in 0 .. N => \A n \in 0 .. k : length[n] <= length[k]}
<1>1. 0 \in T
    BY 0 \in 0 .. N
<1>2. ASSUME NEW k \in Nat, k \in T, k < N PROVE k + 1 \in T
    <2>1. /\ k \in 0 .. N - 1 /\ k \in 0 .. N /\ k + 1 \in 0 .. N
          /\ length[k] <= length[k + 1] /\ length[k] \in Nat /\ length[k + 1] \in Nat
        BY <1>2
    <2>2. \A n \in 0 .. k : length[n] <= length[k] /\ length[n] \in Nat
        BY <1>2, <2>1
    <2>3. ASSUME NEW n \in 0 .. k + 1 PROVE length[n] <= length[k + 1]
        <3>1. CASE n = k + 1
            BY <2>1, <3>1
        <3>2. CASE n # k + 1
            <4>1. n \in 0 .. k
                BY <3>2
            <4>2. QED
                BY <2>1, <2>2, <4>1
        <3>3. QED
            BY <3>1, <3>2
    <2>4. QED
        BY <2>3
<1>3. \A k \in 0 .. N : k \in T
    <2> HIDE DEF T
    <2>1. QED
        BY <1>1, <1>2, UpTo
<1>4. ASSUME NEW n \in 0 .. N PROVE length[0] <= length[n] /\ length[n] <= length[N]
    <2>1. n \in T /\ N \in T /\ N \in 0 .. N /\ n \in 0 .. N /\ 0 \in 0 .. n
        BY <1>3
    <2>2. QED
        BY <2>1
<1>5. QED
    BY <1>4

(* What is built has the planned size, whatever sizes are planned          *)
(* (plan_rewrite_size, and the debug assertion in Document::rewrite).      *)
LEMMA SizeIsPlanned ==
    ASSUME buffer \in Seq(Byte), Structured(buffer), NEW changes, AreTexts(changes)
    PROVE  /\ PlannedSize(changes) = Len(Rewritten(changes))
           /\ \A n \in 0 .. ObjectCount(buffer) :
                 /\ Len(buffer) <= Len(Built(changes)[n])
                 /\ Len(Built(changes)[n]) <= Len(Rewritten(changes))
<1> DEFINE N == ObjectCount(buffer)
           built == Built(changes)
           length == [n \in 0 .. N |-> Len(built[n])]
           After(n, size) == IF n - 1 \in DOMAIN changes
                               THEN size + Padding(size) + 4 + Len(changes[n - 1]) + 1
                               ELSE size
           Def(f) == [n \in 0 .. N |-> IF n = 0 THEN Len(buffer) ELSE After(n, f[n - 1])]
<1>1. N \in Nat /\ Len(buffer) \in Nat
    BY DocumentRows
<1>2. /\ built[0] = buffer
      /\ \A n \in 0 .. N : built[n] \in Seq(Int)
    BY BuiltRows
<1>3. \A n \in 0 .. N : length[n] \in Nat /\ length[n] = Len(built[n])
    BY <1>2, LenProperties
<1>4. ASSUME NEW n \in 1 .. N
      PROVE  length[n] = After(n, length[n - 1]) /\ length[n - 1] <= length[n]
    <2>1. n - 1 \in 0 .. N - 1 /\ n - 1 \in 0 .. N /\ n \in 0 .. N /\ (n - 1) + 1 = n
        BY <1>1
    <2>2. n - 1 \in Objects(buffer)
        BY <2>1 DEF Objects
    <2>3. built[n] = IF n - 1 \in DOMAIN changes
                       THEN AppendString(built[n - 1], SourceField(buffer, n - 1), changes[n - 1])
                       ELSE built[n - 1]
        BY <2>1, <2>2, BuiltRows
    <2>4. CASE n - 1 \in DOMAIN changes
        <3>1. /\ n - 1 \in SourceIndexes(buffer)
              /\ changes[n - 1] \in Seq(Int)
            BY <2>4, BytesAreNumbers DEF AreTexts
        <3>2. SourceField(buffer, n - 1) \in Nat
            BY <3>1, SourceRows
        <3>3. built[n - 1] \in Seq(Int)
            BY <1>2, <2>1
        <3>4. Len(built[n]) = Grown(built[n - 1], changes[n - 1])
            BY <2>3, <2>4, <3>1, <3>2, <3>3, AppendLength
        <3> DEFINE size == Len(built[n - 1])
                   added == Len(changes[n - 1])
        <3>5. size \in Nat /\ added \in Nat /\ length[n - 1] = size /\ length[n] = Len(built[n])
            BY <1>3, <2>1, <3>1, <3>3, LenProperties
        <3>6. Padding(size) \in Nat
            BY <3>5, PlaceRows
        <3>7. length[n] = size + Padding(size) + 4 + added + 1
            BY <3>4, <3>5 DEF Grown, Place
        <3>8. length[n] = After(n, length[n - 1])
            BY <2>4, <3>5, <3>7
        <3> HIDE DEF size, added, length
        <3>9. length[n - 1] <= length[n]
            BY <3>5, <3>6, <3>7
        <3>10. QED
            BY <3>8, <3>9
    <2>5. CASE n - 1 \notin DOMAIN changes
        BY <1>3, <2>1, <2>3, <2>5
    <2>6. QED
        BY <2>4, <2>5
<1>5. length = Def(length)
    <2> HIDE DEF After
    <2>1. \A n \in 0 .. N : n # 0 => n \in 1 .. N
        BY <1>1
    <2>2. \A n \in 0 .. N : length[n] = IF n = 0 THEN Len(buffer) ELSE After(n, length[n - 1])
        <3>1. length[0] = Len(buffer)
            BY <1>1, <1>2
        <3> HIDE DEF length
        <3>2. QED
            BY <1>4, <2>1, <3>1
    <2>3. length = [n \in 0 .. N |-> length[n]]
        OBVIOUS
    <2> HIDE DEF length
    <2>4. QED
        BY <2>2, <2>3
<1> DEFINE planned == CHOOSE f : f = Def(f)
<1>6. PlannedSize(changes) = planned[N]
    BY DEF PlannedSize
<1>7. planned = Def(planned)
    <2> DEFINE Is(f) == f = Def(f)
    <2>1. planned = CHOOSE f : Is(f)
        OBVIOUS
    <2>2. Is(length)
        BY <1>5
    <2> HIDE DEF Is, planned, length
    <2>3. Is(planned)
        BY <2>1, <2>2
    <2>4. QED
        BY <2>3 DEF Is
<1> HIDE DEF planned, N, built
<1>8. \A n \in 0 .. N : planned[n] = IF n = 0 THEN Len(buffer) ELSE After(n, planned[n - 1])
    <2> HIDE DEF After
    <2>1. QED
        BY <1>7
<1>9. \A n \in 0 .. N : planned[n] = length[n]
    <2> DEFINE T == {n \in Nat : n \in 0 .. N => planned[n] = length[n]}
    <2>1. 0 \in T
        BY <1>1, <1>2, <1>8
    <2>2. ASSUME NEW n \in Nat, n \in T, n < N PROVE n + 1 \in T
        <3>1. n + 1 \in 1 .. N /\ n + 1 \in 0 .. N /\ n \in 0 .. N /\ (n + 1) - 1 = n
              /\ n + 1 # 0 /\ n + 1 \in Nat
            BY <1>1, <2>2
        <3>2. planned[n] = length[n]
            BY <2>2, <3>1
        <3> HIDE DEF length, After
        <3>3. planned[n + 1] = After(n + 1, planned[n])
            BY <1>8, <3>1
        <3>4. length[n + 1] = After(n + 1, length[n])
            BY <1>4, <3>1
        <3>5. QED
            BY <3>1, <3>2, <3>3, <3>4
    <2> HIDE DEF T, length
    <2>3. \A n \in 0 .. N : n \in T
        BY <1>1, <2>1, <2>2, UpTo
    <2>4. QED
        BY <2>3 DEF T
<1>10. \A n \in 0 .. N : length[0] <= length[n] /\ length[n] <= length[N]
    <2>1. length \in [0 .. N -> Nat]
        BY <1>3
    <2> HIDE DEF length
    <2>2. \A n \in 0 .. N - 1 : length[n] <= length[n + 1]
        <3>1. \A n \in 0 .. N - 1 : n + 1 \in 1 .. N /\ (n + 1) - 1 = n
            BY <1>1
        <3>2. QED
            BY <1>4, <3>1
    <2>3. QED
        BY <1>1, <2>1, <2>2, Growing
<1>11. 0 \in 0 .. N /\ N \in 0 .. N
    BY <1>1
<1>12. Rewritten(changes) = built[N]
    BY DEF Rewritten, N, built
<1>13. PlannedSize(changes) = Len(Rewritten(changes))
    BY <1>3, <1>6, <1>9, <1>11, <1>12
<1>14. \A n \in 0 .. N : Len(buffer) <= Len(built[n]) /\ Len(built[n]) <= Len(built[N])
    BY <1>2, <1>3, <1>10, <1>11
<1>15. QED
    BY <1>12, <1>13, <1>14 DEF N, built

\* b is the buffer with the changes of its first n pool objects made.
Follows(b, n, changes) ==
    /\ b \in Seq(Byte) /\ Parses(b)
    /\ ObjectCount(b) = ObjectCount(buffer)
    /\ SourceIndexes(b) = SourceIndexes(buffer)
    /\ \A i \in SourceIndexes(buffer) : SourceField(b, i) = SourceField(buffer, i)
    /\ Sources(b) = [i \in SourceIndexes(buffer) |->
                        IF i \in DOMAIN changes /\ i < n THEN changes[i] ELSE Sources(buffer)[i]]
    /\ OtherFields(b) = OtherFields(buffer)
    /\ \A i \in Holders(buffer) :
          i \in Holders(b) /\ OtherStrings(b)[i] = OtherStrings(buffer)[i]

(* One change is made and everything else is as it was.                    *)
LEMMA OneChange ==
    ASSUME buffer \in Seq(Byte), Structured(buffer), NEW changes, AreTexts(changes),
           NEW k \in DOMAIN changes, NEW b, Follows(b, k, changes),
           Grown(b, changes[k]) < Far
    PROVE  Follows(AppendString(b, SourceField(buffer, k), changes[k]), k + 1, changes)
<1> DEFINE field == SourceField(buffer, k)
           text == changes[k]
           n == AppendString(b, field, text)
<1>1. /\ b \in Seq(Byte) /\ Parses(b) /\ Structured(b)
      /\ k \in SourceIndexes(buffer) /\ k \in SourceIndexes(b)
      /\ field = SourceField(b, k) /\ text \in Seq(Byte) /\ ValidUtf8(text)
    BY DEF Follows, AreTexts, Parses
<1>2. field \in Nat /\ field + 4 <= Len(b)
    BY <1>1, SourceRows, StringRows
<1>3. Appended(b, n, field, text)
    BY <1>1, <1>2, AppendIsAppended
<1> HIDE DEF n, text, field
<1>4. n \in Seq(Byte) /\ Parses(n) /\ Redirected(b, n, SourceField(b, k))
    BY <1>1, <1>3, AppendParses DEF Appended
<1>5. ObjectCount(n) = ObjectCount(b)
    BY <1>1, <1>4, SamePool
<1>6. /\ SourceIndexes(n) = SourceIndexes(b)
      /\ \A i \in SourceIndexes(b) : SourceField(n, i) = SourceField(b, i)
    BY <1>1, <1>4, SameSources
<1>7. Sources(n) = [i \in SourceIndexes(buffer) |->
                       IF i \in DOMAIN changes /\ i < k + 1 THEN changes[i]
                       ELSE Sources(buffer)[i]]
    <2>1. Sources(n) = [Sources(b) EXCEPT ![k] = text]
        BY <1>1, <1>3, AppendReads
    <2>2. Sources(b) = [i \in SourceIndexes(buffer) |->
                           IF i \in DOMAIN changes /\ i < k THEN changes[i]
                           ELSE Sources(buffer)[i]]
        BY DEF Follows
    <2>3. \A i \in SourceIndexes(buffer) : i \in Nat
        BY SourceRows, ObjectRows
    <2>4. \A i \in SourceIndexes(buffer) : i # k => (i < k + 1 <=> i < k)
        BY <1>1, <2>3
    <2>5. k < k + 1
        BY <1>1, <2>3
    <2>6. QED
        BY <1>1, <2>1, <2>2, <2>4, <2>5 DEF text
<1>8. OtherFields(n) = OtherFields(b)
    BY <1>1, <1>4, SameOtherFields
<1>9. ASSUME NEW i \in Holders(buffer)
      PROVE  i \in Holders(n) /\ OtherStrings(n)[i] = OtherStrings(buffer)[i]
    <2>1. i \in Holders(b) /\ OtherStrings(b)[i] = OtherStrings(buffer)[i]
        BY DEF Follows
    <2>2. i \in Holders(n) /\ OtherStrings(n)[i] = OtherStrings(b)[i]
        BY <1>1, <1>3, <2>1, SameHolder
    <2>3. QED
        BY <2>1, <2>2
<1>10. Follows(n, k + 1, changes)
    BY <1>4, <1>5, <1>6, <1>7, <1>8, <1>9 DEF Follows
<1>11. QED
    BY <1>10 DEF n, text, field

(* All changes of a rewrite that a distance can reach are made, and        *)
(* everything else is as it was (Document::rewrite).                       *)
LEMMA RewriteMakesChanges ==
    ASSUME buffer \in Seq(Byte), Parses(buffer), NEW changes, AreTexts(changes),
           Len(Rewritten(changes)) < Far
    PROVE  Follows(Rewritten(changes), ObjectCount(buffer), changes)
<1> DEFINE N == ObjectCount(buffer)
           T == {n \in Nat : n \in 0 .. N => Follows(Built(changes)[n], n, changes)}
<1>1. Structured(buffer) /\ N \in Nat
    BY DocumentRows DEF Parses
<1>2. 0 \in T
    <2>1. Built(changes)[0] = buffer
        BY <1>1, BuiltRows
    <2>2. \A i \in SourceIndexes(buffer) : ~(i < 0)
        BY <1>1, SourceRows, ObjectRows
    <2>3. Sources(buffer) = [i \in SourceIndexes(buffer) |->
                                IF i \in DOMAIN changes /\ i < 0 THEN changes[i]
                                ELSE Sources(buffer)[i]]
        BY <2>2 DEF Sources
    <2>4. Follows(buffer, 0, changes)
        BY <2>3 DEF Follows
    <2>5. QED
        BY <2>1, <2>4
<1>3. ASSUME NEW n \in Nat, n \in T, n < N PROVE n + 1 \in T
    <2> DEFINE b == Built(changes)[n]
               next == Built(changes)[n + 1]
    <2>1. n \in 0 .. N /\ n + 1 \in 0 .. N /\ n + 1 \in Nat /\ n \in 0 .. N - 1
        BY <1>1, <1>3
    <2>2. n \in Objects(buffer)
        BY <2>1 DEF Objects
    <2>3. Follows(b, n, changes)
        BY <1>3, <2>1
    <2>4. next = IF n \in DOMAIN changes
                   THEN AppendString(b, SourceField(buffer, n), changes[n])
                   ELSE b
        BY <1>1, <2>2, BuiltRows
    <2>5. next \in Seq(Int) /\ Len(next) <= Len(Rewritten(changes))
        BY <1>1, <2>1, BuiltRows, SizeIsPlanned
    <2>6. CASE n \in DOMAIN changes
        <3>1. n \in SourceIndexes(buffer) /\ changes[n] \in Seq(Int) /\ b \in Seq(Int)
            BY <2>3, <2>6, BytesAreNumbers DEF AreTexts, Follows
        <3>2. SourceField(buffer, n) \in Nat
            BY <1>1, <3>1, SourceRows
        <3>3. Grown(b, changes[n]) = Len(next)
            BY <2>4, <2>6, <3>1, <3>2, AppendLength
        <3>4. Len(next) < Far
            <4>1. Len(next) \in Nat /\ Len(Rewritten(changes)) \in Nat
                <5>1. N \in 0 .. N
                    BY <1>1
                <5>2. Rewritten(changes) \in Seq(Int)
                    BY <1>1, <5>1, BuiltRows DEF Rewritten
                <5>3. QED
                    BY <2>5, <5>2, LenProperties
            <4> DEFINE small == Len(next)
                       large == Len(Rewritten(changes))
            <4>2. small \in Nat /\ large \in Nat /\ small <= large /\ large < Far
                BY <2>5, <4>1
            <4> HIDE DEF small, large
            <4>3. small < Far
                BY <4>2 DEF Far
            <4>4. QED
                BY <4>3 DEF small
        <3>5. Follows(next, n + 1, changes)
            BY <1>1, <2>3, <2>4, <2>6, <3>3, <3>4, OneChange
        <3>6. QED
            BY <2>1, <3>5
    <2>7. CASE n \notin DOMAIN changes
        <3>1. \A i \in SourceIndexes(buffer) : i \in Nat
            BY <1>1, SourceRows, ObjectRows
        <3>2. \A i \in SourceIndexes(buffer) :
                 i \in DOMAIN changes => (i < n + 1 <=> i < n)
            BY <2>7, <3>1
        <3>3. [i \in SourceIndexes(buffer) |->
                  IF i \in DOMAIN changes /\ i < n + 1 THEN changes[i] ELSE Sources(buffer)[i]]
              = [i \in SourceIndexes(buffer) |->
                    IF i \in DOMAIN changes /\ i < n THEN changes[i] ELSE Sources(buffer)[i]]
            BY <3>2
        <3>4. Follows(b, n + 1, changes)
            BY <2>3, <3>3 DEF Follows
        <3>5. QED
            BY <2>1, <2>4, <2>7, <3>4
    <2>8. QED
        BY <2>6, <2>7
<1> HIDE DEF T
<1>4. \A n \in 0 .. N : n \in T
    BY <1>1, <1>2, <1>3, UpTo
<1>5. N \in 0 .. N /\ N \in T
    BY <1>1, <1>4
<1>6. QED
    BY <1>5 DEF T, Rewritten

(* What a batch changes are texts of source nodes (Document::rewrite).     *)
LEMMA ChangesAreTexts ==
    ASSUME NEW batch \in Batches
    PROVE  AreTexts(Changes(batch))
<1> DEFINE changes == Changes(batch)
           Replacement == [index : Nat, own : BOOLEAN, text : {text \in Seq(Byte) : ValidUtf8(text)}]
<1>1. batch \in Seq(Replacement)
    BY BatchesAssumption
<1>2. \A r \in Range(batch) : r.text \in Seq(Byte) /\ ValidUtf8(r.text)
    <2>1. \A r \in Replacement : r.text \in Seq(Byte) /\ ValidUtf8(r.text)
        OBVIOUS
    <2>2. Range(batch) \subseteq Replacement
        <3> HIDE DEF Replacement
        <3>1. \A i \in DOMAIN batch : batch[i] \in Replacement
            BY <1>1, ElementOfSeq, LenProperties
        <3>2. QED
            BY <3>1 DEF Range
    <2>3. QED
        BY <2>1, <2>2
<1>3. ASSUME NEW i \in DOMAIN changes
      PROVE  i \in SourceIndexes(buffer) /\ changes[i] \in Seq(Byte) /\ ValidUtf8(changes[i])
    <2>1. /\ i \in SourceIndexes(buffer) /\ changes[i] = Requested(batch, i)
          /\ \E r \in Range(batch) : r.index = i
        BY DEF Changes
    <2>2. PICK r \in Range(batch) : Requested(batch, i) = r.text
        BY <2>1 DEF Requested
    <2>3. QED
        BY <1>2, <2>1, <2>2
<1>4. QED
    BY <1>3 DEF AreTexts

-----------------------------------------------------------------------------
(* The invariant of a document                                             *)

\* What holds of the document from its opening on.
DocumentInv ==
    /\ buffer \in Seq(Byte)
    /\ opened <=> Parses(buffer)
    /\ ReadBack
    /\ OtherDataIsKept
    /\ ReparseAccepts

(* What Audulus saved is what is promised and kept.                        *)
LEMMA InitEstablishesDocumentInv == Init => DocumentInv
<1> SUFFICES ASSUME Init PROVE DocumentInv
    OBVIOUS
<1>1. buffer \in Seq(Byte) /\ (opened <=> Parses(buffer))
    BY SavedAssumption DEF Init
<1>2. ReadBack /\ ReparseAccepts
    BY DEF Init, ReadBack, ReparseAccepts
<1>3. OtherDataIsKept
    BY DEF Init, OtherDataIsKept, OtherData, OtherStrings
<1>4. QED
    BY <1>1, <1>2, <1>3 DEF DocumentInv

(* Damaged bytes are bytes, and what they read is what must be kept.       *)
LEMMA DamagePreservesDocumentInv ==
    ASSUME DocumentInv, DamageHalfWord
    PROVE  DocumentInv'
<1>1. PICK l \in {2 * h : h \in 0 .. Len(buffer) \div 2 - 1}, pair \in Damage :
          buffer' = [buffer EXCEPT ![l + 1] = pair[1], ![l + 2] = pair[2]]
    BY DEF DamageHalfWord
<1>2. buffer' \in Seq(Byte)
    <2>1. pair[1] \in Byte /\ pair[2] \in Byte
        BY DamageAssumption
    <2>2. buffer \in Seq(Byte)
        BY DEF DocumentInv
    <2>3. Len(buffer) \in Nat /\ buffer \in [1 .. Len(buffer) -> Byte]
        BY <2>2, LenProperties
    <2>4. buffer' \in [1 .. Len(buffer) -> Byte]
        BY <1>1, <2>1, <2>3
    <2>5. QED
        BY <2>3, <2>4, SeqDef
<1>3. opened' <=> Parses(buffer)'
    BY DEF DamageHalfWord
<1>4. outcome' = "damaged"
    BY DEF DamageHalfWord
<1>5. opened' => promised' = Sources(buffer)' /\ kept' = OtherData(buffer)'
    BY DEF DamageHalfWord
<1>6. ReadBack' /\ ReparseAccepts'
    BY <1>4, <1>5 DEF ReadBack, ReparseAccepts
<1>7. OtherDataIsKept'
    BY <1>5 DEF OtherDataIsKept, OtherData, OtherStrings
<1>8. QED
    BY <1>2, <1>3, <1>6, <1>7 DEF DocumentInv

(* A rewrite that is given out has made the promised changes and no other, *)
(* and no rewrite fails to parse.                                          *)
LEMMA RewritePreservesDocumentInv ==
    ASSUME DocumentInv, opened, NEW batch \in Batches, Rewrite(Changes(batch))
    PROVE  DocumentInv'
<1> DEFINE changes == Changes(batch)
           built == Rewritten(changes)
<1>1. /\ buffer \in Seq(Byte) /\ Parses(buffer) /\ Structured(buffer)
      /\ AreTexts(changes)
    BY ChangesAreTexts DEF DocumentInv, Parses
<1>2. Len(built) < Far
    <2>1. ~(PlannedSize(changes) > MaxSize)
        BY DEF Rewrite, TooLarge
    <2>2. PlannedSize(changes) = Len(built)
        BY <1>1, SizeIsPlanned
    <2>3. ObjectCount(buffer) \in 0 .. ObjectCount(buffer)
        BY <1>1, DocumentRows
    <2>4. built \in Seq(Int)
        BY <1>1, <2>3, BuiltRows DEF Rewritten
    <2>5. Len(built) \in Nat
        BY <2>4, LenProperties
    <2> HIDE DEF built, changes
    <2>6. QED
        BY <2>1, <2>2, <2>5, MaxSizeAssumption DEF Far
<1>3. Follows(built, ObjectCount(buffer), changes)
    BY <1>1, <1>2, RewriteMakesChanges
<1>4. /\ outcome' = "rewritten" /\ buffer' = built
      /\ promised' = [index \in DOMAIN promised |->
                         IF index \in DOMAIN changes THEN changes[index] ELSE promised[index]]
      /\ opened' = opened /\ kept' = kept
    BY <1>3 DEF Rewrite, Follows
<1>5. /\ built \in Seq(Byte) /\ Parses(built)
      /\ Sources(built) = [i \in SourceIndexes(buffer) |->
                              IF i \in DOMAIN changes /\ i < ObjectCount(buffer) THEN changes[i]
                              ELSE Sources(buffer)[i]]
      /\ OtherFields(built) = OtherFields(buffer)
      /\ \A i \in Holders(buffer) :
            i \in Holders(built) /\ OtherStrings(built)[i] = OtherStrings(buffer)[i]
    BY <1>3 DEF Follows
<1> HIDE DEF built, changes
<1>6. Sources(built) = promised'
    <2>1. Sources(buffer) = promised
        BY DEF DocumentInv, ReadBack
    <2>2. DOMAIN promised = SourceIndexes(buffer)
        BY <2>1 DEF Sources
    <2>3. \A i \in SourceIndexes(buffer) : i < ObjectCount(buffer)
        BY <1>1, SourceRows, ObjectRows
    <2>4. QED
        BY <1>4, <1>5, <2>1, <2>2, <2>3
<1>7. buffer' \in Seq(Byte) /\ (opened' <=> Parses(buffer)')
    BY <1>4, <1>5
<1>8. ReadBack' /\ ReparseAccepts'
    BY <1>4, <1>6 DEF ReadBack, ReparseAccepts
<1>9. OtherDataIsKept'
    BY <1>4, <1>5 DEF DocumentInv, OtherDataIsKept
<1>10. QED
    BY <1>7, <1>8, <1>9 DEF DocumentInv

(* Every step keeps the invariant; a refusal changes nothing.              *)
LEMMA NextPreservesDocumentInv == DocumentInv /\ [Next]_vars => DocumentInv'
<1> SUFFICES ASSUME DocumentInv, [Next]_vars PROVE DocumentInv'
    OBVIOUS
<1>1. CASE DamageHalfWord
    BY <1>1, DamagePreservesDocumentInv
<1>2. CASE UNCHANGED <<buffer, opened, promised, kept>> /\ (outcome' = "kept" \/ outcome' = outcome)
    BY <1>2 DEF DocumentInv, ReadBack, OtherDataIsKept, ReparseAccepts
<1>3. ASSUME opened, NEW batch \in Batches, Rewrite(Changes(batch))
      PROVE  DocumentInv'
    BY <1>3, RewritePreservesDocumentInv
<1>4. CASE UNCHANGED vars
    BY <1>2, <1>4 DEF vars
<1>5. QED
    BY <1>1, <1>2, <1>3, <1>4
    DEF Next, RefuseHandles, LeaveUnchanged, RefuseSize

(* The document is as described at every moment.                           *)
LEMMA DocumentInvHolds == Spec => []DocumentInv
BY InitEstablishesDocumentInv, NextPreservesDocumentInv, PTL DEF Spec

-----------------------------------------------------------------------------
(* What Document::rewrite promises                                         *)

(* Every source node reads the text it was last asked to hold and the      *)
(* others the text they had, whatever the document and the batches are     *)
(* (Document::rewrite, Document::parse).                                   *)
THEOREM SourcesReadBack == Spec => []ReadBack
<1>1. DocumentInv => ReadBack
    BY DEF DocumentInv
<1>2. QED
    BY <1>1, DocumentInvHolds, PTL

(* No rewrite of a document that parses changes another field or the       *)
(* string of a node that is no source (Table::field).                      *)
THEOREM OthersAreKept == Spec => []OtherDataIsKept
<1>1. DocumentInv => OtherDataIsKept
    BY DEF DocumentInv
<1>2. QED
    BY <1>1, DocumentInvHolds, PTL

(* The parse that follows a rewrite never refuses it (Document::rewrite).  *)
THEOREM EveryRewriteParses == Spec => []ReparseAccepts
<1>1. DocumentInv => ReparseAccepts
    BY DEF DocumentInv
<1>2. QED
    BY <1>1, DocumentInvHolds, PTL

(* A batch is refused for its size exactly when what it builds would pass  *)
(* the limit (plan_rewrite_size).                                          *)
THEOREM PlansAreExact == Spec => []PlanIsExact
<1>1. ASSUME DocumentInv, opened, NEW batch \in Batches
      PROVE  TooLarge(Changes(batch)) <=> Len(Rewritten(Changes(batch))) > MaxSize
    <2> DEFINE changes == Changes(batch)
               planned == PlannedSize(changes)
               now == Len(buffer)
    <2>1. /\ buffer \in Seq(Byte) /\ Structured(buffer) /\ AreTexts(changes)
        BY <1>1, ChangesAreTexts DEF DocumentInv, Parses
    <2>2. ObjectCount(buffer) \in 0 .. ObjectCount(buffer)
        BY <2>1, DocumentRows
    <2>3. planned = Len(Rewritten(changes)) /\ now <= planned
        BY <2>1, <2>2, SizeIsPlanned DEF Rewritten
    <2>4. Rewritten(changes) \in Seq(Int)
        BY <2>1, <2>2, BuiltRows DEF Rewritten
    <2>5. planned \in Nat /\ now \in Nat
        BY <2>1, <2>3, <2>4, LenProperties
    <2> HIDE DEF changes, planned, now
    <2>6. now > MaxSize => planned > MaxSize
        BY <2>3, <2>5, MaxSizeAssumption
    <2>7. QED
        BY <2>3, <2>6 DEF TooLarge, changes, planned, now
<1>2. DocumentInv => PlanIsExact
    BY <1>1 DEF PlanIsExact
<1>3. QED
    BY <1>2, DocumentInvHolds, PTL

(* Whatever the bytes of a document with a readable structure, looking at  *)
(* two neighbours decides whether its regions overlap (Layout::add).       *)
THEOREM LayoutStaysDisjoint == Spec => []LayoutIsDisjoint
<1>1. DocumentInv => LayoutIsDisjoint
    BY StructuredIsDisjoint DEF DocumentInv, LayoutIsDisjoint, Disjoint
<1>2. QED
    BY <1>1, DocumentInvHolds, PTL
=============================================================================
