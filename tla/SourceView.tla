------------------------------ MODULE SourceView ------------------------------
(***************************************************************************)
(* The source-bearing part of an ADLS buffer as src/src/adls.rs parses it: *)
(* header, root table, patch-object vector, the table of every patch       *)
(* object with its vtable, and the f10 string of each source node.  A      *)
(* buffer is a sequence of bytes; location l is its element l + 1.         *)
(***************************************************************************)
EXTENDS Layout, Sequences, Functions

Byte == 0 .. 255

\* Buffers are shorter than this; a larger number is beyond each of them.
Far == 65536

Has(buffer, l, length) == l + length <= Len(buffer)
Aligned(l, alignment) == l % alignment = 0

U16(buffer, l) == buffer[l + 1] + 256 * buffer[l + 2]
U32(buffer, l) ==
    IF buffer[l + 3] = 0 /\ buffer[l + 4] = 0 THEN U16(buffer, l) ELSE Far

\* Two's complement, with everything that is far away taken together.
I32(buffer, l) ==
    IF buffer[l + 4] < 128 THEN U32(buffer, l)
    ELSE IF buffer[l + 3] = 255 /\ buffer[l + 4] = 255 THEN U16(buffer, l) - Far
    ELSE -Far

-----------------------------------------------------------------------------
(* Parser *)

\* follow_uoffset: the word at l holds the distance to a place in the buffer.
Target(buffer, l) == l + U32(buffer, l)
Leads(buffer, l) ==
    /\ Aligned(l, 4) /\ Has(buffer, l, 4)
    /\ U32(buffer, l) # 0
    /\ Aligned(Target(buffer, l), 4) /\ Target(buffer, l) < Len(buffer)

\* A table at t, its vtable, and the number of fields the vtable has room for.
Vtable(buffer, t) == t - I32(buffer, t)
VtableLength(buffer, t) == U16(buffer, Vtable(buffer, t))
ObjectLength(buffer, t) == U16(buffer, Vtable(buffer, t) + 2)
FieldCount(buffer, t) == (VtableLength(buffer, t) - 4) \div 2
Entry(buffer, t, f) ==
    LET vtable == Vtable(buffer, t)
    IN  IF f < (U16(buffer, vtable) - 4) \div 2 THEN U16(buffer, vtable + 4 + 2 * f) ELSE 0

TableFits(buffer, t) ==
    /\ Aligned(t, 4) /\ Has(buffer, t, 4)
    /\ I32(buffer, t) # 0
    /\ Vtable(buffer, t) >= 0 /\ Aligned(Vtable(buffer, t), 2)
    /\ Has(buffer, Vtable(buffer, t), 4)
    /\ VtableLength(buffer, t) >= 4 /\ Aligned(VtableLength(buffer, t), 2)
    /\ ObjectLength(buffer, t) >= 4
    /\ Has(buffer, Vtable(buffer, t), VtableLength(buffer, t))
    /\ Has(buffer, t, ObjectLength(buffer, t))
    /\ \A f \in 0 .. FieldCount(buffer, t) - 1 :
          Entry(buffer, t, f) \in {0} \cup 4 .. ObjectLength(buffer, t) - 1

Present(buffer, t, f) == Entry(buffer, t, f) # 0
Field(buffer, t, f) == t + Entry(buffer, t, f)

\* Mutant: two fields may have the same storage.
FieldFitsAliased(buffer, t, f) ==
    Present(buffer, t, f) =>
        /\ Entry(buffer, t, f) + 4 <= ObjectLength(buffer, t)
        /\ Aligned(Field(buffer, t, f), 4)

\* An accessed word is inside its table and no other field begins in it.
FieldFits(buffer, t, f) ==
    LET start == Entry(buffer, t, f)
    IN  Present(buffer, t, f) =>
            /\ start + 4 <= ObjectLength(buffer, t)
            /\ \A other \in 0 .. FieldCount(buffer, t) - 1 :
                  other # f => Entry(buffer, t, other) \notin start .. start + 3
            /\ Aligned(t + start, 4)

-----------------------------------------------------------------------------
(* Document::parse *)

Identifier == <<65, 68, 76, 83>>
NodeKind == {74, 78, 79, 82}

Root(buffer) == Target(buffer, 0)
Pool(buffer) == Target(buffer, Field(buffer, Root(buffer), 0))
ObjectCount(buffer) == U32(buffer, Pool(buffer))
Objects(buffer) == 0 .. ObjectCount(buffer) - 1
Element(buffer, index) == Pool(buffer) + 4 + 4 * index
Object(buffer, index) == Target(buffer, Element(buffer, index))
TypeId(buffer, t) == IF Present(buffer, t, 0) THEN U32(buffer, Field(buffer, t, 0)) ELSE 0

\* The patch objects that are source nodes with a present f10.
IsSource(buffer, t) == TypeId(buffer, t) \in NodeKind /\ Present(buffer, t, 10)
SourceIndexes(buffer) == {index \in Objects(buffer) : IsSource(buffer, Object(buffer, index))}
SourceField(buffer, index) == Field(buffer, Object(buffer, index), 10)

String(buffer, l) == Target(buffer, l)
StringLength(buffer, l) == U32(buffer, String(buffer, l))
Text(buffer, l) ==
    SubSeq(buffer, String(buffer, l) + 5, String(buffer, l) + 4 + StringLength(buffer, l))

\* Every byte of 128 and more that occurs is one that UTF-8 never uses.
ValidUtf8(text) == \A i \in DOMAIN text : text[i] < 128

StringFits(buffer, l) ==
    /\ Leads(buffer, l)
    /\ Has(buffer, String(buffer, l), 4)
    /\ Has(buffer, String(buffer, l), 4 + StringLength(buffer, l) + 1)
    /\ buffer[String(buffer, l) + 4 + StringLength(buffer, l) + 1] = 0
    /\ ValidUtf8(Text(buffer, l))

HeaderFits(buffer) == Len(buffer) >= 8 /\ SubSeq(buffer, 5, 8) = Identifier

PoolFits(buffer) ==
    /\ Leads(buffer, 0)
    /\ TableFits(buffer, Root(buffer))
    /\ Present(buffer, Root(buffer), 0) /\ FieldFits(buffer, Root(buffer), 0)
    /\ Leads(buffer, Field(buffer, Root(buffer), 0))
    /\ Has(buffer, Pool(buffer), 4)
    /\ ObjectCount(buffer) > 0
    /\ Has(buffer, Pool(buffer), 4 + 4 * ObjectCount(buffer))

ObjectFits(buffer, index) ==
    /\ Leads(buffer, Element(buffer, index))
    /\ TableFits(buffer, Object(buffer, index))
    /\ FieldFits(buffer, Object(buffer, index), 0)
    /\ index = 0 => TypeId(buffer, Object(buffer, index)) = 0

ObjectsFit(buffer) ==
    /\ \A index \in Objects(buffer) :
          /\ ObjectFits(buffer, index)
          /\ IsSource(buffer, Object(buffer, index)) =>
                /\ FieldFits(buffer, Object(buffer, index), 10)
                /\ StringFits(buffer, SourceField(buffer, index))
    /\ \A i, j \in Objects(buffer) : i # j => Object(buffer, i) # Object(buffer, j)

\* The regions by the slots in which they are reached: the header, the root with
\* its table, vtable and vector, then each object with its table, vtable and string.
Region(start, length, kind) == [start |-> start, end |-> start + length, kind |-> kind]
TableRegion(buffer, t) == Region(t, ObjectLength(buffer, t), "table")
VtableRegion(buffer, t) == Region(Vtable(buffer, t), VtableLength(buffer, t), "vtable")
VectorRegion(buffer) == Region(Pool(buffer), 4 + 4 * ObjectCount(buffer), "vector")
StringRegion(buffer, l) == Region(String(buffer, l), 4 + StringLength(buffer, l) + 1, "string")

\* Slot 3 * owner + part: owner 0 is the header, 1 the root, and then the objects.
Slots(buffer) ==
    {0} \cup 3 .. 5 \cup
    {slot \in 6 .. 3 * ObjectCount(buffer) + 5 :
        slot % 3 = 2 => IsSource(buffer, Object(buffer, slot \div 3 - 2))}

TableOf(buffer, owner) == IF owner = 1 THEN Root(buffer) ELSE Object(buffer, owner - 2)

RegionAt(buffer, owner, part) ==
    CASE owner = 0 -> Region(0, 8, "header")
      [] owner > 0 /\ part = 0 -> TableRegion(buffer, TableOf(buffer, owner))
      [] owner > 0 /\ part = 1 -> VtableRegion(buffer, TableOf(buffer, owner))
      [] owner = 1 /\ part = 2 -> VectorRegion(buffer)
      [] owner > 1 /\ part = 2 -> StringRegion(buffer, SourceField(buffer, owner - 2))

Regions(buffer) == [slot \in Slots(buffer) |-> RegionAt(buffer, slot \div 3, slot % 3)]

\* Layout, filled in that order; what does not fit spoils it for good.
LaidOut(regions) ==
    \A slot \in DOMAIN regions :
        Fits({regions[s] : s \in {e \in DOMAIN regions : e < slot}}, regions[slot])

Structured(buffer) == HeaderFits(buffer) /\ PoolFits(buffer) /\ ObjectsFit(buffer)

Parses(buffer) == Structured(buffer) /\ LaidOut(Regions(buffer))

\* Document::sources, as a function of the pool index.
Sources(buffer) ==
    [index \in SourceIndexes(buffer) |-> Text(buffer, SourceField(buffer, index))]
=============================================================================
