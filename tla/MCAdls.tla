-------------------------------- MODULE MCAdls --------------------------------
(***************************************************************************)
(* Documents for Adls: a root object, two source nodes and a node of       *)
(* another type, laid out the way a FlatBuffers builder may lay them out.  *)
(***************************************************************************)
EXTENDS Adls, SequencesExt

Half(n) == << n % 256, n \div 256 >>
Word(n) == IF n < 0 THEN Half(Far + n) \o << 255, 255 >> ELSE Half(n) \o << 0, 0 >>
Halves(numbers) == FlattenSeq([i \in DOMAIN numbers |-> Half(numbers[i])])

\* Fields f0, f5 and f10 at 4, 12 and 8, or f0 and f5 alone at 4 and 8.
WithSource == Halves(<<26, 16, 4, 0, 0, 0, 0, 12, 0, 0, 0, 0, 8>>)
WithoutSource == Halves(<<16, 12, 4, 0, 0, 0, 0, 8>>)

StringBytes(text) == Word(Len(text)) \o text \o << 0 >>
PadTo(bytes, size) == bytes \o Zeros(size - Len(bytes))

A == <<97>>
AB == <<97, 98>>

\* Locations: root vtable 8, root table 16, then the vtables of the objects, the
\* pool, the objects and the strings; a late vtable comes after the strings.
Build(shape) ==
    LET without == IF shape.late THEN 24 ELSE 52
        pool == without + 20
        first == pool + 20
        vtable == IF shape.late THEN first + 76 ELSE 24
        second == first + (IF shape.share THEN 52 ELSE 60)
        third == first + (IF shape.share THEN 52 ELSE 68)
        head == Word(16) \o Identifier
                  \o Halves(<<6, 8, 4, 0>>) \o Word(8) \o Word(pool - 20)
                  \o (IF shape.late THEN << >> ELSE PadTo(WithSource, 28))
                  \o WithoutSource \o Halves(<<4, 4>>)
        vector == Word(4) \o Word(16) \o Word(16) \o Word(28) \o Word(40)
        objects == Word(first - (without + 16))
                     \o Word(first + 4 - vtable) \o Word(74) \o Word(40) \o Word(7)
                     \o (IF shape.absent
                           THEN Word(first + 20 - without) \o Word(82) \o Word(7) \o Word(0)
                           ELSE Word(first + 20 - vtable) \o Word(82)
                                  \o Word(second - (first + 28)) \o Word(7))
                     \o Word(first + 36 - vtable) \o Word(5) \o Word(third - (first + 44)) \o Word(7)
        strings == PadTo(StringBytes(A), 8) \o PadTo(StringBytes(AB), 8) \o StringBytes(A)
        built == head \o vector \o objects \o strings
    IN  IF shape.late THEN PadTo(built, vtable) \o WithSource ELSE built

Shape(late, share, absent) == [late |-> late, share |-> share, absent |-> absent]
MCSaved ==
    {Build(shape) : shape \in {Shape(FALSE, FALSE, FALSE), Shape(FALSE, TRUE, FALSE),
                               Shape(TRUE, TRUE, FALSE), Shape(FALSE, FALSE, TRUE)}}

\* Distances and offsets that lead elsewhere, type ids, and far too much.
MCDamage == {Half(n) : n \in {0, 4, 8, 12, 16, 24, 74}} \cup {<<255, 255>>}

Ask(index, text) == [index |-> index, own |-> TRUE, text |-> text]

MCBatches ==
    {<< Ask(1, << >>) >>, << Ask(1, A) >>, << Ask(1, AB) >>, << Ask(2, A) >>, << Ask(3, A) >>,
     << Ask(2, AB), Ask(1, <<98>>) >>, << Ask(1, A), Ask(1, AB) >>,
     << [Ask(1, AB) EXCEPT !.own = FALSE] >>}
=============================================================================
