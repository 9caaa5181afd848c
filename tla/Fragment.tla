------------------------------ MODULE Fragment ------------------------------
(***************************************************************************)
(* The text of one source node and the markers in it: src/src/fragment.rs. *)
(* A text is a sequence of symbols.  Line breaks are kept apart, because   *)
(* canonicalization and the splicing of fragments are about them; anything *)
(* else on a line is one symbol.  A marker symbol stands for the text up   *)
(* to and including the path, indentation and comment included, and is a   *)
(* marker only where a line begins with it.                                *)
(***************************************************************************)
EXTENDS Reconcile, Integers, Sequences, SequencesExt

CONSTANTS
    Path,       \* canonical fragment paths
    CR, LF,     \* the characters that break lines
    BOM,        \* the byte-order mark
    Damaged,    \* a marker with a missing or invalid path, or an invalid hash
    Other       \* whatever else stands on a line

Opening(p) == <<"open", p>>
Closing(p) == <<"close", p>>
HashToken(h) == <<"hash", h>>

Openings == {Opening(p) : p \in Path}
Closings == {Closing(p) : p \in Path}
HashTokens == {HashToken(h) : h \in Digest}
Markers == Openings \cup Closings \cup {Damaged}
Symbol == {CR, LF, BOM} \cup Markers \cup HashTokens \cup Other

ASSUME SymbolsAssumption ==
    /\ CR # LF /\ BOM \notin {CR, LF}
    /\ {CR, LF, BOM} \cap (Markers \cup HashTokens) = {}

-----------------------------------------------------------------------------
(* Canonical source *)

\* Mutant: the line feed of a CRLF is kept beside that of its CR.
CanonicalizeEach(text) ==
    LET body == [i \in DOMAIN text |-> IF text[i] = CR THEN LF ELSE text[i]]
    IN  IF body # <<>> /\ Last(body) # LF THEN Append(body, LF) ELSE body

\* The scan: a CR becomes an LF and swallows the LF that follows it.
Scanned(text) ==
    FlattenSeq([i \in DOMAIN text |->
        IF text[i] = CR THEN <<LF>>
        ELSE IF text[i] = LF /\ i > 1 /\ text[i - 1] = CR THEN <<>>
        ELSE <<text[i]>>])

Canonicalize(text) ==
    LET body == Scanned(text)
    IN  IF body # <<>> /\ Last(body) # LF THEN Append(body, LF) ELSE body

BeginsWithMark(text) == text # <<>> /\ text[1] = BOM

-----------------------------------------------------------------------------
(* Physical lines *)

\* A line, its break included, ends at i.
Ends(text, i) ==
    \/ i = Len(text)
    \/ text[i] = LF
    \/ text[i] = CR /\ text[i + 1] # LF

LineStarts(text) == {i \in DOMAIN text : i = 1 \/ Ends(text, i - 1)}

LineEnd(text, start) == Min({i \in start..Len(text) : Ends(text, i)})

ContentEnd(text, start) ==
    Min({i \in start..(Len(text) + 1) : i = Len(text) + 1 \/ text[i] \in {CR, LF}})

Line(text, start) == SubSeq(text, start, ContentEnd(text, start) - 1)

-----------------------------------------------------------------------------
(* Markers *)

MarkerStarts(text) == {i \in DOMAIN text : text[i] \in Markers} \cap LineStarts(text)

\* An opening marker is its path alone, a closing one may carry a hash.
WellFormedMarker(line) ==
    \/ line[1] \in Openings \cup Closings /\ Len(line) = 1
    \/ line[1] \in Closings /\ Len(line) = 2 /\ line[2] \in HashTokens

NextMarker(text, start) == Min({i \in MarkerStarts(text) : i > start})

\* The fragment that an opening marker begins.
FragmentFrom(text, start) ==
    LET first == LineEnd(text, start) + 1
        close == NextMarker(text, start)
        line  == Line(text, close)
    IN  [path     |-> text[start][2],
         first    |-> first,
         close    |-> close,
         source   |-> SubSeq(text, first, close - 1),
         baseline |-> IF Len(line) = 2 THEN line[2][2] ELSE NoHash]

\* Markers come in pairs, unnested and with equal paths.
Parses(text) ==
    LET starts == MarkerStarts(text)
        closes(open, close) ==
            /\ open < close
            /\ text[close] = Closing(text[open][2])
            /\ \A i \in starts : ~(open < i /\ i < close)
    IN  /\ \A i \in starts : WellFormedMarker(Line(text, i))
        /\ \A i \in starts :
              IF text[i] \in Openings
                THEN \E j \in starts : closes(i, j)
                ELSE \E j \in starts : text[j] \in Openings /\ closes(j, i)
        /\ \A i \in starts :
              text[i] \in Openings => ~BeginsWithMark(FragmentFrom(text, i).source)

Fragments(text) ==
    {FragmentFrom(text, i) : i \in {j \in MarkerStarts(text) : text[j] \in Openings}}

Unique(fragments) == \A f, g \in fragments : f.path = g.path => f = g

\* What discovery and the check of the prepared document accept.
Valid(text) == Parses(text) /\ Unique(Fragments(text))

-----------------------------------------------------------------------------
(* Surgical rewriting *)

\* Mutant: the last character of the opening line goes with the old source.
EditedWithBreak(text, fragment) == (fragment.first - 1) .. (fragment.close - 1)

Edited(text, fragment) == fragment.first .. (fragment.close - 1)

\* update maps each path to rewrite to its new source, or to what it has.
NewSource(update, fragment) ==
    IF update[fragment.path] = NoFile THEN Canonicalize(fragment.source)
                                      ELSE update[fragment.path]

Rewrite(text, update) ==
    LET changed == {f \in Fragments(text) : f.path \in DOMAIN update}
        inserted(i) ==      \* before the symbol at i
            LET here == {f \in changed : f.first = i /\ update[f.path] # NoFile}
            IN  IF here = {} THEN <<>> ELSE update[(CHOOSE f \in here : TRUE).path]
        kept(i) ==
            IF \E f \in changed : update[f.path] # NoFile /\ i \in Edited(text, f)
              THEN <<>>
            ELSE IF \E f \in changed : i = f.close + 1 /\ f.baseline # NoHash
              THEN <<>>
            ELSE <<text[i]>>
        hash(i) ==          \* after the symbol at i
            LET here == {f \in changed : f.close = i}
            IN  IF here = {} THEN <<>>
                ELSE <<HashToken(Hash[NewSource(update, CHOOSE f \in here : TRUE)])>>
    IN  FlattenSeq([i \in DOMAIN text |-> inserted(i) \o kept(i) \o hash(i)])
=============================================================================
