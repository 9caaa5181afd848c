--------------------------------- MODULE Adls ---------------------------------
(***************************************************************************)
(* Rewriting the sources of an ADLS buffer: Document::rewrite in           *)
(* src/src/adls.rs, one batch after another on the same document, starting *)
(* from what Audulus saved or from such a buffer with one half-word        *)
(* damaged.  A rewrite appends the new strings and redirects f10 fields;   *)
(* superseded strings stay until Audulus saves again.                      *)
(***************************************************************************)
EXTENDS SourceView, FiniteSetsExt

CONSTANTS
    Saved,      \* the buffers Audulus may have saved
    Damage,     \* what a damaged half-word may hold, as pairs of bytes
    Batches,    \* the batches of replacements, without their document ids
    MaxSize     \* MAX_REWRITTEN_ADLS_SIZE, scaled down

\* The limit is below what a distance in the buffer can say.
ASSUME MaxSizeAssumption == MaxSize \in Nat /\ MaxSize < Far
ASSUME SavedAssumption == \A saved \in Saved : saved \in Seq(Byte)
ASSUME DamageAssumption == Damage \subseteq Byte \X Byte
\* A text is UTF-8 and a handle names a pool index.
ASSUME BatchesAssumption ==
    \A batch \in Batches :
        batch \in Seq([index : Nat, own : BOOLEAN, text : {text \in Seq(Byte) : ValidUtf8(text)}])

VARIABLES
    buffer,     \* the document's bytes
    opened,     \* they parse: there is a Document to rewrite
    outcome,    \* how the last rewrite ended
    promised,   \* what each source node was last asked to read, by pool index
    kept        \* what all other fields of the document read at first

vars == <<buffer, opened, outcome, promised, kept>>

-----------------------------------------------------------------------------
(* Document::rewrite *)

\* A batch is a sequence of replacements: a handle's index, whether the handle
\* comes from this Document, and the text.
Unknown(batch) ==
    \E i \in DOMAIN batch : ~batch[i].own \/ batch[i].index \notin SourceIndexes(buffer)
Repeated(batch) ==
    \E i, j \in DOMAIN batch : i # j /\ batch[i].index = batch[j].index

Requested(batch, index) == (CHOOSE r \in Range(batch) : r.index = index).text

\* The new texts, by the index of the source node, where they change something.
Changes(batch) ==
    LET sources == Sources(buffer)
        changed == {index \in SourceIndexes(buffer) :
                       \E r \in Range(batch) : r.index = index /\ r.text # sources[index]}
    IN  [index \in changed |-> Requested(batch, index)]

Padding(size) == (4 - (size % 4)) % 4

\* Mutant: the plan forgets that strings are aligned.
PlannedSizeUnpadded(changes) ==
    LET planned[n \in 0 .. ObjectCount(buffer)] ==
            IF n = 0 THEN Len(buffer)
            ELSE IF n - 1 \in DOMAIN changes THEN planned[n - 1] + 4 + Len(changes[n - 1]) + 1
            ELSE planned[n - 1]
    IN  planned[ObjectCount(buffer)]

\* plan_rewrite_size, in the order of the pool; no size along the way is larger
\* than the last.
PlannedSize(changes) ==
    LET planned[n \in 0 .. ObjectCount(buffer)] ==
            IF n = 0 THEN Len(buffer)
            ELSE IF n - 1 \in DOMAIN changes
              THEN planned[n - 1] + Padding(planned[n - 1]) + 4 + Len(changes[n - 1]) + 1
            ELSE planned[n - 1]
    IN  planned[ObjectCount(buffer)]

Zeros(n) == [i \in 1 .. n |-> 0]
Bytes(number) == << number % 256, number \div 256, 0, 0 >>
Overwrite(bytes, l, word) ==
    [i \in DOMAIN bytes |-> IF i \in l + 1 .. l + 4 THEN word[i - l] ELSE bytes[i]]

\* Mutant: a text of the same length takes the place of the old one.
AppendInPlace(bytes, field, text) ==
    LET old == String(bytes, field)
        padded == bytes \o Zeros(Padding(Len(bytes)))
    IN  IF Len(text) = StringLength(bytes, field)
          THEN [i \in DOMAIN bytes |->
                   IF i - old - 4 \in DOMAIN text THEN text[i - old - 4] ELSE bytes[i]]
          ELSE Overwrite(padded \o Bytes(Len(text)) \o text \o << 0 >>,
                         field, Bytes(Len(padded) - field))

\* Mutant: strings are appended where the buffer ends.
AppendUnaligned(bytes, field, text) ==
    Overwrite(bytes \o Bytes(Len(text)) \o text \o << 0 >>, field, Bytes(Len(bytes) - field))

\* The string goes to the next aligned place and the field is pointed at it.
AppendString(bytes, field, text) ==
    LET padded == bytes \o Zeros(Padding(Len(bytes)))
    IN  Overwrite(padded \o Bytes(Len(text)) \o text \o << 0 >>,
                  field, Bytes(Len(padded) - field))

\* What has been built once the changes of the first n pool objects are made.
Built(changes) ==
    LET built[n \in 0 .. ObjectCount(buffer)] ==
            IF n = 0 THEN buffer
            ELSE IF n - 1 \in DOMAIN changes
              THEN AppendString(built[n - 1], SourceField(buffer, n - 1), changes[n - 1])
            ELSE built[n - 1]
    IN  built

Rewritten(changes) == Built(changes)[ObjectCount(buffer)]

TooLarge(changes) == Len(buffer) > MaxSize \/ PlannedSize(changes) > MaxSize

-----------------------------------------------------------------------------
(* A reader of the whole document, who knows what the source view does not *)

\* A field's inline bytes, up to where the next field or the end of the table
\* begins, unless it is an f10 that the source view reads.
Starts(bytes, t) ==
    {Entry(bytes, t, f) : f \in 0 .. FieldCount(bytes, t) - 1} \cup {ObjectLength(bytes, t)}
NextStart(bytes, t, start) == Min({s \in Starts(bytes, t) : s > start})

FieldBytes(bytes, t, f) ==
    IF ~Present(bytes, t, f) \/ (f = 10 /\ IsSource(bytes, t)) THEN << >>
    ELSE SubSeq(bytes, Field(bytes, t, f) + 1, t + NextStart(bytes, t, Entry(bytes, t, f)))

OtherFields(bytes) ==
    [index \in Objects(bytes) |->
        LET t == Object(bytes, index)
        IN  [f \in 0 .. FieldCount(bytes, t) - 1 |-> FieldBytes(bytes, t, f)]]

\* The nodes that are no source nodes but have a string in f10, where it does
\* not lie across the structures of the document.
Holders(bytes) ==
    {index \in Objects(bytes) :
        LET t == Object(bytes, index)
        IN  /\ TypeId(bytes, t) \notin NodeKind
            /\ Present(bytes, t, 10)
            /\ Has(bytes, Field(bytes, t, 10), 4)
            /\ StringFits(bytes, Field(bytes, t, 10))
            /\ \A region \in Range(Regions(bytes)) :
                  region.kind = "string" \/ Clear(StringRegion(bytes, Field(bytes, t, 10)), region)}

OtherStrings(bytes) ==
    [index \in Holders(bytes) |-> Text(bytes, Field(bytes, Object(bytes, index), 10))]

OtherData(bytes) == [fields |-> OtherFields(bytes), strings |-> OtherStrings(bytes)]

-----------------------------------------------------------------------------
(* The document's life *)

\* One half-word of the saved document is not what Audulus wrote; what the
\* document reads then is what must be kept.
DamageHalfWord ==
    /\ outcome = "saved"
    /\ \E l \in {2 * h : h \in 0 .. Len(buffer) \div 2 - 1}, pair \in Damage :
          buffer' = [buffer EXCEPT ![l + 1] = pair[1], ![l + 2] = pair[2]]
    /\ outcome' = "damaged"
    /\ opened' = Parses(buffer')
    /\ IF opened'
         THEN promised' = Sources(buffer') /\ kept' = OtherData(buffer')
         ELSE UNCHANGED <<promised, kept>>

\* The batch is not for this Document: a handle is unknown or occurs twice.
RefuseHandles(batch) ==
    /\ Unknown(batch) \/ Repeated(batch)
    /\ outcome' = "kept"
    /\ UNCHANGED <<buffer, opened, promised, kept>>

LeaveUnchanged(changes) ==
    /\ DOMAIN changes = {}
    /\ outcome' = "kept"
    /\ UNCHANGED <<buffer, opened, promised, kept>>

RefuseSize(changes) ==
    /\ DOMAIN changes # {} /\ TooLarge(changes)
    /\ outcome' = "kept"
    /\ UNCHANGED <<buffer, opened, promised, kept>>

\* What was built is parsed again, and is not given out if it does not parse.
Rewrite(changes) ==
    /\ DOMAIN changes # {} /\ ~TooLarge(changes)
    /\ LET built == Rewritten(changes)
       IN  IF Parses(built)
             THEN /\ outcome' = "rewritten"
                  /\ buffer' = built
                  /\ promised' = [index \in DOMAIN promised |->
                                     IF index \in DOMAIN changes THEN changes[index]
                                     ELSE promised[index]]
             ELSE /\ outcome' = "malformed"
                  /\ UNCHANGED <<buffer, promised>>
    /\ UNCHANGED <<opened, kept>>

Init ==
    /\ buffer \in Saved
    /\ outcome = "saved"
    /\ opened = Parses(buffer)
    /\ promised = Sources(buffer)
    /\ kept = OtherData(buffer)

Next ==
    \/ DamageHalfWord
    \/ /\ opened
       /\ \E batch \in Batches :
             \/ RefuseHandles(batch)
             \/ /\ ~Unknown(batch) /\ ~Repeated(batch)
                /\ LET changes == Changes(batch)
                   IN  LeaveUnchanged(changes) \/ RefuseSize(changes) \/ Rewrite(changes)

Spec == Init /\ [][Next]_vars

-----------------------------------------------------------------------------
(* Properties *)

\* Every source node reads the text it was last asked to hold, and the others
\* the text they had, however often the document is rewritten and whatever
\* strings or vtables they share (Document::rewrite, Document::parse).
ReadBack == opened => Sources(buffer) = promised

\* No rewrite changes what the rest of the document reads: the inline bytes of
\* every other field and the strings of nodes that hold no source.  The parser
\* must refuse each document where a rewrite would (adls.rs, Table::field:
\* "Reject shared inline storage").
OtherDataIsKept ==
    opened =>
        /\ OtherFields(buffer) = kept.fields
        /\ \A index \in DOMAIN kept.strings :
              /\ index \in Holders(buffer)
              /\ OtherStrings(buffer)[index] = kept.strings[index]

\* Looking at the two neighbours is enough: Layout accepts the regions of a
\* document exactly when no two of them meet, save a vtable or a string that is
\* reached again as a whole (Layout::add).
LayoutIsDisjoint ==
    Structured(buffer) =>
        LET regions == Regions(buffer)
        IN  LaidOut(regions) <=>
                \A i, j \in DOMAIN regions :
                    i < j =>
                        \/ Clear(regions[i], regions[j])
                        \/ regions[i] = regions[j] /\ regions[i].kind \in CanShare

\* What a rewrite has built is never refused by the parse that follows it
\* (Document::rewrite: "a successful rewrite is guaranteed to be consumable by
\* this same narrow view").
ReparseAccepts == outcome # "malformed"

\* The planned size is the size of what is built, so that a batch is refused
\* for its size exactly when it would pass the limit (plan_rewrite_size and the
\* debug assertion in Document::rewrite).
PlanIsExact ==
    opened =>
        \A batch \in Batches :
            LET changes == Changes(batch)
            IN  ~Unknown(batch) /\ ~Repeated(batch) /\ DOMAIN changes # {} =>
                    (TooLarge(changes) <=> Len(Rewritten(changes)) > MaxSize)
=============================================================================
