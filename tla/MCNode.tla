------------------------------- MODULE MCNode -------------------------------
(* Instances of Node for TLC: fragment 1 in every form, fragment 2 in one. *)
EXTENDS Node

CONSTANT x      \* any text of a line that is no marker

Plain(n) == UNION {[1..k -> {x, CR, LF}] : k \in 0..n}

\* Lines that look like markers, and texts that begin with a byte-order mark.
Awkward ==
    {<<Closing(1), LF, Opening(1), LF>>, <<Closing(1), LF, Opening(2), LF>>,
     <<Opening(2), LF, Closing(2), LF>>, <<x, Opening(2), LF>>, <<Damaged, LF>>, <<BOM, LF>>}

Breaks == {<<LF>>, <<CR>>, <<CR, LF>>}

Stale == <<x, LF>>

MCSource == {Canonicalize(t) : t \in Plain(2) \cup Awkward \cup {<<x, x>>}}
MCHash == [s \in MCSource |-> s]

\* The sources between markers: empty, or broken off before the closing one.
Bodies == {t \in Plain(2) : t = <<>> \/ Last(t) # x} \cup Awkward \cup {<<x>>}

Tokens(body) ==
    {<<>>, <<HashToken(Stale)>>, <<HashToken(Canonicalize(body))>>}

First == UNION {{<<Opening(1)>> \o break \o body \o <<Closing(1)>> \o token :
                    token \in Tokens(body), break \in Breaks}
                : body \in Bodies}
Second == <<x, Opening(1), LF, Opening(2), LF, x, CR, Closing(2), HashToken(Stale), CR, x>>

MCNodeTexts == {t \o <<CR>> \o Second : t \in First}
                  \cup {<<Opening(1), LF, x, LF, Closing(1)>>, <<Opening(1), x>>,
                        <<Closing(1)>>, <<BOM, LF>> \o Second}
MCFileTexts ==
    [p \in {1, 2} |-> IF p = 1 THEN Plain(1) \cup {<<CR, LF>>, <<LF, x>>, <<x, CR>>} \cup Awkward
                                ELSE {<<x, x>>}]

\* For the joined line breaks, lone CRs before an embedded source only.
JoinTexts == {<<Opening(1), CR>> \o body \o <<Closing(1), HashToken(Stale)>> :
                  body \in Plain(2)}
=============================================================================
