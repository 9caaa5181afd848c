------------------------------- MODULE MCVolume -------------------------------
(* Instances of Volume for TLC: up to three names at the top, each with f. *)
EXTENDS Volume

CONSTANTS Links, Leaves

MCFold == [n \in {"A", "a", "b", "f", "z"} |-> IF n = "A" THEN "a" ELSE n]
MCPathOrder == << <<"A", "f">>, <<"a">>, <<"a", "f">>, <<"b", "f">>, <<"z", "f">> >>
PlainPathOrder == << <<"a", "f">>, <<"b", "f">>, <<"z", "f">> >>

File(file) == [kind |-> "file", file |-> file]
Link(target) == [kind |-> "link", target |-> target]

\* What there may be at a name: nothing, a file, a link, a directory without f
\* or one where f is a file of its own, a file that others share, or a link.
At(name) ==
    {<< >>, <<name>> :> File(<<name>>), <<name>> :> Directory}
        \cup {<<name>> :> Link(target) : target \in Links}
        \cup {(<<name>> :> Directory) @@ (<<name, "f">> :> leaf) :
                 leaf \in Leaves \cup {File(<<name, "f">>)}}

MCTrees == {x @@ y @@ z : x \in At("a"), y \in At("b"), z \in At("z")}

PlainLinks == {<<"a">>, <<"b">>, <<"z">>, <<"z", "f">>, <<"..">>}
SomeLeaves == {File(<<"shared">>), File(DocumentFile), Link(<<"..", "b", "f">>)}

UpwardLinks == {<<"z", "..", "b">>}
NoLeaves == {}
=============================================================================
