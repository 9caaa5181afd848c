-------------------------------- MODULE Layout --------------------------------
(***************************************************************************)
(* The regions of an ADLS buffer that the source view reaches:             *)
(* src/src/adls.rs, Region and Layout.  A region is added only where the   *)
(* two regions next to it leave room, so that what a rewrite changes       *)
(* belongs to one structure.                                               *)
(***************************************************************************)
EXTENDS Integers

CanShare == {"vtable", "string"}

\* The regions that begin nearest to a place, before it and from it on.
LastBefore(regions, start) ==
    {p \in regions : p.start < start /\ \A q \in regions : q.start < start => q.start <= p.start}

FirstFrom(regions, start) ==
    {p \in regions : p.start >= start /\ \A q \in regions : q.start >= start => p.start <= q.start}

\* Mutant: only what follows is looked at.
FitsBefore(regions, new) ==
    /\ new.start < new.end
    /\ \/ new \in regions /\ new.kind \in CanShare
       \/ \A next \in FirstFrom(regions, new.start) : next.start >= new.end

\* Layout::add: the same shareable region again, or one clear of its neighbours.
Fits(regions, new) ==
    /\ new.start < new.end
    /\ \/ new \in regions /\ new.kind \in CanShare
       \/ /\ \A old \in regions : old.start # new.start
          /\ \A previous \in LastBefore(regions, new.start) : previous.end <= new.start
          /\ \A next \in FirstFrom(regions, new.start) : next.start >= new.end

Clear(a, b) == a.end <= b.start \/ b.end <= a.start

\* What a layout is for: any two regions are clear of each other.
Apart(regions) == \A a, b \in regions : a # b => Clear(a, b)
=============================================================================
