---------------------------- MODULE MCCoverage -----------------------------
(* Small instances of Coverage: two frameworks f and g with requirements r1,
   r2 and r3, a control c and a policy p; g may come to be called
   what f is. *)
EXTENDS Coverage, TLC
CONSTANTS f, g, r1, r2, r3, c, p
MCNames == [x \in {f, g} |-> IF x = f THEN "soc" ELSE "iso"]
L(src, type, dst) == [src |-> src, type |-> type, dst |-> dst]
Parented == {L(f, "parent_of", r1), L(f, "parent_of", r2), L(g, "parent_of", r3)}
\* f has a gap r1, mapped to r2 in f and to g's r3: r2 is implemented in the
\* first graph, r3 covered by a policy in the second.
MCInitLinks ==
    {Parented \cup {L(r2, "equivalent", r1), L(r1, "equivalent", r3)} \cup more :
        more \in {{L(r2, "implemented_by", c)}, {L(r3, "satisfied_by", p)}}}
MCUniverse ==
    {L(c, "satisfies", r1), L(c, "satisfies", r3), L(r3, "satisfied_by", p),
     L(r1, "equivalent", r3), L(g, "parent_of", r2)}
=============================================================================
