----------------------------- MODULE MCFindings -----------------------------
(* Findings with two programs, one of which Windows spells in two ways, and *)
(* four processes; two rows are marked for each measure.                    *)
EXTENDS Findings

CONSTANTS a, b, n1, n2

MCExes     == {a, b}
MCRawPaths == {"a", "A", "b", NoPath}
MCNormal   == [q \in MCRawPaths |-> IF q \in {"a", "A"} THEN a ELSE IF q = "b" THEN b ELSE NoPath]

Entry(x, s) == [exe |-> x, shape |-> s]

\* Two entries of one key, the first of any shape.
MCRegistries ==
    {[NoEntries EXCEPT ![p] = <<Entry(a, s), Entry(b, "plain")>>] : p \in Places, s \in Shapes}

MCSnapshots ==
    {[records |-> r, allowed |-> {}] : r \in {[n \in {} |-> {}], [n \in {n1} |-> {a}]}}
      \cup {[records |-> [n \in {n1} |-> {}], allowed |-> {b}]}

P(n, q, acc, c, m, d, parent) ==
    [name |-> n, path |-> q, accessible |-> acc, cpu |-> c, memory |-> m, disk |-> d,
     parent |-> parent]

Quiet(q, n) == P(n, q, TRUE, 0, 0, 0, {})

MCFirstScans ==
    {[processes |-> ps, restarting |-> {}] : ps \in
       {<<Quiet("a", n1), Quiet("A", n1), Quiet("b", n2)>>,
        <<Quiet("a", n1), Quiet("b", n1)>>,
        <<Quiet(NoPath, n1), P(n2, NoPath, FALSE, 0, 0, 0, {})>>}}

Layouts == {<<"a", "a", "a", "a">>, <<"a", "a", "A", "a">>, <<"b", "a", "b", "b">>,
            <<"a", NoPath, "b", "A">>}

MCLaterScans ==
    {[processes |-> [i \in 1 .. 4 |->
         P(IF i = 4 THEN n2 ELSE n1, l[i], i # 3 \/ l[i] # "b", cpu[i],
           mem[i], mem[5 - i], IF i = 1 THEN {"ParentEnded"} ELSE {})],
      restarting |-> IF mem[4] = 0 THEN {} ELSE {"b"}] :
       l \in Layouts, cpu \in [1 .. 4 -> 0 .. 2], mem \in {<<0, 0, 0, 0>>, <<0, 1, 3, 3>>}}
=============================================================================
