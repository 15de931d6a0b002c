---------------------------- MODULE MCListView ----------------------------
(* Three processes, two of one name; what is odd ranks first.  The first one
   changes in everything, the second comes and goes. *)
EXTENDS ListView

MCNameOf == [k \in Keys |-> IF k = 2 THEN 1 ELSE 2]
MCRankOf == [e \in Evidences |-> IF e = "odd" THEN 0 ELSE 1]
MCFilters == {Evidences, {"odd"}}
MCQueries == {Everything, [keys |-> {3}, labels |-> {"odd"}]}

Row(k, e, p, n) == [key |-> k, evidence |-> e, paused |-> p, load |-> n]

First  == {<<>>, <<Row(1, "quiet", TRUE, 0)>>}
            \cup {<<Row(1, e, FALSE, n)>> : e \in Evidences, n \in Loads}
Second == {<<>>, <<Row(2, "quiet", FALSE, 0)>>}
Third  == {<<Row(3, "quiet", FALSE, n)>> : n \in Loads}

MCScans == {a \o b \o c : a \in First, b \in Second, c \in Third}
=============================================================================
