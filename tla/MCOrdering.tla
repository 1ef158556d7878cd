----------------------------- MODULE MCOrdering -----------------------------
(***************************************************************************)
(* Instances of Ordering: validators a, b, c with stakes 2, 1, 1, so that a *)
(* quorum (3 of 4) is a and one other, and three small DAGs.  From round 3  *)
(* on (a new epoch) d has replaced b in the committee.                      *)
(***************************************************************************)
EXTENDS Ordering

\* References[s][r][v]: the authors whose round r-1 certificates v's round r
\* certificate references in network s; {} when v has no such certificate.
Table(a, b, c) == [a |-> a, b |-> b, c |-> c]
All == {"a", "b", "c"}

\* The round 0 leader b is referenced by a alone; round 1's leader b is not
\* directly committed but reached from round 2's.
Crossing == <<Table({"a", "b"}, {"a", "c"}, {"a", "c"}),
              Table({"a", "c"}, {}, {"a", "b"}),
              Table({"a", "c"}, {}, {"a", "c"})>>

\* b starts at round 1, and its chain is referenced by nobody else until
\* round 3.
Straggler == <<Table({"a", "c"}, {"a", "c"}, {"a", "c"}),
               Table({"a", "c"}, {"a", "b"}, {"a", "c"}),
               Table(All, {}, {"a", "c"}),
               Table({"a", "c"}, {}, {"a", "c"})>>

\* Without c's round 1 certificate, which may come last, round 0 is undecided
\* although round 1 is already directly committed.
LateSupport == <<Table({"a", "b"}, {"a", "c"}, {"a", "b"}),
                 Table({"a", "b"}, {"a", "b"}, {})>>

MCReferences == <<Crossing, Straggler, LateSupport>>

MCValidators == All \cup {"d"}
MCUnits == 1 .. 4
MCOwner == [r \in 0 .. 6 |-> IF r < 3 THEN <<"a", "a", "b", "c">> ELSE <<"a", "a", "d", "c">>]
MCLeader == [r \in 0 .. 6 |-> <<"b", "b", "c", "a", "d", "c", "a">>[r + 1]]

Exists(c) == IF c[2] = 0 THEN c # <<2, 0, "b">> ELSE MCReferences[c[1]][c[2]][c[3]] # {}
MCNetwork(s) == {c \in {s} \X (0 .. Len(MCReferences[s])) \X All : Exists(c)}
MCCert == UNION {MCNetwork(s) : s \in DOMAIN MCReferences}

MCRound == [c \in MCCert |-> c[2]]
MCAuthor == [c \in MCCert |-> c[3]]
MCParents == [c \in MCCert |->
    IF c[2] = 0 THEN {}
    ELSE {<<c[1], c[2] - 1, v>> : v \in MCReferences[c[1]][c[2]][c[3]]}]
MCRank == [c \in MCCert |-> 20 * c[1] + 4 * c[2] + (CASE c[3] = "a" -> 1 [] c[3] = "b" -> 2 [] OTHER -> 3)]

MCNetworks == {MCNetwork(s) : s \in DOMAIN MCReferences}

\* Certificates already in the log when the process starts: the rest arrive in
\* any order.
Loaded == <<{<<0, "a">>, <<0, "c">>, <<1, "c">>},
            {<<0, "a">>, <<0, "c">>, <<1, "a">>, <<1, "c">>, <<2, "a">>, <<2, "c">>},
            {<<0, "a">>, <<0, "c">>, <<1, "a">>}>>
MCLog == [n \in MCNetworks |-> {c \in n : <<c[2], c[3]>> \in Loaded[c[1]]}]
=============================================================================
