----------------------------- MODULE MCHandoffs -----------------------------
(* A small instance of Handoffs for TLC: stories A and B.                  *)
EXTENDS Handoffs

PrdOf(a, b) == <<[id |-> "A", acs |-> a], [id |-> "B", acs |-> b]>>

\* A sound PRD, one with a shared criterion, one with a story twice.
MCPrds == {PrdOf({"a"}, {"b"}), PrdOf({"a"}, {"a"}),
           <<[id |-> "A", acs |-> {"a"}], [id |-> "A", acs |-> {"b"}]>>}

MCBacklogs ==
    LET b == [ranked : {<<"A", "B">>}, ties : {FALSE},
              mvp : {<<"A">>, <<"B", "A">>}, cut : {{}, {"B"}}]
        ok == CHOOSE o \in b : o.cut = {}
    IN  b \cup {[ok EXCEPT !.ranked = <<"A">>], [ok EXCEPT !.ties = TRUE],
                [ok EXCEPT !.ranked = <<"A", "B", "A">>],
                [ok EXCEPT !.mvp = <<"A", "A">>], [ok EXCEPT !.cut = {"C"}]}

Item1(s) == [id |-> "w1", story |-> s]
Item2(s) == [id |-> "w2", story |-> s]
MCWbss ==
    {[items |-> i, sums |-> TRUE] :
       i \in {<<Item1("A")>>, <<Item1("A"), Item2("B")>>, <<Item1("A"), Item2("A")>>,
              <<Item1("A"), Item1("B")>>}}
    \cup {[items |-> <<Item1("A")>>, sums |-> FALSE]}

MCPlans == {<<"w1">>, <<"w1", "w2">>, <<"w2", "w1">>, <<"w1", "w1">>}

Part(n, s) == [name |-> n, stories |-> s]
MCArchs == {<<Part("core", {"A"})>>,
            <<Part("core", {"A"}), Part("web", {"A", "B"})>>,
            <<Part("web", {"A"}), Part("web", {"B"})>>}

Flow(f, s) == [id |-> f, stories |-> s]
MCUxs == {<<Flow("f", {"A"})>>, <<Flow("f", {"A"}), Flow("g", {"B"})>>,
          <<Flow("f", {"A"}), Flow("f", {"B"})>>}

Widget(f) == [name |-> "form", flows |-> f]
MCUis == {[components |-> <<Widget({"f"})>>, colors |-> TRUE],
          [components |-> <<Widget({"g"})>>, colors |-> TRUE],
          [components |-> <<Widget({"f"})>>, colors |-> FALSE]}

MCChanged == {{"a", "b"}, {"b"}}

\* A secret, a secret in a test file, and what only a tool would see.
MCFlaws == {"secret", "testSecret", "lint"}
MCTools == {{"lint"}}

\* Three tickets of a longer run before.
MCEarlier ==
    [t \in 1..3 |-> [item |-> IF t = 3 THEN "w3" ELSE "w1", story |-> "B",
                     acs |-> {"b"}, components |-> {}, design |-> {}]]
=============================================================================
