----------------------------- MODULE MCOverlay -----------------------------
EXTENDS FrothyOverlay

\* f arms itself, or is a shape; g calls f, or is a record of the shape.
Crossed == {<<"f", <<"timer", "f">>>>, <<"f", <<"shape">>>>,
            <<"g", <<"fn", "f", "a">>>>, <<"g", <<"record", "f", "a">>>>}

\* f calls g, which is cells.
Celled == {<<"f", <<"fn", "g", "b">>>>, <<"g", <<"cells">>>>}

\* f calls g; g is a declaration to set later.
Declared == {<<"f", <<"fn", "g", "a">>>>, <<"g", <<"nil">>>>}

Faults == {<<"fault">>}
FaultsAndHandles == {<<"fault">>, <<"handle">>}
NoValues == {}
Writes == {<<"text", "b">>}

\* The last answer decides nothing.
Board == <<rt, mode, flash>>
=============================================================================
