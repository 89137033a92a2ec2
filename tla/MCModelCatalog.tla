--------------------------- MODULE MCModelCatalog ---------------------------
(* ModelCatalog for TLC: two models, one metadata field, two values.       *)
EXTENDS ModelCatalog, TLC

CONSTANTS m1, m2, small, large

Field == "context_window"

Item(v) == [f \in Fields |-> v]

Entry(id, v) == [id |-> id, md |-> Item(v)]

\* An empty list, one whose item says nothing, one with both models, one that
\* repeats a model and one with an item that does not parse.
MCAnswers == {<<>>, <<Entry(m1, Unknown)>>, <<Entry(m1, small), Entry(m2, small)>>,
              <<Entry(m1, small), Entry(m1, large)>>,
              <<[id |-> m1, md |-> Malformed]>>}

\* Presets name m1 only: with a value, or with an unknown one.
MCPresetRows == {m1 :> Item(large) @@ m2 :> NoPreset,
                 m1 :> Item(Unknown) @@ m2 :> NoPreset}

\* No override, a value, and an explicit null.
MCOverrides == {<<>>, Field :> small, Field :> Unknown}

MCFields == {Field}

Symmetry == Permutations(Calls)

=============================================================================
