\* Every column against every other, tables with a foreign key, an index and a
\* sequence, a trigger with its routine and a view, a view of a view, a unique
\* key and a serial column.
SPECIFICATION Spec
CONSTANTS
    Names <- TheNames
    Source = "src"
    Target = "dst"
    Pairs <- SomePairs
INVARIANTS
    ScriptRuns
    ScriptMatches
    DataLossIsAnnounced
