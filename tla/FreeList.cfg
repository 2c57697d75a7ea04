\* Three nodes make a chain with a first, a middle and a last node; the fourth block
\* is the one with a stale word.
CONSTANTS
    Blocks = {b1, b2, b3, b4}
    Lists = {"slab", "shared"}
    Batches = {"batch1", "batch2"}
    Nil = Nil
SPECIFICATION ListSpec
INVARIANTS ChainsSound
PROPERTIES ImplementsLists
