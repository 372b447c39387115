SPECIFICATION Spec
CONSTANTS
    Gaps = {"integral"}
INVARIANTS
    MirrorsEventJs
