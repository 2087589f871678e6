CONSTANTS
    Coroutines = {c1, c2, c3}
    Main = Main
    Values = {0, 1}
    NULL = NULL
SPECIFICATION Spec
INVARIANTS IdentityAgrees
PROPERTIES RefinesAbstractCoroutine
SYMMETRY Symmetry
