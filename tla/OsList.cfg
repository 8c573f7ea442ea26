SPECIFICATION Spec
CONSTANTS
    Anchor = {h1, h2}
    Item = {e1, e2, e3, e4}
INVARIANTS Linked
PROPERTIES ImplementsLists
