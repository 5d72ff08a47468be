\* Every small board.  Slugs of at most four characters, so that names of five are
\* cut.
SPECIFICATION Spec
CONSTANTS
    Boards <- SmallBoards
    maxSlugifiedLen = 4
    Dash = Dash
    NoRating = NoRating
    NoView = NoView
INVARIANTS
    EveryProductShownOnce
    AnchorsAreUnique
    FactsStayWithTheirProduct
    KeysAppearInOrder
    StarsAreNearest
    SlugIsClean
    SlugKeepsTheName
