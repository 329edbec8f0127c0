\* Two imports of a card and its semantic neighbour at once, one reviewer.
CONSTANTS
    cardA = cardA
    cardB = cardB
    cardC = cardC
    keyA = keyA
    keyB = keyB
    keyC = keyC
    Cards = {cardA, cardC}
    Questions = {keyA, keyC}
    QuestionOf <- MCQuestionOf
    NoCard = NoCard
    Exact <- MCExact
    Lexical <- MCLexical
    Semantic <- MCSemantic
    Importers = {i1, i2}
    Reviewers = {v1}
SPECIFICATION Spec
INVARIANTS
    TypeOK
    ReleaseBackedByReview
    StageTellsDecisions
SYMMETRY Symmetry
