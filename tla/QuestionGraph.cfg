\* Two decisions on a related edge, two releases, and a question that moves.
CONSTANTS
    keyA = keyA
    keyB = keyB
    keyC = keyC
    revA = revA
    revA2 = revA2
    revB = revB
    revC = revC
    ab = ab
    bc = bc
    ca = ca
    ba = ba
    rel = rel
    Questions = {keyA, keyB}
    Revisions = {revA, revA2, revB}
    QuestionOf <- MCQuestionOf
    Edges = {rel}
    From <- MCFrom
    To <- MCTo
    Prerequisite <- MCPrerequisite
    Reviewers = {v1, v2}
    Publishers = {p1, p2}
SPECIFICATION Spec
INVARIANTS
    TypeOK
    ReleasedTogether
PROPERTY ImplementsRegister
SYMMETRY Symmetry
