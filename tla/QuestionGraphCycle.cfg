\* Three prerequisites that form a cycle, two reviewers.
CONSTANTS
    keyA = keyA
    keyB = keyB
    keyC = keyC
    revA = revA
    revA2 = revA2
    revB = revB
    revC = revC
    ab = ab
    bc = bc
    ca = ca
    ba = ba
    rel = rel
    Questions = {keyA, keyB, keyC}
    Revisions = {revA, revB, revC}
    QuestionOf <- MCQuestionOf
    Edges = {ab, bc, ca}
    From <- MCFrom
    To <- MCTo
    Prerequisite <- MCPrerequisite
    Reviewers = {v1, v2}
    Publishers = {}
SPECIFICATION Spec
INVARIANT CyclesNeedOverlap
SYMMETRY Symmetry
