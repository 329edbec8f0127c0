\* Two commands at once, a station bound in two roles, a mapping that moves, a question that comes and goes.
CONSTANTS
    key = key
    revA = revA
    primary = primary
    support = support
    foreign = foreign
    station = station
    other = other
    path = path
    away = away
    Questions = {key}
    Revisions = {revA}
    QuestionOf <- MCQuestionOf
    Bindings = {primary, support, foreign}
    RevisionOf <- MCRevisionOf
    SlotOf <- MCSlotOf
    NoPath = NoPath
    Paths = {path, away}
    PathOf <- MCPathOf
    Mappings <- MCMappings
    Neighbours = {support}
    Edits = {{foreign}}
    First <- MCFirst
    Operators = {o1, o2}
    MaxReleases = 2
SPECIFICATION Spec
INVARIANTS
    TypeOK
    ShownWasDecided
    ShownWasMapped
PROPERTY ImplementsProjection
SYMMETRY Symmetry
