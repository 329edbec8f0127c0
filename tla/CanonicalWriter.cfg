\* One question and two cards for it, from a vault file or from Payload.
CONSTANTS
    Questions = {q1}
    h1 = h1
    Hashes = {h1, h2}
    VaultRefs = {r1}
    CmsRef = cms
    NoRev = NoRev
    RuOf <- MCRuOf
    HasTopic <- MCHasTopic
    MaxAudit = 3
SPECIFICATION Spec
INVARIANTS
    TypeOK
    RevisionsAnnounced
    VisibleOnlyByRelease
    AuditMatchesOutbox
    PointsAtOwnRevision
PROPERTY ImplementsRegistry
