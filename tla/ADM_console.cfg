\* Two commands about the middlewares of one area, or about one user.
SPECIFICATION Spec
CONSTANTS
    Requests = {r1, r2}
    Earlier = earlier
    None = None
    Names <- TwoNames
    MaxGiven = 2
CHECK_DEADLOCK FALSE
INVARIANTS
    PipelineLoadsWhatWasMeant
    DoneIsReported
    PackageComesWhole
PROPERTIES
    AnswersAreCurrent
    SurprisesOverlap
    LostUpdatesOverlap
    ExportsAreComplete
