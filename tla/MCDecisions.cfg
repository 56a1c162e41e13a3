SPECIFICATION Spec
INVARIANTS
    ChangesAreTold
    ImpactIsEarned
    PicturesAgree
    InvestigationsAreGrounded
CHECK_DEADLOCK FALSE
