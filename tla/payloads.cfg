CONSTANTS
    Cause = {duplicate_key}
    None = None
SPECIFICATION Spec
INVARIANTS
    TypeOK
    PasswordsAreStrong
    AnswersAreEnvelopes
    CausesStayInside
    OwnPatchIsRestricted
