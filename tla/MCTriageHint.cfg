SPECIFICATION Spec
CONSTANTS
    web = web
    db = db
    app = app
    sidecar = sidecar
    OOMKilled = OOMKilled
    None = None
    Names = {app, sidecar}
    Parts <- MCParts
    Templates <- MCTemplates
    Standing <- MCStanding
    Working <- MCWorking
    MaxRollouts = 4
    FailureTypes = {OOMKilled}
    Answers <- MCAnswers
INVARIANTS HintHasRun
