CONSTANTS
    Models <- MCModels
    Drivers = {"run_v2", "run_all"}
    Fits = {"all", "part", "none"}
    Pids = {p1, p2}
    MaxFailures = 1
    MaxInterrupts = 1
SPECIFICATION FairSpec
INVARIANTS
    AnswersFromNamedModel
    AnswersFromGpu
PROPERTY EvaluatedOrLeftBehind
