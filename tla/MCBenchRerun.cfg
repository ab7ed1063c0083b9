CONSTANTS
    Models <- MCModels
    Drivers = {"run_v2"}
    Fits = {"all", "part"}
    Pids = {p1, p2}
    MaxFailures = 0
    MaxInterrupts = 0
SPECIFICATION FairSpec
PROPERTY RerunResumes
