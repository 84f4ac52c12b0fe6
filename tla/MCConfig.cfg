SPECIFICATION ConfigSpec
CONSTANTS
    shell = shell
    terminal = terminal
    absent = absent
    torn = torn
    mixed = mixed
    nothing = nothing
    Absent = absent
    Torn = torn
    Mixed = mixed
    Nothing = nothing
    MaxCrashes = 1
    Procs <- MCProcs
    Shells <- MCShells
    Choices <- MCChoices
INVARIANTS ConfigTypeOK OneChoice ResetRepairs StaleOnlyByOthers
PROPERTIES EditsSurvive
