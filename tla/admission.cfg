\* Two commands over a file that may be rewritten once.
CONSTANTS
    Target = 3
    MaxTokens = 4
    Overlap = 1
    MaxChunks = 6
    MaxSourceBytes = 2
    MinSourceBytes = 1
    MaxCanonicalBytes = 2
    MaxPii = 2
    Sources <- MCSources
    Commands <- MCCommands
    Setups = {"ok", "DATABASE_NOT_CONFIGURED", "ARTIFACT_ROOT_REFUSED", "MODEL_UNAVAILABLE",
              "SETTINGS_INVALID"}
    Unprintable <- MCUnprintable
    MaxCommands = 2
    MaxEdits = 1
SPECIFICATION AdmissionSpec
INVARIANTS ChunksCover StoredIsVetted DryRunPredicts ExitTruthful
\* The commands and the edits of the file are bounded.
CHECK_DEADLOCK FALSE
