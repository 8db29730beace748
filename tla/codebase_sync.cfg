\* Two tool calls, or one and an operator's command; the source changes once.
CONSTANTS
    s1 = s1  s2 = s2  server = server  command = command
    Syncs = {s1, s2}
    Server = server
    Placements <- MCPlacements
    Selections <- MCSelections
    Records <- MCRecords
    MaxSource = 1
    Torn = Torn  NoManifest = NoManifest  NoCache = NoCache  Nobody = Nobody
SPECIFICATION Spec
INVARIANTS CatalogueBacked ManifestTruthful
PROPERTIES DryRunWritesNothing SyncsEnd
CHECK_DEADLOCK FALSE
