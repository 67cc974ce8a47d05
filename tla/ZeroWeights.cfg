CONSTANTS
    Cases = {c1, c2}
    Runs = {r1, r2}
    Contents <- MCContents
    MaxEdits = 2
    People = {p1, p2, p3}
    Admins = {p3}
    Dims = {d1, d2}
    Levels = {l1, l2}
    NoLevel = nl
    Nobody = nb
    MaxWrites = 2
    Registrars = {p1}
    Manifests <- MCManifests
    Entered <- MCEntered
    MaxRows = 3
    Contracts <- MCContracts
    Inputs <- MCInputs
    Secrets <- MCSecrets
    Answers <- MCAnswers
    Offered <- MCOffered
    Exchanges <- MCExchanges
    Questions <- AllQuestions
    Words = {w1, w2, w3}
    ToolNames = {t1, t2}
    Shares <- MCShares
    Tasks = {k1, k2}
    Prompts <- MCPrompts
    Models = {m1, m2}
    Verdicts <- MCVerdicts
    Repeat = 2
    MaxRetries = 2
    MaxEntries = 1
    NoModel = nm
    MaxChanges = 3
    Scale = 300
    NaThreshold = 30
    Suites <- MCSuites
    WeightTables <- MCWeightTables
    TargetTables <- MCTargetTables
    WeightPuts <- MCWeightPuts
    TargetPuts <- MCTargetPuts
    MaxTuning = 2
SPECIFICATION Spec
INVARIANT LegalWeightsAreScored
CHECK_DEADLOCK FALSE
