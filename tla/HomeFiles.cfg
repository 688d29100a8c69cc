CONSTANTS
    p1 = p1
    p2 = p2
    q1 = q1
    q2 = q2
    Descendants = {"d1"}
    Deadline = 2
    PipeLimit = 1
    Lines <- SomeLines
    SemanticLimit = 7
    TransportLimit = 9
    Requests = {"", "m1"}
    Sealers = {p1, p2}
    Blocks = {"x", "y"}
    MaxBytes = 1
    MaxWrites = 2
    MaxOutages = 1
    NoObject = NoObject
    WorkFiles = {"a", "n", "q"}
    BaseFiles = {"a"}
    IgnoredFiles = {}
    AskedFiles = {"q"}
    MaxNow = 1
    MaxWork = 2
    Errors <- SomeErrors
    Recorders = {p1, p2}
    Filers = {q1, q2}
    MaxFailures = 3
    MinCount = 1
    Milestones = {2, 4}
    MaxDeaths = 1
    NoProcess = NoProcess
    Commands = {p1, p2}
    Executables = {"b1", "b2"}
    OwnLines <- TwoLines
    Wrappable <- Plain
    MaxStarts = 3
    MaxEdits = 2
    MaxKills = 1
    Absent = Absent
    Installers = {p1, p2}
    Releases = {"b1", "b2"}
    OwnHooks = {"u1"}
    MaxSetups = 3
    MaxChanges = 1
    MaxFaults = 1
    Missing = Missing
    HeadCommands = {p1, p2}
    Others = {"s1"}
    MaxAge = 1
    RepeatAfter = 2
    MaxTime = 2
    MaxReports = 3
    MaxLosses = 1
    Never = Never
SPECIFICATION HomeSpec
 
 
PROPERTY EditedSkillStays
SYMMETRY Processes
CHECK_DEADLOCK FALSE
