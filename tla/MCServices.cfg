SPECIFICATION SSpec
CONSTANTS
    Topics = {t1, t2}
    Subscribers = {s1, s2}
    Messages = {m1, m2}
    MaxDepth = 3
    Agents = {"coder", "reviewer", "fixer"}
    Timeout = 1
    Never = Never
    Specs <- TaskSpecs
    Fixer = "fixer"
    Callers = {c1, c2}
    Demo = demo
    NoTask = NoTask
    MaxCalls = 3
    Calls = {l1, l2}
    Configs <- AllConfigs
    Times = {0, 1, 2}
    Types = {"task_completed", "recovery", "tool"}
    Texts = {"RECOVERED", "unknown"}
    NoText = ""
    MaxLen = 3
SYMMETRY MCSymmetry
INVARIANTS SubscribersAgree EvidenceHonest BilledOnce ReplayCorrect
PROPERTIES ImplementsDelivery SpawnUndoesNothing
CHECK_DEADLOCK FALSE
