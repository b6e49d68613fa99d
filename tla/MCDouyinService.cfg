CONSTANTS
    Recipients = {r1}
    Comments = {k1}
    Author <- MCAuthor
    Models = {m1}
    Callers <- MCCallers
    MaxRevision = 1
    Slots = {c1, c2}
    Kinds = {"acquire", "monitor", "pause-acquisition", "pause-monitor", "profile", "model", "review", "pause", "watch", "preview", "start", "analyze"}
    MaxPerDay = 1
    MaxCommands = 2
    MaxLogins = 2
    MaxDays = 2
SPECIFICATION Spec
SYMMETRY MCSymmetry
INVARIANTS
    MessagesKept
    InviteHasEvidence
    OptOutRespected
    RunsUnderItsLogin
PROPERTIES
    DenialIsFinal
    SendsAsPromised
CHECK_DEADLOCK FALSE
