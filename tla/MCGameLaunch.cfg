SPECIFICATION LaunchSpec
CONSTANTS
    desk = desk
    p1 = p1
    p2 = p2
    w1 = w1
    g1 = g1
    g2 = g2
    app1 = app1
    NoDir = NoDir
    MaxDirs = 2
    Profiles <- MCProfiles
    Original = desk
    Defaults = Defaults
    NoProfile = NoProfile
    Processes <- MCProcesses
    Wrappers <- MCWrappers
    App = app1
    Ref <- MCRef
    Games <- MCGames
    Rule <- MCRule
    NoGame = NoGame
    Mixture = Mixture
    MaxTries = 1
    MaxUser = 1
    MaxGames = 2
    MaxOpens = 1
    MaxResets = 2
INVARIANTS StateFound PurgedMeansGone LockKeepsLaunchesOff PutBack ChoiceReturns
PROPERTY CommandRuns
CHECK_DEADLOCK FALSE
CONSTRAINT Bound
