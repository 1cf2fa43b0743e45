SPECIFICATION LaunchSpec
CONSTANTS
    desk = desk
    p1 = p1
    p2 = p2
    w1 = w1
    g1 = g1
    g2 = g2
    app1 = app1
    NoDir = NoDir
    MaxDirs = 2
    Profiles <- MCProfiles
    Original = desk
    Defaults = Defaults
    NoProfile = NoProfile
    Processes <- MCProcesses
    Wrappers <- MCWrappers
    App = app1
    Ref <- MCRef
    Games <- MCGames
    Rule <- MCRule
    NoGame = NoGame
    Mixture = Mixture
    MaxTries = 1
    MaxUser = 0
    MaxGames = 0
    MaxOpens = 0
    MaxResets = 1
INVARIANT FailedPurgeKeepsState
CHECK_DEADLOCK FALSE
CONSTRAINT Bound
