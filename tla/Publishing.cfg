\* Two people, two skills, lib without a SKILL.md at first.
CONSTANTS
    None = None
    Torn = Torn
    ann = ann
    bob = bob
    app = app
    lib = lib
    dev = dev
    People = {ann, bob}
    Skills = {app, lib}
    Aliases = {dev}
    Pool <- TypedVersions
    FirstVersions <- FirstOnes
    FirstEntries <- FirstFiles
    Published <- AlreadyThere
    MaxEdits = 2
    MaxBuilds = 1
    MaxBuildBreaks = 1
    MaxCommands = 2
    MaxLost = 1
    Exact = 16
    Printed = 64
    MaxDigits = 1
SPECIFICATION Spec
SYMMETRY People2
INVARIANTS TypeOK FilesAgree PublishedIsInstallable
PROPERTIES SuccessIsComplete UpdatesGoForward
CHECK_DEADLOCK FALSE
