SPECIFICATION Spec
\* The command ends.
CHECK_DEADLOCK FALSE
CONSTANTS
    Skills <- TheSkills
    Versions = {1, 2}
    Keys <- TheKeys
    Root <- TheRoot
    DepLists <- TheLists
    Manifests <- TheManifests
    None = None
    app = app
    lib = lib
    util = util
    base = base
INVARIANTS TypeOK AcceptedIsAcyclic GraphIsClosure RefusalIsReal SubtreeIsComplete
PROPERTY ResolutionEnds
