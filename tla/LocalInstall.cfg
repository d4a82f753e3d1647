SPECIFICATION Spec
\* The commands are used up.
CHECK_DEADLOCK FALSE
CONSTANTS
    Skills <- TheSkills
    IdOf <- TheIdOf
    NameOf <- TheNameOf
    AuthorOf <- TheAuthorOf
    Listing <- TheListing
    DirOf <- TheDirOf
    Versions = {1, 2}
    Targets = {t1, t2}
    Source = Source
    Own = {lib}
    Dep <- TheDep
    Plan <- ThePlan
    Procs = {p1, p2}
    Requests <- Mixed
    MaxCalls = 3
    MaxBreaks = 1
    None = None
    Torn = Torn
    Mix <- TheMix
    mix1 = mix1
    mix2 = mix2
    app = app
    lib = lib
    base = base
    tool = tool
    t1 = t1
    t2 = t2
    p1 = p1
    p2 = p2
INVARIANTS TypeOK InstalledIsComplete ActsOnWhatWasAsked RefusedChangesNothing RemovesWhatNothingNeeds
PROPERTY OverwritesAreConfirmed
