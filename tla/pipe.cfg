SPECIFICATION Spec
CONSTANTS
    h1 = h1
    h2 = h2
    h3 = h3
    main = main
    dev = dev
    src = src
    doc = doc
    Hooks = {h1, h2, h3}
    Settings <- MCSettings
    Pipelines = {1, 2}
    Definition <- MCDefinition
    Tasks = {1}
    Branches = {main, dev}
    Files = {src, doc}
    None = None
CHECK_DEADLOCK FALSE
INVARIANTS OwnDefinitionsUnlessCrossed OneRunUnlessMissed SomeRunSurvives
