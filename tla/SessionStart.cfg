\* three content roots, one of them empty for a template; one edit, one session
SPECIFICATION Spec
CONSTANTS
    Ids <- MCIds
    LoadableIds = {"demo", "archivist", "keeper", "rose-gallery", "rose_gallery", "pack", "pack-opening", "pack_opening", "pack-narrator"}
    SceneStem <- MCSceneStem
    Cards <- MCCards
    Listings <- MCListings
    Paths = {"lore.md", "map.png", "up.md"}
    TextPaths = {"lore.md", "up.md"}
    InsidePaths = {"lore.md", "map.png"}
    Absent = Absent
    Broken = Broken
    NoId = NoId
    AllWorlds = AllWorlds
    Sessions = {s1}
    Roots <- MCRoots
    TemplateSlug = "pack"
    TemplateScene = "pack-opening"
    TemplatePersona = "pack-narrator"
    TemplatePath = "lore.md"
    NoSession = NoSession
    MaxEdits = 1
INVARIANTS
    TypeOK
    ValidatedContentPlays
    StartedSessionPlays
    CallsFollowBinding
CHECK_DEADLOCK FALSE
