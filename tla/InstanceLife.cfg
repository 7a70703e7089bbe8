SPECIFICATION LifeSpec
CONSTANTS
    s1 = s1
    s2 = s2
    Scans <- MCScans
    Skill = {s1, s2}
    BuiltinSkills = {s2}
    Lists <- MCLists
    OwnTools = {"message"}
    Blacklist = {}
    TTL = 1
    MaxEdits = 2
    MaxBoots = 2
    MaxTurns = 2
CHECK_DEADLOCK FALSE
INVARIANT PluginsSound
INVARIANT SkillsFresh
PROPERTY SoulSound
