---------------------------- MODULE InstanceLife ----------------------------
(***************************************************************************)
(* The life of one instance: NanobeeKernel.boot (soul guard, plugins,      *)
(* tools), the prompt and the tools of its turns, and its end, by          *)
(* shutdown or by a crash between any two steps.  Meanwhile administrators *)
(* and users edit the files it reads: core.md, the skills of the instance  *)
(* and of the user, and identity.yaml.                                     *)
(***************************************************************************)
EXTENDS PluginSet, FiniteSetsExt

CONSTANTS Scans,          \* what the plugin directories may hold
          Skill, BuiltinSkills,
          Lists,          \* [white, black]: what identity.yaml may hold
          OwnTools,       \* tools of the framework
          Blacklist,      \* agents.defaults.blacklist
          TTL,            \* _CACHE_TTL, in ticks
          MaxEdits, MaxBoots, MaxTurns    \* bounds

ASSUME InstanceAssumption == 
    /\ BuiltinSkills \subseteq Skill
    /\ TTL \in Nat /\ MaxEdits \in Nat /\ MaxBoots \in Nat /\ MaxTurns \in Nat

-----------------------------------------------------------------------------
(* Where the system prompt of a turn comes from (context_pipeline.py and   *)
(* skill_manager.py).  A version of a skill is the moment it was written,  *)
(* 0 where there is none; the time of a directory is that of the newest    *)
(* file in it.                                                             *)
NewestOf(skills) == Max({skills[s] : s \in DOMAIN skills} \cup {0})
Has(skills) == {s \in DOMAIN skills : skills[s] # 0}

(* SkillsLoader: the list of a directory is kept for TTL, unless the time   *)
(* of the directory changes; the file that goes need not be the newest.    *)
NoCache == [known |-> FALSE, list |-> [s \in Skill |-> 0], age |-> 0, mtime |-> 0]
Slip_CacheExpired(cache, ttl) == FALSE
CacheExpired(cache, ttl) == cache.age > ttl
CacheValid(cache, disk, ttl) == 
    cache.known /\ ~CacheExpired(cache, ttl) /\ cache.mtime = NewestOf(disk)
Cached(list, disk) == [known |-> TRUE, list |-> list, age |-> 0, mtime |-> NewestOf(disk)]

(* SkillStage: the user's own skills first; then those of the package,      *)
(* before those of the instance.                                           *)
Chosen(user, builtin, instance) == 
    [s \in Has(user) \cup builtin \cup Has(instance) |-> 
        IF s \in Has(user) THEN [layer |-> "user", version |-> user[s]]
        ELSE IF s \in builtin THEN [layer |-> "builtin", version |-> 0]
        ELSE [layer |-> "instance", version |-> instance[s]]]

(* The sections of the prompt in their order; the guard's text is last.     *)
Section(kind, there) == IF there THEN <<kind>> ELSE <<>>
Prompt(core, skills, plugins) == 
    Section("core", core # "empty") \o <<"identity">> \o Section("skills", DOMAIN skills # {})
    \o Section("plugins", \E i \in DOMAIN plugins : plugins[i].speaks) \o <<"guard">>

-----------------------------------------------------------------------------
VARIABLES scan,           \* the plugin directories
          phase, boots,
          core, hash,     \* core.md and core.md.sha256
          found,          \* the core whose hash a check has computed
          accepted,       \* the core that passed the last complete check
          plugins,        \* PluginManager._plugins
          on,             \* those that are enabled
          registry,       \* ToolRegistry._tools
          disk,           \* [layer -> [Skill -> version]]
          edits,
          cache,          \* SkillsLoader, of the instance's directory
          recent,         \* the instance's skills on disk, by age in ticks
          turns, turn,    \* the turn being built
          listsFile, lists   \* identity.yaml, and UserContext._metadata

soulVars == <<core, hash, found, accepted>>
kernelVars == <<plugins, on, registry>>
turnVars == <<turns, turn>>
userVars == <<listsFile, lists>>
skillVars == <<disk, cache, recent>>
lifeVars == <<scan, phase, boots, soulVars, kernelVars, edits, skillVars, turnVars, userVars>>

Cores == {"default", "own", "other"}
NoFile == "none"
NoTurn == [at |-> "idle", list |-> [s \in Skill |-> 0], skills |-> <<>>, prompt |-> <<>>, tools |-> {}]
NoLists == [white |-> {}, black |-> {"unread"}]
Layers == {"instance", "user"}

LifeTypeOK == 
    /\ phase \in {"down", "reading", "comparing", "hashing", "checked", "loaded", "up",
                 "missing", "refused", "failed"}
    /\ core \in Cores \cup {NoFile} /\ hash \in Cores \cup {NoFile, "torn"}
    /\ {found, accepted} \subseteq Cores \cup {NoFile}
    /\ boots \in 0 .. MaxBoots /\ edits \in 0 .. MaxEdits /\ turns \in 0 .. MaxTurns
    /\ \A l \in Layers : disk[l] \in [Skill -> 0 .. MaxEdits]
    /\ cache.list \in [Skill -> 0 .. MaxEdits] /\ cache.age \in 0 .. TTL + 1
    /\ turn.at \in {"idle", "stamp", "built", "stamp again"}
    /\ \A i \in DOMAIN on : \E j \in DOMAIN plugins : plugins[j] = on[i]
    /\ turn.at = "built" => Head(turn.prompt) = "core" /\ Last(turn.prompt) = "guard"

LifeInit == 
    /\ scan \in Scans
    /\ phase = "down" /\ boots = 0
    /\ core = NoFile /\ hash = NoFile /\ found = NoFile /\ accepted = NoFile
    /\ plugins = <<>> /\ on = <<>> /\ registry = <<>>
    /\ disk = [l \in Layers |-> [s \in Skill |-> 0]] /\ edits = 0
    /\ cache = NoCache
    /\ recent = [a \in 0 .. TTL |-> {disk["instance"]}]
    /\ turns = 0 /\ turn = NoTurn
    /\ listsFile \in Lists /\ lists = NoLists

-----------------------------------------------------------------------------
(* SoulGuard.check: a missing core.md is made, its hash is computed and     *)
(* compared with that of the last start, and what was computed is written  *)
(* into the hash file, which is empty in between.  The loop runs nothing   *)
(* else meanwhile, but the files may be edited between any two steps.      *)
CoreRead == IF core = NoFile THEN "default" ELSE core
Refuses == hash # NoFile /\ hash # found

restVars == <<scan, kernelVars, skillVars, turnVars, userVars>>
StartsUp == 
    /\ phase = "down" /\ boots < MaxBoots 
    /\ boots' = boots + 1 /\ phase' = "reading"
    /\ core' = CoreRead
    /\ UNCHANGED <<hash, found, accepted, edits, restVars>>

(* FileNotFoundError when core.md went away again.                          *)
ReadCore == 
    /\ phase = "reading"
    /\ IF core = NoFile THEN phase' = "missing" /\ UNCHANGED found
       ELSE phase' = "comparing" /\ found' = core
    /\ UNCHANGED <<boots, core, hash, accepted, edits, restVars>>

Compare == 
    /\ phase = "comparing"
    /\ IF Refuses THEN phase' = "refused" /\ UNCHANGED hash
       ELSE phase' = "hashing" /\ hash' = "torn"
    /\ UNCHANGED <<boots, core, found, accepted, edits, restVars>>

(* A hash file that was removed after it was opened is written for nobody. *)
Written(what) == 
    /\ phase = "hashing" /\ phase' = "checked"
    /\ IF hash = NoFile THEN UNCHANGED <<hash, accepted>> ELSE hash' = what /\ accepted' = found
    /\ UNCHANGED <<boots, core, found, edits, restVars>>
Slip_HashWritten == Written(CoreRead)
HashWritten == Written(found)

(* load_all, the enabling of the plugins, register_plugin_tools: one after  *)
(* the other without a pause.  One plugin.toml that cannot be read ends the *)
(* start before any plugin is loaded.                                      *)
Load == 
    /\ phase = "checked"
    /\ IF ScanRaises(scan) THEN phase' = "failed" /\ UNCHANGED plugins
       ELSE LET st == LoadAll(scan) IN 
            /\ plugins' = st.plugins
            /\ phase' = IF st.cycle THEN "failed" ELSE "loaded"
    /\ UNCHANGED <<scan, boots, soulVars, on, registry, edits, skillVars, turnVars, userVars>>

Enable == 
    /\ phase = "loaded"
    /\ IF EnableRaises(scan, plugins)
       THEN phase' = "failed" /\ UNCHANGED <<on, registry>>
       ELSE /\ phase' = "up"
            /\ on' = Enabled(scan, plugins)
            /\ registry' = Registry(OwnTools, Enabled(scan, plugins))
    /\ UNCHANGED <<scan, boots, soulVars, plugins, edits, skillVars, turnVars, userVars>>

(* unload_all, or the end of the process: what memory held is gone.          *)
Gone == 
    /\ phase' = "down"
    /\ plugins' = <<>> /\ on' = <<>> /\ registry' = <<>>
    /\ cache' = NoCache /\ turn' = NoTurn /\ lists' = NoLists /\ found' = NoFile
    /\ UNCHANGED <<scan, boots, core, hash, accepted, disk, edits, recent, turns, listsFile>>
Shutdown == phase = "up" /\ turn.at = "idle" /\ Gone
Crash == phase # "down" /\ Gone

-----------------------------------------------------------------------------
(* A turn builds its prompt: SkillStage takes the instance's skills from    *)
(* the cache or scans for them, and then stamps what it found; the user's  *)
(* skills and core.md are read every time, and core.md made if it is gone. *)
Built(list) == 
    /\ core' = CoreRead
    /\ lists' = IF lists = NoLists THEN listsFile ELSE lists
    /\ LET skills == Chosen(disk["user"], BuiltinSkills, list) IN 
       turn' = [at |-> "built", list |-> list, skills |-> skills,
                prompt |-> Prompt(CoreRead, skills, on), tools |-> {}]

BuildPrompt == 
    /\ phase = "up" /\ turn.at = "idle" /\ turns < MaxTurns /\ turns' = turns + 1
    /\ IF CacheValid(cache, disk["instance"], TTL)
       THEN Built(cache.list)
       ELSE /\ turn' = [turn EXCEPT !.at = "stamp", !.list = disk["instance"]]
            /\ UNCHANGED <<core, lists>>
    /\ UNCHANGED <<scan, phase, boots, hash, found, accepted, kernelVars, edits, skillVars, listsFile>>

Stamp == 
    /\ turn.at = "stamp"
    /\ cache' = Cached(turn.list, disk["instance"])
    /\ Built(turn.list)
    /\ UNCHANGED <<scan, phase, boots, hash, found, accepted, kernelVars, edits, disk, recent, turns, listsFile>>

(* RUN asks the loader again, for the directories the sandbox may read, and *)
(* offers the tools.                                                       *)
OffersTools == turn' = [turn EXCEPT !.at = "idle", !.tools = Offered(registry, on, lists, Blacklist)]
RunTurn == 
    /\ turn.at = "built"
    /\ IF CacheValid(cache, disk["instance"], TTL) THEN OffersTools
       ELSE turn' = [turn EXCEPT !.at = "stamp again", !.list = disk["instance"]]
    /\ UNCHANGED <<scan, phase, boots, soulVars, kernelVars, edits, skillVars, turns, userVars>>
StampAgain == 
    /\ turn.at = "stamp again"
    /\ cache' = Cached(turn.list, disk["instance"])
    /\ OffersTools
    /\ UNCHANGED <<scan, phase, boots, soulVars, kernelVars, edits, disk, recent, turns, userVars>>

(* Time passes between turns; a turn reads its files in no time.            *)
Tick == 
    /\ turn.at = "idle" /\ cache.known /\ cache.age <= TTL
    /\ cache' = [cache EXCEPT !.age = @ + 1]
    /\ recent' = [a \in 0 .. TTL |-> IF a = 0 THEN {disk["instance"]} ELSE recent[a - 1]]
    /\ UNCHANGED <<scan, phase, boots, soulVars, kernelVars, edits, disk, turnVars, userVars>>

-----------------------------------------------------------------------------
(* The files change at any time, under a turn too.                          *)
Edit == edits < MaxEdits /\ edits' = edits + 1
EditSkill == 
    /\ Edit
    /\ \E l \in Layers, s \in Skill, version \in {0, edits + 1} : 
          /\ disk[l][s] # version
          /\ disk' = [disk EXCEPT ![l][s] = version]
    /\ recent' = [recent EXCEPT ![0] = @ \cup {disk'["instance"]}]
    /\ UNCHANGED <<scan, phase, boots, soulVars, kernelVars, cache, turnVars, userVars>>

EditCore == 
    /\ Edit
    /\ \E c \in {"own", NoFile} : c # core /\ core' = c
    /\ UNCHANGED <<phase, boots, hash, found, accepted, restVars>>
RemoveHash == 
    /\ Edit /\ hash # NoFile /\ hash' = NoFile /\ accepted' = NoFile
    /\ UNCHANGED <<phase, boots, core, found, restVars>>
EditLists == 
    /\ Edit /\ \E l \in Lists : l # listsFile /\ listsFile' = l
    /\ UNCHANGED <<scan, phase, boots, soulVars, kernelVars, skillVars, turnVars, lists>>

LifeNext == 
    \/ StartsUp \/ ReadCore \/ Compare \/ HashWritten \/ Load \/ Enable \/ Shutdown \/ Crash
    \/ BuildPrompt \/ Stamp \/ RunTurn \/ StampAgain \/ Tick
    \/ EditSkill \/ EditCore \/ RemoveHash \/ EditLists

LifeSpec == LifeInit /\ [][LifeNext]_lifeVars

-----------------------------------------------------------------------------
(* How the loading of plugins ends does not depend on the order of the      *)
(* directories.  It fails if a plugin.toml cannot be read, if plugins       *)
(* require each other in a ring or if one that was loaded cannot be        *)
(* enabled, and never else; with a name for each plugin, it does not go on *)
(* in the first two cases, and otherwise all that can be loaded is loaded, *)
(* each after what it requires.  Only enabled plugins own the tools that   *)
(* turns are offered.                                                      *)
InOrder == 
    \A i \in DOMAIN plugins : 
        Range(plugins[i].requires) \subseteq {plugins[j].name : j \in 1 .. i - 1}
PluginsSound == 
    /\ LifeTypeOK
    /\ phase = "failed" => 
          ScanRaises(scan) \/ Cyclic(scan) \/ \E i \in DOMAIN plugins : ~plugins[i].enables
    /\ Unique(scan) /\ phase \in {"loaded", "up"} => 
          ~ScanRaises(scan) /\ ~Cyclic(scan) /\ LoadedNames(plugins) = Loadable(scan) /\ InOrder
    /\ \A i, j \in DOMAIN plugins : plugins[i].name = plugins[j].name => i = j
    /\ phase = "up" => \A i \in DOMAIN on : on[i].enables
    /\ phase = "up" => \A t \in turn.tools : 
          registry[t] = Framework \/ registry[t] \in {on[i].name : i \in DOMAIN on}

(* A prompt shows no skill of the instance that was gone from the disk for  *)
(* longer than the time a list is kept, whatever was edited between its    *)
(* scan and its stamp.                                                     *)
SkillsFresh == 
    turn.at = "built" => turn.list \in UNION {recent[a] : a \in 0 .. TTL}

(* No start gets past a core.md other than the one that passed the check    *)
(* before, unless the hash was removed: also one that was edited while it   *)
(* was being accepted is refused the next time.  And a start is refused    *)
(* only if core.md has changed, or an earlier start died while it wrote the *)
(* hash.                                                                   *)
SoulSound == 
    [][phase = "comparing" => 
        /\ phase' = "hashing" /\ accepted # NoFile => found = accepted
        /\ phase' = "refused" => found # accepted \/ hash = "torn"]_lifeVars

(* "One plugin's configuration error must not block the start of the        *)
(* framework" (plugins/base.py:56): it does, for [hooks] whose values are   *)
(* of the wrong type as for anything else that is wrong in plugin.toml.    *)
BadDescriptorIsSkipped == ScanRaises(scan) => phase # "failed"
=============================================================================
