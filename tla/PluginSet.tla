----------------------------- MODULE PluginSet -----------------------------
(***************************************************************************)
(* kernel/plugin_manager.py, plugins/ and ToolRegistry: what the plugin    *)
(* directories of an instance become.  A descriptor is a record            *)
(*   name, requires (sequence of names), valid (plugin.toml parses and     *)
(*   PluginMetadata takes its values), module ("fine", "raises", "off"),   *)
(*   toml, config (the two enabled flags: TRUE, FALSE, and "unset"         *)
(*   for config), enables (on_enable returns), tools, hides.               *)
(* "off" is a plugin the configuration excludes before its import.         *)
(* A scan is the sequence of descriptors in the order of the directories.  *)
(***************************************************************************)
EXTENDS Naturals, Sequences, SequencesExt, FiniteSets

Named(scan, name) == {i \in DOMAIN scan : scan[i].name = name}

(* _descriptors: of two with one name the later counts.                     *)
Descriptor(scan, name) == scan[CHOOSE i \in Named(scan, name) : \A j \in Named(scan, name) : j <= i]
Names(scan) == {scan[i].name : i \in DOMAIN scan}

(* A descriptor that is not valid raises out of the scan, and so does one   *)
(* of a plugin the configuration excludes.                                 *)
ScanRaises(scan) == \E i \in DOMAIN scan : ~scan[i].valid

(* What loading has come to: the plugins loaded, in order, the names it is  *)
(* done with, and whether it ran into a cycle (Python's recursion limit).   *)
NothingLoaded == [plugins |-> <<>>, tried |-> {}, cycle |-> FALSE]
LoadedNames(plugins) == {plugins[i].name : i \in DOMAIN plugins}

(* Excluded by channels.<name>.enabled or by the blacklist; or the import,  *)
(* the search for its class, its configuration or its on_load fails.       *)
IsDisabled(d) == d.module = "off"
Fails(d) == d.module = "raises"
Requires(d, plugins) == Range(d.requires) \subseteq LoadedNames(plugins)

LoadPlugin(d, st) == 
    IF IsDisabled(d) \/ Fails(d) \/ ~Requires(d, st.plugins) THEN st.plugins
    ELSE IF d.name \in LoadedNames(st.plugins)
         THEN [i \in DOMAIN st.plugins |-> IF st.plugins[i].name = d.name THEN d ELSE st.plugins[i]]
         ELSE Append(st.plugins, d)

Slip_DepsOf(scan, d) == <<>>
DepsOf(scan, d) == SelectSeq(d.requires, LAMBDA n : Named(scan, n) # {})
LoadStates(scan) == [plugins : Seq(Range(scan)), tried : SUBSET Names(scan), cycle : BOOLEAN]
LoadWithDeps(scan) == 
    LET load[d \in Range(scan), depth \in Nat, st \in LoadStates(scan)] == 
          IF d.name \in st.tried \/ d.name \in LoadedNames(st.plugins) \/ st.cycle THEN st
          ELSE IF depth > Cardinality(Names(scan)) THEN [st EXCEPT !.cycle = TRUE]
          ELSE LET deps == FoldLeft(LAMBDA s, n : load[Descriptor(scan, n), depth + 1, s],
                                    st, DepsOf(scan, d)) IN 
               IF deps.cycle THEN deps
               ELSE [deps EXCEPT !.plugins = LoadPlugin(d, deps), !.tried = @ \cup {d.name}]
    IN load

LoadAll(scan) == FoldLeft(LAMBDA s, d : LoadWithDeps(scan)[d, 0, s], NothingLoaded, scan)

(* boot: the configuration decides before plugin.toml, and of two           *)
(* descriptors with one name the later is asked, whichever was loaded.      *)
IsEnabled(scan, name) == 
    LET d == Descriptor(scan, name) IN IF d.config = "unset" THEN d.toml ELSE d.config = "on"
Enabled(scan, plugins) == SelectSeq(plugins, LAMBDA d : IsEnabled(scan, d.name))
EnableRaises(scan, plugins) == \E i \in DOMAIN plugins : IsEnabled(scan, plugins[i].name) /\ ~plugins[i].enables

(* The registry: the framework's own tools, then those of the enabled       *)
(* plugins in the order of their loading; a name registered again goes to  *)
(* the later plugin.                                                       *)
Framework == "framework"
ToolNames(own, plugins) == own \cup UNION {Range(plugins[i].tools) : i \in DOMAIN plugins}
Registry(own, plugins) == 
    [t \in ToolNames(own, plugins) |-> 
        LET givers == {i \in DOMAIN plugins : t \in Range(plugins[i].tools)} IN 
        IF givers = {} THEN Framework
        ELSE plugins[CHOOSE i \in givers : \A j \in givers : j <= i].name]

-----------------------------------------------------------------------------
(* The tools of a turn.  The enabled plugins change the list one after the  *)
(* other (here: each hides tools), the collector applies the user's lists  *)
(* and the blacklist of the instance; but without any such list the model  *)
(* is offered the whole registry, whatever the plugins made of it.         *)
Contributed(tools, plugins) == 
    FoldLeft(LAMBDA ts, d : ts \ d.hides, tools, plugins)
Collected(tools, lists, blacklist) == 
    (IF lists.white = {} THEN tools ELSE tools \cap lists.white) \ (lists.black \cup blacklist)
Restricted(lists, blacklist) == lists.white # {} \/ lists.black \cup blacklist # {}
Offered(registry, plugins, lists, blacklist) == 
    LET all == DOMAIN registry IN 
    IF Restricted(lists, blacklist) THEN all \cap Collected(Contributed(all, plugins), lists, blacklist)
    ELSE all

-----------------------------------------------------------------------------
(* What loading promises, said without an order: with one descriptor for a  *)
(* name, the plugins that can be loaded are the least set closed under     *)
(* "fine, and all it requires is in".                                      *)
Closed(scan, S) == 
    \A i \in DOMAIN scan : 
        scan[i].module = "fine" /\ Range(scan[i].requires) \subseteq S => scan[i].name \in S
Loadable(scan) == 
    {n \in Names(scan) : \A S \in SUBSET Names(scan) : Closed(scan, S) => n \in S}
Unique(scan) == \A i, j \in DOMAIN scan : scan[i].name = scan[j].name => i = j

(* A group of plugins that all require another of the group.                *)
Cyclic(scan) == 
    \E S \in SUBSET Names(scan) \ {{}} : 
        \A n \in S : \E i \in Named(scan, n) : Range(scan[i].requires) \cap S # {}
=============================================================================
