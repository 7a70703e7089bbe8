--------------------------- MODULE SessionHistory ---------------------------
(***************************************************************************)
(* The chat history of one user: SessionManager (an in-memory cache before *)
(* one file per session), the states BUILD and SAVE of AgentLoop, the      *)
(* tools trim_history and consolidate_history, the command /new and the    *)
(* one-off sessions of cron turns (fresh_session).  The process may die    *)
(* between any two steps and inside a consolidation.                       *)
(*                                                                         *)
(* The turns of the user are serialised by the lock from BUILD to the end  *)
(* (see LockManager); commands are not.  Each session has its own file     *)
(* (session ids that _safe_key maps to one file name are not modelled).    *)
(***************************************************************************)
EXTENDS ChatHistory

CONSTANTS Turn,         \* messages that start a turn
          Fresh,        \* those of cron jobs: fresh_session is set
          Trigger,      \* those that may be blank _subagent_auto_trigger messages
          Chat,         \* sessions of the user
          chat,         \* the session of each turn
          Trace,        \* the increments a run of each turn may produce
          Result,       \* subagent results for the user
          MaxMessages,  \* max_messages, the safety valve of BUILD
          Keep,         \* what trim_history and consolidate_history may keep
          RawIsKey,     \* is sender_id its own storage key (see user_id.py)?
          MaxArchives, MaxCrashes,   \* bounds
          None

ASSUME HistoryAssumption == 
    /\ Fresh \subseteq Turn /\ Trigger \subseteq Turn /\ chat \in [Turn -> Chat]
    /\ MaxMessages \in Nat \ {0} /\ Keep \subseteq Nat \ {0, 1}
    /\ RawIsKey \in BOOLEAN
    /\ MaxArchives \in Nat /\ MaxCrashes \in Nat
    /\ Turn \cap Chat = {} /\ Result \cap Turn = {} /\ None \notin Turn

(* A call is named by the turn that made it and a number.                  *)
CallId == Turn \X Nat
Message == 
         [role : {"user"}, text : Turn \cup Result]
    \cup [role : {"system"}, text : Nat]
    \cup [role : {"assistant"}, text : Turn, calls : Seq(CallId)]
    \cup [role : {"tool"}, id : CallId, text : {"result", "cancelled"}]
Speaker(m) == IF m.role = "tool" THEN m.id[1] ELSE m.text

(* What a run leaves (see ListLegal of TurnRunner): its own messages, which *)
(* include what users sent meanwhile, and results of subagents.  No call is *)
(* declared twice, and a result stands behind its declaration, with nothing *)
(* but results in between.  Calls may lack their result.                    *)
Increment(t, inc) == 
    /\ inc \in Seq(Message)
    /\ \A i \in DOMAIN inc : 
         \/ inc[i].role = "user" /\ inc[i].text \in {t} \cup Result
         \/ inc[i].role \in {"assistant", "tool"} /\ Speaker(inc[i]) = t
    /\ \A i \in DOMAIN inc : inc[i].role = "assistant" => 
         /\ IsInjective(inc[i].calls) /\ ToSet(inc[i].calls) \subseteq {t} \X Nat
         /\ \A a \in 1 .. i - 1 : 
              inc[a].role = "assistant" => ToSet(inc[a].calls) \cap ToSet(inc[i].calls) = {}
    /\ \A i \in DOMAIN inc : inc[i].role = "tool" => 
         \E a \in 1 .. i - 1 : 
           /\ inc[a].role = "assistant" /\ inc[i].id \in ToSet(inc[a].calls)
           /\ \A j \in a + 1 .. i : inc[j].role = "tool"

ASSUME TraceAssumption == 
    /\ \A t \in Turn : \A inc \in Trace[t] : Increment(t, inc)
    /\ None \notin Seq(Message) /\ None \notin Nat

VARIABLES step,         \* where each turn is
          active,       \* the turn in Kernel._active_turns[user]
          cache, disk,  \* SessionManager._cache and the files
          archive,      \* .consolidation.jsonl: the counts archived
          results,      \* _pending_subagent_results of the user
          held,         \* ctx.history, the list BUILD holds across its await
          window,       \* ctx.initial_messages: what the model is shown
          summary,      \* the last summary put into each chat since /new
          before,       \* the turns that had the lock before the last /new of their chat
          blank,        \* the messages that are blank triggers, chosen at the start
          alone,        \* every turn so far came when no other was live
          crashes

files == <<cache, disk, archive>>
turnVars == <<step, active, held, window>>
vars == <<turnVars, files, results, summary, before, blank, alone, crashes>>

Locked == {t \in Turn : step[t] \in {"building", "running", "saving"}}
Live == Locked \cup {t \in Turn : step[t] = "waiting"}
Sid == Chat \cup Fresh

(* AgentLoop._resolve_session_id: a cron turn has a session of its own.     *)
SidOf(t) == IF t \in Fresh THEN t ELSE chat[t]

(* SessionManager.get_or_create, from the cache, the file, or new.          *)
Messages(s) == IF cache[s] # None THEN cache[s] ELSE IF disk[s] # None THEN disk[s] ELSE <<>>

(* SessionManager.save, and a save that only reaches the cache.            *)
Slip_CacheOnly(s, h) == cache' = [cache EXCEPT ![s] = h] /\ UNCHANGED disk
Save(s, h) == cache' = [cache EXCEPT ![s] = h] /\ disk' = [disk EXCEPT ![s] = h]
Stored(s) == IF disk[s] = None THEN <<>> ELSE disk[s]
Touch(s, h) == cache' = [cache EXCEPT ![s] = h] /\ UNCHANGED disk
Delete(s) == cache' = [cache EXCEPT ![s] = None] /\ disk' = [disk EXCEPT ![s] = None]

Summary(n) == System(n)

Init == 
    /\ step = [t \in Turn |-> "idle"]
    /\ active = None
    /\ cache = [s \in Sid |-> None]
    /\ disk = [s \in Sid |-> None]
    /\ archive = [c \in Chat |-> <<>>]
    /\ results = <<>>
    /\ held = [t \in Turn |-> <<>>]
    /\ window = [t \in Turn |-> <<>>]
    /\ summary = [c \in Chat |-> None]
    /\ before = {}
    /\ blank \in SUBSET Trigger
    /\ alone = TRUE
    /\ crashes = 0

-----------------------------------------------------------------------------
(* Kernel._handle_message_impl: the task becomes the user's active turn,    *)
(* whatever turn was there before.                                         *)
Arrive(t) == 
    /\ step[t] = "idle"
    /\ step' = [step EXCEPT ![t] = "waiting"]
    /\ alone' = (alone /\ Live = {})
    /\ active' = t
    /\ UNCHANGED <<held, window, files, results, summary, before, blank, crashes>>

(* The injector of subagent results.                                       *)
Announce(r) == 
    /\ r \notin ToSet(results)
    /\ \A s \in Sid : User(r) \notin ToSet(Messages(s))
    /\ results' = Append(results, r)
    /\ UNCHANGED <<turnVars, files, summary, before, blank, alone, crashes>>

LockFree == Locked = {}

(* BUILD up to its await: the safety valve, the repair of the head and the  *)
(* results change the cached list only.                                    *)
Slip_NoRepair(h) == h
Repaired(h) == DropHead(h)
BuildStart(t) == 
    /\ step[t] = "waiting" /\ LockFree
    /\ LET list == Repaired(LastN(Messages(SidOf(t)), MaxMessages))
                     \o [i \in DOMAIN results |-> User(results[i])]
       IN  /\ Touch(SidOf(t), list)
           /\ held' = [held EXCEPT ![t] = list]
    /\ step' = [step EXCEPT ![t] = "building"]
    /\ results' = <<>>
    /\ UNCHANGED <<active, window, archive, summary, before, blank, alone, crashes>>

(* The rest of BUILD: the window is made from the held list, and the user   *)
(* message is saved early.                                                 *)
BuildEnd(t) == 
    /\ step[t] = "building"
    /\ step' = [step EXCEPT ![t] = "running"]
    /\ window' = [window EXCEPT ![t] = held[t] \o (IF t \in blank THEN <<>> ELSE <<User(t)>>)]
    /\ held' = [held EXCEPT ![t] = <<>>]
    /\ IF t \in blank THEN UNCHANGED <<cache, disk>>
       ELSE Save(SidOf(t), Append(Messages(SidOf(t)), User(t)))
    /\ UNCHANGED <<active, archive, results, summary, before, blank, alone, crashes>>

(* The history tools work on the session of the request context: always     *)
(* the chat, also in a cron turn.                                          *)
ToolSession(t) == chat[t]
TrimHistory(t, n) == 
    /\ step[t] = "running" /\ Len(Messages(ToolSession(t))) > n
    /\ Save(ToolSession(t), LastN(Messages(ToolSession(t)), n))
    /\ UNCHANGED <<turnVars, archive, results, summary, before, blank, alone, crashes>>

(* SessionManager.consolidate: append to the archive, cut the list, put the *)
(* summary in front of it, save.                                           *)
ArchiveIndex(c) == Len(archive[c])
Consolidate(c, n) == 
    LET h == Messages(c)
    IN  /\ Len(h) > n /\ Len(archive[c]) < MaxArchives
        /\ archive' = [archive EXCEPT ![c] = Append(@, ArchiveIndex(c))]
        /\ Save(c, <<Summary(ArchiveIndex(c))>> \o LastN(h, n))
        /\ summary' = [summary EXCEPT ![c] = ArchiveIndex(c)]
ConsolidateHistory(t, n) == 
    /\ step[t] = "running"
    /\ Consolidate(ToolSession(t), n)
    /\ UNCHANGED <<turnVars, results, before, blank, alone, crashes>>

(* SAVE: the session is looked up again; without an increment nothing is    *)
(* written.  A blank trigger turn saves nothing at all and is over.        *)
Saved(t, inc) == Persist(Messages(SidOf(t)), inc)
SaveStart(t) == 
    /\ step[t] = "running" /\ t \notin blank
    /\ step' = [step EXCEPT ![t] = "saving"]
    /\ \E inc \in Trace[t] : IF inc = <<>> THEN Touch(SidOf(t), Messages(SidOf(t)))
                             ELSE Save(SidOf(t), Saved(t, inc))
    /\ UNCHANGED <<active, held, window, archive, results, summary, before, blank, alone, crashes>>

(* The end of a turn: the entry of the user in _active_turns goes.  Once in *)
(* SAVE a one-off session is deleted, also when the turn is cancelled.     *)
Leave(t) == 
    /\ step' = [step EXCEPT ![t] = "over"]
    /\ held' = [held EXCEPT ![t] = <<>>]
    /\ window' = [window EXCEPT ![t] = <<>>]
    /\ active' = None
    /\ IF t \in Fresh /\ step[t] = "saving" THEN Delete(t) ELSE UNCHANGED <<cache, disk>>

SaveEnd(t) == 
    /\ step[t] = IF t \in blank THEN "running" ELSE "saving"
    /\ Leave(t)
    /\ UNCHANGED <<archive, results, summary, before, blank, alone, crashes>>

(* An exception outside the runner skips what is left of the turn up to     *)
(* RESPOND.                                                                *)
Fail(t) == 
    /\ step[t] \in {"building", "running", "saving"}
    /\ Leave(t)
    /\ UNCHANGED <<archive, results, summary, before, blank, alone, crashes>>

(* /stop, for the turn that _active_turns names.                           *)
Stop(t) == 
    /\ active = t /\ step[t] \in {"waiting", "building", "running", "saving"}
    /\ Leave(t)
    /\ UNCHANGED <<archive, results, summary, before, blank, alone, crashes>>

(* /new: cancel the active turn, clear the session, save it and drop it     *)
(* from the cache.  The session is looked up by the raw sender_id: when     *)
(* that is no storage key the store refuses it after the cancellation.     *)
Slip_NoCancel == {}
ToCancel == {t \in Live : active = t}
New(c) == 
    /\ \E t \in Turn : step[t] # "idle"
    /\ step' = [t \in Turn |-> IF t \in ToCancel THEN "over" ELSE step[t]]
    /\ active' = IF ToCancel = {} THEN active ELSE None
    /\ LET gone == {s \in ToCancel \cap Fresh : step[s] = "saving"}
       IN  IF RawIsKey
           THEN /\ cache' = [s \in Sid |-> IF s \in gone \cup {c} THEN None ELSE cache[s]]
                /\ disk' = [s \in Sid |-> IF s \in gone THEN None ELSE IF s = c THEN <<>> ELSE disk[s]]
                /\ held' = [t \in Turn |-> IF t \in ToCancel \/ (SidOf(t) = c /\ cache[c] # None)
                                             THEN <<>> ELSE held[t]]
                /\ summary' = [summary EXCEPT ![c] = None]
                /\ before' = before \cup {t \in Turn : step[t] \notin {"idle", "waiting"} /\ chat[t] = c}
           ELSE /\ cache' = [s \in Sid |-> IF s \in gone THEN None ELSE cache[s]]
                /\ disk' = [s \in Sid |-> IF s \in gone THEN None ELSE disk[s]]
                /\ held' = [t \in Turn |-> IF t \in ToCancel THEN <<>> ELSE held[t]]
                /\ UNCHANGED <<summary, before>>
    /\ window' = [t \in Turn |-> IF t \in ToCancel THEN <<>> ELSE window[t]]
    /\ UNCHANGED <<archive, results, blank, alone, crashes>>

(* SessionManager.flush_all, at shutdown.                                  *)
Flush == 
    /\ \E s \in Sid : cache[s] # None
    /\ disk' = [s \in Sid |-> IF cache[s] # None THEN cache[s] ELSE disk[s]]
    /\ cache' = [s \in Sid |-> None]
    /\ UNCHANGED <<turnVars, archive, results, summary, before, blank, alone, crashes>>

(* The process dies, possibly between the two writes of a consolidation,    *)
(* and is started again: files are all that is left.                       *)
Lost == 
    /\ crashes < MaxCrashes /\ crashes' = crashes + 1
    /\ step' = [t \in Turn |-> IF t \in Live THEN "over" ELSE step[t]]
    /\ active' = None
    /\ cache' = [s \in Sid |-> None]
    /\ results' = <<>>
    /\ held' = [t \in Turn |-> <<>>]
    /\ window' = [t \in Turn |-> <<>>]
    /\ UNCHANGED <<disk, summary, before, blank, alone>>
Crash == Lost /\ UNCHANGED archive
CrashInConsolidate(t, n) == 
    /\ step[t] = "running" /\ Len(Messages(chat[t])) > n /\ Len(archive[chat[t]]) < MaxArchives
    /\ archive' = [archive EXCEPT ![chat[t]] = Append(@, ArchiveIndex(chat[t]))]
    /\ Lost

Next == 
    \/ \E t \in Turn : \/ Arrive(t) \/ BuildStart(t) \/ BuildEnd(t) \/ SaveStart(t)
                       \/ SaveEnd(t) \/ Fail(t) \/ Stop(t)
    \/ \E t \in Turn, n \in Keep : TrimHistory(t, n) \/ ConsolidateHistory(t, n) \/ CrashInConsolidate(t, n)
    \/ \E r \in Result : Announce(r)
    \/ \E c \in Chat : New(c)
    \/ Flush \/ Crash

Spec == Init /\ [][Next]_vars

-----------------------------------------------------------------------------
Steps == {"idle", "waiting", "building", "running", "saving", "over"}

(* Every variable keeps its type; a stored list is a list of messages of    *)
(* known speakers, and the lock is held by at most one turn.               *)
TypeOK == 
    /\ step \in [Turn -> Steps] /\ active \in Turn \cup {None}
    /\ DOMAIN cache = Sid /\ DOMAIN disk = Sid
    /\ \A s \in Sid : \A m \in ToSet(Messages(s)) :
         m.role = "system" \/ Speaker(m) \in Turn \cup Result
    /\ \A c \in Chat : ToSet(archive[c]) \subseteq 0 .. MaxArchives - 1
    /\ ToSet(results) \subseteq Result
    /\ summary \in [Chat -> 0 .. MaxArchives - 1 \cup {None}]
    /\ before \subseteq Turn /\ alone \in BOOLEAN
    /\ blank \subseteq Trigger /\ crashes \in 0 .. MaxCrashes
    /\ Cardinality(Locked) <= 1

(* What BUILD shows the model is legal for a provider: no result without    *)
(* its call and no call without its result, wherever the valve, a trim or a *)
(* consolidation of an earlier turn cut the history.                       *)
WindowLegal == TypeOK /\ \A t \in Turn : LegalChat(window[t])

(* What the audit of a session file may find is only what a cut left at its *)
(* head: results of the one turn that was cut.  Every call in the file has *)
(* its result behind it, no result comes twice, and the repair of the head *)
(* at the next BUILD is all the file needs.                                *)
Clean == [orphan |-> {}, dangling |-> {}, repeated |-> {}]
FileAudited == 
    \A s \in Sid : 
      LET h == Stored(s)
          found == AuditViolations(h)
      IN  /\ [found EXCEPT !.orphan = {}] = Clean
          /\ \A i \in found.orphan : \A j \in 1 .. i : h[j].role \in {"system", "tool"}
          /\ AuditViolations(DropHead(h)) = Clean

(* A cron turn sees no history of the chat and leaves nothing in it.        *)
FreshApart == 
    /\ \A t \in Fresh : \A m \in ToSet(window[t]) : Speaker(m) \in {t} \cup Result
    /\ \A c \in Chat : \A m \in ToSet(Messages(c)) : m.role = "system" \/ Speaker(m) \notin Fresh

(* The history stays legal, on its way to the model and in the file, and    *)
(* that of a chat apart from the one of a cron turn.                       *)
HistoryLegal == WindowLegal /\ FileAudited /\ FreshApart

(* A cached message that is not a subagent result is in the file as well:   *)
(* a restart loses none of the messages a turn has put into its session.   *)
DiskHasAll == 
    \A s \in Sid : cache[s] # None => 
      \A m \in ToSet(cache[s]) : Speaker(m) \in Result \/ m \in ToSet(Stored(s))

(* Whole lists are written, by turns, tools, commands and the shutdown; yet *)
(* the newest message of a chat survives every step but /new.  The repair   *)
(* of the head may take a result whose call a cut has taken, and a crash    *)
(* the results of subagents that no turn has saved.                         *)
LatestSurvives == 
    \A c \in Chat : 
      LET m == Last(Messages(c)) 
      IN  /\ ~New(c) /\ Messages(c) # <<>> /\ m.role # "tool" 
          /\ Speaker(m) \in Result => UNCHANGED crashes
          => m \in ToSet(Messages(c)')

(* What was said is kept, by every step: in the file, and by whoever writes *)
(* it (at the start nothing was said).                                     *)
StoredIsKept == [][DiskHasAll' /\ LatestSurvives]_vars

(* A chat that was reset holds nothing of the turns that were at work, or   *)
(* over, when /new was sent ...                                            *)
ResetIsClean == 
    \A c \in Chat : \A m \in ToSet(Messages(c)) :
      m.role = "system" \/ Speaker(m) \notin {t \in before : chat[t] = c}

(* ... which holds for a user whose messages never overlapped.             *)
ResetIsCleanAlone == alone => ResetIsClean

(* The session of a cron turn is gone when the turn is over.                *)
FreshReclaimed == 
    \A t \in Fresh : step[t] = "over" => cache[t] = None /\ disk[t] = None

(* The summary of a consolidation is shown to the model in the next turns.  *)
SummaryReachesModel == 
    [][\A t \in Turn \ Fresh : 
         BuildEnd(t) /\ summary[chat[t]] # None => System(summary[chat[t]]) \in ToSet(window'[t])]_vars

(* /new leaves the chat empty.                                             *)
NewResets == [][\A c \in Chat : New(c) => Messages(c)' = <<>>]_vars
=============================================================================
