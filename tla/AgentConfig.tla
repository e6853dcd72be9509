------------------------------ MODULE AgentConfig ------------------------------
(***************************************************************************)
(* The agent's configuration (services/agent.py, routes/config.py): it is  *)
(* read from providers_config.json when the process starts, again when a   *)
(* client posts a reload, and brings the registered tools                  *)
(* (services/tool_registry.py) into line; and the rounds of tools of a     *)
(* turn, whose results go into the context within the token budget.        *)
(*                                                                         *)
(* The file is edited by hand: it may be missing, no JSON, or JSON of      *)
(* another shape than is expected.  A load is several steps: the endpoints *)
(* run in threads without a lock, so that reloads overlap each other and   *)
(* the turns, and each of them goes back to the global _config again and   *)
(* again.                                                                  *)
(***************************************************************************)
EXTENDS TokenBudget

CONSTANTS
    Loader,         \* threads in which the file is read
    Tool,           \* names of registered tools
    Files,          \* bound: what the file may contain
    Defaults,       \* TokenBudgetConfig's values
    Timeout,        \* timeout_seconds of a tool that nothing is said about
    Batches,        \* bound: what the tools of a round may return
    Header,         \* tokens around a result in the context
    MaxRounds       \* max_tool_rounds

(* A file is missing, no JSON, JSON but no object, or an object: with an   *)
(* agent section that is an object or not, that lets the model call tools, *)
(* forbids it or is silent, a budget, and the tools in their order, which  *)
(* are keys of an object and so named once, and whose settings or only the *)
(* timeout in them may be odd.                                             *)
Settings == [odd : {"no", "settings", "timeout"}, enabled : BOOLEAN, timeout : Nat]

ASSUME ConfigAssumption ==
    /\ Defaults \in Managers /\ Timeout \in Nat \ {0}
    /\ Batches \subseteq Results /\ Header \in Nat /\ MaxRounds \in Nat
    /\ \A f \in Files : f.kind \in {"missing", "broken", "list", "object"}
    /\ \A f \in Files : f.kind = "object" =>
          /\ f.oddAgent \in BOOLEAN /\ f.calls \in {"yes", "no", "unsaid"}
          /\ Len(f.tools) \in Nat /\ DOMAIN f.tools = 1 .. Len(f.tools)
          /\ \A i \in DOMAIN f.tools : f.tools[i].set \in Settings
          /\ \A i, j \in DOMAIN f.tools : f.tools[i].name = f.tools[j].name => i = j
          /\ \A x \in DOMAIN f.budget :
                /\ x = "enabled" => f.budget[x] \in BOOLEAN
                /\ x \in {"n", "maxTokens", "reserve", "percent"} => f.budget[x] \in Nat

VARIABLES
    file,           \* providers_config.json
    config,         \* _config
    manager,        \* _token_budget_manager
    tools,          \* the registry: if a tool is enabled, and its timeout
    loader,         \* the locals of each load
    latest,         \* history: the file of the loads since no load was under
                    \* way, if they agreed on one
    context,        \* tokens of the messages of a turn
    round           \* the turn: if it may call tools, and how many rounds it
                    \* had; history: what the last one returned, what was
                    \* appended of it, the manager

configVars == <<file, config, manager, tools, loader, latest, context, round>>

EmptyList == [kind |-> "list", length |-> 0]

Object(calls, budget, section) ==
    [kind |-> "object", oddAgent |-> FALSE, calls |-> calls, budget |-> budget, tools |-> section]

EmptyObject == Object("unsaid", [other |-> TRUE], <<>>)

(* What the code falls back to, as if it were read from a file.            *)
DefaultFile == Object("no", [n |-> Defaults.maxTokens], <<>>)

Sources == Files \cup {DefaultFile}

(* The object that _config refers to: the file that its tools are from,    *)
(* and the one that its agent section is from, which is "raw" until it is  *)
(* replaced by one that has everything.                                    *)
Configs == [kind : {"raw", "normal"}, from : Sources, agent : Sources]

NoConfig == [kind |-> "empty"]

Normal(f) == [kind |-> "normal", from |-> f, agent |-> f]

NoManager == [enabled |-> FALSE, maxTokens |-> 0, reserve |-> 0, percent |-> 0]

NoRound == [calls |-> FALSE, n |-> 0, over |-> FALSE, returned |-> <<>>, appended |-> <<>>, by |-> NoManager]

Registered == [t \in Tool |-> [enabled |-> TRUE, timeout |-> Timeout]]

(* The locals of a load: what its last step was, on whose behalf it runs,  *)
(* which file the value that it holds is from, and the tool it is at.      *)
Loads ==
    [phase : {"idle", "read", "raw", "agent", "put", "tools", "failed"},
     for : {"start", "get", "reload"}, of : Sources, at : Nat \ {0}]

Idle == [phase |-> "idle", for |-> "start", of |-> DefaultFile, at |-> 1]

Disagreed == [agreed |-> FALSE, of |-> DefaultFile]

(* Every variable has a value of its type; a configuration that is not the *)
(* default comes from a file.                                              *)
ConfigTypeOK ==
    /\ file \in Files
    /\ config \in {NoConfig} \cup Configs
    /\ manager \in Managers
    /\ tools \in [Tool -> [enabled : BOOLEAN, timeout : Nat \ {0}]]
    /\ loader \in [Loader -> Loads]
    /\ latest \in [agreed : BOOLEAN, of : Sources]
    /\ context \in Nat
    /\ round \in [calls : BOOLEAN, n : 0 .. MaxRounds, over : BOOLEAN,
                  returned : Results, appended : Results, by : Managers]

ConfigInit ==
    /\ file \in Files
    /\ config = NoConfig /\ manager = NoManager /\ tools = Registered
    /\ loader = [l \in Loader |-> Idle] /\ latest = Disagreed
    /\ context = 0 /\ round = NoRound

-----------------------------------------------------------------------------
(***************************************************************************)
(* What others see of the configuration.                                   *)
(***************************************************************************)

Shapely(f) == f.kind = "object" /\ ~f.oddAgent

Loading(l) == loader[l].phase # "idle"

(* The first load is made at startup, before any request is served.        *)
Serving == config # NoConfig /\ \A l \in Loader : Loading(l) => loader[l].for # "start"

(* What is empty counts as no configuration.                               *)
Truthy == config # NoConfig /\ ~(config.kind = "raw" /\ config.from \in {EmptyList, EmptyObject})

(* With anything but an object, or an agent section that is none, no turn  *)
(* gets far.                                                               *)
Usable == Serving /\ Truthy /\ ~(config.kind = "raw" /\ ~Shapely(config.from))

(* Tools are called if the agent section says so.  When it is silent, a    *)
(* load fills in that they are not; a turn that meets it raw takes it that *)
(* they are.                                                               *)
Calling == config.agent.calls = "yes" \/ (config.kind = "raw" /\ config.agent.calls = "unsaid")

-----------------------------------------------------------------------------
(***************************************************************************)
(* Reading the file.                                                       *)
(***************************************************************************)

(* Faulty variant: a tool is only ever enabled.                            *)
ToolEnabled(registry, name, set) ==
    [registry EXCEPT ![name] = [enabled |-> set.enabled \/ @.enabled,
                                timeout |-> IF set.odd = "no" /\ set.timeout > 0 THEN set.timeout ELSE @.timeout]]

(* Faulty variant: a timeout of zero is taken over.                        *)
ToolTimed(registry, name, set) ==
    [registry EXCEPT ![name] = [enabled |-> set.enabled, timeout |-> set.timeout]]

ToolSet(registry, name, set) ==
    [registry EXCEPT ![name] = [enabled |-> set.enabled,
                                timeout |-> IF set.odd = "no" /\ set.timeout > 0 THEN set.timeout ELSE @.timeout]]

Budget(f) == Build(IF "n" \in DOMAIN f.budget \/ "dict" \in DOMAIN f.budget THEN f.budget
                   ELSE [n |-> Defaults.maxTokens], Defaults)

OrDefaults == IF manager = NoManager THEN Defaults ELSE manager

(* Load l goes on with a value that is from file f.                        *)
Moves(l, phase, f) == loader' = [loader EXCEPT ![l].phase = phase, ![l].of = f]

(* No load is under way, or only reloads of the file as it is now, and one *)
(* more of them begins.                                                    *)
Agreeing(for) ==
    \A k \in Loader : Loading(k) =>
        /\ latest.agreed /\ latest.of = file
        /\ for = "reload" /\ loader[k].for = "reload"

(* A load begins: the file is read.  get_config loads if there is no       *)
(* configuration, at startup or later.  For reload_config a file that is   *)
(* missing or no JSON changes nothing, so that it is no step here.         *)
Begin(l, for) ==
    LET readable == file.kind \in {"list", "object"}
    IN  /\ ~Loading(l)
        /\ \/ for = "start" /\ config = NoConfig /\ \A k \in Loader : ~Loading(k)
           \/ for = "get" /\ Serving /\ ~Truthy
           \/ for = "reload" /\ Serving /\ readable
        /\ loader' = [loader EXCEPT ![l] =
                         [phase |-> IF readable THEN "read" ELSE "failed", for |-> for,
                          of |-> IF readable THEN file ELSE DefaultFile, at |-> 1]]
        /\ latest' = IF Agreeing(for) THEN [agreed |-> TRUE, of |-> file] ELSE Disagreed
        /\ UNCHANGED <<file, config, manager, tools, context, round>>

(* _config = json.loads(...): what was read, as it is.                     *)
SetConfig(l) ==
    /\ loader[l].phase = "read"
    /\ config' = [kind |-> "raw", from |-> loader[l].of, agent |-> loader[l].of]
    /\ Moves(l, "raw", DefaultFile)
    /\ UNCHANGED <<file, manager, tools, latest, context, round>>

(* The agent section of whatever is the configuration by now.              *)
ReadAgent(l) ==
    /\ loader[l].phase = "raw"
    /\ IF config.kind = "raw" /\ ~Shapely(config.from) THEN Moves(l, "failed", DefaultFile)
       ELSE Moves(l, "agent", config.agent)
    /\ UNCHANGED <<file, config, manager, tools, latest, context, round>>

(* Faulty variant: it is completed, but not stored.                        *)
PutAgentNowhere(l) ==
    /\ loader[l].phase = "agent"
    /\ Moves(l, "put", DefaultFile)
    /\ UNCHANGED <<file, config, manager, tools, latest, context, round>>

(* It is completed and stored in whatever is the configuration by now.     *)
PutAgent(l) ==
    /\ loader[l].phase = "agent"
    /\ IF config.from.kind = "list" THEN Moves(l, "failed", DefaultFile) /\ UNCHANGED config
       ELSE /\ config' = [config EXCEPT !.kind = "normal", !.agent = loader[l].of]
            /\ Moves(l, "put", DefaultFile)
    /\ UNCHANGED <<file, manager, tools, latest, context, round>>

(* The section of the tools, again of whatever is the configuration.  The  *)
(* log before it names settings that a raw agent section may lack.         *)
ReadTools(l) ==
    /\ loader[l].phase = "put"
    /\ \/ config.kind = "raw" /\ Moves(l, "failed", DefaultFile)
       \/ (config.kind = "raw" => Shapely(config.from)) /\ Moves(l, "tools", config.from)
    /\ UNCHANGED <<file, config, manager, tools, latest, context, round>>

Listed(l) == loader[l].of.tools

(* The tools are set one by one, names that are not registered passed      *)
(* over, up to the first whose settings, or whose timeout, are of another  *)
(* shape.                                                                  *)
ApplyEntry(l) ==
    LET entry == Listed(l)[loader[l].at]
        known == entry.name \in Tool
    IN  /\ loader[l].phase = "tools"
        /\ loader[l].at \in DOMAIN Listed(l)
        /\ IF known /\ entry.set.odd # "settings"
           THEN tools' = ToolSet(tools, entry.name, entry.set)
           ELSE UNCHANGED tools
        /\ IF known /\ entry.set.odd # "no" THEN Moves(l, "failed", DefaultFile)
           ELSE loader' = [loader EXCEPT ![l].at = @ + 1]
        /\ UNCHANGED <<file, config, manager, latest, context, round>>

(* The end.  get_config builds the manager of the budget; the one that     *)
(* reload_config builds is a local variable, and dropped.  A raw agent     *)
(* section may have no budget to build it from.                            *)
EndLoad(l) ==
    LET odd == config.kind = "raw" /\ ~(Shapely(config.from)
                                        /\ DOMAIN config.agent.budget \cap {"n", "dict"} # {})
    IN  /\ loader[l].phase = "tools"
        /\ loader[l].at \notin DOMAIN Listed(l)
        /\ IF loader[l].for # "reload" /\ odd
           THEN Moves(l, "failed", DefaultFile) /\ UNCHANGED manager
           ELSE /\ loader' = [loader EXCEPT ![l] = Idle]
                /\ manager' = IF loader[l].for = "reload" THEN manager ELSE Budget(config.agent)
        /\ UNCHANGED <<file, config, tools, latest, context, round>>

(* An exception: get_config takes the defaults, which stay; reload_config  *)
(* leaves everything as far as it got.                                     *)
FailLoad(l) ==
    /\ loader[l].phase = "failed"
    /\ loader' = [loader EXCEPT ![l] = Idle]
    /\ IF loader[l].for = "reload" THEN UNCHANGED <<config, manager>>
       ELSE config' = Normal(DefaultFile) /\ manager' = OrDefaults
    /\ UNCHANGED <<file, tools, latest, context, round>>

LoadStep(l) ==
    \/ SetConfig(l) \/ ReadAgent(l) \/ PutAgent(l) \/ ReadTools(l)
    \/ ApplyEntry(l) \/ EndLoad(l) \/ FailLoad(l)

Edit(f) ==
    /\ file' = f
    /\ UNCHANGED <<config, manager, tools, loader, latest, context, round>>

Restart ==
    /\ config' = NoConfig /\ manager' = NoManager /\ tools' = Registered
    /\ loader' = [l \in Loader |-> Idle] /\ latest' = Disagreed
    /\ context' = 0 /\ round' = NoRound
    /\ UNCHANGED file

-----------------------------------------------------------------------------
(***************************************************************************)
(* The rounds of a turn.                                                   *)
(***************************************************************************)

(* A turn looks at the configuration once, at its start.                   *)
TurnStarts ==
    /\ Usable /\ context' = 0 /\ round' = [NoRound EXCEPT !.calls = Calling]
    /\ UNCHANGED <<file, config, manager, tools, loader, latest>>

(* The results are appended, in part if they do not fit.  A budget of no   *)
(* tokens makes the check fail: nothing is appended, no round follows.     *)
ToolRound(results) ==
    LET fits == manager = NoManager \/ Fits(manager, results, context)
        kept == IF fits THEN results ELSE Truncate(manager, results)
    IN  /\ \E t \in Tool : tools[t].enabled
        /\ round.calls /\ round.n < MaxRounds /\ ~round.over
        /\ IF manager # NoManager /\ FitsRaises(manager)
           THEN round' = [round EXCEPT !.n = @ + 1, !.over = TRUE] /\ UNCHANGED context
           ELSE /\ round' = [calls |-> TRUE, n |-> round.n + 1, over |-> FALSE,
                             returned |-> results, appended |-> kept, by |-> manager]
                /\ context' = context + Cost(kept) + Header * Len(kept) + Noticed(kept, results)
        /\ UNCHANGED <<file, config, manager, tools, loader, latest>>

ConfigNext ==
    \/ \E l \in Loader : LoadStep(l) \/ \E for \in {"start", "get", "reload"} : Begin(l, for)
    \/ Restart \/ TurnStarts
    \/ \E f \in Files : Edit(f)
    \/ \E results \in Batches : ToolRound(results)

ConfigSpec == ConfigInit /\ [][ConfigNext]_configVars

-----------------------------------------------------------------------------
(***************************************************************************)
(* Properties.                                                             *)
(***************************************************************************)

(* A file in which nothing is odd.                                         *)
Sound(f) ==
    /\ Shapely(f)
    /\ \A i \in DOMAIN f.tools : f.tools[i].name \in Tool => f.tools[i].set.odd = "no"

(* The registry is as an entry of a file says.                             *)
Matches(entry) ==
    entry.name \in Tool =>
        /\ tools[entry.name].enabled = entry.set.enabled
        /\ entry.set.timeout > 0 => tools[entry.name].timeout = entry.set.timeout

(* A load that no other overlapped, and reloads that overlapped but all    *)
(* read the same file, leave the whole configuration as this file says,    *)
(* its agent section and every tool it names, if nothing in it is odd:     *)
(* although each of them makes the configuration raw once more and goes    *)
(* back to it between its steps, some of them may give up because of that, *)
(* and whatever was loaded before, in part or in a tangle.  Of loads of    *)
(* different files that overlap nothing is said: the code lets sections of *)
(* one and tools of another stand until the next load.                     *)
ToolsAsLoaded ==
    latest.agreed /\ Sound(latest.of) /\ (\A l \in Loader : ~Loading(l)) =>
        /\ config = Normal(latest.of)
        /\ \A i \in DOMAIN latest.of.tools : Matches(latest.of.tools[i])

(* Of the results of a round the newest are appended, as many as the       *)
(* budget allows; none is left out if all of them fit.                     *)
NewestAppended ==
    round.n > 0 /\ ~round.over /\ round.appended # round.returned =>
        LongestSuffix(round.by, round.returned, round.appended)

(* The tools are as the loads that agreed on a file say, and a round adds  *)
(* what the manager in force allows; all variables have their types.  That *)
(* manager is the one of the first load: a reload does not replace it,     *)
(* although its last comment says so.                                      *)
ConfigEffective == ConfigTypeOK /\ ToolsAsLoaded /\ NewestAppended

=============================================================================
