------------------------------ MODULE MCAgent ------------------------------
(***************************************************************************)
(* Parts of one run of the agent that share no state, each explored on its *)
(* own: the goroutines that report the run (RunStatus, whose properties    *)
(* keep their names), the replacement of one file of a user, the commands  *)
(* that put the agent on the machine, and the hook a coding agent calls.   *)
(* part says which of them moves; the others rest where they start.        *)
(***************************************************************************)
EXTENDS RunStatus, Sequences

VARIABLE part

-----------------------------------------------------------------------------
(* The disks a file is replaced on.  The user's link may lead from the     *)
(* home into the directory below it, which another may replace.            *)
Dirs == {"home", "sub", "other", "made"}
FileWorlds ==
    LET File(v, b, private, by) ==
            [kind |-> "file", text |-> [lines |-> v, block |-> b], owner |-> "user", private |-> private, by |-> by,
             to |-> "nowhere"]
        Link(to) == [File(-3, 0, FALSE, "user") EXCEPT !.kind = "link", !.to = to]
        D(files, home, sub) ==
            [file |-> files, entry |-> [d \in Dirs |-> CASE d = "home" -> home [] d = "sub" -> sub [] OTHER -> 0],
             temp |-> [d \in Dirs |-> 0], bak |-> [d \in Dirs |-> <<>>], at |-> "sub",
             owner |-> [d \in Dirs |-> IF d = "made" THEN "none" ELSE "user"]]
        Mine(v, b, private) == File(v, b, private, "user")
        Kept == Mine(1, 0, TRUE)
        Open_ == Mine(1, 0, FALSE)
        Ours == File(0, 1, TRUE, "agent")
        Backed(d, at) == [d EXCEPT !.bak[at] = <<3, 3>>, !.file = Append(Append(@, Link("nowhere")), Mine(1, 0, TRUE))]
        World(k, p, d, record, calls, moves) ==
            [kind |-> k, path |-> p, disk |-> d, rec |-> record, calls |-> calls, moves |-> moves, mishaps |-> 1]
        New(k, p, d) == World(k, p, d, [leaf |-> "none", created |-> FALSE], 2, 1)
        Old(k, p, d, created) == World(k, p, d, [leaf |-> p, created |-> created], 2, 1)
    IN  {New("npm", "home", D(<<>>, 0, 0)), New("npm", "home", D(<<Open_>>, 1, 0)), New("npm", "home", D(<<Kept, Link("sub")>>, 2, 1)),
         New("secure", "home", D(<<Kept, Link("sub")>>, 2, 1)), New("secure", "home", D(<<Link("nowhere")>>, 1, 0)),
         New("secure", "sub", [D(<<>>, 0, 0) EXCEPT !.at = "none"]), New("secure", "sub", D(<<Open_>>, 0, 1)),
         Old("npm", "home", D(<<Ours>>, 1, 0), TRUE), [Old("secure", "home", D(<<Ours>>, 1, 0), TRUE) EXCEPT !.calls = 1, !.moves = 2],
         Old("secure", "sub", Backed(D(<<Mine(1, 1, TRUE)>>, 0, 1), "sub"), FALSE)}

VARIABLES flKind, flPath, flDisk, flRun, flPending, flRec, flResult, flWas, flBudget, flDisturbed, flSwapped,
          flAstray, flCrashed
flVars == <<flKind, flPath, flDisk, flRun, flPending, flRec, flResult, flWas, flBudget, flDisturbed, flSwapped,
            flAstray, flCrashed>>
Files == INSTANCE FileReplace WITH
    Worlds <- FileWorlds, MaxBackups <- 2,
    kind <- flKind, path <- flPath, disk <- flDisk, run <- flRun, pending <- flPending, rec <- flRec,
    result <- flResult, was <- flWas, budget <- flBudget, disturbed <- flDisturbed, swapped <- flSwapped,
    astray <- flAstray, crashed <- flCrashed

-----------------------------------------------------------------------------
(* The machines the agent is installed on.  The limits are of a caller and *)
(* beyond the six hours Task Scheduler allows by itself.                   *)
Homes ==
    LET M(platform, who, env, ignore, target, may) ==
            [os |-> platform, who |-> who, env |-> env, ignore |-> ignore, target |-> target, may |-> may]
        Both == {"install", "uninstall"}
    IN {M("darwin", "user", 0, FALSE, FALSE, Both), M("linux", "user", 0, FALSE, TRUE, Both),
        M("linux", "admin", 0, FALSE, TRUE, {"install"}), M("windows", "admin", 60, FALSE, TRUE, Both),
        M("windows", "system", -2, TRUE, TRUE, {"install"}), M("linux", "user", 0, FALSE, TRUE, {"scan"}),
        M("linux", "user", 60, FALSE, FALSE, {"install", "configure", "prompt"}),
        M("windows", "admin", 300, FALSE, TRUE, {"install", "configure", "prompt"})}

VARIABLES deBox, deOs, deConf, deAsked, deJob, deLock, deLast, deCalls, deFaults, deTurns, deTidy
deVars == <<deBox, deOs, deConf, deAsked, deJob, deLock, deLast, deCalls, deFaults, deTurns, deTidy>>
Deploy == INSTANCE Deployment WITH
    Machines <- Homes, MaxCommands <- 2, MaxFaults <- 1, MaxTurns <- 2, Hours <- {0, 1, 4, 5, 23, 24, 30, 48, 1000},
    box <- deBox, os <- deOs, conf <- deConf, asked <- deAsked, job <- deJob, lock <- deLock, last <- deLast,
    calls <- deCalls, faults <- deFaults, turns <- deTurns, tidy <- deTidy

-----------------------------------------------------------------------------
(* The calls of an agent's hooks.                                          *)
HookCalls ==
    LET W(v) == [by |-> "word", v |-> v]
        N(by, v) == [by |-> by, v |-> v]
        T(items) == [t |-> "text", of |-> items]
        Word(v) == T(<<W(v)>>)
        Map(m) == [t |-> "map", of |-> m]
        Tool(cmd) == [tool_name |-> Word("Bash"), cwd |-> Word("/work"), tool_input |-> Map([command |-> T(cmd)])]
        Creds(c) == [customer |-> c, endpoint |-> c, key |-> c]
        Call(agent, hook, payload, may) ==
            [args |-> "good", agent |-> agent, hook |-> hook, payload |-> payload, stdin |-> "ok", cache |-> "lost",
             device |-> "", env |-> Creds(""), config |-> Creds("baked"), registry |-> "https", locks |-> {"package-lock.json"},
             files |-> [log |-> <<[secret |-> 1, rules |-> {1, 3}], [secret |-> 2, rules |-> {2}], [secret |-> 1, rules |-> {2}],
                                  [secret |-> 3, rules |-> {}], [secret |-> 4, rules |-> {1}]>>],
             reply |-> <<W("plain"), W("token")>>, log |-> <<>>, may |-> may]
        Install == <<N("secret", "token"), W("npm"), N("flag", "-g"), W("install"), W("plain")>>
        Server == <<W("npx"), W("@modelcontextprotocol/server"), N("query", "opaque"), W("token"), N("secret", "plain"), W("plain")>>
        Asked == [prompt |-> T(<<N("json", "plain"), N("json", "mixed"), N("break", ""), N("pair", "mixed"), N("break", ""), W("token")>>),
                  hook_event_name |-> Word("PreToolUse"), content |-> Word("token"), list |-> [t |-> "list", of |-> <<Word("private key")>>],
                  more |-> Map([password |-> Word("plain"), api_key |-> [t |-> "flag", of |-> TRUE], content |-> T(<<N("userinfo", "plain")>>)])]
        Base == Call("claude", "PreToolUse", Tool(Install), {"hang", "late", "panic"})
        Old(n) == [i \in 1..n |-> [stage |-> "old", message |-> <<>>]]
        Codex == [Call("codex", "PreToolUse", Tool(<<W("yarn")>>), {"hang", "late"}) EXCEPT !.env.key = "dev", !.config.key = "{{", !.locks = {".yarnrc.yml"}]
    IN  {Base, [Base EXCEPT !.log = Old(3), !.device = "mine", !.may = {"hang"}], [Base EXCEPT !.may = {"disk", "late"}, !.cache = "on"],
         [Base EXCEPT !.config.endpoint = "{{", !.may = {}], [Base EXCEPT !.cache = "off"]}
        \cup {[Base EXCEPT !.args = a] : a \in {"one missing", "another agent", "no home"}}
        \cup {[Base EXCEPT !.stdin = i, !.payload = <<>>, !.log = Old(2)] : i \in {"open", "large", "broken", "bad"}}
        \cup {Call("claude", "PostToolUse", Tool(c), {"hang"}) :
                 c \in {Server, <<W("env"), N("pair", "plain"), W("bunx"), W("plain")>>, <<W("claude"), W("mcp")>>, <<W("pnpm"), W("rm"), W("token")>>,
                        <<N("pair", "opaque"), W("npx"), N("break", ""), W("npx")>>, <<W("plain")>>}}
        \cup {Call("claude", h, Asked, {}) : h \in {"PreToolUse", "UserPromptSubmit", "ElicitationResult", "Other"}}
        \cup {[Call("claude", "SessionEnd", [transcript_path |-> Word(f)], {"late"}) EXCEPT !.log = Old(n)] : f \in {"log", "gone"}, n \in {0, 3}}
        \cup {Codex, [Codex EXCEPT !.payload = Tool(Server)], [Codex EXCEPT !.payload.tool_name = Word("apply_patch")],
              [Codex EXCEPT !.payload.tool_name = Word("mcp__server__tool"), !.payload.tool_input.of = [path |-> Word(".env")]]}

VARIABLES hkCall, hkAt, hkLeft, hkId, hkEv, hkOut, hkSent, hkLog, hkOdd
hkVars == <<hkCall, hkAt, hkLeft, hkId, hkEv, hkOut, hkSent, hkLog, hkOdd>>
Hook == INSTANCE HookRun WITH
    Calls <- HookCalls, CapHook <- 15, ProbeTimeout <- 1, CapPM <- 10, UploadTimeout <- 5, CommandCap <- 5, SnippetCap <- 4,
    MaxFileItems <- 4, MaxErrorLog <- 2,
    call <- hkCall, at <- hkAt, left <- hkLeft, id <- hkId, ev <- hkEv, out <- hkOut, sent <- hkSent, log <- hkLog, odd <- hkOdd

(* Redacting text a second time changes nothing, and once leaves nothing   *)
(* bare: over every text of up to three items.                             *)
RedactionSettles ==
    LET items == {[by |-> b, v |-> v] : b \in {"word", "secret", "pair", "json", "query"}, v \in {"token", "opaque", "plain"}}
                 \cup {[by |-> "break", v |-> ""], [by |-> "comment", v |-> "plain"]}
    IN \A n \in 0..3 : \A t \in [1..n -> items] : LET r == Hook!String(t) IN Hook!String(r) = r /\ ~Hook!Bare(r)

ASSUME AgentAssumption ==
    /\ Files!FileAssumption /\ Deploy!DeploymentAssumption /\ Deploy!SchedulesFit /\ Hook!HookAssumption
    /\ RedactionSettles
-----------------------------------------------------------------------------
(* The whole.                                                              *)
\* The variables a part does without.
Unused(v) == v = {}

AgentInit ==
    /\ part \in {"run", "file", "deployment", "hook"}
    /\ Init
    /\ part # "run" => perils = {"ticks"}
    /\ \/ part = "file" /\ Files!Init
       \/ /\ part # "file"
          /\ Unused(flKind) /\ Unused(flPath) /\ Unused(flDisk) /\ Unused(flRun) /\ Unused(flPending) /\ Unused(flRec)
          /\ Unused(flResult) /\ Unused(flWas) /\ Unused(flBudget) /\ Unused(flDisturbed) /\ Unused(flSwapped)
          /\ Unused(flAstray) /\ Unused(flCrashed)
    /\ \/ part = "deployment" /\ Deploy!Init
       \/ /\ part # "deployment"
          /\ Unused(deBox) /\ Unused(deOs) /\ Unused(deConf) /\ Unused(deAsked) /\ Unused(deJob) /\ Unused(deLock)
          /\ Unused(deLast) /\ Unused(deCalls) /\ Unused(deFaults) /\ Unused(deTurns) /\ Unused(deTidy)
    /\ \/ part = "hook" /\ Hook!Init
       \/ /\ part # "hook"
          /\ Unused(hkCall) /\ hkAt = "done" /\ Unused(hkLeft) /\ Unused(hkId) /\ Unused(hkEv) /\ Unused(hkOut)
          /\ Unused(hkSent) /\ Unused(hkLog) /\ Unused(hkOdd)

Run_    == part = "run"        /\ Next        /\ UNCHANGED <<flVars, deVars, hkVars>>
File_   == part = "file"       /\ Files!Next  /\ UNCHANGED <<vars, deVars, hkVars>>
Deploy_ == part = "deployment" /\ Deploy!Next /\ UNCHANGED <<vars, flVars, hkVars>>
Hook_   == part = "hook"       /\ Hook!Next   /\ UNCHANGED <<vars, flVars, deVars>>

AgentNext == UNCHANGED part /\ (Run_ \/ File_ \/ Deploy_ \/ Hook_)

(* RunStatus's fairness while it moves, and a hook's; a call on a file     *)
(* promises no end.                                                        *)
Live == part = "run" /\ Sound
AgentSpec ==
    /\ AgentInit /\ [][AgentNext]_<<part, vars, flVars, deVars, hkVars>>
    /\ WF_vars(Live /\ MainStep) /\ WF_vars(Live /\ WorkerStep)
    /\ WF_vars(Live /\ BeatStep) /\ SF_vars(Live /\ StopBeat)
    /\ WF_vars(Live /\ HandlerStep) /\ WF_vars(part = "run" /\ WatchdogStep)
    /\ WF_hkVars(part = "hook" /\ Hook!Step)

-----------------------------------------------------------------------------
(* Every run ends unless a goroutine hangs where no watchdog is            *)
(* (RunStatus), and every hook once the agent closes stdin (HookRun).      *)
RunEnds == (part = "run" => Ends) /\ (part = "hook" => Hook!HookEnds)

(* Whatever the user does meanwhile, and wherever a call fails or the      *)
(* process is killed: nothing of root's is copied out, no half written     *)
(* file is ever found, a call did what it says, nothing is left about, and *)
(* no file is displaced that was not just checked (FileReplace).           *)
FilesAreSafe == part = "file" => Files!FilesAreSafe

(* An install that says it worked has, and so has an uninstall; no first    *)
(* scan is crowded out, no schedule or limit cuts in before the agent's     *)
(* own, a run enforces what is to be enforced whatever became of its scan,  *)
(* and recording a limit costs no credentials (Deployment).  A hook lets    *)
(* the agent go on whatever happens, and sends what it saw once, redacted,  *)
(* with what it had no time for named (HookRun).                            *)
CommandsHold ==
    /\ [](part = "deployment" => Deploy!StatesHold)
    /\ [](part = "hook" => Hook!HookHolds)
    /\ [][part = "deployment" => Deploy!KeepsKeys]_<<deConf, deAsked>>
=============================================================================
