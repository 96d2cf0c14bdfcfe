------------------------------ MODULE HookRun ------------------------------
(***************************************************************************)
(* One `_hook <agent> <event>` call of a coding agent (internal/aiagents/  *)
(* hook and what it uses): from the arguments to the answer the agent      *)
(* waits for.  The event on stdin is parsed, redacted, classified and      *)
(* enriched, each stage under its own limit and all of them under one, and *)
(* sent once.  Whatever goes wrong, the answer is to go ahead.             *)
(*                                                                         *)
(* Text is a sequence of items: a word, a line break, or a value under a   *)
(* name.  An item says only what the redaction looks at: how the value is  *)
(* named (by) and which kind of value it is (v).                           *)
(***************************************************************************)
EXTENDS Integers, Sequences

CONSTANTS Calls,                                   \* the calls explored
          CapHook, ProbeTimeout, CapPM, UploadTimeout, \* limits, in seconds
          CommandCap, SnippetCap,                  \* items kept of a command
          MaxFileItems,                            \* items read of a transcript
          MaxErrorLog                              \* entries before a restart

HookAssumption ==
    /\ {CapHook, ProbeTimeout, CapPM, UploadTimeout, CommandCap, SnippetCap, MaxFileItems, MaxErrorLog} \subseteq Nat \ {0}
    /\ ProbeTimeout + CapPM < CapHook

VARIABLES call,     \* what is asked, of which machine
          at,       \* the stage to come
          left,     \* seconds left of CapHook
          id,       \* the device the event will name
          ev,       \* the event
          out,      \* what the agent reads
          sent,     \* what reached the backend
          log,      \* the error log
          odd       \* what was out of the ordinary: "late", "panic"
vars == <<call, at, left, id, ev, out, sent, log, odd>>

-----------------------------------------------------------------------------
(* Redaction.                                                              *)
Gone == "[REDACTED]"
\* Values a rule takes wherever they stand, and names it takes any value of.
Known == {"token", "private key"}
Named == {"secret", "userinfo"}
\* Values without a rule, by how random they look in a URL or an assignment.
InQuery == {"opaque"}
InPair == {"opaque", "mixed"}

Redacted(t, which(_)) == [i \in DOMAIN t |-> IF which(i) THEN [t[i] EXCEPT !.v = Gone] ELSE t[i]]
applyRules(t) == LET Rule(i) == t[i].v \in Known \/ t[i].by \in Named IN Redacted(t, Rule)
urlQueryEntropyPass(t) == LET Random(i) == t[i].by = "query" /\ t[i].v \in InQuery IN Redacted(t, Random)

Line(t, i) ==
    {j \in DOMAIN t : \A k \in DOMAIN t : t[k].by = "break" => ((k < i) <=> (k < j)) /\ k \notin {i, j}}
\* A pair is looked at when it is all of its line, or the line's first in JSON.
Candidate(t, i) ==
    /\ \A j \in Line(t, i) : t[j].by # "comment"
    /\ \/ t[i].by = "pair" /\ Line(t, i) = {i}
       \/ t[i].by = "json" /\ \A j \in Line(t, i) : t[j].by = "json" => i <= j
entropyPass(t) ==
    LET Random(i) == /\ Candidate(t, i) /\ t[i].v \in InPair
                     /\ \A j \in Line(t, i) : t[j].v # Gone
    IN Redacted(t, Random)
String(t) == entropyPass(urlQueryEntropyPass(applyRules(t)))

\* What the rules name, and is still there.
Bare(t) == \E i \in DOMAIN t : t[i].v \in Known \/ (t[i].by \in Named /\ t[i].v # Gone)

Text(t) == [t |-> "text", of |-> t]
isSecretKey(k) == k \in {"password", "api_key"}
RECURSIVE Value(_)
Value(x) ==
    CASE x.t = "text" -> Text(String(x.of))
      [] x.t = "map"  -> [x EXCEPT !.of = [k \in DOMAIN @ |->
                             IF isSecretKey(k) THEN Text(<<[by |-> "word", v |-> Gone]>>) ELSE Value(@[k])]]
      [] x.t = "list" -> [x EXCEPT !.of = [i \in DOMAIN @ |-> Value(@[i])]]
      [] x.t = "flag" -> x
\* No text of a value is bare, and none is left under a key that says secret.
RECURSIVE Clean(_)
Clean(x) ==
    CASE x.t = "text" -> ~Bare(x.of)
      [] x.t = "map"  -> \A k \in DOMAIN x.of :
             Clean(x.of[k]) /\ (isSecretKey(k) => x.of[k].t = "text" /\ \A i \in DOMAIN x.of[k].of : x.of[k].of[i].v = Gone)
      [] x.t = "list" -> \A i \in DOMAIN x.of : Clean(x.of[i])
      [] x.t = "flag" -> TRUE

truncate(t, n) == SubSeq(t, 1, IF Len(t) <= n THEN Len(t) ELSE n)

-----------------------------------------------------------------------------
(* The event, and how the two agents' adapters read it.                    *)
Native == [claude |-> {"PreToolUse", "PostToolUse", "PostToolUseFailure", "SessionStart", "SessionEnd", "Notification",
                       "Stop", "SubagentStop", "UserPromptSubmit", "Elicitation", "ElicitationResult",
                       "PermissionRequest", "PermissionDenied"},
           codex  |-> {"PreToolUse", "PostToolUse", "SessionStart", "Stop", "UserPromptSubmit", "PermissionRequest"}]
phaseFor(agent, hook) == IF hook \in Native[agent] THEN hook ELSE "unknown"

stringField(p, k) == IF k \in DOMAIN p /\ p[k].t = "text" /\ p[k].of # <<>> THEN p[k].of[1].v ELSE ""
Input(p) == IF "tool_input" \in DOMAIN p /\ p["tool_input"].t = "map" THEN p["tool_input"].of ELSE <<>>
Has(p, k) == k \in DOMAIN p /\ p[k].t = "text"

IsMCP(tool) == tool \in {"mcp__server__tool"}
ToolActions ==
    [claude |-> [Bash |-> "command_exec", bash |-> "command_exec", Read |-> "file_read", Write |-> "file_write", WebFetch |-> "web_access"],
     codex  |-> [Bash |-> "command_exec", apply_patch |-> "file_write"]]
inferActionType(agent, hook, tool, p) ==
    LET tools == ToolActions[agent]
        bearing == {"PreToolUse", "PostToolUse"} \cup IF agent = "claude" THEN {"PostToolUseFailure"} ELSE {}
    IN CASE hook \notin bearing -> ""
         [] hook \in bearing /\ tool \in DOMAIN tools -> tools[tool]
         [] hook \in bearing /\ tool = "" -> IF agent = "claude" /\ Has(Input(p), "command") THEN "command_exec" ELSE ""
         [] hook \in bearing /\ IsMCP(tool) -> "mcp_invocation"
         [] OTHER -> "tool_use"

Bulky(agent) == {"transcript", "messages", "stdout", "stderr", "content"}
                    \cup IF agent = "codex" THEN {"last_assistant_message"} ELSE {}
Present(k) == k \o "_present"
scrubPayload(agent, p) ==
    LET bulky == DOMAIN p \cap Bulky(agent)
    IN [k \in (DOMAIN p \ bulky) \cup {Present(b) : b \in bulky} |->
            IF k \in DOMAIN p \ bulky THEN p[k] ELSE [t |-> "flag", of |-> TRUE]]

IsSensitivePath(v) == v \in {".env", "id.pem"}
isSensitivePayload(p) ==
    \E k \in {"file_path", "path", "filename"} : Has(Input(p), k) /\ IsSensitivePath(stringField(Input(p), k))

Fresh(agent, hook) ==
    [hook |-> hook, phase |-> phaseFor(agent, hook), tool |-> "", action |-> "", customer |-> "", device |-> "",
     payload |-> <<>>, sensitive |-> FALSE, classes |-> {}, errors |-> {},
     shell |-> <<>>, pm |-> <<>>, mcp |-> <<>>, secrets |-> <<>>, timeouts |-> {}]
Event(agent, hook, p) ==
    LET tool == stringField(p, "tool_name")
        claimed == stringField(p, "hook_event_name")
    IN [Fresh(agent, hook) EXCEPT
            !.tool = tool, !.action = inferActionType(agent, hook, tool, p), !.sensitive = isSensitivePayload(p),
            !.payload = Value([t |-> "map", of |-> scrubPayload(agent, p)]),
            !.errors = IF claimed \notin {"", hook} THEN {"hook_event_name_mismatch"} ELSE {}]

classify(e) ==
    LET kind == [command_exec |-> "shell", file_read |-> "file", file_write |-> "file", web_access |-> "web", mcp_invocation |-> "mcp"]
    IN {kind[a] : a \in {e.action} \cap DOMAIN kind}
       \cup IF \/ e.phase \in {"Elicitation", "ElicitationResult"}
               \/ e.phase \in {"PermissionRequest", "PermissionDenied"} /\ IsMCP(e.tool)
            THEN {"mcp"} ELSE {}

\* The command a tool is to run, as redacted; empty when there is none.
ShellCommand(agent, e) ==
    IF (agent = "codex" => e.tool = "Bash") /\ Has(Input(e.payload.of), "command") THEN Input(e.payload.of)["command"].of ELSE <<>>

\* A call is refused only before a tool, and nothing here refuses.
DecideResponse(e, allow) == IF allow \/ e = <<>> \/ e[1].hook # "PreToolUse" THEN "allow" ELSE "deny"

-----------------------------------------------------------------------------
(* What a command shows: a package manager, an MCP server.                 *)
Managers == [npm |-> "npm", npx |-> "npx", pnpm |-> "pnpm", pnpx |-> "pnpm", yarn |-> "yarn", bun |-> "bun", bunx |-> "bun"]
Installs == [npm |-> {"i", "install", "ci", "add"}, npx |-> {}, pnpm |-> {"i", "install", "ci", "add"},
             yarn |-> {"install", "add"}, bun |-> {"i", "install", "add"}]
Removals == [npm |-> {"uninstall", "remove", "rm", "un"}, npx |-> {}, pnpm |-> {"remove", "rm", "uninstall", "un"},
             yarn |-> {"remove"}, bun |-> {"remove", "rm", "uninstall", "un"}]
classifyKind(m, args) ==
    LET sub == IF args = <<>> THEN "" ELSE args[1].v
    IN CASE sub = "" -> IF m \in {"pnpm", "yarn", "bun"} THEN "install" ELSE "other"
         [] sub \in Installs[m] -> "install"
         [] sub \in Removals[m] -> "uninstall"
         [] sub \in {"exec", "run", "x", "dlx"} -> "exec"
         [] sub \in {"publish", "audit"} -> sub
         [] OTHER -> IF m \in {"npx", "bun"} THEN "exec" ELSE "other"

\* Assignments and env come before the program; flags do not count.
Detect(cmd) ==
    LET Skipped(i) == cmd[i].by # "word" \/ cmd[i].v = "env"
        bins == {i \in DOMAIN cmd : ~Skipped(i) /\ \A j \in 1..(i - 1) : Skipped(j)}
        Plain(x) == x.by = "word"
    IN {[manager |-> Managers[cmd[i].v], kind |-> classifyKind(Managers[cmd[i].v], SelectSeq(SubSeq(cmd, i + 1, Len(cmd)), Plain))] :
           i \in {b \in bins : cmd[b].v \in DOMAIN Managers}}

addLockfileEvidence(m, cwd) ==
    LET files == [npm |-> {"package-lock.json"}, npx |-> {}, pnpm |-> {"pnpm-lock.yaml"}, yarn |-> {"yarn.lock"}, bun |-> {"bun.lockb", "bun.lock"}]
    IN IF cwd = "" THEN {} ELSE files[m] \cap call.locks
\* The command asked for the registry; Yarn's changed with its second version.
Source(m, cwd) ==
    CASE m \in {"npm", "npx"} -> "npm config get registry"
      [] m = "yarn" -> IF cwd # "" /\ ".yarnrc.yml" \in call.locks THEN "yarn config get npmRegistryServer" ELSE "yarn config get registry"
      [] m = "pnpm" -> "pnpm config get registry"
      [] m = "bun" -> "bun pm config get registry"
\* A stage without a limit of its own: mutant.
SpentAll(cap) == 0
Spent(cap) == IF left <= cap THEN 0 ELSE left - cap

\* npm is asked a second time, for the files its answer is from.
npmConfigSources(m, cwd) == call.registry # "" /\ Source(m, cwd) = "npm config get registry"
\* What asking yields, and when: an answer, none, or the time runs out
\* before it, or before the second one.
Resolve(m, cwd) ==
    LET R(registry, sources, cut, rest) == [registry |-> registry, sources |-> sources, cut |-> cut, left |-> rest]
        listed == npmConfigSources(m, cwd)
    IN IF left = 0 THEN {R("", FALSE, TRUE, 0)}
       ELSE {R(call.registry, listed, FALSE, left)}
            \cup IF "hang" \notin call.may THEN {}
                 ELSE {R("", FALSE, TRUE, Spent(CapPM))} \cup IF listed THEN {R(call.registry, FALSE, TRUE, Spent(CapPM))} ELSE {}

Enrich(d, r, cwd) ==
    [manager |-> d.manager, kind |-> d.kind, registry |-> r.registry, sources |-> r.sources,
     evidence |-> addLockfileEvidence(d.manager, cwd) \cup IF r.registry # "" THEN {Source(d.manager, cwd)} ELSE {}]

ClassifyShell(cmd) ==
    LET Info(kind) == <<[kind |-> kind, command |-> truncate(String(cmd), SnippetCap)]>>
        At(v) == {i \in DOMAIN cmd : cmd[i] = [by |-> "word", v |-> v]}
    IN CASE At("@modelcontextprotocol/server") # {} -> Info("local")
         [] At("@modelcontextprotocol/server") = {} /\ \E i \in At("mcp") : i < Len(cmd) \/ (i > 1 /\ cmd[i - 1].v = "claude") -> Info("unknown")
         [] OTHER -> <<>>

(* The transcript of a session: its secrets, with the rules each matches.  *)
Rules == 1..3
\* A finding for each rule a secret matches: mutant.
FindingsTwice(file, upTo) ==
    {[rule |-> h[1], line |-> h[2], fingerprint |-> file[h[2]].secret] :
        h \in {h \in (1..upTo) \X DOMAIN file : h[2] <= MaxFileItems /\ h[1] \in file[h[2]].rules}}
Findings(file, upTo) ==
    LET read == SubSeq(file, 1, IF Len(file) <= MaxFileItems THEN Len(file) ELSE MaxFileItems)
        hits == {h \in (1..upTo) \X DOMAIN read : h[1] \in read[h[2]].rules}
        Before(g, h) == g[1] < h[1] \/ (g[1] = h[1] /\ g[2] < h[2])
    IN {[rule |-> h[1], line |-> h[2], fingerprint |-> read[h[2]].secret] :
           h \in {h \in hits : \A g \in hits : Before(g, h) => read[g[2]].secret # read[h[2]].secret}}

-----------------------------------------------------------------------------
(* Credentials, and the two logs of what happened.                         *)
Fields == {"customer", "endpoint", "key"}
pick(f) == IF call.env[f] # "" THEN call.env[f] ELSE call.config[f]
Ready == \A f \in Fields : pick(f) \notin {"", "{{"}

AppendError(stage, text) ==
    log' = IF "disk" \in call.may THEN log
           ELSE Append(IF Len(log) > MaxErrorLog THEN <<>> ELSE log, [stage |-> stage, message |-> String(text)])

Init ==
    /\ call \in Calls
    /\ at = "start" /\ left = CapHook /\ id = "" /\ ev = <<>> /\ out = <<>> /\ sent = <<>> /\ log = call.log /\ odd = {}

\* RunHook: exactly two arguments, an agent it knows, a home.
RunHook ==
    /\ at = "start"
    /\ at' = IF call.args = "good" THEN "gate" ELSE "done"
    /\ UNCHANGED <<call, left, id, ev, out, sent, log, odd>>

\* The switch: a cache that is missing or unreadable leaves hooks on.
Gate ==
    /\ at = "gate"
    /\ at' = IF call.cache = "off" THEN "answer" ELSE "identify"
    /\ UNCHANGED <<call, left, id, ev, out, sent, log, odd>>

Identify ==
    /\ at = "identify" /\ at' = "read"
    /\ \/ id' = (IF call.device # "" THEN call.device ELSE "serial") /\ left' = left
       \/ "hang" \in call.may /\ id' = (IF call.device # "" THEN call.device ELSE "unknown") /\ left' = Spent(ProbeTimeout)
    /\ UNCHANGED <<call, ev, out, sent, log, odd>>

\* Input that cannot be read ends the call: mutant.
ReadOrDie ==
    /\ at = "read" /\ call.stdin # "open"
    /\ at' = IF call.stdin \in {"large", "broken"} THEN "done" ELSE "parse"
    /\ UNCHANGED <<call, left, id, ev, out, sent, log, odd>>
\* No limit of time reaches the read: the agent closes stdin when it does.
ReadInput ==
    /\ at = "read" /\ call.stdin # "open"
    /\ \/ left' = left /\ odd' = odd
       \/ "late" \in call.may /\ left' = 0 /\ odd' = odd \cup {"late"}
    /\ IF call.stdin \in {"large", "broken"}
          THEN at' = "answer" /\ AppendError("stdin", <<>>)
          ELSE at' = "parse" /\ UNCHANGED log
    /\ UNCHANGED <<call, id, ev, out, sent>>

ParseEvent ==
    /\ at = "parse"
    /\ IF call.stdin = "bad" THEN at' = "answer" /\ AppendError("parse", <<>>) /\ UNCHANGED ev
       ELSE LET e == [Event(call.agent, call.hook, call.payload) EXCEPT !.customer = pick("customer"), !.device = id]
            IN /\ ev' = <<[e EXCEPT !.classes = classify(e)]>>
               /\ at' = (IF ShellCommand(call.agent, e) # <<>> THEN "packages" ELSE "scan")
               /\ UNCHANGED log
    /\ UNCHANGED <<call, left, id, out, sent, odd>>

\* The time a stage ran out of goes to the log alone: mutant.
EnrichedOnly(e, stage, cut) == ev' = <<e>>
Enriched(e, stage, cut) == ev' = <<[e EXCEPT !.timeouts = @ \cup IF cut THEN {stage} ELSE {}]>>
Logged(stage, cut) == IF cut THEN AppendError(stage, <<>>) ELSE UNCHANGED log

Cwd == LET own == stringField(Input(ev[1].payload.of), "cwd") IN IF own # "" THEN own ELSE stringField(call.payload, "cwd")
Packages ==
    /\ at = "packages" /\ at' = "mcp"
    /\ LET cmd == ShellCommand(call.agent, ev[1])
           e == [ev[1] EXCEPT !.shell = <<[command |-> truncate(String(cmd), CommandCap), cut |-> Len(cmd) > CommandCap]>>]
       IN IF Detect(cmd) = {} THEN ev' = <<e>> /\ UNCHANGED <<left, log>>
          ELSE \E d \in Detect(cmd) : \E r \in Resolve(d.manager, Cwd) :
                 /\ Enriched([e EXCEPT !.classes = @ \cup {"package"}, !.pm = <<Enrich(d, r, Cwd)>>], "package_manager", r.cut)
                 /\ Logged("enrich_pm", r.cut) /\ left' = r.left
    /\ UNCHANGED <<call, id, out, sent, odd>>

MCP ==
    /\ at = "mcp" /\ at' = "scan"
    /\ LET cut == left = 0
           info == IF cut THEN <<>> ELSE ClassifyShell(ShellCommand(call.agent, ev[1]))
       IN /\ Enriched([ev[1] EXCEPT !.mcp = info, !.classes = @ \cup IF info # <<>> THEN {"mcp"} ELSE {}], "mcp", cut)
          /\ Logged("enrich_mcp", cut)
    /\ UNCHANGED <<call, left, id, out, sent, odd>>

\* The reading of the transcript has no limit of time either; the rules are
\* tried one after the other while there is some left.
Scan ==
    /\ at = "scan" /\ at' = "upload"
    /\ LET path == stringField(ev[1].payload.of, "transcript_path")
       IN IF ev[1].phase # "SessionEnd" \/ path \notin DOMAIN call.files THEN UNCHANGED <<ev, left, log, odd>>
          ELSE \E n \in {0} \cup Rules :
                 LET cut == n # 3
                 IN /\ IF cut THEN left = 0 \/ "late" \in call.may ELSE left > 0
                    /\ left = 0 => n = 0
                    /\ left' = (IF cut THEN 0 ELSE left) /\ odd' = (IF cut THEN odd \cup {"late"} ELSE odd)
                    /\ Enriched([ev[1] EXCEPT !.secrets = <<Findings(call.files[path], n)>>], "secret_scan", cut)
                    /\ Logged("enrich_secrets", cut)
    /\ UNCHANGED <<call, id, out, sent>>

\* Asked again after an answer that was lost: mutant.
UploadAgain ==
    /\ at = "upload" /\ Ready /\ UNCHANGED <<call, id, ev, out, log, odd>>
    /\ sent' = Append(sent, [event |-> ev[1], key |-> pick("key"), taken |-> TRUE])
    /\ \/ at' = "answer" /\ left' = left
       \/ left > 0 /\ at' = at /\ left' = Spent(UploadTimeout)
\* One attempt.  The backend may have taken an event whose answer is lost.
Upload ==
    /\ at = "upload" /\ at' = "answer"
    /\ LET e == [ev[1] EXCEPT !.payload = Value(@)]
           Got(taken) == sent' = Append(sent, [event |-> e, key |-> pick("key"), taken |-> taken])
       IN /\ ev' = <<e>>
          /\ \/ ~Ready /\ UNCHANGED <<sent, log, left>>
             \/ Ready /\ left > 0 /\ Got(TRUE) /\ UNCHANGED <<log, left>>
             \/ Ready /\ left > 0 /\ Got(FALSE) /\ AppendError("ingest", String(call.reply)) /\ UNCHANGED left
             \/ Ready /\ left > 0 /\ Got(TRUE) /\ AppendError("ingest", <<>>) /\ left' = Spent(UploadTimeout)
             \/ Ready /\ UNCHANGED sent /\ AppendError("ingest", <<>>) /\ left' = Spent(UploadTimeout)
    /\ UNCHANGED <<call, id, out, odd>>

\* emitDecidedResponse, deferred: it is reached from every stage of Run.
Answer ==
    /\ at = "answer" /\ at' = "done"
    /\ out' = Append(out, DecideResponse(ev, TRUE))
    /\ UNCHANGED <<call, left, id, ev, sent, log, odd>>

Panic ==
    /\ at \in {"identify", "read", "parse", "packages", "mcp", "scan", "upload"} /\ "panic" \in call.may
    /\ at' = "answer" /\ odd' = odd \cup {"panic"}
    /\ UNCHANGED <<call, left, id, ev, out, sent, log>>

Step == RunHook \/ Gate \/ Identify \/ ReadInput \/ ParseEvent \/ Packages \/ MCP \/ Scan \/ Upload \/ Answer
Next == Step \/ Panic

(* What has to become of a call.                                           *)
Sent == {sent[i] : i \in DOMAIN sent}
Parsed == at \in {"answer", "done"} /\ ev # <<>>
Typed == IF Has(Input(call.payload), "command") THEN Input(call.payload)["command"].of ELSE <<>>

(* The agent reads one answer and it is to go ahead, whatever became of    *)
(* the event; a call that is none of the hook's business reads nothing,    *)
(* and what is switched off neither sends nor logs (RunHook, Run's defer). *)
StaysOutOfTheWay ==
    /\ at = "done" => out = IF call.args = "good" THEN <<"allow">> ELSE <<>>
    /\ at # "done" => out = <<>>
    /\ call.cache = "off" \/ call.args # "good" => sent = <<>> /\ log = call.log

(* Nothing a rule names is left in what is sent or logged, and a long      *)
(* command is cut only once it is redacted (ParseEvent, runEnrichments).   *)
NothingBare ==
    /\ \A s \in Sent : /\ Clean(s.event.payload)
                       /\ \A i \in DOMAIN s.event.shell : ~Bare(s.event.shell[i].command)
                       /\ \A i \in DOMAIN s.event.mcp : ~Bare(s.event.mcp[i].command)
    /\ \A i \in DOMAIN log : ~Bare(log[i].message)

(* An event is sent at most once, with every credential and for the        *)
(* customer it names; one that did not get through left a line in the log. *)
(* The log starts again rather than grow, and keeps the newest line.       *)
Delivered ==
    /\ Len(sent) <= 1
    /\ \A s \in Sent : Ready /\ s.event.customer = pick("customer") /\ s.key = pick("key") /\ s.event.device # ""
    /\ Parsed /\ Ready /\ "panic" \notin odd /\ "disk" \notin call.may =>
          (\E s \in Sent : s.taken) \/ (log # <<>> /\ log[Len(log)].stage = "ingest")
    /\ Len(log) <= MaxErrorLog + 1 \/ log = call.log

(* What an event leaves out for want of time it says it leaves out.        *)
CutsAreNamed ==
    \A i \in DOMAIN ev :
      LET e == ev[i]
          past(stage) == at = stage \/ (Parsed /\ "panic" \notin odd)
          path == stringField(call.payload, "transcript_path")
      IN /\ \A p \in DOMAIN e.pm : e.pm[p].registry # call.registry => "package_manager" \in e.timeouts
         /\ past("scan") /\ ShellCommand(call.agent, e) # <<>> /\ e.mcp = <<>> /\ ClassifyShell(Typed) # <<>> => "mcp" \in e.timeouts
         /\ past("upload") /\ e.phase = "SessionEnd" /\ path \in DOMAIN call.files /\ "secret_scan" \notin e.timeouts =>
               /\ e.secrets # <<>>
               /\ \A j \in DOMAIN call.files[path] : j <= MaxFileItems /\ call.files[path][j].rules # {} =>
                     \E f \in e.secrets[1] : f.fingerprint = call.files[path][j].secret
         /\ \A j \in DOMAIN e.secrets : \A f, g \in e.secrets[j] : f.fingerprint = g.fingerprint => f = g

(* The package manager is the one in the command as it was typed, though   *)
(* it is looked for in the command as redacted.                            *)
SeenAsTyped ==
    \A i \in DOMAIN ev : ev[i].shell # <<>> =>
        {[manager |-> p.manager, kind |-> p.kind] : p \in {ev[i].pm[j] : j \in DOMAIN ev[i].pm}} = Detect(Typed)

(* The limits leave the upload some time of its own, unless what has no    *)
(* limit was late.                                                         *)
TimeToSend == at = "upload" /\ "late" \notin odd => left >= CapHook - ProbeTimeout - CapPM

HookHolds == StaysOutOfTheWay /\ NothingBare /\ Delivered /\ CutsAreNamed /\ SeenAsTyped /\ TimeToSend

(* A call ends once the agent closes stdin.                                *)
HookEnds == <>(at = "done" \/ call.stdin = "open")
=============================================================================
