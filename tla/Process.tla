------------------------------- MODULE Process -------------------------------
(***************************************************************************)
(* One run of the program (cmd/cosmos-mcp/main.go, New and registerTools   *)
(* of internal/server/server.go): the command, its configuration, and then *)
(* the check of the endpoints or a session of tools.                       *)
(***************************************************************************)
EXTENDS Configuration, Endpoints, Handlers

VARIABLES
    command,    \* the first argument, "none" before it is read
    phase,      \* "started", "parsing", "checking", "serving" or "exited"
    exit,       \* the exit code, if it has exited
    memory      \* a binding that a session has remembered, and for what

pvars == <<given, cfg, parsing, configured, data, asking, elapsed, answers, waited, report,
           command, phase, exit, memory>>

NoMemory == [capability |-> "none"]

PInit ==
    /\ CInit /\ EInit
    /\ command = "none" /\ phase = "started" /\ exit = 0 /\ memory = NoMemory

-----------------------------------------------------------------------------
Exit(code) == phase' = "exited" /\ exit' = code

\* No command and an unknown one are errors; version and help print and end.
Dispatch ==
    /\ phase = "started"
    /\ \E c \in {"serve", "validate", "version", "help", "unknown", "missing"} :
           /\ command' = c
           /\ CASE c \in {"serve", "validate"} -> phase' = "parsing" /\ UNCHANGED exit
                [] c \in {"version", "help"} -> Exit(0)
                [] c \in {"unknown", "missing"} -> Exit(1)
    /\ UNCHANGED <<cvars, evars, memory>>

Parse == phase = "parsing" /\ CNext /\ UNCHANGED <<evars, command, phase, exit, memory>>

Refuse ==
    /\ phase = "parsing" /\ parsing = "failed" /\ Exit(1)
    /\ ForgetConfiguration
    /\ UNCHANGED <<evars, command, memory>>

\* The endpoints for which New makes a client.
Clients == {p \in Cosmos :
    cfg[CASE p = "rpc" -> "rpc-url" [] p = "grpc" -> "grpc-target" [] p = "lcd" -> "lcd-url"] # "empty"}

\* New; the libraries may refuse an endpoint that Validate let pass.
New ==
    /\ phase = "parsing" /\ parsing = "accepted"
    /\ \/ Begin(Clients) /\ phase' = (IF command = "serve" THEN "serving" ELSE "checking")
          /\ UNCHANGED exit
       \/ Exit(1) /\ UNCHANGED evars
    /\ ForgetConfiguration
    /\ UNCHANGED <<command, memory>>

Checking(step) ==
    phase = "checking" /\ step /\ UNCHANGED <<cvars, command, phase, exit, memory>>

\* Variant: the report decides nothing.
VerdictPrinted(written) == IF written THEN 0 ELSE 1

\* The report may fail to be written.
Verdict(written) == IF written /\ report.all THEN 0 ELSE 1

PrintReport ==
    /\ phase = "checking" /\ report # NoReport
    /\ \E written \in BOOLEAN : Exit(Verdict(written))
    /\ UNCHANGED <<cvars, evars, command, memory>>

\* A query of a tool is answered by a binding, which is remembered by its name.
\* One such call is followed; the properties look at all calls that may come next.
CallTool ==
    /\ phase = "serving" /\ memory = NoMemory
    /\ \E q \in Asked(configured) :
           /\ q.tool \in Exposed(configured)
           /\ \E i \in Usable(q, configured) :
                  memory' = [capability |-> q.capability, binding |-> q.bindings[i]]
    /\ UNCHANGED <<cvars, evars, command, phase, exit>>

\* The session ends when its client leaves, or with a signal or an error.
EndSession ==
    /\ phase = "serving"
    /\ \E code \in {0, 1} : Exit(code)
    /\ UNCHANGED <<cvars, evars, command, memory>>

PNext == Dispatch \/ Parse \/ Refuse \/ New \/ Checking(ENext) \/ PrintReport \/ CallTool \/ EndSession

\* The program goes on by itself, except that only the endpoints decide whether
\* they answer, and only the client what it calls.
Fairness ==
    /\ WF_pvars(Dispatch \/ Refuse \/ New \/ PrintReport)
    /\ WF_pvars(Parse)
    /\ \A p \in Protocols : WF_pvars(Checking(Launch(p))) /\ WF_pvars(Checking(Expire(p)))
    /\ WF_pvars(Checking(Report)) /\ WF_pvars(Checking(Tick))

PSpec == PInit /\ [][PNext]_pvars /\ Fairness

-----------------------------------------------------------------------------
\* The program says that all is well (validate, exit code 0) only of a server
\* with at least one endpoint, after every configured endpoint answered; and
\* when they all did and it could say so, it does (main.go:68-90).
ExitTellsTheTruth ==
    phase = "exited" /\ command = "validate" =>
       /\ exit = 0 => /\ configured # {} /\ report # NoReport
                      /\ \A p \in configured : "ok" \in Heard(p)
       /\ report # NoReport /\ (\E p \in configured : "ok" \notin Heard(p)) => exit = 1

\* Every run ends by itself or becomes a session, however many endpoints hang
\* (http.go:121, grpc.go:79, main.go:76-77).
EndsOrServes == <>(phase \in {"exited", "serving"})

\* Only tools backed by configured endpoints are exposed (README.md:133,
\* server.go:216), and all of them: every query of an exposed tool has a binding
\* over a configured endpoint that the client lets pass, and no tool is hidden
\* that could be served (server.go:235-286, rpc.go:104-118, grpc.go:200-213).
ToolsAreBacked ==
    phase = "serving" /\ memory = NoMemory =>
       /\ \A q \in Asked(configured) : q.tool \in Exposed(configured) <=> Usable(q, configured) # {}
       /\ Exposed(configured) \ {"endpoint_status"} =
             {q.tool : q \in {r \in Asked(configured) : Usable(r, configured) # {}}}
                \cup {RawTool(via) : via \in configured}

\* What a call has remembered for a capability means the same for every later
\* call of that capability: a name stands for one binding, with one method or
\* route, whatever tool and arguments the call has.  The resolver counts on it
\* when it tries the remembered binding first and when it refuses a capability
\* for all (capability.go:75, 107).  A route differs in the arguments alone; only
\* denominations change it, as their slashes are part of the path
\* (query_tools.go:34-41, 247).
RememberedKeepsItsMeaning ==
    memory # NoMemory =>
       \A q \in Asked(configured) : q.capability = memory.capability =>
          \E i \in DOMAIN q.bindings :
             /\ {j \in DOMAIN q.bindings : q.bindings[j].name = memory.binding.name} = {i}
             /\ \/ SameRoute(q.bindings[i].target, memory.binding.target)
                \/ /\ memory.binding.via = "lcd"
                   /\ q.capability \in {"token_metadata", "denom_trace"}

\* Whichever binding answers, it was asked the whole question: each binding of a
\* query passes on the same arguments, and the height of a pinned query with
\* them, so that a fallback never answers another question (height.go,
\* query_tools.go:45-71).
FallbackAsksTheSame ==
    phase = "serving" /\ memory = NoMemory =>
       \A q \in Asked(configured) : Cardinality({Carried(q, b) : b \in Range(q.bindings)}) = 1

=============================================================================
