# cosmos-mcp: models, checks and proofs

cosmos-mcp is an MCP server that answers questions about a Cosmos SDK chain. Each
of its tools is a *capability* that several *bindings* can answer: a gRPC method,
an LCD (REST) route or a JSON-RPC method, often in a newer and an older version of
the API. The server finds out at run time what the configured endpoints support,
and remembers it. This directory holds TLA+ modules of that machinery, TLC
configurations for small instances, and TLAPS proofs for all instances.

1. [The system](#1-the-system)
2. [Modules and code](#2-modules-and-code)
3. [Runs and bounds](#3-runs-and-bounds)
4. [Fairness](#4-fairness)
5. [Proofs](#5-proofs)
6. [Variants](#6-variants)
7. [Findings and observations](#7-findings-and-observations)
8. [Not modelled](#8-not-modelled)
9. [Plan](#9-plan)

To repeat a result, parse, check or prove in this directory:

    tlasany MCResolver.tla
    tlc -workers 2 -config MCResolver_safety.cfg MCResolver.tla
    tlapm ResolverProofs.tla

## 1. The system

| Component | State it keeps | Operations | What makes it correct |
|---|---|---|---|
| Capability resolver, `internal/cosmos/capability.go` | `cache` (capability to the binding that last answered), `unsupported` (capability to the end of its negative entry), one `RWMutex`; the locals of every running call | `Resolve`, `cachedUnsupported`, `cachedFirst`, `invoke`, `forget` | A capability is refused only on recent evidence; a binding is passed over only for a reason; support that appears is found; every call returns |
| gRPC reflection client, `grpc.go` | `descriptors` (service to descriptor, kept for ever), `missing` (service to the end of its absence), a second `RWMutex` | `HasMethod`, `Query`, `descriptorsForSymbol`, `fetchSymbol`, `Status` | All users see one descriptor; an absence is recent and expires; a failure is not an absence |
| HTTP and LCD client, `http.go`, `lcd.go` | none | `DoJSON`, `Get`, `IsRouteNotFound` | An absent route is told from an error of the application, an overload and a lost answer; the limit on the size of answers is exact |
| RPC client, `rpc.go` | none | `Call` | Errors keep their code |
| Judgement of errors, `errors.go`, `mapGRPCError` | none | the mapping of statuses to codes | A failure means the same whichever protocol it came by |
| Height pinning, `height.go`, `query_tools.go` | a value in the context of one call | `WithHeight`, `heightFrom`, `heightContext` | All parts of one answer are of one block |
| Tools that combine queries, `internal/server/query_tools.go` | locals of one call | `getTokenInfo`, `getInflation`, `getGovParams`, `chainStatus`, `simpleQuery` | No part is left out in silence; no failure becomes a warning; `source` is true |
| Search and pagination, `query_tools.go` | the walk of the caller | `searchTransactions`, `paginationValues` | A walk gives each transaction once |
| Endpoint check, `server.go`, `main.go` | `endpointStatusData`, written by a goroutine per endpoint | `CheckEndpoints`, `endpoint_status`, `validate` | Each endpoint is judged by its own answers, after the last one, in one timeout |
| Tool registration and handlers, `server.go`, `query_tools.go`, `module_tools.go` | none after startup | `registerTools`; per tool: validation, capability, bindings, arguments passed on | Every tool exposed can be served; a binding's name means one thing; a fallback asks the same question |
| Configuration, `internal/config/config.go` | the configuration while it is read | `Parse`, `Validate`, `parseBytes` | What is accepted is what was said last; sizes do not wrap |
| Command line, `cmd/cosmos-mcp/main.go` | none | `run`, `runServe`, `runValidate` | The exit code tells the truth; every run ends or serves |
| MCP transport | belongs to the SDK | the session on standard input and output | outside this repository |

How they interact. The SDK runs a goroutine for every tool call, so calls are
concurrent. A handler checks its arguments, puts the height into the context and
hands one or several capabilities, with their bindings in order of preference, to
the one `Resolver` of the process. The resolver asks `GRPCClient.HasMethod` before
it calls a gRPC method, and asks nothing before an LCD route or an RPC method. A
method or route that turns out to be missing leads to the next binding, any other
error ends the call, with the exception of reflection being unavailable. What the
resolver knows (`cache`, `unsupported`) lies on top of what the gRPC client knows
(`descriptors`, `missing`). Both are shared by all calls, each is guarded by a lock
of its own, and no lock is held while an endpoint is asked. A descriptor enters the
cache only after the files that describe it have been linked, imports first, into a
registry. At the other end, the command line reads a configuration, makes a client for
each endpoint it names, and then either checks the endpoints once (`validate`) or
registers the tools that those endpoints can serve and leaves the rest to the SDK
(`serve`).

What is hard.

- *Interleaving.* Between the read of a map and the write that follows from it other
  calls write the same map: an entry is refreshed before it is deleted, a binding
  is stored while another call forgets one, a negative entry is written after a
  positive answer, two lookups fetch the same descriptor.
- *Stale knowledge.* Chains are upgraded, so bindings appear and disappear while a
  call goes through them. There are three memories, one of them without an end.
- *Partial failure.* One binding, one version of reflection, one part of an answer
  or one endpoint fails; the rest of the call depends on what kind of failure it was.
- *Judging from outside.* "Absent" has to be told from "failed" by what arrives.
- *Time.* Two lifetimes, a budget per call, a timeout per request and one deadline
  over three requests.
- *Numbers.* Limits on bytes, on pages and on offsets; integers of 32 and 64 bits.
- *Keys without arguments.* Both memories of the resolver are kept by capability, the
  calls have arguments, and some routes contain them.
- *Input from outside.* The import graph of descriptor files comes from the endpoint.

`PROJECT.json` lists each such hazard at its line, with the properties that cover it.

## 2. Modules and code

    CapabilityPromise                what a caller of Resolve is promised
       ^ implemented by   Resolver         <- MCResolver
       ^ implemented by   Discovery        <- MCDiscovery
                          = Resolver + DescriptorCache
    DescriptorCache                  <- MCDescriptorCache
    UpstreamErrors                   <- MCUpstreamErrors
       extends DescriptorFiles
    ToolAnswers                      <- MCToolAnswers
    TransactionSearch                <- MCTransactionSearch
    Process                          <- MCProcess
       extends Configuration, Endpoints, Handlers

    ResolverProofs, DescriptorCacheProofs, DiscoveryProofs, UpstreamErrorsProofs,
    ToolAnswersProofs, TransactionSearchProofs, HandlersProofs, ProcessProofs:
    each extends the module in its name; DiscoveryProofs instantiates the proofs of
    both parts, ProcessProofs extends HandlersProofs

The modules cut the system at its interfaces. `Process` is the program from its start to
its exit; `Handlers` says which queries the tools of a session make, with which
bindings; `ToolAnswers` what a tool makes of the results of several queries;
`Resolver` how one query is resolved; `UpstreamErrors` how one attempt at a binding
is judged (missing, reflection unavailable, other error, answer), which is where
`Resolver` starts from; `DescriptorCache` what the gRPC client remembers.

**CapabilityPromise** is the abstract specification. It has calls and endpoints but no
maps, locks, probes or order. A call is *answered* only if an endpoint gives an answer
about its argument, *refused* only if there is an argument for which every binding could
not be found lately (`Staleness`), and *failed* only if an endpoint is in trouble, was
during the call, or lacks an RPC method, whose absence looks like any other error.

**Resolver.** `cache` and `unsupported` are the maps of the code. `pc[c]` says which
lock region or endpoint call of `Resolve` the call of `c` reaches next:

| `pc` | action | code |
|---|---|---|
| `check` | `CheckUnsupported` | `cachedUnsupported` up to `RUnlock`; a live entry ends the call |
| `expire` | `DropExpired` | the delete under the write lock, whatever the entry is by then |
| `order` | `CachedFirst` | `cachedFirst` |
| `loop` | `Attempt`, `Exhausted` | the next binding, or the end of the loop |
| `probe` | `Probed`, `Unreflected`, `ProbeFailed` | `HasMethod` returns to `invoke` |
| `query` | `Query` | the query returns to `invoke` |
| `forget` | `Forget` | `forget` |
| `store` | `Store` | the two writes after an answer, and the return |
| `remember` | `Remember` | the write of the negative entry, and the return |

The order of the loop is not kept as a list: `pending` is the set of bindings not
tried yet, and `Comes` says which of two comes first (the cached one, then the order
of the handler). A call has an `argument`, which the maps do not know. The endpoints are
three variables that `Change` sets to anything at any moment: `served` (for which
arguments a method or route exists; only a route can tell them apart), `reflected`
(methods `HasMethod` reports), `trouble` (requests may fail for other reasons). Time is
kept as ages that stop growing where nothing tells them apart any more;
`absence[b][a]`, the time for which `b` has now been available for `a` without a break,
exists for the properties alone. The refinement mapping (`Request`, `Result`, `Blamed`,
`Spent`, `Offered`, `Found`) lets a call have its result as soon as an answer is there
or no binding is left: what it then writes to the maps is its own business.

**DescriptorCache.** `descriptorsForSymbol` as `HasMethod` sees it. One step each for
the read of both maps under the read lock, the stream of reflection v1, the stream of
v1alpha, the parse-and-store and the record of an absence. A descriptor is the set of
methods it lists. `Backed` says why its denials can be believed.

**Discovery** instantiates both: the lookups are the callers, the node's methods are
those `served`, its failures are `trouble`. `Ask` is the call of `HasMethod`; `Answered`
is one step of both instances, the one that settles the lookup and moves `invoke` on.
The oracle `reflected` of `Resolver` is gone: what `HasMethod` says now comes from a
cache. The promise is the same, except that evidence may be as old as both lifetimes
together and that a method may be `Hidden`: its service is known by a descriptor
without it.

**DescriptorFiles.** The recursive `build` of `descriptorsForSymbol`: `building` is its
stack, `Visit` the range loop in any order, `Import` the recursion, `Register` the
return with `NewFile` and `RegisterFile`. A file linked into the program takes the place
of a received one (`RegisterLinked`) and may clash with what is registered. `Linkable` is
the definition the result is compared with.

**UpstreamErrors.** An attempt begins with a cause the client cannot see, the endpoint
replies in a way open to that cause, the end of the body may be lost with the
connection, and `Invoke` judges what was received. Bodies have a kind, a length and
the fields `IsRouteNotFound` looks at. The reader of an answer stops after `maxBytes+1`
bytes (`Asked`, the sum of two `int64`) and meets only an error that comes before them
(`ReadFails`); the error of reading the body of a failed request is dropped (`Kept`). A
gRPC method is called only after its descriptor has been fetched (`Reflect`, `Fetched`),
linked (`Link`, the steps of `DescriptorFiles`) and looked up (`HasMethod`). Its answer has
two lengths: that of the message, which the library compares with the limit (`StatusOf`),
and that of its JSON, which `query` does. A method that is a stream or takes another
message is refused before it is called, and an answer that cannot be written as JSON
after it.

**ToolAnswers.** One call of a tool. `HeightContext` refuses its height or puts it in the
context. `ResolvePart` resolves the next part with any result `Resolve` can have and
decides whether the call goes on; a request takes the height from the context if its
protocol does (`Carried`: the header of the LCD, the metadata of gRPC), and is answered
from that block, from the newest one if it has none, or not at all by a node that has
pruned the block. `NewBlock` and `Prune` come in between. An answer has any of the fields
that its tool looks for (`Fields`); that of the first governance query may have the whole
set of v1 or, in v1beta1, the groups that were not asked for. `Respond` builds the answer,
and `data` says of each field which part it was taken from.

**TransactionSearch.** A walk over many calls, each at the offset after the last
transaction received, with any limit. The arithmetic is that of `uint64`, with
`Modulus` in place of 2^64.

**Configuration.** `ReadVariable` reads the six variables in their order, `ReadFlag` any
flags, `EndOfArguments` trims and validates. `given` is what was read, so that the
result can be compared with what was said last. The grammars of URLs, durations and
sizes are classes of texts; the arithmetic of `parseBytes` is not abstracted.

**Endpoints.** One goroutine per configured endpoint, launched in the order of the
code; gRPC asks up to three services in turn under one deadline.

**Handlers.** `QueriesOf(in)` is the set of all queries the tools make of the arguments
`in`: the tool, the capability, whether the arguments pass validation, whether the
query is pinned to a height, and the bindings with their names, methods or paths and
the arguments they pass on. A value is the sequence of its parts between slashes. What a
handler writes for each protocol is kept apart, as it is in the code: the arguments in the
gRPC request; the path of the LCD route, piece by piece (`Fixed`, `Arg`, joined by `++`),
and its query; the parameters of JSON-RPC. What a binding passes on follows from these, and
its route is the path without the empty parts that `path.Join` drops (`Joined`). `SameRoute` says that two paths differ in parts of values alone; `Exposed` is
`registerTools`, `Allowed` the allowlists of the clients.

**Process.** One run: `Dispatch` reads the command, `Parse` is a step of
`Configuration`, `New` makes the clients, `Checking` is a step of `Endpoints`,
`PrintReport` the verdict of `validate`; `CallTool` is a call of a session whose
binding is remembered, `EndSession` its end.

## 3. Runs and bounds

| Run | Asks | Instance |
|---|---|---|
| `resolver_safety` | Are denials recent, are forgotten bindings really missing, do fallbacks have a reason? Does `Resolver` implement its promise? Is `Evidence` an invariant? | 2 callers, a capability with a gRPC and an LCD binding |
| `resolver_race` | Does every call return, and is support found again without a restart, though calls about different arguments write and delete each other's entries? | 2 callers, 2 arguments, one LCD binding, fair |
| `shared_refusal` | Is a call refused only on evidence about its own argument? **No**, F4 | 1 caller, 2 arguments, a gRPC and an LCD binding |
| `descriptors` | Do concurrent lookups share a descriptor, is an absence recent, does it expire? Is `Backed` an invariant? | 2 lookups, a service with 2 methods, fair |
| `discovery` | Does the resolver implement its promise on top of the descriptor cache? Is `Evidence` an invariant, is a queried method always known, and does each fallback and each forgotten binding have an excuse? | 2 callers, 2 methods of one service |
| `transient_fallback` | Does a temporary failure never lead to an older version? **No**, F1 | 1 caller, 2 services |
| `upgrade_unseen` | Is a method that an upgrade adds picked up? **No**, F2 | 2 capabilities of one service; the chain only adds methods |
| `verdicts` | Is "missing" said exactly of absent bindings, is the size limit exact, do failures keep their codes, is the registry built in order and exactly? | all kinds of answers, bodies below, at and over every limit, cut after any number of bytes, messages of two lengths; every import graph of 3 files and one linked in |
| `lost_error_body` | Is only an absent binding passed over when connections break? **No**, F3 | as above, one file |
| `tool_answers` | Is every part taken from its own answer or named in a warning, is no failure lost, is `source` true, do pinned parts agree? | each tool, every result of each part, 3 blocks that nodes may prune |
| `transaction_walk` | Does a walk give each transaction once? | integers of 4 bits, default limit 2, greatest limit 5 |
| `process` | Is an accepted configuration the one that was given? Is the report earned and in time, is the exit code true, does every run end or serve? Can every exposed tool be served, do names keep their meaning, do fallbacks ask the same question? | every command and environment, up to 2 arguments, any set of endpoints, a timeout of 2 ticks, 6 values |

Why the bounds are enough.

- `TTL = Budget = SymbolTTL = Timeout = 1` tick (but 2 in `process`): the proofs and the
  code use nothing of the real values (5 min, 45 s, 5 min, 15 s) but that time passes
  and that a deadline is kept. One tick is enough for an entry to be live, to expire,
  and to expire while a call is running. `Horizon` is one more than the longest age a
  property of the run mentions: 3 for `TTL + Budget`, 5 for `Staleness`.
- Two callers: every property speaks of one call and of the entries it reads, and one
  other caller, which may make any number of calls, can write and delete those entries
  in any order. The theorems hold for any number.
- Arguments: two where calls differ in them (`resolver_race`, `shared_refusal`), one
  elsewhere. The theorems hold for any number.
- One or two bindings: a third one adds nothing but longer loops. Longer preferences, RPC
  bindings and protocols that are not configured are left to the theorems, which
  hold for all `Preference`, `Protocol` and `Configured`; instances with two callers and
  three bindings are too large for a run of a few minutes.
- `discovery` uses `SteadySpec`: one of its two methods comes and goes, the other is
  there all the time or never. That is enough for a service to be known by a descriptor
  without a method, for it to be absent, and for both to race. The theorems are
  about `Spec`, where everything changes.
- Callers are interchangeable in `resolver_safety` and `discovery`, which use symmetry;
  runs with liveness do not. `CallsReturn` follows one of two callers, which are alike.
- `Limits = {2, 4}` with `MaxInt = 4`, `MaxInt32 = 3`, `ErrorBodyLimit = 1` and lengths 1
  to 4 put bodies below, at, one over and further over each limit; one limit is the
  greatest integer, where `maxBytes+1` wraps, and is over what gRPC takes.
- Three blocks: one before, at and after the height asked for, so that it can be pruned,
  there, or still to come while the chain grows past it.
- Three descriptor files have every kind of import graph there is up to circles of
  three, and one more file is linked in. The theorems hold for any number.
- `process`: 15 is the greatest integer, so a size of 15 fits exactly and one of 36
  would wrap to a small positive one. Two arguments let a flag repeat, override a variable and
  empty an endpoint. `SomeValues` are two names, a blank and denominations with one part,
  none and two after `ibc/`. The theorems hold for any values. `CallTool` remembers one binding, and the properties
  look at every query that may come next.
- The walk stops one short of the greatest offset. There, with a limit of 1, the number
  of the page wraps to 0.
- Nothing else is bounded. Runs in which a call, a walk or the program ends say
  `CHECK_DEADLOCK FALSE`; the resolver and the caches never stop.

## 4. Fairness

Weak fairness of the steps of each running call, because a goroutine that can run is
run by the Go scheduler and every wait for an endpoint ends with its context at the
latest; and weak fairness of the clock. Nothing makes a client start a call, and
nothing makes an endpoint change or recover. The liveness properties therefore say
"if it stays available" and "if calls are made". `Tick` is held back while a call has
used up its budget: that is `context.WithTimeout`, which ends the wait for the
endpoint, and the assumption that what is left of the call takes no time.

In `Process` the program goes on by itself: it reads, launches its goroutines, lets
deadlines expire, reports and exits. Answers of endpoints are not fair, because an endpoint
may hang for ever, and neither are the calls of a client or the end of a session.
`EndsOrServes` holds nevertheless, because every request has the deadline of its client.

## 5. Proofs

| Module | Theorems | Say |
|---|---|---|
| `ResolverProofs` | `TypeCorrect`, `EvidenceHolds` | types, and the inductive invariant `Evidence` |
| | `DenialsAreRecent` | no caller is refused on evidence older than `TTL + Budget` |
| | `ForgottenWereMissing` | a remembered binding is given up only after it was itself unavailable |
| | `FallbacksHaveReason` | every binding before the one that answers was unavailable, or reflection failed |
| | `PromiseKept` | `Resolver` implements `CapabilityPromise` |
| `DescriptorCacheProofs` | `KnowledgeTyped`, `AbsencesAreBacked` | types, and the inductive invariant `Backed` |
| | `AbsencesAreRecent` | no lookup calls a service absent on evidence older than `SymbolTTL + Timeout` |
| | `DescriptorsAreShared` | all lookups use one descriptor of a service |
| `DiscoveryProofs` | `PartsFit` | both parts keep their types, and a lookup runs exactly inside a probe |
| | `QueriesAreKnown` | a method is called only while a cached descriptor lists it |
| | `EvidenceIsKept` | the inductive invariant `Evidence` of the composition |
| | `PromiseKept` | the composition implements `CapabilityPromise` |
| | `FallbacksAreExcused` | a binding answers only if each one before it was unavailable within the lifetimes of what the client remembers, is hidden, or reflection failed |
| | `ForgottenAreExcused` | a remembered binding is given up only for such a reason of its own |
| | `ClientIsDescriptorCache` | the composition implements `DescriptorCache` as well |
| | `LookupsAgree` | so what holds of its lookups alone holds below the resolver |
| `UpstreamErrorsProofs` | `BuildsAreOrderly`, `BuildsAreExact` | the registry, for every import graph and order |
| | `VerdictsAreRight`, `LimitsAreExact`, `FailuresKeepTheirCodes` | how answers are judged, for all limits and lengths |
| `ToolAnswersProofs` | `FailuresAreReported`, `PinnedPartsDoAgree`, `PartsAreAccountedFor`, `SourcesAreTrue` | what an answer says of its parts and where they came from |
| `TransactionSearchProofs` | `WalkIsExact` | a walk through a search gives each transaction once |
| `ProcessProofs` | `ChecksFit`, `ReportsAreEarned`, `ChecksArePrompt`, `ExitsTellTheTruth` | the check of the endpoints and the exit code |
| | `ConfigurationIsAsGiven` | what is accepted is what was said last, and refusals have a reason |
| | `ToolsHaveEndpoints` | exactly the tools that can be served are exposed |
| | `FallbacksAskTheSame` | all bindings of a query pass on the same arguments |
| | `MemoriesKeepTheirMeaning` | a remembered binding stands for one method or route in all later calls |

The theorems are for all values of the constants under the named assumptions of the
modules: `None` is not a value of anything else; lifetimes and budgets are numbers and
`Horizon`, a device of the model, is greater than their sum; protocols are the three of
the code; a handler names each binding once; limits and lengths are positive and fit
their integers; linked-in files are files; the texts of settings are of the classes
the module lists; the values of arguments have at least one part, and one of them is an
address that is accepted (else some tools would have no query at all).

*`ResolverProofs`.* A denial is one step, but its reason lies in earlier steps, of
other calls perhaps. `DenialIsRecent` follows from what holds at the moment of the
denial, and that has to be carried along: a call that runs can account for every binding
it has left behind (`AttemptedWereMissing`: each was unavailable since the call began,
unless reflection failed); when it writes the negative entry it has left behind all of
them, so an entry in force is backed, for the argument of that call, for each of its
bindings up to its own age plus `Budget` (`EntryIsBacked`), and stays so as both ages
grow together. `LocalsFit` ties the locals to the place of the call,
`UnavailableIsRecorded` the clock of `absence` to the endpoints, `TriedInOrder` the set
of untried bindings to the order of the loop; the last rests on `Comes` being
antisymmetric, which is where a repeated binding would break. `CheckUnsupported`,
`Forget` and `Store` then give the three action properties, with `EndingSteps` saying
which actions can end a call. For `PromiseKept`, `CallFits` adds that the clock of a call
stands still when it is over and that only configured clients are asked; then each
action is a step of the promise (`RefusePromise`, `AnswerPromise`, `FailPromise`, ...) or
a stutter, as `Stutters` says of those that change nothing the promise sees.

*`DescriptorCacheProofs`.* `Backed` has the same shape one level down: a lookup that was
told that its service does not exist was told so since it began, and an entry in
force is no older than its age plus the duration of the lookup that wrote it.

*`DiscoveryProofs`.* A step of the composition is a step of each part or leaves it
alone (`ClientStep`, `ResolverStep`), so the theorems of the parts are taken over by
instantiating their proof modules; `SameClient` and `SameResolver` say that the
definitions agree. `Known` is the inductive invariant of `QueriedMethodIsKnown`: it needs
that a lookup asks for the method its call is trying, and that descriptors stay.

`Evidence` of the composition links the two memories.
`ServiceComesFirst` says that no binding has been there longer than its service, so
what the client remembers of a service says something of its methods; from it and `Backed`,
`LacksIsExcused` shows that a lookup which denies a method rests on an absence no older
than `Slack = SymbolTTL + Timeout`, or on a descriptor that hides it. `HiddenGrows`
lets the second excuse last. From there the argument is that of the resolver, with
`Slack` added to every age. Each step is then a step of the promise, or the `Learn` with
which the client comes to hide a method.

The excuse of a fallback needs one thing more: the call stands at the binding that answers,
so those before it are no longer pending. `OrderIsStrict`, `OrderKept` and `InOrder` show
that `TriedInOrder`, which was proved for the resolver alone, holds in the composition too;
`AttemptsAreExcused` does the rest. `ClientIsDescriptorCache` is the second refinement: seen from
the variables of the client, each step is one of `DescriptorCache` or a stutter.

*`UpstreamErrorsProofs`.* `FilesFit` says that the stack of running calls of `build`
is a path of imports without repetition, that the registered files are valid with their
imports registered, and that no set of them imports only within itself (`Grounded`: a
file is registered after its imports, so files registered later cannot close a
circle). A repetition on the stack is a circle, so the files cannot be linked
(`CircleIsUnlinkable`); and at the end every received file is registered
(`NoneForgotten`), so they can. `VerdictFits` says that a judged reply has the verdict of its cause
(`Sound`), one lemma per kind of reply. `LimitsAreExact` follows from what the reader
gets: if more than the limit arrived it has read `maxBytes+1` bytes and no error, whatever
came after, and otherwise it has met the end of the body or the error.

*`ToolAnswersProofs`.* `CallFits` says that the context holds nothing or the height of the
call, that every part asked for belongs to the tool and has a result `Resolve` can have
(`PartFits`), that with a height it was read from that block, and that all failures so far were
tolerated. The block is shown in `OutcomeFits`: a part is asked for only when the height is in
the context, over protocols that carry it, and of nodes that still have the block. `InOrder` says that parts are asked in their order; `AnswerFits` that an answer is the one
the results call for, with each field from the part named (`Contents`). `SourcesFit` adds that each part found has a source, the sync state that of
the node information; `CommonSource` compares each source with the first, and
`CommonSourceIsCommon` shows that it says "mixed" exactly if two differ.

*`TransactionSearchProofs`.* `Walked` says that exactly the transactions from the first
offset to the next have been received. The step needs `PageStartsAtOffset`: the page computed
from an aligned offset starts there, which rests on `AlignedOffset` (a multiple of the limit
is its quotient times the limit) and on the guard against the wrap.

*`ProcessProofs`.* `CheckFits` ties what each goroutine has heard and written to its place,
the deadlines to each other and the report to the data. `RunFits` adds the run: a
check begins with at least one endpoint, because an accepted configuration names one,
and an exit code 0 of `validate` comes after a good report. `Parsed` says that the
configuration under construction is at every moment the one that was said last
(`Faithful`), before and after trimming. `Remembered` says that what a session remembers is
a binding of some query it could make. That is all `MemoriesKeepTheirMeaning` needs to know of
the run; the rest is about the table of queries.

*`HandlersProofs`.* The table has some forty-five queries with any values in their routes, and
two things are proved of it. `QueriesFit`: each query goes over exactly the protocols of its
kind of tool, the clients let its bindings pass, their names differ and they pass on the
same arguments. The request and the path with its query are written separately, so the last
has to be shown for each handler: the lemmas for each form of a list (`TwoFit`, `GovFits`,
`TraceFits`, ...) assume that the arguments in the request are those in the pieces of the
path or in the query (`Whole`), and the lemmas for each group of tools show that query by
query. `QueriesAlike`: two queries of one capability have lists
that are the same for a session (`Alike`). Across groups the capabilities differ
(`KeysDiffer`). Within a group both lists come from the same handler with two sets of
arguments, and the routes match because an argument in a route has been accepted and so
has exactly one part (`SafePath`, `TwinPaths`). That fails for denominations, which is why
their routes are the exception in the property. `ToolCalls` adds that every tool has a query
that is accepted.

*Only model-checked:*

- liveness (`CallsReturn`, `RecoversWithoutRestart`, `AbsenceExpires`, `EndsOrServes`) and the
  four refutations of section 7: fairness and `ENABLED` are out of the prover's reach.

Every invariant and every other action property that a passing run checks is also a theorem.

## 6. Variants

Next to some definitions stands a variant (`LiveForever`, `ForgetAll`, `BuildReplacing`,
`IsRouteNotFoundByCode`, ...), marked as such in its comment. No specification uses
one. Each is a mistake that could be made in the code at that place: a lifetime that is
not looked at, a comparison left out, an error taken for an absence, a limit off by
one. Put in the place of the definition it stands before, it breaks a property; that
shows what each property notices. `PROJECT.json` pairs them.

## 7. Findings and observations

**F1. A temporary failure can lead to an older version** (`transient_fallback`).
The repository's README.md:151 says "Temporary endpoint failures, authentication failures,
rate limits, and server errors do not trigger a version fallback." `fetchSymbol` returns
`grpc_reflection_unavailable` for every failure of both streams that is not
`NotFound` (`grpc.go:363`), and `Resolve` goes on to the next binding with that code
(`capability.go:95-98`). The trace: the endpoint fails while asked for the service of
the newer version and recovers before the older one is asked; the older one answers, and
is cached and tried first from then on. `FallbackHasReason` is what does hold: the
failure of reflection is the only other reason.

**F2. An added method is not seen until a restart** (`upgrade_unseen`).
`capability.go:115-116` says "The entry expires after negativeCacheTTL so support added to
the chain later is picked up without restarting the server." It is, for a service that was
absent (`RecoversWithoutRestart`, `AbsenceExpires`). A service whose descriptor
has been fetched is never asked for again (`grpc.go:245-247`), so a method that an upgrade
adds to it stays missing for `HasMethod`; the negative entry expires and is written again.

**F3. A lost body passes for an absent route** (`lost_error_body`).
`http.go:54-55` calls absence "the only condition that may fall through to the next
binding". `DoJSON` drops the error of reading the body of a failed request
(`http.go:137`). If the connection of a 404 of the application breaks before the first
byte of the body, the body is empty, which `IsRouteNotFound` takes for a routing miss
(`http.go:83-86`). `MissingIffAbsent` holds as long as answers arrive whole.

**F4. A refusal is shared by all arguments** (`shared_refusal`). `capability.go:11-12`
says "a confirmed-unsupported capability is remembered" and `capability.go:113-114` speaks
of one "that every configured binding recently and definitively failed". The key of the negative entry is
the capability (`capability.go:107`). The slashes of a denomination become part of the
path of an LCD route (`lcd.go:57-58`, `query_tools.go:247`), so the route may be absent for one
denomination and there for another. The trace: a call about the first is refused, and a
call about the second is refused from the entry, though none of its bindings
failed. `DenialIsRecent` is what does hold: the evidence is recent, but may be
about another argument. `RememberedKeepsItsMeaning` shows that no other route changes its
shape with an argument but those of the metadata and the trace of a denomination.

Observations, which contradict no text of the repository:

- An answer over HTTP that breaks after `maxBytes+1` bytes is reported as too large, one that
  breaks before as `upstream_error`: what comes after the limit is not read
  (`http.go:141-148`). Over gRPC an answer may pass as a message and be too large as JSON, or
  the other way round; both are refused (`grpc.go:65-67`, `153`).
- With `--max-response-bytes` at 2^63-1, which the configuration accepts, `maxBytes+1`
  overflows, the limited reader reads nothing and every answer over HTTP is refused as
  invalid JSON. Over gRPC a limit above 2^31-1 is cut to that.
- A deadline that passes while the body is being read is reported as `upstream_error`, one
  that passes before as `upstream_timeout` (`http.go:143`, `123-127`).
- `ResourceExhausted` is reported as an answer over the size limit (`grpc.go:388`); it is
  also what rate limits say.
- A reflection server that leaves out the imports of a file, or sends one file that cannot be
  linked, makes the call fail with `upstream_error`; no LCD route is tried (`grpc.go:303-307`).
- The voting parameters of v1beta1 come with the deposit and tally groups, which have zero
  values. They are lifted into the data (`query_tools.go:500`), and stay there if the query of
  such a group finds nothing; a warning then says that the group is unavailable.
- A group that was answered without its field is `null` in the data, and no warning says so
  (`query_tools.go:520`).
- The parts of the governance parameters may come from different versions of the API
  if reflection fails or the chain is upgraded between them (`query_tools.go:512`).
- A limit of up to 200 is passed as `per_page`; with a node that allows less, page numbers
  computed from the limit skip transactions (`query_tools.go:739`).
- A fresh negative entry can be deleted by a call that read the expired one before it
  (`capability.go:126-129`). The price is a round of probes.
- A malformed variable of the environment ends the program even if a flag gives that
  setting a good value, and `serve --help` ends it with exit code 1.
- The denomination `ibc/` has an empty hash, so its trace is asked of the route that lists
  traces (`query_tools.go:247`, `lcd.go:57`).

## 8. Not modelled

- Encoding and decoding of protobuf and JSON (`rpc.go`, the second half of `grpc.go`),
  and normalisation of answers: moves of fields that keep no state and are
  covered by table tests. This is why the reflection client counts as partly modelled.
- The tools that pass a query of the client on (`rpc_query`, `lcd_query`, `grpc_query`)
  beyond their exposure: the client asks one endpoint and judges the answer as
  `UpstreamErrors` has it.
- The grammars of URLs, durations and sizes, and the escaping of paths: `Configuration`
  and `Handlers` have classes of texts and values. What the LCD client refuses for itself,
  a part `.` or `..` and a parameter that the configured URL fixes (`lcd.go:46-61`), is left
  out with them.
- The MCP session: it belongs to the SDK. Calls may be concurrent, and a session may
  end at any moment.
- A client that cancels its call: for `Resolve` a cancelled context is one more failure
  of an endpoint, which `trouble` includes.
- Nothing is written to disk. A restart begins with empty memories, which is the
  initial state of every module.

## 9. Plan

The plan of the core (`Resolver` with its proofs, `DescriptorCache`, their composition, the
interfaces below and above) and of its extension (the abstract specification, arguments,
descriptor files, the program from start to exit, proofs for every module) is done. What
is left, in the order of what matters most:

1. *`ToolAnswers` over `Resolver`*: the parts of one answer resolved by calls that share
   the memories of the process, so that F4 and mixed versions show in the answer.
2. *Normalisation of pagination*: the two shapes in which nodes give the next key and
   the total, against what the caller passes back.
3. *Longer preferences*: governance has four bindings, which the theorems cover and no run
   shows; one caller would do.
