---------------------------- MODULE ProcessProofs ----------------------------
(* The check of the endpoints and the verdict of the validate command, for   *)
(* every configuration that can be given and every timeout.                  *)
EXTENDS Process, HandlersProofs, TLAPS

LEMMA LaunchFits == ASSUME CheckFits, NEW p \in Protocols, Launch(p) PROVE CheckFits'
<1> USE TimeoutAssumption DEF CheckFits, Launch
<1>1. asking[p] = "none" /\ First[p] \in Own(p) /\ First[p] \in Requests
      /\ First[p] \notin {"none", "done", "v1", "v1alpha"}
  BY DEF Protocols, First, Own, Requests
<1>2. CheckTyped'
  BY <1>1 DEF CheckTyped
<1>3. ASSUME NEW q \in Protocols PROVE GoroutineFits(q)'
  <2>1. CASE q = p
    <3>1. asking'[q] = First[p] /\ UNCHANGED <<answers, configured>>
      BY <2>1 DEF CheckTyped
    <3>2. "ok" \notin Heard(q)
      BY <1>1, <2>1 DEF GoroutineFits, Heard, Own
    <3> QED BY <1>1, <2>1, <3>1, <3>2 DEF GoroutineFits, Heard, Own, Running, Requests
  <2>2. CASE q # p
    BY <2>2 DEF CheckTyped, GoroutineFits, Heard, Running
  <2> QED BY <2>1, <2>2
<1>4. HealthComesFirst'
  BY <1>1 DEF CheckTyped, HealthComesFirst, Protocols
<1>5. ClocksAgree'
  BY <1>1 DEF CheckTyped, ClocksAgree, GoroutineFits, Launched, Running
<1>6. ReportIsFinal'
  BY <1>1 DEF ReportIsFinal, Finished
<1> QED BY <1>2, <1>3, <1>4, <1>5, <1>6

\* What both ways to conclude have in common.
LEMMA ConcludeFits ==
  ASSUME CheckFits, NEW p \in Protocols, Running(p), NEW s \in {"available", "unavailable"},
         Conclude(p, s), UNCHANGED <<configured, elapsed, waited, report>>
  PROVE  /\ configured' \subseteq Protocols
         /\ data' \in [Protocols -> {"not_configured", "checking", "available", "unavailable"}]
         /\ asking' \in [Protocols -> Requests \cup {"none", "done"}]
         /\ elapsed' \in [Protocols -> 0 .. Timeout] /\ waited' \in 0 .. Timeout
         /\ ClocksAgree' /\ ReportIsFinal'
<1> USE DEF CheckFits, CheckTyped, Conclude
<1>1. asking[p] \notin {"none", "done"}
  BY DEF Running, Requests
<1>2. ClocksAgree'
  BY <1>1 DEF ClocksAgree, Launched, Running, Requests
<1>3. ReportIsFinal'
  <2>1. p \in configured
    BY <1>1 DEF GoroutineFits
  <2>2. report = NoReport
    BY <1>1, <2>1 DEF ReportIsFinal, Finished
  <2> QED BY <2>2 DEF ReportIsFinal
<1> QED BY <1>2, <1>3

LEMMA ExpireFits == ASSUME CheckFits, NEW p \in Protocols, Expire(p) PROVE CheckFits'
<1> USE DEF CheckFits, Expire
<1>1. CheckTyped' /\ ClocksAgree' /\ ReportIsFinal'
  BY ConcludeFits DEF CheckTyped
<1>2. ASSUME NEW q \in Protocols PROVE GoroutineFits(q)'
  BY <1>2 DEF CheckTyped, Conclude, GoroutineFits, Heard, Running, Requests
<1>3. HealthComesFirst'
  BY DEF CheckTyped, Conclude, HealthComesFirst, Protocols
<1> QED BY <1>1, <1>2, <1>3

LEMMA OwnIsOwn == \A p, q \in Protocols : p # q => Own(p) \cap Own(q) = {}
  BY DEF Protocols, Own

LEMMA AnswerFits == ASSUME CheckFits, NEW p \in Protocols, Answer(p) PROVE CheckFits'
<1> USE DEF CheckFits
<1>1. PICK r \in Requests : r = asking[p] /\ \E a \in Answers(r) :
           /\ answers' = [answers EXCEPT ![r] = a]
           /\ IF a = "ok" THEN Conclude(p, "available") /\ UNCHANGED elapsed
              ELSE IF Following(r, a) = "none"
              THEN Conclude(p, "unavailable") /\ UNCHANGED elapsed
              ELSE /\ asking' = [asking EXCEPT ![p] = Following(r, a)]
                   /\ elapsed' = [elapsed EXCEPT ![p] = AgeAfter(p)]
                   /\ UNCHANGED data
  BY DEF Answer
<1>2. PICK a \in Answers(r) :
           /\ answers' = [answers EXCEPT ![r] = a]
           /\ IF a = "ok" THEN Conclude(p, "available") /\ UNCHANGED elapsed
              ELSE IF Following(r, a) = "none"
              THEN Conclude(p, "unavailable") /\ UNCHANGED elapsed
              ELSE /\ asking' = [asking EXCEPT ![p] = Following(r, a)]
                   /\ elapsed' = [elapsed EXCEPT ![p] = AgeAfter(p)]
                   /\ UNCHANGED data
  BY <1>1
<1>3. UNCHANGED <<configured, waited, report>> /\ Running(p)
  BY DEF Answer
<1>4. r \in Own(p) /\ "ok" \notin Heard(p) /\ p \in configured /\ r \notin {"none", "done"}
  BY <1>1, <1>3 DEF GoroutineFits, Running, Requests
<1>5. answers' \in [Requests -> {"none", "ok", "failing", "unimplemented"}]
  BY <1>2 DEF CheckTyped, Answers
<1>6. \A q \in Protocols \ {p} : \A o \in Own(q) : answers'[o] = answers[o]
  BY <1>2, <1>4, OwnIsOwn DEF CheckTyped
<1>7. Own(p) \subseteq Requests
  BY DEF Own, Requests, Protocols
<1>8. CASE a = "ok" \/ Following(r, a) = "none"
  <2>1. PICK s \in {"available", "unavailable"} :
              Conclude(p, s) /\ (s = "available" <=> a = "ok") /\ UNCHANGED elapsed
    BY <1>2, <1>8
  <2>2. /\ CheckTyped' /\ ClocksAgree' /\ ReportIsFinal'
    BY <1>3, <1>5, <2>1, ConcludeFits DEF CheckTyped
  <2>3. ASSUME NEW q \in Protocols PROVE GoroutineFits(q)'
    <3>1. CASE q # p
      <4>1. asking'[q] = asking[q] /\ data'[q] = data[q] /\ elapsed'[q] = elapsed[q]
        BY <2>1, <3>1 DEF CheckTyped, Conclude
      <4>2. \A o \in Own(q) : answers'[o] = answers[o]
        BY <1>6, <3>1
      <4> QED BY <1>3, <4>1, <4>2 DEF GoroutineFits, Heard, Running
    <3>2. CASE q = p
      <4>1. asking'[p] = "done" /\ data'[p] = s
        BY <2>1 DEF CheckTyped, Conclude
      <4>2. "ok" \in Heard(p)' <=> a = "ok"
        BY <1>2, <1>4, <1>7 DEF CheckTyped, Heard
      <4> QED BY <1>3, <1>4, <2>1, <3>2, <4>1, <4>2 DEF GoroutineFits, Running, Requests
    <3> QED BY <3>1, <3>2
  <2>4. HealthComesFirst'
    <3>1. "grpc" \in Protocols /\ {"health", "v1", "v1alpha"} \subseteq Requests
      BY DEF Protocols, Requests
    <3>2. CASE p = "grpc"
      BY <1>1, <1>2, <1>4, <2>1, <3>1, <3>2 DEF CheckTyped, Conclude, HealthComesFirst, Own, GoroutineFits, Heard
    <3>3. CASE p # "grpc"
      BY <1>6, <2>1, <3>1, <3>3 DEF CheckTyped, Conclude, HealthComesFirst, Own
    <3> QED BY <3>2, <3>3
  <2> QED BY <2>2, <2>3, <2>4
<1>9. CASE a # "ok" /\ Following(r, a) # "none"
  <2>1. /\ asking' = [asking EXCEPT ![p] = Following(r, a)]
        /\ elapsed' = [elapsed EXCEPT ![p] = elapsed[p]] /\ UNCHANGED data
    BY <1>2, <1>9 DEF AgeAfter
  <2>2. p = "grpc" /\ \/ r = "health" /\ a = "unimplemented" /\ Following(r, a) = "v1"
                      \/ r = "v1" /\ Following(r, a) = "v1alpha"
    BY <1>4, <1>9 DEF Following, Own, Protocols
  <2>3. /\ Following(r, a) \in {"v1", "v1alpha"} /\ asking'[p] = Following(r, a)
        /\ elapsed' = elapsed
    BY <2>1, <2>2 DEF CheckTyped
  <2>4. CheckTyped'
    BY <1>3, <1>5, <2>1, <2>3 DEF CheckTyped, Requests
  <2>5. ASSUME NEW q \in Protocols PROVE GoroutineFits(q)'
    <3>1. CASE q # p
      <4>1. asking'[q] = asking[q] /\ data'[q] = data[q] /\ elapsed'[q] = elapsed[q]
        BY <2>1, <2>3, <3>1 DEF CheckTyped
      <4>2. \A o \in Own(q) : answers'[o] = answers[o]
        BY <1>6, <3>1
      <4> QED BY <1>3, <4>1, <4>2 DEF GoroutineFits, Heard, Running
    <3>2. CASE q = p
      <4>1. "ok" \notin Heard(p)'
        BY <1>2, <1>4, <1>7, <1>9 DEF CheckTyped, Heard
      <4> QED BY <1>3, <1>4, <2>2, <2>3, <3>2, <4>1 DEF GoroutineFits, Running, Own
    <3> QED BY <3>1, <3>2
  <2>6. HealthComesFirst'
    <3>1. {"health", "v1", "v1alpha"} \subseteq Requests
      BY DEF Requests
    <3> QED BY <1>1, <1>2, <1>4, <1>9, <2>2, <2>3, <3>1 DEF CheckTyped, HealthComesFirst, Heard, Own
  <2>7. ClocksAgree'
    BY <1>1, <1>3, <1>4, <2>1, <2>3 DEF CheckTyped, ClocksAgree, Launched, Running, Requests
  <2>8. ReportIsFinal'
    BY <1>1, <1>3, <1>4 DEF ReportIsFinal, Finished
  <2> QED BY <2>4, <2>5, <2>6, <2>7, <2>8
<1> QED BY <1>8, <1>9

LEMMA ReportFits == ASSUME CheckFits, Report PROVE CheckFits'
  BY DEF CheckFits, Report, CheckTyped, GoroutineFits, Heard, Running, HealthComesFirst,
     ClocksAgree, Launched, ReportIsFinal, Finished

LEMMA ECheckTick == ASSUME CheckFits, Tick PROVE CheckFits'
<1> USE TimeoutAssumption DEF CheckFits, Tick
<1>1. PICK p \in Protocols : Running(p)
  BY DEF CheckTyped, Finished, Launched, Running
<1>2. waited' \in 0 .. Timeout /\ elapsed' \in [Protocols -> 0 .. Timeout]
  BY <1>1 DEF CheckTyped, ClocksAgree
<1>3. CheckTyped'
  BY <1>2 DEF CheckTyped
<1>4. ASSUME NEW q \in Protocols PROVE GoroutineFits(q)'
  BY DEF GoroutineFits, Heard, Running, Requests
<1>5. ClocksAgree'
  BY DEF ClocksAgree, Launched, Running
<1>6. HealthComesFirst' /\ ReportIsFinal'
  BY DEF HealthComesFirst, ReportIsFinal
<1> QED BY <1>3, <1>4, <1>5, <1>6

LEMMA CheckStep == CheckFits /\ ENext => CheckFits'
  BY LaunchFits, AnswerFits, ExpireFits, ReportFits, ECheckTick DEF ENext, Goroutine

-----------------------------------------------------------------------------
\* Nothing was asked yet.
Unasked ==
    /\ configured = {} /\ report = NoReport
    /\ data = [p \in Protocols |-> "not_configured"] /\ asking = [p \in Protocols |-> "none"]
    /\ elapsed = [p \in Protocols |-> 0] /\ answers = [r \in Requests |-> "none"] /\ waited = 0

\* Where the run of the program is fits what it has done: the check begins with
\* an endpoint at least, because an accepted configuration names one, and an exit
\* code 0 of validate comes after a report that all is well.
RunFits ==
    /\ CheckFits /\ exit \in {0, 1}
    /\ phase \in {"started", "parsing"} => Unasked
    /\ phase = "started" => parsing = "environment"
    /\ phase = "parsing" /\ parsing = "accepted" => \E s \in URLs : cfg[s] # "empty"
    /\ phase = "checking" => configured # {}
    /\ phase = "serving" => command = "serve"
    /\ phase = "exited" /\ command = "validate" =>
          /\ exit = 0 => configured # {} /\ report # NoReport
          /\ report # NoReport => (exit = 0 => report.all)

LEMMA UnaskedFits == Unasked => CheckFits
  BY TimeoutAssumption DEF Unasked, CheckFits, CheckTyped, GoroutineFits, Heard, Own, Protocols, Requests, Running,
     HealthComesFirst, ClocksAgree, Launched, ReportIsFinal

LEMMA BeginFits ==
  ASSUME Unasked, NEW set \in SUBSET Protocols, Begin(set) PROVE CheckFits'
  BY TimeoutAssumption DEF Begin, Unasked, CheckFits, CheckTyped, GoroutineFits, Heard, Own, Protocols,
     Requests, Running, HealthComesFirst, ClocksAgree, Launched, ReportIsFinal

\* Every endpoint that is named has its client.
LEMMA NamedIsClient == (\E s \in URLs : cfg[s] # "empty") => Clients # {}
  BY DEF URLs, Clients, Cosmos

LEMMA AcceptedNamesOne ==
  ASSUME CNext, parsing' = "accepted", parsing # "accepted" \/ \E s \in URLs : cfg[s] # "empty"
  PROVE  \E s \in URLs : cfg'[s] # "empty"
<1>1. CASE EndOfArguments
  BY <1>1 DEF EndOfArguments, Valid
<1>2. CASE ~ EndOfArguments
  BY <1>2 DEF CNext, ReadVariable, EndOfVariables, ReadFlag, ReadStray, Read
<1> QED BY <1>1, <1>2

LEMMA CheckUnchanged == CheckFits /\ UNCHANGED evars => CheckFits'
  BY DEF evars, CheckFits, CheckTyped, GoroutineFits, Heard, Running, HealthComesFirst, ClocksAgree,
     Launched, ReportIsFinal, Finished

LEMMA UnaskedUnchanged == Unasked /\ UNCHANGED evars => Unasked'
  BY DEF evars, Unasked

\* An error ends every run truthfully.
LEMMA ErrorFits == RunFits /\ Exit(1) /\ UNCHANGED evars => RunFits'
<1> SUFFICES ASSUME RunFits, Exit(1), UNCHANGED evars PROVE RunFits'
  OBVIOUS
<1>1. CheckFits'
  BY CheckUnchanged DEF RunFits
<1>2. phase' = "exited" /\ exit' = 1
  BY DEF Exit
<1>3. exit' \in {0, 1} /\ exit' # 0
  BY <1>2
<1> QED BY <1>1, <1>2, <1>3 DEF RunFits

LEMMA RunStep == RunFits /\ [PNext]_pvars => RunFits'
<1> SUFFICES ASSUME RunFits, [PNext]_pvars PROVE RunFits'
  OBVIOUS
<1> USE DEF RunFits
<1>1. CASE Dispatch
  <2>1. CheckFits' /\ Unasked' /\ exit' \in {0, 1}
    BY <1>1, CheckUnchanged, UnaskedUnchanged DEF Dispatch, Exit
  <2>2. CASE phase' = "parsing"
    BY <1>1, <2>1, <2>2 DEF Dispatch, cvars
  <2>3. CASE phase' = "exited" /\ command' # "validate"
    BY <2>1, <2>3
  <2> QED BY <1>1, <2>2, <2>3 DEF Dispatch, Exit
<1>2. CASE Parse
  BY <1>2, CheckUnchanged, UnaskedUnchanged, AcceptedNamesOne DEF Parse
<1>3. CASE Refuse
  BY <1>3, ErrorFits DEF Refuse
<1>4. CASE New
  <2>1. CASE Exit(1) /\ UNCHANGED evars
    BY <2>1, ErrorFits
  <2>2. CASE Begin(Clients) /\ UNCHANGED exit /\ phase' = (IF command = "serve" THEN "serving" ELSE "checking")
    <3>1. Clients \in SUBSET Protocols /\ Clients # {}
      BY <1>4, NamedIsClient DEF New, Clients, Cosmos, Protocols
    <3>2. CheckFits' /\ configured' # {}
      BY <1>4, <2>2, <3>1, BeginFits DEF New, Begin
    <3> QED BY <1>4, <2>2, <3>2 DEF New
  <2> QED BY <1>4, <2>1, <2>2 DEF New
<1>5. CASE Checking(ENext)
  <2>1. CheckFits'
    BY <1>5, CheckStep DEF Checking
  <2>2. UNCHANGED configured
    BY <1>5 DEF Checking, ENext, Goroutine, Launch, Answer, Expire, Report, Tick
  <2> QED BY <1>5, <2>1, <2>2 DEF Checking
<1>6. CASE PrintReport
  BY <1>6, CheckUnchanged DEF PrintReport, Exit, Verdict, evars
<1>7. CASE CallTool
  BY <1>7, CheckUnchanged DEF CallTool
<1>8. CASE EndSession
  BY <1>8, CheckUnchanged DEF EndSession, Exit, evars
<1>9. CASE UNCHANGED pvars
  BY <1>9, CheckUnchanged, UnaskedUnchanged DEF pvars, evars
<1> QED BY <1>1, <1>2, <1>3, <1>4, <1>5, <1>6, <1>7, <1>8, <1>9 DEF PNext

\* What each goroutine has heard and written fits its place at every moment of a
\* run, whatever the endpoints answer (server.go:334-362, grpc.go:78-92).
THEOREM ChecksFit == PSpec => []CheckFits
<1>1. PInit => RunFits
  BY UnaskedFits DEF PInit, CInit, EInit, Unasked, RunFits
<1>2. RunFits => CheckFits
  BY DEF RunFits
<1> QED BY <1>1, <1>2, RunStep, PTL DEF PSpec

\* The report judges every configured endpoint by its own answers, and the
\* verdict is that of the states (server.go:354-370).
THEOREM ReportsAreEarned == PSpec => []ReportIsEarned
<1>1. CheckFits => ReportIsEarned
  <2> SUFFICES ASSUME CheckFits, report # NoReport PROVE ReportIsEarned
    BY DEF ReportIsEarned
  <2>1. /\ report.states = data /\ (report.all <=> \A p \in Protocols : data[p] # "unavailable")
        /\ \A p \in configured : asking[p] = "done"
    BY DEF CheckFits, ReportIsFinal, Finished
  <2>2. \A p \in Protocols \ configured : data[p] = "not_configured"
    BY DEF CheckFits, CheckTyped, GoroutineFits
  <2>3. \A p \in configured : data[p] = IF "ok" \in Heard(p) THEN "available" ELSE "unavailable"
    BY <2>1 DEF CheckFits, CheckTyped, GoroutineFits
  <2>4. "grpc" \in configured /\ data["grpc"] = "available" => answers["health"] \in {"ok", "unimplemented"}
    BY <2>3 DEF CheckFits, HealthComesFirst, Heard, Own
  <2>5. report.all <=> \A p \in configured : data[p] = "available"
    BY <2>1, <2>2, <2>3 DEF CheckFits, CheckTyped
  <2> QED BY <2>1, <2>2, <2>3, <2>4, <2>5 DEF ReportIsEarned
<1> QED BY <1>1, ChecksFit, PTL

\* One timeout bounds the whole check (grpc.go:79, server.go:337-353).
THEOREM ChecksArePrompt == PSpec => []CheckIsPrompt
<1>1. CheckFits => CheckIsPrompt
  BY TimeoutAssumption DEF CheckFits, CheckTyped, CheckIsPrompt
<1> QED BY <1>1, ChecksFit, PTL

\* An exit code 0 of validate means that every endpoint it was given has
\* answered, and that it was given one (main.go:68-90, config.go:141-143).
THEOREM ExitsTellTheTruth == PSpec => []ExitTellsTheTruth
<1>1. PInit => RunFits
  BY UnaskedFits DEF PInit, CInit, EInit, Unasked, RunFits
<1>2. RunFits => ExitTellsTheTruth
  <2> SUFFICES ASSUME RunFits, phase = "exited", command = "validate" PROVE ExitTellsTheTruth
    BY DEF ExitTellsTheTruth
  <2>1. CASE report = NoReport
    BY <2>1 DEF RunFits, ExitTellsTheTruth
  <2>2. CASE report # NoReport
    <3>1. report.all <=> \A p \in configured : data[p] # "unavailable"
      BY <2>2 DEF RunFits, CheckFits, CheckTyped, ReportIsFinal, GoroutineFits
    <3>2. \A p \in configured : data[p] = IF "ok" \in Heard(p) THEN "available" ELSE "unavailable"
      BY <2>2 DEF RunFits, CheckFits, CheckTyped, ReportIsFinal, Finished, GoroutineFits
    <3>3. exit = 0 => report.all
      BY <2>2 DEF RunFits
    <3> QED BY <3>1, <3>2, <3>3 DEF RunFits, ExitTellsTheTruth
  <2> QED BY <2>1, <2>2
<1> QED BY <1>1, <1>2, RunStep, PTL DEF PSpec

-----------------------------------------------------------------------------
(* The configuration. *)

Words == [setting : Settings \cup {"none"}, text : {"empty"} \cup UNION {Texts[s] : s \in Settings}]

LEMMA SilentWords == \A s \in Settings \cup {"none"} : [setting |-> s, text |-> "empty"] \in Words
  BY DEF Words

\* The i-th word read says something about s.
Says(i, s) == given[i].setting = s /\ (i <= Len(Variables) => given[i].text # "empty")

LEMMA SaidIsLast ==
  \A s : Said(s) = {given[i].text : i \in {j \in DOMAIN given :
                       Says(j, s) /\ \A k \in DOMAIN given : Says(k, s) => k <= j}}
  BY DEF Said, Says

\* What is read next replaces what was said about its setting, if it says
\* anything, and nothing else.
LEMMA SaidNext ==
  ASSUME NEW T, given \in Seq(T), NEW w \in T, given' = Append(given, w)
  PROVE  \A s : IF w.setting = s /\ (Len(given) < Len(Variables) => w.text # "empty")
               THEN Said(s)' = {w.text} ELSE Said(s)' = Said(s)
<1> PICK n \in Nat : n = Len(given)
  OBVIOUS
<1>1. /\ DOMAIN given = 1 .. n /\ DOMAIN given' = 1 .. n + 1 /\ n + 1 \in Nat
      /\ given'[n + 1] = w /\ \A i \in 1 .. n : given'[i] = given[i]
  OBVIOUS
<1>2. Len(Variables) = 6 /\ Len(Variables)' = 6
  BY DEF Variables
<1> TAKE s
<1> DEFINE Now(i) == Says(i, s)
           Then(i) == Says(i, s)'
<1>3. Said(s) = {given[i].text : i \in {j \in 1 .. n : Now(j) /\ \A k \in 1 .. n : Now(k) => k <= j}}
  BY <1>1, SaidIsLast
<1>4. Said(s)' = {given'[i].text : i \in {j \in 1 .. n + 1 :
                                         Then(j) /\ \A k \in 1 .. n + 1 : Then(k) => k <= j}}
  <2>1. Said(s)' = {given'[i].text : i \in {j \in DOMAIN given' :
                       Then(j) /\ \A k \in DOMAIN given' : Then(k) => k <= j}}
    BY DEF Said, Says
  <2> QED BY <1>1, <2>1
<1>5. \A i \in 1 .. n : Then(i) <=> Now(i)
  BY <1>1, <1>2 DEF Says
<1>6. Then(n + 1) <=> w.setting = s /\ (Len(given) < Len(Variables) => w.text # "empty")
  <2>1. Then(n + 1) <=> (given'[n + 1].setting = s /\ (n + 1 <= Len(Variables) => given'[n + 1].text # "empty"))
    BY Zenon DEF Says
  <2>2. n + 1 <= Len(Variables) <=> Len(given) < Len(Variables)
    BY <1>2
  <2>3. given'[n + 1] = w
    BY <1>1
  <2> QED BY <2>1, <2>2, <2>3, Zenon
<1> HIDE DEF Now, Then
<1>7. CASE Then(n + 1)
  <2>1. {j \in 1 .. n + 1 : Then(j) /\ \A k \in 1 .. n + 1 : Then(k) => k <= j} = {n + 1}
    BY <1>1, <1>7
  <2>2. Said(s)' = {given'[n + 1].text}
    BY <1>4, <2>1
  <2> QED BY <1>1, <1>6, <1>7, <2>2
<1>8. CASE ~ Then(n + 1)
  <2>1. {j \in 1 .. n + 1 : Then(j) /\ \A k \in 1 .. n + 1 : Then(k) => k <= j}
        = {j \in 1 .. n : Now(j) /\ \A k \in 1 .. n : Now(k) => k <= j}
    <3>1. ASSUME NEW j \in 1 .. n + 1, Then(j) PROVE j \in 1 .. n /\ Now(j)
      BY <1>5, <1>8, <3>1
    <3>2. ASSUME NEW j \in 1 .. n, Now(j) PROVE j \in 1 .. n + 1 /\ Then(j)
      BY <1>5, <3>2
    <3> QED BY <3>1, <3>2
  <2> DEFINE Newest == {j \in 1 .. n : Now(j) /\ \A k \in 1 .. n : Now(k) => k <= j}
  <2>2. \A i \in Newest : given'[i] = given[i]
    BY <1>1
  <2>3. Said(s)' = {given'[i].text : i \in Newest} /\ Said(s) = {given[i].text : i \in Newest}
    BY <1>3, <1>4, <2>1
  <2> HIDE DEF Newest
  <2>4. Said(s)' = Said(s)
    BY <2>2, <2>3
  <2> QED BY <1>6, <1>8, <2>4
<1> QED BY <1>7, <1>8

\* A setting has its default if nothing was said about it, else the value of the
\* last text.
Faithful(s) ==
    \/ Said(s) = {} /\ cfg[s] = Default[s]
    \/ \E text \in Texts[s] : Said(s) = {text} /\ cfg[s] = Value(s, text) /\ ~ Malformed(s, text)

Parsed ==
    /\ given \in Seq(Words)
    /\ parsing = "flags" => Len(given) >= Len(Variables)
    /\ parsing \in {"environment", "flags"} => \A s \in Settings : Faithful(s)
    /\ DOMAIN cfg = Settings
    /\ AcceptedAsGiven

LEMMA ForgottenFits == given = << >> /\ cfg = Default /\ parsing # "flags" => Parsed
<1> SUFFICES ASSUME given = << >>, cfg = Default, parsing # "flags" PROVE Parsed
  OBVIOUS
<1>1. \A s : Said(s) = {}
  BY DEF Said
<1>2. given \in Seq(Words)
  OBVIOUS
<1>3. DOMAIN cfg = Settings
  BY Zenon DEF Default
<1>4. AcceptedAsGiven
  BY <1>1 DEF AcceptedAsGiven, SaidEmpty
<1> QED BY <1>1, <1>2, <1>3, <1>4 DEF Parsed, Faithful

\* A size that is not refused is the product, and does not wrap.
LEMMA SizesAreExact ==
  ASSUME NEW number \in Int, NEW unit \in Nat, ByteSize(number, unit) # 0
  PROVE  /\ ByteSize(number, unit) = number * unit
         /\ number * unit \in 1 .. MaxInt
<1>1. unit # 0 /\ ~ (number <= 0) /\ ~ (number > MaxInt \div unit) /\ ByteSize(number, unit) = number * unit
  BY Zenon DEF ByteSize
<1>2. PICK q \in Nat : q = MaxInt \div unit /\ q * unit <= MaxInt
  BY <1>1, IntegerAssumption
<1>3. number <= q /\ number > 0 /\ unit > 0
  BY <1>1, <1>2
<1>4. number * unit <= q * unit /\ number * unit > 0 /\ number * unit \in Int /\ q * unit \in Int
  BY <1>3
<1> QED BY <1>1, <1>2, <1>4, IntegerAssumption

LEMMA Appended ==
  ASSUME NEW T, NEW q \in Seq(T), NEW w \in T
  PROVE  /\ Append(q, w) \in Seq(T) /\ Len(Append(q, w)) = Len(q) + 1
         /\ Append(q, w)[Len(q) + 1] = w
         /\ Len(q) \in Nat /\ Len(q) + 1 \in DOMAIN Append(q, w)
  OBVIOUS

LEMMA ReadFits ==
  ASSUME Parsed, NEW s \in Settings, NEW text \in Texts[s], Read(s, text),
         parsing \in {"environment", "flags"}, Len(given) < Len(Variables) => text # "empty"
  PROVE  Parsed'
<1>1. given \in Seq(Words)
  BY DEF Parsed
<1>2. PICK w \in Words : w.setting = s /\ w.text = text /\ given' = Append(given, w)
  <2>1. [setting |-> s, text |-> text] \in Words
    BY DEF Words
  <2> QED BY <2>1 DEF Read
<1>3. given' \in Seq(Words) /\ Len(given') = Len(given) + 1 /\ given'[Len(given) + 1] = w
      /\ Len(given) + 1 \in DOMAIN given' /\ Len(given) \in Nat
  BY Zenon, <1>1, <1>2, Appended
<1>4. \A t : IF t = s THEN Said(t)' = {text} ELSE Said(t)' = Said(t)
  <2>1. \A t : IF w.setting = t /\ (Len(given) < Len(Variables) => w.text # "empty")
               THEN Said(t)' = {w.text} ELSE Said(t)' = Said(t)
    BY Zenon, <1>1, <1>2, SaidNext
  <2> QED BY Zenon, <1>2, <2>1
<1>5. Len(Variables) = 6
  BY DEF Variables
<1>6. CASE Malformed(s, text)
  <2>1. parsing' = "failed" /\ cfg' = cfg
    BY <1>6 DEF Read
  <2>2. AcceptedAsGiven'
    <3>1. \E i \in DOMAIN given' :
             /\ i <= Len(Variables) => given'[i].text # "empty"
             /\ Malformed(given'[i].setting, given'[i].text)
      <4>1. Len(given) + 1 <= Len(Variables) => text # "empty"
        <5>1. Len(given) + 1 <= Len(Variables) => Len(given) < Len(Variables)
          BY <1>3, <1>5
        <5> QED BY <5>1, Zenon
      <4>2. given'[Len(given) + 1].text = text /\ given'[Len(given) + 1].setting = s
        <5>1. given'[Len(given) + 1] = w
          BY <1>3
        <5> QED BY <1>2, <5>1
      <4> QED BY <1>3, <1>6, <4>1, <4>2, Zenon
    <3> QED BY <2>1, <3>1 DEF AcceptedAsGiven
  <2> QED BY <1>3, <2>1, <2>2 DEF Parsed
<1>7. CASE ~ Malformed(s, text)
  <2>1. parsing' = parsing /\ cfg' = [cfg EXCEPT ![s] = Value(s, text)]
    BY <1>7 DEF Read
  <2>2. AcceptedAsGiven'
    BY <2>1 DEF AcceptedAsGiven
  <2>3. ASSUME NEW t \in Settings PROVE Faithful(t)'
    <3>1. Faithful(t)
      BY DEF Parsed
    <3>2. DOMAIN cfg = Settings
      BY DEF Parsed
    <3>3. CASE t = s
      BY <1>4, <1>7, <2>1, <3>2, <3>3 DEF Faithful
    <3>4. CASE t # s
      BY <1>4, <2>1, <3>1, <3>2, <3>4 DEF Faithful
    <3> QED BY <3>3, <3>4
  <2>4. parsing' = "flags" => Len(given') >= Len(Variables)
    <3>1. parsing = "flags" => Len(given) >= Len(Variables)
      BY DEF Parsed
    <3>2. Len(given) >= Len(Variables) => Len(given') >= Len(Variables)
      BY <1>3, <1>5
    <3> QED BY Zenon, <2>1, <3>1, <3>2
  <2>5. DOMAIN cfg' = Settings
    BY <2>1 DEF Parsed
  <2> QED BY <1>3, <2>2, <2>3, <2>4, <2>5 DEF Parsed
<1> QED BY <1>6, <1>7

\* What trimming makes of an endpoint.
LEMMA EndpointFits ==
  ASSUME NEW s \in URLs, Faithful(s), DOMAIN cfg = Settings
  PROVE  /\ TrimAll(cfg)[s] = "empty" <=> SaidEmpty(s)
         /\ TrimAll(cfg)[s] = "bad" <=> Said(s) = {"bad"}
         /\ TrimAll(cfg)[s] \in {"empty", "good", "bad"}
<1>1. s \in Settings /\ TrimAll(cfg)[s] = Trimmed(cfg[s])
  BY DEF TrimAll, Settings
<1>2. CASE Said(s) = {} /\ cfg[s] = Default[s]
  <2>1. cfg[s] = "empty"
    BY <1>1, <1>2 DEF Default
  <2> QED BY <1>1, <1>2, <2>1 DEF SaidEmpty, Trimmed
<1>3. ASSUME NEW text \in Texts[s], Said(s) = {text}, cfg[s] = Value(s, text)
      PROVE  /\ TrimAll(cfg)[s] = "empty" <=> SaidEmpty(s)
             /\ TrimAll(cfg)[s] = "bad" <=> Said(s) = {"bad"}
             /\ TrimAll(cfg)[s] \in {"empty", "good", "bad"}
  <2>1. text \in {"empty", "blank", "padded", "good", "bad"}
    BY TextAssumption
  <2>2. cfg[s] = text
    BY <1>3 DEF Value, URLs
  <2>3. SaidEmpty(s) <=> Trimmed(text) = "empty"
    BY <1>3 DEF SaidEmpty
  <2>4. Said(s) = {"bad"} <=> text = "bad"
    BY <1>3
  <2> QED BY <1>1, <2>1, <2>2, <2>3, <2>4 DEF Trimmed
<1> QED BY <1>2, <1>3 DEF Faithful

LEMMA SwitchFits ==
  ASSUME Faithful("grpc-insecure"), DOMAIN cfg = Settings
  PROVE  /\ TrimAll(cfg)["grpc-insecure"] \in BOOLEAN
         /\ TrimAll(cfg)["grpc-insecure"] = (Said("grpc-insecure") = {"true"})
<1> DEFINE s == "grpc-insecure"
<1>1. s \in Settings /\ TrimAll(cfg)[s] = cfg[s]
  BY DEF TrimAll, Settings, URLs
<1>2. CASE Said(s) = {} /\ cfg[s] = Default[s]
  <2>1. cfg[s] = FALSE
    BY <1>1, <1>2 DEF Default, URLs, Numbers
  <2> QED BY <1>1, <1>2, <2>1
<1>3. ASSUME NEW text \in Texts[s], Said(s) = {text}, cfg[s] = Value(s, text)
      PROVE  TrimAll(cfg)[s] \in BOOLEAN /\ TrimAll(cfg)[s] = (Said(s) = {"true"})
  <2>1. cfg[s] = (text = "true")
    BY <1>3 DEF Value
  <2>2. Said(s) = {"true"} <=> text = "true"
    BY <1>3
  <2> QED BY <1>1, <2>1, <2>2
<1> QED BY <1>2, <1>3 DEF Faithful

LEMMA NumberFits ==
  ASSUME NEW s \in Numbers, Faithful(s), DOMAIN cfg = Settings
  PROVE  /\ TrimAll(cfg)[s] \in Int
         /\ \A text \in Said(s) :
               /\ TrimAll(cfg)[s] = Number[text].number * Number[text].unit
               /\ TrimAll(cfg)[s] <= MaxInt
         /\ ~ TrimAll(cfg)[s] > 0 =>
               s = "timeout" /\ \E text \in Said(s) : Number[text].number <= 0
<1>1. s \in Settings /\ TrimAll(cfg)[s] = cfg[s]
  BY DEF TrimAll, Settings, URLs, Numbers
<1>2. CASE Said(s) = {} /\ cfg[s] = Default[s]
  <2>1. cfg[s] = 1
    BY <1>1, <1>2 DEF Default, URLs, Numbers
  <2> QED BY <1>1, <1>2, <2>1
<1>3. ASSUME NEW text \in Texts[s], Said(s) = {text}, cfg[s] = Value(s, text), ~ Malformed(s, text)
      PROVE  /\ cfg[s] = Number[text].number * Number[text].unit
             /\ cfg[s] \in Int /\ cfg[s] <= MaxInt
             /\ ~ cfg[s] > 0 => s = "timeout" /\ Number[text].number <= 0
  <2>1. PICK number \in Int, unit \in Nat : number = Number[text].number /\ unit = Number[text].unit
    BY TextAssumption
  <2>2. CASE s = "timeout"
    <3>1. cfg[s] = number * unit /\ unit # 0 /\ number * unit <= MaxInt
      BY <1>3, <2>1, <2>2, TextAssumption DEF Value, Malformed
    <3>2. number > 0 => number * unit > 0
      BY <3>1
    <3> QED BY <2>1, <2>2, <3>1, <3>2
  <2>3. CASE s = "max-response-bytes"
    <3>1. cfg[s] = ByteSize(number, unit) /\ ByteSize(number, unit) # 0
      BY <1>3, <2>1, <2>3 DEF Value, Malformed
    <3> QED BY <2>1, <3>1, SizesAreExact, IntegerAssumption
  <2> QED BY <2>2, <2>3 DEF Numbers
<1> QED BY <1>1, <1>2, <1>3 DEF Faithful

\* Validate accepts what was given, and refuses only for a reason.
LEMMA EndFits ==
  ASSUME Parsed, EndOfArguments
  PROVE  Parsed'
<1>1. parsing = "flags" /\ given' = given /\ cfg' = TrimAll(cfg)
      /\ parsing' = IF Valid(cfg') THEN "accepted" ELSE "failed"
  BY DEF EndOfArguments
<1>2. (\A s \in Settings : Faithful(s)) /\ DOMAIN cfg = Settings
  BY <1>1 DEF Parsed
<1>3. DOMAIN cfg' = Settings
  BY <1>1 DEF TrimAll
<1>4. \A s : Said(s)' = Said(s) /\ (SaidEmpty(s)' <=> SaidEmpty(s))
  BY <1>1 DEF Said, SaidEmpty
<1>5. \A s \in URLs :
         /\ cfg'[s] = "empty" <=> SaidEmpty(s)
         /\ cfg'[s] = "bad" <=> Said(s) = {"bad"}
         /\ cfg'[s] \in {"empty", "good", "bad"}
  BY <1>1, <1>2, EndpointFits DEF Settings
<1>6. cfg'["grpc-insecure"] \in BOOLEAN /\ cfg'["grpc-insecure"] = (Said("grpc-insecure") = {"true"})
  BY <1>1, <1>2, SwitchFits DEF Settings
<1>7. \A s \in Numbers :
         /\ cfg'[s] \in Int
         /\ \A text \in Said(s) :
               cfg'[s] = Number[text].number * Number[text].unit /\ cfg'[s] <= MaxInt
         /\ ~ cfg'[s] > 0 => s = "timeout" /\ \E text \in Said(s) : Number[text].number <= 0
  BY <1>1, <1>2, NumberFits DEF Settings
<1>8. CASE Valid(cfg')
  <2>1. parsing' = "accepted"
    BY <1>1, <1>8
  <2>2. /\ \A s \in URLs : cfg'[s] = IF SaidEmpty(s) THEN "empty" ELSE "good"
        /\ \A s \in URLs : Said(s) # {"bad"}
        /\ \E s \in URLs : ~ SaidEmpty(s)
    BY <1>5, <1>8 DEF Valid
  <2>3. cfg'["grpc-insecure"] => ~ SaidEmpty("grpc-target")
    BY <1>5, <1>8 DEF Valid, URLs
  <2>4. \A s \in Numbers : \A text \in Said(s) :
           cfg'[s] = Number[text].number * Number[text].unit /\ cfg'[s] \in 1 .. MaxInt
    BY <1>7, <1>8, IntegerAssumption DEF Valid
  <2>5. AcceptedAsGiven'
    BY <1>4, <1>6, <2>1, <2>2, <2>3, <2>4 DEF AcceptedAsGiven
  <2> QED BY <1>1, <1>3, <2>1, <2>5 DEF Parsed
<1>9. CASE ~ Valid(cfg')
  <2>1. parsing' = "failed"
    BY <1>1, <1>9
  <2>2. \/ \A s \in URLs : SaidEmpty(s)
        \/ \E s \in URLs : Said(s) = {"bad"}
        \/ \E text \in Said("timeout") : Number[text].number <= 0
        \/ Said("grpc-insecure") = {"true"} /\ SaidEmpty("grpc-target")
    BY <1>5, <1>6, <1>7, <1>9 DEF Valid, URLs
  <2>3. AcceptedAsGiven'
    BY <1>4, <2>1, <2>2 DEF AcceptedAsGiven
  <2> QED BY <1>1, <1>3, <2>1, <2>3 DEF Parsed
<1> QED BY <1>8, <1>9

LEMMA VariableFits ==
  ASSUME Parsed, ReadVariable
  PROVE  Parsed'
<1> DEFINE s == Variables[Len(given) + 1]
<1>1. given \in Seq(Words) /\ Len(given) \in Nat /\ Len(given) < 6 /\ parsing = "environment"
      /\ Len(given) < Len(Variables)
  <2>1. given \in Seq(Words) /\ Len(given) < Len(Variables) /\ parsing = "environment"
    BY DEF Parsed, ReadVariable
  <2> QED BY <2>1 DEF Variables
<1>2. s \in Settings
  BY <1>1 DEF Variables, Settings, URLs, Numbers
<1> HIDE DEF s
<1>3. ASSUME NEW text \in Texts[s] \ {"empty"}, Read(s, text) PROVE Parsed'
  BY <1>1, <1>2, <1>3, ReadFits
<1>4. ASSUME given' = Append(given, [setting |-> s, text |-> "empty"]), UNCHANGED <<cfg, parsing>>
      PROVE  Parsed'
  <2>1. PICK w \in Words : w.text = "empty" /\ given' = Append(given, w)
    <3>1. [setting |-> s, text |-> "empty"] \in Words
      BY <1>2, SilentWords
    <3> QED BY <1>4, <3>1
  <2>2. given' \in Seq(Words)
    BY <1>1, <2>1
  <2>3. \A t : Said(t)' = Said(t)
    BY Zenon, <1>1, <2>1, SaidNext
  <2>4. \A t \in Settings : Faithful(t)'
    BY <1>1, <1>4, <2>3 DEF Faithful, Parsed
  <2>5. AcceptedAsGiven'
    BY <1>1, <1>4 DEF AcceptedAsGiven
  <2> QED BY <1>1, <1>4, <2>2, <2>4, <2>5 DEF Parsed
<1>5. \/ \E text \in Texts[s] \ {"empty"} : Read(s, text)
      \/ given' = Append(given, [setting |-> s, text |-> "empty"]) /\ UNCHANGED <<cfg, parsing>>
  BY Zenon DEF ReadVariable, s
<1> QED BY <1>3, <1>4, <1>5

LEMMA ParseFits ==
  ASSUME Parsed, CNext
  PROVE  Parsed'
<1>1. CASE ReadVariable
  BY <1>1, VariableFits
<1>2. CASE EndOfVariables
  <2>1. /\ parsing = "environment" /\ parsing' = "flags" /\ given' = given /\ cfg' = cfg
        /\ Len(given) = Len(Variables)
    BY <1>2 DEF EndOfVariables
  <2>2. \A t \in Settings : Faithful(t)'
    <3>1. \A t : Said(t)' = Said(t)
      BY <2>1 DEF Said
    <3> QED BY <2>1, <3>1 DEF Parsed, Faithful
  <2>3. AcceptedAsGiven'
    BY <2>1 DEF AcceptedAsGiven
  <2>4. Len(given') >= Len(Variables)
    BY <2>1 DEF Variables
  <2> QED BY <2>1, <2>2, <2>3, <2>4 DEF Parsed
<1>3. CASE ReadFlag
  <2>1. PICK s \in Settings : \E text \in Texts[s] : Read(s, text)
    BY <1>3 DEF ReadFlag
  <2>2. parsing = "flags" /\ given \in Seq(Words) /\ Len(given) >= Len(Variables)
    BY <1>3 DEF ReadFlag, Parsed
  <2>3. ~ (Len(given) < Len(Variables))
    BY <2>2 DEF Variables
  <2> QED BY <2>1, <2>2, <2>3, ReadFits
<1>4. CASE ReadStray
  <2>1. PICK w \in Words : w.setting = "none" /\ given' = Append(given, w)
    <3>1. [setting |-> "none", text |-> "empty"] \in Words
      BY SilentWords
    <3> QED BY <1>4, <3>1 DEF ReadStray
  <2>2. given \in Seq(Words) /\ parsing' = "failed" /\ cfg' = cfg
    BY <1>4 DEF Parsed, ReadStray
  <2>3. /\ given' \in Seq(Words) /\ Len(given) + 1 \in DOMAIN given'
        /\ given'[Len(given) + 1].setting = "none"
    BY <2>1, <2>2, Appended
  <2>4. AcceptedAsGiven'
    BY <2>2, <2>3 DEF AcceptedAsGiven
  <2> QED BY <2>2, <2>3, <2>4 DEF Parsed
<1>5. CASE EndOfArguments
  BY <1>5, EndFits
<1> QED BY <1>1, <1>2, <1>3, <1>4, <1>5 DEF CNext

\* What the program takes for its configuration is what it was told.
THEOREM ConfigurationIsAsGiven == PSpec => []AcceptedAsGiven
<1>1. PInit => Parsed
  BY ForgottenFits DEF PInit, CInit
<1>2. Parsed /\ [PNext]_pvars => Parsed'
  <2> SUFFICES ASSUME Parsed, [PNext]_pvars PROVE Parsed'
    OBVIOUS
  <2>1. CASE Parse
    BY <2>1, ParseFits DEF Parse
  <2>2. CASE Refuse \/ New
    <3>1. given' = << >> /\ cfg' = Default /\ parsing' # "flags"
      BY <2>2 DEF Refuse, New, ForgetConfiguration
    <3>2. (given = << >> /\ cfg = Default /\ parsing # "flags" => Parsed)'
      BY ForgottenFits, PTL
    <3> QED BY <3>1, <3>2
  <2>3. CASE UNCHANGED cvars
    <3>1. given' = given /\ cfg' = cfg /\ parsing' = parsing
      BY <2>3 DEF cvars
    <3>2. \A s : Said(s)' = Said(s) /\ (SaidEmpty(s)' <=> SaidEmpty(s))
      BY <3>1 DEF Said, SaidEmpty
    <3>3. AcceptedAsGiven'
      BY <3>1, <3>2 DEF Parsed, AcceptedAsGiven
    <3>4. \A s \in Settings : Faithful(s) => Faithful(s)'
      BY <3>1, <3>2 DEF Faithful
    <3> QED BY <3>1, <3>3, <3>4 DEF Parsed
  <2> QED BY <2>1, <2>2, <2>3
          DEF PNext, pvars, cvars, Dispatch, Checking, PrintReport, CallTool, EndSession
<1>3. Parsed => AcceptedAsGiven
  BY DEF Parsed
<1> QED BY <1>1, <1>2, <1>3, PTL DEF PSpec

-----------------------------------------------------------------------------
(* The tools. *)

LEMMA OnlyCosmos == CheckFits => configured \in SUBSET Cosmos
  BY DEF CheckFits, CheckTyped, Protocols, Cosmos

\* Whichever binding answers a query of a tool, it was asked the whole question,
\* for every configuration and all values of arguments (height.go,
\* query_tools.go:45-71).
THEOREM FallbacksAskTheSame == PSpec => []FallbackAsksTheSame
<1>1. FallbackAsksTheSame
  BY OneQuestion DEF FallbackAsksTheSame, Asked
<1> QED BY <1>1, PTL

\* A tool is exposed exactly if configured endpoints can serve it, whatever its
\* arguments are (server.go:216, 235-286).
THEOREM ToolsHaveEndpoints == PSpec => []ToolsAreBacked
<1>1. CheckFits => ToolsAreBacked
  BY OnlyCosmos, ExposedIsUsable, ExposedIsBacked DEF ToolsAreBacked
<1> QED BY <1>1, ChecksFit, PTL

\* A session remembers a binding of a query that its endpoints allow.
Remembered ==
    memory # NoMemory =>
       /\ phase \in {"serving", "exited"}
       /\ \E q \in Asked(configured) : \E i \in DOMAIN q.bindings :
             memory = [capability |-> q.capability, binding |-> q.bindings[i]]

LEMMA RememberedStep == Remembered /\ [PNext]_pvars => Remembered'
<1> SUFFICES ASSUME Remembered, [PNext]_pvars PROVE Remembered'
  OBVIOUS
<1> USE DEF Remembered
<1>1. CASE memory = NoMemory /\ memory' = NoMemory
  BY <1>1
<1>2. CASE CallTool
  BY <1>2 DEF CallTool, Usable, evars
<1>3. CASE PrintReport \/ EndSession
  BY <1>3 DEF PrintReport, EndSession, Exit, evars
<1>4. CASE Dispatch \/ Parse \/ Refuse \/ New \/ Checking(ENext)
  BY <1>1, <1>4 DEF Dispatch, Parse, Refuse, New, Checking
<1>5. CASE UNCHANGED pvars
  BY <1>5 DEF pvars
<1> QED BY <1>2, <1>3, <1>4, <1>5 DEF PNext

\* What a session remembers of one call means the same to every later call of
\* that capability, whatever the arguments of both (capability.go:75, 107).
THEOREM MemoriesKeepTheirMeaning == PSpec => []RememberedKeepsItsMeaning
<1>1. PInit => Remembered
  BY DEF PInit, Remembered
<1>2. Remembered => RememberedKeepsItsMeaning
  <2> SUFFICES ASSUME Remembered, memory # NoMemory,
                      NEW q \in Asked(configured), q.capability = memory.capability
               PROVE  \E i \in DOMAIN q.bindings :
                         /\ {j \in DOMAIN q.bindings : q.bindings[j].name = memory.binding.name} = {i}
                         /\ \/ SameRoute(q.bindings[i].target, memory.binding.target)
                            \/ /\ memory.binding.via = "lcd"
                               /\ q.capability \in {"token_metadata", "denom_trace"}
    BY DEF RememberedKeepsItsMeaning
  <2>1. PICK r \in Asked(configured) : \E i \in DOMAIN r.bindings :
           memory = [capability |-> r.capability, binding |-> r.bindings[i]]
    BY DEF Remembered
  <2>2. PICK i \in DOMAIN r.bindings : memory = [capability |-> r.capability, binding |-> r.bindings[i]]
    BY <2>1
  <2>3. q \in Queries /\ r \in Queries /\ q.capability = r.capability /\ memory.binding = r.bindings[i]
    BY <2>2 DEF Asked
  <2> QED BY <2>3, NamesKeepTheirMeaning DEF Denominations
<1> QED BY <1>1, <1>2, RememberedStep, PTL DEF PSpec

=============================================================================
