---------------------------- MODULE Configuration ----------------------------
(***************************************************************************)
(* Parse and Validate of internal/config/config.go: the settings start     *)
(* from their defaults, are read from the environment, then overridden by  *)
(* the flags from left to right, trimmed and validated.                    *)
(***************************************************************************)
EXTENDS Integers, SequencesExt

CONSTANTS
    MaxInt,         \* the greatest value of an int64
    Texts,          \* the texts each setting may be given, "empty" if it may be empty
    Number,         \* the number and the unit of a text, 1 for a bare number;
                    \* the unit is 0 if the text is no quantity at all
    MaxArguments    \* bound: the number of arguments after the command

ASSUME IntegerAssumption == MaxInt \in Nat \ {0}

URLs == {"rpc-url", "grpc-target", "lcd-url"}
Numbers == {"timeout", "max-response-bytes"}
Settings == URLs \cup Numbers \cup {"grpc-insecure"}

\* An endpoint is good or bad, perhaps between spaces, or left empty; durations
\* over an int64 are refused when they are read.
ASSUME TextAssumption ==
    /\ \A s \in URLs : Texts[s] \subseteq {"empty", "blank", "padded", "good", "bad"}
    /\ \A s \in Numbers : \A text \in Texts[s] : Number[text].number \in Int /\ Number[text].unit \in Nat
    /\ \A text \in Texts["timeout"] : Number[text].number * Number[text].unit <= MaxInt

\* The variables of the environment in the order in which they are read.
Variables == <<"rpc-url", "grpc-target", "lcd-url", "grpc-insecure", "timeout", "max-response-bytes">>

VARIABLES
    given,      \* what was read so far: the variables ("empty" if unset), then the flags
    cfg,        \* the configuration under construction
    parsing     \* "environment", "flags", "accepted" or "failed"

cvars == <<given, cfg, parsing>>

-----------------------------------------------------------------------------
\* In units of the model: one for 15 seconds, and one for 4 MiB.
Default ==
    [s \in Settings |-> IF s \in URLs THEN "empty" ELSE IF s \in Numbers THEN 1 ELSE FALSE]

\* Variant: the limit is compared with the product.
ByteSizeWrapping(number, unit) ==
    LET product == (number * unit) % (2 * (MaxInt + 1)) IN
    IF unit = 0 \/ number <= 0 \/ product > MaxInt THEN 0 ELSE product

\* parseBytes; 0 is a refusal.
ByteSize(number, unit) ==
    IF unit = 0 \/ number <= 0 \/ number > MaxInt \div unit THEN 0 ELSE number * unit

\* A text that strconv, time or parseBytes does not take; any text is an endpoint.
Malformed(s, text) ==
    \/ s = "grpc-insecure" /\ text \notin {"true", "false"}
    \/ s = "timeout" /\ Number[text].unit = 0
    \/ s = "max-response-bytes" /\ ByteSize(Number[text].number, Number[text].unit) = 0

Value(s, text) ==
    CASE s = "grpc-insecure" -> text = "true"
      [] s = "timeout" -> Number[text].number * Number[text].unit
      [] s = "max-response-bytes" -> ByteSize(Number[text].number, Number[text].unit)
      [] OTHER -> text

\* strings.TrimSpace: "blank" is all space, "padded" a good endpoint between spaces.
Trimmed(text) == CASE text = "blank" -> "empty" [] text = "padded" -> "good" [] OTHER -> text

TrimAll(c) == [s \in Settings |-> IF s \in URLs THEN Trimmed(c[s]) ELSE c[s]]

\* Validate.
Valid(c) ==
    /\ \E s \in URLs : c[s] # "empty"
    /\ \A s \in Numbers : c[s] > 0
    /\ \A s \in URLs : c[s] \in {"empty", "good"}
    /\ c["grpc-insecure"] => c["grpc-target"] # "empty"

-----------------------------------------------------------------------------
CInit == given = << >> /\ cfg = Default /\ parsing = "environment"

Read(s, text) ==
    /\ given' = Append(given, [setting |-> s, text |-> text])
    /\ IF Malformed(s, text)
       THEN parsing' = "failed" /\ UNCHANGED cfg
       ELSE cfg' = [cfg EXCEPT ![s] = Value(s, text)] /\ UNCHANGED parsing

\* An empty variable counts as unset.  A malformed one is an error even if a
\* flag would override it.
ReadVariable ==
    /\ parsing = "environment" /\ Len(given) < Len(Variables)
    /\ LET s == Variables[Len(given) + 1] IN
       \/ \E text \in Texts[s] \ {"empty"} : Read(s, text)
       \/ /\ given' = Append(given, [setting |-> s, text |-> "empty"])
          /\ UNCHANGED <<cfg, parsing>>

EndOfVariables ==
    /\ parsing = "environment" /\ Len(given) = Len(Variables)
    /\ parsing' = "flags"
    /\ UNCHANGED <<given, cfg>>

\* A flag replaces what was there; it may be empty.
ReadFlag ==
    /\ parsing = "flags" /\ Len(given) < Len(Variables) + MaxArguments
    /\ \E s \in Settings : \E text \in Texts[s] : Read(s, text)

\* -h, an unknown flag, and anything that is not a flag.
ReadStray ==
    /\ parsing = "flags" /\ Len(given) < Len(Variables) + MaxArguments
    /\ given' = Append(given, [setting |-> "none", text |-> "empty"])
    /\ parsing' = "failed"
    /\ UNCHANGED cfg

EndOfArguments ==
    /\ parsing = "flags"
    /\ cfg' = TrimAll(cfg)
    /\ parsing' = IF Valid(TrimAll(cfg)) THEN "accepted" ELSE "failed"
    /\ UNCHANGED given

CNext == ReadVariable \/ EndOfVariables \/ ReadFlag \/ ReadStray \/ EndOfArguments

\* Parse is over and what it read is forgotten; the clients have what they need.
ForgetConfiguration == given' = << >> /\ cfg' = Default /\ UNCHANGED parsing

-----------------------------------------------------------------------------
\* What was said last about a setting, if anything was: its last flag, else its
\* variable.
Said(s) ==
    LET words == {i \in DOMAIN given :
                     given[i].setting = s /\ (i <= Len(Variables) => given[i].text # "empty")} IN
    {given[i].text : i \in {j \in words : \A k \in words : k <= j}}

SaidEmpty(s) == \A text \in Said(s) : Trimmed(text) = "empty"

\* A configuration that is accepted has for every setting exactly what was said
\* last about it, in particular a size in bytes that is not wrapped, and names an
\* endpoint; one that is refused was given a text that cannot be read, or asks
\* for what the server cannot do (config.go:31-126, 140-159).
AcceptedAsGiven ==
    /\ parsing = "accepted" /\ given # << >> =>
          /\ \A s \in URLs : cfg[s] = IF SaidEmpty(s) THEN "empty" ELSE "good"
          /\ \A s \in URLs : Said(s) # {"bad"}
          /\ \E s \in URLs : ~ SaidEmpty(s)
          /\ cfg["grpc-insecure"] = (Said("grpc-insecure") = {"true"})
          /\ cfg["grpc-insecure"] => ~ SaidEmpty("grpc-target")
          /\ \A s \in Numbers : \A text \in Said(s) :
                /\ cfg[s] = Number[text].number * Number[text].unit
                /\ cfg[s] \in 1 .. MaxInt
    /\ parsing = "failed" =>
          \/ \E i \in DOMAIN given : given[i].setting = "none"
          \/ \E i \in DOMAIN given :
                /\ i <= Len(Variables) => given[i].text # "empty"
                /\ Malformed(given[i].setting, given[i].text)
          \/ \A s \in URLs : SaidEmpty(s)
          \/ \E s \in URLs : Said(s) = {"bad"}
          \/ \E text \in Said("timeout") : Number[text].number <= 0
          \/ Said("grpc-insecure") = {"true"} /\ SaidEmpty("grpc-target")

=============================================================================
