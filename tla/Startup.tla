------------------------------ MODULE Startup ------------------------------
(***************************************************************************)
(* cmd/runpod-exporter/main.go, run, up to its select: the configuration   *)
(* is parsed, the client and the domains are built from it, and the        *)
(* goroutines of collector.Run and of the HTTP server start.  Run creates  *)
(* a loop per domain, in order, and each loop its ticker.                  *)
(***************************************************************************)
EXTENDS Config, FiniteSets

CONSTANTS
  Choices,  \* the values that a flag or a variable may give each setting
  Together  \* bound: the sets of settings that are given at a time

ASSUME TogetherAssumption == Together \subseteq SUBSET Settings

\* What strings.Split and time.ParseDuration return.
ASSUME ChoicesAssumption ==
  /\ Choices.domains \subseteq Seq([name : STRING, padded : BOOLEAN])
  /\ \A d \in Choices.scrape_interval \cup Choices.scrape_interval_slow :
       d \in [parses : BOOLEAN, ms : Int]

VARIABLES
  input,      \* arguments and environment
  phase,      \* where run is; "serving": at its select
  config,     \* what Parse returned
  error,      \* the check that failed
  domains,    \* what Build returned
  loops,      \* the loops that Run has started
  listening   \* ListenAndServe has been called

startVars == <<input, phase, config, error, domains, loops, listening>>

-----------------------------------------------------------------------------
Empty(s, v) == \/ s = "api_key" /\ v = ""
               \/ s = "domains" /\ v = <<Part("", FALSE)>>

\* What the flag, and the variable, of a setting may be.
Given(s)    == {{}} \cup {{v} : v \in Choices[s]}
GivenEnv(s) == {{}} \cup {{v} : v \in {w \in Choices[s] : ~Empty(s, w)}}

\* The flags, and the variables, if only those of S are given.
Flags(S) ==
  LET of(s) == IF s \in S THEN Given(s) ELSE {{}} IN
  [api_key              : of("api_key"),
   api_url              : of("api_url"),
   domains              : of("domains"),
   scrape_interval      : of("scrape_interval"),
   scrape_interval_slow : of("scrape_interval_slow"),
   log_level            : of("log_level")]

Envs(S) ==
  LET of(s) == IF s \in S THEN GivenEnv(s) ELSE {{}} IN
  [api_key              : of("api_key"),
   api_url              : of("api_url"),
   domains              : of("domains"),
   scrape_interval      : of("scrape_interval"),
   scrape_interval_slow : of("scrape_interval_slow"),
   log_level            : of("log_level")]

\* The variable of the key may always be given.  args: fs.Parse finds no flag
\* that it does not know, and none without a value.
Inputs(S) == [args : BOOLEAN, flag : Flags(S), env : Envs(S \cup {"api_key"})]

NoConfig == [names |-> <<>>, fast |-> 0, slow |-> 0]

StartTypeOK ==
  /\ input \in Inputs(Settings)
  /\ phase \in {"parsing", "client", "building", "serving", "exited"}
  /\ config \in [names : Seq(Known), fast : Nat, slow : Nat]
  /\ error \in {Checks[i] : i \in DOMAIN Checks} \cup {"none"}
  /\ domains \in Seq(Implemented)
  /\ loops \in Seq([name : Implemented, interval : Nat])
  /\ listening \in BOOLEAN

StartInit ==
  /\ \E S \in Together : input \in Inputs(S)
  /\ phase = "parsing"
  /\ config = NoConfig
  /\ error = "none"
  /\ domains = <<>>
  /\ loops = <<>>
  /\ listening = FALSE

-----------------------------------------------------------------------------
(* run.                                                                    *)

\* An error of Parse, --help among them, is printed, and the exit status is 1.
ParseFails ==
  /\ phase = "parsing"
  /\ Rejected(input)
  /\ error' = ErrorOf(input)
  /\ phase' = "exited"
  /\ UNCHANGED <<input, config, domains, loops, listening>>

ParseSucceeds ==
  /\ phase = "parsing"
  /\ ~Rejected(input)
  /\ config' = ConfigOf(input)
  /\ phase' = "client"
  /\ UNCHANGED <<input, error, domains, loops, listening>>

\* NewClient: no option it is given ever fails.
BuildClient ==
  /\ phase = "client"
  /\ phase' = "building"
  /\ UNCHANGED <<input, config, error, domains, loops, listening>>

\* Build, the mux and the signals; from here on there are three goroutines.
BuildDomains ==
  /\ phase = "building"
  /\ domains' = Build(config.names)
  /\ phase' = "serving"
  /\ UNCHANGED <<input, config, error, loops, listening>>

Listen ==
  /\ phase = "serving"
  /\ ~listening
  /\ listening' = TRUE
  /\ UNCHANGED <<input, phase, config, error, domains, loops>>

\* Run starts its next loop, whose ticker gets the interval of the domain's tier.
StartLoop ==
  /\ phase = "serving"
  /\ Len(loops) < Len(domains)
  /\ LET name == domains[Len(loops) + 1] IN
       loops' = Append(loops, [name |-> name, interval |-> Interval(config, name)])
  /\ UNCHANGED <<input, phase, config, error, domains, listening>>

\* What follows is Exporter's and Runner's; after an error nothing does.
Started ==
  /\ phase = "exited" \/ (listening /\ Len(loops) = Len(domains))
  /\ UNCHANGED startVars

StartNext ==
  ParseFails \/ ParseSucceeds \/ BuildClient \/ BuildDomains \/ Listen \/ StartLoop \/ Started

StartSpec == StartInit /\ [][StartNext]_startVars

-----------------------------------------------------------------------------
(* Properties.                                                             *)

\* Every ticker that is made has an interval of at least 5 s, so that
\* time.NewTicker never panics and the API is not flooded (config.go:15, 141).
TickersAboveFloor == \A i \in DOMAIN loops : loops[i].interval >= MinScrapeInterval

\* Nothing polls and nothing listens before all of the configuration is known
\* to be good: the key, the URL, each name, both intervals and the level
\* (plans/0001-v1-exporter.md:222-224, "fail fast").
FailsFast ==
  listening \/ loops # <<>> =>
    LET v(s) == Value(input, s) IN
    /\ input.args /\ v("api_key") # ""
    /\ v("api_url").parses /\ v("api_url").scheme /\ v("api_url").host
    /\ IsAll(v("domains")) \/ \A i \in DOMAIN v("domains") : v("domains")[i].name \in Known \cup {""}
    /\ config.names # <<>>
    /\ \A s \in {"scrape_interval", "scrape_interval_slow"} : v(s).parses /\ v(s).ms >= 5000
    /\ v("log_level") \in Levels

\* When a flag is given its variable does not matter, neither to the Config nor
\* to the error; the flag of api-key, which may be empty, is the exception that
\* Parse documents (config.go:32-38).
FlagWins ==
  LET outcome(i) == IF Rejected(i) THEN [error |-> ErrorOf(i), config |-> NoConfig]
                                   ELSE [error |-> "none", config |-> ConfigOf(i)]
  IN  \A s \in Settings :
        input.flag[s] # {} /\ (s = "api_key" => input.flag[s] # {""}) =>
          \A e \in GivenEnv(s) : outcome([input EXCEPT !.env[s] = e]) = outcome(input)

\* The elements of a list that hold a name, and the place that the i-th of the
\* list has among them.
Named(parts)    == {i \in DOMAIN parts : parts[i].name # ""}
Place(parts, i) == Cardinality({j \in Named(parts) : j <= i})

\* names are those that parts asks for, as often and in that order.
AsAsked(names, parts) ==
  IF IsAll(parts)
    THEN names = AllDomains
    ELSE /\ Len(names) = Cardinality(Named(parts))
         /\ \A i \in Named(parts) : names[Place(parts, i)] = parts[i].name

\* What is polled is what the flag or the variable asks for, each name as often as
\* it is there and in its place: wherever in the list there is an empty name,
\* whatever blanks there are (config.go:117-128), and without one that only
\* Parse knows (client.go:29-31).  The loops start in that order.
PolledAsAsked ==
  /\ phase = "serving" => AsAsked(domains, Value(input, "domains"))
  /\ \A i \in DOMAIN loops : i \in DOMAIN domains /\ loops[i].name = domains[i]

\* The tiers of plans/0001-v1-exporter.md:90-100.
FastDomains == {"pod", "serverless", "account", "cluster"}

\* Each domain is polled at the interval of the tier that the plan gives it,
\* whichever of the two intervals is longer.
TierCadence ==
  \A i \in DOMAIN loops :
    loops[i].interval =
      Value(input, IF loops[i].name \in FastDomains THEN "scrape_interval"
                                                    ELSE "scrape_interval_slow").ms
=============================================================================
