--------------------------- MODULE StartupProofs ---------------------------
(* Theorems about Startup, for any values of flags and variables. *)
EXTENDS Startup, ConfigProofs

\* Once Parse has succeeded the configuration is that of a good input; before,
\* and after an error, nothing has started.
ConfigInv ==
  /\ phase \in {"parsing", "client", "building", "serving", "exited"}
  /\ phase \in {"client", "building", "serving"} => ~Rejected(input) /\ config = ConfigOf(input)
  /\ phase # "serving" => loops = <<>> /\ ~listening

\* Run's loops, and where each has its interval from.
Loops == [name : {domains[i] : i \in Nat}, interval : {config.fast, config.slow}]

LoopInv ==
  /\ loops \in Seq(Loops)
  /\ phase # "serving" => loops = <<>>

-----------------------------------------------------------------------------
\* A good input has passed each of the checks.
LEMMA GoodInput ==
  ASSUME NEW i, ~Rejected(i)
  PROVE  /\ Passes(i, "args") /\ Passes(i, "api_key") /\ Passes(i, "api_url")
         /\ Passes(i, "domains") /\ Passes(i, "scrape_interval")
         /\ Passes(i, "scrape_interval_slow") /\ Passes(i, "log_level")
<1>1. DOMAIN Checks = 1 .. 7
  BY DEF Checks
<1>2. \A n \in 1 .. 7 : Passes(i, Checks[n])
  BY <1>1 DEF Rejected, Failed
<1>3. /\ Passes(i, Checks[1]) /\ Passes(i, Checks[2]) /\ Passes(i, Checks[3])
      /\ Passes(i, Checks[4]) /\ Passes(i, Checks[5]) /\ Passes(i, Checks[6])
      /\ Passes(i, Checks[7])
  BY <1>2
<1> QED
  BY <1>3 DEF Checks

\* Both of its intervals are above the floor.
LEMMA GoodIntervals ==
  ASSUME NEW i, ~Rejected(i)
  PROVE  /\ IntervalOK(Value(i, "scrape_interval"))
         /\ IntervalOK(Value(i, "scrape_interval_slow"))
<1>1. Passes(i, "scrape_interval") /\ Passes(i, "scrape_interval_slow")
  BY GoodInput
<1> QED
  BY <1>1 DEF Passes

LEMMA ConfigStep == ConfigInv /\ [StartNext]_startVars => ConfigInv'
<1> SUFFICES ASSUME ConfigInv, [StartNext]_startVars
             PROVE  ConfigInv'
  OBVIOUS
<1> USE DEF ConfigInv
<1>1. CASE ParseFails
  BY <1>1 DEF ParseFails
<1>2. CASE ParseSucceeds
  BY <1>2 DEF ParseSucceeds
<1>3. CASE BuildClient
  BY <1>3 DEF BuildClient
<1>4. CASE BuildDomains
  BY <1>4 DEF BuildDomains
<1>5. CASE Listen
  BY <1>5 DEF Listen
<1>6. CASE StartLoop
  BY <1>6 DEF StartLoop
<1>7. CASE Started \/ UNCHANGED startVars
  BY <1>7 DEF Started, startVars
<1> QED
  BY <1>1, <1>2, <1>3, <1>4, <1>5, <1>6, <1>7 DEF StartNext

LEMMA ConfigInvariant == StartSpec => []ConfigInv
<1>1. StartInit => ConfigInv
  BY DEF StartInit, ConfigInv
<1> QED
  BY <1>1, ConfigStep, PTL DEF StartSpec

\* Nothing polls and nothing listens unless every setting is good
\* (plans/0001-v1-exporter.md:222-224).
THEOREM StartsOnlyWhenGood == StartSpec => []FailsFast
<1>1. ConfigInv => FailsFast
  <2> SUFFICES ASSUME ConfigInv, listening \/ loops # <<>>
               PROVE  FailsFast
    BY DEF FailsFast
  <2>1. ~Rejected(input) /\ config = ConfigOf(input)
    BY DEF ConfigInv
  <2>2. /\ Passes(input, "args") /\ Passes(input, "api_key") /\ Passes(input, "api_url")
        /\ Passes(input, "domains") /\ Passes(input, "log_level")
    BY <2>1, GoodInput
  <2>3. /\ input.args /\ Value(input, "api_key") # "" /\ UrlOK(Value(input, "api_url"))
        /\ DomainsOK(Value(input, "domains")) /\ Value(input, "log_level") \in Levels
    BY <2>2 DEF Passes
  <2>4. IntervalOK(Value(input, "scrape_interval")) /\ IntervalOK(Value(input, "scrape_interval_slow"))
    BY <2>1, GoodIntervals
  <2>5. Names(Value(input, "domains")) # <<>>
    BY <2>3 DEF DomainsOK, Names, IsAll, AllDomains
  <2>6. config.names # <<>>
    BY <2>1, <2>5 DEF ConfigOf
  <2>7. IsAll(Value(input, "domains"))
        \/ \A i \in DOMAIN Value(input, "domains") : Value(input, "domains")[i].name \in Known \cup {""}
    BY <2>3 DEF DomainsOK
  <2>8. \A s \in {"scrape_interval", "scrape_interval_slow"} :
          Value(input, s).parses /\ Value(input, s).ms >= 5000
    BY <2>4 DEF IntervalOK, MinScrapeInterval
  <2>9. /\ Value(input, "api_url").parses /\ Value(input, "api_url").scheme
        /\ Value(input, "api_url").host
    BY <2>3 DEF UrlOK
  <2> QED
    BY <2>3, <2>6, <2>7, <2>8, <2>9, Zenon DEF FailsFast
<1> QED
  BY <1>1, ConfigInvariant, PTL

-----------------------------------------------------------------------------
LEMMA LoopStep == LoopInv /\ [StartNext]_startVars => LoopInv'
<1> SUFFICES ASSUME LoopInv, [StartNext]_startVars
             PROVE  LoopInv'
  OBVIOUS
<1>1. CASE ParseFails \/ ParseSucceeds \/ BuildClient \/ BuildDomains
  <2>1. loops' = <<>>
    BY <1>1 DEF LoopInv, ParseFails, ParseSucceeds, BuildClient, BuildDomains
  <2> QED
    BY <2>1 DEF LoopInv
<1>2. CASE Listen \/ Started \/ UNCHANGED startVars
  <2>1. UNCHANGED <<phase, config, domains, loops>>
    BY <1>2 DEF Listen, Started, startVars
  <2> QED
    BY <2>1 DEF LoopInv, Loops
<1>3. CASE StartLoop
  <2>1. UNCHANGED <<phase, config, domains>> /\ phase = "serving"
    BY <1>3 DEF StartLoop
  <2> DEFINE name == domains[Len(loops) + 1]
             new  == [name |-> name, interval |-> Interval(config, name)]
  <2>2. loops' = Append(loops, new)
    BY <1>3 DEF StartLoop
  <2>3. Interval(config, name) \in {config.fast, config.slow}
    BY DEF Interval
  <2>4. new \in Loops
    BY <2>3 DEF LoopInv, Loops
  <2>5. loops' \in Seq(Loops)
    BY <2>2, <2>4 DEF LoopInv
  <2> QED
    BY <2>1, <2>5 DEF LoopInv, Loops
<1> QED
  BY <1>1, <1>2, <1>3 DEF StartNext

\* No ticker is ever made with less than the floor, whichever of flag, variable
\* and default the intervals come from (config.go:15, 141).
THEOREM TickersNeverPanic == StartSpec => []TickersAboveFloor
<1>1. StartInit => LoopInv
  BY DEF StartInit, LoopInv
<1>2. ConfigInv /\ LoopInv => TickersAboveFloor
  <2> SUFFICES ASSUME ConfigInv, LoopInv, NEW i \in DOMAIN loops
               PROVE  loops[i].interval >= MinScrapeInterval
    BY DEF TickersAboveFloor
  <2>1. loops # <<>>
    BY DEF LoopInv
  <2>2. ~Rejected(input) /\ config = ConfigOf(input)
    BY <2>1 DEF ConfigInv
  <2>3. config.fast >= MinScrapeInterval /\ config.slow >= MinScrapeInterval
    BY <2>2, GoodIntervals DEF ConfigOf, IntervalOK
  <2>4. loops[i] \in Loops
    <3>1. loops \in Seq(Loops) /\ i \in DOMAIN loops
      BY DEF LoopInv
    <3> HIDE DEF Loops
    <3> QED
      BY <3>1
  <2>5. loops[i].interval \in {config.fast, config.slow}
    BY <2>4 DEF Loops
  <2> QED
    BY <2>3, <2>5
<1> QED
  BY <1>1, <1>2, ConfigInvariant, LoopStep, PTL DEF StartSpec

-----------------------------------------------------------------------------
\* What is given, for each setting, is one of its choices, or nothing.
IsInput(i) ==
  /\ i = [args |-> i.args, flag |-> i.flag, env |-> i.env]
  /\ i.args \in BOOLEAN
  /\ DOMAIN i.env = Settings
  /\ \A s \in Settings : i.flag[s] \in Given(s) /\ i.env[s] \in GivenEnv(s)

LEMMA SettingsAre ==
  Settings = {"api_key", "api_url", "domains", "scrape_interval", "scrape_interval_slow",
              "log_level"}
BY DEF Settings, Default

\* Whichever settings are given, the input is one.
LEMMA InputsAre ==
  ASSUME NEW S, NEW i \in Inputs(S)
  PROVE  IsInput(i) /\ i \in Inputs(Settings)
<1>1. i = [args |-> i.args, flag |-> i.flag, env |-> i.env] /\ i.args \in BOOLEAN
  BY DEF Inputs
<1>2. i.flag \in Flags(S) /\ i.env \in Envs(S \cup {"api_key"})
  BY DEF Inputs
<1>3. \A s \in Settings : {} \in Given(s) /\ {} \in GivenEnv(s)
  BY DEF Given, GivenEnv
<1>4. i.flag \in Flags(Settings) /\ \A s \in Settings : i.flag[s] \in Given(s)
  BY <1>2, <1>3, SettingsAre DEF Flags
<1>5. /\ i.env \in Envs(Settings) /\ DOMAIN i.env = Settings
      /\ \A s \in Settings : i.env[s] \in GivenEnv(s)
  BY <1>2, <1>3, SettingsAre DEF Envs
<1>6. Settings \cup {"api_key"} = Settings
  BY SettingsAre
<1> QED
  BY <1>1, <1>4, <1>5, <1>6 DEF IsInput, Inputs

\* The input stays as it was given.
InputOK == IsInput(input) /\ input \in Inputs(Settings)

LEMMA InputInvariant == StartSpec => []InputOK
<1>1. StartInit => InputOK
  BY InputsAre DEF StartInit, InputOK
<1>2. InputOK /\ [StartNext]_startVars => InputOK'
  <2>1. [StartNext]_startVars => UNCHANGED input
    BY DEF StartNext, startVars, ParseFails, ParseSucceeds, BuildClient, BuildDomains, Listen,
           StartLoop, Started
  <2> QED
    BY <2>1 DEF InputOK
<1> QED
  BY <1>1, <1>2, PTL DEF StartSpec

\* With its flag given, the variable of a setting changes no setting's value.
LEMMA SameValues ==
  ASSUME NEW i, IsInput(i), NEW s \in Settings, NEW e,
         i.flag[s] # {}, s = "api_key" => i.flag[s] # {""},
         NEW t \in Settings
  PROVE  Value([i EXCEPT !.env[s] = e], t) = Value(i, t)
<1> DEFINE j == [i EXCEPT !.env[s] = e]
<1>1. j.flag = i.flag
  BY DEF IsInput
<1>2. t # s => j.env[t] = i.env[t]
  BY DEF IsInput
<1> HIDE DEF j
<1>3. CASE t = s
  <2>1. PICK v : i.flag[s] = {v}
    BY DEF IsInput, Given
  <2>2. Only(i.flag[s]) = v
    BY <2>1 DEF Only
  <2>3. s = "api_key" => Only(i.flag[s]) # ""
    BY <2>1, <2>2
  <2>4. Value(j, s) = Value(i, s)
    BY <1>1, <2>3, Zenon DEF Value
  <2> QED
    BY <1>3, <2>4 DEF j
<1>4. CASE t # s
  <2>1. EnvOrDefault(j, t) = EnvOrDefault(i, t)
    BY <1>2, <1>4 DEF EnvOrDefault
  <2>2. Value(j, t) = Value(i, t)
    BY <1>1, <2>1, Zenon DEF Value
  <2> QED
    BY <2>2 DEF j
<1> QED
  BY <1>3, <1>4

\* Inputs with the same values meet the same end.
LEMMA SameOutcome ==
  ASSUME NEW i, NEW j, j.args = i.args, \A t \in Settings : Value(j, t) = Value(i, t)
  PROVE  /\ Rejected(j) <=> Rejected(i)
         /\ ErrorOf(j) = ErrorOf(i)
         /\ ConfigOf(j) = ConfigOf(i)
<1>1. /\ Value(j, "api_key") = Value(i, "api_key")
      /\ Value(j, "api_url") = Value(i, "api_url")
      /\ Value(j, "domains") = Value(i, "domains")
      /\ Value(j, "scrape_interval") = Value(i, "scrape_interval")
      /\ Value(j, "scrape_interval_slow") = Value(i, "scrape_interval_slow")
      /\ Value(j, "log_level") = Value(i, "log_level")
  BY DEF Settings, Default
<1>2. \A n \in DOMAIN Checks : Passes(j, Checks[n]) = Passes(i, Checks[n])
  <2> SUFFICES ASSUME NEW c PROVE Passes(j, c) = Passes(i, c)
    OBVIOUS
  <2> QED
    BY <1>1, Zenon DEF Passes
<1>3. Failed(j) = Failed(i)
  BY <1>2, Zenon DEF Failed
<1> QED
  BY <1>1, <1>3, Zenon DEF Rejected, ErrorOf, ConfigOf

\* When a flag is given its variable does not matter, for any values of either
\* (config.go:32-38).
THEOREM FlagAlwaysWins == StartSpec => []FlagWins
<1>1. InputOK => FlagWins
  <2> SUFFICES ASSUME IsInput(input), NEW s \in Settings, input.flag[s] # {},
                      s = "api_key" => input.flag[s] # {""}, NEW e \in GivenEnv(s)
               PROVE  LET j == [input EXCEPT !.env[s] = e]
                      IN  /\ Rejected(j) <=> Rejected(input)
                          /\ ErrorOf(j) = ErrorOf(input)
                          /\ ConfigOf(j) = ConfigOf(input)
    BY Zenon DEF FlagWins, InputOK
  <2> DEFINE j == [input EXCEPT !.env[s] = e]
  <2>1. j.args = input.args
    BY DEF IsInput
  <2>2. \A t \in Settings : Value(j, t) = Value(input, t)
    BY SameValues
  <2> HIDE DEF j
  <2>3. /\ Rejected(j) <=> Rejected(input)
        /\ ErrorOf(j) = ErrorOf(input)
        /\ ConfigOf(j) = ConfigOf(input)
    BY <2>1, <2>2, SameOutcome
  <2> QED
    BY <2>3 DEF j
<1> QED
  BY <1>1, InputInvariant, PTL
-----------------------------------------------------------------------------
Configs == [names : Seq(Known), fast : Nat, slow : Nat]

\* The loops are those of the domains that Build made, in order, and Build made
\* those that were asked for.
DomainsInv ==
  /\ domains = IF phase = "serving" THEN config.names ELSE <<>>
  /\ phase = "serving" => AsAsked(domains, Value(input, "domains"))
  /\ \A i \in DOMAIN loops :
       /\ i \in DOMAIN domains
       /\ loops[i] = [name |-> domains[i], interval |-> Interval(config, domains[i])]

\* What parseDomains returns is what it was asked for, in that order.
LEMMA NamesAsAsked ==
  ASSUME NEW Parts, NEW parts \in Seq(Parts)
  PROVE  AsAsked(Names(parts), parts)
<1>1. CASE IsAll(parts)
  BY <1>1 DEF AsAsked, Names
<1>2. CASE ~IsAll(parts)
  <2>1. ASSUME NEW i \in DOMAIN parts
        PROVE  {j \in Named(parts) : j <= i} = {j \in 1 .. i : parts[j].name # ""}
    <3>1. DOMAIN parts = 1 .. Len(parts) /\ Len(parts) \in Nat
      OBVIOUS
    <3>2. i \in 1 .. Len(parts)
      BY <3>1
    <3>3. \A j \in DOMAIN parts : j <= i <=> j \in 1 .. i
      BY <3>1, <3>2
    <3>4. \A j \in 1 .. i : j \in DOMAIN parts
      BY <3>1, <3>2
    <3>5. \A j : j \in Named(parts) <=> j \in DOMAIN parts /\ parts[j].name # ""
      BY DEF Named
    <3> QED
      BY <3>3, <3>4, <3>5, Zenon
  <2>2. \A i \in DOMAIN parts : Place(parts, i) = Cardinality({j \in 1 .. i : parts[j].name # ""})
    BY <2>1 DEF Place
  <2> QED
    BY <1>2, <2>2, NamesPlaced DEF AsAsked, Named
<1> QED
  BY <1>1, <1>2

\* The value of a setting is a choice or the default.
LEMMA ValueIs ==
  ASSUME InputOK, NEW s \in Settings
  PROVE  Value(input, s) \in Choices[s] \cup {Default[s]}
<1>1. input.flag[s] # {} => Only(input.flag[s]) \in Choices[s]
  BY DEF InputOK, IsInput, Given, Only
<1>2. input.env[s] # {} => Only(input.env[s]) \in Choices[s]
  BY DEF InputOK, IsInput, GivenEnv, Only
<1>3. EnvOrDefault(input, s) \in Choices[s] \cup {Default[s]}
  BY <1>2 DEF EnvOrDefault
<1> QED
  BY <1>1, <1>3, Zenon DEF Value

\* Of a good input the configuration has known domains, all those asked for,
\* and intervals that are natural numbers of milliseconds.
LEMMA GoodConfig ==
  ASSUME InputOK, ~Rejected(input)
  PROVE  /\ ConfigOf(input) \in Configs
         /\ AsAsked(ConfigOf(input).names, Value(input, "domains"))
<1> DEFINE parts == Value(input, "domains")
<1>1. {"domains", "scrape_interval", "scrape_interval_slow"} \subseteq Settings
  BY DEF Settings, Default
<1>2. DomainsOK(parts)
  <2>1. Passes(input, "domains")
    BY GoodInput
  <2> QED
    BY <2>1 DEF Passes
<1>3. \E Parts : parts \in Seq(Parts)
  <2>1. parts \in Choices.domains \cup {Default.domains}
    BY <1>1, ValueIs
  <2>2. Default.domains \in Seq({Part("pod", FALSE), Part("account", FALSE), Part("billing", FALSE)})
    BY DEF Default
  <2> QED
    BY <2>1, <2>2, ChoicesAssumption
<1>4. /\ Names(parts) \in Seq(Known)
      /\ AsAsked(Names(parts), parts)
  BY <1>2, <1>3, NamesKnown, NamesAsAsked
<1>5. ASSUME NEW s \in {"scrape_interval", "scrape_interval_slow"}
      PROVE  Value(input, s).ms \in Nat
  <2>1. Value(input, s) \in Choices[s] \cup {Default[s]}
    BY <1>1, ValueIs
  <2>2. Default[s].ms \in Int
    <3>1. Default.scrape_interval.ms = 30000
      BY DEF Default, Duration
    <3>2. Default.scrape_interval_slow.ms = 300000
      BY DEF Default, Duration
    <3> QED
      BY <3>1, <3>2
  <2>3. Value(input, s).ms \in Int
    BY <2>1, <2>2, ChoicesAssumption
  <2>4. Value(input, s).ms >= 5000
    BY GoodIntervals DEF IntervalOK, MinScrapeInterval
  <2> QED
    BY <2>3, <2>4
<1> HIDE DEF parts
<1>6. ConfigOf(input).names = Names(parts)
  BY DEF ConfigOf, parts
<1>7. ConfigOf(input) \in Configs
  BY <1>4, <1>5, <1>6 DEF ConfigOf, Configs, parts
<1> QED
  BY <1>4, <1>6, <1>7 DEF parts

\* There is a first error.
LEMMA FirstError ==
  ASSUME NEW i, Rejected(i)
  PROVE  ErrorOf(i) \in {Checks[n] : n \in DOMAIN Checks}
<1>1. Failed(i) # {} /\ Failed(i) \subseteq 1 .. 7 /\ DOMAIN Checks = 1 .. 7
  BY DEF Rejected, Failed, Checks
<1>2. \E n \in Failed(i) : \A m \in Failed(i) : n <= m
  BY <1>1
<1> QED
  BY <1>1, <1>2 DEF ErrorOf

-----------------------------------------------------------------------------
LEMMA DomainsStep ==
  InputOK /\ ConfigInv /\ LoopInv /\ DomainsInv /\ [StartNext]_startVars => DomainsInv'
<1> SUFFICES ASSUME InputOK, ConfigInv, LoopInv, DomainsInv, [StartNext]_startVars
             PROVE  DomainsInv'
  OBVIOUS
<1>1. CASE ParseFails \/ ParseSucceeds \/ BuildClient
  <2>1. phase # "serving" /\ phase' # "serving" /\ UNCHANGED <<domains, loops>>
    BY <1>1 DEF ParseFails, ParseSucceeds, BuildClient
  <2>2. loops = <<>> /\ domains = <<>>
    BY <2>1 DEF LoopInv, DomainsInv
  <2> QED
    BY <2>1, <2>2 DEF DomainsInv
<1>2. CASE BuildDomains
  <2>1. /\ phase = "building" /\ phase' = "serving" /\ domains' = Build(config.names)
        /\ UNCHANGED <<input, config, loops>>
    BY <1>2 DEF BuildDomains
  <2>2. loops = <<>> /\ ~Rejected(input) /\ config = ConfigOf(input)
    BY <2>1 DEF LoopInv, ConfigInv
  <2>3. config.names \in Seq(Known)
    BY <2>2, GoodConfig DEF Configs
  <2>4. domains' = config.names
    BY <2>1, <2>3, BuildsAll
  <2>5. AsAsked(domains', Value(input, "domains"))
    BY <2>2, <2>4, GoodConfig
  <2>6. loops' = <<>>
    BY <2>1, <2>2
  <2> QED
    BY <2>1, <2>4, <2>5, <2>6 DEF DomainsInv
<1>3. CASE Listen \/ Started \/ UNCHANGED startVars
  <2>1. UNCHANGED <<input, phase, config, domains, loops>>
    BY <1>3 DEF Listen, Started, startVars
  <2> QED
    BY <2>1 DEF DomainsInv
<1>4. CASE StartLoop
  <2> DEFINE n == Len(loops) + 1
             new == [name |-> domains[n], interval |-> Interval(config, domains[n])]
  <2>1. /\ phase = "serving" /\ Len(loops) < Len(domains) /\ loops' = Append(loops, new)
        /\ UNCHANGED <<input, phase, config, domains>>
    BY <1>4 DEF StartLoop
  <2>2. domains \in Seq(Known)
    <3>1. ~Rejected(input) /\ config = ConfigOf(input)
      BY <2>1 DEF ConfigInv
    <3> QED
      BY <2>1, <3>1, GoodConfig DEF DomainsInv, Configs
  <2>3. loops \in Seq(Loops)
    BY DEF LoopInv
  <2>4. n \in DOMAIN domains
    BY <2>1, <2>2, <2>3
  <2> HIDE DEF new
  <2>5. ASSUME NEW i \in DOMAIN loops'
        PROVE  /\ i \in DOMAIN domains
               /\ loops'[i] = [name |-> domains[i], interval |-> Interval(config, domains[i])]
    <3>1. CASE i = n
      <4>1. loops'[i] = new
        BY <2>1, <2>3, <3>1
      <4> QED
        BY <2>4, <3>1, <4>1 DEF new
    <3>2. CASE i # n
      <4>1. i \in DOMAIN loops /\ loops'[i] = loops[i]
        BY <2>1, <2>3, <3>2
      <4> QED
        BY <4>1 DEF DomainsInv
    <3> QED
      BY <3>1, <3>2
  <2>6. \A q : Interval(config, q)' = Interval(config, q)
    BY <2>1 DEF Interval
  <2> QED
    BY <2>1, <2>5 DEF DomainsInv, Interval
<1> QED
  BY <1>1, <1>2, <1>3, <1>4 DEF StartNext

LEMMA DomainsInvariant == StartSpec => [](InputOK /\ ConfigInv /\ LoopInv /\ DomainsInv)
<1>1. StartInit => LoopInv
  BY DEF StartInit, LoopInv
<1>2. StartInit => DomainsInv
  BY DEF StartInit, DomainsInv
<1> QED
  BY <1>1, <1>2, InputInvariant, ConfigInvariant, LoopStep, DomainsStep, PTL DEF StartSpec

-----------------------------------------------------------------------------
LEMMA TypeStep ==
  InputOK /\ ConfigInv /\ LoopInv /\ DomainsInv /\ StartTypeOK /\ [StartNext]_startVars
    /\ InputOK' /\ DomainsInv' => StartTypeOK'
<1> SUFFICES ASSUME InputOK, ConfigInv, LoopInv, DomainsInv, StartTypeOK, [StartNext]_startVars,
                    InputOK', DomainsInv'
             PROVE  StartTypeOK'
  OBVIOUS
<1> DEFINE Ends == {Checks[i] : i \in DOMAIN Checks} \cup {"none"}
           LoopsOK == Seq([name : Implemented, interval : Nat])
<1>0. /\ phase \in {"parsing", "client", "building", "serving", "exited"}
      /\ config \in Configs /\ error \in Ends /\ domains \in Seq(Implemented)
      /\ loops \in LoopsOK /\ listening \in BOOLEAN
  BY DEF StartTypeOK, Configs
<1> SUFFICES /\ phase' \in {"parsing", "client", "building", "serving", "exited"}
             /\ config' \in Configs /\ error' \in Ends /\ domains' \in Seq(Implemented)
             /\ loops' \in LoopsOK /\ listening' \in BOOLEAN
  BY DEF StartTypeOK, InputOK, Configs
<1> HIDE DEF Ends, LoopsOK
<1>1. CASE ParseFails
  <2>1. error' \in Ends
    BY <1>1, FirstError DEF ParseFails, Ends
  <2> QED
    BY <1>0, <1>1, <2>1 DEF ParseFails
<1>2. CASE ParseSucceeds
  <2>1. config' \in Configs
    BY <1>2, GoodConfig DEF ParseSucceeds
  <2> QED
    BY <1>0, <1>2, <2>1 DEF ParseSucceeds
<1>3. CASE BuildClient
  BY <1>0, <1>3 DEF BuildClient
<1>4. CASE BuildDomains
  <2>1. phase' = "serving" /\ config' = config
    BY <1>4 DEF BuildDomains
  <2>2. domains' = config.names
    BY <2>1 DEF DomainsInv
  <2>3. domains' \in Seq(Implemented)
    BY <1>0, <2>2, AllImplemented DEF Configs
  <2> QED
    BY <1>0, <1>4, <2>3 DEF BuildDomains
<1>5. CASE Listen
  BY <1>0, <1>5 DEF Listen
<1>6. CASE StartLoop
  <2> DEFINE n == Len(loops) + 1
             new == [name |-> domains[n], interval |-> Interval(config, domains[n])]
  <2>1. Len(loops) < Len(domains) /\ loops' = Append(loops, new)
    BY <1>6 DEF StartLoop
  <2>2. Len(loops) \in Nat
    BY <1>0 DEF LoopsOK
  <2>3. domains[n] \in Implemented
    BY <1>0, <2>1, <2>2
  <2>4. Interval(config, domains[n]) \in Nat
    BY <1>0 DEF Interval, Configs
  <2>5. new \in [name : Implemented, interval : Nat]
    BY <2>3, <2>4
  <2> HIDE DEF new
  <2>6. loops' \in LoopsOK
    BY <1>0, <2>1, <2>5 DEF LoopsOK
  <2> QED
    BY <1>0, <1>6, <2>6 DEF StartLoop
<1>7. CASE Started \/ UNCHANGED startVars
  BY <1>0, <1>7 DEF Started, startVars
<1> QED
  BY <1>1, <1>2, <1>3, <1>4, <1>5, <1>6, <1>7 DEF StartNext

\* Type correctness, from the flags to the loops, for lists of any length: Parse
\* only lets domains through that Build has a collector for.
THEOREM StartTypeCorrect == StartSpec => []StartTypeOK
<1>1. StartInit /\ InputOK => StartTypeOK
  <2> SUFFICES ASSUME StartInit, InputOK
               PROVE  StartTypeOK
    OBVIOUS
  <2>1. config = [names |-> <<>>, fast |-> 0, slow |-> 0]
    BY DEF StartInit, NoConfig
  <2>2. config \in [names : Seq(Known), fast : Nat, slow : Nat]
    BY <2>1
  <2>3. domains \in Seq(Implemented) /\ loops \in Seq([name : Implemented, interval : Nat])
    BY DEF StartInit
  <2> QED
    BY <2>2, <2>3 DEF StartInit, InputOK, StartTypeOK
<1> QED
  BY <1>1, InputInvariant, DomainsInvariant, TypeStep, PTL DEF StartSpec

\* What is polled is what was asked for, for any list of domains: each as often as
\* it was named and in that order, none left out for an empty name before it or
\* for want of a collector (config.go:117-128, client.go:29-31).
THEOREM AskedIsPolled == StartSpec => []PolledAsAsked
<1>1. DomainsInv => PolledAsAsked
  BY DEF DomainsInv, PolledAsAsked
<1> QED
  BY <1>1, DomainsInvariant, PTL

\* Each loop has the interval of its tier, whatever the intervals are.
THEOREM TiersKeepCadence == StartSpec => []TierCadence
<1>1. ConfigInv /\ DomainsInv /\ StartTypeOK => TierCadence
  <2> SUFFICES ASSUME ConfigInv, DomainsInv, StartTypeOK, NEW i \in DOMAIN loops
               PROVE  loops[i].interval =
                        Value(input, IF loops[i].name \in FastDomains THEN "scrape_interval"
                                     ELSE "scrape_interval_slow").ms
    BY DEF TierCadence
  <2>1. loops # <<>>
    OBVIOUS
  <2>2. ~Rejected(input) /\ config = ConfigOf(input)
    BY <2>1 DEF ConfigInv
  <2> DEFINE name == domains[i]
  <2>3. loops[i].name = name /\ loops[i].interval = Interval(config, name) /\ i \in DOMAIN domains
    BY DEF DomainsInv
  <2>4. name \in Known
    BY <2>3, AllImplemented DEF StartTypeOK
  <2> HIDE DEF name
  <2>5. CASE name \in FastDomains
    <3>1. Tier(name) = "fast"
      BY <2>5, TierIs DEF FastDomains
    <3> QED
      BY <2>2, <2>3, <2>5, <3>1 DEF Interval, ConfigOf
  <2>6. CASE name \notin FastDomains
    <3>1. name \in {"billing", "template", "network-volume", "registry", "catalog"}
      BY <2>4, <2>6, KnownIs DEF FastDomains
    <3>2. Tier(name) = "slow"
      BY <3>1, TierIs
    <3> QED
      BY <2>2, <2>3, <2>6, <3>2 DEF Interval, ConfigOf
  <2> QED
    BY <2>5, <2>6
<1> QED
  BY <1>1, DomainsInvariant, StartTypeCorrect, PTL
=============================================================================
