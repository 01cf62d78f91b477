------------------------------- MODULE Config -------------------------------
(***************************************************************************)
(* internal/config/config.go: Parse, from flags and environment variables  *)
(* to a Config or an error; and collector.Build with the Tier methods,     *)
(* from the Config's names to the domains that are polled.                 *)
(*                                                                         *)
(* A setting that may be given or not is a set of at most one value.  An   *)
(* empty variable counts as not given, an empty flag as given.  Durations  *)
(* are in milliseconds.  listen-addr, which is taken as it is, is left out.*)
(***************************************************************************)
EXTENDS DomainPolls, Integers

AllDomains == <<"pod", "serverless", "billing", "account", "cluster",
                "template", "network-volume", "registry", "catalog">>

Known == {AllDomains[i] : i \in DOMAIN AllDomains}

MinScrapeInterval == 5000

\* A name between two commas, with or without blanks around it.
Part(name, padded) == [name |-> name, padded |-> padded]

\* A duration, or a text that is none; a URL, by what Parse looks at.
Duration(ms) == [parses |-> TRUE, ms |-> ms]
NoDuration   == [parses |-> FALSE, ms |-> 0]
Url(scheme, host) == [parses |-> TRUE, scheme |-> scheme, host |-> host]
NoUrl             == [parses |-> FALSE, scheme |-> FALSE, host |-> FALSE]

Default ==
  [api_key              |-> "",
   api_url              |-> Url(TRUE, TRUE),
   domains              |-> <<Part("pod", FALSE), Part("account", FALSE), Part("billing", FALSE)>>,
   scrape_interval      |-> Duration(30000),
   scrape_interval_slow |-> Duration(300000),
   log_level            |-> "info"]

Settings == DOMAIN Default

-----------------------------------------------------------------------------
(* The value of a setting.                                                 *)

Only(given) == CHOOSE v \in given : TRUE

EnvOrDefault(input, s) ==
  IF input.env[s] # {} THEN Only(input.env[s]) ELSE Default[s]

\* Mutant of Value: the variable wins.
ValueEnvFirst(input, s) ==
  IF input.env[s] # {} THEN Only(input.env[s])
  ELSE IF input.flag[s] # {} THEN Only(input.flag[s])
  ELSE Default[s]

\* After fs.Parse.  The default of api-key leaves its variable out, so that an
\* empty flag does not keep it from being used.
Value(input, s) ==
  IF input.flag[s] # {} /\ (s = "api_key" => Only(input.flag[s]) # "")
    THEN Only(input.flag[s])
    ELSE EnvOrDefault(input, s)

-----------------------------------------------------------------------------
(* What each setting is checked for.                                       *)

IsAll(parts) == parts = <<Part("all", FALSE)>>

\* The loop that parseDomains and Build have in common, over a list of names:
\* out gets the wanted ones, in order and as often as they are listed.
Keep(names, wanted) ==
  LET out[i \in 0 .. Len(names)] ==
        IF i = 0 THEN <<>>
        ELSE IF names[i] \in wanted THEN Append(out[i - 1], names[i]) ELSE out[i - 1]
  IN  out[Len(names)]

NonEmpty(names) == {names[i] : i \in DOMAIN names} \ {""}

Trimmed(parts) == [i \in DOMAIN parts |-> parts[i].name]

\* Mutant of Names: break for continue, at an empty name.
NamesUpToEmpty(parts) ==
  IF IsAll(parts)
    THEN AllDomains
    ELSE LET ends == {i \in DOMAIN parts : parts[i].name = ""} IN
         IF ends = {} THEN Trimmed(parts)
         ELSE SubSeq(Trimmed(parts), 1, (CHOOSE i \in ends : \A j \in ends : i <= j) - 1)

\* Mutant of Names: a name is taken once, however often it is listed.
NamesOnce(parts) ==
  IF IsAll(parts)
    THEN AllDomains
    ELSE LET names == Trimmed(parts)
             later == {i \in DOMAIN names : \E j \in 1 .. i - 1 : names[j] = names[i]} IN
         Keep([i \in DOMAIN names |-> IF i \in later THEN "" ELSE names[i]], NonEmpty(names))

\* parseDomains
Names(parts) == IF IsAll(parts) THEN AllDomains ELSE Keep(Trimmed(parts), NonEmpty(Trimmed(parts)))

\* Mutant of DomainsOK: an unknown name is let through.
DomainsAny(parts) == Names(parts) # <<>>

\* parseDomains refuses a name it does not know, and a list without a name.
DomainsOK(parts) ==
  \/ IsAll(parts)
  \/ /\ \A i \in DOMAIN parts : parts[i].name \in Known \cup {""}
     /\ Names(parts) # <<>>

IntervalPositive(d) == d.parses /\ d.ms >= 0  \* mutant of IntervalOK: no floor

\* parseInterval
IntervalOK(d) == d.parses /\ d.ms >= MinScrapeInterval

UrlOK(u) == u.parses /\ u.scheme /\ u.host

Levels == {"debug", "info", "warn", "error"}

\* Mutant of Passes: scrape-interval-slow is not looked at.
PassesButSlow(input, check) ==
  LET v(s) == Value(input, s) IN
  CASE check = "args"            -> input.args
    [] check = "api_key"         -> v("api_key") # ""
    [] check = "api_url"         -> UrlOK(v("api_url"))
    [] check = "domains"         -> DomainsOK(v("domains"))
    [] check = "scrape_interval" -> IntervalOK(v("scrape_interval"))
    [] check = "scrape_interval_slow" -> IntervalOK(v("scrape_interval"))
    [] check = "log_level"       -> v("log_level") \in Levels

Passes(input, check) ==
  LET v(s) == Value(input, s) IN
  CASE check = "args"            -> input.args
    [] check = "api_key"         -> v("api_key") # ""
    [] check = "api_url"         -> UrlOK(v("api_url"))
    [] check = "domains"         -> DomainsOK(v("domains"))
    [] check = "scrape_interval" -> IntervalOK(v("scrape_interval"))
    [] check = "scrape_interval_slow" -> IntervalOK(v("scrape_interval_slow"))
    [] check = "log_level"       -> v("log_level") \in Levels

\* The order of the checks, fs.Parse's own first.
Checks == <<"args", "api_key", "api_url", "domains", "scrape_interval",
            "scrape_interval_slow", "log_level">>

Failed(input) == {i \in DOMAIN Checks : ~Passes(input, Checks[i])}

\* Parse returns the first error.
Rejected(input) == Failed(input) # {}
ErrorOf(input)  == Checks[CHOOSE i \in Failed(input) : \A j \in Failed(input) : i <= j]

ConfigOf(input) ==
  [names |-> Names(Value(input, "domains")),
   fast  |-> Value(input, "scrape_interval").ms,
   slow  |-> Value(input, "scrape_interval_slow").ms]

-----------------------------------------------------------------------------
(* The domains.                                                            *)

\* Mutant of Implemented: a case is missing.
BuiltWithoutCatalog == {p.name : p \in AllPolls \ {Catalog}}

\* Build has a case for each of these; it skips any other name.
Implemented == {p.name : p \in AllPolls}

Build(names) == Keep(names, Implemented)

Tier(name) == (CHOOSE p \in AllPolls : p.name = name).tier

\* Mutant of Interval: all domains are polled at the fast interval.
IntervalFast(config, name) == config.fast

\* Run
Interval(config, name) == IF Tier(name) = "slow" THEN config.slow ELSE config.fast
=============================================================================
