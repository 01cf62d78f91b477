----------------------------- MODULE MCStartup -----------------------------
(* Instances of Startup for TLC: good values, bad ones, and those at the edge. *)
EXTENDS Startup

MCChoices ==
  [api_key   |-> {"", "key"},
   api_url   |-> {Url(TRUE, TRUE), Url(FALSE, TRUE), Url(TRUE, FALSE), NoUrl},
   domains   |-> {<<Part("", FALSE)>>,
                  <<Part("all", FALSE)>>,
                  <<Part("all", TRUE)>>,
                  <<Part("pod", FALSE), Part("", TRUE), Part("catalog", TRUE), Part("pod", TRUE)>>,
                  <<Part("account", FALSE), Part("pods", FALSE)>>},
   scrape_interval      |-> {NoDuration, Duration(0), Duration(4999), Duration(5000)},
   scrape_interval_slow |-> {NoDuration, Duration(-5000), Duration(4999), Duration(5000)},
   log_level |-> {"debug", "verbose"}]

\* At most two settings are given, each by its flag, by its variable or by both.
MCTogether == {S \in SUBSET Settings : Cardinality(S) <= 2}
=============================================================================
