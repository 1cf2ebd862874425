----------------------------- MODULE MCDeployment -----------------------------
(* An instance of Deployment for TLC: two releases, the later one with a version between two of  *)
(* the earlier one's and with one more module, and the ways to start a process.                  *)
EXTENDS Deployment, TLC

Releases == [old |-> <<[name |-> "iam", versions |-> {1, 3}]>>,
             new |-> <<[name |-> "iam", versions |-> {1, 2, 3}],
                       [name |-> "catalog", versions |-> {4}]>>]

Numerals == ("0" :> 0) @@ ("10" :> 10) @@ ("3000" :> 3000) @@ ("70000" :> 70000)

Nothing == [k \in {} |-> ""]
DotEnv == [JWT_SECRET |-> "secret", APP_PORT |-> "3000"]

As(release, command, name, process) ==
    [release |-> release, command |-> command, module |-> name, process |-> process, file |-> DotEnv]

Launches ==
    {As("old", "serve", None, Nothing),
     As("new", "serve", None, [DB_MAX_CONNECTIONS |-> ""]),
     As("new", "serve", None, [DB_RUN_MIGRATIONS |-> "off"]),
     As("new", "serve", None, [APP_PORT |-> "70000"]),
     As("new", "serve", None, [DB_MAX_CONNECTIONS |-> "0"]),
     As("old", "serve", None, [JWT_SECRET |-> ""]),
     As("new", "migrate", None, Nothing),
     As("new", "migrate", "catalog", Nothing),
     As("old", "migrate", "catalog", Nothing),
     As("old", "seed", None, Nothing)}

===============================================================================
