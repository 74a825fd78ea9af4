---------------------------- MODULE MCRepoConfig ----------------------------
(* Constants for the runs of RepoConfig. *)
EXTENDS RepoConfig

CONSTANTS alice, bob, id1, id2

MCFiles == {<<"app.env">>, <<"secrets", "db">>, <<"secrets", "prod", "db">>, <<"prod", "secrets", "db">>}

MCGlobs == {<<"secrets", "**">>, <<"", "secrets", "*">>, <<"**", "secrets", "**", "db">>,
            <<"**", "**", "db">>, <<"*", "**", "*">>, <<"app.env">>}

Content(patterns, exclude, backend, key_source, repo_id, recipients) ==
    [patterns |-> patterns, exclude |-> exclude, backend |-> backend, key_source |-> key_source,
     repo_id |-> repo_id, recipients |-> recipients]

\* One written by hand, which leaves fields out; one that excludes; one that needs
\* the global one to be complete.
MCRepoConfigs ==
    {Content({<<"secrets", "**">>}, {}, Unset, Unset, Unset, {}),
     Content({<<"**", "secrets", "**", "db">>, <<"*", "**", "*">>}, {<<"", "secrets", "*">>}, "gpg",
             Unset, id1, {alice}),
     Content({}, {<<"app.env">>}, "gpg", ".repo-enc/key.gpg", Unset, {})}

MCGlobals ==
    {Content({<<"app.env">>}, {<<"**", "**", "db">>}, Unset, Unset, Unset, {bob}),
     Content({<<"**", "**", "db">>}, {}, "gpg", ".keyfold/key.gpg", id2, {bob})}

=============================================================================
