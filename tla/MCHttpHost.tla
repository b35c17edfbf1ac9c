----------------------------- MODULE MCHttpHost -----------------------------
(* HttpHost on small instances: the hosts of requests, and the environment. *)
EXTENDS HttpHost

CONSTANT none

Acme  == <<"acme", "auth0", "com">>
App   == <<"app", "convex", "cloud">>
Other == <<"other", "convex", "cloud">>

(* Hosts that are listed by name, by suffix or not at all, tenants that are *)
(* configured and others, and names that only resemble a listed one.        *)
MCHost ==
    {Acme, App, Other, <<"auth0", "com">>, <<"convex", "site">>, <<"api", "stripe", "com">>,
     <<"api", "supabase", "com">>, <<"app", "supabase", "co">>, <<"sentry", "io">>,
     <<"acme", "sentry", "io">>, <<"api", "github", "com", "example", "org">>}

MCCredentials == {"auth0", "convex", "stripe", "supabase", "sentry", "github"}
MCTenant == [auth0 |-> Acme, convex |-> App, supabase |-> none,
             sentry |-> <<"acme", "sentry", "io">>]
=============================================================================
