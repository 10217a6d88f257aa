------------------------------- MODULE MCBox -------------------------------
EXTENDS Box

CronJob(i, n, b, e) == [id |-> i, name |-> n, body |-> b, enabled |-> e]

Holding(shape, list) == [shape |-> shape, list |-> list]

A1 == CronJob(1, "a", "x", TRUE)
A2 == CronJob(2, "a", "y", TRUE)
B2 == CronJob(2, "b", "y", FALSE)

\* jobs.json as the dashboard's routes expect it, and as the agent's CLI and
\* reconcileCrons do: with a job not declared and disabled, and with a name
\* there twice.
AList == Holding("list", <<A1>>)
AnObject == Holding("object", <<A1, B2>>)
Doubled == Holding("object", <<A1, A2>>)
Alone == Holding("object", <<A1>>)

Scene(who, files, n) ==
  [crew : {who}, file : files, posts : {n}, changes : {0}]

Network(provider, n, changes) ==
  [crew : {{provider}}, file : {NoFile}, posts : {n}, changes : {changes}]

\* Three edits, two at a time; edits and a read over a link that breaks; the
\* routes without the lock; every read route once, a few two at a time; a
\* reconciliation with the scheduler or the dashboard; two runs that
\* reconcile the firewall of each cloud.
SomeScenes ==
  UNION {Scene({"create", "toggle", "delete"}, {AList}, 3),
         Scene({"create", "put", "breaks"}, {AList}, 2),
         Scene({"create", "breaks"}, {NoFile, AnObject}, 2),
         Scene({"skillPut", "gateway"}, {AList}, 2),
         Scene(DOMAIN ReadRoutes, {AList}, 1),
         Scene({"profiles", "delete"}, {AList}, 2),
         Scene({"models"}, {AList}, 2),
         Scene({"reconcile", "scheduler"}, {NoFile, AnObject, AList}, 1),
         Scene({"reconcile", "scheduler"}, {Doubled}, 2),
         Scene({"reconcile", "gateway"}, {Alone}, 2),
         Scene({"rebuild"}, {NoFile}, 0),
         Scene({"view"}, {NoFile}, 0),
         Network("aws", 1, 2),
         Network("aws", 2, 1),
         Network("gcp", 2, 2)}

\* A rule that may be declared, and the SSH rule of another address.
SomeByHand == {[port |-> 80, cidr |-> Anyone], [port |-> SshPort, cidr |-> "b"]}

=============================================================================
