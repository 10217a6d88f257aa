---------------------------- MODULE MCProjectFiles ----------------------------
EXTENDS ProjectFiles

Asked(cli, web) == [cli |-> cli, web |-> web]

\* The life of a project from the CLI; keys moved to and fro; the dashboard
\* beside a CLI that makes and destroys; both writing secrets.
SomeScenes ==
  {Asked({"init", "up", "set", "destroy"}, {}),
   Asked({"init", "up", "export", "import", "destroy"}, {}),
   Asked({"init", "up"}, {"set", "remove", "destroy", "putToml"}),
   Asked({"init", "set", "edit"}, {"up", "set", "list"})}

\* init, up and destroy, one after the other or not.
OneProject == {Asked({"init", "up", "destroy"}, {})}

=============================================================================
