------------------------------ MODULE MCShell ------------------------------
\* Lines that reach / and beyond, and both homes, in several ways.
EXTENDS Shell

Channels == Permutations(Chans)

Go(from, segments) == [from |-> from, segments |-> segments]
Type(verb, sudo, path) == [verb |-> verb, sudo |-> sudo, path |-> path]

MCLines ==
  {Type(verb, FALSE, NoPath) :
     verb \in {"cd", "ls", "pwd", "home", "whoami", "id", "escalate", "exit"}}
  \cup {Type("cd", FALSE, Go("root", <<"root">>)),
        Type("cd", FALSE, Go("cwd", <<"..", "..">>)),
        Type("cd", TRUE, Go("cwd", <<"root">>)),
        Type("cd", FALSE, Go("home", <<"..", ".", "..", "..", "tmp">>)),
        Type("exit", TRUE, NoPath),
        Type("ls", TRUE, Go("cwd", <<"..", "root">>)),
        Type("ls", FALSE, Go("root", <<"home", "admin">>)),
        Type("ls", FALSE, Go("home", <<"app">>)),
        Type("ls", FALSE, Go("root", <<"~">>))}
============================================================================
