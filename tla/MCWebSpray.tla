----------------------------- MODULE MCWebSpray -----------------------------
\* WordPress's two vectors, a form whose fields the honeypot knows and one it does
\* not, lists that overlap with what it leaks or repeat themselves, and paths that
\* overlap with the known.
EXTENDS WebSpray

MCVectors ==
  <<[path |-> "/wp-login.php", fields |-> <<"log", "pwd">>,
     failures |-> {"login_error", "incorrect"}, successes |-> {}],
    [path |-> "/xmlrpc.php", fields |-> <<"", "">>,
     failures |-> {"faultCode"}, successes |-> {"isAdmin"}]>>
MCCombos == <<<<"username", "password">>, <<"login", "passwd">>>>
MCLogins == <<"/wp-login.php", "/admin/login">>
MCPaths == <<"/a">>
MCAllowed == {<<"admin", "admin">>, <<"admin", "admin123">>}
MCUsers == <<"admin", "editor">>
MCReports == {<<>>, <<"/", "/a", "/a">>, <<"/wp-login.php", "/a", "/b">>}
MCJobs ==
  [target : Sites, attackable : BOOLEAN, report : MCReports,
   usernames : {<<>>, <<"root", "admin">>},
   passwords : {<<"admin">>, <<"admin", "admin">>, <<"secret", "admin", "admin123">>},
   max_attempts : {0, 1, 2, 3, 5, 7}]
=============================================================================
