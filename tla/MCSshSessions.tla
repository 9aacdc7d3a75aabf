--------------------------- MODULE MCSshSessions ---------------------------
(* Instances of SshSessions for TLC.  One good password; root is listed    *)
(* too, as in test_root_login_always_refused.                              *)
EXTENDS SshSessions

MCCredentials == {<<"admin", "admin123">>, <<"root", "admin123">>}

============================================================================
