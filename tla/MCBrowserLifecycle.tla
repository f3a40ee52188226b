------------------------- MODULE MCBrowserLifecycle -------------------------
(* One session, one call at a time, the monitor and the worker. *)
EXTENDS BrowserLifecycle, TLC

CONSTANTS s1, c1

OneSession == {s1}
OneCall == {c1}
=============================================================================
