------------------------------- MODULE MCStartup ------------------------------
(* A hook besides the tracers of the service and of RunHTTPServer, one client  *)
(* and two tasks.                                                             *)
EXTENDS Startup
===============================================================================
