----------------------------- MODULE Configure -----------------------------
(***************************************************************************)
(* util/configure.c: the configuration object, loaded at start and again   *)
(* on SIGHUP.  The file is abstracted to whether libconfig reads it with   *)
(* every value present (ok) and to the settings of the HTTP server; the    *)
(* thresholds and the interval do not influence control here.  The         *)
(* administrator may edit the file at any time, so that each load finds    *)
(* any of the contents in Files.                                           *)
(***************************************************************************)
EXTENDS StoredState

\* A file that cannot be used: ST_destroy_config(c) ...
load_failed(f) ==
  FreeBeforeAbort(f, "config", "config_abort") /\ UNCHANGED mutex

\* ... and ST_abort.
config_abort(f) == At(f, "config_abort") /\ ST_abort("abort_config")

\* Mutant: the address is not looked up, and its pointer not assigned.
load_from_file_no_address(c) == [http_enabled |-> c.http_enabled,
                                 http_port |-> c.http_port,
                                 http_bind_address |-> "unset"]

\* What load_from_file leaves in the object when it succeeds.
load_from_file(c) == [http_enabled |-> c.http_enabled,
                      http_port |-> c.http_port,
                      http_bind_address |-> c.http_bind_address]

ST_new_config ==
  /\ At("main", "new_config")
  /\ \E c \in Files :
     \/ /\ c.ok
        /\ config' = load_from_file(c)
        /\ life' = [life EXCEPT !["config"] = "live"]
        /\ Goto("main", "init_checker")
        /\ UNCHANGED <<proc, ret, joining, mutex, loopVars, srvVars, threadVars>>
     \/ ~c.ok /\ load_failed("main")

\* ST_reload_config: ST_lock(&c->mutex).
reload_lock == At("hup", "reload_lock") /\ LockStep("hup", "config", "reload_load")

\* ST_reload_config: load_from_file and ST_unlock(&c->mutex).
reload_load ==
  /\ At("hup", "reload_load")
  /\ \E c \in Files :
     \/ /\ c.ok
        /\ config' = load_from_file(c)
        /\ ST_unlock("config")
        /\ Goto("hup", "stop_test")
        /\ UNCHANGED <<proc, ret, joining, life, loopVars, srvVars, threadVars>>
     \/ ~c.ok /\ load_failed("hup")

ST_destroy_config ==
  /\ At("main", "destroy_config")
  /\ life' = [life EXCEPT !["config"] = "freed"]
  /\ Goto("main", "exit")
  /\ UNCHANGED <<proc, ret, joining, mutex, config, loopVars, srvVars, threadVars>>
=============================================================================
