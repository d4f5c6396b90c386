--------------------------- MODULE MtabCheckLoop ---------------------------
(***************************************************************************)
(* mtab_check_loop.c: the loop main spends its life in.  It sleeps in poll *)
(* until the interval is over, a hotplug event comes or a signal           *)
(* interrupts it, logs the list of the previous round, and makes a new     *)
(* list unless the server is copying the old one.                          *)
(***************************************************************************)
EXTENDS MtabChecker

ST_init_check_loop ==
  /\ At("main", "init_loop")
  /\ active' = TRUE
  /\ Goto("main", "while")
  /\ UNCHANGED <<proc, ret, joining, lockVars, config, data, terminating,
                 srvVars, threadVars>>

\* Mutant: main frees the buffer without stopping the server.
while_then_free ==
  /\ At("main", "while")
  /\ Goto("main", IF active THEN "cfg_lock" ELSE "free_srv")
  /\ UNCHANGED <<proc, ret, joining, lockVars, config, loopVars, srvVars, threadVars>>

\* while (active); after it close(pfd.fd), and main calls ST_stop_srv.
while ==
  /\ At("main", "while")
  /\ Goto("main", IF active THEN "cfg_lock" ELSE "stop_test")
  /\ UNCHANGED <<proc, ret, joining, lockVars, config, loopVars, srvVars, threadVars>>

cfg_lock == At("main", "cfg_lock") /\ LockStep("main", "config", "cfg_read")

\* interval and thresholds are copied; ST_unlock(&config->mutex)
cfg_read ==
  /\ At("main", "cfg_read")
  /\ ST_unlock("config")
  /\ Goto("main", "poll")
  /\ UNCHANGED <<proc, ret, joining, life, config, loopVars, srvVars, threadVars>>

\* poll returns: timeout or event.  A signal is the handlers' business.
poll ==
  /\ At("main", "poll")
  /\ Goto("main", "log_lock")
  /\ UNCHANGED <<proc, ret, joining, lockVars, config, loopVars, srvVars, threadVars>>

log_lock == At("main", "log_lock") /\ LockStep("main", "entries", "log")

\* json_foreach: one message per entry; ST_unlock(&mtab_entries->mutex)
log ==
  /\ At("main", "log")
  /\ ST_unlock("entries")
  /\ Goto("main", "trylock")
  /\ UNCHANGED <<proc, ret, joining, life, config, loopVars, srvVars, threadVars>>

\* Mutant: the result of pthread_mutex_trylock is ignored.
trylock_unchecked ==
  /\ At("main", "trylock")
  /\ \/ ST_lock("srv", "main")
     \/ mutex["srv"] # "free" /\ UNCHANGED mutex
  /\ Goto("main", "chk_cfg_lock")
  /\ UNCHANGED <<proc, ret, joining, life, config, loopVars, srvVars, threadVars>>

\* pthread_mutex_trylock(&srv_buff->mutex): the round is skipped on EBUSY.
trylock ==
  /\ At("main", "trylock")
  /\ \/ ST_lock("srv", "main") /\ Goto("main", "chk_cfg_lock")
     \/ /\ mutex["srv"] # "free"
        /\ Goto("main", "recv")
        /\ UNCHANGED mutex
  /\ UNCHANGED <<proc, ret, joining, life, config, loopVars, srvVars, threadVars>>

\* Mutant: the buffer stays locked after the round.
publish_locked ==
  /\ At("main", "publish")
  /\ data' = "live"
  /\ Goto("main", "recv")
  /\ UNCHANGED <<proc, ret, joining, lockVars, config, active, terminating, srvVars,
                 threadVars>>

\* srv_buff->data = mtab_entries->textural; ST_unlock(&srv_buff->mutex)
publish ==
  /\ At("main", "publish")
  /\ data' = "live"
  /\ ST_unlock("srv")
  /\ Goto("main", "recv")
  /\ UNCHANGED <<proc, ret, joining, life, config, active, terminating, srvVars,
                 threadVars>>

recv ==
  /\ At("main", "recv")
  /\ Goto("main", "while")
  /\ UNCHANGED <<proc, ret, joining, lockVars, config, loopVars, srvVars, threadVars>>

ST_check_loop == \/ while \/ cfg_lock \/ cfg_read \/ poll \/ log_lock \/ log
                 \/ trylock \/ ST_check_mtab \/ publish \/ recv

\* A signal that arrives in poll makes it return EINTR, and the loop starts
\* over; one that arrives just before the call does not.
Interrupted == IF pc["main"] = "poll" /\ pc["hup"] = "idle"
               THEN {"poll", "while"} ELSE {pc["main"]}

\* Mutant: the handler leaves active alone.
ST_break_check_loop_missing ==
  /\ UNCHANGED active
  /\ \E l \in Interrupted : Goto("main", l)

\* Called by the SIGINT handler, whatever the main thread was doing.
ST_break_check_loop ==
  /\ active' = FALSE
  /\ \E l \in Interrupted : Goto("main", l)
=============================================================================
