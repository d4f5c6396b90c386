---------------------------- MODULE MtabChecker ----------------------------
(***************************************************************************)
(* mtab_checker.c: the list of mount points short of space and its JSON    *)
(* text (textural).  The list itself is abstracted away; what remains is   *)
(* which text srv_buff->data points to: the literal "{}" that main assigns *)
(* first, the text of the current list ("live"), or a text that            *)
(* ST_check_mtab has freed ("dangling").                                   *)
(***************************************************************************)
EXTENDS StoredState

ST_init_mtab_checker ==
  /\ At("main", "init_checker")
  /\ life' = [life EXCEPT !["entries"] = "live"]
  /\ Goto("main", "init_srv")
  /\ UNCHANGED <<proc, ret, joining, mutex, config, loopVars, srvVars, threadVars>>

\* The text that data pointed to when it was freed.
Freed(d) == IF d = "live" THEN "dangling" ELSE d

\* ST_check_mtab: ST_lock(&config->mutex)
chk_cfg_lock == At("main", "chk_cfg_lock") /\ LockStep("main", "config", "chk_cfg_read")

\* notice_level = config->notice_percent; ST_unlock(&config->mutex)
chk_cfg_read ==
  /\ At("main", "chk_cfg_read")
  /\ ST_unlock("config")
  /\ Goto("main", "chk_lock")
  /\ UNCHANGED <<proc, ret, joining, life, config, loopVars, srvVars, threadVars>>

chk_lock == At("main", "chk_lock") /\ LockStep("main", "entries", "chk_body")

\* The list is rebuilt, the text freed and made again; ST_unlock(&me->mutex).
chk_body ==
  /\ At("main", "chk_body")
  /\ data' = Freed(data)
  /\ ST_unlock("entries")
  /\ Goto("main", "publish")
  /\ UNCHANGED <<proc, ret, joining, life, config, active, terminating, srvVars,
                 threadVars>>

ST_check_mtab == chk_cfg_lock \/ chk_cfg_read \/ chk_lock \/ chk_body

ST_destroy_mtab_checker ==
  /\ At("main", "destroy_checker")
  /\ life' = [life EXCEPT !["entries"] = "freed"]
  /\ data' = Freed(data)
  /\ Goto("main", "destroy_config")
  /\ UNCHANGED <<proc, ret, joining, mutex, config, active, terminating, srvVars,
                 threadVars>>
=============================================================================
