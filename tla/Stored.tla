------------------------------- MODULE Stored -------------------------------
(***************************************************************************)
(* stored.c: main, the two signal handlers, and the daemon as a whole.     *)
(*                                                                         *)
(* Init is the state after ST_demonize: the handlers are installed and     *)
(* nothing is allocated yet.                                               *)
(***************************************************************************)
EXTENDS Configure, Srv, MtabCheckLoop

Init ==
  /\ proc = "run"
  /\ pc = [main |-> "new_config", hup |-> "idle"]
  /\ ret = "destroy_srv"
  /\ joining = [f \in Frames |-> NoThread]
  /\ mutex = [m \in Mutexes |-> "free"]
  /\ life = [o \in Objects |-> "unset"]
  /\ config = [http_enabled |-> FALSE, http_port |-> 0,
               http_bind_address |-> "invalid"]
  /\ data = "uninit"
  /\ active = FALSE
  /\ terminating = FALSE
  /\ stopped = TRUE
  /\ srv_thread = NoThread
  /\ parentfd = NoThread
  /\ childfd = NoThread
  /\ spc = [t \in Threads |-> "none"]
  /\ port = [t \in Threads |-> 0]
  /\ sock = [t \in Threads |-> "none"]
  /\ conn = [t \in Threads |-> Closed]
  /\ buf = [t \in Threads |-> "JUNK"]
  /\ method = [t \in Threads |-> "JUNK"]

(***************************************************************************)
(* main.                                                                   *)
(***************************************************************************)

\* srv_buff->data = "{}"
set_data ==
  /\ At("main", "set_data")
  /\ data' = "literal"
  /\ Goto("main", "start_lock")
  /\ UNCHANGED <<proc, ret, joining, lockVars, config, active, terminating,
                 srvVars, threadVars>>

exit == At("main", "exit") /\ ST_abort("exited")

main == \/ ST_new_config \/ ST_init_mtab_checker \/ ST_init_srv \/ set_data
        \/ ST_start_srv("main") \/ ST_init_check_loop \/ ST_check_loop
        \/ ST_stop_srv("main") \/ ST_destroy_srv \/ ST_destroy_mtab_checker
        \/ ST_destroy_config \/ config_abort("main") \/ exit

(***************************************************************************)
(* The signal handlers.                                                    *)
(***************************************************************************)

\* The server thread, if there is one, is where signals may find it.
ServerReady == \A t \in Threads : spc[t] \in LivePoints => spc[t] \in ServePoints

\* SIGHUP is delivered to the main thread.  While its handler runs another
\* one is kept back.  reload calls ST_reload_config(core_config) and
\* ST_restart_srv(srv_buff), that is ST_stop_srv and ST_start_srv.
SigHup ==
  /\ proc = "run"
  /\ pc["hup"] = "idle"
  /\ pc["main"] \in HupPoints
  /\ ServerReady
  /\ Overlap \/ ~terminating
  /\ FreeSlots # {}
  /\ \E l \in Interrupted : pc' = [main |-> l, hup |-> "reload_lock"]
  /\ UNCHANGED <<proc, ret, joining, lockVars, config, loopVars, srvVars, threadVars>>

reload == \/ reload_lock \/ reload_load \/ config_abort("hup")
          \/ ST_stop_srv("hup") \/ ST_start_srv("hup")

\* SIGINT: stop logs that the daemon terminates and breaks the loop.
SigInt ==
  /\ proc = "run"
  /\ pc["main"] \in IntPoints
  /\ ServerReady
  /\ Overlap \/ pc["hup"] = "idle"
  /\ ST_break_check_loop
  /\ terminating' = TRUE
  /\ UNCHANGED <<proc, ret, joining, lockVars, config, data, srvVars, threadVars>>

(***************************************************************************)
(* The environment: clients send the rest of their requests.               *)
(***************************************************************************)
ClientSend(t) ==
  /\ proc = "run"
  /\ conn[t].tx # <<>>
  /\ conn' = [conn EXCEPT ![t].rx = Append(conn[t].rx, Head(conn[t].tx)),
                          ![t].tx = Tail(conn[t].tx)]
  /\ UNCHANGED <<proc, controlVars, lockVars, config, loopVars, srvVars,
                 spc, port, sock, buf, method>>

\* The process is gone.
Halted == proc # "run" /\ UNCHANGED vars

Next == \/ main
        \/ reload
        \/ SigHup
        \/ SigInt
        \/ \E t \in Threads : serve(t) \/ ClientSend(t)
        \/ Halted

Spec == Init /\ [][Next]_vars

(***************************************************************************)
(* Fairness: the scheduler runs every thread that can run, clients send    *)
(* what they announced, and a thread that waits for a mutex gets it when   *)
(* it is free again and again.  Nothing makes signals or clients come.     *)
(***************************************************************************)
Fairness ==
  /\ WF_vars(main)
  /\ WF_vars(reload)
  /\ \A t \in Threads : /\ WF_vars(serve_step(t))
                        /\ WF_vars(ClientSend(t))
                        /\ SF_vars(copy_lock(t))
                        /\ SF_vars(port_lock(t))

FairSpec == Spec /\ Fairness

(***************************************************************************)
(* Type invariant: the values the variables of the daemon take.            *)
(***************************************************************************)
TypeOK ==
  /\ proc \in Outcomes
  /\ pc \in [Frames -> MainPoints \cup HandlerPoints]
  /\ pc["main"] \in MainPoints /\ pc["hup"] \in HandlerPoints
  /\ ret \in {"destroy_srv", "free_srv"}
  /\ joining \in [Frames -> Threads \cup {NoThread}]
  /\ mutex \in [Mutexes -> Threads \cup {"free", "main"}]
  /\ life \in [Objects -> {"unset", "live", "freed"}]
  /\ config \in Settings
  /\ data \in {"uninit", "literal", "live", "dangling"}
  /\ active \in BOOLEAN
  /\ terminating \in BOOLEAN
  /\ stopped \in BOOLEAN
  /\ srv_thread \in Threads \cup {NoThread}
  /\ parentfd \in Threads \cup {NoThread}
  /\ childfd \in Threads \cup {NoThread}
  /\ spc \in [Threads -> ServerPoints]
  /\ port \in [Threads -> Int]
  /\ sock \in [Threads -> SocketStates]
  /\ conn \in [Threads -> Connection]
  /\ buf \in [Threads -> Lines \cup {"JUNK"}]
  /\ method \in [Threads -> Lines \cup {"JUNK"}]

(***************************************************************************)
(* Points of main at which it holds no mutex.                              *)
(***************************************************************************)
LockFreePoints == {"while", "cfg_lock", "poll", "log_lock", "trylock", "recv"}

\* Points of the server thread once its socket listens.
SettledPoints == {"quit", "accept", "reqline", "hdr", "copy_lock", "copy", "respond"}

(***************************************************************************)
(* Safety.                                                                 *)
(***************************************************************************)

\* A reload has found an unusable file and freed the configuration, and a
\* server that has not read its port yet goes on to lock the mutex in it.
LocksFreedConfig == /\ pc["hup"] = "config_abort"
                    /\ \E t \in Threads : spc[t] = "port_lock"

\* No step of the daemon uses an object before it exists or after it was
\* freed, reads the document after ST_check_mtab freed it, or joins a thread
\* twice.  There is one exception, and no other: between ST_destroy_config
\* and the exit in ST_abort, a reload that fails lets the server thread run.
MemorySafe == /\ proc \notin {"abort_npe", "abort_data"}
              /\ proc = "undefined" => LocksFreedConfig

\* When the SIGHUP handler has returned and main is in its loop, the server
\* is as the configuration says: one thread, on the configured port, if and
\* only if it is enabled.
ServerMatchesConfig ==
  (proc = "run" /\ pc["hup"] = "idle" /\ pc["main"] \in LoopPoints) =>
     /\ stopped = ~config.http_enabled
     /\ \A t \in Threads :
          /\ spc[t] \in LivePoints \cup {"done"} <=> (~stopped /\ t = srv_thread)
          /\ spc[t] \in SettledPoints \cup {"socket", "bind", "listen"}
                => port[t] = config.http_port

\* No mutex is destroyed while the server thread holds it, and none while the
\* main thread does but by a reload that fails: its handler destroys the mutex
\* of the configuration it has locked itself, or that of the buffer, which the
\* main it interrupted may have locked, and ends the process.
DestroyedUnlocked ==
  \A o \in Objects : life[o] = "freed" =>
    \/ mutex[o] = "free"
    \/ mutex[o] = "main" /\ pc["hup"] \in AbortPoints

\* A stopped server leaves no client connection open.
NoAbandonedClient == \A t \in Threads : spc[t] \notin LivePoints => ~conn[t].open

\* The mutex frame f waits for.
Awaits(f) == CASE pc[f] \in {"reload_lock", "start_lock", "addr_lock", "cfg_lock",
                             "chk_cfg_lock"} -> {"config"}
               [] pc[f] \in {"log_lock", "chk_lock"} -> {"entries"}
               [] pc[f] = "create" -> {"mxq"}
               [] OTHER -> {}

ServerAwaits(t) == CASE spc[t] = "port_lock" -> {"config"}
                     [] spc[t] = "copy_lock" -> {"srv"}
                     [] OTHER -> {}

\* The main thread never waits for a mutex it holds itself, nor joins a
\* server thread that waits for one.
NoDeadlock ==
  proc = "run" =>
    \A f \in Frames : (f = "hup" \/ pc["hup"] = "idle") =>
      /\ \A m \in Awaits(f) : mutex[m] # "main"
      /\ pc[f] = "stop_wait" =>
           \A m \in ServerAwaits(joining[f]) : mutex[m] # "main"

\* A restart never finds its port taken by the server it replaces.
NoPortConflict == proc # "abort_bind"

(***************************************************************************)
(* Liveness.                                                               *)
(***************************************************************************)

\* A reload that begins comes to its end.
ReloadCompletes == (pc["hup"] # "idle") ~> (pc["hup"] = "idle" \/ proc # "run")

\* SIGINT terminates the daemon.
Terminates == terminating ~> (proc # "run")

\* Every connection is closed in the end.
ConnectionsClosed ==
  \A t \in Threads : conn[t].open ~> (~conn[t].open \/ proc # "run")
=============================================================================
