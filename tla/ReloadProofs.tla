---------------------------- MODULE ReloadProofs ----------------------------
(***************************************************************************)
(* What a reload keeps: proofs about Stored that rest on the invariant of  *)
(* StoredProofs, for any number of thread slots, any configuration files   *)
(* and any clients.                                                        *)
(***************************************************************************)
EXTENDS StoredProofs

(***************************************************************************)
(* The invariants.                                                         *)
(***************************************************************************)

\* A connection is open only while the server thread deals with it.
ClientPoints == {"reqline", "hdr", "copy_lock", "copy", "respond"}

ConnInv == \A t \in Threads : conn[t].open => spc[t] \in ClientPoints

\* Points at which a frame holds the mutex of the configuration, and those
\* at which main holds the mutex of the entries.
ConfigHeld == {"cfg_read", "chk_cfg_read", "start_read", "addr_read", "reload_load"}
EntriesHeld == {"log", "chk_body"}

\* Points of ST_stop_srv after mxq is unlocked.
AfterUnlock == {"stop_join", "stop_wait", "stop_set"}

\* Who holds the mutex of the configuration.  The handler gets it only when
\* main does not hold it, and main stands still until the handler returns; a
\* reload that fails never releases it.
ConfigMutexInv ==
  /\ mutex["config"] = "main"
        <=> \/ \E f \in Frames : pc[f] \in ConfigHeld
            \/ pc["hup"] = "config_abort"
  /\ \A t \in Threads : mutex["config"] = t <=> spc[t] = "port_read"
  /\ pc["hup"] \notin {"idle", "reload_lock"} => pc["main"] \notin ConfigHeld

\* Only main takes the mutex of the entries; mxq is locked as long as the
\* server is to go on.
OtherMutexInv ==
  /\ mutex["entries"] \in {"free", "main"}
  /\ mutex["entries"] = "main" <=> pc["main"] \in EntriesHeld
  /\ mutex["mxq"] \in {"free", "main"}
  /\ mutex["mxq"] = "main"
        <=> (~stopped /\ \A f \in Frames : pc[f] \notin AfterUnlock)

\* Objects are freed at the end of main, or just before ST_abort.
FreedInv ==
  /\ life["config"] = "freed"
        => pc["main"] \in {"config_abort", "exit"} \/ pc["hup"] = "config_abort"
  /\ life["srv"] = "freed"
        => \/ pc["main"] \in {"addr_abort", "destroy_checker", "destroy_config", "exit"}
           \/ pc["hup"] = "addr_abort"
  /\ life["entries"] = "freed" => pc["main"] \in {"destroy_config", "exit"}

\* The server is switched on or off as the configuration says, except while
\* a reload or the end of main is under way.
SwitchInv ==
  /\ (pc["hup"] = "idle" /\ pc["main"] \in {"init_loop"} \cup LoopPoints)
        => (stopped <=> ~config.http_enabled)
  /\ \A f \in Frames : pc[f] \in StartPoints => stopped
  /\ \A f \in Frames : pc[f] \in {"addr_lock", "addr_read", "create"}
        => config.http_enabled

\* Points of the server thread after it has read its port.
PortPoints == SettledPoints \cup {"socket", "bind", "listen"}

\* The thread uses the configured port until a reload replaces the
\* configuration, and then it is replaced too.
PortInv ==
  pc["hup"] \in {"idle", "reload_lock", "reload_load"} =>
    \A t \in Threads : spc[t] \in PortPoints => port[t] = config.http_port

\* Points of the server thread before its socket listens.
EarlyPoints == {"port_lock", "port_read", "socket", "bind", "listen"}

\* No listening socket is left when the next server starts: it is the
\* socket of the current thread, parentfd names it once the thread is
\* settled, and SIGHUP finds no other.
SockInv ==
  /\ \A t \in Threads : sock[t] = "listen" => t = srv_thread
  /\ \A t \in Threads : spc[t] \in SettledPoints \cup {"bind", "listen", "done"}
        => parentfd = t
  /\ pc["hup"] \in {"reload_lock", "reload_load"} \cup StopPoints
        => \A t \in Threads : spc[t] \notin EarlyPoints
  /\ (/\ pc["main"] \notin StopPoints \cup EndPoints
      /\ stopped \/ pc["hup"] \in {"stop_unlock"} \cup AfterUnlock)
        => \A t \in Threads : sock[t] # "listen"

(***************************************************************************)
(* Frames: what the steps of main and of the handlers leave alone.         *)
(***************************************************************************)

\* A lock step changes nothing of the server, the configuration or the end
\* of the process it does not itself bring about.
LEMMA LockStepFrame ==
  ASSUME NEW f, NEW m, NEW l, LockStep(f, m, l)
  PROVE  UNCHANGED <<srvVars, threadVars, config, life>>
BY DEF LockStep, ST_abort, lockVars

\* The loop leaves the server and the configuration alone.
LEMMA LoopFrame ==
  ASSUME ST_check_loop
  PROVE  UNCHANGED <<srvVars, threadVars, config, life>>
<1> USE LockStepFrame DEF lockVars
<1>1. CASE cfg_lock \/ log_lock \/ chk_cfg_lock \/ chk_lock
  BY <1>1 DEF cfg_lock, log_lock, chk_cfg_lock, chk_lock
<1>2. CASE while \/ cfg_read \/ poll \/ log
  BY <1>2 DEF while, cfg_read, poll, log
<1>3. CASE trylock \/ chk_cfg_read \/ chk_body \/ publish \/ recv
  BY <1>3 DEF trylock, chk_cfg_read, chk_body, publish, recv
<1> QED BY <1>1, <1>2, <1>3 DEF ST_check_loop, ST_check_mtab

\* The rest of main, outside ST_start_srv and ST_stop_srv.
OtherMain == \/ ST_new_config \/ ST_init_mtab_checker \/ ST_init_srv \/ set_data
             \/ ST_init_check_loop \/ ST_destroy_srv \/ ST_destroy_mtab_checker
             \/ ST_destroy_config \/ config_abort("main") \/ exit

\* It leaves the server and the mutexes alone.
LEMMA OtherMainFrame ==
  ASSUME OtherMain
  PROVE  /\ UNCHANGED <<srvVars, threadVars, mutex>>
         /\ pc["main"] # "new_config" => UNCHANGED config
<1> USE DEF lockVars, loopVars
<1>0. CASE config_abort("main") BY <1>0 DEF config_abort, ST_abort
<1>1. CASE ST_new_config
  BY <1>1 DEF ST_new_config, load_failed, FreeBeforeAbort, At
<1>2. CASE ST_init_mtab_checker \/ ST_init_srv \/ set_data \/ ST_init_check_loop
  BY <1>2 DEF ST_init_mtab_checker, ST_init_srv, set_data, ST_init_check_loop
<1>3. CASE ST_destroy_srv \/ ST_destroy_mtab_checker \/ ST_destroy_config \/ exit
  BY <1>3 DEF ST_destroy_srv, destroy_srv, free_srv, ST_destroy_mtab_checker,
     ST_destroy_config, exit, ST_abort
<1> QED BY <1>0, <1>1, <1>2, <1>3 DEF OtherMain

\* ST_reload_config and the delivery of signals.
LEMMA ReloadFrame ==
  ASSUME reload_lock \/ reload_load \/ config_abort("hup") \/ SigHup \/ SigInt
  PROVE  UNCHANGED <<srvVars, threadVars>>
<1>1. CASE reload_lock BY <1>1, LockStepFrame DEF reload_lock
<1>2. CASE reload_load
  BY <1>2 DEF reload_load, load_failed, FreeBeforeAbort
<1>3. CASE SigHup \/ SigInt BY <1>3 DEF SigHup, SigInt
<1>4. CASE config_abort("hup") BY <1>4 DEF config_abort, ST_abort
<1> QED BY <1>1, <1>2, <1>3, <1>4

\* The steps of the two calls on the server that do not change its state.
QuietCall(f) == \/ start_lock(f) \/ start_read(f) \/ addr_lock(f) \/ addr_read(f)
                \/ addr_abort(f) \/ stop_test(f) \/ stop_unlock(f) \/ stop_join(f)

\* They do not.
LEMMA QuietCallFrame ==
  ASSUME NEW f, QuietCall(f)
  PROVE  UNCHANGED <<srvVars, threadVars, config>>
<1>1. CASE start_lock(f) BY <1>1, LockStepFrame DEF start_lock, ST_abort
<1>2. CASE start_read(f) BY <1>2 DEF start_read
<1>3. CASE addr_lock(f) BY <1>3, LockStepFrame DEF addr_lock
<1>4. CASE addr_read(f) BY <1>4 DEF addr_read, FreeBeforeAbort
<1>5. CASE stop_test(f) BY <1>5 DEF stop_test
<1>6. CASE stop_unlock(f) BY <1>6 DEF stop_unlock
<1>7. CASE stop_join(f) BY <1>7 DEF stop_join, ST_abort
<1>8. CASE addr_abort(f) BY <1>8 DEF addr_abort, ST_abort
<1> QED BY <1>1, <1>2, <1>3, <1>4, <1>5, <1>6, <1>7, <1>8 DEF QuietCall

\* The server thread changes neither the configuration nor the switch.
LEMMA ServeFrame ==
  ASSUME NEW t \in Threads, serve(t)
  PROVE  proc = "run" /\ UNCHANGED <<pc, config, life, stopped, srv_thread>>
BY DEF serve, serve_step, port_lock, port_read, socket, bind, listen, bind_or_listen, quit,
       accept_client, accept_fail, accept_error, accept_break, reqline, hdr, copy_lock, copy,
       respond, ServerAt, ST_abort, controlVars, lockVars, srvVars

\* The loop runs without a handler and ends in main's ST_stop_srv.
LEMMA LoopMoves ==
  ASSUME IInv, ST_check_loop
  PROVE  /\ pc["hup"] = "idle" /\ pc["main"] \in LoopPoints
         /\ pc'["hup"] = "idle" /\ pc'["main"] \in LoopPoints \cup {"stop_test"}
<1>1. pc \in [Frames -> MainPoints \cup HandlerPoints] BY DEF IInv, TypeOK
<1> USE <1>1 DEF At, Goto, LoopPoints, Frames
<1>2. ASSUME NEW m, NEW k \in LoopPoints, NEW l \in LoopPoints, At("main", k),
             LockStep("main", m, l)
      PROVE  /\ pc["hup"] = "idle" /\ pc["main"] \in LoopPoints
             /\ pc'["hup"] = "idle" /\ pc'["main"] \in LoopPoints \cup {"stop_test"}
  BY <1>2 DEF LockStep, ST_abort, controlVars
<1>3. CASE cfg_lock \/ log_lock \/ chk_cfg_lock \/ chk_lock
  BY <1>2, <1>3 DEF cfg_lock, log_lock, chk_cfg_lock, chk_lock
<1>4. CASE while \/ cfg_read \/ poll \/ log BY <1>4 DEF while, cfg_read, poll, log
<1>5. CASE trylock \/ chk_cfg_read BY <1>5 DEF trylock, chk_cfg_read
<1>6. CASE chk_body \/ publish \/ recv BY <1>6 DEF chk_body, publish, recv
<1> QED BY <1>3, <1>4, <1>5, <1>6 DEF ST_check_loop, ST_check_mtab

\* The rest of main runs without a handler, and enters the loop from
\* init_loop and ST_start_srv from set_data only.
LEMMA OtherMainMoves ==
  ASSUME IInv, OtherMain
  PROVE  /\ pc["hup"] = "idle" /\ pc'["hup"] = "idle"
         /\ pc["main"] \notin LoopPoints \cup StartPoints \cup StopPoints
         /\ \/ UNCHANGED pc
            \/ pc["main"] = "new_config" /\ pc'["main"] \in {"init_checker", "config_abort"}
            \/ pc["main"] = "init_checker" /\ pc'["main"] = "init_srv"
            \/ pc["main"] = "init_srv" /\ pc'["main"] = "set_data"
            \/ pc["main"] = "set_data" /\ pc'["main"] = "start_lock"
            \/ pc["main"] = "init_loop" /\ pc'["main"] = "while"
            \/ pc["main"] \in EndPoints /\ pc'["main"] \in EndPoints \cup {"stop_test"}
<1>1. pc \in [Frames -> MainPoints \cup HandlerPoints] BY DEF IInv, TypeOK
<1> USE <1>1 DEF At, Goto, Frames, LoopPoints, StartPoints, StopPoints, EndPoints
<1>2. CASE ST_new_config
  BY <1>2 DEF ST_new_config, load_failed, FreeBeforeAbort, controlVars
<1>3. CASE ST_init_mtab_checker \/ ST_init_srv \/ set_data \/ ST_init_check_loop
  BY <1>3 DEF ST_init_mtab_checker, ST_init_srv, set_data, ST_init_check_loop
<1>4. CASE ST_destroy_srv \/ ST_destroy_mtab_checker \/ ST_destroy_config
  BY <1>4 DEF ST_destroy_srv, destroy_srv, free_srv, ST_destroy_mtab_checker,
     ST_destroy_config
<1>5. CASE exit \/ config_abort("main")
  BY <1>5 DEF exit, config_abort, ST_abort, controlVars
<1> QED BY <1>2, <1>3, <1>4, <1>5 DEF OtherMain

\* A call on the server moves its own frame.
LEMMA CallMoves ==
  ASSUME IInv, NEW f \in Frames, ST_start_srv(f) \/ ST_stop_srv(f)
  PROVE  /\ pc[f] \in CallPoints /\ (f = "main" => pc["hup"] = "idle")
         /\ \A g \in Frames : g # f => pc'[g] = pc[g] /\ pc[g] \notin CallPoints
         /\ f = "hup" => pc["main"] \in LoopPoints
         /\ pc'["hup"] # "config_abort"
<1>0. pc \in [Frames -> MainPoints \cup HandlerPoints] BY DEF IInv, TypeOK
<1>1. pc[f] \in CallPoints /\ (f = "main" => pc["hup"] = "idle")
  BY DEF ST_start_srv, start_lock, start_read, addr_lock, addr_read, addr_abort, create, ST_stop_srv,
         stop_test, stop_child, stop_parent, stop_unlock, stop_join, stop_wait, stop_set, At,
         CallPoints, StartPoints, StopPoints
<1>2. \A g \in Frames : g # f => pc[g] \notin CallPoints
  BY <1>1, OneCall
<1>3. f = "hup" => pc["main"] \in LoopPoints
  BY <1>1 DEF IInv, HandlerInv, CallPoints, StartPoints, StopPoints
<1>4. UNCHANGED pc \/ \E l : l # "config_abort" /\ pc' = [pc EXCEPT ![f] = l]
  <2>1. StartReturn(f) # "config_abort" /\ StopReturn(f) # "config_abort"
    BY DEF StartReturn, StopReturn, IInv, TypeOK
  <2>2. UNCHANGED pc \/ \E l \in CallPoints \cup {StartReturn(f), StopReturn(f)} :
                           pc' = [pc EXCEPT ![f] = l]
    BY DEF ST_start_srv, start_lock, start_read, addr_lock, addr_read, addr_abort, create,
       ST_stop_srv, stop_test, stop_child, stop_parent, stop_unlock, stop_join, stop_wait, stop_set,
       Goto, LockStep, FreeBeforeAbort, ST_abort, controlVars, CallPoints, StartPoints, StopPoints
  <2> QED BY <2>1, <2>2 DEF CallPoints, StartPoints, StopPoints
<1>5. \A g \in Frames : g # f => pc'[g] = pc[g]
  BY <1>0, <1>4
<1>6. pc'["hup"] # "config_abort"
  BY <1>0, <1>1, <1>4 DEF Frames, CallPoints, StartPoints, StopPoints
<1> QED BY <1>1, <1>2, <1>3, <1>5, <1>6

\* Every step of the daemon is one of these.
LEMMA StepCases ==
  ASSUME [Next]_vars
  PROVE  \/ UNCHANGED vars
         \/ OtherMain
         \/ ST_check_loop
         \/ reload_lock \/ reload_load \/ config_abort("hup") \/ SigHup \/ SigInt
         \/ \E f \in Frames : \/ QuietCall(f) \/ create(f) \/ stop_child(f)
                              \/ stop_parent(f) \/ stop_wait(f) \/ stop_set(f)
         \/ \E t \in Threads : serve(t) \/ ClientSend(t)
BY DEF Next, main, reload, OtherMain, QuietCall, ST_start_srv, ST_stop_srv, Halted, Frames

(***************************************************************************)
(* No client connection outlives the thread that accepted it.              *)
(***************************************************************************)

\* A step of the server thread keeps connections with their thread.
LEMMA ServeConn ==
  ASSUME TypeOK, ConnInv, NEW t \in Threads, serve(t)
  PROVE  ConnInv'
<1> USE DEF TypeOK, ConnInv, ClientPoints, ServerAt, ServerGoto, threadVars, srvVars
<1>1. CASE port_lock(t) BY <1>1 DEF port_lock, ST_abort
<1>2. CASE port_read(t) BY <1>2 DEF port_read
<1>3. CASE socket(t) BY <1>3 DEF socket
<1>4. CASE bind(t) \/ listen(t) BY <1>4 DEF bind, listen, bind_or_listen, ST_abort
<1>5. CASE quit(t) BY <1>5 DEF quit
<1>6. CASE accept_client(t) BY <1>6 DEF accept_client
<1>7. CASE accept_fail(t) \/ accept_error(t)
  BY <1>7 DEF accept_fail, accept_error, accept_break
<1>8. ASSUME fgets(t)
      PROVE  \A u \in Threads : conn'[u].open => conn[u].open
  <2>1. conn' = conn \/ conn' = [conn EXCEPT ![t].rx = Tail(conn[t].rx)]
    BY <1>8, Zenon DEF fgets
  <2>2. CASE conn' = conn BY <2>2
  <2>3. CASE conn' = [conn EXCEPT ![t].rx = Tail(conn[t].rx)]
    <3>1. \A u \in Threads : u # t => conn'[u] = conn[u] BY <2>3
    <3>2. conn'[t] = [conn[t] EXCEPT !.rx = Tail(conn[t].rx)] BY <2>3
    <3>3. conn[t] \in Connection OBVIOUS
    <3>4. conn'[t].open = conn[t].open BY <3>2, <3>3 DEF Connection
    <3> QED BY <3>1, <3>4
  <2> QED BY <2>1, <2>2, <2>3
<1>9. CASE reqline(t) BY <1>8, <1>9 DEF reqline
<1>10. CASE hdr(t) BY <1>8, <1>10 DEF hdr
<1>11. CASE copy_lock(t) BY <1>11 DEF copy_lock, ST_abort
<1>12. CASE copy(t) BY <1>12 DEF copy, ST_abort
<1>13. CASE respond(t) BY <1>13 DEF respond, Closed
<1> QED BY <1>1, <1>2, <1>3, <1>4, <1>5, <1>6, <1>7, <1>9, <1>10, <1>11, <1>12, <1>13
        DEF serve, serve_step

\* Every step does: a thread that returns or is joined has no client.
LEMMA StepConn ==
  ASSUME TypeOK, ConnInv, [Next]_vars
  PROVE  ConnInv'
<1>1. ASSUME UNCHANGED <<spc, conn>> PROVE ConnInv'
  BY <1>1 DEF ConnInv
<1> USE DEF threadVars, srvVars
<1>2. CASE UNCHANGED vars BY <1>1, <1>2 DEF vars
<1>3. CASE OtherMain BY <1>1, <1>3, OtherMainFrame
<1>4. CASE ST_check_loop BY <1>1, <1>4, LoopFrame
<1>5. CASE reload_lock \/ reload_load \/ config_abort("hup") \/ SigHup \/ SigInt BY <1>1, <1>5, ReloadFrame
<1>6. ASSUME NEW f \in Frames, QuietCall(f) PROVE ConnInv'
  BY <1>1, <1>6, QuietCallFrame
<1>7. ASSUME NEW f \in Frames, create(f) PROVE ConnInv'
  BY <1>7 DEF create, FreeSlots, ServerGoto, ConnInv, ClientPoints, TypeOK
<1>8. ASSUME NEW f \in Frames, stop_child(f) PROVE ConnInv'
  BY <1>8 DEF stop_child, ConnInv, TypeOK, Connection
<1>9. ASSUME NEW f \in Frames, stop_parent(f) PROVE ConnInv'
  BY <1>1, <1>9 DEF stop_parent
<1>10. ASSUME NEW f \in Frames, stop_wait(f) PROVE ConnInv'
  BY <1>10 DEF stop_wait, ServerGoto, ConnInv, ClientPoints, TypeOK
<1>11. ASSUME NEW f \in Frames, stop_set(f) PROVE ConnInv'
  BY <1>1, <1>11 DEF stop_set
<1>12. ASSUME NEW t \in Threads, ClientSend(t) PROVE ConnInv'
  BY <1>12 DEF ClientSend, ConnInv, TypeOK, Connection
<1> QED BY <1>2, <1>3, <1>4, <1>5, <1>6, <1>7, <1>8, <1>9, <1>10, <1>11, <1>12, ServeConn,
           StepCases

\* A server that has stopped has closed every connection it accepted, on the
\* path of the answer 501 as on that of the document, whenever signals come.
THEOREM NoClientLeft == Spec => []NoAbandonedClient
<1>1. Init => TypeOK /\ ConnInv
  BY InitType DEF Init, ConnInv, Closed
<1>2. TypeOK /\ ConnInv /\ [Next]_vars => (TypeOK /\ ConnInv)'
  BY StepType, StepConn
<1>3. ConnInv => NoAbandonedClient
  BY DEF ConnInv, ClientPoints, NoAbandonedClient, LivePoints, ServerPoints
<1> QED BY <1>1, <1>2, <1>3, PTL DEF Spec

(***************************************************************************)
(* The mutexes.                                                            *)
(***************************************************************************)

MutexInv == ConfigMutexInv /\ OtherMutexInv

\* A step that takes or releases no mutex and moves no frame into or out of
\* a critical section.
LEMMA MutexStay ==
  ASSUME MutexInv,
         \A m \in {"config", "entries", "mxq"} : mutex'[m] = mutex[m],
         \A t \in Threads : spc'[t] = "port_read" <=> spc[t] = "port_read",
         stopped' = stopped,
         \A f \in Frames : /\ pc'[f] \in ConfigHeld <=> pc[f] \in ConfigHeld
                           /\ pc'[f] \in AfterUnlock <=> pc[f] \in AfterUnlock,
         pc'["main"] \in EntriesHeld <=> pc["main"] \in EntriesHeld,
         pc["hup"] \in {"idle", "reload_lock"} => pc'["hup"] \in {"idle", "reload_lock"},
         pc'["hup"] = "config_abort" <=> pc["hup"] = "config_abort"
  PROVE  MutexInv'
BY DEF MutexInv, ConfigMutexInv, OtherMutexInv, Frames

\* The loop, ST_check_mtab included.
LEMMA LoopMutex ==
  ASSUME IInv, IInv', MutexInv, ST_check_loop
  PROVE  MutexInv'
<1>1. UNCHANGED <<stopped, spc>> BY LoopFrame DEF srvVars, threadVars
<1>2. proc = "run" /\ pc["hup"] = "idle" /\ proc' # "undefined"
  <2>1. proc = "run"
    BY DEF ST_check_loop, ST_check_mtab, while, cfg_lock, cfg_read, poll, log_lock, log,
       trylock, chk_cfg_lock, chk_cfg_read, chk_lock, chk_body, publish, recv, At
  <2> QED BY <2>1, LoopMoves DEF IInv, MemorySafe, LocksFreedConfig
<1>3. pc \in [Frames -> MainPoints \cup HandlerPoints]
      /\ mutex \in [Mutexes -> Threads \cup {"free", "main"}]
  BY DEF IInv, TypeOK
<1> USE <1>1, <1>2, <1>3, ThreadFacts
    DEF At, Goto, ST_lock, ST_unlock, LockStep, ST_abort, lockVars, MutexInv, ConfigMutexInv,
        OtherMutexInv, ConfigHeld, EntriesHeld, AfterUnlock, Frames, Mutexes, Objects
<1>4. CASE while BY <1>4 DEF while
<1>5. CASE cfg_lock BY <1>5 DEF cfg_lock
<1>6. CASE cfg_read BY <1>6 DEF cfg_read
<1>7. CASE poll BY <1>7 DEF poll
<1>8. CASE log_lock BY <1>8 DEF log_lock
<1>9. CASE log BY <1>9 DEF log
<1>10. CASE trylock BY <1>10 DEF trylock
<1>11. CASE chk_cfg_lock BY <1>11 DEF chk_cfg_lock
<1>12. CASE chk_cfg_read BY <1>12 DEF chk_cfg_read
<1>13. CASE chk_lock BY <1>13 DEF chk_lock
<1>14. CASE chk_body BY <1>14 DEF chk_body
<1>15. CASE publish BY <1>15 DEF publish
<1>16. CASE recv BY <1>16 DEF recv
<1> QED BY <1>4, <1>5, <1>6, <1>7, <1>8, <1>9, <1>10, <1>11, <1>12, <1>13, <1>14, <1>15,
           <1>16 DEF ST_check_loop, ST_check_mtab

\* The rest of main, outside the calls on the server.
LEMMA OtherMainMutex ==
  ASSUME IInv, MutexInv, OtherMain
  PROVE  MutexInv'
<1>1. UNCHANGED <<stopped, spc, mutex>> BY OtherMainFrame DEF srvVars, threadVars
<1>2. pc \in [Frames -> MainPoints \cup HandlerPoints] BY DEF IInv, TypeOK
<1> USE <1>1, <1>2, MutexStay DEF At, Goto, ConfigHeld, EntriesHeld, AfterUnlock, Frames
<1>3. CASE ST_new_config
  BY <1>3 DEF ST_new_config, load_failed, FreeBeforeAbort, controlVars
<1>4. CASE ST_init_mtab_checker BY <1>4 DEF ST_init_mtab_checker
<1>5. CASE ST_init_srv BY <1>5 DEF ST_init_srv
<1>6. CASE set_data BY <1>6 DEF set_data
<1>7. CASE ST_init_check_loop BY <1>7 DEF ST_init_check_loop
<1>8. CASE destroy_srv BY <1>8 DEF destroy_srv
<1>9. CASE free_srv BY <1>9 DEF free_srv
<1>10. CASE ST_destroy_mtab_checker BY <1>10 DEF ST_destroy_mtab_checker
<1>11. CASE ST_destroy_config BY <1>11 DEF ST_destroy_config
<1>12. CASE exit \/ config_abort("main")
  BY <1>12 DEF exit, config_abort, ST_abort, controlVars
<1> QED BY <1>3, <1>4, <1>5, <1>6, <1>7, <1>8, <1>9, <1>10, <1>11, <1>12
        DEF OtherMain, ST_destroy_srv

\* ST_reload_config and the delivery of signals.
LEMMA ReloadMutex ==
  ASSUME IInv, IInv', MutexInv, reload_lock \/ reload_load \/ config_abort("hup") \/ SigHup \/ SigInt
  PROVE  MutexInv'
<1>1. UNCHANGED <<stopped, spc>> BY ReloadFrame DEF srvVars, threadVars
<1>2. pc \in [Frames -> MainPoints \cup HandlerPoints]
      /\ mutex \in [Mutexes -> Threads \cup {"free", "main"}]
  BY DEF IInv, TypeOK
<1> USE <1>1, <1>2, ThreadFacts DEF At, Goto, ConfigHeld, EntriesHeld, AfterUnlock, Frames
<1>3. CASE reload_lock
  <2>1. proc' # "undefined"
    BY <1>3 DEF reload_lock, LockStep, ST_abort, controlVars, IInv, MemorySafe,
       LocksFreedConfig
  <2> QED BY <1>3, <2>1 DEF reload_lock, LockStep, ST_lock, ST_abort, MutexInv,
             ConfigMutexInv, OtherMutexInv, Mutexes, Objects
<1>4. CASE reload_load
  <2>1. CASE load_failed("hup")
    BY <1>4, <2>1 DEF reload_load, load_failed, FreeBeforeAbort, MutexInv, ConfigMutexInv,
       OtherMutexInv
  <2>2. CASE ST_unlock("config") /\ Goto("hup", "stop_test")
    BY <1>4, <2>2 DEF reload_load, ST_unlock, MutexInv, ConfigMutexInv, OtherMutexInv,
       Mutexes, Objects
  <2> QED BY <1>4, <2>1, <2>2 DEF reload_load
<1>5. CASE SigHup BY <1>5, MutexStay DEF SigHup, Interrupted, lockVars
<1>6. CASE SigInt
  BY <1>6, MutexStay DEF SigInt, ST_break_check_loop, Interrupted, lockVars
<1>7. CASE config_abort("hup")
  BY <1>7, MutexStay DEF config_abort, ST_abort, controlVars, lockVars
<1> QED BY <1>3, <1>4, <1>5, <1>6, <1>7

\* ST_start_srv and ST_stop_srv, in either frame.
LEMMA CallMutex ==
  ASSUME IInv, IInv', MutexInv, NEW f \in Frames, ST_start_srv(f) \/ ST_stop_srv(f)
  PROVE  MutexInv'
<1>1. /\ pc[f] \in CallPoints /\ (f = "main" => pc["hup"] = "idle")
      /\ f = "hup" => pc["main"] \in LoopPoints
  BY CallMoves
<1>2. /\ \A g \in Frames : g # f => pc[g] \notin CallPoints
      /\ pc'["hup"] # "config_abort"
      /\ pc["hup"] # "config_abort"
  BY <1>1, CallMoves DEF Frames, CallPoints, StartPoints, StopPoints
<1>3. /\ pc \in [Frames -> MainPoints \cup HandlerPoints]
      /\ mutex \in [Mutexes -> Threads \cup {"free", "main"}]
      /\ proc' # "undefined"
  BY CallMoves DEF IInv, TypeOK, MemorySafe, LocksFreedConfig
<1>4. /\ StartReturn(f) \in {"init_loop", "idle"}
      /\ StopReturn(f) \in {"destroy_srv", "free_srv", "start_lock"}
      /\ StartReturn(f) = "idle" => f = "hup"
  BY DEF StartReturn, StopReturn, IInv, TypeOK, Frames
<1> USE <1>1, <1>2, <1>3, <1>4, ThreadFacts
    DEF At, Goto, ConfigHeld, EntriesHeld, AfterUnlock, Frames, CallPoints, StartPoints,
        StopPoints, MutexInv, ConfigMutexInv, OtherMutexInv, Mutexes, Objects, ST_lock,
        ST_unlock, ST_abort, srvVars, threadVars, lockVars, controlVars
<1>5. CASE start_lock(f) BY <1>5 DEF start_lock, LockStep
<1>6. CASE start_read(f) BY <1>6 DEF start_read
<1>7. CASE addr_lock(f) BY <1>7 DEF addr_lock, LockStep
<1>8. CASE addr_read(f) \/ addr_abort(f)
  BY <1>8 DEF addr_read, addr_abort, FreeBeforeAbort
<1>9. CASE create(f)
  BY <1>9 DEF create, FreeSlots, ServerGoto, IInv, TypeOK
<1>10. CASE stop_test(f) BY <1>10 DEF stop_test
<1>11. CASE stop_child(f) BY <1>11 DEF stop_child
<1>12. CASE stop_parent(f) BY <1>12 DEF stop_parent
<1>13. CASE stop_unlock(f) BY <1>13 DEF stop_unlock, IInv, ThreadInv
<1>14. CASE stop_join(f) BY <1>14 DEF stop_join
<1>15. CASE stop_wait(f) BY <1>15 DEF stop_wait, ServerGoto, IInv, TypeOK
<1>16. CASE stop_set(f) BY <1>16 DEF stop_set
<1> QED BY <1>5, <1>6, <1>7, <1>8, <1>9, <1>10, <1>11, <1>12, <1>13, <1>14, <1>15, <1>16
        DEF ST_start_srv, ST_stop_srv

\* The server thread.
LEMMA ServeMutex ==
  ASSUME IInv, IInv', MutexInv, NEW t \in Threads, serve(t)
  PROVE  MutexInv'
<1>1. /\ spc \in [Threads -> ServerPoints]
      /\ mutex \in [Mutexes -> Threads \cup {"free", "main"}]
      /\ proc' # "abort_data"
  BY DEF IInv, TypeOK, MemorySafe
<1> USE <1>1, ThreadFacts DEF ServerAt, ServerGoto, MutexInv, ConfigMutexInv, OtherMutexInv, Mutexes,
        Objects, ST_lock, ST_unlock, ST_abort, srvVars, threadVars, lockVars, controlVars
<1>2. CASE port_lock(t)
  <2>1. CASE UNCHANGED <<pc, mutex, spc, stopped>> BY <2>1, MutexStay
  <2> QED BY <1>2, <2>1 DEF port_lock
<1>3. CASE port_read(t) BY <1>3 DEF port_read
<1>4. CASE socket(t) BY <1>4 DEF socket
<1>5. CASE bind(t) \/ listen(t) BY <1>5 DEF bind, listen, bind_or_listen
<1>6. CASE quit(t) BY <1>6 DEF quit
<1>7. CASE accept_client(t) \/ accept_fail(t) \/ accept_error(t)
  BY <1>7 DEF accept_client, accept_fail, accept_error, accept_break
<1>8. CASE reqline(t) BY <1>8 DEF reqline
<1>9. CASE hdr(t) BY <1>9 DEF hdr
<1>10. CASE copy_lock(t)
  <2>1. CASE UNCHANGED <<pc, mutex, spc, stopped>> BY <2>1, MutexStay
  <2> QED BY <1>10, <2>1 DEF copy_lock
<1>11. CASE copy(t)
  <2>1. CASE UNCHANGED <<pc, mutex, spc, stopped>> BY <2>1, MutexStay
  <2> QED BY <1>11, <2>1 DEF copy
<1>12. CASE respond(t) BY <1>12 DEF respond
<1> QED BY <1>2, <1>3, <1>4, <1>5, <1>6, <1>7, <1>8, <1>9, <1>10, <1>11, <1>12
        DEF serve, serve_step

\* Every step keeps the mutexes with their owners.
LEMMA StepMutex ==
  ASSUME IInv, IInv', MutexInv, [Next]_vars
  PROVE  MutexInv'
<1>1. CASE UNCHANGED vars
  BY <1>1, MutexStay DEF vars
<1>2. ASSUME NEW t \in Threads, ClientSend(t) PROVE MutexInv'
  BY <1>2, MutexStay DEF ClientSend, controlVars, lockVars, srvVars
<1>3. ASSUME NEW f \in Frames,
             \/ QuietCall(f) \/ create(f) \/ stop_child(f) \/ stop_parent(f)
             \/ stop_wait(f) \/ stop_set(f)
      PROVE  MutexInv'
  BY <1>3, CallMutex DEF QuietCall, ST_start_srv, ST_stop_srv
<1> QED BY <1>1, <1>2, <1>3, LoopMutex, OtherMainMutex, ReloadMutex, ServeMutex, StepCases

\* They start free.
LEMMA InitMutex == Init => MutexInv
BY ThreadFacts DEF Init, MutexInv, ConfigMutexInv, OtherMutexInv, ConfigHeld, EntriesHeld,
   AfterUnlock, Frames, Mutexes, Objects

(***************************************************************************)
(* What is freed, and when.                                                *)
(***************************************************************************)

\* Every step keeps the places where an object may be freed.
LEMMA StepFreed ==
  ASSUME IInv, FreedInv, [Next]_vars
  PROVE  FreedInv'
<1>0. pc \in [Frames -> MainPoints \cup HandlerPoints]
      /\ life \in [Objects -> {"unset", "live", "freed"}]
  BY DEF IInv, TypeOK
<1>1. ASSUME life' = life,
             \/ pc'["main"] = pc["main"]
             \/ pc["main"] \notin {"addr_abort", "config_abort", "destroy_checker",
                                  "destroy_config", "exit"},
             \/ pc'["hup"] = pc["hup"]
             \/ pc["hup"] \notin AbortPoints
      PROVE  FreedInv'
  BY <1>1 DEF FreedInv, AbortPoints
<1> USE <1>0 DEF At, Goto, Frames, AbortPoints
<1>2. CASE UNCHANGED vars BY <1>1, <1>2 DEF vars
<1>3. CASE OtherMain
  <2> USE DEF FreedInv, Objects, controlVars, lockVars
  <2>1. CASE ST_new_config BY <2>1 DEF ST_new_config, load_failed, FreeBeforeAbort
  <2>2. CASE ST_init_mtab_checker \/ ST_init_srv BY <2>2 DEF ST_init_mtab_checker, ST_init_srv
  <2>3. CASE set_data \/ ST_init_check_loop BY <2>3 DEF set_data, ST_init_check_loop
  <2>4. CASE ST_destroy_srv BY <2>4 DEF ST_destroy_srv, destroy_srv, free_srv
  <2>5. CASE ST_destroy_mtab_checker \/ ST_destroy_config
    BY <2>5 DEF ST_destroy_mtab_checker, ST_destroy_config
  <2>6. CASE exit \/ config_abort("main") BY <2>6 DEF exit, config_abort, ST_abort
  <2> QED BY <1>3, <2>1, <2>2, <2>3, <2>4, <2>5, <2>6 DEF OtherMain
<1>4. CASE ST_check_loop
  BY <1>1, <1>4, LoopFrame, LoopMoves DEF LoopPoints
<1>5. CASE reload_lock
  BY <1>1, <1>5, LockStepFrame DEF reload_lock, LockStep, ST_abort, controlVars
<1>6. CASE reload_load
  BY <1>6 DEF reload_load, load_failed, FreeBeforeAbort, FreedInv, controlVars, Objects
<1>7. CASE SigHup BY <1>1, <1>7 DEF SigHup, Interrupted, lockVars
<1>8. CASE SigInt BY <1>1, <1>8 DEF SigInt, ST_break_check_loop, Interrupted, lockVars
<1>11. CASE config_abort("hup")
  BY <1>1, <1>11 DEF config_abort, ST_abort, controlVars, lockVars
<1>9. ASSUME NEW f \in Frames,
             \/ QuietCall(f) \/ create(f) \/ stop_child(f) \/ stop_parent(f)
             \/ stop_wait(f) \/ stop_set(f)
      PROVE  FreedInv'
  <2>1. /\ pc[f] \in CallPoints /\ \A g \in Frames : g # f => pc'[g] = pc[g]
        /\ f = "hup" => pc["main"] \in LoopPoints
    BY <1>9, CallMoves DEF QuietCall, ST_start_srv, ST_stop_srv
  <2>2. CASE addr_read(f) /\ FreeBeforeAbort(f, "srv", "addr_abort")
    BY <2>1, <2>2 DEF FreeBeforeAbort, FreedInv, Objects, CallPoints, StartPoints, StopPoints
  <2>3. CASE addr_abort(f)
    BY <1>1, <2>3 DEF addr_abort, ST_abort, controlVars, lockVars
  <2>4. CASE life' = life /\ ~addr_abort(f)
    <3>1. pc[f] # "addr_abort"
      BY <1>9, <2>4 DEF QuietCall, start_lock, start_read, addr_lock, addr_read, create,
         stop_test, stop_child, stop_parent, stop_unlock, stop_join, stop_wait, stop_set
    <3> QED BY <1>1, <2>1, <2>4, <3>1 DEF CallPoints, StartPoints, StopPoints, LoopPoints
  <2>5. \/ life' = life
        \/ addr_read(f) /\ FreeBeforeAbort(f, "srv", "addr_abort")
    BY <1>9, LockStepFrame DEF QuietCall, start_lock, start_read, addr_lock, addr_read,
       addr_abort, create, stop_test, stop_child, stop_parent, stop_unlock, stop_join,
       stop_wait, stop_set, ST_abort, lockVars
  <2> QED BY <2>2, <2>3, <2>4, <2>5
<1>10. ASSUME NEW t \in Threads, serve(t) \/ ClientSend(t) PROVE FreedInv'
  <2>1. proc = "run" /\ UNCHANGED <<pc, life>>
    BY <1>10 DEF ClientSend, serve, serve_step, port_lock, port_read, socket, bind, listen,
       bind_or_listen, quit, accept_client, accept_fail, accept_error, accept_break, reqline,
       hdr, copy_lock, copy, respond, ServerAt, ST_abort, controlVars, lockVars
  <2> QED BY <1>1, <2>1
<1> QED BY <1>2, <1>3, <1>4, <1>5, <1>6, <1>7, <1>8, <1>9, <1>10, <1>11,
           StepCases

\* A freed object's mutex is free, but for a handler at ST_abort.
LEMMA FreedUnlocked ==
  ASSUME IInv, MutexInv, FreedInv
  PROVE  DestroyedUnlocked
<1> SUFFICES ASSUME NEW o \in Objects, life[o] = "freed"
             PROVE  mutex[o] = "free" \/ (mutex[o] = "main" /\ pc["hup"] \in AbortPoints)
  BY DEF DestroyedUnlocked
<1>1. mutex[o] \in Threads \cup {"free", "main"}
  BY DEF IInv, TypeOK, Mutexes
<1>2. CASE pc["hup"] = "config_abort"
  <2>1. pc["main"] \in LoopPoints BY <1>2 DEF IInv, HandlerInv
  <2>2. o = "config" BY <1>2, <2>1 DEF FreedInv, Objects, LoopPoints
  <2> QED BY <1>2, <2>2 DEF MutexInv, ConfigMutexInv, AbortPoints
<1>3. CASE pc["hup"] # "config_abort"
  <2>1. \/ pc["hup"] = "addr_abort"
        \/ pc["main"] \in {"addr_abort", "config_abort", "destroy_checker", "destroy_config",
                           "exit"}
    BY <1>3 DEF FreedInv, Objects
  <2>2. stopped /\ \A t \in Threads : spc[t] \notin Existing
    BY <2>1 DEF IInv, ThreadInv, LoopPoints, StopPoints, Frames
  <2>3. ASSUME NEW t \in Threads PROVE mutex[o] # t
    BY <2>2, ThreadFacts DEF Objects, MutexInv, ConfigMutexInv, OtherMutexInv, IInv, SrvMutexInv,
       Existing, LivePoints, ServerPoints
  <2>4. ASSUME pc["hup"] # "addr_abort" PROVE mutex[o] # "main"
    <3>1. pc["hup"] = "idle"
      BY <2>1, <2>4 DEF IInv, HandlerInv, LoopPoints
    <3> QED BY <1>3, <2>1, <2>4, <3>1 DEF Objects, MutexInv, ConfigMutexInv, OtherMutexInv,
               ConfigHeld, EntriesHeld, Frames, IInv, SrvMutexInv, MainHoldsSrv
  <2> QED BY <1>1, <2>3, <2>4 DEF AbortPoints
<1> QED BY <1>2, <1>3

\* When SIGHUP arrives in the loop only, the server thread is joined before
\* main frees anything, so that no object is freed while the thread holds its
\* mutex, nor while main does, but by a handler that is about to end the
\* process.
THEOREM MutexesDestroyedFree ==
  ASSUME HupPoints \subseteq LoopPoints
  PROVE  Spec => []DestroyedUnlocked
<1> DEFINE I == IInv /\ MutexInv /\ FreedInv
<1>1. Init => I
  BY InitInv, InitMutex DEF Init, FreedInv, Objects
<1>2. I /\ [Next]_vars => I'
  BY StepInv, StepMutex, StepFreed
<1>3. I => DestroyedUnlocked BY FreedUnlocked
<1> QED BY <1>1, <1>2, <1>3, PTL DEF Spec

(***************************************************************************)
(* The server is as the configuration says.                                *)
(***************************************************************************)

\* Every step keeps the switch of the server as the configuration says.
LEMMA StepSwitch ==
  ASSUME IInv, IInv', SwitchInv, [Next]_vars
  PROVE  SwitchInv'
<1> USE DEF SwitchInv, Frames, srvVars, threadVars
<1>1. ASSUME UNCHANGED <<pc, config, stopped>> PROVE SwitchInv'
  BY <1>1
<1>2. CASE UNCHANGED vars BY <1>1, <1>2 DEF vars
<1>3. CASE OtherMain
  BY <1>3, OtherMainFrame, OtherMainMoves DEF IInv, ThreadInv, LoopPoints, StartPoints,
     StopPoints, EndPoints
<1>4. CASE ST_check_loop
  BY <1>4, LoopFrame, LoopMoves DEF LoopPoints, StartPoints
<1>5. CASE reload_lock \/ reload_load \/ config_abort("hup") \/ SigHup \/ SigInt
  <2>1. UNCHANGED stopped BY <1>5, ReloadFrame
  <2>2. pc \in [Frames -> MainPoints \cup HandlerPoints] BY DEF IInv, TypeOK
  <2> USE <2>1, <2>2 DEF At, Goto, StartPoints, LoopPoints, controlVars
  <2>3. CASE reload_lock BY <2>3 DEF reload_lock, LockStep, ST_abort
  <2>4. CASE reload_load
    BY <2>4 DEF reload_load, load_failed, FreeBeforeAbort, IInv, HandlerInv
  <2>5. CASE SigHup BY <2>5 DEF SigHup, Interrupted
  <2>6. CASE SigInt BY <2>6 DEF SigInt, ST_break_check_loop, Interrupted
  <2>7. CASE config_abort("hup") BY <2>7 DEF config_abort, ST_abort
  <2> QED BY <1>5, <2>3, <2>4, <2>5, <2>6, <2>7
<1>6. ASSUME NEW f \in Frames, ST_start_srv(f) \/ ST_stop_srv(f) PROVE SwitchInv'
  <2>1. pc \in [Frames -> MainPoints \cup HandlerPoints] BY DEF IInv, TypeOK
  <2>2. StopReturn(f) \in {"destroy_srv", "free_srv", "start_lock"}
        /\ (f = "main" => StopReturn(f) # "start_lock")
        /\ StartReturn(f) = IF f = "main" THEN "init_loop" ELSE "idle"
    BY DEF StopReturn, StartReturn, IInv, TypeOK
  <2> USE <1>6, <2>1, <2>2, CallMoves DEF At, Goto, CallPoints, StartPoints, StopPoints,
          LoopPoints, controlVars, ST_abort
  <2>3. CASE start_lock(f) BY <2>3 DEF start_lock, LockStep
  <2>4. CASE start_read(f) BY <2>4 DEF start_read
  <2>5. CASE addr_lock(f) BY <2>5 DEF addr_lock, LockStep
  <2>6. CASE addr_read(f) \/ addr_abort(f)
    BY <2>6 DEF addr_read, addr_abort, FreeBeforeAbort
  <2>7. CASE create(f) BY <2>7 DEF create
  <2>8. CASE stop_test(f) BY <2>8 DEF stop_test
  <2>9. CASE stop_child(f) BY <2>9 DEF stop_child
  <2>10. CASE stop_parent(f) BY <2>10 DEF stop_parent
  <2>11. CASE stop_unlock(f) BY <2>11 DEF stop_unlock
  <2>12. CASE stop_join(f) BY <2>12 DEF stop_join
  <2>13. CASE stop_wait(f) BY <2>13 DEF stop_wait
  <2>14. CASE stop_set(f) BY <2>14 DEF stop_set
  <2> QED BY <2>3, <2>4, <2>5, <2>6, <2>7, <2>8, <2>9, <2>10, <2>11, <2>12, <2>13, <2>14
          DEF ST_start_srv, ST_stop_srv
<1>7. ASSUME NEW t \in Threads, serve(t) PROVE SwitchInv'
  BY <1>1, <1>7, ServeFrame
<1>8. ASSUME NEW t \in Threads, ClientSend(t) PROVE SwitchInv'
  BY <1>1, <1>8 DEF ClientSend, controlVars
<1> QED BY <1>2, <1>3, <1>4, <1>5, <1>6, <1>7, <1>8, StepCases
        DEF QuietCall, ST_start_srv, ST_stop_srv

\* A step of the server thread keeps its port with the configuration.
LEMMA ServePort ==
  ASSUME IInv, PortInv, NEW t \in Threads, serve(t)
  PROVE  PortInv'
<1>1. UNCHANGED <<pc, config>> BY ServeFrame
<1>2. spc \in [Threads -> ServerPoints] /\ port \in [Threads -> Int] BY DEF IInv, TypeOK
<1> USE <1>1, <1>2 DEF PortInv, PortPoints, SettledPoints, ServerAt, ServerGoto, threadVars
<1>3. CASE port_lock(t) BY <1>3 DEF port_lock, ST_abort
<1>4. CASE port_read(t) BY <1>4 DEF port_read
<1>5. CASE socket(t) BY <1>5 DEF socket
<1>6. CASE bind(t) \/ listen(t) BY <1>6 DEF bind, listen, bind_or_listen, ST_abort
<1>7. CASE quit(t) BY <1>7 DEF quit
<1>8. CASE accept_client(t) \/ accept_fail(t) \/ accept_error(t)
  BY <1>8 DEF accept_client, accept_fail, accept_error, accept_break
<1>9. CASE reqline(t) BY <1>9 DEF reqline
<1>10. CASE hdr(t) BY <1>10 DEF hdr
<1>11. CASE copy_lock(t) BY <1>11 DEF copy_lock, ST_abort
<1>12. CASE copy(t) BY <1>12 DEF copy, ST_abort
<1>13. CASE respond(t) BY <1>13 DEF respond
<1> QED BY <1>3, <1>4, <1>5, <1>6, <1>7, <1>8, <1>9, <1>10, <1>11, <1>12, <1>13
        DEF serve, serve_step

\* Every step does: the configuration changes only before the first server
\* and under a handler that then replaces the thread.
LEMMA StepPort ==
  ASSUME IInv, IInv', SwitchInv, PortInv, [Next]_vars
  PROVE  PortInv'
<1> USE DEF PortInv, srvVars, threadVars, controlVars
<1>1. ASSUME UNCHANGED <<config, spc, port>>,
             pc["hup"] \in {"idle", "reload_lock", "reload_load"}
                \/ pc'["hup"] \notin {"idle", "reload_lock", "reload_load"}
      PROVE  PortInv'
  BY <1>1
\* Where there is no thread there is no port.
<1>2. ASSUME stopped, UNCHANGED spc PROVE PortInv'
  <2>1. \A t \in Threads : spc[t] \notin Existing BY <1>2 DEF IInv, ThreadInv
  <2> QED BY <1>2, <2>1 DEF PortPoints, SettledPoints, Existing, LivePoints, ServerPoints
<1>3. CASE UNCHANGED vars BY <1>1, <1>3 DEF vars
<1>4. CASE OtherMain
  <2>1. CASE pc["main"] = "new_config"
    <3>1. stopped BY <2>1 DEF IInv, ThreadInv, LoopPoints, StopPoints
    <3> QED BY <1>2, <1>4, <3>1, OtherMainFrame
  <2>2. CASE pc["main"] # "new_config"
    BY <1>1, <1>4, <2>2, OtherMainFrame, OtherMainMoves
  <2> QED BY <2>1, <2>2
<1>5. CASE ST_check_loop BY <1>1, <1>5, LoopFrame, LoopMoves
<1>6. CASE reload_lock \/ reload_load \/ config_abort("hup") \/ SigHup \/ SigInt
  <2>1. pc \in [Frames -> MainPoints \cup HandlerPoints] BY DEF IInv, TypeOK
  <2> USE <1>1, <2>1 DEF At, Goto, Frames
  <2>2. CASE reload_lock BY <2>2, LockStepFrame DEF reload_lock, LockStep, ST_abort
  <2>3. CASE reload_load BY <2>3 DEF reload_load, load_failed, FreeBeforeAbort
  <2>4. CASE SigHup BY <2>4 DEF SigHup
  <2>5. CASE SigInt BY <2>5 DEF SigInt, ST_break_check_loop
  <2>6. CASE config_abort("hup") BY <2>6 DEF config_abort, ST_abort
  <2> QED BY <1>6, <2>2, <2>3, <2>4, <2>5, <2>6
<1>7. ASSUME NEW f \in Frames, ST_start_srv(f) \/ ST_stop_srv(f) PROVE PortInv'
  <2>1. pc \in [Frames -> MainPoints \cup HandlerPoints] /\ spc \in [Threads -> ServerPoints]
        /\ port \in [Threads -> Int]
    BY DEF IInv, TypeOK
  \* A step of ST_start_srv: there is no thread but the one that it creates.
  <2>2. CASE start_lock(f) \/ start_read(f) \/ addr_lock(f) \/ addr_read(f) \/ addr_abort(f)
    <3>1. stopped
      BY <2>2 DEF start_lock, start_read, addr_lock, addr_read, addr_abort, At, SwitchInv, StartPoints
    <3> QED BY <1>2, <2>2, <3>1, QuietCallFrame DEF QuietCall
  <2>3. CASE create(f)
    <3>1. stopped /\ \A t \in Threads : spc[t] \notin Existing
      BY <2>3 DEF create, At, IInv, ThreadInv
    <3> QED BY <2>1, <2>3, <3>1 DEF create, FreeSlots, ServerGoto, PortPoints, SettledPoints,
               Existing, LivePoints, ServerPoints
  \* A step of ST_stop_srv: the handler does not return from it.
  <2>4. CASE ST_stop_srv(f)
    <3>1. pc["hup"] \in {"idle", "reload_lock", "reload_load"}
             \/ pc'["hup"] \notin {"idle", "reload_lock", "reload_load"}
      <4>1. f = "hup" => pc'["hup"] \in StopPoints \cup {"start_lock"}
        BY <2>1, <2>4 DEF ST_stop_srv, stop_test, stop_child, stop_parent, stop_unlock, stop_join,
           stop_wait, stop_set, StopReturn, At, Goto, ST_abort, StopPoints, Frames
      <4> QED BY <1>7, <4>1, CallMoves DEF Frames, StopPoints
    <3>2. CASE stop_wait(f)
      BY <2>1, <3>1, <3>2 DEF stop_wait, ServerGoto, PortPoints, SettledPoints
    <3>3. CASE ~stop_wait(f)
      BY <1>1, <2>4, <3>1, <3>3, QuietCallFrame DEF ST_stop_srv, QuietCall, stop_child, stop_parent,
         stop_set
    <3> QED BY <3>2, <3>3
  <2> QED BY <1>7, <2>2, <2>3, <2>4 DEF ST_start_srv
<1>8. ASSUME NEW t \in Threads, serve(t) PROVE PortInv'
  BY <1>8, ServePort
<1>9. ASSUME NEW t \in Threads, ClientSend(t) PROVE PortInv'
  BY <1>1, <1>9 DEF ClientSend
<1> QED BY <1>3, <1>4, <1>5, <1>6, <1>7, <1>8, <1>9, StepCases
        DEF QuietCall, ST_start_srv, ST_stop_srv

\* The invariants say what the server is while main is in its loop.
LEMMA Matches ==
  ASSUME IInv, SwitchInv, PortInv
  PROVE  ServerMatchesConfig
<1> SUFFICES ASSUME proc = "run", pc["hup"] = "idle", pc["main"] \in LoopPoints
             PROVE  /\ stopped = ~config.http_enabled
                    /\ \A t \in Threads :
                         /\ spc[t] \in LivePoints \cup {"done"}
                               <=> (~stopped /\ t = srv_thread)
                         /\ spc[t] \in SettledPoints \cup {"socket", "bind", "listen"}
                               => port[t] = config.http_port
  BY DEF ServerMatchesConfig
<1>1. stopped = ~config.http_enabled
  <2>1. stopped <=> ~config.http_enabled BY DEF SwitchInv
  <2>2. stopped \in BOOLEAN /\ config.http_enabled \in BOOLEAN BY DEF IInv, TypeOK, Settings
  <2> QED BY <2>1, <2>2, Zenon
<1>2. \A f \in Frames : ~Halfway(f)
  BY DEF Halfway, Frames, LoopPoints
<1>3. \A t \in Threads : spc[t] \in LivePoints \cup {"done"} <=> (~stopped /\ t = srv_thread)
  BY <1>2 DEF IInv, ThreadInv, Existing
<1>4. \A t \in Threads : spc[t] \in SettledPoints \cup {"socket", "bind", "listen"}
                            => port[t] = config.http_port
  BY DEF PortInv, PortPoints
<1> QED BY <1>1, <1>3, <1>4

\* When SIGHUP arrives in the loop only, and however often, the server main
\* finds after the handler has returned is the one the configuration asks
\* for: none if it is switched off, and otherwise one thread, on the
\* configured port once it has read it.
THEOREM ReloadTakesEffect ==
  ASSUME HupPoints \subseteq LoopPoints
  PROVE  Spec => []ServerMatchesConfig
<1> DEFINE I == IInv /\ SwitchInv /\ PortInv
<1>1. Init => I
  BY InitInv DEF Init, SwitchInv, PortInv, PortPoints, SettledPoints, LoopPoints, StartPoints,
     Frames
<1>2. I /\ [Next]_vars => I'
  BY StepInv, StepSwitch, StepPort
<1>3. I => ServerMatchesConfig BY Matches
<1> QED BY <1>1, <1>2, <1>3, PTL DEF Spec

(***************************************************************************)
(* No deadlock, when SIGHUP arrives where main holds no mutex that the     *)
(* reload waits for.                                                       *)
(***************************************************************************)

\* Points at which main may be interrupted: it holds no mutex, or that of
\* the entries, which neither the handler nor the server takes.
SafePoints == LockFreePoints \cup {"log"}

\* The handler runs on top of one of them.
SafeInv == pc["hup"] # "idle" => pc["main"] \in SafePoints

\* A handler, once it runs, keeps main where it was.
LEMMA StepSafe ==
  ASSUME IInv, SafeInv, HupPoints \subseteq SafePoints, [Next]_vars
  PROVE  SafeInv'
<1> USE DEF SafeInv, SafePoints, LockFreePoints
<1>1. pc \in [Frames -> MainPoints \cup HandlerPoints] BY DEF IInv, TypeOK
<1>2. CASE UNCHANGED vars BY <1>2 DEF vars
<1>3. CASE OtherMain BY <1>3, OtherMainMoves
<1>4. CASE ST_check_loop BY <1>4, LoopMoves
<1>5. CASE reload_lock \/ reload_load \/ config_abort("hup")
  BY <1>1, <1>5 DEF reload_lock, reload_load, config_abort, LockStep, load_failed,
     FreeBeforeAbort, ST_abort, At, Goto, Frames, controlVars
<1>6. CASE SigHup
  <2>1. pc["main"] \in HupPoints BY <1>6 DEF SigHup
  <2>2. PICK l \in Interrupted : pc' = [main |-> l, hup |-> "reload_lock"]
    BY <1>6 DEF SigHup
  <2>3. l \in {pc["main"], "while"} BY <2>2 DEF Interrupted
  <2>4. pc'["main"] = l BY <2>2
  <2> QED BY <2>1, <2>3, <2>4
<1>7. CASE SigInt
  BY <1>1, <1>7 DEF SigInt, ST_break_check_loop, Interrupted, Goto, Frames
<1>8. ASSUME NEW f \in Frames, ST_start_srv(f) \/ ST_stop_srv(f) PROVE SafeInv'
  BY <1>8, CallMoves DEF Frames, CallPoints, StartPoints, StopPoints
<1>9. ASSUME NEW t \in Threads, serve(t) PROVE SafeInv'
  BY <1>9, ServeFrame
<1>10. ASSUME NEW t \in Threads, ClientSend(t) PROVE SafeInv'
  BY <1>10 DEF ClientSend, controlVars
<1> QED BY <1>2, <1>3, <1>4, <1>5, <1>6, <1>7, <1>8, <1>9, <1>10, StepCases
        DEF QuietCall, ST_start_srv, ST_stop_srv

\* Then nobody waits for what main holds.
LEMMA NobodyStuck ==
  ASSUME IInv, MutexInv, SafeInv
  PROVE  NoDeadlock
<1> SUFFICES ASSUME proc = "run", NEW f \in Frames, f = "hup" \/ pc["hup"] = "idle"
             PROVE  /\ \A m \in Awaits(f) : mutex[m] # "main"
                    /\ pc[f] = "stop_wait" =>
                         \A m \in ServerAwaits(joining[f]) : mutex[m] # "main"
  BY DEF NoDeadlock
<1> USE DEF Frames, ConfigHeld, EntriesHeld, AfterUnlock, SafePoints, LockFreePoints,
            StartPoints, StopPoints
<1>1. pc[f] \in {"reload_lock", "start_lock", "addr_lock", "cfg_lock", "chk_cfg_lock", "stop_wait"}
         => mutex["config"] # "main"
  BY DEF MutexInv, ConfigMutexInv, SafeInv
<1>2. pc[f] \in {"log_lock", "chk_lock"} => mutex["entries"] # "main"
  <2>1. pc[f] \in {"log_lock", "chk_lock"} => f = "main"
    BY DEF IInv, TypeOK, HandlerPoints, AbortPoints
  <2> QED BY <2>1 DEF MutexInv, OtherMutexInv
<1>3. pc[f] = "create" => mutex["mxq"] # "main"
  BY DEF MutexInv, OtherMutexInv, IInv, ThreadInv
<1>4. pc[f] = "stop_wait" => mutex["srv"] # "main"
  BY DEF IInv, SrvMutexInv, MainHoldsSrv, SafeInv
<1>5. \A m \in Awaits(f) : mutex[m] # "main"
  BY <1>1, <1>2, <1>3 DEF Awaits
<1>6. \A t : \A m \in ServerAwaits(t) : m \in {"config", "srv"}
  BY DEF ServerAwaits
<1> QED BY <1>1, <1>4, <1>5, <1>6

\* When SIGHUP arrives where main holds neither the mutex of the
\* configuration nor that of the document, the main thread never waits for
\* a mutex it holds, and never joins a server thread that waits for one.
THEOREM ReloadDeadlockFree ==
  ASSUME HupPoints \subseteq LockFreePoints \cup {"log"}
  PROVE  Spec => []NoDeadlock
<1> DEFINE I == IInv /\ MutexInv /\ SafeInv
<1>0. HupPoints \subseteq LoopPoints
  BY DEF LockFreePoints, LoopPoints
<1>1. Init => I
  BY InitInv, InitMutex DEF Init, SafeInv
<1>2. I /\ [Next]_vars => I'
  BY <1>0, StepInv, StepMutex, StepSafe DEF SafePoints
<1>3. I => NoDeadlock BY NobodyStuck
<1> QED BY <1>1, <1>2, <1>3, PTL DEF Spec

(***************************************************************************)
(* A restart finds its port free, when signals find the server settled.    *)
(***************************************************************************)

\* A server thread that binds or listens is the only one with a listening
\* socket: the port is free, and the socket it makes is its own.
LEMMA ServeSock ==
  ASSUME IInv, SockInv, NEW t \in Threads, serve(t)
  PROVE  SockInv' /\ NoPortConflict'
<1>1. /\ spc \in [Threads -> ServerPoints] /\ sock \in [Threads -> SocketStates]
      /\ proc = "run"
      /\ UNCHANGED <<pc, stopped, srv_thread>>
  BY ServeFrame DEF IInv, TypeOK
<1>2. spc[t] \in LivePoints
  BY DEF serve, serve_step, port_lock, port_read, socket, bind, listen, bind_or_listen,
         quit, accept_client, accept_fail, accept_error, accept_break, reqline, hdr,
         copy_lock, copy, respond, ServerAt, LivePoints, ServerPoints
<1>3. /\ t = srv_thread /\ ~stopped
      /\ \A u \in Threads : spc[u] \in Existing => u = t
  BY <1>2 DEF IInv, ThreadInv, Existing
<1> USE <1>1, <1>3 DEF SockInv, NoPortConflict, SettledPoints, EarlyPoints, Existing, LivePoints,
        ServerPoints, ServerAt, ServerGoto, srvVars, threadVars, ST_abort
\* A step that moves the thread and leaves its socket alone.
<1>4. ASSUME UNCHANGED <<sock, parentfd>>, proc' # "abort_bind", NEW l \in ServerPoints,
             spc' = [spc EXCEPT ![t] = l],
             l \in SettledPoints \cup {"bind", "listen", "done"}
                => spc[t] \in SettledPoints \cup {"bind", "listen", "done"},
             l \in EarlyPoints => spc[t] \in EarlyPoints
      PROVE  SockInv' /\ NoPortConflict'
  BY <1>4
<1>5. CASE port_lock(t) BY <1>4, <1>5 DEF port_lock
<1>6. CASE port_read(t) BY <1>4, <1>6 DEF port_read
<1>7. CASE socket(t) BY <1>7 DEF socket
<1>8. ~PortTaken(t) BY DEF PortTaken
<1>9. CASE bind(t) BY <1>8, <1>9 DEF bind, bind_or_listen, SocketStates
<1>10. CASE listen(t) BY <1>8, <1>10 DEF listen, bind_or_listen, SocketStates, StopPoints, AfterUnlock
<1>11. CASE quit(t) BY <1>4, <1>11 DEF quit
<1>12. CASE accept_client(t) BY <1>4, <1>12 DEF accept_client
<1>13. CASE accept_fail(t) \/ accept_error(t)
  BY <1>4, <1>13 DEF accept_fail, accept_error, accept_break
<1>14. CASE reqline(t) BY <1>4, <1>14 DEF reqline
<1>15. CASE hdr(t) BY <1>4, <1>15 DEF hdr
<1>16. CASE copy_lock(t) BY <1>4, <1>16 DEF copy_lock
<1>17. CASE copy(t) BY <1>4, <1>17 DEF copy
<1>18. CASE respond(t) BY <1>4, <1>18 DEF respond
<1> QED BY <1>5, <1>6, <1>7, <1>9, <1>10, <1>11, <1>12, <1>13, <1>14, <1>15, <1>16, <1>17,
           <1>18 DEF serve, serve_step

\* A call on the server keeps it: ST_stop_srv shuts the socket that listens,
\* since parentfd names it once the thread is settled.
LEMMA CallSock ==
  ASSUME IInv, IInv', SockInv, NEW f \in Frames, ST_start_srv(f) \/ ST_stop_srv(f)
  PROVE  SockInv'
<1>1. /\ pc \in [Frames -> MainPoints \cup HandlerPoints]
      /\ pc' \in [Frames -> MainPoints \cup HandlerPoints]
      /\ spc \in [Threads -> ServerPoints] /\ sock \in [Threads -> SocketStates]
  BY DEF IInv, TypeOK
<1>2. /\ pc[f] \in CallPoints /\ (f = "main" => pc["hup"] = "idle")
      /\ \A g \in Frames : g # f => pc'[g] = pc[g] /\ pc[g] \notin CallPoints
      /\ f = "hup" => pc["main"] \in LoopPoints
  BY CallMoves
<1>3. /\ StopReturn("main") \in EndPoints
      /\ StopReturn("hup") = "start_lock"
      /\ StartReturn(f) = IF f = "main" THEN "init_loop" ELSE "idle"
  BY DEF StopReturn, StartReturn, IInv, TypeOK, EndPoints
<1> USE <1>1, <1>2, <1>3 DEF SockInv, Frames, At, Goto, srvVars, threadVars, CallPoints,
        StartPoints, StopPoints, AfterUnlock, controlVars
<1>4. CASE start_lock(f) \/ start_read(f) \/ addr_lock(f) \/ addr_read(f) \/ addr_abort(f)
  <2>1. UNCHANGED <<stopped, srv_thread, parentfd, spc, sock>>
    BY <1>4, QuietCallFrame DEF QuietCall
  <2>2. /\ pc[f] \in StartPoints
        /\ pc'[f] \in StartPoints \cup {StartReturn(f)}
    BY <1>4 DEF start_lock, start_read, addr_lock, addr_read, addr_abort, LockStep, ST_abort,
       FreeBeforeAbort
  <2> QED BY <2>1, <2>2 DEF LoopPoints, EndPoints
<1>5. CASE create(f)
  <2>1. stopped /\ \A t \in Threads : sock[t] # "listen"
    BY <1>5 DEF create, IInv, ThreadInv, LoopPoints, EndPoints
  <2>2. \A t \in Threads : spc[t] \notin Existing
    BY <2>1 DEF IInv, ThreadInv
  <2> QED BY <1>5, <2>1, <2>2 DEF create, FreeSlots, ServerGoto, SettledPoints, Existing, LivePoints,
             ServerPoints
<1>6. CASE stop_test(f) BY <1>6 DEF stop_test, LoopPoints, EndPoints
<1>7. CASE stop_child(f) BY <1>7 DEF stop_child, LoopPoints, EndPoints
<1>8. CASE stop_parent(f)
  <2>1. f = "hup" => \A t \in Threads : sock'[t] # "listen"
    <3> SUFFICES ASSUME f = "hup", NEW t \in Threads, sock[t] = "listen" PROVE sock'[t] # "listen"
      BY <1>8 DEF stop_parent, SocketStates
    <3>1. ~stopped /\ t = srv_thread /\ spc[t] \in Existing
      BY <1>8 DEF stop_parent, IInv, ThreadInv, Halfway
    <3>2. parentfd = t
      BY <1>8, <3>1 DEF stop_parent, Existing, LivePoints, ServerPoints, EarlyPoints, SettledPoints
    <3> QED BY <1>8, <3>2 DEF stop_parent
  <2>2. \A t \in Threads : sock'[t] = "listen" => sock[t] = "listen"
    BY <1>8 DEF stop_parent
  <2> QED BY <1>8, <2>1, <2>2 DEF stop_parent, EndPoints
<1>9. CASE stop_unlock(f) BY <1>9 DEF stop_unlock, LoopPoints, EndPoints
<1>10. CASE stop_join(f) BY <1>10 DEF stop_join, ST_abort, LoopPoints, EndPoints
<1>11. CASE stop_wait(f)
  <2>1. /\ \A t \in Threads : sock'[t] = "listen" => sock[t] = "listen"
        /\ \A t \in Threads : spc'[t] = spc[t] \/ spc'[t] \in {"none", "joined"}
    BY <1>11 DEF stop_wait, ServerGoto
  <2> QED BY <1>11, <2>1 DEF stop_wait, SettledPoints, EarlyPoints, LoopPoints, EndPoints
<1>12. CASE stop_set(f) BY <1>12 DEF stop_set, LoopPoints, EndPoints
<1> QED BY <1>4, <1>5, <1>6, <1>7, <1>8, <1>9, <1>10, <1>11, <1>12 DEF ST_start_srv, ST_stop_srv

\* Every step keeps it: SIGHUP is what begins a restart, and it finds the
\* thread settled.
LEMMA StepSock ==
  ASSUME IInv, IInv', SockInv, HupPoints \subseteq LoopPoints,
         ServePoints \subseteq SettledPoints, [Next]_vars
  PROVE  SockInv'
<1> USE DEF SockInv, srvVars, threadVars, controlVars
<1>1. pc \in [Frames -> MainPoints \cup HandlerPoints] BY DEF IInv, TypeOK
<1>2. CASE UNCHANGED vars BY <1>2 DEF vars
<1>3. CASE OtherMain
  BY <1>3, OtherMainFrame, OtherMainMoves DEF LoopPoints, StopPoints, EndPoints, AfterUnlock
<1>4. CASE ST_check_loop
  BY <1>4, LoopFrame, LoopMoves DEF LoopPoints, StopPoints, EndPoints, AfterUnlock
<1>5. CASE reload_lock \/ reload_load \/ config_abort("hup")
  <2>1. UNCHANGED <<stopped, srv_thread, parentfd, spc, sock>> BY <1>5, ReloadFrame
  <2>2. /\ pc["hup"] \in {"reload_lock", "reload_load", "config_abort"}
        /\ \/ pc'["hup"] = pc["hup"]
           \/ /\ pc["hup"] # "config_abort"
              /\ pc'["hup"] \in {"reload_lock", "reload_load", "stop_test", "config_abort"}
        /\ pc'["main"] = pc["main"]
    BY <1>1, <1>5 DEF reload_lock, reload_load, config_abort, LockStep, load_failed,
       FreeBeforeAbort, ST_abort, At, Goto, Frames
  <2> QED BY <2>1, <2>2 DEF StopPoints, AfterUnlock
<1>6. CASE SigHup
  <2>1. \A t \in Threads : spc[t] \notin EarlyPoints
    BY <1>6 DEF SigHup, ServerReady, EarlyPoints, SettledPoints, LivePoints, ServerPoints
  <2>2. pc["main"] \in LoopPoints /\ pc'["main"] \in {pc["main"], "while"} /\ pc["hup"] = "idle"
        /\ pc'["hup"] = "reload_lock"
    BY <1>6 DEF SigHup, Interrupted
  <2> QED BY <1>6, <2>1, <2>2 DEF SigHup, LoopPoints, StopPoints, EndPoints, AfterUnlock
<1>7. CASE SigInt
  <2>1. pc'["hup"] = pc["hup"]
        /\ (pc'["main"] = pc["main"] \/ (pc["main"] = "poll" /\ pc'["main"] = "while"))
    BY <1>1, <1>7 DEF SigInt, ST_break_check_loop, Interrupted, Goto, Frames
  <2> QED BY <1>7, <2>1 DEF SigInt, StopPoints, EndPoints
<1>8. ASSUME NEW t \in Threads, ClientSend(t) PROVE SockInv'
  BY <1>8 DEF ClientSend
<1> QED BY <1>2, <1>3, <1>4, <1>5, <1>6, <1>7, <1>8, CallSock, ServeSock, StepCases
        DEF QuietCall, ST_start_srv, ST_stop_srv

\* Only the server thread can find its port taken.
LEMMA StepPortConflict ==
  ASSUME IInv, SockInv, NoPortConflict, [Next]_vars
  PROVE  NoPortConflict'
<1> USE DEF NoPortConflict
<1>1. ASSUME NEW f, NEW m, NEW l, LockStep(f, m, l) PROVE NoPortConflict'
  BY <1>1 DEF LockStep, ST_abort
<1>2. CASE UNCHANGED vars BY <1>2 DEF vars
<1>3. CASE OtherMain
  BY <1>3 DEF OtherMain, ST_new_config, load_failed, FreeBeforeAbort, ST_init_mtab_checker,
     ST_init_srv, set_data, ST_init_check_loop, ST_destroy_srv, destroy_srv, free_srv,
     ST_destroy_mtab_checker, ST_destroy_config, config_abort, exit, ST_abort
<1>4. CASE ST_check_loop
  BY <1>1, <1>4 DEF ST_check_loop, ST_check_mtab, while, cfg_lock, cfg_read, poll, log_lock,
     log, trylock, chk_cfg_lock, chk_cfg_read, chk_lock, chk_body, publish, recv
<1>5. CASE reload_lock \/ reload_load \/ config_abort("hup") \/ SigHup \/ SigInt
  BY <1>1, <1>5 DEF reload_lock, reload_load, load_failed, FreeBeforeAbort, config_abort,
     ST_abort, SigHup, SigInt
<1>6. ASSUME NEW f \in Frames, ST_start_srv(f) \/ ST_stop_srv(f) PROVE NoPortConflict'
  BY <1>1, <1>6 DEF ST_start_srv, start_lock, start_read, addr_lock, addr_read, addr_abort,
     create, ST_stop_srv, stop_test, stop_child, stop_parent, stop_unlock, stop_join,
     stop_wait, stop_set, FreeBeforeAbort, ST_abort
<1>7. ASSUME NEW t \in Threads, ClientSend(t) PROVE NoPortConflict'
  BY <1>7 DEF ClientSend
<1> QED BY <1>2, <1>3, <1>4, <1>5, <1>6, <1>7, ServeSock, StepCases
        DEF QuietCall, ST_start_srv, ST_stop_srv

\* When SIGHUP arrives in the loop, and no signal before the server listens,
\* a restart never finds its port taken by the server it replaces, although
\* nothing ever closes the listening socket: ST_stop_srv has shut it down.
THEOREM RestartFindsPort ==
  ASSUME HupPoints \subseteq LoopPoints, ServePoints \subseteq SettledPoints
  PROVE  Spec => []NoPortConflict
<1> DEFINE I == IInv /\ SockInv /\ NoPortConflict
<1>1. Init => I
  BY InitInv DEF Init, SockInv, NoPortConflict, SettledPoints, StopPoints, AfterUnlock
<1>2. I /\ [Next]_vars => I'
  BY StepInv, StepSock, StepPortConflict
<1>3. I => NoPortConflict OBVIOUS
<1> QED BY <1>1, <1>2, <1>3, PTL DEF Spec
=============================================================================
