---------------------------- MODULE StoredProofs ----------------------------
(***************************************************************************)
(* Proofs about Stored, for any number of thread slots, any configuration  *)
(* files and any clients.                                                  *)
(***************************************************************************)
EXTENDS Stored, TLAPS

(***************************************************************************)
(* The inductive invariant.                                                *)
(***************************************************************************)

\* A thread that exists: it has not been joined.
Existing == LivePoints \cup {"done"}

\* The handler runs on top of the loop only.
HandlerInv == pc["hup"] # "idle" => pc["main"] \in LoopPoints

\* The objects main has allocated and not yet freed at each of its points, but
\* for the one that an abort in the handler has freed.
LifeInv ==
  /\ pc["main"] \notin {"new_config", "exit", "config_abort"}
        => life["config"] = "live" \/ pc["hup"] = "config_abort"
  /\ pc["main"] \notin {"new_config", "init_checker", "init_srv", "destroy_checker",
                        "destroy_config", "exit", "config_abort", "addr_abort"}
        => life["srv"] = "live" \/ pc["hup"] = "addr_abort"
  /\ pc["main"] \notin {"new_config", "init_checker", "destroy_config", "exit",
                        "config_abort"}
        => life["entries"] = "live"

\* The document is unassigned only before the first start, and freed only
\* while main holds the buffer's mutex or after the end of the server.
DataInv ==
  /\ data = "uninit" => pc["main"] \in {"new_config", "config_abort",
                                        "init_checker", "init_srv", "set_data"}
  /\ data = "dangling" => pc["main"] \in {"publish", "destroy_config", "exit"}

MainHoldsSrv == pc["main"] \in {"chk_cfg_lock", "chk_cfg_read", "chk_lock",
                                "chk_body", "publish"}

\* Who holds the mutex of the document.
SrvMutexInv ==
  /\ MainHoldsSrv <=> mutex["srv"] = "main"
  /\ \A t \in Threads : spc[t] = "copy" <=> mutex["srv"] = t

\* A server thread exists between pthread_create and pthread_join, and it is
\* the one srv_thread names.
Halfway(f) == pc[f] = "stop_set"

ThreadInv ==
  /\ \A t \in Threads : spc[t] \in Existing => (t = srv_thread /\ ~stopped)
  /\ ~stopped => srv_thread \in Threads
  /\ (~stopped /\ \A f \in Frames : ~Halfway(f)) => spc[srv_thread] \in Existing
  /\ \A f \in Frames : Halfway(f) => \A t \in Threads : spc[t] \notin Existing
  /\ \A f \in Frames : pc[f] \in StopPoints \ {"stop_test"} => ~stopped
  /\ \A f \in Frames : pc[f] \in {"addr_lock", "addr_read", "addr_abort", "create"}
                          => stopped
  /\ ~stopped => pc["main"] \in {"init_loop"} \cup LoopPoints \cup StopPoints

JoinInv == \A f \in Frames : /\ joining[f] # NoThread => joining[f] = srv_thread
                             /\ joining[f] # NoThread <=> pc[f] = "stop_wait"

IInv == /\ TypeOK
        /\ HandlerInv
        /\ LifeInv
        /\ DataInv
        /\ SrvMutexInv
        /\ ThreadInv
        /\ JoinInv
        /\ MemorySafe

(***************************************************************************)
(* Type correctness.                                                       *)
(***************************************************************************)

\* An abort changes the outcome only.
LEMMA AbortType ==
  ASSUME TypeOK, NEW o \in Outcomes, ST_abort(o)
  PROVE  TypeOK'
BY DEF ST_abort, TypeOK, controlVars, lockVars, loopVars, srvVars, threadVars

\* An error path that frees an object keeps the types too.
LEMMA FreeBeforeAbortType ==
  ASSUME TypeOK, NEW f \in Frames, NEW o \in Objects, NEW l \in AbortPoints,
         FreeBeforeAbort(f, o, l), mutex' \in [Mutexes -> Threads \cup {"free", "main"}]
  PROVE  TypeOK'
BY DEF FreeBeforeAbort, Goto, TypeOK, Frames, MainPoints, HandlerPoints, loopVars, srvVars,
       threadVars

\* Taking a mutex and going on.
LEMMA LockStepType ==
  ASSUME TypeOK, NEW f \in Frames, NEW m \in Mutexes, NEW l,
         f = "main" => l \in MainPoints, f = "hup" => l \in HandlerPoints,
         LockStep(f, m, l)
  PROVE  TypeOK'
<1>1. CASE ST_abort("undefined")
  BY <1>1, AbortType DEF Outcomes
<1>2. CASE ST_lock(m, "main") /\ Goto(f, l)
           /\ UNCHANGED <<proc, ret, joining, life, config, loopVars, srvVars,
                          threadVars>>
  BY <1>2 DEF ST_lock, Goto, TypeOK, Frames, loopVars, srvVars, threadVars
<1> QED BY <1>1, <1>2 DEF LockStep

\* util/configure.c keeps the types.
LEMMA ConfigureType ==
  ASSUME TypeOK, \/ ST_new_config \/ reload_lock \/ reload_load \/ ST_destroy_config
                 \/ \E f \in Frames : config_abort(f)
  PROVE  TypeOK'
<1> USE DEF Frames, MainPoints, HandlerPoints, InitPoints, EndPoints, StopPoints
<1>0. \A c \in Files : load_from_file(c) \in Settings
  BY FilesAssumption DEF load_from_file, Settings, ConfigFile
<1>f. ASSUME NEW f \in Frames, load_failed(f) PROVE TypeOK'
  <2>1. mutex' \in [Mutexes -> Threads \cup {"free", "main"}]
    BY <1>f DEF load_failed, TypeOK
  <2> QED BY <1>f, <2>1, FreeBeforeAbortType DEF load_failed, Objects, AbortPoints
<1>1. CASE ST_new_config
  <2>1. CASE load_failed("main") BY <1>f, <2>1
  <2> QED BY <1>0, <1>1, <2>1 DEF ST_new_config, TypeOK, Goto, Objects, loopVars, srvVars, threadVars
<1>2. CASE reload_lock
  BY <1>2, LockStepType DEF reload_lock, Mutexes, Objects
<1>3. CASE reload_load
  <2>1. CASE load_failed("hup") BY <1>f, <2>1
  <2> QED BY <1>0, <1>3, <2>1 DEF reload_load, TypeOK, Goto, ST_unlock, Mutexes, Objects,
                              loopVars, srvVars, threadVars
<1>4. CASE ST_destroy_config
  BY <1>4 DEF ST_destroy_config, TypeOK, Goto, Objects, loopVars, srvVars, threadVars
<1>5. CASE \E f \in Frames : config_abort(f) BY <1>5, AbortType DEF config_abort, Outcomes
<1> QED BY <1>1, <1>2, <1>3, <1>4, <1>5

\* fgets and sscanf keep the types of the connection and of the buffers.
LEMMA FgetsType ==
  ASSUME TypeOK, NEW t \in Threads, fgets(t)
  PROVE  /\ conn' \in [Threads -> Connection]
         /\ buf' \in [Threads -> Lines \cup {"JUNK"}]
         /\ buf'[t] \in Lines
<1>1. CASE /\ conn[t].rx # <<>>
           /\ buf' = [buf EXCEPT ![t] = Head(conn[t].rx)]
           /\ conn' = [conn EXCEPT ![t].rx = Tail(conn[t].rx)]
  <2>1. conn[t] \in Connection /\ conn[t].rx \in Seq(Lines)
    BY DEF TypeOK, Connection
  <2>2. Head(conn[t].rx) \in Lines /\ Tail(conn[t].rx) \in Seq(Lines)
    BY <1>1, <2>1
  <2> QED BY <1>1, <2>1, <2>2 DEF TypeOK, Connection
<1>2. CASE /\ buf' \in {[buf EXCEPT ![t] = l] :
                         l \in IF buf[t] = "JUNK" THEN Lines ELSE {buf[t]}}
           /\ UNCHANGED conn
  <2>1. PICK l \in Lines : buf' = [buf EXCEPT ![t] = l]
    BY <1>2 DEF TypeOK
  <2> QED BY <1>2, <2>1 DEF TypeOK
<1> QED BY <1>1, <1>2 DEF fgets

\* The server thread keeps the types.
LEMMA ServeType ==
  ASSUME TypeOK, NEW t \in Threads, serve(t)
  PROVE  TypeOK'
<1> USE DEF ServerGoto, ServerPoints, controlVars, lockVars, loopVars,
            srvVars, threadVars
<1>1. CASE port_lock(t)
  <2>1. CASE ST_abort("undefined") BY <2>1, AbortType DEF Outcomes
  <2> QED BY <1>1, <2>1 DEF port_lock, ST_lock, TypeOK
<1>2. CASE port_read(t)
  <2>1. config.http_port \in Int BY DEF TypeOK, Settings
  <2> QED BY <1>2, <2>1 DEF port_read, ST_unlock, TypeOK, Mutexes, Objects
<1>3. CASE socket(t)
  BY <1>3 DEF socket, TypeOK, SocketStates
<1>4. ASSUME NEW here, NEW next \in ServerPoints, NEW state \in SocketStates,
             bind_or_listen(t, here, next, state)
      PROVE  TypeOK'
  <2>1. CASE ST_abort("abort_bind") BY <2>1, AbortType DEF Outcomes
  <2> QED BY <1>4, <2>1 DEF bind_or_listen, TypeOK
<1>5. CASE bind(t) BY <1>4, <1>5 DEF bind, SocketStates
<1>6. CASE listen(t) BY <1>4, <1>6 DEF listen, SocketStates
<1>7. CASE quit(t) BY <1>7 DEF quit, TypeOK
<1>8. CASE accept_client(t)
  <2>1. PICK a \in Arrivals :
          conn' = [conn EXCEPT ![t] = [open |-> TRUE, rx |-> a.rx, tx |-> a.tx,
                                       eof |-> FALSE, closes |-> a.closes]]
    BY <1>8 DEF accept_client
  <2>2. conn' \in [Threads -> Connection]
    BY <2>1, ArrivalsAssumption DEF TypeOK, Connection, Client
  <2> QED BY <1>8, <2>2 DEF accept_client, TypeOK
<1>9. CASE accept_break(t) BY <1>9 DEF accept_break, TypeOK
<1>10. CASE reqline(t)
  <2>1. PICK m \in sscanf(buf'[t], method[t]) :
          /\ method' = [method EXCEPT ![t] = m]
          /\ ServerGoto(t, IF m = "GET" THEN "hdr" ELSE "respond")
    BY <1>10 DEF reqline
  <2>2. m \in Lines
    BY <1>10, FgetsType DEF reqline, sscanf, Lines, TypeOK
  <2> QED BY <1>10, <2>1, <2>2, FgetsType DEF reqline, TypeOK
<1>11. CASE hdr(t) BY <1>11, FgetsType DEF hdr, TypeOK
<1>12. CASE copy_lock(t)
  <2>1. CASE ST_abort("undefined") BY <2>1, AbortType DEF Outcomes
  <2> QED BY <1>12, <2>1 DEF copy_lock, ST_lock, TypeOK
<1>13. CASE copy(t)
  <2>1. CASE ST_abort("undefined") BY <2>1, AbortType DEF Outcomes
  <2>2. CASE ST_abort("abort_data") BY <2>2, AbortType DEF Outcomes
  <2> QED BY <1>13, <2>1, <2>2 DEF copy, ST_unlock, TypeOK
<1>14. CASE respond(t)
  <2>1. Closed \in Connection BY DEF Closed, Connection
  <2> QED BY <1>14, <2>1 DEF respond, TypeOK
<1> QED BY <1>1, <1>2, <1>3, <1>5, <1>6, <1>7, <1>8, <1>9, <1>10, <1>11, <1>12, <1>13,
           <1>14 DEF serve, serve_step, accept_fail, accept_error

\* ST_start_srv keeps the types, called by main or by the handler.
LEMMA StartType ==
  ASSUME TypeOK, NEW f \in Frames, ST_start_srv(f)
  PROVE  TypeOK'
<1> USE DEF Frames, MainPoints, HandlerPoints, InitPoints, StartPoints, StartReturn,
            Mutexes, Objects, Goto, loopVars, srvVars, threadVars
<1>1. CASE start_lock(f)
  <2>1. CASE ST_abort("abort_npe") BY <2>1, AbortType DEF Outcomes
  <2> QED BY <1>1, <2>1, LockStepType DEF start_lock
<1>2. CASE start_read(f) BY <1>2 DEF start_read, ST_unlock, TypeOK
<1>3. CASE addr_lock(f) BY <1>3, LockStepType DEF addr_lock
<1>4. CASE addr_read(f)
  <2>1. mutex' \in [Mutexes -> Threads \cup {"free", "main"}]
    BY <1>4 DEF addr_read, ST_unlock, TypeOK
  <2>2. CASE FreeBeforeAbort(f, "srv", "addr_abort")
    BY <2>1, <2>2, FreeBeforeAbortType DEF AbortPoints
  <2> QED BY <1>4, <2>1, <2>2 DEF addr_read, TypeOK
<1>5. CASE create(f)
  <2>1. mutex' \in [Mutexes -> Threads \cup {"free", "main"}]
    BY <1>5 DEF create, ST_lock, TypeOK
  <2>2. srv_thread' \in Threads \cup {NoThread} /\ spc' \in [Threads -> ServerPoints]
    BY <1>5 DEF create, ServerGoto, FreeSlots, ServerPoints, TypeOK
  <2>3. /\ pc' \in [Frames -> MainPoints \cup HandlerPoints]
        /\ pc'["main"] \in MainPoints /\ pc'["hup"] \in HandlerPoints
    BY <1>5 DEF create, TypeOK
  <2> QED BY <1>5, <2>1, <2>2, <2>3 DEF create, TypeOK
<1>6. CASE addr_abort(f) BY <1>6, AbortType DEF addr_abort, Outcomes
<1> QED BY <1>1, <1>2, <1>3, <1>4, <1>5, <1>6 DEF ST_start_srv

\* ST_stop_srv keeps the types, called by main or by the handler.
LEMMA StopType ==
  ASSUME TypeOK, NEW f \in Frames, ST_stop_srv(f)
  PROVE  TypeOK'
<1> USE DEF Frames, MainPoints, HandlerPoints, EndPoints, StartPoints, StopPoints,
            StopReturn, Goto, lockVars, loopVars, srvVars, threadVars
<1>1. CASE stop_test(f) BY <1>1 DEF stop_test, TypeOK
<1>2. CASE stop_child(f)
  <2>1. conn' \in [Threads -> Connection]
    <3>1. CASE childfd \in Threads
      <4>1. conn[childfd] \in Connection BY <3>1 DEF TypeOK
      <4>2. conn[childfd].rx \in Seq(Lines) /\ <<>> \in Seq(Lines)
        BY <4>1 DEF Connection
      <4> QED BY <1>2, <3>1, <4>1, <4>2 DEF stop_child, TypeOK, Connection
    <3>2. CASE childfd \notin Threads BY <1>2, <3>2 DEF stop_child, TypeOK
    <3> QED BY <3>1, <3>2
  <2> QED BY <1>2, <2>1 DEF stop_child, TypeOK
<1>3. CASE stop_parent(f) BY <1>3 DEF stop_parent, TypeOK, SocketStates
<1>4. CASE stop_unlock(f) BY <1>4 DEF stop_unlock, ST_unlock, TypeOK, Mutexes
<1>5. CASE stop_join(f)
  <2>1. CASE ST_abort("undefined") BY <2>1, AbortType DEF Outcomes
  <2> QED BY <1>5, <2>1 DEF stop_join, TypeOK
<1>6. CASE stop_wait(f)
  <2>1. spc' \in [Threads -> ServerPoints]
    BY <1>6 DEF stop_wait, ServerGoto, ServerPoints, TypeOK
  <2>2. sock' \in [Threads -> SocketStates] /\ port' \in [Threads -> Int]
    BY <1>6 DEF stop_wait, SocketStates, TypeOK
  <2>3. joining' \in [Frames -> Threads \cup {NoThread}]
    BY <1>6 DEF stop_wait, TypeOK
  <2>4. /\ buf' \in [Threads -> Lines \cup {"JUNK"}]
        /\ method' \in [Threads -> Lines \cup {"JUNK"}]
    BY <1>6 DEF stop_wait, TypeOK
  <2> QED BY <1>6, <2>1, <2>2, <2>3, <2>4 DEF stop_wait, TypeOK
<1>7. CASE stop_set(f) BY <1>7 DEF stop_set, TypeOK
<1> QED BY <1>1, <1>2, <1>3, <1>4, <1>5, <1>6, <1>7 DEF ST_stop_srv

\* The loop, with ST_check_mtab in it, keeps the types.
LEMMA LoopType ==
  ASSUME TypeOK, ST_check_loop
  PROVE  TypeOK'
<1> USE DEF Frames, MainPoints, LoopPoints, StopPoints, Mutexes, Objects, Goto,
            lockVars, loopVars, srvVars, threadVars, ST_unlock, ST_lock
<1>1. CASE while BY <1>1 DEF while, TypeOK
<1>2. CASE cfg_lock BY <1>2, LockStepType DEF cfg_lock
<1>3. CASE cfg_read BY <1>3 DEF cfg_read, TypeOK
<1>4. CASE poll BY <1>4 DEF poll, TypeOK
<1>5. CASE log_lock BY <1>5, LockStepType DEF log_lock
<1>6. CASE log BY <1>6 DEF log, TypeOK
<1>7. CASE trylock BY <1>7 DEF trylock, TypeOK
<1>8. CASE chk_cfg_lock BY <1>8, LockStepType DEF chk_cfg_lock
<1>9. CASE chk_cfg_read BY <1>9 DEF chk_cfg_read, TypeOK
<1>10. CASE chk_lock BY <1>10, LockStepType DEF chk_lock
<1>11. CASE chk_body BY <1>11 DEF chk_body, Freed, TypeOK
<1>12. CASE publish BY <1>12 DEF publish, TypeOK
<1>13. CASE recv BY <1>13 DEF recv, TypeOK
<1> QED BY <1>1, <1>2, <1>3, <1>4, <1>5, <1>6, <1>7, <1>8, <1>9, <1>10, <1>11, <1>12,
           <1>13 DEF ST_check_loop, ST_check_mtab

\* The rest of main keeps the types.
LEMMA MainType ==
  ASSUME TypeOK, main
  PROVE  TypeOK'
<1> USE DEF Frames, MainPoints, InitPoints, StartPoints, StopPoints, EndPoints, LoopPoints,
            Objects, Goto, lockVars, loopVars, srvVars, threadVars
<1>1. CASE ST_init_mtab_checker BY <1>1 DEF ST_init_mtab_checker, TypeOK
<1>2. CASE ST_init_srv BY <1>2 DEF ST_init_srv, TypeOK
<1>3. CASE set_data BY <1>3 DEF set_data, TypeOK
<1>4. CASE ST_init_check_loop BY <1>4 DEF ST_init_check_loop, TypeOK
<1>5. CASE destroy_srv BY <1>5 DEF destroy_srv, TypeOK
<1>6. CASE free_srv BY <1>6 DEF free_srv, TypeOK
<1>7. CASE ST_destroy_mtab_checker BY <1>7 DEF ST_destroy_mtab_checker, Freed, TypeOK
<1>8. CASE exit BY <1>8, AbortType DEF exit, Outcomes
<1> QED BY <1>1, <1>2, <1>3, <1>4, <1>5, <1>6, <1>7, <1>8, ConfigureType, StartType,
           LoopType, StopType DEF main, ST_destroy_srv

\* Signals and the environment keep the types.
LEMMA EnvironmentType ==
  ASSUME TypeOK, SigHup \/ SigInt \/ (\E t \in Threads : ClientSend(t))
  PROVE  TypeOK'
<1> USE DEF Frames, controlVars, lockVars, loopVars, srvVars, threadVars
<1>1. CASE SigHup
  BY <1>1 DEF SigHup, Interrupted, TypeOK, MainPoints, LoopPoints, HandlerPoints
<1>2. CASE SigInt
  <2>1. PICK l \in Interrupted : pc' = [pc EXCEPT !["main"] = l]
    BY <1>2 DEF SigInt, ST_break_check_loop, Goto
  <2>2. l \in MainPoints
    BY DEF Interrupted, TypeOK, MainPoints, LoopPoints
  <2> QED BY <1>2, <2>1, <2>2 DEF SigInt, ST_break_check_loop, TypeOK
<1>4. ASSUME NEW t \in Threads, ClientSend(t) PROVE TypeOK'
  <2>1. conn[t] \in Connection /\ conn[t].rx \in Seq(Lines) /\ conn[t].tx \in Seq(Lines)
    BY DEF TypeOK, Connection
  <2>2. /\ Append(conn[t].rx, Head(conn[t].tx)) \in Seq(Lines)
        /\ Tail(conn[t].tx) \in Seq(Lines)
    BY <1>4, <2>1 DEF ClientSend
  <2>3. conn' \in [Threads -> Connection]
    <3>1. PICK c : c = [conn[t] EXCEPT !.rx = Append(@, Head(conn[t].tx)), !.tx = Tail(@)]
      OBVIOUS
    <3>2. c \in Connection BY <2>1, <2>2, <3>1 DEF Connection
    <3>3. conn' = [conn EXCEPT ![t] = c] BY <1>4, <3>1 DEF ClientSend
    <3> QED BY <3>2, <3>3 DEF TypeOK
  <2> QED BY <1>4, <2>3 DEF ClientSend, TypeOK
<1> QED BY <1>1, <1>2, <1>4

\* Every step of the daemon keeps the types.
LEMMA StepType ==
  ASSUME TypeOK, [Next]_vars
  PROVE  TypeOK'
<1>1. CASE UNCHANGED vars BY <1>1 DEF vars, TypeOK
<1>2. CASE reload
  BY <1>2, ConfigureType, StartType, StopType DEF reload, Frames
<1> QED BY <1>1, <1>2, MainType, EnvironmentType, ServeType DEF Next, Halted

\* The initial state has the types.
LEMMA InitType == Init => TypeOK
<1> SUFFICES ASSUME Init PROVE TypeOK
  OBVIOUS
<1> USE DEF Init
<1>1. pc \in [Frames -> MainPoints \cup HandlerPoints]
      /\ pc["main"] \in MainPoints /\ pc["hup"] \in HandlerPoints
  BY DEF Frames, MainPoints, InitPoints, HandlerPoints
<1>2. conn \in [Threads -> Connection]
  <2>1. Closed \in Connection BY DEF Closed, Connection
  <2> QED BY <2>1
<1>3. config \in Settings
  BY DEF Settings
<1>4. /\ joining \in [Frames -> Threads \cup {NoThread}]
      /\ mutex \in [Mutexes -> Threads \cup {"free", "main"}]
      /\ life \in [Objects -> {"unset", "live", "freed"}]
  OBVIOUS
<1>5. /\ spc \in [Threads -> ServerPoints]
      /\ port \in [Threads -> Int]
      /\ sock \in [Threads -> SocketStates]
      /\ buf \in [Threads -> Lines \cup {"JUNK"}]
      /\ method \in [Threads -> Lines \cup {"JUNK"}]
  BY DEF ServerPoints, SocketStates
<1> QED BY <1>1, <1>2, <1>3, <1>4, <1>5 DEF TypeOK, Outcomes

\* The daemon's state always has its types, whatever the configuration
\* files, the clients and the points at which signals arrive.
THEOREM TypeCorrect == Spec => []TypeOK
BY InitType, StepType, PTL DEF Spec

(***************************************************************************)
(* Memory safety, when SIGHUP arrives in the loop only.                    *)
(***************************************************************************)

\* No thread slot is one of the markers of an unowned mutex or handle.
LEMMA ThreadFacts ==
  \A t \in Threads : t # NoThread /\ t # "free" /\ t # "main"
BY ThreadsAssumption

\* An abort keeps the invariant: only the outcome changes.
LEMMA AbortInv ==
  ASSUME IInv, NEW o \in Outcomes \ {"abort_npe", "abort_data"}, ST_abort(o),
         o = "undefined" => LocksFreedConfig
  PROVE  IInv'
<1>1. TypeOK' BY AbortType DEF IInv
<1> QED BY <1>1 DEF ST_abort, IInv, HandlerInv, LifeInv, DataInv, SrvMutexInv, ThreadInv,
           JoinInv, MemorySafe, LocksFreedConfig, MainHoldsSrv, Halfway, controlVars, lockVars,
           loopVars, srvVars, threadVars

\* What goes on leaves nothing undefined behind.
LEMMA RunIsSafe ==
  ASSUME IInv, proc' = proc, proc = "run" \/ UNCHANGED <<pc, spc>>
  PROVE  MemorySafe'
BY DEF IInv, MemorySafe, LocksFreedConfig

\* The objects a live server thread uses exist, but for the configuration
\* that a failed reload has freed, and so does the document while the thread
\* holds its mutex.
LEMMA ServerUses ==
  ASSUME IInv, proc = "run", NEW t \in Threads, spc[t] \in LivePoints
  PROVE  /\ Usable("config") \/ pc["hup"] = "config_abort"
         /\ Usable("srv")
         /\ spc[t] = "copy" => data \in {"literal", "live"}
<1>1. ~stopped BY DEF IInv, ThreadInv, Existing
<1>2. pc["main"] \in {"init_loop"} \cup LoopPoints \cup StopPoints
  BY <1>1 DEF IInv, ThreadInv
<1>3. /\ life["config"] = "live" \/ pc["hup"] = "config_abort"
      /\ life["srv"] = "live" /\ data # "uninit"
  BY <1>1, <1>2 DEF IInv, LifeInv, DataInv, LoopPoints, StopPoints, ThreadInv, Frames
<1>4. ASSUME spc[t] = "copy" PROVE data # "dangling"
  <2>1. mutex["srv"] = t BY <1>4 DEF IInv, SrvMutexInv
  <2>2. ~MainHoldsSrv BY <2>1, ThreadFacts DEF IInv, SrvMutexInv
  <2> QED BY <1>2, <2>2 DEF IInv, DataInv, MainHoldsSrv, LoopPoints, StopPoints
<1> QED BY <1>3, <1>4 DEF Usable, IInv, TypeOK

\* A step of the server thread keeps the invariant.
LEMMA ServeInv ==
  ASSUME IInv, NEW t \in Threads, serve(t)
  PROVE  IInv'
<1>0. TypeOK' BY ServeType DEF IInv
<1>1. proc = "run" /\ spc[t] \in LivePoints
  BY DEF serve, serve_step, port_lock, port_read, socket, bind, listen, bind_or_listen,
         quit, accept_client, accept_fail, accept_error, accept_break, reqline, hdr,
         copy_lock, copy, respond, ServerAt, LivePoints, ServerPoints
<1>2. ASSUME ST_abort("abort_bind") PROVE IInv'
  BY <1>2, AbortInv DEF Outcomes
<1>3. ASSUME UNCHANGED <<proc, pc, joining, life, data, stopped, srv_thread>>,
             NEW l \in Existing, spc' = [spc EXCEPT ![t] = l],
             \/ mutex' = mutex /\ spc[t] # "copy" /\ l # "copy"
             \/ spc[t] = "port_lock" /\ l # "copy" /\ ST_lock("config", t)
             \/ spc[t] = "port_read" /\ l # "copy" /\ ST_unlock("config")
             \/ spc[t] # "copy" /\ l = "copy" /\ ST_lock("srv", t)
             \/ spc[t] = "copy" /\ l # "copy" /\ ST_unlock("srv")
      PROVE  IInv'
  <2>1. HandlerInv' /\ LifeInv' /\ DataInv' /\ MemorySafe'
    BY <1>1, <1>3, RunIsSafe DEF IInv, HandlerInv, LifeInv, DataInv
  <2>2. SrvMutexInv'
    BY <1>3, ThreadFacts DEF IInv, TypeOK, SrvMutexInv, MainHoldsSrv, ST_lock, ST_unlock, Mutexes, Objects
  <2>3. ThreadInv'
    BY <1>1, <1>3 DEF IInv, TypeOK, ThreadInv, Halfway, Existing
  <2>4. JoinInv'
    BY <1>3 DEF IInv, JoinInv
  <2> QED BY <1>0, <2>1, <2>2, <2>3, <2>4 DEF IInv
<1> USE DEF ServerAt, ServerGoto, Existing, LivePoints, ServerPoints, controlVars,
            lockVars, loopVars, srvVars, threadVars
<1>4. CASE port_lock(t)
  <2>1. CASE ~Usable("config") /\ ST_abort("undefined")
    <3>1. LocksFreedConfig BY <1>1, <1>4, <2>1, ServerUses DEF port_lock, LocksFreedConfig
    <3> QED BY <2>1, <3>1, AbortInv DEF Outcomes
  <2> QED BY <1>1, <1>3, <1>4, <2>1 DEF port_lock
<1>5. CASE port_read(t) BY <1>3, <1>5 DEF port_read
<1>6. CASE socket(t) BY <1>3, <1>6 DEF socket
<1>7. CASE bind(t) BY <1>2, <1>3, <1>7 DEF bind, bind_or_listen
<1>8. CASE listen(t) BY <1>2, <1>3, <1>8 DEF listen, bind_or_listen
<1>9. CASE quit(t) BY <1>3, <1>9 DEF quit
<1>10. CASE accept_client(t) BY <1>3, <1>10 DEF accept_client
<1>11. CASE accept_fail(t) \/ accept_error(t)
  BY <1>3, <1>11 DEF accept_fail, accept_error, accept_break
<1>12. CASE reqline(t) BY <1>3, <1>12 DEF reqline
<1>13. CASE hdr(t) BY <1>3, <1>13 DEF hdr
<1>14. CASE copy_lock(t) BY <1>1, <1>3, <1>14, ServerUses DEF copy_lock
<1>15. CASE copy(t) BY <1>1, <1>3, <1>15, ServerUses DEF copy
<1>16. CASE respond(t) BY <1>3, <1>16 DEF respond
<1> QED BY <1>4, <1>5, <1>6, <1>7, <1>8, <1>9, <1>10, <1>11, <1>12, <1>13, <1>14, <1>15,
           <1>16 DEF serve, serve_step

\* A step of the loop keeps the invariant.
LEMMA LoopInv ==
  ASSUME IInv, ST_check_loop
  PROVE  IInv'
<1>0. TypeOK' BY LoopType DEF IInv
<1>1. /\ proc = "run" /\ pc["hup"] = "idle" /\ pc["main"] \in LoopPoints
      /\ Usable("config") /\ Usable("entries") /\ Usable("srv")
  <2>1. proc = "run" /\ pc["hup"] = "idle" /\ pc["main"] \in LoopPoints
    BY DEF ST_check_loop, ST_check_mtab, while, cfg_lock, cfg_read, poll, log_lock, log,
           trylock, chk_cfg_lock, chk_cfg_read, chk_lock, chk_body, publish, recv, At,
           LoopPoints
  <2> QED BY <2>1 DEF IInv, LifeInv, Usable, LoopPoints
\* What every step of the loop has in common.
<1>2. ASSUME UNCHANGED <<proc, joining, life, stopped, srv_thread, spc>>,
             NEW l \in LoopPoints \cup {"stop_test"}, pc' = [pc EXCEPT !["main"] = l],
             (pc'["main"] = l /\ pc'["hup"] = "idle") => DataInv' /\ SrvMutexInv'
      PROVE  IInv'
  <2>1. pc'["main"] = l /\ pc'["hup"] = "idle"
    BY <1>1, <1>2 DEF IInv, TypeOK, Frames
  <2>2. HandlerInv' /\ MemorySafe'
    BY <1>1, <1>2, <2>1, RunIsSafe DEF IInv, HandlerInv
  <2>3. LifeInv'
    BY <1>1, <1>2, <2>1 DEF LifeInv, Usable, Objects, LoopPoints
  <2>4. ThreadInv'
    BY <1>1, <1>2, <2>1 DEF IInv, ThreadInv, Halfway, Frames, LoopPoints, StopPoints
  <2>5. JoinInv'
    BY <1>1, <1>2, <2>1 DEF IInv, JoinInv, Frames, LoopPoints
  <2> QED BY <1>0, <1>2, <2>1, <2>2, <2>3, <2>4, <2>5 DEF IInv
<1> USE DEF At, Goto, LoopPoints, lockVars, loopVars, srvVars, threadVars,
            DataInv, SrvMutexInv, MainHoldsSrv, ST_lock, ST_unlock
\* A step that takes one of the other mutexes.
<1>3. ASSUME NEW m \in {"config", "entries"}, NEW l \in LoopPoints,
             LockStep("main", m, l), pc["main"] # "publish", l # "publish",
             MainHoldsSrv <=> l \in {"chk_cfg_lock", "chk_cfg_read", "chk_lock", "chk_body"}
      PROVE  IInv'
  <2>1. Usable(m) BY <1>1, <1>3
  <2>2. mutex'["srv"] = mutex["srv"]
    BY <1>3, <2>1 DEF LockStep, IInv, TypeOK, Mutexes, Objects
  <2>3. /\ UNCHANGED <<proc, joining, life, stopped, srv_thread, spc, data>>
        /\ pc' = [pc EXCEPT !["main"] = l]
    BY <1>3, <2>1 DEF LockStep
  <2>4. ASSUME pc'["main"] = l PROVE DataInv' /\ SrvMutexInv'
    BY <1>1, <1>3, <2>2, <2>3, <2>4 DEF IInv
  <2> QED BY <1>2, <2>3, <2>4
<1>4. CASE while BY <1>2, <1>4 DEF while, IInv
<1>5. CASE cfg_lock BY <1>3, <1>5 DEF cfg_lock
<1>6. CASE cfg_read BY <1>2, <1>6 DEF cfg_read, IInv, TypeOK, Mutexes, Objects
<1>7. CASE poll BY <1>2, <1>7 DEF poll, IInv
<1>8. CASE log_lock BY <1>3, <1>8 DEF log_lock
<1>9. CASE log BY <1>2, <1>9 DEF log, IInv, TypeOK, Mutexes, Objects
<1>10. CASE trylock BY <1>2, <1>10, ThreadFacts DEF trylock, IInv, TypeOK, Mutexes, Objects
<1>11. CASE chk_cfg_lock BY <1>3, <1>11 DEF chk_cfg_lock
<1>12. CASE chk_cfg_read BY <1>2, <1>12 DEF chk_cfg_read, IInv, TypeOK, Mutexes, Objects
<1>13. CASE chk_lock BY <1>3, <1>13 DEF chk_lock
<1>14. CASE chk_body BY <1>2, <1>14 DEF chk_body, Freed, IInv, TypeOK, Mutexes, Objects
<1>15. CASE publish BY <1>2, <1>15, ThreadFacts DEF publish, IInv, TypeOK, Mutexes, Objects
<1>16. CASE recv BY <1>2, <1>16 DEF recv, IInv
<1> QED BY <1>4, <1>5, <1>6, <1>7, <1>8, <1>9, <1>10, <1>11, <1>12, <1>13, <1>14, <1>15,
           <1>16 DEF ST_check_loop, ST_check_mtab

\* Points inside ST_start_srv and ST_stop_srv.
CallPoints == StartPoints \cup StopPoints

\* One frame at a time is inside ST_start_srv or ST_stop_srv.
LEMMA OneCall ==
  ASSUME IInv, NEW f \in Frames, NEW g \in Frames, f # g, pc[f] \in CallPoints
  PROVE  pc[g] \notin CallPoints
BY DEF IInv, HandlerInv, TypeOK, Frames, CallPoints, StartPoints, StopPoints, LoopPoints,
       MainPoints, HandlerPoints, InitPoints, EndPoints

\* A frame inside one of the two finds the objects it uses.
LEMMA CallUses ==
  ASSUME IInv, NEW f \in Frames, pc[f] \in CallPoints \ {"addr_abort"},
         f = "main" => pc["hup"] = "idle"
  PROVE  life["config"] = "live" /\ life["srv"] = "live"
BY DEF IInv, HandlerInv, LifeInv, Frames, CallPoints, StartPoints, StopPoints, LoopPoints,
       TypeOK, HandlerPoints

\* A step of ST_start_srv keeps the invariant.
LEMMA StartInv ==
  ASSUME IInv, NEW f \in Frames, ST_start_srv(f)
  PROVE  IInv'
<1>0. TypeOK' BY StartType DEF IInv
<1>1. proc = "run" /\ pc[f] \in StartPoints /\ (f = "main" => pc["hup"] = "idle")
  BY DEF ST_start_srv, start_lock, start_read, addr_lock, addr_read, addr_abort, create, At,
         StartPoints
<1>2. pc[f] # "addr_abort" => Usable("config") /\ life["srv"] = "live"
  BY <1>1, CallUses DEF CallPoints, Usable
\* A step that moves f and touches at most the mutex of the configuration.
<1>3. ASSUME UNCHANGED <<proc, joining, data, stopped, srv_thread, spc>>,
             pc[f] # "addr_abort",
             NEW l \in StartPoints \cup {StartReturn(f)}, pc' = [pc EXCEPT ![f] = l],
             \/ life' = life /\ l # "addr_abort"
             \/ life' = [life EXCEPT !["srv"] = "freed"] /\ l = "addr_abort",
             mutex'["srv"] = mutex["srv"],
             l \in {"addr_lock", "addr_read", "addr_abort", "create"} => stopped
      PROVE  IInv'
  <2>1. pc'[f] = l /\ \A g \in Frames : g # f => pc'[g] = pc[g]
    BY <1>3 DEF IInv, TypeOK
  <2> USE <1>1, <1>3, <2>1 DEF IInv, Frames, StartReturn, StartPoints
  <2>2. HandlerInv' BY DEF HandlerInv
  <2>3. LifeInv' BY DEF LifeInv, LoopPoints, TypeOK, Objects
  <2>4. DataInv' BY DEF DataInv, LoopPoints
  <2>5. SrvMutexInv' BY DEF SrvMutexInv, MainHoldsSrv
  <2>6. ThreadInv' BY DEF ThreadInv, Halfway, StopPoints, LoopPoints
  <2>7. JoinInv' BY DEF JoinInv
  <2> QED BY <1>0, <2>2, <2>3, <2>4, <2>5, <2>6, <2>7, RunIsSafe
<1> USE DEF At, Goto, StartPoints, loopVars, srvVars, threadVars
<1>4. ASSUME NEW l \in StartPoints \ {"addr_abort"}, LockStep(f, "config", l),
             pc[f] # "addr_abort", pc[f] # "start_lock" => stopped,
             l = "start_read" \/ stopped
      PROVE  IInv'
  <2>1. mutex'["srv"] = mutex["srv"]
    BY <1>2, <1>4 DEF LockStep, ST_lock, IInv, TypeOK, Mutexes, Objects
  <2> QED BY <1>2, <1>3, <1>4, <2>1 DEF LockStep
<1>5. CASE start_lock(f) BY <1>2, <1>4, <1>5 DEF start_lock
<1>6. CASE start_read(f)
  <2>1. mutex'["srv"] = mutex["srv"]
    BY <1>6 DEF start_read, ST_unlock, IInv, TypeOK, Mutexes, Objects
  <2> QED BY <1>3, <1>6, <2>1 DEF start_read, StartReturn
<1>7. CASE addr_lock(f)
  <2>1. stopped BY <1>7 DEF addr_lock, IInv, ThreadInv
  <2> QED BY <1>4, <1>7, <2>1 DEF addr_lock
<1>8. CASE addr_read(f)
  <2>1. stopped BY <1>8 DEF addr_read, IInv, ThreadInv
  <2>2. mutex'["srv"] = mutex["srv"] /\ pc[f] # "addr_abort"
    BY <1>8 DEF addr_read, ST_unlock, IInv, TypeOK, Mutexes, Objects
  <2>3. CASE FreeBeforeAbort(f, "srv", "addr_abort")
    BY <1>3, <2>1, <2>2, <2>3 DEF FreeBeforeAbort
  <2>4. CASE /\ Goto(f, "create")
             /\ UNCHANGED <<proc, ret, joining, life, config, loopVars, srvVars, threadVars>>
    BY <1>3, <2>1, <2>2, <2>4
  <2> QED BY <1>8, <2>3, <2>4 DEF addr_read
<1>9. CASE create(f)
  <2>1. PICK t \in FreeSlots : srv_thread' = t /\ ServerGoto(t, "port_lock")
    BY <1>9 DEF create
  <2>2. t \in Threads /\ spc' = [spc EXCEPT ![t] = "port_lock"] /\ spc'[t] = "port_lock"
    BY <2>1 DEF FreeSlots, ServerGoto, IInv, TypeOK
  <2>3. stopped /\ \A u \in Threads : spc[u] \notin Existing
    BY <1>9 DEF create, IInv, ThreadInv
  <2>4. pc'[f] = StartReturn(f) /\ \A g \in Frames : g # f => pc'[g] = pc[g]
    BY <1>9 DEF create, IInv, TypeOK
  <2>5. \A g \in Frames : pc[g] \notin StopPoints
    BY <1>1, OneCall DEF CallPoints, StopPoints
  <2>6. /\ UNCHANGED <<proc, joining, life, data>>
        /\ stopped' = FALSE
        /\ mutex'["srv"] = mutex["srv"]
    BY <1>9 DEF create, ST_lock, IInv, TypeOK, Mutexes, Objects
  <2>7. HandlerInv' BY <1>1, <2>4 DEF IInv, HandlerInv, Frames, StartReturn
  <2>8. LifeInv'
    BY <1>2, <1>9, <2>4, <2>6
    DEF create, IInv, LifeInv, HandlerInv, LoopPoints, Frames, StartReturn, Usable
  <2>9. DataInv'
    BY <1>1, <2>4, <2>6 DEF IInv, DataInv, LoopPoints, Frames, StartReturn
  <2>10. SrvMutexInv'
    BY <1>1, <2>2, <2>3, <2>4, <2>6 DEF IInv, SrvMutexInv, MainHoldsSrv, Frames, StartReturn, Existing,
       LivePoints, ServerPoints, TypeOK
  <2>11. JoinInv'
    <3>1. \A g \in Frames : joining[g] = NoThread
      BY <2>5 DEF IInv, JoinInv, StopPoints
    <3> QED BY <1>1, <2>4, <2>5, <2>6, <3>1 DEF JoinInv, StartReturn, StopPoints
  <2>12. ThreadInv'
    <3>1. \A u \in Threads : spc'[u] \in Existing => u = t
      BY <2>2, <2>3 DEF IInv, TypeOK
    <3>2. spc'[t] \in Existing BY <2>2 DEF Existing, LivePoints, ServerPoints
    <3>3. \A g \in Frames : pc'[g] \notin CallPoints
      BY <1>1, <2>4, OneCall DEF CallPoints, StartReturn, StopPoints
    <3>4. pc'["main"] \in {"init_loop"} \cup LoopPoints
      BY <1>1, <2>4 DEF IInv, HandlerInv, Frames, StartReturn
    <3> QED BY <2>1, <2>2, <2>6, <3>1, <3>2, <3>3, <3>4 DEF ThreadInv, Halfway, CallPoints, StopPoints
  <2> QED BY <1>0, <1>1, <2>6, <2>7, <2>8, <2>9, <2>10, <2>11, <2>12, RunIsSafe DEF IInv
<1>10. CASE addr_abort(f) BY <1>10, AbortInv DEF addr_abort, Outcomes
<1> QED BY <1>5, <1>6, <1>7, <1>8, <1>9, <1>10 DEF ST_start_srv

\* A step of ST_stop_srv keeps the invariant.
LEMMA StopInv ==
  ASSUME IInv, NEW f \in Frames, ST_stop_srv(f)
  PROVE  IInv'
<1>0. TypeOK' BY StopType DEF IInv
<1>1. proc = "run" /\ pc[f] \in StopPoints /\ (f = "main" => pc["hup"] = "idle")
  BY DEF ST_stop_srv, stop_test, stop_child, stop_parent, stop_unlock, stop_join, stop_wait,
         stop_set, At, StopPoints
<1>2. \A g \in Frames : g # f => pc[g] \notin CallPoints
  BY <1>1, OneCall DEF CallPoints
<1>3. StopReturn(f) \in {"destroy_srv", "free_srv", "start_lock"}
      /\ (f = "hup" => StopReturn(f) = "start_lock")
      /\ (f = "main" => StopReturn(f) # "start_lock")
  BY DEF StopReturn, IInv, TypeOK, Frames
\* A step that moves f: what is left to show is about the server thread.
<1>4. ASSUME UNCHANGED <<proc, life, data>>, mutex'["srv"] = mutex["srv"],
             \A t \in Threads : spc'[t] = "copy" <=> spc[t] = "copy",
             NEW l \in StopPoints \cup {StopReturn(f)}, pc' = [pc EXCEPT ![f] = l],
             (pc'[f] = l /\ \A g \in Frames : g # f => pc'[g] = pc[g])
                => ThreadInv' /\ JoinInv'
      PROVE  IInv'
  <2>1. pc'[f] = l /\ \A g \in Frames : g # f => pc'[g] = pc[g]
    BY <1>4 DEF IInv, TypeOK
  <2> USE <1>1, <1>3, <1>4, <2>1 DEF IInv, Frames, StopPoints
  <2>2. HandlerInv' BY DEF HandlerInv, LoopPoints
  <2>3. LifeInv' BY DEF LifeInv, LoopPoints
  <2>4. DataInv' BY DEF DataInv, LoopPoints
  <2>5. SrvMutexInv' BY DEF SrvMutexInv, MainHoldsSrv
  <2> QED BY <1>0, <2>2, <2>3, <2>4, <2>5, RunIsSafe
\* A step that moves f and leaves the server thread alone.
<1>5. ASSUME UNCHANGED <<proc, life, data, stopped, srv_thread, joining, spc>>,
             mutex'["srv"] = mutex["srv"],
             NEW l \in (StopPoints \ {"stop_wait", "stop_set"}) \cup {StopReturn(f)},
             pc' = [pc EXCEPT ![f] = l],
             pc[f] \notin {"stop_wait", "stop_set"},
             l \in StopPoints <=> ~stopped
      PROVE  IInv'
  <2>1. ASSUME pc'[f] = l, \A g \in Frames : g # f => pc'[g] = pc[g]
        PROVE  ThreadInv' /\ JoinInv'
    BY <1>1, <1>2, <1>3, <1>5, <2>1 DEF IInv, ThreadInv, JoinInv, Halfway, Frames, CallPoints, StartPoints,
       StopPoints, LoopPoints, HandlerInv
  <2> QED BY <1>4, <1>5, <2>1
<1>6. pc[f] # "stop_test" => ~stopped
  BY <1>1 DEF IInv, ThreadInv
<1> USE DEF At, Goto, lockVars, loopVars, srvVars, threadVars
<1>7. CASE stop_test(f) BY <1>3, <1>5, <1>7 DEF stop_test, StopPoints
<1>8. CASE stop_child(f) BY <1>5, <1>6, <1>8 DEF stop_child, StopPoints
<1>9. CASE stop_parent(f) BY <1>5, <1>6, <1>9 DEF stop_parent, StopPoints
<1>10. CASE stop_unlock(f)
  <2>1. mutex'["srv"] = mutex["srv"]
    BY <1>10 DEF stop_unlock, ST_unlock, IInv, TypeOK, Mutexes, Objects
  <2> QED BY <1>5, <1>6, <1>10, <2>1 DEF stop_unlock, StopPoints
<1>11. CASE stop_join(f)
  <2>1. ~stopped /\ srv_thread \in Threads /\ spc[srv_thread] \in Existing
    <3>1. \A g \in Frames : ~Halfway(g)
      BY <1>2, <1>11 DEF stop_join, Halfway, CallPoints, StopPoints
    <3> QED BY <1>6, <1>11, <3>1 DEF stop_join, IInv, ThreadInv
  <2>2. \A g \in Frames : joining[g] = NoThread
    BY <1>2, <1>11 DEF stop_join, IInv, JoinInv, CallPoints, StopPoints
  <2>3. /\ joining' = [joining EXCEPT ![f] = srv_thread]
        /\ pc' = [pc EXCEPT ![f] = "stop_wait"]
        /\ UNCHANGED <<proc, lockVars, config, loopVars, srvVars, threadVars>>
    BY <1>11, <2>1, <2>2, ThreadFacts DEF stop_join, Existing, LivePoints, ServerPoints
  <2>4. ASSUME pc'[f] = "stop_wait", \A g \in Frames : g # f => pc'[g] = pc[g]
        PROVE  ThreadInv' /\ JoinInv'
    <3>1. JoinInv'
      BY <1>2, <2>1, <2>2, <2>3, <2>4, ThreadFacts DEF JoinInv, IInv, TypeOK, CallPoints, StopPoints
    <3>2. ThreadInv'
      BY <1>1, <1>2, <2>1, <2>3, <2>4 DEF IInv, ThreadInv, Halfway, Frames, CallPoints, StartPoints,
         StopPoints, LoopPoints, HandlerInv
    <3> QED BY <3>1, <3>2
  <2> QED BY <1>4, <2>3, <2>4 DEF StopPoints
<1>12. CASE stop_wait(f)
  <2>1. joining[f] = srv_thread /\ srv_thread \in Threads
    BY <1>6, <1>12 DEF stop_wait, IInv, JoinInv, ThreadInv
  <2>2. spc[srv_thread] = "done"
        /\ \E l \in {"none", "joined"} : spc' = [spc EXCEPT ![srv_thread] = l]
    BY <1>12, <2>1 DEF stop_wait, ServerGoto
  <2>3. \A t \in Threads : spc'[t] \notin Existing /\ (spc'[t] = "copy" <=> spc[t] = "copy")
    BY <2>1, <2>2 DEF IInv, TypeOK, ThreadInv, Existing, LivePoints, ServerPoints
  <2>4. /\ joining' = [joining EXCEPT ![f] = NoThread]
        /\ pc' = [pc EXCEPT ![f] = "stop_set"]
        /\ UNCHANGED <<proc, lockVars, config, loopVars, srvVars>>
    BY <1>12 DEF stop_wait
  <2>5. ASSUME pc'[f] = "stop_set", \A g \in Frames : g # f => pc'[g] = pc[g]
        PROVE  ThreadInv' /\ JoinInv'
    <3>1. JoinInv'
      BY <1>2, <2>4, <2>5 DEF JoinInv, IInv, TypeOK, CallPoints, StopPoints
    <3>2. ThreadInv'
      BY <1>1, <1>2, <1>6, <1>12, <2>1, <2>3, <2>4, <2>5 DEF stop_wait, IInv, ThreadInv, Halfway, Frames,
         CallPoints, StartPoints, StopPoints, LoopPoints, HandlerInv
    <3> QED BY <3>1, <3>2
  <2> QED BY <1>4, <2>3, <2>4, <2>5 DEF StopPoints
<1>13. CASE stop_set(f)
  <2>1. \A t \in Threads : spc[t] \notin Existing
    BY <1>13 DEF stop_set, IInv, ThreadInv, Halfway
  <2>2. /\ stopped' = TRUE
        /\ pc' = [pc EXCEPT ![f] = StopReturn(f)]
        /\ UNCHANGED <<proc, joining, lockVars, config, loopVars, srv_thread, threadVars>>
    BY <1>13 DEF stop_set
  <2>3. ASSUME pc'[f] = StopReturn(f), \A g \in Frames : g # f => pc'[g] = pc[g]
        PROVE  ThreadInv' /\ JoinInv'
    <3>1. JoinInv'
      BY <1>2, <1>3, <1>13, <2>2, <2>3 DEF stop_set, JoinInv, IInv
    <3>2. ThreadInv'
      BY <1>2, <1>3, <2>1, <2>2, <2>3 DEF ThreadInv, Halfway, CallPoints, StopPoints, StartPoints
    <3> QED BY <3>1, <3>2
  <2> QED BY <1>4, <2>2, <2>3
<1> QED BY <1>7, <1>8, <1>9, <1>10, <1>11, <1>12, <1>13 DEF ST_stop_srv

\* The handler's ST_reload_config keeps the invariant.
LEMMA ReloadConfigInv ==
  ASSUME IInv, reload_lock \/ reload_load \/ config_abort("hup")
  PROVE  IInv'
<1> SUFFICES ASSUME reload_lock \/ reload_load PROVE IInv'
  BY AbortInv DEF config_abort, Outcomes
<1>0. TypeOK' BY ConfigureType DEF IInv
<1>1. /\ proc = "run"
      /\ pc["hup"] \in {"reload_lock", "reload_load"} /\ pc["main"] \in LoopPoints
  BY DEF reload_lock, reload_load, At, IInv, HandlerInv
<1>2. Usable("config")
  BY <1>1 DEF IInv, LifeInv, Usable, LoopPoints
<1>3. ASSUME UNCHANGED <<proc, joining, data, stopped, srv_thread, spc>>,
             NEW l \in {"reload_load", "stop_test", "config_abort"},
             pc' = [pc EXCEPT !["hup"] = l],
             \/ life' = life
             \/ life' = [life EXCEPT !["config"] = "freed"] /\ l = "config_abort",
             mutex'["srv"] = mutex["srv"]
      PROVE  IInv'
  <2>1. pc'["hup"] = l /\ pc'["main"] = pc["main"]
    BY <1>3 DEF IInv, TypeOK, Frames
  <2> USE <1>1, <1>3, <2>1 DEF IInv, Frames
  <2>2. HandlerInv' BY DEF HandlerInv
  <2>3. LifeInv' BY DEF LifeInv, TypeOK, Objects
  <2>4. DataInv' BY DEF DataInv
  <2>5. SrvMutexInv' BY DEF SrvMutexInv, MainHoldsSrv
  <2>6. ThreadInv' BY DEF ThreadInv, Halfway, StopPoints, LoopPoints
  <2>7. JoinInv' BY DEF JoinInv
  <2> QED BY <1>0, <2>2, <2>3, <2>4, <2>5, <2>6, <2>7, RunIsSafe
<1> USE DEF Goto, loopVars, srvVars, threadVars
<1>4. CASE reload_lock
  <2>1. mutex'["srv"] = mutex["srv"]
    BY <1>2, <1>4 DEF reload_lock, LockStep, ST_lock, IInv, TypeOK, Mutexes, Objects
  <2> QED BY <1>2, <1>3, <1>4, <2>1 DEF reload_lock, LockStep
<1>5. CASE reload_load
  <2>1. CASE load_failed("hup")
    BY <1>3, <2>1 DEF load_failed, FreeBeforeAbort
  <2>2. CASE /\ ST_unlock("config") /\ Goto("hup", "stop_test")
             /\ UNCHANGED <<proc, ret, joining, life, loopVars, srvVars, threadVars>>
    <3>1. mutex'["srv"] = mutex["srv"]
      BY <2>2 DEF ST_unlock, IInv, TypeOK, Mutexes, Objects
    <3> QED BY <1>3, <2>2, <3>1
  <2> QED BY <1>5, <2>1, <2>2 DEF reload_load
<1> QED BY <1>4, <1>5

\* The steps of main outside the loop and the calls on the server keep the
\* invariant: there is no server thread but in init_loop.
LEMMA MainInv ==
  ASSUME IInv, main
  PROVE  IInv'
<1>0. TypeOK' BY MainType DEF IInv
<1>1. ASSUME NEW k \in {"new_config", "init_checker", "init_srv", "set_data", "init_loop",
                        "destroy_srv", "free_srv", "destroy_checker", "destroy_config"},
             proc = "run", pc["main"] = k, pc["hup"] = "idle", NEW l \in MainPoints,
             pc' = [pc EXCEPT !["main"] = l], l \in {"while"} <=> k = "init_loop",
             l \notin {"chk_cfg_lock", "chk_cfg_read", "chk_lock", "chk_body", "publish",
                       "stop_set", "stop_wait", "addr_lock", "addr_read", "addr_abort",
                       "create"},
             l \in StopPoints => l = "stop_test",
             UNCHANGED <<proc, joining, mutex, stopped, srv_thread, spc>>,
             (pc'["main"] = l /\ pc'["hup"] = "idle") => LifeInv' /\ DataInv'
      PROVE  IInv'
  <2>1. pc'["main"] = l /\ pc'["hup"] = "idle"
    BY <1>1 DEF IInv, TypeOK, Frames
  <2> USE <1>1, <2>1 DEF IInv, Frames
  <2>2. HandlerInv' BY DEF HandlerInv
  <2>3. SrvMutexInv' BY DEF SrvMutexInv, MainHoldsSrv
  <2>4. k # "init_loop" => stopped BY DEF ThreadInv, LoopPoints, StopPoints
  <2>5. ThreadInv' BY <2>4 DEF ThreadInv, Halfway, StopPoints, LoopPoints
  <2>6. JoinInv' BY SMTT(30) DEF JoinInv
  <2> QED BY <1>0, <2>2, <2>3, <2>5, <2>6, RunIsSafe
<1> USE DEF AbortPoints, At, Goto, MainPoints, InitPoints, StartPoints, LoopPoints, StopPoints, EndPoints,
            lockVars, loopVars, srvVars, threadVars, LifeInv, DataInv
<1>2. CASE ST_new_config
  <2>1. CASE load_failed("main")
    BY <1>1, <1>2, <2>1, SMTT(30) DEF ST_new_config, load_failed, FreeBeforeAbort, IInv, TypeOK,
       Objects
  <2> QED BY <1>1, <1>2, <2>1, SMTT(30) DEF ST_new_config, IInv, TypeOK, Objects
<1>3. CASE ST_init_mtab_checker
  BY <1>1, <1>3, SMTT(30) DEF ST_init_mtab_checker, IInv, TypeOK, Objects
<1>4. CASE ST_init_srv BY <1>1, <1>4, SMTT(30) DEF ST_init_srv, IInv, TypeOK, Objects
<1>5. CASE set_data BY <1>1, <1>5, SMTT(30) DEF set_data, IInv, TypeOK, Objects
<1>6. CASE ST_init_check_loop BY <1>1, <1>6, SMTT(30) DEF ST_init_check_loop, IInv, TypeOK, Objects
<1>7. CASE destroy_srv BY <1>1, <1>7, SMTT(30) DEF destroy_srv, IInv, TypeOK, Objects
<1>8. CASE free_srv BY <1>1, <1>8, SMTT(30) DEF free_srv, IInv, TypeOK, Objects
<1>9. CASE ST_destroy_mtab_checker
  BY <1>1, <1>9, SMTT(30) DEF ST_destroy_mtab_checker, Freed, IInv, TypeOK, Objects
<1>10. CASE ST_destroy_config BY <1>1, <1>10, SMTT(30) DEF ST_destroy_config, IInv, TypeOK, Objects
<1>11. CASE exit \/ config_abort("main")
  BY <1>11, AbortInv DEF exit, config_abort, At, Outcomes
<1> QED BY <1>2, <1>3, <1>4, <1>5, <1>6, <1>7, <1>8, <1>9, <1>10, <1>11, StartInv, StopInv,
           LoopInv DEF main, ST_destroy_srv, Frames

\* Signals and the environment keep the invariant, if SIGHUP comes in the
\* loop only.
LEMMA EnvironmentInv ==
  ASSUME IInv, HupPoints \subseteq LoopPoints,
         SigHup \/ SigInt \/ (\E t \in Threads : ClientSend(t))
  PROVE  IInv'
<1>0. TypeOK' BY EnvironmentType DEF IInv
<1>1. /\ proc = "run"
      /\ UNCHANGED <<proc, joining, mutex, life, data, stopped, srv_thread, spc>>
      /\ \/ pc'["main"] = pc["main"]
         \/ pc["main"] = "poll" /\ pc'["main"] = "while"
      /\ \/ pc'["hup"] = pc["hup"]
         \/ pc["hup"] = "idle" /\ pc'["hup"] = "reload_lock" /\ pc["main"] \in LoopPoints
  <2> USE DEF controlVars, lockVars, loopVars, srvVars, threadVars
  <2>1. CASE SigHup BY <2>1 DEF SigHup, Interrupted
  <2>2. CASE SigInt
    BY <2>2 DEF SigInt, ST_break_check_loop, Interrupted, Goto, IInv, TypeOK, Frames
  <2>4. CASE \E t \in Threads : ClientSend(t) BY <2>4 DEF ClientSend
  <2> QED BY <2>1, <2>2, <2>4
<1> USE <1>1 DEF IInv, Frames
<1>2. HandlerInv' BY DEF HandlerInv, LoopPoints
<1>3. LifeInv' BY DEF LifeInv, LoopPoints
<1>4. DataInv' BY DEF DataInv
<1>5. SrvMutexInv' BY DEF SrvMutexInv, MainHoldsSrv
<1>6. ThreadInv' BY DEF ThreadInv, Halfway, StopPoints, LoopPoints
<1>7. JoinInv' BY DEF JoinInv
<1> QED BY <1>0, <1>2, <1>3, <1>4, <1>5, <1>6, <1>7, RunIsSafe

\* Every step keeps the invariant.
LEMMA StepInv ==
  ASSUME IInv, HupPoints \subseteq LoopPoints, [Next]_vars
  PROVE  IInv'
<1>1. CASE UNCHANGED vars
  BY <1>1 DEF vars, IInv, TypeOK, HandlerInv, LifeInv, DataInv, SrvMutexInv, ThreadInv,
     JoinInv, MemorySafe, LocksFreedConfig, MainHoldsSrv, Halfway
<1>2. CASE reload
  BY <1>2, ReloadConfigInv, StartInv, StopInv DEF reload, Frames
<1> QED BY <1>1, <1>2, MainInv, EnvironmentInv, ServeInv DEF Next, Halted

\* The invariant holds at the start.
LEMMA InitInv == Init => IInv
<1> SUFFICES ASSUME Init PROVE IInv
  OBVIOUS
<1>1. TypeOK BY InitType
<1>2. HandlerInv /\ LifeInv /\ DataInv /\ MemorySafe
  BY DEF Init, HandlerInv, LifeInv, DataInv, MemorySafe
<1>3. SrvMutexInv
  BY ThreadFacts DEF Init, SrvMutexInv, MainHoldsSrv, Mutexes, Objects
<1>4. ThreadInv
  BY DEF Init, ThreadInv, Halfway, Existing, LivePoints, Frames, StopPoints
<1>5. JoinInv
  BY DEF Init, JoinInv, Frames
<1> QED BY <1>1, <1>2, <1>3, <1>4, <1>5 DEF IInv

\* When SIGHUP arrives in the loop only, the daemon never uses an object
\* that does not exist, reads a freed document or joins a thread twice, with
\* the one exception MemorySafe names: a reload of an unusable file frees the
\* configuration before it ends the process, and a server thread that has not
\* read its port yet may lock the mutex in between.  The mutex of the buffer
\* keeps ST_check_mtab from freeing the text that the server copies, and a
\* reload replaces the server thread only after it has joined it.
THEOREM MemorySafety ==
  ASSUME HupPoints \subseteq LoopPoints
  PROVE  Spec => []MemorySafe
<1>1. IInv => MemorySafe BY DEF IInv
<1>2. IInv /\ [Next]_vars => IInv' BY StepInv
<1> QED BY <1>1, <1>2, InitInv, PTL DEF Spec
=============================================================================
