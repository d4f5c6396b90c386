---------------------------- MODULE StoredState ----------------------------
(***************************************************************************)
(* State shared by the components of the stored daemon, and the primitives *)
(* they use on it: the mutexes of util/common.c, ST_abort, the frames of   *)
(* the main thread.                                                        *)
(*                                                                         *)
(* The process has a main thread and, while the HTTP server is enabled, a  *)
(* server thread.  SIGHUP is handled on the main thread: its handler is a  *)
(* second stack frame that runs to its end before the frame it interrupted *)
(* takes another step.                                                     *)
(***************************************************************************)
EXTENDS Integers, Sequences

CONSTANTS
  Threads,      \* slots for server threads and the listening socket of each
  NoThread,     \* "no thread yet", the value of a handle never assigned
  Files,        \* what the configuration file may contain
  Arrivals,     \* the clients that may connect
  HupPoints,    \* where in main SIGHUP may be delivered
  IntPoints,    \* where in main SIGINT may be delivered
  ServePoints,  \* where the server thread may be when a signal is delivered
  Overlap       \* whether a signal may come while another has its effect

(***************************************************************************)
(* Program points, one per step of the code that another thread or a       *)
(* signal handler can observe.                                             *)
(***************************************************************************)
StartPoints == {"start_lock", "start_read", "addr_lock", "addr_read",
                "addr_abort", "create"}
StopPoints == {"stop_test", "stop_child", "stop_parent", "stop_unlock",
               "stop_join", "stop_wait", "stop_set"}
InitPoints == {"new_config", "init_checker", "init_srv", "set_data", "init_loop"}
LoopPoints == {"while", "cfg_lock", "cfg_read", "poll", "log_lock", "log",
               "trylock", "chk_cfg_lock", "chk_cfg_read", "chk_lock",
               "chk_body", "publish", "recv"}
EndPoints == {"destroy_srv", "free_srv", "destroy_checker", "destroy_config",
              "exit"}
AbortPoints == {"config_abort", "addr_abort"}
MainPoints == InitPoints \cup StartPoints \cup LoopPoints \cup StopPoints
              \cup EndPoints \cup AbortPoints
HandlerPoints == {"idle", "reload_lock", "reload_load"} \cup StopPoints
                 \cup StartPoints \cup AbortPoints
ServerPoints == {"none", "port_lock", "port_read", "socket", "bind", "listen",
                 "quit", "accept", "reqline", "hdr", "copy_lock", "copy",
                 "respond", "done", "joined"}

\* Points at which the server thread exists and has not returned from serve().
LivePoints == ServerPoints \ {"none", "done", "joined"}

\* A line of a request: a request line with the GET method, the empty line
\* that ends the headers, or anything else (a header, another method).
Lines == {"GET", "BLANK", "TEXT"}

Client == [rx : Seq(Lines), tx : Seq(Lines), closes : BOOLEAN]

ConfigFile == [ok : BOOLEAN, http_enabled : BOOLEAN, http_port : Int,
               http_bind_address : {"valid", "invalid"}]

ASSUME ThreadsAssumption == Threads \cap {NoThread, "free", "main"} = {}

ASSUME FilesAssumption == Files # {} /\ Files \subseteq ConfigFile

ASSUME ArrivalsAssumption == Arrivals \subseteq Client

\* SIGHUP inside the ST_start_srv call of main, which would run two server
\* threads over the same static variables, is left out of the model, and so
\* is one that finds the process ending.
ASSUME PointsAssumption ==
  /\ HupPoints \subseteq MainPoints
                         \ ({"addr_lock", "addr_read", "create", "exit"}
                            \cup AbortPoints)
  /\ IntPoints \subseteq MainPoints
  /\ ServePoints \subseteq LivePoints
  /\ Overlap \in BOOLEAN

VARIABLES
  proc,        \* "run", or how the process ended
  pc,          \* program point of each frame of the main thread
  ret,         \* where main goes when its ST_stop_srv returns
  joining,     \* the thread each frame waits for in pthread_join
  mutex,       \* owner of each mutex
  life,        \* the heap objects behind core_config, entries and srv_buff
  config,      \* fields of the ST_CONFIG object
  data,        \* what srv_buff->data points to
  active,      \* static active of mtab_check_loop.c
  terminating, \* history: the SIGINT handler has announced the termination
  stopped, srv_thread, parentfd, childfd,    \* statics of srv.c
  spc,         \* program point of each server thread
  port,        \* its local portno
  sock,        \* state of its listening socket
  conn,        \* its client connection
  buf, method  \* its stack buffers

controlVars == <<pc, ret, joining>>
lockVars == <<mutex, life>>
loopVars == <<data, active, terminating>>
srvVars == <<stopped, srv_thread, parentfd, childfd>>
threadVars == <<spc, port, sock, conn, buf, method>>
vars == <<proc, pc, ret, joining, mutex, life, config, data, active,
          terminating, stopped, srv_thread, parentfd, childfd, spc, port,
          sock, conn, buf, method>>

Frames == {"main", "hup"}
Objects == {"config", "entries", "srv"}
Mutexes == Objects \cup {"mxq"}
Outcomes == {"run", "exited", "abort_config", "abort_addr", "abort_npe",
             "abort_bind", "abort_data", "undefined"}
SocketStates == {"none", "open", "bound", "listen", "shut"}
Closed == [open |-> FALSE, rx |-> <<>>, tx |-> <<>>, eof |-> FALSE,
           closes |-> FALSE]
Connection == [open : BOOLEAN, rx : Seq(Lines), tx : Seq(Lines),
               eof : BOOLEAN, closes : BOOLEAN]
Settings == [http_enabled : BOOLEAN, http_port : Int,
             http_bind_address : {"valid", "invalid"}]

(***************************************************************************)
(* Control.                                                                *)
(***************************************************************************)

\* Frame f is at point l and may run: main waits for the handler above it.
At(f, l) == /\ proc = "run"
            /\ pc[f] = l
            /\ f = "main" => pc["hup"] = "idle"

Goto(f, l) == pc' = [pc EXCEPT ![f] = l]

ServerAt(t, l) == proc = "run" /\ spc[t] = l

ServerGoto(t, l) == spc' = [spc EXCEPT ![t] = l]

\* The process ends in ST_abort, by exit, or in undefined behaviour.
ST_abort(outcome) ==
  /\ proc' = outcome
  /\ UNCHANGED <<controlVars, lockVars, config, loopVars, srvVars, threadVars>>

\* An error path of frame f destroys the mutex of object o, locked or not,
\* and frees the object.  The ST_abort that follows is a step of its own, at
\* point l: until error() has ended the process the other thread runs on.
FreeBeforeAbort(f, o, l) ==
  /\ life' = [life EXCEPT ![o] = "freed"]
  /\ Goto(f, l)
  /\ UNCHANGED <<proc, ret, joining, config, loopVars, srvVars, threadVars>>

(***************************************************************************)
(* Mutexes.  Both frames of the main thread lock as "main"; the mutexes    *)
(* are not recursive.  A mutex lives in its heap object, except mxq, which *)
(* is static.                                                              *)
(***************************************************************************)
Usable(m) == m \in Objects => life[m] = "live"

ST_lock(m, owner) == /\ mutex[m] = "free"
                     /\ mutex' = [mutex EXCEPT ![m] = owner]

ST_unlock(m) == mutex' = [mutex EXCEPT ![m] = "free"]

\* Frame f takes mutex m and goes on at point l.
LockStep(f, m, l) ==
  \/ /\ Usable(m)
     /\ ST_lock(m, "main")
     /\ Goto(f, l)
     /\ UNCHANGED <<proc, ret, joining, life, config, loopVars, srvVars, threadVars>>
  \/ ~Usable(m) /\ ST_abort("undefined")
=============================================================================
