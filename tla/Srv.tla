-------------------------------- MODULE Srv --------------------------------
(***************************************************************************)
(* util/srv.c: the HTTP server.  serve() runs on the server thread;        *)
(* ST_start_srv and ST_stop_srv run on the main thread, called by main or  *)
(* by the SIGHUP handler (frame f).                                        *)
(***************************************************************************)
EXTENDS StoredState

(***************************************************************************)
(* The kernel, as this code uses it (external).  A listening socket keeps  *)
(* its port until the process ends: nothing closes parentfd.  SO_REUSEADDR *)
(* lets bind and listen succeed unless another socket listens on the port. *)
(* shutdown takes a socket out of the listening state and does nothing to  *)
(* one that does not listen yet.                                           *)
(***************************************************************************)

\* htons((unsigned short) portno)
SockPort(p) == p % 65536

PortTaken(t) == \E u \in Threads \ {t} :
                  sock[u] = "listen" /\ SockPort(port[u]) = SockPort(port[t])

\* Nothing more will arrive on the connection.
AtEof(c) == c.rx = <<>> /\ (c.eof \/ (c.tx = <<>> /\ c.closes))

\* Slots that a new thread may take: no thread and no socket uses them.
FreeSlots == {t \in Threads : spc[t] = "none"}

(***************************************************************************)
(* serve().                                                                *)
(***************************************************************************)

\* ST_lock(&config->mutex)
port_lock(t) ==
  /\ ServerAt(t, "port_lock")
  /\ \/ /\ Usable("config")
        /\ ST_lock("config", t)
        /\ ServerGoto(t, "port_read")
        /\ UNCHANGED <<proc, controlVars, life, config, loopVars, srvVars,
                       port, sock, conn, buf, method>>
     \/ ~Usable("config") /\ ST_abort("undefined")

\* portno = config->http_port; ST_unlock(&config->mutex)
port_read(t) ==
  /\ ServerAt(t, "port_read")
  /\ port' = [port EXCEPT ![t] = config.http_port]
  /\ ST_unlock("config")
  /\ ServerGoto(t, "socket")
  /\ UNCHANGED <<proc, controlVars, life, config, loopVars, srvVars,
                 sock, conn, buf, method>>

\* parentfd = socket(...); setsockopt(SO_REUSEADDR)
socket(t) ==
  /\ ServerAt(t, "socket")
  /\ sock' = [sock EXCEPT ![t] = "open"]
  /\ parentfd' = t
  /\ ServerGoto(t, "bind")
  /\ UNCHANGED <<proc, controlVars, lockVars, config, loopVars, stopped,
                 srv_thread, childfd, port, conn, buf, method>>

\* bind(parentfd, ...), then listen(parentfd, 5): both end the process when
\* the port is taken.
bind_or_listen(t, here, next, state) ==
  /\ ServerAt(t, here)
  /\ \/ /\ ~PortTaken(t)
        /\ sock' = [sock EXCEPT ![parentfd] = state]
        /\ ServerGoto(t, next)
        /\ UNCHANGED <<proc, controlVars, lockVars, config, loopVars,
                       srvVars, port, conn, buf, method>>
     \/ PortTaken(t) /\ ST_abort("abort_bind")

bind(t) == bind_or_listen(t, "bind", "listen", "bound")

listen(t) == bind_or_listen(t, "listen", "quit", "listen")

\* while (!quit(&mxq)): the server goes on as long as mxq is locked.
quit(t) ==
  /\ ServerAt(t, "quit")
  /\ ServerGoto(t, IF mutex["mxq"] = "free" THEN "done" ELSE "accept")
  /\ UNCHANGED <<proc, controlVars, lockVars, config, loopVars, srvVars,
                 port, sock, conn, buf, method>>

\* childfd = accept(parentfd, ...): a client connects ...
accept_client(t) ==
  /\ ServerAt(t, "accept")
  /\ sock[parentfd] = "listen"
  /\ \E a \in Arrivals :
       conn' = [conn EXCEPT ![t] = [open |-> TRUE, rx |-> a.rx, tx |-> a.tx,
                                    eof |-> FALSE, closes |-> a.closes]]
  /\ childfd' = t
  /\ ServerGoto(t, "reqline")
  /\ UNCHANGED <<proc, controlVars, lockVars, config, loopVars, stopped,
                 srv_thread, parentfd, port, sock, buf, method>>

\* if (childfd < 0) break
accept_break(t) ==
  /\ childfd' = NoThread
  /\ ServerGoto(t, "done")
  /\ UNCHANGED <<proc, controlVars, lockVars, config, loopVars, stopped,
                 srv_thread, parentfd, port, sock, conn, buf, method>>

\* ... or the call fails because the socket was shut down ...
accept_fail(t) ==
  ServerAt(t, "accept") /\ sock[parentfd] # "listen" /\ accept_break(t)

\* ... or although it listens: the client is gone again, or the process has
\* no file descriptor left.
accept_error(t) ==
  ServerAt(t, "accept") /\ sock[parentfd] = "listen" /\ accept_break(t)

\* fgets(buf, BUFSIZE, stream): takes a line, or leaves buf as it was at the
\* end of the stream.  A buffer never written holds any line.
fgets(t) ==
  \/ /\ conn[t].rx # <<>>
     /\ buf' = [buf EXCEPT ![t] = Head(conn[t].rx)]
     /\ conn' = [conn EXCEPT ![t].rx = Tail(conn[t].rx)]
  \/ /\ AtEof(conn[t])
     /\ buf' \in {[buf EXCEPT ![t] = l] :
                    l \in IF buf[t] = "JUNK" THEN Lines ELSE {buf[t]}}
     /\ UNCHANGED conn

\* What sscanf(buf, "%s %s %s\n", method, ...) may leave in method: an empty
\* line assigns nothing.
sscanf(line, old) ==
  IF line = "BLANK" THEN IF old = "JUNK" THEN {"GET", "TEXT"} ELSE {old}
                    ELSE {line}

\* Mutant: the 501 answer forgets fclose and close.
reqline_leaking(t) ==
  /\ ServerAt(t, "reqline")
  /\ fgets(t)
  /\ \E m \in sscanf(buf'[t], method[t]) :
       /\ method' = [method EXCEPT ![t] = m]
       /\ ServerGoto(t, IF m = "GET" THEN "hdr" ELSE "quit")
  /\ UNCHANGED <<proc, controlVars, lockVars, config, loopVars, srvVars,
                 port, sock>>

\* The request line, and for another method than GET the 501 answer with its
\* fclose and close.
reqline(t) ==
  /\ ServerAt(t, "reqline")
  /\ fgets(t)
  /\ \E m \in sscanf(buf'[t], method[t]) :
       /\ method' = [method EXCEPT ![t] = m]
       /\ ServerGoto(t, IF m = "GET" THEN "hdr" ELSE "respond")
  /\ UNCHANGED <<proc, controlVars, lockVars, config, loopVars, srvVars,
                 port, sock>>

\* Mutant: the headers are compared with a line end that never comes.
hdr_endless(t) ==
  /\ ServerAt(t, "hdr")
  /\ fgets(t)
  /\ ServerGoto(t, "hdr")
  /\ UNCHANGED <<proc, controlVars, lockVars, config, loopVars, srvVars,
                 port, sock, method>>

\* fgets(buf, ...); while (strcmp(buf, "\r\n")) fgets(buf, ...)
hdr(t) ==
  /\ ServerAt(t, "hdr")
  /\ fgets(t)
  /\ ServerGoto(t, IF buf'[t] = "BLANK" THEN "copy_lock" ELSE "hdr")
  /\ UNCHANGED <<proc, controlVars, lockVars, config, loopVars, srvVars,
                 port, sock, method>>

\* ST_lock(&srv_buffer->mutex)
copy_lock(t) ==
  /\ ServerAt(t, "copy_lock")
  /\ \/ /\ Usable("srv")
        /\ ST_lock("srv", t)
        /\ ServerGoto(t, "copy")
        /\ UNCHANGED <<proc, controlVars, life, config, loopVars, srvVars,
                       port, sock, conn, buf, method>>
     \/ ~Usable("srv") /\ ST_abort("undefined")

\* content_buffer = strdup(srv_buffer->data); ST_unlock(&srv_buffer->mutex)
copy(t) ==
  /\ ServerAt(t, "copy")
  /\ \/ /\ data \in {"literal", "live"}
        /\ ST_unlock("srv")
        /\ ServerGoto(t, "respond")
        /\ UNCHANGED <<proc, controlVars, life, config, loopVars, srvVars,
                       port, sock, conn, buf, method>>
     \/ data \in {"uninit", "dangling"} /\ ST_abort("undefined")
     \/ data = "uninit" /\ ST_abort("abort_data")

\* The answer, fclose(stream) and close(childfd).
respond(t) ==
  /\ ServerAt(t, "respond")
  /\ conn' = [conn EXCEPT ![t] = Closed]
  /\ ServerGoto(t, "quit")
  /\ UNCHANGED <<proc, controlVars, lockVars, config, loopVars, srvVars,
                 port, sock, buf, method>>

\* Everything the thread does by itself, once a client is there.
serve_step(t) == \/ port_lock(t) \/ port_read(t) \/ socket(t) \/ bind(t)
                 \/ listen(t) \/ quit(t) \/ accept_fail(t) \/ reqline(t)
                 \/ hdr(t) \/ copy_lock(t) \/ copy(t) \/ respond(t)

serve(t) == serve_step(t) \/ accept_client(t) \/ accept_error(t)

(***************************************************************************)
(* ST_init_srv: allocates the buffer and leaves its data unassigned.       *)
(***************************************************************************)
ST_init_srv ==
  /\ At("main", "init_srv")
  /\ life' = [life EXCEPT !["srv"] = "live"]
  /\ Goto("main", "set_data")
  /\ UNCHANGED <<proc, ret, joining, mutex, config, loopVars, srvVars, threadVars>>

(***************************************************************************)
(* ST_start_srv.                                                           *)
(***************************************************************************)
StartReturn(f) == IF f = "main" THEN "init_loop" ELSE "idle"

\* if (!b) ST_abort; ST_lock(&config->mutex)
start_lock(f) ==
  /\ At(f, "start_lock")
  /\ \/ life["srv"] # "unset" /\ LockStep(f, "config", "start_read")
     \/ life["srv"] = "unset" /\ ST_abort("abort_npe")

\* enabled = config->http_enabled; ST_unlock; if (stopped && enabled) with
\* pthread_mutex_init(&mxq), which finds the mutex free: the first start, or
\* a stop that has unlocked it.
start_read(f) ==
  /\ At(f, "start_read")
  /\ ST_unlock("config")
  /\ Goto(f, IF stopped /\ config.http_enabled THEN "addr_lock" ELSE StartReturn(f))
  /\ UNCHANGED <<proc, ret, joining, life, config, loopVars, srvVars, threadVars>>

addr_lock(f) == At(f, "addr_lock") /\ LockStep(f, "config", "addr_read")

\* address = inet_addr(config->http_bind_address); ST_unlock; the check that
\* the address is one, which frees the buffer if it is none ...
addr_read(f) ==
  /\ At(f, "addr_read")
  /\ ST_unlock("config")
  /\ \/ /\ config.http_bind_address = "valid"
        /\ Goto(f, "create")
        /\ UNCHANGED <<proc, ret, joining, life, config, loopVars, srvVars, threadVars>>
     \/ /\ config.http_bind_address = "invalid"
        /\ FreeBeforeAbort(f, "srv", "addr_abort")

\* ... and ends the process.
addr_abort(f) == At(f, "addr_abort") /\ ST_abort("abort_addr")

\* ST_lock(&mxq); pthread_create(&srv_thread, ...); stopped = false
create(f) ==
  /\ At(f, "create")
  /\ ST_lock("mxq", "main")
  /\ \E t \in FreeSlots :
       /\ srv_thread' = t
       /\ ServerGoto(t, "port_lock")
  /\ stopped' = FALSE
  /\ Goto(f, StartReturn(f))
  /\ UNCHANGED <<proc, ret, joining, life, config, loopVars, parentfd, childfd,
                 port, sock, conn, buf, method>>

ST_start_srv(f) == \/ start_lock(f) \/ start_read(f) \/ addr_lock(f)
                   \/ addr_read(f) \/ addr_abort(f) \/ create(f)

(***************************************************************************)
(* ST_stop_srv.                                                            *)
(***************************************************************************)
StopReturn(f) == IF f = "main" THEN ret ELSE "start_lock"

\* if (!stopped)
stop_test(f) ==
  /\ At(f, "stop_test")
  /\ Goto(f, IF stopped THEN StopReturn(f) ELSE "stop_child")
  /\ UNCHANGED <<proc, ret, joining, lockVars, config, loopVars, srvVars, threadVars>>

\* shutdown(childfd, SHUT_RDWR): lines already received stay readable.
stop_child(f) ==
  /\ At(f, "stop_child")
  /\ conn' = IF childfd \in Threads /\ conn[childfd].open
             THEN [conn EXCEPT ![childfd].tx = <<>>, ![childfd].eof = TRUE]
             ELSE conn
  /\ Goto(f, "stop_parent")
  /\ UNCHANGED <<proc, ret, joining, lockVars, config, loopVars, srvVars,
                 spc, port, sock, buf, method>>

\* Mutant: the listening socket is not shut down.
stop_parent_missing(f) ==
  /\ At(f, "stop_parent")
  /\ Goto(f, "stop_unlock")
  /\ UNCHANGED <<proc, ret, joining, lockVars, config, loopVars, srvVars, threadVars>>

\* shutdown(parentfd, SHUT_RDWR)
stop_parent(f) ==
  /\ At(f, "stop_parent")
  /\ sock' = IF parentfd \in Threads /\ sock[parentfd] = "listen"
             THEN [sock EXCEPT ![parentfd] = "shut"]
             ELSE sock
  /\ Goto(f, "stop_unlock")
  /\ UNCHANGED <<proc, ret, joining, lockVars, config, loopVars, srvVars,
                 spc, port, conn, buf, method>>

\* pthread_mutex_unlock(&mxq)
stop_unlock(f) ==
  /\ At(f, "stop_unlock")
  /\ ST_unlock("mxq")
  /\ Goto(f, "stop_join")
  /\ UNCHANGED <<proc, ret, joining, life, config, loopVars, srvVars, threadVars>>

\* pthread_join(srv_thread, NULL): the call ...
stop_join(f) ==
  /\ At(f, "stop_join")
  /\ \/ /\ spc[srv_thread] \notin {"none", "joined"}
        /\ \A g \in Frames : joining[g] # srv_thread
        /\ joining' = [joining EXCEPT ![f] = srv_thread]
        /\ Goto(f, "stop_wait")
        /\ UNCHANGED <<proc, ret, lockVars, config, loopVars, srvVars, threadVars>>
     \/ /\ \/ spc[srv_thread] \in {"none", "joined"}
           \/ \E g \in Frames : joining[g] = srv_thread
        /\ ST_abort("undefined")

\* ... and its return.  The thread's stack is gone; a socket that still
\* listens keeps its slot.
stop_wait(f) ==
  /\ At(f, "stop_wait")
  /\ LET t == joining[f] IN
       /\ spc[t] = "done"
       /\ IF sock[t] = "listen"
          THEN ServerGoto(t, "joined") /\ UNCHANGED <<sock, port>>
          ELSE /\ ServerGoto(t, "none")
               /\ sock' = [sock EXCEPT ![t] = "none"]
               /\ port' = [port EXCEPT ![t] = 0]
       /\ buf' = [buf EXCEPT ![t] = "JUNK"]
       /\ method' = [method EXCEPT ![t] = "JUNK"]
  /\ joining' = [joining EXCEPT ![f] = NoThread]
  /\ Goto(f, "stop_set")
  /\ UNCHANGED <<proc, ret, lockVars, config, loopVars, srvVars, conn>>

\* Mutant: stopped is not set again.
stop_set_missing(f) ==
  /\ At(f, "stop_set")
  /\ Goto(f, StopReturn(f))
  /\ UNCHANGED <<proc, ret, joining, lockVars, config, loopVars, srvVars, threadVars>>

\* stopped = true
stop_set(f) ==
  /\ At(f, "stop_set")
  /\ stopped' = TRUE
  /\ Goto(f, StopReturn(f))
  /\ UNCHANGED <<proc, ret, joining, lockVars, config, loopVars, srv_thread,
                 parentfd, childfd, threadVars>>

ST_stop_srv(f) == \/ stop_test(f) \/ stop_child(f) \/ stop_parent(f)
                  \/ stop_unlock(f) \/ stop_join(f) \/ stop_wait(f) \/ stop_set(f)

(***************************************************************************)
(* ST_destroy_srv: stops the server once more, then frees the buffer.      *)
(***************************************************************************)
destroy_srv ==
  /\ At("main", "destroy_srv")
  /\ ret' = "free_srv"
  /\ Goto("main", "stop_test")
  /\ UNCHANGED <<proc, joining, lockVars, config, loopVars, srvVars, threadVars>>

free_srv ==
  /\ At("main", "free_srv")
  /\ life' = [life EXCEPT !["srv"] = "freed"]
  /\ Goto("main", "destroy_checker")
  /\ UNCHANGED <<proc, ret, joining, mutex, config, loopVars, srvVars, threadVars>>

ST_destroy_srv == destroy_srv \/ free_srv
=============================================================================
