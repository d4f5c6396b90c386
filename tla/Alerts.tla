------------------------------- MODULE Alerts -------------------------------
(***************************************************************************)
(* mtab_check_loop.c: what the daemon tells.  Each round of the loop logs  *)
(* the list of the previous round and then makes and publishes a new one,  *)
(* unless the server thread is just copying the document.                  *)
(*                                                                         *)
(* Module Stored has the control of the same code (locks, signals,         *)
(* threads) and no data; here it is the other way round, and the life of   *)
(* the document between a scan and a client is followed.                   *)
(***************************************************************************)
EXTENDS MtabScan

CONSTANTS Server,   \* the server thread
          Literal   \* the document before the first scan, "{}"

ASSUME ServerAssumption == Server \notin {Main, Unlocked} /\ Literal \notin Seq(Entry)

VARIABLES
  pc,       \* where main is in ST_check_loop
  limits,   \* its copies of the thresholds
  srv,      \* owner of srv_buff->mutex
  data,     \* the document
  logged    \* history: messages of this round's json_foreach, each with the
            \* number of the entry it is about

loopVars == <<pc, limits, srv, data, logged>>
vars == <<mtabVars, loopVars>>

Points == {"while", "poll", "log", "trylock", "check_mtab"}
Levels == {"NOTICE", "WARN", "CRIT"}
Message == [entry : Nat, mount_point : Mounts, free_space : Int, level : Levels]
Documents == Seq(Entry) \cup {Literal}

Init ==
  /\ MtabInit
  /\ pc = "while"
  /\ limits = [notice |-> 0, warn |-> 0, crit |-> 0]
  /\ srv = Unlocked
  /\ data = Literal
  /\ logged = {}

(***************************************************************************)
(* ST_check_loop.                                                          *)
(***************************************************************************)

\* The interval and the thresholds are copied under the mutex of the
\* configuration.
copy_config ==
  /\ pc = "while"
  /\ limits' = config
  /\ pc' = "poll"
  /\ UNCHANGED <<mtabVars, srv, data, logged>>

\* poll returns: timeout or hotplug event.
poll ==
  /\ pc = "poll"
  /\ pc' = "log"
  /\ UNCHANGED <<mtabVars, limits, srv, data, logged>>

\* Mutant: the last branch is missing, and the message keeps type 0.
level_plain(free) == IF limits.crit >= free THEN "CRIT"
                     ELSE IF limits.warn >= free THEN "WARN" ELSE "PLAIN"

level(free) == IF limits.crit >= free THEN "CRIT"
               ELSE IF limits.warn >= free THEN "WARN" ELSE "NOTICE"

\* Mutant: warnings are reported before critical levels are tried.
log_warn_first ==
  /\ pc = "log"
  /\ mutex = Unlocked
  /\ LET loud == {i \in DOMAIN json_entries : limits.notice >= json_entries[i].free_space}
     IN logged' = {[entry |-> i,
                    mount_point |-> json_entries[i].mount_point,
                    free_space |-> json_entries[i].free_space,
                    level |-> IF limits.warn >= json_entries[i].free_space THEN "WARN"
                              ELSE "NOTICE"] : i \in loud}
  /\ pc' = "trylock"
  /\ UNCHANGED <<mtabVars, limits, srv, data>>

\* json_foreach over the list, under me->mutex.
log ==
  /\ pc = "log"
  /\ mutex = Unlocked
  /\ LET loud == {i \in DOMAIN json_entries : limits.notice >= json_entries[i].free_space}
     IN logged' = {[entry |-> i,
                    mount_point |-> json_entries[i].mount_point,
                    free_space |-> json_entries[i].free_space,
                    level |-> level(json_entries[i].free_space)] : i \in loud}
  /\ pc' = "trylock"
  /\ UNCHANGED <<mtabVars, limits, srv, data>>

\* Mutant: the result of pthread_mutex_trylock is ignored.
trylock_unchecked ==
  /\ pc = "trylock"
  /\ logged' = {}
  /\ srv' = IF srv = Unlocked THEN Main ELSE srv
  /\ pc' = "check_mtab"
  /\ call' = "rewind"
  /\ UNCHANGED <<notice_level, mtab, pos, mutex, json_entries, textural, config, disk,
                 historyVars, limits, data>>

\* pthread_mutex_trylock(&srv_buff->mutex): ST_check_mtab is called, or the
\* round ends.
trylock ==
  /\ pc = "trylock"
  /\ logged' = {}
  /\ \/ /\ srv = Unlocked
        /\ srv' = Main
        /\ pc' = "check_mtab"
        /\ call' = "rewind"
     \/ /\ srv # Unlocked
        /\ pc' = "while"
        /\ UNCHANGED <<srv, call>>
  /\ UNCHANGED <<notice_level, mtab, pos, mutex, json_entries, textural, config, disk,
                 historyVars, limits, data>>

check_mtab == ST_check_mtab /\ UNCHANGED loopVars

\* Mutant: the buffer stays locked, and every later round is skipped.
publish_locked ==
  /\ call = "returned"
  /\ data' = textural
  /\ pc' = "while"
  /\ call' = "idle"
  /\ UNCHANGED <<notice_level, mtab, pos, mutex, json_entries, textural, config, disk,
                 historyVars, limits, srv, logged>>

\* srv_buff->data = mtab_entries->textural; ST_unlock(&srv_buff->mutex)
publish ==
  /\ call = "returned"
  /\ data' = textural
  /\ srv' = Unlocked
  /\ pc' = "while"
  /\ call' = "idle"
  /\ UNCHANGED <<notice_level, mtab, pos, mutex, json_entries, textural, config, disk,
                 historyVars, limits, logged>>

ST_check_loop == copy_config \/ poll \/ log \/ trylock \/ check_mtab \/ publish

(***************************************************************************)
(* The server thread, clients and signals.                                 *)
(***************************************************************************)

\* ST_lock(&srv_buffer->mutex), when a request has been read.
copy_lock ==
  /\ srv = Unlocked
  /\ srv' = Server
  /\ UNCHANGED <<mtabVars, pc, limits, data, logged>>

\* content_buffer = strdup(srv_buffer->data); ST_unlock(&srv_buffer->mutex)
copy ==
  /\ srv = Server
  /\ srv' = Unlocked
  /\ UNCHANGED <<mtabVars, pc, limits, data, logged>>

\* SIGHUP: ST_reload_config; poll, if main is in it, returns EINTR and the
\* loop starts over.
reload(c) ==
  /\ config' = c
  /\ pc' \in IF pc = "poll" THEN {"poll", "while"} ELSE {pc}
  /\ UNCHANGED <<scanVars, disk, historyVars, limits, srv, data, logged>>

fill == /\ \E m \in Mounts, r \in Readings : Fill(m, r)
        /\ UNCHANGED loopVars

Next == \/ ST_check_loop
        \/ copy_lock \/ copy
        \/ \E c \in Thresholds : reload(c)
        \/ fill

Spec == Init /\ [][Next]_vars

\* Both threads run when they can.
Fairness == WF_vars(ST_check_loop) /\ WF_vars(copy)

FairSpec == Spec /\ Fairness

(***************************************************************************)
(* Properties.                                                             *)
(***************************************************************************)

\* The values the variables take.
TypeOK ==
  /\ call \in Calls
  /\ config \in Thresholds
  /\ notice_level \in Int
  /\ mtab \in Tables \cup {<<>>}
  /\ pos \in 0..Len(mtab)
  /\ mutex \in {Main, Unlocked}
  /\ json_entries \in Seq(Entry)
  /\ textural \in Seq(Entry)
  /\ disk \in [Mounts -> Readings]
  /\ low \subseteq Mounts /\ high \subseteq Mounts
  /\ seen \in [Mounts -> SUBSET Int]
  /\ pc \in Points
  /\ limits \in Threshold
  /\ srv \in {Unlocked, Main, Server}
  /\ data \in Documents
  /\ logged \subseteq Message

\* Whatever the rounds, the requests and the reloads, what the server copies
\* is the literal until the first scan is over and the list of the last scan
\* from then on, never a list in the making or an older one.
AnswerIsCurrent ==
  srv = Server => data = IF pos = 0 THEN Literal ELSE json_entries

\* A message names a mount point that was short of space at some time of the
\* last scan, with a percentage of that time, and a mount point has no more
\* messages than entries in the table that was scanned.
AlertsGrounded ==
  pc = "trylock" =>
    /\ \A a \in logged : /\ a.mount_point \notin high
                          /\ a.free_space \in seen[a.mount_point]
    /\ \E at \in [logged -> DOMAIN mtab] :
         /\ \A a \in logged : a.mount_point = mtab[at[a]]
         /\ \A a, b \in logged : at[a] = at[b] => a = b

\* A mount point that was short of space all through the last scan is
\* reported, and as critical if it was that.  The thresholds that count are
\* those of the scan and those of the round that logs: a reload may come
\* between the two.
AlertsComplete ==
  pc = "trylock" =>
    \A m \in low :
      (\A p \in seen[m] : limits.notice >= p) =>
        \E a \in logged : /\ a.mount_point = m
                         /\ (\A p \in seen[m] : limits.crit >= p) => a.level = "CRIT"

\* No more requests and no more reloads.
Quiet == <>[][~copy_lock /\ \A c \in Thresholds : ~reload(c)]_vars

\* A mount point that stays in the table and short of space is reported again
\* and again, once requests and reloads pause.
LowMountLogged ==
  \A m \in Mounts :
    (Quiet /\ <>[](m \in Listed(mtab) /\ CertainlyLow(disk[m], config.notice)))
      => []<>(\E a \in logged : a.mount_point = m)
=============================================================================
