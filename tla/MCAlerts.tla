------------------------------ MODULE MCAlerts ------------------------------
(***************************************************************************)
(* Small mount tables, readings and thresholds for TLC.                    *)
(***************************************************************************)
EXTENDS Alerts

CONSTANTS root, home

\* Two mount points, and one that is mounted over itself.
MCTables == {<<root, home>>, <<home, home>>}

Statvfs(blocks, bfree, bavail) ==
  [ok |-> TRUE, f_blocks |-> blocks, f_bfree |-> bfree, f_bavail |-> bavail]

StatvfsError == [ok |-> FALSE, f_blocks |-> 0, f_bfree |-> 0, f_bavail |-> 0]

\* A file system whose 15 percent (9 of 60 blocks) may be computed as 14, one
\* with root's reserve only, and an error.
MCReadings == {Statvfs(60, 9, 9), Statvfs(5, 5, 0), StatvfsError}

Levels3(n, w, c) == [notice |-> n, warn |-> w, crit |-> c]

\* Levels in their usual order, the warning level between the two results of
\* the arithmetic, and levels in the wrong order, the notice level there.
MCThresholds == {Levels3(70, 14, 5), Levels3(14, 10, 20)}

\* Only a scan looks at the file systems, and the thresholds are read at the
\* start of a round and of a scan: changes at other times make no difference
\* until then, so they are made then, except that SIGHUP can end poll.
fill_in_time == call \in {"lock", "scan"} /\ fill

reload_in_time == /\ pc \in {"while", "poll"} \/ call = "rewind"
                  /\ \E c \in Thresholds : reload(c)

MCNext == ST_check_loop \/ copy_lock \/ copy \/ reload_in_time \/ fill_in_time

MCSpec == Init /\ [][MCNext]_vars /\ Fairness
=============================================================================
