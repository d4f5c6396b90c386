------------------------------ MODULE MtabScan ------------------------------
(***************************************************************************)
(* mtab_checker.c: what ST_check_mtab puts in the list of mount points     *)
(* short of space.  Its caller is the check loop of the daemon (module     *)
(* Alerts), on the main thread.                                            *)
(*                                                                         *)
(* The mount table is a FILE whose position is pos; the list is under the  *)
(* mutex of ST_MTAB_ENTRIES.  File systems fill up and drain while a scan  *)
(* is under way.  They are mounted and unmounted, too: each scan has the   *)
(* table as it is when the scan begins (bound: one that changes while it   *)
(* is read is left out).                                                   *)
(***************************************************************************)
EXTENDS Integers, Sequences

CONSTANTS Main,        \* the main thread
          Unlocked,    \* owner of a free mutex
          Mounts,      \* mount points
          Tables,      \* what the mount table may list, in its order
          Readings,    \* what statvfs may answer
          Thresholds   \* the percentages a configuration may set

Reading == [ok : BOOLEAN, f_blocks : Nat, f_bfree : Nat, f_bavail : Nat]

Threshold == [notice : Int, warn : Int, crit : Int]

ASSUME OwnersAssumption == Main # Unlocked

\* A mount point may be in the table more than once: file systems can be
\* mounted over each other.
ASSUME TablesAssumption == Tables # {} /\ Tables \subseteq Seq(Mounts)

\* Free blocks are blocks, available ones are free.
ASSUME ReadingsAssumption ==
  /\ Readings # {} /\ Readings \subseteq Reading
  /\ \A r \in Readings : r.f_bavail <= r.f_bfree /\ r.f_bfree <= r.f_blocks

ASSUME ThresholdsAssumption == Thresholds # {} /\ Thresholds \subseteq Threshold

VARIABLES
  call,          \* where main is in ST_check_mtab
  config,        \* the thresholds in the configuration
  notice_level,  \* its local, 0 outside the call
  mtab,          \* the mount table of the last scan
  pos,           \* entries of it already read from mtabf
  mutex,         \* owner of me->mutex
  json_entries,  \* the list, and its text
  textural,
  disk,          \* the file system behind each mount point
  low, high,     \* history: mount points listable, or not, all through the
                 \* last scan
  seen           \* history: percentages a mount point had during that scan

scanVars == <<call, notice_level, mtab, pos, mutex, json_entries, textural>>
historyVars == <<low, high, seen>>
mtabVars == <<scanVars, config, disk, historyVars>>

Calls == {"idle", "rewind", "lock", "scan", "returned"}

Entry == [mount_point : Mounts, free_space : Int]

(***************************************************************************)
(* The percentage.                                                         *)
(***************************************************************************)

\* Least value of int.
IntMin == -2147483647 - 1

\* (int) (100.0 / (total * f_bsize) * (f_bavail * f_bsize)), total being the
\* blocks not reserved for root.  100.0 / total is rounded, so that a
\* quotient that should be an integer may come out just below it; and
\* without such blocks the quotient is not a number, which the conversion
\* to int turns into the least int (x86) or zero.
free_percent(r) ==
  LET total == r.f_blocks - (r.f_bfree - r.f_bavail)
      q == (100 * r.f_bavail) \div total
  IN IF total = 0 THEN {IntMin, 0}
     ELSE IF /\ r.f_bavail > 0 /\ 100 % total # 0
             /\ (100 * r.f_bavail) % total = 0
          THEN {q - 1, q}
          ELSE {q}

\* statvfs answered, and the file system has blocks at all.
Measurable(r) == r.ok /\ 0 < r.f_blocks

Percents(r) == IF Measurable(r) THEN free_percent(r) ELSE {}

\* Under every outcome of the arithmetic a scan lists, or omits, r.
CertainlyLow(r, notice) == Percents(r) # {} /\ \A p \in Percents(r) : notice >= p
CertainlyHigh(r, notice) == \A p \in Percents(r) : notice < p

(***************************************************************************)
(* ST_check_mtab.                                                          *)
(***************************************************************************)
MtabInit ==
  /\ call = "idle"
  /\ config \in Thresholds
  /\ notice_level = 0
  /\ mtab = <<>>
  /\ pos = 0
  /\ mutex = Unlocked
  /\ json_entries = <<>>
  /\ textural = <<>>
  /\ disk \in [Mounts -> Readings]
  /\ low = {}
  /\ high = {}
  /\ seen = [m \in Mounts |-> {}]

\* Mount points of a table.
Listed(table) == {table[i] : i \in DOMAIN table}

\* rewind(mtabf), and notice_level = config->notice_percent under its mutex.
rewind ==
  /\ call = "rewind"
  /\ pos' = 0
  /\ notice_level' = config.notice
  /\ call' = "lock"
  /\ UNCHANGED <<mtab, mutex, json_entries, textural, config, disk, historyVars>>

\* Mutant: the old entries stay in the list.
chk_lock_keeps ==
  /\ call = "lock"
  /\ mutex = Unlocked
  /\ mutex' = Main
  /\ mtab' \in Tables
  /\ low' = {m \in Listed(mtab') : CertainlyLow(disk[m], notice_level)}
  /\ high' = {m \in Mounts : CertainlyHigh(disk[m], notice_level)}
  /\ seen' = [m \in Mounts |-> Percents(disk[m])]
  /\ call' = "scan"
  /\ UNCHANGED <<notice_level, pos, json_entries, textural, config, disk>>

\* ST_lock(&me->mutex); json_delete(me->json_entries); json_mkarray().  The
\* table is read after rewind.
chk_lock ==
  /\ call = "lock"
  /\ mutex = Unlocked
  /\ mutex' = Main
  /\ json_entries' = <<>>
  /\ mtab' \in Tables
  /\ low' = {m \in Listed(mtab') : CertainlyLow(disk[m], notice_level)}
  /\ high' = {m \in Mounts : CertainlyHigh(disk[m], notice_level)}
  /\ seen' = [m \in Mounts |-> Percents(disk[m])]
  /\ call' = "scan"
  /\ UNCHANGED <<notice_level, pos, textural, config, disk>>

\* Mutant: an error of statvfs ends the loop.
getmntent_breaks ==
  /\ call = "scan"
  /\ pos < Len(mtab)
  /\ LET m == mtab[pos + 1]
     IN \/ \E p \in Percents(disk[m]) :
             /\ pos' = pos + 1
             /\ json_entries' = IF notice_level >= p
                             THEN Append(json_entries, [mount_point |-> m, free_space |-> p])
                             ELSE json_entries
        \/ ~Measurable(disk[m]) /\ pos' = Len(mtab) /\ UNCHANGED json_entries
  /\ UNCHANGED <<call, notice_level, mtab, mutex, textural, config, disk, historyVars>>

\* One iteration of the loop: getmntent, statvfs, and the new entry.
getmntent ==
  /\ call = "scan"
  /\ pos < Len(mtab)
  /\ pos' = pos + 1
  /\ LET m == mtab[pos + 1]
     IN \/ \E p \in Percents(disk[m]) :
             json_entries' = IF notice_level >= p
                             THEN Append(json_entries, [mount_point |-> m, free_space |-> p])
                             ELSE json_entries
        \/ ~Measurable(disk[m]) /\ UNCHANGED json_entries
  /\ UNCHANGED <<call, notice_level, mtab, mutex, textural, config, disk, historyVars>>

\* The end of the table: free(me->textural), json_stringify, ST_unlock.
stringify ==
  /\ call = "scan"
  /\ pos = Len(mtab)
  /\ textural' = json_entries
  /\ mutex' = Unlocked
  /\ notice_level' = 0
  /\ call' = "returned"
  /\ UNCHANGED <<mtab, pos, json_entries, config, disk, historyVars>>

ST_check_mtab == rewind \/ chk_lock \/ getmntent \/ stringify

(***************************************************************************)
(* The environment.                                                        *)
(***************************************************************************)
Scanning == call = "scan"

\* Somebody writes or removes files.
Fill(m, r) ==
  /\ r # disk[m]
  /\ disk' = [disk EXCEPT ![m] = r]
  /\ \/ /\ Scanning
        /\ low' = IF CertainlyLow(r, notice_level) THEN low ELSE low \ {m}
        /\ high' = IF CertainlyHigh(r, notice_level) THEN high ELSE high \ {m}
        /\ seen' = [seen EXCEPT ![m] = seen[m] \cup Percents(r)]
     \/ ~Scanning /\ UNCHANGED historyVars
  /\ UNCHANGED <<scanVars, config>>

(***************************************************************************)
(* Properties.                                                             *)
(***************************************************************************)
\* Every entry of the list can be given an entry of the table of its own, that
\* of its mount point, in the same order, so that those of mount points that
\* were short of space all through the scan are not left out.
Matches(list, table) ==
  \E at \in [DOMAIN list -> DOMAIN table] :
    /\ \A i, j \in DOMAIN list : i < j => at[i] < at[j]
    /\ \A i \in DOMAIN list : list[i].mount_point = table[at[i]]
    /\ \A k \in DOMAIN table : table[k] \in low => \E i \in DOMAIN list : at[i] = k

\* A finished list is the result of one scan of the table: it has no mount
\* point more often than the table has it, all in the order of the table,
\* those that were short of space all the time in it, those that were not left
\* out, and each with a percentage it had.
ListIsOneScan ==
  mutex = Unlocked =>
    /\ Matches(json_entries, mtab)
    /\ \A i \in DOMAIN json_entries :
         /\ json_entries[i].mount_point \notin high
         /\ json_entries[i].free_space \in seen[json_entries[i].mount_point]
=============================================================================
