---------------------------- MODULE AlertsProofs ----------------------------
(***************************************************************************)
(* Proofs about Alerts, for any mount table, any file systems and any      *)
(* thresholds.                                                             *)
(***************************************************************************)
EXTENDS Alerts, SequenceTheorems, TLAPS

(***************************************************************************)
(* The inductive invariant.                                                *)
(***************************************************************************)

\* Main is in ST_check_mtab while it holds the document, and holds the list
\* while it scans.
ControlInv ==
  /\ pc = "check_mtab" <=> call # "idle"
  /\ pc = "check_mtab" <=> srv = Main
  /\ call = "scan" <=> mutex = Main

\* The entries of the table that the entries of a list come from, when the
\* first n were read: in the same order, with the same mount points, none
\* left out that was short of space all the time.
Track(at, list, n) ==
  /\ at \in [DOMAIN list -> 1..n]
  /\ \A i, j \in DOMAIN list : i < j => at[i] < at[j]
  /\ \A i \in DOMAIN list : list[i].mount_point = mtab[at[i]]
  /\ \A k \in 1..n : mtab[k] \in low => \E i \in DOMAIN list : at[i] = k

\* A list that a scan of the first n entries of the table may have made: no
\* mount point in it was well supplied all the time, each has a percentage it
\* had.
PartOfScan(list, n) ==
  /\ \E at : Track(at, list, n)
  /\ \A i \in DOMAIN list : list[i].mount_point \notin high
  /\ \A i \in DOMAIN list : list[i].free_space \in seen[list[i].mount_point]

\* What the history says of the file systems while a scan is under way.
HistoryInv ==
  call = "scan" =>
    \A m \in Mounts : /\ m \in low => CertainlyLow(disk[m], notice_level)
                      /\ m \in high => CertainlyHigh(disk[m], notice_level)
                      /\ Percents(disk[m]) \subseteq seen[m]

\* The list: that of the scan so far, or of the whole last scan.
ListInv == /\ PartOfScan(json_entries, IF call = "scan" THEN pos ELSE Len(mtab))
           /\ low \subseteq Listed(mtab)

\* The document: the literal before the first scan, and the text of the list
\* whenever main does not hold it.
DocumentInv ==
  /\ call = "lock" => pos = 0
  /\ call = "idle" => \/ pos = 0 /\ data = Literal
                      \/ pos = Len(mtab) /\ mtab \in Tables /\ data = json_entries
  /\ call \in {"scan", "returned"} => mtab \in Tables
  /\ call = "returned" => pos = Len(mtab) /\ textural = json_entries

\* The messages of the round: those of the list that is still there.
LoggedInv ==
  pc = "trylock" =>
    /\ \A a \in logged : \E i \in DOMAIN json_entries :
         /\ limits.notice >= json_entries[i].free_space
         /\ a = [entry |-> i,
                 mount_point |-> json_entries[i].mount_point,
                 free_space |-> json_entries[i].free_space,
                 level |-> level(json_entries[i].free_space)]
    /\ \A i \in DOMAIN json_entries :
         limits.notice >= json_entries[i].free_space =>
           [entry |-> i,
            mount_point |-> json_entries[i].mount_point,
            free_space |-> json_entries[i].free_space,
            level |-> level(json_entries[i].free_space)] \in logged

IInv == /\ TypeOK
        /\ ControlInv
        /\ HistoryInv
        /\ ListInv
        /\ DocumentInv
        /\ LoggedInv

(***************************************************************************)
(* Types.                                                                  *)
(***************************************************************************)

\* The percentages of a file system are integers.
LEMMA PercentsInt ==
  ASSUME NEW r \in Readings
  PROVE  Percents(r) \subseteq Int
<1> DEFINE total == r.f_blocks - (r.f_bfree - r.f_bavail)
<1>1. /\ r.f_blocks \in Nat /\ r.f_bfree \in Nat /\ r.f_bavail \in Nat
      /\ r.f_bavail <= r.f_bfree /\ r.f_bfree <= r.f_blocks
  BY ReadingsAssumption DEF Reading
<1>2. total \in Nat BY <1>1
<1>3. total # 0 => (100 * r.f_bavail) \div total \in Int
  <2> HIDE DEF total
  <2> QED BY <1>1, <1>2
<1>4. free_percent(r) \subseteq Int
  BY <1>3 DEF free_percent, IntMin
<1> QED BY <1>4 DEF Percents

\* The table is a sequence of mount points.
LEMMA TableMounts ==
  ASSUME TypeOK
  PROVE  /\ Len(mtab) \in Nat /\ DOMAIN mtab = 1..Len(mtab)
         /\ \A k \in 1..Len(mtab) : mtab[k] \in Mounts
<1>1. mtab \in Seq(Mounts)
  <2>1. mtab \in Tables \/ mtab = <<>> BY DEF TypeOK
  <2>2. <<>> \in Seq(Mounts) OBVIOUS
  <2> QED BY <2>1, <2>2, TablesAssumption
<1> QED BY <1>1, LenProperties

\* The list grows by entries.
LEMMA AppendEntry ==
  ASSUME NEW list \in Seq(Entry), NEW m \in Mounts, NEW p \in Int
  PROVE  LET e == [mount_point |-> m, free_space |-> p]
         IN /\ Append(list, e) \in Seq(Entry)
            /\ DOMAIN Append(list, e) = DOMAIN list \cup {Len(list) + 1}
            /\ \A i \in DOMAIN list : Append(list, e)[i] = list[i]
            /\ Append(list, e)[Len(list) + 1] = e
            /\ Len(list) + 1 \notin DOMAIN list
<1> DEFINE e == [mount_point |-> m, free_space |-> p]
<1>1. e \in Entry BY DEF Entry
<1> HIDE DEF e
<1>2. Append(list, e) \in Seq(Entry) /\ Len(Append(list, e)) = Len(list) + 1
      /\ (\A i \in 1..Len(list) : Append(list, e)[i] = list[i])
      /\ Append(list, e)[Len(list) + 1] = e
  BY <1>1, AppendProperties
<1>3. DOMAIN list = 1..Len(list) /\ Len(list) \in Nat
      /\ DOMAIN Append(list, e) = 1..(Len(list) + 1)
  BY <1>2, LenProperties
<1>4. Append(list, e) \in Seq(Entry)
      /\ DOMAIN Append(list, e) = DOMAIN list \cup {Len(list) + 1}
      /\ (\A i \in DOMAIN list : Append(list, e)[i] = list[i])
      /\ Append(list, e)[Len(list) + 1] = e
      /\ Len(list) + 1 \notin DOMAIN list
  BY <1>2, <1>3
<1> QED BY <1>4 DEF e

\* One iteration of the scan: what it reads, and what it adds to the list.
LEMMA Iteration ==
  ASSUME TypeOK, getmntent
  PROVE  /\ pos' = pos + 1 /\ pos + 1 \in 1..Len(mtab) /\ mtab[pos + 1] \in Mounts
         /\ \/ json_entries' = json_entries /\ Percents(disk[mtab[pos + 1]]) = {}
            \/ \E p \in Percents(disk[mtab[pos + 1]]) :
                 /\ p \in Int
                 /\ \/ notice_level < p /\ json_entries' = json_entries
                    \/ /\ notice_level >= p
                       /\ json_entries' = Append(json_entries, [mount_point |-> mtab[pos + 1],
                                                                free_space |-> p])
<1>1. pos \in Nat /\ pos < Len(mtab) /\ notice_level \in Int
  BY TableMounts DEF getmntent, TypeOK
<1>2. pos + 1 \in 1..Len(mtab) /\ mtab[pos + 1] \in Mounts
  BY <1>1, TableMounts
<1>3. disk[mtab[pos + 1]] \in Readings
  BY <1>2 DEF TypeOK
<1>4. Percents(disk[mtab[pos + 1]]) \subseteq Int
  BY <1>3, PercentsInt
<1> DEFINE m == mtab[pos + 1]
<1>5. CASE ~Measurable(disk[m]) /\ json_entries' = json_entries
  BY <1>2, <1>5 DEF Percents, getmntent
<1>6. ASSUME NEW p \in Percents(disk[m]),
             json_entries' = IF notice_level >= p
                             THEN Append(json_entries, [mount_point |-> m, free_space |-> p])
                             ELSE json_entries
      PROVE  \/ notice_level < p /\ json_entries' = json_entries
             \/ /\ notice_level >= p
                /\ json_entries' = Append(json_entries, [mount_point |-> m, free_space |-> p])
  <2>1. p \in Int BY <1>4
  <2>2. CASE notice_level >= p BY <1>6, <2>2
  <2>3. CASE ~(notice_level >= p) BY <1>1, <1>6, <2>1, <2>3
  <2> QED BY <2>2, <2>3
<1>7. pos' = pos + 1 /\ (\/ ~Measurable(disk[m]) /\ json_entries' = json_entries
                         \/ \E p \in Percents(disk[m]) :
                              json_entries' = IF notice_level >= p
                                THEN Append(json_entries, [mount_point |-> m, free_space |-> p])
                                ELSE json_entries)
  BY DEF getmntent
<1> HIDE DEF m
<1> QED BY <1>2, <1>4, <1>5, <1>6, <1>7 DEF m

\* A message has its type.
LEMMA MessageType ==
  ASSUME TypeOK, log
  PROVE  logged' \subseteq Message
<1>1. \A i \in DOMAIN json_entries :
        /\ i \in Nat
        /\ json_entries[i].mount_point \in Mounts
        /\ json_entries[i].free_space \in Int
  <2>1. \A i \in DOMAIN json_entries : i \in Nat /\ json_entries[i] \in Entry
    BY DEF TypeOK
  <2> QED BY <2>1 DEF Entry
<1>2. \A n : level(n) \in Levels BY DEF level, Levels
<1>3. logged' = {[entry |-> i,
                  mount_point |-> json_entries[i].mount_point,
                  free_space |-> json_entries[i].free_space,
                  level |-> level(json_entries[i].free_space)] :
                   i \in {i \in DOMAIN json_entries : limits.notice >= json_entries[i].free_space}}
  BY Zenon DEF log
<1> QED BY <1>1, <1>2, <1>3 DEF Message

\* Every step keeps the types: the table that is read next may be shorter, and
\* the file was rewound.
LEMMA StepType ==
  ASSUME TypeOK, DocumentInv, [Next]_vars
  PROVE  TypeOK'
<1> USE DEF mtabVars, loopVars, scanVars, historyVars
<1>0. Thresholds \subseteq Threshold BY ThresholdsAssumption
<1>1. CASE UNCHANGED vars BY <1>1 DEF vars, TypeOK
<1>2. CASE copy_config BY <1>0, <1>2 DEF copy_config, TypeOK, Points
<1>3. CASE poll BY <1>3 DEF poll, TypeOK, Points
<1>4. CASE log
  <2>1. logged' \subseteq Message BY <1>4, MessageType
  <2> QED BY <1>4, <2>1 DEF log, TypeOK, Points
<1>5. CASE trylock BY <1>5 DEF trylock, TypeOK, Points, Calls
<1>6. CASE check_mtab
  <2>1. CASE rewind
    <3>1. config.notice \in Int BY <1>0 DEF TypeOK, Threshold
    <3>2. 0 \in 0..Len(mtab) BY TableMounts
    <3> QED BY <1>6, <2>1, <3>1, <3>2 DEF check_mtab, rewind, TypeOK, Calls
  <2>2. CASE chk_lock
    <3>1. \A m \in Mounts : Percents(disk[m]) \subseteq Int BY PercentsInt DEF TypeOK
    <3>2. seen' \in [Mounts -> SUBSET Int] BY <2>2, <3>1 DEF chk_lock
    <3>3. mtab' \in Tables BY <2>2 DEF chk_lock
    <3>4. mtab' \in Seq(Mounts) BY <3>3, TablesAssumption
    <3>5. Len(mtab') \in Nat /\ Listed(mtab') \subseteq Mounts BY <3>4 DEF Listed
    <3>6. low' \subseteq Mounts /\ high' \subseteq Mounts BY <2>2, <3>5 DEF chk_lock
    <3>7. json_entries' \in Seq(Entry) BY <2>2 DEF chk_lock
    <3>8. pos' \in 0..Len(mtab') BY <2>2, <3>5 DEF chk_lock, DocumentInv
    <3> QED BY <1>6, <2>2, <3>2, <3>3, <3>6, <3>7, <3>8 DEF check_mtab, chk_lock, TypeOK, Calls
  <2>3. CASE getmntent
    <3>1. pos' \in 0..Len(mtab')
      <4>1. mtab' = mtab BY <2>3 DEF getmntent
      <4>2. pos' \in 1..Len(mtab) /\ Len(mtab) \in Nat BY <2>3, Iteration, TableMounts
      <4> QED BY <4>1, <4>2
    <3>2. json_entries' \in Seq(Entry)
      <4>1. CASE json_entries' = json_entries BY <4>1 DEF TypeOK
      <4>2. CASE json_entries' # json_entries
        <5>1. PICK p \in Int : json_entries' = Append(json_entries, [mount_point |-> mtab[pos + 1],
                                                                    free_space |-> p])
          BY <2>3, <4>2, Iteration
        <5>2. json_entries \in Seq(Entry) /\ mtab[pos + 1] \in Mounts
          BY <2>3, Iteration DEF TypeOK
        <5> QED BY <5>1, <5>2, AppendEntry
      <4> QED BY <4>1, <4>2
    <3> QED BY <1>6, <2>3, <3>1, <3>2 DEF check_mtab, getmntent, TypeOK
  <2>4. CASE stringify BY <1>6, <2>4 DEF check_mtab, stringify, TypeOK, Calls
  <2> QED BY <1>6, <2>1, <2>2, <2>3, <2>4 DEF check_mtab, ST_check_mtab
<1>7. CASE publish BY <1>7 DEF publish, TypeOK, Points, Calls, Documents
<1>8. CASE copy_lock \/ copy BY <1>8 DEF copy_lock, copy, TypeOK
<1>9. ASSUME NEW c \in Thresholds, reload(c) PROVE TypeOK'
  <2>1. pc' \in Points BY <1>9 DEF reload, TypeOK, Points
  <2> QED BY <1>9, <2>1 DEF reload, TypeOK
<1>10. CASE fill
  <2>1. PICK m \in Mounts, r \in Readings : Fill(m, r) BY <1>10 DEF fill
  <2>2. Percents(r) \subseteq Int BY PercentsInt
  <2>3. disk' \in [Mounts -> Readings] BY <2>1 DEF Fill, TypeOK
  <2>4. seen' \in [Mounts -> SUBSET Int] BY <2>1, <2>2 DEF Fill, TypeOK
  <2>5. low' \subseteq Mounts /\ high' \subseteq Mounts BY <2>1 DEF Fill, TypeOK
  <2> QED BY <1>10, <2>1, <2>3, <2>4, <2>5 DEF fill, Fill, TypeOK
<1> QED BY <1>1, <1>2, <1>3, <1>4, <1>5, <1>6, <1>7, <1>8, <1>9, <1>10 DEF Next, ST_check_loop

\* The initial states have them.
LEMMA InitType == Init => TypeOK
<1> SUFFICES ASSUME Init PROVE TypeOK
  OBVIOUS
<1>1. pos \in 0..Len(mtab) BY DEF Init, MtabInit
<1>2. limits \in Threshold BY DEF Init, Threshold
<1>3. json_entries \in Seq(Entry) /\ textural \in Seq(Entry) BY DEF Init, MtabInit
<1>4. seen \in [Mounts -> SUBSET Int] BY DEF Init, MtabInit
<1> QED BY <1>1, <1>2, <1>3, <1>4 DEF Init, MtabInit, TypeOK, Calls, Points, Documents

(***************************************************************************)
(* The invariant.                                                          *)
(***************************************************************************)

\* A step of main outside ST_check_mtab, of the server thread or of a signal
\* keeps the control.
LEMMA StepControl ==
  ASSUME TypeOK, ControlInv, [Next]_vars
  PROVE  ControlInv'
<1> USE ServerAssumption, OwnersAssumption DEF ControlInv, mtabVars, loopVars, scanVars
<1>1. CASE UNCHANGED vars BY <1>1 DEF vars
<1>2. CASE copy_config \/ poll \/ log BY <1>2 DEF copy_config, poll, log
<1>3. CASE trylock BY <1>3 DEF trylock, TypeOK
<1>4. CASE check_mtab
  BY <1>4 DEF check_mtab, ST_check_mtab, rewind, chk_lock, getmntent, stringify
<1>5. CASE publish BY <1>5 DEF publish
<1>6. CASE copy_lock \/ copy BY <1>6 DEF copy_lock, copy
<1>7. ASSUME NEW c \in Thresholds, reload(c) PROVE ControlInv'
  BY <1>7 DEF reload
<1>8. CASE fill BY <1>8 DEF fill, Fill
<1> QED BY <1>1, <1>2, <1>3, <1>4, <1>5, <1>6, <1>7, <1>8 DEF Next, ST_check_loop

\* The history follows the file systems.
LEMMA StepHistory ==
  ASSUME TypeOK, ControlInv, HistoryInv, [Next]_vars
  PROVE  HistoryInv'
<1> USE DEF mtabVars, loopVars, scanVars, historyVars
<1>1. ASSUME UNCHANGED <<disk, notice_level, historyVars>>, call' = "scan" => call = "scan"
      PROVE  HistoryInv'
  BY <1>1 DEF HistoryInv
<1>2. CASE UNCHANGED vars BY <1>1, <1>2 DEF vars
<1>3. CASE copy_config \/ poll \/ log \/ copy_lock \/ copy
  BY <1>1, <1>3 DEF copy_config, poll, log, copy_lock, copy
<1>4. CASE trylock \/ publish BY <1>1, <1>4 DEF trylock, publish
<1>5. CASE check_mtab
  <2>1. CASE rewind \/ stringify BY <2>1 DEF rewind, stringify, HistoryInv
  <2>2. CASE chk_lock BY <2>2 DEF chk_lock, HistoryInv
  <2>3. CASE getmntent BY <1>1, <2>3 DEF getmntent
  <2> QED BY <1>5, <2>1, <2>2, <2>3 DEF check_mtab, ST_check_mtab
<1>6. ASSUME NEW c \in Thresholds, reload(c) PROVE HistoryInv'
  BY <1>1, <1>6 DEF reload
<1>7. CASE fill
  <2>1. PICK m \in Mounts, r \in Readings : Fill(m, r) BY <1>7 DEF fill
  <2>2. UNCHANGED <<call, notice_level>> BY <2>1 DEF Fill
  <2>3. CASE call # "scan" BY <2>2, <2>3 DEF HistoryInv
  <2>4. CASE call = "scan"
    <3>1. /\ disk' = [disk EXCEPT ![m] = r]
          /\ low' = IF CertainlyLow(r, notice_level) THEN low ELSE low \ {m}
          /\ high' = IF CertainlyHigh(r, notice_level) THEN high ELSE high \ {m}
          /\ seen' = [seen EXCEPT ![m] = seen[m] \cup Percents(r)]
      BY <2>1, <2>4 DEF Fill, Scanning
    <3>2. disk'[m] = r /\ \A x \in Mounts : x # m => disk'[x] = disk[x]
      BY <3>1 DEF TypeOK
    <3>3. /\ seen'[m] = seen[m] \cup Percents(r)
          /\ \A x \in Mounts : x # m => seen'[x] = seen[x]
      BY <3>1 DEF TypeOK
    <3>4. ASSUME NEW x \in Mounts
          PROVE  /\ x \in low' => CertainlyLow(disk'[x], notice_level)
                 /\ x \in high' => CertainlyHigh(disk'[x], notice_level)
                 /\ Percents(disk'[x]) \subseteq seen'[x]
      <4>1. CASE x = m BY <3>1, <3>2, <3>3, <4>1
      <4>2. CASE x # m BY <2>4, <3>1, <3>2, <3>3, <4>2 DEF HistoryInv
      <4> QED BY <4>1, <4>2
    <3> QED BY <2>2, <3>4 DEF HistoryInv, CertainlyLow, CertainlyHigh
  <2> QED BY <2>3, <2>4
<1> QED BY <1>2, <1>3, <1>4, <1>5, <1>6, <1>7 DEF Next, ST_check_loop

\* One iteration of the scan extends the list as it should.
LEMMA IterationList ==
  ASSUME TypeOK, HistoryInv, ListInv, getmntent
  PROVE  ListInv'
<1>a. PICK n : n = pos + 1 OBVIOUS
<1>b. PICK m : m = mtab[n] OBVIOUS
<1>c. /\ pos \in Nat /\ pos' = n /\ n \in 1..Len(mtab) /\ m \in Mounts
      /\ DOMAIN mtab = 1..Len(mtab) /\ Len(mtab) \in Nat
  BY <1>a, <1>b, Iteration, TableMounts DEF TypeOK
<1>d. \/ json_entries' = json_entries /\ Percents(disk[m]) = {}
      \/ \E p \in Percents(disk[m]) :
           /\ p \in Int
           /\ \/ notice_level < p /\ json_entries' = json_entries
              \/ /\ notice_level >= p
                 /\ json_entries' = Append(json_entries, [mount_point |-> m, free_space |-> p])
  BY <1>a, <1>b, Iteration, Zenon
<1>1. /\ call = "scan" /\ call' = "scan" /\ UNCHANGED <<low, high, seen>>
      /\ notice_level \in Int /\ json_entries \in Seq(Entry)
  BY DEF getmntent, historyVars, TypeOK
<1>2. PartOfScan(json_entries, pos) BY <1>1 DEF ListInv
<1>4. /\ m \in low => CertainlyLow(disk[m], notice_level)
      /\ m \in high => CertainlyHigh(disk[m], notice_level)
      /\ Percents(disk[m]) \subseteq seen[m]
  BY <1>1, <1>c DEF HistoryInv
<1>5. 1..n = 1..pos \cup {n} BY <1>a, <1>c
<1>t. PICK at : Track(at, json_entries, pos) BY <1>2 DEF PartOfScan
<1>m. mtab' = mtab BY DEF getmntent
<1>6. ASSUME NEW at2, Track(at2, json_entries', n),
             \A i \in DOMAIN json_entries' :
                  /\ json_entries'[i].mount_point \notin high
                  /\ json_entries'[i].free_space \in seen[json_entries'[i].mount_point]
      PROVE  ListInv'
  <2>1. Track(at2, json_entries, pos)' BY <1>1, <1>6, <1>c, <1>m DEF Track
  <2>2. PartOfScan(json_entries, pos)' BY <1>1, <1>6, <1>c, <2>1 DEF PartOfScan
  <2>3. (low \subseteq Listed(mtab))' BY <1>1, <1>m DEF ListInv, Listed
  <2> QED BY <2>2, <2>3, <1>1 DEF ListInv
<1>8. CASE json_entries' = json_entries
  <2>1. m \notin low
    <3>1. ASSUME NEW p \in Int,
                 json_entries' = Append(json_entries, [mount_point |-> m, free_space |-> p])
          PROVE  FALSE
      BY <1>1, <1>8, <1>c, <3>1, AppendEntry
    <3>2. \/ Percents(disk[m]) = {}
          \/ \E p \in Percents(disk[m]) : p \in Int /\ notice_level < p
      BY <1>d, <3>1
    <3> QED BY <1>1, <1>4, <3>2 DEF CertainlyLow
  <2>2. at \in [DOMAIN json_entries -> 1..n]
    <3>1. 1..pos \subseteq 1..n BY <1>5
    <3> QED BY <1>t, <3>1 DEF Track
  <2>3. \A k \in 1..n : mtab[k] \in low => \E i \in DOMAIN json_entries : at[i] = k
    BY <1>5, <1>b, <1>t, <2>1 DEF Track
  <2>4. Track(at, json_entries, n) BY <1>t, <2>2, <2>3 DEF Track
  <2> QED BY <1>2, <1>6, <1>8, <2>4 DEF PartOfScan
<1>9. CASE json_entries' # json_entries
  <2>1. PICK p \in Percents(disk[m]) :
          /\ p \in Int /\ notice_level >= p
          /\ json_entries' = Append(json_entries, [mount_point |-> m, free_space |-> p])
    BY <1>9, <1>d
  <2>e. PICK e : e = [mount_point |-> m, free_space |-> p] OBVIOUS
  <2>n. PICK new : new = Len(json_entries) + 1 OBVIOUS
  <2>2. /\ DOMAIN json_entries' = DOMAIN json_entries \cup {new}
        /\ \A i \in DOMAIN json_entries : json_entries'[i] = json_entries[i]
        /\ json_entries'[new] = e
        /\ new \notin DOMAIN json_entries
    BY <1>1, <1>c, <2>1, <2>e, <2>n, AppendEntry
  <2>3. m \notin high
    BY <1>1, <1>4, <2>1 DEF CertainlyHigh
  <2>4. p \in seen[m] BY <1>4, <2>1
  <2>5. e.mount_point = m /\ e.free_space = p BY <2>e
  <2>6. new \in Nat /\ \A i \in DOMAIN json_entries : i \in Nat /\ i < new
    BY <1>1, <2>n, LenProperties
  <2>a. PICK at2 : at2 = [i \in DOMAIN json_entries' |-> IF i = new THEN n ELSE at[i]] OBVIOUS
  <2>7. \A i \in DOMAIN json_entries : i # new /\ at2[i] = at[i] /\ at[i] \in 1..pos
    BY <1>t, <2>2, <2>a DEF Track
  <2>8. at2[new] = n BY <2>2, <2>a
  <2>9. at2 \in [DOMAIN json_entries' -> 1..n]
    <3>1. \A i \in DOMAIN json_entries' : at2[i] \in 1..n
      BY <1>5, <2>2, <2>7, <2>8
    <3> QED BY <2>a, <3>1
  <2>10. \A i, j \in DOMAIN json_entries' : i < j => at2[i] < at2[j]
    <3>1. ASSUME NEW i \in DOMAIN json_entries', NEW j \in DOMAIN json_entries', i < j
          PROVE  at2[i] < at2[j]
      <4>1. CASE i = new
        <5>1. j = new \/ (j \in Nat /\ j < new) BY <2>2, <2>6
        <5> QED BY <2>6, <3>1, <4>1, <5>1
      <4>2. CASE i # new /\ j = new
        <5>1. at2[i] = at[i] /\ at[i] \in 1..pos BY <2>2, <2>7, <4>2
        <5> QED BY <1>a, <1>c, <2>8, <4>2, <5>1
      <4>3. CASE i # new /\ j # new
        <5>1. i \in DOMAIN json_entries /\ j \in DOMAIN json_entries BY <2>2, <4>3
        <5>2. at[i] < at[j] BY <1>t, <3>1, <5>1 DEF Track
        <5> QED BY <2>7, <5>1, <5>2
      <4> QED BY <4>1, <4>2, <4>3
    <3> QED BY <3>1
  <2>11. \A i \in DOMAIN json_entries' : json_entries'[i].mount_point = mtab[at2[i]]
    <3>1. \A i \in DOMAIN json_entries : json_entries'[i].mount_point = mtab[at2[i]]
      BY <1>t, <2>2, <2>7 DEF Track
    <3>2. json_entries'[new].mount_point = mtab[at2[new]] BY <1>b, <2>2, <2>5, <2>8
    <3> QED BY <2>2, <3>1, <3>2
  <2>12. \A k \in 1..n : mtab[k] \in low => \E i \in DOMAIN json_entries' : at2[i] = k
    <3>1. ASSUME NEW k \in 1..pos, mtab[k] \in low
          PROVE  \E i \in DOMAIN json_entries' : at2[i] = k
      <4>1. PICK i \in DOMAIN json_entries : at[i] = k BY <1>t, <3>1 DEF Track
      <4> QED BY <2>2, <2>7, <4>1
    <3> QED BY <1>5, <2>2, <2>8, <3>1
  <2>13. Track(at2, json_entries', n) BY <2>9, <2>10, <2>11, <2>12 DEF Track
  <2>14. \A i \in DOMAIN json_entries' :
           /\ json_entries'[i].mount_point \notin high
           /\ json_entries'[i].free_space \in seen[json_entries'[i].mount_point]
    BY <1>2, <2>2, <2>3, <2>4, <2>5 DEF PartOfScan
  <2> QED BY <1>6, <2>13, <2>14
<1> QED BY <1>8, <1>9

\* The list is that of a scan.
LEMMA StepList ==
  ASSUME TypeOK, ControlInv, HistoryInv, ListInv, DocumentInv, [Next]_vars
  PROVE  ListInv'
<1> USE DEF mtabVars, loopVars, scanVars, historyVars
<1>1. ASSUME UNCHANGED <<json_entries, low, high, seen, mtab>>,
             (IF call = "scan" THEN pos ELSE Len(mtab))' = IF call = "scan" THEN pos ELSE Len(mtab)
      PROVE  ListInv'
  BY <1>1 DEF ListInv, PartOfScan, Track, Listed
<1>2. CASE UNCHANGED vars BY <1>1, <1>2 DEF vars
<1>3. CASE copy_config \/ poll \/ log \/ copy_lock \/ copy
  BY <1>1, <1>3 DEF copy_config, poll, log, copy_lock, copy
<1>4. CASE trylock \/ publish
  <2>1. call # "scan" /\ call' # "scan"
    BY <1>4 DEF trylock, publish, ControlInv
  <2> QED BY <1>1, <1>4, <2>1 DEF trylock, publish
<1>5. CASE check_mtab
  <2>1. CASE rewind \/ stringify BY <1>1, <2>1 DEF rewind, stringify
  <2>2. CASE chk_lock
    <3>1. json_entries' = <<>> /\ pos' = 0 /\ call' = "scan"
      BY <2>2 DEF chk_lock, DocumentInv
    <3>2. DOMAIN json_entries' = {} BY <3>1
    <3>3. 1..pos' = {} BY <3>1
    <3>4. (Track(<<>>, json_entries, pos))'
      <4>1. <<>> \in [DOMAIN json_entries' -> 1..pos'] BY <3>2
      <4> QED BY <3>2, <3>3, <4>1 DEF Track
    <3>5. PartOfScan(json_entries, pos)' BY <3>2, <3>4 DEF PartOfScan
    <3>6. (low \subseteq Listed(mtab))' BY <2>2 DEF chk_lock
    <3> QED BY <3>1, <3>5, <3>6 DEF ListInv
  <2>3. CASE getmntent BY <2>3, IterationList
  <2> QED BY <1>5, <2>1, <2>2, <2>3 DEF check_mtab, ST_check_mtab
<1>6. ASSUME NEW c \in Thresholds, reload(c) PROVE ListInv'
  BY <1>1, <1>6 DEF reload
<1>7. CASE fill
  <2>1. PICK m \in Mounts, r \in Readings : Fill(m, r) BY <1>7 DEF fill
  <2>2. UNCHANGED <<call, pos, json_entries, mtab>> BY <2>1 DEF Fill
  <2>3. CASE ~Scanning BY <1>1, <2>1, <2>2, <2>3 DEF Fill
  <2>4. CASE Scanning
    <3>1. /\ low' \subseteq low /\ high' \subseteq high
          /\ seen' = [seen EXCEPT ![m] = seen[m] \cup Percents(r)]
      BY <2>1, <2>4 DEF Fill
    <3>2. \A x \in Mounts : seen[x] \subseteq seen'[x]
      BY <3>1 DEF TypeOK
    <3>3. \A i \in DOMAIN json_entries : json_entries[i].mount_point \in Mounts
      <4>1. \A i \in DOMAIN json_entries : json_entries[i] \in Entry
        BY DEF TypeOK
      <4> QED BY <4>1 DEF Entry
    <3>4. PartOfScan(json_entries, pos) BY <2>4 DEF ListInv, Scanning
    <3>5. PICK at : Track(at, json_entries, pos) BY <3>4 DEF PartOfScan
    <3>6. Track(at, json_entries, pos)' BY <2>2, <3>1, <3>5 DEF Track
    <3>7. PartOfScan(json_entries, pos)'
      BY <2>2, <3>1, <3>2, <3>3, <3>4, <3>6 DEF PartOfScan
    <3>8. (low \subseteq Listed(mtab))' BY <2>2, <3>1 DEF ListInv, Listed
    <3> QED BY <2>2, <2>4, <3>7, <3>8 DEF ListInv, Scanning
  <2> QED BY <2>3, <2>4
<1> QED BY <1>2, <1>3, <1>4, <1>5, <1>6, <1>7 DEF Next, ST_check_loop

\* The document follows the list.
LEMMA StepDocument ==
  ASSUME TypeOK, ControlInv, DocumentInv, [Next]_vars
  PROVE  DocumentInv'
<1> USE DEF mtabVars, loopVars, scanVars, historyVars
<1>1. ASSUME UNCHANGED <<call, mtab, pos, data, json_entries, textural>> PROVE DocumentInv'
  BY <1>1 DEF DocumentInv
<1>2. CASE UNCHANGED vars BY <1>1, <1>2 DEF vars
<1>3. CASE copy_config \/ poll \/ log \/ copy_lock \/ copy
  BY <1>1, <1>3 DEF copy_config, poll, log, copy_lock, copy
<1>4. CASE trylock
  <2>1. call = "idle" BY <1>4 DEF trylock, ControlInv
  <2> QED BY <1>4, <2>1 DEF trylock, DocumentInv
<1>5. CASE check_mtab
  BY <1>5 DEF check_mtab, ST_check_mtab, rewind, chk_lock, getmntent, stringify, DocumentInv
<1>6. CASE publish BY <1>6 DEF publish, DocumentInv
<1>7. ASSUME NEW c \in Thresholds, reload(c) PROVE DocumentInv'
  BY <1>1, <1>7 DEF reload
<1>8. CASE fill BY <1>1, <1>8 DEF fill, Fill
<1> QED BY <1>2, <1>3, <1>4, <1>5, <1>6, <1>7, <1>8 DEF Next, ST_check_loop

\* The messages of a round are those of the list, and the list does not
\* change before the round is over.
LEMMA StepLogged ==
  ASSUME TypeOK, ControlInv, LoggedInv, [Next]_vars
  PROVE  LoggedInv'
<1> USE DEF mtabVars, loopVars, scanVars, historyVars
<1>1. ASSUME UNCHANGED <<json_entries, limits, logged>>, pc' = "trylock" => pc = "trylock"
      PROVE  LoggedInv'
  BY <1>1 DEF LoggedInv, level
<1>2. ASSUME pc' # "trylock" PROVE LoggedInv'
  BY <1>2 DEF LoggedInv
<1>3. CASE UNCHANGED vars BY <1>1, <1>3 DEF vars
<1>4. CASE copy_config \/ poll \/ trylock \/ publish
  BY <1>2, <1>4 DEF copy_config, poll, trylock, publish
<1>5. CASE log
  <2>1. logged' = {[entry |-> i,
                    mount_point |-> json_entries[i].mount_point,
                    free_space |-> json_entries[i].free_space,
                    level |-> level(json_entries[i].free_space)] :
                     i \in {i \in DOMAIN json_entries : limits.notice >= json_entries[i].free_space}}
    BY <1>5, Zenon DEF log
  <2>2. UNCHANGED <<json_entries, limits>> BY <1>5 DEF log
  <2>3. \A f : level(f)' = level(f) BY <2>2 DEF level
  <2> QED BY <2>1, <2>2, <2>3 DEF LoggedInv
<1>6. CASE check_mtab
  BY <1>2, <1>6 DEF check_mtab, ST_check_mtab, rewind, chk_lock, getmntent, stringify, ControlInv
<1>7. CASE copy_lock \/ copy BY <1>1, <1>7 DEF copy_lock, copy
<1>8. ASSUME NEW c \in Thresholds, reload(c) PROVE LoggedInv'
  BY <1>1, <1>8 DEF reload
<1>9. CASE fill BY <1>1, <1>9 DEF fill, Fill
<1> QED BY <1>3, <1>4, <1>5, <1>6, <1>7, <1>8, <1>9 DEF Next, ST_check_loop

\* The initial states satisfy the invariant.
LEMMA InitInv == Init => IInv
<1> SUFFICES ASSUME Init PROVE IInv
  OBVIOUS
<1>1. TypeOK BY InitType
<1>2. ControlInv BY ServerAssumption, OwnersAssumption DEF Init, MtabInit, ControlInv
<1>3. HistoryInv /\ DocumentInv /\ LoggedInv
  BY DEF Init, MtabInit, HistoryInv, DocumentInv, LoggedInv
<1>4. ListInv
  <2>1. json_entries = <<>> /\ DOMAIN json_entries = {} /\ low = {} /\ call = "idle"
    BY DEF Init, MtabInit
  <2>2. Track(<<>>, json_entries, Len(mtab))
    <3>1. <<>> \in [DOMAIN json_entries -> 1..Len(mtab)] BY <2>1
    <3> QED BY <2>1, <3>1 DEF Track
  <2> QED BY <2>1, <2>2 DEF ListInv, PartOfScan
<1> QED BY <1>1, <1>2, <1>3, <1>4 DEF IInv

\* The invariant holds in every reachable state.
LEMMA Invariant == Spec => []IInv
<1>1. ASSUME IInv, [Next]_vars PROVE IInv'
  BY <1>1, StepType, StepControl, StepHistory, StepList, StepDocument, StepLogged DEF IInv
<1> QED BY <1>1, InitInv, PTL DEF Spec

\* The variables of the check loop and the scan always have their types.
THEOREM TypeCorrect == Spec => []TypeOK
BY Invariant, PTL DEF IInv

(***************************************************************************)
(* What it implies.                                                        *)
(***************************************************************************)

\* Whatever fills up or drains while the table is read, whatever the table
\* lists and however often, and whenever the thresholds are reloaded, a
\* finished list is the result of one scan: in the order of the table, nothing
\* more often than there, nothing left out that was short of space throughout,
\* nothing in it that was not.
THEOREM ScanIsFaithful == Spec => []ListIsOneScan
<1>1. ASSUME IInv PROVE ListIsOneScan
  <2> SUFFICES ASSUME mutex = Unlocked PROVE ListIsOneScan
    BY DEF ListIsOneScan
  <2>1. PartOfScan(json_entries, Len(mtab))
    BY <1>1, OwnersAssumption DEF IInv, ControlInv, ListInv
  <2>2. DOMAIN mtab = 1..Len(mtab) BY <1>1, TableMounts DEF IInv
  <2>3. Matches(json_entries, mtab) BY <2>1, <2>2 DEF PartOfScan, Track, Matches
  <2> QED BY <2>1, <2>3 DEF PartOfScan, ListIsOneScan
<1> QED BY <1>1, Invariant, PTL

\* The server thread never copies a list in the making or an older one, for
\* mount tables with an entry: an empty table would be read to its end at
\* position 0, which stands for "no scan yet".
THEOREM DocumentIsCurrent ==
  ASSUME <<>> \notin Tables
  PROVE  Spec => []AnswerIsCurrent
<1>1. ASSUME IInv PROVE AnswerIsCurrent
  <2> SUFFICES ASSUME srv = Server PROVE data = IF pos = 0 THEN Literal ELSE json_entries
    BY DEF AnswerIsCurrent
  <2>1. call = "idle" BY <1>1, ServerAssumption DEF IInv, ControlInv
  <2>2. mtab \in Tables => Len(mtab) # 0
    BY TablesAssumption, EmptySeq
  <2> QED BY <1>1, <2>1, <2>2 DEF IInv, DocumentInv
<1> QED BY <1>1, Invariant, PTL

\* What the messages and the list have in common.
LEMMA MessagesOfList ==
  ASSUME IInv, pc = "trylock"
  PROVE  /\ PartOfScan(json_entries, Len(mtab))
         /\ \A a \in logged : \E i \in DOMAIN json_entries :
              a = [entry |-> i,
                   mount_point |-> json_entries[i].mount_point,
                   free_space |-> json_entries[i].free_space,
                   level |-> level(json_entries[i].free_space)]
<1>1. call # "scan" BY DEF IInv, ControlInv
<1>2. PartOfScan(json_entries, Len(mtab)) BY <1>1 DEF IInv, ListInv
<1> QED BY <1>2 DEF IInv, LoggedInv

\* No mount point is reported wrongly or more often than the table has it,
\* though the report comes a round after the scan, possibly under other
\* thresholds.
THEOREM ReportsAreGrounded == Spec => []AlertsGrounded
<1>1. ASSUME IInv PROVE AlertsGrounded
  <2> SUFFICES ASSUME pc = "trylock" PROVE AlertsGrounded
    BY DEF AlertsGrounded
  <2>1. PartOfScan(json_entries, Len(mtab)) BY <1>1, MessagesOfList
  <2>2. \A a \in logged : \E i \in DOMAIN json_entries :
          a = [entry |-> i,
               mount_point |-> json_entries[i].mount_point,
               free_space |-> json_entries[i].free_space,
               level |-> level(json_entries[i].free_space)]
    BY <1>1, MessagesOfList
  <2>3. ASSUME NEW a \in logged PROVE a.mount_point \notin high /\ a.free_space \in seen[a.mount_point]
    BY <2>1, <2>2 DEF PartOfScan
  <2>4. PICK at : Track(at, json_entries, Len(mtab)) BY <2>1 DEF PartOfScan
  <2>5. DOMAIN mtab = 1..Len(mtab) BY <1>1, TableMounts DEF IInv
  <2>6. PICK place : place = [a \in logged |-> at[a.entry]] OBVIOUS
  <2>7. ASSUME NEW a \in logged
        PROVE  /\ a.entry \in DOMAIN json_entries
               /\ place[a] = at[a.entry] /\ place[a] \in DOMAIN mtab
               /\ a.mount_point = mtab[place[a]]
    <3>1. PICK i \in DOMAIN json_entries :
            a = [entry |-> i,
                 mount_point |-> json_entries[i].mount_point,
                 free_space |-> json_entries[i].free_space,
                 level |-> level(json_entries[i].free_space)]
      BY <2>2
    <3>2. a.entry = i /\ a.mount_point = json_entries[i].mount_point BY <3>1
    <3>3. at[i] \in 1..Len(mtab) /\ json_entries[i].mount_point = mtab[at[i]]
      BY <2>4 DEF Track
    <3>4. place[a] = at[i] BY <2>6, <3>2
    <3> QED BY <2>5, <3>2, <3>3, <3>4
  <2>8. ASSUME NEW a \in logged, NEW b \in logged, place[a] = place[b]
        PROVE  a = b
    <3>1. PICK i \in DOMAIN json_entries :
            a = [entry |-> i,
                 mount_point |-> json_entries[i].mount_point,
                 free_space |-> json_entries[i].free_space,
                 level |-> level(json_entries[i].free_space)]
      BY <2>2
    <3>2. PICK j \in DOMAIN json_entries :
            b = [entry |-> j,
                 mount_point |-> json_entries[j].mount_point,
                 free_space |-> json_entries[j].free_space,
                 level |-> level(json_entries[j].free_space)]
      BY <2>2
    <3>3. a.entry = i /\ b.entry = j BY <3>1, <3>2
    <3>4. at[i] = at[j] BY <2>7, <2>8, <3>3
    <3>5. at[i] \in Int /\ at[j] \in Int /\ i \in Int /\ j \in Int
      <4>1. at[i] \in 1..Len(mtab) /\ at[j] \in 1..Len(mtab) BY <2>4 DEF Track
      <4>2. i \in Int /\ j \in Int BY <1>1 DEF IInv, TypeOK
      <4> QED BY <4>1, <4>2
    <3>6. ~(i < j) /\ ~(j < i) BY <2>4, <3>4, <3>5 DEF Track
    <3>7. i = j BY <3>5, <3>6
    <3> QED BY <3>1, <3>2, <3>7
  <2>9. place \in [logged -> DOMAIN mtab] BY <2>6, <2>7
  <2> QED BY <2>3, <2>7, <2>8, <2>9 DEF AlertsGrounded
<1> QED BY <1>1, Invariant, PTL

\* No mount point short of space throughout the scan goes unreported, unless
\* a reload lowered the thresholds before the report.
THEOREM ReportsAreComplete == Spec => []AlertsComplete
<1>1. ASSUME IInv PROVE AlertsComplete
  <2> SUFFICES ASSUME pc = "trylock", NEW m \in low, \A p \in seen[m] : limits.notice >= p
               PROVE  \E a \in logged :
                        /\ a.mount_point = m
                        /\ (\A p \in seen[m] : limits.crit >= p) => a.level = "CRIT"
    BY DEF AlertsComplete
  <2>1. PartOfScan(json_entries, Len(mtab)) BY <1>1, MessagesOfList
  <2>2. PICK k \in 1..Len(mtab) : m = mtab[k]
    BY <1>1, TableMounts DEF IInv, ListInv, Listed
  <2>3. PICK i \in DOMAIN json_entries : json_entries[i].mount_point = m
    BY <2>1, <2>2 DEF PartOfScan, Track
  <2>4. json_entries[i].free_space \in seen[m] BY <2>1, <2>3 DEF PartOfScan
  <2> DEFINE a == [entry |-> i,
                   mount_point |-> json_entries[i].mount_point,
                   free_space |-> json_entries[i].free_space,
                   level |-> level(json_entries[i].free_space)]
  <2>5. a \in logged BY <1>1, <2>4 DEF IInv, LoggedInv
  <2>6. (\A p \in seen[m] : limits.crit >= p) => a.level = "CRIT"
    BY <2>4 DEF level
  <2> QED BY <2>3, <2>5, <2>6
<1> QED BY <1>1, Invariant, PTL
=============================================================================
