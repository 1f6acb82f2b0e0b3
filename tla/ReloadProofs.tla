---------------------------- MODULE ReloadProofs ----------------------------
(***************************************************************************)
(* Concurrent reloads never install a configuration that could not be      *)
(* loaded, for any number of admin requests and of edits.                  *)
(***************************************************************************)
EXTENDS Reload, TLAPS

(***************************************************************************)
(* What has been read is no newer than the file, so that grading the next  *)
(* version of it disturbs nobody; and a reload that has got past Unmarshal *)
(* carries a good configuration, which is health-checked before Store.     *)
(***************************************************************************)
Known == {v \in Versions : v <= file}

Good(c) == \A v \in Versions : c = {v} => grade[v] = "ok"

Inv ==
  /\ TypeOK
  /\ OnlyGoodTables
  /\ table \subseteq Known
  /\ viper \in Known
  /\ \A r \in Reloaders :
       /\ raw[r] \in Known
       /\ cfg[r] \subseteq Known
       /\ pc[r] \in {"build", "store"} => Good(cfg[r])
       /\ pc[r] = "store" => cfg[r] \subseteq checked

LEMMA InvInit == Init => Inv
<1>1. 0 \in Versions /\ 0 <= 0
  BY ReloadConfig DEF Versions
<1> SUFFICES ASSUME Init PROVE Inv
  OBVIOUS
<1>2. TypeOK
  BY <1>1, ZenonT(60) DEF Init, TypeOK, Labels
<1>3. OnlyGoodTables /\ table \subseteq Known /\ viper \in Known
  BY <1>1 DEF Init, OnlyGoodTables, Known
<1>4. \A r \in Reloaders : pc[r] = "idle" /\ cfg[r] = {} /\ raw[r] \in Known
  BY <1>1 DEF Init, Known
<1> QED  BY <1>2, <1>3, <1>4 DEF Inv

LEMMA InvStep ==
  ASSUME Inv, NEW r \in Reloaders, Step(r)
  PROVE  Inv'
<1>1. file \in Known /\ 0 \in Known
  BY ReloadConfig DEF Inv, TypeOK, Versions, Known
<1>2. Known' = Known /\ \A c : Good(c)' <=> Good(c)
  BY DEF Step, ReadInConfig, Assign, Collect, Unmarshal, Build, Store, disk, Known, Good
<1> USE <1>1, <1>2 DEF Inv, TypeOK, Labels, OnlyGoodTables, Goto, Done, disk
<1>3. CASE ReadInConfig(r)  BY <1>3 DEF ReadInConfig
<1>4. CASE Assign(r)        BY <1>4 DEF Assign, Known
<1>5. CASE Collect(r)       BY <1>5 DEF Collect
<1>6. CASE Unmarshal(r)     BY <1>6 DEF Unmarshal, Good
<1>7. CASE Build(r)         BY <1>7 DEF Build
<1>8. CASE Store(r)         BY <1>8 DEF Store, Good
<1> QED  BY <1>3, <1>4, <1>5, <1>6, <1>7, <1>8 DEF Step

LEMMA InvEdit ==
  ASSUME Inv, Edit
  PROVE  Inv'
<1>1. file' = file + 1 /\ file' \in Versions /\ file \in Nat
  BY ReloadConfig DEF Edit, Inv, TypeOK, Versions
<1>2. PICK w \in {"ok", "syntax", "types"} : grade' = [grade EXCEPT ![file + 1] = w]
  BY ZenonT(60) DEF Edit
<1>3. Known \subseteq Known' /\ \A v \in Known : grade'[v] = grade[v]
  BY <1>1, <1>2 DEF Inv, TypeOK, Versions, Known
<1>4. UNCHANGED <<viper, table, checked, sigs, pc, raw, cfg>> /\ signalled' = FALSE
  BY DEF Edit, locals
<1>5. TypeOK'
  BY <1>1, <1>2, <1>4, ZenonT(60) DEF Inv, TypeOK
<1>6. \A c : c \subseteq Known /\ Good(c) => Good(c)'
  BY <1>3 DEF Good
<1>7. Good(table)'
  BY <1>4, <1>6 DEF Inv, OnlyGoodTables, Good
<1>8. OnlyGoodTables'
  BY <1>4, <1>7 DEF Inv, OnlyGoodTables, Good
<1> QED  BY <1>3, <1>4, <1>5, <1>6, <1>8 DEF Inv

LEMMA InvNext == Inv /\ [Next]_vars => Inv'
<1> SUFFICES ASSUME Inv, [Next]_vars PROVE Inv'
  OBVIOUS
<1>1. CASE Hup
  <2>1. (signalled \/ Clean) \in BOOLEAN
    BY DEF Inv, TypeOK, Clean
  <2> QED  BY <1>1, <2>1 DEF Hup, Inv, TypeOK, OnlyGoodTables, Known, Good, disk, locals
<1>2. CASE WatchReload
  BY <1>2, ZenonT(60) DEF WatchReload, Goto, Inv, TypeOK, Labels, OnlyGoodTables, Known, Good, disk, Reloaders
<1>3. ASSUME NEW h \in Handlers, handleReload(h) PROVE Inv'
  BY <1>3 DEF handleReload, Goto, Inv, TypeOK, Labels, OnlyGoodTables, Known, Good, disk, Reloaders
<1>4. CASE UNCHANGED vars
  BY <1>4 DEF vars, disk, locals, Inv, TypeOK, OnlyGoodTables, Known, Good
<1> QED  BY <1>1, <1>2, <1>3, <1>4, InvEdit, InvStep DEF Next

\* Gateway.Reload (gateway.go:50-54) is only ever given a configuration that
\* config.Reload has accepted, whichever reloads read its values, and the table it
\* installs has its health checks running.
THEOREM ReloadIsSafe == Spec => []OnlyGoodTables
<1>1. Inv => OnlyGoodTables
  BY DEF Inv
<1> QED  BY <1>1, InvInit, InvNext, PTL DEF Spec
-----------------------------------------------------------------------------
(***************************************************************************)
(* When only the SIGHUP watcher reloads, reloads do not overlap, and what  *)
(* it carries is of one version, never older than what is installed.       *)
(***************************************************************************)
Newer ==
  /\ \A v \in table : v <= viper
  /\ pc[Watcher] = "assign" => viper <= raw[Watcher]
  /\ pc[Watcher] \in {"unmarshal", "build", "store"} => cfg[Watcher] = {viper}

LEMMA NewerNext ==
  ASSUME Handlers = {}, Inv, Newer, [Next]_vars
  PROVE  Newer' /\ [\A v \in table, w \in table' : w >= v]_table
<1>1. /\ Reloaders = {Watcher}
      /\ table \subseteq Int /\ viper \in Int /\ file \in Int /\ raw[Watcher] \in Int
      /\ viper <= file /\ pc \in [Reloaders -> Labels]
      /\ raw \in [Reloaders -> Versions] /\ cfg \in [Reloaders -> SUBSET Versions]
  BY ReloadConfig DEF Reloaders, Inv, TypeOK, Versions, Known
<1> USE <1>1 DEF Newer, Goto, Done
<1>2. CASE ReadInConfig(Watcher)
  BY <1>2 DEF ReadInConfig
<1>3. CASE Assign(Watcher)
  <2>1. viper' = raw[Watcher] /\ viper <= viper' /\ pc'[Watcher] = "collect" /\ table' = table
    BY <1>3 DEF Assign
  <2>2. \A v \in table : v <= viper'
    BY <2>1
  <2> QED  BY <2>1, <2>2
<1>4. CASE Collect(Watcher)       BY <1>4 DEF Collect
<1>5. CASE Unmarshal(Watcher)     BY <1>5 DEF Unmarshal
<1>6. CASE Build(Watcher)         BY <1>6 DEF Build
<1>7. CASE Store(Watcher)
  <2>1. table' = {viper} /\ viper' = viper /\ pc'[Watcher] = "idle" /\ viper <= viper
    BY <1>7 DEF Store
  <2>2. \A v \in table, w \in {viper} : w >= v
    OBVIOUS
  <2> QED  BY <2>1, <2>2
<1>8. CASE WatchReload            BY <1>8 DEF WatchReload
<1>9. CASE Edit \/ Hup            BY <1>9, ZenonT(60) DEF Edit, Hup, locals
<1>10. CASE UNCHANGED vars        BY <1>10 DEF vars, locals
<1> QED
  BY <1>2, <1>3, <1>4, <1>5, <1>6, <1>7, <1>8, <1>9, <1>10 DEF Next, Step

\* With SIGHUP as the only way to reload, a route table is only ever replaced by
\* one whose values were all read from the same or a later version of the file
\* (shutdown.go:42-57, gateway.go:50-54).
THEOREM NoRollbackAlone ==
  ASSUME Handlers = {}
  PROVE  Spec => NoRollback
<1>1. Init => Newer
  BY DEF Init, Newer, Reloaders
<1> QED  BY <1>1, InvInit, InvNext, NewerNext, PTL DEF Spec, NoRollback
=============================================================================
