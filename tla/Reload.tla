------------------------------- MODULE Reload -------------------------------
(***************************************************************************)
(* Hot reload: shutdown.WatchReload, which waits for SIGHUP, and           *)
(* admin.handleReload, which serves POST /admin/reload, both re-read the   *)
(* configuration (config.Reload) and have Gateway.Reload build a route     *)
(* table from it and swap it in.  Nothing serialises them, and the file is *)
(* read through the one global viper instance, which has no lock: a reload *)
(* that has parsed the file may replace what the instance holds after      *)
(* others have read it, and while another is collecting its values.        *)
(*                                                                         *)
(* A configuration is a version number, its rank in the order in which the *)
(* operator wrote the file; grade says what is wrong with it: "syntax" is  *)
(* found by viper.ReadInConfig, "types" by viper.Unmarshal, "ok" nothing.  *)
(* A loaded configuration is the set of the versions its values are from.  *)
(* The callback of WatchReload is built outside of internal/; it is taken  *)
(* to do what handleReload does.                                           *)
(***************************************************************************)
EXTENDS Integers

CONSTANTS Handlers,      \* goroutines serving POST /admin/reload
          Watcher,       \* the goroutine in WatchReload
          LastVersion    \* bound: how often the file is rewritten

Reloaders == Handlers \cup {Watcher}
Versions == 0..LastVersion

ASSUME ReloadConfig == LastVersion \in Nat /\ Watcher \notin Handlers

VARIABLES file,          \* the version on disk
          grade,         \* what is wrong with each version
          viper,         \* the version the global viper instance holds
          table,         \* the configuration of the installed route table
          checked,       \* versions whose upstreams are being health-checked
          sigs,          \* a SIGHUP waits in the channel, which holds one
          signalled,     \* a clean SIGHUP was sent since the file was last written
          pc,            \* of each reloader
          raw,           \* the version it has parsed and not yet handed to viper
          cfg            \* the configuration it has loaded so far

disk == <<file, grade>>
locals == <<pc, raw, cfg>>
vars == <<disk, viper, table, checked, sigs, signalled, locals>>

Labels == {"idle", "read", "assign", "collect", "unmarshal", "build", "store"}

Goto(r, label) == pc' = [pc EXCEPT ![r] = label]

\* The reload is over, and its locals with it.
Done(r) == Goto(r, "idle") /\ cfg' = [cfg EXCEPT ![r] = {}]

Init ==
  /\ file = 0
  /\ grade = [v \in Versions |-> "ok"]
  /\ viper = 0
  /\ table = {0}
  /\ checked = {0}
  /\ sigs = FALSE
  /\ signalled = FALSE
  /\ pc = [r \in Reloaders |-> "idle"]
  /\ raw = [r \in Reloaders |-> 0]
  /\ cfg = [r \in Reloaders |-> {}]
-----------------------------------------------------------------------------
(***************************************************************************)
(* The operator.                                                           *)
(***************************************************************************)
Edit ==
  /\ file < LastVersion
  /\ file' = file + 1
  /\ \E w \in {"ok", "syntax", "types"} : grade' = [grade EXCEPT ![file + 1] = w]
  /\ signalled' = FALSE
  /\ UNCHANGED <<viper, table, checked, sigs, locals>>

\* No request of the admin API still has to replace what viper holds by an older
\* version than the one on disk.
Clean == \A h \in Handlers : pc[h] = "assign" => raw[h] = file

\* Variant of Hup: a channel without a buffer only takes a signal while the
\* watcher is waiting for one.
HupUnbuffered ==
  /\ sigs' = (sigs \/ pc[Watcher] = "idle")
  /\ signalled' = (signalled \/ Clean)
  /\ UNCHANGED <<disk, viper, table, checked, locals>>

\* signal.Notify does not block: a signal that finds the channel full is dropped.
Hup ==
  /\ sigs' = TRUE
  /\ signalled' = (signalled \/ Clean)
  /\ UNCHANGED <<disk, viper, table, checked, locals>>
-----------------------------------------------------------------------------
(***************************************************************************)
(* The two ways into a reload, and the reload.                             *)
(***************************************************************************)
WatchReload ==
  /\ pc[Watcher] = "idle"
  /\ sigs
  /\ sigs' = FALSE
  /\ Goto(Watcher, "read")
  /\ UNCHANGED <<disk, viper, table, checked, signalled, raw, cfg>>

handleReload(h) ==
  /\ pc[h] = "idle"
  /\ Goto(h, "read")
  /\ UNCHANGED <<disk, viper, table, checked, sigs, signalled, raw, cfg>>

\* viper.ReadInConfig reads and parses the file, and replaces what the instance
\* holds only if it parses, in a later step.
ReadInConfig(r) ==
  /\ pc[r] = "read"
  /\ \/ /\ grade[file] = "syntax"
        /\ Goto(r, "idle")
        /\ UNCHANGED raw
     \/ /\ grade[file] # "syntax"
        /\ raw' = [raw EXCEPT ![r] = file]
        /\ Goto(r, "assign")
  /\ UNCHANGED <<disk, viper, table, checked, sigs, signalled, cfg>>

Assign(r) ==
  /\ pc[r] = "assign"
  /\ viper' = raw[r]
  /\ raw' = [raw EXCEPT ![r] = 0]
  /\ Goto(r, "collect")
  /\ UNCHANGED <<disk, table, checked, sigs, signalled, cfg>>

\* Unmarshal asks the instance for one value after the other, and sees what it
\* holds by then: first these ...
Collect(r) ==
  /\ pc[r] = "collect"
  /\ cfg' = [cfg EXCEPT ![r] = {viper}]
  /\ Goto(r, "unmarshal")
  /\ UNCHANGED <<disk, viper, table, checked, sigs, signalled, raw>>

\* Variant of Unmarshal: its error is dropped.
UnmarshalUnchecked(r) ==
  /\ pc[r] = "unmarshal"
  /\ cfg' = [cfg EXCEPT ![r] = @ \cup {viper}]
  /\ Goto(r, "build")
  /\ UNCHANGED <<disk, viper, table, checked, sigs, signalled, raw>>

\* ... then the others, which another reload may have replaced meanwhile.  Decoding
\* them fails if the value of the wrong type is among them: it is when all of
\* them are from a version that has one, and may be when some are.
Unmarshal(r) ==
  /\ pc[r] = "unmarshal"
  /\ LET loaded == cfg[r] \cup {viper}
     IN  \/ /\ \E v \in loaded : grade[v] = "types"
            /\ Done(r)
         \/ /\ \A v \in Versions : loaded = {v} => grade[v] = "ok"
            /\ cfg' = [cfg EXCEPT ![r] = loaded]
            /\ Goto(r, "build")
  /\ UNCHANGED <<disk, viper, table, checked, sigs, signalled, raw>>

\* buildRoutes, which starts a health checker for every route; nothing ever
\* stops one.
Build(r) ==
  /\ pc[r] = "build"
  /\ checked' = checked \cup cfg[r]
  /\ Goto(r, "store")
  /\ UNCHANGED <<disk, viper, table, sigs, signalled, raw, cfg>>

Store(r) ==
  /\ pc[r] = "store"
  /\ table' = cfg[r]
  /\ Done(r)
  /\ UNCHANGED <<disk, viper, checked, sigs, signalled, raw>>

Step(r) ==
  ReadInConfig(r) \/ Assign(r) \/ Collect(r) \/ Unmarshal(r) \/ Build(r) \/ Store(r)

Next ==
  \/ Edit \/ Hup \/ WatchReload
  \/ \E h \in Handlers : handleReload(h)
  \/ \E r \in Reloaders : Step(r)

Spec == Init /\ [][Next]_vars
-----------------------------------------------------------------------------
\* Every variable has its type: a reloader only ever holds and installs versions
\* of the file that were written.
TypeOK ==
  /\ file \in Versions
  /\ grade \in [Versions -> {"ok", "syntax", "types"}]
  /\ viper \in Versions
  /\ table \in SUBSET Versions
  /\ checked \subseteq Versions
  /\ sigs \in BOOLEAN
  /\ signalled \in BOOLEAN
  /\ pc \in [Reloaders -> Labels]
  /\ raw \in [Reloaders -> Versions]
  /\ cfg \in [Reloaders -> SUBSET Versions]

\* A version of the file that cannot be loaded is never installed, and no table is
\* installed before its upstreams are health-checked, even though one reload may
\* unmarshal what another has just read (config.go:110-123, admin.go:126-136).  A
\* table may well be mixed of two versions.
OnlyGoodTables ==
  /\ \A v \in Versions : table = {v} => grade[v] = "ok"
  /\ table \subseteq checked

\* The installed table never gives way to one with a value of an older version of
\* the file (gateway.go:50-54).  Reloads that overlap may break this: nothing
\* orders the Store of one against the read of another.
NoRollback == [][\A v \in table, w \in table' : w >= v]_table

-----------------------------------------------------------------------------
(***************************************************************************)
(* Liveness: the reloaders run whenever they can.                          *)
(***************************************************************************)
Fairness == WF_vars(WatchReload) /\ \A r \in Reloaders : WF_vars(Step(r))

FairSpec == Spec /\ Fairness

\* A SIGHUP sent after the last change of a loadable file gets it installed, whole,
\* even if it arrives while an earlier one is being served or waits in the channel
\* (shutdown.go:42-57), provided that no admin request that had read an older file
\* by then still has to hand it to viper: one that has assigns it between the
\* watcher's own ReadInConfig and Unmarshal (config.go:111-116), and the signal is
\* lost.  Whatever reloads the admin API starts later do no harm.
SighupInstalls ==
  \A v \in Versions :
    <>[](file = v /\ signalled /\ grade[v] = "ok") => <>(table = {v})
=============================================================================
