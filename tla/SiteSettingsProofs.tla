------------------------- MODULE SiteSettingsProofs -------------------------
(***************************************************************************)
(* Proofs about SiteSettings: type correctness for any number of users,    *)
(* and, when one goroutine has the session, for any choice of calls and of *)
(* settings the application changes, that work is done under the settings  *)
(* the call asked for and that the application's settings come back.       *)
(***************************************************************************)
EXTENDS SiteSettings, SequenceTheorems, TLAPS

(* Where the calls are: inside an instruction a call is at one of its      *)
(* script and of its kind; the value that get read is one of the setting.  *)
Inside(u) == phase[u] \in {"get", "set", "site", "options", "work"}

Placed ==
  \A u \in Users :
    /\ Inside(u) => at[u] <= Len(Script[op[u]])
    /\ phase[u] \in {"get", "set"} => Instr(u).do = "save"
    /\ phase[u] \in {"site", "options", "work"} => Instr(u).do = phase[u]
    /\ phase[u] = "set" => orig[u] \in Values[Instr(u).set]

AnyInv == TypeOK /\ Placed

(* One goroutine has the session. *)
Alone == \E u : Users = {u}

(* Instruction j is the last before i that sets its setting. *)
Saves(script, j) == script[j].do = "save"
LastSave(script, j, i) ==
  /\ Saves(script, j)
  /\ \A k \in 1..(i - 1) : j < k /\ Saves(script, k) => script[k].set # script[j].set

(* The server has what the instructions so far set. *)
Mode ==
  \A u \in Users : Inside(u) =>
    \A j \in 1..(at[u] - 1) : LastSave(Script[op[u]], j, at[u]) =>
      server[Script[op[u]][j].set] = Script[op[u]][j].to

(* What an instruction set is among what will be restored. *)
Remembered ==
  \A u \in Users : Inside(u) =>
    \A j \in 1..(at[u] - 1) : Saves(Script[op[u]], j) =>
      \E k \in 1..Len(deferred[u]) : deferred[u][k].set = Script[op[u]][j].set

(* Nothing is to be restored between calls, and what get read is still the *)
(* server's.                                                               *)
Kept ==
  \A u \in Users :
    /\ phase[u] = "idle" => deferred[u] = <<>>
    /\ phase[u] = "set" => orig[u] = server[Instr(u).set]

(* The last restorer of a setting gives it the application's value; one    *)
(* without a restorer has it.                                              *)
Unsaved(d, s, n) == \A k \in 1..Len(d) : n < k => d[k].set # s
Owed(d, s, now, want) ==
  \/ Unsaved(d, s, 0) /\ now = want
  \/ \E j \in 1..Len(d) : d[j].set = s /\ d[j].to = want /\ Unsaved(d, s, j)
Owing == \A u \in Users : \A s \in Settings \ stale :
           Owed(deferred[u], s, server[s], wanted[s])

OneInv == Mode /\ Remembered /\ Kept /\ Owing

LEMMA ScriptNames ==
  DOMAIN Script = {"ListDatasets", "ListPds", "ListSpool", "SubmitIO", "PurgeJob",
                   "GetJobStatus", "SubmitJesGetByDSN"}
BY DEF Script

LEMMA ValueFacts ==
  /\ Settings = {"FILETYPE", "JESJOBNAME"}
  /\ Values["FILETYPE"] = FileTypes /\ Values["JESJOBNAME"] = JobNames
  /\ "SEQ" \in FileTypes /\ "JES" \in FileTypes /\ "*" \in JobNames
BY DEF Settings, Values, FileTypes, JobNames

(* The shape of the scripts, on which everything below rests.  A SITE with *)
(* two parameters is sent for a setting that was saved before.             *)
Written(script) ==
  \A i \in 1..Len(script) :
    /\ script[i].do \in {"save", "site", "options", "work"}
    /\ script[i].do = "save" =>
         /\ script[i].set \in Settings /\ script[i].to \in Values[script[i].set]
         /\ script[i].multi => \E j \in 1..(i - 1) : Saves(script, j)
                                                   /\ script[j].set = script[i].set

(* What a piece of work needs is what the instructions before it set. *)
Provided(script) ==
  \A i \in 1..Len(script) : script[i].do = "work" =>
    \A s \in Settings :
      \/ Values[s] \subseteq script[i].need[s]
      \/ \E j \in 1..(i - 1) : /\ LastSave(script, j, i) /\ script[j].set = s
                              /\ script[j].to \in script[i].need[s]

LEMMA WrittenFacts ==
  ASSUME NEW o \in DOMAIN Script
  PROVE  /\ Len(Script[o]) \in Nat
         /\ Written(Script[o])
         /\ Provided(Script[o])
<1>1. ASSUME o = "ListDatasets"
      PROVE  Len(ListDatasets) \in Nat /\ Written(ListDatasets) /\ Provided(ListDatasets)
  <2>1. Len(ListDatasets) = 2
    BY DEF ListDatasets
  <2>2. /\ ListDatasets[1].do = "save" /\ ListDatasets[1].set = "FILETYPE"
        /\ ListDatasets[1].to = "SEQ" /\ ~ListDatasets[1].multi
        /\ ListDatasets[2].do = "work" /\ ListDatasets[2].need = SEQ
    BY DEF ListDatasets, Save, Site, Work
  <2>3. Written(ListDatasets)
    BY <2>1, <2>2, ValueFacts DEF Written, Saves
  <2>4. Provided(ListDatasets)
    BY <2>1, <2>2, ValueFacts DEF Provided, LastSave, Saves, SEQ, JES, AnyJob
  <2> QED
    BY <2>1, <2>3, <2>4
<1>2. ASSUME o = "ListPds"
      PROVE  Len(ListPds) \in Nat /\ Written(ListPds) /\ Provided(ListPds)
  <2>1. Len(ListPds) = 2
    BY DEF ListPds
  <2>2. /\ ListPds[1].do = "save" /\ ListPds[1].set = "FILETYPE"
        /\ ListPds[1].to = "SEQ" /\ ~ListPds[1].multi
        /\ ListPds[2].do = "work" /\ ListPds[2].need = SEQ
    BY DEF ListPds, Save, Site, Work
  <2>3. Written(ListPds)
    BY <2>1, <2>2, ValueFacts DEF Written, Saves
  <2>4. Provided(ListPds)
    BY <2>1, <2>2, ValueFacts DEF Provided, LastSave, Saves, SEQ, JES, AnyJob
  <2> QED
    BY <2>1, <2>3, <2>4
<1>3. ASSUME o = "ListSpool"
      PROVE  Len(ListSpool) \in Nat /\ Written(ListSpool) /\ Provided(ListSpool)
  <2>1. Len(ListSpool) = 2
    BY DEF ListSpool
  <2>2. /\ ListSpool[1].do = "save" /\ ListSpool[1].set = "FILETYPE"
        /\ ListSpool[1].to = "JES" /\ ~ListSpool[1].multi
        /\ ListSpool[2].do = "work" /\ ListSpool[2].need = JES
    BY DEF ListSpool, Save, Site, Work
  <2>3. Written(ListSpool)
    BY <2>1, <2>2, ValueFacts DEF Written, Saves
  <2>4. Provided(ListSpool)
    BY <2>1, <2>2, ValueFacts DEF Provided, LastSave, Saves, SEQ, JES, AnyJob
  <2> QED
    BY <2>1, <2>3, <2>4
<1>4. ASSUME o = "SubmitIO"
      PROVE  Len(SubmitIO) \in Nat /\ Written(SubmitIO) /\ Provided(SubmitIO)
  <2>1. Len(SubmitIO) = 3
    BY DEF SubmitIO
  <2>2. /\ SubmitIO[1].do = "options"
        /\ SubmitIO[2].do = "save" /\ SubmitIO[2].set = "FILETYPE"
        /\ SubmitIO[2].to = "JES" /\ ~SubmitIO[2].multi
        /\ SubmitIO[3].do = "work" /\ SubmitIO[3].need = JES
    BY DEF SubmitIO, Save, Options, Work
  <2>3. Written(SubmitIO)
    BY <2>1, <2>2, ValueFacts DEF Written, Saves
  <2>4. Provided(SubmitIO)
    BY <2>1, <2>2, ValueFacts DEF Provided, LastSave, Saves, SEQ, JES, AnyJob
  <2> QED
    BY <2>1, <2>3, <2>4
<1>5. ASSUME o = "PurgeJob"
      PROVE  Len(PurgeJob) \in Nat /\ Written(PurgeJob) /\ Provided(PurgeJob)
  <2>1. Len(PurgeJob) = 2
    BY DEF PurgeJob
  <2>2. /\ PurgeJob[1].do = "save" /\ PurgeJob[1].set = "FILETYPE"
        /\ PurgeJob[1].to = "JES" /\ ~PurgeJob[1].multi
        /\ PurgeJob[2].do = "work" /\ PurgeJob[2].need = JES
    BY DEF PurgeJob, Save, Site, Work
  <2>3. Written(PurgeJob)
    BY <2>1, <2>2, ValueFacts DEF Written, Saves
  <2>4. Provided(PurgeJob)
    BY <2>1, <2>2, ValueFacts DEF Provided, LastSave, Saves, SEQ, JES, AnyJob
  <2> QED
    BY <2>1, <2>3, <2>4
<1>6. ASSUME o = "GetJobStatus"
      PROVE  Len(GetJobStatus) \in Nat /\ Written(GetJobStatus) /\ Provided(GetJobStatus)
  <2>1. Len(GetJobStatus) = 3
    BY DEF GetJobStatus
  <2>2. /\ GetJobStatus[1].do = "save" /\ GetJobStatus[1].set = "FILETYPE"
        /\ GetJobStatus[1].to = "JES" /\ ~GetJobStatus[1].multi
        /\ GetJobStatus[2].do = "save" /\ GetJobStatus[2].set = "JESJOBNAME"
        /\ GetJobStatus[2].to = "*" /\ ~GetJobStatus[2].multi
        /\ GetJobStatus[3].do = "work" /\ GetJobStatus[3].need = AnyJob
    BY DEF GetJobStatus, Save, Site, Work
  <2>3. Written(GetJobStatus)
    BY <2>1, <2>2, ValueFacts DEF Written, Saves
  <2>4. Provided(GetJobStatus)
    BY <2>1, <2>2, ValueFacts DEF Provided, LastSave, Saves, SEQ, JES, AnyJob
  <2> QED
    BY <2>1, <2>3, <2>4
<1>7. ASSUME o = "SubmitJesGetByDSN"
      PROVE  /\ Len(SubmitJesGetByDSN) \in Nat /\ Written(SubmitJesGetByDSN)
             /\ Provided(SubmitJesGetByDSN)
  <2>1. Len(SubmitJesGetByDSN) = 6
    BY DEF SubmitJesGetByDSN
  <2>2. /\ SubmitJesGetByDSN[1].do = "save" /\ SubmitJesGetByDSN[1].set = "FILETYPE"
        /\ SubmitJesGetByDSN[1].to = "SEQ" /\ ~SubmitJesGetByDSN[1].multi
        /\ SubmitJesGetByDSN[2].do = "site"
        /\ SubmitJesGetByDSN[3].do = "work" /\ SubmitJesGetByDSN[3].need = SEQ
        /\ SubmitJesGetByDSN[4].do = "save" /\ SubmitJesGetByDSN[4].set = "FILETYPE"
        /\ SubmitJesGetByDSN[4].to = "JES" /\ SubmitJesGetByDSN[4].multi
        /\ SubmitJesGetByDSN[5].do = "save" /\ SubmitJesGetByDSN[5].set = "JESJOBNAME"
        /\ SubmitJesGetByDSN[5].to = "*" /\ ~SubmitJesGetByDSN[5].multi
        /\ SubmitJesGetByDSN[6].do = "work" /\ SubmitJesGetByDSN[6].need = AnyJob
    BY DEF SubmitJesGetByDSN, Save, Site, Work
  <2>3. Written(SubmitJesGetByDSN)
    BY <2>1, <2>2, ValueFacts DEF Written, Saves
  <2>4. Provided(SubmitJesGetByDSN)
    BY <2>1, <2>2, ValueFacts DEF Provided, LastSave, Saves, SEQ, JES, AnyJob
  <2> QED
    BY <2>1, <2>3, <2>4
<1> QED
  BY <1>1, <1>2, <1>3, <1>4, <1>5, <1>6, <1>7, ScriptNames DEF Script

(* Changing one setting to one of its values leaves a configuration. *)
LEMMA Configured ==
  ASSUME NEW w \in Configurations, NEW s \in Settings, NEW v \in Values[s]
  PROVE  /\ [w EXCEPT ![s] = v] \in Configurations
         /\ [w EXCEPT ![s] = v][s] = v
         /\ \A t \in Settings \ {s} : [w EXCEPT ![s] = v][t] = w[t]
BY ValueFacts DEF Configurations

(* The call of a user is in its script. *)
LEMMA AtInstruction ==
  ASSUME Typed, InScript, Placed, NEW u \in Users
  PROVE  /\ op[u] \in DOMAIN Script /\ Len(Script[op[u]]) \in Nat /\ at[u] \in Nat \ {0}
         /\ at[u] <= Len(Script[op[u]]) + 1
         /\ Inside(u) => at[u] \in 1..Len(Script[op[u]])
<1>1. op[u] \in DOMAIN Script /\ at[u] \in Nat
  BY OpsAssumption DEF Typed
<1>2. Len(Script[op[u]]) \in Nat
  BY <1>1, WrittenFacts
<1>3. at[u] \in 1..(Len(Script[op[u]]) + 1)
  BY DEF InScript
<1>4. Inside(u) => at[u] <= Len(Script[op[u]])
  BY DEF Placed
<1> QED
  BY <1>1, <1>2, <1>3, <1>4

(* What a call saves or sets is a setting, to one of its values. *)
LEMMA AtSave ==
  ASSUME Typed, InScript, Placed, NEW u \in Users, phase[u] \in {"get", "set"}
  PROVE  /\ Saves(Script[op[u]], at[u])
         /\ Instr(u).set \in Settings /\ Instr(u).to \in Values[Instr(u).set]
         /\ Instr(u).multi => \E j \in 1..(at[u] - 1) : Saves(Script[op[u]], j)
                                      /\ Script[op[u]][j].set = Instr(u).set
<1>1. Instr(u).do = "save"
  BY DEF Placed
<1>2. op[u] \in DOMAIN Script /\ at[u] \in 1..Len(Script[op[u]])
  BY AtInstruction DEF Inside
<1> QED
  BY <1>1, <1>2, WrittenFacts DEF Written, Instr, Saves

(* An instruction is entered in its own phase, the end of the script in    *)
(* the one of the restores.                                                *)
LEMMA EntryFacts ==
  ASSUME NEW o \in DOMAIN Script, NEW i \in Nat \ {0}
  PROVE  /\ Entry(Script[o], i) \in {"get", "site", "options", "work", "unwind"}
         /\ Entry(Script[o], i) # "unwind" => i <= Len(Script[o])
         /\ Entry(Script[o], i) = "get" => Script[o][i].do = "save"
         /\ Entry(Script[o], i) \in {"site", "options", "work"} => Script[o][i].do = Entry(Script[o], i)
<1>1. Len(Script[o]) \in Nat /\ Written(Script[o])
  BY WrittenFacts
<1>2. CASE i > Len(Script[o])
  BY <1>2 DEF Entry
<1>3. CASE i <= Len(Script[o])
  <2>1. Script[o][i].do \in {"save", "site", "options", "work"}
    BY <1>1, <1>3 DEF Written
  <2> QED
    BY <1>1, <1>3, <2>1 DEF Entry
<1> QED
  BY <1>1, <1>2, <1>3

(* Advance moves a call to the next instruction, or to the restores. *)
LEMMA StepOn ==
  ASSUME Typed, InScript, Placed, NEW u \in Users, Inside(u), Advance(u)
  PROVE  /\ at' = [at EXCEPT ![u] = at[u] + 1] /\ at' \in [Users -> Nat] /\ at'[u] = at[u] + 1
         /\ at[u] + 1 \in 1..(Len(Script[op[u]]) + 1)
         /\ phase' = [phase EXCEPT ![u] = phase'[u]] /\ phase' \in [Users -> Phases]
         /\ phase'[u] \in {"get", "site", "options", "work", "unwind"}
         /\ phase'[u] # "unwind" => at[u] + 1 <= Len(Script[op[u]])
         /\ phase'[u] = "get" => Script[op[u]][at[u] + 1].do = "save"
         /\ phase'[u] \in {"site", "options", "work"} => Script[op[u]][at[u] + 1].do = phase'[u]
<1>1. op[u] \in DOMAIN Script /\ Len(Script[op[u]]) \in Nat /\ at[u] \in 1..Len(Script[op[u]])
  BY AtInstruction
<1>2. phase'[u] = Entry(Script[op[u]], at[u] + 1)
  BY DEF Advance, Typed
<1>3. /\ at' = [at EXCEPT ![u] = at[u] + 1] /\ at' \in [Users -> Nat] /\ at'[u] = at[u] + 1
      /\ phase' = [phase EXCEPT ![u] = phase'[u]]
  BY DEF Advance, Typed
<1>4. /\ phase'[u] \in {"get", "site", "options", "work", "unwind"}
      /\ phase'[u] # "unwind" => at[u] + 1 <= Len(Script[op[u]])
      /\ phase'[u] = "get" => Script[op[u]][at[u] + 1].do = "save"
      /\ phase'[u] \in {"site", "options", "work"} => Script[op[u]][at[u] + 1].do = phase'[u]
  <2>1. at[u] + 1 \in Nat \ {0}
    BY <1>1
  <2> QED
    BY <1>1, <1>2, <2>1, EntryFacts
<1>5. phase' \in [Users -> Phases]
  <2>1. PICK p \in Phases : p = Entry(Script[op[u]], at[u] + 1)
    BY <1>2, <1>4 DEF Phases
  <2>2. phase' = [phase EXCEPT ![u] = p]
    BY <2>1 DEF Advance
  <2>3. phase \in [Users -> Phases]
    BY DEF Typed
  <2> QED
    BY <2>2, <2>3
<1>6. at[u] + 1 \in 1..(Len(Script[op[u]]) + 1)
  BY <1>1
<1> QED
  BY <1>3, <1>4, <1>5, <1>6, Zenon

(* A step keeps every variable in its type. *)
LEMMA TypedStep == AnyInv /\ [Next]_vars => Typed'
<1> SUFFICES ASSUME AnyInv, [Next]_vars PROVE Typed'
  OBVIOUS
<1> USE DEF AnyInv, TypeOK, Typed, Phases
<1>1. ASSUME NEW u \in Users, NEW o \in Ops, Call(u, o) PROVE Typed'
  <2>1. op[u] \in Ops /\ o \in DOMAIN Script
    BY OpsAssumption
  <2>2. PICK p \in Phases : phase' = [phase EXCEPT ![u] = p]
    <3>1. Entry(Script[o], 1) \in {"get", "site", "options", "work", "unwind"}
      <4> HIDE DEF AnyInv, TypeOK, Typed, Phases
      <4> QED
        BY <2>1, EntryFacts
    <3> QED
      BY <1>1, <3>1 DEF Call
  <2> QED
    BY <1>1, <2>2 DEF Call
<1>2. ASSUME NEW u \in Users, NEW s \in AppSets, NEW v \in FileTypes \cup JobNames,
             SetStatusOf(u, s, v)
      PROVE Typed'
  <2>1. s \in Settings /\ v \in Values[s]
    BY <1>2, AppSetsAssumption DEF SetStatusOf
  <2> QED
    BY <1>2, <2>1, Configured DEF SetStatusOf
<1>3. ASSUME NEW u \in Users, get(u) PROVE Typed'
  <2>1. Instr(u).set \in Settings
    BY <1>3, AtSave DEF get
  <2>2. server[Instr(u).set] \in FileTypes \cup JobNames
    BY <2>1 DEF Configurations
  <2> QED
    BY <1>3, <2>2 DEF get
<1>4. ASSUME NEW u \in Users, set(u) PROVE Typed'
  <2>1. Instr(u).set \in Settings /\ Instr(u).to \in Values[Instr(u).set]
    BY <1>4, AtSave DEF set
  <2>2. server' \in Configurations
    BY <1>4, <2>1, Configured DEF set
  <2>3. [set |-> Instr(u).set, to |-> orig[u]] \in Restorers
    BY <1>4, <2>1, ValueFacts DEF set, Placed, Restorers, FileTypes, JobNames
  <2>4. deferred' \in [Users -> Seq(Restorers)]
    BY <1>4, <2>3 DEF set
  <2>5. Inside(u) /\ Advance(u)
    BY <1>4 DEF set, Inside
  <2>6. at' \in [Users -> Nat] /\ phase' \in [Users -> Phases]
    BY <2>5, StepOn
  <2> QED
    BY <1>4, <2>2, <2>4, <2>6 DEF set
<1>5. ASSUME NEW u \in Users, setErr(u) PROVE Typed'
  <2>1. Instr(u).set \in Settings /\ Instr(u).to \in Values[Instr(u).set]
    BY <1>5, AtSave DEF setErr
  <2>2. server' \in Configurations
    <3>1. [server EXCEPT ![Instr(u).set] = Instr(u).to] \in Configurations
      BY <2>1, Configured
    <3>2. server' = server \/ server' = [server EXCEPT ![Instr(u).set] = Instr(u).to]
      BY <1>5 DEF setErr
    <3> QED
      BY <3>1, <3>2
  <2> QED
    BY <1>5, <2>2 DEF setErr
<1>6. ASSUME NEW u \in Users, Do(u) PROVE Typed'
  <2>1. Inside(u) /\ Advance(u)
    BY <1>6 DEF Do, Inside
  <2>2. at' \in [Users -> Nat] /\ phase' \in [Users -> Phases]
    BY <2>1, StepOn
  <2> QED
    BY <1>6, <2>2 DEF Do
<1>7. ASSUME NEW u \in Users, Err(u) PROVE Typed'
  BY <1>7 DEF Err
<1>8. ASSUME NEW u \in Users, Restore(u) PROVE Typed'
  <2>1. Head(deferred[u]) \in Restorers /\ Tail(deferred[u]) \in Seq(Restorers)
    BY <1>8 DEF Restore
  <2>2. server' \in Configurations
    BY <1>8, <2>1, Configured DEF Restore, Restorers
  <2> QED
    BY <1>8, <2>1, <2>2 DEF Restore
<1>9. ASSUME NEW u \in Users, RestoreErr(u) PROVE Typed'
  <2>1. Head(deferred[u]) \in Restorers /\ Tail(deferred[u]) \in Seq(Restorers)
    BY <1>9 DEF RestoreErr
  <2> QED
    BY <1>9, <2>1 DEF RestoreErr, Restorers
<1>10. ASSUME NEW u \in Users, Return(u) PROVE Typed'
  BY <1>10 DEF Return
<1>11. ASSUME Close PROVE Typed'
  BY <1>11 DEF Close
<1>12. ASSUME UNCHANGED vars PROVE Typed'
  BY <1>12 DEF vars
<1> QED
  BY <1>1, <1>2, <1>3, <1>4, <1>5, <1>6, <1>7, <1>8, <1>9, <1>10, <1>11, <1>12
  DEF Next

(* The next instruction is one of its kind. *)
LEMMA Moved ==
  ASSUME Typed, InScript, Placed, NEW u \in Users, Inside(u), Advance(u),
         op' = op, orig' = orig
  PROVE  InScript' /\ Placed'
<1> USE DEF Typed, Phases, Inside
<1>1. at' = [at EXCEPT ![u] = at[u] + 1] /\ phase' = [phase EXCEPT ![u] = phase'[u]]
  BY StepOn
<1>2. \A v \in Users \ {u} : at'[v] = at[v] /\ phase'[v] = phase[v]
  BY <1>1
<1>3. InScript'
  BY <1>1, <1>2, StepOn DEF InScript
<1>4. phase'[u] \in {"get", "site", "options", "work", "unwind"} /\ at'[u] = at[u] + 1
  BY StepOn
<1>5. /\ phase'[u] \in {"get", "site", "options", "work"} => at'[u] <= Len(Script[op[u]])
      /\ phase'[u] = "get" => Script[op[u]][at'[u]].do = "save"
      /\ phase'[u] \in {"site", "options", "work"} => Script[op[u]][at'[u]].do = phase'[u]
  BY <1>4, StepOn
<1>6. Placed'
  <2> SUFFICES ASSUME NEW v \in Users
               PROVE  /\ Inside(v)' => at'[v] <= Len(Script[op[v]])
                      /\ phase'[v] \in {"get", "set"} => Script[op[v]][at'[v]].do = "save"
                      /\ phase'[v] \in {"site", "options", "work"} => Script[op[v]][at'[v]].do = phase'[v]
                      /\ phase'[v] = "set" => orig[v] \in Values[Script[op[v]][at'[v]].set]
    BY DEF Placed, Instr
  <2>1. CASE v = u
    BY <1>4, <1>5, <2>1
  <2>2. CASE v # u
    BY <1>2, <2>2 DEF Placed, Instr
  <2> QED
    BY <2>1, <2>2
<1> QED
  BY <1>3, <1>6

(* A step leaves each call at an instruction of its kind. *)
LEMMA PlacedStep == AnyInv /\ [Next]_vars => (InScript /\ Placed)'
<1> SUFFICES ASSUME AnyInv, [Next]_vars PROVE (InScript /\ Placed)'
  OBVIOUS
<1> USE AtInstruction DEF AnyInv, TypeOK, Typed, Phases, InScript, Placed, Inside
<1>1. ASSUME NEW u \in Users, NEW o \in Ops, Call(u, o) PROVE (InScript /\ Placed)'
  <2>1. o \in DOMAIN Script /\ Len(Script[o]) \in Nat
    BY OpsAssumption, WrittenFacts
  <2>2. PICK script, entry : script = Script[o] /\ entry = Entry(Script[o], 1)
    OBVIOUS
  <2>3. /\ entry \in {"get", "site", "options", "work", "unwind"}
        /\ entry # "unwind" => 1 <= Len(script)
        /\ entry = "get" => script[1].do = "save"
        /\ entry \in {"site", "options", "work"} => script[1].do = entry
    BY <2>1, <2>2, EntryFacts
  <2>4. /\ op' = [op EXCEPT ![u] = o] /\ at' = [at EXCEPT ![u] = 1]
        /\ phase' = [phase EXCEPT ![u] = entry] /\ orig' = orig
    BY <1>1, <2>2 DEF Call
  <2>5. Script[op'[u]] = script
    BY <2>2, <2>4
  <2> QED
    BY <2>1, <2>3, <2>4, <2>5 DEF Instr
<1>2. ASSUME NEW u \in Users, NEW s \in AppSets, NEW v \in FileTypes \cup JobNames,
             SetStatusOf(u, s, v)
      PROVE (InScript /\ Placed)'
  BY <1>2 DEF SetStatusOf, Instr
<1>3. ASSUME NEW u \in Users, get(u) PROVE (InScript /\ Placed)'
  <2>1. Instr(u).set \in Settings
    BY <1>3, AtSave DEF get
  <2>2. server[Instr(u).set] \in Values[Instr(u).set]
    BY <2>1 DEF Configurations
  <2> QED
    BY <1>3, <2>2 DEF get, Instr
<1>4. ASSUME NEW u \in Users, set(u) PROVE (InScript /\ Placed)'
  BY <1>4, Moved DEF set
<1>5. ASSUME NEW u \in Users, setErr(u) PROVE (InScript /\ Placed)'
  BY <1>5 DEF setErr, Instr
<1>6. ASSUME NEW u \in Users, Do(u) PROVE (InScript /\ Placed)'
  BY <1>6, Moved DEF Do
<1>7. ASSUME NEW u \in Users, Err(u) PROVE (InScript /\ Placed)'
  BY <1>7 DEF Err, Instr
<1>8. ASSUME NEW u \in Users, Restore(u) PROVE (InScript /\ Placed)'
  BY <1>8 DEF Restore, Instr
<1>9. ASSUME NEW u \in Users, RestoreErr(u) PROVE (InScript /\ Placed)'
  BY <1>9 DEF RestoreErr, Instr
<1>10. ASSUME NEW u \in Users, Return(u) PROVE (InScript /\ Placed)'
  BY <1>10 DEF Return, Instr
<1>11. ASSUME Close PROVE (InScript /\ Placed)'
  BY <1>11 DEF Close, Instr
<1>12. ASSUME UNCHANGED vars PROVE (InScript /\ Placed)'
  BY <1>12 DEF vars, Instr
<1> QED
  BY <1>1, <1>2, <1>3, <1>4, <1>5, <1>6, <1>7, <1>8, <1>9, <1>10, <1>11, <1>12
  DEF Next

(* The first state has the types; nothing is going on. *)
LEMMA InitAny == Init => AnyInv
<1> SUFFICES ASSUME Init PROVE AnyInv
  OBVIOUS
<1>1. Typed /\ Placed
  BY DEF Init, Typed, Phases, Placed, Inside
<1>2. InScript
  <2> SUFFICES ASSUME NEW u \in Users PROVE at[u] \in 1..(Len(Script[op[u]]) + 1)
    BY DEF InScript
  <2>1. at[u] = 1 /\ op[u] \in DOMAIN Script
    BY OpsAssumption DEF Init
  <2> QED
    BY <2>1, WrittenFacts
<1> QED
  BY <1>1, <1>2 DEF AnyInv, TypeOK

(* The invariant of the calls of any number of goroutines. *)
THEOREM SharedInvariant == Spec => []AnyInv
<1>1. AnyInv /\ [Next]_vars => AnyInv'
  BY TypedStep, PlacedStep DEF AnyInv, TypeOK
<1> QED
  BY <1>1, InitAny, PTL DEF Spec

(* Type correctness: whatever fails and however the calls interleave, a    *)
(* call stays in its script and a setting is only given one of its values. *)
THEOREM TypeCorrect == Spec => []TypeOK
<1>1. AnyInv => TypeOK
  BY DEF AnyInv
<1> QED
  BY <1>1, SharedInvariant, PTL

---------------------------------------------------------------------------
(* What a deferred restorer will do. *)

(* The sequences of restorers. *)
LEMMA PushFacts ==
  ASSUME NEW d \in Seq(Restorers), NEW r \in Restorers
  PROVE  /\ Len(<<r>> \o d) = Len(d) + 1 /\ Len(d) \in Nat
         /\ (<<r>> \o d)[1] = r
         /\ \A k \in 1..Len(d) : (<<r>> \o d)[k + 1] = d[k]
OBVIOUS

LEMMA PopFacts ==
  ASSUME NEW d \in Seq(Restorers), d # <<>>
  PROVE  /\ Len(d) \in Nat \ {0} /\ Head(d) = d[1] /\ Head(d) \in Restorers
         /\ Tail(d) \in Seq(Restorers) /\ Len(Tail(d)) = Len(d) - 1
         /\ \A k \in 1..(Len(d) - 1) : Tail(d)[k] = d[k + 1]
OBVIOUS

(* A restorer that was just deferred for the value the server had. *)
LEMMA OwedPush ==
  ASSUME NEW d \in Seq(Restorers), NEW r \in Restorers, NEW s \in Settings,
         NEW now, NEW want, NEW then, Owed(d, s, now, want),
         r.set = s => r.to = now, r.set # s => then = now
  PROVE  Owed(<<r>> \o d, s, then, want)
<1> DEFINE e == <<r>> \o d
<1>1. Len(e) = Len(d) + 1 /\ Len(d) \in Nat /\ e[1] = r /\ \A k \in 1..Len(d) : e[k + 1] = d[k]
  BY PushFacts
<1>2. \A k \in 2..Len(e) : e[k] = d[k - 1] /\ k - 1 \in 1..Len(d)
  BY <1>1
<1> HIDE DEF e
<1>3. ASSUME Unsaved(d, s, 0), now = want PROVE Owed(e, s, then, want)
  <2>1. \A k \in 1..Len(e) : 1 < k => e[k].set # s
    BY <1>1, <1>2, <1>3 DEF Unsaved
  <2> QED
    BY <1>1, <1>3, <2>1 DEF Owed, Unsaved
<1>4. ASSUME NEW j \in 1..Len(d), d[j].set = s, d[j].to = want, Unsaved(d, s, j)
      PROVE  Owed(e, s, then, want)
  <2>1. j + 1 \in 1..Len(e) /\ e[j + 1].set = s /\ e[j + 1].to = want
    BY <1>1, <1>4
  <2>2. Unsaved(e, s, j + 1)
    BY <1>1, <1>2, <1>4 DEF Unsaved
  <2> QED
    BY <2>1, <2>2 DEF Owed
<1>5. \/ Unsaved(d, s, 0) /\ now = want
      \/ \E j \in 1..Len(d) : d[j].set = s /\ d[j].to = want /\ Unsaved(d, s, j)
  BY DEF Owed
<1>6. Owed(e, s, then, want)
  BY <1>3, <1>4, <1>5
<1> QED
  BY <1>6 DEF e

(* The latest restorer has run, or was not for this setting. *)
LEMMA OwedPop ==
  ASSUME NEW d \in Seq(Restorers), d # <<>>, NEW s \in Settings,
         NEW now, NEW want, NEW then, Owed(d, s, now, want),
         Head(d).set = s => then = Head(d).to, Head(d).set # s => then = now
  PROVE  Owed(Tail(d), s, then, want)
<1> DEFINE e == Tail(d)
<1>1. /\ Len(d) \in Nat \ {0} /\ Head(d) = d[1] /\ Len(e) = Len(d) - 1
      /\ \A k \in 1..Len(e) : e[k] = d[k + 1]
  BY PopFacts
<1> HIDE DEF e
<1>2. ASSUME Unsaved(d, s, 0), now = want PROVE Owed(e, s, then, want)
  BY <1>1, <1>2 DEF Owed, Unsaved
<1>3. ASSUME NEW j \in 1..Len(d), d[j].set = s, d[j].to = want, Unsaved(d, s, j)
      PROVE  Owed(e, s, then, want)
  <2>1. CASE j = 1
    <3>1. Unsaved(e, s, 0) /\ then = want
      BY <1>1, <1>3, <2>1 DEF Unsaved
    <3> QED
      BY <3>1 DEF Owed
  <2>2. CASE j # 1
    <3>1. j - 1 \in 1..Len(e) /\ e[j - 1].set = s /\ e[j - 1].to = want
      BY <1>1, <1>3, <2>2
    <3>2. Unsaved(e, s, j - 1)
      BY <1>1, <1>3, <2>2 DEF Unsaved
    <3> QED
      BY <3>1, <3>2 DEF Owed
  <2> QED
    BY <2>1, <2>2
<1>4. \/ Unsaved(d, s, 0) /\ now = want
      \/ \E j \in 1..Len(d) : d[j].set = s /\ d[j].to = want /\ Unsaved(d, s, j)
  BY DEF Owed
<1>5. Owed(e, s, then, want)
  BY <1>2, <1>3, <1>4
<1> QED
  BY <1>5 DEF e

(* What will be restored does not depend on what the server has. *)
LEMMA OwedMasked ==
  ASSUME NEW d \in Seq(Restorers), NEW s, NEW now, NEW want, NEW then,
         Owed(d, s, now, want), \E k \in 1..Len(d) : d[k].set = s
  PROVE  Owed(d, s, then, want)
BY DEF Owed, Unsaved

LEMMA OwedNothing ==
  ASSUME NEW s, NEW now, NEW want
  PROVE  Owed(<<>>, s, now, want) <=> now = want
BY DEF Owed, Unsaved

---------------------------------------------------------------------------

(* The server keeps having what the instructions so far set. *)
LEMMA ModeStep == Alone /\ AnyInv /\ OneInv /\ [Next]_vars => Mode'
<1> SUFFICES ASSUME Alone, AnyInv, OneInv, [Next]_vars PROVE Mode'
  OBVIOUS
<1> USE DEF Alone, AnyInv, TypeOK, Typed, OneInv, Mode, Inside
<1>1. ASSUME NEW u \in Users, NEW o \in Ops, Call(u, o) PROVE Mode'
  <2>1. at'[u] = 1 /\ Users = {u}
    BY <1>1 DEF Call
  <2> QED
    BY <2>1
<1>2. ASSUME NEW u \in Users, NEW s \in AppSets, NEW v \in FileTypes \cup JobNames,
             SetStatusOf(u, s, v)
      PROVE Mode'
  BY <1>2 DEF SetStatusOf, Instr
<1>3. ASSUME NEW u \in Users, get(u) PROVE Mode'
  BY <1>3 DEF get, Instr
<1>4. ASSUME NEW u \in Users, set(u) PROVE Mode'
  <2>1. Inside(u) /\ Advance(u) /\ op' = op
    BY <1>4 DEF set, Inside
  <2>2. at'[u] = at[u] + 1 /\ at[u] \in Nat \ {0}
    BY <2>1, StepOn, AtInstruction
  <2> DEFINE script == Script[op[u]]
  <2>3. /\ Saves(script, at[u]) /\ Instr(u) = script[at[u]]
        /\ Instr(u).set \in Settings /\ Instr(u).to \in Values[Instr(u).set]
    BY <1>4, AtSave DEF set, Instr
  <2>4. /\ server'[Instr(u).set] = Instr(u).to
        /\ \A t \in Settings \ {Instr(u).set} : server'[t] = server[t]
    <3>1. server' = [server EXCEPT ![Instr(u).set] = Instr(u).to] /\ server \in Configurations
      BY <1>4 DEF set
    <3> QED
      BY <3>1, <2>3, Configured
  <2>5. op[u] \in DOMAIN Script /\ at[u] \in 1..Len(script)
    BY <2>1, AtInstruction
  <2>6. ASSUME NEW j \in 1..(at[u] + 1 - 1), LastSave(script, j, at[u] + 1)
        PROVE  server'[script[j].set] = script[j].to
    <3>1. CASE j = at[u]
      BY <2>3, <2>4, <3>1
    <3>2. CASE j # at[u]
      <4>1. j \in 1..(at[u] - 1) /\ at[u] \in 1..(at[u] + 1 - 1) /\ j < at[u]
        BY <2>2, <2>6, <3>2
      <4>2. Saves(script, j) /\ \A k \in 1..(at[u] + 1 - 1) :
               j < k /\ Saves(script, k) => script[k].set # script[j].set
        BY <2>6 DEF LastSave
      <4>3. LastSave(script, j, at[u]) /\ script[at[u]].set # script[j].set
        BY <2>2, <2>3, <4>1, <4>2 DEF LastSave
      <4>4. server[script[j].set] = script[j].to
        BY <2>1, <4>1, <4>3
      <4>5. script[j].set \in Settings
        BY <2>5, <4>1, <4>2, WrittenFacts DEF Written, Saves
      <4> QED
        BY <2>3, <2>4, <4>3, <4>4, <4>5
    <3> QED
      BY <3>1, <3>2
  <2>7. Users = {u}
    OBVIOUS
  <2> QED
    BY <2>1, <2>2, <2>6, <2>7
<1>5. ASSUME NEW u \in Users, setErr(u) PROVE Mode'
  BY <1>5 DEF setErr, Instr
<1>6. ASSUME NEW u \in Users, Do(u) PROVE Mode'
  <2>1. Inside(u) /\ Advance(u) /\ op' = op
    BY <1>6 DEF Do, Inside
  <2>2. at'[u] = at[u] + 1 /\ at[u] \in Nat \ {0}
    BY <2>1, StepOn, AtInstruction
  <2> DEFINE script == Script[op[u]]
  <2>3. ~Saves(script, at[u]) /\ server' = server
    BY <1>6 DEF Do, Placed, Instr, Saves
  <2>4. ASSUME NEW j \in 1..(at[u] + 1 - 1), LastSave(script, j, at[u] + 1)
        PROVE  server[script[j].set] = script[j].to
    <3>1. j \in 1..(at[u] - 1) /\ LastSave(script, j, at[u])
      BY <2>2, <2>3, <2>4 DEF LastSave
    <3> QED
      BY <2>1, <3>1
  <2>5. Users = {u}
    OBVIOUS
  <2> QED
    BY <2>1, <2>2, <2>3, <2>4, <2>5
<1>7. ASSUME NEW u \in Users, Err(u) PROVE Mode'
  BY <1>7 DEF Err, Instr
<1>8. ASSUME NEW u \in Users, Restore(u) PROVE Mode'
  BY <1>8 DEF Restore, Instr
<1>9. ASSUME NEW u \in Users, RestoreErr(u) PROVE Mode'
  BY <1>9 DEF RestoreErr, Instr
<1>10. ASSUME NEW u \in Users, Return(u) PROVE Mode'
  BY <1>10 DEF Return, Instr
<1>11. ASSUME Close PROVE Mode'
  BY <1>11 DEF Close, Instr
<1>12. ASSUME UNCHANGED vars PROVE Mode'
  BY <1>12 DEF vars, Instr
<1> QED
  BY <1>1, <1>2, <1>3, <1>4, <1>5, <1>6, <1>7, <1>8, <1>9, <1>10, <1>11, <1>12
  DEF Next

(* What was set stays among what will be restored. *)
LEMMA RememberedStep == Alone /\ AnyInv /\ OneInv /\ [Next]_vars => Remembered'
<1> SUFFICES ASSUME Alone, AnyInv, OneInv, [Next]_vars PROVE Remembered'
  OBVIOUS
<1> USE DEF Alone, AnyInv, TypeOK, Typed, OneInv, Remembered, Inside
<1>1. ASSUME NEW u \in Users, NEW o \in Ops, Call(u, o) PROVE Remembered'
  <2>1. at'[u] = 1 /\ Users = {u}
    BY <1>1 DEF Call
  <2> QED
    BY <2>1
<1>2. ASSUME NEW u \in Users, NEW s \in AppSets, NEW v \in FileTypes \cup JobNames,
             SetStatusOf(u, s, v)
      PROVE Remembered'
  BY <1>2 DEF SetStatusOf, Instr
<1>3. ASSUME NEW u \in Users, get(u) PROVE Remembered'
  BY <1>3 DEF get, Instr
<1>4. ASSUME NEW u \in Users, set(u) PROVE Remembered'
  <2>1. Inside(u) /\ Advance(u) /\ op' = op
    BY <1>4 DEF set, Inside
  <2>2. at'[u] = at[u] + 1 /\ at[u] \in Nat \ {0}
    BY <2>1, StepOn, AtInstruction
  <2> DEFINE script == Script[op[u]]
  <2>3. Saves(script, at[u]) /\ Instr(u) = script[at[u]] /\ Instr(u).set \in Settings
    BY <1>4, AtSave DEF set, Instr
  <2> DEFINE r == [set |-> Instr(u).set, to |-> orig[u]]
  <2>4. r \in Restorers
    BY <1>4, <2>3, ValueFacts DEF set, Placed, Restorers, FileTypes, JobNames
  <2>5. deferred'[u] = <<r>> \o deferred[u] /\ deferred[u] \in Seq(Restorers)
    BY <1>4 DEF set
  <2>6. /\ Len(deferred'[u]) = Len(deferred[u]) + 1 /\ Len(deferred[u]) \in Nat
        /\ deferred'[u][1] = r
        /\ \A k \in 1..Len(deferred[u]) : deferred'[u][k + 1] = deferred[u][k]
    BY <2>4, <2>5, PushFacts
  <2>7. ASSUME NEW j \in 1..(at[u] + 1 - 1), Saves(script, j)
        PROVE  \E k \in 1..Len(deferred'[u]) : deferred'[u][k].set = script[j].set
    <3>1. CASE j = at[u]
      <4>1. 1 \in 1..Len(deferred'[u]) /\ deferred'[u][1].set = script[j].set
        BY <2>3, <2>6, <3>1
      <4> QED
        BY <4>1
    <3>2. CASE j # at[u]
      <4>1. PICK k \in 1..Len(deferred[u]) : deferred[u][k].set = script[j].set
        BY <2>1, <2>2, <2>7, <3>2
      <4>2. k + 1 \in 1..Len(deferred'[u]) /\ deferred'[u][k + 1].set = script[j].set
        BY <2>6, <4>1
      <4> QED
        BY <4>2
    <3> QED
      BY <3>1, <3>2
  <2>8. Users = {u}
    OBVIOUS
  <2> QED
    BY <2>1, <2>2, <2>7, <2>8
<1>5. ASSUME NEW u \in Users, setErr(u) PROVE Remembered'
  BY <1>5 DEF setErr, Instr
<1>6. ASSUME NEW u \in Users, Do(u) PROVE Remembered'
  <2>1. Inside(u) /\ Advance(u) /\ op' = op
    BY <1>6 DEF Do, Inside
  <2>2. at'[u] = at[u] + 1 /\ at[u] \in Nat \ {0}
    BY <2>1, StepOn, AtInstruction
  <2> DEFINE script == Script[op[u]]
  <2>3. ~Saves(script, at[u]) /\ deferred' = deferred
    BY <1>6 DEF Do, Placed, Instr, Saves
  <2>4. ASSUME NEW j \in 1..(at[u] + 1 - 1), Saves(script, j)
        PROVE  \E k \in 1..Len(deferred[u]) : deferred[u][k].set = script[j].set
    <3>1. j \in 1..(at[u] - 1)
      BY <2>2, <2>3, <2>4
    <3> QED
      BY <2>1, <2>4, <3>1
  <2>5. Users = {u}
    OBVIOUS
  <2> QED
    BY <2>1, <2>2, <2>3, <2>4, <2>5
<1>7. ASSUME NEW u \in Users, Err(u) PROVE Remembered'
  BY <1>7 DEF Err, Instr
<1>8. ASSUME NEW u \in Users, Restore(u) PROVE Remembered'
  BY <1>8 DEF Restore, Instr
<1>9. ASSUME NEW u \in Users, RestoreErr(u) PROVE Remembered'
  BY <1>9 DEF RestoreErr, Instr
<1>10. ASSUME NEW u \in Users, Return(u) PROVE Remembered'
  BY <1>10 DEF Return, Instr
<1>11. ASSUME Close PROVE Remembered'
  BY <1>11 DEF Close, Instr
<1>12. ASSUME UNCHANGED vars PROVE Remembered'
  BY <1>12 DEF vars, Instr
<1> QED
  BY <1>1, <1>2, <1>3, <1>4, <1>5, <1>6, <1>7, <1>8, <1>9, <1>10, <1>11, <1>12
  DEF Next

(* What get read stays the server's until it is deferred. *)
LEMMA KeptStep == Alone /\ AnyInv /\ OneInv /\ [Next]_vars => Kept'
<1> SUFFICES ASSUME Alone, AnyInv, OneInv, [Next]_vars PROVE Kept'
  OBVIOUS
<1> USE DEF Alone, AnyInv, TypeOK, Typed, OneInv, Kept
<1>1. ASSUME NEW u \in Users, NEW o \in Ops, Call(u, o) PROVE Kept'
  <2>1. phase'[u] \in {"get", "site", "options", "work", "unwind"} /\ Users = {u}
    BY <1>1, EntryFacts, OpsAssumption DEF Call
  <2> QED
    BY <2>1
<1>2. ASSUME NEW u \in Users, NEW s \in AppSets, NEW v \in FileTypes \cup JobNames,
             SetStatusOf(u, s, v)
      PROVE Kept'
  BY <1>2 DEF SetStatusOf, Instr
<1>3. ASSUME NEW u \in Users, get(u) PROVE Kept'
  BY <1>3 DEF get, Instr
<1>4. ASSUME NEW u \in Users, set(u) PROVE Kept'
  <2>1. phase'[u] \in {"get", "site", "options", "work", "unwind"} /\ Users = {u}
    BY <1>4, StepOn DEF set, Inside
  <2> QED
    BY <2>1
<1>5. ASSUME NEW u \in Users, setErr(u) PROVE Kept'
  BY <1>5 DEF setErr, Instr
<1>6. ASSUME NEW u \in Users, Do(u) PROVE Kept'
  <2>1. phase'[u] \in {"get", "site", "options", "work", "unwind"} /\ Users = {u}
    BY <1>6, StepOn DEF Do, Inside
  <2> QED
    BY <2>1
<1>7. ASSUME NEW u \in Users, Err(u) PROVE Kept'
  BY <1>7 DEF Err, Instr
<1>8. ASSUME NEW u \in Users, Restore(u) PROVE Kept'
  BY <1>8 DEF Restore, Instr
<1>9. ASSUME NEW u \in Users, RestoreErr(u) PROVE Kept'
  BY <1>9 DEF RestoreErr, Instr
<1>10. ASSUME NEW u \in Users, Return(u) PROVE Kept'
  BY <1>10 DEF Return, Instr
<1>11. ASSUME Close PROVE Kept'
  BY <1>11 DEF Close, Instr
<1>12. ASSUME UNCHANGED vars PROVE Kept'
  BY <1>12 DEF vars, Instr
<1> QED
  BY <1>1, <1>2, <1>3, <1>4, <1>5, <1>6, <1>7, <1>8, <1>9, <1>10, <1>11, <1>12
  DEF Next

(* The restorers still lead back to the settings of the application. *)
LEMMA OwingStep == Alone /\ AnyInv /\ OneInv /\ [Next]_vars => Owing'
<1> SUFFICES ASSUME Alone, AnyInv, OneInv, [Next]_vars PROVE Owing'
  OBVIOUS
<1> USE DEF Alone, AnyInv, TypeOK, Typed, OneInv, Owing
<1>1. ASSUME NEW u \in Users, NEW o \in Ops, Call(u, o) PROVE Owing'
  BY <1>1 DEF Call, Instr
<1>2. ASSUME NEW u \in Users, NEW s \in AppSets, NEW v \in FileTypes \cup JobNames,
             SetStatusOf(u, s, v)
      PROVE Owing'
  <2>1. s \in Settings /\ v \in Values[s] /\ deferred[u] = <<>>
    BY <1>2, AppSetsAssumption DEF SetStatusOf, Kept
  <2>2. ASSUME NEW t \in Settings \ stale' PROVE server'[t] = wanted'[t]
    <3>1. CASE t = s
      BY <1>2, <2>1, <3>1, Configured DEF SetStatusOf
    <3>2. CASE t # s
      <4>1. server[t] = wanted[t]
        BY <1>2, <2>1, <2>2, <3>2, OwedNothing DEF SetStatusOf
      <4> QED
        BY <1>2, <2>1, <2>2, <3>2, <4>1, Configured DEF SetStatusOf
    <3> QED
      BY <3>1, <3>2
  <2>3. Users = {u} /\ deferred' = deferred
    BY <1>2 DEF SetStatusOf
  <2> QED
    BY <2>1, <2>2, <2>3, OwedNothing
<1>3. ASSUME NEW u \in Users, get(u) PROVE Owing'
  BY <1>3 DEF get, Instr
<1>4. ASSUME NEW u \in Users, set(u) PROVE Owing'
  <2>1. Instr(u).set \in Settings /\ Instr(u).to \in Values[Instr(u).set]
    BY <1>4, AtSave DEF set
  <2> DEFINE r == [set |-> Instr(u).set, to |-> orig[u]]
  <2>2. r \in Restorers
    BY <1>4, <2>1, ValueFacts DEF set, Placed, Restorers, FileTypes, JobNames
  <2>3. /\ deferred'[u] = <<r>> \o deferred[u] /\ deferred[u] \in Seq(Restorers)
        /\ wanted' = wanted /\ stale' = stale /\ orig[u] = server[Instr(u).set]
    BY <1>4 DEF set, Kept
  <2>4. \A t \in Settings \ {Instr(u).set} : server'[t] = server[t]
    BY <1>4, <2>1, Configured DEF set
  <2>5. ASSUME NEW s \in Settings \ stale
        PROVE  Owed(deferred'[u], s, server'[s], wanted[s])
    <3>1. r.set = s => r.to = server[s]
      BY <2>3
    <3>2. r.set # s => server'[s] = server[s]
      BY <2>4
    <3>3. Owed(deferred[u], s, server[s], wanted[s])
      OBVIOUS
    <3> HIDE DEF r
    <3> QED
      BY <2>2, <2>3, <3>1, <3>2, <3>3, OwedPush
  <2>6. Users = {u}
    OBVIOUS
  <2> QED
    BY <2>3, <2>5, <2>6
<1>5. ASSUME NEW u \in Users, setErr(u) PROVE Owing'
  <2>1. deferred' = deferred /\ wanted' = wanted /\ stale' = stale /\ Users = {u}
    BY <1>5 DEF setErr
  <2>2. CASE server' = server
    BY <2>1, <2>2
  <2>3. CASE server' # server
    <3>1. Instr(u).multi /\ server' = [server EXCEPT ![Instr(u).set] = Instr(u).to]
      BY <1>5, <2>3 DEF setErr
    <3>2. /\ Instr(u).set \in Settings /\ Instr(u).to \in Values[Instr(u).set]
          /\ \E j \in 1..(at[u] - 1) : Saves(Script[op[u]], j)
                                      /\ Script[op[u]][j].set = Instr(u).set
      BY <1>5, <3>1, AtSave DEF setErr
    <3>3. \E k \in 1..Len(deferred[u]) : deferred[u][k].set = Instr(u).set
      BY <1>5, <3>2 DEF setErr, Remembered, Inside
    <3>4. \A t \in Settings \ {Instr(u).set} : server'[t] = server[t]
      BY <3>1, <3>2, Configured
    <3>5. \A s \in Settings \ stale : Owed(deferred[u], s, server[s], wanted[s])
      OBVIOUS
    <3>6. deferred[u] \in Seq(Restorers)
      OBVIOUS
    <3>7. ASSUME NEW s \in Settings \ stale
          PROVE  Owed(deferred[u], s, server'[s], wanted[s])
      BY <3>3, <3>4, <3>5, <3>6, OwedMasked
    <3> QED
      BY <2>1, <3>7
  <2> QED
    BY <2>2, <2>3
<1>6. ASSUME NEW u \in Users, Do(u) PROVE Owing'
  BY <1>6 DEF Do
<1>7. ASSUME NEW u \in Users, Err(u) PROVE Owing'
  BY <1>7 DEF Err, Instr
<1>8. ASSUME NEW u \in Users, Restore(u) PROVE Owing'
  <2>1. /\ deferred[u] # <<>> /\ deferred[u] \in Seq(Restorers)
        /\ deferred'[u] = Tail(deferred[u])
        /\ wanted' = wanted /\ stale' = stale /\ Users = {u}
    BY <1>8 DEF Restore
  <2>2. /\ Head(deferred[u]).set \in Settings
        /\ Head(deferred[u]).to \in Values[Head(deferred[u]).set]
    BY <2>1, PopFacts DEF Restorers
  <2>3. /\ server'[Head(deferred[u]).set] = Head(deferred[u]).to
        /\ \A t \in Settings \ {Head(deferred[u]).set} : server'[t] = server[t]
    BY <1>8, <2>2, Configured DEF Restore
  <2>4. ASSUME NEW s \in Settings \ stale
        PROVE  Owed(deferred'[u], s, server'[s], wanted[s])
    <3>1. Owed(deferred[u], s, server[s], wanted[s])
      OBVIOUS
    <3> QED
      BY <2>1, <2>3, <3>1, OwedPop
  <2> QED
    BY <2>1, <2>4
<1>9. ASSUME NEW u \in Users, RestoreErr(u) PROVE Owing'
  <2>1. /\ deferred[u] # <<>> /\ deferred[u] \in Seq(Restorers)
        /\ deferred'[u] = Tail(deferred[u])
        /\ wanted' = wanted /\ server' = server /\ Users = {u}
        /\ stale' = stale \cup {Head(deferred[u]).set}
    BY <1>9 DEF RestoreErr
  <2>2. ASSUME NEW s \in Settings \ stale'
        PROVE  Owed(deferred'[u], s, server[s], wanted[s])
    <3>1. Owed(deferred[u], s, server[s], wanted[s]) /\ Head(deferred[u]).set # s
      BY <2>1
    <3> QED
      BY <2>1, <3>1, OwedPop
  <2> QED
    BY <2>1, <2>2
<1>10. ASSUME NEW u \in Users, Return(u) PROVE Owing'
  BY <1>10 DEF Return, Instr
<1>11. ASSUME Close PROVE Owing'
  BY <1>11 DEF Close, Instr
<1>12. ASSUME UNCHANGED vars PROVE Owing'
  BY <1>12 DEF vars, Instr
<1> QED
  BY <1>1, <1>2, <1>3, <1>4, <1>5, <1>6, <1>7, <1>8, <1>9, <1>10, <1>11, <1>12
  DEF Next

(* One goroutine: the invariant of its calls. *)
THEOREM OneInvariant ==
  ASSUME Alone
  PROVE  Spec => [](AnyInv /\ OneInv)
<1>1. Init => AnyInv /\ OneInv
  <2> SUFFICES ASSUME Init PROVE OneInv
    BY InitAny
  <2>1. Mode /\ Remembered /\ Kept
    BY DEF Init, Mode, Remembered, Kept, Inside
  <2>2. Owing
    BY OwedNothing DEF Init, Owing
  <2> QED
    BY <2>1, <2>2 DEF OneInv
<1>2. AnyInv /\ OneInv /\ [Next]_vars => (AnyInv /\ OneInv)'
  BY Alone, TypedStep, PlacedStep, ModeStep, RememberedStep, KeptStep, OwingStep
  DEF AnyInv, TypeOK, OneInv
<1> QED
  BY <1>1, <1>2, PTL DEF Spec

(* With one goroutine, whatever failed before and whatever the application *)
(* set, a listing, a transfer to JES or a DELE is sent only while the      *)
(* server has the settings the call asked for.                             *)
THEOREM WorkInRightMode ==
  ASSUME Alone
  PROVE  Spec => []RightMode
<1>1. AnyInv /\ OneInv => RightMode
  <2> SUFFICES ASSUME AnyInv, OneInv, NEW u \in Users, phase[u] = "work", NEW s \in Settings
               PROVE  server[s] \in Instr(u).need[s]
    BY DEF RightMode
  <2> DEFINE script == Script[op[u]]
  <2>1. op[u] \in DOMAIN Script /\ at[u] \in 1..Len(script)
    BY AtInstruction DEF AnyInv, TypeOK, Inside
  <2>2. Instr(u).do = "work" /\ Instr(u) = script[at[u]]
    BY DEF AnyInv, Placed, Instr
  <2>3. CASE Values[s] \subseteq Instr(u).need[s]
    BY <2>3 DEF AnyInv, TypeOK, Typed, Configurations
  <2>4. ASSUME NEW j \in 1..(at[u] - 1), LastSave(script, j, at[u]), script[j].set = s,
               script[j].to \in Instr(u).need[s]
        PROVE  server[s] \in Instr(u).need[s]
    BY <2>4 DEF OneInv, Mode, Inside
  <2> QED
    BY <2>1, <2>2, <2>3, <2>4, WrittenFacts DEF Provided
<1> QED
  BY <1>1, OneInvariant, PTL

(* With one goroutine, once its call is over the settings are the ones the *)
(* application chose, save those whose restore was refused: whatever step  *)
(* failed, a SITE taken half included.                                     *)
THEOREM SettingsComeBack ==
  ASSUME Alone
  PROVE  Spec => []SettingsRestored
<1>1. AnyInv /\ OneInv => SettingsRestored
  <2> SUFFICES ASSUME OneInv, \A u \in Users : phase[u] = "idle", NEW s \in Settings \ stale
               PROVE  server[s] = wanted[s]
    BY DEF SettingsRestored
  <2>1. PICK u : Users = {u}
    BY Alone DEF Alone
  <2>2. deferred[u] = <<>> /\ Owed(deferred[u], s, server[s], wanted[s])
    BY <2>1 DEF OneInv, Kept, Owing
  <2> QED
    BY <2>2, OwedNothing
<1> QED
  BY <1>1, OneInvariant, PTL
=============================================================================
