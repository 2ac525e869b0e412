---------------------------- MODULE SiteSettings ----------------------------
(***************************************************************************)
(* The server settings that listings and JES calls change for their own    *)
(* use (lists.go, jes.go, internal/utils/utils.go): each saves a setting   *)
(* with an XSTA query, sets it with SITE, does its work and, on every way  *)
(* out, sets back what it saved.  Every round trip takes the session mutex *)
(* for itself only, so calls of several goroutines interleave between      *)
(* them.  A round trip is one step here (ControlConn models its inside),   *)
(* and so is the work, a listing, a transfer or a DELE (Transfer).         *)
(***************************************************************************)
EXTENDS Naturals, Sequences

CONSTANTS Users,      \* goroutines that share the session
          Ops,        \* the calls they make, a subset of DOMAIN Script
          AppSets     \* the settings the application changes with SetStatusOf

FileTypes == {"SEQ", "JES", "SQL"}
JobNames == {"*", "MINE"}
Settings == {"FILETYPE", "JESJOBNAME"}
Values == [FILETYPE |-> FileTypes, JESJOBNAME |-> JobNames]

(* What a call does, in order.  multi: the SITE command carries a second   *)
(* parameter, which the server may reject after it took the first.         *)
(* Options: a SITE for each option of the caller, none of which sets one   *)
(* of these settings.                                                      *)
Save(s, v) == [do |-> "save", set |-> s, to |-> v, multi |-> FALSE]
Site == [do |-> "site"]
Options == [do |-> "options"]
Work(need) == [do |-> "work", need |-> need]

SEQ == [FILETYPE |-> {"SEQ"}, JESJOBNAME |-> JobNames]
JES == [FILETYPE |-> {"JES"}, JESJOBNAME |-> JobNames]
AnyJob == [FILETYPE |-> {"JES"}, JESJOBNAME |-> {"*"}]

ListDatasets == <<Save("FILETYPE", "SEQ"), Work(SEQ)>>
ListPds == <<Save("FILETYPE", "SEQ"), Work(SEQ)>>
ListSpool == <<Save("FILETYPE", "JES"), Work(JES)>>
SubmitIO == <<Options, Save("FILETYPE", "JES"), Work(JES)>>
PurgeJob == <<Save("FILETYPE", "JES"), Work(JES)>>
GetJobStatus == <<Save("FILETYPE", "JES"), Save("JESJOBNAME", "*"), Work(AnyJob)>>
SubmitJesGetByDSN ==
  <<Save("FILETYPE", "SEQ"), Site, Work(SEQ),
    [Save("FILETYPE", "JES") EXCEPT !.multi = TRUE],
    Save("JESJOBNAME", "*"), Work(AnyJob)>>

Script ==
  [ListDatasets |-> ListDatasets, ListPds |-> ListPds, ListSpool |-> ListSpool,
   SubmitIO |-> SubmitIO, PurgeJob |-> PurgeJob, GetJobStatus |-> GetJobStatus,
   SubmitJesGetByDSN |-> SubmitJesGetByDSN]

ASSUME OpsAssumption == Ops \subseteq DOMAIN Script
ASSUME AppSetsAssumption == AppSets \subseteq Settings

VARIABLES open,       \* ~s.isClosed
          server,     \* the server's settings
          op, at,     \* per user: its call, and the instruction it is at
          phase,      \* per user: "idle", inside an instruction, or "unwind"
          orig,       \* per user: the value get returned
          deferred,   \* per user: the SetRestorers, latest first
          wanted,     \* the settings the application chose
          stale       \* settings whose restore failed since then

vars == <<open, server, op, at, phase, orig, deferred, wanted, stale>>

Instr(u) == Script[op[u]][at[u]]
Entry(script, i) ==
  IF i > Len(script) THEN "unwind"
  ELSE IF script[i].do = "save" THEN "get" ELSE script[i].do

Configurations == {w \in [Settings -> FileTypes \cup JobNames] :
                     \A s \in Settings : w[s] \in Values[s]}

(* A session after Login, with the settings the server or the application  *)
(* gave it.                                                                *)
Init ==
  /\ open = TRUE
  /\ server \in Configurations
  /\ op \in [Users -> Ops]
  /\ at = [u \in Users |-> 1]
  /\ phase = [u \in Users |-> "idle"]
  /\ orig = [u \in Users |-> "none"]
  /\ deferred = [u \in Users |-> <<>>]
  /\ wanted = server
  /\ stale = {}

Call(u, o) ==
  /\ phase[u] = "idle"
  /\ op' = [op EXCEPT ![u] = o]
  /\ at' = [at EXCEPT ![u] = 1]
  /\ phase' = [phase EXCEPT ![u] = Entry(Script[o], 1)]
  /\ UNCHANGED <<open, server, orig, deferred, wanted, stale>>

(* On to the next instruction, or to the deferred restores. *)
Advance(u) ==
  /\ at' = [at EXCEPT ![u] = @ + 1]
  /\ phase' = [phase EXCEPT ![u] = Entry(Script[op[u]], at[u] + 1)]

(* The application sets a setting: one SITE.  FileType refuses a value it  *)
(* does not know before it sends anything.                                 *)
SetStatusOf(u, s, v) ==
  /\ phase[u] = "idle"
  /\ open
  /\ v \in Values[s]
  /\ server' = [server EXCEPT ![s] = v]
  /\ wanted' = [wanted EXCEPT ![s] = v]
  /\ stale' = stale \ {s}
  /\ UNCHANGED <<open, op, at, phase, orig, deferred>>

---------------------------------------------------------------------------
(* SetValueAndGetCurrent *)

(* Mutant of get: the value read is not kept. *)
getNotKept(u) ==
  /\ phase[u] = "get"
  /\ open
  /\ phase' = [phase EXCEPT ![u] = "set"]
  /\ UNCHANGED <<open, server, op, at, orig, deferred, wanted, stale>>

get(u) ==
  /\ phase[u] = "get"
  /\ open
  /\ orig' = [orig EXCEPT ![u] = server[Instr(u).set]]
  /\ phase' = [phase EXCEPT ![u] = "set"]
  /\ UNCHANGED <<open, server, op, at, deferred, wanted, stale>>

set(u) ==
  /\ phase[u] = "set"
  /\ open
  /\ server' = [server EXCEPT ![Instr(u).set] = Instr(u).to]
  /\ deferred' = [deferred EXCEPT ![u] = <<[set |-> Instr(u).set, to |-> orig[u]]>> \o @]
  /\ Advance(u)
  /\ UNCHANGED <<open, op, orig, wanted, stale>>

(* Mutant of setErr: the error of set is ignored and the call goes on. *)
setErrIgnored(u) ==
  /\ phase[u] = "set"
  /\ Advance(u)
  /\ UNCHANGED <<open, server, op, orig, deferred, wanted, stale>>

(* set fails: nothing is deferred for this setting.  A SITE with two       *)
(* parameters may have changed the first.                                  *)
setErr(u) ==
  /\ phase[u] = "set"
  /\ server' \in {server} \cup
       (IF open /\ Instr(u).multi
        THEN {[server EXCEPT ![Instr(u).set] = Instr(u).to]} ELSE {})
  /\ phase' = [phase EXCEPT ![u] = "unwind"]
  /\ UNCHANGED <<open, op, at, orig, deferred, wanted, stale>>

(* The other round trips of a call: SITE, or its work; without options     *)
(* nothing is sent.                                                        *)
Do(u) ==
  /\ phase[u] \in {"site", "options", "work"}
  /\ open \/ phase[u] = "options"
  /\ Advance(u)
  /\ UNCHANGED <<open, server, op, orig, deferred, wanted, stale>>

(* A query, a SITE or the work fails: on to the deferred restores. *)
Err(u) ==
  /\ phase[u] \in {"get", "site", "options", "work"}
  /\ phase' = [phase EXCEPT ![u] = "unwind"]
  /\ UNCHANGED <<open, server, op, at, orig, deferred, wanted, stale>>

---------------------------------------------------------------------------
(* The deferred Restore calls, latest first. *)

(* Mutant of Restore: the first restorer runs first. *)
RestoreOldest(u) ==
  /\ phase[u] = "unwind"
  /\ open
  /\ deferred[u] # <<>>
  /\ server' = [server EXCEPT ![deferred[u][Len(deferred[u])].set] =
                                deferred[u][Len(deferred[u])].to]
  /\ deferred' = [deferred EXCEPT ![u] = SubSeq(@, 1, Len(@) - 1)]
  /\ UNCHANGED <<open, op, at, phase, orig, wanted, stale>>

Restore(u) ==
  /\ phase[u] = "unwind"
  /\ open
  /\ deferred[u] # <<>>
  /\ server' = [server EXCEPT ![Head(deferred[u]).set] = Head(deferred[u]).to]
  /\ deferred' = [deferred EXCEPT ![u] = Tail(@)]
  /\ UNCHANGED <<open, op, at, phase, orig, wanted, stale>>

(* A failed Restore is only logged. *)
RestoreErr(u) ==
  /\ phase[u] = "unwind"
  /\ deferred[u] # <<>>
  /\ stale' = stale \cup {Head(deferred[u]).set}
  /\ deferred' = [deferred EXCEPT ![u] = Tail(@)]
  /\ UNCHANGED <<open, server, op, at, phase, orig, wanted>>

Return(u) ==
  /\ phase[u] = "unwind"
  /\ deferred[u] = <<>>
  /\ phase' = [phase EXCEPT ![u] = "idle"]
  /\ UNCHANGED <<open, server, op, at, orig, deferred, wanted, stale>>

(* The session is closed: Close, or an I/O failure in a round trip.        *)
Close ==
  /\ open
  /\ open' = FALSE
  /\ UNCHANGED <<server, op, at, phase, orig, deferred, wanted, stale>>

Next ==
  \/ \E u \in Users :
       \/ \E o \in Ops : Call(u, o)
       \/ \E s \in AppSets, v \in FileTypes \cup JobNames : SetStatusOf(u, s, v)
       \/ get(u) \/ set(u) \/ setErr(u) \/ Do(u) \/ Err(u)
       \/ Restore(u) \/ RestoreErr(u) \/ Return(u)
  \/ Close

Spec == Init /\ [][Next]_vars

---------------------------------------------------------------------------
Restorers == {r \in [set : Settings, to : FileTypes \cup JobNames] : r.to \in Values[r.set]}

Phases == {"idle", "get", "set", "site", "options", "work", "unwind"}

Typed ==
  /\ open \in BOOLEAN
  /\ server \in Configurations /\ wanted \in Configurations
  /\ op \in [Users -> Ops]
  /\ at \in [Users -> Nat]
  /\ phase \in [Users -> Phases]
  /\ orig \in [Users -> FileTypes \cup JobNames \cup {"none"}]
  /\ deferred \in [Users -> Seq(Restorers)]
  /\ stale \subseteq Settings

InScript == \A u \in Users : at[u] \in 1..(Len(Script[op[u]]) + 1)

(* Every variable has its type, and a call is in its script or at the end. *)
TypeOK == Typed /\ InScript

(* A listing, a transfer to JES or a DELE is sent only while the server    *)
(* has the settings the call asked for: PurgeJob's comment says it is a    *)
(* DELE under FILETYPE=JES.                                                *)
RightMode ==
  \A u \in Users : open /\ phase[u] = "work" =>
    \A s \in Settings : server[s] \in Instr(u).need[s]

(* When no call is running, the settings are the ones the application      *)
(* chose, except where a restore was refused: whatever step of a call      *)
(* failed (the comments of GetJobStatus, PurgeJob and SubmitJesGetByDSN).  *)
SettingsRestored ==
  open /\ (\A u \in Users : phase[u] = "idle") =>
    \A s \in Settings \ stale : server[s] = wanted[s]
=============================================================================
